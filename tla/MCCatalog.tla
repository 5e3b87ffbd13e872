------------------------------ MODULE MCCatalog ------------------------------
EXTENDS Catalog

\* Two offers whose DID and name concatenate to the same string.
MCOffers == {<< <<"x">>, <<"y", "z">> >>, << <<"x", "y">>, <<"z">> >>}

\* One filter, and the services that it does not select.
MCFilters == {{"selected"}}

\* The contracts and the tables share no variable: it is enough to visit the states
\* of the ones beside the initial state of the others.
Apart ==
  \/ listed = [id \in ServiceIds |-> NoEntry] /\ published = [id \in TariffIds |-> NoEntry]
  \/ Stored = {} /\ (\A t \in Tariffs : tariff[t] = NoTariff) /\ walk = Idle

Symmetry == Permutations(Services) \union Permutations(Tariffs)
=============================================================================
