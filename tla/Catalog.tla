------------------------------- MODULE Catalog -------------------------------
(***************************************************************************)
(* CatalogService and PricingService (src/src/modules/catalog, pricing): a *)
(* client walks through GET /services page by page, and the prices of a    *)
(* page come from a second query.  A POST body is saved as it is: with the *)
(* id of a stored row it overwrites that row, and with a createdAt it puts *)
(* the row anywhere in the listing.  The contracts are beside them.        *)
(*                                                                         *)
(* walk.pc: idle; page (the SELECT on services is awaited); prices (the    *)
(*          SELECT on tariffs is awaited); reply (the page is sent)        *)
(***************************************************************************)
EXTENDS OnChainCatalog, FiniteSets, SequencesExt

CONSTANTS
  Services, Tariffs,
  Kinds,       \* what agentId and q can tell apart in a service
  Filters,     \* the sets of kinds that they may select
  Limits,      \* page sizes a client may ask for
  MaxTime      \* bound on the stamps

ASSUME LimitsAssumption == Limits \subseteq Nat \ {0} /\ MaxTime \in Nat
ASSUME TablesAssumption ==
  IsFiniteSet(Services) /\ IsFiniteSet(Tariffs) /\ "none" \notin Services

VARIABLES
  created,     \* created[s]: createdAt of a row in services, 0 if there is none
  kind,        \* kind[s]: its agentId, name and description
  tariff,      \* tariff[t]: serviceId and createdAt of a row in tariffs
  walk

tables == <<created, kind, tariff>>
vars == <<contracts, tables, walk>>

NoTariff == [service |-> "none", at |-> 0]
Stored == {s \in Services : created[s] > 0}
TariffsOf(s) == {t \in Tariffs : tariff[t].service = s}

Idle == [pc |-> "idle", filter |-> {}, limit |-> 0, page |-> 1,
         owed |-> {}, rows |-> <<>>, prices |-> <<>>]

\* walk.owed: the services that matched when the walk began and have not been on
\* a page.

\* The rows that the walk's filter selects.
Matching == {s \in Stored : kind[s] \in walk.filter}

Init ==
  /\ InitContracts
  /\ created = [s \in Services |-> 0]
  /\ kind = [s \in Services |-> "none"]
  /\ tariff = [t \in Tariffs |-> NoTariff]
  /\ walk = Idle

\* POST /services: save() inserts the row, or overwrites the one that has the id
\* of the body.  A body without a createdAt gets the time of the INSERT; one with
\* it gets any stamp.  A walk whose listing has a row overwritten is owed nothing
\* more.
CreateService(s, k, at) ==
  /\ created' = [created EXCEPT ![s] = at]
  /\ kind' = [kind EXCEPT ![s] = k]
  /\ walk' = IF s \in Matching /\ <<created[s], kind[s]>> # <<at, k>>
             THEN [walk EXCEPT !.owed = {}] ELSE walk
  /\ UNCHANGED <<contracts, tariff>>

\* POST /tariffs, likewise; nothing checks that the service exists.
CreateTariff(t, s, at) ==
  /\ tariff' = [tariff EXCEPT ![t] = [service |-> s, at |-> at]]
  /\ UNCHANGED <<contracts, created, kind, walk>>

-----------------------------------------------------------------------------
\* ORDER BY at DESC; rows with the same stamp come in any order.
NewestFirst(rows, at) ==
  {q \in SetToSeqs(rows) : \A i, j \in DOMAIN q : i < j => at[q[i]] >= at[q[j]]}

\* Faulty form: pages are counted from zero.
Skip_FromZero(page, limit) == page * limit

Skip(page, limit) == (page - 1) * limit

\* GET /services?limit=...&page=1&include=tariffs, with a filter.
Begin(filter, limit) ==
  /\ walk.pc = "idle"
  /\ walk' = [Idle EXCEPT !.pc = "page", !.filter = filter, !.limit = limit,
                          !.owed = {s \in Stored : kind[s] \in filter}]
  /\ UNCHANGED <<contracts, tables>>

\* qb.getMany()
GetMany ==
  /\ walk.pc = "page"
  /\ \E q \in NewestFirst(Matching, created) :
       LET skip == Skip(walk.page, walk.limit) IN
       walk' = [walk EXCEPT !.pc = "prices",
                            !.rows = SubSeq(q, skip + 1, Min({Len(q), skip + walk.limit}))]
  /\ UNCHANGED <<contracts, tables>>

\* Faulty form: a service's list is replaced by each of its tariffs.
Grouped_Overwritten(q, s) ==
  LET own == SelectSeq(q, LAMBDA t : tariff[t].service = s) IN
  IF own = <<>> THEN own ELSE <<Last(own)>>

\* findByServiceIds: the rows of one query, one after the other, each at the end
\* of the bucket of its service.
Grouped(q, s) ==
  LET bucket[i \in 0 .. Len(q)] ==
        IF i = 0 THEN <<>>
        ELSE IF tariff[q[i]].service = s THEN Append(bucket[i - 1], q[i]) ELSE bucket[i - 1]
  IN bucket[Len(q)]

\* tariffRepo.find, or nothing for an empty page; the page is complete.
FindByServiceIds ==
  /\ walk.pc = "prices"
  /\ \E q \in NewestFirst(UNION {TariffsOf(s) : s \in Range(walk.rows)},
                          [t \in Tariffs |-> tariff[t].at]) :
       walk' = [walk EXCEPT !.pc = "reply",
                            !.owed = @ \ Range(walk.rows),
                            !.prices = [i \in DOMAIN walk.rows |-> Grouped(q, walk.rows[i])]]
  /\ UNCHANGED <<contracts, tables>>

Short == Len(walk.rows) < walk.limit

\* The client asks for the next page until one is short.
NextPage ==
  /\ walk.pc = "reply" /\ ~Short
  /\ walk' = [walk EXCEPT !.pc = "page", !.page = @ + 1, !.rows = <<>>, !.prices = <<>>]
  /\ UNCHANGED <<contracts, tables>>

Leave ==
  /\ walk.pc = "reply" /\ Short
  /\ walk' = Idle
  /\ UNCHANGED <<contracts, tables>>

Next ==
  \/ \E s \in Services, k \in Kinds, at \in 1 .. MaxTime : CreateService(s, k, at)
  \/ \E t \in Tariffs, s \in Services, at \in 1 .. MaxTime : CreateTariff(t, s, at)
  \/ \E f \in Filters, n \in Limits : Begin(f, n)
  \/ GetMany \/ FindByServiceIds \/ NextPage \/ Leave
  \/ ContractsNext /\ UNCHANGED <<tables, walk>>

Spec == Init /\ [][Next]_vars
-----------------------------------------------------------------------------
TypeOK ==
  /\ created \in [Services -> 0 .. MaxTime]
  /\ \A s \in Services : kind[s] \in Kinds \/ created[s] = 0
  /\ \A t \in Tariffs : tariff[t] = NoTariff \/ tariff[t] \in [service : Services, at : 1 .. MaxTime]
  /\ walk.pc \in {"idle", "page", "prices", "reply"}
  /\ walk.page \in 1 .. Cardinality(Services) + 1
  /\ \A id \in ServiceIds : listed[id].active => listed[id].createdAt > 0

\* A walk to the last page has seen every service that matched when it began,
\* wherever in the listing rows were inserted meanwhile, provided that no row of
\* the listing was overwritten (POST /services with the id of a stored row may
\* take a row out of the listing or move it, and shifts the others to a page that
\* was already read) and that no two rows have the same stamp (the listing has no
\* order for those).
WalkMissesNothing ==
  /\ walk.pc = "reply" /\ Short
  /\ \A s, t \in Matching : created[s] = created[t] => s = t
  => walk.owed = {}

\* When the second query of a page has been answered, each of its services is
\* priced with exactly the tariffs that it has at this moment, newest first: two
\* queries and a grouping give what a lookup for each service would have given,
\* also when tariffs are inserted or overwritten between the two.
PricedInFull ==
  [][walk.pc = "prices" /\ walk'.pc = "reply" =>
       \A i \in DOMAIN walk'.rows :
         /\ Range(walk'.prices[i]) = TariffsOf(walk'.rows[i])
         /\ \A j, k \in DOMAIN walk'.prices[i] :
              j < k => tariff[walk'.prices[i][j]].at >= tariff[walk'.prices[i][k]].at]_vars

\* What is on the chain stays as it was written, but for a service's one
\* deactivation: it can be neither revived nor taken over by another registration,
\* also not by one whose DID and name only concatenate to the same id.
EntriesAreFinal ==
  [][/\ \A id \in ServiceIds : listed[id].createdAt > 0 =>
          listed'[id] \in {listed[id], [listed[id] EXCEPT !.active = FALSE]}
     /\ \A id \in TariffIds : published[id].createdAt > 0 => published'[id] = published[id]]_vars
=============================================================================
