--------------------------- MODULE OnChainCatalog ---------------------------
(***************************************************************************)
(* The contracts ServiceCatalog and TariffRegistry (src/contracts/src).    *)
(* Hashes are modelled by what is hashed: encodePacked puts strings of     *)
(* unknown length one after the other without a separator.                 *)
(***************************************************************************)
EXTENDS Integers, Sequences

CONSTANTS
  Offers,           \* pairs of a DID and a service name, strings as sequences
  SchemaHashes,
  TariffHashes, Uris

VARIABLES
  listed,      \* ServiceCatalog.services, by serviceId
  published    \* TariffRegistry.tariffs, by tariffId

contracts == <<listed, published>>

ServiceId(did, name) == did \o name
ServiceIds == {ServiceId(o[1], o[2]) : o \in Offers}
Dids == {o[1] : o \in Offers}
TariffIds == Dids \X ServiceIds \X TariffHashes
NoEntry == [active |-> FALSE, createdAt |-> 0]

InitContracts ==
  /\ listed = [id \in ServiceIds |-> NoEntry]
  /\ published = [id \in TariffIds |-> NoEntry]

\* Faulty form: an entry that is not active may be overwritten.
Vacant_NotActive(id) == ~listed[id].active

Vacant(id) == listed[id].createdAt = 0

RegisterService(did, name, schema) ==
  LET id == ServiceId(did, name) IN
  /\ Vacant(id)
  /\ listed' = [listed EXCEPT ![id] = [did |-> did, name |-> name, schema |-> schema,
                                       active |-> TRUE, createdAt |-> 1]]
  /\ UNCHANGED published

\* Any account may call it.
DeactivateService(id) ==
  /\ listed[id].active
  /\ listed' = [listed EXCEPT ![id].active = FALSE]
  /\ UNCHANGED published

PublishTariff(did, sid, hash, uri) ==
  LET id == <<did, sid, hash>> IN
  /\ published[id].createdAt = 0
  /\ published' = [published EXCEPT ![id] = [uri |-> uri, createdAt |-> 1]]
  /\ UNCHANGED listed

ContractsNext ==
  \/ \E o \in Offers, h \in SchemaHashes : RegisterService(o[1], o[2], h)
  \/ \E id \in ServiceIds : DeactivateService(id)
  \/ \E d \in Dids, sid \in ServiceIds, h \in TariffHashes, u \in Uris :
       PublishTariff(d, sid, h, u)
=============================================================================
