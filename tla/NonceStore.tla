----------------------------- MODULE NonceStore -----------------------------
(***************************************************************************)
(* The in-memory replay store of                                           *)
(* src/src/modules/protocol/nonce-store.service.ts: a map from             *)
(* (agent, nonce) to the time the pair was first seen.  The map is a total *)
(* function whose value Absent stands for a key the Map does not hold.     *)
(* The composite key `agent:nonce` is injective, because a DID has exactly *)
(* two colons, so it is modelled by the pair itself.                       *)
(***************************************************************************)
EXTENDS Integers

CONSTANT Window   \* windowMs, in clock ticks

ASSUME WindowAssumption == Window \in Nat

Absent == -1

\* Faulty form: the entry of exactly the window's age is dropped.
EvictExpired_TooEager(entries, now) ==
  [k \in DOMAIN entries |-> IF entries[k] <= now - Window THEN Absent ELSE entries[k]]

\* Every entry older than the window is deleted; an entry of exactly the
\* window's age is kept, because the comparison with the cutoff is strict.
EvictExpired(entries, now) ==
  [k \in DOMAIN entries |-> IF entries[k] < now - Window THEN Absent ELSE entries[k]]

\* Faulty form: looks the key up without evicting first.
IsFresh_NoEviction(entries, key, now) == entries[key] = Absent

\* assertFresh: evict, then look the key up.
IsFresh(entries, key, now) == EvictExpired(entries, now)[key] = Absent

\* assertFresh, the accepting branch: the key is stored with the current time.
Register(entries, key, now) == [EvictExpired(entries, now) EXCEPT ![key] = now]
=============================================================================
