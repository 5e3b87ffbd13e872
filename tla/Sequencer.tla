------------------------------ MODULE Sequencer ------------------------------
(***************************************************************************)
(* What NonceManager promises, without its queue: numbers are drawn one at *)
(* a time, each one more than the last, from a start that is unknown until *)
(* the first draw and forgotten when the process restarts.                 *)
(***************************************************************************)
EXTENDS Integers

CONSTANTS Clients, Unset

VARIABLES counter, ticket

svars == <<counter, ticket>>

SInit == counter = Unset /\ ticket = [c \in Clients |-> Unset]

Draw(c) ==
  /\ ticket[c] = Unset
  /\ ticket'[c] \in Nat
  /\ ticket' = [ticket EXCEPT ![c] = ticket'[c]]
  /\ counter \in {Unset, ticket'[c]}
  /\ counter' = ticket'[c] + 1

Forget == counter' = Unset /\ UNCHANGED ticket

SNext == (\E c \in Clients : Draw(c)) \/ Forget

SSpec == SInit /\ [][SNext]_svars
=============================================================================
