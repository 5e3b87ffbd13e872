---------------------------- MODULE NonceManager ----------------------------
(***************************************************************************)
(* NonceManager (src/src/blockchain/nonce-manager.ts): reservations are    *)
(* chained behind one promise, so that the fetch of the first nonce, the   *)
(* increment and the caller's fn of one reservation end before the next    *)
(* begins.  fn sends a transaction with the nonce it is given.             *)
(*                                                                         *)
(* state[c]: idle      reserve was not called                              *)
(*           queued    its callback waits on the promise chain             *)
(*           fetching  waits for fetchNonce                                *)
(*           sending   waits for fn(nonce)                                 *)
(*           done, failed   the promise of reserve is settled              *)
(*           lost      the process restarted first                         *)
(***************************************************************************)
EXTENDS Integers, Sequences, FiniteSets

CONSTANTS
  Callers,    \* calls of reserve, each for one transaction
  MaxEpoch    \* bound on the restarts of the process

ASSUME EpochAssumption == MaxEpoch \in Nat
ASSUME CallersAssumption == IsFiniteSet(Callers)

VARIABLES
  next,     \* NonceManager.next
  queue,    \* reservations on the chain, the running one first
  state,
  nonce,    \* per reservation: the nonce fn was called with
  sent,     \* reservations whose transaction the node has accepted
  epoch     \* incarnation of the process

manager == <<next, queue, state, nonce, sent, epoch>>

Unset == -1
Running == {"fetching", "sending"}

InitManager ==
  /\ next = Unset
  /\ queue = <<>>
  /\ state = [c \in Callers |-> "idle"]
  /\ nonce = [c \in Callers |-> Unset]
  /\ sent = {}
  /\ epoch = 0

\* The node takes one transaction per nonce.
Acceptable(c) == \A d \in sent : nonce[d] # nonce[c]

\* fetchNonce: the number of the account's transactions up to the first gap.
PendingCount ==
  CHOOSE n \in 0 .. Cardinality(Callers) :
    /\ \A d \in sent : nonce[d] # n
    /\ \A m \in 0 .. n - 1 : \E d \in sent : nonce[d] = m

Reserve(c) ==
  /\ state[c] = "idle"
  /\ state' = [state EXCEPT ![c] = "queued"]
  /\ queue' = Append(queue, c)
  /\ UNCHANGED <<next, nonce, sent, epoch>>

\* Faulty form: the increment is applied twice.
Take_Twice(c, n) ==
  /\ nonce' = [nonce EXCEPT ![c] = n]
  /\ next' = n + 2
  /\ state' = [state EXCEPT ![c] = "sending"]

\* The synchronous part: take the nonce, advance, call fn.
Take(c, n) ==
  /\ nonce' = [nonce EXCEPT ![c] = n]
  /\ next' = n + 1
  /\ state' = [state EXCEPT ![c] = "sending"]

\* Faulty form: the callback does not wait for the chain.
Run_Unchained(c) ==
  /\ state[c] = "queued"
  /\ IF next = Unset
     THEN state' = [state EXCEPT ![c] = "fetching"] /\ UNCHANGED <<next, nonce>>
     ELSE Take(c, next)
  /\ UNCHANGED <<queue, sent, epoch>>

\* The callback of queue.then starts.
Run(c) ==
  /\ state[c] = "queued"
  /\ Head(queue) = c
  /\ IF next = Unset
     THEN state' = [state EXCEPT ![c] = "fetching"] /\ UNCHANGED <<next, nonce>>
     ELSE Take(c, next)
  /\ UNCHANGED <<queue, sent, epoch>>

Fetched(c) ==
  /\ state[c] = "fetching"
  /\ Take(c, PendingCount)
  /\ UNCHANGED <<queue, sent, epoch>>

\* Faulty form: a failed reservation stays at the head of the chain.
Settle_Blocking(c, outcome) ==
  /\ state' = [state EXCEPT ![c] = outcome]
  /\ queue' = IF outcome = "failed" THEN queue ELSE Tail(queue)
  /\ UNCHANGED <<next, nonce, epoch>>

\* The promise of reserve settles, and with it the first one of the chain;
\* run.catch lets the chain go on either way.
Settle(c, outcome) ==
  /\ state' = [state EXCEPT ![c] = outcome]
  /\ queue' = Tail(queue)
  /\ UNCHANGED <<next, nonce, epoch>>

FetchFails(c) ==
  /\ state[c] = "fetching"
  /\ Settle(c, "failed")
  /\ UNCHANGED sent

Sent(c) ==
  /\ state[c] = "sending"
  /\ Acceptable(c)
  /\ sent' = sent \union {c}
  /\ Settle(c, "done")

\* fn rejects: the node refused, or its answer was lost.
SendFails(c) ==
  /\ state[c] = "sending"
  /\ \/ UNCHANGED sent
     \/ Acceptable(c) /\ sent' = sent \union {c}
  /\ Settle(c, "failed")

\* The process restarts with a new NonceManager; what was being sent may
\* still arrive.
RestartManager ==
  /\ epoch < MaxEpoch
  /\ epoch' = epoch + 1
  /\ next' = Unset
  /\ queue' = <<>>
  /\ state' = [c \in Callers |-> IF state[c] \in {"queued"} \union Running
                                 THEN "lost" ELSE state[c]]
  /\ \/ UNCHANGED sent
     \/ \E c \in Callers : /\ state[c] = "sending" /\ Acceptable(c)
                           /\ sent' = sent \union {c}
  /\ UNCHANGED nonce

Settles(c) == Run(c) \/ Fetched(c) \/ FetchFails(c) \/ Sent(c) \/ SendFails(c)

ManagerNext ==
  \/ \E c \in Callers : Reserve(c) \/ Settles(c)
  \/ RestartManager

ManagerSpec == InitManager /\ [][ManagerNext]_manager
-----------------------------------------------------------------------------
ManagerTypeOK ==
  /\ next \in Nat \union {Unset}
  /\ queue \in Seq(Callers)
  /\ state \in [Callers -> {"idle", "queued", "done", "failed", "lost"} \union Running]
  /\ nonce \in [Callers -> Nat \union {Unset}]
  /\ sent \subseteq Callers
  /\ epoch \in 0 .. MaxEpoch

\* Below a nonce that was handed out every nonce is used by a transaction the
\* node has, or belongs to a send that did not succeed: the manager itself never
\* leaves a gap on which the later transactions would wait for ever.
GapOnlyFromFailedSend ==
  \A c \in Callers : \A n \in 0 .. nonce[c] - 1 :
    \E d \in Callers : nonce[d] = n /\ (d \in sent \/ state[d] \in {"failed", "lost"})

\* The chain of promises implements the atomic sequencer, although fetching the
\* first nonce is an await that any number of callers reach: "each tx gets a
\* distinct, monotonically increasing nonce" (nonce-manager.ts:3).
Tickets == INSTANCE Sequencer WITH Clients <- Callers, counter <- next, ticket <- nonce
DrawsTickets == Tickets!SSpec
=============================================================================
