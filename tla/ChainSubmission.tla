--------------------------- MODULE ChainSubmission ---------------------------
(***************************************************************************)
(* Transactions sent through the NonceManager, and the two ways the code   *)
(* waits for them: pollReceipt (src/src/blockchain/receipt-poller.ts) and  *)
(* awaitFinal (src/src/blockchain/confirmation-policy.ts), on a chain that *)
(* reorganises.  A transaction is named by its reservation; one handler at *)
(* a time waits for it.                                                    *)
(*                                                                         *)
(* wait[t].pc:  off                                                        *)
(*              polling, sleeping    pollReceipt: on getReceipt, a timer   *)
(*              returned, timedout   pollReceipt has ended                 *)
(*              receipt, head, recheck   awaitFinal: on that answer        *)
(*              final                awaitFinal has returned               *)
(*              rejected             a call to the node failed             *)
(***************************************************************************)
EXTENDS NonceManager

CONSTANTS
  Watched,         \* transactions that are waited for
  Confirmations,   \* activeNetwork().confirmations
  MaxReorg,        \* blocks a reorganisation may replace
  MaxHeight,       \* bound on the height of the chain
  Timeout,         \* timeoutMs of pollReceipt, in ticks
  BaseDelay, MaxDelay

ASSUME ConfirmationsAssumption ==
  /\ Watched \subseteq Callers
  /\ Confirmations \in Nat /\ MaxReorg \in Nat /\ MaxReorg <= Confirmations
  /\ MaxHeight \in Nat
ASSUME DelaysAssumption ==
  /\ Timeout \in Nat /\ BaseDelay \in Nat \ {0}
  /\ MaxDelay \in Nat /\ BaseDelay <= MaxDelay

VARIABLES
  head,     \* height of the canonical chain
  where,    \* where[t]: block and status of t on the canonical chain
  wait

chain == <<head, where>>
vars == <<manager, chain, wait>>

Unmined == [block |-> 0, status |-> 0]
Mined(t) == where[t] # Unmined

Off == [pc |-> "off", elapsed |-> 0, delay |-> BaseDelay, sleep |-> 0, block |-> 0]
Late == Timeout + MaxDelay + 1    \* times from here on are not told apart

Init ==
  /\ InitManager
  /\ head = 0
  /\ where = [t \in Watched |-> Unmined]
  /\ wait = [t \in Watched |-> Off]

-----------------------------------------------------------------------------
\* The node executes the transactions of an account in the order of their nonces.
Executable(t) ==
  t \in sent /\ \A n \in 0 .. nonce[t] - 1 : \E u \in sent : nonce[u] = n

\* A new head replaces the last d blocks (none when d = 0) by d + 1 others.
\* Whether a call reverts depends on the transactions before it, which may be
\* other ones on the new branch.
NewHead(d) ==
  LET kept == {t \in Watched : Mined(t) /\ where[t].block <= head - d} IN
  /\ head < MaxHeight
  /\ d <= head
  /\ head' = head + 1
  /\ \E placed \in SUBSET {t \in Watched \ kept : Executable(t)} :
       \E places \in [placed -> [block : head - d + 1 .. head + 1, status : {0, 1}]] :
         where' = [t \in Watched |-> IF t \in kept THEN where[t]
                                     ELSE IF t \in placed THEN places[t] ELSE Unmined]
  /\ UNCHANGED <<manager, wait>>

-----------------------------------------------------------------------------
(* pollReceipt(t) *)

Poll(t) ==
  /\ t \in sent /\ wait[t].pc \in {"off", "timedout", "rejected"}
  /\ wait' = [wait EXCEPT ![t] = [Off EXCEPT !.pc = "polling"]]
  /\ UNCHANGED <<manager, chain>>

Backoff(delay) == IF 2 * delay > MaxDelay THEN MaxDelay ELSE 2 * delay

\* Faulty form: the start of the poll is taken anew for every attempt.
PollAnswer_StartInLoop(t) ==
  /\ wait[t].pc = "polling"
  /\ wait' = [wait EXCEPT ![t] =
       IF Mined(t) THEN [@ EXCEPT !.pc = "returned"]
       ELSE IF @.elapsed > Timeout THEN [@ EXCEPT !.pc = "timedout"]
       ELSE [@ EXCEPT !.pc = "sleeping", !.elapsed = 0, !.sleep = wait[t].delay,
                      !.delay = Backoff(wait[t].delay)]]
  /\ UNCHANGED <<manager, chain>>

\* getReceipt answers: return it, give up, or sleep and double the delay.
PollAnswer(t) ==
  /\ wait[t].pc = "polling"
  /\ wait' = [wait EXCEPT ![t] =
       IF Mined(t) THEN [@ EXCEPT !.pc = "returned"]
       ELSE IF @.elapsed > Timeout THEN [@ EXCEPT !.pc = "timedout"]
       ELSE [@ EXCEPT !.pc = "sleeping", !.sleep = wait[t].delay,
                      !.delay = Backoff(wait[t].delay)]]
  /\ UNCHANGED <<manager, chain>>

\* The timer fires.
Wake(t) ==
  /\ wait[t].pc = "sleeping" /\ wait[t].sleep = 0
  /\ wait' = [wait EXCEPT ![t].pc = "polling"]
  /\ UNCHANGED <<manager, chain>>

\* A tick passes for the handlers in pollReceipt; a due timer fires first.
Tick ==
  LET active == {t \in Watched : wait[t].pc \in {"polling", "sleeping"}} IN
  /\ \E t \in active : wait[t].elapsed < Late
  /\ \A t \in active : wait[t].pc = "sleeping" => wait[t].sleep > 0
  /\ wait' = [t \in Watched |->
       IF t \notin active THEN wait[t]
       ELSE [wait[t] EXCEPT !.elapsed = IF @ < Late THEN @ + 1 ELSE @,
                            !.sleep = IF @ = 0 THEN 0 ELSE @ - 1]]
  /\ UNCHANGED <<manager, chain>>

-----------------------------------------------------------------------------
(* awaitFinal(t) *)

AwaitFinal(t) ==
  /\ t \in sent /\ wait[t].pc \in {"off", "returned", "rejected"}
  /\ wait' = [wait EXCEPT ![t] = [Off EXCEPT !.pc = "receipt"]]
  /\ UNCHANGED <<manager, chain>>

\* The first getReceipt answers; without a successful receipt the loop sleeps.
FirstReceipt(t) ==
  /\ wait[t].pc = "receipt"
  /\ where[t].status = 1
  /\ wait' = [wait EXCEPT ![t] = [@ EXCEPT !.pc = "head", !.block = where[t].block]]
  /\ UNCHANGED <<manager, chain>>

\* Faulty form: one confirmation too many is asked for.
Deep_OneMore(t) == head - wait[t].block > Confirmations

Deep(t) == head - wait[t].block >= Confirmations

\* Faulty form: the receipt is not read again.
HeadAnswer_NoRecheck(t) ==
  /\ wait[t].pc = "head"
  /\ wait' = [wait EXCEPT ![t].pc = IF Deep(t) THEN "final" ELSE "receipt"]
  /\ UNCHANGED <<manager, chain>>

\* getBlockNumber answers.
HeadAnswer(t) ==
  /\ wait[t].pc = "head"
  /\ wait' = [wait EXCEPT ![t].pc = IF Deep(t) THEN "recheck" ELSE "receipt"]
  /\ UNCHANGED <<manager, chain>>

\* The second getReceipt answers: only the block number is compared.
Recheck(t) ==
  /\ wait[t].pc = "recheck"
  /\ wait' = [wait EXCEPT ![t].pc =
       IF Mined(t) /\ where[t].block = wait[t].block THEN "final" ELSE "receipt"]
  /\ UNCHANGED <<manager, chain>>

-----------------------------------------------------------------------------
\* A call to the node fails, which rejects pollReceipt and awaitFinal alike.
CallFails(t) ==
  /\ wait[t].pc \in {"polling", "receipt", "head", "recheck"}
  /\ wait' = [wait EXCEPT ![t] = [Off EXCEPT !.pc = "rejected"]]
  /\ UNCHANGED <<manager, chain>>

\* A restart ends the waiting handlers with the process.
Restart ==
  /\ RestartManager
  /\ wait' = [t \in Watched |-> IF wait[t].pc \in {"returned", "timedout", "final"}
                                THEN wait[t] ELSE Off]
  /\ UNCHANGED chain

Manage(c) == Settles(c) /\ UNCHANGED <<chain, wait>>
Polling(t) == PollAnswer(t) \/ Wake(t)
Confirming(t) == FirstReceipt(t) \/ HeadAnswer(t) \/ Recheck(t)

Next ==
  \/ \E c \in Callers : Reserve(c) /\ UNCHANGED <<chain, wait>>
  \/ \E c \in Callers : Manage(c)
  \/ \E d \in 0 .. MaxReorg : NewHead(d)
  \/ \E t \in Watched : \/ Poll(t) \/ Polling(t)
                        \/ AwaitFinal(t) \/ Confirming(t)
                        \/ CallFails(t)
  \/ Tick
  \/ Restart

\* Awaited calls settle and timers fire; blocks and callers owe nothing.
Fairness ==
  /\ \A c \in Callers : WF_vars(Manage(c))
  /\ \A t \in Watched : WF_vars(Polling(t)) /\ WF_vars(Confirming(t))
  /\ WF_vars(Tick)

Spec == Init /\ [][Next]_vars /\ Fairness
-----------------------------------------------------------------------------
TypeOK ==
  /\ ManagerTypeOK
  /\ head \in 0 .. MaxHeight
  /\ where \in [Watched -> [block : 0 .. MaxHeight, status : {0, 1}]]
  /\ wait \in [Watched -> [pc : {"off", "polling", "sleeping", "returned", "timedout",
                                 "receipt", "head", "recheck", "final", "rejected"},
                           elapsed : 0 .. Late, delay : Nat, sleep : 0 .. MaxDelay,
                           block : 0 .. MaxHeight]]

\* What awaitFinal returned for is on the canonical chain below the confirmation
\* depth and stays there: reading the receipt again after the depth check makes
\* up for a reorganisation between the two reads.
FinalIsDeep ==
  \A t \in Watched : wait[t].pc = "final" =>
    Mined(t) /\ where[t].block = wait[t].block /\ head - where[t].block >= Confirmations

\* Every reservation is settled, whatever happens to the ones before it.
EveryReservationSettles ==
  \A c \in Callers : state[c] = "queued" ~> state[c] \in {"done", "failed", "lost"}

\* pollReceipt ends: with a receipt, by its timeout, by an error or with the
\* process, also when no block ever comes.
EveryPollEnds ==
  \A t \in Watched : wait[t].pc = "polling" ~> wait[t].pc \notin {"polling", "sleeping"}

\* awaitFinal ends once its transaction stays, successful, at exactly the
\* required depth: the confirmation count is not off by one.
FinalityReached ==
  \A t \in Watched :
    <>[](where[t].status = 1 /\ head - where[t].block >= Confirmations)
    => [](wait[t].pc = "receipt" => <>(wait[t].pc \in {"final", "rejected", "off"}))
=============================================================================
