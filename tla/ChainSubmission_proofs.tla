----------------------- MODULE ChainSubmission_proofs -----------------------
(***************************************************************************)
(* For any number of callers, restarts, failed fetches and failed sends,   *)
(* the nonce manager implements the atomic sequencer and leaves no gap of  *)
(* its own; and for every confirmation depth, what awaitFinal returned for *)
(* stays on the chain.                                                     *)
(***************************************************************************)
EXTENDS ChainSubmission, FiniteSetTheorems, NaturalsInduction, WellFoundedInduction, TLAPS

-----------------------------------------------------------------------------
(* The count that the node answers. *)

LEMMA LeastNatural ==
  ASSUME NEW T \in SUBSET Nat, T # {}
  PROVE  \E n \in T : \A m \in T : n <= m
<1> DEFINE R == {ss \in Nat \X Nat : ss[1] < ss[2]}
<1>1. IsWellFoundedOn(R, Nat)
  BY NatLessThanWellFounded, Zenon DEF OpToRel
<1> HIDE DEF R
<1>2. PICK x \in T : \A y \in T : ~(<<y, x>> \in R)
  BY <1>1, WFMin
<1>3. \A y \in T : ~(y < x)
  BY <1>2 DEF R
<1> QED
  BY <1>3

\* More numbers than transactions: one of them is free.
LEMMA SomeNonceIsFree ==
  ASSUME ManagerTypeOK
  PROVE  \E n \in 0 .. Cardinality(Callers) : \A d \in sent : nonce[d] # n
<1> DEFINE K == Cardinality(Callers)
<1> SUFFICES ASSUME \A n \in 0 .. K : \E d \in sent : nonce[d] = n
             PROVE  FALSE
  OBVIOUS
<1>1. K \in Nat
  BY CallersAssumption, FS_CardinalityType
<1>2. IsFiniteSet(0 .. K) /\ Cardinality(0 .. K) = K + 1
  BY <1>1, FS_Interval
<1> DEFINE f == [n \in 0 .. K |-> CHOOSE d \in Callers : nonce[d] = n]
<1>3. \A n \in 0 .. K : f[n] \in Callers /\ nonce[f[n]] = n
  BY DEF ManagerTypeOK
<1>4. f \in [0 .. K -> Callers]
  BY <1>3
<1> HIDE DEF f
<1>5. \E m, n \in 0 .. K : m # n /\ f[m] = f[n]
  BY <1>1, <1>2, <1>4, CallersAssumption, FS_PigeonHole
<1> QED
  BY <1>3, <1>5

\* The pending count is a number below which every nonce is in use.
LEMMA PendingCountIsTheFirstGap ==
  ASSUME ManagerTypeOK
  PROVE  /\ PendingCount \in Nat
         /\ \A m \in 0 .. PendingCount - 1 : \E d \in sent : nonce[d] = m
<1> DEFINE K == Cardinality(Callers)
           Free == {n \in 0 .. K : \A d \in sent : nonce[d] # n}
<1>1. K \in Nat
  BY CallersAssumption, FS_CardinalityType
<1>2. Free \in SUBSET Nat /\ Free # {}
  BY <1>1, SomeNonceIsFree
<1>3. PICK n \in Free : \A m \in Free : n <= m
  BY <1>2, LeastNatural
<1>4. n \in 0 .. K /\ \A d \in sent : nonce[d] # n
  OBVIOUS
<1>5. \A m \in 0 .. n - 1 : \E d \in sent : nonce[d] = m
  BY <1>1, <1>3, <1>4
<1>6. \E x \in 0 .. K : /\ \A d \in sent : nonce[d] # x
                        /\ \A m \in 0 .. x - 1 : \E d \in sent : nonce[d] = m
  BY <1>4, <1>5
<1> QED
  BY <1>1, <1>6 DEF PendingCount

-----------------------------------------------------------------------------
(* The invariant of the manager. *)

\* The chain of promises: it holds the unsettled reservations, each once, and
\* only its first one runs.
QueueOK ==
  /\ \A c \in Callers :
       state[c] \in {"queued"} \union Running => \E i \in 1 .. Len(queue) : queue[i] = c
  /\ \A i \in 1 .. Len(queue) : state[queue[i]] \in {"queued"} \union Running
  /\ \A i, j \in 1 .. Len(queue) : queue[i] = queue[j] => i = j
  /\ \A c \in Callers : state[c] \in Running => queue # <<>> /\ queue[1] = c

\* A fetch is awaited only while the counter is unknown, and only a reservation
\* that has got its nonce has one.
NoncesOK ==
  \A c \in Callers :
    /\ state[c] = "fetching" => next = Unset
    /\ state[c] \in {"idle", "queued", "fetching"} => nonce[c] = Unset

Accounted(n) ==
  \E d \in Callers : nonce[d] = n /\ (d \in sent \/ state[d] \in {"failed", "lost"})

\* Below the counter every nonce is accounted for or is being sent.
CounterOK ==
  next # Unset => \A n \in 0 .. next - 1 :
    Accounted(n) \/ \E d \in Callers : nonce[d] = n /\ state[d] = "sending"

ManagerInv == ManagerTypeOK /\ QueueOK /\ NoncesOK /\ CounterOK /\ GapOnlyFromFailedSend

LEMMA ManagerInit == InitManager => ManagerInv
BY EpochAssumption DEF InitManager, ManagerInv, ManagerTypeOK, QueueOK, NoncesOK, CounterOK,
   GapOnlyFromFailedSend, Unset, Running

\* A caller that is queued finds the chain not empty; the running one is alone.
LEMMA OnlyTheHeadRuns ==
  ASSUME ManagerInv, NEW c \in Callers, state[c] \in {"queued"} \union Running,
         Head(queue) = c \/ state[c] \in Running
  PROVE  /\ queue # <<>> /\ queue[1] = c
         /\ \A d \in Callers : d # c => state[d] \notin Running
BY DEF ManagerInv, ManagerTypeOK, QueueOK

\* What accounts for a nonce goes on doing so.
LEMMA AccountedStays ==
  ASSUME ManagerTypeOK, sent \subseteq sent',
         \A d \in Callers : nonce[d] # Unset => nonce'[d] = nonce[d],
         \A d \in Callers : state[d] \in {"failed", "lost"} => state'[d] = state[d]
  PROVE  \A n \in Nat : Accounted(n) => Accounted(n)'
<1> TAKE n \in Nat
<1> HAVE Accounted(n)
<1>1. PICK d \in Callers : nonce[d] = n /\ (d \in sent \/ state[d] \in {"failed", "lost"})
  BY DEF Accounted
<1>2. nonce'[d] = n /\ (d \in sent' \/ state'[d] \in {"failed", "lost"})
  BY <1>1 DEF Unset
<1> QED
  BY <1>2 DEF Accounted

\* A step that neither hands out a nonce nor ends a send keeps the accounts.
LEMMA AccountsKept ==
  ASSUME ManagerInv, UNCHANGED <<next, nonce>>, sent \subseteq sent',
         \A d \in Callers : state[d] \in {"failed", "lost", "sending"} => state'[d] = state[d]
  PROVE  CounterOK' /\ GapOnlyFromFailedSend'
<1>1. \A n \in Nat : Accounted(n) => Accounted(n)'
  BY AccountedStays DEF ManagerInv
<1>2. CounterOK'
  <2> SUFFICES ASSUME next # Unset, NEW n \in 0 .. next - 1
               PROVE  Accounted(n)' \/ \E d \in Callers : nonce[d] = n /\ state'[d] = "sending"
    BY DEF CounterOK
  <2>1. n \in Nat
    BY DEF ManagerInv, ManagerTypeOK, Unset
  <2> QED
    BY <1>1, <2>1 DEF ManagerInv, CounterOK
<1>3. GapOnlyFromFailedSend'
  <2> SUFFICES ASSUME NEW c \in Callers, NEW n \in 0 .. nonce[c] - 1 PROVE Accounted(n)'
    BY DEF GapOnlyFromFailedSend, Accounted
  <2>1. n \in Nat
    BY DEF ManagerInv, ManagerTypeOK, Unset
  <2>2. Accounted(n)
    BY DEF ManagerInv, GapOnlyFromFailedSend, Accounted
  <2> QED
    BY <1>1, <2>1, <2>2
<1> QED
  BY <1>2, <1>3

LEMMA ReserveStep ==
  ASSUME ManagerInv, NEW c \in Callers, Reserve(c)
  PROVE  ManagerInv'
<1> USE DEF ManagerInv, ManagerTypeOK, Reserve, Running
<1>1. ManagerTypeOK'
  OBVIOUS
<1>2. QueueOK'
  <2>1. Len(queue') = Len(queue) + 1 /\ queue'[Len(queue) + 1] = c
        /\ \A i \in 1 .. Len(queue) : queue'[i] = queue[i]
    OBVIOUS
  <2>2. \A i \in 1 .. Len(queue) : queue[i] # c
    BY DEF QueueOK
  <2> QED
    BY <2>1, <2>2 DEF QueueOK
<1>3. NoncesOK'
  BY DEF NoncesOK
<1>4. CounterOK' /\ GapOnlyFromFailedSend'
  BY AccountsKept
<1> QED
  BY <1>1, <1>2, <1>3, <1>4

\* A nonce is handed out to the head of the chain, which was not sending.
LEMMA TakeStep ==
  ASSUME ManagerInv, NEW c \in Callers, state[c] \in {"queued", "fetching"},
         queue # <<>>, queue[1] = c,
         \A d \in Callers : d # c => state[d] \notin Running,
         NEW n \in Nat, \A m \in 0 .. n - 1 : Accounted(m),
         Take(c, n), UNCHANGED <<queue, sent, epoch>>
  PROVE  ManagerInv'
<1> USE DEF ManagerInv, ManagerTypeOK, Take, Running
<1>1. ManagerTypeOK'
  OBVIOUS
<1>2. QueueOK'
  BY DEF QueueOK
<1>3. NoncesOK'
  BY DEF NoncesOK
<1>4. nonce[c] = Unset
  BY DEF NoncesOK
<1>5. \A m \in Nat : Accounted(m) => Accounted(m)'
  BY <1>4, AccountedStays
<1>6. CounterOK'
  <2> SUFFICES ASSUME NEW m \in 0 .. n
               PROVE  Accounted(m)' \/ \E d \in Callers : nonce'[d] = m /\ state'[d] = "sending"
    BY DEF CounterOK
  <2>1. CASE m = n
    BY <2>1
  <2>2. CASE m # n
    BY <1>5, <2>2
  <2> QED
    BY <2>1, <2>2
<1>7. GapOnlyFromFailedSend'
  <2> SUFFICES ASSUME NEW d \in Callers, NEW m \in 0 .. nonce'[d] - 1 PROVE Accounted(m)'
    BY DEF GapOnlyFromFailedSend, Accounted
  <2>1. m \in Nat
    BY DEF Unset
  <2>2. Accounted(m)
    BY DEF GapOnlyFromFailedSend, Accounted
  <2> QED
    BY <1>5, <2>1, <2>2
<1> QED
  BY <1>1, <1>2, <1>3, <1>6, <1>7

LEMMA RunStep ==
  ASSUME ManagerInv, NEW c \in Callers, Run(c)
  PROVE  ManagerInv'
<1>1. /\ queue # <<>> /\ queue[1] = c
      /\ \A d \in Callers : d # c => state[d] \notin Running
  BY OnlyTheHeadRuns DEF Run
<1>2. CASE next = Unset
  <2> USE DEF ManagerInv, ManagerTypeOK, Run, Running
  <2>1. ManagerTypeOK'
    BY <1>2
  <2>2. QueueOK'
    BY <1>1, <1>2 DEF QueueOK
  <2>3. NoncesOK'
    BY <1>2 DEF NoncesOK
  <2>4. CounterOK' /\ GapOnlyFromFailedSend'
    BY <1>2, AccountsKept
  <2> QED
    BY <2>1, <2>2, <2>3, <2>4
<1>3. CASE next # Unset
  <2>1. next \in Nat /\ Take(c, next) /\ UNCHANGED <<queue, sent, epoch>> /\ state[c] = "queued"
    BY <1>3 DEF Run, ManagerInv, ManagerTypeOK
  <2>2. \A m \in 0 .. next - 1 : Accounted(m)
    BY <1>1, <1>3, <2>1 DEF ManagerInv, CounterOK, Running
  <2> QED
    BY <1>1, <2>1, <2>2, TakeStep
<1> QED
  BY <1>2, <1>3

LEMMA FetchedStep ==
  ASSUME ManagerInv, NEW c \in Callers, Fetched(c)
  PROVE  ManagerInv'
<1>1. /\ queue # <<>> /\ queue[1] = c
      /\ \A d \in Callers : d # c => state[d] \notin Running
  BY OnlyTheHeadRuns DEF Fetched, Running
<1>2. PendingCount \in Nat /\ \A m \in 0 .. PendingCount - 1 : Accounted(m)
  BY PendingCountIsTheFirstGap DEF ManagerInv, ManagerTypeOK, Accounted
<1> QED
  BY <1>1, <1>2, TakeStep DEF Fetched

\* The first reservation of the chain settles.
LEMMA SettleStep ==
  ASSUME ManagerInv, NEW c \in Callers, state[c] \in Running,
         NEW outcome \in {"done", "failed"}, Settle(c, outcome),
         sent \subseteq sent', sent' \subseteq Callers,
         state[c] = "sending" /\ outcome = "done" => c \in sent'
  PROVE  ManagerInv'
<1>1. /\ queue # <<>> /\ queue[1] = c
      /\ \A d \in Callers : d # c => state[d] \notin Running
  BY OnlyTheHeadRuns
<1> USE DEF ManagerInv, ManagerTypeOK, Settle, Running
<1>2. ManagerTypeOK'
  BY <1>1
<1>3. QueueOK'
  <2>1. Len(queue') = Len(queue) - 1 /\ \A i \in 1 .. Len(queue') : queue'[i] = queue[i + 1]
    BY <1>1
  <2>2. \A i \in 1 .. Len(queue') : i + 1 \in 1 .. Len(queue) /\ queue'[i] # c
    BY <1>1, <2>1 DEF QueueOK
  <2>3. ASSUME NEW d \in Callers, state'[d] \in {"queued"} \union Running
        PROVE  \E i \in 1 .. Len(queue') : queue'[i] = d
    <3>1. d # c /\ state[d] \in {"queued"} \union Running
      BY <2>3
    <3>2. PICK i \in 1 .. Len(queue) : queue[i] = d
      BY <3>1 DEF QueueOK
    <3>3. i # 1 /\ i - 1 \in 1 .. Len(queue') /\ queue'[i - 1] = d
      BY <1>1, <2>1, <3>1, <3>2
    <3> QED
      BY <3>3
  <2> QED
    BY <1>1, <2>1, <2>2, <2>3 DEF QueueOK
<1>4. NoncesOK'
  BY DEF NoncesOK
<1>5. \A n \in Nat : Accounted(n) => Accounted(n)'
  BY AccountedStays
<1>6. CounterOK'
  <2> SUFFICES ASSUME next # Unset, NEW n \in 0 .. next - 1
               PROVE  Accounted(n)' \/ \E d \in Callers : nonce[d] = n /\ state'[d] = "sending"
    BY DEF CounterOK
  <2>1. n \in Nat
    BY DEF Unset
  <2>2. CASE Accounted(n)
    BY <1>5, <2>1, <2>2
  <2>3. CASE \E d \in Callers : nonce[d] = n /\ state[d] = "sending"
    <3>1. nonce[c] = n /\ state[c] = "sending"
      BY <1>1, <2>3
    <3> QED
      BY <3>1 DEF Accounted
  <2> QED
    BY <2>2, <2>3 DEF CounterOK
<1>7. GapOnlyFromFailedSend'
  <2> SUFFICES ASSUME NEW d \in Callers, NEW m \in 0 .. nonce[d] - 1 PROVE Accounted(m)'
    BY DEF GapOnlyFromFailedSend, Accounted
  <2>1. m \in Nat
    BY DEF Unset
  <2>2. Accounted(m)
    BY DEF GapOnlyFromFailedSend, Accounted
  <2> QED
    BY <1>5, <2>1, <2>2
<1> QED
  BY <1>2, <1>3, <1>4, <1>6, <1>7

LEMMA RestartStep ==
  ASSUME ManagerInv, RestartManager
  PROVE  ManagerInv'
<1> USE DEF ManagerInv, ManagerTypeOK, RestartManager, Running
<1>1. ManagerTypeOK'
  BY EpochAssumption
<1>2. QueueOK'
  BY DEF QueueOK
<1>3. NoncesOK'
  BY DEF NoncesOK
<1>4. CounterOK'
  BY DEF CounterOK
<1>5. \A n \in Nat : Accounted(n) => Accounted(n)'
  BY AccountedStays
<1>6. GapOnlyFromFailedSend'
  <2> SUFFICES ASSUME NEW d \in Callers, NEW m \in 0 .. nonce[d] - 1 PROVE Accounted(m)'
    BY DEF GapOnlyFromFailedSend, Accounted
  <2>1. m \in Nat
    BY DEF Unset
  <2>2. Accounted(m)
    BY DEF GapOnlyFromFailedSend, Accounted
  <2> QED
    BY <1>5, <2>1, <2>2
<1> QED
  BY <1>1, <1>2, <1>3, <1>4, <1>6

LEMMA ManagerStep == ManagerInv /\ [ManagerNext]_manager => ManagerInv'
<1> SUFFICES ASSUME ManagerInv, [ManagerNext]_manager PROVE ManagerInv'
  OBVIOUS
<1>1. ASSUME NEW c \in Callers, Reserve(c) PROVE ManagerInv'
  BY <1>1, ReserveStep
<1>2. ASSUME NEW c \in Callers, Run(c) PROVE ManagerInv'
  BY <1>2, RunStep
<1>3. ASSUME NEW c \in Callers, Fetched(c) PROVE ManagerInv'
  BY <1>3, FetchedStep
<1>4. ASSUME NEW c \in Callers, FetchFails(c) PROVE ManagerInv'
  BY <1>4, SettleStep DEF FetchFails, Running, ManagerInv, ManagerTypeOK
<1>5. ASSUME NEW c \in Callers, Sent(c) PROVE ManagerInv'
  BY <1>5, SettleStep DEF Sent, Running, ManagerInv, ManagerTypeOK
<1>6. ASSUME NEW c \in Callers, SendFails(c) PROVE ManagerInv'
  BY <1>6, SettleStep DEF SendFails, Running, ManagerInv, ManagerTypeOK
<1>7. CASE RestartManager
  BY <1>7, RestartStep
<1>8. CASE UNCHANGED manager
  BY <1>8 DEF manager, ManagerInv, ManagerTypeOK, QueueOK, NoncesOK, CounterOK, Accounted,
     GapOnlyFromFailedSend
<1> QED
  BY <1>1, <1>2, <1>3, <1>4, <1>5, <1>6, <1>7, <1>8 DEF ManagerNext, Settles

\* Every step of the manager is a draw, a loss of the counter, or nothing.
LEMMA ManagerStepDraws == ManagerInv /\ [ManagerNext]_manager => [Tickets!SNext]_(Tickets!svars)
<1> SUFFICES ASSUME ManagerInv, [ManagerNext]_manager
             PROVE  Tickets!SNext \/ UNCHANGED <<next, nonce>>
  BY DEF Tickets!svars
<1>1. ASSUME NEW c \in Callers, NEW n \in Nat, nonce[c] = Unset, next \in {Unset, n}, Take(c, n)
      PROVE  Tickets!SNext
  <2>1. nonce'[c] = n
    BY <1>1 DEF Take, ManagerInv, ManagerTypeOK
  <2>2. Tickets!Draw(c)
    BY <1>1, <2>1 DEF Take, Tickets!Draw
  <2> QED
    BY <2>2 DEF Tickets!SNext
<1>2. ASSUME NEW c \in Callers, Run(c), next # Unset PROVE Tickets!SNext
  <2>1. next \in Nat /\ nonce[c] = Unset
    BY <1>2 DEF Run, ManagerInv, ManagerTypeOK, NoncesOK
  <2> QED
    BY <1>1, <1>2, <2>1 DEF Run
<1>3. ASSUME NEW c \in Callers, Fetched(c) PROVE Tickets!SNext
  <2>1. PendingCount \in Nat /\ nonce[c] = Unset /\ next = Unset
    BY <1>3, PendingCountIsTheFirstGap DEF Fetched, ManagerInv, NoncesOK
  <2> QED
    BY <1>1, <1>3, <2>1 DEF Fetched
<1>4. CASE RestartManager
  BY <1>4 DEF RestartManager, Tickets!SNext, Tickets!Forget
<1>5. ASSUME NEW c \in Callers,
             \/ Reserve(c) \/ FetchFails(c) \/ Sent(c) \/ SendFails(c)
             \/ Run(c) /\ next = Unset
      PROVE  UNCHANGED <<next, nonce>>
  BY <1>5 DEF Reserve, FetchFails, Sent, SendFails, Settle, Run
<1>6. CASE UNCHANGED manager
  BY <1>6 DEF manager
<1> QED
  BY <1>2, <1>3, <1>4, <1>5, <1>6 DEF ManagerNext, Settles

\* The waiting handlers and the chain leave the manager alone.
LEMMA StepsOfTheManager == [Next]_vars => [ManagerNext]_manager
BY DEF Next, vars, chain, manager, ManagerNext, Manage, NewHead, Poll, Polling, PollAnswer, Wake,
   AwaitFinal, Confirming, FirstReceipt, HeadAnswer, Recheck, CallFails, Tick, Restart

\* The manager's inductive invariant: the queue is the unsettled reservations and
\* only its first one runs, a fetch is awaited only while the counter is unknown,
\* and below the counter every nonce is accounted for or is being sent.
THEOREM ManagerInvariant == Spec => []ManagerInv
<1>1. Init => ManagerInv
  BY ManagerInit DEF Init
<1> QED
  BY <1>1, ManagerStep, StepsOfTheManager, PTL DEF Spec

\* NonceManager leaves no gap: below a nonce that it handed out, every nonce is
\* used or was given to a send that failed.
THEOREM ManagerLeavesNoGap == Spec => []GapOnlyFromFailedSend
<1>1. ManagerInv => GapOnlyFromFailedSend
  BY DEF ManagerInv
<1> QED
  BY <1>1, ManagerInvariant, PTL

\* NonceManager with its promise chain, its fetch and its sends implements the
\* atomic sequencer.
THEOREM ManagerRefinesSequencer == Spec => DrawsTickets
<1>1. Init => Tickets!SInit
  BY DEF Init, InitManager, Tickets!SInit
<1>2. ManagerInv /\ [Next]_vars => [Tickets!SNext]_(Tickets!svars)
  BY StepsOfTheManager, ManagerStepDraws
<1> QED
  BY <1>1, <1>2, ManagerInvariant, PTL DEF Spec, DrawsTickets, Tickets!SSpec

-----------------------------------------------------------------------------
(* Waiting for receipts and for finality. *)

WaitStates == {"off", "polling", "sleeping", "returned", "timedout", "receipt", "head",
               "recheck", "final", "rejected"}

\* The delay of pollReceipt never exceeds its maximum.
DelaysOK == \A t \in Watched : wait[t].delay <= MaxDelay

\* Between the depth check and the second read of the receipt, the block that
\* was read first is deep.
RecheckIsDeep ==
  \A t \in Watched : wait[t].pc = "recheck" => head - wait[t].block >= Confirmations

ChainInv == TypeOK /\ DelaysOK /\ RecheckIsDeep /\ FinalIsDeep

LEMMA ChainInit == Init => ChainInv
<1> SUFFICES ASSUME Init PROVE ChainInv
  OBVIOUS
<1>1. ManagerTypeOK
  BY ManagerInit DEF Init, ManagerInv
<1>2. Off \in [pc : WaitStates, elapsed : 0 .. Late, delay : Nat, sleep : 0 .. MaxDelay,
               block : 0 .. MaxHeight]
  BY ConfirmationsAssumption, DelaysAssumption DEF Off, Late, WaitStates
<1>3. Unmined \in [block : 0 .. MaxHeight, status : {0, 1}]
  BY ConfirmationsAssumption DEF Unmined
<1>4. TypeOK
  BY <1>1, <1>2, <1>3, ConfirmationsAssumption DEF Init, TypeOK, WaitStates
<1> QED
  BY <1>4, DelaysAssumption DEF Init, ChainInv, DelaysOK, RecheckIsDeep, FinalIsDeep, Off

\* A reorganisation replaces too few blocks to reach what is deep.
LEMMA NewHeadStep ==
  ASSUME ChainInv, NEW d \in 0 .. MaxReorg, NewHead(d)
  PROVE  ChainInv'
<1> DEFINE kept == {t \in Watched : Mined(t) /\ where[t].block <= head - d}
<1>1. PICK placed \in SUBSET {t \in Watched \ kept : Executable(t)} :
        \E places \in [placed -> [block : head - d + 1 .. head + 1, status : {0, 1}]] :
          where' = [t \in Watched |-> IF t \in kept THEN where[t]
                                      ELSE IF t \in placed THEN places[t] ELSE Unmined]
  BY DEF NewHead
<1>2. PICK places \in [placed -> [block : head - d + 1 .. head + 1, status : {0, 1}]] :
        where' = [t \in Watched |-> IF t \in kept THEN where[t]
                                    ELSE IF t \in placed THEN places[t] ELSE Unmined]
  BY <1>1
<1> HIDE DEF kept
<1>3. head \in Nat /\ head < MaxHeight /\ d <= head /\ head' = head + 1 /\ wait' = wait
      /\ UNCHANGED manager /\ MaxHeight \in Nat /\ Confirmations \in Nat /\ d \in Nat
      /\ d <= Confirmations
  BY ConfirmationsAssumption DEF ChainInv, TypeOK, NewHead
<1>4. \A t \in Watched : where'[t] \in [block : 0 .. MaxHeight, status : {0, 1}]
  <2> TAKE t \in Watched
  <2>1. where[t] \in [block : 0 .. MaxHeight, status : {0, 1}]
    BY DEF ChainInv, TypeOK
  <2>2. Unmined \in [block : 0 .. MaxHeight, status : {0, 1}]
    BY <1>3 DEF Unmined
  <2>3. [block : head - d + 1 .. head + 1, status : {0, 1}]
        \subseteq [block : 0 .. MaxHeight, status : {0, 1}]
    BY <1>3
  <2> QED
    BY <1>2, <2>1, <2>2, <2>3
<1>5. TypeOK'
  <2>1. where' \in [Watched -> [block : 0 .. MaxHeight, status : {0, 1}]]
    BY <1>2, <1>4
  <2>2. ManagerTypeOK'
    BY <1>3 DEF ChainInv, TypeOK, ManagerTypeOK, manager
  <2> QED
    BY <1>3, <2>1, <2>2 DEF ChainInv, TypeOK
<1>6. DelaysOK' /\ RecheckIsDeep'
  BY <1>3 DEF ChainInv, TypeOK, DelaysOK, RecheckIsDeep
<1>7. FinalIsDeep'
  <2> SUFFICES ASSUME NEW t \in Watched, wait[t].pc = "final"
               PROVE  /\ Mined(t)' /\ where'[t].block = wait[t].block
                      /\ head' - where'[t].block >= Confirmations
    BY <1>3 DEF FinalIsDeep
  <2>1. Mined(t) /\ where[t].block = wait[t].block /\ head - where[t].block >= Confirmations
        /\ where[t].block \in Nat
    BY DEF ChainInv, FinalIsDeep, TypeOK
  <2>2. t \in kept
    BY <1>3, <2>1 DEF kept
  <2>3. where'[t] = where[t]
    BY <1>2, <2>2
  <2> QED
    BY <1>3, <2>1, <2>3 DEF Mined, Unmined
<1> QED
  BY <1>5, <1>6, <1>7 DEF ChainInv

\* A step that changes only what one handler waits for.
LEMMA HandlerStep ==
  ASSUME ChainInv, UNCHANGED <<manager, chain>>,
         wait' \in [Watched -> [pc : WaitStates, elapsed : 0 .. Late, delay : Nat,
                                sleep : 0 .. MaxDelay, block : 0 .. MaxHeight]],
         DelaysOK', RecheckIsDeep', FinalIsDeep'
  PROVE  ChainInv'
BY DEF ChainInv, TypeOK, ManagerTypeOK, manager, chain, WaitStates

LEMMA PollingStep ==
  ASSUME ChainInv, NEW t \in Watched,
         Poll(t) \/ PollAnswer(t) \/ Wake(t) \/ AwaitFinal(t) \/ FirstReceipt(t) \/ HeadAnswer(t)
         \/ Recheck(t) \/ CallFails(t)
  PROVE  ChainInv'
<1> DEFINE Waits == [pc : WaitStates, elapsed : 0 .. Late, delay : Nat, sleep : 0 .. MaxDelay,
                     block : 0 .. MaxHeight]
<1>1. UNCHANGED <<manager, chain>>
  BY DEF Poll, PollAnswer, Wake, AwaitFinal, FirstReceipt, HeadAnswer, Recheck, CallFails
<1>2. wait \in [Watched -> Waits] /\ wait[t] \in Waits
  BY DEF ChainInv, TypeOK, WaitStates
<1>3. Off \in Waits /\ BaseDelay <= MaxDelay /\ Off.delay = BaseDelay
  BY ConfirmationsAssumption, DelaysAssumption DEF Off, Late, WaitStates
<1>4. wait[t].delay \in 0 .. MaxDelay /\ Backoff(wait[t].delay) \in 0 .. MaxDelay
  BY <1>2, DelaysAssumption DEF ChainInv, DelaysOK, Backoff
<1>5. where[t].block \in 0 .. MaxHeight /\ head \in Nat /\ MaxHeight \in Nat
  BY ConfirmationsAssumption DEF ChainInv, TypeOK
<1>6. \E w \in Waits :
        /\ wait' = [wait EXCEPT ![t] = w]
        /\ w.delay <= MaxDelay
        /\ w.pc = "recheck" => head - w.block >= Confirmations
        /\ w.pc = "final" => /\ Mined(t) /\ where[t].block = w.block
                             /\ head - where[t].block >= Confirmations
  <2> DEFINE OK(w) == /\ w \in Waits
                      /\ wait' = [wait EXCEPT ![t] = w]
                      /\ w.delay <= MaxDelay
                      /\ w.pc = "recheck" => head - w.block >= Confirmations
                      /\ w.pc = "final" => /\ Mined(t) /\ where[t].block = w.block
                                           /\ head - where[t].block >= Confirmations
  <2> SUFFICES \E w : OK(w)
    OBVIOUS
  <2>1. CASE Poll(t) \/ AwaitFinal(t) \/ CallFails(t)
    <3>1. \E s \in {"polling", "receipt", "rejected"} : OK([Off EXCEPT !.pc = s])
      BY <1>2, <1>3, <2>1, DelaysAssumption DEF Poll, AwaitFinal, CallFails, WaitStates, Off
    <3> QED
      BY <3>1
  <2>2. CASE PollAnswer(t)
    <3>1. CASE Mined(t)
      <4>1. OK([wait[t] EXCEPT !.pc = "returned"])
        BY <1>2, <1>4, <2>2, <3>1 DEF PollAnswer, WaitStates
      <4> QED
        BY <4>1
    <3>2. CASE ~Mined(t) /\ wait[t].elapsed > Timeout
      <4>1. OK([wait[t] EXCEPT !.pc = "timedout"])
        BY <1>2, <1>4, <2>2, <3>2 DEF PollAnswer, WaitStates
      <4> QED
        BY <4>1
    <3>3. CASE ~Mined(t) /\ ~(wait[t].elapsed > Timeout)
      <4> DEFINE z == wait[t].delay
                 b == Backoff(z)
                 w == [wait[t] EXCEPT !.pc = "sleeping", !.sleep = z, !.delay = b]
      <4>1. wait' = [wait EXCEPT ![t] = w]
        BY <2>2, <3>3 DEF PollAnswer
      <4>2. z \in 0 .. MaxDelay /\ b \in 0 .. MaxDelay /\ b \in Nat
        BY <1>4, DelaysAssumption
      <4> HIDE DEF z, b
      <4>4. w \in Waits /\ w.pc = "sleeping" /\ w.delay = b
        BY <1>2, <4>2 DEF WaitStates
      <4> HIDE DEF w
      <4>3. OK(w)
        BY <4>1, <4>2, <4>4, DelaysAssumption
      <4> QED
        BY <4>3
    <3> QED
      BY <3>1, <3>2, <3>3
  <2>3. CASE Wake(t)
    <3>1. OK([wait[t] EXCEPT !.pc = "polling"])
      BY <1>2, <1>4, <2>3 DEF Wake, WaitStates
    <3> QED
      BY <3>1
  <2>4. CASE FirstReceipt(t)
    <3> DEFINE w == [wait[t] EXCEPT !.pc = "head", !.block = where[t].block]
    <3>1. wait' = [wait EXCEPT ![t] = w]
      BY <1>2, <2>4 DEF FirstReceipt
    <3>2. w \in Waits /\ w.pc = "head" /\ w.delay = wait[t].delay
      BY <1>2, <1>5 DEF WaitStates
    <3> HIDE DEF w
    <3>3. OK(w)
      BY <1>4, <3>1, <3>2, DelaysAssumption
    <3> QED
      BY <3>3
  <2>5. CASE HeadAnswer(t)
    <3>1. OK([wait[t] EXCEPT !.pc = IF Deep(t) THEN "recheck" ELSE "receipt"])
      BY <1>2, <1>4, <2>5 DEF HeadAnswer, WaitStates, Deep
    <3> QED
      BY <3>1
  <2>6. CASE Recheck(t)
    <3>1. OK([wait[t] EXCEPT !.pc = IF Mined(t) /\ where[t].block = wait[t].block
                                    THEN "final" ELSE "receipt"])
      BY <1>2, <1>4, <2>6 DEF Recheck, WaitStates, ChainInv, RecheckIsDeep
    <3> QED
      BY <3>1
  <2> QED
    BY <2>1, <2>2, <2>3, <2>4, <2>5, <2>6
<1>7. PICK w \in Waits :
        /\ wait' = [wait EXCEPT ![t] = w]
        /\ w.delay <= MaxDelay
        /\ w.pc = "recheck" => head - w.block >= Confirmations
        /\ w.pc = "final" => /\ Mined(t) /\ where[t].block = w.block
                             /\ head - where[t].block >= Confirmations
  BY <1>6
<1> HIDE DEF Waits
<1>8. wait'[t] = w /\ \A u \in Watched : u # t => wait'[u] = wait[u]
  BY <1>2, <1>7
<1>9. wait' \in [Watched -> Waits]
  BY <1>2, <1>7
<1>10. DelaysOK' /\ RecheckIsDeep'
  BY <1>1, <1>7, <1>8 DEF ChainInv, DelaysOK, RecheckIsDeep, chain
<1>11. FinalIsDeep'
  BY <1>1, <1>7, <1>8 DEF ChainInv, FinalIsDeep, chain, Mined, Unmined
<1> QED
  BY <1>1, <1>9, <1>10, <1>11, HandlerStep DEF Waits

LEMMA TickStep ==
  ASSUME ChainInv, Tick
  PROVE  ChainInv'
<1> DEFINE Waits == [pc : WaitStates, elapsed : 0 .. Late, delay : Nat, sleep : 0 .. MaxDelay,
                     block : 0 .. MaxHeight]
<1>1. UNCHANGED <<manager, chain>>
  BY DEF Tick
<1>2. \A t \in Watched : /\ wait'[t] \in Waits
                         /\ wait'[t].pc = wait[t].pc /\ wait'[t].block = wait[t].block
                         /\ wait'[t].delay = wait[t].delay
  <2> TAKE t \in Watched
  <2>1. wait[t] \in Waits
    BY DEF ChainInv, TypeOK, WaitStates
  <2>2. \/ wait'[t] = wait[t]
        \/ wait'[t] = [wait[t] EXCEPT !.elapsed = IF @ < Late THEN @ + 1 ELSE @,
                                      !.sleep = IF @ = 0 THEN 0 ELSE @ - 1]
    BY DEF Tick
  <2> DEFINE e == IF wait[t].elapsed < Late THEN wait[t].elapsed + 1 ELSE wait[t].elapsed
             z == IF wait[t].sleep = 0 THEN 0 ELSE wait[t].sleep - 1
  <2>3. e \in 0 .. Late /\ z \in 0 .. MaxDelay
    BY <2>1, DelaysAssumption DEF Late
  <2> DEFINE w == [wait[t] EXCEPT !.elapsed = e, !.sleep = z]
  <2>4. wait'[t] = wait[t] \/ wait'[t] = w
    BY <2>2
  <2> HIDE DEF e, z
  <2>5. w \in Waits /\ w.pc = wait[t].pc /\ w.block = wait[t].block
        /\ w.delay = wait[t].delay
    BY <2>1, <2>3
  <2> QED
    BY <2>1, <2>4, <2>5
<1>3. wait' \in [Watched -> Waits]
  BY <1>2 DEF Tick
<1>4. DelaysOK' /\ RecheckIsDeep' /\ FinalIsDeep'
  BY <1>1, <1>2 DEF ChainInv, DelaysOK, RecheckIsDeep, FinalIsDeep, chain, Mined, Unmined
<1> QED
  BY <1>1, <1>3, <1>4, HandlerStep

LEMMA ChainStep == ChainInv /\ ManagerInv /\ [Next]_vars => ChainInv'
<1> SUFFICES ASSUME ChainInv, ManagerInv, [Next]_vars PROVE ChainInv'
  OBVIOUS
<1>1. ManagerTypeOK'
  BY StepsOfTheManager, ManagerStep DEF ManagerInv
<1>2. ASSUME UNCHANGED <<chain, wait>> PROVE ChainInv'
  BY <1>1, <1>2 DEF ChainInv, TypeOK, DelaysOK, RecheckIsDeep, FinalIsDeep, chain, Mined, Unmined
<1>3. CASE Restart
  <2>1. Off \in [pc : WaitStates, elapsed : 0 .. Late, delay : Nat, sleep : 0 .. MaxDelay,
                 block : 0 .. MaxHeight] /\ Off.pc = "off" /\ Off.delay <= MaxDelay
    BY ConfirmationsAssumption, DelaysAssumption DEF Off, Late, WaitStates
  <2>2. \A t \in Watched :
          \/ wait'[t] = wait[t]
          \/ wait'[t] = Off
    BY <1>3 DEF Restart
  <2>3. UNCHANGED chain /\ wait' = [t \in Watched |-> wait'[t]]
    BY <1>3 DEF Restart
  <2>4. TypeOK'
    BY <1>1, <2>1, <2>2, <2>3 DEF ChainInv, TypeOK, WaitStates, chain
  <2>5. DelaysOK' /\ RecheckIsDeep' /\ FinalIsDeep'
    BY <2>1, <2>2, <2>3 DEF ChainInv, DelaysOK, RecheckIsDeep, FinalIsDeep, chain, Mined, Unmined
  <2> QED
    BY <2>4, <2>5 DEF ChainInv
<1>4. CASE UNCHANGED vars
  BY <1>2, <1>4 DEF vars
<1> QED
  BY <1>2, <1>3, <1>4, NewHeadStep, PollingStep, TickStep
     DEF Next, Manage, Polling, Confirming

\* The inductive invariant of the waiting handlers: a handler that is about to
\* read the receipt again read it first in a block that is deep by now.
THEOREM ChainInvariant == Spec => []ChainInv
BY ChainInit, ChainStep, ManagerInvariant, PTL DEF Spec

\* What awaitFinal returned for is on the canonical chain at its depth and stays
\* there, for every confirmation depth and all reorganisations no deeper.
THEOREM FinalityIsStable == Spec => []FinalIsDeep
<1>1. ChainInv => FinalIsDeep
  BY DEF ChainInv
<1> QED
  BY <1>1, ChainInvariant, PTL
=============================================================================
