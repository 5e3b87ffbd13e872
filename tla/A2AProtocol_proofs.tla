------------------------- MODULE A2AProtocol_proofs -------------------------
(***************************************************************************)
(* Proofs about A2AProtocol, for any set of requests and envelopes, any    *)
(* window, any number of policies, restarts and raw metering calls.        *)
(***************************************************************************)
EXTENDS A2AProtocol, FiniteSetTheorems, NaturalsInduction, WellFoundedInduction, TLAPS

-----------------------------------------------------------------------------
(***************************************************************************)
(* The loop of assertAllowed.  It is defined by recursion over the         *)
(* policies.  With the first policy that stops it, the state after each    *)
(* turn can be told without recursion: so there is a function of the       *)
(* loop's shape, and by induction every such function is that one.         *)
(***************************************************************************)

\* A non-empty set of naturals has a least element.
LEMMA LeastOf ==
  ASSUME NEW T, T \subseteq Nat, T # {}
  PROVE  \E n \in T : \A m \in T : n <= m
<1> DEFINE Less == OpToRel(<, Nat)
<1>1. IsWellFoundedOn(Less, Nat)
  BY NatLessThanWellFounded
<1>2. \A m, n \in Nat : <<m, n>> \in Less <=> m < n
  BY DEF OpToRel
<1> HIDE DEF Less
<1>3. PICK n \in T : \A m \in T : ~(<<m, n>> \in Less)
  BY <1>1, WFMin
<1>4. \A m \in T : m \in Nat /\ n \in Nat /\ ~(m < n)
  BY <1>2, <1>3
<1> QED
  BY <1>4

\* Induction up to N, on a set.
LEMMA InductionTo ==
  ASSUME NEW N \in Nat, NEW G, 0 \in G, \A n \in 1 .. N : n - 1 \in G => n \in G
  PROVE  \A n \in 0 .. N : n \in G
<1> DEFINE Missing == (0 .. N) \ G
<1> SUFFICES ASSUME Missing # {} PROVE FALSE
  OBVIOUS
<1>1. Missing \subseteq Nat
  OBVIOUS
<1>2. PICK n \in Missing : \A m \in Missing : n <= m
  <2> HIDE DEF Missing
  <2> QED
    BY <1>1, LeastOf
<1>3. n \in 1 .. N /\ n - 1 \in 0 .. N /\ n - 1 \notin Missing
  BY <1>2
<1> QED
  BY <1>2, <1>3

\* A policy that ends the loop.
Stops(rules, ctx) == rules = Unreadable \/ ~EvaluatePolicyAccess(rules, ctx).allowed

NothingYet == [exit |-> "none", allow |-> 0, deny |-> 0]

Turned(f, active, ctx, i) ==
  IF i = 0 THEN NothingYet ELSE Turn(f[i - 1], active[i], ctx)

IsLoop(f, active, ctx) == f = [i \in 0 .. Len(active) |-> Turned(f, active, ctx, i)]

\* The loop turns as written, up to N policies.
LoopRuns(f, active, ctx, N) == \A i \in 0 .. N : f[i] = Turned(f, active, ctx, i)

\* K is the first of N policies that stops the loop, or N + 1.
FirstStop(active, ctx, N, K) ==
  /\ K \in 1 .. N + 1
  /\ \A i \in 1 .. K - 1 : ~Stops(active[i], ctx)
  /\ K <= N => Stops(active[K], ctx)

\* The loop before, at and after that policy.
After(active, ctx, K, i) ==
  IF i < K THEN NothingYet ELSE Turn(NothingYet, active[K], ctx)

LEMMA LoopToStop ==
  ASSUME NEW N \in Nat, NEW f, NEW active, NEW ctx, NEW K,
         LoopRuns(f, active, ctx, N), FirstStop(active, ctx, N, K)
  PROVE  \A i \in 0 .. N : f[i] = After(active, ctx, K, i)
<1> USE DEF LoopRuns, FirstStop, After
<1> DEFINE W(i) == IF i < K THEN NothingYet ELSE Turn(NothingYet, active[K], ctx)
           G == {i \in 0 .. N : f[i] = W(i)}
<1>1. 0 \in G
  BY DEF Turned
<1>2. ASSUME NEW i \in 1 .. N, i - 1 \in G PROVE i \in G
  <2>1. f[i] = Turn(W(i - 1), active[i], ctx) /\ i - 1 \in Nat
    BY <1>2 DEF Turned
  <2>2. CASE i < K
    <3>1. Turn(NothingYet, active[i], ctx) = NothingYet
      BY <2>2 DEF Turn, Stops, NothingYet
    <3> QED
      BY <1>2, <2>1, <2>2, <3>1
  <2>3. CASE i = K
    BY <1>2, <2>1, <2>3
  <2>4. CASE i > K
    <3>1. Stops(active[K], ctx)
      BY <2>4
    <3>2. Turn(NothingYet, active[K], ctx).exit # "none"
      BY <3>1 DEF Turn, Stops, NothingYet, Leave, CountDeny
    <3>3. Turn(Turn(NothingYet, active[K], ctx), active[i], ctx) = Turn(NothingYet, active[K], ctx)
      BY <3>2 DEF Turn
    <3>4. ~(i - 1 < K) /\ ~(i < K)
      BY <2>4
    <3> QED
      BY <1>2, <2>1, <3>3, <3>4
  <2> QED
    BY <2>2, <2>3, <2>4
<1>3. \A i \in 0 .. N : i \in G
  <2> HIDE DEF G
  <2> QED
    BY <1>1, <1>2, InductionTo
<1> QED
  BY <1>3

\* What assertAllowed returns: it leaves by one of three exits, has counted one
\* decision if it admits or denies and none if it throws, and admits only what
\* no policy stops.
LEMMA AssertAllowedProperties ==
  ASSUME NEW S, NEW active \in Seq(S), NEW ctx, NEW o, o = AssertAllowed(active, ctx)
  PROVE  /\ o.exit \in {"allow", "deny", "throw"}
         /\ o.allow = (IF o.exit = "allow" THEN 1 ELSE 0)
         /\ o.deny = (IF o.exit = "deny" THEN 1 ELSE 0)
         /\ o.exit = "allow" => \A i \in 1 .. Len(active) : ~Stops(active[i], ctx)
<1> DEFINE N == Len(active)
           f == CHOOSE g : IsLoop(g, active, ctx)
           E == f[N]
<1>1. N \in Nat
  OBVIOUS
<1>2. o = IF active = <<>> THEN Leave(CountAllow(NothingYet), "allow")
          ELSE IF E.exit = "none" THEN Leave(CountAllow(E), "allow") ELSE E
  BY DEF AssertAllowed, IsLoop, Turned, NothingYet
<1>3. PICK K \in 1 .. N + 1 : /\ \A i \in 1 .. K - 1 : ~Stops(active[i], ctx)
                              /\ K <= N => Stops(active[K], ctx)
  <2> DEFINE T == {i \in 1 .. N : Stops(active[i], ctx)}
  <2>1. CASE T = {}
    BY <1>1, <2>1
  <2>2. CASE T # {}
    <3>1. T \subseteq Nat
      OBVIOUS
    <3>2. PICK k \in T : \A m \in T : k <= m
      <4> HIDE DEF T
      <4> QED
        BY <2>2, <3>1, LeastOf
    <3>3. k \in 1 .. N /\ Stops(active[k], ctx) /\ \A i \in 1 .. k - 1 : i \in 1 .. N /\ i \notin T
      BY <1>1, <3>2
    <3> QED
      BY <1>1, <3>3
  <2> QED
    BY <2>1, <2>2
<1> DEFINE W == [i \in 0 .. N |-> IF i < K THEN NothingYet ELSE Turn(NothingYet, active[K], ctx)]
<1>4. \A i \in 0 .. N : W[i] = Turned(W, active, ctx, i)
  <2> TAKE i \in 0 .. N
  <2>1. CASE i = 0
    BY <1>1, <2>1 DEF Turned
  <2>2. CASE i > 0 /\ i < K
    <3>1. W[i - 1] = NothingYet /\ W[i] = NothingYet /\ ~Stops(active[i], ctx)
      BY <1>1, <1>3, <2>2
    <3> HIDE DEF W
    <3> QED
      BY <1>1, <2>2, <3>1 DEF Turned, Turn, Stops, NothingYet
  <2>3. CASE i = K
    <3>1. W[i - 1] = NothingYet /\ W[i] = Turn(NothingYet, active[i], ctx) /\ i # 0
      BY <1>1, <2>3
    <3> HIDE DEF W
    <3> QED
      BY <3>1 DEF Turned
  <2>4. CASE i > K
    <3>1. /\ W[i - 1] = Turn(NothingYet, active[K], ctx) /\ W[i] = Turn(NothingYet, active[K], ctx)
          /\ i # 0 /\ Stops(active[K], ctx)
      BY <1>1, <1>3, <2>4
    <3>2. Turn(NothingYet, active[K], ctx).exit # "none"
      BY <3>1 DEF Turn, Stops, NothingYet, Leave, CountDeny
    <3>3. Turn(Turn(NothingYet, active[K], ctx), active[i], ctx) = Turn(NothingYet, active[K], ctx)
      BY <3>2 DEF Turn
    <3> HIDE DEF W
    <3> QED
      BY <3>1, <3>3 DEF Turned
  <2> QED
    BY <1>1, <2>1, <2>2, <2>3, <2>4
<1>5. IsLoop(f, active, ctx)
  <2>1. IsLoop(W, active, ctx)
    BY <1>4 DEF IsLoop
  <2> QED
    BY <2>1
<1>6. \A i \in 0 .. N : f[i] = Turned(f, active, ctx, i)
  BY <1>5 DEF IsLoop
<1>7. E = IF N < K THEN NothingYet ELSE Turn(NothingYet, active[K], ctx)
  <2> HIDE DEF f, N
  <2>1. LoopRuns(f, active, ctx, N) /\ FirstStop(active, ctx, N, K)
    BY <1>3, <1>6 DEF LoopRuns, FirstStop
  <2>2. \A i \in 0 .. N : f[i] = After(active, ctx, K, i)
    BY <1>1, <2>1, LoopToStop
  <2>3. N \in 0 .. N
    BY <1>1
  <2> QED
    BY <2>2, <2>3 DEF After
<1> HIDE DEF E, f
<1>8. CASE N < K
  <2>1. Leave(CountAllow(NothingYet), "allow") = [exit |-> "allow", allow |-> 1, deny |-> 0]
    <3>1. CountAllow(NothingYet) = [exit |-> "none", allow |-> 1, deny |-> 0]
      BY DEF NothingYet, CountAllow
    <3> QED
      BY <3>1 DEF Leave
  <2>2. o = [exit |-> "allow", allow |-> 1, deny |-> 0]
    <3>1. E = NothingYet
      BY <1>7, <1>8
    <3>2. NothingYet.exit = "none"
      BY DEF NothingYet
    <3> QED
      BY <1>2, <2>1, <3>1, <3>2
  <2> QED
    BY <1>1, <1>3, <1>8, <2>2
<1>9. CASE N >= K
  <2>1. active # <<>> /\ Stops(active[K], ctx)
    BY <1>1, <1>3, <1>9
  <2>2. E = [exit |-> "throw", allow |-> 0, deny |-> 0] \/ E = [exit |-> "deny", allow |-> 0, deny |-> 1]
    <3>1. E = Turn(NothingYet, active[K], ctx)
      BY <1>1, <1>3, <1>7, <1>9
    <3>2. CASE active[K] = Unreadable
      BY <3>1, <3>2 DEF NothingYet, Turn, Leave
    <3>3. CASE active[K] # Unreadable
      <4>1. Turn(NothingYet, active[K], ctx) = Leave(CountDeny(NothingYet), "deny")
        BY <2>1, <3>3 DEF Turn, Stops, NothingYet
      <4>2. CountDeny(NothingYet) = [exit |-> "none", allow |-> 0, deny |-> 1]
        BY DEF NothingYet, CountDeny
      <4> QED
        BY <3>1, <4>1, <4>2 DEF Leave
    <3> QED
      BY <3>2, <3>3
  <2>3. o = E
    BY <1>2, <2>1, <2>2
  <2> QED
    BY <2>2, <2>3
<1> QED
  BY <1>1, <1>3, <1>8, <1>9

-----------------------------------------------------------------------------

\* The token count of a payload is a natural number, and so is its price.
LEMMA TokensNat ==
  ASSUME NEW len \in Nat
  PROVE  TokensUsed(len) \in Nat /\ PriceComputed(TokensUsed(len)) \in Nat
BY DEF TokensUsed, PriceComputed

\* The rows the handler writes have the type of the tables.
LEMMA RowTypes ==
  ASSUME TypeOK, NEW r \in Requests
  PROVE  UsageRow(r) \in UsageRows /\ ReceiptRow(r) \in ReceiptRows
<1>1. env[r] \in Envelopes /\ env[r].to \in Agents /\ env[r].len \in Nat
  BY EnvelopeAssumption DEF TypeOK, Agents
<1>2. TokensUsed(env[r].len) \in Nat /\ PriceComputed(TokensUsed(env[r].len)) \in Nat
  BY <1>1, TokensNat
<1> QED
  BY <1>1, <1>2 DEF UsageRow, ReceiptRow, UsageRows, ReceiptRows

\* What eviction and registration do to the store, key by key.
LEMMA EvictType ==
  ASSUME entries \in [Keys -> Nat \union {Absent}], now \in Nat
  PROVE  EvictExpired(entries, now) \in [Keys -> Nat \union {Absent}]
BY DEF EvictExpired

LEMMA RegisterType ==
  ASSUME entries \in [Keys -> Nat \union {Absent}], now \in Nat, NEW k \in Keys
  PROVE  Register(entries, k, now) \in [Keys -> Nat \union {Absent}]
BY EvictType DEF Register

\* The key of a request is a key of the store.
LEMMA KeyType ==
  ASSUME TypeOK, NEW r \in Requests
  PROVE  KeyOf(env[r]) \in Keys
BY DEF TypeOK, KeyOf, Keys

\* A SELECT returns rules of stored rows, and none of the active policies is missing.
LEMMA ListingProperties ==
  ASSUME TypeOK, NEW r \in Requests, NEW found \in Listings(policies, env[r].to)
  PROVE  /\ found \in Seq({row.rules : row \in PolicyRows})
         /\ \A p \in ActivePolicies(policies, env[r].to) :
              \E i \in 1 .. Len(found) : found[i] = policies[p].rules
<1> DEFINE A == ActivePolicies(policies, env[r].to)
           n == Cardinality(A)
           S == {row.rules : row \in PolicyRows}
<1>1. PICK o \in [1 .. n -> A] : /\ \A p \in A : \E i \in DOMAIN o : o[i] = p
                                 /\ found = [i \in 1 .. n |-> policies[o[i]].rules]
  BY DEF Listings
<1>2. n \in Nat
  <2>1. A \in SUBSET PolicyIds
    BY DEF ActivePolicies
  <2> QED
    BY <2>1, PolicyAssumption, FS_Subset, FS_CardinalityType
<1>3. \A p \in A : policies[p].rules \in S
  BY DEF ActivePolicies, TypeOK, NoRow
<1> HIDE DEF A, n, S
<1>4. found \in [1 .. n -> S]
  BY <1>1, <1>3
<1>5. found \in Seq(S) /\ Len(found) = n
  BY <1>2, <1>4
<1>6. \A p \in A : \E i \in 1 .. n : found[i] = policies[p].rules
  BY <1>1
<1> QED
  BY <1>5, <1>6 DEF A, S

\* What a handler that holds its rows is about to do.
LEMMA VerdictProperties ==
  ASSUME TypeOK, NEW r \in Requests
  PROVE  /\ Verdict(r).exit \in {"allow", "deny", "throw"}
         /\ Verdict(r).allow = (IF Verdict(r).exit = "allow" THEN 1 ELSE 0)
         /\ Verdict(r).deny = (IF Verdict(r).exit = "deny" THEN 1 ELSE 0)
         /\ Verdict(r).exit = "allow" =>
              \A i \in 1 .. Len(rows[r]) : ~Stops(rows[r][i], ContextOf(env[r]))
<1>1. rows[r] \in Seq({row.rules : row \in PolicyRows})
  BY DEF TypeOK, RowsOK
<1> QED
  BY <1>1, AssertAllowedProperties DEF Verdict

\* Rows that nothing in them stops come from a table that allows the request.
LEMMA ListingIsTable ==
  ASSUME TypeOK, NEW r \in Requests, NEW found \in Listings(policies, env[r].to),
         \A i \in 1 .. Len(found) : ~Stops(found[i], ContextOf(env[r]))
  PROVE  AllowedBy(policies, env[r])
<1> SUFFICES ASSUME NEW p \in ActivePolicies(policies, env[r].to)
             PROVE  ~Stops(policies[p].rules, ContextOf(env[r]))
  BY DEF AllowedBy, Stops
<1>1. PICK i \in 1 .. Len(found) : found[i] = policies[p].rules
  BY ListingProperties
<1> QED
  BY <1>1

LEMMA TypeInit == Init => TypeOK
<1> SUFFICES ASSUME Init PROVE TypeOK
  OBVIOUS
<1> QED
  BY DEF Init, TypeOK, RowsOK, States, NoRow

LEMMA TypeNext == TypeOK /\ [Next]_vars => TypeOK'
<1> SUFFICES ASSUME TypeOK, [Next]_vars PROVE TypeOK'
  OBVIOUS
<1> USE DEF memory, tables
<1>r. rows' = rows => RowsOK'
  BY DEF RowsOK, TypeOK
<1>1. CASE Tick
  BY <1>r, <1>1, BoundAssumption DEF Tick, TypeOK
<1>2. ASSUME NEW r \in Requests, Admit(r) PROVE TypeOK'
  <2>1. entries' \in [Keys -> Nat \union {Absent}]
    BY <1>2, KeyType, RegisterType DEF Admit, TypeOK
  <2>2. AllowedBy(policies, env[r]) \in BOOLEAN
    BY DEF AllowedBy
  <2> QED
    BY <1>r, <1>2, <2>1, <2>2 DEF Admit, Arrive, Goto, TypeOK, States, Waiting
<1>3. ASSUME NEW r \in Requests, Conflict(r) PROVE TypeOK'
  BY <1>r, <1>3, EvictType DEF Conflict, Arrive, Goto, TypeOK, States, Answered
<1>4. ASSUME NEW r \in Requests, FindPolicies(r) PROVE TypeOK'
  <2>1. PICK found \in Listings(policies, env[r].to) : rows' = [rows EXCEPT ![r] = found]
    BY <1>4 DEF FindPolicies
  <2>2. found \in Seq({row.rules : row \in PolicyRows})
    BY ListingProperties
  <2>3. RowsOK'
    BY <2>1, <2>2 DEF RowsOK, TypeOK
  <2> QED
    BY <1>4, <2>3 DEF FindPolicies, Goto, TypeOK, States, Waiting
<1>5. ASSUME NEW r \in Requests, Allow(r) \/ Deny(r) \/ PolicyThrows(r) PROVE TypeOK'
  <2>1. \E exit, state : state \in States /\ Decide(r, exit, state)
    BY <1>5 DEF Allow, Deny, PolicyThrows, States, Waiting, Answered
  <2>a. PICK exit, state : state \in States /\ Decide(r, exit, state)
    BY <2>1
  <2>2. Verdict(r).allow \in Nat /\ Verdict(r).deny \in Nat
    BY VerdictProperties
  <2>3. decisions' \in [allow : Nat, deny : Nat]
    BY <2>a, <2>2 DEF Decide, CountDecisions, TypeOK
  <2>4. RowsOK'
    <3>1. <<>> \in Seq({row.rules : row \in PolicyRows})
      OBVIOUS
    <3> QED
      BY <2>a, <3>1 DEF Decide, RowsOK, TypeOK
  <2> QED
    BY <2>a, <2>3, <2>4 DEF Decide, Goto, TypeOK
<1>6. ASSUME NEW r \in Requests, SigningFails(r) PROVE TypeOK'
  BY <1>r, <1>6 DEF SigningFails, Goto, TypeOK, States, Answered
<1>7. ASSUME NEW r \in Requests, RecordUsage(r) PROVE TypeOK'
  BY <1>r, <1>7, RowTypes DEF RecordUsage, Goto, TypeOK, States, Waiting
<1>8. ASSUME NEW r \in Requests, SignReceipt(r) PROVE TypeOK'
  BY <1>r, <1>8 DEF SignReceipt, Goto, TypeOK, States, Waiting
<1>9. ASSUME NEW r \in Requests, SaveReceipt(r) PROVE TypeOK'
  BY <1>r, <1>9, RowTypes DEF SaveReceipt, Goto, TypeOK, States, Waiting
<1>10. ASSUME NEW r \in Requests, Reply(r) PROVE TypeOK'
  BY <1>r, <1>10 DEF Reply, Goto, TypeOK, States, Answered
<1>11. ASSUME NEW r \in Requests, DatabaseError(r) PROVE TypeOK'
  BY <1>r, <1>11, RowTypes DEF DatabaseError, Goto, TypeOK, States, Answered
<1>12. ASSUME NEW p \in PolicyIds, WritePolicy(p) PROVE TypeOK'
  BY <1>r, <1>12 DEF WritePolicy, TypeOK
<1>13. CASE PostUsage
  BY <1>r, <1>13, EnvelopeAssumption, TokensNat DEF PostUsage, TypeOK, UsageRows
<1>14. CASE PostReceipt
  <2> PICK b \in RawBodies : receipts' = receipts \union
             {[req |-> Raw, tokens |-> TokensUsed(b.len),
               price |-> PriceComputed(TokensUsed(b.len)), signed |-> FALSE]}
    BY <1>14 DEF PostReceipt
  <2>1. TokensUsed(b.len) \in Nat /\ PriceComputed(TokensUsed(b.len)) \in Nat
    BY EnvelopeAssumption, TokensNat
  <2>2. [req |-> Raw, tokens |-> TokensUsed(b.len),
         price |-> PriceComputed(TokensUsed(b.len)), signed |-> FALSE] \in ReceiptRows
    BY <2>1 DEF ReceiptRows
  <2>3. receipts' \subseteq ReceiptRows
    BY <2>2 DEF TypeOK
  <2> QED
    BY <1>r, <1>14, <2>3 DEF PostReceipt, TypeOK
<1>15. CASE EvictionTimer
  BY <1>r, <1>15, EvictType DEF EvictionTimer, TypeOK
<1>16. CASE Restart
  <2>1. RowsOK'
    BY <1>16 DEF Restart, RowsOK
  <2> QED
    BY <1>16, <2>1 DEF Restart, TypeOK, States
<1>17. CASE UNCHANGED vars
  BY <1>r, <1>17 DEF vars, TypeOK
<1> QED
  BY <1>1, <1>2, <1>3, <1>4, <1>5, <1>6, <1>7, <1>8, <1>9, <1>10, <1>11, <1>12,
     <1>13, <1>14, <1>15, <1>16, <1>17 DEF Next, Handle

\* Every reachable state is well typed.
THEOREM TypeCorrect == Spec => []TypeOK
BY TypeInit, TypeNext, PTL DEF Spec

-----------------------------------------------------------------------------
(***************************************************************************)
(* Replay protection.  NoReplayInWindow is not inductive: it says nothing  *)
(* of the store.  The strengthening says that a request has arrived in the *)
(* past (Arrived), and that as long as its window has not passed the store *)
(* of its incarnation still holds its key (Remembered).                    *)
(***************************************************************************)

Arrived ==
  \A r \in Requests : pc[r] # "idle" =>
    at[r] \in Nat /\ at[r] <= now /\ born[r] <= epoch

Remembered ==
  \A r \in Requests :
    Admitted(r) /\ Guarded(r) /\ born[r] = epoch =>
      now - at[r] > Window \/ entries[KeyOf(env[r])] >= at[r]

ReplayInv == TypeOK /\ Arrived /\ Remembered /\ NoReplayInWindow

LEMMA ReplayInit == Init => ReplayInv
<1> SUFFICES ASSUME Init PROVE ReplayInv
  OBVIOUS
<1>1. TypeOK
  BY TypeInit
<1>2. Arrived /\ Remembered /\ NoReplayInWindow
  BY DEF Init, Arrived, Remembered, NoReplayInWindow, Admitted
<1> QED
  BY <1>1, <1>2 DEF ReplayInv

\* Eviction keeps every entry whose window has not passed.
LEMMA EvictKeeps ==
  ASSUME TypeOK, Arrived, Remembered, NEW r \in Requests,
         Admitted(r), Guarded(r), born[r] = epoch, ~(now - at[r] > Window)
  PROVE  EvictExpired(entries, now)[KeyOf(env[r])] >= at[r]
<1>1. entries[KeyOf(env[r])] >= at[r] /\ at[r] \in Nat /\ at[r] <= now
  BY DEF Remembered, Arrived, Admitted
<1>2. KeyOf(env[r]) \in DOMAIN entries /\ entries[KeyOf(env[r])] \in Nat
  BY <1>1, KeyType DEF TypeOK, Absent
<1> QED
  BY <1>1, <1>2, WindowAssumption DEF EvictExpired, TypeOK

\* A step that leaves the requests, the clock and the epoch alone, and keeps
\* the unexpired entries.
LEMMA StoreStep ==
  ASSUME ReplayInv, TypeOK', UNCHANGED <<now, epoch, env, at, born>>,
         \A r \in Requests : (pc[r] = "idle" <=> pc'[r] = "idle")
                         /\ (pc[r] = "conflict" <=> pc'[r] = "conflict"),
         \/ UNCHANGED entries
         \/ entries' = EvictExpired(entries, now)
  PROVE  ReplayInv'
<1>1. Arrived'
  BY DEF ReplayInv, Arrived
<1>2. \A r \in Requests : Admitted(r)' <=> Admitted(r)
  BY DEF Admitted
<1>3. Remembered'
  <2> SUFFICES ASSUME NEW r \in Requests, Admitted(r), Guarded(r), born[r] = epoch,
                      ~(now - at[r] > Window)
               PROVE  entries'[KeyOf(env[r])] >= at[r]
    BY <1>2 DEF Remembered, Guarded
  <2> QED
    BY EvictKeeps DEF ReplayInv, Remembered
<1>4. NoReplayInWindow'
  BY <1>2 DEF ReplayInv, NoReplayInWindow, Guarded, SameKey
<1> QED
  BY <1>1, <1>3, <1>4 DEF ReplayInv

LEMMA ReplayNext == ReplayInv /\ [Next]_vars => ReplayInv'
<1> SUFFICES ASSUME ReplayInv, [Next]_vars PROVE ReplayInv'
  OBVIOUS
<1> USE DEF memory, tables
<1>0. TypeOK /\ TypeOK'
  BY TypeNext DEF ReplayInv
<1>1. CASE Tick
  <2>1. Arrived' /\ NoReplayInWindow'
    BY <1>0, <1>1 DEF ReplayInv, Tick, Arrived, NoReplayInWindow, Admitted, Guarded, SameKey, TypeOK
  <2>2. Remembered'
    BY <1>0, <1>1, WindowAssumption
       DEF ReplayInv, Tick, Arrived, Remembered, Admitted, Guarded, TypeOK
  <2> QED
    BY <1>0, <2>1, <2>2 DEF ReplayInv
<1>2. ASSUME NEW r \in Requests, Admit(r) PROVE ReplayInv'
  <2>1. /\ pc[r] = "idle" /\ pc' = [pc EXCEPT ![r] = "finding"]
        /\ at' = [at EXCEPT ![r] = now] /\ born' = [born EXCEPT ![r] = epoch]
        /\ UNCHANGED <<now, epoch, env>>
    BY <1>2 DEF Admit, Arrive, Goto
  <2>2. Arrived'
    BY <1>0, <2>1 DEF ReplayInv, Arrived, TypeOK
  <2>3. \A q \in Requests \ {r} :
          /\ (Admitted(q)' <=> Admitted(q)) /\ (Guarded(q)' <=> Guarded(q))
          /\ at'[q] = at[q] /\ born'[q] = born[q]
    BY <1>0, <2>1 DEF Admitted, Guarded, TypeOK
  <2>4. at'[r] = now /\ born'[r] = epoch /\ now \in Nat
    BY <1>0, <2>1 DEF TypeOK
  <2>5. ASSUME NEW q \in Requests \ {r}, Admitted(q), Guarded(q), born[q] = epoch,
               SameKey(q, r)
        PROVE  now - at[q] > Window
    <3>1. Guarded(r)
      BY <2>5 DEF SameKey, Guarded, KeyOf
    <3>2. EvictExpired(entries, now)[KeyOf(env[r])] = Absent
      BY <1>2, <3>1 DEF Admit, Guarded, IsFresh
    <3>3. at[q] \in Nat
      BY <2>5 DEF ReplayInv, Arrived, Admitted
    <3> SUFFICES ASSUME ~(now - at[q] > Window) PROVE FALSE
      OBVIOUS
    <3>4. EvictExpired(entries, now)[KeyOf(env[q])] >= at[q]
      BY <2>5, EvictKeeps DEF ReplayInv
    <3> QED
      BY <2>5, <3>2, <3>3, <3>4 DEF SameKey, Absent
  <2>6. Remembered'
    <3> SUFFICES ASSUME NEW q \in Requests, Admitted(q)', Guarded(q)', born'[q] = epoch,
                        ~(now - at'[q] > Window)
                 PROVE  entries'[KeyOf(env[q])] >= at'[q]
      BY <2>1 DEF Remembered
    <3>1. CASE q = r
      <4>1. entries' = Register(entries, KeyOf(env[r]), now)
        BY <1>2, <2>1, <3>1 DEF Admit, Guarded
      <4>2. KeyOf(env[r]) \in DOMAIN EvictExpired(entries, now)
        BY <1>0, KeyType DEF EvictExpired, TypeOK
      <4> QED
        BY <2>4, <3>1, <4>1, <4>2 DEF Register
    <3>2. CASE q # r
      <4>1. Admitted(q) /\ Guarded(q) /\ born[q] = epoch /\ at'[q] = at[q]
        BY <2>3, <3>2
      <4>2. CASE SameKey(q, r)
        BY <2>5, <3>2, <4>1, <4>2
      <4>3. CASE ~SameKey(q, r)
        <5>1. entries' = entries \/ entries' = Register(entries, KeyOf(env[r]), now)
          BY <1>2 DEF Admit
        <5>2. EvictExpired(entries, now)[KeyOf(env[q])] >= at[q]
          BY <1>0, <4>1, EvictKeeps DEF ReplayInv
        <5>3. entries[KeyOf(env[q])] >= at[q]
          BY <4>1 DEF ReplayInv, Remembered
        <5>4. KeyOf(env[q]) # KeyOf(env[r])
          BY <4>3 DEF SameKey
        <5>5. Register(entries, KeyOf(env[r]), now)[KeyOf(env[q])]
                = EvictExpired(entries, now)[KeyOf(env[q])]
          BY <1>0, <5>4, KeyType DEF Register, EvictExpired, TypeOK
        <5> QED
          BY <4>1, <5>1, <5>2, <5>3, <5>5
      <4> QED
        BY <4>2, <4>3
    <3> QED
      BY <3>1, <3>2
  <2>7. NoReplayInWindow'
    <3> SUFFICES ASSUME NEW p \in Requests, NEW q \in Requests, p # q,
                        Admitted(p)', Admitted(q)', Guarded(p)', SameKey(p, q)',
                        born'[p] = born'[q], at'[p] <= at'[q]
                 PROVE  at'[q] - at'[p] > Window
      BY DEF NoReplayInWindow
    <3>1. SameKey(p, q) /\ Guarded(q)'
      BY <2>1 DEF SameKey, Guarded, KeyOf
    <3>2. CASE q = r
      BY <2>3, <2>4, <2>5, <3>1, <3>2
    <3>3. CASE p = r
      <4>1. q # r /\ Admitted(q) /\ Guarded(q) /\ born[q] = epoch /\ at'[q] = at[q]
        BY <2>3, <2>4, <3>1, <3>3
      <4>2. SameKey(q, r)
        BY <3>1, <3>3 DEF SameKey
      <4>3. now - at[q] > Window /\ at[q] \in Nat
        BY <2>5, <4>1, <4>2 DEF ReplayInv, Arrived, Admitted
      <4> QED
        BY <2>4, <3>3, <4>1, <4>3, WindowAssumption
    <3>4. CASE p # r /\ q # r
      BY <2>3, <3>1, <3>4 DEF ReplayInv, NoReplayInWindow
    <3> QED
      BY <3>2, <3>3, <3>4
  <2> QED
    BY <1>0, <2>2, <2>6, <2>7 DEF ReplayInv
<1>3. ASSUME NEW r \in Requests, Conflict(r) PROVE ReplayInv'
  <2>1. /\ pc[r] = "idle" /\ pc' = [pc EXCEPT ![r] = "conflict"]
        /\ at' = [at EXCEPT ![r] = now] /\ born' = [born EXCEPT ![r] = epoch]
        /\ UNCHANGED <<now, epoch, env>>
        /\ entries' = EvictExpired(entries, now)
    BY <1>3 DEF Conflict, Arrive, Goto
  <2>2. Arrived'
    BY <1>0, <2>1 DEF ReplayInv, Arrived, TypeOK
  <2>3. \A q \in Requests : Admitted(q)' =>
          Admitted(q) /\ at'[q] = at[q] /\ born'[q] = born[q]
    BY <1>0, <2>1 DEF Admitted, TypeOK
  <2>4. Remembered'
    <3> SUFFICES ASSUME NEW q \in Requests, Admitted(q)', Guarded(q), born'[q] = epoch,
                        ~(now - at'[q] > Window)
                 PROVE  EvictExpired(entries, now)[KeyOf(env[q])] >= at'[q]
      BY <2>1 DEF Remembered, Guarded
    <3> QED
      BY <2>3, EvictKeeps DEF ReplayInv
  <2>5. NoReplayInWindow'
    BY <2>1, <2>3 DEF ReplayInv, NoReplayInWindow, Guarded, SameKey
  <2> QED
    BY <1>0, <2>2, <2>4, <2>5 DEF ReplayInv
<1>4. ASSUME NEW r \in Requests, Handle(r) PROVE ReplayInv'
  <2>1. /\ pc[r] \in Waiting
        /\ \E s \in States \ {"idle", "conflict"} : pc' = [pc EXCEPT ![r] = s]
        /\ UNCHANGED <<now, epoch, entries, env, at, born>>
    BY <1>4 DEF Handle, FindPolicies, Allow, Deny, PolicyThrows, Decide, RecordUsage, SignReceipt,
                SigningFails, SaveReceipt, Reply, DatabaseError, Goto, Waiting, Answered, States
  <2>2. \A q \in Requests : (pc[q] = "idle" <=> pc'[q] = "idle")
                       /\ (pc[q] = "conflict" <=> pc'[q] = "conflict")
    BY <1>0, <2>1 DEF TypeOK, Waiting
  <2> QED
    BY <1>0, <2>1, <2>2, StoreStep
<1>5. ASSUME NEW p \in PolicyIds, WritePolicy(p) PROVE ReplayInv'
  BY <1>0, <1>5, StoreStep DEF WritePolicy
<1>6. CASE PostUsage \/ PostReceipt \/ EvictionTimer
  BY <1>0, <1>6, StoreStep DEF PostUsage, PostReceipt, EvictionTimer
<1>7. CASE Restart
  <2>1. /\ epoch' = epoch + 1 /\ UNCHANGED <<now, env, at, born>>
        /\ \A q \in Requests : pc'[q] = "idle" <=> pc[q] = "idle"
        /\ \A q \in Requests : Admitted(q)' <=> Admitted(q)
    BY <1>0, <1>7 DEF Restart, Waiting, Admitted, TypeOK
  <2>2. Arrived'
    BY <1>0, <2>1 DEF ReplayInv, Arrived, TypeOK
  <2>3. Remembered'
    BY <1>0, <2>1 DEF ReplayInv, Arrived, Remembered, Admitted, TypeOK
  <2>4. NoReplayInWindow'
    BY <2>1 DEF ReplayInv, NoReplayInWindow, Guarded, SameKey
  <2> QED
    BY <1>0, <2>2, <2>3, <2>4 DEF ReplayInv
<1>8. CASE UNCHANGED vars
  BY <1>0, <1>8, StoreStep DEF vars
<1> QED
  BY <1>1, <1>2, <1>3, <1>4, <1>5, <1>6, <1>7, <1>8 DEF Next

\* One incarnation of the process never lets the same agent's same nonce in
\* twice within the replay window (NonceStoreService.assertFresh).
THEOREM ReplayProtection == Spec => []NoReplayInWindow
<1>1. ReplayInv => NoReplayInWindow
  BY DEF ReplayInv
<1> QED
  BY <1>1, ReplayInit, ReplayNext, PTL DEF Spec
-----------------------------------------------------------------------------
(***************************************************************************)
(* Metering and policies.  The strengthening ties the rows of the two      *)
(* tables to the progress of the handler that wrote them, in both          *)
(* directions, and the verdict of the evaluator to the history of the      *)
(* policies.                                                               *)
(***************************************************************************)

\* A usage record of a request was written by its handler, which has got past
\* the INSERT, after the policies allowed the request.
UsageIsWritten ==
  \A u \in usage : u.req # Raw =>
    /\ u = UsageRow(u.req)
    /\ everAllowed[u.req]
    /\ pc[u.req] \in {"signing", "saving", "replying", "completed", "failed", "lost"}

\* A receipt of a request was written by its handler, after the usage record.
ReceiptIsWritten ==
  \A c \in receipts : c.req # Raw =>
    /\ c = ReceiptRow(c.req)
    /\ UsageRow(c.req) \in usage
    /\ pc[c.req] \in {"replying", "completed", "failed", "lost"}

\* A handler past an INSERT has left its row.
ProgressIsStored ==
  \A r \in Requests :
    /\ pc[r] \in {"signing", "saving", "replying", "completed"} => UsageRow(r) \in usage
    /\ pc[r] \in {"replying", "completed"} => ReceiptRow(r) \in receipts

\* The verdict a handler is about to reach agrees with the history.
VerdictIsHistoric ==
  \A r \in Requests :
    /\ pc[r] = "finding" /\ AllowedBy(policies, env[r]) => everAllowed[r]
    /\ pc[r] = "evaluating" /\ Verdict(r).exit = "allow" => everAllowed[r]
    /\ pc[r] \in {"recording", "signing", "saving", "replying", "completed"} => everAllowed[r]

MeterInv ==
  TypeOK /\ UsageIsWritten /\ ReceiptIsWritten /\ ProgressIsStored /\ VerdictIsHistoric

LEMMA MeterInit == Init => MeterInv
<1> SUFFICES ASSUME Init PROVE MeterInv
  OBVIOUS
<1> QED
  BY TypeInit DEF Init, MeterInv, UsageIsWritten, ReceiptIsWritten, ProgressIsStored,
                  VerdictIsHistoric

\* A step that changes neither tables nor requests, except for requests that die.
LEMMA QuietStep ==
  ASSUME MeterInv, TypeOK', UNCHANGED <<env, policies, everAllowed>>,
         \A r \in Requests : pc'[r] = "evaluating" => rows'[r] = rows[r],
         \A u \in usage' : u \in usage \/ u.req = Raw, usage \subseteq usage',
         \A c \in receipts' : c \in receipts \/ c.req = Raw, receipts \subseteq receipts',
         \A r \in Requests : pc'[r] = pc[r] \/ (pc[r] \in Waiting /\ pc'[r] = "lost")
  PROVE  MeterInv'
<1> USE DEF MeterInv, UsageRow, ReceiptRow
<1>1. UsageIsWritten'
  BY DEF UsageIsWritten, TypeOK, UsageRows
<1>2. ReceiptIsWritten'
  BY DEF ReceiptIsWritten, TypeOK, ReceiptRows
<1>3. ProgressIsStored'
  BY DEF ProgressIsStored
<1>4. VerdictIsHistoric'
  BY DEF VerdictIsHistoric, Verdict, AllowedBy, Waiting
<1> QED
  BY <1>1, <1>2, <1>3, <1>4

LEMMA MeterNext == MeterInv /\ [Next]_vars => MeterInv'
<1> SUFFICES ASSUME MeterInv, [Next]_vars PROVE MeterInv'
  OBVIOUS
<1> USE DEF memory, tables
<1>0. TypeOK /\ TypeOK' /\ UsageIsWritten /\ ReceiptIsWritten /\ ProgressIsStored /\ VerdictIsHistoric
  BY TypeNext DEF MeterInv
<1>1. CASE Tick \/ PostUsage \/ PostReceipt \/ EvictionTimer \/ Restart \/ UNCHANGED vars
  <2>1. /\ UNCHANGED <<env, policies, everAllowed>>
        /\ \A r \in Requests : pc'[r] = "evaluating" => rows'[r] = rows[r]
    BY <1>1 DEF Waiting, Tick, PostUsage, PostReceipt, EvictionTimer, Restart, vars
  <2>2. (\A u \in usage' : u \in usage \/ u.req = Raw) /\ usage \subseteq usage'
    BY <1>1 DEF Tick, PostUsage, PostReceipt, EvictionTimer, Restart, vars
  <2>3. (\A c \in receipts' : c \in receipts \/ c.req = Raw) /\ receipts \subseteq receipts'
    BY <1>1 DEF Tick, PostUsage, PostReceipt, EvictionTimer, Restart, vars
  <2>4. \A r \in Requests : pc'[r] = pc[r] \/ (pc[r] \in Waiting /\ pc'[r] = "lost")
    BY <1>1 DEF Tick, PostUsage, PostReceipt, EvictionTimer, Restart, vars
  <2> QED
    BY <1>0, <2>1, <2>2, <2>3, <2>4, QuietStep
<1>2. ASSUME NEW p \in PolicyIds, WritePolicy(p) PROVE MeterInv'
  <2>1. /\ UNCHANGED <<pc, env, rows, usage, receipts>>
        /\ \A r \in Requests : everAllowed[r] => everAllowed'[r]
        /\ \A r \in Requests : pc[r] = "finding" /\ AllowedBy(policies', env[r]) => everAllowed'[r]
    BY <1>0, <1>2 DEF WritePolicy, TypeOK
  <2>2. UsageIsWritten'
    BY <1>0, <2>1, RawAssumption DEF UsageIsWritten, TypeOK, UsageRow, UsageRows
  <2>3. ReceiptIsWritten' /\ ProgressIsStored'
    BY <1>0, <2>1 DEF ReceiptIsWritten, ProgressIsStored, UsageRow, ReceiptRow
  <2>4. VerdictIsHistoric'
    BY <1>0, <2>1 DEF VerdictIsHistoric, Verdict
  <2> QED
    BY <1>0, <2>2, <2>3, <2>4 DEF MeterInv
<1>3. ASSUME NEW r \in Requests, Admit(r) \/ Conflict(r) PROVE MeterInv'
  <2>1. /\ pc[r] = "idle" /\ UNCHANGED <<env, rows, policies, usage, receipts>>
        /\ pc' = [pc EXCEPT ![r] = "finding"] \/ pc' = [pc EXCEPT ![r] = "conflict"]
        /\ \A q \in Requests \ {r} : everAllowed'[q] = everAllowed[q]
        /\ pc'[r] = "finding" /\ AllowedBy(policies, env[r]) => everAllowed'[r]
    BY <1>0, <1>3 DEF Admit, Conflict, Arrive, Goto, TypeOK
  <2>2. UsageIsWritten'
    BY <1>0, <2>1 DEF UsageIsWritten, TypeOK, UsageRow, UsageRows
  <2>3. ReceiptIsWritten'
    BY <1>0, <2>1 DEF ReceiptIsWritten, TypeOK, UsageRow, ReceiptRow, ReceiptRows
  <2>4. ProgressIsStored'
    BY <1>0, <2>1 DEF ProgressIsStored, UsageRow, ReceiptRow, TypeOK
  <2>5. VerdictIsHistoric'
    BY <1>0, <2>1 DEF VerdictIsHistoric, Verdict, TypeOK
  <2> QED
    BY <1>0, <2>2, <2>3, <2>4, <2>5 DEF MeterInv
<1>4. ASSUME NEW r \in Requests,
             \/ FindPolicies(r) \/ Allow(r) \/ Deny(r) \/ PolicyThrows(r)
             \/ SignReceipt(r) \/ SigningFails(r) \/ Reply(r)
      PROVE  MeterInv'
  <2>0. DOMAIN rows = Requests
    BY <1>0 DEF RowsOK, TypeOK
  <2>1. /\ UNCHANGED <<env, policies, usage, receipts, everAllowed>>
        /\ \E s \in States : pc' = [pc EXCEPT ![r] = s]
        /\ \A q \in Requests \ {r} : rows'[q] = rows[q]
        /\ \/ pc[r] = "finding" /\ pc'[r] = "evaluating"
           \/ pc[r] = "evaluating" /\ Verdict(r).exit = "allow" /\ pc'[r] = "recording"
           \/ pc[r] = "evaluating" /\ pc'[r] \in {"denied", "failed"}
           \/ pc[r] = "signing" /\ pc'[r] \in {"saving", "failed"}
           \/ pc[r] = "replying" /\ pc'[r] = "completed"
    BY <1>0, <1>4, <2>0 DEF FindPolicies, Allow, Deny, PolicyThrows, Decide, SignReceipt, SigningFails,
                      Reply, Goto, TypeOK, States, Waiting, Answered
  <2>2. UsageIsWritten'
    BY <1>0, <2>1 DEF UsageIsWritten, TypeOK, UsageRow, UsageRows
  <2>3. ReceiptIsWritten'
    BY <1>0, <2>1 DEF ReceiptIsWritten, TypeOK, UsageRow, ReceiptRow, ReceiptRows
  <2>4. ProgressIsStored'
    BY <1>0, <2>1 DEF ProgressIsStored, UsageRow, ReceiptRow, TypeOK
  <2>5. ASSUME pc'[r] = "evaluating", Verdict(r)'.exit = "allow" PROVE everAllowed[r]
    <3>1. PICK found \in Listings(policies, env[r].to) : rows' = [rows EXCEPT ![r] = found]
      BY <1>0, <1>4, <2>1, <2>5 DEF FindPolicies, Allow, Deny, PolicyThrows, Decide, SignReceipt,
                                    SigningFails, Reply
    <3>2. rows'[r] = found /\ Verdict(r)' = AssertAllowed(found, ContextOf(env[r]))
      BY <1>0, <2>1, <3>1 DEF TypeOK, RowsOK, Verdict, ContextOf
    <3>3. found \in Seq({row.rules : row \in PolicyRows})
      BY <1>0, ListingProperties
    <3>4. \A i \in 1 .. Len(found) : ~Stops(found[i], ContextOf(env[r]))
      BY <2>5, <3>2, <3>3, AssertAllowedProperties
    <3>5. AllowedBy(policies, env[r]) /\ pc[r] = "finding"
      BY <1>0, <2>1, <2>5, <3>4, ListingIsTable
    <3> QED
      BY <1>0, <3>5 DEF VerdictIsHistoric
  <2>6. VerdictIsHistoric'
    <3> SUFFICES ASSUME NEW q \in Requests
                 PROVE  /\ pc'[q] = "finding" /\ AllowedBy(policies, env[q]) => everAllowed[q]
                        /\ pc'[q] = "evaluating" /\ Verdict(q)'.exit = "allow" => everAllowed[q]
                        /\ pc'[q] \in {"recording", "signing", "saving", "replying", "completed"} =>
                             everAllowed[q]
      BY <2>1 DEF VerdictIsHistoric
    <3>1. CASE q = r
      BY <1>0, <2>1, <2>5, <3>1 DEF VerdictIsHistoric
    <3>2. CASE q # r
      <4>1. pc'[q] = pc[q] /\ Verdict(q)' = Verdict(q)
        BY <1>0, <2>1, <3>2 DEF TypeOK, Verdict
      <4> QED
        BY <1>0, <4>1 DEF VerdictIsHistoric
    <3> QED
      BY <3>1, <3>2
  <2> QED
    BY <1>0, <2>2, <2>3, <2>4, <2>6 DEF MeterInv
<1>5. ASSUME NEW r \in Requests, RecordUsage(r) \/ SaveReceipt(r) \/ DatabaseError(r)
      PROVE  MeterInv'
  <2>1. /\ UNCHANGED <<env, rows, policies, everAllowed>>
        /\ \E s \in States : pc' = [pc EXCEPT ![r] = s]
        /\ \/ /\ pc[r] = "recording" /\ pc'[r] \in {"signing", "failed"}
              /\ usage' = usage \union {UsageRow(r)} /\ UNCHANGED receipts
           \/ /\ pc[r] = "saving" /\ pc'[r] \in {"replying", "failed"}
              /\ receipts' = receipts \union {ReceiptRow(r)} /\ UNCHANGED usage
           \/ /\ pc[r] \in {"finding", "recording", "saving"} /\ pc'[r] = "failed"
              /\ UNCHANGED <<usage, receipts>>
    BY <1>0, <1>5 DEF RecordUsage, SaveReceipt, DatabaseError, Goto, TypeOK, States, Waiting, Answered
  <2>2. UsageRow(r).req = r /\ ReceiptRow(r).req = r /\ r # Raw
        /\ UNCHANGED <<UsageRow(r), ReceiptRow(r)>>
    BY <2>1, RawAssumption DEF UsageRow, ReceiptRow
  <2>3. UsageIsWritten'
    BY <1>0, <2>1, <2>2 DEF UsageIsWritten, VerdictIsHistoric, TypeOK, UsageRow, UsageRows
  <2>4. ReceiptIsWritten'
    BY <1>0, <2>1, <2>2 DEF ReceiptIsWritten, ProgressIsStored, TypeOK, UsageRow, ReceiptRow, ReceiptRows
  <2>5. ProgressIsStored'
    BY <1>0, <2>1, <2>2 DEF ProgressIsStored, UsageRow, ReceiptRow, TypeOK
  <2>6. VerdictIsHistoric'
    BY <1>0, <2>1 DEF VerdictIsHistoric, Verdict, TypeOK
  <2> QED
    BY <1>0, <2>3, <2>4, <2>5, <2>6 DEF MeterInv
<1> QED
  BY <1>1, <1>2, <1>3, <1>4, <1>5 DEF Next, Handle

LEMMA MeterInvariant == Spec => []MeterInv
BY MeterInit, MeterNext, PTL DEF Spec

\* Every stored receipt of a request is backed by its usage record, for the
\* invoked agent and at the price of the metered tokens, after any failures
\* and restarts (recordUsage before createSignedReceipt in handleRequest).
THEOREM ReceiptsAreMetered == Spec => []ReceiptIsMetered
<1>1. MeterInv => ReceiptIsMetered
  <2> SUFFICES ASSUME MeterInv, NEW c \in receipts, c.req # Raw
               PROVE  \E u \in usage : /\ u.req = c.req
                                       /\ u.agentId = env[c.req].to
                                       /\ u.tokens = c.tokens
                                       /\ c.price = PriceComputed(u.tokens)
    BY DEF ReceiptIsMetered
  <2>1. UsageRow(c.req) \in usage /\ c = ReceiptRow(c.req)
    BY DEF MeterInv, ReceiptIsWritten
  <2> QED
    BY <2>1 DEF UsageRow, ReceiptRow
<1> QED
  BY <1>1, MeterInvariant, PTL

\* A request is metered only if the policies of the invoked agent allowed it at
\* some time between its arrival and its SELECT (assertAllowed).
THEOREM ExecutionIsAllowed == Spec => []ExecutedOnlyIfAllowed
<1>1. MeterInv => ExecutedOnlyIfAllowed
  BY DEF MeterInv, UsageIsWritten, ExecutedOnlyIfAllowed
<1> QED
  BY <1>1, MeterInvariant, PTL

\* A refused request is neither metered nor billed, and a completed one is
\* both (the early exits and the return of handleRequest).
THEOREM AnswersMatchMetering == Spec => []AnswerMatchesTables
<1>1. MeterInv => RefusalLeavesNoTrace
  BY RawAssumption DEF MeterInv, UsageIsWritten, ReceiptIsWritten, RefusalLeavesNoTrace
<1>2. MeterInv => CompletedIsMetered
  BY DEF MeterInv, ProgressIsStored, CompletedIsMetered
<1>3. MeterInv => AnswerMatchesTables
  BY <1>1, <1>2 DEF AnswerMatchesTables
<1> QED
  BY <1>3, MeterInvariant, PTL
-----------------------------------------------------------------------------
(***************************************************************************)
(* Justified conflicts.  A 409 is decided on the store alone, while its    *)
(* justification is a request.  The strengthening says where the entries   *)
(* of the store come from: every one was put there, with its arrival time, *)
(* by a request that this incarnation let in.                              *)
(***************************************************************************)

StoreIsFed ==
  \A k \in Keys : entries[k] # Absent =>
    \E q \in Requests :
      Admitted(q) /\ KeyOf(env[q]) = k /\ born[q] = epoch /\ at[q] = entries[k]

ConflictInv == ReplayInv /\ StoreIsFed /\ ConflictIsJustified

\* A request that was let in stays so, with its envelope, time and incarnation.
Settled ==
  /\ env' = env
  /\ \A q \in Requests : Admitted(q) => Admitted(q)' /\ at'[q] = at[q] /\ born'[q] = born[q]

\* A step that adds nothing to the store keeps it fed.
LEMMA FedStep ==
  ASSUME ConflictInv, Settled, epoch' = epoch,
         \A k \in Keys : entries'[k] = Absent \/ entries'[k] = entries[k]
  PROVE  StoreIsFed'
<1> SUFFICES ASSUME NEW k \in Keys, entries'[k] # Absent
             PROVE  \E q \in Requests : Admitted(q)' /\ KeyOf(env'[q]) = k
                       /\ born'[q] = epoch' /\ at'[q] = entries'[k]
  BY DEF StoreIsFed
<1>1. PICK q \in Requests : Admitted(q) /\ KeyOf(env[q]) = k /\ born[q] = epoch /\ at[q] = entries[k]
  BY DEF ConflictInv, StoreIsFed
<1> QED
  BY <1>1 DEF Settled

\* A step that refuses no request keeps the refusals justified.
LEMMA JustifiedStep ==
  ASSUME ConflictInv, Settled,
         \A r \in Requests : pc'[r] = "conflict" =>
           pc[r] = "conflict" /\ at'[r] = at[r] /\ born'[r] = born[r]
  PROVE  ConflictIsJustified'
<1> SUFFICES ASSUME NEW r \in Requests, pc'[r] = "conflict"
             PROVE  \E q \in Requests \ {r} : Admitted(q)' /\ SameKey(q, r)'
                      /\ born'[q] = born'[r] /\ at'[q] <= at'[r] /\ at'[r] - at'[q] <= Window
  BY DEF ConflictIsJustified
<1>1. PICK q \in Requests \ {r} : Admitted(q) /\ SameKey(q, r) /\ born[q] = born[r]
             /\ at[q] <= at[r] /\ at[r] - at[q] <= Window
  BY DEF ConflictInv, ConflictIsJustified
<1> QED
  BY <1>1 DEF Settled, SameKey

\* Eviction drops entries and changes none.
LEMMA EvictOnlyDrops ==
  ASSUME TypeOK, NEW k \in Keys
  PROVE  \/ EvictExpired(entries, now)[k] = Absent
         \/ /\ EvictExpired(entries, now)[k] = entries[k]
            /\ now - entries[k] <= Window
BY WindowAssumption DEF EvictExpired, TypeOK, Absent

LEMMA ConflictNext == ConflictInv /\ [Next]_vars => ConflictInv'
<1> SUFFICES ASSUME ConflictInv, [Next]_vars PROVE ConflictInv'
  OBVIOUS
<1> USE DEF memory, tables
<1>0. TypeOK /\ TypeOK' /\ ReplayInv /\ ReplayInv'
  BY ReplayNext DEF ConflictInv, ReplayInv
<1>1. ASSUME NEW r \in Requests, Admit(r) PROVE ConflictInv'
  <2>1. /\ pc[r] = "idle" /\ pc' = [pc EXCEPT ![r] = "finding"]
        /\ at' = [at EXCEPT ![r] = now] /\ born' = [born EXCEPT ![r] = epoch]
        /\ UNCHANGED <<now, epoch, env>>
    BY <1>1 DEF Admit, Arrive, Goto
  <2>2. Settled
    BY <1>0, <2>1 DEF Settled, Admitted, TypeOK
  <2>3. ConflictIsJustified'
    <3>1. \A q \in Requests : pc'[q] = "conflict" =>
            pc[q] = "conflict" /\ at'[q] = at[q] /\ born'[q] = born[q]
      BY <1>0, <2>1 DEF TypeOK
    <3> QED
      BY <2>2, <3>1, JustifiedStep
  <2>4. CASE entries' = entries
    BY <1>0, <2>1, <2>2, <2>3, <2>4, FedStep DEF ConflictInv
  <2>5. CASE entries' = Register(entries, KeyOf(env[r]), now)
    <3>1. entries'[KeyOf(env[r])] = now
      BY <1>0, <2>5, KeyType, EvictType DEF Register, TypeOK
    <3>2. \A k \in Keys \ {KeyOf(env[r])} : entries'[k] = EvictExpired(entries, now)[k]
      BY <1>0, <2>5, EvictType DEF Register, TypeOK
    <3>3. ASSUME NEW k \in Keys, entries'[k] # Absent
          PROVE  \E q \in Requests : Admitted(q)' /\ KeyOf(env'[q]) = k
                       /\ born'[q] = epoch' /\ at'[q] = entries'[k]
      <4>1. CASE k = KeyOf(env[r])
        <5>1. Admitted(r)' /\ born'[r] = epoch' /\ at'[r] = now
          BY <1>0, <2>1 DEF Admitted, TypeOK
        <5> QED
          BY <2>1, <3>1, <4>1, <5>1
      <4>2. CASE k # KeyOf(env[r])
        <5>1. entries'[k] = entries[k]
          BY <1>0, <3>2, <3>3, <4>2, EvictOnlyDrops
        <5>2. PICK q \in Requests :
                 Admitted(q) /\ KeyOf(env[q]) = k /\ born[q] = epoch /\ at[q] = entries[k]
          BY <3>3, <5>1 DEF ConflictInv, StoreIsFed
        <5> QED
          BY <2>1, <2>2, <5>1, <5>2 DEF Settled
      <4> QED
        BY <4>1, <4>2
    <3>4. StoreIsFed'
      BY <3>3 DEF StoreIsFed
    <3> QED
      BY <1>0, <2>3, <3>4 DEF ConflictInv
  <2> QED
    BY <1>1, <2>4, <2>5 DEF Admit
<1>2. ASSUME NEW r \in Requests, Conflict(r) PROVE ConflictInv'
  <2>1. /\ pc[r] = "idle" /\ pc' = [pc EXCEPT ![r] = "conflict"]
        /\ at' = [at EXCEPT ![r] = now] /\ born' = [born EXCEPT ![r] = epoch]
        /\ UNCHANGED <<now, epoch, env>>
        /\ entries' = EvictExpired(entries, now)
        /\ EvictExpired(entries, now)[KeyOf(env[r])] # Absent
    BY <1>2 DEF Conflict, Arrive, Goto, IsFresh
  <2>2. Settled
    BY <1>0, <2>1 DEF Settled, Admitted, TypeOK
  <2>3. StoreIsFed'
    BY <1>0, <2>1, <2>2, EvictOnlyDrops, FedStep
  <2>4. entries[KeyOf(env[r])] # Absent /\ now - entries[KeyOf(env[r])] <= Window
    BY <1>0, <2>1, KeyType, EvictOnlyDrops
  <2>5. PICK w \in Requests : /\ Admitted(w) /\ KeyOf(env[w]) = KeyOf(env[r])
                              /\ born[w] = epoch /\ at[w] = entries[KeyOf(env[r])]
    BY <1>0, <2>4, KeyType DEF ConflictInv, StoreIsFed
  <2>6. w # r /\ at[w] <= now /\ now - at[w] <= Window
    BY <1>0, <2>1, <2>4, <2>5 DEF Admitted, ReplayInv, Arrived
  <2>7. ConflictIsJustified'
    <3> SUFFICES ASSUME NEW q \in Requests, pc'[q] = "conflict"
                 PROVE  \E p \in Requests \ {q} : Admitted(p)' /\ SameKey(p, q)'
                          /\ born'[p] = born'[q] /\ at'[p] <= at'[q] /\ at'[q] - at'[p] <= Window
      BY DEF ConflictIsJustified
    <3>1. CASE q = r
      <4>1. at'[r] = now /\ born'[r] = epoch
        BY <1>0, <2>1 DEF TypeOK
      <4> QED
        BY <2>1, <2>2, <2>5, <2>6, <3>1, <4>1 DEF Settled, SameKey
    <3>2. CASE q # r
      <4>1. pc[q] = "conflict" /\ at'[q] = at[q] /\ born'[q] = born[q]
        BY <1>0, <2>1, <3>2 DEF TypeOK
      <4>2. PICK p \in Requests \ {q} : Admitted(p) /\ SameKey(p, q) /\ born[p] = born[q]
                 /\ at[p] <= at[q] /\ at[q] - at[p] <= Window
        BY <4>1 DEF ConflictInv, ConflictIsJustified
      <4> QED
        BY <2>2, <4>1, <4>2 DEF Settled, SameKey
    <3> QED
      BY <3>1, <3>2
  <2> QED
    BY <1>0, <2>3, <2>7 DEF ConflictInv
<1>3. ASSUME NEW r \in Requests, Handle(r) PROVE ConflictInv'
  <2>1. /\ pc[r] \in Waiting
        /\ \E s \in States \ {"idle", "conflict"} : pc' = [pc EXCEPT ![r] = s]
        /\ UNCHANGED <<epoch, entries, env, at, born>>
    BY <1>3 DEF Handle, FindPolicies, Allow, Deny, PolicyThrows, Decide, RecordUsage, SignReceipt,
                SigningFails, SaveReceipt, Reply, DatabaseError, Goto, Waiting, Answered, States
  <2>2. Settled /\ \A q \in Requests : pc'[q] = "conflict" => pc[q] = "conflict"
    BY <1>0, <2>1 DEF Settled, Admitted, TypeOK
  <2>3. StoreIsFed' /\ ConflictIsJustified'
    BY <2>1, <2>2, FedStep, JustifiedStep
  <2> QED
    BY <1>0, <2>3 DEF ConflictInv
<1>4. CASE Restart
  <2>1. /\ \A q \in Requests : Admitted(q) => Admitted(q)'
        /\ \A q \in Requests : pc'[q] = "conflict" => pc[q] = "conflict"
        /\ UNCHANGED <<env, at, born>>
    BY <1>0, <1>4 DEF Restart, Waiting, Admitted, TypeOK
  <2>2. ConflictIsJustified'
    BY <2>1, JustifiedStep DEF Settled
  <2>3. StoreIsFed'
    BY <1>4 DEF Restart, StoreIsFed
  <2> QED
    BY <1>0, <2>2, <2>3 DEF ConflictInv
<1>5. CASE \/ Tick \/ (\E p \in PolicyIds : WritePolicy(p)) \/ PostUsage \/ PostReceipt
           \/ EvictionTimer \/ UNCHANGED vars
  <2>1. UNCHANGED <<epoch, pc, env, at, born>>
        /\ (entries' = entries \/ entries' = EvictExpired(entries, now))
    BY <1>5 DEF Tick, WritePolicy, PostUsage, PostReceipt, EvictionTimer, vars
  <2>2. Settled
    BY <2>1 DEF Settled, Admitted
  <2>3. \A k \in Keys : entries'[k] = Absent \/ entries'[k] = entries[k]
    BY <1>0, <2>1, EvictOnlyDrops
  <2>4. StoreIsFed' /\ ConflictIsJustified'
    BY <2>1, <2>2, <2>3, FedStep, JustifiedStep
  <2> QED
    BY <1>0, <2>4 DEF ConflictInv
<1> QED
  BY <1>1, <1>2, <1>3, <1>4, <1>5 DEF Next

\* A 409 is never spurious: the same incarnation let the same agent's same
\* nonce in within the window before (NonceStoreService.assertFresh).
THEOREM ConflictsAreJustified == Spec => []ConflictIsJustified
<1>1. Init => ConflictInv
  <2>1. Init => ReplayInv
    BY ReplayInit
  <2>2. Init => StoreIsFed /\ ConflictIsJustified
    BY DEF Init, StoreIsFed, ConflictIsJustified
  <2> QED
    BY <2>1, <2>2 DEF ConflictInv
<1>2. ConflictInv => ConflictIsJustified
  BY DEF ConflictInv
<1> QED
  BY <1>1, <1>2, ConflictNext, PTL DEF Spec
-----------------------------------------------------------------------------
(***************************************************************************)
(* Counting decisions.  The counters live in the process, the requests do  *)
(* not: the strengthening says that a handler that is still running runs   *)
(* in the present incarnation, so that a restart, which zeroes the         *)
(* counters, leaves no handler behind that would count for a former one.   *)
(***************************************************************************)

RunningIsCurrent ==
  \A r \in Requests : pc[r] \in Waiting => born[r] = epoch

DecisionInv == ReplayInv /\ RunningIsCurrent /\ OneDecisionPerRequest

Executing == {"recording", "signing", "saving", "replying", "completed"}
Decided(states) == {r \in Requests : born[r] = epoch /\ pc[r] \in states}

\* OneDecisionPerRequest, with the sets of requests it counts named.
Counted ==
  /\ decisions.deny = Cardinality(Decided({"denied"}))
  /\ decisions.allow >= Cardinality(Decided(Executing))
  /\ decisions.allow <= Cardinality(Decided(Executing \union {"failed"}))

LEMMA CountedIsOneDecision == OneDecisionPerRequest <=> Counted
<1>1. (Waiting \ {"finding", "evaluating"}) \union {"completed", "failed"}
        = Executing \union {"failed"}
  BY DEF Waiting, Executing
<1> QED
  BY <1>1 DEF OneDecisionPerRequest, Counted, Decided, Executing

LEMMA DecidedFinite ==
  ASSUME NEW S
  PROVE  IsFiniteSet(Decided(S)) /\ Cardinality(Decided(S)) \in Nat
<1>1. Decided(S) \in SUBSET Requests
  BY DEF Decided
<1> QED
  BY <1>1, RawAssumption, FS_Subset, FS_CardinalityType

\* How one handler's move from one state to another changes the count.
LEMMA Move ==
  ASSUME TypeOK, NEW r \in Requests, NEW s \in States, NEW S,
         pc' = [pc EXCEPT ![r] = s], UNCHANGED <<born, epoch>>
  PROVE  /\ (pc[r] \in S <=> s \in S) => Decided(S)' = Decided(S)
         /\ born[r] = epoch /\ pc[r] \notin S /\ s \in S =>
              Cardinality(Decided(S)') = Cardinality(Decided(S)) + 1
         /\ s \in S => Cardinality(Decided(S)') >= Cardinality(Decided(S))
         /\ s \notin S => Cardinality(Decided(S)') <= Cardinality(Decided(S))
<1>1. \A q \in Requests : pc'[q] = IF q = r THEN s ELSE pc[q]
  BY DEF TypeOK
<1>2. (pc[r] \in S <=> s \in S) => Decided(S)' = Decided(S)
  BY <1>1 DEF Decided
<1>3. IsFiniteSet(Decided(S)) /\ IsFiniteSet(Decided(S)')
  <2>1. Decided(S)' \in SUBSET Requests
    BY DEF Decided
  <2> QED
    BY <2>1, DecidedFinite, RawAssumption, FS_Subset
<1>4. born[r] = epoch /\ pc[r] \notin S /\ s \in S =>
        Cardinality(Decided(S)') = Cardinality(Decided(S)) + 1
  <2> HAVE born[r] = epoch /\ pc[r] \notin S /\ s \in S
  <2>1. Decided(S)' = Decided(S) \union {r} /\ r \notin Decided(S)
    BY <1>1 DEF Decided
  <2> QED
    BY <1>3, <2>1, FS_AddElement
<1>5. s \in S => Cardinality(Decided(S)') >= Cardinality(Decided(S))
  <2> HAVE s \in S
  <2>1. Decided(S) \in SUBSET Decided(S)'
    BY <1>1 DEF Decided
  <2> QED
    BY <1>3, <2>1, FS_Subset, FS_CardinalityType
<1>6. s \notin S => Cardinality(Decided(S)') <= Cardinality(Decided(S))
  <2> HAVE s \notin S
  <2>1. Decided(S)' \in SUBSET Decided(S)
    BY <1>1 DEF Decided
  <2> QED
    BY <1>3, <2>1, FS_Subset, FS_CardinalityType
<1> QED
  BY <1>2, <1>4, <1>5, <1>6

LEMMA DecisionNext == DecisionInv /\ [Next]_vars => DecisionInv'
<1> SUFFICES ASSUME DecisionInv, [Next]_vars PROVE DecisionInv'
  OBVIOUS
<1> USE DEF memory, tables
<1> DEFINE Den == {"denied"}
           Exe == Executing
           All == Executing \union {"failed"}
<1>0. TypeOK /\ TypeOK' /\ ReplayInv /\ ReplayInv' /\ RunningIsCurrent /\ Counted
  BY ReplayNext, CountedIsOneDecision DEF DecisionInv, ReplayInv
<1>c. Counted' => OneDecisionPerRequest'
  BY CountedIsOneDecision, PTL
<1>n. \A S : Cardinality(Decided(S)) \in Nat
  BY DecidedFinite
<1>d. decisions \in [allow : Nat, deny : Nat]
  BY <1>0 DEF TypeOK
<1>1. ASSUME decisions' = decisions, Decided(Den)' = Decided(Den), Decided(Exe)' = Decided(Exe),
             Decided(All)' = Decided(All), RunningIsCurrent'
      PROVE  DecisionInv'
  BY <1>0, <1>1, <1>c DEF Counted, DecisionInv
<1>2. ASSUME NEW r \in Requests, Admit(r) \/ Conflict(r) PROVE DecisionInv'
  <2>1. /\ pc[r] = "idle" /\ decisions' = decisions
        /\ pc' = [pc EXCEPT ![r] = "finding"] \/ pc' = [pc EXCEPT ![r] = "conflict"]
        /\ born' = [born EXCEPT ![r] = epoch] /\ epoch' = epoch
    BY <1>2 DEF Admit, Conflict, Arrive, Goto
  <2>2. /\ \A q \in Requests \ {r} : pc'[q] = pc[q] /\ born'[q] = born[q]
        /\ pc'[r] \in {"finding", "conflict"} /\ born'[r] = epoch
    BY <1>0, <2>1 DEF TypeOK
  <2>3. RunningIsCurrent'
    BY <1>0, <2>1, <2>2 DEF RunningIsCurrent
  <2>4. ASSUME NEW S, "idle" \notin S, "finding" \notin S, "conflict" \notin S
        PROVE  Decided(S)' = Decided(S)
    BY <2>1, <2>2, <2>4 DEF Decided
  <2>5. Decided(Den)' = Decided(Den) /\ Decided(Exe)' = Decided(Exe) /\ Decided(All)' = Decided(All)
    BY <2>4 DEF Executing
  <2> QED
    BY <1>1, <2>1, <2>3, <2>5
<1>3. ASSUME NEW r \in Requests, Handle(r) PROVE DecisionInv'
  <2>1. PICK s \in States : pc' = [pc EXCEPT ![r] = s]
    BY <1>3 DEF Handle, FindPolicies, Allow, Deny, PolicyThrows, Decide, RecordUsage, SignReceipt,
                SigningFails, SaveReceipt, Reply, DatabaseError, Goto, Waiting, Answered, States
  <2>2. pc[r] \in Waiting /\ UNCHANGED <<born, epoch>>
    BY <1>3 DEF Handle, FindPolicies, Allow, Deny, PolicyThrows, Decide, RecordUsage, SignReceipt,
                SigningFails, SaveReceipt, Reply, DatabaseError, Waiting
  <2>3. RunningIsCurrent' /\ born[r] = epoch
    BY <1>0, <2>1, <2>2 DEF RunningIsCurrent, TypeOK
  <2>4. pc'[r] = s
    BY <1>0, <2>1 DEF TypeOK
  <2>5. CASE Allow(r)
    <3>1. pc[r] = "evaluating" /\ s = "recording"
      BY <1>0, <2>4, <2>5 DEF Allow, Decide, Goto, TypeOK
    <3>2. decisions'.allow = decisions.allow + 1 /\ decisions'.deny = decisions.deny
      BY <1>0, <1>d, <2>5, VerdictProperties DEF Allow, Decide, CountDecisions
    <3>3. Decided(Den)' = Decided(Den)
      BY <1>0, <2>1, <2>2, <3>1, Move
    <3>4. Cardinality(Decided(Exe)') = Cardinality(Decided(Exe)) + 1
      BY <1>0, <2>1, <2>2, <2>3, <3>1, Move DEF Executing
    <3>5. Cardinality(Decided(All)') = Cardinality(Decided(All)) + 1
      BY <1>0, <2>1, <2>2, <2>3, <3>1, Move DEF Executing
    <3>6. Counted'
      BY <1>0, <1>n, <1>d, <3>2, <3>3, <3>4, <3>5 DEF Counted
    <3> QED
      BY <1>0, <1>c, <2>3, <3>6 DEF DecisionInv
  <2>6. CASE Deny(r)
    <3>1. pc[r] = "evaluating" /\ s = "denied"
      BY <1>0, <2>4, <2>6 DEF Deny, Decide, Goto, TypeOK
    <3>2. decisions'.deny = decisions.deny + 1 /\ decisions'.allow = decisions.allow
      BY <1>0, <1>d, <2>6, VerdictProperties DEF Deny, Decide, CountDecisions
    <3>3. Cardinality(Decided(Den)') = Cardinality(Decided(Den)) + 1
      BY <1>0, <2>1, <2>2, <2>3, <3>1, Move
    <3>4. Decided(Exe)' = Decided(Exe)
      BY <1>0, <2>1, <2>2, <3>1, Move DEF Executing
    <3>5. Decided(All)' = Decided(All)
      BY <1>0, <2>1, <2>2, <3>1, Move DEF Executing
    <3>6. Counted'
      BY <1>0, <1>n, <1>d, <3>2, <3>3, <3>4, <3>5 DEF Counted
    <3> QED
      BY <1>0, <1>c, <2>3, <3>6 DEF DecisionInv
  <2>7. CASE PolicyThrows(r) \/ SigningFails(r) \/ DatabaseError(r)
    <3>0. PolicyThrows(r) => decisions' = decisions
      BY <1>0, <1>d, VerdictProperties DEF PolicyThrows, Decide, CountDecisions
    <3>1. /\ pc[r] \in {"finding", "evaluating", "recording", "signing", "saving"}
          /\ s = "failed" /\ decisions' = decisions
      BY <1>0, <2>4, <2>7, <3>0 DEF PolicyThrows, Decide, SigningFails, DatabaseError, Goto, TypeOK
    <3>2. Decided(Den)' = Decided(Den)
      BY <1>0, <2>1, <2>2, <3>1, Move
    <3>3. Cardinality(Decided(Exe)') <= Cardinality(Decided(Exe))
      BY <1>0, <2>1, <2>2, <3>1, Move DEF Executing
    <3>4. Cardinality(Decided(All)') >= Cardinality(Decided(All))
      BY <1>0, <2>1, <2>2, <3>1, Move
    <3>n. Cardinality(Decided(Exe)') \in Nat /\ Cardinality(Decided(All)') \in Nat
      <4>1. Decided(Exe)' \in SUBSET Requests /\ Decided(All)' \in SUBSET Requests
        BY DEF Decided
      <4> QED
        BY <4>1, RawAssumption, FS_Subset, FS_CardinalityType
    <3>5. Counted'
      BY <1>0, <1>n, <1>d, <3>1, <3>2, <3>3, <3>4, <3>n DEF Counted
    <3> QED
      BY <1>0, <1>c, <2>3, <3>5 DEF DecisionInv
  <2>8. CASE \/ FindPolicies(r) \/ RecordUsage(r) \/ SignReceipt(r) \/ SaveReceipt(r) \/ Reply(r)
    <3>1. /\ decisions' = decisions
          /\ \/ pc[r] = "finding" /\ s = "evaluating"
             \/ pc[r] \in Executing /\ s \in Executing
      BY <1>0, <2>4, <2>8 DEF FindPolicies, RecordUsage, SignReceipt, SaveReceipt, Reply, Goto,
                              TypeOK, Executing
    <3>2. Decided(Den)' = Decided(Den)
      BY <1>0, <2>1, <2>2, <3>1, Move DEF Executing
    <3>3. Decided(Exe)' = Decided(Exe)
      BY <1>0, <2>1, <2>2, <3>1, Move DEF Executing
    <3>4. Decided(All)' = Decided(All)
      BY <1>0, <2>1, <2>2, <3>1, Move DEF Executing
    <3> QED
      BY <1>1, <2>3, <3>1, <3>2, <3>3, <3>4
  <2> QED
    BY <1>3, <2>5, <2>6, <2>7, <2>8 DEF Handle
<1>4. CASE Restart
  <2>1. /\ decisions' = [allow |-> 0, deny |-> 0] /\ epoch' = epoch + 1 /\ born' = born
        /\ \A q \in Requests : pc'[q] \notin Waiting /\ (pc[q] = "idle" <=> pc'[q] = "idle")
    BY <1>4 DEF Restart, Waiting
  <2>2. ASSUME NEW S, "idle" \notin S PROVE Decided(S)' = {}
    <3>1. \A q \in Requests : pc[q] # "idle" => born[q] # epoch'
      BY <1>0, <2>1 DEF ReplayInv, Arrived, TypeOK
    <3> QED
      BY <2>1, <2>2, <3>1 DEF Decided
  <2>3. Decided(Den)' = {} /\ Decided(Exe)' = {} /\ Decided(All)' = {}
    BY <2>2 DEF Executing
  <2>4. Counted' /\ RunningIsCurrent'
    BY <2>1, <2>3, FS_EmptySet DEF Counted, RunningIsCurrent
  <2> QED
    BY <1>0, <1>c, <2>4 DEF DecisionInv
<1>5. CASE \/ Tick \/ (\E p \in PolicyIds : WritePolicy(p)) \/ PostUsage \/ PostReceipt
           \/ EvictionTimer \/ UNCHANGED vars
  <2>1. UNCHANGED <<epoch, decisions, pc, born>>
    BY <1>5 DEF Tick, WritePolicy, PostUsage, PostReceipt, EvictionTimer, vars
  <2>2. RunningIsCurrent' /\ \A S : Decided(S)' = Decided(S)
    BY <1>0, <2>1 DEF RunningIsCurrent, Decided
  <2> QED
    BY <1>1, <2>1, <2>2
<1> QED
  BY <1>2, <1>3, <1>4, <1>5 DEF Next

\* The policy decision counters agree with the requests this incarnation has
\* decided, whatever fails and however often the process restarts
\* (recordPolicyDecision in assertAllowed).
THEOREM DecisionsAreCounted == Spec => []OneDecisionPerRequest
<1>1. Init => DecisionInv
  <2> SUFFICES ASSUME Init PROVE DecisionInv
    OBVIOUS
  <2>1. ReplayInv /\ RunningIsCurrent
    BY ReplayInit DEF Init, RunningIsCurrent, Waiting
  <2>2. Decided({"denied"}) = {} /\ Decided(Executing) = {} /\ Decided(Executing \union {"failed"}) = {}
    BY DEF Init, Decided, Executing
  <2>3. Counted
    <3>1. decisions.allow = 0 /\ decisions.deny = 0 /\ Cardinality({}) = 0
      BY FS_EmptySet DEF Init
    <3> QED
      BY <2>2, <3>1 DEF Counted
  <2> QED
    BY <2>1, <2>3, CountedIsOneDecision DEF DecisionInv
<1>2. DecisionInv => OneDecisionPerRequest
  BY DEF DecisionInv
<1> QED
  BY <1>1, <1>2, DecisionNext, PTL DEF Spec
=============================================================================
