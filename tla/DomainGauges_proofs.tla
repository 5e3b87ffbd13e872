------------------------- MODULE DomainGauges_proofs -------------------------
(***************************************************************************)
(* The rollup job and the gauges that read its tables, for any number of   *)
(* runs and scrapes in progress, any agents, any lengths of hour and       *)
(* interval, and every TTL.                                                *)
(*                                                                         *)
(* The first part is about the job alone (the specification of             *)
(* MeteringRollup), the second about the job and the gauges together.      *)
(***************************************************************************)
EXTENDS DomainGauges, TLAPS

-----------------------------------------------------------------------------
(* The rollup job: the rollups never exceed the usage records. *)


\* What a run read is at most what the records hold now: records are only
\* added.  It relates the snapshot of every run to the present table.
SnapshotsOK ==
  \A i \in Runs, a \in Agents : run[i].aggregates[a] <= total[a][run[i].bucket]

CountedOK == \A a \in Agents, h \in Hours : counted[a][h] <= total[a][h]

RollupInv == TypeOK /\ SnapshotsOK /\ CountedOK /\ NeverOverstated

\* A later time is in the same hour or a later one (truncateToHour).
LEMMA HourMonotone ==
  ASSUME NEW s \in Nat, NEW t \in Nat, s <= t
  PROVE  Hour(s) \in Nat /\ Hour(t) \in Nat /\ Hour(s) <= Hour(t)
<1> DEFINE d == TicksPerHour
           q == s \div d
           m == t \div d
<1>1. d \in Nat /\ d > 0
  BY ClockAssumption
<1>2. q \in Nat /\ m \in Nat
  BY <1>1
<1>3. /\ d * q <= s
      /\ t < d * m + d
  BY <1>1
<1>4. d * q < d * m + d
  BY <1>1, <1>2, <1>3
<1> HIDE DEF d, q, m
<1>5. ~(q >= m + 1)
  <2> SUFFICES ASSUME q >= m + 1 PROVE FALSE
    OBVIOUS
  <2>1. d * (m + 1) <= d * q
    BY <1>1, <1>2
  <2>2. d * (m + 1) = d * m + d
    BY <1>1, <1>2
  <2> QED
    BY <1>1, <1>2, <1>4, <2>1, <2>2
<1>6. q <= m
  BY <1>2, <1>5
<1> QED
  BY <1>2, <1>6 DEF d, q, m, Hour

LEMMA HourInHours ==
  ASSUME NEW t \in 0 .. MaxTime
  PROVE  Hour(t) \in Hours
BY HourMonotone, ClockAssumption DEF Hours

LEMMA IdleType ==
  /\ Idle \in RunRecords
  /\ Idle.bucket = 0 /\ Idle.aggregates = Nothing
<1>1. 0 \in Hours
  <2>1. Hour(MaxTime) \in Nat
    BY HourMonotone, ClockAssumption
  <2> QED
    BY <2>1 DEF Hours
<1> QED
  BY <1>1 DEF Idle, Nothing, RunRecords

\* A run that its process has left is nothing, or one upsert of what it had read.
LEMMA RemainsOf ==
  ASSUME NEW r \in RunRecords, NEW q \in Remains(r)
  PROVE  \/ q = Idle
         \/ /\ q \in RunRecords /\ q.pc = "sent"
            /\ q.bucket = r.bucket /\ q.aggregates = r.aggregates
            /\ q.left \subseteq r.left /\ r.pc \in {"writing", "sent"}
<1>1. CASE q = Idle
  BY <1>1
<1>2. CASE q # Idle
  <2>1. PICK a \in r.left : r.pc \in {"writing", "sent"} /\ q = [r EXCEPT !.pc = "sent", !.left = {a}]
    BY <1>2 DEF Remains
  <2>2. {a} \subseteq r.left /\ {a} \in SUBSET Agents
    BY <2>1 DEF RunRecords
  <2>3. q \in RunRecords /\ q.pc = "sent" /\ q.bucket = r.bucket /\ q.aggregates = r.aggregates
        /\ q.left = {a}
    BY <2>1, <2>2 DEF RunRecords
  <2> QED
    BY <2>1, <2>2, <2>3
<1> QED
  BY <1>1, <1>2

LEMMA RollupInit == Init => RollupInv
<1> SUFFICES ASSUME Init PROVE RollupInv
  OBVIOUS
<1>0. Hour(0) \in Nat /\ 0 \in Hours
  BY HourMonotone, IdleType DEF RunRecords
<1>1. TypeOK
  <2>1. nextFire \in Nat /\ now \in 0 .. MaxTime
    BY ClockAssumption DEF Init
  <2>2. run \in [Runs -> RunRecords] /\ \A i \in Runs : run[i].bucket <= Hour(now)
    BY <1>0, IdleType DEF Init
  <2> QED
    BY <2>1, <2>2 DEF Init, TypeOK, NothingYet
<1>2. SnapshotsOK
  BY <1>0, IdleType DEF Init, SnapshotsOK, Nothing, NothingYet
<1>3. NeverOverstated /\ CountedOK
  BY DEF Init, NeverOverstated, CountedOK, NoRow, NothingYet
<1> QED
  BY <1>1, <1>2, <1>3 DEF RollupInv

\* A step that changes one run only, keeping its bucket, and neither the clock
\* nor the tables it is compared with.
LEMMA RunStep ==
  ASSUME RollupInv, NEW i \in Runs, NEW r \in RunRecords,
         run' = [run EXCEPT ![i] = r],
         r.bucket <= Hour(now),
         \A a \in Agents : r.aggregates[a] <= total[a][r.bucket],
         UNCHANGED <<now, total>>
  PROVE  /\ run' \in [Runs -> RunRecords]
         /\ \A j \in Runs : run'[j].bucket <= Hour(now')
         /\ SnapshotsOK'
<1>1. run \in [Runs -> RunRecords] /\ \A j \in Runs : run[j].bucket <= Hour(now)
  BY DEF RollupInv, TypeOK
<1>2. run'[i] = r /\ \A j \in Runs \ {i} : run'[j] = run[j]
  BY <1>1
<1>3. run' \in [Runs -> RunRecords]
  BY <1>1
<1>4. \A j \in Runs : run'[j].bucket <= Hour(now')
  BY <1>1, <1>2
<1>5. SnapshotsOK'
  BY <1>2 DEF RollupInv, SnapshotsOK
<1> QED
  BY <1>3, <1>4, <1>5

LEMMA RollupNext == RollupInv /\ [Next]_vars => RollupInv'
<1> SUFFICES ASSUME RollupInv, [Next]_vars PROVE RollupInv'
  OBVIOUS
<1>0. /\ TypeOK /\ SnapshotsOK /\ CountedOK /\ NeverOverstated
      /\ Idle \in RunRecords /\ Idle.bucket = 0 /\ Idle.aggregates = Nothing
      /\ Hour(now) \in Hours /\ Hour(now) \in Nat /\ 0 \in Hours
  BY IdleType, HourInHours, HourMonotone, ClockAssumption DEF RollupInv, TypeOK, RunRecords
<1>1. CASE Tick
  <2>1. now' \in 0 .. MaxTime /\ Hour(now) <= Hour(now')
    BY <1>0, <1>1, HourMonotone, ClockAssumption DEF Tick, TypeOK
  <2>2. Hour(now') \in Nat
    BY <2>1, HourMonotone
  <2>3. \A i \in Runs : run[i].bucket \in Nat
    BY <1>0, HourMonotone, ClockAssumption DEF TypeOK, RunRecords, Hours
  <2>4. \A i \in Runs : run'[i].bucket <= Hour(now')
    BY <1>0, <1>1, <2>1, <2>2, <2>3 DEF Tick, TypeOK
  <2>5. TypeOK'
    BY <1>0, <1>1, <2>1, <2>4 DEF Tick, TypeOK
  <2> QED
    BY <1>0, <1>1, <2>5 DEF Tick, SnapshotsOK, CountedOK, NeverOverstated, RollupInv
<1>2. ASSUME NEW a \in Agents, NEW h \in Hours, RecordUsage(a, h) PROVE RollupInv'
  <2> DEFINE row == [total[a] EXCEPT ![h] = total[a][h] + 1]
  <2>1. total' = [total EXCEPT ![a] = row] /\ UNCHANGED <<now, nextFire, rollup, run, counted>>
    BY <1>2 DEF RecordUsage
  <2>2. total \in [Agents -> [Hours -> Nat]] /\ total[a] \in [Hours -> Nat] /\ h \in Hours
    BY <1>0 DEF TypeOK
  <2>3. row \in [Hours -> Nat] /\ \A g \in Hours : total[a][g] <= row[g]
    BY <2>2
  <2> HIDE DEF row
  <2>4. total' \in [Agents -> [Hours -> Nat]]
    BY <2>1, <2>2, <2>3
  <2>5. \A b \in Agents, g \in Hours : total[b][g] <= total'[b][g]
    BY <2>1, <2>2, <2>3
  <2>6. TypeOK'
    BY <1>0, <2>1, <2>4 DEF TypeOK
  <2>7. SnapshotsOK'
    <3> SUFFICES ASSUME NEW i \in Runs, NEW b \in Agents
                 PROVE  run[i].aggregates[b] <= total'[b][run[i].bucket]
      BY <2>1 DEF SnapshotsOK
    <3>1. run[i].bucket \in Hours /\ run[i].aggregates[b] \in Nat
      BY <1>0 DEF TypeOK, RunRecords
    <3>2. total[b][run[i].bucket] \in Nat /\ total'[b][run[i].bucket] \in Nat
      BY <2>2, <2>4, <3>1
    <3> QED
      BY <1>0, <2>5, <3>1, <3>2 DEF SnapshotsOK
  <2>8. NeverOverstated'
    <3> SUFFICES ASSUME NEW b \in Agents, NEW g \in Hours PROVE rollup[b][g] <= total'[b][g]
      BY <2>1 DEF NeverOverstated
    <3>1. rollup[b][g] \in Nat \union {NoRow} /\ total[b][g] \in Nat /\ total'[b][g] \in Nat
      BY <1>0, <2>4 DEF TypeOK
    <3> QED
      BY <1>0, <2>5, <3>1 DEF NeverOverstated, NoRow
  <2>9. CountedOK'
    <3> SUFFICES ASSUME NEW b \in Agents, NEW g \in Hours PROVE counted[b][g] <= total'[b][g]
      BY <2>1 DEF CountedOK
    <3>1. counted[b][g] \in Nat /\ total[b][g] \in Nat /\ total'[b][g] \in Nat
      BY <1>0, <2>4 DEF TypeOK
    <3> QED
      BY <1>0, <2>5, <3>1 DEF CountedOK
  <2> QED
    BY <2>6, <2>7, <2>8, <2>9 DEF RollupInv
<1>3. ASSUME NEW i \in Runs, NEW hour \in Hours, hour <= Hour(now), Start(i, hour), nextFire' \in Nat
      PROVE  RollupInv'
  <2> DEFINE r == [Idle EXCEPT !.pc = "querying", !.bucket = hour]
  <2>1. r \in RunRecords /\ r.bucket = hour /\ r.aggregates = Nothing
    BY <1>0 DEF Idle, RunRecords
  <2>2. \A a \in Agents : r.aggregates[a] <= total[a][r.bucket]
    BY <1>0, <2>1 DEF TypeOK, Nothing
  <2>3. run' = [run EXCEPT ![i] = r] /\ UNCHANGED <<now, total, rollup, counted>>
    BY <1>3 DEF Start
  <2> HIDE DEF r
  <2>4. run' \in [Runs -> RunRecords] /\ (\A j \in Runs : run'[j].bucket <= Hour(now')) /\ SnapshotsOK'
    BY <1>3, <2>1, <2>2, <2>3, RunStep
  <2> QED
    BY <1>0, <1>3, <2>3, <2>4 DEF TypeOK, CountedOK, NeverOverstated, RollupInv
<1>4. ASSUME NEW i \in Runs, FireTimer(i) PROVE RollupInv'
  <2>1. nextFire' \in Nat /\ Start(i, Hour(now)) /\ Hour(now) <= Hour(now)
    BY <1>0, <1>4, ClockAssumption DEF FireTimer, TypeOK
  <2> QED
    BY <1>0, <1>3, <2>1
<1>5. ASSUME NEW i \in Runs, NEW hour \in Hours, RunManually(i, hour) PROVE RollupInv'
  BY <1>0, <1>3, <1>5 DEF RunManually, TypeOK
<1>6. ASSUME NEW i \in Runs, Query(i) PROVE RollupInv'
  <2> DEFINE h == run[i].bucket
             r == [run[i] EXCEPT !.pc = "writing",
                                 !.aggregates = [a \in Agents |-> total[a][h]],
                                 !.left = {a \in Agents : total[a][h] > 0}]
  <2>1. run[i] \in RunRecords /\ h \in Hours /\ h <= Hour(now)
        /\ \A a \in Agents : total[a][h] \in Nat
    BY <1>0 DEF TypeOK, RunRecords
  <2>2. run' = [run EXCEPT ![i] = r] /\ UNCHANGED <<now, nextFire, total, rollup, counted>>
    BY <1>0, <1>6 DEF Query, TypeOK
  <2>3. r \in RunRecords /\ r.bucket = h /\ r.aggregates = [a \in Agents |-> total[a][h]]
    <3> DEFINE snapshot == [a \in Agents |-> total[a][h]]
               nonempty == {a \in Agents : total[a][h] > 0}
    <3>1. snapshot \in [Agents -> Nat] /\ nonempty \in SUBSET Agents
      BY <2>1
    <3>2. r = [run[i] EXCEPT !.pc = "writing", !.aggregates = snapshot, !.left = nonempty]
      OBVIOUS
    <3> HIDE DEF r, snapshot, nonempty
    <3>3. r \in RunRecords /\ r.bucket = h /\ r.aggregates = snapshot
      BY <2>1, <3>1, <3>2 DEF RunRecords
    <3> QED
      BY <3>3 DEF snapshot
  <2>4. \A a \in Agents : r.aggregates[a] <= total[a][r.bucket]
    BY <2>1, <2>3
  <2> HIDE DEF r
  <2>5. run' \in [Runs -> RunRecords] /\ (\A j \in Runs : run'[j].bucket <= Hour(now')) /\ SnapshotsOK'
    BY <2>1, <2>2, <2>3, <2>4, RunStep
  <2> QED
    BY <1>0, <2>2, <2>5 DEF TypeOK, CountedOK, NeverOverstated, RollupInv
<1>7. ASSUME NEW i \in Runs, NEW a \in Agents, Upsert(i, a) PROVE RollupInv'
  <2> DEFINE h == run[i].bucket
             r == [run[i] EXCEPT !.left = run[i].left \ {a}]
             row == [rollup[a] EXCEPT ![h] = run[i].aggregates[a]]
  <2>1. run[i] \in RunRecords /\ h \in Hours /\ h <= Hour(now)
        /\ run[i].aggregates[a] \in Nat /\ run[i].aggregates[a] <= total[a][h]
    BY <1>0 DEF TypeOK, RunRecords, SnapshotsOK
  <2>2. run' = [run EXCEPT ![i] = r] /\ rollup' = [rollup EXCEPT ![a] = row]
        /\ UNCHANGED <<now, nextFire, total, counted>>
    BY <1>0, <1>7 DEF Upsert, TypeOK
  <2>3. r \in RunRecords /\ r.bucket = h /\ r.aggregates = run[i].aggregates
    BY <2>1 DEF RunRecords
  <2>4. \A b \in Agents : r.aggregates[b] <= total[b][r.bucket]
    BY <1>0, <2>3 DEF SnapshotsOK
  <2>5. rollup \in [Agents -> [Hours -> Nat \union {NoRow}]]
    BY <1>0 DEF TypeOK
  <2>6. row \in [Hours -> Nat \union {NoRow}] /\ row[h] = run[i].aggregates[a]
        /\ \A g \in Hours \ {h} : row[g] = rollup[a][g]
    BY <2>1, <2>5
  <2> HIDE DEF r, row
  <2>7. run' \in [Runs -> RunRecords] /\ (\A j \in Runs : run'[j].bucket <= Hour(now')) /\ SnapshotsOK'
    BY <2>1, <2>2, <2>3, <2>4, RunStep
  <2>8. rollup' \in [Agents -> [Hours -> Nat \union {NoRow}]]
    BY <2>2, <2>5, <2>6
  <2>9. NeverOverstated'
    <3>1. rollup'[a] = row /\ \A b \in Agents \ {a} : rollup'[b] = rollup[b]
      BY <2>2, <2>5
    <3> QED
      BY <1>0, <2>1, <2>2, <2>6, <3>1 DEF NeverOverstated
  <2> QED
    BY <1>0, <2>2, <2>7, <2>8, <2>9 DEF TypeOK, CountedOK, RollupInv
<1>8. ASSUME NEW i \in Runs, Finish(i) \/ Fail(i) PROVE RollupInv'
  <2> DEFINE h == run[i].bucket
             with == [a \in Agents |-> [counted[a] EXCEPT ![h] = run[i].aggregates[a]]]
  <2>1. run' = [run EXCEPT ![i] = Idle] /\ UNCHANGED <<now, nextFire, total, rollup>>
        /\ counted' \in {counted, with}
    BY <1>8 DEF Finish, Fail
  <2>2. Idle.bucket <= Hour(now) /\ \A a \in Agents : Idle.aggregates[a] <= total[a][Idle.bucket]
    BY <1>0 DEF TypeOK, Nothing
  <2>3. run' \in [Runs -> RunRecords] /\ (\A j \in Runs : run'[j].bucket <= Hour(now')) /\ SnapshotsOK'
    BY <1>0, <2>1, <2>2, RunStep
  <2>4. /\ with \in [Agents -> [Hours -> Nat]]
        /\ \A a \in Agents, g \in Hours : with[a][g] <= total[a][g]
    <3>1. /\ h \in Hours /\ counted \in [Agents -> [Hours -> Nat]]
          /\ \A a \in Agents : run[i].aggregates[a] \in Nat /\ run[i].aggregates[a] <= total[a][h]
      BY <1>0 DEF TypeOK, RunRecords, SnapshotsOK
    <3> HIDE DEF h
    <3> QED
      BY <1>0, <3>1 DEF CountedOK
  <2> HIDE DEF with
  <2>5. counted' \in [Agents -> [Hours -> Nat]] /\ CountedOK'
    BY <1>0, <2>1, <2>4 DEF TypeOK, CountedOK
  <2> QED
    BY <1>0, <2>1, <2>3, <2>5 DEF TypeOK, NeverOverstated, RollupInv
<1>9. CASE Restart
  <2>1. UNCHANGED <<now, total, rollup, counted>> /\ DOMAIN run' = Runs /\ nextFire' \in Nat
    BY <1>0, <1>9, ClockAssumption DEF Restart, TypeOK
  <2>2. ASSUME NEW i \in Runs
        PROVE  /\ run'[i] \in RunRecords /\ run'[i].bucket <= Hour(now)
               /\ \A a \in Agents : run'[i].aggregates[a] <= total[a][run'[i].bucket]
    <3>1. run'[i] \in Remains(run[i]) /\ run[i] \in RunRecords /\ run[i].bucket <= Hour(now)
      BY <1>0, <1>9 DEF Restart, TypeOK
    <3>2. CASE run'[i] = Idle
      BY <1>0, <3>2 DEF TypeOK, Nothing
    <3>3. CASE run'[i] # Idle
      BY <1>0, <3>1, <3>3, RemainsOf DEF SnapshotsOK
    <3> QED
      BY <3>2, <3>3
  <2>3. run' \in [Runs -> RunRecords]
    BY <1>9, <2>1, <2>2 DEF Restart
  <2>4. TypeOK'
    BY <1>0, <2>1, <2>2, <2>3 DEF TypeOK
  <2> QED
    BY <1>0, <2>1, <2>2, <2>4 DEF SnapshotsOK, CountedOK, NeverOverstated, RollupInv
<1>10. CASE UNCHANGED vars
  BY <1>0, <1>10 DEF vars, TypeOK, SnapshotsOK, CountedOK, NeverOverstated, RollupInv
<1> QED
  BY <1>1, <1>2, <1>4, <1>5, <1>6, <1>7, <1>8, <1>9, <1>10 DEF Next, ScheduledNext

\* However many runs of the job overlap, fail or are repeated, no row of
\* usage_rollups exceeds the usage records of its hour (rollup).
THEOREM RollupsNeverOverstate == Spec => []NeverOverstated
<1>1. RollupInv => NeverOverstated
  BY DEF RollupInv
<1> QED
  BY <1>1, RollupInit, RollupNext, PTL DEF Spec

\* Every run works on an hour that has begun, and all state keeps its type.
THEOREM RollupTypeCorrect == Spec => []TypeOK
<1>1. RollupInv => TypeOK
  BY DEF RollupInv
<1> QED
  BY <1>1, RollupInit, RollupNext, PTL DEF Spec

-----------------------------------------------------------------------------
(* Runs that do not overlap: Runs holds one invocation, which is what the run *)
(* with two of them shows to be needed for the rest.                         *)

\* The row that rollup() leaves for an aggregate: GROUP BY gives none for an
\* agent without records.
RowFor(aggregate) == IF aggregate = 0 THEN NoRow ELSE aggregate

\* No upsert writes an empty row.
RowsPositive == \A a \in Agents, h \in Hours : rollup[a][h] # NoRow => rollup[a][h] > 0

\* What a successful run had read is in the rollup.
ReadIsCovered ==
  \A a \in Agents, h \in Hours : counted[a][h] > 0 => rollup[a][h] >= counted[a][h]

Writing == {"writing", "sent"}

\* What is known of a run after its SELECT: no row exceeds what it read, it has
\* something to write for the agents that are left, and the others have their row.
WritingOK(i) ==
  LET h == run[i].bucket IN
  run[i].pc \in Writing =>
    /\ \A a \in Agents : rollup[a][h] <= run[i].aggregates[a]
    /\ \A a \in run[i].left : run[i].aggregates[a] > 0
    /\ run[i].pc = "writing" =>
         \A a \in Agents \ run[i].left : rollup[a][h] = RowFor(run[i].aggregates[a])

SerialInv ==
  /\ RollupInv /\ RowsPositive /\ ReadIsCovered
  /\ \A i \in Runs : WritingOK(i)

LEMMA SerialInit == Init => SerialInv
<1> SUFFICES ASSUME Init PROVE SerialInv
  OBVIOUS
<1>1. \A i \in Runs : WritingOK(i)
  BY DEF Init, Idle, Writing, WritingOK
<1> QED
  BY <1>1, RollupInit DEF Init, SerialInv, RowsPositive, ReadIsCovered, NothingYet

\* A step that leaves the rows and the history alone, and every run that writes.
LEMMA RowsUntouched ==
  ASSUME SerialInv, RollupInv', UNCHANGED <<rollup, counted>>,
         \A i \in Runs : run'[i] = run[i] \/ run'[i].pc \notin Writing
  PROVE  SerialInv'
<1>1. \A i \in Runs : WritingOK(i)'
  BY DEF SerialInv, WritingOK
<1> QED
  BY <1>1 DEF SerialInv, RowsPositive, ReadIsCovered

LEMMA SerialNext ==
  ASSUME \A i, j \in Runs : i = j
  PROVE  SerialInv /\ [Next]_vars => SerialInv'
<1> SUFFICES ASSUME SerialInv, [Next]_vars PROVE SerialInv'
  OBVIOUS
<1>0. RollupInv /\ TypeOK /\ NeverOverstated /\ RollupInv' /\ TypeOK'
  <2>1. RollupInv /\ RollupInv'
    BY RollupNext DEF SerialInv
  <2> QED
    BY <2>1 DEF RollupInv
<1>1. CASE Tick
  BY <1>0, <1>1, RowsUntouched DEF Tick
<1>2. ASSUME NEW a \in Agents, NEW h \in Hours, RecordUsage(a, h) PROVE SerialInv'
  BY <1>0, <1>2, RowsUntouched DEF RecordUsage
<1>3. ASSUME NEW i \in Runs, NEW hour, Start(i, hour) PROVE SerialInv'
  <2>1. run'[i].pc = "querying" /\ UNCHANGED <<rollup, counted>>
        /\ \A j \in Runs \ {i} : run'[j] = run[j]
    BY <1>0, <1>3 DEF Start, TypeOK, Idle
  <2> QED
    BY <1>0, <2>1, RowsUntouched DEF Writing
<1>4. ASSUME NEW i \in Runs, Query(i) PROVE SerialInv'
  <2> DEFINE h == run[i].bucket
  <2>1. /\ run[i] \in RunRecords /\ h \in Hours
        /\ \A a \in Agents : total[a][h] \in Nat /\ rollup[a][h] \in Nat \union {NoRow}
                             /\ rollup[a][h] <= total[a][h]
    <3>1. run[i] \in RunRecords
      BY <1>0 DEF TypeOK
    <3>2. h \in Hours
      BY <3>1 DEF RunRecords
    <3> HIDE DEF h
    <3>3. \A a \in Agents : total[a][h] \in Nat /\ rollup[a][h] \in Nat \union {NoRow}
      BY <1>0, <3>2 DEF TypeOK
    <3> QED
      BY <1>0, <3>1, <3>2, <3>3 DEF NeverOverstated
  <2>2. /\ run'[i].pc = "writing" /\ run'[i].bucket = h
        /\ run'[i].aggregates = [a \in Agents |-> total[a][h]]
        /\ run'[i].left = {a \in Agents : total[a][h] > 0}
        /\ UNCHANGED <<rollup, counted>>
    <3> DEFINE snapshot == [a \in Agents |-> total[a][h]]
               nonempty == {a \in Agents : total[a][h] > 0}
    <3>1. run' = [run EXCEPT ![i].pc = "writing", ![i].aggregates = snapshot,
                             ![i].left = nonempty]
          /\ UNCHANGED <<rollup, counted>>
      BY <1>4 DEF Query
    <3> HIDE DEF snapshot, nonempty
    <3>2. /\ run'[i].pc = "writing" /\ run'[i].bucket = h
          /\ run'[i].aggregates = snapshot /\ run'[i].left = nonempty
      BY <1>0, <2>1, <3>1 DEF TypeOK, RunRecords
    <3> QED
      BY <3>1, <3>2 DEF snapshot, nonempty
  <2>3. ASSUME NEW a \in Agents, ~(total[a][h] > 0) PROVE rollup[a][h] = NoRow
    <3>1. total[a][h] = 0 /\ (rollup[a][h] # NoRow => rollup[a][h] > 0)
      BY <2>1, <2>3 DEF SerialInv, RowsPositive
    <3> QED
      BY <2>1, <3>1
  <2>4. WritingOK(i)'
    <3>1. \A a \in Agents : rollup[a][h] <= run'[i].aggregates[a]
                            /\ run'[i].aggregates[a] = total[a][h]
      BY <2>1, <2>2
    <3>2. \A a \in run'[i].left : run'[i].aggregates[a] > 0
      BY <2>1, <2>2
    <3>3. \A a \in Agents \ run'[i].left : rollup[a][h] = RowFor(run'[i].aggregates[a])
      BY <2>1, <2>2, <2>3 DEF RowFor
    <3> QED
      BY <2>2, <3>1, <3>2, <3>3 DEF WritingOK
  <2>5. \A j \in Runs : j = i
    OBVIOUS
  <2> QED
    BY <1>0, <2>2, <2>4, <2>5 DEF SerialInv, RowsPositive, ReadIsCovered
<1>5. ASSUME NEW i \in Runs, NEW a \in Agents, Upsert(i, a) PROVE SerialInv'
  <2> DEFINE h == run[i].bucket
             n == run[i].aggregates[a]
  <2>1. /\ run[i] \in RunRecords /\ h \in Hours /\ n \in Nat /\ a \in run[i].left /\ WritingOK(i)
        /\ run[i].pc \in Writing
    BY <1>0, <1>5 DEF SerialInv, TypeOK, RunRecords, Upsert, Writing
  <2>2. n > 0 /\ rollup[a][h] <= n /\ counted[a][h] \in Nat /\ rollup[a][h] \in Nat \union {NoRow}
    <3>1. n > 0 /\ rollup[a][h] <= n
      BY <2>1 DEF WritingOK
    <3> HIDE DEF h, n
    <3> QED
      BY <1>0, <2>1, <3>1 DEF TypeOK
  <2>3. /\ run'[i].pc = run[i].pc /\ run'[i].bucket = h
        /\ run'[i].aggregates = run[i].aggregates
        /\ run'[i].left = run[i].left \ {a}
        /\ UNCHANGED counted
    BY <1>0, <1>5, <2>1 DEF Upsert, TypeOK, RunRecords
  <2>4. /\ rollup'[a][h] = n
        /\ \A b \in Agents, g \in Hours : b # a \/ g # h => rollup'[b][g] = rollup[b][g]
    BY <1>0, <1>5, <2>1 DEF Upsert, TypeOK
  <2>5. RowsPositive'
    BY <2>2, <2>4 DEF SerialInv, RowsPositive
  <2>6. ReadIsCovered'
    <3> SUFFICES ASSUME NEW b \in Agents, NEW g \in Hours, counted[b][g] > 0
                 PROVE  rollup'[b][g] >= counted[b][g]
      BY <2>3 DEF ReadIsCovered
    <3>1. rollup[b][g] >= counted[b][g]
      BY DEF SerialInv, ReadIsCovered
    <3>2. CASE b = a /\ g = h
      <4> HIDE DEF h, n
      <4> QED
        BY <2>1, <2>2, <2>4, <3>1, <3>2 DEF NoRow
    <3>3. CASE b # a \/ g # h
      BY <2>4, <3>1, <3>3
    <3> QED
      BY <3>2, <3>3
  <2>7. WritingOK(i)'
    <3>1. \A b \in Agents : rollup'[b][h] <= run'[i].aggregates[b]
      BY <2>1, <2>3, <2>4 DEF WritingOK
    <3>2. run[i].pc = "writing" =>
            \A b \in Agents \ run'[i].left : rollup'[b][h] = RowFor(run'[i].aggregates[b])
      BY <2>1, <2>2, <2>3, <2>4 DEF WritingOK, RowFor
    <3> QED
      BY <2>1, <2>3, <3>1, <3>2 DEF WritingOK
  <2>8. \A j \in Runs : j = i
    OBVIOUS
  <2> QED
    BY <1>0, <2>5, <2>6, <2>7, <2>8 DEF SerialInv
<1>6. ASSUME NEW i \in Runs, Finish(i) PROVE SerialInv'
  <2> DEFINE h == run[i].bucket
  <2>1. /\ run[i].pc = "writing" /\ run[i].left = {} /\ WritingOK(i) /\ run[i] \in RunRecords
        /\ run'[i].pc \notin Writing /\ UNCHANGED rollup
        /\ counted' = [a \in Agents |-> [counted[a] EXCEPT ![h] = run[i].aggregates[a]]]
    BY <1>0, <1>6 DEF SerialInv, Finish, TypeOK, Idle, Writing
  <2>2. \A a \in Agents : run[i].aggregates[a] > 0 => rollup[a][h] = run[i].aggregates[a]
    BY <2>1 DEF WritingOK, RowFor, Writing
  <2>3. ReadIsCovered'
    <3> SUFFICES ASSUME NEW b \in Agents, NEW g \in Hours, counted'[b][g] > 0
                 PROVE  rollup[b][g] >= counted'[b][g]
      BY <2>1 DEF ReadIsCovered
    <3>1. h \in Hours /\ run[i].aggregates[b] \in Nat /\ counted[b] \in [Hours -> Nat]
      BY <1>0, <2>1 DEF TypeOK, RunRecords
    <3>2. CASE g = h
      <4>1. counted'[b][g] = run[i].aggregates[b]
        BY <2>1, <3>1, <3>2
      <4> QED
        BY <2>2, <3>1, <3>2, <4>1
    <3>3. CASE g # h
      <4>1. counted'[b][g] = counted[b][g]
        BY <2>1, <3>1, <3>3
      <4> QED
        BY <4>1 DEF SerialInv, ReadIsCovered
    <3> QED
      BY <3>2, <3>3
  <2>4. \A j \in Runs : WritingOK(j)'
    <3>1. \A j \in Runs : j = i
      OBVIOUS
    <3> QED
      BY <2>1, <3>1 DEF WritingOK
  <2> QED
    BY <1>0, <2>1, <2>3, <2>4 DEF SerialInv, RowsPositive
<1>7. ASSUME NEW i \in Runs, Fail(i) PROVE SerialInv'
  <2>1. run'[i].pc \notin Writing /\ UNCHANGED <<rollup, counted>>
        /\ \A j \in Runs \ {i} : run'[j] = run[j]
    BY <1>0, <1>7 DEF Fail, TypeOK, Idle, Writing
  <2> QED
    BY <1>0, <2>1, RowsUntouched
<1>8. CASE Restart
  <2>1. UNCHANGED <<rollup, counted>>
    BY <1>8 DEF Restart
  <2>2. ASSUME NEW i \in Runs PROVE WritingOK(i)'
    <3>1. run'[i] \in Remains(run[i]) /\ run[i] \in RunRecords /\ WritingOK(i)
      BY <1>0, <1>8 DEF Restart, TypeOK, SerialInv
    <3>2. CASE run'[i] = Idle
      BY <3>2 DEF WritingOK, Writing, Idle
    <3>3. CASE run'[i] # Idle
      BY <2>1, <3>1, <3>3, RemainsOf DEF WritingOK, Writing
    <3> QED
      BY <3>2, <3>3
  <2> QED
    BY <1>0, <2>1, <2>2 DEF SerialInv, RowsPositive, ReadIsCovered
<1>9. CASE UNCHANGED vars
  BY <1>0, <1>9, RowsUntouched DEF vars
<1> QED
  BY <1>1, <1>2, <1>3, <1>4, <1>5, <1>6, <1>7, <1>8, <1>9
     DEF Next, ScheduledNext, FireTimer, RunManually

\* When runs do not overlap (what a dead process has sent included), usage that a
\* successful run has read stays in the rollup: later runs over the hour, failing
\* between two upserts or cut off by a restart, write no smaller row, and a row
\* lacks only what became visible after the last such read (rollup).
THEOREM SerialRunsKeepCharges ==
  ASSUME \A i, j \in Runs : i = j
  PROVE  Spec => []ReadUsageIsCharged
<1>1. SerialInv /\ [Next]_vars => SerialInv'
  BY SerialNext
<1>2. SerialInv => ReadUsageIsCharged
  <2> SUFFICES ASSUME SerialInv, NEW a \in Agents, NEW h \in Hours, counted[a][h] > 0
               PROVE  rollup[a][h] \in counted[a][h] .. total[a][h]
    BY DEF ReadUsageIsCharged
  <2>1. /\ rollup[a][h] >= counted[a][h] /\ rollup[a][h] <= total[a][h]
        /\ counted[a][h] \in Nat /\ total[a][h] \in Nat /\ rollup[a][h] \in Nat \union {NoRow}
    BY DEF SerialInv, RollupInv, ReadIsCovered, NeverOverstated, TypeOK
  <2> QED
    BY <2>1 DEF NoRow
<1> QED
  BY <1>1, <1>2, SerialInit, PTL DEF Spec

\* When runs do not overlap, the upsert makes re-runs safe: no step lowers a row.
THEOREM RerunsNeverLower ==
  ASSUME \A i, j \in Runs : i = j
  PROVE  Spec => RerunsAreSafe
<1> DEFINE NoLower == \A a \in Agents, h \in Hours : rollup[a][h] <= rollup'[a][h]
<1>1. SerialInv /\ [Next]_vars => SerialInv'
  BY SerialNext
<1>2. SerialInv /\ [Next]_vars => [NoLower]_vars
  <2> SUFFICES ASSUME SerialInv, Next PROVE NoLower
    OBVIOUS
  <2>0. TypeOK
    BY DEF SerialInv, RollupInv
  <2>1. ASSUME rollup' = rollup PROVE NoLower
    BY <2>0, <2>1 DEF TypeOK, NoRow
  <2>2. ASSUME NEW i \in Runs, NEW a \in Agents, Upsert(i, a) PROVE NoLower
    <3> DEFINE h == run[i].bucket
    <3>1. WritingOK(i) /\ h \in Hours /\ run[i].pc \in Writing
      BY <2>0, <2>2 DEF SerialInv, TypeOK, RunRecords, Upsert, Writing
    <3>2. /\ rollup'[a][h] = run[i].aggregates[a]
          /\ \A b \in Agents, g \in Hours : b # a \/ g # h => rollup'[b][g] = rollup[b][g]
      BY <2>0, <2>2, <3>1 DEF Upsert, TypeOK
    <3>3. rollup[a][h] <= rollup'[a][h]
      BY <3>1, <3>2 DEF WritingOK
    <3>4. \A b \in Agents, g \in Hours : rollup[b][g] <= rollup[b][g]
      BY <2>0 DEF TypeOK, NoRow
    <3> QED
      BY <3>2, <3>3, <3>4
  <2> QED
    BY <2>1, <2>2 DEF Next, ScheduledNext, Tick, RecordUsage, FireTimer, Start, Query, Finish,
                      Fail, RunManually, Restart
<1> QED
  BY <1>1, <1>2, SerialInit, PTL DEF Spec, RerunsAreSafe

-----------------------------------------------------------------------------
(* The gauges: what a scrape reads is fresh and never goes back. *)


LoadFields == {"pc", "started", "readAt", "usage", "agents"}

\* DomainGaugesService.inFlight: concurrent scrapes share one load.
OneLoad == \A c, d \in Scrapes : load[c].pc # "none" /\ load[d].pc # "none" => c = d

\* A load is dated no later than its rows, and its rows are at least as new as
\* the ones behind the gauges.
LoadOK(c) ==
  /\ DOMAIN load[c] = LoadFields
  /\ load[c].pc \in {"none", "querying", "read"}
  /\ load[c].pc # "none" => load[c].started \in 0 .. now
  /\ load[c].pc = "read" => load[c].readAt \in load[c].started .. now /\ asOf <= load[c].readAt

\* The date of the last refresh is no later than the rows it brought.
DatesOK ==
  /\ asOf \in Never .. now /\ lastRefreshAt \in Never .. now
  /\ lastRefreshAt # Never => asOf # Never /\ lastRefreshAt <= asOf

GaugesInv ==
  /\ now \in Nat /\ DOMAIN load = Scrapes
  /\ OneLoad /\ DatesOK /\ \A c \in Scrapes : LoadOK(c)

-----------------------------------------------------------------------------
LEMMA NoLoadFields == NoLoad.pc = "none" /\ DOMAIN NoLoad = LoadFields
BY DEF NoLoad, LoadFields

LEMMA GaugesInit == Init /\ InitService => GaugesInv
BY NoLoadFields DEF Init, InitService, GaugesInv, OneLoad, DatesOK, LoadOK, Never

\* The rest of the system keeps the clock or moves it by a tick.
LEMMA ClockSteps ==
  ASSUME now \in Nat,
         ScheduledNext \/ (\E i \in Runs : Fail(i)) \/ (\E i \in Runs, h \in Hours : RunManually(i, h))
           \/ Restart
  PROVE  now' \in {now, now + 1}
BY DEF ScheduledNext, Tick, RecordUsage, FireTimer, RunManually, Start, Query, Upsert, Finish, Fail,
       Restart

\* A step after which the loads are the same and the clock has not gone back.
LEMMA ServiceKept ==
  ASSUME GaugesInv, now' \in {now, now + 1}, UNCHANGED <<load, lastRefreshAt, asOf>>
  PROVE  GaugesInv'
<1>1. DatesOK'
  BY DEF GaugesInv, DatesOK, Never
<1>2. \A c \in Scrapes : LoadOK(c)'
  BY DEF GaugesInv, LoadOK
<1> QED
  BY <1>1, <1>2 DEF GaugesInv, OneLoad

\* load() is over, one way or the other.
LEMMA ReleaseStep ==
  ASSUME GaugesInv, NEW c \in Scrapes, load[c].pc # "none", Release(c), now' = now, DatesOK'
  PROVE  GaugesInv'
<1>1. load'[c] = NoLoad /\ DOMAIN load' = Scrapes /\ \A d \in Scrapes \ {c} : load'[d] = load[d]
  BY DEF GaugesInv, Release
<1>2. \A d \in Scrapes : load'[d].pc = "none" /\ DOMAIN load'[d] = LoadFields
  BY <1>1, NoLoadFields DEF GaugesInv, OneLoad, LoadOK
<1>3. OneLoad' /\ \A d \in Scrapes : LoadOK(d)'
  BY <1>2 DEF OneLoad, LoadOK
<1> QED
  BY <1>1, <1>3 DEF GaugesInv

LEMMA GaugesStep == GaugesInv /\ [GaugesNext]_allvars => GaugesInv'
<1> SUFFICES ASSUME GaugesInv, [GaugesNext]_allvars PROVE GaugesInv'
  OBVIOUS
<1>1. ASSUME NEW c \in Scrapes, Refresh(c) PROVE GaugesInv'
  <2>1. UNCHANGED <<now, lastRefreshAt, asOf>>
    BY <1>1 DEF Refresh, gauges, vars
  <2>2. CASE load' = load
    BY <2>1, <2>2, ServiceKept
  <2>3. CASE load' # load
    <3> DEFINE begun == [NoLoad EXCEPT !.pc = "querying", !.started = now]
    <3>1. load' = [load EXCEPT ![c] = begun] /\ InFlight = {}
      BY <1>1, <2>3 DEF Refresh
    <3>2. begun.pc = "querying" /\ begun.started = now /\ DOMAIN begun = LoadFields
      BY DEF NoLoad, LoadFields
    <3> HIDE DEF begun
    <3>3. load'[c] = begun /\ DOMAIN load' = Scrapes /\ \A d \in Scrapes \ {c} : load'[d] = load[d]
      BY <3>1 DEF GaugesInv
    <3>4. \A d \in Scrapes : load[d].pc = "none"
      BY <3>1 DEF InFlight
    <3>5. OneLoad'
      BY <3>3, <3>4 DEF OneLoad
    <3>6. \A d \in Scrapes : LoadOK(d)'
      BY <2>1, <3>2, <3>3, <3>4 DEF LoadOK, GaugesInv
    <3>7. DatesOK'
      BY <2>1 DEF GaugesInv, DatesOK
    <3> QED
      BY <2>1, <3>3, <3>5, <3>6, <3>7 DEF GaugesInv
  <2> QED
    BY <2>2, <2>3
<1>2. ASSUME NEW c \in Scrapes, LoadQuery(c) PROVE GaugesInv'
  <2> DEFINE rows == UsageRows
             agents == AgentRows
             back == [load[c] EXCEPT !.pc = "read", !.readAt = now, !.usage = rows, !.agents = agents]
  <2>1. load' = [load EXCEPT ![c] = back] /\ load[c].pc = "querying" /\ UNCHANGED <<now, lastRefreshAt, asOf>>
    BY <1>2 DEF LoadQuery, gauges, vars
  <2>2. DOMAIN load[c] = LoadFields /\ load[c].started \in 0 .. now
    BY <2>1 DEF GaugesInv, LoadOK
  <2> HIDE DEF rows, agents
  <2>3. /\ back.pc = "read" /\ back.readAt = now /\ back.started = load[c].started
        /\ DOMAIN back = LoadFields
    BY <2>2 DEF LoadFields
  <2> HIDE DEF back
  <2>4. load'[c] = back /\ DOMAIN load' = Scrapes /\ \A d \in Scrapes \ {c} : load'[d] = load[d]
    BY <2>1 DEF GaugesInv
  <2>5. OneLoad'
    BY <2>1, <2>3, <2>4 DEF GaugesInv, OneLoad
  <2>6. LoadOK(c)'
    BY <2>1, <2>2, <2>3, <2>4 DEF GaugesInv, LoadOK, DatesOK, Never
  <2>7. \A d \in Scrapes \ {c} : LoadOK(d)'
    BY <2>1, <2>4 DEF GaugesInv, LoadOK
  <2>8. DatesOK'
    BY <2>1 DEF GaugesInv, DatesOK
  <2> QED
    BY <2>1, <2>4, <2>5, <2>6, <2>7, <2>8 DEF GaugesInv
<1>3. ASSUME NEW c \in Scrapes, LoadDone(c) PROVE GaugesInv'
  <2>1. /\ load[c].pc = "read" /\ asOf' = load[c].readAt /\ lastRefreshAt' = load[c].started
        /\ Release(c) /\ now' = now
    BY <1>3 DEF LoadDone, SetGauges, vars
  <2>2. DatesOK'
    BY <2>1 DEF GaugesInv, LoadOK, DatesOK, Never
  <2> QED
    BY <2>1, <2>2, ReleaseStep
<1>4. ASSUME NEW c \in Scrapes, LoadFails(c) PROVE GaugesInv'
  <2>1. load[c].pc # "none" /\ Release(c) /\ UNCHANGED <<now, lastRefreshAt, asOf>>
    BY <1>4 DEF LoadFails, gauges, vars
  <2>2. DatesOK'
    BY <2>1 DEF GaugesInv, DatesOK
  <2> QED
    BY <2>1, <2>2, ReleaseStep
<1>5. ASSUME NEW a \in Agents, NEW s \in AgentStatus, SetStatus(a, s) PROVE GaugesInv'
  BY <1>5, ServiceKept DEF SetStatus, vars
<1>6. CASE Others
  <2>1. now' \in {now, now + 1}
    BY <1>6, ClockSteps DEF Others, GaugesInv
  <2>2. CASE UNCHANGED service
    BY <2>1, <2>2, ServiceKept DEF service
  <2>3. CASE ~UNCHANGED service
    <3>1. load' = [c \in Scrapes |-> NoLoad] /\ lastRefreshAt' = Never /\ asOf' = Never
      BY <1>6, <2>3 DEF Others
    <3>2. \A c \in Scrapes : load'[c].pc = "none" /\ DOMAIN load'[c] = LoadFields
      BY <3>1, NoLoadFields
    <3>3. OneLoad' /\ \A c \in Scrapes : LoadOK(c)'
      BY <3>2 DEF OneLoad, LoadOK
    <3>4. DatesOK'
      BY <2>1, <3>1 DEF DatesOK, Never, GaugesInv
    <3> QED
      BY <2>1, <3>1, <3>3, <3>4 DEF GaugesInv
  <2> QED
    BY <2>2, <2>3
<1>7. CASE UNCHANGED allvars
  BY <1>7, ServiceKept DEF allvars, vars, service
<1> QED
  BY <1>1, <1>2, <1>3, <1>4, <1>5, <1>6, <1>7 DEF GaugesNext, Loading

\* DomainGaugesService.refresh: a scrape that is answered from the cache shows
\* rows that were read within the TTL, however long the queries took.
THEOREM CacheIsFresh == GaugesSpec => []CachedIsFresh
<1>1. GaugesInv => CachedIsFresh
  BY TtlAssumption DEF GaugesInv, DatesOK, CachedIsFresh, Cached, Never
<1> QED
  BY <1>1, GaugesInit, GaugesStep, PTL DEF GaugesSpec

\* The shared load: no slow load overwrites the rows of a later one.
THEOREM GaugesNeverGoBack == GaugesSpec => NeverOlder
<1>1. GaugesInv /\ [GaugesNext]_allvars => [asOf' < asOf => asOf' = Never]_allvars
  <2> SUFFICES ASSUME GaugesInv, GaugesNext, asOf' < asOf PROVE asOf' = Never
    OBVIOUS
  <2>1. ASSUME asOf' = asOf PROVE FALSE
    BY <2>1 DEF GaugesInv, DatesOK, Never
  <2>2. ASSUME NEW c \in Scrapes, LoadDone(c) PROVE FALSE
    BY <2>2 DEF LoadDone, SetGauges, GaugesInv, LoadOK, DatesOK, Never
  <2> QED
    BY <2>1, <2>2 DEF GaugesNext, Refresh, Loading, LoadQuery, LoadFails, SetStatus, Others,
                      gauges, service
<1> QED
  BY <1>1, GaugesInit, GaugesStep, PTL DEF GaugesSpec, NeverOlder

-----------------------------------------------------------------------------
(* The gauges and the rows, for any number of runs in progress.              *)

\* What a successful run had read has a row, and what a run has dealt with has.
CountedRows == \A a \in Agents, h \in Hours : counted[a][h] > 0 => rollup[a][h] # NoRow
WriterRows(i) ==
  run[i].pc = "writing" =>
    \A a \in Agents \ run[i].left : run[i].aggregates[a] > 0 => rollup[a][run[i].bucket] # NoRow

RowsInv == RollupInv /\ CountedRows /\ \A i \in Runs : WriterRows(i)

\* No row is ever deleted.
NoneDeleted == \A a \in Agents, h \in Hours : rollup[a][h] # NoRow => rollup'[a][h] # NoRow

LEMMA RowsKept ==
  ASSUME RowsInv, NoneDeleted
  PROVE  /\ counted' = counted => CountedRows'
         /\ \A i \in Runs : run'[i] = run[i] \/ run'[i].pc # "writing" => WriterRows(i)'
<1>1. TypeOK
  BY DEF RowsInv, RollupInv
<1>2. counted' = counted => CountedRows'
  BY DEF RowsInv, CountedRows, NoneDeleted
<1>3. ASSUME NEW i \in Runs, run'[i] = run[i] PROVE WriterRows(i)'
  <2>1. run[i].bucket \in Hours /\ WriterRows(i)
    BY <1>1 DEF RowsInv, TypeOK, RunRecords
  <2> QED
    BY <1>3, <2>1 DEF WriterRows, NoneDeleted
<1>4. ASSUME NEW i \in Runs, run'[i].pc # "writing" PROVE WriterRows(i)'
  BY <1>4 DEF WriterRows
<1> QED
  BY <1>2, <1>3, <1>4

LEMMA RowsInit == Init => RowsInv
<1> SUFFICES ASSUME Init PROVE RowsInv
  OBVIOUS
<1>1. \A i \in Runs : WriterRows(i)
  BY DEF Init, Idle, WriterRows
<1> QED
  BY <1>1, RollupInit DEF Init, RowsInv, CountedRows, NothingYet

LEMMA RowsNext == RowsInv /\ [Next]_vars => RowsInv'
<1> SUFFICES ASSUME RowsInv, [Next]_vars PROVE RowsInv'
  OBVIOUS
<1>0. RollupInv /\ RollupInv' /\ TypeOK /\ TypeOK' /\ SnapshotsOK
  <2>1. RollupInv /\ RollupInv'
    BY RollupNext DEF RowsInv
  <2> QED
    BY <2>1 DEF RollupInv
<1>1. ASSUME UNCHANGED <<rollup, counted>>, \A i \in Runs : run'[i] = run[i] \/ run'[i].pc # "writing"
      PROVE  RowsInv'
  BY <1>0, <1>1, RowsKept DEF RowsInv, NoneDeleted
<1>2. CASE Tick
  BY <1>1, <1>2 DEF Tick
<1>3. ASSUME NEW a \in Agents, NEW h \in Hours, RecordUsage(a, h) PROVE RowsInv'
  BY <1>1, <1>3 DEF RecordUsage
<1>4. ASSUME NEW i \in Runs, NEW hour, Start(i, hour) PROVE RowsInv'
  <2>1. UNCHANGED <<rollup, counted>> /\ \A j \in Runs : run'[j] = run[j] \/ run'[j].pc # "writing"
    BY <1>0, <1>4 DEF Start, TypeOK, Idle
  <2> QED
    BY <1>1, <2>1
<1>5. ASSUME NEW i \in Runs, Query(i) PROVE RowsInv'
  <2> DEFINE h == run[i].bucket
             snapshot == [a \in Agents |-> total[a][h]]
             nonempty == {a \in Agents : total[a][h] > 0}
  <2>1. run' = [run EXCEPT ![i].pc = "writing", ![i].aggregates = snapshot,
                           ![i].left = nonempty]
        /\ UNCHANGED <<rollup, counted>>
    BY <1>5 DEF Query
  <2> HIDE DEF snapshot, nonempty
  <2>2. run[i] \in RunRecords
    BY <1>0 DEF TypeOK
  <2>3. /\ run'[i].left = nonempty /\ run'[i].aggregates = snapshot
        /\ \A j \in Runs \ {i} : run'[j] = run[j]
    BY <1>0, <2>1, <2>2 DEF TypeOK, RunRecords
  <2>4. WriterRows(i)'
    BY <2>3 DEF WriterRows, snapshot, nonempty
  <2> QED
    BY <1>0, <2>1, <2>3, <2>4, RowsKept DEF RowsInv, NoneDeleted
<1>6. ASSUME NEW i \in Runs, NEW a \in Agents, Upsert(i, a) PROVE RowsInv'
  <2> DEFINE h == run[i].bucket
  <2>1. run[i] \in RunRecords /\ h \in Hours /\ run[i].aggregates[a] \in Nat /\ WriterRows(i)
    BY <1>0, <1>6 DEF RowsInv, TypeOK, RunRecords, Upsert
  <2>2. /\ run'[i].pc = run[i].pc /\ run'[i].bucket = h
        /\ run'[i].aggregates = run[i].aggregates /\ run'[i].left = run[i].left \ {a}
        /\ UNCHANGED counted /\ \A j \in Runs \ {i} : run'[j] = run[j]
    BY <1>0, <1>6, <2>1 DEF Upsert, TypeOK, RunRecords
  <2>3. /\ rollup'[a][h] # NoRow
        /\ \A b \in Agents, g \in Hours : b # a \/ g # h => rollup'[b][g] = rollup[b][g]
    BY <1>0, <1>6, <2>1 DEF Upsert, TypeOK, NoRow
  <2>4. NoneDeleted
    BY <2>3 DEF NoneDeleted
  <2>5. WriterRows(i)'
    BY <2>1, <2>2, <2>3 DEF WriterRows
  <2> QED
    BY <1>0, <2>2, <2>4, <2>5, RowsKept DEF RowsInv
<1>7. ASSUME NEW i \in Runs, Finish(i) PROVE RowsInv'
  <2> DEFINE h == run[i].bucket
  <2>1. /\ run[i].pc = "writing" /\ run[i].left = {} /\ WriterRows(i) /\ run[i] \in RunRecords
        /\ run' = [run EXCEPT ![i] = Idle] /\ UNCHANGED rollup
        /\ counted' = [a \in Agents |-> [counted[a] EXCEPT ![h] = run[i].aggregates[a]]]
    BY <1>0, <1>7 DEF RowsInv, TypeOK, Finish
  <2>2. NoneDeleted /\ \A j \in Runs : run'[j] = run[j] \/ run'[j].pc # "writing"
    BY <1>0, <2>1 DEF TypeOK, Idle, NoneDeleted
  <2>3. CountedRows'
    <3> SUFFICES ASSUME NEW b \in Agents, NEW g \in Hours, counted'[b][g] > 0
                 PROVE  rollup[b][g] # NoRow
      BY <2>1 DEF CountedRows
    <3>1. h \in Hours /\ counted[b] \in [Hours -> Nat]
      BY <1>0, <2>1 DEF TypeOK, RunRecords
    <3>2. CASE g = h
      <4>1. counted'[b][g] = run[i].aggregates[b]
        BY <2>1, <3>1, <3>2
      <4> QED
        BY <2>1, <3>2, <4>1 DEF WriterRows
    <3>3. CASE g # h
      <4>1. counted'[b][g] = counted[b][g]
        BY <2>1, <3>1, <3>3
      <4> QED
        BY <4>1 DEF RowsInv, CountedRows
    <3> QED
      BY <3>2, <3>3
  <2> QED
    BY <1>0, <2>2, <2>3, RowsKept DEF RowsInv
<1>8. ASSUME NEW i \in Runs, Fail(i) PROVE RowsInv'
  <2>1. UNCHANGED <<rollup, counted>> /\ \A j \in Runs : run'[j] = run[j] \/ run'[j].pc # "writing"
    BY <1>0, <1>8 DEF Fail, TypeOK, Idle
  <2> QED
    BY <1>1, <2>1
<1>9. CASE Restart
  <2>1. \A i \in Runs : run'[i].pc # "writing"
    <3> SUFFICES ASSUME NEW i \in Runs PROVE run'[i].pc # "writing"
      OBVIOUS
    <3>1. run'[i] \in Remains(run[i]) /\ run[i] \in RunRecords
      BY <1>0, <1>9 DEF Restart, TypeOK
    <3> QED
      BY <3>1, RemainsOf DEF Idle
  <2> QED
    BY <1>1, <1>9, <2>1 DEF Restart
<1>10. CASE UNCHANGED vars
  BY <1>1, <1>10 DEF vars
<1> QED
  BY <1>2, <1>3, <1>4, <1>5, <1>6, <1>7, <1>8, <1>9, <1>10
     DEF Next, ScheduledNext, FireTimer, RunManually

\* The service only looks: its steps are steps of the job or leave it alone.
LEMMA ServiceOnlyReads == [GaugesNext]_allvars => [Next]_vars
BY DEF GaugesNext, Refresh, Loading, LoadQuery, LoadDone, LoadFails, SetStatus, Others, Next,
       allvars, service, vars

\* loadUsage: of an agent and an hour, a load counts as pending at most the records
\* that became visible after the last successful run over the hour had read,
\* however many runs overlap, fail or are repeated.
THEOREM ReadUsageIsNotPending == GaugesSpec => []RecoveryClearsPending
<1>1. RowsInv => RecoveryClearsPending
  <2> SUFFICES ASSUME RowsInv, NEW a \in Agents, NEW h \in Hours
               PROVE  Pending(a, h) <= total[a][h] - counted[a][h]
    BY DEF RecoveryClearsPending
  <2>1. /\ total[a][h] \in Nat /\ counted[a][h] \in Nat /\ counted[a][h] <= total[a][h]
        /\ counted[a][h] > 0 => rollup[a][h] # NoRow
    BY DEF RowsInv, RollupInv, TypeOK, CountedOK, CountedRows
  <2> QED
    BY <2>1 DEF Pending
<1> QED
  BY <1>1, RowsInit, RowsNext, ServiceOnlyReads, PTL DEF GaugesSpec
=============================================================================
