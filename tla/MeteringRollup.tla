--------------------------- MODULE MeteringRollup ---------------------------
(***************************************************************************)
(* MeteringRollupJob (src/src/modules/metering/metering-rollup.job.ts):    *)
(* usage_records of one hour are aggregated by one SELECT and written to   *)
(* usage_rollups by one upsert per agent.  Runs are started by the interval*)
(* timer, for the current hour, or by an operator, for any hour; nothing   *)
(* keeps two runs from overlapping, which Runs bounds.                     *)
(*                                                                         *)
(* All aggregated columns come from the same SELECT and are overwritten    *)
(* together, so one number per (agent, hour) stands for all of them.  A    *)
(* record is added in an hour of any age; that POST /usage with the id of a*)
(* stored record would change that record is left out.                     *)
(***************************************************************************)
EXTENDS Integers, FiniteSets

CONSTANTS
  Agents,
  Runs,           \* invocations of the job that may be in progress at once
  TicksPerHour,   \* clock resolution
  Interval,       \* METERING_ROLLUP_INTERVAL_MS, in ticks
  MaxTime,        \* bound on the clock
  MaxUsage        \* bound on the usage records of one agent in one hour

ASSUME ClockAssumption ==
  TicksPerHour \in Nat \ {0} /\ Interval \in Nat \ {0} /\ MaxTime \in Nat
ASSUME UsageAssumption == MaxUsage \in Nat

VARIABLES
  now,        \* the clock of the process and of the database
  nextFire,   \* when the interval timer fires next
  total,      \* total[a][h]: aggregate of the committed usage_records of a with
              \* createdAt in hour h
  rollup,     \* rollup[a][h]: the usage_rollups row, or NoRow
  run,        \* the invocations in progress
  counted     \* history: counted[a][h]: what the last successful run over h had
              \* read of a

vars == <<now, nextFire, total, rollup, run, counted>>

NoRow == -1

\* truncateToHour, with hours numbered.
Hour(t) == t \div TicksPerHour
Hours == 0 .. Hour(MaxTime)

Nothing == [a \in Agents |-> 0]
NothingYet == [a \in Agents |-> [h \in Hours |-> 0]]

\* An invocation: what it waits for ("sent": its process is gone, an upsert may
\* still reach the database), its hourBucket, the aggregates its SELECT returned
\* and the agents whose upsert is still to come.
Idle == [pc |-> "idle", bucket |-> 0, aggregates |-> Nothing, left |-> {}]

Init ==
  /\ now = 0
  /\ nextFire \in 1 .. Interval   \* onModuleInit ran at some time in the hour
  /\ total = NothingYet
  /\ rollup = [a \in Agents |-> [h \in Hours |-> NoRow]]
  /\ run = [i \in Runs |-> Idle]
  /\ counted = NothingYet

\* Time passes; the event loop does not let the timer lag behind by a tick.
Tick ==
  /\ now < MaxTime
  /\ now < nextFire
  /\ now' = now + 1
  /\ UNCHANGED <<nextFire, total, rollup, run, counted>>

\* The transaction that inserts a usage record commits.  createdAt is the start
\* of the transaction, which may lie in an hour that is over and was read by a
\* run, or whatever hour the unvalidated body of POST /usage names.
RecordUsage(a, h) ==
  /\ total[a][h] < MaxUsage
  /\ total' = [total EXCEPT ![a][h] = @ + 1]
  /\ UNCHANGED <<now, nextFire, rollup, run, counted>>

\* rollup(referenceDate) up to the SELECT it awaits.
Start(i, hour) ==
  /\ run[i].pc = "idle"
  /\ run' = [run EXCEPT ![i] = [Idle EXCEPT !.pc = "querying", !.bucket = hour]]
  /\ UNCHANGED <<now, total, rollup, counted>>

\* The interval callback: runHourlyRollup() for the current time.
FireTimer(i) ==
  /\ now >= nextFire
  /\ nextFire' = nextFire + Interval
  /\ Start(i, Hour(now))

\* An operator runs the job for a timestamp inside a past or the current hour.
RunManually(i, hour) ==
  /\ hour <= Hour(now)
  /\ Start(i, hour)
  /\ UNCHANGED nextFire

\* Faulty form: the hour's records are read up to the present hour.
Query_WholeTable(i) ==
  /\ run[i].pc = "querying"
  /\ run' = [run EXCEPT
       ![i].pc = "writing",
       ![i].aggregates = [a \in Agents |-> total[a][Hour(now)]],
       ![i].left = {a \in Agents : total[a][Hour(now)] > 0}]
  /\ UNCHANGED <<now, nextFire, total, rollup, counted>>

\* The database executes the SELECT ... GROUP BY over the bucket's hour.
Query(i) ==
  LET h == run[i].bucket IN
  /\ run[i].pc = "querying"
  /\ run' = [run EXCEPT
       ![i].pc = "writing",
       ![i].aggregates = [a \in Agents |-> total[a][h]],
       ![i].left = {a \in Agents : total[a][h] > 0}]
  /\ UNCHANGED <<now, nextFire, total, rollup, counted>>

\* Faulty forms of the conflict clause: the stored row is added to; the stored
\* row is kept.
Upsert_Accumulate(i, a) ==
  LET h == run[i].bucket IN
  /\ run[i].pc \in {"writing", "sent"}
  /\ a \in run[i].left
  /\ rollup' = [rollup EXCEPT ![a][h] =
                  IF @ = NoRow THEN run[i].aggregates[a] ELSE @ + run[i].aggregates[a]]
  /\ run' = [run EXCEPT ![i].left = @ \ {a}]
  /\ UNCHANGED <<now, nextFire, total, counted>>

Upsert_DoNothing(i, a) ==
  LET h == run[i].bucket IN
  /\ run[i].pc \in {"writing", "sent"}
  /\ a \in run[i].left
  /\ rollup' = [rollup EXCEPT ![a][h] = IF @ = NoRow THEN run[i].aggregates[a] ELSE @]
  /\ run' = [run EXCEPT ![i].left = @ \ {a}]
  /\ UNCHANGED <<now, nextFire, total, counted>>

\* One iteration of the loop: INSERT ... ON CONFLICT (agentId, hourBucket) DO
\* UPDATE overwrites the stored columns.  GROUP BY gives the rows in any order.
Upsert(i, a) ==
  LET h == run[i].bucket IN
  /\ run[i].pc \in {"writing", "sent"}
  /\ a \in run[i].left
  /\ rollup' = [rollup EXCEPT ![a][h] = run[i].aggregates[a]]
  /\ run' = [run EXCEPT ![i].left = @ \ {a}]
  /\ UNCHANGED <<now, nextFire, total, counted>>

\* The loop is over, or there was nothing to write: recordRollupRun('success').
Finish(i) ==
  /\ run[i].pc = "writing"
  /\ run[i].left = {}
  /\ counted' = [a \in Agents |-> [counted[a] EXCEPT ![run[i].bucket] = run[i].aggregates[a]]]
  /\ run' = [run EXCEPT ![i] = Idle]
  /\ UNCHANGED <<now, nextFire, total, rollup>>

\* A statement fails: recordRollupRun('failure'); the rows written so far stay.
\* Or the upsert of a dead process was the last of it, executed or lost.
Fail(i) ==
  /\ run[i].pc # "idle"
  /\ run' = [run EXCEPT ![i] = Idle]
  /\ UNCHANGED <<now, nextFire, total, rollup, counted>>

\* What a dead process leaves of a run: the one upsert it may have sent.
Remains(r) ==
  {Idle} \union
    {[r EXCEPT !.pc = "sent", !.left = {a}] :
       a \in {b \in r.left : r.pc \in {"writing", "sent"}}}

\* The process restarts: the runs are gone and the interval starts anew.
Restart ==
  /\ run' \in [Runs -> UNION {Remains(run[i]) : i \in Runs}]
  /\ \A i \in Runs : run'[i] \in Remains(run[i])
  /\ nextFire' = now + Interval
  /\ UNCHANGED <<now, total, rollup, counted>>

\* What the scheduler does when every statement succeeds.
ScheduledNext ==
  \/ Tick
  \/ \E a \in Agents, h \in Hours : RecordUsage(a, h)
  \/ \E i \in Runs : FireTimer(i) \/ Query(i) \/ Finish(i)
  \/ \E i \in Runs, a \in Agents : Upsert(i, a)

Next ==
  \/ ScheduledNext
  \/ \E i \in Runs : Fail(i)
  \/ \E i \in Runs, h \in Hours : RunManually(i, h)
  \/ Restart

Spec == Init /\ [][Next]_vars

-----------------------------------------------------------------------------
RunRecords ==
  [pc : {"idle", "querying", "writing", "sent"}, bucket : Hours,
   aggregates : [Agents -> Nat], left : SUBSET Agents]

\* Every variable keeps its type: no run ever works on an hour to come.
TypeOK ==
  /\ now \in 0 .. MaxTime
  /\ nextFire \in Nat
  /\ total \in [Agents -> [Hours -> Nat]]
  /\ rollup \in [Agents -> [Hours -> Nat \union {NoRow}]]
  /\ run \in [Runs -> RunRecords]
  /\ \A i \in Runs : run[i].bucket <= Hour(now)
  /\ counted \in [Agents -> [Hours -> Nat]]

\* The rollups never claim more usage than the records of the hour hold, for
\* any number of overlapping, failing and repeated runs: an agent is never
\* billed for usage that is not in usage_records.
NeverOverstated ==
  \A a \in Agents, h \in Hours : rollup[a][h] <= total[a][h]

\* Usage that a successful run has read is in the rollup from then on, although
\* later runs fail between two upserts or leave one behind when the process dies:
\* a row lacks only records of its hour that have become visible after that read.
\* "Missed hours are recovered by running the job" (docs/OBSERVABILITY.md:183) is
\* thus true of what is committed when the job reads.
ReadUsageIsCharged ==
  \A a \in Agents, h \in Hours :
    counted[a][h] > 0 => rollup[a][h] \in counted[a][h] .. total[a][h]

\* A repeated run never lowers a row, so usage that was charged once is not
\* uncharged: "the upsert makes re-runs safe" (docs/OBSERVABILITY.md:183).
RerunsAreSafe ==
  [][\A a \in Agents, h \in Hours : rollup[a][h] <= rollup'[a][h]]_vars
=============================================================================
