---------------------------- MODULE DomainGauges ----------------------------
(***************************************************************************)
(* DomainGaugesService (src/src/observability/domain-gauges.service.ts):   *)
(* the gauges that a scrape of /metrics reads from the database, over the  *)
(* usage_records and usage_rollups that MeteringRollup works on.           *)
(*                                                                         *)
(* Of the two SELECTs that count rows by agent status, on agents and on    *)
(* services, one is modelled: they are alike.  The SELECTs of a load are   *)
(* sent together; no property relates their results, so one instant reads  *)
(* them all.                                                               *)
(* load[c]: the load that scrape c has started:                            *)
(*   none, querying, read (the rows are back, the gauges not yet set)      *)
(***************************************************************************)
EXTENDS MeteringRollup, Functions

CONSTANTS
  Scrapes,    \* scrapes that may be in progress at once
  GaugeTtl    \* DOMAIN_METRICS_TTL_MS, in ticks

ASSUME TtlAssumption == GaugeTtl \in Nat \ {0}
ASSUME FleetAssumption == IsFiniteSet(Agents)

VARIABLES
  waiting,         \* scrapes that await the load
  load,
  lastRefreshAt,
  fleet,           \* fleet[a]: the status column of a's row in agents
  usageGauge,      \* agent_layer_usage_records by status
  agentsGauge,     \* agent_layer_agents by status
  asOf             \* history: when the rows behind the gauges were read

service == <<waiting, load, lastRefreshAt, fleet, usageGauge, agentsGauge, asOf>>
gauges == <<fleet, usageGauge, agentsGauge, asOf>>
allvars == <<vars, service>>

Never == -1
AgentStatus == {"active", "inactive"}
Unset == [status \in AgentStatus |-> 0]
NoLoad == [pc |-> "none", started |-> Never, readAt |-> Never,
           usage |-> [pending |-> 0, rolledUp |-> 0], agents |-> {}]
InFlight == {c \in Scrapes : load[c].pc # "none"}

InitService ==
  /\ waiting = {}
  /\ load = [c \in Scrapes |-> NoLoad]
  /\ lastRefreshAt = Never
  /\ fleet = [a \in Agents |-> "active"]
  /\ usageGauge = NoLoad.usage /\ agentsGauge = Unset
  /\ asOf = Never

\* Faulty form: the join compares the bucket with createdAt itself.
Pending_NotTruncated(a, h) == total[a][h]

\* CASE WHEN r.id IS NULL of the LEFT JOIN on agent and hour: the records of an
\* hour are pending while the hour has no row, whatever the row holds.
Pending(a, h) == IF rollup[a][h] = NoRow THEN total[a][h] ELSE 0

\* SUM(CASE WHEN r.id IS NULL ...) and COUNT(r.id).  The window of 24 hours
\* reaches back beyond the modelled time.
UsageRows ==
  LET Sum(f) == FoldFunction(LAMBDA x, y : x + y, 0, f)
  IN [pending |-> Sum([c \in Agents \X Hours |-> Pending(c[1], c[2])]),
      rolledUp |-> Sum([c \in Agents \X Hours |-> total[c[1]][c[2]] - Pending(c[1], c[2])])]

\* SELECT status, COUNT( * ) ... GROUP BY status: no row for a status that no
\* agent has.
AgentRows ==
  {[status |-> s, count |-> Cardinality({a \in Agents : fleet[a] = s})] :
     s \in Range(fleet)}

\* setByStatus: known statuses are always written.
SetByStatus(rows) ==
  [s \in AgentStatus |-> IF \E r \in rows : r.status = s
                         THEN (CHOOSE r \in rows : r.status = s).count ELSE 0]

Cached == lastRefreshAt # Never /\ now - lastRefreshAt < GaugeTtl

\* Faulty form: every scrape runs queries of its own.
Refresh_NotShared(c) ==
  /\ c \notin waiting /\ load[c].pc = "none"
  /\ IF Cached THEN UNCHANGED <<waiting, load>>
     ELSE /\ waiting' = waiting \union {c}
          /\ load' = [load EXCEPT ![c] = [NoLoad EXCEPT !.pc = "querying", !.started = now]]
  /\ UNCHANGED <<lastRefreshAt, gauges, vars>>

\* scrape(): refresh() returns at once, starts a load, or joins the one in flight.
Refresh(c) ==
  /\ c \notin waiting
  /\ IF Cached THEN UNCHANGED <<waiting, load>>
     ELSE /\ waiting' = waiting \union {c}
          /\ load' = IF InFlight # {} THEN load
                     ELSE [load EXCEPT ![c] = [NoLoad EXCEPT !.pc = "querying",
                                                             !.started = now]]
  /\ UNCHANGED <<lastRefreshAt, gauges, vars>>

\* The database executes the SELECT.
LoadQuery(c) ==
  /\ load[c].pc = "querying"
  /\ load' = [load EXCEPT ![c] = [@ EXCEPT !.pc = "read", !.readAt = now, !.usage = UsageRows,
                                             !.agents = AgentRows]]
  /\ UNCHANGED <<waiting, lastRefreshAt, gauges, vars>>

\* finally: the scrapes that wait for the load go on.
Release(c) ==
  /\ load' = [load EXCEPT ![c] = NoLoad]
  /\ waiting' = IF InFlight = {c} THEN {} ELSE waiting \ {c}

\* The synchronous end of load().
SetGauges(c) ==
  /\ usageGauge' = load[c].usage
  /\ agentsGauge' = SetByStatus(load[c].agents)
  /\ asOf' = load[c].readAt

\* Faulty form: the refresh is dated by its end.
LoadDone_StampedLate(c) ==
  /\ load[c].pc = "read"
  /\ SetGauges(c)
  /\ lastRefreshAt' = now
  /\ Release(c)
  /\ UNCHANGED <<fleet, vars>>

\* The gauges are set in one go; the refresh is dated by the scrape it began with.
LoadDone(c) ==
  /\ load[c].pc = "read"
  /\ SetGauges(c)
  /\ lastRefreshAt' = load[c].started
  /\ Release(c)
  /\ UNCHANGED <<fleet, vars>>

\* Faulty form: inFlight is cleared on success only.
LoadFails_NotCleared(c) ==
  /\ load[c].pc = "querying"
  /\ load' = [load EXCEPT ![c].pc = "failed"]
  /\ waiting' = {}
  /\ UNCHANGED <<lastRefreshAt, gauges, vars>>

\* A query fails: the error counter moves, the old values and their date stay.
LoadFails(c) ==
  /\ load[c].pc # "none"
  /\ Release(c)
  /\ UNCHANGED <<lastRefreshAt, gauges, vars>>

\* The rest of the system; a restart takes the service with it.
Others ==
  \/ /\ ScheduledNext \/ (\E i \in Runs : Fail(i))
        \/ (\E i \in Runs, h \in Hours : RunManually(i, h))
     /\ UNCHANGED service
  \/ /\ Restart
     /\ waiting' = {} /\ load' = [c \in Scrapes |-> NoLoad]
     /\ lastRefreshAt' = Never /\ asOf' = Never
     /\ usageGauge' = NoLoad.usage /\ agentsGauge' = Unset
     /\ UNCHANGED fleet

\* PATCH or DELETE /agents/:id changes the status.
SetStatus(a, s) ==
  /\ fleet[a] # s
  /\ fleet' = [fleet EXCEPT ![a] = s]
  /\ UNCHANGED <<waiting, load, lastRefreshAt, usageGauge, agentsGauge, asOf, vars>>

Loading(c) == LoadQuery(c) \/ LoadDone(c) \/ LoadFails(c)

GaugesNext ==
  \/ \E c \in Scrapes : Refresh(c) \/ Loading(c)
  \/ \E a \in Agents, s \in AgentStatus : SetStatus(a, s)
  \/ Others

\* A query of the gauges ends, in one way or the other.
GaugesSpec ==
  /\ Init /\ InitService /\ [][GaugesNext]_allvars
  /\ \A c \in Scrapes : WF_allvars(Loading(c))
-----------------------------------------------------------------------------
\* Every variable of the service keeps its type, and a load is never dated later
\* than its rows.
ServiceTypeOK ==
  /\ waiting \subseteq Scrapes
  /\ \A c \in Scrapes : /\ load[c].pc \in {"none", "querying", "read"}
                        /\ load[c].started \in Never .. now /\ load[c].readAt \in Never .. now
  /\ lastRefreshAt \in Never .. now
  /\ asOf \in Never .. now
  /\ fleet \in [Agents -> AgentStatus]
  /\ usageGauge \in [pending : Nat, rolledUp : Nat]
  /\ agentsGauge \in [AgentStatus -> Nat]

\* Whenever a scrape is answered from the cache, the rows behind the gauges were
\* read less than the TTL ago, however long the queries took, and failed loads
\* count for nothing ("reloads the gauges unless they were loaded within the
\* TTL", domain-gauges.service.ts:89).
CachedIsFresh == Cached => asOf # Never /\ now - asOf < GaugeTtl

\* No load counts a record as pending that a successful run has read: of an agent
\* and an hour at most the records are pending that became visible after the last
\* such read, and none while there are no such records.  So the runbook's re-run
\* of a missed hour clears the backlog that the alert on the metering lag shows.
RecoveryClearsPending ==
  \A a \in Agents, h \in Hours : Pending(a, h) <= total[a][h] - counted[a][h]

\* The gauges never go back to older rows while the process runs: concurrent
\* scrapes share one round of queries, so no slow load overwrites a later one.
NeverOlder == [][asOf' < asOf => asOf' = Never]_allvars

\* Every scrape gets its answer once the queries end, also after a failed load.
EveryScrapeAnswers == \A c \in Scrapes : c \in waiting ~> c \notin waiting
=============================================================================
