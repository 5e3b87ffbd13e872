------------------------- MODULE HttpGateway_proofs -------------------------
(***************************************************************************)
(* The series, the audit lines and the decisions of the guards, for every  *)
(* number of requests in progress, all routes and credentials.             *)
(***************************************************************************)
EXTENDS HttpGateway, FiniteSetTheorems, TLAPS

\* The tracked requests whose client waits, and the gauge that counts them.
Open == {s \in Slots : Tracked(s) /\ conn[s] = "open"}
GaugeOK == inFlight = Cardinality(Open)

\* HttpMetricsMiddleware settles a request with its connection, and then its
\* response does not change any more.
SettledOK(s) ==
  Tracked(s) =>
    /\ conn[s] = "open" => settled[s] = "no" /\ counted[s] = <<>>
    /\ conn[s] # "open" => settled[s] = "yes"
    /\ conn[s] \in {"finished", "closed"} => pc[s] = "ended" /\ counted[s] = <<status[s]>>
    /\ conn[s] = "aborted" => counted[s] = <<499>>

\* Nothing is timed and no status is set before the request has been answered,
\* and only the scrape is served without being tracked.
UnderwayOK(s) ==
  /\ conn[s] = "finished" => pc[s] = "ended"
  /\ pc[s] # "ended" => timed[s] = <<>> /\ status[s] = 0
  /\ pc[s] = "ended" => status[s] \in Statuses
  /\ pc[s] \in {"guards", "handler"} /\ ~Tracked(s) => req[s].route = "metrics"

\* AuditedOnce and ServedAsEntitled for one request.
AuditOK(s) ==
  pc[s] = "ended" /\ Ran(s) /\ Unsafe(req[s].route) =>
    /\ Len(audit[s]) = 1
    /\ audit[s][1] < 400 <=> status[s] < 400
    /\ audit[s][1] = status[s] \/ (audit[s][1] = 500 /\ status[s] \in {404, 409})

EntitledOK(s) ==
  Ran(s) /\ ~Public(req[s].route) =>
    /\ Known(req[s]) \/ req[s].bearer \in Roles \union {"roleless"}
    /\ Required(req[s].route) # {} =>
         (IF Known(req[s]) THEN "service" ELSE req[s].bearer) \in Required(req[s].route)

ServiceOK(s) ==
  Known(req[s]) /\ status[s] \in {401, 403} =>
    Required(req[s].route) # {} /\ "service" \notin Required(req[s].route)

SlotOK(s) ==
  /\ SettledOK(s) /\ UnderwayOK(s) /\ AuditOK(s)
  /\ EntitledOK(s) /\ ServiceOK(s)

GatewayInv == TypeOK /\ GaugeOK /\ \A s \in Slots : SlotOK(s)

-----------------------------------------------------------------------------
LEMMA OpenFinite == TypeOK => IsFiniteSet(Open) /\ Cardinality(Open) \in Nat
<1>1. Open \subseteq Slots
  BY DEF Open
<1> QED
  BY <1>1, GatewayAssumption, FS_Subset, FS_CardinalityType

LEMMA GatewayInit == Init => GatewayInv
<1> SUFFICES ASSUME Init PROVE GatewayInv
  OBVIOUS
<1>1. TypeOK
  <2>1. probe \in [Slots -> [Dependencies -> {"none", "pending", "up", "down", "late"}]]
    BY DEF Init, InitProbes, NotProbed
  <2>2. <<>> \in Seq(Statuses)
    OBVIOUS
  <2>3. counted \in [Slots -> Seq(Statuses)] /\ audit \in [Slots -> Seq(Statuses)]
        /\ timed \in [Slots -> Seq(Statuses)]
    BY <2>2 DEF Init
  <2>4. /\ req \in [Slots -> Requests \union {NoRequest}]
        /\ pc \in [Slots -> {"idle", "guards", "handler", "ended"}]
        /\ conn \in [Slots -> {"open", "finished", "closed", "aborted"}]
    BY DEF Init
  <2>5. /\ status \in [Slots -> {0} \union Statuses]
        /\ settled \in [Slots -> {"untracked", "no", "yes"}]
        /\ jar \in {NoCookie} \union Ages /\ fresh \in [Slots -> {NoCookie} \union Ages]
        /\ inFlight \in Nat
        /\ report \in [Slots -> {"none", "ok", "degraded", "down", "ready", "unready"}]
    BY DEF Init
  <2> QED
    BY <2>1, <2>3, <2>4, <2>5 DEF TypeOK
<1>2. \A s \in Slots : SlotOK(s)
  <2> TAKE s \in Slots
  <2>1. pc[s] = "idle" /\ conn[s] = "closed" /\ status[s] = 0 /\ ~Tracked(s) /\ ~Ran(s)
        /\ timed[s] = <<>>
    BY DEF Init, Tracked, Ran
  <2> QED
    BY <2>1 DEF SlotOK, SettledOK, UnderwayOK, AuditOK, EntitledOK, ServiceOK
<1>3. GaugeOK
  <2>1. Open = {}
    BY DEF Init, Open, Tracked
  <2> QED
    BY <2>1, FS_EmptySet DEF Init, GaugeOK
<1> QED
  BY <1>1, <1>2, <1>3 DEF GatewayInv

\* A step that leaves a request alone.
LEMMA Untouched ==
  ASSUME NEW s \in Slots, SlotOK(s),
         req'[s] = req[s], pc'[s] = pc[s], conn'[s] = conn[s], status'[s] = status[s],
         settled'[s] = settled[s], counted'[s] = counted[s], audit'[s] = audit[s],
         timed'[s] = timed[s]
  PROVE  SlotOK(s)'
<1>1. /\ Tracked(s)' <=> Tracked(s)
      /\ Ran(s)' <=> Ran(s)
  BY DEF Tracked, Ran
<1>2. SettledOK(s)' /\ UnderwayOK(s)'
  BY <1>1 DEF SlotOK, SettledOK, UnderwayOK
<1>3. AuditOK(s)' /\ EntitledOK(s)' /\ ServiceOK(s)'
  BY <1>1 DEF SlotOK, AuditOK, EntitledOK, ServiceOK
<1> QED
  BY <1>2, <1>3 DEF SlotOK

\* The gauge after a step that leaves settled and conn alone.
LEMMA GaugeKept ==
  ASSUME GaugeOK, UNCHANGED <<conn, settled, inFlight>>
  PROVE  GaugeOK'
<1>1. Open' = Open
  BY DEF Open, Tracked
<1> QED
  BY <1>1 DEF GaugeOK

\* A tick keeps an age an age.
LEMMA OlderIsAge ==
  ASSUME NEW age \in {NoCookie} \union Ages
  PROVE  Older(age) \in {NoCookie} \union Ages
BY GatewayAssumption DEF Older, NoCookie, Ages

LEMMA ArriveStep ==
  ASSUME GatewayInv, NEW s \in Slots, NEW q \in Shapes[s], NEW age, Arrive(s, q, age)
  PROVE  GatewayInv'
<1> DEFINE tracked == ~CsrfRefuses(q, age) /\ q.route # "metrics"
<1>1. TypeOK /\ GaugeOK /\ (\A u \in Slots : SlotOK(u)) /\ q \in Requests
  BY DEF GatewayInv, Requests
<1>2. /\ conn[s] # "open" /\ jar' = age /\ age \in {jar, Older(jar)}
      /\ req' = [req EXCEPT ![s] = q] /\ conn' = [conn EXCEPT ![s] = "open"]
      /\ fresh' = [u \in Slots |-> IF u = s THEN (IF Replaced(jar) THEN 0 ELSE NoCookie)
                                   ELSE IF age = jar THEN fresh[u] ELSE Older(fresh[u])]
      /\ counted' = [counted EXCEPT ![s] = <<>>] /\ audit' = [audit EXCEPT ![s] = <<>>]
      /\ timed' = [timed EXCEPT ![s] = <<>>]
      /\ probe' = [probe EXCEPT ![s] = NotProbed] /\ report' = [report EXCEPT ![s] = "none"]
      /\ pc' = [pc EXCEPT ![s] = IF CsrfRefuses(q, age) THEN "ended" ELSE "guards"]
      /\ status' = [status EXCEPT ![s] = IF CsrfRefuses(q, age) THEN 403 ELSE 0]
      /\ settled' = [settled EXCEPT ![s] = IF tracked THEN "no" ELSE "untracked"]
      /\ inFlight' = IF tracked THEN inFlight + 1 ELSE inFlight
  BY DEF Arrive
<1> HIDE DEF tracked
<1>3. /\ req'[s] = q /\ conn'[s] = "open" /\ counted'[s] = <<>> /\ audit'[s] = <<>> /\ timed'[s] = <<>>
      /\ pc'[s] = (IF CsrfRefuses(q, age) THEN "ended" ELSE "guards")
      /\ status'[s] = (IF CsrfRefuses(q, age) THEN 403 ELSE 0)
      /\ settled'[s] = (IF tracked THEN "no" ELSE "untracked")
  BY <1>1, <1>2 DEF TypeOK
<1>4. \A u \in Slots : u # s =>
        /\ req'[u] = req[u] /\ pc'[u] = pc[u] /\ conn'[u] = conn[u] /\ status'[u] = status[u]
        /\ settled'[u] = settled[u] /\ counted'[u] = counted[u] /\ audit'[u] = audit[u]
        /\ timed'[u] = timed[u]
  BY <1>1, <1>2 DEF TypeOK
<1>5. SlotOK(s)'
  <2>1. ~Ran(s)' /\ (Tracked(s)' <=> tracked)
    BY <1>3 DEF Ran, Tracked
  <2>2. CsrfRefuses(q, age) => ~Known(q)
    BY GatewayAssumption DEF CsrfRefuses, Known
  <2>3. SettledOK(s)' /\ UnderwayOK(s)'
    BY <1>3, <2>1 DEF SettledOK, UnderwayOK, tracked, Statuses
  <2>4. AuditOK(s)' /\ EntitledOK(s)'
    BY <2>1 DEF AuditOK, EntitledOK
  <2>5. ServiceOK(s)'
    BY <1>3, <2>2 DEF ServiceOK
  <2> QED
    BY <2>3, <2>4, <2>5 DEF SlotOK
<1>6. \A u \in Slots : SlotOK(u)'
  BY <1>1, <1>4, <1>5, Untouched
<1>7. GaugeOK' /\ inFlight' \in Nat
  <2>1. Open' = IF tracked THEN Open \union {s} ELSE Open
    BY <1>2, <1>3, <1>4 DEF Open, Tracked
  <2>2. s \notin Open
    BY <1>2 DEF Open
  <2>3. Cardinality(Open \union {s}) = Cardinality(Open) + 1
    BY <1>1, <2>2, OpenFinite, FS_AddElement
  <2> QED
    BY <1>1, <1>2, <2>1, <2>3, OpenFinite DEF GaugeOK
<1>8. TypeOK'
  <2>1. NotProbed \in [Dependencies -> {"none", "pending", "up", "down", "late"}]
    BY DEF NotProbed
  <2>2. probe' \in [Slots -> [Dependencies -> {"none", "pending", "up", "down", "late"}]]
        /\ report' \in [Slots -> {"none", "ok", "degraded", "down", "ready", "unready"}]
    BY <1>1, <1>2, <2>1 DEF TypeOK
  <2>3. req' \in [Slots -> Requests \union {NoRequest}]
        /\ pc' \in [Slots -> {"idle", "guards", "handler", "ended"}]
        /\ conn' \in [Slots -> {"open", "finished", "closed", "aborted"}]
    BY <1>1, <1>2 DEF TypeOK
  <2>4. status' \in [Slots -> {0} \union Statuses] /\ settled' \in [Slots -> {"untracked", "no", "yes"}]
    BY <1>1, <1>2 DEF TypeOK, Statuses
  <2>5. fresh' \in [Slots -> {NoCookie} \union Ages] /\ jar' \in {NoCookie} \union Ages
    <3>1. 0 \in Ages /\ jar \in {NoCookie} \union Ages
          /\ \A u \in Slots : fresh[u] \in {NoCookie} \union Ages
      BY <1>1, GatewayAssumption DEF TypeOK, Ages
    <3>2. jar' \in {NoCookie} \union Ages
      BY <1>2, <3>1, OlderIsAge
    <3>3. \A u \in Slots : fresh[u] \in {NoCookie} \union Ages /\ Older(fresh[u]) \in {NoCookie} \union Ages
      BY <3>1, OlderIsAge
    <3> QED
      BY <1>2, <3>1, <3>2, <3>3
  <2>6. counted' \in [Slots -> Seq(Statuses)] /\ audit' \in [Slots -> Seq(Statuses)]
        /\ timed' \in [Slots -> Seq(Statuses)]
    BY <1>1, <1>2 DEF TypeOK
  <2> QED
    BY <1>7, <2>2, <2>3, <2>4, <2>5, <2>6 DEF TypeOK
<1> QED
  BY <1>6, <1>7, <1>8 DEF GatewayInv

LEMMA RefuseStep ==
  ASSUME GatewayInv, NEW s \in Slots, Refuse(s)
  PROVE  GatewayInv'
<1>1. TypeOK /\ GaugeOK /\ (\A u \in Slots : SlotOK(u))
  BY DEF GatewayInv
<1>a. PICK code \in {401, 403, 404, 429} :
        /\ \/ code = 404 /\ req[s].route = "nowhere"
           \/ code = 429 /\ Throttled(req[s].route) /\ req[s].route # "nowhere"
           \/ code = 401 /\ JwtRefuses(req[s]) /\ req[s].route # "nowhere"
           \/ code = 403 /\ ~JwtRefuses(req[s]) /\ RolesRefuse(req[s])
        /\ status' = [status EXCEPT ![s] = code]
  BY Zenon DEF Refuse
<1>2. /\ code = 401 => JwtRefuses(req[s])
      /\ code = 403 => RolesRefuse(req[s])
      /\ status' = [status EXCEPT ![s] = code]
      /\ pc' = [pc EXCEPT ![s] = "ended"] /\ pc[s] = "guards"
      /\ UNCHANGED <<req, conn, settled, jar, fresh, inFlight, counted, audit, timed, probe, report>>
  <2>1. code = 401 => JwtRefuses(req[s])
    BY <1>a
  <2>2. code = 403 => RolesRefuse(req[s])
    BY <1>a
  <2>3. /\ pc' = [pc EXCEPT ![s] = "ended"] /\ pc[s] = "guards"
        /\ UNCHANGED <<req, conn, settled, jar, fresh, inFlight, counted, audit, timed, probe, report>>
    BY DEF Refuse, series
  <2> QED
    BY <1>a, <2>1, <2>2, <2>3
<1>3. status'[s] = code /\ pc'[s] = "ended"
      /\ \A u \in Slots : u # s => status'[u] = status[u] /\ pc'[u] = pc[u]
  BY <1>1, <1>2 DEF TypeOK
<1>4. SlotOK(s)'
  <2>1. SlotOK(s) /\ timed[s] = <<>> /\ ~Ran(s)' /\ (Tracked(s)' <=> Tracked(s))
    BY <1>1, <1>2, <1>3 DEF SlotOK, UnderwayOK, Ran, Tracked
  <2>2. SettledOK(s)'
    BY <1>2, <1>3, <2>1 DEF SlotOK, SettledOK
  <2>3. UnderwayOK(s)'
    BY <1>3 DEF UnderwayOK, Statuses
  <2>4. AuditOK(s)' /\ EntitledOK(s)'
    BY <2>1 DEF AuditOK, EntitledOK
  <2>5. ServiceOK(s)'
    BY <1>2, <1>3 DEF ServiceOK, JwtRefuses, RolesRefuse, Role
  <2> QED
    BY <2>2, <2>3, <2>4, <2>5 DEF SlotOK
<1>5. \A u \in Slots : SlotOK(u)'
  BY <1>1, <1>2, <1>3, <1>4, Untouched
<1>6. TypeOK'
  <2>1. status' \in [Slots -> {0} \union Statuses]
    BY <1>1, <1>2 DEF TypeOK, Statuses
  <2>2. pc' \in [Slots -> {"idle", "guards", "handler", "ended"}]
    BY <1>1, <1>2 DEF TypeOK
  <2> QED
    BY <1>1, <1>2, <2>1, <2>2 DEF TypeOK
<1> QED
  BY <1>1, <1>2, <1>5, <1>6, GaugeKept DEF GatewayInv

LEMMA AdmitStep ==
  ASSUME GatewayInv, NEW s \in Slots, Admit(s)
  PROVE  GatewayInv'
<1>1. TypeOK /\ GaugeOK /\ (\A u \in Slots : SlotOK(u))
  BY DEF GatewayInv
<1>2. /\ pc[s] = "guards" /\ ~JwtRefuses(req[s]) /\ ~RolesRefuse(req[s])
      /\ pc' = [pc EXCEPT ![s] = "handler"]
      /\ UNCHANGED <<req, conn, settled, status, jar, fresh, inFlight, counted, audit, timed, report>>
  BY DEF Admit, series
<1>3. pc'[s] = "handler" /\ \A u \in Slots : u # s => pc'[u] = pc[u]
  BY <1>1, <1>2 DEF TypeOK
<1>4. SlotOK(s)'
  <2>1. SlotOK(s) /\ status[s] = 0 /\ (Tracked(s)' <=> Tracked(s))
    BY <1>1, <1>2 DEF SlotOK, UnderwayOK, Tracked
  <2>2. SettledOK(s)' /\ UnderwayOK(s)'
    BY <1>2, <1>3, <2>1 DEF SlotOK, SettledOK, UnderwayOK
  <2>3. AuditOK(s)' /\ ServiceOK(s)'
    BY <1>2, <1>3, <2>1 DEF AuditOK, ServiceOK
  <2>4. req[s] = NoRequest \/ req[s].bearer \in Roles \union {"none", "bad", "roleless"}
    BY <1>1, GatewayAssumption DEF TypeOK, Requests
  <2>5. req[s].bearer \in Roles \union {"none", "bad", "roleless"}
    BY <2>4 DEF NoRequest
  <2>6. \A route : "none" \notin Required(route)
    BY DEF Required
  <2>7. EntitledOK(s)'
    <3> SUFFICES ASSUME ~Public(req[s].route)
                 PROVE  /\ Known(req[s]) \/ req[s].bearer \in Roles \union {"roleless"}
                        /\ Required(req[s].route) # {} =>
                             (IF Known(req[s]) THEN "service" ELSE req[s].bearer)
                               \in Required(req[s].route)
      BY <1>2 DEF EntitledOK
    <3>1. Known(req[s]) \/ req[s].bearer \in Roles \union {"roleless"}
      BY <1>2, <2>5 DEF JwtRefuses, Unverified
    <3>2. Required(req[s].route) # {} => Role(req[s]) \in Required(req[s].route)
      BY <1>2 DEF RolesRefuse
    <3> QED
      BY <2>6, <3>1, <3>2 DEF Role
  <2> QED
    BY <2>2, <2>3, <2>7 DEF SlotOK
<1>5. \A u \in Slots : SlotOK(u)'
  BY <1>1, <1>2, <1>3, <1>4, Untouched
<1>6. TypeOK'
  <2>1. probe' \in [Slots -> [Dependencies -> {"none", "pending", "up", "down", "late"}]]
    <3> DEFINE p == [d \in Dependencies |-> IF d \in Asked(req[s].route) THEN "pending" ELSE "none"]
    <3>1. p \in [Dependencies -> {"none", "pending", "up", "down", "late"}]
      OBVIOUS
    <3>2. probe' = [probe EXCEPT ![s] = p]
      BY DEF Admit, StartProbes
    <3> QED
      BY <1>1, <3>1, <3>2 DEF TypeOK
  <2>2. pc' \in [Slots -> {"idle", "guards", "handler", "ended"}]
    BY <1>1, <1>2 DEF TypeOK
  <2> QED
    BY <1>1, <1>2, <2>1, <2>2 DEF TypeOK
<1> QED
  BY <1>1, <1>2, <1>5, <1>6, GaugeKept DEF GatewayInv

LEMMA ProbeStep ==
  ASSUME GatewayInv, NEW s \in Slots, Probing(s) \/ Timing(s)
  PROVE  GatewayInv'
<1>1. TypeOK /\ GaugeOK /\ (\A u \in Slots : SlotOK(u))
  BY DEF GatewayInv
<1>2. UNCHANGED <<req, pc, conn, status, settled, jar, fresh, inFlight, counted, audit, timed, report>>
  BY DEF Probing, Timing, requests, series
<1>3. PICK d \in Dependencies, a \in {"up", "down", "late"} : probe' = [probe EXCEPT ![s][d] = a]
  BY DEF Probing, Timing, DependencyAnswers, ProbeTimesOut
<1>4. probe' \in [Slots -> [Dependencies -> {"none", "pending", "up", "down", "late"}]]
  <2> DEFINE p == [probe[s] EXCEPT ![d] = a]
  <2>1. probe[s] \in [Dependencies -> {"none", "pending", "up", "down", "late"}]
    BY <1>1 DEF TypeOK
  <2>2. p \in [Dependencies -> {"none", "pending", "up", "down", "late"}]
    BY <2>1
  <2>3. probe' = [probe EXCEPT ![s] = p]
    BY <1>3
  <2> HIDE DEF p
  <2> QED
    BY <1>1, <2>2, <2>3 DEF TypeOK
<1>5. \A u \in Slots : SlotOK(u)'
  BY <1>1, <1>2, Untouched
<1>6. TypeOK'
  BY <1>1, <1>2, <1>4 DEF TypeOK
<1> QED
  BY <1>1, <1>2, <1>5, <1>6, GaugeKept DEF GatewayInv

\* What the interceptors write of an outcome agrees with what the filters answer.
LEMMA LinesAgree ==
  ASSUME NEW route, NEW outcome \in {"done"} \union HandlerErrors(route)
  PROVE  /\ ResponseStatus(outcome) \in {200, 400, 404, 409, 500}
         /\ route = "metrics" => ResponseStatus(outcome) = 200
         /\ AuditLines(route, outcome) \in Seq(Statuses)
         /\ TimerLines(route, outcome) \in Seq(Statuses)
         /\ Unsafe(route) =>
              /\ Len(AuditLines(route, outcome)) = 1
              /\ AuditLines(route, outcome)[1] < 400 <=> ResponseStatus(outcome) < 400
              /\ \/ AuditLines(route, outcome)[1] = ResponseStatus(outcome)
                 \/ AuditLines(route, outcome)[1] = 500 /\ ResponseStatus(outcome) \in {404, 409}
<1>1. outcome \in {"done", "http", "crash", "notfound", "unique", "unmapped"}
  BY DEF HandlerErrors, DatabaseErrors
<1>2. /\ outcome = "done" => ResponseStatus(outcome) = 200
      /\ outcome = "http" => ResponseStatus(outcome) = 400
      /\ outcome \in {"crash", "unmapped"} => ResponseStatus(outcome) = 500
      /\ outcome = "notfound" => ResponseStatus(outcome) = 404
      /\ outcome = "unique" => ResponseStatus(outcome) = 409
  BY DEF ResponseStatus, DatabaseErrorStatus, DatabaseErrors
<1>3. /\ outcome = "http" => ErrorStatus(outcome) = 400
      /\ outcome # "http" => ErrorStatus(outcome) = 500
  BY <1>2 DEF ErrorStatus
<1>4. route = "metrics" => outcome = "done"
  BY DEF HandlerErrors
<1>5. /\ ResponseStatus(outcome) \in {200, 400, 404, 409, 500}
      /\ route = "metrics" => ResponseStatus(outcome) = 200
  BY <1>1, <1>2, <1>4
<1>6. ResponseStatus(outcome) \in Statuses /\ ErrorStatus(outcome) \in Statuses
  BY <1>3, <1>5 DEF Statuses
<1>7. AuditLines(route, outcome) \in Seq(Statuses) /\ TimerLines(route, outcome) \in Seq(Statuses)
  BY <1>6 DEF AuditLines, TimerLines
<1>8. Unsafe(route) =>
        AuditLines(route, outcome) = <<IF outcome = "done" THEN 200 ELSE ErrorStatus(outcome)>>
  BY <1>2 DEF AuditLines
<1> QED
  BY <1>1, <1>2, <1>3, <1>5, <1>7, <1>8

LEMMA AnswerStep ==
  ASSUME GatewayInv, NEW s \in Slots, Answer(s)
  PROVE  GatewayInv'
<1>1. TypeOK /\ GaugeOK /\ (\A u \in Slots : SlotOK(u))
  BY DEF GatewayInv
<1>2. PICK outcome \in {"done"} \union HandlerErrors(req[s].route) :
        /\ status' = [status EXCEPT ![s] = ResponseStatus(outcome)]
        /\ audit' = [audit EXCEPT ![s] = AuditLines(req[s].route, outcome)]
        /\ timed' = [timed EXCEPT ![s] = TimerLines(req[s].route, outcome)]
  BY DEF Answer
<1>3. /\ pc[s] = "handler" /\ pc' = [pc EXCEPT ![s] = "ended"]
      /\ report' = [report EXCEPT ![s] = Report(s, req[s].route)]
      /\ UNCHANGED <<req, conn, settled, jar, fresh, inFlight, counted, probe>>
  BY DEF Answer
<1> DEFINE code == ResponseStatus(outcome)
           lines == AuditLines(req[s].route, outcome)
           times == TimerLines(req[s].route, outcome)
<1>4. /\ code \in {200, 400, 404, 409, 500}
      /\ req[s].route = "metrics" => code = 200
      /\ lines \in Seq(Statuses) /\ times \in Seq(Statuses)
      /\ Unsafe(req[s].route) =>
           /\ Len(lines) = 1
           /\ lines[1] < 400 <=> code < 400
           /\ lines[1] = code \/ (lines[1] = 500 /\ code \in {404, 409})
  BY <1>2, LinesAgree
<1>5. /\ status' = [status EXCEPT ![s] = code] /\ audit' = [audit EXCEPT ![s] = lines]
      /\ timed' = [timed EXCEPT ![s] = times]
  BY <1>2
<1> HIDE DEF code, lines, times
<1>6. /\ status'[s] = code /\ audit'[s] = lines /\ pc'[s] = "ended"
      /\ \A u \in Slots : u # s => /\ status'[u] = status[u] /\ audit'[u] = audit[u]
                                   /\ timed'[u] = timed[u] /\ pc'[u] = pc[u]
  BY <1>1, <1>3, <1>5 DEF TypeOK
<1>7. SlotOK(s)'
  <2>1. SlotOK(s) /\ Ran(s) /\ (Tracked(s)' <=> Tracked(s))
    BY <1>1, <1>3 DEF Ran, Tracked
  <2>2. SettledOK(s)'
    BY <1>3, <1>6, <2>1 DEF SlotOK, SettledOK
  <2>3. UnderwayOK(s)'
    BY <1>4, <1>6 DEF UnderwayOK, Statuses
  <2>4. AuditOK(s)'
    BY <1>3, <1>4, <1>6 DEF AuditOK
  <2>5. EntitledOK(s)'
    BY <1>3, <2>1 DEF SlotOK, EntitledOK
  <2>6. ServiceOK(s)'
    BY <1>4, <1>6 DEF ServiceOK
  <2> QED
    BY <2>2, <2>3, <2>4, <2>5, <2>6 DEF SlotOK
<1>8. \A u \in Slots : SlotOK(u)'
  BY <1>1, <1>3, <1>6, <1>7, Untouched
<1>9. TypeOK'
  <2>1. status' \in [Slots -> {0} \union Statuses]
    BY <1>1, <1>4, <1>5 DEF TypeOK, Statuses
  <2>2. audit' \in [Slots -> Seq(Statuses)] /\ timed' \in [Slots -> Seq(Statuses)]
    BY <1>1, <1>4, <1>5 DEF TypeOK
  <2>3. pc' \in [Slots -> {"idle", "guards", "handler", "ended"}]
    BY <1>1, <1>3 DEF TypeOK
  <2>4. Report(s, req[s].route) \in {"none", "ok", "degraded", "down", "ready", "unready"}
    BY DEF Report
  <2>5. report' \in [Slots -> {"none", "ok", "degraded", "down", "ready", "unready"}]
    BY <1>1, <1>3, <2>4 DEF TypeOK
  <2> QED
    BY <1>1, <1>3, <2>1, <2>2, <2>3, <2>5 DEF TypeOK
<1> QED
  BY <1>1, <1>3, <1>8, <1>9, GaugeKept DEF GatewayInv

\* 'finish' and 'close': the request is settled with the first of them.
LEMMA SettleStep ==
  ASSUME GatewayInv, NEW s \in Slots, NEW code \in Statuses,
         NEW c \in {"finished", "closed", "aborted"},
         conn[s] \in {"open", "finished"}, conn' = [conn EXCEPT ![s] = c],
         c \in {"finished", "closed"} => pc[s] = "ended" /\ code = status[s],
         c = "aborted" => conn[s] = "open" /\ code = 499,
         fresh' = [fresh EXCEPT ![s] = NoCookie], jar' \in {NoCookie} \union Ages,
         Settle(s, code),
         UNCHANGED <<req, pc, status, audit, timed, probe, report>>
  PROVE  GatewayInv'
<1>1. TypeOK /\ GaugeOK /\ (\A u \in Slots : SlotOK(u))
  BY DEF GatewayInv
<1>2. /\ conn'[s] = c /\ \A u \in Slots : u # s => conn'[u] = conn[u] /\ fresh'[u] = fresh[u]
      /\ fresh'[s] = NoCookie
  BY <1>1 DEF TypeOK
<1>3. /\ Tracked(s) => (conn[s] = "open" <=> settled[s] = "no")
      /\ settled[s] = "no" => Tracked(s) /\ counted[s] = <<>>
  BY <1>1 DEF SlotOK, SettledOK, Tracked, TypeOK
<1>4. \A u \in Slots : u # s => settled'[u] = settled[u] /\ counted'[u] = counted[u]
  BY <1>1 DEF Settle, TypeOK
<1>5. /\ Tracked(s)' <=> Tracked(s)
      /\ Ran(s)' <=> Ran(s)
      /\ settled'[s] = IF settled[s] = "no" THEN "yes" ELSE settled[s]
      /\ counted'[s] = IF settled[s] = "no" THEN <<code>> ELSE counted[s]
  <2>1. CASE settled[s] = "no"
    <3>1. settled'[s] = "yes" /\ counted'[s] = Append(<<>>, code)
      BY <1>1, <1>3, <2>1 DEF Settle, TypeOK
    <3>2. Append(<<>>, code) = <<code>>
      OBVIOUS
    <3> QED
      BY <2>1, <3>1, <3>2 DEF Tracked, Ran
  <2>2. CASE settled[s] # "no"
    BY <2>2 DEF Settle, Tracked, Ran
  <2> QED
    BY <2>1, <2>2
<1>6. SlotOK(s)'
  <2>1. SlotOK(s)
    BY <1>1
  <2>2. SettledOK(s)'
    <3> SUFFICES ASSUME Tracked(s) PROVE SettledOK(s)'
      BY <1>5 DEF SettledOK
    <3>1. CASE settled[s] = "no"
      BY <1>2, <1>5, <3>1 DEF SettledOK
    <3>2. CASE settled[s] # "no"
      BY <1>2, <1>3, <1>5, <2>1, <3>2 DEF SlotOK, SettledOK
    <3> QED
      BY <3>1, <3>2
  <2>3. UnderwayOK(s)'
    BY <1>2, <1>5, <2>1 DEF SlotOK, UnderwayOK
  <2>4. AuditOK(s)' /\ EntitledOK(s)' /\ ServiceOK(s)'
    BY <1>5, <2>1 DEF SlotOK, AuditOK, EntitledOK, ServiceOK
  <2> QED
    BY <2>2, <2>3, <2>4 DEF SlotOK
<1>7. \A u \in Slots : SlotOK(u)'
  BY <1>1, <1>2, <1>4, <1>6, Untouched
<1>8. GaugeOK' /\ inFlight' \in Nat
  <2>1. CASE settled[s] = "no"
    <3>1. s \in Open /\ Open' = Open \ {s}
      BY <1>2, <1>3, <1>4, <2>1 DEF Open, Tracked
    <3>2. Cardinality(Open \ {s}) = Cardinality(Open) - 1 /\ IsFiniteSet(Open \ {s})
      BY <1>1, <3>1, OpenFinite, FS_RemoveElement
    <3>3. Cardinality(Open \ {s}) \in Nat
      BY <3>2, FS_CardinalityType
    <3> QED
      BY <1>1, <2>1, <3>1, <3>2, <3>3 DEF GaugeOK, Settle
  <2>2. CASE settled[s] # "no"
    <3>1. Open' = Open /\ inFlight' = inFlight
      BY <1>2, <1>3, <1>4, <1>5, <2>2 DEF Open, Tracked, Settle
    <3> QED
      BY <1>1, <3>1 DEF GaugeOK, TypeOK
  <2> QED
    BY <2>1, <2>2
<1>9. TypeOK'
  <2>1. settled' \in [Slots -> {"untracked", "no", "yes"}] /\ counted' \in [Slots -> Seq(Statuses)]
    <3>1. CASE settled[s] = "no"
      <4>1. Append(counted[s], code) \in Seq(Statuses)
        BY <1>1 DEF TypeOK
      <4>2. /\ settled' = [settled EXCEPT ![s] = "yes"]
            /\ counted' = [counted EXCEPT ![s] = Append(counted[s], code)]
        BY <3>1 DEF Settle
      <4> QED
        BY <1>1, <4>1, <4>2 DEF TypeOK
    <3>2. CASE settled[s] # "no"
      BY <1>1, <3>2 DEF TypeOK, Settle
    <3> QED
      BY <3>1, <3>2
  <2>2. conn' \in [Slots -> {"open", "finished", "closed", "aborted"}]
        /\ fresh' \in [Slots -> {NoCookie} \union Ages]
    BY <1>1 DEF TypeOK
  <2> QED
    BY <1>1, <1>8, <2>1, <2>2 DEF TypeOK
<1> QED
  BY <1>7, <1>8, <1>9 DEF GatewayInv

LEMMA ConnectionStep ==
  ASSUME GatewayInv, NEW s \in Slots, Finish(s) \/ Close(s)
  PROVE  GatewayInv'
<1>1. /\ TypeOK /\ SlotOK(s) /\ fresh[s] \in {NoCookie} \union Ages
      /\ pc[s] = "ended" => status[s] \in Statuses
  BY DEF GatewayInv, SlotOK, UnderwayOK, TypeOK
<1>2. CASE Finish(s)
  <2>1. /\ pc[s] = "ended" /\ conn[s] = "open" /\ conn' = [conn EXCEPT ![s] = "finished"]
        /\ fresh' = [fresh EXCEPT ![s] = NoCookie] /\ Settle(s, status[s])
        /\ UNCHANGED <<req, pc, status, audit, timed, probe, report>>
        /\ jar' = IF fresh[s] # NoCookie THEN fresh[s] ELSE jar
    BY <1>2 DEF Finish
  <2>2. jar' \in {NoCookie} \union Ages
    BY <1>1, <2>1 DEF TypeOK
  <2> QED
    BY <1>1, <2>1, <2>2, SettleStep
<1>3. CASE Close(s)
  <2> DEFINE c == IF pc[s] = "ended" THEN "closed" ELSE "aborted"
  <2>1. /\ conn[s] \in {"open", "finished"} /\ conn' = [conn EXCEPT ![s] = c]
        /\ fresh' = [fresh EXCEPT ![s] = NoCookie] /\ Settle(s, CloseCode(s))
        /\ UNCHANGED <<req, pc, status, jar, audit, timed, probe, report>>
    BY <1>3 DEF Close
  <2>2. /\ CloseCode(s) \in Statuses
        /\ pc[s] = "ended" => CloseCode(s) = status[s]
        /\ pc[s] # "ended" => CloseCode(s) = 499
    BY <1>1 DEF CloseCode, Statuses
  <2>3. pc[s] # "ended" => conn[s] = "open"
    BY <1>1, <2>1 DEF SlotOK, UnderwayOK
  <2>4. jar' \in {NoCookie} \union Ages
    BY <1>1, <2>1 DEF TypeOK
  <2>5. CASE pc[s] = "ended"
    <3>1. conn' = [conn EXCEPT ![s] = "closed"] /\ Settle(s, status[s])
      BY <2>1, <2>2, <2>5
    <3>2. status[s] \in Statuses
      BY <1>1, <2>5
    <3> QED
      BY <2>1, <2>4, <2>5, <3>1, <3>2, SettleStep
  <2>6. CASE pc[s] # "ended"
    <3>1. conn' = [conn EXCEPT ![s] = "aborted"] /\ Settle(s, 499)
      BY <2>1, <2>2, <2>6
    <3>2. 499 \in Statuses
      BY DEF Statuses
    <3> QED
      BY <2>1, <2>3, <2>4, <2>6, <3>1, <3>2, SettleStep
  <2> QED
    BY <2>5, <2>6
<1> QED
  BY <1>2, <1>3

LEMMA TickStep ==
  ASSUME GatewayInv, Tick
  PROVE  GatewayInv'
<1>1. TypeOK /\ GaugeOK /\ (\A u \in Slots : SlotOK(u))
  BY DEF GatewayInv
<1>2. /\ jar' = Older(jar) /\ fresh' = [s \in Slots |-> Older(fresh[s])]
      /\ UNCHANGED <<req, pc, conn, status, settled, inFlight, counted, audit, timed, probe, report>>
  BY DEF Tick, requests, series
<1>3. \A s \in Slots : fresh[s] \in {NoCookie} \union Ages
  BY <1>1 DEF TypeOK
<1>5. TypeOK'
  <2>1. jar' \in {NoCookie} \union Ages /\ fresh' \in [Slots -> {NoCookie} \union Ages]
    BY <1>1, <1>2, <1>3, OlderIsAge DEF TypeOK
  <2> QED
    BY <1>1, <1>2, <2>1 DEF TypeOK
<1>6. \A s \in Slots : SlotOK(s)'
  BY <1>1, <1>2, Untouched
<1> QED
  BY <1>1, <1>2, <1>5, <1>6, GaugeKept DEF GatewayInv

LEMMA GatewayStep == GatewayInv /\ [Next]_vars => GatewayInv'
<1> SUFFICES ASSUME GatewayInv, [Next]_vars PROVE GatewayInv'
  OBVIOUS
<1>1. CASE UNCHANGED vars
  <2>1. UNCHANGED <<req, pc, conn, status, settled, jar, fresh, inFlight, counted, audit, timed,
                    probe, report>>
    BY <1>1 DEF vars, requests, series
  <2>2. TypeOK'
    BY <2>1 DEF GatewayInv, TypeOK
  <2>3. \A s \in Slots : SlotOK(s)'
    BY <2>1, Untouched DEF GatewayInv
  <2> QED
    BY <2>1, <2>2, <2>3, GaugeKept DEF GatewayInv
<1> QED
  BY <1>1, ArriveStep, RefuseStep, AdmitStep, ProbeStep, AnswerStep, ConnectionStep, TickStep
     DEF Next

\* The inductive invariant: the types, the gauge as the number of open tracked
\* requests, and what is known of each request.
THEOREM GatewayInvariant == Spec => []GatewayInv
BY GatewayInit, GatewayStep, PTL DEF Spec

\* HttpMetricsMiddleware: the in-flight gauge and the request counter are exact,
\* in whichever order 'finish' and 'close' come and however many requests overlap.
THEOREM SeriesAreExact == Spec => []TransportSeriesExact
<1>1. GatewayInv => TransportSeriesExact
  <2> SUFFICES ASSUME GatewayInv PROVE TransportSeriesExact
    OBVIOUS
  <2>1. inFlight = Cardinality({s \in Slots : Tracked(s) /\ conn[s] = "open"})
    BY DEF GatewayInv, GaugeOK, Open
  <2>2. ASSUME NEW s \in Slots, Tracked(s), conn[s] # "open"
        PROVE  counted[s] = IF conn[s] = "aborted" THEN <<499>> ELSE <<status[s]>>
    <3>1. conn[s] \in {"finished", "closed", "aborted"}
      BY <2>2 DEF GatewayInv, TypeOK
    <3>2. SettledOK(s)
      BY DEF GatewayInv, SlotOK
    <3> QED
      BY <2>2, <3>1, <3>2 DEF SettledOK
  <2> QED
    BY <2>1, <2>2 DEF TransportSeriesExact
<1> QED
  BY <1>1, GatewayInvariant, PTL

\* AuditInterceptor: one line for every write whose handler ran, in agreement
\* with what the exception filters answer.
THEOREM WritesAreAudited == Spec => []AuditedOnce
<1>1. GatewayInv => AuditedOnce
  BY DEF GatewayInv, AuditedOnce, SlotOK, AuditOK
<1> QED
  BY <1>1, GatewayInvariant, PTL

\* ApiKeyGuard, JwtAuthGuard and RolesGuard, in this order, let a handler run for
\* nobody but the callers its decorators name, and CsrfMiddleware is no obstacle
\* to a service.
THEOREM GuardsServeTheEntitled == Spec => []ServedAsEntitled
<1>1. GatewayInv => ServedAsEntitled
  BY DEF GatewayInv, ServedAsEntitled, SlotOK, EntitledOK, ServiceOK
<1> QED
  BY <1>1, GatewayInvariant, PTL

\* CsrfMiddleware: a browser that is refused with its cookie gets another, or will
\* with its next request.
THEOREM CsrfRefusalHeals == Spec => RefusalHeals
<1> DEFINE Heals == \A s \in Slots :
             conn[s] # "open" /\ conn'[s] = "open" /\ status'[s] = 403 /\ req'[s].echo = "cookie" =>
               fresh'[s] # NoCookie \/ (Live(jar) /\ ~Live(jar'))
<1>1. GatewayInv /\ [Next]_vars => [Heals]_vars
  <2> SUFFICES ASSUME GatewayInv, Next, NEW s \in Slots,
                      conn[s] # "open", conn'[s] = "open", status'[s] = 403, req'[s].echo = "cookie"
               PROVE  fresh'[s] # NoCookie \/ (Live(jar) /\ ~Live(jar'))
    OBVIOUS
  <2>1. TypeOK
    BY DEF GatewayInv
  <2>2. ASSUME NEW u \in Slots, NEW q, NEW age, Arrive(u, q, age)
        PROVE  fresh'[s] # NoCookie \/ (Live(jar) /\ ~Live(jar'))
    <3>1. s = u
      BY <2>1, <2>2 DEF Arrive, TypeOK
    <3>2. /\ req'[s] = q /\ status'[s] = (IF CsrfRefuses(q, age) THEN 403 ELSE 0) /\ jar' = age
          /\ fresh'[s] = (IF Replaced(jar) THEN 0 ELSE NoCookie)
      BY <2>1, <2>2, <3>1 DEF Arrive, TypeOK
    <3> QED
      BY <3>2 DEF CsrfRefuses, Replaced, NoCookie
  <2>3. ASSUME NEW u \in Slots, NEW c \in {"finished", "closed", "aborted"},
               conn' = [conn EXCEPT ![u] = c]
        PROVE  FALSE
    BY <2>1, <2>3 DEF TypeOK
  <2>4. conn' # conn
    OBVIOUS
  <2>5. \A u \in Slots : ~Finish(u) /\ ~Close(u)
    BY <2>3 DEF Finish, Close
  <2> QED
    BY <2>2, <2>4, <2>5 DEF Next, Refuse, Admit, Probing, Timing, Answer, Tick, requests
<1> QED
  BY <1>1, GatewayInvariant, GatewayStep, PTL DEF Spec, RefusalHeals
=============================================================================
