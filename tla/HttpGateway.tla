----------------------------- MODULE HttpGateway -----------------------------
(***************************************************************************)
(* The way of a request through the process: the middlewares of            *)
(* app.middleware.module and metrics.module, the guards of app.module, the *)
(* interceptors of main and metrics.module around the handler, and the     *)
(* exception filters.  A slot holds one request after the other.           *)
(*                                                                         *)
(* pc[s]:    idle, guards (the throttler and passport are awaited),        *)
(*           handler, ended (the response was written)                     *)
(* conn[s]:  open, finished (the response reached the client), closed,     *)
(*           aborted (closed before there was a response)                  *)
(*                                                                         *)
(* Tokens are known by their age, in ticks: what the cookie jar of the     *)
(* browser holds, and what a response is about to put there.               *)
(***************************************************************************)
EXTENDS HealthProbes, Integers, Sequences, FiniteSets

CONSTANTS
  Shapes,      \* Shapes[s]: the requests that arrive in slot s
  KnownKeys,   \* ApiKeyService.keys
  Ttl          \* security.csrf.ttlMs, in ticks

Roles == {"agent", "operator", "admin", "service"}

\* bearer: none, bad (does not verify), roleless (verifies, without a role), or
\* the role of a token that verifies.  A request without a key has key "none".
ASSUME GatewayAssumption ==
  /\ Ttl \in Nat
  /\ IsFiniteSet(Slots)
  /\ "none" \notin KnownKeys
  /\ \A s \in Slots : \A q \in Shapes[s] : q.bearer \in Roles \union {"none", "bad", "roleless"}

VARIABLES
  req, pc, conn,
  status,     \* res.statusCode once the response is written
  settled,    \* HttpMetricsMiddleware's flag, if it saw the request
  jar,        \* the CSRF cookie of the browser
  fresh,      \* fresh[s]: the cookie set by the response
  inFlight,   \* http_requests_in_flight
  counted,    \* counted[s]: http_requests_total, the statuses observed for the request
  audit,      \* audit[s]: AuditLog lines of the request
  timed,      \* timed[s]: statuses observed by ControllerMetricsInterceptor
  report      \* report[s]: what a health route answered

requests == <<req, pc, conn, status, settled>>
series == <<inFlight, counted, audit, timed>>
vars == <<requests, jar, fresh, series, probe, report>>

NoCookie == -1
Ages == 0 .. Ttl + 1
Requests == UNION {Shapes[s] : s \in Slots}
NoRequest == [route |-> "none", bearer |-> "none", key |-> "none", echo |-> "none"]

-----------------------------------------------------------------------------
(* The routes, by what their decorators say. *)

Public(route) == route \in {"metrics", "health", "ready"}
Unsafe(route) == route \in {"offer", "register", "deactivate", "nowhere"}
Throttled(route) == route \notin {"metrics", "health", "ready", "detail"}
Required(route) ==
  CASE route = "detail"     -> {"operator", "admin", "service"}
    [] route = "register"   -> {"operator", "admin"}
    [] route = "deactivate" -> {"admin"}
    [] OTHER -> {}

-----------------------------------------------------------------------------
(* CsrfMiddleware *)

Live(age) == age \in 0 .. Ttl

Older(age) == IF age \in {NoCookie, Ttl + 1} THEN age ELSE age + 1

\* Faulty form: only a missing cookie is replaced.
Replaced_OnlyMissing(age) == age = NoCookie

\* The response carries a new cookie.
Replaced(age) == ~Live(age)

\* Safe methods, and callers with other credentials whatever they are worth, are
\* exempt; the others echo their cookie in a header.  age: of the cookie when the
\* token presented is validated.
CsrfRefuses(q, age) ==
  /\ Unsafe(q.route)
  /\ q.bearer = "none" /\ q.key = "none"
  /\ ~(Live(age) /\ q.echo = "cookie")

-----------------------------------------------------------------------------
(* ApiKeyGuard, JwtAuthGuard and RolesGuard, in this order. *)

\* ApiKeyService.verify
Known(q) == q.key \in KnownKeys

\* request.user.role: passport is not asked on a public route or after a key.
Role(q) ==
  IF Known(q) THEN "service"
  ELSE IF ~Public(q.route) /\ q.bearer \in Roles THEN q.bearer ELSE "none"

\* JwtStrategy: no token, one that does not verify or has expired.
Unverified(q) == q.bearer \in {"none", "bad"}

JwtRefuses(q) ==
  ~Public(q.route) /\ ~Known(q) /\ Unverified(q)

\* Faulty form: a user without a role passes.
RolesRefuse_NoRole(q) == Required(q.route) # {} /\ Role(q) \notin Required(q.route) \union {"none"}

RolesRefuse(q) == Required(q.route) # {} /\ Role(q) \notin Required(q.route)

-----------------------------------------------------------------------------
(* The outcomes of a handler, and what becomes of them. *)

\* DatabaseErrorFilter: EntityNotFoundError, a code of PG_ERROR_MAP, another one.
DatabaseErrors == {"notfound", "unique", "unmapped"}
DatabaseErrorStatus(outcome) ==
  CASE outcome = "notfound" -> 404 [] outcome = "unique" -> 409 [] outcome = "unmapped" -> 500

\* The health routes and the scrape catch their errors.
HandlerErrors(route) ==
  IF route \in {"metrics", "health", "ready", "detail"} THEN {}
  ELSE {"http", "crash"} \union DatabaseErrors

\* DatabaseErrorFilter is asked before AllExceptionsFilter, which gives an
\* HttpException its own status and any other error 500.
ResponseStatus(outcome) ==
  CASE outcome = "done" -> 200
    [] outcome \in DatabaseErrors -> DatabaseErrorStatus(outcome)
    [] outcome = "http" -> 400
    [] outcome = "crash" -> 500

\* The interceptors see the error before the filters: only an HttpException has
\* a status.
ErrorStatus(outcome) == IF outcome = "http" THEN ResponseStatus(outcome) ELSE 500

\* Faulty form: a failed write leaves no line.
AuditLines_SuccessOnly(route, outcome) ==
  IF Unsafe(route) /\ outcome = "done" THEN <<ResponseStatus(outcome)>> ELSE <<>>

AuditLines(route, outcome) ==
  IF ~Unsafe(route) THEN <<>>
  ELSE IF outcome = "done" THEN <<ResponseStatus(outcome)>> ELSE <<ErrorStatus(outcome)>>

TimerLines(route, outcome) ==
  IF route = "metrics" THEN <<>>
  ELSE IF outcome = "done" THEN <<ResponseStatus(outcome)>> ELSE <<ErrorStatus(outcome)>>

-----------------------------------------------------------------------------
Init ==
  /\ req = [s \in Slots |-> NoRequest]
  /\ pc = [s \in Slots |-> "idle"]
  /\ conn = [s \in Slots |-> "closed"]
  /\ status = [s \in Slots |-> 0]
  /\ settled = [s \in Slots |-> "untracked"]
  /\ jar = NoCookie
  /\ fresh = [s \in Slots |-> NoCookie]
  /\ inFlight = 0
  /\ counted = [s \in Slots |-> <<>>]
  /\ audit = [s \in Slots |-> <<>>]
  /\ timed = [s \in Slots |-> <<>>]
  /\ InitProbes
  /\ report = [s \in Slots |-> "none"]

\* The middlewares run in one go: CsrfMiddleware, whose refusal the filter
\* answers, then HttpMetricsMiddleware, which leaves the scrape out.  CsrfMiddleware
\* reads the clock twice, for the cookie and for the token presented, and a tick
\* may pass in between: the cookie has the given age then.
Arrive(s, q, age) ==
  /\ age \in {jar, Older(jar)}
  /\ pc[s] \in {"idle", "ended"} /\ conn[s] \in {"closed", "aborted"}
  /\ req' = [req EXCEPT ![s] = q]
  /\ conn' = [conn EXCEPT ![s] = "open"]
  /\ jar' = age
  /\ fresh' = [u \in Slots |-> IF u = s THEN (IF Replaced(jar) THEN 0 ELSE NoCookie)
                               ELSE IF age = jar THEN fresh[u] ELSE Older(fresh[u])]
  /\ counted' = [counted EXCEPT ![s] = <<>>]
  /\ audit' = [audit EXCEPT ![s] = <<>>]
  /\ timed' = [timed EXCEPT ![s] = <<>>]
  /\ probe' = [probe EXCEPT ![s] = NotProbed]
  /\ report' = [report EXCEPT ![s] = "none"]
  /\ LET tracked == ~CsrfRefuses(q, age) /\ q.route # "metrics" IN
     /\ pc' = [pc EXCEPT ![s] = IF CsrfRefuses(q, age) THEN "ended" ELSE "guards"]
     /\ status' = [status EXCEPT ![s] = IF CsrfRefuses(q, age) THEN 403 ELSE 0]
     /\ settled' = [settled EXCEPT ![s] = IF tracked THEN "no" ELSE "untracked"]
     /\ inFlight' = IF tracked THEN inFlight + 1 ELSE inFlight

\* A refusal skips the interceptors and goes to AllExceptionsFilter.
Refuse(s) ==
  /\ pc[s] = "guards"
  /\ \E code \in {401, 403, 404, 429} :
       /\ LET route == req[s].route IN
          \/ code = 404 /\ route = "nowhere"
          \/ code = 429 /\ Throttled(route) /\ route # "nowhere"
          \/ code = 401 /\ JwtRefuses(req[s]) /\ route # "nowhere"
          \/ code = 403 /\ ~JwtRefuses(req[s]) /\ RolesRefuse(req[s])
       /\ status' = [status EXCEPT ![s] = code]
  /\ pc' = [pc EXCEPT ![s] = "ended"]
  /\ UNCHANGED <<req, conn, settled, jar, fresh, series, probe, report>>

Admit(s) ==
  /\ pc[s] = "guards" /\ req[s].route # "nowhere"
  /\ ~JwtRefuses(req[s]) /\ ~RolesRefuse(req[s])
  /\ pc' = [pc EXCEPT ![s] = "handler"]
  /\ StartProbes(s, req[s].route)
  /\ UNCHANGED <<req, conn, settled, status, jar, fresh, series, report>>

Probing(s) ==
  /\ pc[s] = "handler"
  /\ \E d \in Dependencies : DependencyAnswers(s, d)
  /\ UNCHANGED <<requests, jar, fresh, series, report>>

\* Only detail has timers.
Timing(s) ==
  /\ pc[s] = "handler" /\ req[s].route = "detail"
  /\ \E d \in Dependencies : ProbeTimesOut(s, d)
  /\ UNCHANGED <<requests, jar, fresh, series, report>>

\* The handler settles: the interceptors write their lines, then the response or
\* the filters set the status.
Answer(s) ==
  /\ pc[s] = "handler" /\ ProbesSettled(s)
  /\ \E outcome \in {"done"} \union HandlerErrors(req[s].route) :
       /\ status' = [status EXCEPT ![s] = ResponseStatus(outcome)]
       /\ audit' = [audit EXCEPT ![s] = AuditLines(req[s].route, outcome)]
       /\ timed' = [timed EXCEPT ![s] = TimerLines(req[s].route, outcome)]
  /\ pc' = [pc EXCEPT ![s] = "ended"]
  /\ report' = [report EXCEPT ![s] = Report(s, req[s].route)]
  /\ UNCHANGED <<req, conn, settled, jar, fresh, inFlight, counted, probe>>

\* Faulty form: both events are taken.
Settle_EachEvent(s, code) ==
  /\ settled' = [settled EXCEPT ![s] = IF @ = "no" THEN "yes" ELSE @]
  /\ inFlight' = IF settled[s] # "untracked" THEN inFlight - 1 ELSE inFlight
  /\ counted' = IF settled[s] = "no" THEN [counted EXCEPT ![s] = Append(@, code)] ELSE counted

\* settle(statusCode)
Settle(s, code) ==
  IF settled[s] = "no"
  THEN /\ settled' = [settled EXCEPT ![s] = "yes"]
       /\ inFlight' = inFlight - 1
       /\ counted' = [counted EXCEPT ![s] = Append(@, code)]
  ELSE UNCHANGED <<settled, inFlight, counted>>

\* 'finish': the response has been handed over, with its cookie.
Finish(s) ==
  /\ pc[s] = "ended" /\ conn[s] = "open"
  /\ conn' = [conn EXCEPT ![s] = "finished"]
  /\ jar' = IF fresh[s] # NoCookie THEN fresh[s] ELSE jar
  /\ fresh' = [fresh EXCEPT ![s] = NoCookie]
  /\ Settle(s, status[s])
  /\ UNCHANGED <<req, pc, status, audit, timed, probe, report>>

CloseCode(s) == IF pc[s] = "ended" THEN status[s] ELSE 499

\* 'close': the connection is over, after the response or before.
Close(s) ==
  /\ conn[s] \in {"open", "finished"}
  /\ conn' = [conn EXCEPT ![s] = IF pc[s] = "ended" THEN "closed" ELSE "aborted"]
  /\ fresh' = [fresh EXCEPT ![s] = NoCookie]
  /\ Settle(s, CloseCode(s))
  /\ UNCHANGED <<req, pc, status, jar, audit, timed, probe, report>>

\* A tick passes for the tokens.
Tick ==
  /\ jar' = Older(jar)
  /\ fresh' = [s \in Slots |-> Older(fresh[s])]
  /\ UNCHANGED <<requests, series, probe, report>>

Next ==
  \/ \E s \in Slots : \E q \in Shapes[s], age \in {jar, Older(jar)} : Arrive(s, q, age)
  \/ \E s \in Slots : \/ Refuse(s) \/ Admit(s)
                      \/ Probing(s) \/ Timing(s) \/ Answer(s)
                      \/ Finish(s) \/ Close(s)
  \/ Tick

\* Guards and timers end; a health route that has its answers sends them, and a
\* written response is handed over or its connection closes.  Queries and the
\* other handlers owe nothing.
Fairness ==
  \A s \in Slots :
    /\ WF_vars(Refuse(s) \/ Admit(s))
    /\ WF_vars(Timing(s))
    /\ WF_vars(req[s].route = "detail" /\ Answer(s))
    /\ WF_vars(pc[s] = "ended" /\ (Finish(s) \/ Close(s)))

Spec == Init /\ [][Next]_vars /\ Fairness
-----------------------------------------------------------------------------
Statuses == {200, 400, 401, 403, 404, 409, 429, 499, 500}

TypeOK ==
  /\ req \in [Slots -> Requests \union {NoRequest}]
  /\ pc \in [Slots -> {"idle", "guards", "handler", "ended"}]
  /\ conn \in [Slots -> {"open", "finished", "closed", "aborted"}]
  /\ status \in [Slots -> {0} \union Statuses]
  /\ settled \in [Slots -> {"untracked", "no", "yes"}]
  /\ jar \in {NoCookie} \union Ages
  /\ fresh \in [Slots -> {NoCookie} \union Ages]
  /\ inFlight \in Nat
  /\ counted \in [Slots -> Seq(Statuses)]
  /\ audit \in [Slots -> Seq(Statuses)] /\ timed \in [Slots -> Seq(Statuses)]
  /\ probe \in [Slots -> [Dependencies -> {"none", "pending", "up", "down", "late"}]]
  /\ report \in [Slots -> {"none", "ok", "degraded", "down", "ready", "unready"}]

Tracked(s) == settled[s] # "untracked"
Ran(s) == pc[s] = "handler" \/ timed[s] # <<>>

\* The transport's series are exact, whichever of 'finish' and 'close' come, in
\* which order, and while other requests come and go ("'finish' and 'close' can
\* both fire for one response", http-metrics.middleware.ts:33).  The gauge is the
\* number of tracked requests whose client still waits; the others are counted
\* once, with the status their client was sent, or with 499 when it left before
\* the response was written, also when the handler goes on and succeeds.
TransportSeriesExact ==
  /\ inFlight = Cardinality({s \in Slots : Tracked(s) /\ conn[s] = "open"})
  /\ \A s \in Slots : Tracked(s) /\ conn[s] # "open" =>
       counted[s] = IF conn[s] = "aborted" THEN <<499>> ELSE <<status[s]>>

\* A write whose handler ran has one audit line once it has settled, whether its
\* client waited or not.  The line agrees with the answer on success and failure;
\* the status differs only for an error that DatabaseErrorFilter maps, which the
\* line shows as 500.
AuditedOnce ==
  \A s \in Slots : pc[s] = "ended" /\ Ran(s) /\ Unsafe(req[s].route) =>
    /\ Len(audit[s]) = 1
    /\ audit[s][1] < 400 <=> status[s] < 400
    /\ audit[s][1] = status[s] \/ (audit[s][1] = 500 /\ status[s] \in {404, 409})

\* The guards and the CSRF check, each of which expects something that some
\* callers do not carry, together serve the entitled callers.  A handler that is
\* not public runs only for a known key or a verified token with a role the route
\* asks for, the key's role when there are both, and no CSRF token stands in for
\* them; a service caller is refused only where its role is not enough.  A route
\* without @Roles asks for no role, writes included (POST /services, /tariffs,
\* /policies, /usage, /receipts and /a2a/request, PATCH /policies/:id), although
\* SECURITY.md:10 has it that RBAC guards every mutating route: what is claimed
\* here is what the decorators say, not that line.
ServedAsEntitled ==
  \A s \in Slots :
    LET q == req[s] required == Required(q.route) IN
    /\ Ran(s) /\ ~Public(q.route) =>
         /\ Known(q) \/ q.bearer \in Roles \union {"roleless"}
         /\ required # {} => (IF Known(q) THEN "service" ELSE q.bearer) \in required
    /\ Known(q) /\ status[s] \in {401, 403} => required # {} /\ "service" \notin required

\* A browser that echoes its cookie and is refused can try again: it gets a new
\* cookie with the refusal, or its token was good when the request arrived and has
\* expired since, and then the next request brings one.  An expired token never
\* locks it out.
RefusalHeals ==
  [][\A s \in Slots :
       conn[s] # "open" /\ conn'[s] = "open" /\ status'[s] = 403 /\ req'[s].echo = "cookie" =>
         fresh'[s] # NoCookie \/ (Live(jar) /\ ~Live(jar'))]_vars

\* "A hung dependency must not hang the health endpoint with it"
\* (health.service.ts:120): detail answers although no query has to end, and the
\* answer is right - "down only when a critical dependency (the database) fails"
\* (:67), ok only when every dependency answered in time.
DetailAnswers ==
  \A s \in Slots : (pc[s] = "handler" /\ req[s].route = "detail") ~>
    /\ pc[s] = "ended"
    /\ report[s] = "down" <=> probe[s]["database"] # "up"
    /\ report[s] = "ok" <=> \A d \in Dependencies : probe[s][d] = "up"
=============================================================================
