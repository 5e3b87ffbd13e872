----------------------------- MODULE A2AProtocol -----------------------------
(***************************************************************************)
(* POST /a2a/request of the agent layer: ProtocolService.handleRequest with *)
(* the services it calls (NonceStoreService, PolicyEvaluatorService,       *)
(* MeteringService), and what runs beside it: the administration of        *)
(* policies, the raw metering endpoints, the eviction timer, and the       *)
(* restart of the process.                                                 *)
(*                                                                         *)
(* One process runs many handlers on one event loop; a handler yields at   *)
(* every await.  An action is therefore the code between two awaits, or    *)
(* the database's execution of the statement a handler waits for.          *)
(*                                                                         *)
(* pc[r]: idle        not yet sent                                         *)
(*        finding     waits for the SELECT of the active policies          *)
(*        evaluating  the rows are read, the handler has not resumed       *)
(*        recording   waits for the INSERT of the usage record             *)
(*        signing     waits for the wallet's signature over the receipt    *)
(*        saving      waits for the INSERT of the receipt                  *)
(*        replying    the receipt is stored, the handler has not resumed   *)
(*        completed   answered 201                                         *)
(*        conflict    answered 409 by the nonce store                      *)
(*        denied      answered 403 by a policy                             *)
(*        failed      something threw: a statement (answered as            *)
(*                    DatabaseErrorFilter maps the error), a policy that   *)
(*                    cannot be read, or the wallet; mostly 500            *)
(*        lost        the process died before it answered                  *)
(***************************************************************************)
EXTENDS NonceStore, PolicyEvaluator, FiniteSets

CONSTANTS
  Requests,    \* identities of the requests sent
  Envelopes,   \* [from, to, nonce, len, verified]: what a request may carry
  NoNonce,     \* the nonce field is absent or empty
  Raw,         \* marks a row stored by POST /usage or POST /receipts
  RawBodies,   \* [agentId, len]: what is posted to /usage and /receipts
  PolicyIds,   \* primary keys of the policies table
  PolicyRows,  \* [agentId, isActive, rules]: what an operator may store;
               \* the body is not validated, so rules may be Unreadable
  MaxTime,     \* bound on the clock
  MaxEpoch     \* bound on the number of process restarts

Agents == {e.from : e \in Envelopes} \union {e.to : e \in Envelopes}
Keys == {<<e.from, e.nonce>> : e \in Envelopes}

\* `verified` says whether requestHash and signature are those of the envelope.
ASSUME EnvelopeAssumption ==
  /\ \A e \in Envelopes : e.len \in Nat /\ e.verified \in BOOLEAN
  /\ \A b \in RawBodies : b.agentId \in Agents /\ b.len \in Nat
ASSUME PolicyAssumption ==
  IsFiniteSet(PolicyIds) /\ \A row \in PolicyRows : row.isActive \in BOOLEAN
ASSUME BoundAssumption == MaxTime \in Nat /\ MaxEpoch \in Nat
ASSUME RawAssumption == Raw \notin Requests /\ IsFiniteSet(Requests)

VARIABLES
  now,          \* Date.now()
  epoch,        \* incarnation of the process
  entries,      \* NonceStoreService.entries
  decisions,    \* policy_decisions_total by decision, in this process
  pc, env, at, born,   \* per request: state, envelope, arrival, incarnation
  rows,         \* per request: the policies its SELECT returned, until decided
  policies,     \* table policies: a row or NoRow per primary key
  usage,        \* table usage_records
  receipts,     \* table receipts
  everAllowed   \* history: the policies in force allowed the request at some
                \* time between its arrival and its SELECT

vars == <<now, epoch, entries, decisions, pc, env, at, born, rows, policies,
          usage, receipts, everAllowed>>
memory == <<epoch, entries, decisions>>
tables == <<policies, usage, receipts>>

\* A primary key that is not in the table.
NoRow ==
  [agentId |-> <<>>, isActive |-> FALSE,
   rules |-> [denylist |-> {}, allowlist |-> {}, accessRules |-> <<>>]]

Waiting == {"finding", "evaluating", "recording", "signing", "saving", "replying"}
Answered == {"completed", "conflict", "denied", "failed"}
States == {"idle", "lost"} \union Waiting \union Answered

-----------------------------------------------------------------------------
(* What handleRequest computes. *)

KeyOf(e) == <<e.from, e.nonce>>
ContextOf(e) == [subject |-> e.from, action |-> <<"invoke">>, resource |-> <<"session">>]

\* Math.ceil(payloadStr.length / 4)
TokensUsed(len) == (len + 3) \div 4

\* (tokensUsed * 0.0001).toFixed(8), in units of 10^-8.
PriceComputed(tokens) == tokens * 10000

UsageRow(r) ==
  [req |-> r, agentId |-> env[r].to, tokens |-> TokensUsed(env[r].len)]

ReceiptRow(r) ==
  [req |-> r, tokens |-> TokensUsed(env[r].len),
   price |-> PriceComputed(TokensUsed(env[r].len)), signed |-> TRUE]

\* The rows with { agentId, isActive: true }.
ActivePolicies(table, agent) ==
  {p \in PolicyIds : table[p].isActive /\ table[p].agentId = agent}

\* policyRepo.find of these rows: all of them, in an order that is the database's.
Listings(table, agent) ==
  LET found == ActivePolicies(table, agent)
      orders == {o \in [1 .. Cardinality(found) -> found] : \A p \in found : \E i \in DOMAIN o : o[i] = p}
  IN  {[i \in 1 .. Cardinality(found) |-> table[o[i]].rules] : o \in orders}

\* No policy in force would stop the request.
AllowedBy(table, e) ==
  \A p \in ActivePolicies(table, e.to) :
    /\ table[p].rules # Unreadable
    /\ EvaluatePolicyAccess(table[p].rules, ContextOf(e)).allowed

-----------------------------------------------------------------------------
Init ==
  /\ now = 0
  /\ epoch = 0
  /\ entries = [k \in Keys |-> Absent]
  /\ decisions = [allow |-> 0, deny |-> 0]
  /\ pc = [r \in Requests |-> "idle"]
  /\ env \in [Requests -> Envelopes]
  /\ at = [r \in Requests |-> Absent]
  /\ born = [r \in Requests |-> 0]
  /\ rows = [r \in Requests |-> <<>>]
  /\ policies = [p \in PolicyIds |-> NoRow]
  /\ usage = {}
  /\ receipts = {}
  /\ everAllowed = [r \in Requests |-> FALSE]

\* Date.now() advances.
Tick ==
  /\ now < MaxTime
  /\ now' = now + 1
  /\ UNCHANGED <<memory, pc, env, at, born, rows, tables, everAllowed>>

Goto(r, state) == pc' = [pc EXCEPT ![r] = state]

\* The request arrives: its time and incarnation are noted.
Arrive(r) ==
  /\ pc[r] = "idle"
  /\ at' = [at EXCEPT ![r] = now]
  /\ born' = [born EXCEPT ![r] = epoch]
  /\ UNCHANGED <<now, epoch, decisions, env, rows, tables>>

\* handleRequest up to its first await.  A wrong requestHash is only logged; a
\* nonce is checked and stored before anything is awaited; a request without a
\* nonce skips the store.
Admit(r) ==
  /\ Arrive(r)
  /\ IF env[r].nonce = NoNonce THEN UNCHANGED entries
     ELSE /\ IsFresh(entries, KeyOf(env[r]), now)
          /\ entries' = Register(entries, KeyOf(env[r]), now)
  /\ everAllowed' = [everAllowed EXCEPT ![r] = AllowedBy(policies, env[r])]
  /\ Goto(r, "finding")

\* assertFresh throws ConflictException; the eviction has taken place.
Conflict(r) ==
  /\ Arrive(r)
  /\ env[r].nonce # NoNonce
  /\ ~IsFresh(entries, KeyOf(env[r]), now)
  /\ entries' = EvictExpired(entries, now)
  /\ Goto(r, "conflict")
  /\ UNCHANGED everAllowed

\* Faulty form: the handler goes on with no policies at all.
FindPolicies_Skipped(r) ==
  /\ pc[r] = "finding"
  /\ rows' = [rows EXCEPT ![r] = <<>>]
  /\ Goto(r, "evaluating")
  /\ UNCHANGED <<now, memory, env, at, born, tables, everAllowed>>

\* The database executes the SELECT of assertAllowed.
FindPolicies(r) ==
  /\ pc[r] = "finding"
  /\ \E found \in Listings(policies, env[r].to) : rows' = [rows EXCEPT ![r] = found]
  /\ Goto(r, "evaluating")
  /\ UNCHANGED <<now, memory, env, at, born, tables, everAllowed>>

\* What assertAllowed does with the rows, without an await.
Verdict(r) == AssertAllowed(rows[r], ContextOf(env[r]))

\* recordPolicyDecision, as often as assertAllowed called it.
CountDecisions(r) ==
  decisions' = [allow |-> decisions.allow + Verdict(r).allow,
                deny |-> decisions.deny + Verdict(r).deny]

\* assertAllowed ends by `exit`, and its array of policies is gone.
Decide(r, exit, state) ==
  /\ pc[r] = "evaluating"
  /\ Verdict(r).exit = exit
  /\ CountDecisions(r)
  /\ rows' = [rows EXCEPT ![r] = <<>>]
  /\ Goto(r, state)
  /\ UNCHANGED <<now, epoch, entries, env, at, born, tables, everAllowed>>

\* assertAllowed returns; the result is built, and the INSERT of the usage record
\* is sent.
Allow(r) == Decide(r, "allow", "recording")

\* ForbiddenException of the first policy that denies: 403.
Deny(r) == Decide(r, "deny", "denied")

\* Faulty form: the exception is lost, and the request is never answered.
PolicyThrows_Lost(r) ==
  /\ pc[r] = "evaluating"
  /\ Verdict(r).exit = "throw"
  /\ UNCHANGED vars

\* The evaluator throws on a policy it cannot read: 500.
PolicyThrows(r) == Decide(r, "throw", "failed")

\* Faulty form: the handler does not wait for the usage record.
RecordUsage_Skipped(r) ==
  /\ pc[r] = "recording"
  /\ UNCHANGED usage
  /\ Goto(r, "signing")
  /\ UNCHANGED <<now, memory, env, at, born, rows, policies, receipts, everAllowed>>

\* MeteringService.recordUsage: the INSERT is committed.
RecordUsage(r) ==
  /\ pc[r] = "recording"
  /\ usage' = usage \union {UsageRow(r)}
  /\ Goto(r, "signing")
  /\ UNCHANGED <<now, memory, env, at, born, rows, policies, receipts, everAllowed>>

\* Faulty form: the handler answers before the receipt is stored.
SignReceipt_ReplyFirst(r) ==
  /\ pc[r] = "signing"
  /\ Goto(r, "replying")
  /\ UNCHANGED <<now, memory, env, at, born, rows, tables, everAllowed>>

\* createSignedReceipt: signMessage resolves, the INSERT of the receipt is sent.
SignReceipt(r) ==
  /\ pc[r] = "signing"
  /\ Goto(r, "saving")
  /\ UNCHANGED <<now, memory, env, at, born, rows, tables, everAllowed>>

\* createSignedReceipt: signMessage rejects, and so does handleRequest.
SigningFails(r) ==
  /\ pc[r] = "signing"
  /\ Goto(r, "failed")
  /\ UNCHANGED <<now, memory, env, at, born, rows, tables, everAllowed>>

\* createSignedReceipt: the INSERT is committed.
SaveReceipt(r) ==
  /\ pc[r] = "saving"
  /\ receipts' = receipts \union {ReceiptRow(r)}
  /\ Goto(r, "replying")
  /\ UNCHANGED <<now, memory, env, at, born, rows, policies, usage, everAllowed>>

\* handleRequest returns; 201.
Reply(r) ==
  /\ pc[r] = "replying"
  /\ Goto(r, "completed")
  /\ UNCHANGED <<now, memory, env, at, born, rows, tables, everAllowed>>

\* A statement fails and handleRequest rejects.  Nothing is undone.  The
\* connection may break after the commit, so the row may be there all the same.
DatabaseError(r) ==
  /\ pc[r] \in {"finding", "recording", "saving"}
  /\ \/ UNCHANGED <<usage, receipts>>
     \/ /\ pc[r] = "recording"
        /\ usage' = usage \union {UsageRow(r)}
        /\ UNCHANGED receipts
     \/ /\ pc[r] = "saving"
        /\ receipts' = receipts \union {ReceiptRow(r)}
        /\ UNCHANGED usage
  /\ Goto(r, "failed")
  /\ UNCHANGED <<now, memory, env, at, born, rows, policies, everAllowed>>

-----------------------------------------------------------------------------
(* What runs beside the handlers. *)

\* POST /policies and PATCH /policies/:id: one statement, body stored verbatim.
\* The history variable notes the requests the new table allows.
WritePolicy(p) ==
  /\ \E row \in PolicyRows : policies' = [policies EXCEPT ![p] = row]
  /\ everAllowed' =
       [r \in Requests |-> everAllowed[r] \/ (pc[r] = "finding" /\ AllowedBy(policies', env[r]))]
  /\ UNCHANGED <<now, memory, pc, env, at, born, rows, usage, receipts>>

\* POST /usage: the body is inserted.  Bodies have no id of their own.
PostUsage ==
  /\ \E b \in RawBodies :
       usage' = usage \union {[req |-> Raw, agentId |-> b.agentId, tokens |-> TokensUsed(b.len)]}
  /\ UNCHANGED <<now, memory, pc, env, at, born, rows, policies, receipts, everAllowed>>

\* POST /receipts: the body is inserted; nothing is aggregated or signed.
PostReceipt ==
  /\ \E b \in RawBodies :
       receipts' = receipts \union
         {[req |-> Raw, tokens |-> TokensUsed(b.len),
           price |-> PriceComputed(TokensUsed(b.len)), signed |-> FALSE]}
  /\ UNCHANGED <<now, memory, pc, env, at, born, rows, policies, usage, everAllowed>>

\* Faulty form: the timer runs but its callback is detached.
EvictionTimer_Detached ==
  UNCHANGED vars

\* The interval timer of the NonceStoreService.
EvictionTimer ==
  /\ entries' = EvictExpired(entries, now)
  /\ UNCHANGED <<now, epoch, decisions, pc, env, at, born, rows, tables, everAllowed>>

\* The process dies and starts again: its memory is gone, the tables are not.
Restart ==
  /\ epoch < MaxEpoch
  /\ epoch' = epoch + 1
  /\ entries' = [k \in Keys |-> Absent]
  /\ decisions' = [allow |-> 0, deny |-> 0]
  /\ rows' = [r \in Requests |-> <<>>]
  /\ pc' = [r \in Requests |-> IF pc[r] \in Waiting THEN "lost" ELSE pc[r]]
  /\ UNCHANGED <<now, env, at, born, tables, everAllowed>>

Handle(r) ==
  \/ FindPolicies(r) \/ Allow(r) \/ Deny(r) \/ PolicyThrows(r) \/ RecordUsage(r)
  \/ SignReceipt(r) \/ SigningFails(r) \/ SaveReceipt(r) \/ Reply(r) \/ DatabaseError(r)

Next ==
  \/ Tick
  \/ \E r \in Requests : Admit(r) \/ Conflict(r) \/ Handle(r)
  \/ \E p \in PolicyIds : WritePolicy(p)
  \/ PostUsage \/ PostReceipt \/ EvictionTimer \/ Restart

\* The event loop resumes every handler whose await has settled, the database
\* answers or fails every statement, and the eviction interval keeps firing.
Fairness ==
  /\ \A r \in Requests : WF_vars(Handle(r))
  /\ WF_vars(EvictionTimer)

Spec == Init /\ [][Next]_vars /\ Fairness

-----------------------------------------------------------------------------
(* Properties. *)

UsageRows == [req : Requests \union {Raw}, agentId : Agents, tokens : Nat]
ReceiptRows == [req : Requests \union {Raw}, tokens : Nat, price : Nat, signed : BOOLEAN]

\* The policies a handler holds are rules of stored rows.
RowsOK == rows \in [Requests -> Seq({row.rules : row \in PolicyRows})]

\* Every variable keeps its type: counters never go below zero, and the tables
\* only hold rows of their shape.
TypeOK ==
  /\ now \in Nat
  /\ epoch \in Nat
  /\ entries \in [Keys -> Nat \union {Absent}]
  /\ decisions \in [allow : Nat, deny : Nat]
  /\ pc \in [Requests -> States]
  /\ env \in [Requests -> Envelopes]
  /\ at \in [Requests -> Nat \union {Absent}]
  /\ born \in [Requests -> Nat]
  /\ RowsOK
  /\ policies \in [PolicyIds -> PolicyRows \union {NoRow}]
  /\ usage \subseteq UsageRows
  /\ receipts \subseteq ReceiptRows
  /\ everAllowed \in [Requests -> BOOLEAN]

Admitted(r) == pc[r] \notin {"idle", "conflict"}
Guarded(r) == env[r].nonce # NoNonce
SameKey(q, r) == KeyOf(env[q]) = KeyOf(env[r])

\* NonceStoreService: two requests with the same agent and nonce are both let
\* in by one incarnation of the process only if more than the window lies
\* between them, whatever the eviction timer and the other handlers do.
NoReplayInWindow ==
  \A q, r \in Requests :
    /\ q # r
    /\ Admitted(q) /\ Admitted(r)
    /\ Guarded(q) /\ SameKey(q, r)
    /\ born[q] = born[r]
    /\ at[q] <= at[r]
    => at[r] - at[q] > Window

\* A 409 is never spurious: the same agent's same nonce was let in by the same
\* incarnation within the window, so an expired entry never refuses a request.
ConflictIsJustified ==
  \A r \in Requests : pc[r] = "conflict" =>
    \E q \in Requests \ {r} :
      /\ Admitted(q)
      /\ SameKey(q, r)
      /\ born[q] = born[r]
      /\ at[q] <= at[r] /\ at[r] - at[q] <= Window

\* Every receipt the handler stored is backed by a usage record of the same
\* request, for the agent that was invoked, and its price is that of the
\* tokens metered - also after failures and restarts.
ReceiptIsMetered ==
  \A c \in receipts : c.req # Raw =>
    \E u \in usage :
      /\ u.req = c.req
      /\ u.agentId = env[c.req].to
      /\ u.tokens = c.tokens
      /\ c.price = PriceComputed(u.tokens)

\* A request refused by a policy (403) or by the nonce store (409) is neither
\* metered nor billed.
RefusalLeavesNoTrace ==
  \A r \in Requests : pc[r] \in {"conflict", "denied"} =>
    (\A u \in usage : u.req # r) /\ (\A c \in receipts : c.req # r)

\* A request answered 201 has its usage record and its signed receipt in the
\* tables: an answer never runs ahead of the metering.
CompletedIsMetered ==
  \A r \in Requests : pc[r] = "completed" =>
    UsageRow(r) \in usage /\ ReceiptRow(r) \in receipts

\* The answer a client gets tells what the tables hold of its request, through
\* every failure and restart in between.
AnswerMatchesTables == RefusalLeavesNoTrace /\ CompletedIsMetered

\* A request is metered only if the active policies of the invoked agent
\* allowed it at some time between its arrival and its SELECT: concurrent
\* edits of policies never let a request through that every one of the
\* successive tables denies.
ExecutedOnlyIfAllowed ==
  \A u \in usage : u.req # Raw => everAllowed[u.req]

\* "One decision per request, not one per policy": the counters of this process
\* agree with the requests it has decided, however many policies each was held
\* against, in whatever order they came, and whichever exit the loop took.  A
\* request that failed may have been counted or not.
OneDecisionPerRequest ==
  LET decided(states) == {r \in Requests : born[r] = epoch /\ pc[r] \in states}
  IN  /\ decisions.deny = Cardinality(decided({"denied"}))
      /\ decisions.allow >= Cardinality(decided({"recording", "signing", "saving", "replying", "completed"}))
      /\ decisions.allow <= Cardinality(decided((Waiting \ {"finding", "evaluating"}) \union {"completed", "failed"}))

\* Every request that was let in is answered, or its process died.
EveryRequestSettles ==
  \A r \in Requests : pc[r] \in Waiting ~> pc[r] \in Answered \union {"lost"}

\* The store does not grow without bound: an expired entry is eventually
\* dropped although no request ever asks for it again.
ExpiredNoncesForgotten ==
  \A k \in Keys : (entries[k] < now - Window) ~> (entries[k] = Absent \/ entries[k] >= now - Window)

\* PROTOCOL.md, section 4: "The callee MUST verify the signature against the
\* caller's on-chain `publicKey` before executing."
ExecutedOnlyIfVerified ==
  \A u \in usage : u.req # Raw => env[u.req].verified
=============================================================================
