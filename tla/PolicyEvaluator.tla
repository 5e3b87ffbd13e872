--------------------------- MODULE PolicyEvaluator ---------------------------
(***************************************************************************)
(* The access evaluator of src/src/modules/policy/policy-evaluator.ts.     *)
(*                                                                         *)
(* Subjects, actions and resources are sequences of tokens, a pattern is   *)
(* such a sequence in which the token "*" is the wildcard.  The token "."  *)
(* stands for the characters that a regular expression would read as       *)
(* operators if they were not escaped; the identifiers matched are DIDs    *)
(* and constants, which hold no line break.  A ruleset is a record         *)
(* [denylist, allowlist, accessRules]: the two lists are sets of patterns  *)
(* (only `some` is asked of them), accessRules keeps its order.  A missing *)
(* list is an empty one, which is how every `?.` in the source treats it.  *)
(***************************************************************************)
EXTENDS Naturals, Sequences

\* Faulty form: the operators of the expression are not escaped.
Literal_Unescaped(char, token) == char = "." \/ char = token

\* A character of the pattern other than "*" is escaped if need be, and so stands
\* for itself.
Literal(char, token) == char = token

\* `^escaped$` with every "*" replaced by ".*": reach[i] is the set of the j such
\* that the first i tokens of the pattern match the first j tokens of the value.
MatchWildcard(pattern, value) ==
  LET reach[i \in 0 .. Len(pattern)] ==
        IF i = 0 THEN {0}
        ELSE IF pattern[i] = "*" THEN UNION {j .. Len(value) : j \in reach[i - 1]}
        ELSE {j + 1 : j \in {k \in reach[i - 1] : k < Len(value) /\ Literal(pattern[i], value[k + 1])}}
  IN  Len(value) \in reach[Len(pattern)]

\* No patterns at all match everything.
MatchesAny(patterns, value) ==
  patterns # {} => \E p \in patterns : MatchWildcard(p, value)

RuleApplies(rule, ctx) ==
  /\ MatchesAny(rule.subjects, ctx.subject)
  /\ MatchesAny(rule.actions, ctx.action)
  /\ MatchesAny(rule.resources, ctx.resource)

Decision(allowed, reason) == [allowed |-> allowed, reason |-> reason]

HasAccessConstraints(rules) ==
  rules.accessRules # <<>> \/ rules.allowlist # {} \/ rules.denylist # {}

OnList(patterns, ctx) == \E p \in patterns : MatchWildcard(p, ctx.subject)

Matching(rules, ctx) ==
  {i \in DOMAIN rules.accessRules : RuleApplies(rules.accessRules[i], ctx)}

EffectMatches(rules, ctx, effect) ==
  \E i \in Matching(rules, ctx) : rules.accessRules[i].effect = effect

\* Faulty form: the allowlist is consulted before everything else.
EvaluatePolicyAccess_AllowlistFirst(rules, ctx) ==
  IF OnList(rules.allowlist, ctx) THEN Decision(TRUE, "subject on allowlist")
  ELSE Decision(/\ ~OnList(rules.denylist, ctx)
                /\ ~EffectMatches(rules, ctx, "deny")
                /\ EffectMatches(rules, ctx, "allow") \/ ~HasAccessConstraints(rules), "")

\* Faulty form: the denylist counts only when there is nothing else.
EvaluatePolicyAccess_DenylistOptional(rules, ctx) ==
  CASE rules.accessRules = <<>> /\ rules.allowlist = {} ->
         Decision(~OnList(rules.denylist, ctx), "denylist only")
    [] EffectMatches(rules, ctx, "deny") -> Decision(FALSE, "matched deny access rule")
    [] OTHER -> Decision(TRUE, "nothing denied it")

\* Faulty form: an allowlist excludes everyone who is not on it.
EvaluatePolicyAccess_Exclusive(rules, ctx) ==
  Decision(IF rules.allowlist # {} THEN OnList(rules.allowlist, ctx)
           ELSE ~HasAccessConstraints(rules) \/ EffectMatches(rules, ctx, "allow"), "")

\* One arm per return of the source, in its order.
EvaluatePolicyAccess(rules, ctx) ==
  IF ~HasAccessConstraints(rules) THEN Decision(TRUE, "no access constraints")
  ELSE IF OnList(rules.denylist, ctx) THEN Decision(FALSE, "subject on denylist")
  ELSE IF EffectMatches(rules, ctx, "deny") THEN Decision(FALSE, "matched deny access rule")
  ELSE IF EffectMatches(rules, ctx, "allow") THEN Decision(TRUE, "matched allow access rule")
  ELSE IF OnList(rules.allowlist, ctx) THEN Decision(TRUE, "subject on allowlist")
  ELSE Decision(FALSE, "no matching allow rule")

-----------------------------------------------------------------------------
(* PolicyEvaluatorService.assertAllowed, from the rows its SELECT returned. *)

\* A stored `rules` document that the evaluator cannot work on, say a denylist
\* that is no array: nothing validates what an operator posts.
Unreadable == [malformed |-> TRUE]

\* How far assertAllowed came: `exit` is "none" while it loops, and the other two
\* are the decisions it has counted (recordPolicyDecision).
Progress == [exit : {"none", "allow", "deny", "throw"}, allow : Nat, deny : Nat]

Leave(s, exit) == [s EXCEPT !.exit = exit]
CountAllow(s) == [s EXCEPT !.allow = @ + 1]
CountDeny(s) == [s EXCEPT !.deny = @ + 1]

\* One turn of the loop.
Turn(s, rules, ctx) ==
  IF s.exit # "none" THEN s
  ELSE IF rules = Unreadable THEN Leave(s, "throw")
  ELSE IF EvaluatePolicyAccess(rules, ctx).allowed THEN s
  ELSE Leave(CountDeny(s), "deny")

\* Faulty form: an admission is counted for each policy.
AssertAllowed_PerPolicy(active, ctx) ==
  LET start == [exit |-> "none", allow |-> 0, deny |-> 0]
      turn(s, rules) ==
        LET t == Turn(s, rules, ctx) IN IF t.exit = "none" THEN CountAllow(t) ELSE t
      loop[i \in 0 .. Len(active)] == IF i = 0 THEN start ELSE turn(loop[i - 1], active[i])
      end == loop[Len(active)]
  IN  IF active = <<>> THEN Leave(CountAllow(start), "allow")
      ELSE IF end.exit = "none" THEN Leave(end, "allow") ELSE end

\* The whole of it: the early return for an agent without active policies, the
\* loop, which the first denial leaves by an exception, and the one count of an
\* admission after the loop.
AssertAllowed(active, ctx) ==
  LET start == [exit |-> "none", allow |-> 0, deny |-> 0]
      loop[i \in 0 .. Len(active)] ==
        IF i = 0 THEN start ELSE Turn(loop[i - 1], active[i], ctx)
      end == loop[Len(active)]
  IN  IF active = <<>> THEN Leave(CountAllow(start), "allow")
      ELSE IF end.exit = "none" THEN Leave(CountAllow(end), "allow") ELSE end
=============================================================================
