---------------------------- MODULE PolicyRuleset ----------------------------
(***************************************************************************)
(* One policy under administration: a ruleset edited step by step through  *)
(* PATCH /policies/:id, which stores the new rules verbatim                *)
(* (PolicyService.update), and the decision the evaluator takes on it for  *)
(* one subject, action and resource.                                       *)
(***************************************************************************)
EXTENDS PolicyEvaluator, FiniteSets, SequencesExt

CONSTANTS
  Contexts,      \* the subject/action/resource tuples asked about
  Patterns,      \* the subject patterns an operator may list
  AccessRules,   \* the access rules an operator may add
  MaxRules       \* bound on the number of access rules of the policy

\* Subjects, actions, resources and patterns are sequences of tokens.
ASSUME VocabularyAssumption ==
  /\ Patterns \subseteq Seq(STRING)
  /\ \A c \in Contexts : {c.subject, c.action, c.resource} \subseteq Seq(STRING)
  /\ \A r \in AccessRules : r.subjects \union r.actions \union r.resources \subseteq Seq(STRING)

VARIABLES
  rules,   \* the stored ruleset
  ctx      \* the request context the decisions below are about

vars == <<rules, ctx>>

Rulesets ==
  [denylist : SUBSET Patterns, allowlist : SUBSET Patterns, accessRules : Seq(AccessRules)]

Allowed == EvaluatePolicyAccess(rules, ctx).allowed

Init ==
  /\ rules = [denylist |-> {}, allowlist |-> {}, accessRules |-> <<>>]
  /\ ctx \in Contexts

\* policyRepo.update(id, data) with a new `rules` document.
Update(newRules) ==
  /\ rules' = newRules
  /\ UNCHANGED ctx

AddDenylist == \E p \in Patterns : Update([rules EXCEPT !.denylist = @ \union {p}])

AddAllowlist == \E p \in Patterns : Update([rules EXCEPT !.allowlist = @ \union {p}])

AddRule(effect) ==
  /\ Len(rules.accessRules) < MaxRules
  /\ \E r \in AccessRules :
       /\ r.effect = effect
       /\ Update([rules EXCEPT !.accessRules = Append(@, r)])

AddDenyRule == AddRule("deny")
AddAllowRule == AddRule("allow")

RemoveAllowlist ==
  \E p \in rules.allowlist : Update([rules EXCEPT !.allowlist = @ \ {p}])

RemoveDenylist ==
  \E p \in rules.denylist : Update([rules EXCEPT !.denylist = @ \ {p}])

RemoveRule ==
  \E i \in DOMAIN rules.accessRules :
    Update([rules EXCEPT !.accessRules = RemoveAt(@, i)])

Next ==
  \/ AddDenylist \/ AddAllowlist \/ AddDenyRule \/ AddAllowRule
  \/ RemoveAllowlist \/ RemoveDenylist \/ RemoveRule

Spec == Init /\ [][Next]_vars

-----------------------------------------------------------------------------

\* The stored ruleset holds exactly what the operators entered.
TypeOK == rules \in Rulesets /\ ctx \in Contexts

\* A pattern matches a value iff the value can be cut into consecutive pieces,
\* one per token: any piece for "*", the token itself otherwise.
CanBeCut(pattern, value) ==
  \E c \in [0 .. Len(pattern) -> 0 .. Len(value)] :
    /\ c[0] = 0
    /\ c[Len(pattern)] = Len(value)
    /\ \A i \in 1 .. Len(pattern) :
         IF pattern[i] = "*" THEN c[i - 1] <= c[i]
         ELSE c[i] = c[i - 1] + 1 /\ value[c[i]] = pattern[i]

\* matchWildcard builds a regular expression; what it matches is the declarative
\* reading of a glob: the whole value, every character but "*" standing for
\* itself, also those that mean something in an expression, and "*" for any text,
\* ':' included.  The comment at policy-evaluator.ts:23 calls it a "single-segment"
\* wildcard, which it is not: `did:*` covers `did:prom:agent-1`.
WildcardIsGlob ==
  \A p \in rules.denylist \union rules.allowlist :
    MatchWildcard(p, ctx.subject) <=> CanBeCut(p, ctx.subject)

RuleCovers(r) ==
  /\ r.subjects = {} \/ \E p \in r.subjects : CanBeCut(p, ctx.subject)
  /\ r.actions = {} \/ \E p \in r.actions : CanBeCut(p, ctx.action)
  /\ r.resources = {} \/ \E p \in r.resources : CanBeCut(p, ctx.resource)

\* The precedence of the runbook's "Policy engine" section, stated without an
\* evaluation order: on a ruleset with at least one entry, a request passes
\* evaluatePolicyAccess iff nothing denies it and something allows it.
DenyOverridesAllow ==
  LET listed(ps) == \E p \in ps : CanBeCut(p, ctx.subject)
      ruled(effect) == \E r \in Range(rules.accessRules) : r.effect = effect /\ RuleCovers(r)
      denied == listed(rules.denylist) \/ ruled("deny")
      granted == listed(rules.allowlist) \/ ruled("allow")
  IN  HasAccessConstraints(rules) => (Allowed <=> ~denied /\ granted)

\* Adding a denylist entry or a deny rule never admits a request that the
\* policy refused before.
DenyOnlyTightens ==
  [][(AddDenylist \/ AddDenyRule) => (Allowed' => Allowed)]_vars

\* Adding an allowlist entry or an allow rule to a policy that already has
\* entries never refuses a request that it admitted before.
AllowOnlyWidens ==
  [][(AddAllowlist \/ AddAllowRule) /\ HasAccessConstraints(rules)
       => (Allowed => Allowed')]_vars
=============================================================================
