--------------------------- MODULE MCPolicyRuleset ---------------------------
(* Three callers, `m:a`, `m:b` and `m:.`; a pattern without a wildcard that  *)
(* holds a character to be escaped, a trailing and a leading wildcard;     *)
(* access rules with and without action and resource patterns.             *)
EXTENDS PolicyRuleset

A == <<"m", ":", "a">>
B == <<"m", ":", "b">>

Dot == <<"m", ":", ".">>

MCPatterns == {Dot, <<"m", ":", "*">>, <<"*", "b">>}

MCContexts == [subject : {A, B, Dot}, action : {<<"invoke">>}, resource : {<<"s", "1">>}]

MCAccessRules ==
  [effect : {"allow", "deny"}, subjects : {{}, {A}, {<<"m", ":", "*">>}},
   actions : {{}, {<<"read">>}}, resources : {{}}]
  \union [effect : {"allow", "deny"}, subjects : {{<<"*">>}},
          actions : {{<<"invoke">>}}, resources : {{<<"s", "*">>, <<"t">>}}]
=============================================================================
