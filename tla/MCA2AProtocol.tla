---------------------------- MODULE MCA2AProtocol ----------------------------
(* Two callers `a` and `b` of one agent `t`, with one nonce or none.        *)
EXTENDS A2AProtocol, TLC

CONSTANTS r1, r2, r3, n1

A == <<"a">>
B == <<"b">>
T == <<"t">>

Envelope(from, nonce, len, ok) ==
  [from |-> from, to |-> T, nonce |-> nonce, len |-> len, verified |-> ok]

\* Ruleset that admits `a` only.
AllowA == [denylist |-> {}, allowlist |-> {A}, accessRules |-> <<>>]

\* Replay: three requests of one caller with one nonce.
ReplayEnvelopes == {Envelope(A, n1, 5, TRUE)}

\* Metering and policies: one caller with a nonce, one without.
MeteringEnvelopes == {Envelope(A, n1, 5, TRUE), Envelope(B, NoNonce, 8, FALSE)}

RawBody == {[agentId |-> T, len |-> 5]}

\* Two active policies, of which the first admits `a` and denies `b`, and none
\* that is inactive: an id without a row stands for that as well.
TwoPolicyRows ==
  {[agentId |-> T, isActive |-> TRUE, rules |-> rules] : rules \in {AllowA, Unreadable}}
Symmetry == Permutations(Requests)
=============================================================================
