---------------------------- MODULE RefreshToken ----------------------------
(***************************************************************************)
(* RefreshTokenService (src/src/common/auth/refresh-token.service.ts):     *)
(* token pairs, rotation, and the in-process revocation list, for one      *)
(* account.  Every method is synchronous, hence one action.  Time is in    *)
(* seconds, as in the `exp` claim.                                         *)
(*                                                                         *)
(* A token is named by what makes its text unique: a refresh token by its  *)
(* random jti (the number of its pair), an access token, which has none,   *)
(* by the second it was issued in.                                         *)
(***************************************************************************)
EXTENDS Integers

CONSTANTS
  AccessTTL,     \* lifetime given to the access token
  RefreshTTL,    \* lifetime given to the refresh token
  FallbackTTL,   \* parseExpiresIn of the same setting as RefreshTTL
  MaxPairs,      \* bound on the pairs issued
  MaxTime,       \* bound on the clock
  MaxRestarts    \* bound on the restarts of the process

ASSUME TTLAssumption ==
  AccessTTL \in Nat /\ RefreshTTL \in Nat /\ FallbackTTL \in Nat
ASSUME BoundAssumption == MaxPairs \in Nat /\ MaxTime \in Nat /\ MaxRestarts \in Nat

Unset == -1
Tokens == ({"refresh"} \X (1 .. MaxPairs)) \union ({"access"} \X (0 .. MaxTime))

VARIABLES
  now,        \* Math.floor(Date.now() / 1000)
  pairs,      \* number of pairs issued
  exp,        \* exp claim of every token issued, Unset for the others
  revoked,    \* the revocation list: when the entry can be forgotten, or Unset
  restarts,   \* number of restarts
  withdrawn,  \* history: tokens rotated or revoked by this incarnation
  rotations   \* history: how often each incarnation's rotate accepted a token

vars == <<now, pairs, exp, revoked, restarts, withdrawn, rotations>>

Init ==
  /\ now = 0
  /\ pairs = 0
  /\ exp = [t \in Tokens |-> Unset]
  /\ revoked = [t \in Tokens |-> Unset]
  /\ restarts = 0
  /\ withdrawn = {}
  /\ rotations = [t \in Tokens |-> [e \in 0 .. MaxRestarts |-> 0]]

\* Faulty form: the entry is forgotten a second before the token expires.
EvictExpired_Early(list) ==
  [t \in Tokens |-> IF list[t] <= now + 1 THEN Unset ELSE list[t]]

EvictExpired(list) ==
  [t \in Tokens |-> IF list[t] <= now THEN Unset ELSE list[t]]

\* jsonwebtoken rejects a token from the second of its exp claim on; any JWT
\* signed by the service verifies, an access token too.
Verifies(t) == exp[t] # Unset /\ now < exp[t]

\* jwtService.sign twice.  A second access token of the same second has the
\* text of the first.
IssueTokenPair ==
  /\ pairs < MaxPairs
  /\ pairs' = pairs + 1
  /\ exp' = [exp EXCEPT ![<<"access", now>>] = now + AccessTTL,
                        ![<<"refresh", pairs + 1>>] = now + RefreshTTL]

\* A login.
Issue ==
  /\ IssueTokenPair
  /\ UNCHANGED <<now, revoked, restarts, withdrawn, rotations>>

Accept(t) ==
  /\ EvictExpired(revoked)[t] = Unset
  /\ Verifies(t)
  /\ withdrawn' = withdrawn \union {t}
  /\ rotations' = [rotations EXCEPT ![t][restarts] = @ + 1]
  /\ UNCHANGED <<now, restarts>>

\* rotate: the consumed token is revoked, then a new pair is issued.
Rotate(t) ==
  /\ Accept(t)
  /\ revoked' = [EvictExpired(revoked) EXCEPT ![t] = exp[t]]
  /\ IssueTokenPair

\* Faulty form: the token is revoked only after the pair was issued.
RotateThrows_IssueFirst(t) ==
  /\ Accept(t)
  /\ revoked' = EvictExpired(revoked)
  /\ UNCHANGED <<pairs, exp>>

\* rotate, when issuing throws: the token is revoked all the same.
RotateThrows(t) ==
  /\ Accept(t)
  /\ revoked' = [EvictExpired(revoked) EXCEPT ![t] = exp[t]]
  /\ UNCHANGED <<pairs, exp>>

\* isRevoked, and rotate when it throws UnauthorizedException: only the
\* eviction has an effect.
Evict ==
  /\ revoked' = EvictExpired(revoked)
  /\ UNCHANGED <<now, pairs, exp, restarts, withdrawn, rotations>>

\* revoke(token, exp) or revoke(token), which assumes a token as young as now.
Revoke(t) ==
  /\ exp[t] # Unset
  /\ \E until \in {exp[t], now + FallbackTTL} : revoked' = [revoked EXCEPT ![t] = until]
  /\ withdrawn' = withdrawn \union {t}
  /\ UNCHANGED <<now, pairs, exp, restarts, rotations>>

Tick ==
  /\ now < MaxTime
  /\ now' = now + 1
  /\ UNCHANGED <<pairs, exp, revoked, restarts, withdrawn, rotations>>

\* The process restarts; the tokens are held by their clients.
Restart ==
  /\ restarts < MaxRestarts
  /\ restarts' = restarts + 1
  /\ revoked' = [t \in Tokens |-> Unset]
  /\ withdrawn' = {}
  /\ UNCHANGED <<now, pairs, exp, rotations>>

Next ==
  \/ Issue \/ Evict \/ Tick \/ Restart
  \/ \E t \in Tokens : Rotate(t) \/ RotateThrows(t) \/ Revoke(t)

Spec == Init /\ [][Next]_vars
-----------------------------------------------------------------------------
\* Every variable keeps its type; the list holds times, never lifetimes.
TypeOK ==
  /\ now \in 0 .. MaxTime
  /\ pairs \in 0 .. MaxPairs
  /\ exp \in [Tokens -> Nat \union {Unset}]
  /\ revoked \in [Tokens -> Nat \union {Unset}]
  /\ restarts \in 0 .. MaxRestarts
  /\ withdrawn \subseteq Tokens
  /\ rotations \in [Tokens -> [0 .. MaxRestarts -> Nat]]

\* "An entry only has to outlive the token itself" (line 86): a token that this
\* process rotated or revoked never verifies without being on the list,
\* whatever evictions took place in between.
WithdrawnStaysListed ==
  \A t \in withdrawn : Verifies(t) => EvictExpired(revoked)[t] # Unset

\* One incarnation of the process accepts a token at most once, also when
\* issuing the new pair throws.
RotatedOncePerIncarnation ==
  \A t \in Tokens, e \in 0 .. MaxRestarts : rotations[t][e] <= 1
=============================================================================
