------------------------- MODULE RefreshToken_proofs -------------------------
(***************************************************************************)
(* One incarnation of the process accepts every token at most once, for    *)
(* all lifetimes, provided the fallback lifetime of the revocation list is *)
(* no shorter than those of the tokens.                                    *)
(***************************************************************************)
EXTENDS RefreshToken, TLAPS

\* The claims of the tokens issued so far.
ClaimsOK ==
  /\ \A s \in 0 .. MaxTime :
       exp[<<"access", s>>] # Unset => s <= now /\ exp[<<"access", s>>] = s + AccessTTL
  /\ \A p \in 1 .. MaxPairs :
       exp[<<"refresh", p>>] # Unset => p <= pairs /\ exp[<<"refresh", p>>] <= now + RefreshTTL

\* An entry outlives its token.
ListOK ==
  \A t \in withdrawn : exp[t] # Unset /\ (exp[t] <= now \/ exp[t] <= revoked[t])

\* What was not withdrawn has not been rotated by this incarnation, and later
\* incarnations have rotated nothing.
RotationsOK ==
  \A t \in Tokens :
    /\ t \notin withdrawn => rotations[t][restarts] = 0
    /\ \A e \in 0 .. MaxRestarts : rotations[t][e] <= 1 /\ (e > restarts => rotations[t][e] = 0)

TokenInv == TypeOK /\ ClaimsOK /\ ListOK /\ RotationsOK

LEMMA TokenInit == Init => TokenInv
<1> SUFFICES ASSUME Init PROVE TokenInv
  OBVIOUS
<1>1. TypeOK
  BY BoundAssumption DEF Init, TypeOK, Unset
<1>2. ClaimsOK
  BY DEF Init, ClaimsOK, Tokens, Unset
<1>3. ListOK /\ RotationsOK
  BY BoundAssumption DEF Init, ListOK, RotationsOK
<1> QED
  BY <1>1, <1>2, <1>3 DEF TokenInv

LEMMA EvictType ==
  ASSUME TypeOK
  PROVE  EvictExpired(revoked) \in [Tokens -> Nat \union {Unset}]
BY DEF TypeOK, EvictExpired

\* A token that rotate accepts was not withdrawn by this incarnation.
LEMMA AcceptedIsNew ==
  ASSUME TokenInv, NEW t \in Tokens, EvictExpired(revoked)[t] = Unset, Verifies(t)
  PROVE  t \notin withdrawn
<1> SUFFICES ASSUME t \in withdrawn PROVE FALSE
  OBVIOUS
<1>1. exp[t] \in Nat /\ now \in Nat /\ now < exp[t] /\ exp[t] <= revoked[t]
  BY DEF TokenInv, TypeOK, ListOK, Verifies, Unset
<1>2. revoked[t] \in Nat /\ ~(revoked[t] <= now)
  BY <1>1 DEF TokenInv, TypeOK, Unset
<1> QED
  BY <1>2 DEF EvictExpired, Unset

\* Issuing a pair keeps the claims in order and changes no withdrawn token.
LEMMA IssueOK ==
  ASSUME TokenInv, IssueTokenPair, now' = now
  PROVE  /\ pairs' \in 0 .. MaxPairs
         /\ exp' \in [Tokens -> Nat \union {Unset}]
         /\ ClaimsOK'
         /\ \A t \in Tokens : exp[t] # Unset => exp'[t] = exp[t]
<1> DEFINE a == <<"access", now>>
           r == <<"refresh", pairs + 1>>
<1>1. a \in Tokens /\ r \in Tokens /\ a # r
  <2>1. now \in 0 .. MaxTime /\ pairs + 1 \in 1 .. MaxPairs
    BY BoundAssumption DEF TokenInv, TypeOK, IssueTokenPair
  <2> QED
    BY <2>1 DEF Tokens
<1>2. exp' = [exp EXCEPT ![a] = now + AccessTTL, ![r] = now + RefreshTTL]
  BY DEF IssueTokenPair
<1>3. pairs' = pairs + 1 /\ pairs' \in 0 .. MaxPairs
  BY BoundAssumption DEF IssueTokenPair, TokenInv, TypeOK
<1>4. exp'[a] = now + AccessTTL /\ exp'[r] = now + RefreshTTL
      /\ \A t \in Tokens \ {a, r} : exp'[t] = exp[t]
  <2>1. exp \in [Tokens -> Nat \union {Unset}]
    BY DEF TokenInv, TypeOK
  <2> QED
    BY <1>1, <1>2, <2>1
<1>5. exp' \in [Tokens -> Nat \union {Unset}]
  <2>1. now + AccessTTL \in Nat \union {Unset} /\ now + RefreshTTL \in Nat \union {Unset}
    BY TTLAssumption, BoundAssumption DEF TokenInv, TypeOK
  <2>2. exp \in [Tokens -> Nat \union {Unset}]
    BY DEF TokenInv, TypeOK
  <2>3. [exp EXCEPT ![a] = now + AccessTTL] \in [Tokens -> Nat \union {Unset}]
    BY <1>1, <2>1, <2>2
  <2> QED
    BY <1>1, <1>2, <2>1, <2>3, Zenon
<1>6. exp[r] = Unset
  BY <1>3, BoundAssumption DEF TokenInv, TypeOK, ClaimsOK
<1>7. exp[a] # Unset => exp[a] = now + AccessTTL
  BY DEF TokenInv, TypeOK, ClaimsOK
<1>8. \A t \in Tokens : exp[t] # Unset => exp'[t] = exp[t]
  BY <1>4, <1>6, <1>7
<1>9. ASSUME NEW s \in 0 .. MaxTime, exp'[<<"access", s>>] # Unset
      PROVE  s <= now /\ exp'[<<"access", s>>] = s + AccessTTL
  <2>1. CASE s = now
    BY <1>4, <2>1 DEF TokenInv, TypeOK
  <2>2. CASE s # now
    <3>1. <<"access", s>> \in Tokens \ {a, r}
      BY <2>2 DEF Tokens
    <3> QED
      BY <1>4, <1>9, <3>1 DEF TokenInv, ClaimsOK
  <2> QED
    BY <2>1, <2>2
<1>10. ASSUME NEW p \in 1 .. MaxPairs, exp'[<<"refresh", p>>] # Unset
       PROVE  p <= pairs' /\ exp'[<<"refresh", p>>] <= now + RefreshTTL
  <2>1. CASE p = pairs + 1
    BY <1>3, <1>4, <2>1, TTLAssumption DEF TokenInv, TypeOK
  <2>2. CASE p # pairs + 1
    <3>1. <<"refresh", p>> \in Tokens \ {a, r}
      BY <2>2 DEF Tokens
    <3> QED
      BY <1>3, <1>4, <1>10, <3>1 DEF TokenInv, ClaimsOK, TypeOK
  <2> QED
    BY <2>1, <2>2
<1>11. ClaimsOK'
  BY <1>9, <1>10 DEF ClaimsOK
<1> QED
  BY <1>3, <1>5, <1>8, <1>11

\* rotate, whether or not a pair is issued.
LEMMA AcceptOK ==
  ASSUME TokenInv, NEW t \in Tokens, Accept(t),
         revoked' = [EvictExpired(revoked) EXCEPT ![t] = exp[t]],
         IssueTokenPair \/ UNCHANGED <<pairs, exp>>
  PROVE  TokenInv'
<1>0. TypeOK /\ ClaimsOK /\ ListOK /\ RotationsOK
  BY DEF TokenInv
<1>1. UNCHANGED <<now, restarts>> /\ withdrawn' = withdrawn \union {t}
      /\ rotations' = [rotations EXCEPT ![t][restarts] = @ + 1]
      /\ exp[t] # Unset
  BY DEF Accept, Verifies
<1>2. pairs' \in 0 .. MaxPairs /\ exp' \in [Tokens -> Nat \union {Unset}] /\ ClaimsOK'
      /\ \A u \in Tokens : exp[u] # Unset => exp'[u] = exp[u]
  <2>1. CASE IssueTokenPair
    BY <1>1, <2>1, IssueOK
  <2>2. CASE UNCHANGED <<pairs, exp>>
    BY <1>0, <1>1, <2>2 DEF TypeOK, ClaimsOK
  <2> QED
    BY <2>1, <2>2
<1>3. revoked'[t] = exp[t] /\ revoked' \in [Tokens -> Nat \union {Unset}]
      /\ \A u \in Tokens \ {t} : revoked'[u] = EvictExpired(revoked)[u]
  BY <1>0, EvictType DEF TypeOK
<1>4. t \notin withdrawn
  BY AcceptedIsNew DEF Accept
<1>5. rotations' \in [Tokens -> [0 .. MaxRestarts -> Nat]]
  <2> DEFINE Counts == [0 .. MaxRestarts -> Nat]
             counts == [rotations[t] EXCEPT ![restarts] = rotations[t][restarts] + 1]
  <2>1. rotations \in [Tokens -> Counts] /\ restarts \in 0 .. MaxRestarts
    BY <1>0 DEF TypeOK
  <2>2. rotations[t] \in Counts
    BY <2>1
  <2>3. counts \in Counts
    BY <2>1, <2>2
  <2>4. rotations' = [rotations EXCEPT ![t] = counts]
    BY <1>1
  <2> HIDE DEF Counts, counts
  <2>5. rotations' \in [Tokens -> Counts]
    BY <2>1, <2>3, <2>4
  <2> QED
    BY <2>5 DEF Counts
<1>6. TypeOK'
  BY <1>0, <1>1, <1>2, <1>3, <1>5 DEF TypeOK
<1>7. ListOK'
  <2> SUFFICES ASSUME NEW u \in withdrawn'
               PROVE  exp'[u] # Unset /\ (exp'[u] <= now \/ exp'[u] <= revoked'[u])
    BY <1>1 DEF ListOK
  <2>1. CASE u = t
    BY <1>0, <1>1, <1>2, <1>3, <2>1 DEF TypeOK
  <2>2. CASE u # t
    <3>1. u \in withdrawn /\ u \in Tokens /\ exp'[u] = exp[u] /\ exp[u] # Unset
      BY <1>0, <1>1, <1>2, <2>2 DEF ListOK, TypeOK
    <3>2. revoked'[u] = IF revoked[u] <= now THEN Unset ELSE revoked[u]
      BY <1>3, <2>2, <3>1 DEF EvictExpired
    <3>3. now \in Nat /\ exp[u] \in Nat /\ revoked[u] \in Nat \union {Unset}
      BY <1>0, <3>1 DEF TypeOK
    <3>4. exp[u] <= now \/ exp[u] <= revoked[u]
      BY <1>0, <3>1 DEF ListOK
    <3> QED
      BY <3>1, <3>2, <3>3, <3>4 DEF Unset
  <2> QED
    BY <2>1, <2>2
<1>8. RotationsOK'
  BY <1>0, <1>1, <1>4 DEF RotationsOK, TypeOK
<1> QED
  BY <1>2, <1>6, <1>7, <1>8 DEF TokenInv

LEMMA TokenNext ==
  ASSUME FallbackTTL >= RefreshTTL, FallbackTTL >= AccessTTL
  PROVE  TokenInv /\ [Next]_vars => TokenInv'
<1> SUFFICES ASSUME TokenInv, [Next]_vars PROVE TokenInv'
  OBVIOUS
<1>0. TypeOK /\ ClaimsOK /\ ListOK /\ RotationsOK
  BY DEF TokenInv
<1>1. CASE Issue
  <2>1. /\ pairs' \in 0 .. MaxPairs /\ exp' \in [Tokens -> Nat \union {Unset}] /\ ClaimsOK'
        /\ \A u \in Tokens : exp[u] # Unset => exp'[u] = exp[u]
    BY <1>1, IssueOK DEF Issue
  <2>2. ListOK'
    BY <1>0, <1>1, <2>1 DEF Issue, ListOK, TypeOK
  <2> QED
    BY <1>0, <1>1, <2>1, <2>2 DEF Issue, TypeOK, RotationsOK, TokenInv
<1>2. CASE Evict
  <2>1. TypeOK'
    BY <1>0, <1>2, EvictType DEF Evict, TypeOK
  <2>2. ListOK'
    BY <1>0, <1>2 DEF Evict, EvictExpired, ListOK, TypeOK, Unset
  <2> QED
    BY <1>0, <1>2, <2>1, <2>2 DEF Evict, ClaimsOK, RotationsOK, TokenInv
<1>3. CASE Tick
  <2>1. TypeOK' /\ ListOK' /\ RotationsOK'
    BY <1>0, <1>3, BoundAssumption DEF Tick, TypeOK, ListOK, RotationsOK
  <2>2. ClaimsOK'
    BY <1>0, <1>3, TTLAssumption DEF Tick, TypeOK, ClaimsOK, Tokens, Unset
  <2> QED
    BY <2>1, <2>2 DEF TokenInv
<1>4. CASE Restart
  <2>1. TypeOK'
    BY <1>0, <1>4, BoundAssumption DEF Restart, TypeOK
  <2>2. RotationsOK'
    BY <1>0, <1>4, BoundAssumption DEF Restart, TypeOK, RotationsOK
  <2> QED
    BY <1>0, <1>4, <2>1, <2>2 DEF Restart, ClaimsOK, ListOK, TokenInv
<1>5. ASSUME NEW t \in Tokens, Rotate(t) \/ RotateThrows(t) PROVE TokenInv'
  BY <1>5, AcceptOK DEF Rotate, RotateThrows
<1>6. ASSUME NEW t \in Tokens, Revoke(t) PROVE TokenInv'
  <2>1. exp[t] \in Nat /\ now \in Nat
    BY <1>0, <1>6 DEF Revoke, TypeOK
  <2>2. exp[t] <= now + FallbackTTL
    <3>1. CASE t \in {"access"} \X (0 .. MaxTime)
      <4> PICK s \in 0 .. MaxTime : t = <<"access", s>>
        BY <3>1
      <4>1. s <= now /\ exp[t] = s + AccessTTL
        BY <1>0, <1>6 DEF ClaimsOK, Revoke
      <4> QED
        BY <2>1, <4>1, TTLAssumption
    <3>2. CASE t \in {"refresh"} \X (1 .. MaxPairs)
      <4> PICK p \in 1 .. MaxPairs : t = <<"refresh", p>>
        BY <3>2
      <4>1. exp[t] <= now + RefreshTTL
        BY <1>0, <1>6 DEF ClaimsOK, Revoke
      <4> QED
        BY <2>1, <4>1, TTLAssumption
    <3> QED
      BY <3>1, <3>2 DEF Tokens
  <2>3. PICK until \in {exp[t], now + FallbackTTL} : revoked' = [revoked EXCEPT ![t] = until]
    BY <1>6 DEF Revoke
  <2>4. until \in Nat /\ exp[t] <= until
    BY <2>1, <2>2, <2>3, TTLAssumption
  <2>5. TypeOK'
    BY <1>0, <1>6, <2>3, <2>4 DEF Revoke, TypeOK
  <2>6. ListOK'
    BY <1>0, <1>6, <2>3, <2>4 DEF Revoke, ListOK, TypeOK
  <2>7. ClaimsOK' /\ RotationsOK'
    BY <1>0, <1>6 DEF Revoke, ClaimsOK, RotationsOK, TypeOK
  <2> QED
    BY <2>5, <2>6, <2>7 DEF TokenInv
<1>7. CASE UNCHANGED vars
  BY <1>0, <1>7 DEF vars, TypeOK, ClaimsOK, ListOK, RotationsOK, TokenInv
<1> QED
  BY <1>1, <1>2, <1>3, <1>4, <1>5, <1>6, <1>7 DEF Next

\* A token this process rotated or revoked never verifies without being on the
\* list (evictExpired against the exp check of jwtService.verify).
THEOREM ListOutlivesTokens ==
  ASSUME FallbackTTL >= RefreshTTL, FallbackTTL >= AccessTTL
  PROVE  Spec => []WithdrawnStaysListed
<1>1. TokenInv => WithdrawnStaysListed
  <2> SUFFICES ASSUME TokenInv, NEW t \in withdrawn, Verifies(t)
               PROVE  EvictExpired(revoked)[t] # Unset
    BY DEF WithdrawnStaysListed
  <2>1. t \in Tokens
    BY DEF TokenInv, TypeOK
  <2> QED
    BY <2>1, AcceptedIsNew
<1> QED
  BY <1>1, TokenInit, TokenNext, PTL DEF Spec

\* One incarnation of the process accepts a token at most once (rotate).
THEOREM SingleUse ==
  ASSUME FallbackTTL >= RefreshTTL, FallbackTTL >= AccessTTL
  PROVE  Spec => []RotatedOncePerIncarnation
<1>1. TokenInv => RotatedOncePerIncarnation
  BY DEF TokenInv, RotationsOK, RotatedOncePerIncarnation
<1> QED
  BY <1>1, TokenInit, TokenNext, PTL DEF Spec
=============================================================================
