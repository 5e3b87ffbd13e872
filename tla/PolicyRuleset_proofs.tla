------------------------ MODULE PolicyRuleset_proofs ------------------------
(***************************************************************************)
(* The evaluator on every ruleset an operator can enter: patterns of any   *)
(* length with any number of wildcards, any number of entries and rules.   *)
(***************************************************************************)
EXTENDS PolicyRuleset, NaturalsInduction, WellFoundedInduction, TLAPS

-----------------------------------------------------------------------------
(* Induction: the property is given as the set of the numbers that have it. *)

\* The naturals are well-founded: a set of them has a least element.
LEMMA LeastNat ==
  ASSUME NEW T, T \subseteq Nat, T # {}
  PROVE  \E n \in T : \A m \in T : n <= m
<1> DEFINE R == OpToRel(<, Nat)
<1>1. IsWellFoundedOn(R, Nat)
  BY NatLessThanWellFounded
<1>2. \A m, n \in Nat : <<m, n>> \in R <=> m < n
  BY DEF OpToRel
<1> HIDE DEF R
<1>3. PICK n \in T : \A m \in T : ~(<<m, n>> \in R)
  BY <1>1, WFMin
<1>4. \A m \in T : m \in Nat /\ n \in Nat /\ ~(m < n)
  BY <1>2, <1>3
<1> QED
  BY <1>4

\* Induction over the naturals up to N.
LEMMA UptoInduction ==
  ASSUME NEW N \in Nat, NEW G, 0 \in G, \A n \in 0 .. N - 1 : n \in G => n + 1 \in G
  PROVE  \A n \in 0 .. N : n \in G
<1> DEFINE B == (0 .. N) \ G
<1> SUFFICES ASSUME B # {} PROVE FALSE
  OBVIOUS
<1>1. PICK n \in B : \A m \in B : n <= m
  <2>1. B \subseteq Nat
    OBVIOUS
  <2> HIDE DEF B
  <2> QED
    BY <2>1, LeastNat
<1>2. n # 0 /\ n \in 1 .. N
  BY <1>1
<1>3. n - 1 \in 0 .. N - 1 /\ n - 1 \notin B
  BY <1>1, <1>2
<1> QED
  BY <1>1, <1>2, <1>3

-----------------------------------------------------------------------------
(***************************************************************************)
(* matchWildcard.  The matcher is defined by recursion over the pattern.   *)
(* The cuts of the value obey the same recurrence: they give a function of *)
(* that shape, so there is one, and by induction over the pattern every    *)
(* such function is the one the cuts give.                                 *)
(***************************************************************************)

\* The first i tokens of p and the first j of v are joined by the cut c.
JoinedBy(c, p, v, i, j) ==
  /\ c \in [0 .. i -> 0 .. j]
  /\ c[0] = 0
  /\ c[i] = j
  /\ \A h \in 1 .. i :
       IF p[h] = "*" THEN c[h - 1] <= c[h] ELSE c[h] = c[h - 1] + 1 /\ v[c[h]] = p[h]

Joined(p, v, i, j) == \E c : JoinedBy(c, p, v, i, j)

\* The matcher's set for i tokens of the pattern, from the one before it.
Reached(f, p, v, i) ==
  IF i = 0 THEN {0}
  ELSE IF p[i] = "*" THEN UNION {j .. Len(v) : j \in f[i - 1]}
  ELSE {j + 1 : j \in {k \in f[i - 1] : k < Len(v) /\ Literal(p[i], v[k + 1])}}

IsReach(f, p, v) == f = [i \in 0 .. Len(p) |-> Reached(f, p, v, i)]

\* The positions of a cut do not decrease.
LEMMA CutsAscend ==
  ASSUME NEW N \in Nat, NEW c, \A h \in 0 .. N : c[h] \in Nat,
         \A h \in 1 .. N : c[h - 1] <= c[h]
  PROVE  \A h \in 0 .. N : c[h] <= c[N]
<1> DEFINE G == {n \in 0 .. N : c[N - n] <= c[N]}
<1>1. 0 \in G
  OBVIOUS
<1>2. ASSUME NEW n \in 0 .. N - 1, n \in G PROVE n + 1 \in G
  <2>1. /\ N - n \in 1 .. N /\ N - (n + 1) \in 0 .. N /\ (N - n) - 1 = N - (n + 1)
        /\ N - n \in 0 .. N /\ n + 1 \in 0 .. N /\ N \in 0 .. N
    OBVIOUS
  <2>2. c[N - (n + 1)] <= c[N - n] /\ c[N - n] <= c[N]
    BY <1>2, <2>1
  <2>3. c[N - (n + 1)] \in Nat /\ c[N - n] \in Nat /\ c[N] \in Nat
    BY <2>1
  <2>4. c[N - (n + 1)] <= c[N]
    BY <2>2, <2>3
  <2> QED
    BY <2>1, <2>4
<1>3. \A n \in 0 .. N : n \in G
  <2> HIDE DEF G
  <2> QED
    BY <1>1, <1>2, UptoInduction
<1> SUFFICES ASSUME NEW h \in 0 .. N PROVE c[h] <= c[N]
  OBVIOUS
<1>4. N - h \in 0 .. N /\ N - (N - h) = h
  OBVIOUS
<1> QED
  BY <1>3, <1>4

\* The cuts obey the recurrence of the table.
LEMMA JoinedNone ==
  ASSUME NEW p, NEW v, NEW j \in Nat
  PROVE  Joined(p, v, 0, j) <=> j = 0
<1>1. Joined(p, v, 0, j) => j = 0
  BY DEF Joined, JoinedBy
<1>2. JoinedBy([h \in 0 .. 0 |-> 0], p, v, 0, 0)
  BY DEF JoinedBy
<1> QED
  BY <1>1, <1>2 DEF Joined

\* The part of a cut before its last position.
LEMMA CutBefore ==
  ASSUME NEW p, NEW v, NEW i \in Nat, i > 0, NEW j \in Nat, NEW c, JoinedBy(c, p, v, i, j)
  PROVE  /\ c[i - 1] \in 0 .. j
         /\ JoinedBy([h \in 0 .. i - 1 |-> c[h]], p, v, i - 1, c[i - 1])
         /\ \A h \in 0 .. i - 1 : c[h] \in 0 .. c[i - 1]
<1>1. \A h \in 0 .. i : c[h] \in 0 .. j
  BY DEF JoinedBy
<1>2. \A h \in 1 .. i : c[h - 1] <= c[h]
  <2> TAKE h \in 1 .. i
  <2>1. h - 1 \in 0 .. i /\ h \in 0 .. i
    OBVIOUS
  <2> QED
    BY <1>1, <2>1 DEF JoinedBy
<1>3. \A h \in 0 .. i - 1 : c[h] <= c[i - 1]
  <2>1. i - 1 \in Nat /\ (\A h \in 0 .. i - 1 : c[h] \in Nat) /\ \A h \in 1 .. i - 1 : c[h - 1] <= c[h]
    BY <1>1, <1>2
  <2> QED
    BY <2>1, CutsAscend
<1>4. c[i - 1] \in 0 .. j /\ \A h \in 0 .. i - 1 : c[h] \in 0 .. c[i - 1]
  BY <1>1, <1>3
<1> DEFINE d == [h \in 0 .. i - 1 |-> c[h]]
<1>5. d \in [0 .. i - 1 -> 0 .. c[i - 1]] /\ d[0] = 0 /\ d[i - 1] = c[i - 1]
  BY <1>4 DEF JoinedBy
<1>6. \A h \in 1 .. i - 1 : d[h] = c[h] /\ d[h - 1] = c[h - 1] /\ h \in 1 .. i
  OBVIOUS
<1>7. JoinedBy(d, p, v, i - 1, c[i - 1])
  BY <1>5, <1>6 DEF JoinedBy
<1> QED
  BY <1>4, <1>7

\* A cut is prolonged by one position, from k to j.
LEMMA CutAfter ==
  ASSUME NEW p, NEW v, NEW i \in Nat, i > 0, NEW j \in Nat, NEW k \in 0 .. j,
         NEW c, JoinedBy(c, p, v, i - 1, k),
         p[i] # "*" => j = k + 1 /\ v[j] = p[i]
  PROVE  Joined(p, v, i, j)
<1> DEFINE d == [h \in 0 .. i |-> IF h = i THEN j ELSE c[h]]
<1>1. d \in [0 .. i -> 0 .. j] /\ d[0] = 0 /\ d[i] = j /\ d[i - 1] = k
  BY DEF JoinedBy
<1>2. \A h \in 1 .. i - 1 : d[h] = c[h] /\ d[h - 1] = c[h - 1]
  OBVIOUS
<1>3. \A h \in 1 .. i - 1 :
        IF p[h] = "*" THEN d[h - 1] <= d[h] ELSE d[h] = d[h - 1] + 1 /\ v[d[h]] = p[h]
  BY <1>2 DEF JoinedBy
<1>4. IF p[i] = "*" THEN d[i - 1] <= d[i] ELSE d[i] = d[i - 1] + 1 /\ v[d[i]] = p[i]
  BY <1>1
<1>5. \A h \in 1 .. i : h \in 1 .. i - 1 \/ h = i
  OBVIOUS
<1> HIDE DEF d
<1>6. JoinedBy(d, p, v, i, j)
  BY <1>1, <1>3, <1>4, <1>5 DEF JoinedBy
<1> QED
  BY <1>6 DEF Joined

LEMMA JoinedWildcard ==
  ASSUME NEW p, NEW v, NEW i \in Nat, i > 0, NEW j \in Nat, p[i] = "*"
  PROVE  Joined(p, v, i, j) <=> \E k \in 0 .. j : Joined(p, v, i - 1, k)
<1>1. ASSUME NEW c, JoinedBy(c, p, v, i, j)
      PROVE  \E k \in 0 .. j : Joined(p, v, i - 1, k)
  BY <1>1, CutBefore DEF Joined
<1>2. ASSUME NEW k \in 0 .. j, Joined(p, v, i - 1, k) PROVE Joined(p, v, i, j)
  <2>1. PICK c : JoinedBy(c, p, v, i - 1, k)
    BY <1>2 DEF Joined
  <2> QED
    BY <2>1, CutAfter
<1> QED
  BY <1>1, <1>2 DEF Joined

LEMMA JoinedToken ==
  ASSUME NEW p, NEW v, NEW i \in Nat, i > 0, NEW j \in Nat, p[i] # "*"
  PROVE  Joined(p, v, i, j) <=> j > 0 /\ p[i] = v[j] /\ Joined(p, v, i - 1, j - 1)
<1>1. ASSUME NEW c, JoinedBy(c, p, v, i, j)
      PROVE  j > 0 /\ p[i] = v[j] /\ Joined(p, v, i - 1, j - 1)
  <2> DEFINE d == [h \in 0 .. i - 1 |-> c[h]]
             k == c[i - 1]
  <2>1. k \in 0 .. j /\ JoinedBy(d, p, v, i - 1, k)
    BY <1>1, CutBefore
  <2>2. j = k + 1 /\ v[j] = p[i]
    <3>1. i \in 1 .. i
      OBVIOUS
    <3> QED
      BY <1>1, <3>1 DEF JoinedBy
  <2> HIDE DEF d, k
  <2>3. j > 0 /\ k = j - 1
    BY <2>1, <2>2
  <2> QED
    BY <2>1, <2>2, <2>3 DEF Joined
<1>2. ASSUME j > 0, p[i] = v[j], Joined(p, v, i - 1, j - 1) PROVE Joined(p, v, i, j)
  <2>1. PICK c : JoinedBy(c, p, v, i - 1, j - 1)
    BY <1>2 DEF Joined
  <2>2. j - 1 \in 0 .. j /\ j = (j - 1) + 1
    BY <1>2
  <2> QED
    BY <1>2, <2>1, <2>2, CutAfter
<1> QED
  BY <1>1, <1>2 DEF Joined

\* The prefixes of the value that the first i tokens of the pattern can be cut to.
CutTo(p, v, i) == {j \in 0 .. Len(v) : Joined(p, v, i, j)}

\* The cuts give a function that obeys the matcher's recursion.
LEMMA CutsObey ==
  ASSUME NEW p, NEW v, Len(v) \in Nat, NEW i \in Nat, NEW f,
         i > 0 => f[i - 1] = CutTo(p, v, i - 1)
  PROVE  Reached(f, p, v, i) = CutTo(p, v, i)
<1>1. CASE i = 0
  BY <1>1, JoinedNone DEF Reached, CutTo
<1>2. CASE i > 0 /\ p[i] = "*"
  <2>1. Reached(f, p, v, i) = UNION {k .. Len(v) : k \in CutTo(p, v, i - 1)}
    BY <1>2 DEF Reached
  <2>2. ASSUME NEW j PROVE j \in Reached(f, p, v, i) <=> j \in CutTo(p, v, i)
    <3>1. j \in Reached(f, p, v, i) <=>
            \E k \in 0 .. Len(v) : Joined(p, v, i - 1, k) /\ j \in k .. Len(v)
      BY <2>1 DEF CutTo
    <3>2. j \in Reached(f, p, v, i) <=>
            j \in 0 .. Len(v) /\ \E k \in 0 .. j : Joined(p, v, i - 1, k)
      BY <3>1
    <3>3. j \in 0 .. Len(v) => (Joined(p, v, i, j) <=> \E k \in 0 .. j : Joined(p, v, i - 1, k))
      BY <1>2, JoinedWildcard
    <3> QED
      BY <3>2, <3>3 DEF CutTo
  <2> QED
    BY <2>2
<1>3. CASE i > 0 /\ p[i] # "*"
  <2>1. Reached(f, p, v, i) =
          {k + 1 : k \in {h \in CutTo(p, v, i - 1) : h < Len(v) /\ v[h + 1] = p[i]}}
    BY <1>3 DEF Reached, Literal
  <2>2. ASSUME NEW j PROVE j \in Reached(f, p, v, i) <=> j \in CutTo(p, v, i)
    <3>1. j \in Reached(f, p, v, i) <=>
            \E k \in 0 .. Len(v) : /\ Joined(p, v, i - 1, k) /\ k < Len(v) /\ v[k + 1] = p[i]
                                   /\ j = k + 1
      BY <2>1 DEF CutTo
    <3>2. j \in Reached(f, p, v, i) <=>
            j \in 0 .. Len(v) /\ j > 0 /\ p[i] = v[j] /\ Joined(p, v, i - 1, j - 1)
      <4>1. ASSUME j \in Reached(f, p, v, i)
            PROVE  j \in 0 .. Len(v) /\ j > 0 /\ p[i] = v[j] /\ Joined(p, v, i - 1, j - 1)
        <5>1. PICK k \in 0 .. Len(v) : /\ Joined(p, v, i - 1, k) /\ k < Len(v) /\ v[k + 1] = p[i]
                                       /\ j = k + 1
          BY <3>1, <4>1
        <5>2. j - 1 = k /\ j \in 0 .. Len(v) /\ j > 0
          BY <5>1
        <5> QED
          BY <5>1, <5>2
      <4>2. ASSUME j \in 0 .. Len(v), j > 0, p[i] = v[j], Joined(p, v, i - 1, j - 1)
            PROVE  j \in Reached(f, p, v, i)
        <5>1. j - 1 \in 0 .. Len(v) /\ j - 1 < Len(v) /\ j = (j - 1) + 1
          BY <4>2
        <5> QED
          BY <3>1, <4>2, <5>1
      <4> QED
        BY <4>1, <4>2
    <3>3. j \in 0 .. Len(v) =>
            (Joined(p, v, i, j) <=> j > 0 /\ p[i] = v[j] /\ Joined(p, v, i - 1, j - 1))
      BY <1>3, JoinedToken
    <3> QED
      BY <3>2, <3>3 DEF CutTo
  <2> QED
    BY <2>2
<1> QED
  BY <1>1, <1>2, <1>3

\* The matcher and the declarative reading of a pattern agree on everything.
LEMMA MatcherIsGlob ==
  ASSUME NEW p \in Seq(STRING), NEW v \in Seq(STRING)
  PROVE  MatchWildcard(p, v) <=> CanBeCut(p, v)
<1> DEFINE N == Len(p)
           f == CHOOSE g : IsReach(g, p, v)
           w == [i \in 0 .. N |-> CutTo(p, v, i)]
           G == {i \in 0 .. N : f[i] = CutTo(p, v, i)}
<1>1. N \in Nat /\ Len(v) \in Nat
  OBVIOUS
<1>2. MatchWildcard(p, v) <=> Len(v) \in f[N]
  BY DEF MatchWildcard, IsReach, Reached
<1>3. IsReach(w, p, v)
  <2>1. \A i \in 0 .. N : Reached(w, p, v, i) = CutTo(p, v, i)
    <3> TAKE i \in 0 .. N
    <3>1. i \in Nat /\ (i > 0 => w[i - 1] = CutTo(p, v, i - 1))
      OBVIOUS
    <3> HIDE DEF w
    <3> QED
      BY <1>1, <3>1, CutsObey
  <2> QED
    BY <2>1 DEF IsReach
<1>4. IsReach(f, p, v)
  <2> HIDE DEF w
  <2> QED
    BY <1>3, Zenon
<1> HIDE DEF f
<1>5. \A i \in 0 .. N : f[i] = Reached(f, p, v, i)
  BY <1>4 DEF IsReach
<1>6. 0 \in G
  <2>1. 0 \in 0 .. N /\ 0 \in Nat /\ ~(0 > 0)
    BY <1>1
  <2>2. Reached(f, p, v, 0) = CutTo(p, v, 0)
    BY <1>1, <2>1, CutsObey
  <2> QED
    BY <1>5, <2>1, <2>2
<1>7. ASSUME NEW i \in 0 .. N - 1, i \in G PROVE i + 1 \in G
  <2>1. i + 1 \in Nat /\ (i + 1) - 1 = i /\ i + 1 \in 0 .. N
    BY <1>1
  <2>2. f[(i + 1) - 1] = CutTo(p, v, (i + 1) - 1)
    BY <1>7, <2>1
  <2>3. Reached(f, p, v, i + 1) = CutTo(p, v, i + 1)
    BY <1>1, <2>1, <2>2, CutsObey
  <2> QED
    BY <1>5, <2>1, <2>3
<1>8. f[N] = CutTo(p, v, N)
  <2>1. N \in 0 .. N
    BY <1>1
  <2> HIDE DEF G, N
  <2>2. N \in G
    BY <1>1, <1>6, <1>7, <2>1, UptoInduction
  <2> QED
    BY <2>2 DEF G
<1>9. Len(v) \in CutTo(p, v, N) <=> Joined(p, v, N, Len(v))
  BY <1>1 DEF CutTo
<1>10. CanBeCut(p, v) <=> Joined(p, v, N, Len(v))
  BY DEF CanBeCut, Joined, JoinedBy
<1> QED
  BY <1>2, <1>8, <1>9, <1>10

-----------------------------------------------------------------------------
(* The evaluator on a stored ruleset. *)

\* What an update stores is a ruleset again.
LEMMA TypeNext == TypeOK /\ [Next]_vars => TypeOK'
<1> SUFFICES ASSUME TypeOK, [Next]_vars PROVE TypeOK'
  OBVIOUS
<1> DEFINE a == rules.accessRules
<1>0. /\ rules \in Rulesets /\ a \in Seq(AccessRules) /\ ctx \in Contexts
      /\ rules.denylist \subseteq Patterns /\ rules.allowlist \subseteq Patterns
  BY DEF TypeOK, Rulesets
<1>1. CASE AddDenylist \/ RemoveDenylist
  <2>1. PICK d \in SUBSET Patterns : rules' = [rules EXCEPT !.denylist = d] /\ ctx' = ctx
    <3>1. CASE AddDenylist
      <4>1. PICK p \in Patterns : Update([rules EXCEPT !.denylist = @ \union {p}])
        BY <3>1 DEF AddDenylist
      <4>2. rules.denylist \union {p} \in SUBSET Patterns
        BY <1>0
      <4> QED
        BY <4>1, <4>2 DEF Update
    <3>2. CASE RemoveDenylist
      <4>1. PICK p \in rules.denylist : Update([rules EXCEPT !.denylist = @ \ {p}])
        BY <3>2 DEF RemoveDenylist
      <4>2. rules.denylist \ {p} \in SUBSET Patterns
        BY <1>0
      <4> QED
        BY <4>1, <4>2 DEF Update
    <3> QED
      BY <1>1, <3>1, <3>2
  <2> QED
    BY <1>0, <2>1 DEF TypeOK, Rulesets
<1>2. CASE AddAllowlist \/ RemoveAllowlist
  <2>1. PICK d \in SUBSET Patterns : rules' = [rules EXCEPT !.allowlist = d] /\ ctx' = ctx
    <3>1. CASE AddAllowlist
      <4>1. PICK p \in Patterns : Update([rules EXCEPT !.allowlist = @ \union {p}])
        BY <3>1 DEF AddAllowlist
      <4>2. rules.allowlist \union {p} \in SUBSET Patterns
        BY <1>0
      <4> QED
        BY <4>1, <4>2 DEF Update
    <3>2. CASE RemoveAllowlist
      <4>1. PICK p \in rules.allowlist : Update([rules EXCEPT !.allowlist = @ \ {p}])
        BY <3>2 DEF RemoveAllowlist
      <4>2. rules.allowlist \ {p} \in SUBSET Patterns
        BY <1>0
      <4> QED
        BY <4>1, <4>2 DEF Update
    <3> QED
      BY <1>2, <3>1, <3>2
  <2> QED
    BY <1>0, <2>1 DEF TypeOK, Rulesets
<1>3. CASE AddDenyRule \/ AddAllowRule \/ RemoveRule
  <2>1. PICK s \in Seq(AccessRules) : rules' = [rules EXCEPT !.accessRules = s] /\ ctx' = ctx
    <3>1. CASE AddDenyRule \/ AddAllowRule
      <4>1. PICK r \in AccessRules : Update([rules EXCEPT !.accessRules = Append(@, r)])
        BY <3>1 DEF AddDenyRule, AddAllowRule, AddRule
      <4>2. Append(a, r) \in Seq(AccessRules)
        BY <1>0
      <4> QED
        BY <4>1, <4>2 DEF Update
    <3>2. CASE RemoveRule
      <4>1. PICK i \in DOMAIN a : Update([rules EXCEPT !.accessRules = RemoveAt(@, i)])
        BY <3>2 DEF RemoveRule
      <4>2. RemoveAt(a, i) \in Seq(AccessRules)
        <5>1. i \in 1 .. Len(a) /\ Len(a) \in Nat
          BY <1>0
        <5>2. SubSeq(a, 1, i - 1) \in Seq(AccessRules) /\ SubSeq(a, i + 1, Len(a)) \in Seq(AccessRules)
          BY <1>0, <5>1
        <5> QED
          BY <5>2 DEF RemoveAt
      <4> QED
        BY <4>1, <4>2 DEF Update
    <3> QED
      BY <1>3, <3>1, <3>2
  <2> QED
    BY <1>0, <2>1 DEF TypeOK, Rulesets
<1>4. CASE UNCHANGED vars
  BY <1>4 DEF TypeOK, vars
<1> QED
  BY <1>1, <1>2, <1>3, <1>4 DEF Next

LEMMA TypeInvariant == Spec => []TypeOK
<1>1. Init => TypeOK
  BY DEF Init, TypeOK, Rulesets
<1> QED
  BY <1>1, TypeNext, PTL DEF Spec

\* evaluatePolicyAccess without its order of returns.
LEMMA Verdict ==
  ASSUME NEW R, NEW c
  PROVE  EvaluatePolicyAccess(R, c).allowed <=>
           \/ ~HasAccessConstraints(R)
           \/ /\ ~OnList(R.denylist, c) /\ ~EffectMatches(R, c, "deny")
              /\ EffectMatches(R, c, "allow") \/ OnList(R.allowlist, c)
BY DEF EvaluatePolicyAccess, Decision

\* A stored pattern and a context are sequences of tokens.
LEMMA ListMatches ==
  ASSUME NEW S, S \subseteq Seq(STRING), NEW x \in Seq(STRING)
  PROVE  (\E p \in S : MatchWildcard(p, x)) <=> (\E p \in S : CanBeCut(p, x))
<1>1. \A p \in S : MatchWildcard(p, x) <=> CanBeCut(p, x)
  BY MatcherIsGlob
<1> QED
  BY <1>1

LEMMA ContextType ==
  ASSUME TypeOK
  PROVE  ctx.subject \in Seq(STRING) /\ ctx.action \in Seq(STRING) /\ ctx.resource \in Seq(STRING)
BY VocabularyAssumption DEF TypeOK

LEMMA RuleMatches ==
  ASSUME TypeOK, NEW r \in AccessRules
  PROVE  RuleApplies(r, ctx) <=> RuleCovers(r)
<1>1. r.subjects \subseteq Seq(STRING) /\ r.actions \subseteq Seq(STRING) /\ r.resources \subseteq Seq(STRING)
  BY VocabularyAssumption
<1>2. MatchesAny(r.subjects, ctx.subject) <=> r.subjects = {} \/ \E p \in r.subjects : CanBeCut(p, ctx.subject)
  BY <1>1, ContextType, ListMatches DEF MatchesAny
<1>3. MatchesAny(r.actions, ctx.action) <=> r.actions = {} \/ \E p \in r.actions : CanBeCut(p, ctx.action)
  BY <1>1, ContextType, ListMatches DEF MatchesAny
<1>4. MatchesAny(r.resources, ctx.resource) <=> r.resources = {} \/ \E p \in r.resources : CanBeCut(p, ctx.resource)
  BY <1>1, ContextType, ListMatches DEF MatchesAny
<1> QED
  BY <1>2, <1>3, <1>4 DEF RuleApplies, RuleCovers

\* matchWildcard agrees with the declarative reading of a glob pattern, for
\* every pattern an operator stores and every caller.
THEOREM WildcardsAreGlobs == Spec => []WildcardIsGlob
<1>1. TypeOK => WildcardIsGlob
  <2> SUFFICES ASSUME TypeOK, NEW p \in rules.denylist \union rules.allowlist
               PROVE  MatchWildcard(p, ctx.subject) <=> CanBeCut(p, ctx.subject)
    BY DEF WildcardIsGlob
  <2>1. p \in Seq(STRING)
    BY VocabularyAssumption DEF TypeOK, Rulesets
  <2> QED
    BY <2>1, ContextType, MatcherIsGlob
<1> QED
  BY <1>1, TypeInvariant, PTL

\* On a ruleset with at least one entry a request passes evaluatePolicyAccess
\* iff nothing denies it and something allows it.
THEOREM DenyOverrides == Spec => []DenyOverridesAllow
<1>1. TypeOK => DenyOverridesAllow
  <2> SUFFICES ASSUME TypeOK PROVE DenyOverridesAllow
    OBVIOUS
  <2> DEFINE listed(ps) == \E p \in ps : CanBeCut(p, ctx.subject)
             ruled(effect) == \E r \in Range(rules.accessRules) : r.effect = effect /\ RuleCovers(r)
  <2>1. OnList(rules.denylist, ctx) <=> listed(rules.denylist)
    <3>1. rules.denylist \subseteq Seq(STRING)
      BY VocabularyAssumption DEF TypeOK, Rulesets
    <3> QED
      BY <3>1, ContextType, ListMatches DEF OnList
  <2>2. OnList(rules.allowlist, ctx) <=> listed(rules.allowlist)
    <3>1. rules.allowlist \subseteq Seq(STRING)
      BY VocabularyAssumption DEF TypeOK, Rulesets
    <3> QED
      BY <3>1, ContextType, ListMatches DEF OnList
  <2>3. ASSUME NEW effect PROVE EffectMatches(rules, ctx, effect) <=> ruled(effect)
    <3>1. \A i \in DOMAIN rules.accessRules :
            RuleApplies(rules.accessRules[i], ctx) <=> RuleCovers(rules.accessRules[i])
      <4> TAKE i \in DOMAIN rules.accessRules
      <4>1. rules.accessRules[i] \in AccessRules
        BY DEF TypeOK, Rulesets
      <4> QED
        BY <4>1, RuleMatches
    <3> QED
      BY <3>1 DEF EffectMatches, Matching, Range
  <2>4. /\ EffectMatches(rules, ctx, "deny") <=> ruled("deny")
        /\ EffectMatches(rules, ctx, "allow") <=> ruled("allow")
    BY <2>3
  <2>5. HasAccessConstraints(rules) =>
          (Allowed <=> /\ ~(listed(rules.denylist) \/ ruled("deny"))
                       /\ listed(rules.allowlist) \/ ruled("allow"))
    BY <2>1, <2>2, <2>4, Verdict DEF Allowed
  <2> HIDE DEF listed, ruled
  <2> QED
    BY <2>5 DEF DenyOverridesAllow, listed, ruled
<1> QED
  BY <1>1, TypeInvariant, PTL

-----------------------------------------------------------------------------
(* One edit of a ruleset. *)

\* An appended rule adds its own effect, where it applies, and nothing else.
LEMMA AppendedRule ==
  ASSUME TypeOK, NEW r \in AccessRules, NEW R,
         R = [rules EXCEPT !.accessRules = Append(@, r)]
  PROVE  /\ R.denylist = rules.denylist /\ R.allowlist = rules.allowlist
         /\ HasAccessConstraints(R)
         /\ \A effect : EffectMatches(R, ctx, effect) <=>
              EffectMatches(rules, ctx, effect) \/ (r.effect = effect /\ RuleApplies(r, ctx))
<1> DEFINE a == rules.accessRules
           b == R.accessRules
<1>1. rules \in Rulesets /\ a \in Seq(AccessRules)
  BY DEF TypeOK, Rulesets
<1>2. R.denylist = rules.denylist /\ R.allowlist = rules.allowlist /\ b = Append(a, r)
  BY <1>1 DEF Rulesets
<1>3. /\ Len(a) \in Nat /\ DOMAIN a = 1 .. Len(a) /\ DOMAIN b = 1 .. Len(a) + 1 /\ b # <<>>
      /\ b[Len(a) + 1] = r /\ \A i \in 1 .. Len(a) : b[i] = a[i]
  BY <1>1, <1>2
<1> HIDE DEF a, b
<1>4. HasAccessConstraints(R)
  BY <1>3 DEF HasAccessConstraints, b
<1>5. ASSUME NEW effect
      PROVE  EffectMatches(R, ctx, effect) <=>
              EffectMatches(rules, ctx, effect) \/ (r.effect = effect /\ RuleApplies(r, ctx))
  <2>1. EffectMatches(R, ctx, effect) <=>
          \E i \in 1 .. Len(a) + 1 : b[i].effect = effect /\ RuleApplies(b[i], ctx)
    BY <1>3 DEF EffectMatches, Matching, b
  <2>2. EffectMatches(rules, ctx, effect) <=>
          \E i \in 1 .. Len(a) : a[i].effect = effect /\ RuleApplies(a[i], ctx)
    BY <1>3 DEF EffectMatches, Matching, a
  <2>3. \A i : i \in 1 .. Len(a) + 1 <=> i \in 1 .. Len(a) \/ i = Len(a) + 1
    BY <1>3
  <2> QED
    BY <1>3, <2>1, <2>2, <2>3
<1> QED
  BY <1>2, <1>4, <1>5

\* Whether an access rule applies depends on the rules and the context only.
LEMMA SameRules ==
  ASSUME NEW R, NEW S, R.accessRules = S.accessRules, NEW c, NEW effect
  PROVE  EffectMatches(R, c, effect) <=> EffectMatches(S, c, effect)
BY DEF EffectMatches, Matching

\* A denylist entry or a deny rule never admits a request the policy refused.
THEOREM DenialsTighten == Spec => DenyOnlyTightens
<1>1. ASSUME TypeOK, AddDenylist \/ AddDenyRule, Allowed' PROVE Allowed
  <2>1. CASE AddDenylist
    <3>1. PICK p \in Patterns : rules' = [rules EXCEPT !.denylist = @ \union {p}] /\ ctx' = ctx
      BY <2>1 DEF AddDenylist, Update
    <3>2. /\ rules'.denylist = rules.denylist \union {p} /\ rules'.allowlist = rules.allowlist
          /\ rules'.accessRules = rules.accessRules
      BY <1>1, <3>1 DEF TypeOK, Rulesets
    <3>3. HasAccessConstraints(rules') /\ (OnList(rules.denylist, ctx) => OnList(rules'.denylist, ctx))
      BY <3>2 DEF HasAccessConstraints, OnList
    <3>4. \A e : EffectMatches(rules', ctx, e) <=> EffectMatches(rules, ctx, e)
      BY <3>2, SameRules
    <3>5. EvaluatePolicyAccess(rules', ctx).allowed
      BY <1>1, <3>1 DEF Allowed
    <3>6. /\ ~OnList(rules'.denylist, ctx) /\ ~EffectMatches(rules', ctx, "deny")
          /\ EffectMatches(rules', ctx, "allow") \/ OnList(rules'.allowlist, ctx)
      BY <3>3, <3>5, Verdict
    <3>7. /\ ~OnList(rules.denylist, ctx) /\ ~EffectMatches(rules, ctx, "deny")
          /\ EffectMatches(rules, ctx, "allow") \/ OnList(rules.allowlist, ctx)
      BY <3>2, <3>3, <3>4, <3>6
    <3> QED
      BY <3>7, Verdict DEF Allowed
  <2>2. CASE AddDenyRule
    <3>1. PICK r \in AccessRules : /\ r.effect = "deny" /\ ctx' = ctx
                                   /\ rules' = [rules EXCEPT !.accessRules = Append(@, r)]
      BY <2>2 DEF AddDenyRule, AddRule, Update
    <3>2. /\ rules'.denylist = rules.denylist /\ rules'.allowlist = rules.allowlist
          /\ HasAccessConstraints(rules')
          /\ \A e : EffectMatches(rules', ctx, e) <=>
               EffectMatches(rules, ctx, e) \/ (r.effect = e /\ RuleApplies(r, ctx))
      BY <1>1, <3>1, AppendedRule
    <3>3. EvaluatePolicyAccess(rules', ctx).allowed
      BY <1>1, <3>1 DEF Allowed
    <3>4. /\ ~OnList(rules'.denylist, ctx) /\ ~EffectMatches(rules', ctx, "deny")
          /\ EffectMatches(rules', ctx, "allow") \/ OnList(rules'.allowlist, ctx)
      BY <3>2, <3>3, Verdict
    <3>5. /\ ~OnList(rules.denylist, ctx) /\ ~EffectMatches(rules, ctx, "deny")
          /\ EffectMatches(rules, ctx, "allow") \/ OnList(rules.allowlist, ctx)
      BY <3>1, <3>2, <3>4
    <3> QED
      BY <3>5, Verdict DEF Allowed
  <2> QED
    BY <1>1, <2>1, <2>2
<1>2. TypeOK => [(AddDenylist \/ AddDenyRule) => (Allowed' => Allowed)]_vars
  BY <1>1
<1> QED
  BY <1>2, TypeInvariant, PTL DEF DenyOnlyTightens

\* An allowlist entry or an allow rule on a policy that has entries never
\* refuses a request the policy admitted.
THEOREM AllowancesWiden == Spec => AllowOnlyWidens
<1>1. ASSUME TypeOK, AddAllowlist \/ AddAllowRule, HasAccessConstraints(rules), Allowed PROVE Allowed'
  <2>0. /\ ~OnList(rules.denylist, ctx) /\ ~EffectMatches(rules, ctx, "deny")
        /\ EffectMatches(rules, ctx, "allow") \/ OnList(rules.allowlist, ctx)
    BY <1>1, Verdict DEF Allowed
  <2>1. CASE AddAllowlist
    <3>1. PICK p \in Patterns : rules' = [rules EXCEPT !.allowlist = @ \union {p}] /\ ctx' = ctx
      BY <2>1 DEF AddAllowlist, Update
    <3>2. /\ rules'.allowlist = rules.allowlist \union {p} /\ rules'.denylist = rules.denylist
          /\ rules'.accessRules = rules.accessRules
      BY <1>1, <3>1 DEF TypeOK, Rulesets
    <3>3. OnList(rules.allowlist, ctx) => OnList(rules'.allowlist, ctx)
      BY <3>2 DEF OnList
    <3>4. \A e : EffectMatches(rules', ctx, e) <=> EffectMatches(rules, ctx, e)
      BY <3>2, SameRules
    <3>5. /\ ~OnList(rules'.denylist, ctx) /\ ~EffectMatches(rules', ctx, "deny")
          /\ EffectMatches(rules', ctx, "allow") \/ OnList(rules'.allowlist, ctx)
      BY <2>0, <3>2, <3>3, <3>4
    <3>6. EvaluatePolicyAccess(rules', ctx).allowed
      BY <3>5, Verdict
    <3> QED
      BY <3>1, <3>6 DEF Allowed
  <2>2. CASE AddAllowRule
    <3>1. PICK r \in AccessRules : /\ r.effect = "allow" /\ ctx' = ctx
                                   /\ rules' = [rules EXCEPT !.accessRules = Append(@, r)]
      BY <2>2 DEF AddAllowRule, AddRule, Update
    <3>2. /\ rules'.denylist = rules.denylist /\ rules'.allowlist = rules.allowlist
          /\ \A e : EffectMatches(rules', ctx, e) <=>
               EffectMatches(rules, ctx, e) \/ (r.effect = e /\ RuleApplies(r, ctx))
      BY <1>1, <3>1, AppendedRule
    <3>3. /\ ~OnList(rules'.denylist, ctx) /\ ~EffectMatches(rules', ctx, "deny")
          /\ EffectMatches(rules', ctx, "allow") \/ OnList(rules'.allowlist, ctx)
      <4>1. "deny" # "allow"
        OBVIOUS
      <4>2. ~EffectMatches(rules', ctx, "deny")
        BY <2>0, <3>1, <3>2, <4>1
      <4>3. EffectMatches(rules, ctx, "allow") => EffectMatches(rules', ctx, "allow")
        BY <3>2
      <4> QED
        BY <2>0, <3>2, <4>2, <4>3
    <3>4. EvaluatePolicyAccess(rules', ctx).allowed
      BY <3>3, Verdict
    <3> QED
      BY <3>1, <3>4 DEF Allowed
  <2> QED
    BY <1>1, <2>1, <2>2
<1>2. TypeOK => [(AddAllowlist \/ AddAllowRule) /\ HasAccessConstraints(rules) => (Allowed => Allowed')]_vars
  BY <1>1
<1> QED
  BY <1>2, TypeInvariant, PTL DEF AllowOnlyWidens
=============================================================================
