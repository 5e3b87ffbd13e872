--------------------------- MODULE Catalog_proofs ---------------------------
(***************************************************************************)
(* The walk through the listing, the prices of a page and the entries of   *)
(* the contracts, for tables of every size and every page size.            *)
(***************************************************************************)
EXTENDS Catalog, FiniteSetTheorems, SequenceTheorems, TLAPS

-----------------------------------------------------------------------------
(* Induction: the property is given as the set of the numbers that have it. *)

\* The naturals are well-founded: a set of them has a least element.
LEMMA LeastNat ==
  ASSUME NEW T, T \subseteq Nat, T # {}
  PROVE  \E n \in T : \A m \in T : n <= m
<1> DEFINE R == OpToRel(<, Nat)
<1>1. IsWellFoundedOn(R, Nat)
  BY NatLessThanWellFounded
<1>2. \A m, n \in Nat : <<m, n>> \in R <=> m < n
  BY DEF OpToRel
<1> HIDE DEF R
<1>3. PICK n \in T : \A m \in T : ~(<<m, n>> \in R)
  BY <1>1, WFMin
<1>4. \A m \in T : m \in Nat /\ n \in Nat /\ ~(m < n)
  BY <1>2, <1>3
<1>5. \A m \in T : n <= m
  BY <1>4
<1> QED
  BY <1>5

\* Induction over the naturals up to N, with the property as a set.
LEMMA UptoInduction ==
  ASSUME NEW N \in Nat, NEW G, 0 \in G, \A n \in 0 .. N - 1 : n \in G => n + 1 \in G
  PROVE  \A n \in 0 .. N : n \in G
<1> DEFINE B == (0 .. N) \ G
<1> SUFFICES ASSUME B # {} PROVE FALSE
  OBVIOUS
<1>1. PICK n \in B : \A m \in B : n <= m
  <2>1. B \subseteq Nat
    OBVIOUS
  <2> HIDE DEF B
  <2> QED
    BY <2>1, LeastNat
<1>2. n # 0 /\ n \in 1 .. N
  BY <1>1
<1>3. n - 1 \in 0 .. N - 1 /\ n - 1 \notin B
  BY <1>1, <1>2
<1> QED
  BY <1>1, <1>2, <1>3

-----------------------------------------------------------------------------
(* The loop of findByServiceIds. *)

Pushed(f, q, s, i) ==
  IF i = 0 THEN <<>>
  ELSE IF tariff[q[i]].service = s THEN Append(f[i - 1], q[i]) ELSE f[i - 1]

\* There is a function that gives the bucket after each iteration: one that does
\* so for n iterations gives one for n + 1.
LEMMA BucketExists ==
  ASSUME NEW q, Len(q) \in Nat, NEW s
  PROVE  \E f : f = [i \in 0 .. Len(q) |-> Pushed(f, q, s, i)]
<1> DEFINE N == Len(q)
           Upto(f, n) == \A i \in 0 .. n : f[i] = Pushed(f, q, s, i)
           G == {n \in 0 .. N : \E f : Upto(f, n)}
<1>1. 0 \in G
  <2> DEFINE f == [i \in {0} |-> <<>>]
  <2>1. Upto(f, 0)
    BY DEF Pushed
  <2> QED
    BY <2>1
<1>2. ASSUME NEW n \in 0 .. N - 1, n \in G PROVE n + 1 \in G
  <2>1. PICK f : Upto(f, n)
    BY <1>2
  <2> DEFINE g == [i \in 0 .. n + 1 |-> Pushed(f, q, s, i)]
  <2>2. Upto(g, n + 1)
    BY <2>1 DEF Pushed
  <2>3. n + 1 \in 0 .. N
    OBVIOUS
  <2> HIDE DEF g, Upto
  <2> QED
    BY <2>2, <2>3
<1>3. N \in G
  <2>1. N \in Nat /\ N \in 0 .. N
    OBVIOUS
  <2> HIDE DEF G, N
  <2> QED
    BY <1>1, <1>2, <2>1, UptoInduction
<1>4. PICK f : Upto(f, N)
  BY <1>3
<1> DEFINE g == [i \in 0 .. N |-> f[i]]
<1>5. \A i \in 0 .. N : g[i] = Pushed(g, q, s, i)
  BY <1>4 DEF Pushed
<1>6. g = [i \in 0 .. N |-> Pushed(g, q, s, i)]
  BY <1>5
<1> QED
  BY <1>6

\* The bucket of a service holds the service's rows of the query, all of them,
\* in the order of the query.
LEMMA GroupedProperties ==
  ASSUME NEW q \in Seq(Tariffs), NEW s, NEW at \in [Tariffs -> Nat],
         \A i, j \in 1 .. Len(q) : i < j => at[q[i]] >= at[q[j]]
  PROVE  /\ Grouped(q, s) \in Seq(Tariffs)
         /\ \A j \in 1 .. Len(Grouped(q, s)) : tariff[Grouped(q, s)[j]].service = s
         /\ \A i \in 1 .. Len(q) : tariff[q[i]].service = s =>
              \E j \in 1 .. Len(Grouped(q, s)) : Grouped(q, s)[j] = q[i]
         /\ \A j, k \in 1 .. Len(Grouped(q, s)) : j < k => at[Grouped(q, s)[j]] >= at[Grouped(q, s)[k]]
<1> DEFINE N == Len(q)
           f == CHOOSE h : h = [i \in 0 .. N |-> Pushed(h, q, s, i)]
           From(r, n) == /\ r \in Seq(Tariffs)
                         /\ \A j \in 1 .. Len(r) : /\ tariff[r[j]].service = s
                                                   /\ \E i \in 1 .. n : r[j] = q[i]
           All(r, n) == \A i \in 1 .. n : tariff[q[i]].service = s => \E j \in 1 .. Len(r) : r[j] = q[i]
           Ordered(r) == \A j, k \in 1 .. Len(r) : j < k => at[r[j]] >= at[r[k]]
           G == {n \in 0 .. N : From(f[n], n) /\ All(f[n], n) /\ Ordered(f[n])}
<1>1. Grouped(q, s) = f[N]
  BY DEF Grouped, Pushed
<1>2. \A i \in 0 .. N : f[i] = Pushed(f, q, s, i)
  <2>1. f = [i \in 0 .. N |-> Pushed(f, q, s, i)]
    <3>1. N \in Nat
      OBVIOUS
    <3>2. \E h : h = [i \in 0 .. N |-> Pushed(h, q, s, i)]
      BY <3>1, BucketExists
    <3> QED
      BY <3>2, Zenon
  <2> HIDE DEF f
  <2> QED
    BY <2>1
<1>3. N \in Nat
  OBVIOUS
<1> HIDE DEF f, N
<1>4. 0 \in G
  <2>1. f[0] = <<>> /\ 0 \in 0 .. N
    BY <1>2, <1>3 DEF Pushed
  <2>2. From(<<>>, 0) /\ All(<<>>, 0) /\ Ordered(<<>>)
    OBVIOUS
  <2> HIDE DEF From, All, Ordered
  <2> QED
    BY <2>1, <2>2
<1>5. ASSUME NEW n \in 0 .. N - 1, n \in G PROVE n + 1 \in G
  <2> DEFINE r == f[n]
             t == q[n + 1]
  <2>1. n \in Nat /\ n + 1 \in 1 .. N /\ n + 1 \in 0 .. N /\ t \in Tariffs
    BY <1>3 DEF N
  <2>2. From(r, n) /\ All(r, n) /\ Ordered(r)
    BY <1>5
  <2>3. f[n + 1] = IF tariff[t].service = s THEN Append(r, t) ELSE r
    BY <1>2, <2>1 DEF Pushed
  <2>4. CASE tariff[t].service # s
    <3>1. From(r, n + 1) /\ f[n + 1] = r
      BY <2>1, <2>2, <2>3, <2>4
    <3>2. All(r, n + 1)
      <4> SUFFICES ASSUME NEW i \in 1 .. n + 1, tariff[q[i]].service = s
                   PROVE  i \in 1 .. n
        BY <2>2
      <4> QED
        BY <2>1, <2>4
    <3> HIDE DEF From, All, Ordered, r
    <3> QED
      BY <2>1, <2>2, <3>1, <3>2
  <2>5. CASE tariff[t].service = s
    <3> DEFINE a == Append(r, t)
    <3>1. /\ a \in Seq(Tariffs) /\ Len(a) = Len(r) + 1 /\ Len(r) \in Nat
          /\ a[Len(r) + 1] = t /\ \A j \in 1 .. Len(r) : a[j] = r[j]
      BY <2>1, <2>2
    <3>2. f[n + 1] = a
      BY <2>3, <2>5
    <3> HIDE DEF a, r
    <3>3. From(a, n + 1)
      <4> SUFFICES ASSUME NEW j \in 1 .. Len(a)
                   PROVE  tariff[a[j]].service = s /\ \E i \in 1 .. n + 1 : a[j] = q[i]
        BY <3>1
      <4>1. CASE j = Len(r) + 1
        BY <2>1, <2>5, <3>1, <4>1
      <4>2. CASE j # Len(r) + 1
        <5>1. j \in 1 .. Len(r) /\ a[j] = r[j]
          BY <3>1, <4>2
        <5>2. PICK i \in 1 .. n : r[j] = q[i]
          BY <2>2, <5>1
        <5>3. i \in 1 .. n + 1 /\ tariff[r[j]].service = s
          BY <2>1, <2>2, <5>1
        <5> QED
          BY <5>1, <5>2, <5>3
      <4> QED
        BY <4>1, <4>2
    <3>4. All(a, n + 1)
      <4> SUFFICES ASSUME NEW i \in 1 .. n + 1, tariff[q[i]].service = s
                   PROVE  \E j \in 1 .. Len(a) : a[j] = q[i]
        OBVIOUS
      <4>1. CASE i = n + 1
        BY <3>1, <4>1
      <4>2. CASE i # n + 1
        <5>1. PICK j \in 1 .. Len(r) : r[j] = q[i]
          BY <2>2, <4>2
        <5> QED
          BY <3>1, <5>1
      <4> QED
        BY <4>1, <4>2
    <3>5. Ordered(a)
      <4> SUFFICES ASSUME NEW j \in 1 .. Len(a), NEW k \in 1 .. Len(a), j < k
                   PROVE  at[a[j]] >= at[a[k]]
        OBVIOUS
      <4>1. j \in 1 .. Len(r) /\ a[j] = r[j] /\ k \in 1 .. Len(r) + 1
        <5>1. j \in 1 .. Len(r) /\ k \in 1 .. Len(r) + 1
          BY <3>1
        <5> QED
          BY <3>1, <5>1
      <4>2. CASE k = Len(r) + 1
        <5>1. PICK i \in 1 .. n : r[j] = q[i]
          BY <2>2, <4>1
        <5>2. i \in 1 .. Len(q) /\ n + 1 \in 1 .. Len(q) /\ i < n + 1
          BY <2>1 DEF N
        <5> QED
          BY <3>1, <4>1, <4>2, <5>1, <5>2
      <4>3. CASE k # Len(r) + 1
        <5> DEFINE m == Len(r)
        <5>0. m \in Nat /\ k \in 1 .. m + 1 /\ k # m + 1
          BY <3>1, <4>1, <4>3
        <5>1. k \in 1 .. Len(r)
          <6> HIDE DEF m
          <6>1. k \in 1 .. m
            BY <5>0
          <6> QED
            BY <6>1 DEF m
        <5>2. a[k] = r[k]
          BY <3>1, <5>1
        <5> QED
          BY <2>2, <4>1, <5>1, <5>2
      <4> QED
        BY <4>2, <4>3
    <3> HIDE DEF From, All, Ordered
    <3> QED
      BY <2>1, <3>2, <3>3, <3>4, <3>5
  <2> QED
    BY <2>4, <2>5
<1>6. N \in G
  <2>1. N \in 0 .. N
    BY <1>3
  <2> HIDE DEF G
  <2> QED
    BY <1>3, <1>4, <1>5, <2>1, UptoInduction
<1> QED
  BY <1>1, <1>6 DEF N

-----------------------------------------------------------------------------
(* The contracts. *)

\* The contracts' mappings keep their keys.
KeysOK == DOMAIN listed = ServiceIds /\ DOMAIN published = TariffIds

LEMMA KeysInit == Init => KeysOK
BY DEF Init, InitContracts, KeysOK

LEMMA KeysStep == KeysOK /\ [Next]_vars => KeysOK'
BY DEF Next, ContractsNext, KeysOK, CreateService, CreateTariff, Begin, GetMany, FindByServiceIds,
  NextPage, Leave, RegisterService, DeactivateService, PublishTariff, contracts, tables, vars

\* ServiceCatalog and TariffRegistry: an entry never changes but for a service's
\* deactivation, also for services whose DID and name give the same packed id.
THEOREM ChainIsFinal == Spec => EntriesAreFinal
<1> DEFINE Final ==
     /\ \A id \in ServiceIds : listed[id].createdAt > 0 =>
          listed'[id] \in {listed[id], [listed[id] EXCEPT !.active = FALSE]}
     /\ \A id \in TariffIds : published[id].createdAt > 0 => published'[id] = published[id]
<1>1. KeysOK /\ [Next]_vars => [Final]_vars
  <2> SUFFICES ASSUME KeysOK, Next PROVE Final
    OBVIOUS
  <2>1. ASSUME UNCHANGED contracts PROVE Final
    BY <2>1 DEF contracts
  <2>2. ASSUME NEW did, NEW name, NEW schema, RegisterService(did, name, schema) PROVE Final
    BY <2>2 DEF RegisterService, Vacant, KeysOK
  <2>3. ASSUME NEW id \in ServiceIds, DeactivateService(id) PROVE Final
    BY <2>3 DEF DeactivateService, KeysOK
  <2>4. ASSUME NEW did, NEW sid, NEW hash, NEW uri, PublishTariff(did, sid, hash, uri) PROVE Final
    BY <2>4 DEF PublishTariff, KeysOK
  <2> HIDE DEF Final
  <2> QED
    BY <2>1, <2>2, <2>3, <2>4 DEF Next, ContractsNext, CreateService, CreateTariff, Begin, GetMany, FindByServiceIds,
         NextPage, Leave
<1> QED
  BY <1>1, KeysInit, KeysStep, PTL DEF Spec, EntriesAreFinal

-----------------------------------------------------------------------------
(* A listing, and where a row is in it. *)

LEMMA ListingProperties ==
  ASSUME NEW S, IsFiniteSet(S), NEW at, NEW q \in NewestFirst(S, at)
  PROVE  /\ q \in Seq(S) /\ Len(q) = Cardinality(S) /\ Len(q) \in Nat
         /\ \A i, j \in 1 .. Len(q) : i # j => q[i] # q[j]
         /\ \A x \in S : \E i \in 1 .. Len(q) : q[i] = x
         /\ \A i, j \in 1 .. Len(q) : i < j => at[q[i]] >= at[q[j]]
<1> DEFINE n == Cardinality(S)
<1>1. n \in Nat
  BY FS_CardinalityType
<1>2. /\ q \in [1 .. n -> S]
      /\ \A i, j \in 1 .. n : i # j => q[i] # q[j]
      /\ \A i, j \in DOMAIN q : i < j => at[q[i]] >= at[q[j]]
  BY DEF NewestFirst, SetToSeqs
<1> HIDE DEF n
<1>3. q \in Seq(S) /\ Len(q) = n /\ DOMAIN q = 1 .. n
  BY <1>1, <1>2
<1>4. q \in Surjection(1 .. n, S)
  <2>1. q \in Injection(1 .. n, S)
    BY <1>2 DEF Injection, IsInjective
  <2>2. Cardinality(1 .. n) = Cardinality(S)
    BY <1>1, FS_Interval DEF n
  <2> QED
    BY <2>1, <2>2, FS_Injection
<1>5. \A x \in S : \E i \in 1 .. n : q[i] = x
  BY <1>4 DEF Surjection
<1> QED
  BY <1>1, <1>2, <1>3, <1>5 DEF n

\* When no two rows have the same stamp, the place of a row is the number of the
\* rows that are not older.
LEMMA RankIsPosition ==
  ASSUME NEW S, IsFiniteSet(S), NEW at, \A x \in S : at[x] \in Nat,
         \A x, y \in S : at[x] = at[y] => x = y,
         NEW q \in NewestFirst(S, at), NEW k \in 1 .. Len(q)
  PROVE  Cardinality({x \in S : at[x] >= at[q[k]]}) = k
<1> DEFINE T == {x \in S : at[x] >= at[q[k]]}
           g == [i \in 1 .. k |-> q[i]]
<1>1. /\ q \in Seq(S) /\ Len(q) \in Nat
      /\ \A i, j \in 1 .. Len(q) : i # j => q[i] # q[j]
      /\ \A x \in S : \E i \in 1 .. Len(q) : q[i] = x
      /\ \A i, j \in 1 .. Len(q) : i < j => at[q[i]] >= at[q[j]]
  BY ListingProperties
<1>2. \A i \in 1 .. k : i \in 1 .. Len(q) /\ q[i] \in S
  BY <1>1
<1>3. \A i \in 1 .. k : q[i] \in T
  <2> SUFFICES ASSUME NEW i \in 1 .. k PROVE at[q[i]] >= at[q[k]]
    BY <1>2
  <2>1. CASE i = k
    BY <1>2, <2>1
  <2>2. CASE i # k
    <3>1. i < k
      BY <2>2
    <3> QED
      BY <1>1, <1>2, <3>1
  <2> QED
    BY <2>1, <2>2
<1>4. \A x \in T : \E i \in 1 .. k : q[i] = x
  <2> SUFFICES ASSUME NEW x \in T PROVE \E i \in 1 .. k : q[i] = x
    OBVIOUS
  <2>1. PICK i \in 1 .. Len(q) : q[i] = x
    BY <1>1
  <2>2. CASE i > k
    <3>1. q[k] \in S /\ x \in S /\ at[x] >= at[q[k]]
      BY <1>2
    <3>4. at[q[k]] >= at[x]
      BY <1>1, <2>1, <2>2
    <3>2. at[x] = at[q[k]]
      BY <3>1, <3>4
    <3>3. x = q[k] /\ i # k
      BY <2>2, <3>1, <3>2
    <3> QED
      BY <1>1, <2>1, <3>3
  <2>3. CASE ~(i > k)
    <3>1. i \in 1 .. k
      BY <2>3
    <3> QED
      BY <2>1, <3>1
  <2> QED
    BY <2>2, <2>3
<1>5. g \in Bijection(1 .. k, T)
  <2>1. g \in [1 .. k -> T]
    BY <1>3
  <2>2. \A i, j \in 1 .. k : g[i] = g[j] => i = j
    BY <1>1, <1>2
  <2>3. \A x \in T : \E i \in 1 .. k : g[i] = x
    BY <1>4
  <2> HIDE DEF g, T
  <2> QED
    BY <2>1, <2>2, <2>3 DEF Bijection, Injection, Surjection, IsInjective
<1>6. IsFiniteSet(1 .. k) /\ Cardinality(1 .. k) = k
  BY FS_Interval
<1>7. ExistsBijection(1 .. k, T)
  BY <1>5 DEF ExistsBijection
<1> HIDE DEF T
<1>8. Cardinality(T) = k
  BY <1>6, <1>7, FS_Bijection
<1> QED
  BY <1>8 DEF T

\* The rows of a page: those from skip + 1 to skip + limit that there are.
LEMMA PageProperties ==
  ASSUME NEW S, NEW q \in Seq(S), NEW skip \in Nat, NEW limit \in Nat \ {0}, NEW rows,
         rows = SubSeq(q, skip + 1, Min({Len(q), skip + limit}))
  PROVE  /\ rows \in Seq(S)
         /\ \A k \in 1 .. Len(q) : skip < k /\ k <= skip + limit => q[k] \in Range(rows)
         /\ Len(rows) < limit => Len(q) < skip + limit
<1> DEFINE n == Len(q)
           m == Min({n, skip + limit})
<1>1. n \in Nat /\ m \in {n, skip + limit} /\ m <= n /\ m <= skip + limit
  <2>1. n \in Nat /\ skip + limit \in Nat
    OBVIOUS
  <2>2. \E x \in {n, skip + limit} : \A y \in {n, skip + limit} : x <= y
    <3>1. CASE n <= skip + limit
      BY <2>1, <3>1
    <3>2. CASE skip + limit <= n
      BY <2>1, <3>2
    <3> QED
      BY <2>1, <3>1, <3>2
  <2>3. m \in {n, skip + limit} /\ \A y \in {n, skip + limit} : m <= y
    BY <2>2, Zenon DEF Min
  <2> QED
    BY <2>1, <2>3
<1>2. \A i \in skip + 1 .. m : q[i] \in S
  BY <1>1
<1> HIDE DEF m
<1>3. /\ rows \in Seq(S)
      /\ Len(rows) = IF skip + 1 <= m THEN m - (skip + 1) + 1 ELSE 0
      /\ \A i \in 1 .. m - (skip + 1) + 1 : rows[i] = q[skip + 1 + i - 1]
  <2>1. rows = SubSeq(q, skip + 1, m) /\ skip + 1 \in Int /\ m \in Int
    BY <1>1 DEF m
  <2> HIDE DEF n
  <2> DEFINE a == skip + 1
             p == SubSeq(q, a, m)
  <2>2. rows = p /\ a \in Int /\ m \in Int /\ \A i \in a .. m : q[i] \in S
    BY <1>2, <2>1
  <2> HIDE DEF a
  <2>3. /\ p \in Seq(S) /\ Len(p) = IF a <= m THEN m - a + 1 ELSE 0
        /\ \A i \in 1 .. m - a + 1 : p[i] = q[a + i - 1]
    BY <2>2, SubSeqProperties
  <2> QED
    BY <2>2, <2>3 DEF a
<1>4. ASSUME NEW k \in 1 .. Len(q), skip < k, k <= skip + limit PROVE q[k] \in Range(rows)
  <2> DEFINE i == k - skip
  <2>1. k <= m /\ i \in 1 .. m - (skip + 1) + 1 /\ skip + 1 + i - 1 = k /\ skip + 1 <= m
    <3>1. k \in 1 .. n /\ n \in Nat
      BY <1>1
    <3> HIDE DEF n
    <3> QED
      BY <1>1, <1>4, <3>1
  <2>2. rows[i] = q[k] /\ Len(rows) = m - (skip + 1) + 1
    <3> HIDE DEF i, n
    <3>1. rows[i] = q[skip + 1 + i - 1]
      BY <1>3, <2>1
    <3>2. Len(rows) = m - (skip + 1) + 1
      BY <1>3, <2>1
    <3> QED
      BY <2>1, <3>1, <3>2, Zenon
  <2>3. i \in DOMAIN rows
    <3>1. DOMAIN rows = 1 .. Len(rows)
      BY <1>3
    <3> HIDE DEF i, n
    <3> QED
      BY <2>1, <2>2, <3>1
  <2> QED
    BY <2>2, <2>3 DEF Range
<1>5. ASSUME Len(rows) < limit PROVE n < skip + limit
  BY <1>1, <1>3, <1>5
<1> QED
  BY <1>3, <1>4, <1>5

-----------------------------------------------------------------------------
(* The walk. *)

Newer(s) == {t \in Matching : created[t] >= created[s]}
Rank(s) == Cardinality(Newer(s))
Distinct == \A s, t \in Matching : created[s] = created[t] => s = t

TariffRows == [service : Services \union {"none"}, at : Nat]
WalkFields == {"pc", "filter", "limit", "page", "owed", "rows", "prices"}

RowsOK ==
  /\ created \in [Services -> Nat] /\ DOMAIN kind = Services
  /\ tariff \in [Tariffs -> TariffRows]
  /\ DOMAIN walk = WalkFields /\ walk.pc \in {"idle", "page", "prices", "reply"}

\* A row that matched when the walk began and has not been seen is on the page
\* that is underway or behind it: inserted rows only push it to later pages.
\* Behind a short page there is nothing.
Ahead(s) ==
  \/ walk.pc = "page" /\ Rank(s) > Skip(walk.page, walk.limit)
  \/ walk.pc = "prices" /\ s \in Range(walk.rows)
  \/ walk.pc \in {"prices", "reply"} /\ ~Short /\ Rank(s) > walk.page * walk.limit

WalkOK ==
  walk.pc # "idle" =>
    /\ walk.limit \in Nat \ {0} /\ walk.page \in Nat \ {0}
    /\ walk.owed \subseteq Matching
    /\ walk.pc \in {"prices", "reply"} => walk.rows \in Seq(Services)
    /\ Distinct => \A s \in walk.owed : Ahead(s)

CatalogInv == RowsOK /\ WalkOK

LEMMA IdleWalk == DOMAIN Idle = WalkFields /\ Idle.pc = "idle" /\ Idle.page = 1 /\ Idle.owed = {}
BY DEF Idle, WalkFields

LEMMA NoTariffRow == NoTariff \in TariffRows /\ NoTariff.service = "none"
BY DEF NoTariff, TariffRows

LEMMA CatalogInit == Init => CatalogInv
<1> SUFFICES ASSUME Init PROVE CatalogInv
  OBVIOUS
<1>1. RowsOK
  BY IdleWalk, NoTariffRow DEF Init, RowsOK
<1>2. WalkOK
  BY IdleWalk DEF Init, WalkOK
<1> QED
  BY <1>1, <1>2 DEF CatalogInv

LEMMA MatchFinite == IsFiniteSet(Matching) /\ \A s : IsFiniteSet(Newer(s)) /\ Rank(s) \in Nat
<1>1. Matching \in SUBSET Services /\ \A s : Newer(s) \in SUBSET Services
  BY DEF Matching, Stored, Newer
<1>2. IsFiniteSet(Matching) /\ \A s : IsFiniteSet(Newer(s))
  BY <1>1, TablesAssumption, FS_Subset
<1> QED
  BY <1>2, FS_CardinalityType DEF Rank

\* A step of somebody else that overwrites no row of the listing: rows are added,
\* with any stamps, and a row that is owed is pushed on or stays.
LEMMA OthersKeep ==
  ASSUME CatalogInv, RowsOK', walk' = walk,
         Matching \subseteq Matching', \A s \in Matching : created'[s] = created[s]
  PROVE  CatalogInv'
<1>0. RowsOK /\ WalkOK
  BY DEF CatalogInv
<1>1. Distinct' => Distinct
  BY DEF Distinct
<1>2. \A s \in Matching : Rank(s) \in Nat /\ Rank(s)' \in Nat /\ Rank(s) <= Rank(s)'
  <2> SUFFICES ASSUME NEW s \in Matching PROVE Rank(s) \in Nat /\ Rank(s)' \in Nat /\ Rank(s) <= Rank(s)'
    OBVIOUS
  <2>1. Newer(s) \subseteq Newer(s)'
    BY DEF Newer
  <2>2. IsFiniteSet(Newer(s)') /\ Rank(s) \in Nat /\ Rank(s)' \in Nat
    <3>1. Newer(s)' \in SUBSET Services
      BY DEF Matching, Stored, Newer
    <3>2. IsFiniteSet(Newer(s)')
      BY <3>1, TablesAssumption, FS_Subset
    <3> QED
      BY <3>2, MatchFinite, FS_CardinalityType DEF Rank
  <2> QED
    BY <2>1, <2>2, FS_Subset DEF Rank
<1>3. WalkOK'
  <2> SUFFICES ASSUME walk.pc # "idle" PROVE WalkOK'
    BY DEF WalkOK
  <2>1. walk.owed \subseteq Matching /\ walk.limit \in Nat \ {0} /\ walk.page \in Nat \ {0}
    BY <1>0 DEF WalkOK
  <2>3. ASSUME Distinct', NEW s \in walk.owed PROVE Ahead(s)'
    <3>1. Ahead(s) /\ s \in Matching
      BY <1>0, <1>1, <2>1, <2>3 DEF WalkOK
    <3>2. Skip(walk.page, walk.limit) \in Int /\ walk.page * walk.limit \in Int
      BY <2>1 DEF Skip
    <3>3. \A n \in Int : Rank(s) > n => Rank(s)' > n
      BY <1>2, <3>1
    <3> QED
      BY <3>1, <3>2, <3>3 DEF Ahead, Short
  <2> QED
    BY <1>0, <2>1, <2>3 DEF WalkOK
<1> QED
  BY <1>3 DEF CatalogInv

\* POST /services inserts a row, leaves a row of the listing as it is, or
\* overwrites one, and then the walk is owed nothing.
LEMMA CreateServiceStep ==
  ASSUME CatalogInv, NEW s \in Services, NEW k, NEW at \in 1 .. MaxTime, CreateService(s, k, at)
  PROVE  CatalogInv'
<1>0. RowsOK /\ WalkOK /\ at \in Nat /\ at > 0
  BY LimitsAssumption DEF CatalogInv
<1>1. /\ created' = [created EXCEPT ![s] = at] /\ kind' = [kind EXCEPT ![s] = k]
      /\ tariff' = tariff
  BY DEF CreateService
<1>2. CASE s \in Matching /\ <<created[s], kind[s]>> # <<at, k>>
  <2>1. walk' = [walk EXCEPT !.owed = {}]
    BY <1>2 DEF CreateService
  <2>2. /\ DOMAIN walk' = WalkFields /\ walk'.pc = walk.pc /\ walk'.limit = walk.limit
        /\ walk'.page = walk.page /\ walk'.rows = walk.rows /\ walk'.owed = {}
    BY <1>0, <2>1 DEF RowsOK, WalkFields
  <2>3. RowsOK'
    BY <1>0, <1>1, <2>2 DEF RowsOK
  <2>4. WalkOK'
    BY <1>0, <2>2 DEF WalkOK
  <2> QED
    BY <2>3, <2>4 DEF CatalogInv
<1>3. CASE ~(s \in Matching /\ <<created[s], kind[s]>> # <<at, k>>)
  <2>1. walk' = walk
    BY <1>3 DEF CreateService
  <2>2. RowsOK'
    BY <1>0, <1>1, <2>1 DEF RowsOK
  <2>3. ASSUME NEW u \in Matching PROVE u \in Matching' /\ created'[u] = created[u]
    <3>1. u \in Services /\ created[u] > 0 /\ kind[u] \in walk.filter
      BY DEF Matching, Stored
    <3>2. created'[u] = created[u] /\ kind'[u] = kind[u]
      BY <1>0, <1>1, <1>3, <2>3, <3>1 DEF RowsOK
    <3> QED
      BY <2>1, <3>1, <3>2 DEF Matching, Stored
  <2> QED
    BY <2>1, <2>2, <2>3, OthersKeep
<1> QED
  BY <1>2, <1>3

LEMMA BeginStep ==
  ASSUME CatalogInv, NEW filter, NEW limit \in Limits, Begin(filter, limit)
  PROVE  CatalogInv'
<1> DEFINE owed == {s \in Stored : kind[s] \in filter}
           begun == [Idle EXCEPT !.pc = "page", !.filter = filter, !.limit = limit, !.owed = owed]
<1>0. RowsOK
  BY DEF CatalogInv
<1>1. walk' = begun /\ UNCHANGED <<created, kind, tariff>>
  BY DEF Begin, tables
<1>2. owed = {s \in Stored : kind[s] \in filter}
  OBVIOUS
<1> HIDE DEF owed
<1>3. /\ begun.pc = "page" /\ begun.filter = filter /\ begun.limit = limit /\ begun.owed = owed
      /\ begun.page = 1 /\ DOMAIN begun = WalkFields
  BY DEF Idle, WalkFields
<1> HIDE DEF begun
<1>4. Matching' = owed
  BY <1>1, <1>2, <1>3 DEF Matching, Stored
<1>5. ASSUME NEW s \in owed PROVE Rank(s)' > 0
  <2>1. s \in Newer(s)'
    <3>1. s \in Services /\ created[s] \in Nat
      BY <1>0, <1>2 DEF RowsOK, Stored
    <3> QED
      BY <1>1, <1>4, <3>1 DEF Newer
  <2>2. Newer(s)' \in SUBSET Services
    BY DEF Newer, Matching, Stored
  <2>3. IsFiniteSet(Newer(s)')
    BY <2>2, TablesAssumption, FS_Subset
  <2>4. Cardinality(Newer(s)') \in Nat /\ Cardinality(Newer(s)') # 0
    BY <2>1, <2>3, FS_CardinalityType, FS_EmptySet
  <2> QED
    BY <2>4 DEF Rank
<1>6. Skip(1, limit) = 0 /\ limit \in Nat \ {0}
  BY LimitsAssumption DEF Skip
<1>7. WalkOK'
  <2>1. \A s \in owed : Ahead(s)'
    BY <1>1, <1>3, <1>5, <1>6 DEF Ahead
  <2> QED
    BY <1>1, <1>3, <1>4, <1>6, <2>1 DEF WalkOK
<1>8. RowsOK'
  BY <1>0, <1>1, <1>3 DEF RowsOK
<1> QED
  BY <1>7, <1>8 DEF CatalogInv

\* (page - 1) * limit + limit = page * limit.
LEMMA SkipNext ==
  ASSUME NEW page \in Nat \ {0}, NEW limit \in Nat \ {0}
  PROVE  /\ Skip(page, limit) \in Nat /\ Skip(page, limit) + limit = page * limit
         /\ Skip(page + 1, limit) = page * limit /\ page * limit \in Nat
BY DEF Skip

LEMMA GetManyStep ==
  ASSUME CatalogInv, GetMany
  PROVE  CatalogInv'
<1> DEFINE skip == Skip(walk.page, walk.limit)
<1>0. RowsOK /\ WalkOK /\ walk.pc = "page"
  BY DEF CatalogInv, GetMany
<1>1. walk.limit \in Nat \ {0} /\ walk.page \in Nat \ {0} /\ walk.owed \subseteq Matching
  BY <1>0 DEF WalkOK
<1>2. PICK q \in NewestFirst(Matching, created) :
        walk' = [walk EXCEPT !.pc = "prices",
                             !.rows = SubSeq(q, skip + 1, Min({Len(q), skip + walk.limit}))]
  BY DEF GetMany
<1>3. UNCHANGED <<created, kind, tariff>>
  BY DEF GetMany, tables
<1> DEFINE rows == SubSeq(q, skip + 1, Min({Len(q), skip + walk.limit}))
<1>4. /\ q \in Seq(Matching) /\ Len(q) = Cardinality(Matching) /\ Len(q) \in Nat
      /\ \A x \in Matching : \E i \in 1 .. Len(q) : q[i] = x
  BY MatchFinite, ListingProperties
<1>5. /\ skip \in Nat /\ skip + walk.limit = walk.page * walk.limit
  BY <1>1, SkipNext
<1> HIDE DEF skip
<1>6. /\ rows \in Seq(Matching)
      /\ \A k \in 1 .. Len(q) : skip < k /\ k <= skip + walk.limit => q[k] \in Range(rows)
      /\ Len(rows) < walk.limit => Len(q) < skip + walk.limit
  BY <1>1, <1>4, <1>5, PageProperties
<1>7. walk' = [walk EXCEPT !.pc = "prices", !.rows = rows]
  BY <1>2
<1> HIDE DEF rows
<1>8. /\ walk'.pc = "prices" /\ walk'.rows = rows /\ DOMAIN walk' = WalkFields
      /\ walk'.filter = walk.filter /\ walk'.limit = walk.limit /\ walk'.page = walk.page
      /\ walk'.owed = walk.owed
  BY <1>0, <1>7 DEF RowsOK, WalkFields
<1>9. Matching' = Matching /\ (Distinct' <=> Distinct) /\ \A s : Rank(s)' = Rank(s)
  BY <1>3, <1>8 DEF Matching, Stored, Distinct, Rank, Newer
<1>10. ASSUME Distinct, NEW s \in walk.owed PROVE Ahead(s)'
  <2>1. s \in Matching /\ Rank(s) > skip
    BY <1>0, <1>1, <1>10 DEF WalkOK, Ahead, skip
  <2>2. PICK k \in 1 .. Len(q) : q[k] = s
    BY <1>4, <2>1
  <2>3. Rank(s) = k
    <3>1. \A x \in Matching : created[x] \in Nat
      BY <1>0 DEF RowsOK, Matching, Stored
    <3>2. \A x, y \in Matching : created[x] = created[y] => x = y
      BY <1>10 DEF Distinct, Matching
    <3>3. Cardinality({x \in Matching : created[x] >= created[q[k]]}) = k
      <4>1. IsFiniteSet(Matching)
        BY MatchFinite
      <4>2. q \in NewestFirst(Matching, created) /\ k \in 1 .. Len(q)
        OBVIOUS
      <4> QED
        BY <3>1, <3>2, <4>1, <4>2, RankIsPosition, SMTT(60)
    <3> QED
      BY <2>2, <3>3 DEF Rank, Newer
  <2>4. CASE k <= skip + walk.limit
    <3>1. s \in Range(rows)
      BY <1>6, <2>1, <2>2, <2>3, <2>4
    <3> QED
      BY <1>8, <3>1 DEF Ahead
  <2>5. CASE ~(k <= skip + walk.limit)
    <3>1. k > walk.page * walk.limit /\ ~(Len(q) < skip + walk.limit)
      BY <1>1, <1>4, <1>5, <2>5
    <3>2. ~Short'
      BY <1>6, <1>8, <3>1 DEF Short
    <3>3. Rank(s)' > walk'.page * walk'.limit
      BY <1>8, <1>9, <2>3, <3>1
    <3> QED
      BY <1>8, <3>2, <3>3 DEF Ahead
  <2> QED
    BY <2>4, <2>5
<1>11. rows \in Seq(Services)
  BY <1>6 DEF Matching, Stored
<1>12. WalkOK'
  BY <1>1, <1>8, <1>9, <1>10, <1>11 DEF WalkOK
<1>13. RowsOK'
  BY <1>0, <1>3, <1>8 DEF RowsOK
<1> QED
  BY <1>12, <1>13 DEF CatalogInv

LEMMA FindStep ==
  ASSUME CatalogInv, FindByServiceIds
  PROVE  CatalogInv'
<1> DEFINE owed == walk.owed \ Range(walk.rows)
<1>0. RowsOK /\ WalkOK /\ walk.pc = "prices"
  BY DEF CatalogInv, FindByServiceIds
<1>1. /\ walk.limit \in Nat \ {0} /\ walk.page \in Nat \ {0} /\ walk.owed \subseteq Matching
      /\ walk.rows \in Seq(Services)
  BY <1>0 DEF WalkOK
<1>2. PICK prices : walk' = [walk EXCEPT !.pc = "reply", !.owed = owed, !.prices = prices]
  BY DEF FindByServiceIds
<1>3. UNCHANGED <<created, kind, tariff>>
  BY DEF FindByServiceIds, tables
<1> HIDE DEF owed
<1>4. /\ walk'.pc = "reply" /\ walk'.owed = owed /\ DOMAIN walk' = WalkFields
      /\ walk'.filter = walk.filter /\ walk'.limit = walk.limit /\ walk'.page = walk.page
      /\ walk'.rows = walk.rows
  BY <1>0, <1>2 DEF RowsOK, WalkFields
<1>5. Matching' = Matching /\ (Distinct' <=> Distinct) /\ \A s : Rank(s)' = Rank(s)
  BY <1>3, <1>4 DEF Matching, Stored, Distinct, Rank, Newer
<1>6. ASSUME Distinct, NEW s \in owed PROVE Ahead(s)'
  <2>1. s \in walk.owed /\ s \notin Range(walk.rows)
    BY DEF owed
  <2>2. ~Short /\ Rank(s) > walk.page * walk.limit
    BY <1>0, <1>6, <2>1 DEF WalkOK, Ahead
  <2>3. ~Short'
    BY <1>4, <2>2 DEF Short
  <2> QED
    BY <1>4, <1>5, <2>2, <2>3 DEF Ahead
<1>7. WalkOK'
  <2>1. owed \subseteq Matching
    BY <1>1 DEF owed
  <2> QED
    BY <1>1, <1>4, <1>5, <1>6, <2>1 DEF WalkOK
<1>8. RowsOK'
  BY <1>0, <1>3, <1>4 DEF RowsOK
<1> QED
  BY <1>7, <1>8 DEF CatalogInv

\* Every service of the page has its tariffs, all of them, newest first.
PagePriced ==
  \A i \in DOMAIN walk'.rows :
    /\ Range(walk'.prices[i]) = TariffsOf(walk'.rows[i])
    /\ \A j, k \in DOMAIN walk'.prices[i] :
         j < k => tariff[walk'.prices[i][j]].at >= tariff[walk'.prices[i][k]].at

LEMMA FindPrices ==
  ASSUME CatalogInv, FindByServiceIds
  PROVE  PagePriced
<1> DEFINE at == [t \in Tariffs |-> tariff[t].at]
           priced == UNION {TariffsOf(s) : s \in Range(walk.rows)}
<1>0. RowsOK /\ WalkOK /\ walk.pc = "prices"
  BY DEF CatalogInv, FindByServiceIds
<1>1. /\ walk.limit \in Nat \ {0} /\ walk.page \in Nat \ {0} /\ walk.owed \subseteq Matching
      /\ walk.rows \in Seq(Services)
  BY <1>0 DEF WalkOK
<1>2. PICK q \in NewestFirst(priced, at) :
        walk' = [walk EXCEPT !.pc = "reply", !.owed = walk.owed \ Range(walk.rows),
                             !.prices = [i \in DOMAIN walk.rows |-> Grouped(q, walk.rows[i])]]
  BY DEF FindByServiceIds
<1>3. UNCHANGED <<created, kind, tariff>>
  BY DEF FindByServiceIds, tables
<1> DEFINE prices == [i \in DOMAIN walk.rows |-> Grouped(q, walk.rows[i])]
<1>4. walk' = [walk EXCEPT !.pc = "reply", !.owed = walk.owed \ Range(walk.rows), !.prices = prices]
  BY <1>2
<1>5. priced \in SUBSET Tariffs /\ IsFiniteSet(priced)
  <2>1. priced \in SUBSET Tariffs
    BY DEF TariffsOf
  <2> HIDE DEF priced
  <2> QED
    BY <2>1, TablesAssumption, FS_Subset
<1>6. /\ q \in Seq(priced)
      /\ \A x \in priced : \E i \in 1 .. Len(q) : q[i] = x
      /\ \A i, j \in 1 .. Len(q) : i < j => at[q[i]] >= at[q[j]]
  <2> HIDE DEF priced, at
  <2> QED
    BY <1>5, ListingProperties
<1>7. q \in Seq(Tariffs) /\ at \in [Tariffs -> Nat]
  <2>1. q \in Seq(Tariffs)
    <3> HIDE DEF priced
    <3> QED
      BY <1>5, <1>6
  <2>2. at \in [Tariffs -> Nat]
    BY <1>0 DEF RowsOK, TariffRows
  <2> QED
    BY <2>1, <2>2
<1>8. ASSUME NEW i \in DOMAIN walk.rows
      PROVE  /\ Grouped(q, walk.rows[i]) \in Seq(Tariffs)
             /\ Range(Grouped(q, walk.rows[i])) \subseteq TariffsOf(walk.rows[i])
             /\ TariffsOf(walk.rows[i]) \subseteq Range(Grouped(q, walk.rows[i]))
             /\ \A j, k \in DOMAIN Grouped(q, walk.rows[i]) :
                  j < k => tariff[Grouped(q, walk.rows[i])[j]].at >= tariff[Grouped(q, walk.rows[i])[k]].at
  <2> DEFINE s == walk.rows[i]
             r == Grouped(q, s)
  <2>1. TariffsOf(s) \subseteq priced
    BY DEF Range
  <2> HIDE DEF priced, at, s
  <2>2. /\ r \in Seq(Tariffs)
        /\ \A j \in 1 .. Len(r) : tariff[r[j]].service = s
        /\ \A n \in 1 .. Len(q) : tariff[q[n]].service = s => \E j \in 1 .. Len(r) : r[j] = q[n]
        /\ \A j, k \in 1 .. Len(r) : j < k => at[r[j]] >= at[r[k]]
    BY <1>6, <1>7, GroupedProperties
  <2> HIDE DEF r
  <2>3. DOMAIN r = 1 .. Len(r) /\ \A j \in 1 .. Len(r) : r[j] \in Tariffs
    BY <2>2
  <2>4. Range(r) \subseteq TariffsOf(s)
    BY <2>2, <2>3 DEF Range, TariffsOf
  <2>5. TariffsOf(s) \subseteq Range(r)
    <3> SUFFICES ASSUME NEW t \in TariffsOf(s) PROVE t \in Range(r)
      OBVIOUS
    <3>1. PICK n \in 1 .. Len(q) : q[n] = t
      BY <1>6, <2>1
    <3>2. tariff[q[n]].service = s
      BY <3>1 DEF TariffsOf
    <3>3. PICK j \in 1 .. Len(r) : r[j] = t
      BY <2>2, <3>1, <3>2
    <3> QED
      BY <2>3, <3>3 DEF Range
  <2>6. \A j, k \in DOMAIN r : j < k => tariff[r[j]].at >= tariff[r[k]].at
    BY <2>2, <2>3 DEF at
  <2> QED
    BY <2>2, <2>4, <2>5, <2>6 DEF r, s
<1> HIDE DEF prices, at, priced
<1>9. walk'.prices = prices /\ walk'.rows = walk.rows
  BY <1>0, <1>4 DEF RowsOK, WalkFields
<1>10. \A i \in DOMAIN walk.rows : walk'.prices[i] = Grouped(q, walk.rows[i])
  BY <1>9 DEF prices
<1> SUFFICES ASSUME NEW i \in DOMAIN walk.rows
             PROVE  /\ Range(walk'.prices[i]) = TariffsOf(walk.rows[i])
                    /\ \A j, k \in DOMAIN walk'.prices[i] :
                         j < k => tariff[walk'.prices[i][j]].at >= tariff[walk'.prices[i][k]].at
  BY <1>9 DEF PagePriced
<1> QED
  BY <1>8, <1>10

LEMMA NextPageStep ==
  ASSUME CatalogInv, NextPage
  PROVE  CatalogInv'
<1>0. RowsOK /\ WalkOK /\ walk.pc = "reply" /\ ~Short
  BY DEF CatalogInv, NextPage
<1>1. walk.limit \in Nat \ {0} /\ walk.page \in Nat \ {0} /\ walk.owed \subseteq Matching
  BY <1>0 DEF WalkOK
<1>2. /\ walk' = [walk EXCEPT !.pc = "page", !.page = walk.page + 1, !.rows = <<>>, !.prices = <<>>]
      /\ UNCHANGED <<created, kind, tariff>>
  BY DEF NextPage, tables
<1>4. /\ walk'.pc = "page" /\ walk'.page = walk.page + 1
      /\ DOMAIN walk' = WalkFields /\ walk'.filter = walk.filter /\ walk'.limit = walk.limit
      /\ walk'.owed = walk.owed
  BY <1>0, <1>2 DEF RowsOK, WalkFields
<1>5. Matching' = Matching /\ (Distinct' <=> Distinct) /\ \A s : Rank(s)' = Rank(s)
  BY <1>2, <1>4 DEF Matching, Stored, Distinct, Rank, Newer
<1>6. ASSUME Distinct, NEW s \in walk.owed PROVE Ahead(s)'
  <2>1. Rank(s) > walk.page * walk.limit
    BY <1>0, <1>6 DEF WalkOK, Ahead
  <2>2. Skip(walk'.page, walk'.limit) = walk.page * walk.limit
    BY <1>1, <1>4, SkipNext
  <2> QED
    BY <1>4, <1>5, <2>1, <2>2 DEF Ahead
<1>7. WalkOK'
  <2>1. walk'.page \in Nat \ {0}
    BY <1>1, <1>4
  <2> QED
    BY <1>1, <1>4, <1>5, <1>6, <2>1 DEF WalkOK
<1>8. RowsOK'
  BY <1>0, <1>2, <1>4 DEF RowsOK
<1> QED
  BY <1>7, <1>8 DEF CatalogInv

LEMMA CatalogStep == CatalogInv /\ [Next]_vars => CatalogInv'
<1> SUFFICES ASSUME CatalogInv, [Next]_vars PROVE CatalogInv'
  OBVIOUS
<1>0. RowsOK
  BY DEF CatalogInv
<1>1. ASSUME UNCHANGED <<created, kind, tariff, walk>> PROVE CatalogInv'
  <2>1. RowsOK' /\ Matching' = Matching
    BY <1>0, <1>1 DEF RowsOK, Matching, Stored
  <2> QED
    BY <1>1, <2>1, OthersKeep
<1>3. ASSUME NEW t \in Tariffs, NEW s \in Services, NEW at \in 1 .. MaxTime, CreateTariff(t, s, at)
      PROVE  CatalogInv'
  <2> DEFINE row == [service |-> s, at |-> at]
  <2>1. tariff' = [tariff EXCEPT ![t] = row] /\ UNCHANGED <<created, kind, walk>>
    BY <1>3 DEF CreateTariff
  <2>2. row \in TariffRows
    BY LimitsAssumption DEF TariffRows
  <2> HIDE DEF row
  <2>3. RowsOK' /\ Matching' = Matching
    BY <1>0, <2>1, <2>2 DEF RowsOK, Matching, Stored
  <2> QED
    BY <2>1, <2>3, OthersKeep
<1>4. CASE Leave
  <2>1. walk' = Idle /\ UNCHANGED <<created, kind, tariff>>
    BY <1>4 DEF Leave, tables
  <2>2. RowsOK' /\ WalkOK'
    BY <1>0, <2>1, IdleWalk DEF RowsOK, WalkOK
  <2> QED
    BY <2>2 DEF CatalogInv
<1>6. CASE ContractsNext /\ UNCHANGED <<tables, walk>>
  BY <1>1, <1>6 DEF tables
<1>7. CASE UNCHANGED vars
  BY <1>1, <1>7 DEF vars, tables
<1> QED
  BY <1>3, <1>4, <1>6, <1>7, CreateServiceStep, BeginStep, GetManyStep, FindStep, NextPageStep DEF Next

\* CatalogService.findAll: whoever reads every page has seen each service that
\* matched at the start, wherever rows are inserted meanwhile, when no row of the
\* listing is overwritten and no two have the same stamp; for every page size and
\* every number of services.
THEOREM WalkIsComplete == Spec => []WalkMissesNothing
<1>1. CatalogInv => WalkMissesNothing
  <2> SUFFICES ASSUME CatalogInv, walk.pc = "reply", Short, Distinct, NEW s \in walk.owed
               PROVE  FALSE
    BY DEF WalkMissesNothing, Distinct
  <2>1. Ahead(s)
    BY DEF CatalogInv, WalkOK
  <2> QED
    BY <2>1 DEF Ahead
<1> QED
  BY <1>1, CatalogInit, CatalogStep, PTL DEF Spec

\* PricingService.findByServiceIds: the loop gives each service of a page its own
\* tariffs, exactly those stored at the second query, newest first.
THEOREM PagesArePricedInFull == Spec => PricedInFull
<1> DEFINE Answered == walk.pc = "prices" /\ walk'.pc = "reply"
<1>1. CatalogInv /\ [Next]_vars => [Answered => PagePriced]_vars
  <2> SUFFICES ASSUME CatalogInv, Next, Answered PROVE FindByServiceIds
    BY FindPrices
  <2>1. DOMAIN walk = WalkFields
    BY DEF CatalogInv, RowsOK
  <2>2. ASSUME NEW s, NEW k, NEW at, CreateService(s, k, at) PROVE FALSE
    BY <2>1, <2>2 DEF CreateService, WalkFields
  <2>3. walk' # walk
    OBVIOUS
  <2> QED
    BY <2>2, <2>3 DEF Next, CreateTariff, Begin, GetMany, NextPage, Leave
<1>2. [Answered => PagePriced]_vars <=>
        [walk.pc = "prices" /\ walk'.pc = "reply" =>
           \A i \in DOMAIN walk'.rows :
             /\ Range(walk'.prices[i]) = TariffsOf(walk'.rows[i])
             /\ \A j, k \in DOMAIN walk'.prices[i] :
                  j < k => tariff[walk'.prices[i][j]].at >= tariff[walk'.prices[i][k]].at]_vars
  BY DEF PagePriced
<1> QED
  BY <1>1, <1>2, CatalogInit, CatalogStep, PTL DEF Spec, PricedInFull
=============================================================================
