---------------------------- MODULE RouteProofs ----------------------------
(***************************************************************************)
(* Proofs about Route, for every table of paths: the order of the table is *)
(* the only one sorting can give, and a request meets the most specific    *)
(* operation that fits it.                                                 *)
(***************************************************************************)
EXTENDS Route, FiniteSetTheorems, TLAPS

(* R puts every two members of S in one order.                             *)
StrictOrder(S, R) ==
    /\ \A x \in S : <<x, x>> \notin R
    /\ \A x, y \in S : x # y => <<x, y>> \in R \/ <<y, x>> \in R
    /\ \A x, y, z \in S : <<x, y>> \in R /\ <<y, z>> \in R => <<x, z>> \in R

(* How many go before a member tells the members of a finite set apart,    *)
(* and there is a member with each number below the cardinality.           *)
LEMMA NumbersOfMembers ==
    ASSUME NEW S, IsFiniteSet(S), NEW R, StrictOrder(S, R)
    PROVE  LET num(x) == Cardinality(Ahead(S, R, x)) IN
           /\ \A x \in S : num(x) \in 0 .. Cardinality(S) - 1
           /\ \A x, y \in S : <<x, y>> \in R <=> num(x) < num(y)
           /\ \A x, y \in S : num(x) = num(y) => x = y
           /\ \A k \in 0 .. Cardinality(S) - 1 : \E x \in S : num(x) = k
<1> DEFINE num(x) == Cardinality(Ahead(S, R, x))
           n == Cardinality(S)
           f == [x \in S |-> num(x)]
<1>1. n \in Nat
  BY FS_CardinalityType
<1>2. ASSUME NEW x \in S
      PROVE  IsFiniteSet(Ahead(S, R, x)) /\ num(x) \in 0 .. n - 1
  <2>1. Ahead(S, R, x) \in SUBSET (S \ {x})
    BY DEF StrictOrder, Ahead
  <2>2. IsFiniteSet(S \ {x}) /\ Cardinality(S \ {x}) = n - 1
    BY FS_RemoveElement
  <2>3. IsFiniteSet(Ahead(S, R, x)) /\ num(x) <= n - 1
    BY <2>1, <2>2, FS_Subset
  <2>4. num(x) \in Nat
    BY <2>3, FS_CardinalityType
  <2> QED
    BY <1>1, <2>3, <2>4
<1>3. ASSUME NEW x \in S, NEW y \in S, <<x, y>> \in R
      PROVE  num(x) < num(y)
  <2>1. Ahead(S, R, x) \in SUBSET Ahead(S, R, y)
    BY <1>3 DEF StrictOrder, Ahead
  <2>2. x \in Ahead(S, R, y) /\ x \notin Ahead(S, R, x)
    BY <1>3 DEF StrictOrder, Ahead
  <2>3. IsFiniteSet(Ahead(S, R, y)) /\ num(x) \in 0 .. n - 1 /\ num(y) \in 0 .. n - 1
    BY <1>2
  <2>4. num(x) <= num(y) /\ (num(y) = num(x) => Ahead(S, R, y) = Ahead(S, R, x))
    BY <2>1, <2>3, FS_Subset
  <2> HIDE DEF num, n
  <2> QED
    BY <1>1, <2>2, <2>3, <2>4
<1>4. ASSUME NEW x \in S, NEW y \in S
      PROVE  /\ <<x, y>> \in R <=> num(x) < num(y)
             /\ num(x) = num(y) => x = y
  <2>1. num(x) \in 0 .. n - 1 /\ num(y) \in 0 .. n - 1
    BY <1>2
  <2>2. /\ <<x, y>> \in R => num(x) < num(y)
        /\ <<y, x>> \in R => num(y) < num(x)
        /\ x # y => <<x, y>> \in R \/ <<y, x>> \in R
    BY <1>3 DEF StrictOrder
  <2> HIDE DEF num, n
  <2> QED
    BY <1>1, <2>1, <2>2
<1>5. f \in Injection(S, 0 .. n - 1)
  <2>1. f \in [S -> 0 .. n - 1]
    BY <1>2
  <2>2. \A x, y \in DOMAIN f : f[x] = f[y] => x = y
    BY <1>4
  <2> QED
    BY <2>1, <2>2 DEF Injection, IsInjective
<1>6. IsFiniteSet(0 .. n - 1) /\ Cardinality(0 .. n - 1) = n
  BY <1>1, FS_Interval
<1>7. f \in Surjection(S, 0 .. n - 1)
  BY <1>5, <1>6, FS_Injection
<1>8. \A k \in 0 .. n - 1 : \E x \in S : num(x) = k
  BY <1>7 DEF Surjection
<1> QED
  BY <1>2, <1>4, <1>8

(* InOrder lists every member once, the one that goes before first.        *)
LEMMA InOrderSorts ==
    ASSUME NEW S, IsFiniteSet(S), NEW R, StrictOrder(S, R)
    PROVE  LET s == InOrder(S, R) IN
           /\ s \in [1 .. Cardinality(S) -> S]
           /\ \A x \in S : \E k \in 1 .. Cardinality(S) : s[k] = x
           /\ \A j, k \in 1 .. Cardinality(S) : j < k <=> <<s[j], s[k]>> \in R
<1> DEFINE num(x) == Cardinality(Ahead(S, R, x))
           n == Cardinality(S)
           s == InOrder(S, R)
<1>1. n \in Nat
  BY FS_CardinalityType
<1>2. /\ \A x \in S : num(x) \in 0 .. n - 1
      /\ \A x, y \in S : <<x, y>> \in R <=> num(x) < num(y)
      /\ \A x, y \in S : num(x) = num(y) => x = y
      /\ \A k \in 0 .. n - 1 : \E x \in S : num(x) = k
  BY NumbersOfMembers
<1>3. s = [k \in 1 .. n |-> CHOOSE x \in S : num(x) = k - 1]
  BY DEF InOrder
<1> HIDE DEF num, n, s
<1>4. ASSUME NEW k \in 1 .. n
      PROVE  s[k] \in S /\ num(s[k]) = k - 1
  <2>1. k - 1 \in 0 .. n - 1
    BY <1>1
  <2>2. \E x \in S : num(x) = k - 1
    BY <1>2, <2>1
  <2>3. s[k] = CHOOSE x \in S : num(x) = k - 1
    BY <1>3
  <2> QED
    BY <2>2, <2>3
<1>5. s \in [1 .. n -> S]
  <2>1. DOMAIN s = 1 .. n /\ s = [k \in 1 .. n |-> s[k]]
    BY <1>3
  <2> QED
    BY <1>4, <2>1
<1>6. ASSUME NEW x \in S
      PROVE  \E k \in 1 .. n : s[k] = x
  <2>1. num(x) \in 0 .. n - 1
    BY <1>2
  <2>2. num(x) + 1 \in 1 .. n
    BY <1>1, <2>1
  <2>3. s[num(x) + 1] \in S /\ num(s[num(x) + 1]) = num(x)
    BY <1>4, <2>1, <2>2
  <2>4. s[num(x) + 1] = x
    BY <1>2, <2>3
  <2> QED
    BY <2>2, <2>4
<1>7. ASSUME NEW j \in 1 .. n, NEW k \in 1 .. n
      PROVE  j < k <=> <<s[j], s[k]>> \in R
  <2>1. num(s[j]) = j - 1 /\ num(s[k]) = k - 1 /\ s[j] \in S /\ s[k] \in S
    BY <1>4
  <2>2. <<s[j], s[k]>> \in R <=> num(s[j]) < num(s[k])
    BY <1>2, <2>1
  <2> QED
    BY <1>1, <2>1, <2>2
<1> QED
  BY <1>5, <1>6, <1>7 DEF n, s

(* Nothing but InOrder lists every member in order: what a sort returns    *)
(* does not depend on what it was given first.                             *)
LEMMA OneOrder ==
    ASSUME NEW S, IsFiniteSet(S), NEW R, StrictOrder(S, R),
           NEW s \in [1 .. Cardinality(S) -> S],
           \A j, k \in 1 .. Cardinality(S) : j < k => <<s[j], s[k]>> \in R
    PROVE  s = InOrder(S, R)
<1> DEFINE num(x) == Cardinality(Ahead(S, R, x))
           n == Cardinality(S)
<1>1. n \in Nat
  BY FS_CardinalityType
<1>2. /\ \A x \in S : num(x) \in 0 .. n - 1
      /\ \A x, y \in S : <<x, y>> \in R <=> num(x) < num(y)
      /\ \A x, y \in S : num(x) = num(y) => x = y
  BY NumbersOfMembers
<1>3. InOrder(S, R) = [k \in 1 .. n |-> CHOOSE x \in S : num(x) = k - 1]
  BY DEF InOrder
<1>4. \A j, k \in 1 .. n : s[j] = s[k] => j = k
  <2> SUFFICES ASSUME NEW j \in 1 .. n, NEW k \in 1 .. n, s[j] = s[k], j # k
               PROVE  FALSE
    OBVIOUS
  <2>1. j < k \/ k < j
    BY <1>1
  <2>2. <<s[j], s[j]>> \in R
    BY <2>1
  <2> QED
    BY <2>2 DEF StrictOrder
<1>5. s \in Injection(1 .. n, S)
  BY <1>4 DEF Injection, IsInjective
<1>6. IsFiniteSet(1 .. n) /\ Cardinality(1 .. n) = n
  BY <1>1, FS_Interval
<1>7. s \in Surjection(1 .. n, S)
  BY <1>5, <1>6, FS_Injection
<1>8. ASSUME NEW k \in 1 .. n
      PROVE  num(s[k]) = k - 1
  <2> DEFINE T == 1 .. k - 1
             A == Ahead(S, R, s[k])
             g == [j \in T |-> s[j]]
  <2>1. k \in Nat /\ T \subseteq 1 .. n
    BY <1>1
  <2>2. IsFiniteSet(T) /\ Cardinality(T) = k - 1
    BY <2>1, FS_Interval
  <2>3. g \in [T -> A]
    <3>1. ASSUME NEW j \in T
          PROVE  s[j] \in A
      BY <2>1 DEF Ahead
    <3> QED
      BY <3>1
  <2>4. g \in Injection(T, A)
    BY <2>1, <2>3, <1>4 DEF Injection, IsInjective
  <2>5. \A x \in A : \E j \in T : g[j] = x
    <3> TAKE x \in A
    <3>1. x \in S /\ <<x, s[k]>> \in R
      BY DEF Ahead
    <3>2. PICK j \in 1 .. n : s[j] = x
      BY <3>1, <1>7 DEF Surjection
    <3>3. j # k /\ ~ (k < j)
      BY <3>1, <3>2 DEF StrictOrder
    <3>4. j \in T
      BY <3>3, <1>1
    <3> QED
      BY <3>2, <3>4
  <2>6. g \in Bijection(T, A)
    BY <2>3, <2>4, <2>5 DEF Bijection, Surjection
  <2>7. Cardinality(A) = Cardinality(T)
    BY <2>2, <2>6, FS_Bijection DEF ExistsBijection
  <2> QED
    BY <2>2, <2>7
<1> HIDE DEF num, n
<1>9. ASSUME NEW k \in 1 .. n
      PROVE  InOrder(S, R)[k] = s[k]
  <2>1. s[k] \in S /\ num(s[k]) = k - 1
    BY <1>8 DEF n
  <2>2. \A x \in S : num(x) = k - 1 => x = s[k]
    BY <1>2, <2>1
  <2>3. InOrder(S, R)[k] = CHOOSE x \in S : num(x) = k - 1
    BY <1>3
  <2> QED
    BY <2>1, <2>2, <2>3
<1>10. DOMAIN s = 1 .. n /\ s = [k \in 1 .. n |-> s[k]]
  BY DEF n
<1>11. InOrder(S, R) = [k \in 1 .. n |-> InOrder(S, R)[k]]
  BY <1>3
<1> QED
  BY <1>9, <1>10, <1>11

(* A finite set of naturals that is not empty has a least member.          *)
LEMMA LeastMember ==
    ASSUME NEW S \in SUBSET Nat, IsFiniteSet(S), S # {}
    PROVE  Min(S) \in S /\ \A y \in S : Min(S) <= y
<1> DEFINE R == {r \in S \X S : r[1] < r[2]}
           s == InOrder(S, R)
<1>0. \A x, y \in S : <<x, y>> \in R <=> x < y
  OBVIOUS
<1> HIDE DEF R, s
<1>1. StrictOrder(S, R)
  BY <1>0 DEF StrictOrder
<1>2. Cardinality(S) \in Nat \ {0}
  BY FS_CardinalityType, FS_EmptySet
<1>3. /\ s \in [1 .. Cardinality(S) -> S]
      /\ \A x \in S : \E k \in 1 .. Cardinality(S) : s[k] = x
      /\ \A j, k \in 1 .. Cardinality(S) : j < k <=> <<s[j], s[k]>> \in R
  BY <1>1, InOrderSorts DEF s
<1>4. \A k \in 1 .. Cardinality(S) : s[1] <= s[k]
  <2> TAKE k \in 1 .. Cardinality(S)
  <2>1. s[1] \in S /\ s[k] \in S /\ s[1] \in Nat /\ s[k] \in Nat
    <3>1. s[1] \in S /\ s[k] \in S
      BY <1>2, <1>3
    <3> QED
      BY <3>1
  <2>2. CASE k = 1
    BY <2>1, <2>2
  <2>3. CASE k # 1
    <3>1. 1 \in 1 .. Cardinality(S) /\ 1 < k
      BY <1>2, <2>3
    <3>2. <<s[1], s[k]>> \in R
      BY <1>3, <3>1
    <3> QED
      BY <1>0, <2>1, <3>2
  <2> QED
    BY <2>2, <2>3
<1>5. s[1] \in S /\ \A y \in S : s[1] <= y
  BY <1>2, <1>3, <1>4
<1> QED
  BY <1>5 DEF Min

(* A place in a sequence without repetitions is a member's own.            *)
LEMMA RankType ==
    ASSUME NEW order, order \in Seq(ToSet(order)), IsInjective(order)
    PROVE  /\ \A x : Rank(order, x) \in Nat
           /\ \A x, y \in ToSet(order) : Rank(order, x) = Rank(order, y) => x = y
           /\ \A x \in ToSet(order) : Rank(order, x) # 0
<1>1. DOMAIN order = 1 .. Len(order) /\ Len(order) \in Nat
  OBVIOUS
<1>2. ASSUME NEW x \in ToSet(order)
      PROVE  Rank(order, x) \in DOMAIN order /\ order[Rank(order, x)] = x
  <2>1. \E i \in DOMAIN order : order[i] = x
    BY DEF ToSet
  <2>2. Rank(order, x) = CHOOSE i \in DOMAIN order : order[i] = x
    BY DEF Rank
  <2> QED
    BY <2>1, <2>2
<1>3. \A x : x \notin ToSet(order) => Rank(order, x) = 0
  BY DEF Rank
<1>4. \A x \in ToSet(order) : Rank(order, x) \in Nat \ {0}
  BY <1>1, <1>2
<1> QED
  BY <1>2, <1>3, <1>4

LEMMA SegmentRanks ==
    /\ \A x : Rank(SegmentOrder, x) \in Nat
    /\ \A x, y \in Segment : Rank(SegmentOrder, x) = Rank(SegmentOrder, y) => x = y
<1>1. /\ \A x : Rank(SegmentOrder, x) \in Nat
      /\ \A x, y \in ToSet(SegmentOrder) :
             Rank(SegmentOrder, x) = Rank(SegmentOrder, y) => x = y
      /\ \A x \in ToSet(SegmentOrder) : Rank(SegmentOrder, x) # 0
  BY RankType, RouteAssumption DEF RouteAssumption
<1>2. Rank(SegmentOrder, "") = 0
  BY RouteAssumption DEF Rank, RouteAssumption
<1> QED
  BY <1>1, <1>2 DEF Segment

LEMMA MethodRanks ==
    /\ \A x : Rank(MethodOrder, x) \in Nat
    /\ \A x, y \in ToSet(MethodOrder) : Rank(MethodOrder, x) = Rank(MethodOrder, y) => x = y
BY RankType, RouteAssumption DEF RouteAssumption

(* Paths are ordered as their texts are.                                   *)
LEMMA PathsAreOrdered ==
    /\ \A p \in Seq(Segment) : ~ PathBefore(p, p)
    /\ \A p, q \in Seq(Segment) : p # q => PathBefore(p, q) \/ PathBefore(q, p)
    /\ \A p, q, r \in Seq(Segment) :
           PathBefore(p, q) /\ PathBefore(q, r) => PathBefore(p, r)
<1> DEFINE rk(x) == Rank(SegmentOrder, x)
<1>1. /\ \A x : rk(x) \in Nat
      /\ \A x, y \in Segment : rk(x) = rk(y) => x = y
  BY SegmentRanks
<1>2. \A p, q : PathBefore(p, q) <=>
          \E i \in 1 .. Len(q) :
             /\ \A j \in 1 .. i - 1 : j <= Len(p) /\ p[j] = q[j]
             /\ i > Len(p) \/ rk(p[i]) < rk(q[i])
  BY DEF PathBefore
<1> HIDE DEF rk
<1>3. ASSUME NEW p \in Seq(Segment)
      PROVE  ~ PathBefore(p, p)
  <2> SUFFICES ASSUME NEW i \in 1 .. Len(p), i > Len(p) \/ rk(p[i]) < rk(p[i])
               PROVE  FALSE
    BY <1>2
  <2> QED
    BY <1>1
<1>4. ASSUME NEW p \in Seq(Segment), NEW q \in Seq(Segment), p # q
      PROVE  PathBefore(p, q) \/ PathBefore(q, p)
  <2> DEFINE D == {i \in 1 .. Len(p) + Len(q) :
                      \/ i <= Len(p) /\ i > Len(q)
                      \/ i <= Len(q) /\ i > Len(p)
                      \/ i <= Len(p) /\ i <= Len(q) /\ p[i] # q[i]}
             d == Min(D)
  <2>1. Len(p) \in Nat /\ Len(q) \in Nat
    OBVIOUS
  <2>2. D # {}
    <3> SUFFICES ASSUME D = {}
                 PROVE  FALSE
      OBVIOUS
    <3>1. Len(p) = Len(q)
      <4>1. CASE Len(p) < Len(q)
        <5>1. Len(q) \in D
          BY <2>1, <4>1
        <5> QED
          BY <5>1
      <4>2. CASE Len(q) < Len(p)
        <5>1. Len(p) \in D
          BY <2>1, <4>2
        <5> QED
          BY <5>1
      <4> QED
        BY <2>1, <4>1, <4>2
    <3>2. \A i \in 1 .. Len(p) : p[i] = q[i]
      <4> SUFFICES ASSUME NEW i \in 1 .. Len(p), p[i] # q[i]
                   PROVE  FALSE
        OBVIOUS
      <4>1. i \in D
        BY <2>1, <3>1
      <4> QED
        BY <4>1
    <3>3. p = q
      BY <3>1, <3>2
    <3> QED
      BY <3>3, <1>4
  <2>3. D \in SUBSET Nat /\ IsFiniteSet(D)
    <3>1. Len(p) + Len(q) \in Int
      BY <2>1
    <3>2. IsFiniteSet(1 .. Len(p) + Len(q))
      BY <3>1, FS_Interval
    <3>3. D \in SUBSET (1 .. Len(p) + Len(q))
      OBVIOUS
    <3>4. IsFiniteSet(D)
      BY <3>2, <3>3, FS_Subset
    <3> QED
      BY <2>1, <3>4
  <2>4. d \in D /\ \A i \in D : d <= i
    BY <2>2, <2>3, LeastMember
  <2>5. \A i \in 1 .. d - 1 : i <= Len(p) /\ i <= Len(q) /\ p[i] = q[i]
    <3> HIDE DEF d
    <3> TAKE i \in 1 .. d - 1
    <3>1. i \notin D /\ i \in 1 .. Len(p) + Len(q)
      BY <2>1, <2>4
    <3>2. d \in 1 .. Len(p) + Len(q) /\ (d <= Len(p) \/ d <= Len(q))
      BY <2>4
    <3> QED
      BY <2>1, <3>1, <3>2
  <2>6. d \in 1 .. Len(p) + Len(q)
    BY <2>4
  <2>7. CASE d <= Len(p) /\ d > Len(q)
    <3>1. d \in 1 .. Len(p)
      BY <2>1, <2>6, <2>7
    <3> HIDE DEF d, D
    <3> QED
      BY <1>2, <2>5, <2>7, <3>1
  <2>8. CASE d <= Len(q) /\ d > Len(p)
    <3>1. d \in 1 .. Len(q)
      BY <2>1, <2>6, <2>8
    <3> HIDE DEF d, D
    <3> QED
      BY <1>2, <2>5, <2>8, <3>1
  <2>9. CASE d <= Len(p) /\ d <= Len(q) /\ p[d] # q[d]
    <3>1. d \in 1 .. Len(p) /\ d \in 1 .. Len(q)
      BY <2>1, <2>6, <2>9
    <3> HIDE DEF d, D
    <3>2. p[d] \in Segment /\ q[d] \in Segment
      BY <3>1
    <3>3. rk(p[d]) < rk(q[d]) \/ rk(q[d]) < rk(p[d])
      BY <1>1, <2>9, <3>2
    <3> QED
      BY <1>2, <2>5, <3>1, <3>3
  <2> QED
    BY <2>4, <2>7, <2>8, <2>9
<1>5. ASSUME NEW p \in Seq(Segment), NEW q \in Seq(Segment), NEW r \in Seq(Segment),
             PathBefore(p, q), PathBefore(q, r)
      PROVE  PathBefore(p, r)
  <2>1. PICK i \in 1 .. Len(q) :
             /\ \A j \in 1 .. i - 1 : j <= Len(p) /\ p[j] = q[j]
             /\ i > Len(p) \/ rk(p[i]) < rk(q[i])
    BY <1>2, <1>5
  <2>2. PICK k \in 1 .. Len(r) :
             /\ \A j \in 1 .. k - 1 : j <= Len(q) /\ q[j] = r[j]
             /\ k > Len(q) \/ rk(q[k]) < rk(r[k])
    BY <1>2, <1>5
  <2>3. Len(p) \in Nat /\ Len(q) \in Nat /\ Len(r) \in Nat
    OBVIOUS
  <2>4. CASE i < k
    <3>1. i \in 1 .. Len(r) /\ q[i] = r[i]
      BY <2>2, <2>3, <2>4
    <3>2. \A j \in 1 .. i - 1 : j <= Len(p) /\ p[j] = r[j]
      BY <2>1, <2>2, <2>3, <2>4
    <3> QED
      BY <1>2, <2>1, <3>1, <3>2
  <2>5. CASE k < i
    <3>1. k <= Len(p) /\ p[k] = q[k] /\ k <= Len(q)
      BY <2>1, <2>3, <2>5
    <3>2. \A j \in 1 .. k - 1 : j <= Len(p) /\ p[j] = r[j]
      BY <2>1, <2>2, <2>3, <2>5
    <3>3. rk(p[k]) < rk(r[k])
      BY <2>2, <2>3, <3>1
    <3> QED
      BY <1>2, <3>2, <3>3
  <2>6. CASE i = k
    <3>1. \A j \in 1 .. k - 1 : j <= Len(p) /\ p[j] = r[j]
      BY <2>1, <2>2, <2>6
    <3>2. rk(q[k]) < rk(r[k])
      BY <2>2, <2>3, <2>6
    <3>3. k > Len(p) \/ rk(p[k]) < rk(r[k])
      BY <1>1, <2>1, <2>6, <3>2
    <3> QED
      BY <1>2, <3>1, <3>3
  <2> QED
    BY <2>4, <2>5, <2>6
<1> QED
  BY <1>3, <1>4, <1>5

LEMMA OneHasEachNumber ==
    ASSUME NEW S, IsFiniteSet(S), NEW R, StrictOrder(S, R), NEW k \in 0 .. Cardinality(S) - 1
    PROVE  \E x \in S : Cardinality(Ahead(S, R, x)) = k
  BY NumbersOfMembers

(* Of the places kept, one is the k-th.                                    *)
LEMMA KthPlace ==
    ASSUME NEW n \in Nat, NEW kept \in SUBSET (1 .. n)
    PROVE  /\ IsFiniteSet(kept) /\ Cardinality(kept) \in Nat
           /\ \A k \in 1 .. Cardinality(kept) : Place(kept, k) \in kept
<1> DEFINE R == {r \in kept \X kept : r[1] < r[2]}
<1>1. IsFiniteSet(kept) /\ Cardinality(kept) \in Nat
  <2>1. IsFiniteSet(1 .. n)
    BY FS_Interval
  <2> QED
    BY <2>1, FS_Subset, FS_CardinalityType
<1>2. \A i \in kept : i \in Nat \ {0}
  OBVIOUS
<1>3. \A x, y \in kept : <<x, y>> \in R <=> x < y
  OBVIOUS
<1> HIDE DEF R
<1>4. StrictOrder(kept, R)
  BY <1>2, <1>3 DEF StrictOrder
<1>5. ASSUME NEW k \in 1 .. Cardinality(kept)
      PROVE  \E i \in kept : Cardinality(kept \cap (1 .. i)) = k
  <2>1. PICK j \in 0 .. Cardinality(kept) - 1 : j + 1 = k
    <3>1. k \in Int /\ 1 <= k /\ k <= Cardinality(kept)
      BY <1>1
    <3>2. k - 1 \in 0 .. Cardinality(kept) - 1 /\ (k - 1) + 1 = k
      BY <1>1, <3>1
    <3> QED
      BY <3>2
  <2>2. PICK i \in kept : Cardinality(Ahead(kept, R, i)) = j
    BY <1>1, <1>4, OneHasEachNumber
  <2>3. kept \cap (1 .. i) = Ahead(kept, R, i) \cup {i} /\ i \notin Ahead(kept, R, i)
    <3>1. \A y \in kept : y \in Ahead(kept, R, i) <=> y < i
      BY <1>3 DEF Ahead
    <3>2. Ahead(kept, R, i) \subseteq kept
      BY DEF Ahead
    <3>3. \A y \in kept : y \in 1 .. i <=> y < i \/ y = i
      BY <1>2
    <3>4. ~ (i < i)
      BY <1>2
    <3> QED
      BY <3>1, <3>2, <3>3, <3>4
  <2>4. IsFiniteSet(Ahead(kept, R, i))
    BY <1>1, FS_Subset DEF Ahead
  <2>5. Cardinality(Ahead(kept, R, i) \cup {i}) = j + 1
    BY <2>2, <2>3, <2>4, FS_AddElement
  <2> QED
    BY <2>1, <2>3, <2>5
<1> QED
  BY <1>1, <1>5 DEF Place

(* Splitting a path yields its segments, the empty ones left out.          *)
LEMMA SplitType ==
    ASSUME NEW path \in Seq(Segment)
    PROVE  Split(path) \in Seq(ToSet(SegmentOrder))
<1> DEFINE kept == Kept(path)
<1>1. /\ DOMAIN path = 1 .. Len(path) /\ Len(path) \in Nat
      /\ \A i \in 1 .. Len(path) : path[i] \in Segment
  OBVIOUS
<1>2. \A i \in kept : path[i] \in ToSet(SegmentOrder)
  BY <1>1 DEF Segment, Kept
<1>3. kept \in SUBSET (1 .. Len(path))
  BY <1>1 DEF Kept
<1>4. Split(path) = IF kept = DOMAIN path THEN path ELSE [k \in 1 .. Cardinality(kept) |-> path[Place(kept, k)]]
  BY DEF Split
<1> HIDE DEF kept
<1>5. Cardinality(kept) \in Nat /\ \A k \in 1 .. Cardinality(kept) : Place(kept, k) \in kept
  BY <1>1, <1>3, KthPlace
<1>6. CASE kept = DOMAIN path
  BY <1>1, <1>2, <1>4, <1>6
<1>7. CASE kept # DOMAIN path
  <2>1. \A k \in 1 .. Cardinality(kept) : path[Place(kept, k)] \in ToSet(SegmentOrder)
    BY <1>2, <1>5
  <2> QED
    BY <1>4, <1>5, <1>7, <2>1
<1> QED
  BY <1>6, <1>7

(* How many placeholders a template has.                                   *)
LEMMA ParamCountType ==
    ASSUME NEW segs \in Seq(ToSet(SegmentOrder))
    PROVE  ParamCount(segs) \in Nat /\ IsFiniteSet({i \in DOMAIN segs : IsParam(segs[i])})
<1>1. IsFiniteSet(DOMAIN segs)
  BY FS_Interval
<1>2. IsFiniteSet({i \in DOMAIN segs : IsParam(segs[i])})
  BY <1>1, FS_Subset
<1> QED
  BY <1>2, FS_CardinalityType DEF ParamCount

(* The operations a table of paths documents.                              *)
AllOf(paths) == {rt \in RoutesOf(paths) : Documents(paths, rt)}

LEMMA AllOfType ==
    ASSUME NEW paths, Table(paths)
    PROVE  /\ IsFiniteSet(AllOf(paths))
           /\ AllOf(paths) \subseteq [path : Seq(Segment), method : ToSet(MethodOrder)]
<1> DEFINE pairs == (DOMAIN paths) \X ToSet(MethodOrder)
           f == [x \in pairs |-> [path |-> x[1], method |-> x[2]]]
<1>1. IsFiniteSet(ToSet(MethodOrder))
  <2>1. MethodOrder \in Seq(ToSet(MethodOrder))
    BY RouteAssumption DEF RouteAssumption
  <2>2. DOMAIN MethodOrder = 1 .. Len(MethodOrder) /\ Len(MethodOrder) \in Nat
    BY <2>1
  <2>3. IsFiniteSet(DOMAIN MethodOrder)
    BY <2>2, FS_Interval
  <2>4. MethodOrder \in Surjection(DOMAIN MethodOrder, ToSet(MethodOrder))
    BY <2>1, <2>2 DEF Surjection, ToSet
  <2> QED
    BY <2>3, <2>4, FS_Surjection
<1>2. IsFiniteSet(pairs)
  BY <1>1, FS_Product DEF Table
<1>3. f \in Surjection(pairs, RoutesOf(paths))
  <2>1. \A x \in pairs : f[x] \in RoutesOf(paths)
    BY DEF RoutesOf
  <2>2. ASSUME NEW rt \in RoutesOf(paths)
        PROVE  \E x \in pairs : f[x] = rt
    <3>1. PICK p \in DOMAIN paths, m \in ToSet(MethodOrder) : rt = [path |-> p, method |-> m]
      BY DEF RoutesOf
    <3>2. <<p, m>> \in pairs /\ f[<<p, m>>] = rt
      BY <3>1
    <3> QED
      BY <3>2
  <2> QED
    BY <2>1, <2>2 DEF Surjection
<1>4. IsFiniteSet(RoutesOf(paths))
  BY <1>2, <1>3, FS_Surjection
<1>5. AllOf(paths) \in SUBSET RoutesOf(paths)
  BY DEF AllOf
<1>6. IsFiniteSet(AllOf(paths))
  BY <1>4, <1>5, FS_Subset
<1>7. RoutesOf(paths) \subseteq [path : Seq(Segment), method : ToSet(MethodOrder)]
  BY DEF RoutesOf, Table
<1> QED
  BY <1>5, <1>6, <1>7

(* The order of the table is a strict total one: two operations never tie. *)
LEMMA RoutesAreOrdered ==
    ASSUME NEW paths, Table(paths)
    PROVE  LET R == {r \in AllOf(paths) \X AllOf(paths) : Before(r[1], r[2])} IN
           /\ \A a, b \in AllOf(paths) : <<a, b>> \in R <=> Before(a, b)
           /\ StrictOrder(AllOf(paths), R)
<1> DEFINE all == AllOf(paths)
           R == {r \in all \X all : Before(r[1], r[2])}
           len(a) == Len(Split(a.path))
           par(a) == ParamCount(Split(a.path))
           rk(a) == Rank(MethodOrder, a.method)
<1>1. \A a, b \in all : <<a, b>> \in R <=> Before(a, b)
  OBVIOUS
<1> HIDE DEF R
<1>2. \A a \in all : /\ len(a) \in Nat /\ par(a) \in Nat
                     /\ a.path \in Seq(Segment) /\ a.method \in ToSet(MethodOrder)
  <2> TAKE a \in all
  <2>1. /\ a.path \in Seq(Segment) /\ a.method \in ToSet(MethodOrder)
    BY AllOfType
  <2>2. Split(a.path) \in Seq(ToSet(SegmentOrder))
    BY <2>1, SplitType
  <2>3. len(a) \in Nat
    BY <2>2
  <2>4. par(a) \in Nat
    BY <2>2, ParamCountType
  <2> QED
    BY <2>1, <2>3, <2>4
<1>3. \A a, b \in all :
         Before(a, b) <=> \/ len(a) < len(b)
                          \/ len(a) = len(b) /\ par(a) < par(b)
                          \/ len(a) = len(b) /\ par(a) = par(b) /\ PathBefore(a.path, b.path)
                          \/ a.path = b.path /\ rk(a) < rk(b)
  BY DEF Before, Shape
<1>4. /\ \A a \in all : rk(a) \in Nat
      /\ \A a, b \in all : rk(a) = rk(b) => a.method = b.method
      /\ \A a, b \in all : a.path = b.path /\ a.method = b.method => a = b
  <2>1. \A a, b \in all : a.path = b.path /\ a.method = b.method => a = b
    BY AllOfType
  <2> QED
    BY <1>2, <2>1, MethodRanks
<1>5. \A a, b \in all : a.path = b.path => len(a) = len(b) /\ par(a) = par(b)
  OBVIOUS
<1> HIDE DEF all, len, par, rk
<1>6. /\ \A a \in all : ~ PathBefore(a.path, a.path)
      /\ \A a, b \in all : a.path # b.path => PathBefore(a.path, b.path) \/ PathBefore(b.path, a.path)
      /\ \A a, b, c \in all : PathBefore(a.path, b.path) /\ PathBefore(b.path, c.path)
                                  => PathBefore(a.path, c.path)
  BY <1>2, PathsAreOrdered
<1>7. \A a \in all : ~ Before(a, a)
  BY <1>2, <1>3, <1>4, <1>6
<1>8. ASSUME NEW a \in all, NEW b \in all, a # b
      PROVE  Before(a, b) \/ Before(b, a)
  <2>1. len(a) \in Nat /\ len(b) \in Nat /\ par(a) \in Nat /\ par(b) \in Nat
        /\ rk(a) \in Nat /\ rk(b) \in Nat
    BY <1>2, <1>4
  <2>2. CASE a.path = b.path
    <3>1. rk(a) # rk(b)
      BY <1>4, <1>8, <2>2
    <3>2. rk(a) < rk(b) \/ rk(b) < rk(a)
      BY <2>1, <3>1
    <3> QED
      BY <1>3, <2>2, <3>2
  <2>3. CASE a.path # b.path
    <3>1. PathBefore(a.path, b.path) \/ PathBefore(b.path, a.path)
      BY <1>6, <2>3
    <3> QED
      BY <1>3, <2>1, <3>1
  <2> QED
    BY <2>2, <2>3
<1>9. ASSUME NEW a \in all, NEW b \in all, NEW c \in all, Before(a, b), Before(b, c)
      PROVE  Before(a, c)
  <2>1. /\ len(a) \in Nat /\ len(b) \in Nat /\ len(c) \in Nat
        /\ par(a) \in Nat /\ par(b) \in Nat /\ par(c) \in Nat
        /\ rk(a) \in Nat /\ rk(b) \in Nat /\ rk(c) \in Nat
    BY <1>2, <1>4
  <2>2. \/ len(a) < len(b)
        \/ len(a) = len(b) /\ par(a) < par(b)
        \/ len(a) = len(b) /\ par(a) = par(b) /\ PathBefore(a.path, b.path)
        \/ len(a) = len(b) /\ par(a) = par(b) /\ a.path = b.path /\ rk(a) < rk(b)
    BY <1>3, <1>5, <1>9
  <2>3. \/ len(b) < len(c)
        \/ len(b) = len(c) /\ par(b) < par(c)
        \/ len(b) = len(c) /\ par(b) = par(c) /\ PathBefore(b.path, c.path)
        \/ len(b) = len(c) /\ par(b) = par(c) /\ b.path = c.path /\ rk(b) < rk(c)
    BY <1>3, <1>5, <1>9
  <2>4. PathBefore(a.path, b.path) /\ PathBefore(b.path, c.path) => PathBefore(a.path, c.path)
    BY <1>6
  <2>5. \/ len(a) < len(c)
        \/ len(a) = len(c) /\ par(a) < par(c)
        \/ len(a) = len(c) /\ par(a) = par(c) /\ PathBefore(a.path, c.path)
        \/ a.path = c.path /\ rk(a) < rk(c)
    BY <2>1, <2>2, <2>3, <2>4
  <2> QED
    BY <1>3, <2>5
<1>10. StrictOrder(all, R)
  BY <1>1, <1>7, <1>8, <1>9 DEF StrictOrder
<1> QED
  BY <1>1, <1>10 DEF R, all

(* Compile lists each documented operation once, shorter paths first, then *)
(* those with fewer placeholders, then by text (route.go, Compile).        *)
THEOREM TableIsSorted ==
    ASSUME NEW paths, Table(paths)
    PROVE  LET t == Compile(paths)
               n == Cardinality(AllOf(paths)) IN
           /\ n \in Nat /\ t \in [1 .. n -> AllOf(paths)]
           /\ \A rt \in AllOf(paths) : \E k \in 1 .. n : t[k] = rt
           /\ \A j, k \in 1 .. n : j < k <=> Before(t[j], t[k])
<1> DEFINE all == AllOf(paths)
           R == {r \in all \X all : Before(r[1], r[2])}
           t == Compile(paths)
           n == Cardinality(all)
<1>1. IsFiniteSet(all) /\ StrictOrder(all, R)
      /\ \A a, b \in all : <<a, b>> \in R <=> Before(a, b)
  BY AllOfType, RoutesAreOrdered
<1>2. t = InOrder(all, R)
  BY DEF Compile, AllOf
<1>3. n \in Nat
  BY <1>1, FS_CardinalityType
<1> HIDE DEF all, R, t
<1>4. /\ t \in [1 .. n -> all]
      /\ \A rt \in all : \E k \in 1 .. n : t[k] = rt
      /\ \A j, k \in 1 .. n : j < k <=> <<t[j], t[k]>> \in R
  BY <1>1, <1>2, InOrderSorts
<1>5. \A j, k \in 1 .. n : j < k <=> Before(t[j], t[k])
  BY <1>1, <1>4
<1> QED
  BY <1>3, <1>4, <1>5 DEF all, t

(* The table is the only one in that order: the same document gives the    *)
(* same table whatever order its maps are walked in, "so two operations    *)
(* that tie on shape still sort the same way every time" (route.go:56-57). *)
THEOREM TableIsTheOnlyOne ==
    ASSUME NEW paths, Table(paths),
           NEW s \in [1 .. Cardinality(AllOf(paths)) -> AllOf(paths)],
           \A j, k \in 1 .. Cardinality(AllOf(paths)) : j < k => Before(s[j], s[k])
    PROVE  s = Compile(paths)
<1> DEFINE all == AllOf(paths)
           R == {r \in all \X all : Before(r[1], r[2])}
<1>1. IsFiniteSet(all) /\ StrictOrder(all, R)
      /\ \A a, b \in all : <<a, b>> \in R <=> Before(a, b)
  BY AllOfType, RoutesAreOrdered
<1>2. Compile(paths) = InOrder(all, R)
  BY DEF Compile, AllOf
<1> HIDE DEF R
<1>3. \A j, k \in 1 .. Cardinality(all) : j < k => <<s[j], s[k]>> \in R
  BY <1>1
<1> HIDE DEF all
<1>4. s \in [1 .. Cardinality(all) -> all]
  BY DEF all
<1> QED
  BY <1>1, <1>2, <1>3, <1>4, OneOrder

(* Of two templates of one length the more specific one has fewer          *)
(* placeholders, and so goes before the other.                             *)
LEMMA MoreSpecificGoesBefore ==
    ASSUME NEW a \in [path : Seq(Segment), method : ToSet(MethodOrder)],
           NEW b \in [path : Seq(Segment), method : ToSet(MethodOrder)],
           MoreSpecific(a.path, b.path)
    PROVE  Before(a, b)
<1> DEFINE s == Split(a.path)
           t == Split(b.path)
           S == {i \in DOMAIN s : IsParam(s[i])}
           T == {i \in DOMAIN t : IsParam(t[i])}
<1>1. s \in Seq(ToSet(SegmentOrder)) /\ t \in Seq(ToSet(SegmentOrder))
  BY SplitType
<1>2. /\ Len(s) = Len(t)
      /\ \A i \in DOMAIN s : IsParam(s[i]) => IsParam(t[i])
      /\ \E i \in DOMAIN s : IsParam(t[i]) /\ ~ IsParam(s[i])
  BY DEF MoreSpecific
<1>3. ParamCount(s) \in Nat /\ ParamCount(t) \in Nat /\ IsFiniteSet(T)
  BY <1>1, ParamCountType
<1>4. ParamCount(s) = Cardinality(S) /\ ParamCount(t) = Cardinality(T)
  BY DEF ParamCount
<1> HIDE DEF s, t
<1>5. S \in SUBSET T /\ S # T
  <2>1. DOMAIN s = DOMAIN t
    BY <1>1, <1>2
  <2> QED
    BY <1>2, <2>1
<1> HIDE DEF S, T
<1>6. Cardinality(S) <= Cardinality(T) /\ Cardinality(S) # Cardinality(T)
  BY <1>3, <1>5, FS_Subset
<1>7. ParamCount(s) < ParamCount(t)
  BY <1>3, <1>4, <1>6
<1> QED
  BY <1>2, <1>7 DEF Before, Shape, s, t

(* A request meets the first operation that fits it: none when none fits,  *)
(* and every other that fits stands behind the one it meets (route.go,     *)
(* Match).                                                                 *)
THEOREM MatchIsFirst ==
    ASSUME NEW paths, Table(paths), NEW method, NEW path
    PROVE  LET rt  == Match(Compile(paths), method, path)
               fit == {r \in AllOf(paths) : Fits(r, method, path)} IN
           /\ fit = {} => rt = << >>
           /\ fit # {} => \E first \in fit :
                             rt = <<first>> /\ \A r \in fit \ {first} : Before(first, r)
<1> DEFINE t == Compile(paths)
           n == Cardinality(AllOf(paths))
           at == {i \in DOMAIN t : Fits(t[i], method, path)}
           fit == {r \in AllOf(paths) : Fits(r, method, path)}
           i0 == Min(at)
<1>1. /\ n \in Nat /\ t \in [1 .. n -> AllOf(paths)]
      /\ \A rt \in AllOf(paths) : \E k \in 1 .. n : t[k] = rt
      /\ \A j, k \in 1 .. n : j < k <=> Before(t[j], t[k])
  BY TableIsSorted
<1>2. Match(t, method, path) = IF at = {} THEN << >> ELSE <<t[i0]>>
  BY DEF Match
<1> HIDE DEF t, n
<1>3. at = {} <=> fit = {}
  <2>1. \A i \in at : t[i] \in fit
    BY <1>1
  <2>2. \A r \in fit : \E i \in at : t[i] = r
    BY <1>1
  <2> QED
    BY <2>1, <2>2
<1>4. ASSUME at # {}
      PROVE  i0 \in at /\ \A i \in at : i0 <= i
  <2>1. IsFiniteSet(1 .. n) /\ at \in SUBSET (1 .. n)
    BY <1>1, FS_Interval
  <2>2. at \in SUBSET Nat
    BY <1>1, <2>1
  <2> HIDE DEF at
  <2>3. IsFiniteSet(at)
    BY <2>1, FS_Subset
  <2> QED
    BY <1>4, <2>2, <2>3, LeastMember
<1> HIDE DEF i0
<1>5. ASSUME fit # {}
      PROVE  /\ t[i0] \in fit
             /\ \A r \in fit \ {t[i0]} : Before(t[i0], r)
  <2>1. i0 \in at /\ \A i \in at : i0 <= i
    BY <1>3, <1>4, <1>5
  <2>2. i0 \in 1 .. n /\ t[i0] \in fit
    BY <1>1, <2>1
  <2>3. ASSUME NEW r \in fit \ {t[i0]}
        PROVE  Before(t[i0], r)
    <3>1. PICK i \in 1 .. n : t[i] = r
      BY <1>1
    <3>2. i \in at /\ i # i0
      BY <1>1, <3>1
    <3>3. i0 < i
      BY <1>1, <2>1, <2>2, <3>2
    <3> QED
      BY <1>1, <2>2, <3>1, <3>3
  <2> QED
    BY <2>2, <2>3
<1> QED
  BY <1>2, <1>3, <1>5 DEF t

(* Whatever the paths of a document, a request meets an operation exactly  *)
(* when one fits it, and none that fits is more specific: "/users/me is    *)
(* preferred over /users/{id} whatever order the document's maps happen to *)
(* iterate in" (route.go:31-33).                                           *)
THEOREM RequestsMeetTheMostSpecific ==
    ASSUME NEW paths, Table(paths), NEW method, NEW path
    PROVE  MostSpecific(paths, Compile(paths), method, path)
<1> DEFINE rt  == Match(Compile(paths), method, path)
           fit == {r \in AllOf(paths) : Fits(r, method, path)}
<1>1. fit = {r \in RoutesOf(paths) : Documents(paths, r) /\ Fits(r, method, path)}
  BY DEF AllOf
<1>2. /\ fit = {} => rt = << >>
      /\ fit # {} => \E first \in fit :
                        rt = <<first>> /\ \A r \in fit \ {first} : Before(first, r)
  BY MatchIsFirst
<1>3. fit \subseteq AllOf(paths)
  OBVIOUS
<1> HIDE DEF rt, fit
<1>4. SUFFICES ASSUME fit # {}
               PROVE  rt # << >> /\ rt[1] \in fit
                      /\ \A r \in fit : ~ MoreSpecific(r.path, rt[1].path)
  BY <1>1, <1>2 DEF MostSpecific, rt
<1>5. PICK first \in fit : rt = <<first>> /\ \A r \in fit \ {first} : Before(first, r)
  BY <1>2, <1>4
<1>6. ASSUME NEW r \in fit, MoreSpecific(r.path, first.path)
      PROVE  FALSE
  <2>1. Before(r, first)
    BY <1>3, <1>6, AllOfType, MoreSpecificGoesBefore
  <2>2. ~ Before(r, r) /\ (Before(r, first) /\ Before(first, r) => Before(r, r))
    BY <1>3, RoutesAreOrdered DEF StrictOrder
  <2>3. r # first
    BY <2>1, <2>2
  <2> QED
    BY <1>5, <2>1, <2>2, <2>3
<1> QED
  BY <1>5, <1>6
=============================================================================
