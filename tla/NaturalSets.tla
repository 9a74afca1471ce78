---------------------------- MODULE NaturalSets ----------------------------
(***************************************************************************)
(* Facts about Min and Max on sets of natural numbers, prefixes of bounded *)
(* size, parts of sequences, and counts and orders of finite sets, that    *)
(* the proofs of the other modules cite.                                   *)
(***************************************************************************)
EXTENDS Positions, Sequences, FiniteSetsExt, FiniteSetTheorems, SequenceTheorems, TLAPS

\* Every nonempty set of natural numbers has a least element, and Min is it.
LEMMA LeastElement ==
  ASSUME NEW S \in SUBSET Nat, S # {}
  PROVE  Min(S) \in S /\ \A y \in S : Min(S) <= y
<1> DEFINE T == {0..x : x \in S}
<1>1. IsWellFoundedOn(StrictSubsetOrdering(Nat), FiniteSubsetsOf(Nat))
  BY FS_StrictSubsetOrderingWellFounded
<1>2. T \subseteq FiniteSubsetsOf(Nat) /\ T # {}
  <2>1. \A x \in S : IsFiniteSet(0..x) /\ 0..x \subseteq Nat
    BY FS_Interval
  <2>2. QED
    BY <2>1 DEF FiniteSubsetsOf
<1>3. PICK I \in T : \A J \in T : ~(<<J, I>> \in StrictSubsetOrdering(Nat))
  BY <1>1, <1>2, WFMin
<1>4. PICK x \in S : I = 0..x
  OBVIOUS
<1>5. ASSUME NEW y \in S, y < x PROVE FALSE
  <2>1. 0..y \in T /\ 0..y \subseteq 0..x /\ x \in 0..x /\ x \notin 0..y
    BY <1>5
  <2>2. <<0..y, 0..x>> \in StrictSubsetOrdering(Nat)
    BY <2>1 DEF StrictSubsetOrdering
  <2>3. QED
    BY <1>3, <1>4, <2>1, <2>2
<1>6. \A y \in S : x =< y
  BY <1>5
<1>7. QED
  BY <1>6 DEF Min

\* Every nonempty set of naturals bounded by n has a greatest element: Max.
LEMMA GreatestElement ==
  ASSUME NEW n \in Nat, NEW S \in SUBSET (0..n), S # {}
  PROVE  Max(S) \in S /\ \A y \in S : y <= Max(S)
<1> DEFINE T == {n - x : x \in S}
<1>1. T \in SUBSET Nat /\ T # {}
  <2>1. \A x \in S : n - x \in Nat
    OBVIOUS
  <2>2. PICK x \in S : TRUE
    OBVIOUS
  <2>3. QED
    BY <2>1, <2>2
<1>2. PICK x \in S : Min(T) = n - x
  BY <1>1, LeastElement
<1>3. \A y \in S : x >= y
  <2>1. \A y \in S : n - y \in T
    OBVIOUS
  <2>2. \A z \in T : n - x <= z
    BY <1>1, <1>2, LeastElement
  <2>3. ASSUME NEW y \in S PROVE x >= y
    <3>1. n - x <= n - y
      BY <2>1, <2>2
    <3>2. x \in Nat /\ y \in Nat
      OBVIOUS
    <3>3. QED
      BY <3>1, <3>2
  <2>4. QED
    BY <2>3
<1>4. QED
  BY <1>3 DEF Max

\* Whoever has fewer than n elements of S below it, so has every element of S
\* below it: the n smallest elements of S are a prefix of S.
LEMMA SmallestArePrefix ==
  ASSUME NEW S, IsFiniteSet(S), S \subseteq Nat, NEW n \in Nat,
         NEW d \in S, NEW e \in S, d < e,
         Cardinality({c \in S : c < e}) < n
  PROVE  Cardinality({c \in S : c < d}) < n
<1> DEFINE D == {c \in S : c < d}
           E == {c \in S : c < e}
<1>1. IsFiniteSet(E)
  BY FS_Subset
<1>2. D \in SUBSET E
  <2>1. \A c \in S : c < d => c < e
    <3>1. d \in Nat /\ e \in Nat /\ \A c \in S : c \in Nat
      OBVIOUS
    <3>2. QED
      BY <3>1
  <2>2. QED
    BY <2>1
<1>3. Cardinality(D) <= Cardinality(E) /\ Cardinality(D) \in Nat /\ Cardinality(E) \in Nat
  BY <1>1, <1>2, FS_Subset, FS_CardinalityType
<1>4. QED
  BY <1>3

-----------------------------------------------------------------------------
\* Counting what is not after it numbers the elements of a finite set in any
\* total order R of it: every number up to its size is used exactly once.
LEMMA RanksNumber ==
  ASSUME NEW S, IsFiniteSet(S), NEW R,
         \A x \in S : <<x, x>> \notin R,
         \A x, y \in S : x = y \/ <<x, y>> \in R \/ <<y, x>> \in R,
         \A x, y, z \in S : <<x, y>> \in R /\ <<y, z>> \in R => <<x, z>> \in R,
         NEW rank,
         rank = [x \in S |-> Cardinality({y \in S : y = x \/ <<y, x>> \in R})]
  PROVE  /\ \A x \in S : rank[x] \in 1 .. Cardinality(S)
         /\ \A x, y \in S : rank[x] < rank[y] <=> <<x, y>> \in R
         /\ \A x, y \in S : rank[x] = rank[y] => x = y
         /\ \A k \in 1 .. Cardinality(S) : \E x \in S : rank[x] = k
<1> DEFINE Upto(x) == {y \in S : y = x \/ <<y, x>> \in R}
           n == Cardinality(S)
<1>1. \A x \in S : rank[x] = Cardinality(Upto(x))
  OBVIOUS
<1>2. \A x \in S : Upto(x) \in SUBSET S /\ x \in Upto(x)
  OBVIOUS
<1>3. n \in Nat
  BY FS_CardinalityType
<1>4. \A x \in S : IsFiniteSet(Upto(x)) /\ rank[x] \in Nat /\ rank[x] <= n /\ rank[x] # 0
  <2>1. TAKE x \in S
  <2>2. IsFiniteSet(Upto(x)) /\ Cardinality(Upto(x)) <= n
    BY <1>2, FS_Subset
  <2>3. Cardinality(Upto(x)) \in Nat
    BY <2>2, FS_CardinalityType
  <2>4. Cardinality(Upto(x)) # 0
    BY <1>2, <2>2, FS_EmptySet
  <2>5. QED
    BY <1>1, <2>2, <2>3, <2>4
<1>5. ASSUME NEW x \in S, NEW y \in S, <<x, y>> \in R PROVE rank[x] < rank[y]
  <2>1. Upto(x) \in SUBSET Upto(y)
    BY <1>5
  <2>2. y \in Upto(y) /\ y \notin Upto(x)
    BY <1>5
  <2>3. Cardinality(Upto(x)) <= Cardinality(Upto(y))
    BY <1>4, <2>1, FS_Subset
  <2>4. Cardinality(Upto(x)) # Cardinality(Upto(y))
    BY <1>4, <2>1, <2>2, FS_Subset
  <2>5. QED
    BY <1>1, <1>4, <2>3, <2>4
<1>6. ASSUME NEW x \in S, NEW y \in S, rank[x] = rank[y] PROVE x = y
  <2>1. rank[x] \in Nat /\ ~(rank[x] < rank[y]) /\ ~(rank[y] < rank[x])
    BY <1>4, <1>6
  <2>2. <<x, y>> \notin R /\ <<y, x>> \notin R
    BY <1>5, <2>1
  <2>3. QED
    BY <2>2, Zenon
<1>7. ASSUME NEW x \in S, NEW y \in S, rank[x] < rank[y] PROVE <<x, y>> \in R
  <2>1. rank[x] \in Nat /\ rank[y] \in Nat
    BY <1>4
  <2>2. ~(rank[y] < rank[x]) /\ rank[x] # rank[y]
    BY <1>7, <2>1
  <2>3. <<y, x>> \notin R /\ x # y
    BY <1>5, <2>2
  <2>4. QED
    BY <2>3, Zenon
<1>8. \A k \in 1 .. n : \E x \in S : rank[x] = k
  <2>1. rank \in Injection(S, 1 .. n)
    <3>1. rank \in [S -> 1 .. n]
      BY <1>3, <1>4
    <3>2. QED
      BY <1>6, <3>1 DEF Injection, IsInjective
  <2>2. IsFiniteSet(1 .. n) /\ Cardinality(1 .. n) = n
    BY <1>3, FS_Interval
  <2>3. rank \in Surjection(S, 1 .. n)
    BY <2>1, <2>2, FS_Injection
  <2>4. QED
    BY <2>3 DEF Surjection
<1>9. \A x \in S : rank[x] \in 1 .. n
  BY <1>3, <1>4
<1>10. \A x, y \in S : rank[x] < rank[y] <=> <<x, y>> \in R
  BY <1>5, <1>7
<1>11. QED
  BY <1>6, <1>8, <1>9, <1>10

\* The k-th smallest is one of the set, later for a greater k, and every
\* element is the k-th for some k.
LEMMA NthFacts ==
  ASSUME NEW S \in SUBSET Nat, IsFiniteSet(S)
  PROVE  /\ Cardinality(S) \in Nat
         /\ \A k \in 1 .. Cardinality(S) : Nth(S, k) \in S
         /\ \A k, l \in 1 .. Cardinality(S) : k < l => Nth(S, k) < Nth(S, l)
         /\ \A i \in S : \E k \in 1 .. Cardinality(S) : Nth(S, k) = i
<1> DEFINE R == {p \in S \X S : p[1] < p[2]}
           rank == [x \in S |-> Cardinality({y \in S : y = x \/ <<y, x>> \in R})]
<1>1. \A x, y \in S : <<x, y>> \in R <=> x < y
  OBVIOUS
<1>2. \A x \in S : x \in Nat
  OBVIOUS
<1>3. /\ \A x \in S : rank[x] \in 1 .. Cardinality(S)
      /\ \A x, y \in S : rank[x] < rank[y] <=> <<x, y>> \in R
      /\ \A x, y \in S : rank[x] = rank[y] => x = y
      /\ \A k \in 1 .. Cardinality(S) : \E x \in S : rank[x] = k
  <2>1. \A x \in S : <<x, x>> \notin R
    BY <1>1, <1>2
  <2>2. \A x, y \in S : x = y \/ <<x, y>> \in R \/ <<y, x>> \in R
    <3>1. \A x, y \in S : x = y \/ x < y \/ y < x
      BY <1>2
    <3>2. QED
      BY <1>1, <3>1
  <2>3. \A x, y, z \in S : <<x, y>> \in R /\ <<y, z>> \in R => <<x, z>> \in R
    BY <1>1, <1>2
  <2> HIDE DEF R
  <2>4. \A f : f = [x \in S |-> Cardinality({y \in S : y = x \/ <<y, x>> \in R})] =>
          /\ \A x \in S : f[x] \in 1 .. Cardinality(S)
          /\ \A x, y \in S : f[x] < f[y] <=> <<x, y>> \in R
          /\ \A x, y \in S : f[x] = f[y] => x = y
          /\ \A k \in 1 .. Cardinality(S) : \E x \in S : f[x] = k
    BY <2>1, <2>2, <2>3, RanksNumber
  <2>5. QED
    BY <2>4
<1>4. ASSUME NEW x \in S PROVE rank[x] = Cardinality({j \in S : j <= x})
  <2>1. \A y \in S : y <= x <=> y = x \/ y < x
    BY <1>2
  <2>2. \A y \in S : y <= x <=> y = x \/ <<y, x>> \in R
    BY <1>1, <2>1
  <2> HIDE DEF R
  <2>3. {j \in S : j <= x} = {y \in S : y = x \/ <<y, x>> \in R}
    BY <2>2
  <2>4. QED
    BY <2>3
<1> HIDE DEF R, rank
<1>5. ASSUME NEW k \in 1 .. Cardinality(S)
      PROVE  Nth(S, k) \in S /\ rank[Nth(S, k)] = k
  <2>1. \E x \in S : Cardinality({j \in S : j <= x}) = k
    BY <1>3, <1>4
  <2>2. Nth(S, k) \in S /\ Cardinality({j \in S : j <= Nth(S, k)}) = k
    BY <2>1 DEF Nth
  <2>3. QED
    BY <1>4, <2>2
<1>6. Cardinality(S) \in Nat
  BY FS_CardinalityType
<1>7. \A k, l \in 1 .. Cardinality(S) : k < l => Nth(S, k) < Nth(S, l)
  BY <1>1, <1>3, <1>5
<1>8. \A i \in S : \E k \in 1 .. Cardinality(S) : Nth(S, k) = i
  BY <1>3, <1>5
<1>9. QED
  BY <1>5, <1>6, <1>7, <1>8

\* What is kept of a sequence: its elements at these positions, in order.
LEMMA KeepAtFacts ==
  ASSUME NEW T, NEW seq \in Seq(T), NEW S \in SUBSET DOMAIN seq
  PROVE  /\ KeepAt(seq, S) \in Seq(T)
         /\ IsFiniteSet(S)
         /\ Len(KeepAt(seq, S)) = Cardinality(S)
         /\ \A k \in DOMAIN KeepAt(seq, S) : Nth(S, k) \in S /\ KeepAt(seq, S)[k] = seq[Nth(S, k)]
         /\ \A k, l \in DOMAIN KeepAt(seq, S) : k < l => Nth(S, k) < Nth(S, l)
         /\ \A i \in S : \E k \in DOMAIN KeepAt(seq, S) : Nth(S, k) = i /\ KeepAt(seq, S)[k] = seq[i]
<1>1. DOMAIN seq = 1 .. Len(seq) /\ Len(seq) \in Nat
  BY LenProperties
<1>2. S \in SUBSET Nat /\ IsFiniteSet(S)
  <2>1. IsFiniteSet(1 .. Len(seq))
    BY <1>1, FS_Interval
  <2>2. IsFiniteSet(S)
    BY <1>1, <2>1, FS_Subset
  <2>3. QED
    BY <1>1, <2>2
<1>3. /\ Cardinality(S) \in Nat
      /\ \A k \in 1 .. Cardinality(S) : Nth(S, k) \in S
      /\ \A k, l \in 1 .. Cardinality(S) : k < l => Nth(S, k) < Nth(S, l)
      /\ \A i \in S : \E k \in 1 .. Cardinality(S) : Nth(S, k) = i
  BY <1>2, NthFacts
<1>4. \A k \in 1 .. Cardinality(S) : seq[Nth(S, k)] \in T
  BY <1>1, <1>3, ElementOfSeq
<1>5. KeepAt(seq, S) \in [1 .. Cardinality(S) -> T]
  BY <1>4 DEF KeepAt
<1>6. KeepAt(seq, S) \in Seq(T) /\ Len(KeepAt(seq, S)) = Cardinality(S)
  BY <1>3, <1>5
<1>7. DOMAIN KeepAt(seq, S) = 1 .. Cardinality(S)
  BY <1>5
<1>8. \A k \in 1 .. Cardinality(S) : KeepAt(seq, S)[k] = seq[Nth(S, k)]
  BY DEF KeepAt
<1>9. QED
  BY <1>2, <1>3, <1>6, <1>7, <1>8

-----------------------------------------------------------------------------
(* Counting and ordering. *)

\* What is left of a finite set.
LEMMA CountRest ==
  ASSUME NEW S, IsFiniteSet(S), NEW T \in SUBSET S
  PROVE  /\ Cardinality(S \ T) = Cardinality(S) - Cardinality(T)
         /\ Cardinality(S) \in Nat /\ Cardinality(T) \in Nat /\ Cardinality(S \ T) \in Nat
<1> DEFINE U == S \ T
<1>1. U \in SUBSET S /\ U \cup T = S /\ U \cap T = {}
  OBVIOUS
<1> HIDE DEF U
<1>2. IsFiniteSet(U) /\ IsFiniteSet(T)
  BY <1>1, FS_Subset
<1>3. Cardinality(U \cup T) = Cardinality(U) + Cardinality(T) - Cardinality(U \cap T)
  BY <1>2, FS_Union
<1>4. Cardinality(U \cap T) = 0
  BY <1>1, FS_EmptySet
<1>5. Cardinality(U) \in Nat /\ Cardinality(T) \in Nat /\ Cardinality(S) \in Nat
  BY <1>2, FS_CardinalityType
<1>6. Cardinality(S) = Cardinality(U) + Cardinality(T)
  BY <1>1, <1>3, <1>4, <1>5
<1>7. QED
  BY <1>5, <1>6 DEF U

\* A set falls into parts when each of its elements is in exactly one.
FallsInto(S, K, part) ==
  /\ S = UNION {part[x] : x \in K}
  /\ \A x, y \in K : part[x] \cap part[y] # {} => x = y

\* As many pairs as the numbers add up to.
Pairs(K, n) == UNION {{x} \X (1 .. n[x]) : x \in K}

\* Counted part by part, and pair by pair, a finite set is as large.
LEMMA CountParts ==
  ASSUME NEW S, IsFiniteSet(S), NEW K, NEW part, FallsInto(S, K, part),
         NEW n, \A x \in K : n[x] = Cardinality(part[x])
  PROVE  IsFiniteSet(Pairs(K, n)) /\ Cardinality(Pairs(K, n)) = Cardinality(S)
<1> DEFINE P == Pairs(K, n)
           numbers(x) == Bijection(1 .. n[x], part[x])
           g == [x \in K |-> CHOOSE f : f \in numbers(x)]
           h == [p \in P |-> g[p[1]][p[2]]]
<1>1. \A x \in K : g[x] \in numbers(x)
  <2>1. TAKE x \in K
  <2>2. IsFiniteSet(part[x])
    <3>1. part[x] \in SUBSET S
      BY DEF FallsInto
    <3>2. QED
      BY <3>1, FS_Subset
  <2>3. ExistsBijection(1 .. n[x], part[x])
    BY <2>2, FS_CardinalityType
  <2>4. \E f : f \in numbers(x)
    BY <2>3, Zenon DEF ExistsBijection
  <2>5. QED
    BY <2>4
<1>2. \A x \in K : /\ g[x] \in [1 .. n[x] -> part[x]]
                   /\ \A i, j \in 1 .. n[x] : g[x][i] = g[x][j] => i = j
                   /\ \A v \in part[x] : \E i \in 1 .. n[x] : g[x][i] = v
  <2> HIDE DEF g
  <2>1. TAKE x \in K
  <2>2. g[x] \in Bijection(1 .. n[x], part[x])
    BY <1>1
  <2>3. QED
    BY <2>2 DEF Bijection, Injection, Surjection, IsInjective
<1> HIDE DEF g, numbers
<1>3. \A p \in P : p[1] \in K /\ p[2] \in 1 .. n[p[1]] /\ p = <<p[1], p[2]>>
  BY DEF Pairs
<1>4. \A x \in K : \A i \in 1 .. n[x] : <<x, i>> \in P /\ <<x, i>>[1] = x /\ <<x, i>>[2] = i
  BY DEF Pairs
<1> HIDE DEF P
<1>5. \A p \in P : h[p] \in part[p[1]] /\ h[p] = g[p[1]][p[2]]
  <2>1. TAKE p \in P
  <2>2. h[p] = g[p[1]][p[2]]
    OBVIOUS
  <2>3. p[1] \in K /\ p[2] \in 1 .. n[p[1]]
    BY <1>3
  <2>4. g[p[1]][p[2]] \in part[p[1]]
    BY <1>2, <2>3
  <2>5. QED
    BY <2>2, <2>4
<1>6. h \in [P -> S]
  <2>1. \A p \in P : h[p] \in S
    BY <1>3, <1>5 DEF FallsInto
  <2>2. QED
    BY <2>1
<1>7. \A p, q \in P : h[p] = h[q] => p = q
  <2>1. TAKE p, q \in P
  <2>2. HAVE h[p] = h[q]
  <2>3. p[1] = q[1]
    BY <1>3, <1>5, <2>2 DEF FallsInto
  <2>4. p[2] = q[2]
    BY <1>2, <1>3, <1>5, <2>2, <2>3
  <2>5. QED
    BY <1>3, <2>3, <2>4
<1>8. \A v \in S : \E p \in P : h[p] = v
  <2>1. TAKE v \in S
  <2>2. PICK x \in K : v \in part[x]
    BY DEF FallsInto
  <2>3. PICK i \in 1 .. n[x] : g[x][i] = v
    BY <1>2, <2>2
  <2>4. <<x, i>> \in P /\ <<x, i>>[1] = x /\ <<x, i>>[2] = i
    BY <1>4
  <2>5. h[<<x, i>>] = v
    BY <1>5, <2>3, <2>4
  <2>6. QED
    BY <2>4, <2>5
<1> HIDE DEF h
<1>9. h \in Bijection(P, S)
  BY <1>6, <1>7, <1>8 DEF Bijection, Injection, Surjection, IsInjective
<1>10. h \in Injection(P, S)
  BY <1>9 DEF Bijection
<1>11. IsFiniteSet(P)
  BY <1>10, FS_Injection
<1>12. ExistsBijection(P, S)
  BY <1>9, Zenon DEF ExistsBijection
<1>13. QED
  BY <1>11, <1>12, FS_Bijection DEF P

\* The values of a function on a finite set, in order.
InOrderOf(S, g) ==
  [k \in 1 .. Cardinality(S) |->
     CHOOSE v \in {g[x] : x \in S} : /\ Cardinality({x \in S : g[x] < v}) < k
                                     /\ Cardinality({x \in S : g[x] <= v}) >= k]

\* They are values of the function, and do not decrease.
LEMMA OrderedFacts ==
  ASSUME NEW S, IsFiniteSet(S), NEW g \in [S -> Nat], NEW o, o = InOrderOf(S, g)
  PROVE  /\ o = [k \in 1 .. Cardinality(S) |-> o[k]] /\ Cardinality(S) \in Nat
         /\ \A k \in 1 .. Cardinality(S) : /\ o[k] \in Nat /\ \E x \in S : g[x] = o[k]
                                           /\ \A l \in 1 .. k : o[l] <= o[k]
<1> DEFINE n == Cardinality(S)
           below(v) == {x \in S : g[x] < v}
           upto(v) == {x \in S : g[x] <= v}
           Placed(v, k) == Cardinality(below(v)) < k /\ Cardinality(upto(v)) >= k
<1>1. \A x \in S : g[x] \in Nat
  OBVIOUS
<1>2. n \in Nat
  BY FS_CardinalityType
<1>3. \A v : /\ below(v) \in SUBSET S /\ upto(v) \in SUBSET S
             /\ Cardinality(below(v)) \in Nat /\ Cardinality(upto(v)) \in Nat
             /\ IsFiniteSet(below(v)) /\ IsFiniteSet(upto(v))
  <2>1. TAKE v
  <2>2. below(v) \in SUBSET S /\ upto(v) \in SUBSET S
    OBVIOUS
  <2> HIDE DEF below, upto
  <2>3. IsFiniteSet(below(v)) /\ IsFiniteSet(upto(v))
    BY <2>2, FS_Subset
  <2>4. QED
    BY <2>2, <2>3, FS_CardinalityType
<1>4. PICK top \in Nat : \A x \in S : g[x] <= top
  <2> DEFINE V == {g[x] : x \in S}
  <2>1. V \in SUBSET Nat
    BY <1>1
  <2>2. IsFiniteSet(V)
    <3>1. g \in Surjection(S, V)
      BY DEF Surjection
    <3>2. QED
      BY <3>1, FS_Surjection
  <2>3. \A x \in S : g[x] \in V
    OBVIOUS
  <2> HIDE DEF V
  <2>4. /\ Cardinality(V) \in Nat
        /\ \A k \in 1 .. Cardinality(V) : Nth(V, k) \in V
        /\ \A k, l \in 1 .. Cardinality(V) : k < l => Nth(V, k) < Nth(V, l)
        /\ \A i \in V : \E k \in 1 .. Cardinality(V) : Nth(V, k) = i
    BY <2>1, <2>2, NthFacts
  <2>5. CASE Cardinality(V) = 0
    BY <2>3, <2>4, <2>5
  <2>6. CASE Cardinality(V) # 0
    <3> DEFINE m == Nth(V, Cardinality(V))
    <3>1. Cardinality(V) \in 1 .. Cardinality(V)
      BY <2>4, <2>6
    <3>2. m \in Nat
      BY <2>1, <2>4, <3>1
    <3>3. \A i \in V : i <= m
      <4>1. TAKE i \in V
      <4>2. PICK k \in 1 .. Cardinality(V) : Nth(V, k) = i
        BY <2>4
      <4>3. k = Cardinality(V) \/ k < Cardinality(V)
        BY <2>4
      <4>4. i \in Nat
        BY <2>1
      <4>5. i = m \/ i < m
        BY <2>4, <3>1, <4>2, <4>3
      <4>6. QED
        BY <3>2, <4>4, <4>5
    <3>4. QED
      BY <2>3, <3>2, <3>3
  <2>7. QED
    BY <2>5, <2>6
<1>5. ASSUME NEW k \in 1 .. n PROVE \E x \in S : Placed(g[x], k)
  <2> DEFINE T == {v \in Nat : Cardinality(upto(v)) >= k}
             v == Min(T)
  <2>1. top \in T
    <3>1. upto(top) = S
      BY <1>4
    <3>2. QED
      BY <1>2, <3>1
  <2>2. v \in T /\ \A w \in T : v <= w
    <3>1. T \in SUBSET Nat /\ T # {}
      BY <2>1
    <3> HIDE DEF T
    <3>2. QED
      BY <3>1, LeastElement
  <2> HIDE DEF v
  <2>3. v \in Nat /\ Cardinality(upto(v)) >= k
    BY <2>2
  <2>4. Cardinality(below(v)) < k
    <3>1. CASE v = 0
      <4>1. below(v) = {}
        BY <1>1, <3>1
      <4>2. QED
        BY <4>1, FS_EmptySet
    <3>2. CASE v # 0
      <4>1. v - 1 \in Nat /\ ~(v <= v - 1)
        BY <2>3, <3>2
      <4>2. v - 1 \notin T
        BY <2>2, <4>1
      <4>3. below(v) = upto(v - 1)
        BY <1>1, <2>3
      <4> HIDE DEF below, upto
      <4>4. ~(Cardinality(upto(v - 1)) >= k)
        BY <4>1, <4>2
      <4>5. QED
        BY <1>3, <4>3, <4>4
    <3>3. QED
      BY <3>1, <3>2
  <2>5. \E x \in S : g[x] = v
    <3>1. below(v) # upto(v)
      BY <1>3, <2>3, <2>4
    <3>2. QED
      BY <1>1, <2>3, <3>1
  <2> HIDE DEF below, upto
  <2>6. QED
    BY <2>3, <2>4, <2>5
<1>6. o = [k \in 1 .. n |-> CHOOSE v \in {g[x] : x \in S} : Placed(v, k)]
  BY DEF InOrderOf
<1>7. \A v, w \in Nat : v < w => Cardinality(upto(v)) <= Cardinality(below(w))
  <2>1. TAKE v, w \in Nat
  <2>2. HAVE v < w
  <2>3. upto(v) \in SUBSET below(w)
    BY <1>1, <2>2
  <2> HIDE DEF below, upto
  <2>4. QED
    BY <1>3, <2>3, FS_Subset
<1> HIDE DEF below, upto
<1>8. \A k \in 1 .. n : o[k] \in {g[x] : x \in S} /\ Placed(o[k], k)
  <2>1. TAKE k \in 1 .. n
  <2>2. \E v \in {g[x] : x \in S} : Placed(v, k)
    BY <1>5
  <2> HIDE DEF Placed
  <2>3. o[k] = CHOOSE v \in {g[x] : x \in S} : Placed(v, k)
    BY <1>6
  <2>4. QED
    BY <2>2, <2>3
<1>9. \A k \in 1 .. n : o[k] \in Nat /\ \E x \in S : g[x] = o[k]
  BY <1>1, <1>8
<1>10. ASSUME NEW k \in 1 .. n, NEW l \in 1 .. k PROVE o[l] <= o[k]
  <2>1. l \in 1 .. n /\ o[l] \in Nat /\ o[k] \in Nat
    BY <1>2, <1>9
  <2>2. Placed(o[l], l) /\ Placed(o[k], k)
    BY <1>8, <2>1
  <2>3. ~(o[k] < o[l])
    <3>1. ASSUME o[k] < o[l] PROVE FALSE
      <4>1. Cardinality(upto(o[k])) <= Cardinality(below(o[l]))
        BY <1>7, <2>1, <3>1
      <4>2. Cardinality(upto(o[k])) >= k /\ Cardinality(below(o[l])) < l
        BY <2>2
      <4>3. /\ Cardinality(upto(o[k])) \in Nat /\ Cardinality(below(o[l])) \in Nat
            /\ k \in Nat /\ l \in Nat /\ l <= k
        BY <1>2, <1>3
      <4>4. QED
        BY <4>1, <4>2, <4>3
    <3>2. QED
      BY <3>1
  <2>4. QED
    BY <2>1, <2>3
<1>11. o = [k \in 1 .. n |-> o[k]]
  BY <1>6
<1>12. QED
  BY <1>2, <1>9, <1>10, <1>11

\* Between two values in order, more of the second is more.
LEMMA Interpolates ==
  ASSUME NEW a \in Nat, NEW b \in Nat, a <= b, NEW w \in 0 .. 20, NEW z \in 0 .. 20, w <= z
  PROVE  /\ 20 * a <= a * (20 - w) + b * w
         /\ a * (20 - w) + b * w <= a * (20 - z) + b * z
         /\ a * (20 - w) + b * w <= 20 * b
<1> DEFINE d == b - a
<1>1. d \in Nat /\ b = a + d
  OBVIOUS
<1> HIDE DEF d
<1>2. w \in Nat /\ z \in Nat
  OBVIOUS
<1>3. \A u \in 0 .. 20 : a * (20 - u) + b * u = 20 * a + d * u
  <2>1. TAKE u \in 0 .. 20
  <2>2. u \in Nat
    OBVIOUS
  <2>3. a * (20 - u) = 20 * a - a * u
    BY <2>2
  <2>4. b * u = a * u + d * u
    BY <1>1, <2>2
  <2>5. a * u \in Nat /\ d * u \in Nat /\ 20 * a \in Nat
    BY <1>1, <2>2
  <2>6. QED
    BY <2>3, <2>4, <2>5
<1>4. 0 <= d * w /\ d * w <= d * z /\ d * w <= d * 20
  BY <1>1, <1>2
<1>5. d * w \in Nat /\ d * z \in Nat /\ 20 * a \in Nat /\ 20 * b = 20 * a + d * 20
  BY <1>1, <1>2
<1>6. QED
  BY <1>3, <1>4, <1>5

\* There are finitely many pairs, and not fewer for greater numbers.
LEMMA PairsGrow ==
  ASSUME NEW K, IsFiniteSet(K), NEW f \in [K -> Nat], NEW g \in [K -> Nat],
         \A x \in K : f[x] <= g[x]
  PROVE  Cardinality(Pairs(K, f)) <= Cardinality(Pairs(K, g))
<1> DEFINE row(x) == {x} \X (1 .. g[x])
           all == {row(x) : x \in K}
           h == [x \in K |-> row(x)]
<1>1. IsFiniteSet(all)
  <2>1. h \in Surjection(K, all)
    BY DEF Surjection
  <2>2. QED
    BY <2>1, FS_Surjection
<1>2. \A T \in all : IsFiniteSet(T)
  <2>1. ASSUME NEW x \in K PROVE IsFiniteSet(row(x))
    <3> DEFINE b == [i \in 1 .. g[x] |-> <<x, i>>]
    <3>1. IsFiniteSet(1 .. g[x])
      BY FS_Interval
    <3>2. b \in [1 .. g[x] -> row(x)]
      OBVIOUS
    <3>3. \A p \in row(x) : \E i \in 1 .. g[x] : b[i] = p
      <4>1. TAKE p \in row(x)
      <4>2. PICK i \in 1 .. g[x] : p = <<x, i>>
        OBVIOUS
      <4>3. QED
        BY <4>2
    <3> HIDE DEF b, row
    <3>4. b \in Surjection(1 .. g[x], row(x))
      BY <3>2, <3>3 DEF Surjection
    <3>5. QED
      BY <3>1, <3>4, FS_Surjection
  <2>2. QED
    BY <2>1
<1>3. IsFiniteSet(UNION all)
  BY <1>1, <1>2, FS_UNION
<1>4. IsFiniteSet(Pairs(K, g))
  BY <1>3 DEF Pairs
<1>5. Pairs(K, f) \in SUBSET Pairs(K, g)
  <2>1. \A x \in K : 1 .. f[x] \subseteq 1 .. g[x]
    BY DEF Pairs
  <2>2. QED
    BY <2>1 DEF Pairs
<1>6. QED
  BY <1>4, <1>5, FS_Subset

\* Four numbers, compared with four others.
Under(a, b, c, i, d, e, f, j) ==
  \/ a < d
  \/ a = d /\ b < e
  \/ a = d /\ b = e /\ c < f
  \/ a = d /\ b = e /\ c = f /\ i < j

\* That order is strict and total.
LEMMA UnderFacts ==
  ASSUME NEW a \in Nat, NEW b \in Nat, NEW c \in Nat, NEW i \in Nat,
         NEW d \in Nat, NEW e \in Nat, NEW f \in Nat, NEW j \in Nat
  PROVE  /\ ~Under(a, b, c, i, a, b, c, i)
         /\ i = j \/ Under(a, b, c, i, d, e, f, j) \/ Under(d, e, f, j, a, b, c, i)
  BY DEF Under

\* It is transitive.
LEMMA UnderTransitive ==
  ASSUME NEW a \in Nat, NEW b \in Nat, NEW c \in Nat, NEW i \in Nat,
         NEW d \in Nat, NEW e \in Nat, NEW f \in Nat, NEW j \in Nat,
         NEW u \in Nat, NEW v \in Nat, NEW w \in Nat, NEW k \in Nat,
         Under(a, b, c, i, d, e, f, j), Under(d, e, f, j, u, v, w, k)
  PROVE  Under(a, b, c, i, u, v, w, k)
  BY DEF Under

\* The elements of two sets, one for one.
Matches(S, h, P) ==
  /\ \A i \in S : h[i] \in P
  /\ \A i, j \in S : h[i] = h[j] => i = j
  /\ \A p \in P : \E i \in S : h[i] = p

\* Matched, parts of them are as large.
LEMMA MatchedCounts ==
  ASSUME NEW S, IsFiniteSet(S), NEW h, NEW P, Matches(S, h, P),
         NEW A \in SUBSET S, NEW B \in SUBSET P, \A i \in S : i \in A <=> h[i] \in B
  PROVE  IsFiniteSet(B) /\ Cardinality(B) = Cardinality(A)
<1> DEFINE f == [i \in A |-> h[i]]
<1>1. f \in Bijection(A, B)
  <2>1. f \in [A -> B] /\ \A i \in A : f[i] = h[i]
    OBVIOUS
  <2> HIDE DEF f
  <2>2. \A i, j \in A : f[i] = f[j] => i = j
    BY <2>1 DEF Matches
  <2>3. \A p \in B : \E i \in A : f[i] = p
    <3>1. TAKE p \in B
    <3>2. PICK i \in S : h[i] = p
      BY DEF Matches
    <3>3. QED
      BY <2>1, <3>2
  <2>4. DOMAIN f = A
    BY <2>1
  <2>5. QED
    BY <2>1, <2>2, <2>3, <2>4 DEF Bijection, Injection, Surjection, IsInjective
<1> HIDE DEF f
<1>2. ExistsBijection(A, B)
  BY <1>1, Zenon DEF ExistsBijection
<1>3. IsFiniteSet(A)
  BY FS_Subset
<1>4. QED
  BY <1>2, <1>3, FS_Bijection

\* Matched values are the same in order.
LEMMA MatchedOrder ==
  ASSUME NEW S, IsFiniteSet(S), NEW h, NEW P, Matches(S, h, P),
         NEW g, NEW k, \A i \in S : g[i] = k[h[i]]
  PROVE  InOrderOf(S, g) = InOrderOf(P, k)
<1> DEFINE B(v) == Cardinality({x \in S : g[x] < v})
           U(v) == Cardinality({x \in S : g[x] <= v})
           V == {g[x] : x \in S}
           C(v) == Cardinality({x \in P : k[x] < v})
           W(v) == Cardinality({x \in P : k[x] <= v})
           Z == {k[x] : x \in P}
           n == Cardinality(S)
<1>1. n = Cardinality(P)
  <2>1. \A i \in S : i \in S <=> h[i] \in P
    BY DEF Matches
  <2>2. QED
    BY <2>1, MatchedCounts
<1>2. \A v : C(v) = B(v)
  <2>1. TAKE v
  <2> DEFINE A == {x \in S : g[x] < v}
             D == {x \in P : k[x] < v}
  <2>2. A \in SUBSET S /\ D \in SUBSET P /\ \A i \in S : i \in A <=> h[i] \in D
    BY DEF Matches
  <2> HIDE DEF A, D
  <2>3. Cardinality(D) = Cardinality(A)
    BY <2>2, MatchedCounts
  <2>4. QED
    BY <2>3 DEF A, D
<1>3. \A v : W(v) = U(v)
  <2>1. TAKE v
  <2> DEFINE A == {x \in S : g[x] <= v}
             D == {x \in P : k[x] <= v}
  <2>2. A \in SUBSET S /\ D \in SUBSET P /\ \A i \in S : i \in A <=> h[i] \in D
    BY DEF Matches
  <2> HIDE DEF A, D
  <2>3. Cardinality(D) = Cardinality(A)
    BY <2>2, MatchedCounts
  <2>4. QED
    BY <2>3 DEF A, D
<1>4. V = Z
  <2>1. V \subseteq Z
    BY DEF Matches
  <2>2. ASSUME NEW p \in P PROVE k[p] \in V
    <3>1. PICK i \in S : h[i] = p
      BY DEF Matches
    <3>2. QED
      BY <3>1
  <2>3. QED
    BY <2>1, <2>2
<1>5. InOrderOf(S, g) = [m \in 1 .. n |-> CHOOSE v \in V : B(v) < m /\ U(v) >= m]
  BY DEF InOrderOf
<1>6. InOrderOf(P, k) = [m \in 1 .. Cardinality(P) |-> CHOOSE v \in Z : C(v) < m /\ W(v) >= m]
  BY DEF InOrderOf
<1> HIDE DEF B, U, V, C, W, Z, n
<1> DEFINE c(m) == CHOOSE v \in V : B(v) < m /\ U(v) >= m
           d(m) == CHOOSE v \in Z : C(v) < m /\ W(v) >= m
<1>7. \A m : c(m) = d(m)
  BY <1>2, <1>3, <1>4
<1>8. InOrderOf(S, g) = [m \in 1 .. n |-> c(m)] /\ InOrderOf(P, k) = [m \in 1 .. n |-> d(m)]
  BY <1>1, <1>5, <1>6
<1> HIDE DEF c, d
<1>9. [m \in 1 .. n |-> c(m)] = [m \in 1 .. n |-> d(m)]
  BY <1>7
<1>10. QED
  BY <1>8, <1>9, Zenon
=============================================================================
