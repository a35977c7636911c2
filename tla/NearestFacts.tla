---------------------------- MODULE NearestFacts ----------------------------
(***************************************************************************)
(* The heap of the n nearest points, as every search of this project keeps *)
(* it: the points of a set S with fewer than n nearer ones in S, under a   *)
(* ranking D that orders the points.  Lemmas for the searches to cite.     *)
(***************************************************************************)
EXTENDS Integers, FiniteSets, FiniteSetTheorems, WellFoundedInduction, TLAPS

Nearer(D, S, p) == {q \in S : D[q] < D[p]}
Kept(D, n, S) == {p \in S : Cardinality(Nearer(D, S, p)) < n}

\* D ranks the points of S, all differently.
Ranks(D, S) ==
    /\ IsFiniteSet(S)
    /\ \A p \in S : D[p] \in Nat
    /\ \A p, q \in S : D[p] = D[q] => p = q

\* A ranking also ranks a part of the points.
LEMMA RanksPart ==
    ASSUME NEW S, NEW D, Ranks(D, S), NEW T \in SUBSET S
    PROVE  Ranks(D, T) /\ IsFiniteSet(T) /\ Cardinality(T) \in Nat /\ Cardinality(T) <= Cardinality(S)
           /\ Cardinality(S) \in Nat
BY FS_Subset, FS_CardinalityType DEF Ranks

\* Some point of a non-empty set is the nearest.
LEMMA NearestOne ==
    ASSUME NEW S, NEW D, Ranks(D, S), S # {}
    PROVE  \E p \in S : \A q \in S : D[p] <= D[q]
<1>. DEFINE V == {D[p] : p \in S}
            R == OpToRel(<, Nat)
<1>1. V \subseteq Nat /\ V # {}
  BY DEF Ranks
<1>2. PICK d \in V : \A e \in V : ~ (<<e, d>> \in R)
  <2>1. IsWellFoundedOn(R, Nat)
    BY NatLessThanWellFounded
  <2>. HIDE DEF R, V
  <2>. QED BY <1>1, <2>1, WFMin
<1>3. \A e \in V : d <= e
  <2>. SUFFICES ASSUME NEW e \in V PROVE d <= e
    OBVIOUS
  <2>1. d \in Nat /\ e \in Nat
    BY <1>1
  <2>2. ~ (e < d)
    BY <1>2, <2>1 DEF OpToRel
  <2>. QED BY <2>1, <2>2
<1>. QED BY <1>3

\* Some point of a non-empty set is the farthest.
LEMMA FarthestOne ==
    ASSUME NEW S, NEW D, Ranks(D, S), S # {}, NEW far \in Nat, \A p \in S : D[p] <= far
    PROVE  \E p \in S : \A q \in S : D[q] <= D[p]
<1>. DEFINE V == {far - D[p] : p \in S}
            R == OpToRel(<, Nat)
<1>1. V \subseteq Nat /\ V # {}
  BY DEF Ranks
<1>2. PICK d \in V : \A e \in V : ~ (<<e, d>> \in R)
  <2>1. IsWellFoundedOn(R, Nat)
    BY NatLessThanWellFounded
  <2>. HIDE DEF R, V
  <2>. QED BY <1>1, <2>1, WFMin
<1>3. PICK p \in S : d = far - D[p]
  OBVIOUS
<1>4. ASSUME NEW q \in S PROVE D[q] <= D[p]
  <2>1. d \in Nat /\ far - D[q] \in V /\ far - D[q] \in Nat /\ D[p] \in Nat /\ D[q] \in Nat
    BY <1>1 DEF Ranks
  <2>2. ~ (far - D[q] < d)
    BY <1>2, <2>1 DEF OpToRel
  <2>. QED BY <1>3, <2>1, <2>2
<1>. QED BY <1>4

\* The number of nearer points grows with the distance.
LEMMA NearerGrows ==
    ASSUME NEW S, NEW D, Ranks(D, S), NEW p \in S, NEW q \in S
    PROVE  /\ Cardinality(Nearer(D, S, p)) \in Nat
           /\ D[p] <= D[q] => Cardinality(Nearer(D, S, p)) <= Cardinality(Nearer(D, S, q))
           /\ D[p] < D[q] => Cardinality(Nearer(D, S, p)) < Cardinality(Nearer(D, S, q))
<1>1. Nearer(D, S, p) \in SUBSET S /\ Nearer(D, S, q) \in SUBSET S
  BY DEF Nearer
<1>2. /\ IsFiniteSet(Nearer(D, S, q))
      /\ Cardinality(Nearer(D, S, p)) \in Nat /\ Cardinality(Nearer(D, S, q)) \in Nat
  BY <1>1, RanksPart
<1>3. D[p] <= D[q] => Nearer(D, S, p) \subseteq Nearer(D, S, q)
  BY DEF Nearer, Ranks
<1>4. D[p] < D[q] => p \in Nearer(D, S, q) /\ p \notin Nearer(D, S, p)
  BY DEF Nearer, Ranks
<1>5. D[p] < D[q] => D[p] <= D[q]
  BY DEF Ranks
<1>. QED BY <1>2, <1>3, <1>4, <1>5, FS_Subset

\* What is kept are points of S, at most n of them.
LEMMA KeptCount ==
    ASSUME NEW S, NEW D, Ranks(D, S), NEW n \in Nat
    PROVE  /\ Kept(D, n, S) \subseteq S
           /\ Ranks(D, Kept(D, n, S))
           /\ Cardinality(Kept(D, n, S)) \in Nat
           /\ Cardinality(Kept(D, n, S)) <= n
<1>. DEFINE T == Kept(D, n, S)
            f == [p \in T |-> Cardinality(Nearer(D, S, p)) + 1]
<1>1. T \subseteq S
  BY DEF Kept
<1>2. Ranks(D, T) /\ IsFiniteSet(T) /\ Cardinality(T) \in Nat
  BY <1>1, RanksPart
<1>3. f \in [T -> 1 .. n]
  BY <1>1, NearerGrows DEF Kept
<1>4. \A p, q \in T : f[p] = f[q] => p = q
  <2>. SUFFICES ASSUME NEW p \in T, NEW q \in T, f[p] = f[q] PROVE p = q
    OBVIOUS
  <2>1. p \in S /\ q \in S /\ D[p] \in Nat /\ D[q] \in Nat
    BY <1>1 DEF Ranks
  <2>2. Cardinality(Nearer(D, S, p)) = Cardinality(Nearer(D, S, q))
    <3>1. Cardinality(Nearer(D, S, p)) \in Nat /\ Cardinality(Nearer(D, S, q)) \in Nat
      BY <2>1, NearerGrows
    <3>. QED BY <3>1
  <2>3. ~ (D[p] < D[q]) /\ ~ (D[q] < D[p])
    BY <2>1, <2>2, NearerGrows
  <2>. QED BY <2>1, <2>3 DEF Ranks
<1>5. f \in Injection(T, 1 .. n)
  <2>. HIDE DEF T, f
  <2>. QED BY <1>3, <1>4 DEF Injection, IsInjective
<1>6. IsFiniteSet(1 .. n) /\ Cardinality(1 .. n) = n
  BY FS_Interval
<1>7. Cardinality(T) <= n
  <2>. HIDE DEF T, f
  <2>1. Cardinality(T) <= Cardinality(1 .. n)
    BY <1>5, <1>6, FS_Injection
  <2>. QED BY <1>6, <2>1
<1>. HIDE DEF T
<1>. QED BY <1>1, <1>2, <1>7 DEF T

\* A point of S that is not kept is farther than n points that are.
LEMMA NotKept ==
    ASSUME NEW S, NEW D, Ranks(D, S), NEW n \in Nat, NEW p \in S \ Kept(D, n, S)
    PROVE  /\ Cardinality(Kept(D, n, S)) = n
           /\ \A q \in Kept(D, n, S) : D[q] < D[p]
<1>. DEFINE T == Kept(D, n, S)
            Rest == S \ T
<1>1. T \subseteq S /\ Cardinality(T) \in Nat /\ Cardinality(T) <= n
  BY KeptCount
<1>2. \A x \in S : x \in T <=> Cardinality(Nearer(D, S, x)) < n
  BY DEF Kept
<1>3. ASSUME NEW q \in T PROVE D[q] < D[p]
  <2>1. D[q] \in Nat /\ D[p] \in Nat /\ q \in S
    BY <1>1 DEF Ranks
  <2>2. Cardinality(Nearer(D, S, q)) \in Nat /\ Cardinality(Nearer(D, S, p)) \in Nat
    BY <2>1, NearerGrows
  <2>3. ~ (D[p] <= D[q])
    BY <1>2, <2>1, <2>2, NearerGrows
  <2>. QED BY <2>1, <2>3
<1>4. Ranks(D, Rest) /\ p \in Rest
  BY RanksPart
<1>5. PICK m \in Rest : \A q \in Rest : D[m] <= D[q]
  <2>. HIDE DEF Rest
  <2>. QED BY <1>4, NearestOne
<1>6. Nearer(D, S, m) \in SUBSET T
  <2>. SUFFICES ASSUME NEW x \in S, D[x] < D[m], x \notin T PROVE FALSE
    BY DEF Nearer
  <2>1. D[m] <= D[x] /\ D[x] \in Nat /\ D[m] \in Nat
    BY <1>5 DEF Ranks
  <2>. QED BY <2>1
<1>7. Ranks(D, T)
  BY KeptCount
<1>8. Cardinality(Nearer(D, S, m)) \in Nat /\ Cardinality(Nearer(D, S, m)) <= Cardinality(T)
  BY <1>6, <1>7, RanksPart
<1>9. ~ (Cardinality(Nearer(D, S, m)) < n)
  BY <1>2, <1>5
<1>10. Cardinality(T) = n
  <2>. HIDE DEF T
  <2>. QED BY <1>1, <1>8, <1>9
<1>. QED BY <1>3, <1>10

\* With room for one more, everything is kept.
LEMMA RoomKeepsAll ==
    ASSUME NEW S, NEW D, Ranks(D, S), NEW n \in Nat, ~ (Cardinality(Kept(D, n, S)) >= n)
    PROVE  Kept(D, n, S) = S
<1>1. Cardinality(Kept(D, n, S)) \in Nat /\ Kept(D, n, S) \subseteq S
  BY KeptCount
<1>2. Cardinality(Kept(D, n, S)) # n
  BY <1>1
<1>. QED BY <1>1, <1>2, NotKept

\* A set of at most n points is kept whole.
LEMMA SmallKeptWhole ==
    ASSUME NEW S, NEW D, Ranks(D, S), NEW n \in Nat, Cardinality(S) <= n
    PROVE  Kept(D, n, S) = S
<1>. DEFINE T == Kept(D, n, S)
<1>1. T \subseteq S /\ Ranks(D, T) /\ Cardinality(T) \in Nat
  BY KeptCount
<1>2. ASSUME NEW p \in S \ T PROVE FALSE
  <2>1. Cardinality(T) = n
    BY NotKept
  <2>. HIDE DEF T
  <2>2. T # S /\ Cardinality(T) <= Cardinality(S) /\ Cardinality(S) \in Nat
    BY <1>1, <1>2, RanksPart
  <2>3. Cardinality(T) # Cardinality(S)
    BY <1>1, <1>2, FS_Subset DEF Ranks
  <2>. QED BY <2>1, <2>2, <2>3
<1>. QED BY <1>1, <1>2

\* A point that n results leave behind stays behind whatever is offered next.
LEMMA StaysBehind ==
    ASSUME NEW S, NEW D, Ranks(D, S), NEW n \in Nat,
           NEW R \in SUBSET S, Cardinality(R) >= n, NEW d \in Nat, \A q \in R : D[q] <= d
    PROVE  /\ Cardinality(Kept(D, n, S)) >= n
           /\ \A q \in Kept(D, n, S) : D[q] <= d
<1>1. /\ Cardinality(R) \in Nat /\ Cardinality(S) \in Nat /\ Cardinality(R) <= Cardinality(S)
  BY RanksPart
<1>2. Cardinality(Kept(D, n, S)) >= n
  BY <1>1, RoomKeepsAll
<1>3. ASSUME NEW q \in Kept(D, n, S), ~ (D[q] <= d) PROVE FALSE
  <2>1. q \in S /\ Cardinality(Nearer(D, S, q)) < n
    BY DEF Kept
  <2>2. R \subseteq Nearer(D, S, q) /\ Nearer(D, S, q) \in SUBSET S
    BY <1>3, <2>1 DEF Nearer, Ranks
  <2>3. Ranks(D, Nearer(D, S, q))
    BY <2>2, RanksPart
  <2>4. Cardinality(R) <= Cardinality(Nearer(D, S, q)) /\ Cardinality(Nearer(D, S, q)) \in Nat
    BY <2>2, <2>3, RanksPart
  <2>. QED BY <1>1, <2>1, <2>4
<1>. QED BY <1>2, <1>3

\* Some point of a non-empty set is the farthest, whatever the distances: the
\* one with the most nearer points.
LEMMA FarthestOfAll ==
    ASSUME NEW S, NEW D, Ranks(D, S), S # {}
    PROVE  \E p \in S : \A q \in S : D[q] <= D[p]
<1>. DEFINE N == [p \in S |-> Cardinality(Nearer(D, S, p))]
<1>1. \A p \in S : N[p] = Cardinality(Nearer(D, S, p)) /\ N[p] \in Nat
  BY NearerGrows
<1>2. ASSUME NEW p \in S, NEW q \in S, D[p] < D[q] PROVE N[p] < N[q]
  BY <1>1, <1>2, NearerGrows
<1>3. IsFiniteSet(S) /\ \A p \in S : D[p] \in Nat
  BY DEF Ranks
<1>4. Ranks(N, S)
  <2>1. ASSUME NEW p \in S, NEW q \in S, N[p] = N[q] PROVE p = q
    <3>1. ~ (D[p] < D[q]) /\ ~ (D[q] < D[p])
      BY <1>1, <1>2, <2>1
    <3>2. D[p] = D[q]
      BY <1>3, <3>1
    <3>. QED BY <3>2 DEF Ranks
  <2>. HIDE DEF N
  <2>. QED BY <1>1, <1>3, <2>1 DEF Ranks
<1>5. \A p \in S : N[p] <= Cardinality(S)
  <2>. SUFFICES ASSUME NEW p \in S PROVE Cardinality(Nearer(D, S, p)) <= Cardinality(S)
    BY <1>1
  <2>1. Nearer(D, S, p) \in SUBSET S
    BY DEF Nearer
  <2>. QED BY <2>1, RanksPart
<1>6. Cardinality(S) \in Nat
  BY <1>3, FS_CardinalityType
<1>. HIDE DEF N
<1>7. PICK p \in S : \A q \in S : N[q] <= N[p]
  BY <1>4, <1>5, <1>6, FarthestOne
<1>8. ASSUME NEW q \in S PROVE D[q] <= D[p]
  <2>1. ~ (N[p] < N[q]) /\ D[p] \in Nat /\ D[q] \in Nat
    BY <1>1, <1>3, <1>7
  <2>. QED BY <1>2, <2>1
<1>. QED BY <1>8

=============================================================================
