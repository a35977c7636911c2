-------------------------- MODULE HistForest_proofs --------------------------
(***************************************************************************)
(* Proofs about HistForest, for every forest, every set of points, values, *)
(* predicates and thresholds that the assumptions of that module allow.    *)
(***************************************************************************)
EXTENDS HistForest, FiniteSetTheorems, WellFoundedInduction, TLAPS

(***************************************************************************)
(* The forest: climbing from a candidate.                                  *)
(***************************************************************************)

\* Levels are naturals up to MaxLevel, and a parent lies higher.
LEMMA LevelRange ==
    ASSUME NEW c \in Cand
    PROVE  /\ Level[c] \in Nat /\ Level[c] <= MaxLevel /\ MaxLevel \in Nat
           /\ Parent[c] # None => Parent[c] \in Cand /\ Level[Parent[c]] > Level[c]
<1>1. Level[c] \in 0 .. MaxLevel /\ MaxLevel \in Nat
  BY ForestAssumption
<1>2. Parent[c] # None => Parent[c] \in Cand /\ Level[Parent[c]] > Level[c]
  BY ForestAssumption
<1>. QED BY <1>1, <1>2

\* Anc[c] is the least upward-closed set of candidates that holds c.
LEMMA AncLeast ==
    ASSUME NEW c \in Cand
    PROVE  /\ Anc[c] \subseteq Cand
           /\ c \in Anc[c]
           /\ Upward(Anc[c])
           /\ \A S \in SUBSET Cand : c \in S /\ Upward(S) => Anc[c] \subseteq S
<1>. DEFINE D == {d \in Cand : \A S \in SUBSET Cand : c \in S /\ Upward(S) => d \in S}
<1>1. Anc[c] = D
  BY DEF Anc
<1>2. Upward(D)
  BY ForestAssumption DEF Upward
<1>. HIDE DEF D
<1>3. D \subseteq Cand /\ c \in D
  BY DEF D
<1>4. \A S \in SUBSET Cand : c \in S /\ Upward(S) => D \subseteq S
  BY DEF D
<1>. QED BY <1>1, <1>2, <1>3, <1>4

\* What is met above an ancestor is met above the candidate.
LEMMA AncTransitive ==
    ASSUME NEW c \in Cand, NEW d \in Anc[c]
    PROVE  d \in Cand /\ Anc[d] \subseteq Anc[c]
<1>1. d \in Cand /\ Anc[c] \in SUBSET Cand /\ Upward(Anc[c])
  BY AncLeast
<1>. QED BY <1>1, AncLeast

\* Climbing one step at a time: a candidate, then what is above its parent.
LEMMA AncStep ==
    ASSUME NEW c \in Cand, Parent[c] # None
    PROVE  Parent[c] \in Anc[c] /\ Anc[c] \subseteq {c} \cup Anc[Parent[c]]
<1>. DEFINE S == {c} \cup Anc[Parent[c]]
<1>1. Parent[c] \in Cand
  BY ForestAssumption
<1>2. S \in SUBSET Cand /\ c \in S
  BY <1>1, AncLeast
<1>3. Upward(S)
  BY <1>1, AncLeast DEF Upward
<1>4. Anc[c] \subseteq S
  BY <1>2, <1>3, AncLeast
<1>5. Parent[c] \in Anc[c]
  BY AncLeast DEF Upward
<1>. QED BY <1>4, <1>5

\* A root has nothing above it.
LEMMA AncOfRoot ==
    ASSUME NEW r \in Root
    PROVE  Anc[r] = {r}
<1>1. r \in Cand /\ Upward({r})
  BY DEF Root, Upward
<1>. QED BY <1>1, AncLeast

\* Two ancestors of one candidate are comparable.
LEMMA AncLinear ==
    ASSUME NEW c \in Cand, NEW d \in Anc[c], NEW e \in Anc[c]
    PROVE  d \in Anc[e] \/ e \in Anc[d]
<1>. DEFINE S == {x \in Anc[c] : \A y \in Anc[c] : x \in Anc[y] \/ y \in Anc[x]}
<1>1. S \in SUBSET Cand /\ c \in S
  BY AncLeast
<1>2. Upward(S)
  <2>. SUFFICES ASSUME NEW x \in S, Parent[x] # None, NEW y \in Anc[c]
               PROVE  Parent[x] \in Anc[c] /\ (Parent[x] \in Anc[y] \/ y \in Anc[Parent[x]])
    BY DEF Upward
  <2>1. x \in Cand /\ y \in Cand /\ Parent[x] \in Anc[c]
    BY AncLeast, AncTransitive DEF Upward
  <2>2. CASE x \in Anc[y]
    BY <2>1, <2>2, AncLeast DEF Upward
  <2>3. CASE y \in Anc[x]
    BY <2>1, <2>3, AncStep
  <2>. QED BY <2>2, <2>3
<1>3. Anc[c] \subseteq S
  BY <1>1, <1>2, AncLeast
<1>. QED BY <1>3

\* Climbing strictly raises the level.
LEMMA AncLevel ==
    ASSUME NEW c \in Cand, NEW d \in Anc[c], d # c
    PROVE  Level[d] > Level[c]
<1>. DEFINE S == {x \in Anc[c] : x = c \/ Level[x] > Level[c]}
<1>1. S \in SUBSET Cand /\ c \in S
  BY AncLeast
<1>2. Upward(S)
  <2>. SUFFICES ASSUME NEW x \in S, Parent[x] # None
               PROVE  Parent[x] \in Anc[c] /\ Level[Parent[x]] > Level[c]
    BY DEF Upward
  <2>1. x \in Cand /\ Parent[x] \in Anc[c] /\ Parent[x] \in Cand
    BY AncLeast DEF Upward
  <2>2. Level[x] \in Nat /\ Level[Parent[x]] \in Nat /\ Level[c] \in Nat
    BY <2>1, LevelRange
  <2>3. Level[Parent[x]] > Level[x]
    BY <2>1, LevelRange
  <2>. QED BY <2>1, <2>2, <2>3
<1>3. Anc[c] \subseteq S
  BY <1>1, <1>2, AncLeast
<1>. QED BY <1>3

\* Two candidates are not above each other.
LEMMA AncAntisymmetric ==
    ASSUME NEW c \in Cand, NEW d \in Anc[c], c \in Anc[d]
    PROVE  c = d
<1>1. d \in Cand /\ Level[c] \in Nat /\ Level[d] \in Nat
  BY AncLeast, ForestAssumption
<1>. QED BY <1>1, AncLevel

\* Every climb ends at a root.
LEMMA AncHasRoot ==
    ASSUME NEW c \in Cand
    PROVE  \E r \in Anc[c] : r \in Root
<1>. DEFINE T == {MaxLevel - Level[d] : d \in Anc[c]}
           R == OpToRel(<, Nat)
<1>1. T \subseteq Nat /\ T # {}
  <2>1. \A d \in Anc[c] : MaxLevel - Level[d] \in Nat
    BY AncLeast, LevelRange
  <2>. QED BY <2>1, AncLeast
<1>2. PICK m \in T : \A n \in T : ~ (<<n, m>> \in R)
  <2>1. IsWellFoundedOn(R, Nat)
    BY NatLessThanWellFounded
  <2>. HIDE DEF R, T
  <2>. QED BY <1>1, <2>1, WFMin
<1>3. PICK d \in Anc[c] : m = MaxLevel - Level[d]
  BY <1>2
<1>4. \A n \in T : n >= m
  <2>. SUFFICES ASSUME NEW n \in T PROVE n >= m
    OBVIOUS
  <2>1. n \in Nat /\ m \in Nat
    BY <1>1
  <2>. HIDE DEF T
  <2>2. ~ (n < m)
    BY <1>2, <2>1 DEF OpToRel
  <2>. QED BY <2>1, <2>2
<1>. QED
  <2>. SUFFICES ASSUME Parent[d] # None PROVE FALSE
    BY <1>3, AncLeast DEF Root
  <2>1. d \in Cand /\ Parent[d] \in Anc[c] /\ Parent[d] \in Cand
    BY AncLeast DEF Upward
  <2>2. MaxLevel - Level[Parent[d]] >= MaxLevel - Level[d]
    BY <1>3, <1>4, <2>1
  <2>3. Level[Parent[d]] > Level[d] /\ Level[d] \in Nat /\ Level[Parent[d]] \in Nat /\ MaxLevel \in Nat
    BY <2>1, LevelRange
  <2>. QED BY <2>2, <2>3

\* RootOf[c] is a root above c, and the same for everything between them.
LEMMA RootOfFacts ==
    ASSUME NEW c \in Cand
    PROVE  /\ RootOf[c] \in Anc[c]
           /\ RootOf[c] \in Root
           /\ \A r \in Anc[c] : r \in Root => r = RootOf[c]
           /\ \A d \in Anc[c] : RootOf[d] = RootOf[c]
<1>1. \A d \in Cand : RootOf[d] \in Anc[d] /\ RootOf[d] \in Root
  <2>. TAKE d \in Cand
  <2>1. RootOf[d] = CHOOSE r \in Anc[d] : r \in Root
    BY DEF RootOf
  <2>. QED BY <2>1, AncHasRoot
<1>2. ASSUME NEW r \in Anc[c], r \in Root
      PROVE  r = RootOf[c]
  <2>1. Anc[r] = {r} /\ Anc[RootOf[c]] = {RootOf[c]}
    BY <1>1, <1>2, AncOfRoot
  <2>. QED BY <1>1, <1>2, <2>1, AncLinear
<1>3. ASSUME NEW d \in Anc[c]
      PROVE  RootOf[d] = RootOf[c]
  <2>1. d \in Cand /\ Anc[d] \subseteq Anc[c]
    BY AncTransitive
  <2>. QED BY <1>1, <1>2, <2>1
<1>. QED BY <1>1, <1>2, <1>3

\* A root is its own root.
LEMMA RootOfRoot ==
    ASSUME NEW r \in Root
    PROVE  r \in Cand /\ RootOf[r] = r
<1>1. r \in Cand
  BY DEF Root
<1>. QED BY <1>1, AncOfRoot, RootOfFacts

\* There is a root, and Tree0 is one.
LEMMA Tree0IsRoot ==
    Root # {} /\ Tree0 \in Root
<1>1. Root # {}
  <2>1. PICK c \in Cand : TRUE
    BY ForestAssumption
  <2>. QED BY <2>1, AncHasRoot
<1>2. \E t \in Root : \A u \in Root : t <= u
  <2>. DEFINE R == OpToRel(<, Nat)
  <2>1. Root \subseteq Nat
    BY ForestAssumption DEF Root
  <2>2. PICK t \in Root : \A u \in Root : ~ (<<u, t>> \in R)
    <3>1. IsWellFoundedOn(R, Nat)
      BY NatLessThanWellFounded
    <3>. HIDE DEF R
    <3>. QED BY <1>1, <2>1, <3>1, WFMin
  <2>3. ASSUME NEW u \in Root
        PROVE  t <= u
    <3>1. u \in Nat /\ t \in Nat
      BY <2>1
    <3>2. ~ (u < t)
      BY <2>2, <3>1 DEF OpToRel
    <3>. QED BY <3>1, <3>2
  <2>. QED BY <2>3
<1>. QED BY <1>1, <1>2 DEF Tree0

\* Every point is attributed to a tree.
LEMMA TreeOfType ==
    ASSUME NEW a \in Cand \cup {None}
    PROVE  TreeOf(a) \in Root
BY Tree0IsRoot, RootOfFacts DEF TreeOf

\* The nearest member of a set above a candidate exists: if none of the
\* candidates below all members were a member, they would be upward closed,
\* hence include the members.
LEMMA NearestExists ==
    ASSUME NEW c \in Cand, NEW S, Anc[c] \cap S # {}
    PROVE  \E d \in Anc[c] \cap S : Anc[c] \cap S \subseteq Anc[d]
<1>. SUFFICES ASSUME \A d \in Anc[c] \cap S : ~ (Anc[c] \cap S \subseteq Anc[d])
              PROVE  FALSE
  OBVIOUS
<1>. DEFINE X == {d \in Anc[c] : Anc[c] \cap S \subseteq Anc[d]}
<1>1. X \in SUBSET Cand /\ c \in X
  BY AncLeast
<1>2. Upward(X)
  <2>. SUFFICES ASSUME NEW d \in X, Parent[d] # None
               PROVE  Parent[d] \in X
    BY DEF Upward
  <2>1. d \in Cand /\ Parent[d] \in Anc[c] /\ d \notin S
    BY AncLeast DEF Upward
  <2>. QED BY <2>1, AncStep
<1>3. Anc[c] \subseteq X
  BY <1>1, <1>2, AncLeast
<1>. QED BY <1>3

\* ... and is unique.
LEMMA NearestUnique ==
    ASSUME NEW c \in Cand, NEW S, NEW d \in Anc[c] \cap S,
           Anc[c] \cap S \subseteq Anc[d]
    PROVE  d = Nearest(c, S)
<1>1. PICK e : e = Nearest(c, S) /\ e \in Anc[c] \cap S /\ Anc[c] \cap S \subseteq Anc[e]
  BY DEF Nearest
<1>2. d \in Cand /\ e \in Cand /\ d \in Anc[e] /\ e \in Anc[d]
  BY <1>1, AncLeast
<1>. QED BY <1>1, <1>2, AncAntisymmetric

\* The region of a point is that of a bound candidate above it, or region 0.
LEMMA RegionForValue ==
    ASSUME NEW a \in Cand \cup {None}, NEW rids
    PROVE  \/ RegionFor(a, rids) = 0
           \/ \E d \in Bound(rids) : RegionFor(a, rids) = rids[d]
<1>. SUFFICES ASSUME a # None, Anc[a] \cap Bound(rids) # {}
              PROVE  \E d \in Bound(rids) : RegionFor(a, rids) = rids[d]
  BY DEF RegionFor
<1>1. Nearest(a, Bound(rids)) \in Bound(rids)
  BY NearestExists, NearestUnique
<1>2. RegionFor(a, rids) = rids[Nearest(a, Bound(rids))]
  BY DEF RegionFor
<1>. QED BY <1>1, <1>2

\* The region of a point depends on the ids of the candidates above it only.
LEMMA RegionForLocal ==
    ASSUME NEW a \in Cand \cup {None}, NEW r1, NEW r2,
           a # None => \A c \in Anc[a] : r1[c] = r2[c]
    PROVE  RegionFor(a, r1) = RegionFor(a, r2)
<1>1. CASE a = None
  BY <1>1 DEF RegionFor
<1>2. CASE a # None
  <2>1. Anc[a] \subseteq Cand /\ Anc[a] \cap Bound(r1) = Anc[a] \cap Bound(r2)
    BY <1>2, AncLeast DEF Bound
  <2>2. CASE Anc[a] \cap Bound(r1) = {}
    BY <1>2, <2>1, <2>2 DEF RegionFor
  <2>3. CASE Anc[a] \cap Bound(r1) # {}
    <3>1. PICK d \in Anc[a] \cap Bound(r1) : Anc[a] \cap Bound(r1) \subseteq Anc[d]
      BY <1>2, <2>3, NearestExists
    <3>2. d = Nearest(a, Bound(r1))
      BY <1>2, <3>1, NearestUnique
    <3>3. d = Nearest(a, Bound(r2))
      BY <1>2, <2>1, <3>1, NearestUnique
    <3>4. r1[d] = r2[d]
      BY <1>2, <3>1
    <3>. QED BY <1>2, <2>1, <2>3, <3>2, <3>3, <3>4 DEF RegionFor
  <2>. QED BY <2>2, <2>3
<1>. QED BY <1>1, <1>2

(***************************************************************************)
(* Region ids and counts.                                                  *)
(***************************************************************************)

\* The sets that are counted are finite.
LEMMA CountsAreNat ==
    ASSUME NEW S, S \subseteq Pts \/ S \subseteq Cand
    PROVE  IsFiniteSet(S) /\ Cardinality(S) \in Nat
<1>1. IsFiniteSet(Pts) /\ IsFiniteSet(Cand)
  BY PointAssumption, ForestAssumption
<1>2. IsFiniteSet(S)
  BY <1>1, FS_Subset
<1>. QED BY <1>2, FS_CardinalityType

\* Number hands out ids from base on, fewer than there are candidates, in order.
LEMMA NumberRange ==
    ASSUME NEW S \in SUBSET Cand, NEW base \in Nat
    PROVE  /\ \A c \in S : /\ Number(S, base)[c] \in Nat
                           /\ Number(S, base)[c] >= base
                           /\ Number(S, base)[c] < base + Cardinality(S)
           /\ \A c, d \in S : Number(S, base)[c] = Number(S, base)[d] => c = d
<1>. DEFINE B(c) == {d \in S : d < c}
<1>1. \A c \in S : Number(S, base)[c] = base + Cardinality(B(c))
  BY DEF Number
<1>2. \A c \in S : IsFiniteSet(B(c)) /\ Cardinality(B(c)) \in Nat
  BY CountsAreNat
<1>3. IsFiniteSet(S) /\ Cardinality(S) \in Nat
  BY CountsAreNat
<1>4. \A c \in S : c \in Nat
  BY ForestAssumption
<1>5. ASSUME NEW c \in S
      PROVE  Cardinality(B(c)) < Cardinality(S)
  <2>1. B(c) \in SUBSET S /\ B(c) # S
    BY <1>4
  <2>. HIDE DEF B
  <2>2. Cardinality(B(c)) <= Cardinality(S) /\ Cardinality(B(c)) # Cardinality(S)
    BY <1>3, <2>1, FS_Subset
  <2>. QED BY <1>2, <1>3, <2>2
<1>6. ASSUME NEW c \in S, NEW d \in S, c < d
      PROVE  Cardinality(B(c)) < Cardinality(B(d))
  <2>1. B(c) \in SUBSET B(d) /\ c \in B(d) /\ c \notin B(c)
    BY <1>4, <1>6
  <2>2. IsFiniteSet(B(d)) /\ Cardinality(B(c)) \in Nat /\ Cardinality(B(d)) \in Nat
    BY <1>2
  <2>. HIDE DEF B
  <2>3. Cardinality(B(c)) <= Cardinality(B(d)) /\ Cardinality(B(c)) # Cardinality(B(d))
    BY <2>1, <2>2, FS_Subset
  <2>. QED BY <2>2, <2>3
<1>7. ASSUME NEW c \in S, NEW d \in S, Number(S, base)[c] = Number(S, base)[d]
      PROVE  c = d
  <2>. HIDE DEF B
  <2>1. Cardinality(B(c)) = Cardinality(B(d))
    BY <1>1, <1>2, <1>7
  <2>2. ~ (c < d) /\ ~ (d < c)
    BY <1>2, <1>6, <2>1
  <2>. QED BY <1>4, <2>2
<1>. HIDE DEF B
<1>8. ASSUME NEW c \in S
      PROVE  /\ Number(S, base)[c] \in Nat
             /\ Number(S, base)[c] >= base
             /\ Number(S, base)[c] < base + Cardinality(S)
  BY <1>1, <1>2, <1>3, <1>5
<1>. QED BY <1>7, <1>8

\* Allotted ids stay allotted when the number of regions grows.
LEMMA IdsGrow ==
    ASSUME NEW m \in Nat, NEW n \in Nat, n >= m
    PROVE  0 .. m - 1 \subseteq 0 .. n - 1
OBVIOUS

\* Region ids of points stay below the number of regions.
LEMMA RegionForType ==
    ASSUME NEW n \in Nat, n # 0, NEW rids \in [Cand -> (0 .. n - 1) \cup {None}],
           NEW a \in Cand \cup {None}
    PROVE  RegionFor(a, rids) \in 0 .. n - 1
<1>1. 0 \in 0 .. n - 1
  OBVIOUS
<1>2. \A d \in Bound(rids) : rids[d] \in 0 .. n - 1
  BY DEF Bound
<1>. QED BY <1>1, <1>2, RegionForValue

\* The bitmaps only name allotted regions and real buckets.
LEMMA BitsType ==
    ASSUME NEW n \in Nat, n # 0, NEW rids \in [Cand -> (0 .. n - 1) \cup {None}],
           NEW P, NEW f, \A p \in P : f[p] \in Cand \cup {None},
           NEW v, NEW col
    PROVE  Bits(P, f, rids, v, col) \in SUBSET ((0 .. n - 1) \X Bkt)
BY RegionForType DEF Bits

\* Rows hold naturals.
LEMMA CountOfType ==
    ASSUME NEW P \in SUBSET Pts, NEW v, NEW col, NEW b
    PROVE  CountOf(col, b, P, v) \in Nat
<1>1. {p \in P : v[p][col] = b} \subseteq Pts
  OBVIOUS
<1>. QED BY <1>1, CountsAreNat DEF CountOf

\* A histogram row holds naturals.
LEMMA RowType ==
    ASSUME NEW P \in SUBSET Pts, NEW v, NEW col, NEW r, NEW rids, NEW f
    PROVE  Row(col, r, rids, P, f, v) \in [Bkt -> Nat]
<1>1. Below(Owner(r, rids), P, f) \in SUBSET Pts
  BY DEF Below
<1>2. \A b \in Bkt : CountOf(col, b, Below(Owner(r, rids), P, f), v) \in Nat
  BY <1>1, CountOfType
<1>. QED BY <1>2 DEF Row

(***************************************************************************)
(* Type correctness.                                                       *)
(***************************************************************************)

\* TypeOK needs one more fact: there is always a region.
TypeInv == TypeOK /\ nreg # 0

\* The constructor fills the tables with values of their types.
LEMMA InitTypeInv == Init => TypeInv
<1>. SUFFICES ASSUME Init PROVE TypeInv
  OBVIOUS
<1>1. PICK K \in KeptChoices(Cand \ Root) :
         LET bound == Root \cup KeptBy(K) IN
         /\ nreg = Cardinality(bound)
         /\ nreg <= MaxRegions
         /\ rid = [c \in Cand |-> IF c \in bound THEN Number(bound, 0)[c] ELSE None]
         /\ hist = [col \in Col |-> [r \in {rid[c] : c \in Root \cup K[col]} |->
                                       Row(col, r, rid, Build, fca, val)]]
  BY DEF Init
<1>. DEFINE bound == Root \cup KeptBy(K)
<1>2. /\ flushed = Build /\ deleted = {} /\ fca = BuildFca /\ val \in BuildVals
      /\ regionOf = [p \in Build |-> RegionFor(fca[p], rid)]
      /\ size = [r \in 0 .. nreg - 1 |-> Cardinality(Below(Owner(r, rid), Build, fca))]
      /\ pres = Bitmaps(rid, val)
      /\ degraded = {}
      /\ treeN = [t \in Root |-> Cardinality(Below(t, Build, fca))]
      /\ cntMod = [t \in Root |-> 0] /\ cntDel = [t \in Root |-> 0]
  BY DEF Init
<1>3. bound \in SUBSET Cand /\ \A col \in Col : Root \cup K[col] \subseteq bound
  BY <1>1 DEF KeptChoices, KeptBy, Root
<1>4. nreg \in Nat /\ nreg # 0
  <2>1. IsFiniteSet(bound) /\ nreg \in Nat
    BY <1>1, <1>3, CountsAreNat
  <2>2. bound # {}
    BY Tree0IsRoot
  <2>. QED BY <1>1, <2>1, <2>2, FS_EmptySet
<1>5. \A c \in bound : rid[c] \in 0 .. nreg - 1
  <2>. SUFFICES ASSUME NEW c \in bound PROVE rid[c] \in 0 .. nreg - 1
    OBVIOUS
  <2>1. rid[c] = Number(bound, 0)[c] /\ nreg = Cardinality(bound)
    BY <1>1, <1>3
  <2>. HIDE DEF bound
  <2>2. /\ Number(bound, 0)[c] \in Nat
        /\ Number(bound, 0)[c] < 0 + Cardinality(bound)
    BY <1>3, NumberRange
  <2>. QED BY <1>4, <2>1, <2>2
<1>6. rid \in [Cand -> (0 .. nreg - 1) \cup {None}]
  BY <1>1, <1>5
<1>7. \A p \in Build : fca[p] \in Cand \cup {None}
  BY <1>2, PointAssumption
<1>8. regionOf \in [flushed -> 0 .. nreg - 1]
  <2>1. \A p \in Build : RegionFor(fca[p], rid) \in 0 .. nreg - 1
    BY <1>4, <1>6, <1>7, RegionForType
  <2>. QED BY <1>2, <2>1
<1>9. \A c : Cardinality(Below(c, Build, fca)) \in Nat
  <2>1. \A c : Below(c, Build, fca) \subseteq Pts
    BY PointAssumption DEF Below
  <2>. QED BY <2>1, CountsAreNat
<1>10. \A col \in Col : /\ DOMAIN hist[col] \subseteq 0 .. nreg - 1
                        /\ \A r \in DOMAIN hist[col] : hist[col][r] \in [Bkt -> Nat]
  <2>. TAKE col \in Col
  <2>1. hist[col] = [r \in {rid[c] : c \in Root \cup K[col]} |->
                       Row(col, r, rid, Build, fca, val)]
    BY <1>1
  <2>2. {rid[c] : c \in Root \cup K[col]} \subseteq 0 .. nreg - 1
    BY <1>3, <1>5
  <2>3. \A r : Row(col, r, rid, Build, fca, val) \in [Bkt -> Nat]
    BY PointAssumption, RowType
  <2>. QED BY <2>1, <2>2, <2>3
<1>11. pres \in [Col -> SUBSET ((0 .. nreg - 1) \X Bkt)]
  <2>1. \A col \in Col : Bits(flushed, fca, rid, val, col) \in SUBSET ((0 .. nreg - 1) \X Bkt)
    BY <1>2, <1>4, <1>6, <1>7, BitsType
  <2>. QED BY <1>2, <2>1 DEF Bitmaps
<1>12. val \in [flushed -> Tuple]
  BY <1>2, ColumnAssumption DEF Tuple, Value
<1>13. fca \in [flushed -> Cand \cup {None}] /\ flushed \in SUBSET Pts
  BY <1>2, PointAssumption
<1>. QED
  BY <1>2, <1>4, <1>6, <1>8, <1>9, <1>10, <1>11, <1>12, <1>13 DEF TypeInv, TypeOK

\* What a rebuild leaves behind: RebuildTree with its choice K made explicit.
Rebound(t, K) == {t} \cup KeptBy(K)
Fresh(t, K) == {c \in Rebound(t, K) : rid[c] = None}

\* The ids after a rebuild: outside the tree nothing changes, candidates of the
\* tree lose their id, keep it, or get one from nreg on.
LEMMA RebuildRids ==
    ASSUME TypeInv, NEW t \in Root, RebuildTree(t)
    PROVE  /\ nreg' \in Nat /\ nreg' >= nreg
           /\ rid' \in [Cand -> (0 .. nreg' - 1) \cup {None}]
           /\ \A c \in Cand : RootOf[c] # t => rid'[c] = rid[c]
           /\ \A c \in Cand : rid'[c] \in {rid[c], None} \/ (rid[c] = None /\ rid'[c] >= nreg)
           /\ \A c, d \in Cand : rid[c] = None /\ rid'[c] # None /\ rid'[c] = rid'[d] => c = d
<1>1. PICK K \in KeptChoices(TreeCands(t) \ {t}) :
         /\ nreg' = nreg + Cardinality(Fresh(t, K))
         /\ rid' = [c \in Cand |->
                      IF c \notin TreeCands(t) THEN rid[c]
                      ELSE IF c \notin Rebound(t, K) THEN None
                      ELSE IF c \in Fresh(t, K) THEN Number(Fresh(t, K), nreg)[c]
                      ELSE rid[c]]
  BY DEF RebuildTree, Rebound, Fresh
<1>. DEFINE F == Fresh(t, K)
<1>2. /\ nreg \in Nat /\ nreg # 0 /\ None \notin Nat
      /\ rid \in [Cand -> (0 .. nreg - 1) \cup {None}]
  BY ForestAssumption DEF TypeInv, TypeOK
<1>3. F \in SUBSET Cand /\ \A c \in F : rid[c] = None /\ c \in TreeCands(t)
  BY <1>1, RootOfRoot DEF KeptChoices, KeptBy, TreeCands, Fresh, Rebound
<1>4. Cardinality(F) \in Nat
  BY <1>3, CountsAreNat
<1>. HIDE DEF F
<1>5. /\ \A c \in F : /\ Number(F, nreg)[c] \in Nat
                      /\ Number(F, nreg)[c] >= nreg
                      /\ Number(F, nreg)[c] < nreg + Cardinality(F)
      /\ \A c, d \in F : Number(F, nreg)[c] = Number(F, nreg)[d] => c = d
  BY <1>2, <1>3, NumberRange
<1>6. nreg' = nreg + Cardinality(F)
  BY <1>1 DEF F
<1>7. \A c \in F : rid'[c] = Number(F, nreg)[c]
  BY <1>1, <1>3 DEF F, Fresh
<1>8. \A c \in Cand \ F : rid'[c] \in {rid[c], None} /\ (rid[c] = None => rid'[c] = None)
  BY <1>1 DEF F, Fresh
<1>9. nreg' \in Nat /\ nreg' >= nreg
  BY <1>2, <1>4, <1>6
<1>10. \A c \in F : rid'[c] \in 0 .. nreg' - 1 /\ rid'[c] >= nreg
  BY <1>2, <1>4, <1>5, <1>6, <1>7
<1>11. rid' \in [Cand -> (0 .. nreg' - 1) \cup {None}]
  <2>1. \A c \in Cand : rid'[c] \in (0 .. nreg' - 1) \cup {None}
    <3>. SUFFICES ASSUME NEW c \in Cand, c \notin F, rid[c] # None
                  PROVE  rid[c] \in 0 .. nreg' - 1
      BY <1>8, <1>10
    <3>1. rid[c] \in 0 .. nreg - 1
      BY <1>2
    <3>. QED BY <1>2, <1>9, <3>1
  <2>2. rid' = [c \in Cand |-> rid'[c]]
    BY <1>1
  <2>. QED BY <2>1, <2>2
<1>12. \A c \in Cand : RootOf[c] # t => rid'[c] = rid[c]
  BY <1>1 DEF TreeCands
<1>13. \A c \in Cand : rid'[c] \in {rid[c], None} \/ (rid[c] = None /\ rid'[c] >= nreg)
  BY <1>3, <1>8, <1>10
<1>14. ASSUME NEW c \in Cand, NEW d \in Cand, rid[c] = None, rid'[c] # None, rid'[c] = rid'[d]
       PROVE  c = d
  <2>1. c \in F
    BY <1>8, <1>14
  <2>2. rid'[c] >= nreg
    BY <1>10, <2>1
  <2>3. d \in F
    <3>. SUFFICES ASSUME d \notin F PROVE FALSE
      OBVIOUS
    <3>1. rid'[d] = rid[d] /\ rid[d] \in 0 .. nreg - 1
      BY <1>2, <1>8, <1>14
    <3>. QED BY <1>2, <1>14, <2>2, <3>1
  <2>. QED BY <1>5, <1>7, <1>14, <2>1, <2>3
<1>. QED BY <1>9, <1>11, <1>12, <1>13, <1>14

\* The tables after a rebuild have their types.
LEMMA RebuildTypes ==
    ASSUME TypeInv, NEW t \in Root, RebuildTree(t), flushed' = flushed, fca' = fca
    PROVE  /\ nreg' \in Nat /\ nreg' # 0
           /\ rid' \in [Cand -> (0 .. nreg' - 1) \cup {None}]
           /\ regionOf' \in [flushed' -> 0 .. nreg' - 1]
           /\ size' \in [0 .. nreg' - 1 -> Nat]
           /\ \A col \in Col : DOMAIN hist'[col] \subseteq 0 .. nreg' - 1
           /\ \A col \in Col : \A r \in DOMAIN hist'[col] : hist'[col][r] \in [Bkt -> Nat]
           /\ pres' \in [Col -> SUBSET ((0 .. nreg' - 1) \X Bkt)]
           /\ treeN' \in [Root -> Nat] /\ cntMod' \in [Root -> Nat] /\ cntDel' \in [Root -> Nat]
<1>. DEFINE mine == InTree(t, flushed \ deleted', fca)
            old == {rid[c] : c \in TreeCands(t) \cap Bound(rid)}
<1>1. PICK K \in KeptChoices(TreeCands(t) \ {t}) :
        LET RowsOf(col) == {rid'[c] : c \in {t} \cup K[col]} IN
        /\ rid' = [c \in Cand |->
                      IF c \notin TreeCands(t) THEN rid[c]
                      ELSE IF c \notin Rebound(t, K) THEN None
                      ELSE IF c \in Fresh(t, K) THEN Number(Fresh(t, K), nreg)[c]
                      ELSE rid[c]]
        /\ regionOf' = [p \in flushed |->
                          IF p \in mine /\ fca[p] # None THEN RegionFor(fca[p], rid')
                          ELSE regionOf[p]]
        /\ size' = [r \in 0 .. nreg' - 1 |->
                      IF r \in {rid'[c] : c \in Rebound(t, K)}
                      THEN Cardinality(Below(Owner(r, rid'), mine, fca))
                      ELSE IF r \in DOMAIN size \ old THEN size[r] ELSE 0]
        /\ hist' = [col \in Col |->
                      [r \in RowsOf(col) \cup (DOMAIN hist[col] \ {rid'[c] : c \in Rebound(t, K)}) |->
                         IF r \in RowsOf(col) THEN Row(col, r, rid', mine, fca, val')
                         ELSE hist[col][r]]]
        /\ pres' = Bitmaps(rid', val')
        /\ treeN' = [treeN EXCEPT ![t] = Cardinality(mine)]
        /\ cntMod' = [cntMod EXCEPT ![t] = 0]
        /\ cntDel' = [cntDel EXCEPT ![t] = 0]
  BY DEF RebuildTree, Rebound, Fresh
<1>2. /\ nreg \in Nat /\ nreg # 0 /\ None \notin Nat
      /\ nreg' \in Nat /\ nreg' >= nreg
      /\ rid' \in [Cand -> (0 .. nreg' - 1) \cup {None}]
  BY RebuildRids, ForestAssumption DEF TypeInv, TypeOK
<1>3. nreg' # 0
  BY <1>2
<1>4. /\ flushed \in SUBSET Pts /\ mine \in SUBSET Pts
      /\ fca \in [flushed -> Cand \cup {None}]
  BY DEF TypeInv, TypeOK, InTree
<1>. HIDE DEF mine, old
<1>5. 0 .. nreg - 1 \subseteq 0 .. nreg' - 1
  <2>1. nreg \in Nat /\ nreg' \in Nat /\ nreg' >= nreg
    BY <1>2
  <2>. QED BY <2>1, IdsGrow
<1>6. regionOf' \in [flushed' -> 0 .. nreg' - 1]
  <2>1. \A p \in flushed : RegionFor(fca[p], rid') \in 0 .. nreg' - 1
    BY <1>2, <1>3, <1>4, RegionForType
  <2>2. \A p \in flushed : regionOf[p] \in 0 .. nreg' - 1
    BY <1>5 DEF TypeInv, TypeOK
  <2>. QED BY <1>1, <2>1, <2>2
<1>7. \A c : Cardinality(Below(c, mine, fca)) \in Nat
  <2>1. \A c : Below(c, mine, fca) \subseteq Pts
    BY <1>4 DEF Below
  <2>. QED BY <2>1, CountsAreNat
<1>8. size' \in [0 .. nreg' - 1 -> Nat]
  <2>1. size \in [0 .. nreg - 1 -> Nat]
    BY DEF TypeInv, TypeOK
  <2>. QED BY <1>1, <1>7, <2>1
<1>9. ASSUME NEW col \in Col
      PROVE  /\ DOMAIN hist'[col] \subseteq 0 .. nreg' - 1
             /\ \A r \in DOMAIN hist'[col] : hist'[col][r] \in [Bkt -> Nat]
  <2>. DEFINE R == {rid'[c] : c \in {t} \cup K[col]}
              D == R \cup (DOMAIN hist[col] \ {rid'[c] : c \in Rebound(t, K)})
  <2>1. hist'[col] = [r \in D |-> IF r \in R THEN Row(col, r, rid', mine, fca, val')
                                  ELSE hist[col][r]]
    BY <1>1
  <2>2. \A c \in {t} \cup K[col] : c \in Cand /\ rid'[c] \in 0 .. nreg' - 1
    <3>. TAKE c \in {t} \cup K[col]
    <3>1. c \in TreeCands(t) /\ c \in Cand /\ c \in Rebound(t, K)
      BY RootOfRoot DEF KeptChoices, KeptBy, TreeCands, Rebound
    <3>2. CASE c \in Fresh(t, K)
      <4>1. rid'[c] = Number(Fresh(t, K), nreg)[c]
        BY <1>1, <3>1, <3>2
      <4>2. Fresh(t, K) \in SUBSET Cand
        BY RootOfRoot DEF Fresh, Rebound, KeptChoices, KeptBy, TreeCands
      <4>3. Number(Fresh(t, K), nreg)[c] \in Nat
        BY <1>2, <3>2, <4>2, NumberRange
      <4>. QED BY <1>2, <3>1, <4>1, <4>3
    <3>3. CASE c \notin Fresh(t, K)
      <4>1. rid'[c] = rid[c] /\ rid[c] # None
        BY <1>1, <3>1, <3>3 DEF Fresh
      <4>. QED BY <1>2, <3>1, <4>1
    <3>. QED BY <3>2, <3>3
  <2>3. R \subseteq 0 .. nreg' - 1
    BY <2>2
  <2>4. /\ DOMAIN hist[col] \subseteq 0 .. nreg - 1
        /\ \A r \in DOMAIN hist[col] : hist[col][r] \in [Bkt -> Nat]
    BY DEF TypeInv, TypeOK
  <2>5. \A r : Row(col, r, rid', mine, fca, val') \in [Bkt -> Nat]
    BY <1>4, RowType
  <2>. HIDE DEF R
  <2>6. D \subseteq 0 .. nreg' - 1
    BY <1>5, <2>3, <2>4
  <2>7. \A r \in D \ R : r \in DOMAIN hist[col]
    OBVIOUS
  <2>. HIDE DEF D
  <2>8. DOMAIN hist'[col] = D
    BY <2>1
  <2>9. \A r \in D : hist'[col][r] \in [Bkt -> Nat]
    BY <2>1, <2>4, <2>5, <2>7
  <2>. QED BY <2>6, <2>8, <2>9
<1>10. pres' \in [Col -> SUBSET ((0 .. nreg' - 1) \X Bkt)]
  <2>1. \A p \in flushed' : fca'[p] \in Cand \cup {None}
    BY <1>4
  <2>2. \A col \in Col : Bits(flushed, fca, rid', val', col) \in SUBSET ((0 .. nreg' - 1) \X Bkt)
    BY <1>2, <1>3, <2>1, BitsType
  <2>. QED BY <1>1, <2>2 DEF Bitmaps
<1>11. treeN' \in [Root -> Nat] /\ cntMod' \in [Root -> Nat] /\ cntDel' \in [Root -> Nat]
  <2>1. Cardinality(mine) \in Nat
    BY <1>4, CountsAreNat
  <2>. QED BY <1>1, <2>1 DEF TypeInv, TypeOK
<1>. QED BY <1>2, <1>3, <1>6, <1>8, <1>9, <1>10, <1>11

\* on_insert extends the tables to the new points.
LEMMA InsertTypeInv ==
    ASSUME TypeInv, NEW P \in SUBSET (Pts \ flushed), NEW w \in [P -> Tuple],
           NEW a \in [P -> Cand \cup {None}], Insert(P, w, a)
    PROVE  TypeInv'
<1>. DEFINE Hit(r) == {p \in P : r \in BoundaryRegions(a[p])}
            Add(f, g) == [q \in flushed \cup P |-> IF q \in P THEN g[q] ELSE f[q]]
<1>1. /\ flushed' = flushed \cup P
      /\ val' = Add(val, w)
      /\ fca' = Add(fca, a)
      /\ regionOf' = Add(regionOf, [p \in P |-> RegionFor(a[p], rid)])
      /\ size' = [r \in DOMAIN size |-> size[r] + Cardinality(Hit(r))]
      /\ hist' = [col \in Col |-> [r \in DOMAIN hist[col] |-> [b \in Bkt |->
                    hist[col][r][b] + CountOf(col, b, Hit(r), w)]]]
      /\ treeN' = [t \in Root |-> treeN[t] + Cardinality(InTree(t, P, a))]
      /\ pres' = [col \in Col |-> pres[col] \cup Bits(P, a, rid, w, col)]
      /\ degraded' = MarkUnseen({w[p] : p \in P})
      /\ deleted' = deleted /\ rid' = rid /\ nreg' = nreg /\ cntMod' = cntMod /\ cntDel' = cntDel
  BY DEF Insert
<1>2. /\ flushed \in SUBSET Pts /\ Build \subseteq flushed /\ deleted \in SUBSET flushed
      /\ val \in [flushed -> Tuple] /\ fca \in [flushed -> Cand \cup {None}]
      /\ nreg \in Nat /\ nreg # 0 /\ rid \in [Cand -> (0 .. nreg - 1) \cup {None}]
      /\ regionOf \in [flushed -> 0 .. nreg - 1] /\ size \in [0 .. nreg - 1 -> Nat]
      /\ degraded \in SUBSET Cat /\ treeN \in [Root -> Nat]
      /\ pres \in [Col -> SUBSET ((0 .. nreg - 1) \X Bkt)]
      /\ cntMod \in [Root -> Nat] /\ cntDel \in [Root -> Nat]
      /\ \A col \in Col : DOMAIN hist[col] \subseteq 0 .. nreg - 1
      /\ \A col \in Col : \A r \in DOMAIN hist[col] : hist[col][r] \in [Bkt -> Nat]
  BY DEF TypeInv, TypeOK
<1>3. \A r : Hit(r) \in SUBSET Pts
  OBVIOUS
<1>4. \A t : InTree(t, P, a) \subseteq Pts
  BY DEF InTree
<1>5. \A r : Cardinality(Hit(r)) \in Nat
  BY <1>3, CountsAreNat
<1>6. \A t : Cardinality(InTree(t, P, a)) \in Nat
  BY <1>4, CountsAreNat
<1>7. \A col, b, r : CountOf(col, b, Hit(r), w) \in Nat
  BY <1>3, CountOfType
<1>8. \A p \in P : RegionFor(a[p], rid) \in 0 .. nreg - 1
  BY <1>2, RegionForType
<1>9. \A col \in Col : Bits(P, a, rid, w, col) \in SUBSET ((0 .. nreg - 1) \X Bkt)
  BY <1>2, BitsType
<1>10. MarkUnseen({w[p] : p \in P}) \in SUBSET Cat
  <2>. SUFFICES ASSUME NEW col \in Col, NEW p \in P, w[p][col] = Unseen
                PROVE  col \in Cat
    BY <1>2 DEF MarkUnseen
  <2>1. w[p] \in Tuple
    OBVIOUS
  <2>. QED BY <2>1, ColumnAssumption DEF Tuple, Value
<1>. HIDE DEF Hit
<1>11. flushed' \in SUBSET Pts /\ Build \subseteq flushed' /\ deleted' \in SUBSET flushed'
  BY <1>1, <1>2
<1>12. val' \in [flushed' -> Tuple] /\ fca' \in [flushed' -> Cand \cup {None}]
  BY <1>1, <1>2
<1>13. regionOf' \in [flushed' -> 0 .. nreg' - 1]
  BY <1>1, <1>2, <1>8
<1>14. size' \in [0 .. nreg' - 1 -> Nat] /\ treeN' \in [Root -> Nat]
  BY <1>1, <1>2, <1>5, <1>6
<1>15. \A col \in Col : /\ DOMAIN hist'[col] \subseteq 0 .. nreg' - 1
                        /\ \A r \in DOMAIN hist'[col] : hist'[col][r] \in [Bkt -> Nat]
  BY <1>1, <1>2, <1>7
<1>16. pres' \in [Col -> SUBSET ((0 .. nreg' - 1) \X Bkt)]
  BY <1>1, <1>2, <1>9
<1>. QED
  BY <1>1, <1>2, <1>10, <1>11, <1>12, <1>13, <1>14, <1>15, <1>16 DEF TypeInv, TypeOK

\* on_update keeps the types, with or without a rebuild.
LEMMA UpdateTypeInv ==
    ASSUME TypeInv, NEW p \in flushed, NEW col \in Col, NEW new \in Value(col),
           Update(p, col, new)
    PROVE  TypeInv'
<1>. DEFINE t == TreeOf(fca[p])
<1>1. /\ flushed' = flushed /\ deleted' = deleted /\ fca' = fca
      /\ val' = [val EXCEPT ![p][col] = new]
      /\ degraded' = MarkUnseen({[c \in {col} |-> new]})
  BY DEF Update
<1>2. t \in Root
  BY TreeOfType DEF TypeInv, TypeOK
<1>3. val' \in [flushed -> Tuple]
  <2>1. val \in [flushed -> Tuple]
    BY DEF TypeInv, TypeOK
  <2>2. val[p] \in Tuple /\ [val[p] EXCEPT ![col] = new] \in Tuple
    BY <2>1 DEF Tuple, Value
  <2>3. val' = [val EXCEPT ![p] = [val[p] EXCEPT ![col] = new]]
    BY <1>1
  <2>. QED BY <2>1, <2>2, <2>3
<1>4. degraded' \in SUBSET Cat
  <2>1. degraded \in SUBSET Cat
    BY DEF TypeInv, TypeOK
  <2>2. new = Unseen => col \in Cat
    BY ColumnAssumption DEF Value
  <2>. QED BY <1>1, <2>1, <2>2 DEF MarkUnseen
<1>5. CASE RebuildTree(t)
  <2>. HIDE DEF t
  <2>1. /\ nreg' \in Nat /\ nreg' # 0
        /\ rid' \in [Cand -> (0 .. nreg' - 1) \cup {None}]
        /\ regionOf' \in [flushed' -> 0 .. nreg' - 1]
        /\ size' \in [0 .. nreg' - 1 -> Nat]
        /\ \A c \in Col : DOMAIN hist'[c] \subseteq 0 .. nreg' - 1
        /\ \A c \in Col : \A r \in DOMAIN hist'[c] : hist'[c][r] \in [Bkt -> Nat]
        /\ pres' \in [Col -> SUBSET ((0 .. nreg' - 1) \X Bkt)]
        /\ treeN' \in [Root -> Nat] /\ cntMod' \in [Root -> Nat] /\ cntDel' \in [Root -> Nat]
    BY <1>1, <1>2, <1>5, RebuildTypes
  <2>. QED BY <1>1, <1>3, <1>4, <2>1 DEF TypeInv, TypeOK
<1>6. CASE /\ pres' = [pres EXCEPT ![col] = @ \cup ({regionOf[p]} \X ({new} \cap Bkt))]
           /\ cntMod' = [cntMod EXCEPT ![t] = @ + 1]
           /\ UNCHANGED <<rid, nreg, regionOf, size, hist, treeN, cntDel>>
  <2>1. /\ pres \in [Col -> SUBSET ((0 .. nreg - 1) \X Bkt)]
        /\ regionOf[p] \in 0 .. nreg - 1 /\ cntMod \in [Root -> Nat]
    BY DEF TypeInv, TypeOK
  <2>2. pres' \in [Col -> SUBSET ((0 .. nreg - 1) \X Bkt)]
    BY <1>6, <2>1
  <2>3. cntMod' \in [Root -> Nat]
    BY <1>2, <1>6, <2>1
  <2>. QED BY <1>1, <1>3, <1>4, <1>6, <2>2, <2>3 DEF TypeInv, TypeOK
<1>. QED BY <1>5, <1>6 DEF Update

\* on_delete keeps the types, with or without a rebuild; what is tombstoned is
\* a point the statistics know.
LEMMA DeleteTypeInv ==
    ASSUME TypeInv, NEW p \in flushed, Delete(p)
    PROVE  TypeInv'
<1>. DEFINE t == TreeOf(fca[p])
            n == Dec(treeN[t])
            root == rid[RootOf[fca[p]]]
<1>1. /\ flushed' = flushed /\ val' = val /\ fca' = fca /\ degraded' = degraded
      /\ deleted' = deleted \cup {Internal[p]}
  BY DEF Delete
<1>2. t \in Root
  BY TreeOfType DEF TypeInv, TypeOK
<1>3. deleted' \in SUBSET flushed'
  <2>1. flushed \in SUBSET Pts /\ Build \subseteq flushed /\ deleted \in SUBSET flushed
    BY DEF TypeInv, TypeOK
  <2>2. Internal[p] \in flushed
    BY <2>1, PointAssumption
  <2>. QED BY <1>1, <2>1, <2>2
<1>4. CASE RebuildTree(t)
  <2>. HIDE DEF t
  <2>1. /\ nreg' \in Nat /\ nreg' # 0
        /\ rid' \in [Cand -> (0 .. nreg' - 1) \cup {None}]
        /\ regionOf' \in [flushed' -> 0 .. nreg' - 1]
        /\ size' \in [0 .. nreg' - 1 -> Nat]
        /\ \A c \in Col : DOMAIN hist'[c] \subseteq 0 .. nreg' - 1
        /\ \A c \in Col : \A r \in DOMAIN hist'[c] : hist'[c][r] \in [Bkt -> Nat]
        /\ pres' \in [Col -> SUBSET ((0 .. nreg' - 1) \X Bkt)]
        /\ treeN' \in [Root -> Nat] /\ cntMod' \in [Root -> Nat] /\ cntDel' \in [Root -> Nat]
    BY <1>1, <1>2, <1>4, RebuildTypes
  <2>. QED BY <1>1, <1>3, <2>1 DEF TypeInv, TypeOK
<1>5. CASE /\ treeN' = [treeN EXCEPT ![t] = n]
           /\ cntDel' = [cntDel EXCEPT ![t] = @ + 1]
           /\ size' = [r \in DOMAIN size |->
                         IF fca[p] # None /\ r = root THEN Dec(size[r]) ELSE size[r]]
           /\ hist' = [col \in Col |-> [r \in DOMAIN hist[col] |-> [b \in Bkt |->
                         IF fca[p] # None /\ r = root /\ b = val[p][col]
                         THEN Dec(hist[col][r][b]) ELSE hist[col][r][b]]]]
           /\ UNCHANGED <<rid, nreg, regionOf, pres, cntMod>>
  <2>. HIDE DEF root
  <2>1. /\ treeN \in [Root -> Nat] /\ cntDel \in [Root -> Nat]
        /\ size \in [0 .. nreg - 1 -> Nat]
        /\ \A col \in Col : DOMAIN hist[col] \subseteq 0 .. nreg - 1
        /\ \A col \in Col : \A r \in DOMAIN hist[col] : hist[col][r] \in [Bkt -> Nat]
    BY DEF TypeInv, TypeOK
  <2>2. \A k \in Nat : Dec(k) \in Nat
    BY DEF Dec
  <2>3. treeN' \in [Root -> Nat] /\ cntDel' \in [Root -> Nat]
    BY <1>2, <1>5, <2>1, <2>2
  <2>4. size' \in [0 .. nreg - 1 -> Nat]
    BY <1>5, <2>1, <2>2
  <2>5. \A col \in Col : /\ DOMAIN hist'[col] \subseteq 0 .. nreg - 1
                         /\ \A r \in DOMAIN hist'[col] : hist'[col][r] \in [Bkt -> Nat]
    BY <1>5, <2>1, <2>2
  <2>. QED BY <1>1, <1>3, <1>5, <2>3, <2>4, <2>5 DEF TypeInv, TypeOK
<1>. QED BY <1>4, <1>5 DEF Delete

\* A requested rebuild keeps the types.
LEMMA RebuildTypeInv ==
    ASSUME TypeInv, NEW t \in Root, Rebuild(t)
    PROVE  TypeInv'
<1>1. flushed' = flushed /\ deleted' = deleted /\ val' = val /\ fca' = fca /\ degraded' = degraded
  BY DEF Rebuild
<1>2. /\ nreg' \in Nat /\ nreg' # 0
      /\ rid' \in [Cand -> (0 .. nreg' - 1) \cup {None}]
      /\ regionOf' \in [flushed' -> 0 .. nreg' - 1]
      /\ size' \in [0 .. nreg' - 1 -> Nat]
      /\ \A c \in Col : DOMAIN hist'[c] \subseteq 0 .. nreg' - 1
      /\ \A c \in Col : \A r \in DOMAIN hist'[c] : hist'[c][r] \in [Bkt -> Nat]
      /\ pres' \in [Col -> SUBSET ((0 .. nreg' - 1) \X Bkt)]
      /\ treeN' \in [Root -> Nat] /\ cntMod' \in [Root -> Nat] /\ cntDel' \in [Root -> Nat]
  BY <1>1, RebuildTypes DEF Rebuild
<1>. QED BY <1>1, <1>2 DEF TypeInv, TypeOK

\* Every step keeps the types.
LEMMA NextTypeInv == TypeInv /\ [Next]_vars => TypeInv'
<1>. SUFFICES ASSUME TypeInv, [Next]_vars PROVE TypeInv'
  OBVIOUS
<1>1. ASSUME NEW P \in SUBSET (Pts \ flushed), NEW w \in [P -> Tuple],
             NEW a \in [P -> Cand \cup {None}], Insert(P, w, a)
      PROVE  TypeInv'
  BY <1>1, InsertTypeInv
<1>2. ASSUME NEW p \in flushed, NEW col \in Col, NEW new \in Value(col), Update(p, col, new)
      PROVE  TypeInv'
  BY <1>2, UpdateTypeInv
<1>3. ASSUME NEW p \in flushed, Delete(p)
      PROVE  TypeInv'
  BY <1>3, DeleteTypeInv
<1>4. ASSUME NEW t \in Root, Rebuild(t)
      PROVE  TypeInv'
  BY <1>4, RebuildTypeInv
<1>5. CASE UNCHANGED vars
  BY <1>5 DEF TypeInv, TypeOK, vars
<1>. QED BY <1>1, <1>2, <1>3, <1>4, <1>5 DEF Next

\* TypeInv holds in every reachable state.
LEMMA TypeInvariant == Spec => []TypeInv
<1>. QED BY InitTypeInv, NextTypeInv, PTL DEF Spec

\* The tables of the statistics keep their types and index exactly the flushed
\* points, the allotted region ids and the trees, whatever is inserted, updated,
\* deleted and rebuilt (RegionHistogramStats.cpp).
THEOREM TypeCorrect == Spec => []TypeOK
<1>1. TypeInv => TypeOK
  BY DEF TypeInv
<1>. QED BY <1>1, TypeInvariant, PTL

(***************************************************************************)
(* The regions of live points, and the discard test.                       *)
(***************************************************************************)

\* A rebuild moves every live point of its tree to the region that the new ids
\* give it; for the points of the other trees the new ids are the old ones.
LEMMA RebuildRegions ==
    ASSUME TypeInv, RegionCurrent, NEW t \in Root, RebuildTree(t),
           flushed' = flushed, fca' = fca, deleted \subseteq deleted'
    PROVE  RegionCurrent' /\ pres' = Bitmaps(rid', val')
<1>. DEFINE mine == InTree(t, flushed \ deleted', fca)
<1>1. /\ regionOf' = [p \in flushed |->
                         IF p \in mine /\ fca[p] # None THEN RegionFor(fca[p], rid')
                         ELSE regionOf[p]]
      /\ pres' = Bitmaps(rid', val')
  BY DEF RebuildTree
<1>2. ASSUME NEW p \in flushed \ deleted'
      PROVE  regionOf'[p] = RegionFor(fca[p], rid')
  <2>1. p \in Live /\ fca[p] \in Cand \cup {None} /\ regionOf[p] = RegionFor(fca[p], rid)
    BY DEF RegionCurrent, Live, TypeInv, TypeOK
  <2>2. CASE p \in mine /\ fca[p] # None
    BY <1>1, <2>2
  <2>3. CASE ~ (p \in mine /\ fca[p] # None)
    <3>1. regionOf'[p] = regionOf[p]
      BY <1>1, <2>3
    <3>2. ASSUME fca[p] # None
          PROVE  \A c \in Anc[fca[p]] : rid[c] = rid'[c]
      <4>1. fca[p] \in Cand /\ RootOf[fca[p]] # t
        BY <2>1, <2>3, <3>2 DEF InTree, TreeOf
      <4>2. \A c \in Anc[fca[p]] : c \in Cand /\ RootOf[c] # t
        BY <4>1, RootOfFacts, AncLeast
      <4>. QED BY <4>2, RebuildRids
    <3>3. RegionFor(fca[p], rid) = RegionFor(fca[p], rid')
      BY <2>1, <3>2, RegionForLocal
    <3>. QED BY <2>1, <3>1, <3>3
  <2>. QED BY <2>2, <2>3
<1>. QED BY <1>1, <1>2 DEF RegionCurrent, Live

\* The discard test reads a bitmap that covers every live value: the bit of its
\* bucket at the region of the point, or the degradation of its column.
BitsCover ==
    \A p \in Live, col \in Col :
        /\ val[p][col] \in Bkt => <<regionOf[p], val[p][col]>> \in pres[col]
        /\ val[p][col] = Unseen => col \in degraded

\* The inductive invariant behind the discard test.
PresInv == TypeInv /\ RegionCurrent /\ BitsCover

\* Recomputed bitmaps cover the values of points that lie where they belong.
LEMMA BitmapsCover ==
    ASSUME RegionCurrent, pres = Bitmaps(rid, val), NEW p \in Live, NEW col \in Col,
           val[p][col] \in Bkt
    PROVE  <<regionOf[p], val[p][col]>> \in pres[col]
<1>1. p \in flushed /\ regionOf[p] = RegionFor(fca[p], rid)
  BY DEF Live, RegionCurrent
<1>2. pres[col] = Bits(flushed, fca, rid, val, col)
  BY DEF Bitmaps
<1>. QED BY <1>1, <1>2 DEF Bits

\* The constructor establishes the invariant.
LEMMA InitPresInv == Init => PresInv
<1>. SUFFICES ASSUME Init PROVE PresInv
  OBVIOUS
<1>1. /\ flushed = Build /\ val \in BuildVals /\ deleted = {}
      /\ regionOf = [p \in Build |-> RegionFor(fca[p], rid)]
      /\ pres = Bitmaps(rid, val)
  BY DEF Init
<1>2. RegionCurrent
  BY <1>1 DEF RegionCurrent, Live
<1>3. \A p \in Live, col \in Col : val[p][col] \in Bkt /\ val[p][col] # Unseen
  BY <1>1, ColumnAssumption DEF Live
<1>4. BitsCover
  BY <1>1, <1>2, <1>3, BitmapsCover DEF BitsCover
<1>. QED BY <1>2, <1>4, InitTypeInv DEF PresInv

\* A rebuild restores it, whatever the new values, provided the degraded
\* columns account for them.
LEMMA RebuildPresInv ==
    ASSUME PresInv, TypeInv', NEW t \in Root, RebuildTree(t),
           flushed' = flushed, fca' = fca, deleted \subseteq deleted',
           \A p \in Live', col \in Col : val'[p][col] = Unseen => col \in degraded'
    PROVE  PresInv'
<1>1. RegionCurrent' /\ pres' = Bitmaps(rid', val')
  BY RebuildRegions DEF PresInv
<1>2. ASSUME NEW p \in Live', NEW col \in Col, val'[p][col] \in Bkt
      PROVE  <<regionOf'[p], val'[p][col]>> \in pres'[col]
  <2>1. p \in flushed' /\ regionOf'[p] = RegionFor(fca'[p], rid')
    BY <1>1 DEF Live, RegionCurrent
  <2>2. pres'[col] = Bits(flushed', fca', rid', val', col)
    BY <1>1 DEF Bitmaps
  <2>. QED BY <1>2, <2>1, <2>2 DEF Bits
<1>. QED BY <1>1, <1>2 DEF PresInv, BitsCover

\* An insertion adds the bits of the new points and leaves the old ones.
LEMMA InsertPresInv ==
    ASSUME PresInv, NEW P \in SUBSET (Pts \ flushed), NEW w \in [P -> Tuple],
           NEW a \in [P -> Cand \cup {None}], Insert(P, w, a)
    PROVE  PresInv'
<1>1. /\ flushed' = flushed \cup P
      /\ val' = [q \in flushed \cup P |-> IF q \in P THEN w[q] ELSE val[q]]
      /\ fca' = [q \in flushed \cup P |-> IF q \in P THEN a[q] ELSE fca[q]]
      /\ regionOf' = [q \in flushed \cup P |->
                        IF q \in P THEN [p \in P |-> RegionFor(a[p], rid)][q] ELSE regionOf[q]]
      /\ pres' = [col \in Col |-> pres[col] \cup Bits(P, a, rid, w, col)]
      /\ degraded' = MarkUnseen({w[p] : p \in P})
      /\ deleted' = deleted /\ rid' = rid
  BY DEF Insert
<1>2. TypeInv'
  BY InsertTypeInv DEF PresInv
<1>3. \A p \in Live' : p \in P \/ p \in Live
  BY <1>1 DEF Live
<1>4. P \cap flushed = {}
  OBVIOUS
<1>5. RegionCurrent'
  <2>. SUFFICES ASSUME NEW p \in Live' PROVE regionOf'[p] = RegionFor(fca'[p], rid')
    BY DEF RegionCurrent
  <2>1. CASE p \in P
    BY <1>1, <2>1
  <2>2. CASE p \in Live /\ p \notin P
    BY <1>1, <2>2 DEF PresInv, RegionCurrent, Live
  <2>. QED BY <1>3, <2>1, <2>2
<1>6. BitsCover'
  <2>. SUFFICES ASSUME NEW p \in Live', NEW col \in Col
               PROVE  /\ val'[p][col] \in Bkt => <<regionOf'[p], val'[p][col]>> \in pres'[col]
                      /\ val'[p][col] = Unseen => col \in degraded'
    BY DEF BitsCover
  <2>1. CASE p \in P
    <3>1. val'[p] = w[p] /\ regionOf'[p] = RegionFor(a[p], rid)
      BY <1>1, <2>1
    <3>2. w[p][col] \in Bkt => <<RegionFor(a[p], rid), w[p][col]>> \in Bits(P, a, rid, w, col)
      BY <2>1 DEF Bits
    <3>3. w[p] \in Tuple /\ DOMAIN w[p] = Col
      BY <2>1 DEF Tuple
    <3>4. w[p][col] = Unseen => col \in MarkUnseen({w[q] : q \in P})
      BY <2>1, <3>3 DEF MarkUnseen
    <3>. QED BY <1>1, <3>1, <3>2, <3>4
  <2>2. CASE p \in Live /\ p \notin P
    <3>1. val'[p] = val[p] /\ regionOf'[p] = regionOf[p]
      BY <1>1, <2>2 DEF Live
    <3>2. degraded \subseteq degraded' /\ pres[col] \subseteq pres'[col]
      BY <1>1 DEF MarkUnseen
    <3>. QED BY <2>2, <3>1, <3>2 DEF PresInv, BitsCover
  <2>. QED BY <1>3, <2>1, <2>2
<1>. QED BY <1>2, <1>5, <1>6 DEF PresInv

\* An update sets the bit of the new value where the point lies.
LEMMA UpdatePresInv ==
    ASSUME PresInv, NEW p \in flushed, NEW col \in Col, NEW new \in Value(col),
           Update(p, col, new)
    PROVE  PresInv'
<1>. DEFINE t == TreeOf(fca[p])
<1>1. /\ flushed' = flushed /\ deleted' = deleted /\ fca' = fca
      /\ val' = [val EXCEPT ![p][col] = new]
      /\ degraded' = MarkUnseen({[c \in {col} |-> new]})
  BY DEF Update
<1>2. t \in Root
  BY TreeOfType DEF PresInv, TypeInv, TypeOK
<1>3. TypeInv'
  BY UpdateTypeInv DEF PresInv
<1>4. val \in [flushed -> Tuple] /\ \A q \in flushed : DOMAIN val[q] = Col
  BY DEF PresInv, TypeInv, TypeOK, Tuple
<1>5. \A q \in flushed, c \in Col :
         val'[q][c] = IF q = p /\ c = col THEN new ELSE val[q][c]
  BY <1>1, <1>4
<1>6. degraded \subseteq degraded' /\ (new = Unseen => col \in degraded')
  BY <1>1 DEF MarkUnseen
<1>7. \A q \in Live', c \in Col : val'[q][c] = Unseen => c \in degraded'
  <2>. SUFFICES ASSUME NEW q \in Live', NEW c \in Col, val'[q][c] = Unseen
               PROVE  c \in degraded'
    OBVIOUS
  <2>1. q \in flushed /\ q \in Live
    BY <1>1 DEF Live
  <2>2. CASE q = p /\ c = col
    BY <1>5, <1>6, <2>1, <2>2
  <2>3. CASE ~ (q = p /\ c = col)
    <3>1. val[q][c] = Unseen
      BY <1>5, <2>1, <2>3
    <3>. QED BY <1>6, <2>1, <3>1 DEF PresInv, BitsCover
  <2>. QED BY <2>2, <2>3
<1>8. CASE RebuildTree(t)
  <2>. HIDE DEF t
  <2>. QED BY <1>1, <1>2, <1>3, <1>7, <1>8, RebuildPresInv
<1>9. CASE /\ pres' = [pres EXCEPT ![col] = @ \cup ({regionOf[p]} \X ({new} \cap Bkt))]
           /\ UNCHANGED <<rid, regionOf>>
  <2>1. RegionCurrent'
    BY <1>1, <1>9 DEF PresInv, RegionCurrent, Live
  <2>2. /\ \A c \in Col : pres[c] \subseteq pres'[c]
        /\ new \in Bkt => <<regionOf[p], new>> \in pres'[col]
    BY <1>9 DEF PresInv, TypeInv, TypeOK
  <2>3. ASSUME NEW q \in Live', NEW c \in Col, val'[q][c] \in Bkt
        PROVE  <<regionOf'[q], val'[q][c]>> \in pres'[c]
    <3>1. q \in Live /\ regionOf'[q] = regionOf[q] /\ q \in flushed
      BY <1>1, <1>9 DEF Live
    <3>2. CASE q = p /\ c = col
      BY <1>5, <2>2, <2>3, <3>1, <3>2
    <3>3. CASE ~ (q = p /\ c = col)
      <4>1. val'[q][c] = val[q][c]
        BY <1>5, <3>1, <3>3
      <4>. QED BY <2>2, <2>3, <3>1, <4>1 DEF PresInv, BitsCover
    <3>. QED BY <3>2, <3>3
  <2>4. BitsCover'
    BY <1>7, <2>3 DEF BitsCover
  <2>. QED BY <1>3, <2>1, <2>4 DEF PresInv
<1>. QED BY <1>8, <1>9 DEF Update

\* A deletion only takes points out of consideration.
LEMMA DeletePresInv ==
    ASSUME PresInv, NEW p \in flushed, Delete(p)
    PROVE  PresInv'
<1>. DEFINE t == TreeOf(fca[p])
<1>1. /\ flushed' = flushed /\ val' = val /\ fca' = fca /\ degraded' = degraded
      /\ deleted \subseteq deleted'
  BY DEF Delete
<1>2. t \in Root
  BY TreeOfType DEF PresInv, TypeInv, TypeOK
<1>3. TypeInv'
  BY DeleteTypeInv DEF PresInv
<1>4. \A q \in Live' : q \in Live
  BY <1>1 DEF Live
<1>5. CASE RebuildTree(t)
  <2>1. \A q \in Live', c \in Col : val'[q][c] = Unseen => c \in degraded'
    BY <1>1, <1>4 DEF PresInv, BitsCover
  <2>. HIDE DEF t
  <2>. QED BY <1>1, <1>2, <1>3, <1>5, <2>1, RebuildPresInv
<1>6. CASE UNCHANGED <<rid, regionOf, pres>>
  BY <1>1, <1>3, <1>4, <1>6 DEF PresInv, RegionCurrent, BitsCover
<1>. QED BY <1>5, <1>6 DEF Delete

\* A requested rebuild changes no value and no point.
LEMMA RequestPresInv ==
    ASSUME PresInv, NEW t \in Root, Rebuild(t)
    PROVE  PresInv'
<1>1. /\ flushed' = flushed /\ deleted' = deleted /\ val' = val /\ fca' = fca
      /\ degraded' = degraded /\ RebuildTree(t)
  BY DEF Rebuild
<1>2. TypeInv'
  BY RebuildTypeInv DEF PresInv
<1>3. \A q \in Live', c \in Col : val'[q][c] = Unseen => c \in degraded'
  BY <1>1 DEF PresInv, BitsCover, Live
<1>. QED BY <1>1, <1>2, <1>3, RebuildPresInv

\* Every step preserves the invariant.
LEMMA NextPresInv == PresInv /\ [Next]_vars => PresInv'
<1>. SUFFICES ASSUME PresInv, [Next]_vars PROVE PresInv'
  OBVIOUS
<1>1. ASSUME NEW P \in SUBSET (Pts \ flushed), NEW w \in [P -> Tuple],
             NEW a \in [P -> Cand \cup {None}], Insert(P, w, a)
      PROVE  PresInv'
  BY <1>1, InsertPresInv
<1>2. ASSUME NEW p \in flushed, NEW col \in Col, NEW new \in Value(col), Update(p, col, new)
      PROVE  PresInv'
  BY <1>2, UpdatePresInv
<1>3. ASSUME NEW p \in flushed, Delete(p)
      PROVE  PresInv'
  BY <1>3, DeletePresInv
<1>4. ASSUME NEW t \in Root, Rebuild(t)
      PROVE  PresInv'
  BY <1>4, RequestPresInv
<1>5. CASE UNCHANGED vars
  BY <1>5 DEF PresInv, TypeInv, TypeOK, RegionCurrent, BitsCover, Live, vars
<1>. QED BY <1>1, <1>2, <1>3, <1>4, <1>5 DEF Next

\* PresInv holds in every reachable state.
LEMMA PresInvariant == Spec => []PresInv
<1>. QED BY InitPresInv, NextPresInv, PTL DEF Spec

\* No live point is ever left in a region that a rebuild retired: region_of is
\* the region of the finest bound ancestor (rebuild_tree, on_insert).
THEOREM RegionsCurrent == Spec => []RegionCurrent
<1>1. PresInv => RegionCurrent
  BY DEF PresInv
<1>. QED BY <1>1, PresInvariant, PTL

\* Covered values make the discard test sound: an atom that a value satisfies
\* is not empty at the region of its point.
LEMMA CoverSound == PresInv => DiscardSafe
<1>. SUFFICES ASSUME PresInv, NEW q \in Queries, NEW p \in Live,
                     DnfEmpty(regionOf[p], q), MaySatisfy(p, q)
              PROVE  FALSE
  BY DEF DiscardSafe
<1>1. PICK clause \in q : \A a \in clause : val[p][a.col] \in a.vals
  BY DEF MaySatisfy
<1>2. PICK a \in clause : AtomEmpty(regionOf[p], a)
  BY DEF DnfEmpty
<1>3. a \in Atom /\ a.col \in Col /\ a.vals \subseteq Bkt \cup {Unseen}
  BY ColumnAssumption DEF Atom
<1>4. val[p][a.col] \in a.vals
  BY <1>1
<1>5. CASE val[p][a.col] = Unseen
  BY <1>2, <1>3, <1>4, <1>5 DEF PresInv, BitsCover, AtomEmpty
<1>6. CASE val[p][a.col] \in Bkt /\ val[p][a.col] # Unseen
  BY <1>2, <1>3, <1>4, <1>6 DEF PresInv, BitsCover, AtomEmpty
<1>. QED BY <1>3, <1>4, <1>5, <1>6

\* A region that dnf_empty calls empty for a predicate holds no live point that
\* satisfies it, after any history of inserts, updates, deletes and rebuilds.
THEOREM DiscardSound == Spec => []DiscardSafe
<1>. QED BY CoverSound, PresInvariant, PTL

(***************************************************************************)
(* Region ids.                                                             *)
(***************************************************************************)

\* Only a rebuild changes region ids.
LEMMA IdsChange ==
    ASSUME TypeInv, [Next]_vars
    PROVE  rid' = rid \/ \E t \in Root : RebuildTree(t)
<1>1. ASSUME NEW p \in flushed, NEW col \in Col, NEW new \in Value(col), Update(p, col, new)
      PROVE  rid' = rid \/ RebuildTree(TreeOf(fca[p]))
  BY <1>1 DEF Update
<1>2. ASSUME NEW p \in flushed, Delete(p)
      PROVE  rid' = rid \/ RebuildTree(TreeOf(fca[p]))
  BY <1>2 DEF Delete
<1>3. \A p \in flushed : TreeOf(fca[p]) \in Root
  BY TreeOfType DEF TypeInv, TypeOK
<1>4. CASE UNCHANGED vars
  BY <1>4 DEF vars
<1>. QED BY <1>1, <1>2, <1>3, <1>4 DEF Next, Insert, Rebuild

\* Two candidates never come to own one region.
LEMMA NextRidInjective ==
    ASSUME TypeInv, RidInjective, [Next]_vars
    PROVE  RidInjective'
<1>1. CASE rid' = rid
  BY <1>1 DEF RidInjective, Bound
<1>2. ASSUME NEW t \in Root, RebuildTree(t)
      PROVE  RidInjective'
  <2>. SUFFICES ASSUME NEW c \in Cand, NEW d \in Cand,
                       rid'[c] # None, rid'[d] # None, rid'[c] = rid'[d]
               PROVE  c = d
    BY DEF RidInjective, Bound
  <2>. DEFINE Kept(e) == rid'[e] = rid[e] /\ rid[e] # None
  <2>1. \A e \in {c, d} : Kept(e) \/ rid[e] = None
    BY <1>2, RebuildRids
  <2>2. \A e, g \in {c, d} : rid[e] = None => e = g
    BY <1>2, RebuildRids
  <2>3. CASE Kept(c) /\ Kept(d)
    BY <2>3 DEF RidInjective, Bound
  <2>. QED BY <2>1, <2>2, <2>3
<1>. QED BY <1>1, <1>2, IdsChange

\* The constructor numbers the bound candidates.
LEMMA InitRidInjective == Init => RidInjective
<1>. SUFFICES ASSUME Init PROVE RidInjective
  OBVIOUS
<1>1. PICK K \in KeptChoices(Cand \ Root) :
         rid = [c \in Cand |-> IF c \in Root \cup KeptBy(K)
                               THEN Number(Root \cup KeptBy(K), 0)[c] ELSE None]
  BY DEF Init
<1>. DEFINE bound == Root \cup KeptBy(K)
<1>2. bound \in SUBSET Cand
  BY DEF KeptChoices, KeptBy, Root
<1>3. \A c \in Bound(rid) : c \in bound /\ rid[c] = Number(bound, 0)[c]
  BY <1>1 DEF Bound
<1>. HIDE DEF bound
<1>4. \A c, d \in bound : Number(bound, 0)[c] = Number(bound, 0)[d] => c = d
  BY <1>2, NumberRange
<1>. QED BY <1>3, <1>4 DEF RidInjective

\* No two candidates ever own the same region, although regions are retired and
\* ids handed out in every rebuild (rebuild_tree).
THEOREM RegionsNotShared == Spec => []RidInjective
<1>1. Init => TypeInv /\ RidInjective
  BY InitTypeInv, InitRidInjective
<1>2. TypeInv /\ RidInjective /\ [Next]_vars => (TypeInv /\ RidInjective)'
  BY NextTypeInv, NextRidInjective
<1>. QED BY <1>1, <1>2, PTL DEF Spec

\* An id that a candidate receives is above every id handed out before, so that
\* a region id kept by a searcher never comes to mean another region.
THEOREM IdsNeverReused == Spec => FreshRegionIds
<1>1. TypeInv /\ [Next]_vars =>
        [\A c \in Cand : rid'[c] \notin {rid[c], None} => rid'[c] >= nreg]_vars
  <2>. SUFFICES ASSUME TypeInv, [Next]_vars, NEW c \in Cand, rid'[c] \notin {rid[c], None}
               PROVE  rid'[c] >= nreg
    OBVIOUS
  <2>1. PICK t \in Root : RebuildTree(t)
    BY IdsChange
  <2>. QED BY <2>1, RebuildRids
<1>. QED BY <1>1, TypeInvariant, PTL DEF Spec, FreshRegionIds

(***************************************************************************)
(* Region sizes, where remove tombstones the point it is given (a          *)
(* sequential build: base_to_internal_ is the identity).                   *)
(***************************************************************************)

\* Counting two disjoint sets of points.
LEMMA CountUnion ==
    ASSUME NEW S \in SUBSET Pts, NEW T \in SUBSET Pts, S \cap T = {}
    PROVE  Cardinality(S \cup T) = Cardinality(S) + Cardinality(T)
<1>1. /\ IsFiniteSet(S) /\ IsFiniteSet(T)
      /\ Cardinality(S) \in Nat /\ Cardinality(T) \in Nat
  BY CountsAreNat
<1>2. Cardinality(S \cap T) = 0
  BY FS_EmptySet
<1>3. Cardinality(S \cup T) = Cardinality(S) + Cardinality(T) - Cardinality(S \cap T)
  BY <1>1, FS_Union
<1>. QED BY <1>1, <1>2, <1>3

\* Removing one point from a count.
LEMMA CountRemove ==
    ASSUME NEW S \in SUBSET Pts, NEW p
    PROVE  Cardinality(S \ {p}) = IF p \in S THEN Dec(Cardinality(S)) ELSE Cardinality(S)
<1>1. IsFiniteSet(S) /\ Cardinality(S) \in Nat
  BY CountsAreNat
<1>2. Cardinality(S \ {p}) = IF p \in S THEN Cardinality(S) - 1 ELSE Cardinality(S)
  BY <1>1, FS_RemoveElement
<1>3. p \in S => Cardinality(S) # 0
  BY <1>1, FS_EmptySet
<1>. QED BY <1>1, <1>2, <1>3 DEF Dec

\* The owner of the region of a bound candidate is that candidate.
LEMMA OwnerOfBound ==
    ASSUME NEW rids, \A c, d \in Bound(rids) : rids[c] = rids[d] => c = d,
           NEW c \in Bound(rids), None \notin Nat
    PROVE  Owner(rids[c], rids) = c
<1>1. c \in Cand /\ rids[c] # None
  BY DEF Bound
<1>2. Owner(rids[c], rids) \in Cand /\ rids[Owner(rids[c], rids)] = rids[c]
  BY <1>1 DEF Owner
<1>3. Owner(rids[c], rids) \in Bound(rids)
  BY <1>1, <1>2 DEF Bound
<1>. QED BY <1>2, <1>3

\* The inductive invariant behind the sizes.
SizeInv == TypeInv /\ RidInjective /\ SizesCover

\* What SizesCover says of one bound candidate.
SizeOf(c) ==
    /\ c \in Root => size[rid[c]] = Cardinality(Below(c, Live, fca))
    /\ size[rid[c]] >= Cardinality(Below(c, Live, fca))

\* SizesCover, candidate by candidate.
LEMMA SizesCoverIs ==
    ASSUME TypeInv
    PROVE  SizesCover <=> /\ \A c \in Root : rid[c] # None
                          /\ \A c \in Bound(rid) : SizeOf(c)
<1>1. Root \subseteq Cand
  BY DEF Root
<1>2. \A c : Cardinality(Below(c, Live, fca)) \in Nat
  <2>1. \A c : Below(c, Live, fca) \in SUBSET Pts
    BY DEF Below, Live, TypeInv, TypeOK
  <2>. QED BY <2>1, CountsAreNat
<1>. QED BY <1>1, <1>2 DEF SizesCover, SizeOf, Bound

\* The same after a step.
LEMMA SizesCoverNext ==
    TypeInv' => (SizesCover <=> /\ \A c \in Root : rid[c] # None
                                /\ \A c \in Bound(rid) : SizeOf(c))'
<1>. QED BY SizesCoverIs, PTL

\* The constructor counts every point below each bound candidate.
LEMMA InitSizeInv == Init => SizeInv
<1>. SUFFICES ASSUME Init PROVE SizeInv
  OBVIOUS
<1>1. TypeInv /\ RidInjective
  BY InitTypeInv, InitRidInjective
<1>2. /\ flushed = Build /\ deleted = {}
      /\ size = [r \in 0 .. nreg - 1 |-> Cardinality(Below(Owner(r, rid), Build, fca))]
  BY DEF Init
<1>3. \A t \in Root : rid[t] # None
  <2>1. PICK K \in KeptChoices(Cand \ Root) :
           rid = [c \in Cand |-> IF c \in Root \cup KeptBy(K)
                                 THEN Number(Root \cup KeptBy(K), 0)[c] ELSE None]
    BY DEF Init
  <2>2. Root \cup KeptBy(K) \in SUBSET Cand
    BY DEF KeptChoices, KeptBy, Root
  <2>3. \A t \in Root : Number(Root \cup KeptBy(K), 0)[t] \in Nat
    BY <2>2, NumberRange
  <2>. QED BY <2>1, <2>2, <2>3, ForestAssumption
<1>4. ASSUME NEW c \in Bound(rid)
      PROVE  SizeOf(c)
  <2>1. Owner(rid[c], rid) = c
    BY <1>1, OwnerOfBound, ForestAssumption DEF RidInjective
  <2>2. rid[c] \in 0 .. nreg - 1
    BY <1>1 DEF TypeInv, TypeOK, Bound
  <2>3. Live = Build
    BY <1>2 DEF Live
  <2>4. size[rid[c]] = Cardinality(Below(c, Live, fca))
    BY <1>2, <2>1, <2>2, <2>3
  <2>5. Below(c, Live, fca) \in SUBSET Pts
    BY <1>1 DEF Below, Live, TypeInv, TypeOK
  <2>6. Cardinality(Below(c, Live, fca)) \in Nat
    BY <2>5, CountsAreNat
  <2>. QED BY <2>4, <2>6 DEF SizeOf
<1>. QED BY <1>1, <1>3, <1>4, SizesCoverIs DEF SizeInv

\* An insertion counts at every bound ancestor.
LEMMA InsertSizes ==
    ASSUME SizeInv, NEW P \in SUBSET (Pts \ flushed), NEW w \in [P -> Tuple],
           NEW a \in [P -> Cand \cup {None}], Insert(P, w, a)
    PROVE  SizesCover'
<1>. DEFINE Hit(r) == {p \in P : r \in BoundaryRegions(a[p])}
<1>1. /\ flushed' = flushed \cup P /\ deleted' = deleted /\ rid' = rid
      /\ fca' = [q \in flushed \cup P |-> IF q \in P THEN a[q] ELSE fca[q]]
      /\ size' = [r \in DOMAIN size |-> size[r] + Cardinality(Hit(r))]
  BY DEF Insert
<1>2. TypeInv' /\ TypeInv /\ RidInjective
  BY InsertTypeInv DEF SizeInv
<1>3. (\A t \in Root : rid[t] # None) /\ \A c \in Bound(rid) : SizeOf(c)
  BY <1>2, SizesCoverIs DEF SizeInv
<1>4. ASSUME NEW c \in Bound(rid)
      PROVE  SizeOf(c)'
  <2>. DEFINE L == Below(c, Live, fca)
              N == Below(c, P, a)
  <2>1. Hit(rid[c]) = N
    BY <1>2 DEF BoundaryRegions, Below, RidInjective, Bound
  <2>2. /\ flushed \subseteq Pts /\ deleted \subseteq flushed /\ P \cap flushed = {}
    BY <1>2 DEF TypeInv, TypeOK
  <2>3. Live' = Live \cup P
    BY <1>1, <2>2 DEF Live
  <2>4. /\ L \in SUBSET Pts /\ N \in SUBSET Pts /\ L \cap N = {}
        /\ Below(c, Live', fca') = L \cup N
    BY <1>1, <2>2, <2>3 DEF Live, Below
  <2>5. rid[c] \in DOMAIN size /\ size[rid[c]] \in Nat
    BY <1>2 DEF TypeInv, TypeOK, Bound
  <2>6. size'[rid[c]] = size[rid[c]] + Cardinality(N)
    BY <1>1, <2>1, <2>5
  <2>. HIDE DEF L, N
  <2>7. /\ Cardinality(L) \in Nat /\ Cardinality(N) \in Nat
        /\ Cardinality(L \cup N) = Cardinality(L) + Cardinality(N)
    BY <2>4, CountsAreNat, CountUnion
  <2>8. (c \in Root => size[rid[c]] = Cardinality(L)) /\ size[rid[c]] >= Cardinality(L)
    BY <1>3 DEF SizeOf, L
  <2>9. /\ c \in Root => size'[rid'[c]] = Cardinality(L \cup N)
        /\ size'[rid'[c]] >= Cardinality(L \cup N)
    BY <1>1, <2>5, <2>6, <2>7, <2>8
  <2>. QED BY <2>4, <2>9 DEF SizeOf
<1>5. Bound(rid)' = Bound(rid)
  BY <1>1 DEF Bound
<1>. QED BY <1>1, <1>2, <1>3, <1>4, <1>5, SizesCoverNext

\* A rebuild counts its tree anew; outside of it nothing is counted and no
\* point goes away.
LEMMA RebuildSizes ==
    ASSUME SizeInv, TypeInv', RidInjective', NEW t \in Root, RebuildTree(t),
           flushed' = flushed, fca' = fca,
           \A p \in Live \ Live' : TreeOf(fca[p]) = t, Live' \subseteq Live
    PROVE  SizesCover'
<1>. DEFINE mine == InTree(t, flushed \ deleted', fca)
            old == {rid[c] : c \in TreeCands(t) \cap Bound(rid)}
<1>1. PICK K \in KeptChoices(TreeCands(t) \ {t}) :
        /\ rid' = [c \in Cand |->
                      IF c \notin TreeCands(t) THEN rid[c]
                      ELSE IF c \notin Rebound(t, K) THEN None
                      ELSE IF c \in Fresh(t, K) THEN Number(Fresh(t, K), nreg)[c]
                      ELSE rid[c]]
        /\ size' = [r \in 0 .. nreg' - 1 |->
                      IF r \in {rid'[c] : c \in Rebound(t, K)}
                      THEN Cardinality(Below(Owner(r, rid'), mine, fca))
                      ELSE IF r \in DOMAIN size \ old THEN size[r] ELSE 0]
  BY DEF RebuildTree, Rebound, Fresh
<1>2. /\ TypeInv /\ RidInjective /\ None \notin Nat
      /\ \A c \in Root : rid[c] # None
      /\ \A c \in Bound(rid) : SizeOf(c)
  BY SizesCoverIs, ForestAssumption DEF SizeInv
<1>3. /\ rid' \in [Cand -> (0 .. nreg' - 1) \cup {None}]
      /\ \A c \in Cand : RootOf[c] # t => rid'[c] = rid[c]
  BY <1>2, RebuildRids
<1>4. Rebound(t, K) \subseteq TreeCands(t) /\ t \in Rebound(t, K) /\ TreeCands(t) \subseteq Cand
  BY RootOfRoot DEF Rebound, KeptChoices, KeptBy, TreeCands
<1>5. \A c \in TreeCands(t) : c \in Rebound(t, K) <=> rid'[c] # None
  <2>. SUFFICES ASSUME NEW c \in Rebound(t, K) PROVE rid'[c] # None
    BY <1>1, <1>4
  <2>1. CASE c \in Fresh(t, K)
    <3>1. rid'[c] = Number(Fresh(t, K), nreg)[c]
      BY <1>1, <1>4, <2>1
    <3>2. Fresh(t, K) \in SUBSET Cand /\ nreg \in Nat
      BY <1>2, <1>4 DEF Fresh, TypeInv, TypeOK
    <3>3. Number(Fresh(t, K), nreg)[c] \in Nat
      BY <2>1, <3>2, NumberRange
    <3>. QED BY <1>2, <3>1, <3>3
  <2>2. CASE c \notin Fresh(t, K)
    BY <1>1, <1>4, <2>2 DEF Fresh
  <2>. QED BY <2>1, <2>2
<1>6. \A p \in flushed : fca[p] \in Cand \cup {None}
  BY <1>2 DEF TypeInv, TypeOK
<1>7. Live' = flushed \ deleted'
  BY DEF Live
<1>8. ASSUME NEW c \in Bound(rid'), c \in TreeCands(t)
      PROVE  SizeOf(c)'
  <2>1. c \in Rebound(t, K) /\ rid'[c] \in 0 .. nreg' - 1
    BY <1>3, <1>5, <1>8 DEF Bound
  <2>2. Owner(rid'[c], rid') = c
    BY <1>2, <1>8, OwnerOfBound DEF RidInjective
  <2>3. size'[rid'[c]] = Cardinality(Below(c, mine, fca))
    BY <1>1, <2>1, <2>2
  <2>4. Below(c, mine, fca) = Below(c, Live', fca)
    <3>1. \A p \in flushed : fca[p] # None /\ c \in Anc[fca[p]] => TreeOf(fca[p]) = t
      BY <1>6, <1>8, RootOfFacts DEF TreeCands, TreeOf
    <3>. QED BY <1>7, <3>1 DEF Below, InTree
  <2>5. Below(c, Live', fca) \in SUBSET Pts
    BY <1>2, <1>7 DEF Below, TypeInv, TypeOK
  <2>6. Cardinality(Below(c, Live', fca)) \in Nat
    BY <2>5, CountsAreNat
  <2>. QED BY <2>3, <2>4, <2>6 DEF SizeOf
<1>9. ASSUME NEW c \in Bound(rid'), c \notin TreeCands(t)
      PROVE  SizeOf(c)'
  <2>1. c \in Cand /\ c \in Bound(rid) /\ rid'[c] = rid[c] /\ RootOf[c] # t
    BY <1>3, <1>9 DEF Bound, TreeCands
  <2>2. rid[c] \in DOMAIN size /\ rid[c] \in 0 .. nreg' - 1
    BY <1>2, <1>3, <2>1 DEF TypeInv, TypeOK, Bound
  <2>3. rid[c] \notin {rid'[d] : d \in Rebound(t, K)}
    <3>. SUFFICES ASSUME NEW d \in Rebound(t, K), rid'[d] = rid'[c] PROVE FALSE
      BY <2>1
    <3>1. d \in Bound(rid') /\ d # c
      BY <1>4, <1>5, <1>9 DEF Bound
    <3>. QED BY <1>9, <3>1 DEF RidInjective
  <2>4. rid[c] \notin old
    BY <1>2, <1>9, <2>1 DEF RidInjective
  <2>5. size'[rid'[c]] = size[rid[c]]
    BY <1>1, <2>1, <2>2, <2>3, <2>4
  <2>6. \A p \in Live \ Live' : ~ (fca[p] # None /\ c \in Anc[fca[p]])
    <3>. SUFFICES ASSUME NEW p \in Live \ Live', fca[p] # None, c \in Anc[fca[p]]
                  PROVE  FALSE
      OBVIOUS
    <3>1. fca[p] \in Cand /\ TreeOf(fca[p]) = t
      BY <1>6 DEF Live
    <3>. QED BY <2>1, <3>1, RootOfFacts DEF TreeOf
  <2>7. Below(c, Live', fca) = Below(c, Live, fca)
    BY <2>6 DEF Below
  <2>. QED BY <1>2, <2>1, <2>5, <2>7 DEF SizeOf
<1>10. \A c \in Root : rid'[c] # None
  <2>. SUFFICES ASSUME NEW c \in Root PROVE rid'[c] # None
    OBVIOUS
  <2>1. c \in Cand /\ RootOf[c] = c
    BY RootOfRoot
  <2>2. CASE c = t
    BY <1>4, <1>5, <2>2
  <2>3. CASE c # t
    BY <1>2, <1>3, <2>1, <2>3
  <2>. QED BY <2>2, <2>3
<1>. QED BY <1>8, <1>9, <1>10, SizesCoverNext DEF Bound

\* A deletion counts at the root of the deleted point; below it the counts may
\* stay too high.
LEMMA DeleteSizes ==
    ASSUME SizeInv, TypeInv', RidInjective', NEW p \in flushed, Delete(p), Internal[p] = p
    PROVE  SizesCover'
<1>. DEFINE t == TreeOf(fca[p])
            root == rid[RootOf[fca[p]]]
<1>1. /\ flushed' = flushed /\ fca' = fca
      /\ p \notin deleted /\ deleted' = deleted \cup {p}
  BY DEF Delete
<1>2. /\ TypeInv /\ RidInjective
      /\ \A c \in Root : rid[c] # None
      /\ \A c \in Bound(rid) : SizeOf(c)
  BY SizesCoverIs DEF SizeInv
<1>3. fca[p] \in Cand \cup {None} /\ t \in Root
  BY <1>2, TreeOfType DEF TypeInv, TypeOK
<1>4. Live' = Live \ {p} /\ p \in Live
  BY <1>1 DEF Live
<1>5. CASE RebuildTree(t)
  <2>1. \A q \in Live \ Live' : TreeOf(fca[q]) = t
    BY <1>4
  <2>. HIDE DEF t
  <2>. QED BY <1>1, <1>3, <1>4, <1>5, <2>1, RebuildSizes
<1>6. CASE /\ size' = [r \in DOMAIN size |->
                         IF fca[p] # None /\ r = root THEN Dec(size[r]) ELSE size[r]]
           /\ rid' = rid
  <2>1. ASSUME NEW c \in Bound(rid)
        PROVE  SizeOf(c)'
    <3>. DEFINE L == Below(c, Live, fca)
    <3>1. L \in SUBSET Pts /\ Below(c, Live', fca') = L \ {p}
      BY <1>1, <1>2, <1>4 DEF Below, Live, TypeInv, TypeOK
    <3>2. rid[c] \in DOMAIN size /\ size[rid[c]] \in Nat /\ c \in Cand
      BY <1>2 DEF Bound, TypeInv, TypeOK
    <3>3. p \in L <=> fca[p] # None /\ c \in Anc[fca[p]]
      BY <1>4 DEF Below
    <3>4. fca[p] # None => (rid[c] = root <=> c = RootOf[fca[p]])
      <4>. SUFFICES ASSUME fca[p] # None, rid[c] = root PROVE c = RootOf[fca[p]]
        OBVIOUS
      <4>1. RootOf[fca[p]] \in Root /\ RootOf[fca[p]] \in Bound(rid)
        BY <1>2, <1>3, RootOfFacts DEF Root, Bound
      <4>. QED BY <1>2, <4>1 DEF RidInjective
    <3>. HIDE DEF L, root
    <3>5. /\ Cardinality(L) \in Nat /\ Cardinality(L \ {p}) \in Nat
          /\ Cardinality(L \ {p}) = IF p \in L THEN Dec(Cardinality(L)) ELSE Cardinality(L)
      <4>1. L \ {p} \in SUBSET Pts
        BY <3>1
      <4>. QED BY <3>1, <4>1, CountsAreNat, CountRemove
    <3>6. (c \in Root => size[rid[c]] = Cardinality(L)) /\ size[rid[c]] >= Cardinality(L)
      BY <1>2 DEF SizeOf, L
    <3>7. CASE fca[p] # None /\ c = RootOf[fca[p]]
      <4>1. p \in L /\ c \in Root
        BY <1>3, <3>3, <3>7, RootOfFacts
      <4>2. size'[rid'[c]] = Dec(size[rid[c]])
        BY <1>6, <3>2, <3>4, <3>7
      <4>3. size'[rid'[c]] = Cardinality(L \ {p})
        BY <3>5, <3>6, <4>1, <4>2
      <4>. QED BY <3>1, <3>5, <4>3 DEF SizeOf
    <3>8. CASE ~ (fca[p] # None /\ c = RootOf[fca[p]])
      <4>1. size'[rid'[c]] = size[rid[c]]
        BY <1>6, <3>2, <3>4, <3>8
      <4>2. c \in Root => p \notin L
        BY <1>3, <3>3, <3>8, RootOfFacts
      <4>3. Cardinality(L \ {p}) <= Cardinality(L)
        BY <3>5 DEF Dec
      <4>4. /\ c \in Root => size'[rid'[c]] = Cardinality(L \ {p})
            /\ size'[rid'[c]] >= Cardinality(L \ {p})
        BY <3>2, <3>5, <3>6, <4>1, <4>2, <4>3
      <4>. QED BY <3>1, <4>4 DEF SizeOf
    <3>. QED BY <3>7, <3>8
  <2>2. Bound(rid)' = Bound(rid)
    BY <1>6 DEF Bound
  <2>. QED BY <1>2, <1>6, <2>1, <2>2, SizesCoverNext
<1>. QED BY <1>5, <1>6 DEF Delete

\* Every step keeps the sizes.
LEMMA NextSizeInv ==
    ASSUME \A p \in Pts : Internal[p] = p
    PROVE  SizeInv /\ [Next]_vars => SizeInv'
<1>. SUFFICES ASSUME SizeInv, [Next]_vars PROVE SizeInv'
  OBVIOUS
<1>1. TypeInv /\ RidInjective /\ TypeInv' /\ RidInjective'
  BY NextTypeInv, NextRidInjective DEF SizeInv
<1>2. flushed \subseteq Pts /\ \A p \in flushed : TreeOf(fca[p]) \in Root
  BY <1>1, TreeOfType DEF TypeInv, TypeOK
<1>3. ASSUME NEW P \in SUBSET (Pts \ flushed), NEW w \in [P -> Tuple],
             NEW a \in [P -> Cand \cup {None}], Insert(P, w, a)
      PROVE  SizesCover'
  BY <1>3, InsertSizes
<1>4. ASSUME NEW p \in flushed, NEW col \in Col, NEW new \in Value(col), Update(p, col, new)
      PROVE  SizesCover'
  <2>1. flushed' = flushed /\ deleted' = deleted /\ fca' = fca /\ Live' = Live
    BY <1>4 DEF Update, Live
  <2>2. CASE RebuildTree(TreeOf(fca[p]))
    <3>1. (\A q \in Live \ Live' : TreeOf(fca[q]) = TreeOf(fca[p])) /\ Live' \subseteq Live
      BY <2>1
    <3>. QED BY <1>1, <1>2, <2>1, <2>2, <3>1, RebuildSizes
  <2>3. CASE UNCHANGED <<rid, size>>
    BY <2>1, <2>3 DEF SizeInv, SizesCover, Bound
  <2>. QED BY <1>4, <2>2, <2>3 DEF Update
<1>5. ASSUME NEW p \in flushed, Delete(p)
      PROVE  SizesCover'
  BY <1>1, <1>2, <1>5, DeleteSizes
<1>6. ASSUME NEW t \in Root, Rebuild(t)
      PROVE  SizesCover'
  <2>1. flushed' = flushed /\ fca' = fca /\ Live' = Live /\ RebuildTree(t)
    BY <1>6 DEF Rebuild, Live
  <2>2. (\A q \in Live \ Live' : TreeOf(fca[q]) = t) /\ Live' \subseteq Live
    BY <2>1
  <2>. QED BY <1>1, <2>1, <2>2, RebuildSizes
<1>7. ASSUME UNCHANGED vars PROVE SizesCover'
  BY <1>7 DEF SizeInv, SizesCover, Bound, Live, vars
<1>8. SizesCover'
  BY <1>3, <1>4, <1>5, <1>6, <1>7 DEF Next
<1>. QED BY <1>1, <1>8 DEF SizeInv

\* When remove tombstones the point it is given, region_size_ is exact at every
\* root and never too small below it, however the lazy deletes and rebuilds
\* interleave (on_insert, on_delete, rebuild_tree).
THEOREM SizesNeverShort ==
    ASSUME \A p \in Pts : Internal[p] = p
    PROVE  Spec => []SizesCover
<1>1. SizeInv /\ [Next]_vars => SizeInv'
  BY NextSizeInv
<1>2. SizeInv => SizesCover
  BY DEF SizeInv
<1>. QED BY <1>1, <1>2, InitSizeInv, PTL DEF Spec

(***************************************************************************)
(* What a rebuild does to the tables, inside its tree and outside of it.   *)
(***************************************************************************)

\* A rebuild with its choice K: what RebuildTree says of ids, sizes and rows.
RebuildWith(t, K) ==
    LET mine == InTree(t, flushed \ deleted', fca)
        old == {rid[c] : c \in TreeCands(t) \cap Bound(rid)}
        RowsOf(col) == {rid'[c] : c \in {t} \cup K[col]} IN
    /\ rid' = [c \in Cand |->
                 IF c \notin TreeCands(t) THEN rid[c]
                 ELSE IF c \notin Rebound(t, K) THEN None
                 ELSE IF c \in Fresh(t, K) THEN Number(Fresh(t, K), nreg)[c]
                 ELSE rid[c]]
    /\ size' = [r \in 0 .. nreg' - 1 |->
                  IF r \in {rid'[c] : c \in Rebound(t, K)}
                  THEN Cardinality(Below(Owner(r, rid'), mine, fca))
                  ELSE IF r \in DOMAIN size \ old THEN size[r] ELSE 0]
    /\ hist' = [col \in Col |->
                  [r \in RowsOf(col) \cup (DOMAIN hist[col] \ {rid'[c] : c \in Rebound(t, K)}) |->
                     IF r \in RowsOf(col) THEN Row(col, r, rid', mine, fca, val')
                     ELSE hist[col][r]]]

\* Every rebuild is one with some choice; the candidates of the tree that are
\* bound afterwards are those that were chosen.
LEMMA RebuildChoice ==
    ASSUME TypeInv, NEW t \in Root, RebuildTree(t)
    PROVE  \E K \in KeptChoices(TreeCands(t) \ {t}) :
              /\ RebuildWith(t, K)
              /\ \A col \in Col : K[col] \subseteq Rebound(t, K)
              /\ Rebound(t, K) \subseteq TreeCands(t) /\ t \in Rebound(t, K)
              /\ \A c \in TreeCands(t) : c \in Rebound(t, K) <=> rid'[c] # None
<1>1. PICK K \in KeptChoices(TreeCands(t) \ {t}) : RebuildWith(t, K)
  BY DEF RebuildTree, RebuildWith, Rebound, Fresh
<1>2. rid' = [c \in Cand |->
                IF c \notin TreeCands(t) THEN rid[c]
                ELSE IF c \notin Rebound(t, K) THEN None
                ELSE IF c \in Fresh(t, K) THEN Number(Fresh(t, K), nreg)[c]
                ELSE rid[c]]
  BY <1>1 DEF RebuildWith
<1>3. Rebound(t, K) \subseteq TreeCands(t) /\ t \in Rebound(t, K) /\ TreeCands(t) \subseteq Cand
  BY RootOfRoot DEF Rebound, KeptChoices, KeptBy, TreeCands
<1>4. \A col \in Col : K[col] \subseteq Rebound(t, K)
  BY DEF Rebound, KeptBy
<1>5. ASSUME NEW c \in Rebound(t, K) PROVE rid'[c] # None
  <2>1. CASE c \in Fresh(t, K)
    <3>1. rid'[c] = Number(Fresh(t, K), nreg)[c]
      BY <1>2, <1>3, <2>1
    <3>2. Fresh(t, K) \in SUBSET Cand /\ nreg \in Nat
      BY <1>3 DEF Fresh, TypeInv, TypeOK
    <3>3. Number(Fresh(t, K), nreg)[c] \in Nat
      BY <2>1, <3>2, NumberRange
    <3>. QED BY <3>1, <3>3, ForestAssumption
  <2>2. CASE c \notin Fresh(t, K)
    BY <1>2, <1>3, <2>2 DEF Fresh
  <2>. QED BY <2>1, <2>2
<1>6. \A c \in TreeCands(t) : c \notin Rebound(t, K) => rid'[c] = None
  BY <1>2, <1>3
<1>. QED BY <1>1, <1>3, <1>4, <1>5, <1>6

\* Ids, sizes and rows of the other trees are left alone.
LEMMA RebuildElsewhere ==
    ASSUME TypeInv, RidInjective, RidInjective', NEW t \in Root, RebuildTree(t),
           NEW c \in Bound(rid), RootOf[c] # t
    PROVE  /\ rid'[c] = rid[c]
           /\ size'[rid[c]] = size[rid[c]]
           /\ \A col \in Col :
                /\ rid[c] \in DOMAIN hist'[col] <=> rid[c] \in DOMAIN hist[col]
                /\ rid[c] \in DOMAIN hist[col] => hist'[col][rid[c]] = hist[col][rid[c]]
<1>1. PICK K \in KeptChoices(TreeCands(t) \ {t}) :
              /\ RebuildWith(t, K)
              /\ \A col \in Col : K[col] \subseteq Rebound(t, K)
              /\ Rebound(t, K) \subseteq TreeCands(t) /\ t \in Rebound(t, K)
              /\ \A d \in TreeCands(t) : d \in Rebound(t, K) <=> rid'[d] # None
  BY RebuildChoice
<1>. DEFINE taken == {rid'[d] : d \in Rebound(t, K)}
            old == {rid[d] : d \in TreeCands(t) \cap Bound(rid)}
<1>2. c \in Cand /\ rid'[c] = rid[c] /\ c \notin TreeCands(t)
  BY RebuildRids DEF Bound, TreeCands
<1>3. rid[c] \in 0 .. nreg - 1 /\ DOMAIN size = 0 .. nreg - 1 /\ rid[c] \in 0 .. nreg' - 1
  BY RebuildRids DEF TypeInv, TypeOK, Bound
<1>4. rid[c] \notin taken
  <2>. SUFFICES ASSUME NEW d \in Rebound(t, K), rid'[d] = rid'[c] PROVE FALSE
    BY <1>2
  <2>1. d \in Bound(rid') /\ d # c /\ c \in Bound(rid')
    BY <1>1, <1>2 DEF Bound, TreeCands
  <2>. QED BY <2>1 DEF RidInjective
<1>5. rid[c] \notin old
  BY <1>2 DEF RidInjective
<1>. HIDE DEF taken, old
<1>6. size'[rid[c]] = size[rid[c]]
  BY <1>1, <1>3, <1>4, <1>5 DEF RebuildWith, taken, old
<1>7. ASSUME NEW col \in Col
      PROVE  /\ rid[c] \in DOMAIN hist'[col] <=> rid[c] \in DOMAIN hist[col]
             /\ rid[c] \in DOMAIN hist[col] => hist'[col][rid[c]] = hist[col][rid[c]]
  <2>. DEFINE R == {rid'[d] : d \in {t} \cup K[col]}
  <2>1. hist'[col] = [r \in R \cup (DOMAIN hist[col] \ taken) |->
                        IF r \in R THEN Row(col, r, rid', InTree(t, flushed \ deleted', fca), fca, val')
                        ELSE hist[col][r]]
    BY <1>1 DEF RebuildWith, taken
  <2>2. R \subseteq taken
    BY <1>1 DEF taken
  <2>. HIDE DEF R
  <2>. QED BY <1>4, <2>1, <2>2
<1>. QED BY <1>2, <1>6, <1>7

\* Inside the tree, every row that is kept counts the live points below its
\* candidate by their present values, and the root keeps a row in every column.
LEMMA RebuildRows ==
    ASSUME TypeInv, TypeInv', RidInjective', NEW t \in Root, RebuildTree(t),
           flushed' = flushed, fca' = fca, NEW col \in Col
    PROVE  /\ rid'[t] \in DOMAIN hist'[col]
           /\ \A c \in Bound(rid') : RootOf[c] = t /\ rid'[c] \in DOMAIN hist'[col] =>
                \A b \in Bkt : hist'[col][rid'[c]][b] = CountOf(col, b, Below(c, Live', fca), val')
<1>1. PICK K \in KeptChoices(TreeCands(t) \ {t}) :
              /\ RebuildWith(t, K)
              /\ \A d \in Col : K[d] \subseteq Rebound(t, K)
              /\ Rebound(t, K) \subseteq TreeCands(t) /\ t \in Rebound(t, K)
              /\ \A d \in TreeCands(t) : d \in Rebound(t, K) <=> rid'[d] # None
  BY RebuildChoice
<1>. DEFINE R == {rid'[d] : d \in {t} \cup K[col]}
            mine == InTree(t, flushed \ deleted', fca)
            taken == {rid'[d] : d \in Rebound(t, K)}
<1>2. hist'[col] = [r \in R \cup (DOMAIN hist[col] \ taken) |->
                      IF r \in R THEN Row(col, r, rid', mine, fca, val') ELSE hist[col][r]]
  BY <1>1 DEF RebuildWith
<1>3. rid'[t] \in R
  OBVIOUS
<1>4. ASSUME NEW c \in Bound(rid'), RootOf[c] = t, rid'[c] \in DOMAIN hist'[col], NEW b \in Bkt
      PROVE  hist'[col][rid'[c]][b] = CountOf(col, b, Below(c, Live', fca), val')
  <2>1. c \in TreeCands(t) /\ c \in Rebound(t, K)
    BY <1>1, <1>4 DEF Bound, TreeCands
  <2>2. rid'[c] \in R
    BY <1>2, <1>4, <2>1
  <2>3. Owner(rid'[c], rid') = c
    BY <1>4, OwnerOfBound, ForestAssumption DEF RidInjective
  <2>4. hist'[col][rid'[c]] = Row(col, rid'[c], rid', mine, fca, val')
    BY <1>2, <2>2
  <2>5. hist'[col][rid'[c]][b] = CountOf(col, b, Below(c, mine, fca), val')
    BY <2>3, <2>4 DEF Row
  <2>6. Below(c, mine, fca) = Below(c, Live', fca)
    <3>1. \A p \in flushed : fca[p] \in Cand \cup {None}
      BY DEF TypeInv, TypeOK
    <3>2. \A p \in flushed : fca[p] # None /\ c \in Anc[fca[p]] => TreeOf(fca[p]) = t
      BY <1>4, <3>1, RootOfFacts DEF TreeOf
    <3>. QED BY <3>2 DEF Below, InTree, Live
  <2>. QED BY <2>5, <2>6
<1>. HIDE DEF R, mine, taken
<1>5. rid'[t] \in DOMAIN hist'[col]
  BY <1>2, <1>3
<1>. QED BY <1>4, <1>5

\* A rebuild, or any other step on the points that are there, leaves the ids,
\* sizes, rows and points of all trees but one alone: its own, or that of the
\* point that was updated or deleted.
OneTreeStep ==
    flushed' = flushed =>
       \E t \in Root :
          /\ \A c \in Cand : t \notin Anc[c] =>
                /\ rid'[c] = rid[c]
                /\ rid[c] # None =>
                     /\ size'[rid[c]] = size[rid[c]]
                     /\ \A col \in Col : rid[c] \in DOMAIN hist[col] =>
                           hist'[col][rid[c]] = hist[col][rid[c]]
          /\ \A p \in flushed : fca[p] = None \/ t \notin Anc[fca[p]]
                => regionOf'[p] = regionOf[p]

\* A tree and a candidate outside of it.
LEMMA OtherTree ==
    ASSUME NEW t \in Root, NEW c \in Cand, t \notin Anc[c]
    PROVE  RootOf[c] # t
BY RootOfFacts

\* The points outside a tree keep their region in its rebuild.
LEMMA RebuildOneTree ==
    ASSUME TypeInv, RidInjective, RidInjective', NEW t \in Root, RebuildTree(t)
    PROVE  OneTreeStep
<1>1. ASSUME NEW c \in Cand, t \notin Anc[c]
      PROVE  /\ rid'[c] = rid[c]
             /\ rid[c] # None =>
                  /\ size'[rid[c]] = size[rid[c]]
                  /\ \A col \in Col : rid[c] \in DOMAIN hist[col] =>
                        hist'[col][rid[c]] = hist[col][rid[c]]
  <2>1. RootOf[c] # t
    BY <1>1, OtherTree
  <2>2. rid'[c] = rid[c]
    BY <2>1, RebuildRids
  <2>3. CASE rid[c] # None
    BY <2>1, <2>2, <2>3, RebuildElsewhere DEF Bound
  <2>. QED BY <2>2, <2>3
<1>2. ASSUME NEW p \in flushed, fca[p] = None \/ t \notin Anc[fca[p]]
      PROVE  regionOf'[p] = regionOf[p]
  <2>1. regionOf' = [q \in flushed |->
                       IF q \in InTree(t, flushed \ deleted', fca) /\ fca[q] # None
                       THEN RegionFor(fca[q], rid') ELSE regionOf[q]]
    BY DEF RebuildTree
  <2>2. fca[p] # None => fca[p] \in Cand /\ RootOf[fca[p]] # t
    BY <1>2, OtherTree DEF TypeInv, TypeOK
  <2>. QED BY <2>1, <2>2 DEF InTree, TreeOf
<1>. QED BY <1>1, <1>2 DEF OneTreeStep

\* Without a rebuild, a deletion subtracts at one root only.
LEMMA DeleteOneTree ==
    ASSUME TypeInv, RidInjective, NEW p \in flushed, ~ RebuildTree(TreeOf(fca[p])), Delete(p)
    PROVE  OneTreeStep
<1>. DEFINE t == TreeOf(fca[p])
            root == rid[RootOf[fca[p]]]
<1>1. /\ size' = [r \in DOMAIN size |->
                    IF fca[p] # None /\ r = root THEN Dec(size[r]) ELSE size[r]]
      /\ hist' = [col \in Col |-> [r \in DOMAIN hist[col] |-> [b \in Bkt |->
                    IF fca[p] # None /\ r = root /\ b = val[p][col]
                    THEN Dec(hist[col][r][b]) ELSE hist[col][r][b]]]]
      /\ rid' = rid /\ regionOf' = regionOf
  BY DEF Delete
<1>2. fca[p] \in Cand \cup {None} /\ t \in Root
  BY TreeOfType DEF TypeInv, TypeOK
<1>3. ASSUME NEW c \in Cand, t \notin Anc[c], rid[c] # None
      PROVE  /\ size'[rid[c]] = size[rid[c]]
             /\ \A col \in Col : rid[c] \in DOMAIN hist[col] =>
                   hist'[col][rid[c]] = hist[col][rid[c]]
  <2>1. ~ (fca[p] # None /\ rid[c] = root)
    <3>. SUFFICES ASSUME fca[p] # None, rid[c] = root PROVE FALSE
      OBVIOUS
    <3>1. t \in Cand /\ rid[t] = rid[c]
      BY <1>2 DEF TreeOf, Root
    <3>2. c = t
      BY <1>3, <3>1 DEF RidInjective, Bound
    <3>. QED BY <1>3, <3>2, AncLeast
  <2>2. rid[c] \in DOMAIN size
    BY <1>3 DEF TypeInv, TypeOK
  <2>3. ASSUME NEW col \in Col, rid[c] \in DOMAIN hist[col]
        PROVE  hist'[col][rid[c]] = hist[col][rid[c]]
    <3>1. hist[col][rid[c]] \in [Bkt -> Nat]
      BY <2>3 DEF TypeInv, TypeOK
    <3>2. hist'[col][rid[c]] = [b \in Bkt |-> hist[col][rid[c]][b]]
      BY <1>1, <2>1, <2>3
    <3>. QED BY <3>1, <3>2
  <2>. QED BY <1>1, <2>1, <2>2, <2>3
<1>. QED BY <1>1, <1>2, <1>3 DEF OneTreeStep

\* A rebuild and every other step but a flush are confined to one tree of the
\* forest: maintenance of a tree never moves points or spoils counts of another
\* (on_update, on_delete, rebuild_tree).
THEOREM MaintenanceIsLocal == Spec => OneTreeTouched
<1>1. TypeInv /\ RidInjective /\ [Next]_vars => [OneTreeStep]_vars
  <2>. SUFFICES ASSUME TypeInv, RidInjective, [Next]_vars, vars' # vars PROVE OneTreeStep
    OBVIOUS
  <2>1. RidInjective' /\ \A p \in flushed : TreeOf(fca[p]) \in Root
    BY NextRidInjective, TreeOfType DEF TypeInv, TypeOK
  <2>2. ASSUME NEW P \in (SUBSET (Pts \ flushed)) \ {{}}, NEW w \in [P -> Tuple],
               NEW a \in [P -> Cand \cup {None}], Insert(P, w, a)
        PROVE  OneTreeStep
    <3>1. flushed' = flushed \cup P
      BY <2>2 DEF Insert
    <3>2. P \subseteq Pts \ flushed /\ P # {}
      BY <2>2
    <3>3. flushed' # flushed
      BY <3>1, <3>2
    <3>. QED BY <3>3 DEF OneTreeStep
  <2>3. ASSUME NEW p \in flushed, NEW col \in Col, NEW new \in Value(col), Update(p, col, new)
        PROVE  OneTreeStep
    <3>1. CASE RebuildTree(TreeOf(fca[p]))
      BY <2>1, <3>1, RebuildOneTree
    <3>2. CASE UNCHANGED <<rid, regionOf, size, hist>>
      BY <2>1, <3>2 DEF OneTreeStep
    <3>. QED BY <2>3, <3>1, <3>2 DEF Update
  <2>4. ASSUME NEW p \in flushed, Delete(p) PROVE OneTreeStep
    BY <2>1, <2>4, RebuildOneTree, DeleteOneTree
  <2>5. ASSUME NEW t \in Root, Rebuild(t) PROVE OneTreeStep
    BY <2>1, <2>5, RebuildOneTree DEF Rebuild
  <2>. QED BY <2>2, <2>3, <2>4, <2>5 DEF Next
<1>2. TypeInv /\ RidInjective /\ [Next]_vars =>
       [flushed' = flushed =>
          \E t \in Root :
             /\ \A c \in Cand : t \notin Anc[c] =>
                   /\ rid'[c] = rid[c]
                   /\ rid[c] # None =>
                        /\ size'[rid[c]] = size[rid[c]]
                        /\ \A col \in Col : rid[c] \in DOMAIN hist[col] =>
                              hist'[col][rid[c]] = hist[col][rid[c]]
             /\ \A p \in flushed : fca[p] = None \/ t \notin Anc[fca[p]]
                   => regionOf'[p] = regionOf[p]]_vars
  BY <1>1 DEF OneTreeStep
<1>. QED BY <1>2, TypeInvariant, RegionsNotShared, PTL DEF Spec, OneTreeTouched

(***************************************************************************)
(* Points per tree, under the same condition on remove.                    *)
(***************************************************************************)

\* A part counts no more than the whole.
LEMMA CountMonotonic ==
    ASSUME NEW S \in SUBSET Pts, NEW T \in SUBSET S
    PROVE  Cardinality(T) <= Cardinality(S)
BY CountsAreNat, FS_Subset

\* The inductive invariant behind the points per tree.
TreeInv == TypeInv /\ TreeCountSafe

\* What TreeCountSafe says of one tree, and that both sides are naturals.
TreeCountOf(t) ==
    /\ treeN[t] \in Nat
    /\ Cardinality(InTree(t, Live, fca)) \in Nat
    /\ treeN[t] <= Cardinality(InTree(t, Live, fca))

LEMMA TreeCountIs ==
    ASSUME TypeInv
    PROVE  TreeCountSafe <=> \A t \in Root : TreeCountOf(t)
<1>1. \A t : InTree(t, Live, fca) \in SUBSET Pts
  BY DEF InTree, Live, TypeInv, TypeOK
<1>2. \A t : Cardinality(InTree(t, Live, fca)) \in Nat
  BY <1>1, CountsAreNat
<1>. QED BY <1>2 DEF TreeCountSafe, TreeCountOf, TypeInv, TypeOK

LEMMA TreeCountNext ==
    TypeInv' => (TreeCountSafe <=> \A t \in Root : TreeCountOf(t))'
<1>. QED BY TreeCountIs, PTL

\* The constructor counts the points below the root, which are points of the
\* tree; tree 0 may have others, without a candidate ancestor.
LEMMA InitTreeInv == Init => TreeInv
<1>. SUFFICES ASSUME Init PROVE TreeInv
  OBVIOUS
<1>1. TypeInv
  BY InitTypeInv
<1>2. /\ flushed = Build /\ deleted = {}
      /\ treeN = [t \in Root |-> Cardinality(Below(t, Build, fca))]
  BY DEF Init
<1>3. ASSUME NEW t \in Root PROVE TreeCountOf(t)
  <2>1. InTree(t, Live, fca) \in SUBSET Pts /\ Live = Build
    BY <1>1, <1>2 DEF InTree, Live, TypeInv, TypeOK
  <2>2. Below(t, Build, fca) \subseteq InTree(t, Live, fca)
    <3>. SUFFICES ASSUME NEW p \in Below(t, Build, fca) PROVE p \in InTree(t, Live, fca)
      OBVIOUS
    <3>1. p \in Build /\ fca[p] \in Cand /\ fca[p] # None /\ t \in Anc[fca[p]]
      BY <1>1, <1>2 DEF Below, TypeInv, TypeOK
    <3>. QED BY <2>1, <3>1, RootOfFacts DEF InTree, TreeOf
  <2>3. /\ Cardinality(Below(t, Build, fca)) \in Nat
        /\ Cardinality(InTree(t, Live, fca)) \in Nat
        /\ Cardinality(Below(t, Build, fca)) <= Cardinality(InTree(t, Live, fca))
    BY <2>1, <2>2, CountsAreNat, CountMonotonic
  <2>. QED BY <1>2, <2>3 DEF TreeCountOf
<1>. QED BY <1>1, <1>3, TreeCountIs DEF TreeInv

\* An insertion adds the points that are new to the tree.
LEMMA InsertTreeCount ==
    ASSUME TreeInv, NEW P \in SUBSET (Pts \ flushed), NEW w \in [P -> Tuple],
           NEW a \in [P -> Cand \cup {None}], Insert(P, w, a)
    PROVE  TreeCountSafe'
<1>1. /\ flushed' = flushed \cup P /\ deleted' = deleted
      /\ fca' = [q \in flushed \cup P |-> IF q \in P THEN a[q] ELSE fca[q]]
      /\ treeN' = [t \in Root |-> treeN[t] + Cardinality(InTree(t, P, a))]
  BY DEF Insert
<1>2. TypeInv' /\ TypeInv
  BY InsertTypeInv DEF TreeInv
<1>3. flushed \subseteq Pts /\ deleted \subseteq flushed /\ P \cap flushed = {}
  BY <1>2 DEF TypeInv, TypeOK
<1>4. ASSUME NEW t \in Root PROVE TreeCountOf(t)'
  <2>. DEFINE L == InTree(t, Live, fca)
              N == InTree(t, P, a)
  <2>1. Live' = Live \cup P
    BY <1>1, <1>3 DEF Live
  <2>2. /\ L \in SUBSET Pts /\ N \in SUBSET Pts /\ L \cap N = {}
        /\ InTree(t, Live', fca') = L \cup N
    BY <1>1, <1>3, <2>1 DEF Live, InTree
  <2>3. treeN[t] \in Nat /\ treeN[t] <= Cardinality(L)
    BY <1>2, TreeCountIs DEF TreeInv, TreeCountOf
  <2>4. treeN'[t] = treeN[t] + Cardinality(N)
    BY <1>1
  <2>. HIDE DEF L, N
  <2>5. /\ Cardinality(L) \in Nat /\ Cardinality(N) \in Nat
        /\ Cardinality(L \cup N) = Cardinality(L) + Cardinality(N)
    BY <2>2, CountsAreNat, CountUnion
  <2>6. /\ treeN'[t] \in Nat /\ Cardinality(L \cup N) \in Nat
        /\ treeN'[t] <= Cardinality(L \cup N)
    BY <2>3, <2>4, <2>5
  <2>. QED BY <2>2, <2>6 DEF TreeCountOf
<1>. QED BY <1>2, <1>4, TreeCountNext

\* A rebuild counts its own tree; the points that went away were in it.
LEMMA RebuildTreeCount ==
    ASSUME TreeInv, TypeInv', NEW t \in Root, RebuildTree(t), flushed' = flushed,
           fca' = fca, Live' \subseteq Live, \A p \in Live \ Live' : TreeOf(fca[p]) = t
    PROVE  TreeCountSafe'
<1>1. /\ treeN' = [treeN EXCEPT ![t] = Cardinality(InTree(t, flushed \ deleted', fca))]
      /\ Live' = flushed \ deleted'
  BY DEF RebuildTree, Live
<1>2. TypeInv /\ treeN \in [Root -> Nat]
  BY DEF TreeInv, TypeInv, TypeOK
<1>3. ASSUME NEW u \in Root PROVE TreeCountOf(u)'
  <2>1. InTree(u, Live', fca') \in SUBSET Pts
    BY DEF InTree, Live, TypeInv, TypeOK
  <2>2. Cardinality(InTree(u, Live', fca')) \in Nat
    BY <2>1, CountsAreNat
  <2>3. CASE u = t
    BY <1>1, <1>2, <2>2, <2>3 DEF TreeCountOf
  <2>4. CASE u # t
    <3>1. InTree(u, Live', fca') = InTree(u, Live, fca)
      BY <2>4 DEF InTree
    <3>2. treeN'[u] = treeN[u]
      BY <1>1, <1>2, <2>4
    <3>. QED BY <1>2, <3>1, <3>2, TreeCountIs DEF TreeInv, TreeCountOf
  <2>. QED BY <2>3, <2>4
<1>. QED BY <1>3, TreeCountNext

\* A deletion takes one point off its tree, on both sides.
LEMMA DeleteTreeCount ==
    ASSUME TreeInv, TypeInv', NEW p \in flushed, Delete(p), Internal[p] = p
    PROVE  TreeCountSafe'
<1>. DEFINE t == TreeOf(fca[p])
<1>1. flushed' = flushed /\ fca' = fca /\ p \notin deleted /\ deleted' = deleted \cup {p}
  BY DEF Delete
<1>2. TypeInv /\ treeN \in [Root -> Nat] /\ t \in Root
  BY TreeOfType DEF TreeInv, TypeInv, TypeOK
<1>3. Live' = Live \ {p} /\ p \in Live
  BY <1>1 DEF Live
<1>4. CASE RebuildTree(t)
  <2>1. \A q \in Live \ Live' : TreeOf(fca[q]) = t
    BY <1>3
  <2>. HIDE DEF t
  <2>. QED BY <1>1, <1>2, <1>3, <1>4, <2>1, RebuildTreeCount
<1>5. CASE treeN' = [treeN EXCEPT ![t] = Dec(treeN[t])]
  <2>1. ASSUME NEW u \in Root PROVE TreeCountOf(u)'
    <3>. DEFINE L == InTree(u, Live, fca)
    <3>1. L \in SUBSET Pts /\ L \ {p} \in SUBSET Pts /\ InTree(u, Live', fca') = L \ {p}
      BY <1>1, <1>2, <1>3 DEF InTree, Live, TypeInv, TypeOK
    <3>2. p \in L <=> u = t
      BY <1>3 DEF InTree
    <3>3. treeN[u] \in Nat /\ treeN[u] <= Cardinality(L)
      BY <1>2, TreeCountIs DEF TreeInv, TreeCountOf
    <3>4. treeN'[u] = IF u = t THEN Dec(treeN[u]) ELSE treeN[u]
      BY <1>2, <1>5
    <3>. HIDE DEF L, t
    <3>5. /\ Cardinality(L) \in Nat /\ Cardinality(L \ {p}) \in Nat
          /\ Cardinality(L \ {p}) = IF p \in L THEN Dec(Cardinality(L)) ELSE Cardinality(L)
      BY <3>1, CountsAreNat, CountRemove
    <3>6. treeN'[u] \in Nat /\ treeN'[u] <= Cardinality(L \ {p})
      BY <3>2, <3>3, <3>4, <3>5 DEF Dec
    <3>. QED BY <3>1, <3>5, <3>6 DEF TreeCountOf
  <2>. QED BY <2>1, TreeCountNext
<1>. QED BY <1>4, <1>5 DEF Delete

\* Every step keeps the counts.
LEMMA NextTreeInv ==
    ASSUME \A p \in Pts : Internal[p] = p
    PROVE  TreeInv /\ [Next]_vars => TreeInv'
<1>. SUFFICES ASSUME TreeInv, [Next]_vars PROVE TreeInv'
  OBVIOUS
<1>1. TypeInv /\ TypeInv'
  BY NextTypeInv DEF TreeInv
<1>2. flushed \subseteq Pts /\ \A p \in flushed : TreeOf(fca[p]) \in Root
  BY <1>1, TreeOfType DEF TypeInv, TypeOK
<1>3. ASSUME NEW P \in SUBSET (Pts \ flushed), NEW w \in [P -> Tuple],
             NEW a \in [P -> Cand \cup {None}], Insert(P, w, a)
      PROVE  TreeCountSafe'
  BY <1>3, InsertTreeCount
<1>4. ASSUME NEW p \in flushed, NEW col \in Col, NEW new \in Value(col), Update(p, col, new)
      PROVE  TreeCountSafe'
  <2>1. flushed' = flushed /\ deleted' = deleted /\ fca' = fca /\ Live' = Live
    BY <1>4 DEF Update, Live
  <2>2. CASE RebuildTree(TreeOf(fca[p]))
    <3>1. (\A q \in Live \ Live' : TreeOf(fca[q]) = TreeOf(fca[p])) /\ Live' \subseteq Live
      BY <2>1
    <3>. QED BY <1>1, <1>2, <2>1, <2>2, <3>1, RebuildTreeCount
  <2>3. CASE treeN' = treeN
    BY <2>1, <2>3 DEF TreeInv, TreeCountSafe
  <2>. QED BY <1>4, <2>2, <2>3 DEF Update
<1>5. ASSUME NEW p \in flushed, Delete(p)
      PROVE  TreeCountSafe'
  BY <1>1, <1>2, <1>5, DeleteTreeCount
<1>6. ASSUME NEW t \in Root, Rebuild(t)
      PROVE  TreeCountSafe'
  <2>1. flushed' = flushed /\ fca' = fca /\ Live' = Live /\ RebuildTree(t)
    BY <1>6 DEF Rebuild, Live
  <2>2. (\A q \in Live \ Live' : TreeOf(fca[q]) = t) /\ Live' \subseteq Live
    BY <2>1
  <2>. QED BY <1>1, <2>1, <2>2, RebuildTreeCount
<1>7. ASSUME UNCHANGED vars PROVE TreeCountSafe'
  BY <1>7 DEF TreeInv, TreeCountSafe, InTree, Live, vars
<1>8. TreeCountSafe'
  BY <1>3, <1>4, <1>5, <1>6, <1>7 DEF Next
<1>. QED BY <1>1, <1>8 DEF TreeInv

\* When remove tombstones the point it is given, lmat_max_n never exceeds the
\* live points of the tree, so the threshold that forces a rebuild is never
\* laxer than the tree's size allows (constructor, on_insert, on_delete).
THEOREM TreeCountsSafe ==
    ASSUME \A p \in Pts : Internal[p] = p
    PROVE  Spec => []TreeCountSafe
<1>1. TreeInv /\ [Next]_vars => TreeInv'
  BY NextTreeInv
<1>2. TreeInv => TreeCountSafe
  BY DEF TreeInv
<1>. QED BY <1>1, <1>2, InitTreeInv, PTL DEF Spec

(***************************************************************************)
(* How far a histogram drifts, under the same condition on remove.         *)
(***************************************************************************)

\* Counting one bucket over two disjoint sets of points.
LEMMA BucketUnion ==
    ASSUME NEW S \in SUBSET Pts, NEW T \in SUBSET Pts, S \cap T = {},
           NEW col, NEW b, NEW v, NEW w, NEW x,
           \A p \in S : x[p] = v[p], \A p \in T : x[p] = w[p]
    PROVE  CountOf(col, b, S \cup T, x) = CountOf(col, b, S, v) + CountOf(col, b, T, w)
<1>. DEFINE SB == {p \in S : v[p][col] = b}
            TB == {p \in T : w[p][col] = b}
<1>1. {p \in S \cup T : x[p][col] = b} = SB \cup TB
  OBVIOUS
<1>2. SB \in SUBSET Pts /\ TB \in SUBSET Pts /\ SB \cap TB = {}
  OBVIOUS
<1>3. Cardinality(SB \cup TB) = Cardinality(SB) + Cardinality(TB)
  <2>. HIDE DEF SB, TB
  <2>. QED BY <1>2, CountUnion
<1>. QED BY <1>1, <1>3 DEF CountOf

\* Removing a point from a bucket's count.
LEMMA BucketRemove ==
    ASSUME NEW S \in SUBSET Pts, NEW p, NEW col, NEW b, NEW v
    PROVE  CountOf(col, b, S \ {p}, v) =
             IF p \in S /\ v[p][col] = b THEN Dec(CountOf(col, b, S, v)) ELSE CountOf(col, b, S, v)
<1>. DEFINE SB == {q \in S : v[q][col] = b}
<1>1. SB \in SUBSET Pts /\ {q \in S \ {p} : v[q][col] = b} = SB \ {p}
  OBVIOUS
<1>2. p \in SB <=> p \in S /\ v[p][col] = b
  OBVIOUS
<1>3. Cardinality(SB \ {p}) = IF p \in SB THEN Dec(Cardinality(SB)) ELSE Cardinality(SB)
  <2>. HIDE DEF SB
  <2>. QED BY <1>1, CountRemove
<1>. QED BY <1>1, <1>2, <1>3 DEF CountOf

\* A count from which nothing can be removed is zero.
LEMMA BucketPositive ==
    ASSUME NEW S \in SUBSET Pts, NEW p \in S, NEW col, NEW v
    PROVE  CountOf(col, v[p][col], S, v) # 0
<1>. DEFINE SB == {q \in S : v[q][col] = v[p][col]}
<1>1. p \in SB /\ SB \in SUBSET Pts
  OBVIOUS
<1>2. Cardinality(SB) # 0
  <2>. HIDE DEF SB
  <2>. QED BY <1>1, CountsAreNat, FS_EmptySet
<1>. QED BY <1>2 DEF CountOf

\* A new value of one point changes the count of a bucket by one at most.
LEMMA BucketUpdate ==
    ASSUME NEW S \in SUBSET Pts, NEW p, NEW col, NEW b, NEW v, NEW w,
           \A q \in S : q # p => w[q] = v[q]
    PROVE  /\ CountOf(col, b, S, v) <= CountOf(col, b, S, w) + 1
           /\ CountOf(col, b, S, w) <= CountOf(col, b, S, v) + 1
<1>1. CountOf(col, b, S \ {p}, v) = CountOf(col, b, S \ {p}, w)
  BY DEF CountOf
<1>2. CountOf(col, b, S, v) \in Nat /\ CountOf(col, b, S, w) \in Nat
  BY CountOfType
<1>3. CountOf(col, b, S \ {p}, v) \in {CountOf(col, b, S, v), Dec(CountOf(col, b, S, v))}
  BY BucketRemove
<1>4. CountOf(col, b, S \ {p}, w) \in {CountOf(col, b, S, w), Dec(CountOf(col, b, S, w))}
  BY BucketRemove
<1>. QED BY <1>1, <1>2, <1>3, <1>4 DEF Dec

\* The number of live points below a candidate that are in a bucket.
Actual(col, b, c) == CountOf(col, b, Below(c, Live, fca), val)

\* What HistDrift says of one bucket of one candidate's row.
DriftOf(col, c, b) ==
    /\ hist[col][rid[c]][b] + cntMod[RootOf[c]] >= Actual(col, b, c)
    /\ c \in Root => hist[col][rid[c]][b] <= Actual(col, b, c) + cntMod[RootOf[c]]

Drifts ==
    \A col \in Col : \A c \in Bound(rid) : rid[c] \in DOMAIN hist[col] =>
        \A b \in Bkt : DriftOf(col, c, b)

\* Each column keeps a row at every root.
RootRows == \A t \in Root : rid[t] # None /\ \A col \in Col : rid[t] \in DOMAIN hist[col]

\* The inductive invariant behind the histograms.
HistInv == TypeInv /\ RidInjective /\ RootRows /\ Drifts

\* The two sides of a drift are naturals.
LEMMA DriftTypes ==
    ASSUME TypeInv, NEW col \in Col, NEW c \in Bound(rid), rid[c] \in DOMAIN hist[col],
           NEW b \in Bkt
    PROVE  /\ hist[col][rid[c]][b] \in Nat
           /\ Actual(col, b, c) \in Nat
           /\ cntMod[RootOf[c]] \in Nat
           /\ Below(c, Live, fca) \in SUBSET Pts
<1>1. Below(c, Live, fca) \in SUBSET Pts
  BY DEF Below, Live, TypeInv, TypeOK
<1>2. Actual(col, b, c) \in Nat
  BY <1>1, CountOfType DEF Actual
<1>3. hist[col][rid[c]] \in [Bkt -> Nat] /\ cntMod \in [Root -> Nat]
  BY DEF TypeInv, TypeOK
<1>4. RootOf[c] \in Root
  BY RootOfFacts DEF Bound
<1>. QED BY <1>1, <1>2, <1>3, <1>4

LEMMA DriftTypesNext ==
    TypeInv' => \A col \in Col : \A c \in Bound(rid') : rid'[c] \in DOMAIN hist'[col] =>
                   \A b \in Bkt : /\ hist'[col][rid'[c]][b] \in Nat
                                  /\ Actual(col, b, c)' \in Nat
                                  /\ cntMod'[RootOf[c]] \in Nat
                                  /\ Below(c, Live', fca') \in SUBSET Pts
<1>1. TypeInv => \A col \in Col : \A c \in Bound(rid) : rid[c] \in DOMAIN hist[col] =>
                   \A b \in Bkt : /\ hist[col][rid[c]][b] \in Nat
                                  /\ Actual(col, b, c) \in Nat
                                  /\ cntMod[RootOf[c]] \in Nat
                                  /\ Below(c, Live, fca) \in SUBSET Pts
  BY DriftTypes
<1>2. (TypeInv => \A col \in Col : \A c \in Bound(rid) : rid[c] \in DOMAIN hist[col] =>
                   \A b \in Bkt : /\ hist[col][rid[c]][b] \in Nat
                                  /\ Actual(col, b, c) \in Nat
                                  /\ cntMod[RootOf[c]] \in Nat
                                  /\ Below(c, Live, fca) \in SUBSET Pts)'
  BY <1>1, PTL
<1>. QED BY <1>2 DEF Bound

\* The constructor counts every row exactly.
LEMMA InitHistInv == Init => HistInv
<1>. SUFFICES ASSUME Init PROVE HistInv
  OBVIOUS
<1>1. TypeInv /\ RidInjective /\ \A t \in Root : rid[t] # None
  BY InitSizeInv DEF SizeInv, SizesCover
<1>2. flushed = Build /\ deleted = {} /\ cntMod = [t \in Root |-> 0]
  BY DEF Init
<1>3. PICK K \in KeptChoices(Cand \ Root) :
         hist = [col \in Col |-> [r \in {rid[c] : c \in Root \cup K[col]} |->
                                    Row(col, r, rid, Build, fca, val)]]
  BY DEF Init
<1>4. RootRows
  BY <1>1, <1>3 DEF RootRows
<1>5. ASSUME NEW col \in Col, NEW c \in Bound(rid), rid[c] \in DOMAIN hist[col], NEW b \in Bkt
      PROVE  DriftOf(col, c, b)
  <2>1. Owner(rid[c], rid) = c
    BY <1>1, OwnerOfBound, ForestAssumption DEF RidInjective
  <2>2. hist[col][rid[c]] = Row(col, rid[c], rid, Build, fca, val)
    BY <1>3, <1>5
  <2>3. Live = Build
    BY <1>2 DEF Live
  <2>4. hist[col][rid[c]][b] = Actual(col, b, c)
    BY <2>1, <2>2, <2>3 DEF Row, Actual
  <2>5. Actual(col, b, c) \in Nat /\ RootOf[c] \in Root
    BY <1>1, <1>5, DriftTypes, RootOfFacts DEF Bound
  <2>. QED BY <1>2, <2>4, <2>5 DEF DriftOf
<1>. QED BY <1>1, <1>4, <1>5 DEF HistInv, Drifts

\* An insertion counts in every row above the new points.
LEMMA InsertHistInv ==
    ASSUME HistInv, TypeInv', NEW P \in SUBSET (Pts \ flushed), NEW w \in [P -> Tuple],
           NEW a \in [P -> Cand \cup {None}], Insert(P, w, a)
    PROVE  RootRows' /\ Drifts'
<1>. DEFINE Hit(r) == {p \in P : r \in BoundaryRegions(a[p])}
<1>1. /\ flushed' = flushed \cup P /\ deleted' = deleted /\ rid' = rid /\ cntMod' = cntMod
      /\ fca' = [q \in flushed \cup P |-> IF q \in P THEN a[q] ELSE fca[q]]
      /\ val' = [q \in flushed \cup P |-> IF q \in P THEN w[q] ELSE val[q]]
      /\ hist' = [col \in Col |-> [r \in DOMAIN hist[col] |-> [b \in Bkt |->
                    hist[col][r][b] + CountOf(col, b, Hit(r), w)]]]
  BY DEF Insert
<1>2. TypeInv /\ RidInjective /\ RootRows /\ Drifts
  BY DEF HistInv
<1>3. /\ flushed \subseteq Pts /\ deleted \subseteq flushed /\ P \cap flushed = {}
  BY <1>2 DEF TypeInv, TypeOK
<1>4. RootRows'
  BY <1>1, <1>2 DEF RootRows
<1>5. ASSUME NEW col \in Col, NEW c \in Bound(rid), rid[c] \in DOMAIN hist[col], NEW b \in Bkt
      PROVE  DriftOf(col, c, b)'
  <2>. DEFINE L == Below(c, Live, fca)
              N == Below(c, P, a)
  <2>1. Hit(rid[c]) = N
    BY <1>2 DEF BoundaryRegions, Below, RidInjective, Bound
  <2>2. Live' = Live \cup P
    BY <1>1, <1>3 DEF Live
  <2>3. /\ L \in SUBSET Pts /\ N \in SUBSET Pts /\ L \cap N = {}
        /\ Below(c, Live', fca') = L \cup N
        /\ L \subseteq flushed /\ N \subseteq P
    BY <1>1, <1>3, <2>2 DEF Live, Below
  <2>4. (\A p \in L : val'[p] = val[p]) /\ \A p \in N : val'[p] = w[p]
    BY <1>1, <1>3, <2>3
  <2>5. hist'[col][rid[c]][b] = hist[col][rid[c]][b] + CountOf(col, b, N, w)
    BY <1>1, <1>5, <2>1
  <2>. HIDE DEF L, N
  <2>6. /\ CountOf(col, b, L \cup N, val') = CountOf(col, b, L, val) + CountOf(col, b, N, w)
        /\ CountOf(col, b, L, val) \in Nat /\ CountOf(col, b, N, w) \in Nat
    BY <2>3, <2>4, BucketUnion, CountOfType
  <2>7. /\ Actual(col, b, c)' = Actual(col, b, c) + CountOf(col, b, N, w)
        /\ Actual(col, b, c) \in Nat
    BY <2>3, <2>6 DEF Actual, L
  <2>8. hist[col][rid[c]][b] \in Nat /\ cntMod[RootOf[c]] \in Nat
    BY <1>2, <1>5, DriftTypes
  <2>9. DriftOf(col, c, b)
    BY <1>2, <1>5 DEF Drifts
  <2>. QED BY <1>1, <2>5, <2>6, <2>7, <2>8, <2>9 DEF DriftOf
<1>6. /\ Bound(rid') = Bound(rid)
      /\ \A col \in Col : DOMAIN hist'[col] = DOMAIN hist[col]
  BY <1>1 DEF Bound
<1>. QED BY <1>1, <1>4, <1>5, <1>6 DEF Drifts, Bound

\* A rebuild counts the rows of its tree anew, and the points outside of the
\* tree stay as they are.
LEMMA RebuildHistInv ==
    ASSUME HistInv, TypeInv', RidInjective', NEW t \in Root, RebuildTree(t),
           flushed' = flushed, fca' = fca, Live' \subseteq Live,
           \A p \in Live : TreeOf(fca[p]) # t => p \in Live' /\ val'[p] = val[p]
    PROVE  RootRows' /\ Drifts'
<1>1. TypeInv /\ RidInjective /\ RootRows /\ Drifts
  BY DEF HistInv
<1>2. /\ cntMod' = [cntMod EXCEPT ![t] = 0]
      /\ \A c \in Cand : RootOf[c] # t => rid'[c] = rid[c]
  BY <1>1, RebuildRids DEF RebuildTree
<1>3. \A u \in Root : u \in Cand /\ RootOf[u] = u
  BY RootOfRoot
<1>4. RootRows'
  <2>. SUFFICES ASSUME NEW u \in Root
                PROVE  rid'[u] # None /\ \A col \in Col : rid'[u] \in DOMAIN hist'[col]
    BY DEF RootRows
  <2>1. CASE u = t
    <3>1. \A col \in Col : rid'[t] \in DOMAIN hist'[col]
      BY <1>1, RebuildRows
    <3>2. rid'[t] # None
      BY <1>1, RebuildChoice, <1>3 DEF TreeCands
    <3>. QED BY <2>1, <3>1, <3>2
  <2>2. CASE u # t
    <3>1. u \in Bound(rid) /\ RootOf[u] # t
      BY <1>1, <1>3, <2>2 DEF RootRows, Bound
    <3>. QED BY <1>1, <1>2, <3>1, RebuildElsewhere DEF RootRows, Bound
  <2>. QED BY <2>1, <2>2
<1>5. ASSUME NEW col \in Col, NEW c \in Bound(rid'), rid'[c] \in DOMAIN hist'[col], NEW b \in Bkt
      PROVE  DriftOf(col, c, b)'
  <2>1. c \in Cand /\ RootOf[c] \in Root
    BY RootOfFacts DEF Bound
  <2>2. CASE RootOf[c] = t
    <3>1. hist'[col][rid'[c]][b] = Actual(col, b, c)'
      BY <1>1, <1>5, <2>2, RebuildRows DEF Actual
    <3>2. /\ hist'[col][rid'[c]][b] \in Nat /\ Actual(col, b, c)' \in Nat
          /\ cntMod'[RootOf[c]] \in Nat
      BY <1>5, DriftTypesNext
    <3>. QED BY <3>1, <3>2 DEF DriftOf
  <2>3. CASE RootOf[c] # t
    <3>1. c \in Bound(rid) /\ rid'[c] = rid[c]
      BY <1>2, <1>5, <2>1, <2>3 DEF Bound
    <3>2. rid[c] \in DOMAIN hist[col] /\ hist'[col][rid[c]] = hist[col][rid[c]]
      BY <1>1, <1>5, <2>3, <3>1, RebuildElsewhere
    <3>3. cntMod'[RootOf[c]] = cntMod[RootOf[c]]
      BY <1>1, <1>2, <2>1, <2>3 DEF TypeInv, TypeOK
    <3>4. \A p \in Below(c, Live, fca) : TreeOf(fca[p]) # t
      <4>1. \A p \in Live : fca[p] \in Cand \cup {None}
        BY <1>1 DEF Live, TypeInv, TypeOK
      <4>. QED BY <2>1, <2>3, <4>1, RootOfFacts DEF Below, TreeOf
    <3>5. /\ Below(c, Live', fca') = Below(c, Live, fca)
          /\ \A p \in Below(c, Live, fca) : val'[p] = val[p]
      BY <3>4 DEF Below
    <3>6. Actual(col, b, c)' = Actual(col, b, c)
      BY <3>5 DEF Actual, CountOf
    <3>7. DriftOf(col, c, b)
      BY <1>1, <3>1, <3>2 DEF Drifts
    <3>. QED BY <3>1, <3>2, <3>3, <3>6, <3>7 DEF DriftOf
  <2>. QED BY <2>2, <2>3
<1>. QED BY <1>4, <1>5 DEF Drifts, Bound

\* An update that rebuilds nothing changes one point's value, and counts itself.
LEMMA UpdateHistInv ==
    ASSUME HistInv, TypeInv', NEW p \in flushed, NEW col \in Col, NEW new \in Value(col),
           Update(p, col, new), ~ RebuildTree(TreeOf(fca[p]))
    PROVE  RootRows' /\ Drifts'
<1>. DEFINE t == TreeOf(fca[p])
<1>1. /\ flushed' = flushed /\ deleted' = deleted /\ fca' = fca /\ rid' = rid /\ hist' = hist
      /\ val' = [val EXCEPT ![p][col] = new]
      /\ cntMod' = [cntMod EXCEPT ![t] = @ + 1]
  BY DEF Update
<1>2. TypeInv /\ RootRows /\ Drifts
  BY DEF HistInv
<1>3. fca[p] \in Cand \cup {None} /\ cntMod \in [Root -> Nat] /\ t \in Root
  BY <1>2, TreeOfType DEF TypeInv, TypeOK
<1>4. \A q : q # p => val'[q] = val[q]
  <2>1. val \in [flushed -> Tuple]
    BY <1>2 DEF TypeInv, TypeOK
  <2>. QED BY <1>1, <2>1
<1>5. ASSUME NEW d \in Col, NEW c \in Bound(rid), rid[c] \in DOMAIN hist[d], NEW b \in Bkt
      PROVE  DriftOf(d, c, b)'
  <2>. DEFINE L == Below(c, Live, fca)
  <2>1. Below(c, Live', fca') = L
    BY <1>1 DEF Below, Live
  <2>2. DriftOf(d, c, b)
    BY <1>2, <1>5 DEF Drifts
  <2>3. /\ hist[d][rid[c]][b] \in Nat /\ Actual(d, b, c) \in Nat /\ cntMod[RootOf[c]] \in Nat
        /\ L \in SUBSET Pts /\ c \in Cand
    BY <1>2, <1>5, DriftTypes DEF Bound
  <2>4. CountOf(d, b, L, val') \in Nat
    BY <2>3, CountOfType
  <2>5. CASE p \in L
    <3>1. RootOf[c] = t
      BY <1>3, <2>3, <2>5, RootOfFacts DEF Below, TreeOf
    <3>2. cntMod'[RootOf[c]] = cntMod[RootOf[c]] + 1
      BY <1>1, <1>3, <3>1
    <3>3. /\ CountOf(d, b, L, val) <= CountOf(d, b, L, val') + 1
          /\ CountOf(d, b, L, val') <= CountOf(d, b, L, val) + 1
      BY <1>4, <2>3, BucketUpdate
    <3>. HIDE DEF L
    <3>4. Actual(d, b, c)' = CountOf(d, b, L, val') /\ Actual(d, b, c) = CountOf(d, b, L, val)
      BY <2>1 DEF Actual, L
    <3>. QED BY <1>1, <2>2, <2>3, <2>4, <3>2, <3>3, <3>4 DEF DriftOf
  <2>6. CASE p \notin L
    <3>1. \A q \in L : val'[q] = val[q]
      BY <1>4, <2>6
    <3>2. Actual(d, b, c)' = Actual(d, b, c)
      BY <2>1, <3>1 DEF Actual, CountOf
    <3>3. cntMod'[RootOf[c]] \in Nat /\ cntMod'[RootOf[c]] >= cntMod[RootOf[c]]
      BY <1>1, <1>3, <2>3, RootOfFacts
    <3>. QED BY <1>1, <2>2, <2>3, <3>2, <3>3 DEF DriftOf
  <2>. QED BY <2>5, <2>6
<1>6. RootRows'
  BY <1>1, <1>2 DEF RootRows
<1>. QED BY <1>1, <1>5, <1>6 DEF Drifts, Bound

\* A deletion that rebuilds nothing subtracts at the root; below it the rows may
\* stay too high.
LEMMA DeleteHistInv ==
    ASSUME HistInv, TypeInv', NEW p \in flushed, Delete(p), Internal[p] = p,
           ~ RebuildTree(TreeOf(fca[p]))
    PROVE  RootRows' /\ Drifts'
<1>. DEFINE root == rid[RootOf[fca[p]]]
<1>1. /\ flushed' = flushed /\ fca' = fca /\ rid' = rid /\ val' = val /\ cntMod' = cntMod
      /\ p \notin deleted /\ deleted' = deleted \cup {p}
      /\ hist' = [col \in Col |-> [r \in DOMAIN hist[col] |-> [b \in Bkt |->
                    IF fca[p] # None /\ r = root /\ b = val[p][col]
                    THEN Dec(hist[col][r][b]) ELSE hist[col][r][b]]]]
  BY DEF Delete
<1>2. TypeInv /\ RidInjective /\ RootRows /\ Drifts
  BY DEF HistInv
<1>3. fca[p] \in Cand \cup {None}
  BY <1>2 DEF TypeInv, TypeOK
<1>4. Live' = Live \ {p} /\ p \in Live
  BY <1>1 DEF Live
<1>5. ASSUME NEW col \in Col, NEW c \in Bound(rid), rid[c] \in DOMAIN hist[col], NEW b \in Bkt
      PROVE  DriftOf(col, c, b)'
  <2>. DEFINE L == Below(c, Live, fca)
  <2>1. Below(c, Live', fca') = L \ {p}
    BY <1>1, <1>4 DEF Below
  <2>2. DriftOf(col, c, b)
    BY <1>2, <1>5 DEF Drifts
  <2>3. /\ hist[col][rid[c]][b] \in Nat /\ Actual(col, b, c) \in Nat /\ cntMod[RootOf[c]] \in Nat
        /\ L \in SUBSET Pts /\ c \in Cand /\ rid[c] # None
    BY <1>2, <1>5, DriftTypes DEF Bound
  <2>4. p \in L <=> fca[p] # None /\ c \in Anc[fca[p]]
    BY <1>4 DEF Below
  <2>5. fca[p] # None => (rid[c] = root <=> c = RootOf[fca[p]])
    <3>. SUFFICES ASSUME fca[p] # None, rid[c] = root PROVE c = RootOf[fca[p]]
      OBVIOUS
    <3>1. RootOf[fca[p]] \in Root /\ RootOf[fca[p]] \in Bound(rid)
      BY <1>2, <1>3, RootOfFacts DEF Root, Bound, RootRows
    <3>. QED BY <1>2, <3>1 DEF RidInjective
  <2>6. c \in Root /\ p \in L => fca[p] # None /\ c = RootOf[fca[p]]
    BY <1>3, <2>4, RootOfFacts
  <2>7. fca[p] # None /\ c = RootOf[fca[p]] => p \in L /\ c \in Root
    BY <1>3, <2>4, RootOfFacts
  <2>8. hist'[col][rid[c]][b] =
           IF fca[p] # None /\ c = RootOf[fca[p]] /\ b = val[p][col]
           THEN Dec(hist[col][rid[c]][b]) ELSE hist[col][rid[c]][b]
    BY <1>1, <1>5, <2>5
  <2>. HIDE DEF L, root
  <2>9. CountOf(col, b, L \ {p}, val) =
           IF p \in L /\ val[p][col] = b THEN Dec(CountOf(col, b, L, val)) ELSE CountOf(col, b, L, val)
    <3>1. L \in SUBSET Pts
      BY <2>3
    <3>2. \A v : CountOf(col, b, L \ {p}, v) =
             IF p \in L /\ v[p][col] = b THEN Dec(CountOf(col, b, L, v)) ELSE CountOf(col, b, L, v)
      BY <3>1, BucketRemove
    <3>. QED BY <3>2
  <2>10. p \in L /\ val[p][col] = b => CountOf(col, b, L, val) # 0
    BY <2>3, BucketPositive
  <2>11. /\ Actual(col, b, c)' = CountOf(col, b, L \ {p}, val)
         /\ Actual(col, b, c) = CountOf(col, b, L, val)
    BY <1>1, <2>1 DEF Actual, L
  <2>. QED BY <1>1, <2>2, <2>3, <2>6, <2>7, <2>8, <2>9, <2>10, <2>11 DEF DriftOf, Dec
<1>6. RootRows'
  BY <1>1, <1>2 DEF RootRows
<1>7. \A col \in Col : DOMAIN hist'[col] = DOMAIN hist[col]
  BY <1>1
<1>. QED BY <1>1, <1>5, <1>6, <1>7 DEF Drifts, Bound

\* Every step keeps the rows within their drift.
LEMMA NextHistInv ==
    ASSUME \A p \in Pts : Internal[p] = p
    PROVE  HistInv /\ [Next]_vars => HistInv'
<1>. SUFFICES ASSUME HistInv, [Next]_vars PROVE HistInv'
  OBVIOUS
<1>1. TypeInv /\ RidInjective /\ TypeInv' /\ RidInjective'
  BY NextTypeInv, NextRidInjective DEF HistInv
<1>2. /\ flushed \subseteq Pts /\ val \in [flushed -> Tuple]
      /\ \A p \in flushed : TreeOf(fca[p]) \in Root
  BY <1>1, TreeOfType DEF TypeInv, TypeOK
<1>3. ASSUME NEW P \in SUBSET (Pts \ flushed), NEW w \in [P -> Tuple],
             NEW a \in [P -> Cand \cup {None}], Insert(P, w, a)
      PROVE  RootRows' /\ Drifts'
  BY <1>1, <1>3, InsertHistInv
<1>4. ASSUME NEW p \in flushed, NEW col \in Col, NEW new \in Value(col), Update(p, col, new)
      PROVE  RootRows' /\ Drifts'
  <2>1. /\ flushed' = flushed /\ fca' = fca /\ Live' = Live
        /\ val' = [val EXCEPT ![p][col] = new]
    BY <1>4 DEF Update, Live
  <2>2. CASE RebuildTree(TreeOf(fca[p]))
    <3>1. \A q \in Live : TreeOf(fca[q]) # TreeOf(fca[p]) => q \in Live' /\ val'[q] = val[q]
      BY <1>2, <2>1 DEF Live
    <3>. QED BY <1>1, <1>2, <2>1, <2>2, <3>1, RebuildHistInv
  <2>. QED BY <1>1, <1>4, <2>2, UpdateHistInv
<1>5. ASSUME NEW p \in flushed, Delete(p)
      PROVE  RootRows' /\ Drifts'
  <2>1. Internal[p] = p
    BY <1>2
  <2>2. CASE RebuildTree(TreeOf(fca[p]))
    <3>1. flushed' = flushed /\ fca' = fca /\ val' = val /\ Live' = Live \ {p}
      BY <1>5, <2>1 DEF Delete, Live
    <3>2. \A q \in Live : TreeOf(fca[q]) # TreeOf(fca[p]) => q \in Live' /\ val'[q] = val[q]
      BY <3>1
    <3>. QED BY <1>1, <1>2, <2>2, <3>1, <3>2, RebuildHistInv
  <2>. QED BY <1>1, <1>5, <2>1, <2>2, DeleteHistInv
<1>6. ASSUME NEW t \in Root, Rebuild(t)
      PROVE  RootRows' /\ Drifts'
  <2>1. flushed' = flushed /\ fca' = fca /\ val' = val /\ Live' = Live /\ RebuildTree(t)
    BY <1>6 DEF Rebuild, Live
  <2>2. \A q \in Live : TreeOf(fca[q]) # t => q \in Live' /\ val'[q] = val[q]
    BY <2>1
  <2>. QED BY <1>1, <2>1, <2>2, RebuildHistInv
<1>7. ASSUME UNCHANGED vars PROVE RootRows' /\ Drifts'
  BY <1>7 DEF HistInv, RootRows, Drifts, DriftOf, Actual, Below, Bound, Live, vars
<1>8. RootRows' /\ Drifts'
  BY <1>3, <1>4, <1>5, <1>6, <1>7 DEF Next
<1>. QED BY <1>1, <1>8 DEF HistInv

\* When remove tombstones the point it is given, a row misses no more live points
\* of a bucket than its tree has seen updates since it was rebuilt, and a root
\* row exceeds them by no more than that (on_insert, on_update, on_delete).
THEOREM HistogramsDrift ==
    ASSUME \A p \in Pts : Internal[p] = p
    PROVE  Spec => []HistDrift
<1>1. HistInv /\ [Next]_vars => HistInv'
  BY NextHistInv
<1>2. HistInv => HistDrift
  BY DEF HistInv, Drifts, DriftOf, Actual, HistDrift
<1>. QED BY <1>1, <1>2, InitHistInv, PTL DEF Spec

=============================================================================
