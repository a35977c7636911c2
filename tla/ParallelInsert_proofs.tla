------------------------- MODULE ParallelInsert_proofs -------------------------
(***************************************************************************)
(* However the threads of a construction interleave, no insertion throws,  *)
(* fathers lie above their children, and every small layer of the finished *)
(* index hangs together: for any number of points and threads, any bounds  *)
(* on lists and searches, any levels drawn and any distances.              *)
(***************************************************************************)
EXTENDS ParallelInsert, FiniteSetTheorems, WellFoundedInduction, TLAPS

InsertSpec == InsertInit /\ [][InsertNext]_insertVars

Layers == 0 .. TopDraw
Stages == {"idle", "add", "look", "start", "descend", "search", "link"}
Works == [at : Stages, node : Ids \cup {None}, cap : Layers, l : Layers, obj : Nat \cup {None},
          found : SUBSET Ids, seen : SUBSET Ids, open : SUBSET Ids, todo : SUBSET Ids]

(***************************************************************************)
(* The inductive invariant.                                                *)
(***************************************************************************)

\* Every variable has its type.
GraphOK ==
    /\ TopDraw \in Nat
    /\ next \in 1 .. LastPoint + 1
    /\ \E k \in Nat : Ids = 0 .. k
    /\ label \in [Ids -> 0 .. next - 1]
    /\ lev \in [Ids -> Layers] /\ father \in [Ids -> Ids]
    /\ links \in [Layers -> [Ids -> SUBSET Ids]]
    /\ enter \in Ids /\ top = lev[enter]

TypesOK == GraphOK /\ global \in Threads \cup {None} /\ work \in [Threads -> Works]

\* A thread that has a point under insertion, and the points nobody inserts.
Busy(t) == work[t].at \in {"look", "start", "descend", "search", "link"}
Settled(i) == \A t \in Threads : Busy(t) => work[t].node # i

\* The layers on which the point of a thread has no list yet, or never gets one.
Blank(t, m) ==
    \/ work[t].at \in {"look", "start", "descend"}
    \/ At(t, "search") /\ ~ (work[t].l < m /\ m <= work[t].cap)
    \/ At(t, "link") /\ ~ (work[t].l <= m /\ m <= work[t].cap)

\* Points in a list are on the layer of the list.
ListsOnLayer ==
    \A m \in Layers : \A i \in Ids : \A j \in links[m][i] :
        lev[i] >= m /\ lev[j] >= m /\ j # i

FathersHigher == \A i \in Ids : father[i] # i => lev[father[i]] > lev[i]

\* Each point is taken once: it waits with one thread or has one internal id.
LabelsOK ==
    /\ \A i, j \in Ids : label[i] = label[j] => i = j
    /\ \A t \in Threads : At(t, "add") =>
          work[t].obj \in 0 .. next - 1 /\ \A i \in Ids : label[i] # work[t].obj
    /\ \A s, t \in Threads : At(s, "add") /\ At(t, "add") /\ work[s].obj = work[t].obj => s = t
    /\ \A p \in 0 .. next - 1 : (\E i \in Ids : label[i] = p)
                                  \/ \E t \in Threads : At(t, "add") /\ work[t].obj = p

\* Two threads never insert the same point, and none inserts the entry point.
NodesOK ==
    /\ \A t \in Threads : Busy(t) => work[t].node \in Ids /\ work[t].node # enter
    /\ \A s, t \in Threads : Busy(s) /\ Busy(t) /\ work[s].node = work[t].node => s = t

\* The level of the entry point that a thread has read is still right as long
\* as it holds the lock, which a point that will be the highest does.
CapsOK ==
    \A t \in Threads :
        /\ Busy(t) /\ ~ At(t, "look") =>
              work[t].cap <= top /\ (lev[work[t].node] > work[t].cap => global = t)
        /\ global = t => Busy(t) /\ ~ At(t, "look") /\ work[t].cap = top
TopsOK == \A i \in Ids : Settled(i) => lev[i] <= top

\* A descent is above the level of its point.
DescentsOK ==
    \A t \in Threads : At(t, "descend") =>
        /\ work[t].obj \in Ids /\ lev[work[t].obj] >= work[t].l
        /\ lev[work[t].obj] > lev[work[t].node]
        /\ lev[work[t].node] <= work[t].l /\ work[t].l <= work[t].cap

\* A search stays on its layer, and what it has expanded is finished.
SearchesOK ==
    \A t \in Threads : work[t].at \in {"search", "link"} =>
        /\ work[t].l <= lev[work[t].node] /\ work[t].l <= work[t].cap
        /\ work[t].found # {} /\ work[t].node \notin work[t].found
        /\ \A j \in work[t].found : lev[j] >= work[t].l
        /\ \A j \in work[t].found \ work[t].open : Settled(j)
        /\ At(t, "link") => /\ work[t].open = {} /\ work[t].todo \subseteq work[t].found
                            /\ Cardinality(work[t].found) <= MaxM

\* The lists a point has not filled are empty, and no list names it there.
BlanksOK ==
    \A t \in Threads : \A m \in Layers : Busy(t) /\ Blank(t, m) =>
        links[m][work[t].node] = {} /\ \A i \in Ids : work[t].node \notin links[m][i]

\* No list names more points than it holds.
SizesOK == \A m \in Layers : \A i \in Ids : Cardinality(links[m][i]) <= Most(m)

\* The neighbours that a point has still to tell do not name it.
PendingOK ==
    \A t \in Threads : At(t, "link") =>
        \A e \in work[t].todo : work[t].node \notin links[work[t].l][e]

InsertInv ==
    /\ TypesOK /\ ListsOnLayer /\ FathersHigher /\ LabelsOK /\ NodesOK /\ CapsOK /\ TopsOK
    /\ DescentsOK /\ SearchesOK /\ BlanksOK /\ SizesOK /\ PendingOK

(***************************************************************************)
(* Lemmas about the operators.                                             *)
(***************************************************************************)

\* A non-empty set of naturals has a least element.
LEMMA LeastOf ==
    ASSUME NEW V, V \subseteq Nat, V # {}
    PROVE  \E d \in V : \A e \in V : d <= e
<1>. DEFINE R == OpToRel(<, Nat)
<1>1. PICK d \in V : \A e \in V : ~ (<<e, d>> \in R)
  <2>1. IsWellFoundedOn(R, Nat)
    BY NatLessThanWellFounded
  <2>. HIDE DEF R
  <2>. QED BY <2>1, WFMin
<1>2. ASSUME NEW e \in V PROVE d <= e
  <2>1. d \in Nat /\ e \in Nat
    OBVIOUS
  <2>2. ~ (e < d)
    BY <1>1, <2>1 DEF OpToRel
  <2>. QED BY <2>1, <2>2
<1>. QED BY <1>2

\* A non-empty finite set of naturals has a greatest element.
LEMMA GreatestOf ==
    ASSUME NEW S, S \subseteq Nat, IsFiniteSet(S), S # {}
    PROVE  \E d \in S : \A e \in S : e <= d
<1>. DEFINE Bad == {T \in SUBSET S : T # {} /\ \A d \in T : \E e \in T : ~ (e <= d)}
            V == {Cardinality(T) : T \in Bad}
<1>1. \A T \in SUBSET S : IsFiniteSet(T) /\ Cardinality(T) \in Nat
  BY FS_Subset, FS_CardinalityType
<1>2. V \subseteq Nat
  BY <1>1
<1>3. SUFFICES Bad = {}
  OBVIOUS
<1>4. SUFFICES ASSUME Bad # {} PROVE FALSE
  OBVIOUS
<1>5. PICK T \in Bad : \A U \in Bad : Cardinality(T) <= Cardinality(U)
  <2>1. V # {}
    BY <1>4
  <2>2. PICK d \in V : \A e \in V : d <= e
    <3>. HIDE DEF V
    <3>. QED BY <1>2, <2>1, LeastOf
  <2>. QED BY <2>2
<1>6. PICK x \in T : TRUE
  OBVIOUS
<1>. DEFINE U == T \ {x}
<1>7. IsFiniteSet(T) /\ Cardinality(T) \in Nat /\ Cardinality(U) = Cardinality(T) - 1
  BY <1>1, <1>6, FS_RemoveElement
<1>8. U \notin Bad
  <2>1. U \in Bad => Cardinality(T) <= Cardinality(U)
    BY <1>5
  <2>. QED BY <1>7, <2>1
<1>9. CASE U = {}
  BY <1>6, <1>9
<1>10. CASE U # {}
  <2>1. PICK d \in U : \A e \in U : e <= d
    BY <1>8, <1>10
  <2>2. d \in Nat /\ x \in Nat /\ (x <= d \/ d <= x)
    OBVIOUS
  <2>3. CASE x <= d
    <3>1. d \in T /\ \A e \in T : e <= d
      BY <2>1, <2>3
    <3>. QED BY <3>1
  <2>4. CASE d <= x
    <3>1. ASSUME NEW e \in T PROVE e <= x
      <4>1. e \in Nat /\ (e = x \/ e <= d)
        BY <2>1
      <4>. QED BY <2>2, <2>4, <4>1
    <3>. QED BY <1>6, <3>1
  <2>. QED BY <2>2, <2>3, <2>4
<1>. QED BY <1>9, <1>10

\* Every level drawn is one of the layers.
LEMMA TopFact ==
    ASSUME NEW p \in Base, NEW d \in Draws[p]
    PROVE  TopDraw \in Nat /\ \A q \in Base : Draws[q] \subseteq Layers
<1>. DEFINE F == {Draws[q] : q \in Base}
            S == UNION F
<1>1. \A q \in Base : Draws[q] \subseteq Nat /\ IsFiniteSet(Draws[q])
  BY InsertAssumption
<1>2. IsFiniteSet(Base)
  BY InsertAssumption, FS_Interval DEF Base
<1>3. IsFiniteSet(F)
  <2>. DEFINE f == [q \in Base |-> Draws[q]]
  <2>1. f \in Surjection(Base, F)
    BY DEF Surjection
  <2>. HIDE DEF f, F
  <2>. QED BY <1>2, <2>1, FS_Surjection
<1>4. IsFiniteSet(S)
  <2>1. \A T \in F : IsFiniteSet(T)
    BY <1>1
  <2>. HIDE DEF F
  <2>. QED BY <1>3, <2>1, FS_UNION
<1>5. S \subseteq Nat /\ S # {}
  BY <1>1
<1>6. \E l \in S : \A m \in S : m <= l
  <2>. HIDE DEF S
  <2>. QED BY <1>4, <1>5, GreatestOf
<1>7. \E l \in UNION {Draws[q] : q \in Base} : \A q \in Base : \A m \in Draws[q] : m <= l
  BY <1>6
<1>8. TopDraw \in S /\ \A q \in Base : \A m \in Draws[q] : m <= TopDraw
  BY <1>7 DEF TopDraw
<1>. QED BY <1>1, <1>5, <1>8 DEF Layers

\* The closest of some points is one of them.
LEMMA ClosestIn ==
    ASSUME GraphOK, NEW i \in Ids, NEW S \in SUBSET Ids, S # {}
    PROVE  Closest(i, S) \in S
<1>1. \A j \in Ids : label[j] \in Base
  <2>1. next \in 1 .. LastPoint + 1 /\ label \in [Ids -> 0 .. next - 1] /\ LastPoint \in Nat
    BY InsertAssumption DEF GraphOK
  <2>. QED BY <2>1 DEF Base
<1>2. \A j \in Ids : D(i, j) \in Nat
  BY <1>1, InsertAssumption DEF D
<1>. DEFINE V == {D(i, j) : j \in S}
<1>3. PICK d \in V : \A e \in V : d <= e
  <2>1. V \subseteq Nat /\ V # {}
    BY <1>2
  <2>. HIDE DEF V
  <2>. QED BY <2>1, LeastOf
<1>4. \E j \in S : \A k \in S : D(i, j) <= D(i, k)
  BY <1>3
<1>. QED BY <1>4 DEF Closest

\* There are finitely many points, and the distances are numbers.
LEMMA FiniteIds ==
    ASSUME GraphOK
    PROVE  /\ IsFiniteSet(Ids) /\ Ids \subseteq Nat /\ MaxM \in Nat /\ MaxM > 1 /\ Efc \in Nat /\ Efc > 1
           /\ \A m \in Layers : Most(m) \in Nat /\ Most(m) >= MaxM
           /\ \A S \in SUBSET Ids : IsFiniteSet(S) /\ Cardinality(S) \in Nat
                                     /\ (S # {} => Cardinality(S) > 0)
           /\ \A i, j \in Ids : D(i, j) \in Nat
<1>1. PICK k \in Nat : Ids = 0 .. k
  BY DEF GraphOK
<1>2. IsFiniteSet(Ids) /\ Ids \subseteq Nat
  BY <1>1, FS_Interval
<1>3. MaxM \in Nat /\ MaxM > 1 /\ Efc \in Nat /\ Efc > 1
  BY InsertAssumption
<1>4. ASSUME NEW S \in SUBSET Ids
      PROVE  IsFiniteSet(S) /\ Cardinality(S) \in Nat /\ (S # {} => Cardinality(S) > 0)
  <2>1. IsFiniteSet(S) /\ Cardinality(S) \in Nat
    BY <1>2, FS_Subset, FS_CardinalityType
  <2>2. S # {} => Cardinality(S) # 0
    BY <2>1, FS_EmptySet
  <2>. QED BY <2>1, <2>2
<1>5. \A j \in Ids : label[j] \in Base
  <2>1. next \in 1 .. LastPoint + 1 /\ label \in [Ids -> 0 .. next - 1] /\ LastPoint \in Nat
    BY InsertAssumption DEF GraphOK
  <2>. QED BY <2>1 DEF Base
<1>6. \A i, j \in Ids : D(i, j) \in Nat
  BY <1>5, InsertAssumption DEF D
<1>7. \A m \in Layers : Most(m) \in Nat /\ Most(m) >= MaxM
  BY <1>3 DEF Most
<1>. QED BY <1>2, <1>3, <1>4, <1>6, <1>7

\* What a search keeps are some of the points it has, and at least one.
LEMMA NearestIn ==
    ASSUME GraphOK, NEW i, NEW S \in SUBSET Ids, S # {}, NEW K \in Nearest(i, S)
    PROVE  K \subseteq S /\ K # {}
<1>1. Efc > 0 /\ Efc \in Nat
  BY FiniteIds
<1>2. CASE Cardinality(S) <= Efc
  BY <1>2 DEF Nearest
<1>3. CASE ~ (Cardinality(S) <= Efc)
  <2>1. K \in SUBSET S /\ Cardinality(K) = Efc
    BY <1>3 DEF Nearest
  <2>. QED BY <1>1, <2>1, FS_EmptySet
<1>. QED BY <1>2, <1>3

\* The last of some points in the order in which a selection sees them.
LEMMA LastSeen ==
    ASSUME GraphOK, NEW i \in Ids, NEW R \in SUBSET Ids, R # {}
    PROVE  \E j \in R : \A k \in R \ {j} : Before(i, k, j)
<1>. DEFINE V == {D(i, j) : j \in R}
<1>0. /\ IsFiniteSet(R) /\ R \subseteq Nat /\ \A j \in R : D(i, j) \in Nat
  BY FiniteIds
<1>1. IsFiniteSet(V) /\ V \subseteq Nat /\ V # {}
  <2>. DEFINE f == [j \in R |-> D(i, j)]
  <2>1. f \in Surjection(R, V)
    BY DEF Surjection
  <2>2. V \subseteq Nat /\ V # {}
    BY <1>0
  <2>. HIDE DEF f, V
  <2>. QED BY <1>0, <2>1, <2>2, FS_Surjection
<1>2. PICK d \in V : \A e \in V : e <= d
  <2>. HIDE DEF V
  <2>. QED BY <1>1, GreatestOf
<1>. DEFINE T == {j \in R : D(i, j) = d}
<1>3. PICK j \in T : \A k \in T : j <= k
  <2>1. T \subseteq Nat /\ T # {}
    BY <1>0, <1>2
  <2>. HIDE DEF T
  <2>. QED BY <2>1, LeastOf
<1>4. ASSUME NEW k \in R \ {j} PROVE Before(i, k, j)
  <2>1. /\ D(i, k) <= d /\ D(i, j) = d /\ D(i, k) \in Nat /\ D(i, j) \in Nat
        /\ j \in Nat /\ k \in Nat
    BY <1>0, <1>2
  <2>2. CASE D(i, k) = d
    <3>1. j <= k /\ k # j
      BY <1>3, <2>2
    <3>. QED BY <2>1, <2>2, <3>1 DEF Before
  <2>3. CASE D(i, k) # d
    BY <2>1, <2>3 DEF Before
  <2>. QED BY <2>2, <2>3
<1>. QED BY <1>4

\* A selection keeps some of the points it is offered, at least one and no more
\* than it is asked for.
LEMMA SelectedIn ==
    ASSUME GraphOK, NEW i \in Ids, NEW S \in SUBSET Ids, S # {}, NEW m \in Nat, m > 0,
           NEW R \in Selected(i, S, m)
    PROVE  R \subseteq S /\ R # {} /\ Cardinality(R) <= m
<1>1. CASE Cardinality(S) < m
  <2>1. Cardinality(S) \in Nat
    BY FiniteIds
  <2>. QED BY <1>1, <2>1 DEF Selected
<1>2. CASE ~ (Cardinality(S) < m)
  <2>1. /\ R \in SUBSET S
        /\ \A j \in S : j \in R <=>
              /\ HasRoom({k \in R : Before(i, k, j)}, m)
              /\ \A k \in {k \in R : Before(i, k, j)} : D(k, j) >= D(i, j)
    BY <1>2 DEF Selected
  <2>2. R # {}
    <3>1. SUFFICES ASSUME R = {} PROVE FALSE
      OBVIOUS
    <3>2. PICK j \in S : TRUE
      OBVIOUS
    <3>3. {k \in R : Before(i, k, j)} = {} /\ Cardinality({}) = 0
      BY <3>1, FS_EmptySet
    <3>4. HasRoom({}, m)
      BY <3>3 DEF HasRoom
    <3>5. j \in R
      BY <2>1, <3>3, <3>4
    <3>. QED BY <3>1, <3>5
  <2>3. PICK j \in R : \A k \in R \ {j} : Before(i, k, j)
    BY <2>1, <2>2, LastSeen
  <2>. DEFINE E == {k \in R : Before(i, k, j)}
  <2>4. Cardinality(E) < m
    BY <2>1 DEF HasRoom
  <2>5. R \ {j} \in SUBSET E /\ E \in SUBSET R /\ R \in SUBSET Ids
    BY <2>1, <2>3
  <2>6. IsFiniteSet(R) /\ IsFiniteSet(E)
    BY <2>5, FiniteIds
  <2>7. Cardinality(R \ {j}) = Cardinality(R) - 1 /\ Cardinality(R) \in Nat
    BY <2>6, FS_RemoveElement, FS_CardinalityType
  <2>8. Cardinality(R \ {j}) <= Cardinality(E) /\ Cardinality(E) \in Nat
    <3>. HIDE DEF E
    <3>. QED BY <2>5, <2>6, FS_Subset, FS_CardinalityType
  <2>. QED BY <2>1, <2>2, <2>4, <2>7, <2>8
<1>. QED BY <1>1, <1>2

\* What the types of the variables give for one thread.
LEMMA Typed ==
    ASSUME InsertInv
    PROVE  /\ TopDraw \in Nat /\ Layers \subseteq Nat /\ Ids \subseteq Nat /\ enter \in Ids
           /\ top = lev[enter] /\ top \in Layers /\ lev \in [Ids -> Layers]
           /\ father \in [Ids -> Ids] /\ links \in [Layers -> [Ids -> SUBSET Ids]]
           /\ global \in Threads \cup {None} /\ work \in [Threads -> Works]
           /\ \A t \in Threads : /\ work[t] \in Works /\ work[t].cap \in Layers
                                 /\ work[t].l \in Layers /\ work[t].found \in SUBSET Ids
                                 /\ work[t].open \in SUBSET Ids /\ work[t].todo \in SUBSET Ids
                                 /\ work[t].seen \in SUBSET Ids
<1>1. GraphOK /\ global \in Threads \cup {None} /\ work \in [Threads -> Works]
  BY DEF InsertInv, TypesOK
<1>2. PICK k \in Nat : Ids = 0 .. k
  BY <1>1 DEF GraphOK
<1>3. Ids \subseteq Nat
  BY <1>2
<1>4. /\ TopDraw \in Nat /\ enter \in Ids /\ top = lev[enter] /\ lev \in [Ids -> Layers]
      /\ father \in [Ids -> Ids] /\ links \in [Layers -> [Ids -> SUBSET Ids]]
  BY <1>1 DEF GraphOK
<1>5. Layers \subseteq Nat
  BY <1>4 DEF Layers
<1>6. ASSUME NEW t \in Threads
      PROVE  /\ work[t] \in Works /\ work[t].cap \in Layers
             /\ work[t].l \in Layers /\ work[t].found \in SUBSET Ids
             /\ work[t].open \in SUBSET Ids /\ work[t].todo \in SUBSET Ids
             /\ work[t].seen \in SUBSET Ids
  <2>1. work[t] \in Works
    BY <1>1
  <2>. QED BY <2>1 DEF Works
<1>7. top \in Layers
  BY <1>4
<1>. QED BY <1>1, <1>3, <1>4, <1>5, <1>6, <1>7

\* The father that a list of its neighbours gives a point is above it.
LEMMA RefinedFather ==
    ASSUME InsertInv, NEW i \in Ids, NEW S \in SUBSET Ids, NEW l
    PROVE  /\ Refined(i, l, S) \in [Ids -> Ids]
           /\ \A k \in Ids : Refined(i, l, S)[k] # k => lev[Refined(i, l, S)[k]] > lev[k]
<1>0. father \in [Ids -> Ids] /\ FathersHigher /\ GraphOK
  BY DEF InsertInv, TypesOK, GraphOK
<1>1. Higher(i, S) \in SUBSET Ids /\ \A j \in Higher(i, S) : lev[j] > lev[i]
  BY DEF Higher
<1>2. Higher(i, S) # {} => Closest(i, Higher(i, S)) \in Higher(i, S)
  BY <1>0, <1>1, ClosestIn
<1>3. \/ Nearer(i, Higher(i, S)) = father[i]
      \/ Higher(i, S) # {} /\ Nearer(i, Higher(i, S)) = Closest(i, Higher(i, S))
  BY DEF Nearer
<1>. DEFINE f == Nearer(i, Higher(i, S))
<1>4. f \in Ids /\ (f # i => lev[f] > lev[i])
  <2>. HIDE DEF f
  <2>1. CASE f = father[i]
    BY <1>0, <2>1 DEF FathersHigher
  <2>2. CASE Higher(i, S) # {} /\ f = Closest(i, Higher(i, S))
    BY <1>1, <1>2, <2>2
  <2>. QED BY <1>3, <2>1, <2>2 DEF f
<1>5. Refined(i, l, S) = father \/ Refined(i, l, S) = [father EXCEPT ![i] = f]
  BY DEF Refined
<1>. HIDE DEF f
<1>. QED BY <1>0, <1>4, <1>5 DEF FathersHigher

\* An insertion in progress, whatever it does, changes neither the labels nor
\* who inserts what.
LEMMA BusyFrame ==
    ASSUME InsertInv, NEW t \in Threads, NEW w \in Works, Busy(t),
           work' = [work EXCEPT ![t] = w], w.node = work[t].node,
           w.at \in {"look", "start", "descend", "search", "link"},
           UNCHANGED <<next, label, lev, enter, top>>,
           global' \in Threads \cup {None}, father' \in [Ids -> Ids],
           links' \in [Layers -> [Ids -> SUBSET Ids]]
    PROVE  /\ Ids' = Ids /\ work'[t] = w /\ \A s \in Threads \ {t} : work'[s] = work[s]
           /\ \A s \in Threads : (Busy(s)' <=> Busy(s)) /\ work'[s].node = work[s].node
           /\ \A i : Settled(i)' <=> Settled(i)
           /\ TypesOK' /\ LabelsOK' /\ NodesOK' /\ TopsOK'
<1>1. Ids' = Ids
  BY DEF Ids
<1>2. /\ work \in [Threads -> Works] /\ work'[t] = w
      /\ \A s \in Threads \ {t} : work'[s] = work[s]
  BY DEF InsertInv, TypesOK
<1>3. \A s \in Threads : (Busy(s)' <=> Busy(s)) /\ work'[s].node = work[s].node
  BY <1>2 DEF Busy
<1>4. \A i : Settled(i)' <=> Settled(i)
  BY <1>3 DEF Settled
<1>5. TypesOK'
  <2>1. GraphOK'
    BY <1>1 DEF InsertInv, TypesOK, GraphOK
  <2>2. Works' = Works
    BY <1>1 DEF Works
  <2>3. work' \in [Threads -> Works]
    BY <1>2
  <2>. QED BY <2>1, <2>2, <2>3 DEF TypesOK
<1>6. \A s \in Threads : At(s, "add")' => At(s, "add") /\ s # t /\ work'[s] = work[s]
  BY <1>2 DEF At
<1>7. LabelsOK'
  <2>1. \A s \in Threads : At(s, "add") => s # t /\ At(s, "add")' /\ work'[s] = work[s]
    BY <1>2 DEF At, Busy
  <2>2. LabelsOK
    BY DEF InsertInv
  <2>3. \A p \in 0 .. next' - 1 : (\E i \in Ids : label[i] = p)
                                  \/ \E s \in Threads : At(s, "add")' /\ work'[s].obj = p
    BY <2>1, <2>2 DEF LabelsOK
  <2>. QED BY <1>1, <1>6, <2>2, <2>3 DEF LabelsOK
<1>8. NodesOK'
  BY <1>1, <1>3 DEF InsertInv, NodesOK
<1>9. TopsOK'
  BY <1>1, <1>4 DEF InsertInv, TopsOK
<1>. QED BY <1>1, <1>2, <1>3, <1>4, <1>5, <1>7, <1>8, <1>9

\* A step of an insertion keeps the invariant if the lists stay right and the
\* insertion is right where it arrives.
LEMMA Moves ==
    ASSUME InsertInv, NEW t \in Threads, NEW w \in Works, Busy(t),
           work' = [work EXCEPT ![t] = w], w.node = work[t].node,
           w.at \in {"look", "start", "descend", "search", "link"},
           UNCHANGED <<next, label, lev, enter, top>>,
           global' \in Threads \cup {None}, father' \in [Ids -> Ids],
           links' \in [Layers -> [Ids -> SUBSET Ids]], ListsOnLayer', BlanksOK',
           SizesOK', PendingOK',
           FathersHigher', CapsOK',
           w.at = "descend" =>
               /\ w.obj \in Ids /\ lev[w.obj] >= w.l /\ lev[w.obj] > lev[w.node]
               /\ lev[w.node] <= w.l /\ w.l <= w.cap,
           w.at \in {"search", "link"} =>
               /\ w.l <= lev[w.node] /\ w.l <= w.cap /\ w.found # {} /\ w.node \notin w.found
               /\ \A j \in w.found : lev[j] >= w.l
               /\ \A j \in w.found \ w.open : Settled(j)
               /\ w.at = "link" => /\ w.open = {} /\ w.todo \subseteq w.found
                                   /\ Cardinality(w.found) <= MaxM
    PROVE  InsertInv'
<1>2. /\ Ids' = Ids /\ work'[t] = w /\ \A s \in Threads \ {t} : work'[s] = work[s]
      /\ \A s \in Threads : (Busy(s)' <=> Busy(s)) /\ work'[s].node = work[s].node
      /\ \A i : Settled(i)' <=> Settled(i)
      /\ TypesOK' /\ LabelsOK' /\ NodesOK' /\ TopsOK'
  BY BusyFrame
<1>4. DescentsOK'
  <2>. SUFFICES ASSUME NEW s \in Threads, At(s, "descend")'
                PROVE  /\ work'[s].obj \in Ids' /\ lev'[work'[s].obj] >= work'[s].l
                       /\ lev'[work'[s].obj] > lev'[work'[s].node]
                       /\ lev'[work'[s].node] <= work'[s].l /\ work'[s].l <= work'[s].cap
    BY DEF DescentsOK
  <2>1. CASE s = t
    BY <1>2, <2>1 DEF At
  <2>2. CASE s # t
    <3>1. work'[s] = work[s] /\ At(s, "descend")
      BY <1>2, <2>2 DEF At
    <3>. QED BY <1>2, <3>1 DEF InsertInv, DescentsOK
  <2>. QED BY <2>1, <2>2
<1>5. SearchesOK'
  <2>. SUFFICES ASSUME NEW s \in Threads, work'[s].at \in {"search", "link"}
                PROVE  /\ work'[s].l <= lev'[work'[s].node] /\ work'[s].l <= work'[s].cap
                       /\ work'[s].found # {} /\ work'[s].node \notin work'[s].found
                       /\ \A j \in work'[s].found : lev'[j] >= work'[s].l
                       /\ \A j \in work'[s].found \ work'[s].open : Settled(j)'
                       /\ At(s, "link")' => /\ work'[s].open = {} /\ work'[s].todo \subseteq work'[s].found
                                            /\ Cardinality(work'[s].found) <= MaxM
    BY DEF SearchesOK
  <2>1. CASE s = t
    BY <1>2, <2>1 DEF At
  <2>2. CASE s # t
    <3>1. work'[s] = work[s] /\ (At(s, "link")' <=> At(s, "link"))
      BY <1>2, <2>2 DEF At
    <3>. QED BY <1>2, <3>1 DEF InsertInv, SearchesOK
  <2>. QED BY <2>1, <2>2
<1>. QED BY <1>2, <1>4, <1>5 DEF InsertInv

\* A step that only moves an insertion along keeps the invariant if the
\* insertion is right where it arrives.
LEMMA Quiet ==
    ASSUME InsertInv, NEW t \in Threads, NEW w \in Works, Busy(t),
           work' = [work EXCEPT ![t] = w], w.node = work[t].node,
           w.at \in {"look", "start", "descend", "search"},
           UNCHANGED <<next, label, lev, links, enter, top>>,
           global' \in Threads \cup {None}, father' \in [Ids -> Ids],
           FathersHigher', CapsOK', \A m \in Layers : Blank(t, m)' => Blank(t, m),
           w.at = "descend" =>
               /\ w.obj \in Ids /\ lev[w.obj] >= w.l /\ lev[w.obj] > lev[w.node]
               /\ lev[w.node] <= w.l /\ w.l <= w.cap,
           w.at = "search" =>
               /\ w.l <= lev[w.node] /\ w.l <= w.cap /\ w.found # {} /\ w.node \notin w.found
               /\ \A j \in w.found : lev[j] >= w.l
               /\ \A j \in w.found \ w.open : Settled(j)
    PROVE  InsertInv'
<1>1. links \in [Layers -> [Ids -> SUBSET Ids]]
  BY DEF InsertInv, TypesOK, GraphOK
<1>2. /\ Ids' = Ids /\ work'[t] = w /\ \A s \in Threads \ {t} : work'[s] = work[s]
      /\ \A s \in Threads : (Busy(s)' <=> Busy(s)) /\ work'[s].node = work[s].node
      /\ \A i : Settled(i)' <=> Settled(i)
      /\ TypesOK' /\ LabelsOK' /\ NodesOK' /\ TopsOK'
  BY <1>1, BusyFrame
<1>3. ListsOnLayer'
  BY <1>2 DEF InsertInv, ListsOnLayer
<1>4. BlanksOK'
  <2>. SUFFICES ASSUME NEW s \in Threads, NEW m \in Layers, Busy(s)', Blank(s, m)'
                PROVE  /\ links'[m][work'[s].node] = {}
                       /\ \A i \in Ids' : work'[s].node \notin links'[m][i]
    BY DEF BlanksOK
  <2>1. Blank(s, m)
    <3>1. CASE s = t
      BY <3>1
    <3>2. CASE s # t
      BY <1>2, <3>2 DEF Blank, At
    <3>. QED BY <3>1, <3>2
  <2>2. Busy(s) /\ work'[s].node = work[s].node
    BY <1>2
  <2>. QED BY <1>2, <2>1, <2>2 DEF InsertInv, BlanksOK
<1>5. SizesOK'
  BY <1>2 DEF InsertInv, SizesOK
<1>6. PendingOK'
  <2>1. \A s \in Threads : At(s, "link")' => At(s, "link") /\ work'[s] = work[s]
    BY <1>2 DEF At
  <2>. QED BY <2>1 DEF InsertInv, PendingOK
<1>. QED BY <1>1, <1>3, <1>4, <1>5, <1>6, Moves

\* The locks on the entry point stay right when a thread past them moves on.
LEMMA CapsKept ==
    ASSUME InsertInv, NEW t \in Threads, NEW w \in Works, Busy(t), ~ At(t, "look"),
           work' = [work EXCEPT ![t] = w], w.node = work[t].node, w.cap = work[t].cap,
           w.at \in {"start", "descend", "search", "link"},
           UNCHANGED <<lev, top, global>>
    PROVE  CapsOK'
<1>1. work'[t] = w /\ \A s \in Threads \ {t} : work'[s] = work[s]
  BY DEF InsertInv, TypesOK
<1>2. \A s \in Threads : /\ Busy(s)' <=> Busy(s)
                         /\ At(s, "look")' <=> At(s, "look")
                         /\ work'[s].node = work[s].node /\ work'[s].cap = work[s].cap
  BY <1>1 DEF Busy, At
<1>. QED BY <1>2 DEF InsertInv, CapsOK

\* Reading the level of the entry point, and keeping the lock above it.
LEMMA LookInv ==
    ASSUME InsertInv, NEW t \in Threads, Look(t)
    PROVE  InsertInv'
<1>. DEFINE w == [work[t] EXCEPT !.at = "start", !.cap = top]
<1>1. /\ work[t] \in Works /\ Ids \subseteq Nat /\ top \in Layers /\ enter \in Ids
      /\ lev \in [Ids -> Layers] /\ work \in [Threads -> Works] /\ father \in [Ids -> Ids]
  BY Typed
<1>2. /\ w \in Works /\ w.at = "start" /\ w.cap = top /\ w.node = work[t].node
      /\ work' = [work EXCEPT ![t] = w] /\ global = None
      /\ global' = IF lev[work[t].node] <= top THEN None ELSE t
      /\ UNCHANGED <<next, label, lev, father, links, enter, top, proj>> /\ Busy(t)
  <2>1. w \in Works
    BY <1>1 DEF Works, Stages
  <2>. QED BY <1>1, <2>1 DEF Look, Become, At, Busy, graph, KeepsNot, Works
<1>3. work'[t] = w /\ \A s \in Threads \ {t} : work'[s] = work[s]
  BY <1>1, <1>2
<1>4. CapsOK'
  <2>1. work[t].node \in Ids /\ Layers \subseteq Nat
    BY <1>2, Typed DEF InsertInv, NodesOK
  <2>2. lev[work[t].node] \in Nat /\ top \in Nat
    BY <1>1, <2>1
  <2>. SUFFICES ASSUME NEW s \in Threads
                PROVE  /\ Busy(s)' /\ ~ At(s, "look")' =>
                             work'[s].cap <= top' /\ (lev'[work'[s].node] > work'[s].cap => global' = s)
                       /\ global' = s => Busy(s)' /\ ~ At(s, "look")' /\ work'[s].cap = top'
    BY Zenon DEF CapsOK
  <2>3. CASE s = t
    <3>1. /\ work'[t].at = "start" /\ work'[t].cap = top /\ work'[t].node = work[t].node
          /\ lev' = lev /\ top' = top /\ global' = IF lev[work[t].node] <= top THEN None ELSE t
      BY <1>2, <1>3
    <3>2. Busy(t)' /\ ~ At(t, "look")'
      BY <3>1 DEF At, Busy
    <3>. QED BY <2>2, <2>3, <3>1, <3>2
  <2>4. CASE s # t
    <3>1. work'[s] = work[s] /\ global # s /\ global' # s
      BY <1>2, <1>3, <2>4, InsertAssumption
    <3>2. (Busy(s)' <=> Busy(s)) /\ (At(s, "look")' <=> At(s, "look"))
      BY <3>1 DEF Busy, At
    <3>. QED BY <1>2, <3>1, <3>2 DEF InsertInv, CapsOK
  <2>. QED BY <2>3, <2>4
<1>5. \A m \in Layers : Blank(t, m)
  <2>1. work[t].at = "look"
    BY DEF Look, At
  <2>. QED BY <2>1 DEF Blank
<1>6. FathersHigher'
  <2>1. Ids' = Ids
    BY <1>2 DEF Ids
  <2>. QED BY <1>2, <2>1 DEF InsertInv, FathersHigher
<1>7. global' \in Threads \cup {None} /\ father' \in [Ids -> Ids]
  BY <1>1, <1>2
<1>. HIDE DEF w
<1>. QED BY <1>2, <1>4, <1>5, <1>6, <1>7, Quiet

\* Reading the entry point after its level.
LEMMA StartInv ==
    ASSUME InsertInv, NEW t \in Threads, Start(t)
    PROVE  InsertInv'
<1>. DEFINE down == [work[t] EXCEPT !.at = "descend", !.obj = enter, !.l = work[t].cap]
            flat == [work[t] EXCEPT !.at = "search", !.l = work[t].cap, !.obj = enter,
                                    !.found = {enter}, !.seen = {enter}, !.open = {enter}]
            w == IF lev[work[t].node] < work[t].cap THEN down ELSE flat
<1>1. /\ work[t] \in Works /\ Ids \subseteq Nat /\ top = lev[enter] /\ enter \in Ids
      /\ lev \in [Ids -> Layers] /\ work \in [Threads -> Works] /\ father \in [Ids -> Ids]
      /\ global \in Threads \cup {None} /\ work[t].cap \in Layers /\ Layers \subseteq Nat
  BY Typed
<1>2. At(t, "start") /\ Busy(t) /\ ~ At(t, "look")
  BY DEF Start, At, Busy
<1>3. /\ work[t].node \in Ids /\ work[t].node # enter /\ work[t].cap <= top
  BY <1>2 DEF InsertInv, NodesOK, CapsOK
<1>4. down \in Works /\ flat \in Works
  BY <1>1 DEF Works, Stages
<1>5. /\ work' = [work EXCEPT ![t] = w]
      /\ UNCHANGED <<next, label, lev, father, links, enter, top, global, proj>>
  BY DEF Start, Become, graph
<1>6. /\ down.at = "descend" /\ down.node = work[t].node /\ down.cap = work[t].cap
      /\ down.obj = enter /\ down.l = work[t].cap
      /\ flat.at = "search" /\ flat.node = work[t].node /\ flat.cap = work[t].cap
      /\ flat.l = work[t].cap /\ flat.found = {enter} /\ flat.open = {enter}
  BY <1>1 DEF Works
<1>. HIDE DEF down, flat
<1>7. /\ w \in Works /\ w.at \in {"start", "descend", "search", "link"}
      /\ w.node = work[t].node /\ w.cap = work[t].cap
  BY <1>4, <1>6
<1>8. CapsOK'
  <2>. HIDE DEF w
  <2>. QED BY <1>2, <1>5, <1>7, CapsKept
<1>9. \A m \in Layers : Blank(t, m)
  BY <1>2 DEF Blank, At
<1>10. FathersHigher'
  <2>1. Ids' = Ids
    BY <1>5 DEF Ids
  <2>. QED BY <1>5, <2>1 DEF InsertInv, FathersHigher
<1>11. w.at = "descend" =>
          /\ w.obj \in Ids /\ lev[w.obj] >= w.l /\ lev[w.obj] > lev[w.node]
          /\ lev[w.node] <= w.l /\ w.l <= w.cap
  <2>1. lev[work[t].node] \in Nat /\ top \in Nat /\ work[t].cap \in Nat
    BY <1>1, <1>3
  <2>. QED BY <1>1, <1>3, <1>6, <2>1
<1>12. w.at = "search" =>
          /\ w.l <= lev[w.node] /\ w.l <= w.cap /\ w.found # {} /\ w.node \notin w.found
          /\ \A j \in w.found : lev[j] >= w.l
          /\ \A j \in w.found \ w.open : Settled(j)
  <2>1. lev[work[t].node] \in Nat /\ top \in Nat /\ work[t].cap \in Nat
    BY <1>1, <1>3
  <2>. QED BY <1>1, <1>3, <1>6, <2>1
<1>13. global' \in Threads \cup {None} /\ father' \in [Ids -> Ids]
       /\ UNCHANGED <<next, label, lev, links, enter, top>>
       /\ w.at \in {"look", "start", "descend", "search"}
  BY <1>1, <1>5, <1>6
<1>. HIDE DEF w
<1>. QED BY <1>2, <1>5, <1>7, <1>8, <1>9, <1>10, <1>11, <1>12, <1>13, Quiet

\* Lists are opaque to a descent but for the layer of what is in them.
LEMMA DescendInv ==
    ASSUME InsertInv, NEW t \in Threads, Descend(t)
    PROVE  InsertInv'
<1>. DEFINE S == {work[t].obj} \cup links[work[t].l][work[t].obj]
            best == Closest(work[t].node, S)
            lower == [work[t] EXCEPT !.l = work[t].l - 1]
            nearer == [work[t] EXCEPT !.obj = best]
            w == IF best = work[t].obj THEN lower ELSE nearer
<1>1. At(t, "descend") /\ ~ AtOwnLevel(t) /\ Busy(t) /\ ~ At(t, "look")
  BY DEF Descend, At, Busy
<1>2. /\ work[t].obj \in Ids /\ lev[work[t].obj] >= work[t].l
      /\ lev[work[t].obj] > lev[work[t].node]
      /\ lev[work[t].node] <= work[t].l /\ work[t].l <= work[t].cap
      /\ work[t].node \in Ids
  BY <1>1 DEF InsertInv, DescentsOK, NodesOK
<1>3. /\ work[t].l \in Nat /\ lev[work[t].node] \in Nat /\ work[t].cap \in Nat
      /\ work[t].l \in 0 .. TopDraw /\ TopDraw \in Nat
      /\ \A j \in Ids : lev[j] \in Nat
  BY <1>2, Typed DEF Layers
<1>4. work[t].l > lev[work[t].node]
  BY <1>1, <1>2, <1>3 DEF AtOwnLevel
<1>5. S \in SUBSET Ids /\ S # {}
  BY <1>2, Typed
<1>6. best \in S
  <2>1. GraphOK
    BY DEF InsertInv, TypesOK
  <2>. HIDE DEF S
  <2>. QED BY <1>2, <1>5, <2>1, ClosestIn
<1>7. best \in Ids /\ lev[best] >= work[t].l /\ lev[best] > lev[work[t].node]
  <2>1. CASE best = work[t].obj
    BY <1>2, <2>1
  <2>2. CASE best \in links[work[t].l][work[t].obj]
    <3>1. best \in Ids /\ lev[best] >= work[t].l
      BY <1>2, <1>5, <1>6, <2>2, Typed DEF InsertInv, ListsOnLayer
    <3>. QED BY <1>3, <1>4, <3>1
  <2>. QED BY <1>6, <2>1, <2>2
<1>8. /\ work' = [work EXCEPT ![t] = w]
      /\ UNCHANGED <<next, label, lev, father, links, enter, top, global, proj>>
  BY DEF Descend, Become, graph
<1>9. work[t].l - 1 \in Layers
  BY <1>3, <1>4 DEF Layers
<1>. HIDE DEF best, S
<1>10. /\ lower \in Works /\ lower.at = work[t].at /\ lower.node = work[t].node
       /\ lower.cap = work[t].cap /\ lower.l = work[t].l - 1 /\ lower.obj = work[t].obj
       /\ nearer \in Works /\ nearer.at = work[t].at /\ nearer.node = work[t].node
       /\ nearer.cap = work[t].cap /\ nearer.l = work[t].l /\ nearer.obj = best
  BY <1>7, <1>9, Typed DEF Works
<1>. HIDE DEF lower, nearer
<1>11. /\ w \in Works /\ w.at = "descend" /\ w.node = work[t].node /\ w.cap = work[t].cap
       /\ w.obj \in Ids /\ lev[w.obj] >= w.l /\ lev[w.obj] > lev[w.node]
       /\ lev[w.node] <= w.l /\ w.l <= w.cap
  BY <1>1, <1>2, <1>3, <1>4, <1>7, <1>10 DEF At
<1>. HIDE DEF w
<1>12. CapsOK'
  BY <1>1, <1>8, <1>11, CapsKept
<1>13. \A m \in Layers : Blank(t, m)
  BY <1>1 DEF Blank, At
<1>14. FathersHigher'
  <2>1. Ids' = Ids
    BY <1>8 DEF Ids
  <2>. QED BY <1>8, <2>1 DEF InsertInv, FathersHigher
<1>15. global' \in Threads \cup {None} /\ father' \in [Ids -> Ids]
  BY <1>8, Typed
<1>. QED BY <1>1, <1>8, <1>11, <1>12, <1>13, <1>14, <1>15, Quiet

\* The father found by the descent is on a higher layer.
LEMMA AdoptInv ==
    ASSUME InsertInv, NEW t \in Threads, Adopt(t)
    PROVE  InsertInv'
<1>. DEFINE w == [work[t] EXCEPT !.at = "search", !.found = {work[t].obj}, !.seen = {work[t].obj},
                                 !.open = {work[t].obj}]
<1>1. At(t, "descend") /\ AtOwnLevel(t) /\ Busy(t) /\ ~ At(t, "look")
  BY DEF Adopt, At, Busy
<1>2. /\ work[t].obj \in Ids /\ lev[work[t].obj] >= work[t].l
      /\ lev[work[t].obj] > lev[work[t].node]
      /\ work[t].l = lev[work[t].node] /\ work[t].l <= work[t].cap
      /\ work[t].node \in Ids
  BY <1>1 DEF InsertInv, DescentsOK, NodesOK, AtOwnLevel
<1>3. \A j \in Ids : lev[j] \in Nat
  BY Typed
<1>4. work[t].obj # work[t].node
  BY <1>2, <1>3
<1>5. /\ work' = [work EXCEPT ![t] = w]
      /\ father' = [father EXCEPT ![work[t].node] = work[t].obj]
      /\ UNCHANGED <<next, label, lev, links, enter, top, global, proj>>
  BY DEF Adopt, Become
<1>6. /\ w \in Works /\ w.at = "search" /\ w.node = work[t].node /\ w.cap = work[t].cap
      /\ w.l = work[t].l /\ w.found = {work[t].obj} /\ w.open = {work[t].obj}
  BY <1>2, Typed DEF Works, Stages
<1>. HIDE DEF w
<1>7. CapsOK'
  BY <1>1, <1>5, <1>6, CapsKept
<1>8. \A m \in Layers : Blank(t, m)
  BY <1>1 DEF Blank, At
<1>9. FathersHigher'
  <2>1. Ids' = Ids
    BY <1>5 DEF Ids
  <2>2. father \in [Ids -> Ids] /\ FathersHigher
    BY Typed DEF InsertInv
  <2>. SUFFICES ASSUME NEW i \in Ids, father'[i] # i PROVE lev[father'[i]] > lev[i]
    BY <1>5, <2>1 DEF FathersHigher
  <2>3. CASE i = work[t].node
    BY <1>2, <1>5, <2>2, <2>3
  <2>4. CASE i # work[t].node
    BY <1>5, <2>2, <2>4 DEF FathersHigher
  <2>. QED BY <2>3, <2>4
<1>10. global' \in Threads \cup {None} /\ father' \in [Ids -> Ids]
  BY <1>2, <1>5, Typed
<1>11. /\ w.l <= lev[w.node] /\ w.l <= w.cap /\ w.found # {} /\ w.node \notin w.found
       /\ \A j \in w.found : lev[j] >= w.l
       /\ \A j \in w.found \ w.open : Settled(j)
  BY <1>2, <1>3, <1>4, <1>6
<1>. QED BY <1>1, <1>5, <1>6, <1>7, <1>8, <1>9, <1>10, <1>11, Quiet

\* A search takes the list of a point nobody inserts.
LEMMA SearchInv ==
    ASSUME InsertInv, NEW t \in Threads, Search(t)
    PROVE  InsertInv'
<1>. DEFINE u == Closest(work[t].node, work[t].open)
            met == links[work[t].l][u] \ work[t].seen
<1>1. At(t, "search") /\ Busy(t) /\ ~ At(t, "look") /\ work[t].open # {}
  BY DEF Search, At, Busy
<1>2. /\ work[t].l <= lev[work[t].node] /\ work[t].l <= work[t].cap
      /\ work[t].found # {} /\ work[t].node \notin work[t].found
      /\ \A j \in work[t].found : lev[j] >= work[t].l
      /\ \A j \in work[t].found \ work[t].open : Settled(j)
      /\ work[t].node \in Ids /\ work[t].found \in SUBSET Ids /\ work[t].open \in SUBSET Ids
  BY <1>1, Typed DEF InsertInv, SearchesOK, NodesOK, At
<1>3. u \in work[t].open /\ u \in Ids
  <2>1. GraphOK
    BY DEF InsertInv, TypesOK
  <2>. QED BY <1>1, <1>2, <2>1, ClosestIn
<1>4. PICK kept \in Nearest(work[t].node, work[t].found \cup met), taken \in SUBSET met :
        /\ met \cap kept \subseteq taken
        /\ work' = [work EXCEPT ![t] = [work[t] EXCEPT
                       !.found = kept, !.seen = work[t].seen \cup met,
                       !.open = InReach(work[t].node, (work[t].open \ {u}) \cup taken, kept)]]
  <2>1. work[t] \in Works
    BY Typed
  <2>. QED BY <2>1 DEF Search, Become, Works
<1>5. /\ ~ Locked(u)
      /\ UNCHANGED <<next, label, lev, father, links, enter, top, global, proj>>
  BY DEF Search, graph
<1>. DEFINE open == InReach(work[t].node, (work[t].open \ {u}) \cup taken, kept)
            w == [work[t] EXCEPT !.found = kept, !.seen = work[t].seen \cup met, !.open = open]
<1>6. Settled(u)
  BY <1>5 DEF Settled, Locked
<1>. HIDE DEF u
<1>7. met \in SUBSET Ids /\ \A j \in met : lev[j] >= work[t].l
  BY <1>3, Typed DEF InsertInv, ListsOnLayer
<1>8. work[t].node \notin met
  <2>1. work[t].l \in Layers /\ Blank(t, work[t].l)
    BY <1>1, Typed DEF Blank
  <2>. QED BY <1>1, <1>3, <2>1 DEF InsertInv, BlanksOK
<1>. HIDE DEF met
<1>9. kept \subseteq work[t].found \cup met /\ kept # {}
  <2>1. GraphOK /\ work[t].found \cup met \in SUBSET Ids /\ work[t].found \cup met # {}
    BY <1>2, <1>7 DEF InsertInv, TypesOK
  <2>. QED BY <1>4, <2>1, NearestIn
<1>10. kept \in SUBSET Ids /\ open \in SUBSET Ids
  BY <1>2, <1>4, <1>7, <1>9 DEF InReach
<1>11. \A j \in kept \ open : Settled(j)
  <2>. SUFFICES ASSUME NEW j \in kept, j \notin open PROVE Settled(j)
    OBVIOUS
  <2>1. D(work[t].node, j) \in Nat
    <3>1. GraphOK
      BY DEF InsertInv, TypesOK
    <3>. QED BY <1>2, <1>10, <3>1, FiniteIds
  <2>2. j \notin (work[t].open \ {u}) \cup taken
    BY <2>1 DEF InReach
  <2>3. j \in work[t].found /\ (j \notin work[t].open \/ j = u)
    BY <1>4, <1>9, <2>2
  <2>. QED BY <1>2, <1>6, <2>3
<1>. HIDE DEF open
<1>12. /\ w \in Works /\ w.at = work[t].at /\ w.node = work[t].node /\ w.cap = work[t].cap
       /\ w.l = work[t].l /\ w.found = kept /\ w.open = open
  BY <1>7, <1>10, Typed DEF Works
<1>13. work' = [work EXCEPT ![t] = w]
  BY <1>4 DEF open
<1>. HIDE DEF w
<1>14. w.at = "search"
  BY <1>1, <1>12 DEF At
<1>15. CapsOK'
  BY <1>1, <1>5, <1>12, <1>13, <1>14, CapsKept
<1>16. \A m \in Layers : Blank(t, m)' => Blank(t, m)
  <2>1. work'[t] = w
    BY <1>13, Typed
  <2>. QED BY <1>1, <1>12, <1>14, <2>1 DEF Blank, At
<1>17. FathersHigher'
  <2>1. Ids' = Ids
    BY <1>5 DEF Ids
  <2>. QED BY <1>5, <2>1 DEF InsertInv, FathersHigher
<1>18. global' \in Threads \cup {None} /\ father' \in [Ids -> Ids]
  BY <1>5, Typed
<1>19. /\ w.l <= lev[w.node] /\ w.l <= w.cap /\ w.found # {} /\ w.node \notin w.found
       /\ \A j \in w.found : lev[j] >= w.l
       /\ \A j \in w.found \ w.open : Settled(j)
  BY <1>2, <1>7, <1>8, <1>9, <1>11, <1>12
<1>. QED BY <1>1, <1>5, <1>12, <1>13, <1>14, <1>15, <1>16, <1>17, <1>18, <1>19, Quiet

\* The next layer starts at a point of the layer above.
LEMMA NextLayerInv ==
    ASSUME InsertInv, NEW t \in Threads, NextLayer(t)
    PROVE  InsertInv'
<1>. DEFINE obj == Closest(work[t].node, work[t].found)
            w == [work[t] EXCEPT !.at = "search", !.l = work[t].l - 1, !.obj = obj,
                                 !.found = {obj}, !.seen = {obj}, !.open = {obj}]
<1>1. At(t, "link") /\ Busy(t) /\ ~ At(t, "look") /\ work[t].l > 0
  BY DEF NextLayer, At, Busy
<1>2. /\ work[t].l <= lev[work[t].node] /\ work[t].l <= work[t].cap
      /\ work[t].found # {} /\ work[t].node \notin work[t].found
      /\ \A j \in work[t].found : lev[j] >= work[t].l
      /\ work[t].node \in Ids
  BY <1>1 DEF InsertInv, SearchesOK, NodesOK, At
<1>3. obj \in work[t].found /\ obj \in Ids
  <2>1. GraphOK /\ work[t].found \in SUBSET Ids
    BY Typed DEF InsertInv, TypesOK
  <2>. QED BY <1>2, <2>1, ClosestIn
<1>4. /\ work' = [work EXCEPT ![t] = w]
      /\ UNCHANGED <<next, label, lev, father, links, enter, top, global, proj>>
  BY DEF NextLayer, Become, graph
<1>. HIDE DEF obj
<1>5. work[t].l \in Nat /\ work[t].cap \in Nat /\ work[t].l - 1 \in Layers
      /\ \A j \in Ids : lev[j] \in Nat
  <2>1. work[t].l \in 0 .. TopDraw /\ TopDraw \in Nat
    BY Typed DEF Layers
  <2>. QED BY <1>1, <2>1, Typed DEF Layers
<1>6. /\ w \in Works /\ w.at = "search" /\ w.node = work[t].node /\ w.cap = work[t].cap
      /\ w.l = work[t].l - 1 /\ w.found = {obj} /\ w.open = {obj}
  BY <1>3, <1>5, Typed DEF Works, Stages
<1>. HIDE DEF w
<1>7. CapsOK'
  BY <1>1, <1>4, <1>6, CapsKept
<1>8. \A m \in Layers : Blank(t, m)' => Blank(t, m)
  <2>. SUFFICES ASSUME NEW m \in Layers, Blank(t, m)' PROVE Blank(t, m)
    OBVIOUS
  <2>1. work'[t] = w /\ m \in Nat
    BY <1>4, Typed
  <2>2. ~ (work[t].l - 1 < m /\ m <= work[t].cap)
    BY <1>6, <2>1 DEF Blank, At
  <2>3. ~ (work[t].l <= m /\ m <= work[t].cap)
    BY <1>5, <2>1, <2>2
  <2>. QED BY <1>1, <2>3 DEF Blank
<1>9. FathersHigher'
  <2>1. Ids' = Ids
    BY <1>4 DEF Ids
  <2>. QED BY <1>4, <2>1 DEF InsertInv, FathersHigher
<1>10. global' \in Threads \cup {None} /\ father' \in [Ids -> Ids]
  BY <1>4, Typed
<1>11. /\ w.l <= lev[w.node] /\ w.l <= w.cap /\ w.found # {} /\ w.node \notin w.found
       /\ \A j \in w.found : lev[j] >= w.l
       /\ \A j \in w.found \ w.open : Settled(j)
  BY <1>2, <1>3, <1>5, <1>6
<1>. QED BY <1>1, <1>4, <1>6, <1>7, <1>8, <1>9, <1>10, <1>11, Quiet

\* What a finished search has found is finished, and may fill the list.
LEMMA ChooseInv ==
    ASSUME InsertInv, NEW t \in Threads, Choose(t)
    PROVE  InsertInv'
<1>. DEFINE i == work[t].node
            l == work[t].l
            F == work[t].found
<1>1. At(t, "search") /\ Busy(t) /\ ~ At(t, "look") /\ work[t].open = {}
  BY DEF Choose, At, Busy
<1>2. /\ l <= lev[i] /\ l <= work[t].cap /\ F # {} /\ i \notin F
      /\ \A j \in F : lev[j] >= l
      /\ \A j \in F : Settled(j)
      /\ i \in Ids
  BY <1>1 DEF InsertInv, SearchesOK, NodesOK, At
<1>3. /\ l \in Layers /\ F \in SUBSET Ids /\ links \in [Layers -> [Ids -> SUBSET Ids]]
      /\ father \in [Ids -> Ids] /\ work \in [Threads -> Works] /\ global \in Threads \cup {None}
  BY Typed
<1>4. PICK R \in Selected(i, F, MaxM) :
        /\ work' = [work EXCEPT ![t] = [work[t] EXCEPT !.at = "link", !.found = R, !.seen = {},
                                                      !.todo = R]]
        /\ links' = [links EXCEPT ![l][i] = R]
        /\ father' = Refined(i, l, R)
  BY DEF Choose, Become
<1>15. UNCHANGED <<next, label, lev, enter, top, global, proj>>
  BY DEF Choose
<1>. DEFINE w == [work[t] EXCEPT !.at = "link", !.found = R, !.seen = {}, !.todo = R]
<1>16. R \subseteq F /\ R # {} /\ Cardinality(R) <= MaxM
  <2>1. GraphOK
    BY DEF InsertInv, TypesOK
  <2>2. MaxM \in Nat /\ MaxM > 0
    BY InsertAssumption
  <2>. HIDE DEF i, F
  <2>. QED BY <1>2, <1>3, <1>4, <2>1, <2>2, SelectedIn
<1>5. /\ w \in Works /\ w.at = "link" /\ w.node = i /\ w.cap = work[t].cap
      /\ w.l = l /\ w.found = R /\ w.open = {} /\ w.todo = R
  <2>1. work[t] \in Works
    BY <1>3
  <2>. QED BY <1>1, <1>3, <1>16, <2>1 DEF Works, Stages
<1>17. work' = [work EXCEPT ![t] = w]
  BY <1>4
<1>. HIDE DEF w
<1>6. CapsOK'
  BY <1>1, <1>5, <1>15, <1>17, CapsKept
<1>7. Ids' = Ids /\ work'[t] = w /\ \A s \in Threads \ {t} : work'[s] = work[s]
  BY <1>3, <1>15, <1>17 DEF Ids
<1>8. /\ links' \in [Layers -> [Ids -> SUBSET Ids]] /\ links'[l][i] = R
      /\ \A m \in Layers, j \in Ids : <<m, j>> # <<l, i>> => links'[m][j] = links[m][j]
  <2>. HIDE DEF l, i, F
  <2>. QED BY <1>2, <1>3, <1>4, <1>16
<1>9. ListsOnLayer'
  <2>. SUFFICES ASSUME NEW m \in Layers, NEW k \in Ids, NEW j \in links'[m][k]
                PROVE  lev[k] >= m /\ lev[j] >= m /\ j # k
    BY <1>7, <1>15 DEF ListsOnLayer
  <2>1. CASE <<m, k>> = <<l, i>>
    BY <1>2, <1>8, <1>16, <2>1
  <2>2. CASE <<m, k>> # <<l, i>>
    BY <1>8, <2>2 DEF InsertInv, ListsOnLayer
  <2>. QED BY <2>1, <2>2
<1>10. BlanksOK'
  <2>. SUFFICES ASSUME NEW s \in Threads, NEW m \in Layers, Busy(s)', Blank(s, m)'
                PROVE  /\ links'[m][work'[s].node] = {}
                       /\ \A k \in Ids : work'[s].node \notin links'[m][k]
    BY <1>7 DEF BlanksOK
  <2>1. Blank(s, m) /\ Busy(s) /\ work'[s].node = work[s].node /\ ~ (s = t /\ m = l)
    <3>1. CASE s = t
      <4>1. ~ (l <= m /\ m <= work[t].cap)
        BY <1>5, <1>7, <3>1 DEF Blank, At
      <4>2. m \in Nat /\ l \in Nat /\ work[t].cap \in Nat
        BY Typed
      <4>3. ~ (l < m /\ m <= work[t].cap) /\ m # l
        BY <1>2, <4>1, <4>2
      <4>. QED BY <1>1, <1>5, <1>7, <3>1, <4>3 DEF Blank
    <3>2. CASE s # t
      BY <1>7, <3>2 DEF Blank, At, Busy
    <3>. QED BY <3>1, <3>2
  <2>2. work[s].node \in Ids /\ (s # t => work[s].node # i)
    BY <1>1, <2>1 DEF InsertInv, NodesOK
  <2>3. links[m][work[s].node] = {} /\ \A k \in Ids : work[s].node \notin links[m][k]
    BY <2>1 DEF InsertInv, BlanksOK
  <2>4. work[s].node \notin R
    <3>1. CASE s = t
      BY <1>2, <1>16, <3>1
    <3>2. CASE s # t
      BY <1>2, <1>16, <2>1 DEF Settled
    <3>. QED BY <3>1, <3>2
  <2>5. links'[m][work[s].node] = {}
    BY <1>8, <2>1, <2>2, <2>3
  <2>6. ASSUME NEW k \in Ids PROVE work[s].node \notin links'[m][k]
    BY <1>8, <2>3, <2>4
  <2>. QED BY <2>1, <2>5, <2>6
<1>12. FathersHigher' /\ father' \in [Ids -> Ids]
  <2>1. R \in SUBSET Ids
    BY <1>3, <1>16
  <2>. HIDE DEF i, l, F
  <2>. QED BY <1>2, <1>4, <1>7, <1>15, <2>1, RefinedFather DEF FathersHigher
<1>13. /\ w.l <= lev[w.node] /\ w.l <= w.cap /\ w.found # {} /\ w.node \notin w.found
       /\ \A j \in w.found : lev[j] >= w.l
       /\ \A j \in w.found \ w.open : Settled(j)
       /\ w.open = {} /\ w.todo \subseteq w.found /\ Cardinality(w.found) <= MaxM
  BY <1>2, <1>5, <1>16
<1>14. global' \in Threads \cup {None} /\ UNCHANGED <<next, label, lev, enter, top>>
       /\ w.node = work[t].node
  BY <1>3, <1>5, <1>15
<1>18. SizesOK'
  <2>1. GraphOK /\ l \in Layers
    BY <1>3 DEF InsertInv, TypesOK
  <2>2. Most(l) \in Nat /\ Most(l) >= MaxM /\ MaxM \in Nat
    BY <2>1, FiniteIds
  <2>3. Cardinality(R) \in Nat
    BY <1>3, <1>16, <2>1, FiniteIds
  <2>. SUFFICES ASSUME NEW m \in Layers, NEW k \in Ids
                PROVE  Cardinality(links'[m][k]) <= Most(m)
    BY <1>7 DEF SizesOK
  <2>4. CASE <<m, k>> = <<l, i>>
    BY <1>8, <1>16, <2>2, <2>3, <2>4
  <2>5. CASE <<m, k>> # <<l, i>>
    BY <1>8, <2>5 DEF InsertInv, SizesOK
  <2>. QED BY <2>4, <2>5
<1>19. PendingOK'
  <2>. SUFFICES ASSUME NEW s \in Threads, At(s, "link")', NEW e \in work'[s].todo
                PROVE  work'[s].node \notin links'[work'[s].l][e]
    BY DEF PendingOK
  <2>1. CASE s = t
    <3>1. work'[s].node = i /\ work'[s].l = l /\ e \in R
      BY <1>5, <1>7, <2>1
    <3>2. Blank(t, l)
      <4>1. l \in Nat
        BY Typed
      <4>. QED BY <1>1, <4>1 DEF Blank
    <3>3. i \notin links[l][e] /\ e # i
      BY <1>1, <1>2, <1>3, <1>16, <3>1, <3>2 DEF InsertInv, BlanksOK
    <3>. QED BY <1>3, <1>8, <1>16, <3>1, <3>3
  <2>2. CASE s # t
    <3>1. work'[s] = work[s] /\ At(s, "link") /\ Busy(s)
      BY <1>7, <2>2 DEF At, Busy
    <3>2. work[s].node \notin links[work[s].l][e] /\ work[s].l \in Layers /\ e \in Ids
      BY <3>1, Typed DEF InsertInv, PendingOK
    <3>3. work[s].node \notin R
      BY <1>2, <1>16, <3>1 DEF Settled
    <3>. QED BY <1>8, <3>1, <3>2, <3>3
  <2>. QED BY <2>1, <2>2
<1>. HIDE DEF i, l, F, w
<1>. QED BY <1>1, <1>5, <1>6, <1>8, <1>9, <1>10, <1>12, <1>13, <1>14, <1>15, <1>17, <1>18, <1>19, Moves

\* What a neighbour's list becomes: the new point joins it, or a selection from
\* both takes its place.
LEMMA LinkGives ==
    ASSUME InsertInv, NEW t \in Threads, Link(t)
    PROVE  \E e \in work[t].todo, N \in SUBSET Ids :
               /\ ~ Locked(e)
               /\ N \subseteq links[work[t].l][e] \cup {work[t].node}
               /\ Cardinality(N) <= Most(work[t].l)
               /\ Cardinality(links[work[t].l][e]) < Most(work[t].l)
                     => N = links[work[t].l][e] \cup {work[t].node}
               /\ links' = [links EXCEPT ![work[t].l][e] = N]
               /\ father' = father \/ father' = Refined(e, work[t].l, N)
               /\ work' = [work EXCEPT ![t] = [work[t] EXCEPT !.todo = work[t].todo \ {e}]]
<1>. DEFINE i == work[t].node
            l == work[t].l
<1>0. /\ GraphOK /\ l \in Layers /\ i \in Ids /\ work[t].todo \subseteq Ids
      /\ links \in [Layers -> [Ids -> SUBSET Ids]] /\ work[t] \in Works
  <2>1. At(t, "link")
    BY DEF Link
  <2>. QED BY <2>1, Typed DEF InsertInv, TypesOK, NodesOK, Busy, At
<1>1. PICK e \in work[t].todo :
        /\ ~ Locked(e)
        /\ \/ /\ Cardinality(links[l][e]) < Most(l)
              /\ links' = [links EXCEPT ![l][e] = links[l][e] \cup {i}]
              /\ father' = father
           \/ /\ Cardinality(links[l][e]) >= Most(l)
              /\ \E again \in Selected(e, links[l][e] \cup {i}, Most(l)) :
                    /\ links' = [links EXCEPT ![l][e] = again]
                    /\ father' = Refined(e, l, again)
        /\ Become(t, [work[t] EXCEPT !.todo = @ \ {e}])
  BY DEF Link
<1>. DEFINE S == links[l][e] \cup {i}
<1>2. /\ e \in Ids /\ S \in SUBSET Ids /\ S # {} /\ Most(l) \in Nat /\ Most(l) > 0
      /\ Cardinality(links[l][e]) \in Nat /\ IsFiniteSet(links[l][e])
  <2>1. e \in Ids /\ links[l][e] \in SUBSET Ids
    BY <1>0
  <2>. QED BY <1>0, <2>1, FiniteIds
<1>3. work' = [work EXCEPT ![t] = [work[t] EXCEPT !.todo = work[t].todo \ {e}]]
  BY <1>0, <1>1 DEF Become, Works
<1>. HIDE DEF i, l, S
<1>4. CASE Cardinality(links[l][e]) < Most(l)
  <2>1. Cardinality(S) <= Most(l)
    <3>1. Cardinality(links[l][e] \cup {i}) <= Cardinality(links[l][e]) + 1
          /\ Cardinality(links[l][e] \cup {i}) \in Nat
      BY <1>2, FS_AddElement, FS_CardinalityType
    <3>. QED BY <1>2, <1>4, <3>1 DEF S
  <2>2. links' = [links EXCEPT ![l][e] = S] /\ father' = father /\ ~ Locked(e)
    BY <1>1, <1>2, <1>4 DEF S
  <2>3. S \subseteq links[l][e] \cup {i} /\ S = links[l][e] \cup {i}
    BY DEF S
  <2>. QED BY <1>2, <1>3, <2>1, <2>2, <2>3 DEF i, l
<1>5. CASE Cardinality(links[l][e]) >= Most(l)
  <2>0. ~ (Cardinality(links[l][e]) < Most(l)) /\ ~ Locked(e)
    BY <1>1, <1>2, <1>5
  <2>1. PICK N \in Selected(e, S, Most(l)) :
           links' = [links EXCEPT ![l][e] = N] /\ father' = Refined(e, l, N)
    BY <1>1, <2>0 DEF S
  <2>2. N \subseteq S /\ Cardinality(N) <= Most(l)
    BY <1>0, <1>2, <2>1, SelectedIn
  <2>3. N \in SUBSET Ids /\ N \subseteq links[l][e] \cup {i}
    BY <1>2, <2>2 DEF S
  <2>. QED BY <1>3, <2>0, <2>1, <2>2, <2>3 DEF i, l
<1>6. Cardinality(links[l][e]) < Most(l) \/ Cardinality(links[l][e]) >= Most(l)
  BY <1>2
<1>. QED BY <1>4, <1>5, <1>6

\* A list changes only while nobody inserts its point.
LEMMA LinkInv ==
    ASSUME InsertInv, NEW t \in Threads, Link(t)
    PROVE  InsertInv'
<1>. DEFINE i == work[t].node
            l == work[t].l
<1>1. At(t, "link") /\ Busy(t) /\ ~ At(t, "look")
  BY DEF Link, At, Busy
<1>2. PICK e \in work[t].todo, N \in SUBSET Ids :
          /\ ~ Locked(e)
          /\ N \subseteq links[l][e] \cup {i} /\ Cardinality(N) <= Most(l)
          /\ links' = [links EXCEPT ![l][e] = N]
          /\ father' = father \/ father' = Refined(e, l, N)
          /\ work' = [work EXCEPT ![t] = [work[t] EXCEPT !.todo = work[t].todo \ {e}]]
  BY LinkGives
<1>. DEFINE w == [work[t] EXCEPT !.todo = work[t].todo \ {e}]
<1>3. /\ l <= lev[i] /\ l <= work[t].cap /\ work[t].found # {} /\ i \notin work[t].found
      /\ \A j \in work[t].found : lev[j] >= l
      /\ \A j \in work[t].found : Settled(j)
      /\ work[t].open = {} /\ work[t].todo \subseteq work[t].found
      /\ Cardinality(work[t].found) <= MaxM
      /\ i \in Ids
  BY <1>1 DEF InsertInv, SearchesOK, NodesOK, At
<1>4. /\ l \in Layers /\ work[t].todo \in SUBSET Ids /\ links \in [Layers -> [Ids -> SUBSET Ids]]
      /\ father \in [Ids -> Ids] /\ work \in [Threads -> Works] /\ global \in Threads \cup {None}
  BY Typed
<1>5. /\ work' = [work EXCEPT ![t] = w]
      /\ UNCHANGED <<next, label, lev, enter, top, global, proj>>
  BY <1>2 DEF Link
<1>6. /\ w.todo = work[t].todo \ {e}
      /\ w \in Works /\ w.at = "link" /\ w.node = i /\ w.cap = work[t].cap
      /\ w.l = l /\ w.found = work[t].found /\ w.open = {} /\ w.todo \subseteq w.found
  <2>1. work[t] \in Works
    BY <1>4
  <2>. QED BY <1>1, <1>3, <1>4, <2>1 DEF Works, Stages, At
<1>. HIDE DEF w
<1>7. CapsOK'
  BY <1>1, <1>5, <1>6, CapsKept
<1>8. Ids' = Ids /\ work'[t] = w /\ \A s \in Threads \ {t} : work'[s] = work[s]
  BY <1>4, <1>5 DEF Ids
<1>9. /\ links' \in [Layers -> [Ids -> SUBSET Ids]] /\ links'[l][e] = N
      /\ \A m \in Layers, j \in Ids : <<m, j>> # <<l, e>> => links'[m][j] = links[m][j]
      /\ e \in Ids /\ e \in work[t].found
  <2>1. e \in Ids /\ e \in work[t].found
    BY <1>3, <1>4
  <2>. HIDE DEF l, i
  <2>. QED BY <1>2, <1>3, <1>4, <2>1
<1>10. ListsOnLayer'
  <2>. SUFFICES ASSUME NEW m \in Layers, NEW k \in Ids, NEW j \in links'[m][k]
                PROVE  lev[k] >= m /\ lev[j] >= m /\ j # k
    BY <1>5, <1>8 DEF ListsOnLayer
  <2>1. CASE <<m, k>> = <<l, e>> /\ j = i
    <3>1. i # e
      BY <1>3, <1>9
    <3>. QED BY <1>3, <1>9, <2>1, <3>1
  <2>2. CASE <<m, k>> # <<l, e>> \/ j # i
    <3>1. j \in links[m][k]
      BY <1>2, <1>9, <2>2
    <3>. QED BY <3>1 DEF InsertInv, ListsOnLayer
  <2>. QED BY <2>1, <2>2
<1>11. BlanksOK'
  <2>. SUFFICES ASSUME NEW s \in Threads, NEW m \in Layers, Busy(s)', Blank(s, m)'
                PROVE  /\ links'[m][work'[s].node] = {}
                       /\ \A k \in Ids : work'[s].node \notin links'[m][k]
    BY <1>8 DEF BlanksOK
  <2>1. Blank(s, m) /\ Busy(s) /\ work'[s].node = work[s].node /\ ~ (s = t /\ m = l)
    <3>1. CASE s = t
      <4>1. ~ (l <= m /\ m <= work[t].cap)
        BY <1>6, <1>8, <3>1 DEF Blank, At
      <4>2. m \in Nat /\ l \in Nat /\ work[t].cap \in Nat
        BY Typed
      <4>3. m # l
        BY <1>3, <4>1, <4>2
      <4>. QED BY <1>1, <1>6, <1>8, <3>1, <4>1, <4>3 DEF Blank
    <3>2. CASE s # t
      BY <1>8, <3>2 DEF Blank, At, Busy
    <3>. QED BY <3>1, <3>2
  <2>2. work[s].node \in Ids /\ (s # t => work[s].node # i)
    BY <1>1, <2>1 DEF InsertInv, NodesOK
  <2>3. links[m][work[s].node] = {} /\ \A k \in Ids : work[s].node \notin links[m][k]
    BY <2>1 DEF InsertInv, BlanksOK
  <2>4. work[s].node # e
    BY <1>2 DEF Locked
  <2>5. links'[m][work[s].node] = {}
    BY <1>9, <2>2, <2>3, <2>4
  <2>6. ASSUME NEW k \in Ids PROVE work[s].node \notin links'[m][k]
    <3>1. CASE <<m, k>> # <<l, e>>
      BY <1>9, <2>3, <3>1
    <3>2. CASE m = l /\ k = e
      BY <1>2, <1>9, <2>1, <2>2, <2>3, <3>2
    <3>. QED BY <3>1, <3>2
  <2>. QED BY <2>1, <2>5, <2>6
<1>12. FathersHigher' /\ father' \in [Ids -> Ids]
  <2>1. CASE father' = father
    BY <1>4, <1>5, <1>8, <2>1 DEF InsertInv, FathersHigher
  <2>2. CASE father' = Refined(e, l, N)
    <3>. HIDE DEF i, l
    <3>. QED BY <1>5, <1>8, <1>9, <2>2, RefinedFather DEF FathersHigher
  <2>. QED BY <1>2, <2>1, <2>2
<1>15. SizesOK'
  <2>. SUFFICES ASSUME NEW m \in Layers, NEW k \in Ids
                PROVE  Cardinality(links'[m][k]) <= Most(m)
    BY <1>8 DEF SizesOK
  <2>1. CASE <<m, k>> = <<l, e>>
    BY <1>2, <1>9, <2>1
  <2>2. CASE <<m, k>> # <<l, e>>
    BY <1>9, <2>2 DEF InsertInv, SizesOK
  <2>. QED BY <2>1, <2>2
<1>16. PendingOK'
  <2>. SUFFICES ASSUME NEW s \in Threads, At(s, "link")', NEW d \in work'[s].todo
                PROVE  work'[s].node \notin links'[work'[s].l][d]
    BY DEF PendingOK
  <2>1. CASE s = t
    <3>1. work'[s].node = i /\ work'[s].l = l /\ d \in work[t].todo /\ d # e /\ d \in Ids
      BY <1>2, <1>4, <1>6, <1>8, <2>1
    <3>2. i \notin links[l][d]
      BY <1>1, <3>1 DEF InsertInv, PendingOK
    <3>. QED BY <1>4, <1>9, <3>1, <3>2
  <2>2. CASE s # t
    <3>1. work'[s] = work[s] /\ At(s, "link") /\ Busy(s)
      BY <1>8, <2>2 DEF At, Busy
    <3>2. work[s].node \notin links[work[s].l][d] /\ work[s].l \in Layers /\ d \in Ids
      BY <3>1, Typed DEF InsertInv, PendingOK
    <3>3. work[s].node # i
      BY <1>1, <2>2, <3>1 DEF InsertInv, NodesOK
    <3>. QED BY <1>2, <1>9, <3>1, <3>2, <3>3
  <2>. QED BY <2>1, <2>2
<1>13. /\ w.l <= lev[w.node] /\ w.l <= w.cap /\ w.found # {} /\ w.node \notin w.found
       /\ \A j \in w.found : lev[j] >= w.l
       /\ \A j \in w.found \ w.open : Settled(j)
       /\ w.open = {} /\ w.todo \subseteq w.found /\ Cardinality(w.found) <= MaxM
  BY <1>3, <1>6
<1>14. global' \in Threads \cup {None} /\ UNCHANGED <<next, label, lev, enter, top>>
       /\ w.node = work[t].node
  BY <1>4, <1>5, <1>6
<1>. HIDE DEF i, l
<1>. QED BY <1>1, <1>5, <1>6, <1>7, <1>9, <1>10, <1>11, <1>12, <1>13, <1>14, <1>15, <1>16, Moves

\* A thread without a point is one with the idle record.
LEMMA IdleTyped ==
    ASSUME GraphOK
    PROVE  /\ Idle \in Works /\ Idle.at = "idle"
           /\ \A o \in Nat : /\ [Idle EXCEPT !.at = "add", !.obj = o] \in Works
                             /\ [Idle EXCEPT !.at = "add", !.obj = o].at = "add"
                             /\ [Idle EXCEPT !.at = "add", !.obj = o].obj = o
           /\ \A i \in Ids : /\ [Idle EXCEPT !.at = "look", !.node = i] \in Works
                             /\ [Idle EXCEPT !.at = "look", !.node = i].at = "look"
                             /\ [Idle EXCEPT !.at = "look", !.node = i].node = i
<1>1. 0 \in Layers
  BY DEF GraphOK, Layers
<1>. QED BY <1>1 DEF Idle, Works, Stages

\* The point that ends its insertion becomes the entry point only if it is the
\* highest, and gives the lock back.
LEMMA InsertedInv ==
    ASSUME InsertInv, NEW t \in Threads, Inserted(t)
    PROVE  InsertInv'
<1>. DEFINE i == work[t].node
<1>1. At(t, "link") /\ Busy(t) /\ ~ At(t, "look")
  BY DEF Inserted, At, Busy
<1>2. /\ work' = [work EXCEPT ![t] = Idle]
      /\ IF lev[i] > work[t].cap THEN enter' = i /\ top' = lev[i] ELSE enter' = enter /\ top' = top
      /\ global' = IF global = t THEN None ELSE global
      /\ UNCHANGED <<next, label, lev, father, links, proj>>
  BY DEF Inserted, Become, GivenBack
<1>3. /\ i \in Ids /\ i # enter /\ work[t].cap <= top /\ (lev[i] > work[t].cap => global = t)
      /\ global = t => work[t].cap = top
      /\ \A s \in Threads : Busy(s) /\ s # t => work[s].node # i
  BY <1>1 DEF InsertInv, NodesOK, CapsOK
<1>4. Ids' = Ids /\ work'[t] = Idle /\ \A s \in Threads \ {t} : work'[s] = work[s]
  BY <1>2, Typed DEF Ids
<1>5. GraphOK /\ Idle \in Works /\ Idle.at = "idle"
  <2>1. GraphOK
    BY DEF InsertInv, TypesOK
  <2>. QED BY <2>1, IdleTyped
<1>6. /\ ~ Busy(t)' /\ \A a : At(t, a)' => a = "idle"
      /\ \A s \in Threads : s # t => (Busy(s)' <=> Busy(s)) /\ \A a : At(s, a)' <=> At(s, a)
  BY <1>4, <1>5 DEF Busy, At
<1>7. /\ top \in Nat /\ top' \in Nat /\ lev[i] \in Nat /\ top <= top'
      /\ lev[i] <= top' /\ (global # t => top' = top)
      /\ \A j \in Ids : lev[j] \in Nat
  BY <1>2, <1>3, Typed
<1>8. TypesOK'
  <2>1. enter' \in Ids /\ top' = lev[enter']
    BY <1>2, <1>3, Typed
  <2>2. GraphOK'
    BY <1>2, <1>4, <1>5, <2>1 DEF GraphOK
  <2>3. Works' = Works /\ work' \in [Threads -> Works] /\ global' \in Threads \cup {None}
    BY <1>2, <1>4, <1>5, Typed DEF Works
  <2>. QED BY <2>2, <2>3 DEF TypesOK
<1>9. ListsOnLayer' /\ FathersHigher'
  BY <1>2, <1>4 DEF InsertInv, ListsOnLayer, FathersHigher
<1>10. LabelsOK'
  <2>1. LabelsOK
    BY DEF InsertInv
  <2>2. \A s \in Threads : (At(s, "add")' <=> At(s, "add")) /\ (At(s, "add") => work'[s] = work[s])
    BY <1>1, <1>4, <1>6 DEF At
  <2>. QED BY <1>2, <1>4, <2>1, <2>2 DEF LabelsOK
<1>11. NodesOK'
  <2>1. \A s \in Threads : Busy(s)' => s # t /\ Busy(s) /\ work'[s] = work[s]
    BY <1>4, <1>6
  <2>. QED BY <1>2, <1>3, <1>4, <2>1 DEF InsertInv, NodesOK
<1>12. CapsOK'
  <2>. SUFFICES ASSUME NEW s \in Threads
                PROVE  /\ Busy(s)' /\ ~ At(s, "look")' =>
                             work'[s].cap <= top' /\ (lev'[work'[s].node] > work'[s].cap => global' = s)
                       /\ global' = s => Busy(s)' /\ ~ At(s, "look")' /\ work'[s].cap = top'
    BY Zenon DEF CapsOK
  <2>1. CASE s = t
    <3>1. global' # t
      BY <1>2, InsertAssumption
    <3>. QED BY <1>6, <2>1, <3>1
  <2>2. CASE s # t
    <3>1. /\ work'[s] = work[s] /\ (Busy(s)' <=> Busy(s)) /\ (At(s, "look")' <=> At(s, "look"))
          /\ work[s].cap \in Nat
      BY <1>4, <1>6, <2>2, Typed
    <3>2. global' = s <=> global = s
      BY <1>2, <2>2, InsertAssumption
    <3>3. CapsOK
      BY DEF InsertInv
    <3>. QED BY <1>2, <1>7, <2>2, <3>1, <3>2, <3>3 DEF CapsOK
  <2>. QED BY <2>1, <2>2
<1>13. \A j : Settled(j) => Settled(j)'
  BY <1>4, <1>6 DEF Settled
<1>14. TopsOK'
  <2>. SUFFICES ASSUME NEW j \in Ids, Settled(j)' PROVE lev[j] <= top'
    BY <1>2, <1>4 DEF TopsOK
  <2>1. CASE j = i
    BY <1>7, <2>1
  <2>2. CASE j # i
    <3>1. Settled(j)
      BY <1>4, <1>6, <2>2 DEF Settled
    <3>. QED BY <1>7, <3>1 DEF InsertInv, TopsOK
  <2>. QED BY <2>1, <2>2
<1>15. DescentsOK'
  <2>1. \A s \in Threads : At(s, "descend")' => At(s, "descend") /\ work'[s] = work[s]
    BY <1>4, <1>6
  <2>. QED BY <1>2, <1>4, <2>1 DEF InsertInv, DescentsOK
<1>16. SearchesOK'
  <2>1. \A s \in Threads : work'[s].at \in {"search", "link"} =>
           /\ work[s].at \in {"search", "link"} /\ work'[s] = work[s]
           /\ At(s, "link")' <=> At(s, "link")
    BY <1>4, <1>5, <1>6
  <2>. QED BY <1>2, <1>4, <1>13, <2>1 DEF InsertInv, SearchesOK
<1>17. BlanksOK'
  <2>1. \A s \in Threads, m \in Layers : Busy(s)' /\ Blank(s, m)' =>
           Busy(s) /\ Blank(s, m) /\ work'[s] = work[s]
    BY <1>4, <1>6 DEF Blank, At
  <2>. QED BY <1>2, <1>4, <2>1 DEF InsertInv, BlanksOK
<1>18. SizesOK' /\ PendingOK'
  <2>1. \A s \in Threads : At(s, "link")' => At(s, "link") /\ work'[s] = work[s]
    BY <1>4, <1>6
  <2>. QED BY <1>2, <1>4, <2>1 DEF InsertInv, SizesOK, PendingOK
<1>. QED BY <1>8, <1>9, <1>10, <1>11, <1>12, <1>14, <1>15, <1>16, <1>17, <1>18 DEF InsertInv

\* Taking a point disturbs nobody.
LEMMA TakeInv ==
    ASSUME InsertInv, NEW t \in Threads, Take(t)
    PROVE  InsertInv'
<1>. DEFINE w == [Idle EXCEPT !.at = "add", !.obj = next]
<1>1. At(t, "idle") /\ ~ Busy(t) /\ next <= LastPoint
  BY DEF Take, At, Busy
<1>2. /\ work' = [work EXCEPT ![t] = w] /\ next' = next + 1
      /\ UNCHANGED <<label, lev, father, links, enter, top, global, proj>>
  BY DEF Take, Become, graph
<1>3. GraphOK /\ next \in Nat /\ next >= 1 /\ LastPoint \in Nat
  <2>1. GraphOK
    BY DEF InsertInv, TypesOK
  <2>2. next \in 1 .. LastPoint + 1 /\ LastPoint \in Nat
    BY <2>1, InsertAssumption DEF GraphOK
  <2>. QED BY <2>1, <2>2
<1>4. w \in Works /\ w.at = "add" /\ w.obj = next
  BY <1>3, IdleTyped
<1>. HIDE DEF w
<1>5. Ids' = Ids /\ work'[t] = w /\ \A s \in Threads \ {t} : work'[s] = work[s]
  BY <1>2, Typed DEF Ids
<1>6. /\ ~ Busy(t)' /\ \A a : At(t, a)' => a = "add"
      /\ \A s \in Threads : s # t => (Busy(s)' <=> Busy(s)) /\ \A a : At(s, a)' <=> At(s, a)
  BY <1>4, <1>5 DEF Busy, At
<1>7. \A j : Settled(j)' <=> Settled(j)
  BY <1>1, <1>5, <1>6 DEF Settled
<1>8. TypesOK'
  <2>1. next' \in 1 .. LastPoint + 1 /\ label \in [Ids -> 0 .. next' - 1]
    <3>1. label \in [Ids -> 0 .. next - 1]
      BY <1>3 DEF GraphOK
    <3>. QED BY <1>1, <1>2, <1>3, <3>1
  <2>2. GraphOK'
    BY <1>2, <1>3, <1>5, <2>1 DEF GraphOK
  <2>3. Works' = Works /\ work' \in [Threads -> Works] /\ global' \in Threads \cup {None}
    BY <1>2, <1>4, <1>5, Typed DEF Works
  <2>. QED BY <2>2, <2>3 DEF TypesOK
<1>9. ListsOnLayer' /\ FathersHigher' /\ TopsOK'
  BY <1>2, <1>5, <1>7 DEF InsertInv, ListsOnLayer, FathersHigher, TopsOK
<1>10. LabelsOK'
  <2>1. LabelsOK /\ label \in [Ids -> 0 .. next - 1]
    BY <1>3 DEF InsertInv, GraphOK
  <2>2. \A s \in Threads \ {t} : (At(s, "add")' <=> At(s, "add")) /\ work'[s] = work[s]
    BY <1>5, <1>6
  <2>3. At(t, "add")' /\ ~ At(t, "add") /\ work'[t].obj = next
    BY <1>1, <1>4, <1>5 DEF At
  <2>4. ASSUME NEW s \in Threads, At(s, "add")'
        PROVE  work'[s].obj \in 0 .. next' - 1 /\ \A i \in Ids : label[i] # work'[s].obj
    <3>1. CASE s = t
      BY <1>2, <1>3, <2>1, <2>3, <3>1
    <3>2. CASE s # t
      <4>1. work[s].obj \in 0 .. next - 1 /\ \A i \in Ids : label[i] # work[s].obj
        BY <2>1, <2>2, <2>4, <3>2 DEF LabelsOK
      <4>. QED BY <1>2, <1>3, <2>2, <3>2, <4>1
    <3>. QED BY <3>1, <3>2
  <2>5. ASSUME NEW r \in Threads, NEW s \in Threads, At(r, "add")', At(s, "add")',
               work'[r].obj = work'[s].obj
        PROVE  r = s
    <3>1. \A q \in Threads \ {t} : At(q, "add") => work[q].obj \in 0 .. next - 1
      BY <2>1 DEF LabelsOK
    <3>2. \A q \in Threads \ {t} : At(q, "add") => work[q].obj # next
      BY <1>3, <3>1
    <3>. QED BY <2>1, <2>2, <2>3, <2>5, <3>2 DEF LabelsOK
  <2>6. ASSUME NEW p \in 0 .. next' - 1
        PROVE  (\E i \in Ids : label[i] = p) \/ \E s \in Threads : At(s, "add")' /\ work'[s].obj = p
    <3>1. CASE p = next
      BY <2>3, <3>1
    <3>2. CASE p # next
      <4>1. p \in 0 .. next - 1
        BY <1>2, <1>3, <3>2
      <4>2. (\E i \in Ids : label[i] = p) \/ \E s \in Threads : At(s, "add") /\ work[s].obj = p
        BY <2>1, <4>1 DEF LabelsOK
      <4>. QED BY <2>2, <2>3, <4>2
    <3>. QED BY <3>1, <3>2
  <2>. QED BY <1>2, <1>5, <2>1, <2>4, <2>5, <2>6 DEF LabelsOK
<1>11. NodesOK' /\ CapsOK'
  <2>1. \A s \in Threads : Busy(s)' => s # t /\ Busy(s) /\ work'[s] = work[s]
    BY <1>5, <1>6
  <2>2. global # t
    BY <1>1 DEF InsertInv, CapsOK
  <2>3. \A s \in Threads : s # t => (At(s, "look")' <=> At(s, "look"))
    BY <1>6
  <2>. QED BY <1>2, <1>5, <1>6, <2>1, <2>2, <2>3 DEF InsertInv, NodesOK, CapsOK
<1>12. DescentsOK'
  <2>1. \A s \in Threads : At(s, "descend")' => At(s, "descend") /\ work'[s] = work[s]
    BY <1>5, <1>6
  <2>. QED BY <1>2, <1>5, <2>1 DEF InsertInv, DescentsOK
<1>13. SearchesOK'
  <2>1. \A s \in Threads : work'[s].at \in {"search", "link"} =>
           /\ work[s].at \in {"search", "link"} /\ work'[s] = work[s]
           /\ At(s, "link")' <=> At(s, "link")
    BY <1>4, <1>5, <1>6
  <2>. QED BY <1>2, <1>5, <1>7, <2>1 DEF InsertInv, SearchesOK
<1>14. BlanksOK'
  <2>1. \A s \in Threads, m \in Layers : Busy(s)' /\ Blank(s, m)' =>
           Busy(s) /\ Blank(s, m) /\ work'[s] = work[s]
    BY <1>5, <1>6 DEF Blank, At
  <2>. QED BY <1>2, <1>5, <2>1 DEF InsertInv, BlanksOK
<1>15. SizesOK' /\ PendingOK'
  <2>1. \A s \in Threads : At(s, "link")' => At(s, "link") /\ work'[s] = work[s]
    BY <1>5, <1>6
  <2>. QED BY <1>2, <1>5, <2>1 DEF InsertInv, SizesOK, PendingOK
<1>. QED BY <1>8, <1>9, <1>10, <1>11, <1>12, <1>13, <1>14, <1>15 DEF InsertInv

\* A point enters the tables under an internal id nobody has had, on no list,
\* locked by its thread.
LEMMA EnterInv ==
    ASSUME InsertInv, NEW t \in Threads, Enter(t)
    PROVE  InsertInv'
<1>0. PICK i : i = Cardinality(Ids)
  OBVIOUS
<1>. DEFINE o == work[t].obj
            w == [Idle EXCEPT !.at = "look", !.node = i]
            new == Ids \cup {i}
<1>1. At(t, "add") /\ ~ Busy(t)
  BY DEF Enter, At, Busy
<1>2. PICK d \in Draws[o] :
        /\ label' = [j \in new |-> IF j = i THEN o ELSE label[j]]
        /\ lev' = [j \in new |-> IF j = i THEN d ELSE lev[j]]
        /\ father' = [j \in new |-> IF j = i THEN i ELSE father[j]]
        /\ links' = [l \in DOMAIN links |-> [j \in new |-> IF j = i THEN {} ELSE links[l][j]]]
        /\ work' = [work EXCEPT ![t] = w]
        /\ UNCHANGED <<next, enter, top, global, proj>>
  BY <1>0 DEF Enter, Become
<1>3. GraphOK /\ LabelsOK /\ next \in 1 .. LastPoint + 1 /\ LastPoint \in Nat
  <2>1. GraphOK /\ LabelsOK
    BY DEF InsertInv, TypesOK
  <2>. QED BY <2>1, InsertAssumption DEF GraphOK
<1>4. /\ i \in Nat /\ i \notin Ids /\ \E k \in Nat : new = 0 .. k
  <2>1. PICK k \in Nat : Ids = 0 .. k
    BY <1>3 DEF GraphOK
  <2>2. i = k + 1
    BY <1>0, <2>1, FS_Interval
  <2>3. new = 0 .. k + 1 /\ k + 1 \in Nat
    BY <2>1, <2>2
  <2>. QED BY <2>1, <2>2, <2>3
<1>5. o \in 0 .. next - 1 /\ o \in Base /\ \A j \in Ids : label[j] # o
  <2>1. o \in 0 .. next - 1 /\ \A j \in Ids : label[j] # o
    BY <1>1, <1>3 DEF LabelsOK
  <2>. QED BY <1>3, <2>1 DEF Base
<1>6. d \in Layers
  BY <1>5, TopFact
<1>7. w \in [at : Stages, node : new \cup {None}, cap : Layers, l : Layers, obj : Nat \cup {None},
             found : SUBSET new, seen : SUBSET new, open : SUBSET new, todo : SUBSET new]
      /\ w.at = "look" /\ w.node = i
  <2>1. 0 \in Layers
    BY <1>3 DEF GraphOK, Layers
  <2>. QED BY <2>1 DEF Idle, Stages
<1>. HIDE DEF w
<1>8. Ids' = new
  BY <1>2 DEF Ids
<1>9. \A j \in Ids : j # i
  BY <1>4
<1>10. /\ label'[i] = o /\ lev'[i] = d /\ father'[i] = i
       /\ \A j \in Ids : label'[j] = label[j] /\ lev'[j] = lev[j] /\ father'[j] = father[j]
  BY <1>2, <1>9
<1>11. \A m \in Layers : links'[m][i] = {} /\ \A j \in Ids : links'[m][j] = links[m][j]
  BY <1>2, <1>9, Typed
<1>. HIDE DEF o
<1>12. work'[t] = w /\ \A s \in Threads \ {t} : work'[s] = work[s]
  BY <1>2, Typed
<1>13. /\ Busy(t)' /\ \A a : At(t, a)' => a = "look"
       /\ \A s \in Threads : s # t => (Busy(s)' <=> Busy(s)) /\ \A a : At(s, a)' <=> At(s, a)
  BY <1>7, <1>12 DEF Busy, At
<1>14. ~ Settled(i)' /\ \A j \in Ids : Settled(j)' <=> Settled(j)
  BY <1>1, <1>7, <1>9, <1>12, <1>13 DEF Settled
<1>15. global # t
  BY <1>1 DEF InsertInv, CapsOK
<1>16. TypesOK'
  <2>1. label' \in [new -> 0 .. next - 1] /\ lev' \in [new -> Layers] /\ father' \in [new -> new]
    <3>1. label \in [Ids -> 0 .. next - 1] /\ lev \in [Ids -> Layers] /\ father \in [Ids -> Ids]
      BY <1>3 DEF GraphOK
    <3>. QED BY <1>2, <1>5, <1>6, <3>1
  <2>2. links' \in [Layers -> [new -> SUBSET new]]
    <3>1. links \in [Layers -> [Ids -> SUBSET Ids]]
      BY Typed
    <3>. QED BY <1>2, <3>1
  <2>3. enter \in Ids /\ top = lev[enter] /\ TopDraw \in Nat
    BY Typed
  <2>4. GraphOK'
    BY <1>2, <1>3, <1>4, <1>8, <1>10, <2>1, <2>2, <2>3 DEF GraphOK
  <2>5. Works \subseteq Works' /\ w \in Works'
    BY <1>7, <1>8 DEF Works
  <2>6. work' \in [Threads -> Works'] /\ global' \in Threads \cup {None}
    BY <1>2, <2>5, Typed
  <2>. QED BY <2>4, <2>6 DEF TypesOK
<1>17. ListsOnLayer'
  <2>. SUFFICES ASSUME NEW m \in Layers, NEW j \in new, NEW k \in links'[m][j]
                PROVE  lev'[j] >= m /\ lev'[k] >= m /\ k # j
    BY <1>8 DEF ListsOnLayer
  <2>1. j \in Ids /\ k \in links[m][j]
    BY <1>11
  <2>2. k \in Ids
    BY <2>1, Typed
  <2>. QED BY <1>10, <2>1, <2>2 DEF InsertInv, ListsOnLayer
<1>18. FathersHigher'
  <2>. SUFFICES ASSUME NEW j \in new, father'[j] # j PROVE lev'[father'[j]] > lev'[j]
    BY <1>8 DEF FathersHigher
  <2>1. j \in Ids
    BY <1>10
  <2>2. father[j] \in Ids
    BY <2>1, Typed
  <2>. QED BY <1>10, <2>1, <2>2 DEF InsertInv, FathersHigher
<1>19. LabelsOK'
  <2>1. \A s \in Threads : At(s, "add")' => s # t /\ At(s, "add") /\ work'[s] = work[s]
    BY <1>12, <1>13
  <2>2. \A s \in Threads : At(s, "add") /\ s # t => At(s, "add")' /\ work'[s] = work[s]
    BY <1>12, <1>13
  <2>3. \A s \in Threads : At(s, "add") /\ s # t => work[s].obj # o
    BY <1>1, <1>3 DEF LabelsOK, o
  <2>4. \A j, k \in new : label'[j] = label'[k] => j = k
    BY <1>3, <1>5, <1>10 DEF LabelsOK
  <2>5. \A s \in Threads : At(s, "add")' =>
          work'[s].obj \in 0 .. next' - 1 /\ \A j \in new : label'[j] # work'[s].obj
    BY <1>2, <1>3, <1>10, <2>1, <2>3 DEF LabelsOK
  <2>6. \A r, s \in Threads : At(r, "add")' /\ At(s, "add")' /\ work'[r].obj = work'[s].obj => r = s
    BY <1>3, <2>1 DEF LabelsOK
  <2>7. ASSUME NEW p \in 0 .. next' - 1
        PROVE  (\E j \in new : label'[j] = p) \/ \E s \in Threads : At(s, "add")' /\ work'[s].obj = p
    <3>1. (\E j \in Ids : label[j] = p) \/ \E s \in Threads : At(s, "add") /\ work[s].obj = p
      BY <1>2, <1>3 DEF LabelsOK
    <3>2. CASE p = o
      BY <1>10, <3>2
    <3>3. CASE p # o
      BY <1>10, <2>2, <3>1, <3>3 DEF o
    <3>. QED BY <3>2, <3>3
  <2>. QED BY <1>8, <2>4, <2>5, <2>6, <2>7 DEF LabelsOK
<1>20. NodesOK'
  <2>1. \A s \in Threads : Busy(s)' /\ s # t =>
           /\ Busy(s) /\ work'[s] = work[s] /\ work[s].node \in Ids /\ work[s].node # enter
           /\ work[s].node # i
    BY <1>9, <1>12, <1>13 DEF InsertInv, NodesOK
  <2>2. enter' = enter /\ enter # i
    BY <1>2, <1>9, Typed
  <2>3. \A r, s \in Threads : Busy(r) /\ Busy(s) /\ work[r].node = work[s].node => r = s
    BY DEF InsertInv, NodesOK
  <2>. QED BY <1>7, <1>8, <1>12, <2>1, <2>2, <2>3 DEF NodesOK
<1>21. CapsOK'
  <2>1. CapsOK /\ NodesOK
    BY DEF InsertInv
  <2>2. \A s \in Threads : s # t /\ Busy(s) => work[s].node \in Ids
    BY <2>1 DEF NodesOK
  <2>3. At(t, "look")'
    BY <1>7, <1>12 DEF At
  <2>. QED BY <1>2, <1>10, <1>12, <1>13, <1>15, <2>1, <2>2, <2>3 DEF CapsOK
<1>22. TopsOK'
  BY <1>2, <1>8, <1>10, <1>14 DEF InsertInv, TopsOK
<1>23. \A s \in Threads : s # t /\ Busy(s) => work[s].node \in Ids
  BY DEF InsertInv, NodesOK
<1>24. DescentsOK'
  <2>1. \A s \in Threads : At(s, "descend")' =>
           s # t /\ At(s, "descend") /\ Busy(s) /\ work'[s] = work[s] /\ work[s].node \in Ids
    BY <1>12, <1>13, <1>23 DEF Busy, At
  <2>. QED BY <1>8, <1>10, <2>1 DEF InsertInv, DescentsOK
<1>25. SearchesOK'
  <2>1. \A s \in Threads : work'[s].at \in {"search", "link"} =>
           /\ s # t /\ work[s].at \in {"search", "link"} /\ work'[s] = work[s]
           /\ (At(s, "link")' <=> At(s, "link")) /\ work[s].node \in Ids /\ work[s].found \subseteq Ids
    BY <1>7, <1>12, <1>13, <1>23, Typed DEF Busy
  <2>. QED BY <1>10, <1>14, <2>1 DEF InsertInv, SearchesOK
<1>26. BlanksOK'
  <2>1. \A m \in Layers, j \in new : i \notin links'[m][j]
    BY <1>9, <1>11, Typed
  <2>2. ASSUME NEW s \in Threads, s # t, NEW m \in Layers, Busy(s)', Blank(s, m)'
        PROVE  links'[m][work'[s].node] = {} /\ \A j \in new : work'[s].node \notin links'[m][j]
    <3>1. Busy(s) /\ Blank(s, m) /\ work'[s] = work[s] /\ work[s].node \in Ids
      BY <1>12, <1>13, <1>23, <2>2 DEF Blank, At
    <3>. QED BY <1>11, <3>1 DEF InsertInv, BlanksOK
  <2>. QED BY <1>7, <1>8, <1>11, <1>12, <2>1, <2>2 DEF BlanksOK
<1>27. SizesOK'
  <2>1. \A m \in Layers : Most(m) \in Nat
    BY <1>3, FiniteIds
  <2>2. Cardinality({}) = 0
    BY FS_EmptySet
  <2>3. ASSUME NEW m \in Layers, NEW j \in new PROVE Cardinality(links'[m][j]) <= Most(m)
    <3>1. CASE j = i
      <4>1. links'[m][j] = {}
        BY <1>11, <3>1
      <4>2. Cardinality(links'[m][j]) = 0 /\ Most(m) \in Nat
        BY <2>1, <2>2, <4>1
      <4>. QED BY <4>2
    <3>2. CASE j # i
      <4>1. j \in Ids /\ links'[m][j] = links[m][j]
        BY <1>11, <3>2
      <4>. QED BY <4>1 DEF InsertInv, SizesOK
    <3>. QED BY <3>1, <3>2
  <2>. HIDE DEF new
  <2>. QED BY <1>8, <2>3, Zenon DEF SizesOK
<1>28. PendingOK'
  <2>1. \A s \in Threads : At(s, "link")' =>
           /\ At(s, "link") /\ work'[s] = work[s] /\ work[s].todo \subseteq Ids
           /\ work[s].l \in Layers
    BY <1>12, <1>13, Typed
  <2>. QED BY <1>11, <2>1 DEF InsertInv, PendingOK
<1>. QED BY <1>16, <1>17, <1>18, <1>19, <1>20, <1>21, <1>22, <1>24, <1>25, <1>26, <1>27, <1>28 DEF InsertInv

\* The projection and a step of nothing leave the construction as it is.
LEMMA QuietStep ==
    ASSUME InsertInv, UNCHANGED <<next, graph, global, work>>
    PROVE  InsertInv'
<1>1. UNCHANGED <<next, label, lev, father, links, enter, top, global, work>>
  BY DEF graph
<1>2. Ids' = Ids
  BY <1>1 DEF Ids
<1>3. TypesOK'
  BY <1>1, <1>2 DEF InsertInv, TypesOK, GraphOK, Works
<1>4. \A t \in Threads : (Busy(t)' <=> Busy(t)) /\ \A a : At(t, a)' <=> At(t, a)
  BY <1>1 DEF Busy, At
<1>5. \A j : Settled(j)' <=> Settled(j)
  BY <1>1, <1>4 DEF Settled
<1>6. ListsOnLayer' /\ FathersHigher' /\ TopsOK'
  BY <1>1, <1>2, <1>5 DEF InsertInv, ListsOnLayer, FathersHigher, TopsOK
<1>7. LabelsOK'
  BY <1>1, <1>2, <1>4 DEF InsertInv, LabelsOK
<1>8. NodesOK' /\ CapsOK'
  BY <1>1, <1>2, <1>4 DEF InsertInv, NodesOK, CapsOK
<1>9. DescentsOK'
  BY <1>1, <1>2, <1>4 DEF InsertInv, DescentsOK
<1>10. SearchesOK'
  BY <1>1, <1>2, <1>4, <1>5 DEF InsertInv, SearchesOK
<1>11. BlanksOK'
  BY <1>1, <1>2, <1>4 DEF InsertInv, BlanksOK, Blank
<1>12. SizesOK' /\ PendingOK'
  BY <1>1, <1>2, <1>4 DEF InsertInv, SizesOK, PendingOK
<1>. QED BY <1>3, <1>6, <1>7, <1>8, <1>9, <1>10, <1>11, <1>12 DEF InsertInv

\* The first point alone.
LEMMA InitInv ==
    ASSUME InsertInit
    PROVE  InsertInv
<1>1. /\ next = 1 /\ label = [i \in {0} |-> 0] /\ lev \in [{0} -> Draws[0]]
      /\ father = [i \in {0} |-> 0] /\ links = [l \in 0 .. TopDraw |-> [i \in {0} |-> {}]]
      /\ enter = 0 /\ top = lev[0] /\ global = None /\ work = [t \in Threads |-> Idle]
  BY DEF InsertInit
<1>2. Ids = {0} /\ lev[0] \in Draws[0] /\ LastPoint \in Nat /\ 0 \in Base
  BY <1>1, InsertAssumption DEF Ids, Base
<1>3. TopDraw \in Nat /\ Draws[0] \subseteq Layers
  BY <1>2, TopFact
<1>4. GraphOK
  <2>1. \E k \in Nat : Ids = 0 .. k
    <3>1. Ids = 0 .. 0 /\ 0 \in Nat
      BY <1>2
    <3>. QED BY <3>1
  <2>2. label \in [Ids -> 0 .. next - 1] /\ next \in 1 .. LastPoint + 1
    BY <1>1, <1>2
  <2>3. lev \in [Ids -> Layers] /\ father \in [Ids -> Ids]
    BY <1>1, <1>2, <1>3
  <2>4. links \in [Layers -> [Ids -> SUBSET Ids]] /\ enter \in Ids /\ top = lev[enter]
    BY <1>1, <1>2 DEF Layers
  <2>. QED BY <1>3, <2>1, <2>2, <2>3, <2>4 DEF GraphOK
<1>5. Idle \in Works /\ Idle.at = "idle"
  BY <1>4, IdleTyped
<1>6. TypesOK
  BY <1>1, <1>4, <1>5 DEF TypesOK
<1>7. \A t \in Threads : work[t].at = "idle" /\ ~ Busy(t) /\ global # t
  BY <1>1, <1>5, InsertAssumption DEF Busy
<1>8. lev[0] \in Nat /\ ListsOnLayer /\ FathersHigher /\ TopsOK
  <2>1. lev[0] \in Nat
    BY <1>2, InsertAssumption
  <2>. QED BY <1>1, <1>2, <2>1 DEF ListsOnLayer, FathersHigher, TopsOK, Layers
<1>9. LabelsOK
  BY <1>1, <1>2, <1>7 DEF LabelsOK, At
<1>10. NodesOK /\ CapsOK
  BY <1>7 DEF NodesOK, CapsOK
<1>11. DescentsOK /\ SearchesOK /\ BlanksOK
  BY <1>7 DEF DescentsOK, SearchesOK, BlanksOK, At
<1>12. SizesOK /\ PendingOK
  <2>1. \A m \in Layers : Most(m) \in Nat
    BY <1>4, FiniteIds
  <2>2. Cardinality({}) = 0
    BY FS_EmptySet
  <2>3. \A m \in Layers : links[m][0] = {}
    BY <1>1 DEF Layers
  <2>4. SizesOK
    BY <1>2, <2>1, <2>2, <2>3 DEF SizesOK
  <2>. QED BY <1>7, <2>4 DEF PendingOK, At
<1>. QED BY <1>6, <1>8, <1>9, <1>10, <1>11, <1>12 DEF InsertInv

\* Every step keeps the invariant.
LEMMA InsertStep == InsertInv /\ [InsertNext]_insertVars => InsertInv'
<1>. SUFFICES ASSUME InsertInv, [InsertNext]_insertVars PROVE InsertInv'
  OBVIOUS
<1>1. CASE Project \/ UNCHANGED insertVars
  BY <1>1, QuietStep DEF Project, insertVars
<1>2. ASSUME NEW t \in Threads, Step(t) PROVE InsertInv'
  BY <1>2, TakeInv, EnterInv, LookInv, StartInv, DescendInv, AdoptInv, SearchInv, ChooseInv,
     LinkInv, NextLayerInv, InsertedInv DEF Step
<1>. QED BY <1>1, <1>2 DEF InsertNext

\* The invariant of every construction.
THEOREM InsertInvariant == InsertSpec => []InsertInv
<1>. QED BY InitInv, InsertStep, PTL DEF InsertSpec

\* In whatever order the threads run, no insertion throws: the list a point is
\* about to fill is empty, no point is offered itself, nothing is linked on a
\* layer it is not on, and no list has more points than it may hold.
THEOREM InsertionsNeverThrow == InsertSpec => []NeverThrows
<1>1. ASSUME InsertInv PROVE NeverThrows
  <2>3. DOMAIN links = Layers /\ SizesOK
    BY <1>1, Typed DEF InsertInv
  <2>. SUFFICES ASSUME NEW t \in Threads, work[t].at \in {"search", "link"}
                PROVE  /\ work[t].at = "search" => links[work[t].l][work[t].node] = {}
                       /\ work[t].node \notin work[t].found
                       /\ \A j \in work[t].found : lev[j] >= work[t].l
                       /\ work[t].at = "link" => Cardinality(work[t].found) <= MaxM
    BY <2>3 DEF NeverThrows, SizesOK
  <2>1. /\ work[t].node \notin work[t].found
        /\ \A j \in work[t].found : lev[j] >= work[t].l
        /\ work[t].at = "link" => Cardinality(work[t].found) <= MaxM
    BY <1>1 DEF InsertInv, SearchesOK, At
  <2>2. ASSUME work[t].at = "search" PROVE links[work[t].l][work[t].node] = {}
    <3>1. work[t].l \in Layers /\ work[t].l \in Nat
      BY <1>1, Typed
    <3>2. Busy(t) /\ Blank(t, work[t].l)
      BY <2>2, <3>1 DEF Busy, Blank, At
    <3>. QED BY <1>1, <3>1, <3>2 DEF InsertInv, BlanksOK
  <2>. QED BY <2>1, <2>2
<1>. QED BY <1>1, InsertInvariant, PTL

(***************************************************************************)
(* The projected index.                                                    *)
(***************************************************************************)

\* After the projection the construction is over, and the projected index is
\* still the one that was built.
Image ==
    [level |-> [p \in Base |-> lev[InternalOf(p)]],
     father |-> [p \in Base |-> label[father[InternalOf(p)]]],
     nbr |-> [l \in 0 .. top |-> [p \in Base |-> {label[j] : j \in links[l][InternalOf(p)]}]],
     entry |-> label[enter]]
ProjOK == proj # None => Joined /\ proj = Image

\* Nothing moves any more once the threads have joined.
LEMMA NoStepAfter ==
    ASSUME InsertInv, Joined, NEW t \in Threads
    PROVE  ~ Step(t)
<1>1. ~ (next <= LastPoint)
  <2>1. next \in 1 .. LastPoint + 1 /\ LastPoint \in Nat
    BY InsertAssumption DEF InsertInv, TypesOK, GraphOK
  <2>. QED BY <2>1 DEF Joined
<1>2. work[t].at = "idle"
  BY DEF Joined, At
<1>. QED BY <1>1, <1>2 DEF Step, Take, Enter, Look, Start, Descend, Adopt, Search, Choose, Link,
                          NextLayer, Inserted, At

LEMMA ProjStep == InsertInv /\ ProjOK /\ [InsertNext]_insertVars => ProjOK'
<1>. SUFFICES ASSUME InsertInv, ProjOK, [InsertNext]_insertVars PROVE ProjOK'
  OBVIOUS
<1>1. CASE Project
  <2>1. UNCHANGED <<next, label, lev, father, links, enter, top, work>>
    BY <1>1 DEF Project, graph
  <2>2. Joined' /\ Image' = Image
    BY <1>1, <2>1 DEF Project, Joined, At, Image, InternalOf, Ids
  <2>3. proj' = Image
    BY <1>1 DEF Project, Image, Name
  <2>. QED BY <2>2, <2>3 DEF ProjOK
<1>2. ASSUME NEW t \in Threads, Step(t) PROVE ProjOK'
  <2>1. proj = None
    BY <1>2, NoStepAfter DEF ProjOK
  <2>2. proj' = proj
    BY <1>2 DEF Step, Take, Enter, Look, Start, Descend, Adopt, Search, Choose, Link,
                NextLayer, Inserted
  <2>. QED BY <2>1, <2>2 DEF ProjOK
<1>3. CASE UNCHANGED insertVars
  <2>1. UNCHANGED <<next, label, lev, father, links, enter, top, work, proj>>
    BY <1>3 DEF insertVars, graph
  <2>2. (Joined' <=> Joined) /\ Image' = Image
    BY <2>1 DEF Joined, At, Image, InternalOf, Ids
  <2>. QED BY <2>1, <2>2 DEF ProjOK
<1>. QED BY <1>1, <1>2, <1>3 DEF InsertNext

\* Every point has an internal id in the end, and the names are one to one.
LEMMA NamesFit ==
    ASSUME InsertInv, Joined
    PROVE  /\ \A p \in Base : InternalOf(p) \in Ids /\ label[InternalOf(p)] = p
           /\ \A i \in Ids : label[i] \in Base /\ InternalOf(label[i]) = i
<1>1. next \in 1 .. LastPoint + 1 /\ next > LastPoint /\ LastPoint \in Nat
      /\ label \in [Ids -> 0 .. next - 1]
  BY InsertAssumption DEF InsertInv, TypesOK, GraphOK, Joined
<1>2. 0 .. next - 1 = Base
  BY <1>1 DEF Base
<1>3. LabelsOK /\ \A t \in Threads : ~ At(t, "add")
  BY DEF InsertInv, Joined, At
<1>4. ASSUME NEW p \in Base PROVE InternalOf(p) \in Ids /\ label[InternalOf(p)] = p
  <2>1. \E i \in Ids : label[i] = p
    BY <1>2, <1>3 DEF LabelsOK
  <2>. QED BY <2>1 DEF InternalOf
<1>5. ASSUME NEW i \in Ids PROVE label[i] \in Base /\ InternalOf(label[i]) = i
  <2>1. label[i] \in Base
    BY <1>1, <1>2
  <2>. QED BY <1>3, <1>4, <2>1 DEF LabelsOK
<1>. QED BY <1>4, <1>5

\* In the projected index a father is as far above as in the one built.
LEMMA AboveFact ==
    ASSUME InsertInv, ProjOK
    PROVE  FathersAbove
<1>1. FathersHigher
  BY DEF InsertInv
<1>2. ASSUME proj # None, NEW p \in Base, proj.father[p] # p
      PROVE  proj.level[proj.father[p]] > proj.level[p]
  <2>1. Joined /\ proj = Image
    BY <1>2 DEF ProjOK
  <2>2. PICK i \in Ids : i = InternalOf(p) /\ label[i] = p
    BY <2>1, NamesFit
  <2>3. father[i] \in Ids
    BY Typed
  <2>4. label[father[i]] \in Base /\ InternalOf(label[father[i]]) = father[i]
    BY <2>1, <2>3, NamesFit
  <2>5. proj.father[p] = label[father[i]] /\ proj.level[p] = lev[i]
    BY <2>1, <2>2 DEF Image
  <2>6. proj.level[proj.father[p]] = lev[father[i]]
    BY <2>1, <2>4, <2>5 DEF Image
  <2>7. father[i] # i
    BY <1>2, <2>2, <2>5
  <2>. QED BY <1>1, <2>5, <2>6, <2>7 DEF FathersHigher
<1>. QED BY <1>1, <1>2 DEF FathersAbove, FathersHigher

\* Fathers lie above their children during the construction and in the
\* projected index, so that following fathers comes to an end.
THEOREM FathersLieAbove == InsertSpec => []FathersAbove
<1>1. InsertInit => ProjOK
  BY DEF InsertInit, ProjOK
<1>. QED BY <1>1, AboveFact, ProjStep, InsertInvariant, PTL DEF InsertSpec

(***************************************************************************)
(* Every small layer hangs together, at every moment.                      *)
(***************************************************************************)

\* The points that layer m connects: those with a list on it.
On(m) == {i \in Ids : lev[i] >= m /\ \A t \in Threads : Busy(t) /\ work[t].node = i => ~ Blank(t, m)}

\* The links of a point on layer m, with those its new neighbours still have to
\* give it.
Pending(m, i) == {t \in Threads : At(t, "link") /\ work[t].l = m /\ i \in work[t].todo}
Out(m, i) == links[m][i] \cup {work[t].node : t \in Pending(m, i)}

\* Whoever starts at one of the points of a layer and follows links reaches them all.
Connected(m) ==
    \A S \in SUBSET Ids :
        S \cap On(m) # {} /\ (\A i \in S : Out(m, i) \subseteq S) => On(m) \subseteq S

\* A layer whose points all fit the list of one of them.
Small(m) == Cardinality({i \in Ids : lev[i] >= m}) <= Most(m) + 1
AllConnected == \A m \in Layers : Small(m) => Connected(m)

LEMMA OutIds ==
    ASSUME InsertInv, NEW m \in Layers, NEW i \in Ids
    PROVE  Out(m, i) \subseteq Ids
<1>1. \A t \in Pending(m, i) : work[t].node \in Ids
  BY DEF InsertInv, NodesOK, Busy, Pending, At
<1>2. links[m][i] \subseteq Ids
  BY Typed
<1>. QED BY <1>1, <1>2 DEF Out

\* A layer that gains links but no point stays whole.
LEMMA ConnectedKept ==
    ASSUME InsertInv, NEW m \in Layers, Connected(m), Ids \subseteq Ids', On(m)' = On(m),
           \A i \in Ids : Out(m, i) \subseteq Out(m, i)'
    PROVE  Connected(m)'
<1>. SUFFICES ASSUME NEW S \in SUBSET (Ids'), S \cap On(m) # {},
                     \A i \in S : Out(m, i)' \subseteq S
              PROVE  On(m) \subseteq S
  BY Zenon DEF Connected
<1>. DEFINE T == S \cap Ids
<1>1. T \cap On(m) # {} /\ T \in SUBSET Ids
  BY DEF On
<1>2. \A i \in T : Out(m, i) \subseteq T
  BY OutIds
<1>. QED BY <1>1, <1>2 DEF Connected

\* Who is on a layer changes only when an insertion fills its list there.
LEMMA OnSame ==
    ASSUME InsertInv, NEW t \in Threads, NEW w, work' = [work EXCEPT ![t] = w],
           UNCHANGED <<label, lev>>, Busy(t), Busy(t)', w.node = work[t].node,
           NEW m \in Layers, lev[work[t].node] >= m => (Blank(t, m)' <=> Blank(t, m))
    PROVE  On(m)' = On(m)
<1>1. Ids' = Ids /\ work'[t] = w /\ \A s \in Threads \ {t} : work'[s] = work[s]
  BY Typed DEF Ids
<1>2. \A s \in Threads \ {t} : (Busy(s)' <=> Busy(s)) /\ (Blank(s, m)' <=> Blank(s, m))
  BY <1>1 DEF Busy, Blank, At
<1>3. \A i \in Ids : lev[i] >= m =>
        ((\A s \in Threads : Busy(s)' /\ work'[s].node = i => ~ Blank(s, m)')
           <=> (\A s \in Threads : Busy(s) /\ work[s].node = i => ~ Blank(s, m)))
  BY <1>1, <1>2
<1>4. On(m)' = {i \in Ids : lev[i] >= m /\ \A s \in Threads :
                                Busy(s)' /\ work'[s].node = i => ~ Blank(s, m)'}
  BY <1>1 DEF On
<1>. QED BY <1>3, <1>4 DEF On

\* A step within an insertion that has no link pending leaves every layer whole.
LEMMA ConnectedWithin ==
    ASSUME InsertInv, AllConnected, NEW t \in Threads, NEW w, work' = [work EXCEPT ![t] = w],
           UNCHANGED <<label, lev, links>>, Busy(t), Busy(t)', w.node = work[t].node,
           work[t].at # "link" \/ work[t].todo = {},
           \A m \in Layers : lev[work[t].node] >= m => (Blank(t, m)' <=> Blank(t, m))
    PROVE  AllConnected'
<1>1. Ids' = Ids /\ work'[t] = w /\ \A s \in Threads \ {t} : work'[s] = work[s]
  BY Typed DEF Ids
<1>2. ASSUME NEW m \in Layers, Small(m)' PROVE Connected(m)'
  <2>1. ASSUME NEW i \in Ids PROVE Out(m, i) \subseteq Out(m, i)'
    <3>1. \A s \in Pending(m, i) : s # t
      BY DEF Pending, At
    <3>2. \A s \in Pending(m, i) : s \in Pending(m, i)' /\ work'[s].node = work[s].node
      BY <1>1, <3>1 DEF Pending, At
    <3>. QED BY <3>2 DEF Out
  <2>2. On(m)' = On(m)
    BY OnSame
  <2>3. Connected(m)
    BY <1>1, <1>2 DEF AllConnected, Small
  <2>. QED BY <1>1, <2>1, <2>2, <2>3, ConnectedKept
<1>3. Layers' = Layers
  BY DEF Layers
<1>. QED BY <1>2, <1>3 DEF AllConnected

LEMMA SearchStepsConnected ==
    ASSUME InsertInv, AllConnected, NEW t \in Threads,
           Look(t) \/ Start(t) \/ Descend(t) \/ Adopt(t) \/ Search(t) \/ NextLayer(t)
    PROVE  AllConnected'
<1>1. \A s \in Threads : s = t => work[s].l \in Nat /\ work[s].cap \in Nat
  BY Typed
<1>2. Layers \subseteq Nat /\ work \in [Threads -> Works] /\ \A j \in Ids : lev[j] \in Nat
  BY Typed
<1>3. Busy(t) => work[t].node \in Ids
  BY DEF InsertInv, NodesOK
<1>4. CASE Look(t)
  <2>. DEFINE w == [work[t] EXCEPT !.at = "start", !.cap = top]
  <2>1. work[t].at = "look" /\ work' = [work EXCEPT ![t] = w] /\ UNCHANGED <<label, lev, links>>
    BY <1>4 DEF Look, At, Become, graph
  <2>2. w.at = "start" /\ w.node = work[t].node /\ work'[t] = w
    BY <1>2, <2>1 DEF Works
  <2>. HIDE DEF w
  <2>3. Busy(t) /\ Busy(t)' /\ \A m : Blank(t, m)' <=> Blank(t, m)
    BY <2>1, <2>2 DEF Busy, Blank, At
  <2>. QED BY <2>1, <2>2, <2>3, ConnectedWithin
<1>5. CASE Start(t)
  <2>1. PICK w : work[t].at = "start" /\ work' = [work EXCEPT ![t] = w]
          /\ w.node = work[t].node /\ w.cap = work[t].cap /\ w.l = work[t].cap
          /\ w.at \in {"descend", "search"} /\ UNCHANGED <<label, lev, links>>
    <3>. DEFINE v == IF lev[work[t].node] < work[t].cap
                     THEN [work[t] EXCEPT !.at = "descend", !.obj = enter, !.l = work[t].cap]
                     ELSE [work[t] EXCEPT !.at = "search", !.l = work[t].cap, !.obj = enter,
                                          !.found = {enter}, !.seen = {enter}, !.open = {enter}]
    <3>1. work[t] \in Works
      BY <1>2
    <3>2. work[t].at = "start" /\ work' = [work EXCEPT ![t] = v] /\ UNCHANGED <<label, lev, links>>
      BY <1>5 DEF Start, At, Become, graph
    <3>3. /\ v.node = work[t].node /\ v.cap = work[t].cap /\ v.l = work[t].cap
          /\ v.at \in {"descend", "search"}
      BY <3>1 DEF Works
    <3>. HIDE DEF v
    <3>. QED BY <3>2, <3>3
  <2>2. work'[t] = w
    BY <1>2, <2>1
  <2>3. Busy(t) /\ Busy(t)'
    BY <2>1, <2>2 DEF Busy
  <2>4. \A m \in Layers : Blank(t, m)' <=> Blank(t, m)
    BY <1>1, <1>2, <2>1, <2>2 DEF Blank, At
  <2>. QED BY <2>1, <2>3, <2>4, ConnectedWithin
<1>6. CASE Descend(t)
  <2>1. PICK w : work[t].at = "descend" /\ work' = [work EXCEPT ![t] = w]
          /\ w.node = work[t].node /\ w.at = "descend" /\ UNCHANGED <<label, lev, links>>
    <3>1. work[t] \in Works
      BY <1>2
    <3>. QED BY <1>6, <3>1 DEF Descend, At, Become, graph, Works
  <2>2. work'[t] = w
    BY <1>2, <2>1
  <2>3. Busy(t) /\ Busy(t)' /\ \A m \in Layers : Blank(t, m)' <=> Blank(t, m)
    BY <2>1, <2>2 DEF Busy, Blank, At
  <2>. QED BY <2>1, <2>3, ConnectedWithin
<1>7. CASE Adopt(t)
  <2>. DEFINE w == [work[t] EXCEPT !.at = "search", !.found = {work[t].obj}, !.seen = {work[t].obj},
                                 !.open = {work[t].obj}]
  <2>1. work[t].at = "descend" /\ work' = [work EXCEPT ![t] = w] /\ UNCHANGED <<label, lev, links>>
        /\ work[t].l = lev[work[t].node]
    BY <1>7 DEF Adopt, At, Become, AtOwnLevel
  <2>2. /\ w.at = "search" /\ w.node = work[t].node /\ w.l = lev[work[t].node]
        /\ w.cap = work[t].cap /\ work'[t] = w
    BY <1>2, <2>1 DEF Works
  <2>. HIDE DEF w
  <2>3. Busy(t) /\ Busy(t)'
    BY <2>1, <2>2 DEF Busy
  <2>4. \A m \in Layers : lev[work[t].node] >= m => (Blank(t, m)' <=> Blank(t, m))
    BY <1>2, <1>3, <2>1, <2>2, <2>3 DEF Blank, At
  <2>. QED BY <2>1, <2>2, <2>3, <2>4, ConnectedWithin
<1>8. CASE Search(t)
  <2>1. PICK w : work[t].at = "search" /\ work' = [work EXCEPT ![t] = w]
          /\ w.node = work[t].node /\ w.at = "search" /\ w.l = work[t].l /\ w.cap = work[t].cap
          /\ UNCHANGED <<label, lev, links>>
    <3>1. work[t] \in Works
      BY <1>2
    <3>. QED BY <1>8, <3>1 DEF Search, At, Become, graph, Works
  <2>2. work'[t] = w
    BY <1>2, <2>1
  <2>3. Busy(t) /\ Busy(t)' /\ \A m \in Layers : Blank(t, m)' <=> Blank(t, m)
    BY <2>1, <2>2 DEF Busy, Blank, At
  <2>. QED BY <2>1, <2>3, ConnectedWithin
<1>9. CASE NextLayer(t)
  <2>1. PICK w : work[t].at = "link" /\ work[t].todo = {} /\ work' = [work EXCEPT ![t] = w]
          /\ w.node = work[t].node /\ w.at = "search" /\ w.l = work[t].l - 1 /\ w.cap = work[t].cap
          /\ UNCHANGED <<label, lev, links>>
    <3>1. work[t] \in Works
      BY <1>2
    <3>. QED BY <1>9, <3>1 DEF NextLayer, At, Become, graph, Works
  <2>2. work'[t] = w
    BY <1>2, <2>1
  <2>3. Busy(t) /\ Busy(t)'
    BY <2>1, <2>2 DEF Busy
  <2>4. \A m \in Layers : Blank(t, m)' <=> Blank(t, m)
    BY <1>1, <1>2, <2>1, <2>2 DEF Blank, At
  <2>. QED BY <2>1, <2>3, <2>4, ConnectedWithin
<1>. QED BY <1>4, <1>5, <1>6, <1>7, <1>8, <1>9

\* The point that fills its list joins the layer through the points it has
\* found, which will all link back to it.
LEMMA ChooseConnected ==
    ASSUME InsertInv, AllConnected, NEW t \in Threads, Choose(t)
    PROVE  AllConnected'
<1>0. PICK i, l, F : i = work[t].node /\ l = work[t].l /\ F = work[t].found
  OBVIOUS
<1>1. At(t, "search") /\ Busy(t) /\ work[t].open = {}
  BY DEF Choose, At, Busy
<1>2. /\ l <= lev[i] /\ l <= work[t].cap /\ F # {} /\ i \notin F
      /\ \A j \in F : lev[j] >= l /\ Settled(j)
      /\ i \in Ids
  BY <1>0, <1>1 DEF InsertInv, SearchesOK, NodesOK, At
<1>3. /\ l \in Layers /\ F \in SUBSET Ids /\ links \in [Layers -> [Ids -> SUBSET Ids]]
      /\ work \in [Threads -> Works] /\ Layers \subseteq Nat /\ \A j \in Ids : lev[j] \in Nat
      /\ work[t].cap \in Nat
  BY <1>0, Typed
<1>15. PICK R \in Selected(i, F, MaxM) :
        /\ work' = [work EXCEPT ![t] = [work[t] EXCEPT !.at = "link", !.found = R, !.seen = {},
                                                      !.todo = R]]
        /\ links' = [links EXCEPT ![l][i] = R]
  BY <1>0 DEF Choose, Become
<1>. DEFINE w == [work[t] EXCEPT !.at = "link", !.found = R, !.seen = {}, !.todo = R]
<1>4. work' = [work EXCEPT ![t] = w] /\ links' = [links EXCEPT ![l][i] = R] /\ UNCHANGED <<label, lev>>
  BY <1>15 DEF Choose
<1>16. R \subseteq F /\ R # {}
  <2>1. GraphOK /\ MaxM \in Nat /\ MaxM > 0
    BY InsertAssumption DEF InsertInv, TypesOK
  <2>. QED BY <1>2, <1>3, <1>15, <2>1, SelectedIn
<1>5. w.at = "link" /\ w.node = i /\ w.cap = work[t].cap /\ w.l = l /\ w.todo = R
  <2>1. work[t] \in Works
    BY <1>3
  <2>. QED BY <1>0, <2>1 DEF Works
<1>. HIDE DEF w
<1>6. Ids' = Ids /\ work'[t] = w /\ \A s \in Threads \ {t} : work'[s] = work[s]
  BY <1>3, <1>4 DEF Ids
<1>7. /\ links'[l][i] = R
      /\ \A m \in Layers, j \in Ids : <<m, j>> # <<l, i>> => links'[m][j] = links[m][j]
  <2>. QED BY <1>2, <1>3, <1>4
<1>8. Busy(t)' /\ \A s \in Threads \ {t} : (Busy(s)' <=> Busy(s)) /\ \A m : Blank(s, m)' <=> Blank(s, m)
  BY <1>5, <1>6 DEF Busy, Blank, At
<1>9. \A m \in Layers : /\ Blank(t, m) <=> ~ (l < m /\ m <= work[t].cap)
                        /\ Blank(t, m)' <=> ~ (l <= m /\ m <= work[t].cap)
  BY <1>0, <1>1, <1>5, <1>6 DEF Blank, At
<1>10. links[l][i] = {}
  BY <1>0, <1>1, <1>3, <1>9 DEF InsertInv, BlanksOK
<1>11. ASSUME NEW m \in Layers, NEW j \in Ids PROVE Out(m, j) \subseteq Out(m, j)'
  <2>1. \A s \in Pending(m, j) : s \in Pending(m, j)' /\ work'[s].node = work[s].node
    BY <1>1, <1>6 DEF Pending, At
  <2>2. links[m][j] \subseteq links'[m][j]
    BY <1>7, <1>10
  <2>. QED BY <2>1, <2>2 DEF Out
<1>17. \A m \in Layers : Small(m)' <=> Small(m)
  BY <1>4, <1>6 DEF Small
<1>12. ASSUME NEW m \in Layers, m # l, Small(m)' PROVE Connected(m)'
  <2>1. Blank(t, m)' <=> Blank(t, m)
    BY <1>3, <1>9, <1>12
  <2>2. On(m)' = On(m)
    BY <1>0, <1>1, <1>4, <1>5, <1>8, <2>1, OnSame
  <2>3. Connected(m)
    BY <1>12, <1>17 DEF AllConnected
  <2>. QED BY <1>6, <1>11, <2>2, <2>3, ConnectedKept
<1>13. ASSUME NEW m \in Layers, m = l, Small(m)' PROVE Connected(m)'
  <2>1. R \subseteq On(m)
    BY <1>2, <1>3, <1>13, <1>16 DEF On, Settled
  <2>2. \A s \in Threads : Busy(s) /\ work[s].node = i => s = t
    BY <1>0, <1>1 DEF InsertInv, NodesOK
  <2>3. On(m)' = On(m) \cup {i}
    <3>1. On(m)' = {j \in Ids : lev[j] >= m /\ \A s \in Threads :
                                  Busy(s)' /\ work'[s].node = j => ~ Blank(s, m)'}
      BY <1>4, <1>6 DEF On
    <3>2. ~ Blank(t, m)' /\ lev[i] >= m
      BY <1>2, <1>3, <1>9, <1>13
    <3>3. ASSUME NEW j \in Ids, j # i
          PROVE (\A s \in Threads : Busy(s)' /\ work'[s].node = j => ~ Blank(s, m)')
                   <=> (\A s \in Threads : Busy(s) /\ work[s].node = j => ~ Blank(s, m))
      BY <1>0, <1>5, <1>6, <1>8, <3>3
    <3>4. \A s \in Threads : Busy(s)' /\ work'[s].node = i => s = t
      BY <1>6, <1>8, <2>2
    <3>5. i \in On(m)'
      BY <1>2, <3>1, <3>2, <3>4
    <3>6. \A j \in Ids : j # i => (j \in On(m)' <=> j \in On(m))
      BY <3>1, <3>3 DEF On
    <3>7. On(m) \subseteq Ids /\ On(m)' \subseteq Ids
      BY <3>1 DEF On
    <3>. QED BY <1>2, <3>5, <3>6, <3>7
  <2>. SUFFICES ASSUME NEW S \in SUBSET Ids, S \cap (On(m) \cup {i}) # {},
                       \A j \in S : Out(m, j)' \subseteq S
                PROVE  On(m) \cup {i} \subseteq S
    BY <1>6, <2>3, Zenon DEF Connected
  <2>4. R \subseteq Out(m, i)'
    BY <1>7, <1>13 DEF Out
  <2>5. \A j \in R : i \in Out(m, j)'
    <3>1. \A j \in R : t \in Pending(m, j)'
      BY <1>5, <1>6, <1>13 DEF Pending, At
    <3>. QED BY <1>5, <1>6, <3>1 DEF Out
  <2>6. S \cap On(m) # {}
    <3>1. CASE i \in S
      <4>1. R \subseteq S
        BY <2>4, <3>1
      <4>. QED BY <1>16, <2>1, <4>1
    <3>2. CASE i \notin S
      BY <3>2
    <3>. QED BY <3>1, <3>2
  <2>7. \A j \in S : Out(m, j) \subseteq S
    BY <1>11
  <2>8. On(m) \subseteq S
    BY <1>13, <1>17, <2>6, <2>7 DEF AllConnected, Connected
  <2>9. i \in S
    BY <1>16, <2>1, <2>5, <2>8
  <2>. QED BY <2>8, <2>9
<1>14. Layers' = Layers
  BY DEF Layers
<1>. QED BY <1>12, <1>13, <1>14 DEF AllConnected

\* A link given is one no longer pending.
LEMMA LinkConnected ==
    ASSUME InsertInv, AllConnected, NEW t \in Threads, Link(t)
    PROVE  AllConnected'
<1>. DEFINE i == work[t].node
            l == work[t].l
<1>1. At(t, "link") /\ Busy(t)
  BY DEF Link, At, Busy
<1>2. PICK e \in work[t].todo, N \in SUBSET Ids :
          /\ Cardinality(links[l][e]) < Most(l) => N = links[l][e] \cup {i}
          /\ links' = [links EXCEPT ![l][e] = N]
          /\ work' = [work EXCEPT ![t] = [work[t] EXCEPT !.todo = work[t].todo \ {e}]]
  BY LinkGives
<1>. DEFINE w == [work[t] EXCEPT !.todo = work[t].todo \ {e}]
<1>3. /\ l \in Layers /\ e \in Ids /\ links \in [Layers -> [Ids -> SUBSET Ids]]
      /\ work \in [Threads -> Works] /\ work[t] \in Works
  BY Typed
<1>4. UNCHANGED <<label, lev>>
  BY DEF Link
<1>5. /\ w.at = "link" /\ w.node = i /\ w.cap = work[t].cap /\ w.l = l
      /\ w.todo = work[t].todo \ {e}
  BY <1>1, <1>3 DEF Works, At
<1>6. Ids' = Ids /\ work'[t] = w /\ \A s \in Threads \ {t} : work'[s] = work[s]
  BY <1>2, <1>3, <1>4 DEF Ids
<1>. HIDE DEF w
<1>7. /\ links'[l][e] = N
      /\ \A m \in Layers, j \in Ids : <<m, j>> # <<l, e>> => links'[m][j] = links[m][j]
  <2>. HIDE DEF l, i
  <2>. QED BY <1>2, <1>3
<1>8. Busy(t)' /\ \A m : Blank(t, m)' <=> Blank(t, m)
  BY <1>1, <1>5, <1>6 DEF Busy, Blank, At
<1>12. Small(l) => N = links[l][e] \cup {i}
  <2>. SUFFICES ASSUME Small(l) PROVE Cardinality(links[l][e]) < Most(l)
    BY <1>2
  <2>. DEFINE L == {j \in Ids : lev[j] >= l}
              K == links[l][e]
  <2>1. /\ i \in L /\ e \in L /\ e # i /\ K \subseteq L \ {e} /\ i \notin K
    <3>1. /\ l <= lev[i] /\ i \notin work[t].found /\ e \in work[t].found
          /\ lev[e] >= l /\ i \in Ids
      BY <1>1 DEF InsertInv, SearchesOK, NodesOK, At
    <3>2. \A j \in K : j \in Ids /\ lev[j] >= l /\ j # e
      BY <1>3 DEF InsertInv, ListsOnLayer
    <3>3. i \notin K
      BY <1>1 DEF InsertInv, PendingOK
    <3>4. lev[i] \in Nat /\ l \in Nat
      BY <3>1, Typed
    <3>. QED BY <1>3, <3>1, <3>2, <3>3, <3>4
  <2>2. GraphOK
    BY DEF InsertInv, TypesOK
  <2>3. IsFiniteSet(L) /\ Cardinality(L) \in Nat /\ Most(l) \in Nat /\ Cardinality(L) <= Most(l) + 1
    <3>1. L \in SUBSET Ids
      OBVIOUS
    <3>. QED BY <1>3, <2>2, <3>1, FiniteIds DEF Small
  <2>. HIDE DEF L, K
  <2>4. IsFiniteSet(L \ {e}) /\ Cardinality(L \ {e}) = Cardinality(L) - 1
    BY <2>1, <2>3, FS_RemoveElement
  <2>5. IsFiniteSet((L \ {e}) \ {i}) /\ Cardinality((L \ {e}) \ {i}) = Cardinality(L) - 2
    <3>1. i \in L \ {e}
      BY <2>1
    <3>2. /\ IsFiniteSet((L \ {e}) \ {i})
          /\ Cardinality((L \ {e}) \ {i}) = Cardinality(L \ {e}) - 1
      BY <2>4, <3>1, FS_RemoveElement
    <3>. QED BY <2>3, <2>4, <3>2
  <2>6. K \in SUBSET ((L \ {e}) \ {i})
    BY <2>1
  <2>7. Cardinality(K) <= Cardinality(L) - 2 /\ Cardinality(K) \in Nat
    BY <2>5, <2>6, FS_Subset, FS_CardinalityType
  <2>. QED BY <2>3, <2>7 DEF K
<1>9. ASSUME NEW m \in Layers, NEW j \in Ids, Small(m) PROVE Out(m, j) \subseteq Out(m, j)'
  <2>1. links[m][j] \subseteq links'[m][j]
    BY <1>7, <1>9, <1>12
  <2>2. ASSUME NEW s \in Pending(m, j) PROVE work[s].node \in Out(m, j)'
    <3>1. CASE s # t \/ j # e
      <4>1. s \in Pending(m, j)' /\ work'[s].node = work[s].node
        BY <1>1, <1>5, <1>6, <2>2, <3>1 DEF Pending, At
      <4>. QED BY <4>1 DEF Out
    <3>2. CASE s = t /\ j = e
      <4>1. m = l
        BY <2>2, <3>2 DEF Pending
      <4>. QED BY <1>7, <1>9, <1>12, <3>2, <4>1 DEF Out
    <3>. QED BY <3>1, <3>2
  <2>. QED BY <2>1, <2>2 DEF Out
<1>10. ASSUME NEW m \in Layers, Small(m)' PROVE Connected(m)'
  <2>3. Small(m)
    BY <1>4, <1>6, <1>10 DEF Small
  <2>1. On(m)' = On(m)
    <3>1. work' = [work EXCEPT ![t] = w]
      BY <1>2 DEF w
    <3>. QED BY <1>1, <1>4, <1>5, <1>8, <3>1, OnSame
  <2>2. Connected(m)
    BY <2>3 DEF AllConnected
  <2>. QED BY <1>6, <1>9, <2>1, <2>2, <2>3, ConnectedKept
<1>11. Layers' = Layers
  BY DEF Layers
<1>. QED BY <1>10, <1>11 DEF AllConnected

\* The point that ends its insertion as the highest is alone on the layers it
\* brings.
LEMMA InsertedConnected ==
    ASSUME InsertInv, AllConnected, NEW t \in Threads, Inserted(t)
    PROVE  AllConnected'
<1>. DEFINE i == work[t].node
<1>1. At(t, "link") /\ Busy(t) /\ work[t].todo = {} /\ work[t].l = 0
  BY DEF Inserted, At, Busy
<1>2. work' = [work EXCEPT ![t] = Idle] /\ UNCHANGED <<label, lev, links>>
  BY DEF Inserted, Become
<1>3. /\ i \in Ids /\ work[t].cap <= top /\ (lev[i] > work[t].cap => global = t)
      /\ global = t => work[t].cap = top
      /\ \A s \in Threads : Busy(s) /\ s # t => work[s].node # i /\ work[s].node \in Ids
  BY <1>1 DEF InsertInv, NodesOK, CapsOK, At
<1>4. Ids' = Ids /\ work'[t] = Idle /\ \A s \in Threads \ {t} : work'[s] = work[s]
  BY <1>2, Typed DEF Ids
<1>5. Idle.at = "idle"
  BY DEF Idle
<1>6. ~ Busy(t)' /\ \A s \in Threads \ {t} : (Busy(s)' <=> Busy(s)) /\ \A m : Blank(s, m)' <=> Blank(s, m)
  BY <1>4, <1>5 DEF Busy, Blank, At
<1>7. ASSUME NEW m \in Layers, NEW j \in Ids PROVE Out(m, j) \subseteq Out(m, j)'
  <2>1. \A s \in Pending(m, j) : s \in Pending(m, j)' /\ work'[s].node = work[s].node
    BY <1>1, <1>4 DEF Pending, At
  <2>. QED BY <1>2, <2>1 DEF Out
<1>8. \A m \in Layers : On(m)' = {j \in Ids : lev[j] >= m /\ \A s \in Threads :
                                      Busy(s)' /\ work'[s].node = j => ~ Blank(s, m)'}
  BY <1>2, <1>4 DEF On
<1>9. \A m \in Layers, j \in Ids : j # i => (j \in On(m)' <=> j \in On(m))
  <2>. SUFFICES ASSUME NEW m \in Layers, NEW j \in Ids, j # i
                PROVE (\A s \in Threads : Busy(s)' /\ work'[s].node = j => ~ Blank(s, m)')
                         <=> (\A s \in Threads : Busy(s) /\ work[s].node = j => ~ Blank(s, m))
    BY <1>8 DEF On
  <2>. QED BY <1>4, <1>6
<1>10. /\ \A m \in Layers : m \in Nat /\ On(m) \subseteq Ids /\ On(m)' \subseteq Ids
       /\ work[t].cap \in Nat /\ top \in Nat /\ \A j \in Ids : lev[j] \in Nat
  BY <1>8, Typed DEF On
<1>15. \A m \in Layers : Small(m)' <=> Small(m)
  BY <1>2, <1>4 DEF Small
<1>11. ASSUME NEW m \in Layers, m <= work[t].cap \/ lev[i] < m, Small(m)' PROVE Connected(m)'
  <2>1. i \in On(m)' <=> i \in On(m)
    <3>1. CASE lev[i] < m
      BY <1>3, <1>8, <1>10, <3>1 DEF On
    <3>2. CASE m <= work[t].cap
      <4>1. ~ Blank(t, m)
        BY <1>1, <1>10, <3>2 DEF Blank, At
      <4>2. \A s \in Threads : Busy(s) /\ work[s].node = i => s = t
        BY <1>3
      <4>3. \A s \in Threads : Busy(s)' => work'[s].node # i
        BY <1>3, <1>4, <1>6
      <4>. QED BY <1>3, <1>8, <4>1, <4>2, <4>3 DEF On
    <3>. QED BY <1>11, <3>1, <3>2
  <2>2. On(m)' = On(m)
    <3>1. \A j \in Ids : j \in On(m)' <=> j \in On(m)
      BY <1>9, <2>1
    <3>2. On(m)' \subseteq Ids /\ On(m) \subseteq Ids
      BY <1>10
    <3>. QED BY <3>1, <3>2
  <2>3. Connected(m)
    BY <1>11, <1>15 DEF AllConnected
  <2>. QED BY <1>4, <1>7, <2>2, <2>3, ConnectedKept
<1>12. ASSUME NEW m \in Layers, m > work[t].cap, lev[i] >= m PROVE Connected(m)'
  <2>1. work[t].cap = top /\ m > top
    BY <1>3, <1>10, <1>12
  <2>2. ASSUME NEW j \in On(m) PROVE FALSE
    <3>1. j \in Ids /\ lev[j] >= m /\ \A s \in Threads : Busy(s) /\ work[s].node = j => ~ Blank(s, m)
      BY <2>2 DEF On
    <3>2. ~ Settled(j)
      BY <1>10, <2>1, <3>1 DEF InsertInv, TopsOK
    <3>3. PICK s \in Threads : Busy(s) /\ work[s].node = j
      BY <3>2 DEF Settled
    <3>4. ~ Blank(s, m) /\ work[s].cap \in Nat
      BY <3>1, <3>3, Typed
    <3>5. ~ At(s, "look") /\ m <= work[s].cap
      BY <3>3, <3>4 DEF Blank, Busy, At
    <3>6. work[s].cap <= top
      BY <3>3, <3>5 DEF InsertInv, CapsOK
    <3>. QED BY <1>10, <2>1, <3>4, <3>5, <3>6
  <2>3. On(m)' \subseteq {i}
    BY <1>9, <1>10, <2>2
  <2>. QED BY <2>3, Zenon DEF Connected
<1>13. \A m \in Layers : (m <= work[t].cap \/ lev[i] < m) \/ (m > work[t].cap /\ lev[i] >= m)
  BY <1>3, <1>10
<1>14. Layers' = Layers
  BY DEF Layers
<1>. QED BY <1>11, <1>12, <1>13, <1>14 DEF AllConnected

\* A point taken, and one that enters the tables, are on no layer yet.
LEMMA ArrivalsConnected ==
    ASSUME InsertInv, AllConnected, NEW t \in Threads, Take(t) \/ Enter(t)
    PROVE  AllConnected'
<1>1. ~ Busy(t) /\ ~ At(t, "link")
  BY DEF Take, Enter, At, Busy
<1>2. PICK w : work' = [work EXCEPT ![t] = w] /\ w.at \in {"add", "look"}
  <2>1. CASE Take(t)
    <3>. DEFINE v == [Idle EXCEPT !.at = "add", !.obj = next]
    <3>1. work' = [work EXCEPT ![t] = v]
      BY <2>1 DEF Take, Become
    <3>2. v.at = "add"
      BY DEF Idle
    <3>. HIDE DEF v
    <3>. QED BY <3>1, <3>2
  <2>2. CASE Enter(t)
    <3>. DEFINE v == [Idle EXCEPT !.at = "look", !.node = Cardinality(Ids)]
    <3>1. work' = [work EXCEPT ![t] = v]
      BY <2>2 DEF Enter, Become
    <3>2. v.at = "look"
      BY DEF Idle
    <3>. HIDE DEF v
    <3>. QED BY <3>1, <3>2
  <2>. QED BY <2>1, <2>2
<1>3. work'[t] = w /\ \A s \in Threads \ {t} : work'[s] = work[s]
  BY <1>2, Typed
<1>4. /\ Ids \subseteq Ids' /\ \A j \in Ids : lev'[j] = lev[j]
      /\ \A m \in Layers, j \in Ids : links'[m][j] = links[m][j]
      /\ \A j \in Ids' \ Ids : Busy(t)' /\ At(t, "look")' /\ work'[t].node = j
  <2>1. CASE Take(t)
    BY <2>1 DEF Take, graph, Ids
  <2>2. CASE Enter(t)
    <3>. DEFINE i == Cardinality(Ids)
                new == Ids \cup {i}
                v == [Idle EXCEPT !.at = "look", !.node = i]
    <3>1. PICK d : lev' = [j \in new |-> IF j = i THEN d ELSE lev[j]]
      BY <2>2 DEF Enter
    <3>2. /\ label' = [j \in new |-> IF j = i THEN work[t].obj ELSE label[j]]
          /\ links' = [l \in DOMAIN links |-> [j \in new |-> IF j = i THEN {} ELSE links[l][j]]]
          /\ work' = [work EXCEPT ![t] = v]
      BY <2>2 DEF Enter, Become
    <3>3. v.at = "look" /\ v.node = i
      BY DEF Idle
    <3>4. \A j \in Ids : j # i
      <4>1. GraphOK
        BY DEF InsertInv, TypesOK
      <4>2. PICK k \in Nat : Ids = 0 .. k
        BY <4>1 DEF GraphOK
      <4>3. i = k + 1
        BY <4>2, FS_Interval
      <4>. QED BY <4>2, <4>3
    <3>. HIDE DEF i, v
    <3>5. Ids' = new /\ work'[t] = v
      BY <3>2, Typed DEF Ids
    <3>6. DOMAIN links = Layers
      BY Typed
    <3>. QED BY <3>1, <3>2, <3>3, <3>4, <3>5, <3>6 DEF Busy, At
  <2>. QED BY <2>1, <2>2
<1>5. \A s \in Threads \ {t} : /\ Busy(s)' <=> Busy(s)
                               /\ \A m : Blank(s, m)' <=> Blank(s, m)
  BY <1>3 DEF Busy, Blank, At
<1>6. \A j \in Ids : Busy(t)' => work'[t].node # j
  <2>1. CASE Take(t)
    <3>1. w.at = "add"
      <4>1. work'[t] = [Idle EXCEPT !.at = "add", !.obj = next]
        BY <2>1, Typed DEF Take, Become
      <4>. QED BY <1>3, <4>1 DEF Idle
    <3>. QED BY <1>3, <3>1 DEF Busy
  <2>2. CASE Enter(t)
    <3>1. work'[t] = [Idle EXCEPT !.at = "look", !.node = Cardinality(Ids)]
      BY <2>2, Typed DEF Enter, Become
    <3>2. GraphOK
      BY DEF InsertInv, TypesOK
    <3>3. PICK k \in Nat : Ids = 0 .. k
      BY <3>2 DEF GraphOK
    <3>4. Cardinality(Ids) = k + 1
      BY <3>3, FS_Interval
    <3>. QED BY <3>1, <3>3, <3>4 DEF Idle
  <2>. QED BY <2>1, <2>2
<1>7. ASSUME NEW m \in Layers, NEW j \in Ids PROVE Out(m, j) \subseteq Out(m, j)'
  <2>1. \A s \in Pending(m, j) : s \in Pending(m, j)' /\ work'[s].node = work[s].node
    BY <1>1, <1>3 DEF Pending, At
  <2>. QED BY <1>4, <2>1 DEF Out
<1>8. ASSUME NEW m \in Layers PROVE On(m)' = On(m)
  <2>1. On(m)' = {j \in Ids' : lev'[j] >= m /\ \A s \in Threads :
                                  Busy(s)' /\ work'[s].node = j => ~ Blank(s, m)'}
    BY DEF On
  <2>2. ASSUME NEW j \in Ids PROVE j \in On(m)' <=> j \in On(m)
    <3>1. (\A s \in Threads : Busy(s)' /\ work'[s].node = j => ~ Blank(s, m)')
            <=> (\A s \in Threads : Busy(s) /\ work[s].node = j => ~ Blank(s, m))
      BY <1>1, <1>3, <1>5, <1>6
    <3>. QED BY <1>4, <2>1, <3>1 DEF On
  <2>3. ASSUME NEW j \in Ids' \ Ids PROVE j \notin On(m)'
    <3>1. Busy(t)' /\ At(t, "look")' /\ work'[t].node = j
      BY <1>4
    <3>2. Blank(t, m)'
      BY <3>1 DEF Blank, At
    <3>. QED BY <2>1, <3>1, <3>2
  <2>4. On(m) \subseteq Ids /\ On(m)' \subseteq Ids'
    BY <2>1 DEF On
  <2>. QED BY <1>4, <2>2, <2>3, <2>4
<1>11. ASSUME NEW m \in Layers, Small(m)' PROVE Small(m)
  <2>. DEFINE L == {j \in Ids : lev[j] >= m}
              K == {j \in Ids' : lev'[j] >= m}
  <2>1. GraphOK /\ GraphOK'
    <3>1. InsertInv'
      BY TakeInv, EnterInv
    <3>. QED BY <3>1 DEF InsertInv, TypesOK
  <2>2. IsFiniteSet(Ids')
    <3>1. PICK k \in Nat : Ids' = 0 .. k
      BY <2>1 DEF GraphOK
    <3>. QED BY <3>1, FS_Interval
  <2>3. IsFiniteSet(K) /\ L \in SUBSET K
    <3>1. K \in SUBSET (Ids')
      OBVIOUS
    <3>2. L \subseteq K
      BY <1>4
    <3>. QED BY <2>2, <3>1, <3>2, FS_Subset
  <2>4. Cardinality(L) <= Cardinality(K) /\ Cardinality(L) \in Nat /\ Cardinality(K) \in Nat
    <3>. HIDE DEF L, K
    <3>. QED BY <2>3, FS_Subset, FS_CardinalityType
  <2>5. Cardinality(K) <= Most(m) + 1
    BY <1>11 DEF Small, Most
  <2>6. Most(m) \in Nat
    BY <2>1, FiniteIds
  <2>. QED BY <2>4, <2>5, <2>6 DEF Small
<1>9. ASSUME NEW m \in Layers, Small(m)' PROVE Connected(m)'
  <2>1. Connected(m)
    BY <1>9, <1>11 DEF AllConnected
  <2>. QED BY <1>4, <1>7, <1>8, <2>1, ConnectedKept
<1>10. Layers' = Layers
  BY DEF Layers
<1>. QED BY <1>9, <1>10 DEF AllConnected

LEMMA ConnectedInit ==
    ASSUME InsertInit
    PROVE  AllConnected
<1>1. Ids = {0}
  BY DEF InsertInit, Ids
<1>2. \A m : On(m) \subseteq {0}
  BY <1>1 DEF On
<1>. QED BY <1>2 DEF AllConnected, Connected

LEMMA ConnectedStep == InsertInv /\ AllConnected /\ [InsertNext]_insertVars => AllConnected'
<1>. SUFFICES ASSUME InsertInv, AllConnected, [InsertNext]_insertVars PROVE AllConnected'
  OBVIOUS
<1>1. CASE Project \/ UNCHANGED insertVars
  <2>1. UNCHANGED <<label, lev, links, work>>
    BY <1>1 DEF Project, insertVars, graph
  <2>2. \A t \in Threads : (Busy(t)' <=> Busy(t)) /\ \A a : At(t, a)' <=> At(t, a)
    BY <2>1 DEF Busy, At
  <2>3. Layers' = Layers /\ Ids' = Ids
    BY <2>1 DEF Layers, Ids
  <2>4. \A t \in Threads, m \in Layers : Blank(t, m)' <=> Blank(t, m)
    BY <2>1, <2>2 DEF Blank
  <2>5. \A m \in Layers : On(m)' = On(m)
    BY <2>1, <2>2, <2>3, <2>4 DEF On
  <2>6. \A m \in Layers, i \in Ids : Pending(m, i)' = Pending(m, i)
    BY <2>1, <2>2 DEF Pending
  <2>7. \A m \in Layers, i \in Ids : Out(m, i)' = Out(m, i)
    BY <2>1, <2>6 DEF Out
  <2>9. \A m \in Layers : Small(m)' <=> Small(m)
    BY <2>1, <2>3 DEF Small
  <2>8. \A m \in Layers : Small(m)' => Connected(m)'
    BY <2>3, <2>5, <2>7, <2>9, ConnectedKept DEF AllConnected
  <2>. QED BY <2>3, <2>8 DEF AllConnected
<1>2. ASSUME NEW t \in Threads, Step(t) PROVE AllConnected'
  BY <1>2, ArrivalsConnected, SearchStepsConnected, ChooseConnected, LinkConnected, InsertedConnected DEF Step
<1>. QED BY <1>1, <1>2 DEF InsertNext

\* In the projected index all points of a layer of at most Most(l) + 1 points can
\* be reached from the entry point along the links of that layer, whoever was
\* inserted at the same time, however many points the index has.
THEOREM LayersAreConnected == InsertSpec => []LayersConnected
<1>1. ASSUME InsertInv, AllConnected, ProjOK PROVE LayersConnected
  <2>. SUFFICES ASSUME proj # None, NEW l \in 0 .. top,
                       Cardinality({p \in Base : proj.level[p] >= l}) <= Most(l) + 1, NEW S \in SUBSET Base,
                       proj.entry \in S, \A p \in S : proj.nbr[l][p] \subseteq S,
                       NEW p \in Base, proj.level[p] >= l
                PROVE  p \in S
    BY DEF LayersConnected
  <2>1. Joined /\ proj = Image
    BY <1>1 DEF ProjOK
  <2>2. /\ \A q \in Base : InternalOf(q) \in Ids /\ label[InternalOf(q)] = q
        /\ \A i \in Ids : label[i] \in Base /\ InternalOf(label[i]) = i
    BY <1>1, <2>1, NamesFit
  <2>3. l \in Layers /\ l \in Nat /\ l <= top /\ enter \in Ids /\ top = lev[enter]
        /\ links \in [Layers -> [Ids -> SUBSET Ids]] /\ top \in Nat
    <3>1. top \in Layers /\ TopDraw \in Nat /\ enter \in Ids /\ top = lev[enter]
          /\ links \in [Layers -> [Ids -> SUBSET Ids]]
      BY <1>1, Typed
    <3>. QED BY <3>1 DEF Layers
  <2>4. \A t \in Threads : ~ Busy(t) /\ ~ At(t, "link")
    BY <2>1 DEF Joined, At, Busy
  <2>5. On(l) = {i \in Ids : lev[i] >= l}
    BY <2>4 DEF On
  <2>6. \A i \in Ids : Out(l, i) = links[l][i]
    BY <2>4 DEF Out, Pending
  <2>. DEFINE T == {i \in Ids : label[i] \in S}
  <2>7. enter \in T /\ enter \in On(l)
    BY <2>1, <2>3, <2>5 DEF Image
  <2>8. ASSUME NEW i \in T PROVE Out(l, i) \subseteq T
    <3>1. label[i] \in S /\ InternalOf(label[i]) = i /\ label[i] \in Base
      BY <2>2
    <3>2. proj.nbr[l][label[i]] = {label[j] : j \in links[l][i]}
      BY <2>1, <3>1 DEF Image
    <3>3. \A j \in links[l][i] : label[j] \in S
      BY <3>1, <3>2
    <3>4. links[l][i] \subseteq Ids
      BY <2>3
    <3>. QED BY <2>6, <3>3, <3>4
  <2>11. Small(l)
    <3>. DEFINE L == {i \in Ids : lev[i] >= l}
                K == {q \in Base : proj.level[q] >= l}
                g == [i \in L |-> label[i]]
    <3>1. \A i \in L : label[i] \in K
      BY <2>1, <2>2 DEF Image
    <3>2. g \in Injection(L, K)
      <4>1. \A i, j \in L : label[i] = label[j] => i = j
        BY <2>2
      <4>2. /\ g \in [L -> K]
            /\ \A i, j \in L : g[i] = g[j] => i = j
        BY <3>1, <4>1
      <4>. HIDE DEF L, K, g
      <4>. QED BY <4>2 DEF Injection, IsInjective
    <3>3. IsFiniteSet(K)
      <4>1. IsFiniteSet(Base) /\ K \in SUBSET Base
        BY InsertAssumption, FS_Interval DEF Base
      <4>. QED BY <4>1, FS_Subset
    <3>4. IsFiniteSet(L) /\ Most(l) \in Nat
      <4>1. GraphOK /\ L \in SUBSET Ids
        BY <1>1 DEF InsertInv, TypesOK
      <4>. QED BY <2>3, <4>1, FiniteIds
    <3>5. Cardinality(L) <= Cardinality(K) /\ Cardinality(L) \in Nat /\ Cardinality(K) \in Nat
      <4>. HIDE DEF L, K, g
      <4>. QED BY <3>2, <3>3, <3>4, FS_Injection, FS_CardinalityType
    <3>. QED BY <3>4, <3>5 DEF Small
  <2>9. On(l) \subseteq T
    <3>1. Connected(l)
      BY <1>1, <2>3, <2>11 DEF AllConnected
    <3>. QED BY <2>7, <2>8, <3>1 DEF Connected
  <2>10. InternalOf(p) \in On(l)
    BY <2>1, <2>2, <2>5 DEF Image
  <2>. QED BY <2>2, <2>9, <2>10
<1>2. InsertInit => ProjOK
  BY DEF InsertInit, ProjOK
<1>. QED BY <1>1, <1>2, ProjStep, ConnectedInit, ConnectedStep, InsertInvariant, PTL DEF InsertSpec

================================================================================
