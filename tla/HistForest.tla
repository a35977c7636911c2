------------------------------ MODULE HistForest ------------------------------
(***************************************************************************)
(* The multi-layer statistics of HISTrees under incremental maintenance:   *)
(* RegionHistogramStats (src/hnsw_stats/stats) together with the RegionMap *)
(* it fills and the tombstones of the HNSW index it reads.                 *)
(*                                                                         *)
(* The candidates are the points of level >= lmat_min that existed at      *)
(* build time; parent_cand makes them a forest.  A candidate is BOUND when *)
(* at least one column keeps a histogram on it; a bound candidate owns a   *)
(* region id, and a point belongs to the region of its finest bound        *)
(* ancestor.  Each column has, per kept region, a histogram of the points  *)
(* below it, and, per region, a presence bitmap.  A search judges a region *)
(* empty for a predicate from the bitmaps (dnf_empty) and then neither     *)
(* evaluates nor enters its points.                                        *)
(***************************************************************************)
EXTENDS Integers, FiniteSets

CONSTANTS
    Pts,         \* the point ids that may ever exist
    Build,       \* the points of the initial build
    Cand,        \* the candidate points
    MaxLevel,    \* max_level of the graph
    Level,       \* Level[c]: the HNSW level of candidate c
    Parent,      \* Parent[c]: its parent candidate, or None for a root
    BuildFca,    \* BuildFca[p]: first candidate on the father chain of p
    BuildVals,   \* the column values the build may start from
    Queries,     \* the DNF predicates a search may ask
    Col,         \* the attribute columns
    Cat,         \* those that are categorical
    Bkt,         \* histogram buckets / category codes of a column
    Unseen,      \* a category that the build did not contain
    Internal,    \* base_to_internal_: the internal id of a base id
    None,        \* kInvU / kNoRow
    MinThresh,   \* smallest change count that triggers a rebuild (16)
    ThreshNum, ThreshDen, \* kRebuildMult = ThreshNum / ThreshDen (1/2)
    MaxRegions   \* bound on region ids (2^24 in OursSearch)

Value(col) == IF col \in Cat THEN Bkt \cup {Unseen} ELSE Bkt
Tuple == {t \in [Col -> Bkt \cup {Unseen}] : \A col \in Col : t[col] \in Value(col)}

\* A father has a strictly higher level, so climbing always ends at a root.
ASSUME ForestAssumption ==
    /\ Cand \subseteq Nat /\ Cand # {} /\ IsFiniteSet(Cand)
    /\ None \notin Nat
    /\ MaxLevel \in Nat /\ Level \in [Cand -> 0 .. MaxLevel]
    /\ Parent \in [Cand -> Cand \cup {None}]
    /\ \A c \in Cand : Parent[c] # None => Level[Parent[c]] > Level[c]

ASSUME PointAssumption ==
    /\ Pts \subseteq Nat /\ IsFiniteSet(Pts)
    /\ Cand \subseteq Build /\ Build \subseteq Pts
    /\ BuildFca \in [Build -> Cand \cup {None}]
    /\ \A c \in Cand : BuildFca[c] = c
    /\ Internal \in [Pts -> Pts]
    /\ \A p \in Build : Internal[p] \in Build
    /\ \A p \in Pts \ Build : Internal[p] = p

\* vals: the buckets (or the unseen category) a satisfying value may fall into;
\* counted: the buckets of which sigma_hat counts a part.  The two differ for an
\* unseen category, and for a numeric atom that reaches beyond the edges of the
\* build: bucket_of clamps values into the outer buckets, cdf (330-331) answers
\* 0 and 1 out there whatever they hold.
Atom == [col : Col, vals : SUBSET (Bkt \cup {Unseen}), counted : SUBSET Bkt]

ASSUME ColumnAssumption ==
    /\ Col # {} /\ Cat \subseteq Col
    /\ Unseen \notin Bkt
    /\ BuildVals \subseteq [Build -> [Col -> Bkt]]
    /\ Queries \subseteq SUBSET SUBSET Atom

ASSUME BoundAssumption ==
    /\ MinThresh \in Nat /\ ThreshNum \in Nat /\ ThreshDen \in Nat \ {0}
    /\ MaxRegions \in Nat

VARIABLES
    flushed,   \* points handed to the statistics (build, then on_insert)
    deleted,   \* points whose tombstone the index has set (is_deleted)
    val,       \* col_values: the tuple of every flushed point
    fca,       \* fca_of / cand_of: first candidate ancestor of a point
    rid,       \* cand_regionid: region id of a bound candidate
    nreg,      \* n_regions_
    regionOf,  \* RegionMap::region_of
    size,      \* region_size_
    hist,      \* counts: hist[col][r][b] for the regions r with a row
    pres,      \* pres_bits_: pairs <<region, bucket>> per column
    degraded,  \* pres_degraded_: columns that met an unseen category
    treeN,     \* lmat_max_n: points per tree
    cntMod,    \* LmatTreeMeta::cnt_mod
    cntDel     \* LmatTreeMeta::cnt_del

vars == <<flushed, deleted, val, fca, rid, nreg, regionOf, size, hist, pres,
          degraded, treeN, cntMod, cntDel>>

(***************************************************************************)
(* The forest.                                                             *)
(***************************************************************************)

Upward(S) == \A c \in S : Parent[c] # None => Parent[c] \in S

\* The candidates met when climbing from a candidate to its root.
Anc == [c \in Cand |->
          {d \in Cand : \A S \in SUBSET Cand : c \in S /\ Upward(S) => d \in S}]

Root == {c \in Cand : Parent[c] = None}

RootOf == [c \in Cand |-> CHOOSE r \in Anc[c] : r \in Root]


\* Mutant: a rebuild takes the candidates of every tree.
AllCands(t) == Cand
TreeCands(t) == {c \in Cand : RootOf[c] = t}

\* Trees are numbered in the order of their roots; tree 0 is the first.
Tree0 == CHOOSE t \in Root : \A u \in Root : t <= u

\* The first member of S on the climb from c.
Nearest(c, S) == CHOOSE d \in Anc[c] \cap S : Anc[c] \cap S \subseteq Anc[d]

Bound(rids) == {c \in Cand : rids[c] # None}

\* Mutant: kNoRow is stored for a point without bound ancestor.
RegionForNoRow(a, rids) ==
    IF a = None \/ Anc[a] \cap Bound(rids) = {} THEN None
    ELSE rids[Nearest(a, Bound(rids))]

\* finest_bound_ancestor_, with region 0 for a point that has none.
RegionFor(a, rids) ==
    IF a = None \/ Anc[a] \cap Bound(rids) = {} THEN 0
    ELSE rids[Nearest(a, Bound(rids))]

\* Mutant: an insertion counts in its finest region only.
FinestRegion(a) == IF a = None THEN {} ELSE {RegionFor(a, rid)}

\* forest_region_boundary_ancestors
BoundaryRegions(a) == IF a = None THEN {} ELSE {rid[c] : c \in Anc[a] \cap Bound(rid)}

\* forest_lmat_max_tree_of: a point without candidate ancestor counts for tree 0.
TreeOf(a) == IF a = None THEN Tree0 ELSE RootOf[a]

Live == flushed \ deleted
Below(c, P, f) == {p \in P : f[p] # None /\ c \in Anc[f[p]]}

\* Mutant: a rebuild rescans only the points whose first candidate is the root.
OnRoot(t, P, f) == {p \in P : f[p] = t}
InTree(t, P, f) == {p \in P : TreeOf(f[p]) = t}


\* Mutant: the decrement is lost.
KeepCount(n) == n
Dec(n) == IF n > 0 THEN n - 1 ELSE 0
CountOf(col, b, P, v) == Cardinality({p \in P : v[p][col] = b})
Owner(r, rids) == CHOOSE c \in Cand : rids[c] = r

\* Mutant: only the points whose first candidate is the owner are counted.
OwnRow(col, r, rids, P, f, v) ==
    [b \in Bkt |-> CountOf(col, b, {p \in P : f[p] = Owner(r, rids)}, v)]

\* The histogram of the points of P below the candidate that owns region r.
Row(col, r, rids, P, f, v) ==
    [b \in Bkt |-> CountOf(col, b, Below(Owner(r, rids), P, f), v)]

\* The columns' choice of kept candidates among S (discard test and budget).
KeptChoices(S) == [Col -> SUBSET S]
KeptBy(K) == UNION {K[col] : col \in Col}

\* Mutant: ids are taken from the smallest one again.
NumberFromZero(S, base) == [c \in S |-> Cardinality({d \in S : d < c})]

\* Region ids handed to the candidates of S in candidate order, from base on.
Number(S, base) == [c \in S |-> base + Cardinality({d \in S : d < c})]

\* The presence bits that the points of P set in a column; a value without a
\* bucket (an unseen category) sets none.
Bits(P, f, rids, v, col) ==
    {<<RegionFor(f[p], rids), v[p][col]>> : p \in {q \in P : v[q][col] \in Bkt}}

\* Mutant: the bitmaps are recomputed from the region_of before the rebuild.
BitmapsBeforeMove(rids, v) ==
    [col \in Col |-> {<<regionOf[p], v[p][col]>> : p \in {q \in flushed : v[q][col] \in Bkt}}]

\* pres_build_: every flushed point, tombstoned or not, sets its bit.
Bitmaps(rids, v) == [col \in Col |-> Bits(flushed, fca, rids, v, col)]

(***************************************************************************)
(* The multi-layer constructor.                                            *)
(***************************************************************************)
Init ==
    /\ flushed = Build
    /\ deleted = {}
    /\ fca = BuildFca
    /\ val \in BuildVals
    /\ \E K \in KeptChoices(Cand \ Root) :
         LET bound == Root \cup KeptBy(K) IN
         /\ nreg = Cardinality(bound)
         /\ nreg <= MaxRegions
         /\ rid = [c \in Cand |-> IF c \in bound THEN Number(bound, 0)[c] ELSE None]
         /\ hist = [col \in Col |-> [r \in {rid[c] : c \in Root \cup K[col]} |->
                                       Row(col, r, rid, Build, fca, val)]]
    /\ regionOf = [p \in Build |-> RegionFor(fca[p], rid)]
    /\ size = [r \in 0 .. nreg - 1 |-> Cardinality(Below(Owner(r, rid), Build, fca))]
    /\ pres = Bitmaps(rid, val)
    /\ degraded = {}
    /\ treeN = [t \in Root |-> Cardinality(Below(t, Build, fca))]
    /\ cntMod = [t \in Root |-> 0]
    /\ cntDel = [t \in Root |-> 0]

(***************************************************************************)
(* rebuild_tree: recount the live points of tree t from their current      *)
(* values, choose the kept histograms anew, retire the regions of          *)
(* candidates no column keeps, number the newly bound ones, and move the   *)
(* live points of the tree.  It runs inside on_update and on_delete, hence *)
(* reads val' and deleted'.                                                *)
(***************************************************************************)
RebuildTree(t) ==
    \E K \in KeptChoices(TreeCands(t) \ {t}) :
        LET bound == {t} \cup KeptBy(K)
            fresh == {c \in bound : rid[c] = None}
            mine  == InTree(t, flushed \ deleted', fca)
            old   == {rid[c] : c \in TreeCands(t) \cap Bound(rid)}
            RowsOf(col) == {rid'[c] : c \in {t} \cup K[col]}
        IN
        /\ nreg' = nreg + Cardinality(fresh)
        /\ nreg' <= MaxRegions
        /\ rid' = [c \in Cand |->
                     IF c \notin TreeCands(t) THEN rid[c]
                     ELSE IF c \notin bound THEN None
                     ELSE IF c \in fresh THEN Number(fresh, nreg)[c]
                     ELSE rid[c]]
        /\ regionOf' = [p \in flushed |->
                          IF p \in mine /\ fca[p] # None THEN RegionFor(fca[p], rid')
                          ELSE regionOf[p]]
        /\ size' = [r \in 0 .. nreg' - 1 |->
                      IF r \in {rid'[c] : c \in bound}
                      THEN Cardinality(Below(Owner(r, rid'), mine, fca))
                      ELSE IF r \in DOMAIN size \ old THEN size[r] ELSE 0]
        /\ hist' = [col \in Col |->
                      [r \in RowsOf(col) \cup (DOMAIN hist[col] \ {rid'[c] : c \in bound}) |->
                         IF r \in RowsOf(col) THEN Row(col, r, rid', mine, fca, val')
                         ELSE hist[col][r]]]
        /\ pres' = Bitmaps(rid', val')
        /\ treeN' = [treeN EXCEPT ![t] = Cardinality(mine)]
        /\ cntMod' = [cntMod EXCEPT ![t] = 0]
        /\ cntDel' = [cntDel EXCEPT ![t] = 0]

\* max(16, kRebuildMult * lmat_max_n)
Thresh(n) == LET m == (ThreshNum * n) \div ThreshDen IN IF m > MinThresh THEN m ELSE MinThresh

\* Mutant: an unseen category leaves the column undegraded.
IgnoreUnseen(w) == degraded

\* pres_degraded_ after the values w were met.
MarkUnseen(w) == degraded \cup {col \in Col : \E t \in w : col \in DOMAIN t /\ t[col] = Unseen}

(***************************************************************************)
(* on_insert of the points of P with tuples w; inc_flush calls it for a    *)
(* batch of consecutive ids.  It is fully eager, and each call only adds,  *)
(* so their order is immaterial.  The father chain of a new point leads to *)
(* an arbitrary candidate, or to none when it ends at a point the          *)
(* statistics do not know yet.                                             *)
(***************************************************************************)
Insert(P, w, a) ==
    LET Hit(r) == {p \in P : r \in BoundaryRegions(a[p])}
        Add(f, g) == [q \in flushed \cup P |-> IF q \in P THEN g[q] ELSE f[q]]
    IN
    /\ P \subseteq Pts \ flushed
    /\ \A p \in P, q \in Pts \ (flushed \cup P) : p < q
    /\ flushed' = flushed \cup P
    /\ val' = Add(val, w)
    /\ fca' = Add(fca, a)
    /\ regionOf' = Add(regionOf, [p \in P |-> RegionFor(a[p], rid)])
    /\ size' = [r \in DOMAIN size |-> size[r] + Cardinality(Hit(r))]
    /\ hist' = [col \in Col |-> [r \in DOMAIN hist[col] |-> [b \in Bkt |->
                  hist[col][r][b] + CountOf(col, b, Hit(r), w)]]]
    /\ treeN' = [t \in Root |-> treeN[t] + Cardinality(InTree(t, P, a))]
    /\ pres' = [col \in Col |-> pres[col] \cup Bits(P, a, rid, w, col)]
    /\ degraded' = MarkUnseen({w[p] : p \in P})
    /\ UNCHANGED <<deleted, rid, nreg, cntMod, cntDel>>

(***************************************************************************)
(* on_update: the value and its presence bit at once, the histograms only  *)
(* when the tree has seen enough modifications.                            *)
(***************************************************************************)
Update(p, col, new) ==
    LET t == TreeOf(fca[p]) IN
    /\ p \in flushed
    /\ val' = [val EXCEPT ![p][col] = new]
    /\ degraded' = MarkUnseen({[c \in {col} |-> new]})
    /\ UNCHANGED <<flushed, deleted, fca>>
    /\ IF cntMod[t] + 1 >= Thresh(treeN[t])
       THEN RebuildTree(t)
       ELSE /\ pres' = [pres EXCEPT ![col] = @ \cup ({regionOf[p]} \X ({new} \cap Bkt))]
            /\ cntMod' = [cntMod EXCEPT ![t] = @ + 1]
            /\ UNCHANGED <<rid, nreg, regionOf, size, hist, treeN, cntDel>>

(***************************************************************************)
(* HnswIndex::remove, then on_delete.  markDelete takes a label and throws *)
(* when that label is already tombstoned; on_delete subtracts the point    *)
(* from the root histograms only.                                          *)
(***************************************************************************)
Delete(p) ==
    LET t == TreeOf(fca[p])
        n == Dec(treeN[t])
        root == rid[RootOf[fca[p]]]
    IN
    /\ p \in flushed
    /\ Internal[p] \notin deleted
    /\ deleted' = deleted \cup {Internal[p]}
    /\ UNCHANGED <<flushed, val, fca, degraded>>
    /\ IF cntDel[t] + 1 >= Thresh(n)
       THEN RebuildTree(t)
       ELSE /\ treeN' = [treeN EXCEPT ![t] = n]
            /\ cntDel' = [cntDel EXCEPT ![t] = @ + 1]
            /\ size' = [r \in DOMAIN size |->
                          IF fca[p] # None /\ r = root THEN Dec(size[r]) ELSE size[r]]
            /\ hist' = [col \in Col |-> [r \in DOMAIN hist[col] |-> [b \in Bkt |->
                          IF fca[p] # None /\ r = root /\ b = val[p][col]
                          THEN Dec(hist[col][r][b]) ELSE hist[col][r][b]]]]
            /\ UNCHANGED <<rid, nreg, regionOf, pres, cntMod>>

\* inc_rebuild_tree: the same rebuild on request.
Rebuild(t) ==
    /\ UNCHANGED <<flushed, deleted, val, fca, degraded>>
    /\ RebuildTree(t)

Next ==
    \/ \E P \in (SUBSET (Pts \ flushed)) \ {{}} :
          \E w \in [P -> Tuple], a \in [P -> Cand \cup {None}] : Insert(P, w, a)
    \/ \E p \in flushed, col \in Col : \E new \in Value(col) : Update(p, col, new)
    \/ \E p \in flushed : Delete(p)
    \/ \E t \in Root : Rebuild(t)

Spec == Init /\ [][Next]_vars

(***************************************************************************)
(* What dnf_empty answers, and what it stands for.                         *)
(***************************************************************************)

\* atom_empty
AtomEmpty(r, a) ==
    /\ Unseen \in a.vals => a.col \notin degraded
    /\ \A b \in a.vals \ {Unseen} : <<r, b>> \notin pres[a.col]

DnfEmpty(r, q) == q # {} /\ \A clause \in q : \E a \in clause : AtomEmpty(r, a)

MaySatisfy(p, q) == \E clause \in q : \A a \in clause : val[p][a.col] \in a.vals

(***************************************************************************)
(* Properties.                                                             *)
(***************************************************************************)

\* Every variable has its type: the tables cover exactly the flushed points,
\* the allotted region ids and the trees.
TypeOK ==
    /\ flushed \in SUBSET Pts /\ Build \subseteq flushed
    /\ deleted \in SUBSET flushed
    /\ val \in [flushed -> Tuple]
    /\ fca \in [flushed -> Cand \cup {None}]
    /\ nreg \in Nat
    /\ rid \in [Cand -> (0 .. nreg - 1) \cup {None}]
    /\ regionOf \in [flushed -> 0 .. nreg - 1]
    /\ size \in [0 .. nreg - 1 -> Nat]
    /\ \A col \in Col : DOMAIN hist[col] \subseteq 0 .. nreg - 1
    /\ \A col \in Col : \A r \in DOMAIN hist[col] : hist[col][r] \in [Bkt -> Nat]
    /\ pres \in [Col -> SUBSET ((0 .. nreg - 1) \X Bkt)]
    /\ degraded \in SUBSET Cat
    /\ treeN \in [Root -> Nat] /\ cntMod \in [Root -> Nat] /\ cntDel \in [Root -> Nat]

\* The discard test is sound after any history of inserts, updates, deletes
\* and rebuilds: a region that dnf_empty calls empty for a predicate holds no
\* live point that satisfies the predicate.
DiscardSafe ==
    \A q \in Queries : \A p \in Live : DnfEmpty(regionOf[p], q) => ~ MaySatisfy(p, q)

\* region_of of a live point is the region of its finest bound ancestor, so no
\* live point is ever left in a region that a rebuild retired.
RegionCurrent == \A p \in Live : regionOf[p] = RegionFor(fca[p], rid)

\* No two candidates own the same region.
RidInjective == \A c, d \in Bound(rid) : rid[c] = rid[d] => c = d

\* A root always owns a region, and its region_size is the number of live
\* points of its tree; a finer region may only overcount (deletes are lazy
\* below the root).
SizesCover ==
    /\ \A t \in Root : rid[t] # None /\ size[rid[t]] = Cardinality(Below(t, Live, fca))
    /\ \A c \in Bound(rid) : size[rid[c]] >= Cardinality(Below(c, Live, fca))

\* A histogram misjudges a bucket by at most the number of updates its tree has
\* seen since it was rebuilt: downwards in every row, in both directions at a
\* root.  Without updates no bucket of a live value reads zero.
HistDrift ==
    \A col \in Col : \A c \in Bound(rid) : rid[c] \in DOMAIN hist[col] =>
        \A b \in Bkt :
            LET actual == CountOf(col, b, Below(c, Live, fca), val)
                kept   == hist[col][rid[c]][b]
                slack  == cntMod[RootOf[c]]
            IN /\ kept + slack >= actual
               /\ c \in Root => kept <= actual + slack

\* lmat_max_n never exceeds the live points attributed to the tree, so the
\* rebuild threshold is never too lax.
TreeCountSafe == \A t \in Root : treeN[t] <= Cardinality(InTree(t, Live, fca))

\* A candidate that becomes bound gets an id no candidate ever had: a cached
\* region id never comes to mean another region.
FreshRegionIds ==
    [][\A c \in Cand : rid'[c] \notin {rid[c], None} => rid'[c] >= nreg]_vars

\* A rebuild is isolated to its tree, and so is every other operation on one
\* point: of the forest, one step changes region ids, sizes, histograms and the
\* regions of points in one tree only.
OneTreeTouched ==
    [][flushed' = flushed =>
          \E t \in Root :
             /\ \A c \in Cand : t \notin Anc[c] =>
                   /\ rid'[c] = rid[c]
                   /\ rid[c] # None =>
                        /\ size'[rid[c]] = size[rid[c]]
                        /\ \A col \in Col : rid[c] \in DOMAIN hist[col] =>
                              hist'[col][rid[c]] = hist[col][rid[c]]
             /\ \A p \in flushed : fca[p] = None \/ t \notin Anc[fca[p]]
                   => regionOf'[p] = regionOf[p]]_vars
=============================================================================
