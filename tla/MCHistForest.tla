----------------------------- MODULE MCHistForest -----------------------------
(***************************************************************************)
(* Small forests for TLC.                                                  *)
(*   two trees: root 0 with child 1, root 2, one column, one insertion;    *)
(*   one tree:  root 0 with child 1, one column, one insertion.            *)
(***************************************************************************)
EXTENDS HistForest

CONSTANT NoC

Candidate(S, roots) ==
    [level |-> [c \in S |-> IF c \in roots THEN 2 ELSE 1],
     parent |-> [c \in S |-> IF c \in roots THEN NoC ELSE 0]]

TwoPts == 0 .. 3
TwoBuild == 0 .. 2
TwoCand == {0, 1, 2}
TwoLevel == Candidate(TwoCand, {0, 2}).level
TwoParent == Candidate(TwoCand, {0, 2}).parent
TwoFca == [p \in TwoBuild |-> p]

OnePts == 0 .. 2
OneBuild == 0 .. 1
OneCand == {0, 1}
OneLevel == Candidate(OneCand, {0}).level
OneParent == Candidate(OneCand, {0}).parent
OneFca == [p \in OneBuild |-> p]

Identity == [p \in Pts |-> p]
Buckets == 0 .. 1
Tag == {"tag"}
NoCat == {}
\* Build points alternate between the two buckets.
StartVals == {[p \in Build |-> [col \in Col |-> p % 2]]}

\* Predicates: single atoms, conjunctions of two atoms, disjunctions of two.
CatAtoms(col) == {[col |-> col, vals |-> {w}, counted |-> {w} \cap Bkt] : w \in Value(col)}
NumAtoms(col) ==
    {[col |-> col, vals |-> lo .. hi, counted |-> lo .. hi] : lo \in Buckets, hi \in Buckets}
Atoms == UNION {IF col \in Cat THEN CatAtoms(col) ELSE NumAtoms(col) : col \in Col}
AtomPairs == {{a, b} : a \in Atoms, b \in Atoms}
SmallQueries == {{c} : c \in AtomPairs} \cup {{{a} : a \in c} : c \in AtomPairs}

\* The rows of retired regions are read by nothing.
UsedRows == [col \in Col |->
               [c \in {d \in Bound(rid) : rid[d] \in DOMAIN hist[col]} |-> hist[col][rid[c]]]]

\* The histograms never influence the other tables, and no table reads the
\* bitmaps: each family of properties is checked on the state it depends on.
\* (The last conjunct is TRUE; it makes TLC evaluate the bitmaps it stores.)
PresenceView == <<flushed, deleted, val, fca, rid, nreg, regionOf, pres, degraded,
                  treeN, cntMod, cntDel>>
CountView == <<flushed, deleted, val, fca, rid, nreg, size, UsedRows, treeN, cntMod, cntDel,
               \A col \in Col : Cardinality(pres[col]) >= 0>>
=============================================================================
