----------------------------- MODULE GraphSearch -----------------------------
(***************************************************************************)
(* What the searches over one HNSW graph share: a greedy descent through   *)
(* the upper layers to a start point on layer 0, a heap of the ef nearest  *)
(* results, and the first K of them as the answer.  BeamSearch, NavixSearch*)
(* and RegionTraversal add how each walks layer 0.                         *)
(***************************************************************************)
EXTENDS Integers, FiniteSets

CONSTANTS
    Pts,         \* the points of the graph
    Graphs,      \* the layers 0 to search: functions from points to neighbours
    Upper,       \* Upper[l][p]: the neighbours of p on layer l > 0
    TopLevel,    \* max_level
    EntryPoint,
    Dist,        \* Dist[p]: rank of p by distance to the query
    K,           \* number of answers
    Efs,         \* the ef that callers pass
    Truths,      \* the sets of points that may satisfy the predicate
    Algs         \* the searches to run: "beam", "navix", "region"

ASSUME SearchAssumption ==
    /\ Pts \subseteq Nat /\ IsFiniteSet(Pts) /\ EntryPoint \in Pts
    /\ Graphs \subseteq [Pts -> SUBSET Pts]
    /\ TopLevel \in Nat /\ Upper \in [1 .. TopLevel -> [Pts -> SUBSET Pts]]
    /\ Dist \in [Pts -> Nat] /\ \A p, q \in Pts : Dist[p] = Dist[q] => p = q
    /\ K \in Nat \ {0} /\ Efs \subseteq Int /\ Truths \subseteq SUBSET Pts

VARIABLES
    alg,       \* which search this is
    nbr,       \* its layer 0
    sat,       \* the points its predicate accepts
    ef,        \* its ef, after the adjustment each search starts with
    pc,
    level,     \* the layer the descent is on
    cur,       \* the point the descent is at
    measured,  \* stamp_: the points whose distance is known
    results,   \* the result heap
    answer     \* the ids returned

query == <<alg, nbr, sat, ef>>
base == <<query, pc, level, cur, measured, results, answer>>

\* Mutant: the heap grows by one.
OneMore(n, S) == {p \in S : Cardinality({q \in S : Dist[q] < Dist[p]}) <= n}

\* The n nearest points of S.
Nearest(n, S) == {p \in S : Cardinality({q \in S : Dist[q] < Dist[p]}) < n}
First(S) == CHOOSE p \in S : \A q \in S : Dist[p] <= Dist[q]

Full == Cardinality(results) >= ef
WorstOf(S) == CHOOSE d \in {Dist[q] : q \in S} : \A q \in S : Dist[q] <= d
Worst == WorstOf(results)

\* A point that enters the heap: there is room, or it beats the worst result.
Admits(p) == ~ Full \/ Dist[p] < Worst

EfFor(a, e) == IF a = "beam" THEN (IF e < 1 THEN 1 ELSE e) ELSE (IF e < K THEN K ELSE e)

BaseInit ==
    /\ alg \in Algs /\ nbr \in Graphs /\ sat \in Truths
    /\ ef \in {EfFor(alg, e) : e \in Efs}
    /\ pc = "descend" /\ level = TopLevel /\ cur = EntryPoint
    /\ measured = {EntryPoint}
    /\ results = {} /\ answer = {}

\* One pass over the neighbours of the current point on an upper layer; the
\* layer is left when none of them is nearer.
Descend ==
    /\ pc = "descend" /\ level > 0
    /\ cur' = First({cur} \cup Upper[level][cur])
    /\ measured' = measured \cup Upper[level][cur]
    /\ level' = IF cur' = cur THEN level - 1 ELSE level
    /\ UNCHANGED <<query, pc, results, answer>>

Arrived == pc = "descend" /\ level = 0

Finish(S) ==
    /\ pc' = "done"
    /\ answer' = Nearest(K, S)
    /\ UNCHANGED <<query, level, cur, measured, results>>

\* The points that paths from v lead to, when none passes through A.
ReachAvoiding(v, A) ==
    {p \in Pts : \A S \in SUBSET Pts : v \in S /\ (\A u \in S : nbr[u] \ A \subseteq S) => p \in S}
Reachable(v) == ReachAvoiding(v, {})

\* The variables every search has keep their types.
BaseTypeOK ==
    /\ alg \in Algs /\ nbr \in Graphs /\ sat \subseteq Pts /\ ef \in Nat \ {0}
    /\ level \in 0 .. TopLevel /\ cur \in measured /\ measured \subseteq Pts
    /\ results \subseteq measured /\ Cardinality(results) <= ef
    /\ answer \subseteq results /\ Cardinality(answer) <= K
=============================================================================
