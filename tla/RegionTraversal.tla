--------------------------- MODULE RegionTraversal ---------------------------
(***************************************************************************)
(* OursSearch::run, the traversal behind search, search_boundary and       *)
(* search_with_strategy.  One queue leads it: a point of a region to search*)
(* best first is expanded alone, a point of a region to flood is the start *)
(* of a flood of its region, and points met across the border of a flooded *)
(* region are queued under their own distance, under the key of the flood  *)
(* (a proxy for a distance not measured), or searched through, as the      *)
(* boundary mode says.                                                     *)
(***************************************************************************)
EXTENDS GraphSearch

CONSTANTS
    RegionOf,    \* region_of
    Plans,       \* the plans a traversal may run with
    Hops         \* struct_hops_

Regs == {RegionOf[p] : p \in Pts}

\* How borders are handled, what decide answers for each region, and the
\* regions whose estimated selectivity lies below sigma_gate.
Plan == [boundary : {"EAGER", "LAZY", "GATED", "STRUCT"},
         strategy : [Regs -> {"FLOOD", "BESTFIRST"}],
         gated : SUBSET Regs]

ASSUME RegionAssumption ==
    DOMAIN RegionOf = Pts /\ Plans \subseteq Plan /\ Plans # {} /\ Hops \in Nat \ {0}

VARIABLES
    plan,
    uq,      \* UQ: pairs of a key and a point
    key,     \* key_x, the key of the point popped last
    vis,     \* pack_[].vis
    bfs,     \* the queue of the flood
    scan,    \* points across the border still to handle
    hopped   \* svis_

regionVars == <<plan, uq, key, vis, bfs, scan, hopped>>

RegionInit ==
    /\ plan \in IF alg = "region" THEN Plans ELSE {CHOOSE p \in Plans : TRUE}
    /\ uq = {} /\ key = 0 /\ vis = {} /\ bfs = {} /\ scan = {} /\ hopped = {}

Own(S) == {<<Dist[p], p>> : p \in S}

\* visit and consider for the points of S.
Considered(S) == Nearest(ef, results \cup (S \cap sat))

RegionDescend == alg = "region" /\ Descend /\ UNCHANGED regionVars

\* two_stage_ off: the traversal starts at the entry point.
SkipDescent ==
    /\ alg = "region" /\ pc = "descend" /\ cur = EntryPoint /\ level = TopLevel /\ level > 0
    /\ level' = 0
    /\ UNCHANGED <<query, pc, cur, measured, results, answer, regionVars>>

RegionStart ==
    /\ alg = "region" /\ Arrived
    /\ pc' = "pop"
    /\ results' = Considered({cur})
    /\ uq' = Own({cur})
    /\ UNCHANGED <<query, level, cur, measured, answer, plan, key, vis, bfs, scan, hopped>>

BestFirst(x) == plan.strategy[RegionOf[x]] = "BESTFIRST"

\* Mutant: a point queued under a proxy key is never measured.
NotOnPop(x) == {}

\* A point queued under a proxy key is measured when it is popped.
OnPop(x) == IF BestFirst(x) /\ x \notin measured THEN {x} ELSE {}

Top == {e \in uq : \A f \in uq : e[1] <= f[1]}

StopsAt(k, res) == Cardinality(res) >= ef /\ k >= WorstOf(res)

\* Mutant: a point is expanded as often as it is popped.
NeverSeen(x) == FALSE

Seen(x) == x \in vis

Pop(e) ==
    /\ alg = "region" /\ pc = "pop" /\ e \in Top
    /\ key' = e[1]
    /\ measured' = measured \cup OnPop(e[2])
    /\ results' = Considered(OnPop(e[2]))
    /\ UNCHANGED <<query, level, cur, plan, hopped>>

PopStop ==
    /\ \E e \in Top : Pop(e) /\ StopsAt(e[1], results') /\ uq' = uq \ {e}
    /\ pc' = "done" /\ answer' = Nearest(K, results')
    /\ UNCHANGED <<vis, bfs, scan>>

PopSeen ==
    /\ \E e \in Top : Pop(e) /\ ~ StopsAt(e[1], results') /\ Seen(e[2]) /\ uq' = uq \ {e}
    /\ UNCHANGED <<pc, answer, vis, bfs, scan>>

\* Expand x alone: every neighbour is measured, considered and queued.
PopBest ==
    /\ alg = "region" /\ pc = "pop"
    /\ \E e \in Top :
        LET x == e[2] IN
        /\ BestFirst(x) /\ ~ Seen(x)
        /\ ~ StopsAt(e[1], Considered(OnPop(x)))
        /\ key' = e[1]
        /\ measured' = measured \cup {x} \cup nbr[x]
        /\ results' = Considered(OnPop(x) \cup nbr[x])
        /\ vis' = vis \cup {x}
        /\ uq' = (uq \ {e}) \cup Own(nbr[x])
    /\ UNCHANGED <<query, pc, level, cur, answer, plan, bfs, scan, hopped>>

PopFlood ==
    /\ \E e \in Top :
        /\ Pop(e) /\ ~ StopsAt(e[1], results')
        /\ ~ BestFirst(e[2]) /\ ~ Seen(e[2])
        /\ uq' = uq \ {e} /\ bfs' = {e[2]}
    /\ pc' = "flood"
    /\ UNCHANGED <<answer, vis, scan>>

RegionFinish ==
    /\ alg = "region" /\ pc = "pop" /\ uq = {}
    /\ Finish(results)
    /\ UNCHANGED regionVars

(***************************************************************************)
(* The flood of one region.  The order of the queue and of the neighbour   *)
(* lists is left open.                                                     *)
(***************************************************************************)
FloodPoint ==
    /\ alg = "region" /\ pc = "flood" /\ scan = {}
    /\ \E u \in bfs \ vis :
        LET same == {v \in nbr[u] : RegionOf[v] = RegionOf[u]} IN
        /\ vis' = vis \cup {u}
        /\ results' = Considered({u})
        /\ measured' = measured \cup ({u} \cap sat)
        /\ bfs' = (bfs \cup same) \ vis'
        /\ scan' = nbr[u] \ same
    /\ UNCHANGED <<query, pc, level, cur, answer, plan, uq, key, hopped>>

FloodEnd ==
    /\ alg = "region" /\ pc = "flood" /\ scan = {} /\ bfs \subseteq vis
    /\ pc' = "pop" /\ bfs' = {}
    /\ UNCHANGED <<query, level, cur, measured, results, answer, plan, uq, key, vis, scan, hopped>>

Shut(v) == v \in vis \/ RegionOf[v] \in plan.gated

\* Mutant: a point across the border is queued and not considered.
QueueOnly(v) ==
    /\ measured' = measured \cup {v}
    /\ uq' = uq \cup Own({v})
    /\ UNCHANGED <<results, hopped>>

\* Measure and consider v, and queue it under its distance.
QueueOwn(v) ==
    /\ measured' = measured \cup {v}
    /\ results' = Considered({v})
    /\ uq' = uq \cup Own({v})
    /\ UNCHANGED hopped

\* Queue v under the key of the flood, unless it has been measured: then it is
\* taken to be in the queue already.
QueueProxy(v) ==
    /\ uq' = IF v \in measured THEN uq ELSE uq \cup {<<key, v>>}
    /\ UNCHANGED <<measured, results, hopped>>

\* struct_reach: the points of each distance up to Hops from v.  A satisfying
\* point is not walked through.
Rings(v) ==
    LET ring[h \in 0 .. Hops] ==
            IF h = 0 THEN [last |-> {v}, all |-> hopped \cup {v}]
            ELSE LET next == {w \in UNION {nbr[u] : u \in ring[h - 1].last \ sat} :
                                ~ Shut(w) /\ w \notin ring[h - 1].all}
                 IN  [last |-> next, all |-> ring[h - 1].all \cup next]
    IN ring[Hops].all

SearchThrough(v) ==
    LET new == IF v \in hopped THEN {} ELSE Rings(v) \ hopped IN
    /\ hopped' = hopped \cup new
    /\ measured' = measured \cup (new \cap sat)
    /\ results' = Considered(new)
    /\ uq' = uq \cup Own(new \cap sat)

\* handle_boundary.
Cross(v) ==
    IF Shut(v) THEN UNCHANGED <<measured, results, uq, hopped>>
    ELSE CASE plan.boundary = "EAGER" -> QueueOwn(v)
           [] plan.boundary = "LAZY"  -> QueueProxy(v)
           [] OTHER -> IF v \in sat THEN QueueOwn(v)
                       ELSE IF plan.boundary = "GATED" THEN QueueProxy(v)
                       ELSE SearchThrough(v)

ScanBorder ==
    /\ alg = "region" /\ pc = "flood"
    /\ \E v \in scan : Cross(v) /\ scan' = scan \ {v}
    /\ UNCHANGED <<query, pc, level, cur, answer, plan, key, vis, bfs>>

RegionNext ==
    \/ RegionDescend \/ SkipDescent \/ RegionStart
    \/ PopStop \/ PopSeen \/ PopBest \/ PopFlood \/ RegionFinish
    \/ FloodPoint \/ FloodEnd \/ ScanBorder

(***************************************************************************)
(* Properties.                                                             *)
(***************************************************************************)

\* The points a border may wrongly take for queued: those that a descent can
\* have measured without queueing them.
OnUpperLayers == {EntryPoint} \cup UNION {Upper[l][p] : l \in 1 .. TopLevel, p \in Pts}
Overlooked ==
    CASE plan.boundary = "EAGER" -> {}
      [] plan.boundary = "LAZY"  -> OnUpperLayers
      [] OTHER                   -> OnUpperLayers \ sat
GatedOff == {p \in Pts : RegionOf[p] \in plan.gated}

\* A traversal that ends with room in its heap has found every satisfying point
\* it can reach without passing a gated region or a point of the upper layers:
\* the proxies, which are queued unmeasured and under another point's key, lose
\* nothing else.
RegionExhaustive ==
    alg = "region" /\ pc = "done" /\ ~ Full /\ plan.boundary # "STRUCT" =>
        ReachAvoiding(cur, Overlooked \cup GatedOff) \cap sat \subseteq results

\* Where every satisfying point met is measured at once, only the worst result
\* can hide a nearer satisfying neighbour: the traversal stops on reaching it.
OnlyWorstHides ==
    alg = "region" /\ pc = "done" /\ plan.boundary # "LAZY" /\ plan.gated = {} =>
        \A p \in results : Dist[p] < Worst =>
            \A q \in nbr[p] \cap sat : Admits(q) => q \in results
=============================================================================
