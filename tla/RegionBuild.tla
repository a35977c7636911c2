----------------------------- MODULE RegionBuild -----------------------------
(***************************************************************************)
(* The single-layer region builders on the projected index: the forest     *)
(* builder, which cuts the father chains at level ell, and the             *)
(* hub-Voronoi builder, which lets the points of level ell grow regions    *)
(* along the links, each point going to the region whose anchor's key      *)
(* reaches it first.                                                       *)
(***************************************************************************)
EXTENDS ParallelInsert, FiniteSetsExt

CONSTANT Ells      \* the values of ell_

\* No distance is the absence of one.
ASSUME RegionAssumption == None \notin Nat

VARIABLE regions   \* the region map under construction, None before

Hubs(ell) == {p \in Base : proj.level[p] >= ell}

RegionInit == regions = None

(***************************************************************************)
(* ForestRegionBuilder.                                                    *)
(***************************************************************************)

\* Where the father chain of a point first meets a hub or ends.
Climb(ell) ==
    LET top_of[p \in Base] == IF p \in Hubs(ell) \/ proj.father[p] = p
                              THEN p ELSE top_of[proj.father[p]] IN
    top_of

\* Hubs are numbered first, by id; then the other ends, as points reach them.
Forest(ell) ==
    LET end == Climb(ell)
        lone == {end[p] : p \in Base} \ Hubs(ell)
        Reached(r) == Min({p \in Base : end[p] = r})
        Number(r) == IF r \in Hubs(ell) THEN Cardinality({h \in Hubs(ell) : h < r})
                     ELSE Cardinality(Hubs(ell))
                              + Cardinality({s \in lone : Reached(s) < Reached(r)}) IN
    [done |-> TRUE, ell |-> ell, of |-> [p \in Base |-> Number(end[p])],
     parent |-> proj.father, n |-> Cardinality(Hubs(ell)) + Cardinality(lone)]

ForestBuild ==
    /\ proj # None /\ regions = None
    /\ \E ell \in Ells : regions' = Forest(ell)
    /\ UNCHANGED insertVars

(***************************************************************************)
(* HubVoronoiRegionBuilder.                                                *)
(***************************************************************************)

Unassigned == -1
Ranked(S, p) == Cardinality({q \in S : q < p})

\* Without a point on level ell the entry point is the only anchor.
HubStart ==
    /\ proj # None /\ regions = None
    /\ \E ell \in Ells :
         LET anchors == IF Hubs(ell) = {} THEN {proj.entry} ELSE Hubs(ell) IN
         regions' = [done |-> FALSE, ell |-> ell, anchors |-> anchors,
                     of |-> [p \in Base |-> Unassigned], parent |-> [p \in Base |-> 0],
                     best |-> [p \in Base |-> IF p \in anchors THEN 0 ELSE None],
                     pq |-> {[key |-> 0, u |-> a, from |-> a, parent |-> a] : a \in anchors}]
    /\ UNCHANGED insertVars

Growing == regions # None /\ ~ regions.done

\* Mutant: a point taken from the queue again is assigned again.
AssignAgain(u) == TRUE

\* settled[u]: a point is assigned when it is first taken from the queue.
FirstTime(u) == regions.of[u] = Unassigned

HubPop ==
    /\ Growing /\ regions.pq # {}
    /\ \E e \in regions.pq :
         /\ \A f \in regions.pq : e.key <= f.key
         /\ LET Closer(v) == /\ regions.of[v] = Unassigned /\ v # e.u
                             /\ regions.best[v] # None => Apart[v][e.from] < regions.best[v]
                near == {v \in proj.nbr[0][e.u] : Closer(v)} IN
            regions' = IF FirstTime(e.u)
                       THEN [regions EXCEPT
                               !.of[e.u] = Ranked(regions.anchors, e.from),
                               !.parent[e.u] = e.parent,
                               !.best = [v \in Base |-> IF v \in near THEN Apart[v][e.from] ELSE @[v]],
                               !.pq = (@ \ {e}) \cup {[key |-> Apart[v][e.from], u |-> v,
                                                       from |-> e.from, parent |-> e.u] : v \in near}]
                       ELSE [regions EXCEPT !.pq = @ \ {e}]
    /\ UNCHANGED insertVars

\* Points no anchor reaches become regions of their own.
HubEnd ==
    /\ Growing /\ regions.pq = {}
    /\ LET left == {p \in Base : regions.of[p] = Unassigned}
           k == Cardinality(regions.anchors) IN
       regions' = [done |-> TRUE, ell |-> regions.ell, n |-> k + Cardinality(left),
                   of |-> [p \in Base |-> IF p \in left THEN k + Ranked(left, p) ELSE regions.of[p]],
                   parent |-> [p \in Base |-> IF p \in left THEN p ELSE regions.parent[p]]]
    /\ UNCHANGED insertVars

RegionNext == ForestBuild \/ HubStart \/ HubPop \/ HubEnd

\* The regions are numbered without gaps, and each is a tree: exactly one of
\* its points is its own parent or has its parent in another region, the latter
\* only on level ell and above; every other point's parent is in the region, and
\* following parents never goes round in a circle (tests/region_test.cpp:41-49,
\* 64-88).
RegionsAreTrees ==
    regions # None /\ regions.done =>
        LET of == regions.of
            par == regions.parent
            Tops(r) == {p \in Base : of[p] = r /\ (par[p] = p \/ of[par[p]] # r)} IN
        /\ {of[p] : p \in Base} = 0 .. regions.n - 1
        /\ \A r \in 0 .. regions.n - 1 : Cardinality(Tops(r)) = 1
        /\ \A p \in Base : of[par[p]] # of[p] => proj.level[p] >= regions.ell
        /\ \A S \in SUBSET Base : S # {} /\ (\A p \in S : par[p] \in S) => \E p \in S : par[p] = p
=============================================================================
