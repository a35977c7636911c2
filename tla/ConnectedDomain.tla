--------------------------- MODULE ConnectedDomain ---------------------------
(***************************************************************************)
(* One call of OursSearch::knn_search_connected_domain (core/search): the  *)
(* filtered nearest-neighbour search that crosses the base graph region by *)
(* region.                                                                 *)
(*                                                                         *)
(* A region is entered through one of its points and is then either        *)
(* FLOODED (spread_B: breadth first, or member slice by member slice) or   *)
(* searched BEST FIRST (spread_C).  Points met in other regions are listed *)
(* as the entries of the next round (the case loop).  Regions that the     *)
(* presence bitmaps judge empty are crossed on the region adjacency        *)
(* (transp_core) without looking at their points.                          *)
(*                                                                         *)
(* Cost estimates are abstracted to arbitrary decisions, distances to a    *)
(* ranking of the points, and the first-in-first-out queues and adjacency  *)
(* lists to sets taken from in any order.  The region ids in pack_[] and   *)
(* the tables are current, and ef = K.                                     *)
(***************************************************************************)
EXTENDS Integers, FiniteSets

CONSTANTS
    Pts,        \* the points of the base graph
    Nbr,        \* Nbr[p]: the neighbours of p on layer 0
    RegionOf,   \* RegionOf[p]: region_of of p
    Dist,       \* Dist[p]: rank of p by distance to the query
    Far,        \* a rank above all of them
    K,          \* number of results
    Entries,    \* the points the descent may end at
    Truths,     \* the sets of points that may satisfy the predicate
    Modes,      \* the settings a search may run with
    MaxReplays  \* bound on replays of the frontier (4)

Setting == [transparent : BOOLEAN, membership : BOOLEAN, es2 : BOOLEAN, phase2 : BOOLEAN]

ASSUME GraphAssumption ==
    /\ Pts \subseteq Nat /\ IsFiniteSet(Pts)
    /\ Nbr \in [Pts -> SUBSET Pts]
    /\ DOMAIN RegionOf = Pts

ASSUME QueryAssumption ==
    /\ Dist \in [Pts -> Nat] /\ Far \in Nat
    /\ \A p, q \in Pts : Dist[p] = Dist[q] => p = q
    /\ \A p \in Pts : Dist[p] < Far
    /\ K \in Nat \ {0} /\ MaxReplays \in Nat
    /\ Entries \subseteq Pts /\ Truths \subseteq SUBSET Pts /\ Modes \subseteq Setting

Regs(S) == {RegionOf[p] : p \in S}
Members(r) == {p \in Pts : RegionOf[p] = r}

\* The tables of build_tadj_: the regions next to r, and the points of region n
\* that an edge out of r leads to; one of them represents n in the table.
Adj(r) == Regs(UNION {Nbr[u] : u \in Members(r)}) \ {r}
Across(r, n) == {v \in Members(n) : \E u \in Members(r) : v \in Nbr[u]}

VARIABLES
    mode,        \* transparent_, membership_, enable_es2, enable_phase2
    entry,       \* v0, where the descent on the upper layers ended
    sat,         \* the points that peval accepts
    hollow,      \* the regions that region_empty judges empty
    pc,          \* round, best, diffuse, flood, sweep or done
    pure,        \* the spread has the round to itself (case 1 or 2)
    vis,         \* pack_[].vis of this search
    results,     \* the result heap
    ABs, ACs,    \* entries to flood from and to search best first from
    newB, newC,  \* those listed by the current spread
    sfr,         \* sfr_stamp_: the regions the current spread may walk in
    work,        \* sc_heap, sb_bq, or the region queue mb_rq_
    scan,        \* neighbours of the point, or entries next to the region, at hand
    ph2,         \* sc_ph2
    svis2,       \* svis2_
    swept,       \* mb_stamp_
    stranded,    \* history: entries still listed when their region was stamped
    tvis,        \* tvis_region_
    frontier,    \* tcomp_frontier_: non-empty regions met on crossings
    replays,     \* transp_replay_cnt_
    replayWorst  \* transp_replay_worst_

query == <<mode, entry, sat, hollow>>
crossing == <<tvis, frontier>>
replay == <<replays, replayWorst>>
stamps == <<swept, stranded>>
vars == <<query, pc, pure, vis, results, ABs, ACs, newB, newC, sfr, work, scan,
          ph2, svis2, stamps, crossing, replay>>

(***************************************************************************)
(* Results: a heap of the K nearest satisfying points evaluated so far.    *)
(***************************************************************************)

\* Mutant: the heap grows to K + 1.
LongBest(S) == {p \in S : Cardinality({q \in S : Dist[q] < Dist[p]}) <= K}

Best(S) == {p \in S : Cardinality({q \in S : Dist[q] < Dist[p]}) < K}

\* peval and consider for the points of S.
Admitted(S) == Best(results \cup (S \cap sat))
Full(res) == Cardinality(res) >= K

\* d < cur_worst
Closer(p, res) == Full(res) => \E q \in res : Dist[p] < Dist[q]
Worst == IF Full(results)
         THEN CHOOSE d \in {Dist[q] : q \in results} : \A q \in results : Dist[q] <= d
         ELSE Far

(***************************************************************************)
(* Listing entries for the next round.                                     *)
(***************************************************************************)

\* An empty region costs nothing to flood and cannot pay for a best-first
\* search before the results are full; otherwise the estimates decide.
MayBest(p) == RegionOf[p] \notin hollow \/ Full(results)

\* Mutant: every crossing point stays visited, listed or not.
ListKeepsVisited(S, F, marked) ==
    /\ newB' = newB \cup {p \in F : RegionOf[p] \notin Regs(newB)}
    /\ newC' = newC \cup {p \in S \ F : RegionOf[p] \notin Regs(newC)}
    /\ vis' = vis \cup marked \cup S

\* List the points of S, those in F for flooding: one entry per region and
\* list.  An entry of a region that is listed already is un-visited again.
List(S, F, marked) ==
    /\ newB' = newB \cup {p \in F : RegionOf[p] \notin Regs(newB)}
    /\ newC' = newC \cup {p \in S \ F : RegionOf[p] \notin Regs(newC)}
    /\ vis' = vis \cup marked \cup (newB' \ newB) \cup (newC' \ newC)

\* The entry used for region n: its representative, else the first member of
\* the slice not visited yet, else none.
SeedFor(n, rep) ==
    IF rep \notin vis THEN {rep}
    ELSE {p \in Members(n) \ vis : \A q \in Members(n) \ vis : p <= q}

(***************************************************************************)
(* transp_core: cross the empty regions connected to r, and list an entry  *)
(* of every non-empty region around them.                                  *)
(***************************************************************************)
Hollows(r) ==
    {s \in Regs(Pts) : \A S \in SUBSET Regs(Pts) :
        r \in S /\ (\A u \in S : (Adj(u) \cap hollow) \ tvis \subseteq S) => s \in S}

\* Mutant: empty regions around the crossing are listed like the others.
RimAll(r) == (UNION {Adj(u) : u \in Hollows(r)}) \ tvis

Rim(r) == (UNION {Adj(u) : u \in Hollows(r)}) \ (tvis \cup hollow)

Transit(r, marked) ==
    IF r \in tvis
    THEN /\ vis' = vis \cup marked
         /\ UNCHANGED <<newB, newC, crossing>>
    ELSE \E rep \in [Rim(r) -> Pts], F \in SUBSET Rim(r) :
            LET seeds == UNION {SeedFor(n, rep[n]) : n \in Rim(r)} IN
            /\ \A n \in Rim(r) : \E u \in Hollows(r) : rep[n] \in Across(u, n)
            /\ tvis' = tvis \cup Hollows(r) \cup Rim(r)
            /\ frontier' = frontier \cup {<<n, rep[n]>> : n \in Rim(r)}
            /\ List(seeds, {p \in seeds : RegionOf[p] \in F}, marked)

Crosses(e) == mode.transparent /\ RegionOf[e] \in hollow

(***************************************************************************)
(* The search starts at the end of the descent.                            *)
(***************************************************************************)
Init ==
    /\ mode \in Modes /\ entry \in Entries /\ sat \in Truths
    /\ hollow \in {H \in SUBSET Regs(Pts) : H \cap Regs(sat) = {}}
    /\ pc = "round" /\ pure = FALSE
    /\ vis = {entry}
    /\ results = Best({entry} \cap sat)
    /\ \/ ABs = {entry} /\ ACs = {}
       \/ RegionOf[entry] \notin hollow /\ ABs = {} /\ ACs = {entry}
    /\ newB = {} /\ newC = {} /\ sfr = {} /\ work = {} /\ scan = {} /\ ph2 = {}
    /\ svis2 = {} /\ swept = {} /\ stranded = {}
    /\ tvis = {} /\ frontier = {}
    /\ replays = 0 /\ replayWorst = Far

(***************************************************************************)
(* The case loop: a round spreads from one of the two lists.               *)
(***************************************************************************)
\* Mutant: the entries that waited for a best-first spread are dropped.
ForgottenACs == newC

\* The spread took one of the lists; the other keeps its entries.
nABs == ABs \cup newB
nACs == ACs \cup newC

Begin(seeds, lone) ==
    /\ pc = "round"
    /\ seeds # {}
    /\ pure' = lone
    /\ vis' = vis \cup seeds
    /\ results' = Admitted(seeds)
    /\ newB' = {} /\ newC' = {} /\ scan' = {} /\ ph2' = {}
    /\ UNCHANGED <<query, ABs, ACs, svis2, crossing, replay>>

BeginBest ==
    /\ Begin(ACs, ABs = {})
    /\ pc' = "best" /\ sfr' = Regs(ACs) /\ work' = ACs
    /\ UNCHANGED stamps

BeginFlood ==
    /\ ~ mode.membership
    /\ Begin(ABs, ACs = {})
    /\ pc' = "flood" /\ sfr' = Regs(ABs) /\ work' = ABs
    /\ UNCHANGED stamps

BeginSweep ==
    /\ mode.membership
    /\ Begin(ABs, ACs = {})
    /\ pc' = "sweep" /\ sfr' = Regs(ABs)
    /\ work' = Regs(ABs) \ swept
    /\ swept' = swept \cup Regs(ABs)
    /\ UNCHANGED stranded

Finish ==
    /\ pc = "round" /\ ABs = {} /\ ACs = {}
    /\ pc' = "done"
    /\ UNCHANGED <<query, pure, vis, results, ABs, ACs, newB, newC, sfr, work, scan,
                   ph2, svis2, stamps, crossing, replay>>

\* What is left of scan; points visited meanwhile are passed over.
Pending ==
    CASE pc = "sweep"   -> {e \in scan : RegionOf[e] \notin swept}
      [] pc = "diffuse" -> {e \in scan \ vis : RegionOf[e] \in sfr => e \notin svis2}
      [] OTHER          -> scan \ vis

(***************************************************************************)
(* spread_C, first phase: best first inside the regions of sfr, with one   *)
(* shortcut: a spread that has the round to itself walks into other        *)
(* best-first regions instead of listing them.                             *)
(***************************************************************************)
NextBest == CHOOSE v \in work : \A u \in work : Dist[v] <= Dist[u]

ExpandBest ==
    /\ pc = "best" /\ Pending = {} /\ work # {}
    /\ Closer(NextBest, results)
    /\ scan' = Nbr[NextBest]
    /\ work' = work \ {NextBest}
    /\ UNCHANGED <<query, pc, pure, vis, results, ABs, ACs, newB, newC, sfr, ph2,
                   svis2, stamps, crossing, replay>>

\* Evaluate e; walk on from it if it is close enough, else in phase two.
VisitBest(e) ==
    /\ vis' = vis \cup {e}
    /\ results' = Admitted({e})
    /\ IF Closer(e, results') THEN work' = work \cup {e} /\ UNCHANGED ph2
       ELSE ph2' = ph2 \cup {e} /\ UNCHANGED work

ScanInside(e) ==
    /\ RegionOf[e] \in sfr
    /\ VisitBest(e)
    /\ UNCHANGED <<newB, newC, sfr, crossing>>

ScanHollow(e) ==
    /\ RegionOf[e] \notin sfr
    /\ Crosses(e)
    /\ Transit(RegionOf[e], {e})
    /\ UNCHANGED <<results, sfr, work, ph2>>

WalksOn == pure /\ newB = {}

ScanWalk(e) ==
    /\ RegionOf[e] \notin sfr
    /\ ~ Crosses(e)
    /\ WalksOn /\ MayBest(e)
    /\ VisitBest(e)
    /\ sfr' = IF e \in ph2' THEN sfr ELSE sfr \cup {RegionOf[e]}
    /\ UNCHANGED <<newB, newC, crossing>>

ScanList(e) ==
    /\ RegionOf[e] \notin sfr
    /\ ~ Crosses(e)
    /\ \/ List({e}, {e}, {})
       \/ MayBest(e) /\ ~ WalksOn /\ List({e}, {}, {})
    /\ UNCHANGED <<results, sfr, work, ph2, crossing>>

ScanBest ==
    /\ pc = "best"
    /\ \E e \in Pending :
        /\ scan' = scan \ {e}
        /\ \/ ScanInside(e)
           \/ ScanHollow(e)
           \/ ScanWalk(e)
           \/ ScanList(e)
    /\ UNCHANGED <<query, pc, pure, ABs, ACs, svis2, stamps, replay>>

\* The nearest point of the heap is no closer than the worst result: the heap
\* is dropped.  Alone and with nothing listed, the search replays the frontier
\* of its crossings if the worst result has improved, else it ends (es2).
AtStop == pc = "best" /\ Pending = {} /\ work # {} /\ ~ Closer(NextBest, results)
Alone == pure /\ newB = {} /\ newC = {}
Again == Alone /\ tvis # {} /\ Worst < replayWorst /\ replays < MaxReplays

Drop == work' = {} /\ scan' = {}
        /\ UNCHANGED <<query, pure, results, ABs, ACs, sfr, ph2, svis2, stamps, crossing>>

Replay ==
    /\ AtStop /\ Again
    /\ replayWorst' = Worst /\ replays' = replays + 1
    /\ LET seeds == UNION {SeedFor(x[1], x[2]) : x \in frontier} IN
       \E F \in SUBSET seeds : List(seeds, F, {})
    /\ pc' = IF newB' \cup newC' = {} /\ mode.es2 THEN "done" ELSE "diffuse"
    /\ Drop

EarlyStop ==
    /\ AtStop /\ Alone /\ ~ Again
    /\ mode.es2
    /\ pc' = "done"
    /\ UNCHANGED <<vis, newB, newC, replay>>
    /\ Drop

BoundaryStop ==
    /\ AtStop /\ ~ Again
    /\ ~ (Alone /\ mode.es2)
    /\ pc' = "diffuse"
    /\ UNCHANGED <<vis, newB, newC, replay>>
    /\ Drop

HeapEmpty ==
    /\ pc = "best" /\ Pending = {} /\ work = {}
    /\ pc' = "diffuse"
    /\ UNCHANGED <<vis, newB, newC, replay>>
    /\ Drop

(***************************************************************************)
(* spread_C, second phase: from the points that were not close enough,     *)
(* walk on inside the regions of sfr without evaluating, only to find      *)
(* crossings.                                                              *)
(***************************************************************************)
Diffuse ==
    /\ pc = "diffuse" /\ Pending = {}
    /\ \E v \in ph2 : ph2' = ph2 \ {v} /\ scan' = Nbr[v]
    /\ UNCHANGED <<query, pc, pure, vis, results, ABs, ACs, newB, newC, sfr, work,
                   svis2, stamps, crossing, replay>>

DiffuseInside(e) ==
    /\ RegionOf[e] \in sfr
    /\ svis2' = svis2 \cup {e}
    /\ ph2' = ph2 \cup {e}
    /\ IF mode.phase2 THEN UNCHANGED <<vis, results>>
       ELSE vis' = vis \cup {e} /\ results' = Admitted({e})
    /\ UNCHANGED <<newB, newC, crossing>>

DiffuseCross(e) ==
    /\ RegionOf[e] \notin sfr
    /\ IF Crosses(e) THEN Transit(RegionOf[e], {e})
       ELSE /\ \/ List({e}, {e}, {})
               \/ MayBest(e) /\ List({e}, {}, {})
            /\ UNCHANGED crossing
    /\ UNCHANGED <<results, svis2, ph2>>

ScanDiffuse ==
    /\ pc = "diffuse"
    /\ \E e \in Pending :
        /\ scan' = scan \ {e}
        /\ DiffuseInside(e) \/ DiffuseCross(e)
    /\ UNCHANGED <<query, pc, pure, ABs, ACs, sfr, work, stamps, replay>>

EndBest ==
    /\ pc = "diffuse" /\ Pending = {} /\ ph2 = {}
    /\ pc' = "round"
    /\ ABs' = nABs /\ ACs' = newC
    /\ UNCHANGED <<query, pure, vis, results, newB, newC, sfr, work, scan, ph2,
                   svis2, stamps, crossing, replay>>

(***************************************************************************)
(* spread_B over the graph: breadth first inside the regions of sfr, and   *)
(* into other regions to flood while the gate stays open.                  *)
(***************************************************************************)
ExpandFlood ==
    /\ pc = "flood" /\ Pending = {}
    /\ \E v \in work : work' = work \ {v} /\ scan' = Nbr[v]
    /\ UNCHANGED <<query, pc, pure, vis, results, ABs, ACs, newB, newC, sfr, ph2,
                   svis2, stamps, crossing, replay>>

\* With nothing to search best first there is no reason to wait.
GateMustOpen == pure /\ newC = {}

FloodVisit(e) ==
    /\ vis' = vis \cup {e}
    /\ results' = Admitted({e})
    /\ work' = work \cup {e}
    /\ sfr' = sfr \cup {RegionOf[e]}
    /\ UNCHANGED <<newB, newC, crossing>>

FloodCross(e) ==
    /\ RegionOf[e] \notin sfr
    /\ IF Crosses(e) THEN Transit(RegionOf[e], {e})
       ELSE /\ \/ ~ GateMustOpen /\ List({e}, {e}, {})
               \/ MayBest(e) /\ List({e}, {}, {})
            /\ UNCHANGED crossing
    /\ UNCHANGED <<results, work, sfr>>

ScanFlood ==
    /\ pc = "flood"
    /\ \E e \in Pending :
        /\ scan' = scan \ {e}
        /\ \/ (RegionOf[e] \in sfr \/ ~ Crosses(e)) /\ FloodVisit(e)
           \/ FloodCross(e)
    /\ UNCHANGED <<query, pc, pure, ABs, ACs, ph2, svis2, stamps, replay>>

(***************************************************************************)
(* spread_B over member slices: every member of a region is evaluated, and *)
(* the region adjacency leads on.                                          *)
(***************************************************************************)
SweepRegion ==
    /\ pc = "sweep" /\ Pending = {}
    /\ \E r \in work :
        /\ work' = work \ {r}
        /\ vis' = vis \cup Members(r)
        /\ results' = Admitted(Members(r) \ vis)
        /\ \E rep \in [Adj(r) -> Pts] :
             /\ \A n \in Adj(r) : rep[n] \in Across(r, n)
             /\ scan' = {rep[n] : n \in Adj(r)}
    /\ UNCHANGED <<query, pc, pure, ABs, ACs, newB, newC, sfr, ph2, svis2, stamps,
                   crossing, replay>>

\* A region without an unvisited member is stamped and not walked on from, also
\* when a member of it is an entry that waits in the list: that entry is stranded.
SweepCross(n, seeds) ==
    \/ /\ seeds = {}
       /\ swept' = swept \cup {n}
       /\ stranded' = stranded \cup (newB \cap Members(n))
       /\ UNCHANGED <<vis, newB, newC, work>>
    \/ /\ seeds # {}
       /\ swept' = swept \cup {n} /\ work' = work \cup {n}
       /\ UNCHANGED <<vis, newB, newC, stranded>>
    \/ /\ seeds # {}
       /\ \/ ~ GateMustOpen /\ List(seeds, seeds, {})
          \/ (\A p \in seeds : MayBest(p)) /\ List(seeds, {}, {})
       /\ UNCHANGED <<stamps, work>>

ScanSweep ==
    /\ pc = "sweep"
    /\ \E e \in Pending :
        /\ scan' = scan \ {e}
        /\ IF Crosses(e) THEN Transit(RegionOf[e], {}) /\ UNCHANGED <<stamps, work>>
           ELSE SweepCross(RegionOf[e], SeedFor(RegionOf[e], e)) /\ UNCHANGED crossing
    /\ UNCHANGED <<query, pc, pure, results, ABs, ACs, sfr, ph2, svis2, replay>>

\* Mutant: the entries just flooded stay listed.
EndFloodAgain ==
    /\ pc \in {"flood", "sweep"} /\ Pending = {} /\ work = {}
    /\ pc' = "round"
    /\ ABs' = nABs /\ ACs' = nACs
    /\ UNCHANGED <<query, pure, vis, results, newB, newC, sfr, work, scan, ph2,
                   svis2, stamps, crossing, replay>>

EndFlood ==
    /\ pc \in {"flood", "sweep"} /\ Pending = {} /\ work = {}
    /\ pc' = "round"
    /\ ABs' = newB /\ ACs' = nACs
    /\ UNCHANGED <<query, pure, vis, results, newB, newC, sfr, work, scan, ph2,
                   svis2, stamps, crossing, replay>>

Next ==
    \/ BeginBest \/ BeginFlood \/ BeginSweep \/ Finish
    \/ ExpandBest \/ ScanBest \/ Replay \/ EarlyStop \/ BoundaryStop \/ HeapEmpty
    \/ Diffuse \/ ScanDiffuse \/ EndBest
    \/ ExpandFlood \/ ScanFlood \/ SweepRegion \/ ScanSweep \/ EndFlood

Spec == Init /\ [][Next]_vars /\ WF_vars(Next)

(***************************************************************************)
(* Properties.                                                             *)
(***************************************************************************)
Reachable == [v \in Pts |->
    {p \in Pts : \A S \in SUBSET Pts : v \in S /\ (\A u \in S : Nbr[u] \subseteq S) => p \in S}]

\* What the edges and the member slices can lead a search to.
Offered == [v \in Pts |->
    {p \in Pts : \A S \in SUBSET Pts :
        v \in S /\ (\A u \in S : Nbr[u] \cup Members(RegionOf[u]) \subseteq S) => p \in S}]

\* The regions that hang together within themselves.
Whole == {r \in Regs(Pts) : \A S \in SUBSET Members(r) :
              S # {} /\ (\A u \in S : Nbr[u] \cap Members(r) \subseteq S) => S = Members(r)}

\* One entry is enough for a whole region; crossing an empty one takes none.
OneEntryDoes == Whole \cup (IF mode.transparent THEN hollow \ {RegionOf[entry]} ELSE {})

\* What a search must get to if the entries in stop are not walked on from: the
\* points connected to its own entry by edges within a region, and by edges from
\* other points into regions for which one entry is enough.
Followed(stop) ==
    LET Doors == OneEntryDoes
        Leads(u, w) == \/ RegionOf[w] = RegionOf[u]
                       \/ u \notin stop /\ RegionOf[w] \in Doors
        Shut == {S \in SUBSET Pts :
                    entry \in S /\ \A u \in S : \A w \in Nbr[u] : Leads(u, w) => w \in S}
    IN Pts \ UNION {Pts \ S : S \in Shut}

\* Every variable has its type; results are satisfying points, at most K.
TypeOK ==
    /\ mode \in Setting /\ entry \in Pts /\ sat \subseteq Pts /\ hollow \subseteq Regs(Pts)
    /\ pc \in {"round", "best", "diffuse", "flood", "sweep", "done"} /\ pure \in BOOLEAN
    /\ results \subseteq sat /\ Cardinality(results) <= K
    /\ \A S \in {vis, ABs, ACs, newB, newC, scan, ph2, svis2, stranded} : S \subseteq Pts
    /\ \A S \in {sfr, swept, tvis} : S \subseteq Regs(Pts)
    /\ work \subseteq (IF pc = "sweep" THEN Regs(Pts) ELSE Pts)
    /\ \A x \in frontier : x[1] \in Regs(Pts) /\ x[2] \in Members(x[1])
    /\ replays \in 0 .. MaxReplays /\ replayWorst \in Nat

\* A visited point is never looked at again, so nothing may be marked visited
\* and forgotten: a visited point that satisfies the predicate is a result, is
\* beaten by K results, or is listed and will be evaluated.
NoVisitedLost ==
    \A p \in vis \cap sat :
        p \in results \/ ~ Closer(p, results) \/ p \in ABs \cup ACs \cup newB \cup newC

\* A transparent search crosses empty regions and never enters one, other than
\* the one it starts in.
EmptyNotEntered ==
    mode.transparent =>
        (Regs(ABs \cup ACs \cup newB \cup newC) \cup sfr \cup swept) \cap hollow
            \subseteq {RegionOf[entry]}

\* A search that ends with fewer than K results has found every satisfying
\* point that is followed from its entry, whatever the setting and the estimates:
\* all that can hide one are a region that falls apart within itself and an entry
\* that a sweep stranded.
Exhaustive ==
    pc = "done" /\ ~ Full(results) => Followed(stranded) \cap sat \subseteq results

\* Appendix B (2), "No closer satisfying point is missed": a search that ends
\* with fewer than K results has found every satisfying point connected to its
\* entry on layer 0.
NothingMissed ==
    pc = "done" /\ ~ Full(results) => Reachable[entry] \cap sat \subseteq results

\* The points a sweep may strand: none in a search without membership.
MayStrand ==
    IF mode.membership
    THEN {p \in Pts \ {entry} : ~ mode.transparent \/ RegionOf[p] \notin hollow \ {RegionOf[entry]}}
    ELSE {}

\* The search keeps the promise of FilteredSearch: it ends, with results that
\* satisfy the predicate and only improve, K of them or at least all those that
\* are followed from the entry past whatever may be stranded.
Promise == INSTANCE FilteredSearch WITH
               goal <- Offered[entry] \cap sat, owed <- Followed(MayStrand) \cap sat,
               answer <- results, ended <- (pc = "done")
KeepsPromise == Promise!Spec
=============================================================================
