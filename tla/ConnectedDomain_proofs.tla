----------------------- MODULE ConnectedDomain_proofs -----------------------
(***************************************************************************)
(* Proofs about the connected domain search, for every base graph, every   *)
(* partition of it into regions, every predicate and every setting.        *)
(***************************************************************************)
EXTENDS ConnectedDomain, NearestFacts

(***************************************************************************)
(* The result heap.                                                        *)
(***************************************************************************)

\* The heap keeps the K nearest of what it is offered.
LEMMA BestIsKept ==
    ASSUME NEW S \in SUBSET Pts
    PROVE  Ranks(Dist, S) /\ Best(S) = Kept(Dist, K, S) /\ K \in Nat
<1>1. IsFiniteSet(S)
  BY GraphAssumption, FS_Subset
<1>. QED BY <1>1, QueryAssumption DEF Ranks, Best, Kept, Nearer

\* The points that satisfy the predicate, and the settings of the search.
QueryOK ==
    /\ mode \in Setting /\ entry \in Pts /\ sat \subseteq Pts /\ hollow \subseteq Regs(Pts)
    /\ hollow \cap Regs(sat) = {}

HeapOK == results \subseteq sat /\ Cardinality(results) <= K

\* Evaluating points keeps the heap one, and evaluating none changes nothing.
LEMMA AdmittedHeap ==
    ASSUME QueryOK, HeapOK, NEW S \in SUBSET Pts
    PROVE  /\ Admitted(S) \subseteq results \cup (S \cap sat)
           /\ Admitted(S) \subseteq sat
           /\ Cardinality(Admitted(S)) <= K
           /\ Admitted({}) = results
<1>1. results \cup (S \cap sat) \in SUBSET Pts /\ results \in SUBSET Pts
  BY DEF QueryOK, HeapOK
<1>2. /\ Admitted(S) \subseteq results \cup (S \cap sat)
      /\ Cardinality(Admitted(S)) <= K
  BY <1>1, BestIsKept, KeptCount DEF Admitted
<1>3. Admitted({}) = Best(results)
  BY DEF Admitted
<1>4. Best(results) = results
  BY <1>1, BestIsKept, SmallKeptWhole DEF HeapOK
<1>. QED BY <1>2, <1>3, <1>4 DEF HeapOK

\* A point that is a result or that K results beat.
Settled(p) == p \in results \/ ~ Closer(p, results)

\* Settled points stay settled, and evaluated points become so.
LEMMA SettledAfter ==
    ASSUME QueryOK, HeapOK, NEW S \in SUBSET Pts, results' = Admitted(S), NEW p \in Pts,
           Settled(p) \/ p \in S \cap sat
    PROVE  Settled(p)'
<1>. DEFINE T == results \cup (S \cap sat)
<1>1. T \in SUBSET Pts /\ results \in SUBSET T
  BY DEF QueryOK, HeapOK
<1>2. Ranks(Dist, T) /\ results' = Kept(Dist, K, T) /\ K \in Nat
  BY <1>1, BestIsKept DEF Admitted
<1>3. Dist[p] \in Nat /\ \A q \in T : Dist[q] \in Nat
  BY <1>1, QueryAssumption
<1>. HIDE DEF T
<1>4. CASE p \in T
  <2>1. CASE p \in results'
    BY <2>1 DEF Settled
  <2>2. CASE p \notin results'
    <3>1. /\ Cardinality(results') = K
          /\ \A q \in results' : Dist[q] < Dist[p]
      BY <1>2, <1>4, <2>2, NotKept
    <3>2. results' \subseteq T
      BY <1>2, KeptCount
    <3>. QED BY <1>2, <1>3, <3>1, <3>2 DEF Settled, Closer, Full
  <2>. QED BY <2>1, <2>2
<1>5. CASE ~ Closer(p, results)
  <2>1. Cardinality(results) >= K /\ \A q \in results : Dist[q] <= Dist[p]
    BY <1>1, <1>3, <1>5 DEF Closer, Full
  <2>2. /\ Cardinality(results') >= K
        /\ \A q \in results' : Dist[q] <= Dist[p]
    BY <1>1, <1>2, <1>3, <2>1, StaysBehind
  <2>3. results' \subseteq T
    BY <1>2, KeptCount
  <2>. QED BY <1>3, <2>2, <2>3 DEF Settled, Closer, Full
<1>6. p \in T \/ ~ Closer(p, results)
  BY DEF Settled, T
<1>. QED BY <1>4, <1>5, <1>6

(***************************************************************************)
(* Where a search can get to.                                              *)
(***************************************************************************)

\* A set of points that neither an edge nor a region leads out of.
Closed(G) == \A p \in G : Nbr[p] \subseteq G /\ Members(RegionOf[p]) \subseteq G

\* What the search holds lies in G, the four lists apart ...
Aside(G) ==
    /\ scan \subseteq G /\ ph2 \subseteq G /\ svis2 \subseteq G /\ stranded \subseteq G
    /\ sfr \subseteq Regs(G) /\ swept \subseteq Regs(G) /\ tvis \subseteq Regs(G)
    /\ work \subseteq (IF pc = "sweep" THEN Regs(G) ELSE G)
    /\ \A x \in frontier : x[1] \in Regs(G) /\ x[2] \in Members(x[1])

\* ... and so do the lists, the visited points and the results.
Inside(G) ==
    /\ Aside(G)
    /\ vis \subseteq G /\ results \subseteq G
    /\ ABs \subseteq G /\ ACs \subseteq G /\ newB \subseteq G /\ newC \subseteq G

Within == \A G \in SUBSET Pts : Closed(G) /\ entry \in G => Inside(G)

StageOK ==
    /\ pc \in {"round", "best", "diffuse", "flood", "sweep", "done"} /\ pure \in BOOLEAN
    /\ replays \in 0 .. MaxReplays /\ replayWorst \in Nat

\* The regions around a crossing are not empty.
RimOK == \A x \in frontier : x[1] \notin hollow

\* The inductive invariant behind the types.
TypeInv == QueryOK /\ HeapOK /\ StageOK /\ RimOK /\ Within

LEMMA AllClosed == Closed(Pts)
BY GraphAssumption DEF Closed, Members

LEMMA InvTypes == TypeInv => TypeOK
<1>. SUFFICES ASSUME TypeInv PROVE TypeOK
  OBVIOUS
<1>1. Inside(Pts)
  BY AllClosed DEF TypeInv, Within, QueryOK
<1>. QED BY <1>1 DEF TypeInv, QueryOK, HeapOK, StageOK, Inside, Aside, TypeOK

\* Regions of a closed set lie in it, and the adjacency of regions stays in it.
LEMMA ClosedRegions ==
    ASSUME NEW G \in SUBSET Pts, Closed(G), NEW r \in Regs(G)
    PROVE  /\ Members(r) \subseteq G
           /\ Adj(r) \subseteq Regs(G)
           /\ \A n, v : v \in Across(r, n) => v \in Members(n) /\ v \in G
<1>1. Members(r) \subseteq G
  BY DEF Closed, Regs
<1>2. \A u \in Members(r) : Nbr[u] \subseteq G
  BY <1>1 DEF Closed
<1>3. Adj(r) \subseteq Regs(G)
  <2>1. UNION {Nbr[u] : u \in Members(r)} \subseteq G
    BY <1>2
  <2>. QED BY <2>1 DEF Adj, Regs
<1>4. \A n, v : v \in Across(r, n) => v \in Members(n) /\ v \in G
  BY <1>2 DEF Across
<1>. QED BY <1>1, <1>3, <1>4

\* So does a crossing, and it lists no empty region.
LEMMA ClosedRim ==
    ASSUME NEW G \in SUBSET Pts, Closed(G), NEW r \in Regs(G)
    PROVE  Hollows(r) \subseteq Regs(G) /\ Rim(r) \subseteq Regs(G) /\ Rim(r) \cap hollow = {}
<1>1. Regs(G) \in SUBSET Regs(Pts)
  BY DEF Regs
<1>2. \A u \in Regs(G) : (Adj(u) \cap hollow) \ tvis \subseteq Regs(G)
  BY ClosedRegions
<1>3. Hollows(r) \subseteq Regs(G)
  BY <1>1, <1>2 DEF Hollows
<1>4. \A u \in Hollows(r) : Adj(u) \subseteq Regs(G)
  BY <1>3, ClosedRegions
<1>. QED BY <1>3, <1>4 DEF Rim

\* An entry used for a region is a point of it.
LEMMA SeedIsMember ==
    ASSUME NEW n, NEW rep \in Members(n)
    PROVE  SeedFor(n, rep) \subseteq Members(n) \ vis
BY DEF SeedFor

(***************************************************************************)
(* The steps of a spread: all but those that begin or end a round.         *)
(***************************************************************************)

\* Points of X are listed, those of M and the listed ones are marked visited.
Listed(X, M) ==
    /\ newB \subseteq newB' /\ newB' \subseteq newB \cup X
    /\ newC \subseteq newC' /\ newC' \subseteq newC \cup X
    /\ vis \subseteq vis' /\ vis' \subseteq vis \cup M \cup newB' \cup newC'
    /\ (newB' \ newB) \cup (newC' \ newC) \subseteq vis'

Spreads ==
    \/ pc \in {"best", "diffuse"} /\ pc' \in {"best", "diffuse", "done"}
    \/ pc \in {"flood", "sweep"} /\ pc' = pc

\* A step of a spread inside G evaluates the points of E, marks those of M, and
\* lists some of X.
SpreadStep(G, E, M, X) ==
    /\ UNCHANGED <<query, pure, ABs, ACs>>
    /\ E \subseteq G /\ M \subseteq G /\ X \subseteq G
    /\ M \cap sat \subseteq E
    /\ \A p \in X : ~ Crosses(p) /\ p \notin vis
    /\ \A p \in M : Crosses(p) => RegionOf[p] \in sfr \cup tvis' \cup (IF pc = "sweep" THEN work ELSE {})
    /\ results' = Admitted(E)
    /\ Listed(X, M)
    /\ sfr' \subseteq sfr \cup {RegionOf[p] : p \in {q \in G : ~ Crosses(q)}}
    /\ swept' \subseteq swept \cup {RegionOf[p] : p \in {q \in G : ~ Crosses(q)}}
    /\ stranded' \subseteq stranded \cup (IF pc = "sweep" THEN newB ELSE {})
    /\ Spreads
    /\ StageOK' /\ RimOK' /\ Aside(G)'

\* What a step may rely on.
LEMMA ListIsListed ==
    ASSUME NEW S, NEW F \in SUBSET S, NEW M, List(S, F, M)
    PROVE  Listed(S, M)
BY DEF List, Listed

\* A crossing lists entries of non-empty regions.
LEMMA TransitLists ==
    ASSUME NEW G \in SUBSET Pts, Closed(G), Aside(G), RimOK, NEW r \in Regs(G), NEW M,
           Transit(r, M), UNCHANGED hollow
    PROVE  /\ Listed({p \in G \ vis : RegionOf[p] \notin hollow}, M)
           /\ tvis' \subseteq Regs(G) /\ r \in tvis'
           /\ \A x \in frontier' : x[1] \in Regs(G) /\ x[2] \in Members(x[1])
           /\ RimOK'
<1>1. CASE r \in tvis
  BY <1>1 DEF Transit, Listed, crossing, stamps, Aside, RimOK
<1>2. CASE r \notin tvis
  <2>1. PICK rep \in [Rim(r) -> Pts], F \in SUBSET Rim(r) :
            /\ \A n \in Rim(r) : \E u \in Hollows(r) : rep[n] \in Across(u, n)
            /\ tvis' = tvis \cup Hollows(r) \cup Rim(r)
            /\ frontier' = frontier \cup {<<n, rep[n]>> : n \in Rim(r)}
            /\ List(UNION {SeedFor(n, rep[n]) : n \in Rim(r)},
                    {p \in UNION {SeedFor(n, rep[n]) : n \in Rim(r)} : RegionOf[p] \in F}, M)
    BY <1>2 DEF Transit
  <2>. DEFINE seeds == UNION {SeedFor(n, rep[n]) : n \in Rim(r)}
  <2>2. /\ Hollows(r) \subseteq Regs(G) /\ Rim(r) \subseteq Regs(G) /\ Rim(r) \cap hollow = {}
    BY ClosedRim
  <2>3. \A n \in Rim(r) : rep[n] \in Members(n)
    BY <2>1 DEF Across
  <2>4. seeds \subseteq {p \in G \ vis : RegionOf[p] \notin hollow}
    <3>. SUFFICES ASSUME NEW n \in Rim(r), NEW p \in SeedFor(n, rep[n])
                  PROVE  p \in G \ vis /\ RegionOf[p] \notin hollow
      OBVIOUS
    <3>1. p \in Members(n) \ vis
      BY <2>3, SeedIsMember
    <3>2. Members(n) \subseteq G
      BY <2>2, ClosedRegions
    <3>. QED BY <2>2, <3>1, <3>2 DEF Members
  <2>5. Listed(seeds, M)
    <3>1. {p \in seeds : RegionOf[p] \in F} \in SUBSET seeds
      OBVIOUS
    <3>. HIDE DEF seeds
    <3>2. List(seeds, {p \in seeds : RegionOf[p] \in F}, M)
      BY <2>1 DEF seeds
    <3>. QED BY <3>1, <3>2, ListIsListed
  <2>6. Listed({p \in G \ vis : RegionOf[p] \notin hollow}, M)
    <3>. HIDE DEF seeds
    <3>. QED BY <2>4, <2>5 DEF Listed
  <2>7. \A x \in frontier' : x \in frontier \/ \E n \in Rim(r) : x[1] = n /\ x[2] = rep[n]
    BY <2>1
  <2>8. r \in tvis'
    <3>1. r \in Hollows(r)
      BY DEF Hollows, Regs
    <3>. QED BY <2>1, <3>1
  <2>. QED BY <2>1, <2>2, <2>3, <2>6, <2>7, <2>8 DEF Aside, RimOK
<1>. QED BY <1>1, <1>2

\* Where a step of a spread starts from, and what it comes to.
SpreadFrom(G) ==
    G \in SUBSET Pts /\ Closed(G) /\ QueryOK /\ HeapOK /\ StageOK /\ RimOK /\ Inside(G)
Spreading(G) == \E E, M, X \in SUBSET G : SpreadStep(G, E, M, X)

\* A spread that neither evaluates, marks nor lists a point.
LEMMA QuietStep ==
    ASSUME NEW G, SpreadFrom(G), UNCHANGED <<query, pure, results, vis, newB, newC, ABs, ACs, sfr, stamps>>,
           Spreads, StageOK', RimOK', Aside(G)'
    PROVE  Spreading(G)
<1>1. results' = Admitted({})
  BY AdmittedHeap DEF SpreadFrom
<1>2. Listed({}, {})
  BY DEF Listed
<1>3. SpreadStep(G, {}, {}, {})
  BY <1>1, <1>2 DEF SpreadStep, stamps
<1>. QED BY <1>3 DEF Spreading

LEMMA NextBestInWork ==
    ASSUME work \in SUBSET Pts, work # {}
    PROVE  NextBest \in work /\ \A u \in work : Dist[NextBest] <= Dist[u]
<1>1. Ranks(Dist, work)
  BY BestIsKept
<1>2. \E v \in work : \A u \in work : Dist[v] <= Dist[u]
  BY <1>1, NearestOne
<1>. QED BY <1>2 DEF NextBest

LEMMA ExpandBestSpreads ==
    ASSUME NEW G, SpreadFrom(G), ExpandBest
    PROVE  Spreading(G)
<1>1. work \subseteq G /\ G \subseteq Pts
  BY DEF SpreadFrom, Inside, Aside, ExpandBest
<1>2. NextBest \in work
  BY <1>1, NextBestInWork DEF ExpandBest
<1>3. Nbr[NextBest] \subseteq G
  BY <1>1, <1>2 DEF SpreadFrom, Closed
<1>4. StageOK' /\ RimOK' /\ Spreads
  BY DEF ExpandBest, SpreadFrom, StageOK, RimOK, Spreads, query, crossing, stamps, replay
<1>5. Aside(G)'
  BY <1>1, <1>3 DEF ExpandBest, SpreadFrom, Inside, Aside, crossing, stamps
<1>6. UNCHANGED <<query, pure, results, vis, newB, newC, ABs, ACs, sfr, stamps>>
  BY DEF ExpandBest
<1>. QED BY <1>4, <1>5, <1>6, QuietStep

LEMMA DropSpreads ==
    ASSUME NEW G, SpreadFrom(G), EarlyStop \/ BoundaryStop \/ HeapEmpty
    PROVE  Spreading(G)
<1>1. Drop /\ UNCHANGED <<vis, newB, newC, replay>> /\ pc = "best" /\ pc' \in {"diffuse", "done"}
  BY DEF EarlyStop, BoundaryStop, HeapEmpty, AtStop
<1>2. StageOK' /\ RimOK' /\ Spreads
  BY <1>1 DEF Drop, SpreadFrom, StageOK, RimOK, Spreads, query, crossing, stamps, replay
<1>3. Aside(G)'
  BY <1>1 DEF Drop, SpreadFrom, Inside, Aside, crossing, stamps
<1>4. UNCHANGED <<query, pure, results, vis, newB, newC, ABs, ACs, sfr, stamps>>
  BY <1>1 DEF Drop
<1>. QED BY <1>2, <1>3, <1>4, QuietStep

LEMMA DiffuseSpreads ==
    ASSUME NEW G, SpreadFrom(G), Diffuse
    PROVE  Spreading(G)
<1>1. PICK v \in ph2 : ph2' = ph2 \ {v} /\ scan' = Nbr[v]
  BY DEF Diffuse
<1>2. Nbr[v] \subseteq G
  BY DEF SpreadFrom, Closed, Inside, Aside
<1>3. StageOK' /\ RimOK' /\ Spreads
  BY DEF Diffuse, SpreadFrom, StageOK, RimOK, Spreads, query, crossing, stamps, replay
<1>4. Aside(G)'
  BY <1>1, <1>2 DEF Diffuse, SpreadFrom, Inside, Aside, crossing, stamps
<1>5. UNCHANGED <<query, pure, results, vis, newB, newC, ABs, ACs, sfr, stamps>>
  BY DEF Diffuse
<1>. QED BY <1>3, <1>4, <1>5, QuietStep

LEMMA ExpandFloodSpreads ==
    ASSUME NEW G, SpreadFrom(G), ExpandFlood
    PROVE  Spreading(G)
<1>1. PICK v \in work : work' = work \ {v} /\ scan' = Nbr[v]
  BY DEF ExpandFlood
<1>2. Nbr[v] \subseteq G
  BY DEF ExpandFlood, SpreadFrom, Closed, Inside, Aside
<1>3. StageOK' /\ RimOK' /\ Spreads
  BY DEF ExpandFlood, SpreadFrom, StageOK, RimOK, Spreads, query, crossing, stamps, replay
<1>4. Aside(G)'
  BY <1>1, <1>2 DEF ExpandFlood, SpreadFrom, Inside, Aside, crossing, stamps
<1>5. UNCHANGED <<query, pure, results, vis, newB, newC, ABs, ACs, sfr, stamps>>
  BY DEF ExpandFlood
<1>. QED BY <1>3, <1>4, <1>5, QuietStep

\* A step that evaluates one point and goes on from it.
LEMMA VisitStep ==
    ASSUME NEW G, SpreadFrom(G), NEW e \in G, results' = Admitted({e}), vis' = vis \cup {e},
           UNCHANGED <<query, pure, newB, newC, ABs, ACs, stamps>>,
           sfr' \subseteq sfr \cup {RegionOf[p] : p \in {q \in {e} : ~ Crosses(q)}},
           Crosses(e) => RegionOf[e] \in sfr,
           Spreads, StageOK', RimOK', Aside(G)'
    PROVE  Spreading(G)
<1>1. Listed({}, {e})
  BY DEF Listed
<1>2. SpreadStep(G, {e}, {e}, {})
  <2>1. sfr' \subseteq sfr \cup {RegionOf[p] : p \in {q \in G : ~ Crosses(q)}}
    OBVIOUS
  <2>. QED BY <1>1, <2>1 DEF SpreadStep, stamps
<1>. QED BY <1>2 DEF Spreading

\* A step that only lists points that are not to be crossed.
LEMMA ListStep ==
    ASSUME NEW G, SpreadFrom(G), NEW X \in SUBSET G, NEW M \in SUBSET G, M \cap sat = {},
           \A p \in X : ~ Crosses(p) /\ p \notin vis, Listed(X, M),
           \A p \in M : RegionOf[p] \in tvis',
           UNCHANGED <<query, pure, results, ABs, ACs, sfr>>,
           swept' \subseteq swept \cup {RegionOf[p] : p \in {q \in G : ~ Crosses(q)}},
           stranded' \subseteq stranded \cup (IF pc = "sweep" THEN newB ELSE {}),
           Spreads, StageOK', RimOK', Aside(G)'
    PROVE  Spreading(G)
<1>1. results' = Admitted({})
  BY AdmittedHeap DEF SpreadFrom
<1>2. SpreadStep(G, {}, M, X)
  BY <1>1 DEF SpreadStep
<1>. QED BY <1>2 DEF Spreading

LEMMA PendingInside ==
    ASSUME NEW G, SpreadFrom(G), NEW e \in Pending
    PROVE  /\ e \in G /\ e \in Pts /\ e \in scan /\ RegionOf[e] \in Regs(G)
           /\ pc \in {"best", "diffuse", "flood"} => e \notin vis
BY DEF Pending, SpreadFrom, Inside, Aside, Regs

\* A step that crosses the empty regions next to a point.
LEMMA CrossStep ==
    ASSUME NEW G, SpreadFrom(G), NEW e \in G, RegionOf[e] \in hollow,
           NEW M \in SUBSET {e}, Transit(RegionOf[e], M),
           UNCHANGED <<query, pc, pure, results, ABs, ACs, sfr, work, ph2, svis2, stamps, replay>>,
           pc \in {"best", "diffuse", "flood", "sweep"}, scan' \subseteq scan
    PROVE  Spreading(G)
<1>1. UNCHANGED hollow /\ RegionOf[e] \in Regs(G) /\ Aside(G) /\ RimOK /\ Closed(G) /\ G \in SUBSET Pts
  BY DEF query, SpreadFrom, Inside, Regs
<1>. DEFINE X == {p \in G \ vis : RegionOf[p] \notin hollow}
<1>2. /\ Listed(X, M)
      /\ tvis' \subseteq Regs(G) /\ RegionOf[e] \in tvis'
      /\ \A x \in frontier' : x[1] \in Regs(G) /\ x[2] \in Members(x[1])
      /\ RimOK'
  BY <1>1, TransitLists
<1>3. X \in SUBSET G /\ (\A p \in X : ~ Crosses(p) /\ p \notin vis) /\ \A p \in M : RegionOf[p] \in tvis'
  BY <1>2 DEF Crosses
<1>4. M \in SUBSET G /\ M \cap sat = {}
  BY DEF SpreadFrom, QueryOK, Regs
<1>5. StageOK' /\ Spreads
  BY DEF SpreadFrom, StageOK, Spreads, replay
<1>6. Aside(G)'
  BY <1>1, <1>2 DEF Aside, stamps
<1>7. UNCHANGED <<swept, stranded>>
  BY DEF stamps
<1>. HIDE DEF X
<1>. QED BY <1>2, <1>3, <1>4, <1>5, <1>6, <1>7, ListStep

LEMMA ScanBestSpreads ==
    ASSUME NEW G, SpreadFrom(G), ScanBest
    PROVE  Spreading(G)
<1>1. PICK e \in Pending :
        /\ scan' = scan \ {e}
        /\ \/ ScanInside(e)
           \/ ScanHollow(e)
           \/ ScanWalk(e)
           \/ ScanList(e)
  BY DEF ScanBest
<1>2. e \in G /\ e \in Pts /\ (pc \in {"best", "diffuse", "flood"} => e \notin vis)
  BY PendingInside
<1>3. /\ pc = "best" /\ UNCHANGED <<query, pc, pure, ABs, ACs, svis2, stamps, replay>>
      /\ StageOK' /\ Spreads
  BY DEF ScanBest, SpreadFrom, StageOK, Spreads, replay
<1>4. CASE ScanInside(e)
  <2>1. results' = Admitted({e}) /\ vis' = vis \cup {e}
    BY <1>4 DEF ScanInside, VisitBest
  <2>2. work' \subseteq work \cup {e} /\ ph2' \subseteq ph2 \cup {e} /\ UNCHANGED <<newB, newC, sfr, crossing>>
    BY <1>4 DEF ScanInside, VisitBest
  <2>3. Aside(G)'
    BY <1>1, <1>2, <1>3, <2>2 DEF SpreadFrom, Inside, Aside, crossing, stamps
  <2>4. RimOK'
    BY <1>3, <2>2 DEF SpreadFrom, RimOK, query, crossing, stamps
  <2>5. RegionOf[e] \in sfr /\ sfr' \subseteq sfr
    BY <1>4, <2>2 DEF ScanInside
  <2>. QED BY <1>2, <1>3, <2>1, <2>2, <2>3, <2>4, <2>5, VisitStep
<1>5. CASE ScanHollow(e)
  <2>1. /\ RegionOf[e] \in hollow /\ Transit(RegionOf[e], {e})
        /\ UNCHANGED <<results, sfr, work, ph2>>
    BY <1>5 DEF ScanHollow, Crosses
  <2>2. {e} \in SUBSET {e} /\ scan' \subseteq scan
    BY <1>1
  <2>. QED BY <1>2, <1>3, <2>1, <2>2, CrossStep
<1>6. CASE ScanWalk(e)
  <2>1. results' = Admitted({e}) /\ vis' = vis \cup {e}
    BY <1>6 DEF ScanWalk, VisitBest
  <2>2. /\ work' \subseteq work \cup {e} /\ ph2' \subseteq ph2 \cup {e} /\ UNCHANGED <<newB, newC, crossing>>
        /\ sfr' \subseteq sfr \cup {RegionOf[e]} /\ ~ Crosses(e)
    BY <1>6 DEF ScanWalk, VisitBest
  <2>3. Aside(G)'
    BY <1>1, <1>2, <1>3, <2>2 DEF SpreadFrom, Inside, Aside, crossing, stamps, Regs
  <2>4. RimOK'
    BY <1>3, <2>2 DEF SpreadFrom, RimOK, query, crossing, stamps
  <2>5. sfr' \subseteq sfr \cup {RegionOf[p] : p \in {q \in {e} : ~ Crosses(q)}}
    BY <2>2
  <2>. QED BY <1>2, <1>3, <2>1, <2>2, <2>3, <2>4, <2>5, VisitStep
<1>7. CASE ScanList(e)
  <2>1. ~ Crosses(e) /\ UNCHANGED <<results, sfr, work, ph2, crossing>> /\ Listed({e}, {})
    <3>1. List({e}, {e}, {}) \/ List({e}, {}, {})
      BY <1>7 DEF ScanList
    <3>2. Listed({e}, {})
      BY <3>1, ListIsListed, {e} \in SUBSET {e}, {} \in SUBSET {e}
    <3>. QED BY <1>7, <3>2 DEF ScanList
  <2>2. Aside(G)'
    BY <1>1, <1>2, <1>3, <2>1 DEF SpreadFrom, Inside, Aside, crossing, stamps
  <2>3. RimOK'
    BY <1>3, <2>1 DEF SpreadFrom, RimOK, query, crossing, stamps
  <2>4. {e} \in SUBSET G /\ {} \in SUBSET G /\ e \notin vis /\ UNCHANGED <<swept, stranded>>
    BY <1>2, <1>3 DEF stamps
  <2>. QED BY <1>2, <1>3, <2>1, <2>2, <2>3, <2>4, ListStep
<1>. QED BY <1>1, <1>4, <1>5, <1>6, <1>7

LEMMA ScanDiffuseSpreads ==
    ASSUME NEW G, SpreadFrom(G), ScanDiffuse
    PROVE  Spreading(G)
<1>1. PICK e \in Pending : scan' = scan \ {e} /\ (DiffuseInside(e) \/ DiffuseCross(e))
  BY DEF ScanDiffuse
<1>2. e \in G /\ e \in Pts /\ (pc \in {"best", "diffuse", "flood"} => e \notin vis)
  BY PendingInside
<1>3. /\ pc = "diffuse" /\ UNCHANGED <<query, pc, pure, ABs, ACs, sfr, work, stamps, replay>>
      /\ StageOK' /\ Spreads
  BY DEF ScanDiffuse, SpreadFrom, StageOK, Spreads, replay
<1>4. CASE DiffuseInside(e)
  <2>1. UNCHANGED <<newB, newC, crossing>> /\ svis2' \subseteq svis2 \cup {e} /\ ph2' \subseteq ph2 \cup {e}
    BY <1>4 DEF DiffuseInside
  <2>2. Aside(G)'
    BY <1>1, <1>2, <1>3, <2>1 DEF SpreadFrom, Inside, Aside, crossing, stamps
  <2>3. RimOK'
    BY <1>3, <2>1 DEF SpreadFrom, RimOK, query, crossing, stamps
  <2>4. CASE mode.phase2
    <3>1. UNCHANGED <<vis, results>>
      BY <1>4, <2>4 DEF DiffuseInside
    <3>. QED BY <1>3, <2>1, <2>2, <2>3, <3>1, QuietStep
  <2>5. CASE ~ mode.phase2
    <3>1. vis' = vis \cup {e} /\ results' = Admitted({e})
      BY <1>4, <2>5 DEF DiffuseInside
    <3>2. RegionOf[e] \in sfr
      BY <1>4 DEF DiffuseInside
    <3>. QED BY <1>2, <1>3, <2>1, <2>2, <2>3, <3>1, <3>2, VisitStep
  <2>. QED BY <2>4, <2>5
<1>5. CASE DiffuseCross(e)
  <2>1. UNCHANGED <<results, svis2, ph2>>
    BY <1>5 DEF DiffuseCross
  <2>2. CASE Crosses(e)
    <3>1. RegionOf[e] \in hollow /\ Transit(RegionOf[e], {e})
      BY <1>5, <2>2 DEF DiffuseCross, Crosses
    <3>2. {e} \in SUBSET {e} /\ scan' \subseteq scan
      BY <1>1
    <3>. QED BY <1>2, <1>3, <2>1, <3>1, <3>2, CrossStep
  <2>3. CASE ~ Crosses(e)
    <3>1. UNCHANGED crossing /\ Listed({e}, {})
      <4>1. List({e}, {e}, {}) \/ List({e}, {}, {})
        BY <1>5, <2>3 DEF DiffuseCross
      <4>2. Listed({e}, {})
        BY <4>1, ListIsListed, {e} \in SUBSET {e}, {} \in SUBSET {e}
      <4>. QED BY <1>5, <2>3, <4>2 DEF DiffuseCross
    <3>2. Aside(G)'
      BY <1>1, <1>2, <1>3, <2>1, <3>1 DEF SpreadFrom, Inside, Aside, crossing, stamps
    <3>3. RimOK'
      BY <1>3, <3>1 DEF SpreadFrom, RimOK, query, crossing, stamps
    <3>4. {e} \in SUBSET G /\ {} \in SUBSET G /\ e \notin vis /\ UNCHANGED <<swept, stranded>>
      BY <1>2, <1>3 DEF stamps
    <3>. QED BY <1>2, <1>3, <2>1, <2>3, <3>1, <3>2, <3>3, <3>4, ListStep
  <2>. QED BY <2>2, <2>3
<1>. QED BY <1>1, <1>4, <1>5

LEMMA ScanFloodSpreads ==
    ASSUME NEW G, SpreadFrom(G), ScanFlood
    PROVE  Spreading(G)
<1>1. PICK e \in Pending :
        /\ scan' = scan \ {e}
        /\ \/ (RegionOf[e] \in sfr \/ ~ Crosses(e)) /\ FloodVisit(e)
           \/ FloodCross(e)
  BY DEF ScanFlood
<1>2. e \in G /\ e \in Pts /\ (pc \in {"best", "diffuse", "flood"} => e \notin vis)
  BY PendingInside
<1>3. /\ pc = "flood" /\ UNCHANGED <<query, pc, pure, ABs, ACs, ph2, svis2, stamps, replay>>
      /\ StageOK' /\ Spreads
  BY DEF ScanFlood, SpreadFrom, StageOK, Spreads, replay
<1>4. CASE (RegionOf[e] \in sfr \/ ~ Crosses(e)) /\ FloodVisit(e)
  <2>1. /\ results' = Admitted({e}) /\ vis' = vis \cup {e} /\ work' = work \cup {e}
        /\ sfr' = sfr \cup {RegionOf[e]} /\ UNCHANGED <<newB, newC, crossing>>
    BY <1>4 DEF FloodVisit
  <2>2. Aside(G)'
    BY <1>1, <1>2, <1>3, <2>1 DEF SpreadFrom, Inside, Aside, crossing, stamps, Regs
  <2>3. RimOK'
    BY <1>3, <2>1 DEF SpreadFrom, RimOK, query, crossing, stamps
  <2>4. sfr' \subseteq sfr \cup {RegionOf[p] : p \in {q \in {e} : ~ Crosses(q)}}
    BY <1>4, <2>1
  <2>. QED BY <1>2, <1>3, <2>1, <2>2, <2>3, <2>4, VisitStep
<1>5. CASE FloodCross(e)
  <2>1. UNCHANGED <<results, work, sfr>>
    BY <1>5 DEF FloodCross
  <2>2. CASE Crosses(e)
    <3>1. RegionOf[e] \in hollow /\ Transit(RegionOf[e], {e})
      BY <1>5, <2>2 DEF FloodCross, Crosses
    <3>2. {e} \in SUBSET {e} /\ scan' \subseteq scan
      BY <1>1
    <3>. QED BY <1>2, <1>3, <2>1, <3>1, <3>2, CrossStep
  <2>3. CASE ~ Crosses(e)
    <3>1. UNCHANGED crossing /\ Listed({e}, {})
      <4>1. List({e}, {e}, {}) \/ List({e}, {}, {})
        BY <1>5, <2>3 DEF FloodCross
      <4>2. Listed({e}, {})
        BY <4>1, ListIsListed, {e} \in SUBSET {e}, {} \in SUBSET {e}
      <4>. QED BY <1>5, <2>3, <4>2 DEF FloodCross
    <3>2. Aside(G)'
      BY <1>1, <1>2, <1>3, <2>1, <3>1 DEF SpreadFrom, Inside, Aside, crossing, stamps
    <3>3. RimOK'
      BY <1>3, <3>1 DEF SpreadFrom, RimOK, query, crossing, stamps
    <3>4. {e} \in SUBSET G /\ {} \in SUBSET G /\ e \notin vis /\ UNCHANGED <<swept, stranded>>
      BY <1>2, <1>3 DEF stamps
    <3>. QED BY <1>2, <1>3, <2>1, <2>3, <3>1, <3>2, <3>3, <3>4, ListStep
  <2>. QED BY <2>2, <2>3
<1>. QED BY <1>1, <1>4, <1>5

LEMMA WorstIsRank ==
    ASSUME QueryOK, HeapOK
    PROVE  Worst \in Nat
<1>1. CASE ~ Full(results)
  BY <1>1, QueryAssumption DEF Worst
<1>2. CASE Full(results)
  <2>1. results \in SUBSET Pts /\ results # {}
    <3>1. Cardinality({}) = 0
      BY FS_EmptySet
    <3>2. Cardinality(results) >= K /\ K \in Nat \ {0}
      BY <1>2, QueryAssumption DEF Full
    <3>3. results # {}
      BY <3>1, <3>2
    <3>. QED BY <3>3 DEF QueryOK, HeapOK
  <2>2. Ranks(Dist, results) /\ Far \in Nat /\ \A p \in results : Dist[p] <= Far /\ Dist[p] \in Nat
    BY <2>1, BestIsKept, QueryAssumption
  <2>3. \E p \in results : \A q \in results : Dist[q] <= Dist[p]
    BY <2>1, <2>2, FarthestOne
  <2>4. \E d \in {Dist[q] : q \in results} : \A q \in results : Dist[q] <= d
    BY <2>3
  <2>5. Worst \in {Dist[q] : q \in results}
    BY <1>2, <2>4 DEF Worst
  <2>. QED BY <2>2, <2>5
<1>. QED BY <1>1, <1>2

LEMMA ReplaySpreads ==
    ASSUME NEW G, SpreadFrom(G), Replay
    PROVE  Spreading(G)
<1>. DEFINE seeds == UNION {SeedFor(x[1], x[2]) : x \in frontier}
<1>1. PICK F \in SUBSET seeds : List(seeds, F, {})
  BY DEF Replay
<1>2. /\ pc = "best" /\ pc' \in {"diffuse", "done"} /\ Drop
      /\ replayWorst' = Worst /\ replays' = replays + 1 /\ replays < MaxReplays
  BY DEF Replay, AtStop, Again
<1>3. Listed(seeds, {})
  <2>. HIDE DEF seeds
  <2>. QED BY <1>1, ListIsListed
<1>4. seeds \subseteq G /\ \A p \in seeds : ~ Crosses(p) /\ p \notin vis
  <2>. SUFFICES ASSUME NEW x \in frontier, NEW p \in SeedFor(x[1], x[2])
                PROVE  p \in G \ vis /\ RegionOf[p] \notin hollow
    BY DEF Crosses
  <2>1. x[1] \in Regs(G) /\ x[2] \in Members(x[1]) /\ x[1] \notin hollow
    BY DEF SpreadFrom, Inside, Aside, RimOK
  <2>2. p \in Members(x[1]) \ vis
    BY <2>1, SeedIsMember
  <2>3. Members(x[1]) \subseteq G
    BY <2>1, ClosedRegions DEF SpreadFrom
  <2>. QED BY <2>1, <2>2, <2>3 DEF Members
<1>5. StageOK' /\ RimOK' /\ Spreads
  <2>1. replayWorst' \in Nat
    BY <1>2, WorstIsRank DEF SpreadFrom
  <2>2. replays' \in 0 .. MaxReplays
    BY <1>2, QueryAssumption DEF SpreadFrom, StageOK
  <2>3. StageOK' /\ Spreads
    BY <1>2, <2>1, <2>2 DEF Drop, SpreadFrom, StageOK, Spreads
  <2>4. RimOK'
    BY <1>2 DEF Drop, SpreadFrom, RimOK, query, crossing, stamps
  <2>. QED BY <2>3, <2>4
<1>6. Aside(G)'
  BY <1>2 DEF Drop, SpreadFrom, Inside, Aside, crossing, stamps
<1>7. UNCHANGED <<query, pure, results, ABs, ACs, sfr, swept, stranded>>
  BY <1>2 DEF Drop, stamps
<1>8. seeds \in SUBSET G /\ {} \in SUBSET G
  BY <1>4
<1>. HIDE DEF seeds
<1>. QED BY <1>3, <1>4, <1>5, <1>6, <1>7, <1>8, ListStep

LEMMA SweepRegionSpreads ==
    ASSUME NEW G, SpreadFrom(G), SweepRegion
    PROVE  Spreading(G)
<1>1. PICK r \in work :
        /\ work' = work \ {r}
        /\ vis' = vis \cup Members(r)
        /\ results' = Admitted(Members(r) \ vis)
        /\ \E rep \in [Adj(r) -> Pts] :
             /\ \A n \in Adj(r) : rep[n] \in Across(r, n)
             /\ scan' = {rep[n] : n \in Adj(r)}
  BY DEF SweepRegion
<1>2. r \in Regs(G) /\ pc = "sweep"
  BY DEF SweepRegion, SpreadFrom, Inside, Aside
<1>3. Members(r) \subseteq G /\ scan' \subseteq G
  BY <1>1, <1>2, ClosedRegions DEF SpreadFrom
<1>4. UNCHANGED <<query, pc, pure, ABs, ACs, newB, newC, sfr, ph2, svis2, stamps, crossing, replay>>
  BY DEF SweepRegion
<1>5. StageOK' /\ RimOK' /\ Spreads
  BY <1>2, <1>4 DEF SpreadFrom, StageOK, RimOK, Spreads, query, crossing, stamps, replay
<1>6. Aside(G)'
  BY <1>1, <1>2, <1>3, <1>4 DEF SpreadFrom, Inside, Aside, crossing, stamps
<1>. DEFINE M == Members(r) \ vis
<1>7. Listed({}, M)
  BY <1>1, <1>4 DEF Listed
<1>8. M \in SUBSET G /\ {} \in SUBSET G /\ results' = Admitted(M) /\ M \cap sat \subseteq M
  BY <1>1, <1>3
<1>9. SpreadStep(G, M, M, {})
  <2>1. \A p \in M : RegionOf[p] \in work
    BY DEF Members
  <2>2. UNCHANGED <<swept, stranded>>
    BY <1>4 DEF stamps
  <2>. HIDE DEF M
  <2>. QED BY <1>2, <1>4, <1>5, <1>6, <1>7, <1>8, <2>1, <2>2 DEF SpreadStep
<1>. QED BY <1>8, <1>9 DEF Spreading

LEMMA ScanSweepSpreads ==
    ASSUME NEW G, SpreadFrom(G), ScanSweep
    PROVE  Spreading(G)
<1>1. PICK e \in Pending :
        /\ scan' = scan \ {e}
        /\ IF Crosses(e) THEN Transit(RegionOf[e], {}) /\ UNCHANGED <<stamps, work>>
           ELSE SweepCross(RegionOf[e], SeedFor(RegionOf[e], e)) /\ UNCHANGED crossing
  BY DEF ScanSweep
<1>2. e \in G /\ e \in Pts /\ RegionOf[e] \in Regs(G)
  BY PendingInside
<1>3. /\ pc = "sweep" /\ UNCHANGED <<query, pc, pure, results, ABs, ACs, sfr, ph2, svis2, replay>>
      /\ StageOK' /\ Spreads
  BY DEF ScanSweep, SpreadFrom, StageOK, Spreads, replay
<1>4. CASE Crosses(e)
  <2>1. RegionOf[e] \in hollow /\ Transit(RegionOf[e], {}) /\ UNCHANGED <<stamps, work>>
    BY <1>1, <1>4 DEF Crosses
  <2>2. {} \in SUBSET {e} /\ scan' \subseteq scan
    BY <1>1
  <2>. QED BY <1>2, <1>3, <2>1, <2>2, CrossStep
<1>5. CASE ~ Crosses(e)
  <2>. DEFINE n == RegionOf[e]
              seeds == SeedFor(n, e)
  <2>1. SweepCross(n, seeds) /\ UNCHANGED crossing
    BY <1>1, <1>5
  <2>2. e \in Members(n)
    BY <1>2 DEF Members
  <2>3. seeds \subseteq Members(n) \ vis
    BY <2>2, SeedIsMember
  <2>4. Members(n) \subseteq G
    BY <1>2, ClosedRegions DEF SpreadFrom
  <2>5. \A p \in seeds : ~ Crosses(p) /\ p \notin vis
    BY <1>5, <2>3 DEF Crosses, Members
  <2>6. /\ swept' \subseteq swept \cup {n} /\ work' \subseteq work \cup {n}
        /\ stranded' \subseteq stranded \cup newB
    <3>. HIDE DEF seeds, n
    <3>. QED BY <2>1 DEF SweepCross, stamps
  <2>7. Listed(seeds, {})
    <3>1. CASE UNCHANGED <<vis, newB, newC>>
      BY <3>1 DEF Listed
    <3>2. CASE List(seeds, seeds, {}) \/ List(seeds, {}, {})
      <4>. HIDE DEF seeds
      <4>. QED BY <3>2, ListIsListed, seeds \in SUBSET seeds, {} \in SUBSET seeds
    <3>. QED BY <2>1, <3>1, <3>2 DEF SweepCross
  <2>8. Aside(G)'
    BY <1>1, <1>2, <1>3, <2>1, <2>6 DEF SpreadFrom, Inside, Aside, crossing, stamps
  <2>9. RimOK'
    BY <1>3, <2>1 DEF SpreadFrom, RimOK, query, crossing, stamps
  <2>10. swept' \subseteq swept \cup {RegionOf[p] : p \in {q \in G : ~ Crosses(q)}}
    BY <1>2, <1>5, <2>6
  <2>11. seeds \in SUBSET G /\ {} \in SUBSET G
    BY <2>3, <2>4
  <2>. HIDE DEF seeds, n
  <2>. QED BY <1>3, <2>5, <2>6, <2>7, <2>8, <2>9, <2>10, <2>11, ListStep
<1>. QED BY <1>1, <1>4, <1>5

\* Every step of a spread.
SpreadNext ==
    \/ ExpandBest \/ ScanBest \/ Replay \/ EarlyStop \/ BoundaryStop \/ HeapEmpty
    \/ Diffuse \/ ScanDiffuse \/ ExpandFlood \/ ScanFlood \/ SweepRegion \/ ScanSweep

LEMMA SpreadNextSpreads ==
    ASSUME NEW G, SpreadFrom(G), SpreadNext
    PROVE  Spreading(G)
BY ExpandBestSpreads, ScanBestSpreads, ReplaySpreads, DropSpreads, DiffuseSpreads, ScanDiffuseSpreads,
   ExpandFloodSpreads, ScanFloodSpreads, SweepRegionSpreads, ScanSweepSpreads DEF SpreadNext

LEMMA SpreadKeeps ==
    ASSUME NEW G, SpreadFrom(G), Spreading(G)
    PROVE  UNCHANGED query /\ QueryOK' /\ HeapOK' /\ StageOK' /\ RimOK' /\ Inside(G)'
<1>1. PICK E \in SUBSET G, M \in SUBSET G, X \in SUBSET G : SpreadStep(G, E, M, X)
  BY DEF Spreading
<1>2. results' = Admitted(E) /\ Listed(X, M) /\ UNCHANGED <<query, ABs, ACs>>
      /\ StageOK' /\ RimOK' /\ Aside(G)'
  BY <1>1 DEF SpreadStep
<1>3. QueryOK' /\ UNCHANGED query
  BY <1>2 DEF SpreadFrom, QueryOK, query
<1>4. E \in SUBSET Pts
  BY DEF SpreadFrom
<1>5. /\ Admitted(E) \subseteq results \cup (E \cap sat) /\ Admitted(E) \subseteq sat
      /\ Cardinality(Admitted(E)) <= K
  BY <1>4, AdmittedHeap DEF SpreadFrom
<1>6. HeapOK' /\ results' \subseteq G
  BY <1>2, <1>5 DEF HeapOK, query, SpreadFrom, Inside
<1>7. /\ vis' \subseteq G /\ newB' \subseteq G /\ newC' \subseteq G /\ ABs' \subseteq G /\ ACs' \subseteq G
  <2>1. newB' \subseteq newB \cup X /\ newC' \subseteq newC \cup X /\ vis' \subseteq vis \cup M \cup newB' \cup newC'
    BY <1>2 DEF Listed
  <2>. QED BY <1>2, <2>1 DEF SpreadFrom, Inside
<1>. QED BY <1>2, <1>3, <1>6, <1>7 DEF Inside

\* The steps that begin or end a round, and the end.
RoundNext == BeginBest \/ BeginFlood \/ BeginSweep \/ EndBest \/ EndFlood \/ Finish

LEMMA NextSplits == Next <=> (SpreadNext \/ RoundNext)
BY DEF Next, SpreadNext, RoundNext

LEMMA BeginKeeps ==
    ASSUME NEW G, SpreadFrom(G), NEW seeds \in SUBSET G, NEW lone \in BOOLEAN, Begin(seeds, lone)
    PROVE  /\ HeapOK' /\ results' \subseteq G /\ vis' = vis \cup seeds /\ UNCHANGED <<query, ABs, ACs>>
           /\ QueryOK' /\ RimOK'
<1>1. results' = Admitted(seeds) /\ UNCHANGED <<query, ABs, ACs, crossing>> /\ vis' = vis \cup seeds
  BY DEF Begin
<1>2. seeds \in SUBSET Pts
  BY DEF SpreadFrom
<1>3. /\ Admitted(seeds) \subseteq results \cup (seeds \cap sat) /\ Admitted(seeds) \subseteq sat
      /\ Cardinality(Admitted(seeds)) <= K
  BY <1>2, AdmittedHeap DEF SpreadFrom
<1>4. QueryOK' /\ RimOK'
  BY <1>1 DEF SpreadFrom, QueryOK, RimOK, query, crossing, stamps
<1>. QED BY <1>1, <1>3, <1>4 DEF HeapOK, query, SpreadFrom, Inside

LEMMA RoundKeeps ==
    ASSUME NEW G, SpreadFrom(G), RoundNext
    PROVE  UNCHANGED query /\ QueryOK' /\ HeapOK' /\ StageOK' /\ RimOK' /\ Inside(G)'
<1>. Inside(G) /\ Aside(G) /\ StageOK /\ G \in SUBSET Pts
  BY DEF SpreadFrom, Inside
<1>1. CASE BeginBest
  <2>1. Begin(ACs, ABs = {}) /\ ACs \in SUBSET G /\ (ABs = {}) \in BOOLEAN
    BY <1>1 DEF BeginBest, Inside
  <2>2. /\ HeapOK' /\ results' \subseteq G /\ vis' = vis \cup ACs /\ UNCHANGED <<query, ABs, ACs>>
        /\ QueryOK' /\ RimOK'
    BY <2>1, BeginKeeps
  <2>3. StageOK'
    BY <1>1 DEF BeginBest, Begin, StageOK, replay
  <2>4. Aside(G)'
    BY <1>1, <2>1 DEF BeginBest, Begin, Aside, crossing, stamps, Regs
  <2>5. vis' \subseteq G /\ newB' \subseteq G /\ newC' \subseteq G /\ ABs' \subseteq G /\ ACs' \subseteq G
    BY <2>1, <2>2 DEF Begin, Inside
  <2>. QED BY <2>2, <2>3, <2>4, <2>5 DEF Inside
<1>2. CASE BeginFlood \/ BeginSweep
  <2>1. Begin(ABs, ACs = {}) /\ ABs \in SUBSET G /\ (ACs = {}) \in BOOLEAN
    BY <1>2 DEF BeginFlood, BeginSweep, Inside
  <2>2. /\ HeapOK' /\ results' \subseteq G /\ vis' = vis \cup ABs /\ UNCHANGED <<query, ABs, ACs>>
        /\ QueryOK' /\ RimOK'
    BY <2>1, BeginKeeps
  <2>3. StageOK'
    BY <1>2 DEF BeginFlood, BeginSweep, Begin, StageOK, replay
  <2>4. Regs(ABs) \subseteq Regs(G)
    BY <2>1 DEF Regs
  <2>5. Aside(G)'
    BY <1>2, <2>1, <2>4 DEF BeginFlood, BeginSweep, Begin, Aside, crossing, stamps
  <2>6. vis' \subseteq G /\ newB' \subseteq G /\ newC' \subseteq G /\ ABs' \subseteq G /\ ACs' \subseteq G
    BY <2>1, <2>2 DEF Begin, Inside
  <2>. QED BY <2>2, <2>3, <2>5, <2>6 DEF Inside
<1>3. CASE EndBest \/ EndFlood
  <2>1. /\ UNCHANGED <<query, pure, vis, results, newB, newC, sfr, work, scan, ph2, svis2, stamps,
                       crossing, replay>>
        /\ pc' = "round" /\ ABs' \subseteq ABs \cup newB /\ ACs' \subseteq ACs \cup newC
    BY <1>3 DEF EndBest, EndFlood, nABs, nACs
  <2>2. QueryOK' /\ HeapOK' /\ StageOK' /\ RimOK'
    BY <2>1 DEF SpreadFrom, QueryOK, HeapOK, StageOK, RimOK, query, crossing, stamps, replay
  <2>3. work' \subseteq G
    <3>1. pc = "sweep" => work = {}
      BY <1>3 DEF EndBest, EndFlood
    <3>. QED BY <2>1, <3>1 DEF Aside
  <2>4. Aside(G)'
    BY <2>1, <2>3 DEF Aside, crossing, stamps
  <2>5. vis' \subseteq G /\ results' \subseteq G /\ newB' \subseteq G /\ newC' \subseteq G /\ ABs' \subseteq G /\ ACs' \subseteq G
    BY <2>1 DEF Inside
  <2>. QED BY <2>1, <2>2, <2>4, <2>5 DEF Inside
<1>4. CASE Finish
  <2>1. /\ UNCHANGED <<query, pure, vis, results, ABs, ACs, newB, newC, sfr, work, scan, ph2, svis2,
                       stamps, crossing, replay>>
        /\ pc = "round" /\ pc' = "done"
    BY <1>4 DEF Finish
  <2>2. QueryOK' /\ HeapOK' /\ StageOK' /\ RimOK'
    BY <2>1 DEF SpreadFrom, QueryOK, HeapOK, StageOK, RimOK, query, crossing, stamps, replay
  <2>3. Aside(G)'
    BY <2>1 DEF Aside, crossing, stamps
  <2>4. vis' \subseteq G /\ results' \subseteq G /\ newB' \subseteq G /\ newC' \subseteq G /\ ABs' \subseteq G /\ ACs' \subseteq G
    BY <2>1 DEF Inside
  <2>. QED BY <2>1, <2>2, <2>3, <2>4 DEF Inside
<1>. QED BY <1>1, <1>2, <1>3, <1>4 DEF RoundNext

(***************************************************************************)
(* The inductive invariant.                                                *)
(***************************************************************************)

LEMMA InvStarts ==
    ASSUME TypeInv, NEW G \in SUBSET Pts, Closed(G), entry \in G
    PROVE  SpreadFrom(G)
BY DEF TypeInv, Within, SpreadFrom

LEMMA InitInv == Init => TypeInv
<1>. SUFFICES ASSUME Init PROVE TypeInv
  OBVIOUS
<1>1. QueryOK
  BY QueryAssumption DEF Init, QueryOK
<1>. DEFINE S == {entry} \cap sat
<1>2. results = Best(S) /\ S \in SUBSET Pts
  BY <1>1 DEF Init, QueryOK
<1>3. Ranks(Dist, S) /\ Best(S) = Kept(Dist, K, S) /\ K \in Nat
  <2>. HIDE DEF S
  <2>. QED BY <1>2, BestIsKept
<1>4. results \subseteq S /\ Cardinality(results) <= K
  <2>. HIDE DEF S
  <2>. QED BY <1>2, <1>3, KeptCount
<1>5. HeapOK
  <2>1. S \subseteq sat
    OBVIOUS
  <2>. HIDE DEF S
  <2>. QED BY <1>4, <2>1 DEF HeapOK
<1>6. StageOK /\ RimOK
  <2>1. pc = "round" /\ pure \in BOOLEAN /\ frontier = {}
    BY DEF Init
  <2>2. replays \in 0 .. MaxReplays /\ replayWorst \in Nat
    <3>1. replays = 0 /\ replayWorst = Far
      BY DEF Init
    <3>. QED BY <3>1, QueryAssumption
  <2>. QED BY <2>1, <2>2 DEF StageOK, RimOK
<1>7. Within
  <2>. SUFFICES ASSUME NEW G \in SUBSET Pts, entry \in G PROVE Inside(G)
    BY DEF Within
  <2>. QED BY <1>4 DEF Init, Inside, Aside
<1>. QED BY <1>1, <1>5, <1>6, <1>7 DEF TypeInv

LEMMA StepInv ==
    ASSUME TypeInv, [Next]_vars
    PROVE  TypeInv'
<1>1. CASE Next
  <2>1. ASSUME NEW G \in SUBSET Pts, Closed(G), entry \in G
        PROVE  UNCHANGED query /\ QueryOK' /\ HeapOK' /\ StageOK' /\ RimOK' /\ Inside(G)'
    <3>1. SpreadFrom(G)
      BY <2>1, InvStarts
    <3>2. CASE SpreadNext
      BY <3>1, <3>2, SpreadNextSpreads, SpreadKeeps
    <3>3. CASE RoundNext
      BY <3>1, <3>3, RoundKeeps
    <3>. QED BY <1>1, <3>2, <3>3, NextSplits
  <2>2. Closed(Pts) /\ entry \in Pts
    BY AllClosed DEF TypeInv, QueryOK
  <2>3. UNCHANGED query /\ QueryOK' /\ HeapOK' /\ StageOK' /\ RimOK'
    BY <2>1, <2>2
  <2>4. Within'
    <3>. SUFFICES ASSUME NEW G \in SUBSET Pts, Closed(G), entry' \in G PROVE Inside(G)'
      BY DEF Within
    <3>1. entry \in G
      BY <2>3 DEF query
    <3>. QED BY <2>1, <3>1
  <2>. QED BY <2>3, <2>4 DEF TypeInv
<1>2. CASE UNCHANGED vars
  <2>1. QueryOK' /\ HeapOK' /\ StageOK' /\ RimOK'
    BY <1>2 DEF TypeInv, QueryOK, HeapOK, StageOK, RimOK, vars, query, crossing, stamps, replay
  <2>2. \A G : Inside(G) => Inside(G)'
    BY <1>2 DEF Inside, Aside, vars, query, crossing, stamps, replay
  <2>3. Within'
    BY <1>2, <2>2 DEF TypeInv, Within, vars, query
  <2>. QED BY <2>1, <2>3 DEF TypeInv
<1>. QED BY <1>1, <1>2

\* Every variable of the search has its type: a step keeps the points it holds
\* within every set that neither an edge nor a region leads out of.
THEOREM SearchTypes == Spec => []TypeOK
<1>1. Init => TypeInv
  BY InitInv
<1>2. TypeInv /\ [Next]_vars => TypeInv'
  BY StepInv
<1>3. TypeInv => TypeOK
  BY InvTypes
<1>. QED BY <1>1, <1>2, <1>3, PTL DEF Spec

(***************************************************************************)
(* Empty regions are not entered.                                          *)
(***************************************************************************)

LEMMA EmptyStep ==
    ASSUME TypeInv, EmptyNotEntered, [Next]_vars
    PROVE  EmptyNotEntered'
<1>1. SpreadFrom(Pts)
  BY AllClosed, InvStarts DEF TypeInv, QueryOK
<1>. SUFFICES ASSUME mode'.transparent
              PROVE  (Regs(ABs' \cup ACs' \cup newB' \cup newC') \cup sfr' \cup swept') \cap hollow'
                         \subseteq {RegionOf[entry']}
  BY DEF EmptyNotEntered, Regs
<1>. DEFINE Lists == ABs \cup ACs \cup newB \cup newC
<1>2. ASSUME UNCHANGED query
      PROVE  (Regs(Lists) \cup sfr \cup swept) \cap hollow \subseteq {RegionOf[entry]}
  BY <1>2 DEF EmptyNotEntered, query
<1>3. CASE SpreadNext
  <2>1. Spreading(Pts)
    BY <1>1, <1>3, SpreadNextSpreads
  <2>2. PICK E \in SUBSET Pts, M \in SUBSET Pts, X \in SUBSET Pts : SpreadStep(Pts, E, M, X)
    BY <2>1 DEF Spreading
  <2>3. UNCHANGED <<query, ABs, ACs>>
    BY <2>2 DEF SpreadStep
  <2>4. \A p \in Pts : ~ Crosses(p) => RegionOf[p] \notin hollow
    BY <2>3 DEF Crosses, query
  <2>5. newB' \subseteq newB \cup X /\ newC' \subseteq newC \cup X /\ \A p \in X : RegionOf[p] \notin hollow
    BY <2>2, <2>4 DEF SpreadStep, Listed
  <2>6. (sfr' \cup swept') \cap hollow \subseteq sfr \cup swept
    BY <2>2, <2>4 DEF SpreadStep
  <2>7. Regs(ABs' \cup ACs' \cup newB' \cup newC') \cap hollow \subseteq Regs(Lists)
    BY <2>3, <2>5 DEF Regs
  <2>. HIDE DEF Lists
  <2>. QED BY <1>2, <2>3, <2>6, <2>7 DEF query
<1>4. CASE RoundNext
  <2>1. UNCHANGED query
    BY <1>1, <1>4, RoundKeeps
  <2>2. ABs' \cup ACs' \cup newB' \cup newC' \subseteq Lists
    BY <1>4 DEF RoundNext, BeginBest, BeginFlood, BeginSweep, Begin, EndBest, EndFlood, Finish, nABs, nACs
  <2>3. Regs(ABs' \cup ACs' \cup newB' \cup newC') \subseteq Regs(Lists)
    BY <2>2 DEF Regs
  <2>4. sfr' \cup swept' \subseteq sfr \cup swept \cup Regs(Lists)
    BY <1>4 DEF RoundNext, BeginBest, BeginFlood, BeginSweep, Begin, EndBest, EndFlood, Finish, Regs, stamps
  <2>. HIDE DEF Lists
  <2>. QED BY <1>2, <2>1, <2>3, <2>4 DEF query
<1>5. CASE UNCHANGED vars
  <2>1. UNCHANGED <<query, ABs, ACs, newB, newC, sfr, swept>>
    BY <1>5 DEF vars, stamps
  <2>. QED BY <1>2, <2>1 DEF query
<1>. QED BY <1>3, <1>4, <1>5, NextSplits

LEMMA EmptyInit == Init => EmptyNotEntered
<1>. SUFFICES ASSUME Init PROVE Regs(ABs \cup ACs \cup newB \cup newC) \cup sfr \cup swept \subseteq {RegionOf[entry]}
  BY DEF EmptyNotEntered
<1>1. ABs \cup ACs \cup newB \cup newC \subseteq {entry} /\ sfr = {} /\ swept = {}
  BY DEF Init
<1>. QED BY <1>1 DEF Regs

\* A transparent search crosses empty regions and never lists a point of one,
\* walks into one or sweeps one, other than the one it starts in.
THEOREM EmptyRegionsNotEntered == Spec => []EmptyNotEntered
<1>1. Init => TypeInv /\ EmptyNotEntered
  BY InitInv, EmptyInit
<1>2. TypeInv /\ EmptyNotEntered /\ [Next]_vars => (TypeInv /\ EmptyNotEntered)'
  BY StepInv, EmptyStep
<1>. QED BY <1>1, <1>2, PTL DEF Spec

(***************************************************************************)
(* What is marked visited is not forgotten.                                *)
(***************************************************************************)

\* At the start of a round the lists hold all that was listed; during a spread
\* the points of the list it took have been evaluated.
TakenSettled ==
    /\ pc = "round" => newB \subseteq ABs /\ newC \subseteq ACs
    /\ pc \in {"best", "diffuse"} => \A p \in ACs \cap sat : Settled(p)
    /\ pc \in {"flood", "sweep"} => \A p \in ABs \cap sat : Settled(p)

KeepsTrack ==
    /\ TakenSettled
    /\ \A p \in vis \cap sat : Settled(p) \/ p \in ABs \cup ACs \cup newB \cup newC

LEMMA TrackStep ==
    ASSUME TypeInv, KeepsTrack, [Next]_vars
    PROVE  KeepsTrack'
<1>1. SpreadFrom(Pts)
  BY AllClosed, InvStarts DEF TypeInv, QueryOK
<1>. QueryOK /\ HeapOK /\ sat \subseteq Pts
  BY DEF TypeInv, QueryOK
<1>2. CASE SpreadNext
  <2>1. PICK E \in SUBSET Pts, M \in SUBSET Pts, X \in SUBSET Pts : SpreadStep(Pts, E, M, X)
    BY <1>1, <1>2, SpreadNextSpreads DEF Spreading
  <2>2. /\ UNCHANGED <<sat, ABs, ACs>> /\ results' = Admitted(E) /\ M \cap sat \subseteq E /\ Spreads
        /\ newB \subseteq newB' /\ newC \subseteq newC' /\ vis' \subseteq vis \cup M \cup newB' \cup newC'
    BY <2>1 DEF SpreadStep, Listed, query
  <2>3. \A p \in sat : Settled(p) \/ p \in E => Settled(p)'
    BY <2>2, SettledAfter
  <2>4. TakenSettled'
    BY <2>2, <2>3 DEF TakenSettled, KeepsTrack, Spreads
  <2>5. ASSUME NEW p \in vis' \cap sat'
        PROVE  Settled(p)' \/ p \in ABs' \cup ACs' \cup newB' \cup newC'
    BY <2>2, <2>3 DEF KeepsTrack
  <2>. QED BY <2>4, <2>5 DEF KeepsTrack
<1>3. ASSUME NEW seeds \in SUBSET Pts, NEW lone, Begin(seeds, lone),
             \/ pc' = "best" /\ seeds = ACs
             \/ pc' \in {"flood", "sweep"} /\ seeds = ABs
      PROVE  KeepsTrack'
  <2>1. /\ pc = "round" /\ vis' = vis \cup seeds /\ results' = Admitted(seeds)
        /\ newB' = {} /\ newC' = {} /\ UNCHANGED <<sat, ABs, ACs>>
    BY <1>3 DEF Begin, query
  <2>2. \A p \in sat : Settled(p) \/ p \in seeds => Settled(p)'
    BY <2>1, SettledAfter
  <2>3. TakenSettled'
    BY <1>3, <2>1, <2>2 DEF TakenSettled
  <2>4. ASSUME NEW p \in vis' \cap sat'
        PROVE  Settled(p)' \/ p \in ABs' \cup ACs' \cup newB' \cup newC'
    BY <2>1, <2>2 DEF KeepsTrack, TakenSettled
  <2>. QED BY <2>3, <2>4 DEF KeepsTrack
<1>4. CASE BeginBest \/ BeginFlood \/ BeginSweep
  <2>1. ABs \in SUBSET Pts /\ ACs \in SUBSET Pts
    BY <1>1 DEF SpreadFrom, Inside
  <2>2. \E lone : \/ Begin(ACs, lone) /\ pc' = "best"
                  \/ Begin(ABs, lone) /\ pc' \in {"flood", "sweep"}
    BY <1>4 DEF BeginBest, BeginFlood, BeginSweep
  <2>. QED BY <1>3, <2>1, <2>2
<1>5. ASSUME UNCHANGED <<sat, results>> PROVE \A p : Settled(p)' <=> Settled(p)
  BY <1>5 DEF Settled, Closer, Full
<1>6. CASE EndBest \/ EndFlood
  <2>1. /\ UNCHANGED <<sat, results, vis, newB, newC>> /\ pc' = "round"
        /\ \/ pc = "diffuse" /\ ABs' = ABs \cup newB /\ ACs' = newC
           \/ pc \in {"flood", "sweep"} /\ ABs' = newB /\ ACs' = ACs \cup newC
    BY <1>6 DEF EndBest, EndFlood, nABs, nACs, query
  <2>2. \A p : Settled(p)' <=> Settled(p)
    BY <1>5, <2>1
  <2>3. TakenSettled'
    BY <2>1 DEF TakenSettled
  <2>4. ASSUME NEW p \in vis' \cap sat'
        PROVE  Settled(p)' \/ p \in ABs' \cup ACs' \cup newB' \cup newC'
    BY <2>1, <2>2 DEF KeepsTrack, TakenSettled
  <2>. QED BY <2>3, <2>4 DEF KeepsTrack
<1>7. CASE Finish \/ UNCHANGED vars
  <2>1. /\ UNCHANGED <<sat, results, vis, ABs, ACs, newB, newC>> /\ (pc' = pc \/ pc' = "done")
    BY <1>7 DEF Finish, vars, query
  <2>2. \A p : Settled(p)' <=> Settled(p)
    BY <1>5, <2>1
  <2>. QED BY <2>1, <2>2 DEF KeepsTrack, TakenSettled
<1>. QED BY <1>2, <1>4, <1>6, <1>7, NextSplits DEF RoundNext

LEMMA TrackInit == Init => KeepsTrack
<1>. SUFFICES ASSUME Init PROVE KeepsTrack
  OBVIOUS
<1>1. pc = "round" /\ newB = {} /\ newC = {} /\ vis \subseteq ABs \cup ACs
  BY DEF Init
<1>. QED BY <1>1 DEF KeepsTrack, TakenSettled

\* A visited point is never looked at again, so none that satisfies the
\* predicate is forgotten: it is a result, K results beat it, or it is listed.
THEOREM NoVisitedPointLost == Spec => []NoVisitedLost
<1>1. Init => TypeInv /\ KeepsTrack
  BY InitInv, TrackInit
<1>2. TypeInv /\ KeepsTrack /\ [Next]_vars => (TypeInv /\ KeepsTrack)'
  BY StepInv, TrackStep
<1>3. KeepsTrack => NoVisitedLost
  BY DEF KeepsTrack, NoVisitedLost, Settled
<1>. QED BY <1>1, <1>2, <1>3, PTL DEF Spec

(***************************************************************************)
(* A search short of K results has found every satisfying point that is    *)
(* followed from its entry.                                                *)
(***************************************************************************)

\* Entries in regions that no sweep has stamped.
Fresh(S) == {p \in S : RegionOf[p] \notin swept}

\* Listed for a later spread, or still to be walked on from by this one.
Waiting ==
    Fresh(newB) \cup newC
    \cup (IF pc \in {"round", "best", "diffuse"} THEN Fresh(ABs) ELSE {})
    \cup (IF pc \in {"round", "flood", "sweep"} THEN ACs ELSE {})
    \cup (IF pc \in {"best", "flood"} THEN work ELSE {})
    \cup (IF pc = "sweep" THEN {p \in Pts : RegionOf[p] \in work} ELSE {})

\* The search has q, is about to look at it, or knows its region from elsewhere.
Linked(p, q) ==
    \/ q \in vis
    \/ pc \in {"best", "flood"} /\ q \in scan /\ RegionOf[p] \in sfr
    \/ /\ RegionOf[q] # RegionOf[p]
       /\ \/ RegionOf[q] \in Regs(vis) \cup tvis
          \/ pc = "sweep" /\ RegionOf[q] \in work \cup Regs(scan)

\* The search has walked on from p.
Expanded(p) == \A q \in Nbr[p] : Linked(p, q)

Crossed(p) == RegionOf[p] \in tvis \cap hollow

\* While there is room among the results every visited point waits, is stranded,
\* was crossed or was walked on from.
VisitedCovered == \A p \in vis : p \in Waiting \cup stranded \/ Crossed(p) \/ Expanded(p)

\* A crossing knows every region next to the empty ones it crossed.
CrossingsCovered ==
    /\ tvis \subseteq Regs(vis) \cup hollow
    /\ \A r \in tvis \cap hollow : Adj(r) \subseteq tvis

NothingShelved ==
    /\ ph2 = {} /\ (pc = "diffuse" => scan = {})
    /\ pc \in {"best", "flood"} => Regs(work) \subseteq sfr
    /\ pc = "done" => ABs = {} /\ ACs = {} /\ newB = {} /\ newC = {}

ListedVisited == entry \in vis /\ ABs \cup ACs \cup newB \cup newC \subseteq vis

\* A stamped region has no unvisited point, unless the sweep is still to take it.
SweptWhole == \A r \in swept : Members(r) \subseteq vis \/ (pc = "sweep" /\ r \in work)

\* Points of empty regions are visited on crossings only.
HollowCrossed ==
    mode.transparent =>
        \A p \in vis : RegionOf[p] \in hollow => RegionOf[p] \in tvis \cup {RegionOf[entry]}

Stamped ==
    /\ pc = "sweep" => mode.membership /\ work \subseteq swept
    /\ entry \notin newB
    /\ stranded \subseteq MayStrand /\ Regs(stranded) \subseteq swept
    /\ SweptWhole /\ HollowCrossed

\* The inductive invariant behind Exhaustive.
Covered ==
    /\ ListedVisited /\ Stamped
    /\ ~ Full(results) => VisitedCovered /\ CrossingsCovered /\ NothingShelved

SearchInv == TypeInv /\ EmptyNotEntered /\ KeepsTrack /\ Covered

\* A region that offers no entry has been visited as a whole.
LEMMA NoSeedLeft ==
    ASSUME NEW n, NEW e \in Members(n), SeedFor(n, e) = {}
    PROVE  Members(n) \subseteq vis /\ e \in vis
<1>1. e \in vis /\ {p \in Members(n) \ vis : \A q \in Members(n) \ vis : p <= q} = {}
  BY DEF SeedFor
<1>. DEFINE S == Members(n) \ vis
            D == [p \in S |-> p]
<1>2. S \in SUBSET Pts
  BY DEF Members
<1>3. IsFiniteSet(S) /\ \A p \in S : p \in Nat
  BY <1>2, GraphAssumption, FS_Subset
<1>4. \A p, q \in S : D[p] = D[q] => p = q
  OBVIOUS
<1>5. Ranks(D, S)
  <2>1. D \in [S -> Nat]
    BY <1>3
  <2>. HIDE DEF D
  <2>. QED BY <1>3, <1>4, <2>1 DEF Ranks
<1>6. ASSUME S # {} PROVE FALSE
  <2>1. \E p \in S : \A q \in S : D[p] <= D[q]
    <3>. HIDE DEF D, S
    <3>. QED BY <1>5, <1>6, NearestOne
  <2>2. \E p \in S : \A q \in S : p <= q
    BY <2>1
  <2>. QED BY <1>1, <2>2
<1>. QED BY <1>1, <1>6

\* An unvisited point is in no stamped region, but for those the sweep is to take.
LEMMA UnvisitedFresh ==
    ASSUME Stamped, NEW p \in Pts \ vis, ~ (pc = "sweep" /\ RegionOf[p] \in work)
    PROVE  RegionOf[p] \notin swept
BY DEF Stamped, SweptWhole, Members

LEMMA StampedKnown ==
    ASSUME Stamped, TypeInv, NEW r \in swept
    PROVE  r \in Regs(vis) \/ (pc = "sweep" /\ r \in work)
<1>1. r \in Regs(Pts)
  BY AllClosed DEF TypeInv, QueryOK, Within, Inside, Aside
<1>. QED BY <1>1 DEF Stamped, SweptWhole, Members, Regs

LEMMA CrossingsGrow ==
    ASSUME [Next]_vars
    PROVE  tvis \subseteq tvis'
<1>1. CASE UNCHANGED crossing
  BY <1>1 DEF crossing
<1>2. ASSUME NEW r, NEW M, Transit(r, M) PROVE tvis \subseteq tvis'
  BY <1>2 DEF Transit, crossing
<1>3. CASE ScanBest
  BY <1>1, <1>2, <1>3 DEF ScanBest, ScanInside, ScanHollow, ScanWalk, ScanList
<1>4. CASE ScanDiffuse
  BY <1>1, <1>2, <1>4 DEF ScanDiffuse, DiffuseInside, DiffuseCross
<1>5. CASE ScanFlood
  BY <1>1, <1>2, <1>5 DEF ScanFlood, FloodVisit, FloodCross
<1>6. CASE ScanSweep
  BY <1>1, <1>2, <1>6 DEF ScanSweep
<1>7. CASE BeginBest \/ BeginFlood \/ BeginSweep \/ Finish \/ ExpandBest \/ Diffuse \/ EndBest
           \/ ExpandFlood \/ SweepRegion \/ EndFlood
  BY <1>1, <1>7 DEF BeginBest, BeginFlood, BeginSweep, Begin, Finish, ExpandBest, Diffuse, EndBest,
                    ExpandFlood, SweepRegion, EndFlood
<1>8. CASE Replay \/ EarlyStop \/ BoundaryStop \/ HeapEmpty
  BY <1>1, <1>8 DEF Replay, EarlyStop, BoundaryStop, HeapEmpty, Drop
<1>9. CASE UNCHANGED vars
  BY <1>1, <1>9 DEF vars
<1>. QED BY <1>3, <1>4, <1>5, <1>6, <1>7, <1>8, <1>9 DEF Next

LEMMA RoomBefore ==
    ASSUME QueryOK, HeapOK, NEW S \in SUBSET Pts, results' = Admitted(S), ~ Full(results')
    PROVE  ~ Full(results)
<1>. DEFINE T == results \cup (S \cap sat)
<1>1. T \in SUBSET Pts /\ results \in SUBSET T
  BY DEF QueryOK, HeapOK
<1>2. Ranks(Dist, T) /\ results' = Kept(Dist, K, T) /\ K \in Nat
  BY <1>1, BestIsKept DEF Admitted
<1>. HIDE DEF T
<1>3. results' \subseteq T
  BY <1>2, KeptCount
<1>4. Cardinality(results) <= Cardinality(T) /\ Cardinality(results) \in Nat /\ Cardinality(T) \in Nat
  BY <1>1, <1>2, RanksPart
<1>5. CASE results' = T
  BY <1>2, <1>4, <1>5 DEF Full
<1>6. ASSUME NEW p \in T, p \notin results' PROVE FALSE
  <2>1. Cardinality(results') = K
    BY <1>2, <1>6, NotKept
  <2>. QED BY <1>2, <2>1 DEF Full
<1>. QED BY <1>3, <1>5, <1>6

\* Listing the points of S makes their regions known.
LEMMA ListKnown ==
    ASSUME ListedVisited, NEW S \in SUBSET Pts, NEW F, NEW M, List(S, F, M), F \subseteq S
    PROVE  /\ vis \subseteq vis' /\ M \subseteq vis' /\ vis' \subseteq vis \cup M \cup newB' \cup newC'
           /\ newB \cup newC \subseteq newB' \cup newC' /\ newB' \cup newC' \subseteq vis'
           /\ Regs(S) \subseteq Regs(vis')
<1>1. /\ newB' = newB \cup {p \in F : RegionOf[p] \notin Regs(newB)}
      /\ newC' = newC \cup {p \in S \ F : RegionOf[p] \notin Regs(newC)}
      /\ vis' = vis \cup M \cup (newB' \ newB) \cup (newC' \ newC)
  BY DEF List
<1>2. newB \cup newC \subseteq vis
  BY DEF ListedVisited
<1>3. newB' \cup newC' \subseteq vis'
  BY <1>1, <1>2
<1>4. ASSUME NEW p \in S PROVE RegionOf[p] \in Regs(newB') \cup Regs(newC')
  <2>1. CASE p \in F
    BY <1>1, <2>1 DEF Regs
  <2>2. CASE p \notin F
    BY <1>1, <2>2 DEF Regs
  <2>. QED BY <2>1, <2>2
<1>5. Regs(newB') \cup Regs(newC') \subseteq Regs(vis')
  BY <1>3 DEF Regs
<1>6. Regs(S) \subseteq Regs(vis')
  BY <1>4, <1>5 DEF Regs
<1>. QED BY <1>1, <1>3, <1>6

\* The empty regions a crossing goes through.
LEMMA HollowsAre ==
    ASSUME QueryOK, NEW r \in hollow
    PROVE  /\ r \in Hollows(r) /\ Hollows(r) \subseteq hollow
           /\ \A u \in Hollows(r) : Adj(u) \subseteq tvis \cup Hollows(r) \cup Rim(r)
<1>1. hollow \in SUBSET Regs(Pts)
  BY DEF QueryOK
<1>2. r \in Hollows(r)
  BY <1>1 DEF Hollows
<1>3. Hollows(r) \subseteq hollow
  <2>1. r \in hollow /\ \A u \in hollow : (Adj(u) \cap hollow) \ tvis \subseteq hollow
    OBVIOUS
  <2>. QED BY <1>1, <2>1 DEF Hollows
<1>4. ASSUME NEW u \in Hollows(r), NEW n \in Adj(u), n \in hollow, n \notin tvis
      PROVE  n \in Hollows(r)
  <2>1. n \in Regs(Pts)
    BY <1>1, <1>4
  <2>2. ASSUME NEW S \in SUBSET Regs(Pts), r \in S, \A w \in S : (Adj(w) \cap hollow) \ tvis \subseteq S
        PROVE  n \in S
    <3>1. u \in S
      BY <2>2 DEF Hollows
    <3>. QED BY <1>4, <2>2, <3>1
  <2>. QED BY <2>1, <2>2 DEF Hollows
<1>5. ASSUME NEW u \in Hollows(r), NEW n \in Adj(u), n \notin tvis, n \notin hollow
      PROVE  n \in Rim(r)
  BY <1>5 DEF Rim
<1>. QED BY <1>2, <1>3, <1>4, <1>5

LEMMA TransitCovers ==
    ASSUME QueryOK, ListedVisited, CrossingsCovered, NEW r \in hollow, NEW M, Transit(r, M),
           UNCHANGED hollow
    PROVE  /\ CrossingsCovered' /\ r \in tvis' /\ tvis \subseteq tvis'
           /\ vis \subseteq vis' /\ M \subseteq vis' /\ vis' \subseteq vis \cup M \cup newB' \cup newC'
           /\ newB \cup newC \subseteq newB' \cup newC' /\ newB' \cup newC' \subseteq vis'
<1>1. CASE r \in tvis
  <2>1. vis' = vis \cup M /\ UNCHANGED <<newB, newC, tvis>>
    BY <1>1 DEF Transit, crossing
  <2>2. CrossingsCovered'
    BY <2>1 DEF CrossingsCovered, Regs
  <2>3. newB \cup newC \subseteq vis
    BY DEF ListedVisited
  <2>. QED BY <1>1, <2>1, <2>2, <2>3
<1>2. CASE r \notin tvis
  <2>1. PICK rep \in [Rim(r) -> Pts], F \in SUBSET Rim(r) :
            /\ \A n \in Rim(r) : \E u \in Hollows(r) : rep[n] \in Across(u, n)
            /\ tvis' = tvis \cup Hollows(r) \cup Rim(r)
            /\ List(UNION {SeedFor(n, rep[n]) : n \in Rim(r)},
                    {p \in UNION {SeedFor(n, rep[n]) : n \in Rim(r)} : RegionOf[p] \in F}, M)
    BY <1>2 DEF Transit
  <2>. DEFINE seeds == UNION {SeedFor(n, rep[n]) : n \in Rim(r)}
  <2>2. \A n \in Rim(r) : rep[n] \in Members(n)
    BY <2>1 DEF Across
  <2>3. \A n \in Rim(r) : SeedFor(n, rep[n]) \subseteq Members(n)
    BY <2>2, SeedIsMember
  <2>4. seeds \in SUBSET Pts
    BY <2>3 DEF Members
  <2>5. /\ vis \subseteq vis' /\ M \subseteq vis' /\ vis' \subseteq vis \cup M \cup newB' \cup newC'
        /\ newB \cup newC \subseteq newB' \cup newC' /\ newB' \cup newC' \subseteq vis'
        /\ Regs(seeds) \subseteq Regs(vis')
    <3>1. List(seeds, {p \in seeds : RegionOf[p] \in F}, M) /\ {p \in seeds : RegionOf[p] \in F} \subseteq seeds
      BY <2>1
    <3>. HIDE DEF seeds
    <3>. QED BY <2>4, <3>1, ListKnown
  <2>6. ASSUME NEW n \in Rim(r) PROVE n \in Regs(vis')
    <3>1. CASE SeedFor(n, rep[n]) = {}
      <4>1. rep[n] \in vis
        BY <3>1 DEF SeedFor
      <4>. QED BY <2>2, <2>5, <4>1 DEF Regs, Members
    <3>2. CASE SeedFor(n, rep[n]) # {}
      <4>1. PICK p : p \in SeedFor(n, rep[n])
        BY <3>2
      <4>2. p \in seeds /\ RegionOf[p] = n
        BY <2>3, <4>1 DEF Members
      <4>3. n \in Regs(seeds)
        BY <4>2 DEF Regs
      <4>. QED BY <2>5, <4>3
    <3>. QED BY <3>1, <3>2
  <2>7. /\ r \in Hollows(r) /\ Hollows(r) \subseteq hollow
        /\ \A u \in Hollows(r) : Adj(u) \subseteq tvis \cup Hollows(r) \cup Rim(r)
    BY HollowsAre
  <2>8. Rim(r) \cap hollow = {}
    BY DEF Rim
  <2>9. CrossingsCovered'
    <3>1. Regs(vis) \subseteq Regs(vis')
      BY <2>5 DEF Regs
    <3>2. tvis' \subseteq Regs(vis') \cup hollow'
      BY <2>1, <2>6, <2>7, <3>1 DEF CrossingsCovered
    <3>3. ASSUME NEW u \in tvis' \cap hollow' PROVE Adj(u) \subseteq tvis'
      <4>1. u \in tvis \cap hollow \/ u \in Hollows(r)
        BY <2>1, <2>8
      <4>2. CASE u \in tvis \cap hollow
        BY <2>1, <4>2 DEF CrossingsCovered
      <4>3. CASE u \in Hollows(r)
        BY <2>1, <2>7, <4>3
      <4>. QED BY <4>1, <4>2, <4>3
    <3>. QED BY <3>2, <3>3 DEF CrossingsCovered
  <2>10. r \in tvis' /\ tvis \subseteq tvis'
    BY <2>1, <2>7
  <2>. HIDE DEF seeds
  <2>. QED BY <2>5, <2>9, <2>10
<1>. QED BY <1>1, <1>2

LEMMA ListedStaysVisited ==
    ASSUME TypeInv, ListedVisited, [Next]_vars
    PROVE  ListedVisited'
<1>1. SpreadFrom(Pts)
  BY AllClosed, InvStarts DEF TypeInv, QueryOK
<1>2. CASE SpreadNext
  <2>1. PICK E \in SUBSET Pts, M \in SUBSET Pts, X \in SUBSET Pts : SpreadStep(Pts, E, M, X)
    BY <1>1, <1>2, SpreadNextSpreads DEF Spreading
  <2>. QED BY <2>1 DEF SpreadStep, Listed, ListedVisited, query
<1>3. CASE RoundNext
  <2>1. /\ entry' = entry /\ vis \subseteq vis'
        /\ ABs' \cup ACs' \cup newB' \cup newC' \subseteq ABs \cup ACs \cup newB \cup newC
    BY <1>3 DEF RoundNext, BeginBest, BeginFlood, BeginSweep, Begin, EndBest, EndFlood, Finish, nABs, nACs,
                query
  <2>. QED BY <2>1 DEF ListedVisited
<1>4. CASE UNCHANGED vars
  BY <1>4 DEF vars, query, ListedVisited
<1>. QED BY <1>2, <1>3, <1>4, NextSplits

LEMMA StampedSpread ==
    ASSUME SearchInv, SpreadNext
    PROVE  Stamped'
<1>1. SpreadFrom(Pts)
  BY AllClosed, InvStarts DEF SearchInv, TypeInv, QueryOK
<1>2. PICK E \in SUBSET Pts, M \in SUBSET Pts, X \in SUBSET Pts : SpreadStep(Pts, E, M, X)
  BY <1>1, SpreadNextSpreads DEF Spreading
<1>3. UNCHANGED query /\ Listed(X, M) /\ stranded' \subseteq stranded \cup (IF pc = "sweep" THEN newB ELSE {})
      /\ (\A p \in X : p \notin vis)
      /\ \A p \in M : Crosses(p) => RegionOf[p] \in sfr \cup tvis' \cup (IF pc = "sweep" THEN work ELSE {})
  BY <1>2 DEF SpreadStep
<1>4. tvis \subseteq tvis' /\ EmptyNotEntered'
  BY CrossingsGrow, EmptyStep, NextSplits DEF SearchInv
<1>5. Stamped /\ ListedVisited /\ EmptyNotEntered
  BY DEF SearchInv, Covered
<1>6. entry' \notin newB'
  BY <1>3, <1>5 DEF Listed, Stamped, ListedVisited, query
<1>7. stranded' \subseteq MayStrand'
  <2>1. MayStrand' = MayStrand
    BY <1>3 DEF MayStrand, query
  <2>2. ASSUME pc = "sweep" PROVE newB \subseteq MayStrand
    <3>1. newB \subseteq Pts /\ entry \notin newB /\ mode.membership
      BY <1>1, <1>5, <2>2 DEF SpreadFrom, Inside, Stamped
    <3>2. mode.transparent => \A p \in newB : RegionOf[p] \notin hollow \ {RegionOf[entry]}
      BY <1>5 DEF EmptyNotEntered, Regs
    <3>. QED BY <3>1, <3>2 DEF MayStrand
  <2>. QED BY <1>3, <1>5, <2>1, <2>2 DEF Stamped
<1>8. HollowCrossed'
  <2>. SUFFICES ASSUME mode.transparent, NEW p \in vis', RegionOf[p] \in hollow
                PROVE  RegionOf[p] \in tvis' \cup {RegionOf[entry]}
    BY <1>3 DEF HollowCrossed, query
  <2>1. CASE p \in vis
    BY <1>4, <1>5, <2>1 DEF Stamped, HollowCrossed
  <2>2. CASE p \in newB' \cup newC'
    BY <1>3, <1>4, <2>2 DEF EmptyNotEntered, Regs, query
  <2>3. CASE p \in M
    <3>1. RegionOf[p] \in sfr \cup tvis' \cup (IF pc = "sweep" THEN work ELSE {})
      BY <1>3, <2>3 DEF Crosses
    <3>2. RegionOf[p] \in sfr \cup tvis' \cup swept
      BY <1>5, <3>1 DEF Stamped
    <3>. QED BY <1>5, <3>2 DEF EmptyNotEntered
  <2>. QED BY <1>3, <2>1, <2>2, <2>3 DEF Listed
<1>9. CASE pc # "sweep"
  <2>1. UNCHANGED stamps /\ pc' # "sweep"
    BY <1>2, <1>9 DEF SpreadNext, SpreadStep, Spreads, ExpandBest, ScanBest, Replay, EarlyStop, BoundaryStop,
                      HeapEmpty, Drop, Diffuse, ScanDiffuse, ExpandFlood, ScanFlood, SweepRegion, ScanSweep
  <2>2. vis \subseteq vis'
    BY <1>3 DEF Listed
  <2>3. Regs(stranded') \subseteq swept' /\ SweptWhole'
    BY <1>5, <1>9, <2>1, <2>2 DEF Stamped, SweptWhole, stamps
  <2>. QED BY <1>6, <1>7, <1>8, <2>1, <2>3 DEF Stamped
<1>10. CASE SweepRegion
  <2>1. PICK r \in work : work' = work \ {r} /\ vis' = vis \cup Members(r)
    BY <1>10 DEF SweepRegion
  <2>2. pc = "sweep" /\ pc' = pc /\ UNCHANGED <<swept, stranded>>
    BY <1>10 DEF SweepRegion, stamps
  <2>3. SweptWhole'
    BY <1>5, <2>1, <2>2 DEF Stamped, SweptWhole
  <2>4. mode'.membership /\ work' \subseteq swept' /\ Regs(stranded') \subseteq swept'
    BY <1>3, <1>5, <2>1, <2>2 DEF Stamped, query
  <2>. QED BY <1>6, <1>7, <1>8, <2>3, <2>4 DEF Stamped
<1>11. CASE ScanSweep
  <2>1. PICK e \in Pending :
          IF Crosses(e) THEN Transit(RegionOf[e], {}) /\ UNCHANGED <<stamps, work>>
          ELSE SweepCross(RegionOf[e], SeedFor(RegionOf[e], e)) /\ UNCHANGED crossing
    BY <1>11 DEF ScanSweep
  <2>2. pc = "sweep" /\ pc' = pc /\ vis \subseteq vis'
    BY <1>3, <1>11 DEF ScanSweep, Listed
  <2>3. CASE UNCHANGED <<stamps, work>>
    <3>1. SweptWhole'
      BY <1>5, <2>2, <2>3 DEF Stamped, SweptWhole, stamps
    <3>2. mode'.membership /\ work' \subseteq swept' /\ Regs(stranded') \subseteq swept'
      BY <1>3, <1>5, <2>2, <2>3 DEF Stamped, query, stamps
    <3>. QED BY <1>6, <1>7, <1>8, <3>1, <3>2 DEF Stamped
  <2>4. CASE ~ UNCHANGED <<stamps, work>>
    <3>. DEFINE n == RegionOf[e]
    <3>1. SweepCross(n, SeedFor(n, e))
      BY <2>1, <2>4
    <3>2. e \in Members(n)
      BY <1>1, PendingInside DEF Members
    <3>3. /\ swept' = swept \cup {n}
          /\ \/ SeedFor(n, e) = {} /\ work' = work /\ stranded' = stranded \cup (newB \cap Members(n))
             \/ work' = work \cup {n} /\ stranded' = stranded
      BY <2>4, <3>1 DEF SweepCross, stamps
    <3>4. Members(n) \subseteq vis \/ n \in work'
      BY <3>2, <3>3, NoSeedLeft
    <3>5. SweptWhole'
      BY <1>5, <2>2, <3>3, <3>4 DEF Stamped, SweptWhole
    <3>6. mode'.membership /\ work' \subseteq swept' /\ Regs(stranded') \subseteq swept'
      BY <1>3, <1>5, <2>2, <3>3 DEF Stamped, query, Regs, Members
    <3>. QED BY <1>6, <1>7, <1>8, <3>5, <3>6 DEF Stamped
  <2>. QED BY <2>3, <2>4
<1>. QED BY <1>9, <1>10, <1>11
         DEF SpreadNext, ExpandBest, ScanBest, Replay, EarlyStop, BoundaryStop, HeapEmpty, AtStop, Diffuse,
             ScanDiffuse, ExpandFlood, ScanFlood

LEMMA StampedRound ==
    ASSUME SearchInv, RoundNext
    PROVE  Stamped'
<1>1. Stamped /\ ListedVisited /\ SpreadFrom(Pts)
  BY AllClosed, InvStarts DEF SearchInv, Covered, TypeInv, QueryOK
<1>2. UNCHANGED query
  BY <1>1, RoundKeeps
<1>3. UNCHANGED <<vis, tvis, stranded>> /\ newB' \subseteq newB
  <2>1. ABs \subseteq vis /\ ACs \subseteq vis
    BY <1>1 DEF ListedVisited
  <2>. QED BY <2>1 DEF RoundNext, BeginBest, BeginFlood, BeginSweep, Begin, EndBest, EndFlood, Finish,
                       crossing, stamps
<1>4. entry' \notin newB' /\ stranded' \subseteq MayStrand' /\ HollowCrossed'
  BY <1>1, <1>2, <1>3 DEF Stamped, MayStrand, HollowCrossed, query
<1>5. CASE BeginSweep
  <2>1. /\ mode.membership /\ pc = "round" /\ work' = Regs(ABs) \ swept /\ swept' = swept \cup Regs(ABs)
    BY <1>5 DEF BeginSweep, Begin
  <2>2. pc' = "sweep"
    BY <1>5 DEF BeginSweep
  <2>3. SweptWhole'
    BY <1>1, <1>3, <2>1, <2>2 DEF Stamped, SweptWhole
  <2>4. Regs(stranded') \subseteq swept' /\ mode'.membership /\ work' \subseteq swept'
    BY <1>1, <1>2, <1>3, <2>1 DEF Stamped, query
  <2>. QED BY <1>4, <2>3, <2>4 DEF Stamped
<1>6. CASE ~ BeginSweep
  <2>1. UNCHANGED swept /\ pc' # "sweep"
    BY <1>6 DEF RoundNext, BeginBest, BeginFlood, EndBest, EndFlood, Finish, stamps
  <2>2. pc = "sweep" => work = {}
    BY <1>6 DEF RoundNext, BeginBest, BeginFlood, Begin, EndBest, EndFlood, Finish
  <2>3. Regs(stranded') \subseteq swept' /\ SweptWhole'
    BY <1>1, <1>3, <2>1, <2>2 DEF Stamped, SweptWhole
  <2>. QED BY <1>4, <2>1, <2>3 DEF Stamped
<1>. QED BY <1>5, <1>6

LEMMA StampedStep ==
    ASSUME SearchInv, [Next]_vars
    PROVE  Stamped'
<1>1. CASE UNCHANGED vars
  <2>1. UNCHANGED <<query, pc, work, newB, stranded, swept, vis, tvis>> /\ Stamped
    BY <1>1 DEF vars, crossing, stamps, SearchInv, Covered
  <2>. QED BY <2>1 DEF Stamped, SweptWhole, HollowCrossed, MayStrand, query
<1>. QED BY <1>1, StampedSpread, StampedRound, NextSplits

\* What a step of the search finds while there is room among the results.
Roomy == SearchInv /\ ~ Full(results)

LEMMA RoomyHas ==
    ASSUME Roomy
    PROVE  /\ TypeInv /\ QueryOK /\ SpreadFrom(Pts) /\ ListedVisited /\ Stamped
           /\ VisitedCovered /\ CrossingsCovered /\ NothingShelved
BY AllClosed, InvStarts DEF Roomy, SearchInv, Covered, TypeInv, QueryOK

\* A step that keeps what is visited, stranded, crossed and linked, that walks
\* on from what it takes out of waiting, and covers what it visits.
LEMMA CoverStep ==
    ASSUME VisitedCovered, UNCHANGED hollow, tvis \subseteq tvis', vis \subseteq vis', stranded \subseteq stranded',
           \A p \in Waiting \cap vis : p \in Waiting' \cup stranded' \/ Expanded(p)',
           \A p, q : Linked(p, q) => Linked(p, q)',
           \A p \in vis' : p \in vis \/ p \in Waiting' \/ Crossed(p)' \/ Expanded(p)'
    PROVE  VisitedCovered'
<1>. SUFFICES ASSUME NEW p \in vis'
              PROVE  p \in Waiting' \cup stranded' \/ Crossed(p)' \/ Expanded(p)'
  BY DEF VisitedCovered
<1>1. CASE p \in vis
  <2>1. p \in Waiting \cup stranded \/ Crossed(p) \/ Expanded(p)
    BY <1>1 DEF VisitedCovered
  <2>2. Expanded(p) => Expanded(p)'
    BY DEF Expanded
  <2>3. Crossed(p) => Crossed(p)'
    BY DEF Crossed
  <2>. QED BY <1>1, <2>1, <2>2, <2>3
<1>2. CASE p \notin vis
  BY <1>2
<1>. QED BY <1>1, <1>2

\* What a spread lists waits, and so does what waited before.
LEMMA ListedWait ==
    ASSUME Stamped, pc \in {"best", "flood", "sweep"}, pc' = pc, NEW X \in SUBSET (Pts \ vis),
           newB \subseteq newB', newB' \subseteq newB \cup X, newC \subseteq newC',
           UNCHANGED <<ABs, ACs, swept>>, work \subseteq work'
    PROVE  Waiting \subseteq Waiting' /\ (newB' \ newB) \cup newC' \subseteq Waiting'
<1>1. \A p \in X : p \in Pts /\ (RegionOf[p] \notin swept \/ (pc = "sweep" /\ RegionOf[p] \in work))
  BY UnvisitedFresh
<1>2. (newB' \ newB) \cup newC' \subseteq Waiting'
  BY <1>1 DEF Waiting, Fresh
<1>3. Waiting \subseteq Waiting'
  BY DEF Waiting, Fresh
<1>. QED BY <1>2, <1>3

\* Taking e from the scan keeps every link if e was visited, or its region known.
LEMMA ScanLinks ==
    ASSUME pc \in {"best", "flood", "sweep"}, pc' = pc, NEW e, scan \ {e} \subseteq scan',
           sfr \subseteq sfr', vis \subseteq vis', tvis \subseteq tvis', pc = "sweep" => work \subseteq work',
           \/ e \in vis'
           \/ /\ pc = "sweep" \/ RegionOf[e] \notin sfr
              /\ RegionOf[e] \in Regs(vis') \cup tvis' \cup (IF pc = "sweep" THEN work' ELSE {})
    PROVE  \A p, q : Linked(p, q) => Linked(p, q)'
<1>1. Regs(vis) \subseteq Regs(vis')
  BY DEF Regs
<1>2. e \in vis' => RegionOf[e] \in Regs(vis')
  BY DEF Regs
<1>. SUFFICES ASSUME NEW p, NEW q, Linked(p, q) PROVE Linked(p, q)'
  OBVIOUS
<1>3. CASE q \in vis
  BY <1>3 DEF Linked
<1>4. CASE pc \in {"best", "flood"} /\ q \in scan /\ RegionOf[p] \in sfr
  <2>1. CASE q # e
    BY <1>4, <2>1 DEF Linked
  <2>2. CASE q = e
    BY <1>4, <2>2 DEF Linked
  <2>. QED BY <2>1, <2>2
<1>5. CASE RegionOf[q] # RegionOf[p] /\ RegionOf[q] \in Regs(vis) \cup tvis
  BY <1>1, <1>5 DEF Linked
<1>6. CASE pc = "sweep" /\ RegionOf[q] # RegionOf[p] /\ RegionOf[q] \in work \cup Regs(scan)
  <2>1. RegionOf[q] \in work' \cup Regs(scan') \/ RegionOf[q] = RegionOf[e]
    BY <1>6 DEF Regs
  <2>. QED BY <1>2, <1>6, <2>1 DEF Linked
<1>. QED BY <1>3, <1>4, <1>5, <1>6 DEF Linked

LEMMA VisitCovers ==
    ASSUME Roomy, pc \in {"best", "flood"}, pc' = pc, NEW e, scan' = scan \ {e},
           vis' = vis \cup {e}, work' = work \cup {e}, sfr' = sfr \cup {RegionOf[e]},
           UNCHANGED <<hollow, newB, newC, ABs, ACs, tvis, ph2, swept, stranded>>
    PROVE  VisitedCovered' /\ CrossingsCovered' /\ NothingShelved'
<1>. VisitedCovered /\ CrossingsCovered /\ NothingShelved
  BY RoomyHas
<1>1. \A p, q : Linked(p, q) => Linked(p, q)'
  BY ScanLinks
<1>2. Waiting \subseteq Waiting' /\ e \in Waiting'
  BY DEF Waiting, Fresh
<1>3. VisitedCovered'
  BY <1>1, <1>2, CoverStep
<1>4. CrossingsCovered'
  BY DEF CrossingsCovered, Regs
<1>5. Regs(work') \subseteq sfr'
  BY DEF NothingShelved, Regs
<1>6. NothingShelved'
  BY <1>5 DEF NothingShelved
<1>. QED BY <1>3, <1>4, <1>6

LEMMA CrossCovers ==
    ASSUME Roomy, pc \in {"best", "flood", "sweep"}, pc' = pc, NEW e \in Pts, scan' = scan \ {e},
           RegionOf[e] \in hollow, pc = "sweep" \/ RegionOf[e] \notin sfr,
           NEW M \in SUBSET {e}, Transit(RegionOf[e], M),
           UNCHANGED <<hollow, ABs, ACs, sfr, work, ph2, swept, stranded>>
    PROVE  VisitedCovered' /\ CrossingsCovered' /\ NothingShelved'
<1>. QueryOK /\ ListedVisited /\ Stamped /\ VisitedCovered /\ CrossingsCovered /\ NothingShelved
  BY RoomyHas
<1>1. /\ CrossingsCovered' /\ RegionOf[e] \in tvis' /\ tvis \subseteq tvis'
      /\ vis \subseteq vis' /\ vis' \subseteq vis \cup M \cup newB' \cup newC'
  BY TransitCovers
<1>. DEFINE X == {p \in Pts \ vis : RegionOf[p] \notin hollow}
<1>2. Listed(X, M)
  <2>1. Closed(Pts) /\ Aside(Pts) /\ RimOK /\ RegionOf[e] \in Regs(Pts)
    BY RoomyHas DEF SpreadFrom, Inside, Regs
  <2>. QED BY <2>1, TransitLists
<1>3. X \in SUBSET (Pts \ vis)
  OBVIOUS
<1>. HIDE DEF X
<1>4. Waiting \subseteq Waiting' /\ (newB' \ newB) \cup newC' \subseteq Waiting'
  BY <1>2, <1>3, ListedWait DEF Listed
<1>5. \A p, q : Linked(p, q) => Linked(p, q)'
  BY <1>1, ScanLinks
<1>6. \A p \in vis' : p \in vis \/ p \in Waiting' \/ Crossed(p)'
  BY <1>1, <1>4 DEF Crossed, ListedVisited
<1>7. VisitedCovered'
  BY <1>1, <1>4, <1>5, <1>6, CoverStep
<1>8. NothingShelved'
  BY DEF NothingShelved
<1>. QED BY <1>1, <1>7, <1>8

LEMMA ListCovers ==
    ASSUME Roomy, pc \in {"best", "flood", "sweep"}, pc' = pc, NEW e \in Pts, scan' = scan \ {e},
           pc = "sweep" \/ RegionOf[e] \notin sfr,
           NEW S \in SUBSET (Members(RegionOf[e]) \ vis), S # {}, NEW F \in SUBSET S, List(S, F, {}),
           UNCHANGED <<hollow, ABs, ACs, sfr, work, ph2, tvis, swept, stranded>>
    PROVE  VisitedCovered' /\ CrossingsCovered' /\ NothingShelved'
<1>. ListedVisited /\ Stamped /\ VisitedCovered /\ CrossingsCovered /\ NothingShelved
  BY RoomyHas
<1>1. S \in SUBSET Pts /\ S \in SUBSET (Pts \ vis)
  BY DEF Members
<1>2. /\ vis \subseteq vis' /\ vis' \subseteq vis \cup {} \cup newB' \cup newC'
      /\ Regs(S) \subseteq Regs(vis')
  BY <1>1, ListKnown
<1>3. RegionOf[e] \in Regs(vis')
  <2>1. RegionOf[e] \in Regs(S)
    BY DEF Regs, Members
  <2>. QED BY <1>2, <2>1
<1>4. Waiting \subseteq Waiting' /\ (newB' \ newB) \cup newC' \subseteq Waiting'
  <2>1. Listed(S, {})
    BY ListIsListed
  <2>. QED BY <1>1, <2>1, ListedWait DEF Listed
<1>5. \A p, q : Linked(p, q) => Linked(p, q)'
  BY <1>2, <1>3, ScanLinks
<1>6. \A p \in vis' : p \in vis \/ p \in Waiting'
  BY <1>2, <1>4 DEF ListedVisited
<1>7. VisitedCovered'
  BY <1>2, <1>4, <1>5, <1>6, CoverStep
<1>8. CrossingsCovered'
  <2>1. Regs(vis) \subseteq Regs(vis')
    BY <1>2 DEF Regs
  <2>. QED BY <2>1 DEF CrossingsCovered
<1>9. NothingShelved'
  BY DEF NothingShelved
<1>. QED BY <1>7, <1>8, <1>9

LEMMA ExpandCovers ==
    ASSUME Roomy, pc \in {"best", "flood"}, pc' = pc, Pending = {}, NEW v \in work,
           scan' = Nbr[v], work' = work \ {v},
           UNCHANGED <<hollow, vis, newB, newC, ABs, ACs, sfr, tvis, ph2, swept, stranded>>
    PROVE  VisitedCovered' /\ CrossingsCovered' /\ NothingShelved'
<1>. VisitedCovered /\ CrossingsCovered /\ NothingShelved
  BY RoomyHas
<1>1. scan \subseteq vis
  BY DEF Pending
<1>2. \A p, q : Linked(p, q) => Linked(p, q)'
  BY <1>1 DEF Linked
<1>3. RegionOf[v] \in sfr
  BY DEF NothingShelved, Regs
<1>4. Expanded(v)'
  BY <1>3 DEF Expanded, Linked
<1>5. \A p \in Waiting \cap vis : p \in Waiting' \/ Expanded(p)'
  <2>. SUFFICES ASSUME NEW p \in Waiting, p # v PROVE p \in Waiting'
    BY <1>4
  <2>. QED BY DEF Waiting, Fresh
<1>6. VisitedCovered'
  BY <1>2, <1>5, CoverStep
<1>7. CrossingsCovered'
  BY DEF CrossingsCovered
<1>8. Regs(work') \subseteq sfr'
  BY DEF NothingShelved, Regs
<1>9. NothingShelved'
  BY <1>8 DEF NothingShelved
<1>. QED BY <1>6, <1>7, <1>9

LEMMA HeapEmptyCovers ==
    ASSUME Roomy, HeapEmpty
    PROVE  VisitedCovered' /\ CrossingsCovered' /\ NothingShelved'
<1>. VisitedCovered /\ CrossingsCovered /\ NothingShelved
  BY RoomyHas
<1>1. /\ pc = "best" /\ pc' = "diffuse" /\ scan \subseteq vis /\ work = {} /\ scan' = {}
      /\ UNCHANGED <<hollow, vis, newB, newC, ABs, ACs, tvis, ph2, swept, stranded>>
  BY DEF HeapEmpty, Drop, Pending, crossing, query, stamps
<1>2. \A p, q : Linked(p, q) => Linked(p, q)'
  BY <1>1 DEF Linked
<1>3. Waiting = Waiting'
  BY <1>1 DEF Waiting, Fresh
<1>4. VisitedCovered'
  BY <1>1, <1>2, <1>3, CoverStep
<1>5. CrossingsCovered'
  BY <1>1 DEF CrossingsCovered
<1>6. NothingShelved'
  BY <1>1 DEF NothingShelved
<1>. QED BY <1>4, <1>5, <1>6

\* A region reached by the sweep is stamped: to be walked on from, or with the
\* entries that wait in it stranded.
LEMMA StampCovers ==
    ASSUME Roomy, pc = "sweep", pc' = pc, NEW e \in Pts, scan' = scan \ {e},
           swept' = swept \cup {RegionOf[e]},
           \/ /\ SeedFor(RegionOf[e], e) = {} /\ UNCHANGED work
              /\ stranded' = stranded \cup (newB \cap Members(RegionOf[e]))
           \/ work' = work \cup {RegionOf[e]} /\ UNCHANGED stranded,
           UNCHANGED <<hollow, vis, newB, newC, ABs, ACs, sfr, ph2, tvis>>
    PROVE  VisitedCovered' /\ CrossingsCovered' /\ NothingShelved'
<1>. VisitedCovered /\ CrossingsCovered /\ NothingShelved /\ ListedVisited /\ SpreadFrom(Pts)
  BY RoomyHas
<1>. DEFINE n == RegionOf[e]
<1>1. e \in Members(n)
  BY DEF Members
<1>2. n \in work' \/ e \in vis
  BY <1>1, NoSeedLeft
<1>3. n \in Regs(vis') \cup work'
  BY <1>2 DEF Regs
<1>4. \A p, q : Linked(p, q) => Linked(p, q)'
  BY <1>3, ScanLinks
<1>5. \A p \in Waiting : p \in Waiting' \cup stranded'
  <2>. SUFFICES ASSUME NEW p \in Waiting, p \in newB, RegionOf[p] = n PROVE p \in Waiting' \cup stranded'
    BY DEF Waiting, Fresh
  <2>1. p \in Pts
    BY DEF SpreadFrom, Inside
  <2>. QED BY <2>1 DEF Waiting, Members
<1>6. VisitedCovered'
  BY <1>4, <1>5, CoverStep
<1>7. CrossingsCovered' /\ NothingShelved'
  BY DEF CrossingsCovered, NothingShelved
<1>. QED BY <1>6, <1>7

\* Sweeping a region visits its points, and scans the regions next to it.
LEMMA SweepRegionCovers ==
    ASSUME Roomy, SweepRegion
    PROVE  VisitedCovered' /\ CrossingsCovered' /\ NothingShelved'
<1>. VisitedCovered /\ CrossingsCovered /\ NothingShelved /\ Stamped /\ SpreadFrom(Pts) /\ TypeInv
  BY RoomyHas
<1>0. PICK r \in work :
        /\ work' = work \ {r} /\ vis' = vis \cup Members(r)
        /\ \E rep \in [Adj(r) -> Pts] :
             /\ \A n \in Adj(r) : rep[n] \in Across(r, n)
             /\ scan' = {rep[n] : n \in Adj(r)}
  BY DEF SweepRegion
<1>1. PICK rep \in [Adj(r) -> Pts] :
        /\ work' = work \ {r} /\ vis' = vis \cup Members(r)
        /\ \A n \in Adj(r) : rep[n] \in Across(r, n)
        /\ scan' = {rep[n] : n \in Adj(r)}
  BY <1>0
<1>2. /\ pc = "sweep" /\ pc' = pc /\ Pending = {}
      /\ UNCHANGED <<hollow, newB, newC, ABs, ACs, sfr, ph2, tvis, swept, stranded>>
  BY DEF SweepRegion, query, crossing, stamps
<1>3. \A n \in Adj(r) : n \in Regs(scan')
  BY <1>1 DEF Across, Members, Regs
<1>4. r \in Regs(vis')
  <2>1. r \in Regs(Pts)
    BY <1>2 DEF SpreadFrom, Inside, Aside
  <2>. QED BY <1>1, <2>1 DEF Regs, Members
<1>5. Regs(vis) \subseteq Regs(vis')
  BY <1>1 DEF Regs
<1>6. ASSUME NEW p \in Members(r) PROVE Expanded(p)'
  <2>. SUFFICES ASSUME NEW q \in Nbr[p] PROVE Linked(p, q)'
    BY DEF Expanded
  <2>1. q \in Pts /\ p \in Pts /\ RegionOf[p] = r
    BY GraphAssumption DEF Members
  <2>2. CASE RegionOf[q] = r
    BY <1>1, <2>1, <2>2 DEF Members, Linked
  <2>3. CASE RegionOf[q] # r
    <3>1. RegionOf[q] \in Adj(r)
      BY <2>1, <2>3 DEF Adj, Regs
    <3>. QED BY <1>2, <1>3, <2>1, <2>3, <3>1 DEF Linked
  <2>. QED BY <2>2, <2>3
<1>7. Regs(scan) \subseteq Regs(vis) \cup work
  <2>1. \A e \in scan : RegionOf[e] \in swept
    BY <1>2 DEF Pending
  <2>. QED BY <2>1, StampedKnown DEF Regs
<1>8. \A p, q : Linked(p, q) => Linked(p, q)'
  <2>. SUFFICES ASSUME NEW p, NEW q, Linked(p, q) PROVE Linked(p, q)'
    OBVIOUS
  <2>1. q \in vis \/ (RegionOf[q] # RegionOf[p] /\ RegionOf[q] \in Regs(vis) \cup tvis \cup work)
    BY <1>2, <1>7 DEF Linked
  <2>2. q \in vis' \/ (RegionOf[q] # RegionOf[p] /\ RegionOf[q] \in Regs(vis') \cup tvis' \cup work')
    BY <1>1, <1>2, <1>4, <1>5, <2>1
  <2>. QED BY <1>2, <2>2 DEF Linked
<1>9. \A p \in Waiting : p \in Waiting' \/ p \in Members(r)
  BY <1>1, <1>2 DEF Waiting, Fresh, Members
<1>10. VisitedCovered'
  BY <1>1, <1>2, <1>6, <1>8, <1>9, CoverStep
<1>11. CrossingsCovered' /\ NothingShelved'
  BY <1>2, <1>5 DEF CrossingsCovered, NothingShelved
<1>. QED BY <1>10, <1>11

LEMMA ScanSweepCovers ==
    ASSUME Roomy, ScanSweep
    PROVE  VisitedCovered' /\ CrossingsCovered' /\ NothingShelved'
<1>1. PICK e \in Pending :
        /\ scan' = scan \ {e}
        /\ IF Crosses(e) THEN Transit(RegionOf[e], {}) /\ UNCHANGED <<stamps, work>>
           ELSE SweepCross(RegionOf[e], SeedFor(RegionOf[e], e)) /\ UNCHANGED crossing
  BY DEF ScanSweep
<1>2. pc = "sweep" /\ pc' = pc /\ UNCHANGED <<hollow, ABs, ACs, sfr, ph2>>
  BY DEF ScanSweep, query
<1>3. e \in Pts
  BY PendingInside, RoomyHas
<1>4. CASE Crosses(e)
  <2>1. RegionOf[e] \in hollow /\ Transit(RegionOf[e], {}) /\ UNCHANGED <<work, swept, stranded>>
    BY <1>1, <1>4 DEF Crosses, stamps
  <2>2. {} \in SUBSET {e}
    OBVIOUS
  <2>. QED BY <1>1, <1>2, <1>3, <2>1, <2>2, CrossCovers
<1>5. CASE ~ Crosses(e)
  <2>. DEFINE seeds == SeedFor(RegionOf[e], e)
  <2>1. SweepCross(RegionOf[e], seeds) /\ UNCHANGED tvis
    BY <1>1, <1>5 DEF crossing
  <2>2. seeds \in SUBSET (Members(RegionOf[e]) \ vis)
    BY <1>3, SeedIsMember DEF Members
  <2>3. CASE seeds # {} /\ (List(seeds, seeds, {}) \/ List(seeds, {}, {})) /\ UNCHANGED <<stamps, work>>
    <3>. HIDE DEF seeds
    <3>1. PICK F \in SUBSET seeds : List(seeds, F, {})
      BY <2>3
    <3>2. UNCHANGED <<swept, stranded, work>>
      BY <2>3 DEF stamps
    <3>. QED BY <1>1, <1>2, <1>3, <2>1, <2>2, <2>3, <3>1, <3>2, ListCovers
  <2>4. CASE ~ (seeds # {} /\ (List(seeds, seeds, {}) \/ List(seeds, {}, {})) /\ UNCHANGED <<stamps, work>>)
    <3>1. /\ UNCHANGED <<vis, newB, newC>> /\ swept' = swept \cup {RegionOf[e]}
          /\ \/ /\ seeds = {} /\ UNCHANGED work
                /\ stranded' = stranded \cup (newB \cap Members(RegionOf[e]))
             \/ work' = work \cup {RegionOf[e]} /\ UNCHANGED stranded
      <4>. HIDE DEF seeds
      <4>. QED BY <2>1, <2>4 DEF SweepCross
    <3>. QED BY <1>1, <1>2, <1>3, <2>1, <3>1, StampCovers
  <2>. QED BY <2>3, <2>4
<1>. QED BY <1>4, <1>5

LEMMA SpreadCovers ==
    ASSUME Roomy, SpreadNext, ~ Full(results')
    PROVE  VisitedCovered' /\ CrossingsCovered' /\ NothingShelved'
<1>1. ph2 = {} /\ (pc = "diffuse" => scan = {})
  BY RoomyHas DEF NothingShelved
<1>2. \A p : Closer(p, results)
  BY DEF Roomy, Closer
<1>3. \A p : Closer(p, results')
  BY DEF Closer
<1>4. SpreadFrom(Pts)
  BY RoomyHas
<1>5. CASE ExpandBest
  <2>1. NextBest \in work
    BY <1>4, <1>5, NextBestInWork DEF ExpandBest, SpreadFrom, Inside, Aside
  <2>2. /\ pc = "best" /\ pc' = pc /\ Pending = {} /\ scan' = Nbr[NextBest] /\ work' = work \ {NextBest}
        /\ UNCHANGED <<hollow, vis, newB, newC, ABs, ACs, sfr, tvis, ph2, swept, stranded>>
    BY <1>5 DEF ExpandBest, query, crossing, stamps
  <2>. QED BY <2>1, <2>2, ExpandCovers
<1>6. CASE ExpandFlood
  <2>1. PICK v \in work : work' = work \ {v} /\ scan' = Nbr[v]
    BY <1>6 DEF ExpandFlood
  <2>2. /\ pc = "flood" /\ pc' = pc /\ Pending = {}
        /\ UNCHANGED <<hollow, vis, newB, newC, ABs, ACs, sfr, tvis, ph2, swept, stranded>>
    BY <1>6 DEF ExpandFlood, query, crossing, stamps
  <2>. QED BY <2>1, <2>2, ExpandCovers
<1>7. CASE ScanBest
  <2>1. PICK e \in Pending :
          /\ scan' = scan \ {e}
          /\ \/ ScanInside(e)
             \/ ScanHollow(e)
             \/ ScanWalk(e)
             \/ ScanList(e)
    BY <1>7 DEF ScanBest
  <2>2. pc = "best" /\ pc' = pc /\ UNCHANGED <<hollow, ABs, ACs, swept, stranded>>
    BY <1>7 DEF ScanBest, query, stamps
  <2>3. e \in Pts /\ e \notin vis
    BY <1>4, <2>2, PendingInside
  <2>4. CASE ScanInside(e) \/ ScanWalk(e)
    <3>1. VisitBest(e) /\ UNCHANGED <<newB, newC, tvis>>
      BY <2>4 DEF ScanInside, ScanWalk, crossing
    <3>2. vis' = vis \cup {e} /\ work' = work \cup {e} /\ UNCHANGED ph2
      BY <1>3, <3>1 DEF VisitBest
    <3>3. sfr' = sfr \cup {RegionOf[e]}
      BY <1>1, <2>4, <3>2 DEF ScanInside, ScanWalk
    <3>. QED BY <2>1, <2>2, <3>1, <3>2, <3>3, VisitCovers
  <2>5. CASE ScanHollow(e)
    <3>1. /\ RegionOf[e] \in hollow /\ RegionOf[e] \notin sfr /\ Transit(RegionOf[e], {e})
          /\ UNCHANGED <<sfr, work, ph2>>
      BY <2>5 DEF ScanHollow, Crosses
    <3>. QED BY <2>1, <2>2, <2>3, <3>1, {e} \in SUBSET {e}, CrossCovers
  <2>6. CASE ScanList(e)
    <3>1. RegionOf[e] \notin sfr /\ UNCHANGED <<sfr, work, ph2, tvis>>
      BY <2>6 DEF ScanList, crossing
    <3>2. \E F \in SUBSET {e} : List({e}, F, {})
      BY <2>6, {e} \in SUBSET {e}, {} \in SUBSET {e} DEF ScanList
    <3>3. {e} \in SUBSET (Members(RegionOf[e]) \ vis) /\ {e} # {}
      BY <2>3 DEF Members
    <3>. QED BY <2>1, <2>2, <2>3, <3>1, <3>2, <3>3, ListCovers
  <2>. QED BY <2>1, <2>4, <2>5, <2>6
<1>8. CASE ScanFlood
  <2>1. PICK e \in Pending :
          /\ scan' = scan \ {e}
          /\ \/ (RegionOf[e] \in sfr \/ ~ Crosses(e)) /\ FloodVisit(e)
             \/ FloodCross(e)
    BY <1>8 DEF ScanFlood
  <2>2. pc = "flood" /\ pc' = pc /\ UNCHANGED <<hollow, ABs, ACs, ph2, swept, stranded>>
    BY <1>8 DEF ScanFlood, query, stamps
  <2>3. e \in Pts /\ e \notin vis
    BY <1>4, <2>2, PendingInside
  <2>4. CASE FloodVisit(e)
    <3>1. /\ vis' = vis \cup {e} /\ work' = work \cup {e} /\ sfr' = sfr \cup {RegionOf[e]}
          /\ UNCHANGED <<newB, newC, tvis>>
      BY <2>4 DEF FloodVisit, crossing
    <3>. QED BY <2>1, <2>2, <3>1, VisitCovers
  <2>5. CASE FloodCross(e) /\ Crosses(e)
    <3>1. /\ RegionOf[e] \in hollow /\ RegionOf[e] \notin sfr /\ Transit(RegionOf[e], {e})
          /\ UNCHANGED <<sfr, work>>
      BY <2>5 DEF FloodCross, Crosses
    <3>. QED BY <2>1, <2>2, <2>3, <3>1, {e} \in SUBSET {e}, CrossCovers
  <2>6. CASE FloodCross(e) /\ ~ Crosses(e)
    <3>1. RegionOf[e] \notin sfr /\ UNCHANGED <<sfr, work, tvis>>
      BY <2>6 DEF FloodCross, crossing
    <3>2. \E F \in SUBSET {e} : List({e}, F, {})
      BY <2>6, {e} \in SUBSET {e}, {} \in SUBSET {e} DEF FloodCross
    <3>3. {e} \in SUBSET (Members(RegionOf[e]) \ vis) /\ {e} # {}
      BY <2>3 DEF Members
    <3>. QED BY <2>1, <2>2, <2>3, <3>1, <3>2, <3>3, ListCovers
  <2>. QED BY <2>1, <2>4, <2>5, <2>6
<1>9. CASE Replay \/ EarlyStop \/ BoundaryStop
  BY <1>2, <1>9 DEF Replay, EarlyStop, BoundaryStop, AtStop
<1>10. CASE HeapEmpty
  BY <1>10, HeapEmptyCovers
<1>11. CASE Diffuse \/ ScanDiffuse
  BY <1>1, <1>11 DEF Diffuse, ScanDiffuse, Pending
<1>. QED BY <1>5, <1>6, <1>7, <1>8, <1>9, <1>10, <1>11, SweepRegionCovers, ScanSweepCovers DEF SpreadNext

LEMMA RoundCovers ==
    ASSUME Roomy, RoundNext
    PROVE  VisitedCovered' /\ CrossingsCovered' /\ NothingShelved'
<1>. VisitedCovered /\ CrossingsCovered /\ NothingShelved /\ Stamped /\ TypeInv /\ KeepsTrack /\ SpreadFrom(Pts)
  BY RoomyHas DEF Roomy, SearchInv
<1>1. ph2 = {}
  BY DEF NothingShelved
<1>2. ABs \cup ACs \subseteq vis /\ ABs \cup ACs \subseteq Pts
  BY RoomyHas DEF ListedVisited, SpreadFrom, Inside
<1>3. CASE BeginBest \/ BeginFlood \/ BeginSweep
  <2>1. /\ pc = "round" /\ newB' = {} /\ newC' = {} /\ scan' = {} /\ ph2' = {}
        /\ UNCHANGED <<hollow, ABs, ACs, tvis, stranded>>
    BY <1>3 DEF BeginBest, BeginFlood, BeginSweep, Begin, query, crossing, stamps
  <2>2. \/ pc' = "best" /\ sfr' = Regs(ACs) /\ work' = ACs /\ vis' = vis \cup ACs /\ swept' = swept
        \/ pc' = "flood" /\ sfr' = Regs(ABs) /\ work' = ABs /\ vis' = vis \cup ABs /\ swept' = swept
        \/ pc' = "sweep" /\ work' = Regs(ABs) \ swept /\ vis' = vis \cup ABs
    BY <1>3 DEF BeginBest, BeginFlood, BeginSweep, Begin, stamps
  <2>3. vis' = vis
    BY <1>2, <2>2
  <2>4. Waiting \subseteq Waiting'
    <3>1. newB \subseteq ABs /\ newC \subseteq ACs
      BY <2>1 DEF KeepsTrack, TakenSettled
    <3>2. Waiting \subseteq Fresh(ABs) \cup ACs
      BY <2>1, <3>1 DEF Waiting, Fresh
    <3>3. CASE pc' = "sweep"
      <4>1. work' = Regs(ABs) \ swept
        BY <2>2, <3>3
      <4>2. \A p \in Fresh(ABs) : p \in Pts /\ RegionOf[p] \in work'
        BY <1>2, <4>1 DEF Fresh, Regs
      <4>. QED BY <2>1, <3>2, <3>3, <4>2 DEF Waiting
    <3>4. CASE pc' \in {"best", "flood"}
      BY <2>1, <2>2, <3>2, <3>4 DEF Waiting, Fresh
    <3>. QED BY <2>2, <3>3, <3>4
  <2>5. \A p, q : Linked(p, q) => Linked(p, q)'
    BY <2>1, <2>3 DEF Linked
  <2>6. VisitedCovered'
    BY <2>1, <2>3, <2>4, <2>5, CoverStep
  <2>7. CrossingsCovered'
    BY <2>1, <2>3 DEF CrossingsCovered
  <2>8. NothingShelved'
    BY <2>1, <2>2 DEF NothingShelved
  <2>. QED BY <2>6, <2>7, <2>8
<1>4. CASE EndBest \/ EndFlood \/ Finish
  <2>1. /\ UNCHANGED <<hollow, vis, newB, newC, work, scan, sfr, ph2, tvis, swept, stranded>>
        /\ pc \in {"diffuse", "flood", "sweep", "round"} /\ pc' \in {"round", "done"}
        /\ pc' = "done" => pc = "round" /\ ABs = {} /\ ACs = {} /\ UNCHANGED <<ABs, ACs>>
    BY <1>4 DEF EndBest, EndFlood, Finish, query, crossing, stamps
  <2>2. /\ pc \in {"diffuse", "flood"} => scan \subseteq vis
        /\ pc = "sweep" => work = {} /\ Regs(scan) \subseteq Regs(vis)
    <3>1. CASE EndBest
      BY <3>1 DEF EndBest, NothingShelved
    <3>2. CASE EndFlood /\ pc = "flood"
      BY <3>2 DEF EndFlood, Pending
    <3>3. CASE EndFlood /\ pc = "sweep"
      <4>1. work = {} /\ \A e \in scan : RegionOf[e] \in swept
        BY <3>3 DEF EndFlood, Pending
      <4>. QED BY <3>3, <4>1, StampedKnown DEF Regs
    <3>4. CASE Finish
      BY <3>4 DEF Finish
    <3>. QED BY <1>4, <3>1, <3>2, <3>3, <3>4 DEF EndFlood
  <2>3. Waiting \subseteq Waiting'
    <3>1. CASE EndBest
      BY <3>1 DEF EndBest, Waiting, Fresh, nABs, stamps
    <3>2. CASE EndFlood
      BY <3>2 DEF EndFlood, Waiting, Fresh, nACs, stamps
    <3>3. CASE Finish
      BY <3>3 DEF Finish, Waiting, Fresh, stamps
    <3>. QED BY <1>4, <3>1, <3>2, <3>3
  <2>4. \A p, q : Linked(p, q) => Linked(p, q)'
    BY <2>1, <2>2 DEF Linked
  <2>5. VisitedCovered'
    BY <2>1, <2>3, <2>4, CoverStep
  <2>6. CrossingsCovered'
    BY <2>1 DEF CrossingsCovered
  <2>7. pc' = "done" => ABs' = {} /\ ACs' = {} /\ newB' = {} /\ newC' = {}
    BY <2>1 DEF KeepsTrack, TakenSettled
  <2>8. NothingShelved'
    BY <1>1, <2>1, <2>7 DEF NothingShelved
  <2>. QED BY <2>5, <2>6, <2>8
<1>. QED BY <1>3, <1>4 DEF RoundNext

LEMMA CoveredStep ==
    ASSUME SearchInv, [Next]_vars
    PROVE  Covered'
<1>. TypeInv /\ KeepsTrack /\ Covered
  BY DEF SearchInv
<1>1. SpreadFrom(Pts)
  BY AllClosed, InvStarts DEF TypeInv, QueryOK
<1>2. ListedVisited' /\ Stamped'
  BY ListedStaysVisited, StampedStep DEF Covered
<1>3. CASE SpreadNext
  <2>1. PICK E \in SUBSET Pts, M \in SUBSET Pts, X \in SUBSET Pts : SpreadStep(Pts, E, M, X)
    BY <1>1, <1>3, SpreadNextSpreads DEF Spreading
  <2>2. results' = Admitted(E)
    BY <2>1 DEF SpreadStep
  <2>3. ~ Full(results') => Roomy
    BY <2>2, RoomBefore DEF Roomy, TypeInv
  <2>4. ~ Full(results') => VisitedCovered' /\ CrossingsCovered' /\ NothingShelved'
    BY <1>3, <2>3, SpreadCovers
  <2>. QED BY <1>2, <2>4 DEF Covered
<1>4. CASE RoundNext
  <2>1. ~ Full(results') => ~ Full(results)
    <3>1. CASE BeginBest \/ BeginFlood \/ BeginSweep
      <4>1. \E S \in SUBSET Pts : results' = Admitted(S)
        BY <1>1, <3>1 DEF BeginBest, BeginFlood, BeginSweep, Begin, SpreadFrom, Inside
      <4>. QED BY <4>1, RoomBefore DEF TypeInv
    <3>2. CASE EndBest \/ EndFlood \/ Finish
      BY <3>2 DEF EndBest, EndFlood, Finish
    <3>. QED BY <1>4, <3>1, <3>2 DEF RoundNext
  <2>2. ~ Full(results') => VisitedCovered' /\ CrossingsCovered' /\ NothingShelved'
    BY <1>4, <2>1, RoundCovers DEF Roomy
  <2>. QED BY <1>2, <2>2 DEF Covered
<1>5. CASE UNCHANGED vars
  <2>1. UNCHANGED <<query, pc, vis, results, ABs, ACs, newB, newC, sfr, work, scan, ph2, tvis, swept, stranded>>
    BY <1>5 DEF vars, crossing, stamps
  <2>2. VisitedCovered <=> VisitedCovered'
    BY <2>1 DEF VisitedCovered, Waiting, Fresh, Crossed, Expanded, Linked, query
  <2>3. CrossingsCovered <=> CrossingsCovered'
    BY <2>1 DEF CrossingsCovered, query
  <2>4. NothingShelved <=> NothingShelved'
    BY <2>1 DEF NothingShelved
  <2>. QED BY <1>2, <2>1, <2>2, <2>3, <2>4 DEF Covered
<1>. QED BY <1>3, <1>4, <1>5, NextSplits

LEMMA CoveredInit == Init => Covered
<1>. SUFFICES ASSUME Init PROVE Covered
  OBVIOUS
<1>1. ListedVisited
  BY DEF Init, ListedVisited
<1>2. Stamped
  <2>1. SweptWhole /\ HollowCrossed /\ newB = {} /\ stranded = {} /\ pc = "round"
    BY DEF Init, SweptWhole, HollowCrossed
  <2>. QED BY <2>1 DEF Stamped, Regs
<1>3. VisitedCovered
  BY DEF Init, VisitedCovered, Waiting, Fresh
<1>4. CrossingsCovered
  BY DEF Init, CrossingsCovered
<1>5. NothingShelved
  BY DEF Init, NothingShelved
<1>. QED BY <1>1, <1>2, <1>3, <1>4, <1>5 DEF Covered

LEMMA SearchInvInit == Init => SearchInv
BY InitInv, EmptyInit, TrackInit, CoveredInit DEF SearchInv

LEMMA SearchInvStep == SearchInv /\ [Next]_vars => SearchInv'
BY StepInv, EmptyStep, TrackStep, CoveredStep DEF SearchInv

\* A set that holds the entry and all that is led to from it holds what is followed.
LEMMA FollowedWithin ==
    ASSUME NEW stop, NEW C \in SUBSET Pts, entry \in C,
           \A u \in C : \A w \in Nbr[u] :
               RegionOf[w] = RegionOf[u] \/ (u \notin stop /\ RegionOf[w] \in OneEntryDoes) => w \in C
    PROVE  Followed(stop) \subseteq C
BY DEF Followed

\* The fewer entries are not walked on from, the more is followed.
LEMMA FollowedShrinks ==
    ASSUME NEW T, NEW S \in SUBSET T, entry \in Pts
    PROVE  Followed(T) \subseteq Followed(S)
<1>1. Followed(S) \in SUBSET Pts /\ entry \in Followed(S)
  BY DEF Followed
<1>2. ASSUME NEW u \in Followed(S), NEW w \in Nbr[u],
             RegionOf[w] = RegionOf[u] \/ (u \notin T /\ RegionOf[w] \in OneEntryDoes)
      PROVE  w \in Followed(S)
  <2>1. w \in Pts
    BY <1>1, GraphAssumption
  <2>2. RegionOf[w] = RegionOf[u] \/ (u \notin S /\ RegionOf[w] \in OneEntryDoes)
    BY <1>2
  <2>. QED BY <1>1, <2>1, <2>2 DEF Followed
<1>. QED BY <1>1, <1>2, FollowedWithin

\* A search that ended with room left has got to all that is followed.
LEMMA EndedCovers ==
    ASSUME SearchInv, pc = "done", ~ Full(results)
    PROVE  \A p \in Followed(stranded) : p \in vis \/ Crossed(p)
<1>. /\ VisitedCovered /\ CrossingsCovered /\ Stamped /\ ListedVisited
     /\ ABs = {} /\ ACs = {} /\ newB = {} /\ newC = {}
  BY RoomyHas DEF Roomy, NothingShelved
<1>. vis \subseteq Pts /\ tvis \subseteq Regs(Pts) /\ entry \in vis
  BY InvTypes DEF TypeOK, SearchInv, ListedVisited
<1>1. \A p \in vis : p \in stranded \/ Crossed(p) \/ Expanded(p)
  BY DEF VisitedCovered, Waiting, Fresh
<1>2. \A p \in stranded : Members(RegionOf[p]) \subseteq vis
  BY DEF Stamped, SweptWhole, Regs
<1>. DEFINE C == {p \in Pts : p \in vis \/ Crossed(p)}
<1>3. ASSUME NEW u \in vis, NEW w \in Nbr[u], RegionOf[w] = RegionOf[u] PROVE w \in vis \/ Crossed(w)
  <2>1. w \in Pts
    BY GraphAssumption
  <2>2. CASE u \in stranded
    BY <1>2, <1>3, <2>1, <2>2 DEF Members
  <2>3. CASE Crossed(u)
    BY <1>3, <2>3 DEF Crossed
  <2>4. CASE Expanded(u)
    BY <1>3, <2>4 DEF Expanded, Linked
  <2>. QED BY <1>1, <2>2, <2>3, <2>4
<1>4. ASSUME NEW w \in Pts, RegionOf[w] \in OneEntryDoes, RegionOf[w] \in Regs(vis) \cup tvis
      PROVE  w \in C
  <2>. SUFFICES ASSUME ~ Crossed(w) PROVE w \in vis
    OBVIOUS
  <2>. DEFINE r == RegionOf[w]
              S == vis \cap Members(r)
  <2>1. r \in Regs(vis)
    BY <1>4 DEF CrossingsCovered, Crossed
  <2>2. S # {} /\ S \in SUBSET Members(r) /\ w \in Members(r)
    BY <2>1 DEF Regs, Members
  <2>3. r \in Whole
    <3>1. CASE mode.transparent /\ r \in hollow \ {RegionOf[entry]}
      <4>1. PICK p \in vis : RegionOf[p] = r
        BY <2>1 DEF Regs
      <4>2. r \in tvis
        BY <3>1, <4>1 DEF Stamped, HollowCrossed
      <4>. QED BY <3>1, <4>2 DEF Crossed
    <3>. QED BY <1>4, <3>1 DEF OneEntryDoes
  <2>4. \A u \in S : Nbr[u] \cap Members(r) \subseteq S
    <3>. SUFFICES ASSUME NEW u \in S, NEW q \in Nbr[u] \cap Members(r) PROVE q \in vis
      OBVIOUS
    <3>1. u \in vis /\ RegionOf[q] = RegionOf[u] /\ RegionOf[q] = r
      BY DEF Members
    <3>2. q \in vis \/ Crossed(q)
      BY <1>3, <3>1
    <3>. QED BY <3>1, <3>2 DEF Crossed
  <2>5. S = Members(r)
    <3>. HIDE DEF S, r
    <3>. QED BY <2>2, <2>3, <2>4 DEF Whole
  <2>. QED BY <2>2, <2>5
<1>5. ASSUME NEW u \in C, NEW w \in Nbr[u],
             RegionOf[w] = RegionOf[u] \/ (u \notin stranded /\ RegionOf[w] \in OneEntryDoes)
      PROVE  w \in C
  <2>1. w \in Pts
    BY GraphAssumption
  <2>2. CASE RegionOf[w] = RegionOf[u]
    <3>1. CASE u \in vis
      BY <1>3, <2>1, <2>2, <3>1
    <3>2. CASE Crossed(u)
      BY <2>1, <2>2, <3>2 DEF Crossed
    <3>. QED BY <3>1, <3>2
  <2>3. CASE RegionOf[w] # RegionOf[u]
    <3>1. RegionOf[w] \in OneEntryDoes /\ u \notin stranded
      BY <1>5, <2>3
    <3>2. CASE Crossed(u)
      <4>1. RegionOf[w] \in Adj(RegionOf[u])
        BY <2>1, <2>3 DEF Adj, Regs, Members
      <4>2. RegionOf[w] \in tvis
        BY <3>2, <4>1 DEF CrossingsCovered, Crossed
      <4>. QED BY <1>4, <2>1, <3>1, <4>2
    <3>3. CASE ~ Crossed(u)
      <4>1. Linked(u, w)
        BY <1>1, <3>1, <3>3 DEF Expanded
      <4>2. w \in vis \/ RegionOf[w] \in Regs(vis) \cup tvis
        BY <4>1 DEF Linked
      <4>. QED BY <1>4, <2>1, <3>1, <4>2
    <3>. QED BY <3>2, <3>3
  <2>. QED BY <2>2, <2>3
<1>6. Followed(stranded) \subseteq C
  <2>1. C \in SUBSET Pts /\ entry \in C
    OBVIOUS
  <2>. HIDE DEF C
  <2>. QED BY <1>5, <2>1, FollowedWithin
<1>. QED BY <1>6

LEMMA EndedFoundAll == SearchInv => Exhaustive
<1>. SUFFICES ASSUME SearchInv, pc = "done", ~ Full(results), NEW p \in Followed(stranded) \cap sat
              PROVE  p \in results
  BY DEF Exhaustive
<1>1. p \in vis \/ Crossed(p)
  BY EndedCovers
<1>2. ~ Crossed(p)
  BY RoomyHas DEF Roomy, QueryOK, Crossed, Regs
<1>3. ABs = {} /\ ACs = {} /\ newB = {} /\ newC = {} /\ KeepsTrack
  BY RoomyHas DEF Roomy, SearchInv, NothingShelved
<1>4. Settled(p)
  BY <1>1, <1>2, <1>3 DEF KeepsTrack
<1>. QED BY <1>4 DEF Settled, Closer

\* A search that ends with fewer than K results has found every satisfying point
\* that is followed from its entry: on any graph and any regions, with sweeps or
\* floods, across empty regions or through them, and however the estimates decide.
THEOREM SearchIsExhaustive == Spec => []Exhaustive
<1>1. Init => SearchInv
  BY SearchInvInit
<1>2. SearchInv /\ [Next]_vars => SearchInv'
  BY SearchInvStep
<1>3. SearchInv => Exhaustive
  BY EndedFoundAll
<1>. QED BY <1>1, <1>2, <1>3, PTL DEF Spec

(***************************************************************************)
(* The search implements what FilteredSearch promises.                     *)
(***************************************************************************)

\* FilteredSearch counts and ranks as this module does.
LEMMA PromiseCounts == \A S : Promise!Cardinality(S) = Cardinality(S)
BY DEF Promise!Cardinality, Cardinality

LEMMA PromiseNearest == \A S : Promise!Nearest(S) = Best(S)
BY PromiseCounts DEF Promise!Nearest, Best

LEMMA OfferedClosed ==
    ASSUME NEW e \in Pts
    PROVE  Offered[e] \in SUBSET Pts /\ e \in Offered[e] /\ Closed(Offered[e])
<1>. DEFINE R == Offered[e]
<1>1. R = {p \in Pts : \A S \in SUBSET Pts :
              e \in S /\ (\A u \in S : Nbr[u] \cup Members(RegionOf[u]) \subseteq S) => p \in S}
  BY DEF Offered
<1>. HIDE DEF R
<1>2. R \in SUBSET Pts /\ e \in R
  BY <1>1
<1>3. ASSUME NEW p \in R, NEW q \in Nbr[p] \cup Members(RegionOf[p]) PROVE q \in R
  <2>1. q \in Pts
    BY <1>2, GraphAssumption DEF Members
  <2>2. ASSUME NEW S \in SUBSET Pts, e \in S, \A u \in S : Nbr[u] \cup Members(RegionOf[u]) \subseteq S
        PROVE  q \in S
    BY <1>1, <2>2
  <2>. QED BY <1>1, <2>1, <2>2
<1>4. Closed(R)
  BY <1>3 DEF Closed
<1>. QED BY <1>2, <1>4 DEF R

\* What the search owes may be offered to it.
LEMMA OwedIsOffered ==
    ASSUME entry \in Pts, NEW stop
    PROVE  Followed(stop) \subseteq Offered[entry]
<1>1. Offered[entry] \in SUBSET Pts /\ entry \in Offered[entry] /\ Closed(Offered[entry])
  BY OfferedClosed
<1>2. \A u \in Offered[entry] : Nbr[u] \subseteq Offered[entry]
  BY <1>1 DEF Closed
<1>. QED BY <1>1, <1>2, FollowedWithin

\* The goal and the debt are fixed when the search starts.
Aim == <<Offered[entry] \cap sat, Followed(MayStrand) \cap sat>>

LEMMA AimStays ==
    ASSUME UNCHANGED query
    PROVE  UNCHANGED Aim
<1>1. UNCHANGED <<mode, entry, sat, hollow>>
  BY DEF query
<1>2. MayStrand' = MayStrand /\ OneEntryDoes' = OneEntryDoes
  BY <1>1 DEF MayStrand, OneEntryDoes
<1>3. Followed(MayStrand)' = Followed(MayStrand)
  BY <1>1, <1>2 DEF Followed
<1>. QED BY <1>1, <1>3 DEF Aim

LEMMA PromiseInit == Init => Promise!Init
<1>. SUFFICES ASSUME Init PROVE Promise!Init
  OBVIOUS
<1>1. entry \in Pts /\ sat \subseteq Pts
  BY QueryAssumption DEF Init
<1>2. /\ Offered[entry] \in SUBSET Pts /\ entry \in Offered[entry]
      /\ Followed(MayStrand) \subseteq Offered[entry]
  BY <1>1, OfferedClosed, OwedIsOffered
<1>. DEFINE S == {entry} \cap sat
<1>3. S \in SUBSET (Offered[entry] \cap sat) /\ results = Promise!Nearest(S)
  <2>1. results = Best(S) /\ S \in SUBSET (Offered[entry] \cap sat)
    BY <1>2 DEF Init
  <2>. HIDE DEF S
  <2>. QED BY <2>1, PromiseNearest
<1>4. pc # "done"
  BY DEF Init
<1>5. /\ Offered[entry] \cap sat \in SUBSET Pts
      /\ Followed(MayStrand) \cap sat \in SUBSET (Offered[entry] \cap sat)
  BY <1>1, <1>2
<1>. HIDE DEF S
<1>. QED BY <1>3, <1>4, <1>5 DEF Promise!Init

LEMMA OfferStep ==
    ASSUME UNCHANGED query, NEW E, E \subseteq Offered[entry], results' = Admitted(E),
           pc # "done", pc' # "done"
    PROVE  Promise!Next
<1>1. results' = Promise!Nearest(results \cup (E \cap sat))
  BY PromiseNearest DEF Admitted
<1>2. E \cap sat \in SUBSET (Offered[entry] \cap sat)
  OBVIOUS
<1>3. UNCHANGED Aim /\ (pc = "done")' = (pc = "done")
  BY AimStays
<1>4. Promise!Offer
  BY <1>1, <1>2, <1>3 DEF Promise!Offer, Aim
<1>. QED BY <1>4 DEF Promise!Next

LEMMA EndStep ==
    ASSUME UNCHANGED <<query, results>>, pc # "done", pc' = "done",
           Cardinality(results) = K \/ Followed(MayStrand) \cap sat \subseteq results
    PROVE  Promise!Next
<1>1. UNCHANGED Aim /\ (pc = "done")' = TRUE
  BY AimStays
<1>2. Promise!End
  BY <1>1, PromiseCounts DEF Promise!End, Aim
<1>. QED BY <1>2 DEF Promise!Next

LEMMA PromiseStep ==
    ASSUME SearchInv, [Next]_vars
    PROVE  [Promise!Next]_<<Offered[entry] \cap sat, Followed(MayStrand) \cap sat, results, pc = "done">>
<1>. DEFINE G == Offered[entry]
<1>1. G \in SUBSET Pts /\ entry \in G /\ Closed(G) /\ TypeInv
  BY OfferedClosed DEF SearchInv, TypeInv, QueryOK
<1>. HIDE DEF G
<1>2. SpreadFrom(G) /\ HeapOK /\ results \subseteq G
  BY <1>1, InvStarts DEF SpreadFrom, Inside
<1>3. Cardinality(results) \in Nat
  <2>1. results \in SUBSET Pts
    BY <1>1, <1>2
  <2>. QED BY <2>1, GraphAssumption, FS_Subset, FS_CardinalityType
<1>4. ASSUME Full(results) PROVE Cardinality(results) = K
  BY <1>2, <1>3, <1>4, QueryAssumption DEF Full, HeapOK
<1>5. ASSUME UNCHANGED <<query, results>>, (pc = "done") <=> (pc' = "done")
      PROVE  UNCHANGED <<Offered[entry] \cap sat, Followed(MayStrand) \cap sat, results, pc = "done">>
  BY <1>5, AimStays DEF Aim
<1>6. CASE SpreadNext
  <2>1. PICK E \in SUBSET G, M \in SUBSET G, X \in SUBSET G : SpreadStep(G, E, M, X)
    BY <1>2, <1>6, SpreadNextSpreads DEF Spreading
  <2>2. UNCHANGED query /\ results' = Admitted(E) /\ pc # "done"
    BY <2>1 DEF SpreadStep, Spreads
  <2>3. CASE pc' # "done"
    BY <2>2, <2>3, OfferStep DEF G
  <2>4. CASE pc' = "done"
    <3>1. Replay \/ EarlyStop
      BY <1>6, <2>2, <2>4 DEF SpreadNext, ExpandBest, ScanBest, BoundaryStop, HeapEmpty, Diffuse, ScanDiffuse,
                              ExpandFlood, ScanFlood, SweepRegion, ScanSweep
    <3>2. ~ Closer(NextBest, results) /\ results' = results
      BY <3>1 DEF Replay, EarlyStop, AtStop, Drop
    <3>3. Full(results)
      BY <3>2 DEF Closer
    <3>. QED BY <1>4, <2>2, <2>4, <3>2, <3>3, EndStep
  <2>. QED BY <2>3, <2>4
<1>7. CASE BeginBest \/ BeginFlood \/ BeginSweep
  <2>1. /\ UNCHANGED query /\ pc = "round" /\ pc' \in {"best", "flood", "sweep"}
        /\ results' = Admitted(ACs) \/ results' = Admitted(ABs)
    BY <1>7 DEF BeginBest, BeginFlood, BeginSweep, Begin
  <2>2. ACs \subseteq G /\ ABs \subseteq G
    BY <1>2 DEF SpreadFrom, Inside
  <2>. QED BY <2>1, <2>2, OfferStep DEF G
<1>8. CASE EndBest \/ EndFlood
  BY <1>5, <1>8 DEF EndBest, EndFlood
<1>9. CASE Finish
  <2>1. UNCHANGED <<query, results, stranded>> /\ pc = "round" /\ pc' = "done"
    BY <1>9 DEF Finish, stamps
  <2>2. SearchInv' /\ Exhaustive'
    BY SearchInvStep, EndedFoundAll, PTL
  <2>3. ~ Full(results) => Followed(stranded)' \cap sat \subseteq results
    BY <2>1, <2>2 DEF Exhaustive, Full, query
  <2>4. Followed(stranded)' = Followed(stranded)
    BY <2>1 DEF Followed, OneEntryDoes, query
  <2>5. Followed(MayStrand) \subseteq Followed(stranded)
    BY FollowedShrinks DEF SearchInv, Covered, Stamped, TypeInv, QueryOK
  <2>6. ~ Full(results) => Followed(MayStrand) \cap sat \subseteq results
    BY <2>3, <2>4, <2>5
  <2>. QED BY <1>4, <2>1, <2>6, EndStep
<1>10. CASE UNCHANGED vars
  BY <1>5, <1>10 DEF vars
<1>. QED BY <1>6, <1>7, <1>8, <1>9, <1>10, NextSplits DEF RoundNext

\* Step by step the search does what FilteredSearch allows: it collects the K
\* nearest of the satisfying points it is offered, and ends with K of them or
\* with all that are followed from its entry past what a sweep may strand.
\* (That it ends is KeepsPromise's other half.)
THEOREM SearchImplementsPromise ==
    Spec => /\ Promise!Init
            /\ [][Promise!Next]_<<Offered[entry] \cap sat, Followed(MayStrand) \cap sat, results, pc = "done">>
<1>1. Init => SearchInv /\ Promise!Init
  BY SearchInvInit, PromiseInit
<1>2. SearchInv /\ [Next]_vars => SearchInv'
  BY SearchInvStep
<1>3. SearchInv /\ [Next]_vars
        => [Promise!Next]_<<Offered[entry] \cap sat, Followed(MayStrand) \cap sat, results, pc = "done">>
  BY PromiseStep
<1>. QED BY <1>1, <1>2, <1>3, PTL DEF Spec

=============================================================================
