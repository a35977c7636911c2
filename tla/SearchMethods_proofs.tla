------------------------- MODULE SearchMethods_proofs -------------------------
(***************************************************************************)
(* The searches other than the connected domain one, on every graph, with  *)
(* every distance, predicate, ef, region map and plan.                     *)
(***************************************************************************)
EXTENDS SearchMethods, NearestFacts

(***************************************************************************)
(* The invariant.                                                          *)
(***************************************************************************)

\* A point that the heap would take is a result.
Settled(p) == Admits(p) => p \in results

\* Before layer 0 nothing has been found, and there is no answer before the end.
QuietInv ==
    /\ pc # "done" => answer = {}
    /\ pc = "descend" =>
         /\ results = {} /\ cand = {} /\ added = {} /\ svis = {}
         /\ uq = {} /\ vis = {} /\ bfs = {} /\ scan = {}
         /\ measured \subseteq OnUpperLayers

\* The neighbours a search owes a result.
Owed(r) == IF alg = "beam" THEN nbr[r] ELSE nbr[r] \cap sat

\* Best first: what was offered is a result or beaten, and what is a result is
\* still to be expanded or was.
BeamInv ==
    alg # "region" =>
        /\ results \subseteq added /\ (added # {} => results # {})
        /\ \A p \in added : Settled(p)
        /\ \A r \in results : r \in cand \/ Owed(r) \subseteq added
        /\ pc = "done" => \A r \in results : Owed(r) \subseteq added
        /\ alg = "beam" => added \subseteq Reachable(cur) /\ (pc # "descend" => cur \in added)

\* As long as a blind expansion finds nothing, it goes on through everything
\* that can be reached.
EmptyInv ==
    alg = "navix" /\ results = {} =>
        /\ pc = "first" => svis = {} /\ cur \notin sat
        /\ pc = "blind" => /\ want > 0 /\ cur \notin sat /\ nbr[cur] \subseteq svis
                           /\ \A x \in svis \ bq : nbr[x] \subseteq svis
        /\ pc \in {"expand", "done"} => Reachable(cur) \cap sat = {}

\* A point the traversal has met and not lost.
Queued(p) == \E e \in uq : e[2] = p
Known(p) == p \in vis \/ p \in bfs \/ Queued(p)
Off == Overlooked \cup GatedOff

MetInv ==
    /\ pc \in {"descend", "pop", "flood", "done"}
    /\ pc = "pop" => bfs = {} /\ scan = {}
    /\ pc # "done" => \A p \in measured : p \in OnUpperLayers \/ Known(p)
    /\ pc \in {"pop", "flood"} => Known(cur)

\* A satisfying point that was visited, or is queued and measured, is settled.
SettledInv == \A p \in sat : p \in vis \/ (p \in measured /\ Queued(p)) => Settled(p)

\* No neighbour of a visited point is lost but the overlooked and gated ones.
NeighbourInv ==
    plan.boundary # "STRUCT" /\ pc \in {"pop", "flood"} =>
        \A x \in vis : \A q \in nbr[x] \ Off : Known(q) \/ q \in scan

\* Where satisfying points are queued under their own distance, results are
\* visited or wait under it, and neighbours of visited points are settled.
OwnKeys ==
    plan.boundary # "LAZY" /\ pc \in {"pop", "flood"} =>
        /\ \A e \in uq : e[2] \in sat => e[1] = Dist[e[2]]
        /\ \A p \in results : p \in vis \/ p \in bfs \/ <<Dist[p], p>> \in uq
        /\ plan.gated = {} =>
             \A x \in vis : \A q \in nbr[x] \cap sat : Settled(q) \/ q \in bfs \/ q \in scan

RegionInv ==
    alg = "region" =>
        MetInv /\ SettledInv /\ NeighbourInv /\ OwnKeys /\ RegionExhaustive /\ OnlyWorstHides

MethodsInv == MethodsTypeOK /\ QuietInv /\ BeamInv /\ EmptyInv /\ RegionInv

(***************************************************************************)
(* The heap.                                                               *)
(***************************************************************************)

QueryOK == alg \in Algs /\ nbr \in Graphs /\ sat \subseteq Pts /\ ef \in Nat \ {0}

LEMMA GraphFact == QueryOK => nbr \in [Pts -> SUBSET Pts]
  BY SearchAssumption DEF QueryOK

\* The heap keeps the nearest of what it is offered.
LEMMA NearestIsKept ==
    ASSUME NEW S \in SUBSET Pts, NEW n \in Nat
    PROVE  Ranks(Dist, S) /\ Nearest(n, S) = Kept(Dist, n, S)
<1>1. IsFiniteSet(S)
  BY SearchAssumption, FS_Subset
<1>2. \A p \in S : {q \in S : Dist[q] < Dist[p]} = Nearer(Dist, S, p)
  BY DEF Nearer
<1>3. Nearest(n, S) = Kept(Dist, n, S)
  BY <1>2 DEF Nearest, Kept
<1>. QED BY <1>1, <1>3, SearchAssumption DEF Ranks

LEMMA NearestCount ==
    ASSUME NEW S \in SUBSET Pts, NEW n \in Nat
    PROVE  /\ Nearest(n, S) \subseteq S /\ Cardinality(Nearest(n, S)) <= n
           /\ Cardinality(Nearest(n, S)) \in Nat /\ Cardinality(S) \in Nat
           /\ Cardinality(S) <= n => Nearest(n, S) = S
<1>1. Ranks(Dist, S) /\ Nearest(n, S) = Kept(Dist, n, S)
  BY NearestIsKept
<1>2. /\ Kept(Dist, n, S) \subseteq S /\ Cardinality(Kept(Dist, n, S)) \in Nat
      /\ Cardinality(Kept(Dist, n, S)) <= n
  BY <1>1, KeptCount
<1>3. Cardinality(S) <= n => Kept(Dist, n, S) = S
  BY <1>1, SmallKeptWhole
<1>4. Cardinality(S) \in Nat
  BY <1>1, FS_CardinalityType DEF Ranks
<1>. QED BY <1>1, <1>2, <1>3, <1>4

\* Something is kept of something.
LEMMA NearestSome ==
    ASSUME NEW S \in SUBSET Pts, NEW n \in Nat \ {0}, S # {}
    PROVE  Nearest(n, S) # {}
<1>1. Ranks(Dist, S)
  BY NearestIsKept
<1>2. PICK p \in S : \A q \in S : Dist[p] <= Dist[q]
  BY <1>1, NearestOne
<1>3. \A q \in S : Dist[q] \in Nat
  BY <1>1 DEF Ranks
<1>4. {q \in S : Dist[q] < Dist[p]} = {}
  BY <1>2, <1>3
<1>5. Cardinality({q \in S : Dist[q] < Dist[p]}) = 0
  BY <1>4, FS_EmptySet
<1>6. p \in Nearest(n, S)
  BY <1>5 DEF Nearest
<1>. QED BY <1>6

\* The first of a non-empty set, and the worst.
LEMMA FirstFact ==
    ASSUME NEW S \in SUBSET Pts, S # {}
    PROVE  First(S) \in S /\ \A q \in S : Dist[First(S)] <= Dist[q]
<1>1. Ranks(Dist, S)
  BY NearestIsKept
<1>2. \E p \in S : \A q \in S : Dist[p] <= Dist[q]
  BY <1>1, NearestOne
<1>. QED BY <1>2 DEF First

LEMMA WorstFact ==
    ASSUME NEW S \in SUBSET Pts, S # {}
    PROVE  /\ WorstOf(S) \in Nat /\ \A q \in S : Dist[q] <= WorstOf(S)
           /\ \E p \in S : Dist[p] = WorstOf(S)
<1>1. Ranks(Dist, S)
  BY NearestIsKept
<1>2. \A q \in S : Dist[q] \in Nat
  BY <1>1 DEF Ranks
<1>3. \E p \in S : \A q \in S : Dist[q] <= Dist[p]
  BY <1>1, FarthestOfAll
<1>4. \E d \in {Dist[q] : q \in S} : \A q \in S : Dist[q] <= d
  BY <1>3
<1>. QED BY <1>2, <1>4 DEF WorstOf

\* What settles a point: it is offered, or it was settled before.
LEMMA SettledAfter ==
    ASSUME QueryOK, results \in SUBSET Pts, NEW S \in SUBSET Pts,
           results' = Nearest(ef, results \cup S), ef' = ef,
           NEW p \in Pts, Settled(p) \/ p \in S
    PROVE  Settled(p)'
<1>. DEFINE T == results \cup S
<1>1. T \in SUBSET Pts /\ ef \in Nat /\ ef > 0 /\ results \in SUBSET T
  BY DEF QueryOK
<1>2. Ranks(Dist, T) /\ results' = Kept(Dist, ef, T)
  <2>. HIDE DEF T
  <2>1. Ranks(Dist, T) /\ Nearest(ef, T) = Kept(Dist, ef, T)
    BY <1>1, NearestIsKept
  <2>. QED BY <2>1 DEF T
<1>3. Dist[p] \in Nat /\ \A q \in T : Dist[q] \in Nat
  BY <1>1, SearchAssumption
<1>. SUFFICES ASSUME p \notin results' PROVE Cardinality(results') >= ef /\ ~ (Dist[p] < WorstOf(results'))
  BY DEF Settled, Admits, Full, Worst
<1>. HIDE DEF T
<1>4. /\ Cardinality(results') >= ef /\ \A q \in results' : Dist[q] <= Dist[p]
      /\ results' \in SUBSET T
  <2>0. results' \in SUBSET T /\ Cardinality(results') \in Nat
    BY <1>1, <1>2, KeptCount
  <2>1. CASE p \in T
    <3>1. /\ Cardinality(results') = ef
          /\ \A q \in results' : Dist[q] < Dist[p]
      <4>1. p \in T \ Kept(Dist, ef, T)
        BY <1>2, <2>1
      <4>2. Cardinality(Kept(Dist, ef, T)) = ef /\ \A q \in Kept(Dist, ef, T) : Dist[q] < Dist[p]
        BY <1>1, <1>2, <4>1, NotKept
      <4>. QED BY <1>2, <4>2
    <3>2. \A q \in results' : Dist[q] \in Nat
      BY <1>3, <2>0
    <3>. QED BY <1>1, <1>3, <2>0, <3>1, <3>2
  <2>2. CASE p \notin T
    <3>1. p \notin results /\ p \notin S
      BY <2>2 DEF T
    <3>2. Cardinality(results) >= ef /\ ~ (Dist[p] < WorstOf(results))
      BY <3>1 DEF Settled, Admits, Full, Worst
    <3>3. results # {}
      <4>1. Cardinality({}) = 0
        BY FS_EmptySet
      <4>. QED BY <1>1, <3>2, <4>1
    <3>4. WorstOf(results) \in Nat /\ \A q \in results : Dist[q] <= WorstOf(results)
      BY <3>3, WorstFact
    <3>5. \A q \in results : Dist[q] <= Dist[p]
      BY <1>1, <1>3, <3>2, <3>4
    <3>6. /\ Cardinality(Kept(Dist, ef, T)) >= ef
          /\ \A q \in Kept(Dist, ef, T) : Dist[q] <= Dist[p]
      BY <1>1, <1>2, <1>3, <3>2, <3>5, StaysBehind
    <3>. QED BY <1>2, <2>0, <3>6
  <2>. QED BY <2>1, <2>2
<1>5. results' \in SUBSET Pts /\ results' # {}
  <2>1. Cardinality({}) = 0
    BY FS_EmptySet
  <2>. QED BY <1>1, <1>4, <2>1
<1>6. WorstOf(results') \in Nat /\ \E q \in results' : Dist[q] = WorstOf(results')
  BY <1>5, WorstFact
<1>. QED BY <1>3, <1>4, <1>6

(***************************************************************************)
(* The steps that the searches share.                                      *)
(***************************************************************************)

LEMMA UpperFact ==
    ASSUME NEW l \in 1 .. TopLevel, NEW p \in Pts
    PROVE  Upper[l][p] \in SUBSET Pts /\ Upper[l][p] \subseteq OnUpperLayers
<1>1. Upper[l] \in [Pts -> SUBSET Pts]
  BY SearchAssumption
<1>. QED BY <1>1 DEF OnUpperLayers

LEMMA DescendFact ==
    ASSUME MethodsTypeOK, QuietInv, Descend
    PROVE  /\ cur' \in measured' /\ measured' \in SUBSET Pts /\ measured \subseteq measured'
           /\ level' \in 0 .. TopLevel /\ measured' \subseteq OnUpperLayers
           /\ pc = "descend" /\ UNCHANGED <<query, pc, results, answer>>
<1>1. /\ level \in 1 .. TopLevel /\ cur \in Pts /\ cur \in measured /\ measured \in SUBSET Pts
      /\ TopLevel \in Nat
  BY SearchAssumption DEF MethodsTypeOK, BaseTypeOK, Descend
<1>2. Upper[level][cur] \in SUBSET Pts /\ Upper[level][cur] \subseteq OnUpperLayers
  BY <1>1, UpperFact
<1>3. {cur} \cup Upper[level][cur] \in SUBSET Pts /\ {cur} \cup Upper[level][cur] # {}
  BY <1>1, <1>2
<1>4. First({cur} \cup Upper[level][cur]) \in {cur} \cup Upper[level][cur]
  BY <1>3, FirstFact
<1>5. measured \subseteq OnUpperLayers
  BY DEF QuietInv, Descend
<1>6. level' \in 0 .. TopLevel
  BY <1>1 DEF Descend
<1>. QED BY <1>1, <1>2, <1>4, <1>5, <1>6 DEF Descend

LEMMA OfferFact ==
    ASSUME MethodsTypeOK, NEW S \in SUBSET Pts, NEW M \in SUBSET Pts, NEW rest \in SUBSET added,
           Offer(S, M, rest)
    PROVE  /\ added' = added \cup S /\ measured' = measured \cup S \cup M
           /\ measured' \in SUBSET Pts /\ added' \subseteq measured'
           /\ results' = Nearest(ef, results \cup S) /\ results' \subseteq results \cup S
           /\ results' \subseteq measured' /\ Cardinality(results') <= ef
           /\ rest \subseteq cand' /\ S \cap results' \subseteq cand' /\ cand' \subseteq added'
<1>1. /\ measured \in SUBSET Pts /\ results \in SUBSET measured /\ added \in SUBSET measured
      /\ ef \in Nat
  BY DEF MethodsTypeOK, BaseTypeOK
<1>2. /\ added' = added \cup S /\ measured' = measured \cup S \cup M
      /\ results' = Nearest(ef, results \cup S)
  BY DEF Offer
<1>3. results' \subseteq results \cup S /\ Cardinality(results') <= ef
  <2>1. results \cup S \in SUBSET Pts
    BY <1>1
  <2>. QED BY <1>1, <1>2, <2>1, NearestCount
<1>4. PICK W \in SUBSET ({p \in S : Admits(p)} \ results') : cand' = rest \cup (S \cap results') \cup W
  BY DEF Offer
<1>. QED BY <1>1, <1>2, <1>3, <1>4

LEMMA FinishFact ==
    ASSUME MethodsTypeOK, NEW S \in SUBSET results, answer' = Nearest(K, S)
    PROVE  answer' \subseteq S /\ Cardinality(answer') <= K
<1>1. S \in SUBSET Pts /\ K \in Nat
  BY SearchAssumption DEF MethodsTypeOK, BaseTypeOK
<1>. QED BY <1>1, NearestCount

\* What can be reached is closed, and is the least closed set.
LEMMA ReachFact ==
    ASSUME QueryOK, NEW v \in Pts, NEW A
    PROVE  /\ v \in ReachAvoiding(v, A) /\ ReachAvoiding(v, A) \in SUBSET Pts
           /\ \A p \in ReachAvoiding(v, A) : nbr[p] \ A \subseteq ReachAvoiding(v, A)
           /\ \A S \in SUBSET Pts : v \in S /\ (\A u \in S : nbr[u] \ A \subseteq S) =>
                  ReachAvoiding(v, A) \subseteq S
<1>1. nbr \in [Pts -> SUBSET Pts]
  BY GraphFact
<1>2. ASSUME NEW p \in ReachAvoiding(v, A), NEW q \in nbr[p] \ A
      PROVE  q \in ReachAvoiding(v, A)
  <2>1. p \in Pts /\ q \in Pts
    BY <1>1, <1>2 DEF ReachAvoiding
  <2>2. ASSUME NEW S \in SUBSET Pts, v \in S, \A u \in S : nbr[u] \ A \subseteq S
        PROVE  q \in S
    <3>1. p \in S
      BY <2>2 DEF ReachAvoiding
    <3>. QED BY <1>2, <2>2, <3>1
  <2>. QED BY <2>1, <2>2 DEF ReachAvoiding
<1>. QED BY <1>2 DEF ReachAvoiding

(***************************************************************************)
(* Best-first search and the post-filter baseline.                         *)
(***************************************************************************)

\* What every step of a search on the heap of candidates leaves alone.
TypesOfOthers ==
    /\ svis \subseteq Pts \ sat /\ bq \subseteq svis /\ want \in Int
    /\ plan \in Plans /\ uq \subseteq Nat \X Pts /\ key \in Nat
    /\ \A S \in {vis, bfs, scan, hopped} : S \subseteq Pts

LEMMA BeamTypes ==
    ASSUME MethodsTypeOK, QuietInv, BeamNext, UNCHANGED <<navixVars, regionVars>>
    PROVE  MethodsTypeOK' /\ QuietInv' /\ UNCHANGED query
<1>0. /\ alg \in Algs /\ nbr \in Graphs /\ sat \subseteq Pts /\ ef \in Nat \ {0}
      /\ level \in 0 .. TopLevel /\ cur \in measured /\ measured \in SUBSET Pts
      /\ results \subseteq measured /\ Cardinality(results) <= ef
      /\ answer \subseteq results /\ Cardinality(answer) <= K
      /\ cand \subseteq added /\ added \subseteq measured
  BY DEF MethodsTypeOK, BaseTypeOK
<1>1. UNCHANGED query /\ alg = "beam"
  BY DEF BeamNext, BeamDescend, BeamStart, BeamExpand, BeamFinish, Descend, Finish
<1>2. TypesOfOthers /\ TypesOfOthers'
  <2>1. TypesOfOthers
    BY DEF MethodsTypeOK, TypesOfOthers
  <2>. QED BY <1>1, <2>1 DEF TypesOfOthers, navixVars, regionVars, query
<1>. SUFFICES /\ BaseTypeOK' /\ pc' \in {"descend", "expand", "done"}
              /\ cand' \subseteq added' /\ added' \subseteq measured'
              /\ QuietInv'
  BY <1>1, <1>2 DEF MethodsTypeOK, TypesOfOthers, query
<1>3. CASE BeamDescend
  <2>1. /\ cur' \in measured' /\ measured' \in SUBSET Pts /\ measured \subseteq measured'
        /\ level' \in 0 .. TopLevel /\ measured' \subseteq OnUpperLayers
        /\ pc = "descend" /\ UNCHANGED <<query, pc, results, answer>> /\ UNCHANGED beamVars
    BY <1>3, DescendFact DEF BeamDescend
  <2>2. BaseTypeOK'
    BY <1>0, <2>1 DEF BaseTypeOK, query
  <2>3. QuietInv'
    BY <2>1 DEF QuietInv, beamVars, navixVars, regionVars
  <2>. QED BY <1>0, <2>1, <2>2, <2>3 DEF beamVars
<1>4. CASE BeamStart
  <2>1. /\ pc = "descend" /\ pc' = "expand" /\ cand' = {cur} /\ added' = {cur} /\ results' = {cur}
        /\ UNCHANGED <<query, level, cur, measured, answer>>
    BY <1>4 DEF BeamStart, Arrived
  <2>2. Cardinality({cur}) = 1 /\ answer = {}
    BY <2>1, FS_Singleton DEF QuietInv
  <2>3. BaseTypeOK' /\ QuietInv'
    BY <1>0, <2>1, <2>2 DEF BaseTypeOK, QuietInv, query
  <2>. QED BY <1>0, <2>1, <2>3
<1>5. CASE BeamExpand
  <2>. DEFINE c == First(cand)
  <2>1. /\ pc = "expand" /\ UNCHANGED <<query, pc, level, cur, answer>>
        /\ Offer(nbr[c] \ added, {}, cand \ {c}) /\ cand # {}
    BY <1>5 DEF BeamExpand
  <2>2. c \in Pts /\ nbr[c] \in SUBSET Pts
    <3>1. c \in cand
      BY <1>0, <2>1, FirstFact
    <3>. HIDE DEF c
    <3>2. c \in Pts /\ nbr \in [Pts -> SUBSET Pts]
      BY <1>0, <3>1, GraphFact DEF QueryOK
    <3>. QED BY <3>2
  <2>3. /\ added' = added \cup (nbr[c] \ added) /\ measured \subseteq measured'
        /\ measured' \in SUBSET Pts /\ added' \subseteq measured' /\ results' \subseteq measured'
        /\ Cardinality(results') <= ef /\ cand' \subseteq added'
    <3>. DEFINE S == nbr[c] \ added
                rest == cand \ {c}
    <3>1. S \in SUBSET Pts /\ rest \in SUBSET added /\ {} \in SUBSET Pts /\ Offer(S, {}, rest)
      BY <1>0, <2>1, <2>2
    <3>. HIDE DEF S, rest
    <3>2. /\ added' = added \cup S /\ measured' = measured \cup S \cup {}
          /\ measured' \in SUBSET Pts /\ added' \subseteq measured' /\ results' \subseteq measured'
          /\ Cardinality(results') <= ef /\ cand' \subseteq added'
      BY <3>1, OfferFact
    <3>. QED BY <3>2 DEF S
  <2>4. answer = {} /\ Cardinality({}) = 0 /\ K \in Nat
    BY <2>1, FS_EmptySet, SearchAssumption DEF QuietInv
  <2>5. BaseTypeOK' /\ QuietInv'
    BY <1>0, <2>1, <2>3, <2>4 DEF BaseTypeOK, QuietInv, query
  <2>. QED BY <2>1, <2>3, <2>5
<1>6. CASE BeamFinish
  <2>1. /\ pc' = "done" /\ answer' = Nearest(K, results \cap sat)
        /\ UNCHANGED <<query, level, cur, measured, results>> /\ UNCHANGED beamVars
    BY <1>6 DEF BeamFinish, Finish
  <2>2. answer' \subseteq results \cap sat /\ Cardinality(answer') <= K
    <3>1. results \cap sat \in SUBSET results
      OBVIOUS
    <3>. QED BY <2>1, <3>1, FinishFact
  <2>3. BaseTypeOK' /\ QuietInv'
    BY <1>0, <2>1, <2>2 DEF BaseTypeOK, QuietInv, query
  <2>. QED BY <1>0, <2>1, <2>3 DEF beamVars
<1>. QED BY <1>3, <1>4, <1>5, <1>6 DEF BeamNext

\* Points offered to the heap: what was owed to the results is still waiting.
LEMMA OfferInv ==
    ASSUME MethodsTypeOK, BeamInv, alg # "region", UNCHANGED query,
           NEW S \in SUBSET Pts, NEW M \in SUBSET Pts, NEW rest \in SUBSET added, Offer(S, M, rest),
           \A r \in results : r \in rest \/ Owed(r) \subseteq added \cup S
    PROVE  /\ results' \subseteq added' /\ (added' # {} => results' # {})
           /\ \A p \in added' : Settled(p)'
           /\ \A r \in results' : r \in cand' \/ Owed(r)' \subseteq added'
           /\ (\A p \in S : Owed(p) \subseteq added \cup S) =>
                  (\A r \in results' : r \in rest \/ Owed(r)' \subseteq added')
<1>1. /\ QueryOK /\ measured \in SUBSET Pts /\ results \in SUBSET Pts /\ added \in SUBSET measured
  BY DEF MethodsTypeOK, BaseTypeOK, QueryOK
<1>2. /\ results \subseteq added /\ (added # {} => results # {})
      /\ \A p \in added : Settled(p)
  BY DEF BeamInv
<1>3. /\ added' = added \cup S /\ results' = Nearest(ef, results \cup S)
      /\ results' \subseteq results \cup S /\ rest \subseteq cand' /\ S \cap results' \subseteq cand'
  BY OfferFact
<1>4. ef' = ef /\ \A p : Owed(p)' = Owed(p)
  BY DEF query, Owed
<1>5. ASSUME added' # {} PROVE results' # {}
  <2>1. results \cup S \in SUBSET Pts /\ results \cup S # {} /\ ef \in Nat \ {0}
    BY <1>1, <1>2, <1>3, <1>5 DEF QueryOK
  <2>. QED BY <1>3, <2>1, NearestSome
<1>6. ASSUME NEW p \in added' PROVE Settled(p)'
  <2>1. p \in Pts /\ (Settled(p) \/ p \in S)
    BY <1>1, <1>2, <1>3
  <2>. QED BY <1>1, <1>3, <1>4, <2>1, SettledAfter
<1>7. ASSUME NEW r \in results' PROVE r \in cand' \/ Owed(r)' \subseteq added'
  <2>1. r \in S \/ r \in results
    BY <1>3
  <2>. QED BY <1>3, <1>4, <2>1
<1>8. ASSUME \A p \in S : Owed(p) \subseteq added \cup S, NEW r \in results'
      PROVE  r \in rest \/ Owed(r)' \subseteq added'
  <2>1. r \in S \/ r \in results
    BY <1>3
  <2>. QED BY <1>3, <1>4, <1>8, <2>1
<1>. QED BY <1>2, <1>3, <1>5, <1>6, <1>7, <1>8

\* When the nearest candidate is beyond all results, every result was expanded.
LEMMA BeyondFact ==
    ASSUME MethodsTypeOK, BeamInv, alg # "region", cand # {} => Beyond(First(cand))
    PROVE  \A r \in results : Owed(r) \subseteq added
<1>1. /\ measured \in SUBSET Pts /\ results \in SUBSET Pts /\ cand \in SUBSET Pts
  BY DEF MethodsTypeOK, BaseTypeOK
<1>2. ASSUME NEW r \in results, r \in cand PROVE FALSE
  <2>1. First(cand) \in cand /\ \A q \in cand : Dist[First(cand)] <= Dist[q]
    BY <1>1, <1>2, FirstFact
  <2>2. Dist[First(cand)] > WorstOf(results)
    BY <1>2 DEF Beyond, Worst
  <2>3. WorstOf(results) \in Nat /\ Dist[r] <= WorstOf(results)
    BY <1>1, <1>2, WorstFact
  <2>4. Dist[First(cand)] \in Nat /\ Dist[r] \in Nat /\ Dist[First(cand)] <= Dist[r]
    BY <1>1, <1>2, <2>1, SearchAssumption
  <2>. QED BY <2>2, <2>3, <2>4
<1>. QED BY <1>2 DEF BeamInv

LEMMA BeamStep ==
    ASSUME MethodsTypeOK, QuietInv, BeamInv, BeamNext, UNCHANGED <<navixVars, regionVars>>
    PROVE  BeamInv'
<1>1. UNCHANGED query /\ alg = "beam"
  BY DEF BeamNext, BeamDescend, BeamStart, BeamExpand, BeamFinish, Descend, Finish
<1>2. /\ QueryOK /\ measured \in SUBSET Pts /\ results \in SUBSET Pts /\ added \in SUBSET Pts
      /\ cur \in Pts /\ cand \in SUBSET added
  BY DEF MethodsTypeOK, BaseTypeOK, QueryOK
<1>3. /\ results \subseteq added /\ (added # {} => results # {})
      /\ \A p \in added : Settled(p)
      /\ \A r \in results : r \in cand \/ Owed(r) \subseteq added
      /\ added \subseteq Reachable(cur) /\ (pc # "descend" => cur \in added)
  BY <1>1 DEF BeamInv
<1>4. \A p : Owed(p) = nbr[p] /\ Owed(p)' = nbr[p]
  BY <1>1 DEF Owed, query
<1>5. CASE BeamDescend
  <2>1. pc = "descend" /\ UNCHANGED <<pc, results, cand, added>>
    BY <1>5 DEF BeamDescend, Descend, beamVars
  <2>2. results = {} /\ added = {}
    BY <2>1 DEF QuietInv
  <2>. QED BY <2>1, <2>2 DEF BeamInv
<1>6. CASE BeamStart
  <2>1. /\ pc = "descend" /\ pc' = "expand" /\ cand' = {cur} /\ added' = {cur} /\ results' = {cur}
        /\ cur' = cur
    BY <1>6 DEF BeamStart, Arrived
  <2>2. cur \in Reachable(cur) /\ Reachable(cur)' = Reachable(cur)
    <3>1. cur \in Reachable(cur)
      BY <1>2, ReachFact DEF Reachable
    <3>. QED BY <1>1, <2>1, <3>1 DEF Reachable, ReachAvoiding, query
  <2>3. Settled(cur)'
    BY <2>1 DEF Settled
  <2>. QED BY <2>1, <2>2, <2>3 DEF BeamInv
<1>7. CASE BeamExpand
  <2>. DEFINE c == First(cand)
              S == nbr[c] \ added
              rest == cand \ {c}
  <2>1. /\ pc = "expand" /\ UNCHANGED <<pc, cur>> /\ cand # {}
        /\ Offer(S, {}, rest)
    BY <1>7 DEF BeamExpand
  <2>2. c \in cand
    BY <1>2, <2>1, FirstFact
  <2>3. nbr \in [Pts -> SUBSET Pts]
    BY <1>2, GraphFact
  <2>. HIDE DEF c
  <2>4. S \in SUBSET Pts /\ rest \in SUBSET added /\ {} \in SUBSET Pts
    BY <1>2, <2>2, <2>3
  <2>5. \A r \in results : r \in rest \/ Owed(r) \subseteq added \cup S
    BY <1>3, <1>4
  <2>6. S \subseteq Reachable(cur)
    <3>1. c \in Reachable(cur)
      BY <1>2, <1>3, <2>2
    <3>2. nbr[c] \ {} \subseteq Reachable(cur)
      BY <1>2, <3>1, ReachFact DEF Reachable
    <3>. QED BY <3>2
  <2>. HIDE DEF S, rest
  <2>7. /\ results' \subseteq added' /\ (added' # {} => results' # {})
        /\ \A p \in added' : Settled(p)'
        /\ \A r \in results' : r \in cand' \/ Owed(r)' \subseteq added'
    BY <1>1, <2>1, <2>4, <2>5, OfferInv
  <2>8. added' = added \cup S
    BY <2>1, <2>4, OfferFact
  <2>9. Reachable(cur)' = Reachable(cur)
    BY <1>1, <2>1 DEF Reachable, ReachAvoiding, query
  <2>. QED BY <1>3, <2>1, <2>6, <2>7, <2>8, <2>9 DEF BeamInv
<1>8. CASE BeamFinish
  <2>1. /\ pc = "expand" /\ pc' = "done" /\ (cand # {} => Beyond(First(cand)))
        /\ UNCHANGED <<cur, results, cand, added>>
    BY <1>8 DEF BeamFinish, Finish, beamVars
  <2>2. \A r \in results : Owed(r) \subseteq added
    BY <1>1, <2>1, BeyondFact
  <2>3. Reachable(cur)' = Reachable(cur) /\ \A p : Settled(p)' = Settled(p)
    BY <1>1, <2>1 DEF Reachable, ReachAvoiding, query, Settled, Admits, Full, Worst
  <2>. QED BY <1>1, <1>3, <1>4, <2>1, <2>2, <2>3 DEF BeamInv
<1>. QED BY <1>5, <1>6, <1>7, <1>8 DEF BeamNext

\* What the invariant says at the end.
LEMMA BeamEnd == MethodsTypeOK /\ BeamInv => BeamClosed
<1>. SUFFICES ASSUME MethodsTypeOK, BeamInv, alg = "beam", pc = "done"
              PROVE  /\ \A r \in results : \A q \in nbr[r] : Admits(q) => q \in results
                     /\ ~ Full => results = Reachable(cur)
  BY DEF BeamClosed
<1>1. /\ results \subseteq added /\ \A p \in added : Settled(p)
      /\ \A r \in results : nbr[r] \subseteq added
      /\ added \subseteq Reachable(cur) /\ cur \in added
  BY DEF BeamInv, Owed
<1>2. QueryOK /\ results \in SUBSET Pts /\ cur \in Pts
  BY DEF MethodsTypeOK, BaseTypeOK, QueryOK
<1>3. ASSUME ~ Full PROVE results = Reachable(cur)
  <2>1. added \subseteq results
    BY <1>1, <1>3 DEF Settled, Admits
  <2>2. cur \in results /\ \A u \in results : nbr[u] \ {} \subseteq results
    BY <1>1, <2>1
  <2>3. ReachAvoiding(cur, {}) \subseteq results
    BY <1>2, <2>2, ReachFact
  <2>. QED BY <1>1, <2>3 DEF Reachable
<1>. QED BY <1>1, <1>3 DEF Settled

(***************************************************************************)
(* The NaviX-style baseline.                                               *)
(***************************************************************************)

\* Whatever way a point is expanded, its satisfying neighbours are offered.
LEMMA ExpandFact ==
    ASSUME MethodsTypeOK, BeamInv, alg = "navix", NEW c \in Pts, NEW rest \in SUBSET added,
           Expand(c, rest)
    PROVE  /\ \E S, M \in SUBSET Pts : Offer(S, M, rest) /\ Owed(c) \subseteq added \cup S
           /\ svis' \subseteq Pts \ sat /\ bq' \subseteq svis' /\ want' \in Int
           /\ pc' \in {"expand", "blind"}
<1>1. /\ QueryOK /\ measured \in SUBSET Pts /\ results \in SUBSET Pts /\ Cardinality(results) <= ef
      /\ sat \subseteq Pts /\ svis \subseteq Pts \ sat /\ bq \subseteq svis /\ want \in Int
      /\ added \in SUBSET Pts
  BY DEF MethodsTypeOK, BaseTypeOK, QueryOK
<1>2. nbr \in [Pts -> SUBSET Pts]
  BY <1>1, GraphFact
<1>3. Owed(c) = nbr[c] \cap sat
  BY DEF Owed
<1>4. CASE ExpandDry(c, rest) /\ pc' = "expand"
  <2>1. nbr[c] = {} /\ cand' = rest /\ UNCHANGED <<measured, results, added, svis, bq, want>>
    BY <1>4 DEF ExpandDry, navixVars
  <2>2. Nearest(ef, results \cup {}) = results
    <3>1. ef \in Nat /\ results \cup {} = results
      BY <1>1 DEF QueryOK
    <3>. QED BY <1>1, <3>1, NearestCount
  <2>3. {} \in SUBSET ({p \in {} : Admits(p)} \ results') /\ cand' = rest \cup ({} \cap results') \cup {}
    BY <2>1
  <2>4. Offer({}, {}, rest)
    BY <2>1, <2>2, <2>3 DEF Offer
  <2>. QED BY <1>1, <1>3, <1>4, <2>1, <2>4
<1>5. CASE ExpandOneHop(c, rest) /\ pc' = "expand"
  <2>. DEFINE S == (nbr[c] \cap sat) \ added
  <2>1. Offer(S, {}, rest) /\ UNCHANGED <<svis, bq, want>>
    BY <1>5 DEF ExpandOneHop, navixVars
  <2>2. S \in SUBSET Pts /\ Owed(c) \subseteq added \cup S
    BY <1>1, <1>3
  <2>. QED BY <1>1, <1>5, <2>1, <2>2
<1>6. CASE ExpandDirected(c, rest) /\ pc' = "expand"
  <2>. DEFINE S == (sat \cap UNION ({nbr[c]} \cup {nbr[v] : v \in Walked(c)})) \ added
  <2>1. Offer(S, nbr[c], rest) /\ UNCHANGED <<svis, bq, want>>
    BY <1>6 DEF ExpandDirected, navixVars
  <2>2. S \in SUBSET Pts /\ nbr[c] \in SUBSET Pts /\ Owed(c) \subseteq added \cup S
    BY <1>1, <1>2, <1>3
  <2>. QED BY <1>1, <1>6, <2>1, <2>2
<1>7. CASE ExpandBlind(c, rest) /\ pc' = "blind"
  <2>. DEFINE S == (nbr[c] \cap sat) \ added
  <2>1. /\ Offer(S, {}, rest) /\ bq' = (nbr[c] \ sat) \ svis /\ svis' = svis \cup (nbr[c] \ sat)
        /\ want' = Deg(c) - Sel(c)
    BY <1>7 DEF ExpandBlind
  <2>2. S \in SUBSET Pts /\ Owed(c) \subseteq added \cup S
    BY <1>1, <1>3
  <2>3. Deg(c) \in Nat /\ Sel(c) \in Nat
    <3>1. IsFiniteSet(nbr[c]) /\ IsFiniteSet(nbr[c] \cap sat)
      <4>1. nbr[c] \in SUBSET Pts /\ nbr[c] \cap sat \in SUBSET Pts
        BY <1>2
      <4>. QED BY <4>1, SearchAssumption, FS_Subset
    <3>. QED BY <3>1, FS_CardinalityType DEF Deg, Sel
  <2>4. svis' \subseteq Pts \ sat /\ bq' \subseteq svis' /\ want' \in Int
    BY <1>1, <1>2, <2>1, <2>3
  <2>. QED BY <1>7, <2>1, <2>2, <2>4
<1>. QED BY <1>4, <1>5, <1>6, <1>7 DEF Expand

\* A step that offers points, or none.
LEMMA OfferStep ==
    ASSUME MethodsTypeOK, QuietInv, BeamInv, alg = "navix", pc # "done",
           UNCHANGED <<query, level, cur, answer>>, UNCHANGED regionVars,
           NEW S \in SUBSET Pts, NEW M \in SUBSET Pts, NEW rest \in SUBSET added, Offer(S, M, rest),
           \A r \in results : r \in rest \/ Owed(r) \subseteq added \cup S,
           svis' \subseteq Pts \ sat, bq' \subseteq svis', want' \in Int,
           pc' \in {"first", "expand", "blind"}
    PROVE  MethodsTypeOK' /\ QuietInv' /\ BeamInv'
<1>1. /\ alg \in Algs /\ nbr \in Graphs /\ sat \subseteq Pts /\ ef \in Nat \ {0}
      /\ level \in 0 .. TopLevel /\ cur \in measured /\ measured \in SUBSET Pts
      /\ answer = {} /\ added \subseteq measured
  BY DEF MethodsTypeOK, BaseTypeOK, QuietInv
<1>2. /\ added' = added \cup S /\ measured' = measured \cup S \cup M
      /\ measured' \in SUBSET Pts /\ added' \subseteq measured'
      /\ results' \subseteq measured' /\ Cardinality(results') <= ef /\ cand' \subseteq added'
  BY OfferFact
<1>3. Cardinality({}) = 0 /\ K \in Nat
  BY FS_EmptySet, SearchAssumption
<1>4. BaseTypeOK'
  BY <1>1, <1>2, <1>3 DEF BaseTypeOK, query
<1>5. /\ plan \in Plans /\ uq \subseteq Nat \X Pts /\ key \in Nat
      /\ \A T \in {vis, bfs, scan, hopped} : T \subseteq Pts
  BY DEF MethodsTypeOK
<1>6. MethodsTypeOK'
  BY <1>2, <1>4, <1>5 DEF MethodsTypeOK, query, regionVars
<1>7. /\ results' \subseteq added' /\ (added' # {} => results' # {})
      /\ \A p \in added' : Settled(p)'
      /\ \A r \in results' : r \in cand' \/ Owed(r)' \subseteq added'
  BY OfferInv
<1>. QED BY <1>1, <1>6, <1>7 DEF QuietInv, BeamInv, query

\* A step that leaves the heap and the candidates alone.
LEMMA StayStep ==
    ASSUME MethodsTypeOK, QuietInv, BeamInv, alg = "navix", pc # "done",
           UNCHANGED <<query, level, cur, measured, results, answer>>, UNCHANGED beamVars,
           UNCHANGED regionVars,
           svis' \subseteq Pts \ sat, bq' \subseteq svis', want' \in Int,
           pc' \in {"first", "expand", "blind"}
    PROVE  MethodsTypeOK' /\ QuietInv' /\ BeamInv'
<1>1. BaseTypeOK'
  BY DEF MethodsTypeOK, BaseTypeOK, query
<1>2. MethodsTypeOK'
  BY <1>1 DEF MethodsTypeOK, query, regionVars, beamVars
<1>3. \A p : Settled(p)' = Settled(p) /\ Owed(p)' = Owed(p)
  BY DEF Settled, Admits, Full, Worst, Owed, query
<1>. QED BY <1>2, <1>3 DEF QuietInv, BeamInv, query, beamVars

LEMMA NavixStep ==
    ASSUME MethodsTypeOK, QuietInv, BeamInv, NavixNext, UNCHANGED regionVars
    PROVE  MethodsTypeOK' /\ QuietInv' /\ BeamInv'
<1>1. UNCHANGED query /\ alg = "navix" /\ pc # "done"
  BY DEF NavixNext, NavixDescend, NavixNone, NavixStart, NavixFirst, NavixBlind, NavixBlindEnd,
         NavixExpand, NavixFinish, Descend, Finish, Arrived
<1>2. /\ QueryOK /\ measured \in SUBSET Pts /\ results \in SUBSET Pts /\ added \in SUBSET Pts
      /\ cur \in Pts /\ cand \in SUBSET added /\ sat \in SUBSET Pts
      /\ svis \subseteq Pts \ sat /\ bq \subseteq svis /\ want \in Int
  BY DEF MethodsTypeOK, BaseTypeOK, QueryOK
<1>3. \A r \in results : r \in cand \/ Owed(r) \subseteq added
  BY <1>1 DEF BeamInv
<1>4. nbr \in [Pts -> SUBSET Pts]
  BY <1>2, GraphFact
<1>5. CASE NavixDescend
  <2>1. /\ cur' \in measured' /\ measured' \in SUBSET Pts /\ measured \subseteq measured'
        /\ level' \in 0 .. TopLevel /\ measured' \subseteq OnUpperLayers
        /\ pc = "descend" /\ UNCHANGED <<query, pc, results, answer>>
        /\ UNCHANGED beamVars /\ UNCHANGED navixVars
    BY <1>5, DescendFact DEF NavixDescend
  <2>2. BaseTypeOK'
    BY <2>1 DEF MethodsTypeOK, BaseTypeOK, query
  <2>3. MethodsTypeOK'
    BY <2>1, <2>2 DEF MethodsTypeOK, query, beamVars, navixVars, regionVars
  <2>4. QuietInv'
    BY <2>1 DEF QuietInv, beamVars, navixVars, regionVars
  <2>5. results' = {} /\ added' = {} /\ pc' # "done" /\ alg' = alg
    BY <2>1 DEF QuietInv, beamVars, query
  <2>. QED BY <1>1, <2>3, <2>4, <2>5 DEF BeamInv
<1>6. CASE NavixNone \/ NavixFinish
  <2>1. PICK S \in SUBSET results : answer' = Nearest(K, S)
    <3>1. CASE NavixNone
      <4>1. answer' = Nearest(K, {}) /\ {} \in SUBSET results
        BY <3>1 DEF NavixNone, Finish
      <4>. QED BY <4>1
    <3>2. CASE NavixFinish
      <4>1. answer' = Nearest(K, results) /\ results \in SUBSET results
        BY <3>2 DEF NavixFinish, Finish
      <4>. QED BY <4>1
    <3>. QED BY <1>6, <3>1, <3>2
  <2>2. /\ pc' = "done" /\ UNCHANGED <<query, level, cur, measured, results>>
        /\ UNCHANGED beamVars /\ UNCHANGED navixVars
    BY <1>6 DEF NavixNone, NavixFinish, Finish
  <2>3. answer' \subseteq results /\ Cardinality(answer') <= K
    BY <2>1, FinishFact
  <2>4. BaseTypeOK'
    BY <2>2, <2>3 DEF MethodsTypeOK, BaseTypeOK, query
  <2>5. MethodsTypeOK' /\ QuietInv'
    BY <2>2, <2>4 DEF MethodsTypeOK, QuietInv, query, beamVars, navixVars, regionVars
  <2>6. \A r \in results : Owed(r) \subseteq added
    <3>1. CASE NavixNone
      BY <3>1 DEF NavixNone, QuietInv
    <3>2. CASE NavixFinish
      BY <1>1, <3>2, BeyondFact DEF NavixFinish
    <3>. QED BY <1>6, <3>1, <3>2
  <2>7. \A p : Settled(p)' = Settled(p) /\ Owed(p)' = Owed(p)
    BY <2>2 DEF Settled, Admits, Full, Worst, Owed, query
  <2>8. /\ results \subseteq added /\ (added # {} => results # {})
        /\ \A p \in added : Settled(p)
    BY <1>1 DEF BeamInv
  <2>9. UNCHANGED <<results, added, cand>> /\ alg' = "navix"
    BY <1>1, <2>2 DEF beamVars, query
  <2>. QED BY <2>5, <2>6, <2>7, <2>8, <2>9 DEF BeamInv
<1>7. CASE NavixStart
  <2>1. /\ pc = "descend" /\ pc' = "first" /\ UNCHANGED <<query, level, cur, answer>>
        /\ UNCHANGED navixVars
        /\ IF cur \in sat THEN Offer({cur}, {}, {}) ELSE UNCHANGED <<measured, results, beamVars>>
    BY <1>7 DEF NavixStart, Arrived
  <2>2. /\ svis' \subseteq Pts \ sat /\ bq' \subseteq svis' /\ want' \in Int
        /\ pc' \in {"first", "expand", "blind"}
    BY <1>2, <2>1 DEF navixVars
  <2>3. CASE cur \in sat
    <3>1. {cur} \in SUBSET Pts /\ {} \in SUBSET Pts /\ {} \in SUBSET added /\ results = {}
      BY <1>2, <2>1 DEF QuietInv
    <3>2. Offer({cur}, {}, {})
      BY <2>1, <2>3
    <3>3. \A r \in results : r \in {} \/ Owed(r) \subseteq added \cup {cur}
      BY <3>1
    <3>. QED BY <1>1, <2>1, <2>2, <3>1, <3>2, <3>3, OfferStep
  <2>4. CASE cur \notin sat
    <3>1. UNCHANGED <<query, level, cur, measured, results, answer>> /\ UNCHANGED beamVars
      BY <2>1, <2>4
    <3>. QED BY <1>1, <2>2, <3>1, StayStep
  <2>. QED BY <2>3, <2>4
<1>8. CASE NavixFirst
  <2>1. UNCHANGED <<query, level, cur, answer>> /\ Expand(cur, cand)
    BY <1>8 DEF NavixFirst
  <2>2. /\ \E S, M \in SUBSET Pts : Offer(S, M, cand) /\ Owed(cur) \subseteq added \cup S
        /\ svis' \subseteq Pts \ sat /\ bq' \subseteq svis' /\ want' \in Int
        /\ pc' \in {"expand", "blind"}
    BY <1>1, <1>2, <2>1, ExpandFact
  <2>3. PICK S, M \in SUBSET Pts : Offer(S, M, cand)
    BY <2>2
  <2>4. \A r \in results : r \in cand \/ Owed(r) \subseteq added \cup S
    BY <1>3
  <2>5. pc' \in {"first", "expand", "blind"}
    BY <2>2
  <2>. QED BY <1>1, <1>2, <2>1, <2>2, <2>3, <2>4, <2>5, OfferStep
<1>9. CASE NavixBlind
  <2>1. PICK u \in bq :
          /\ Offer((nbr[u] \cap sat) \ added, {}, cand)
          /\ bq' = (bq \ {u}) \cup Queue(u) /\ svis' = svis \cup Queue(u) /\ want' = want - Sel(u)
    BY <1>9 DEF NavixBlind
  <2>. DEFINE S == (nbr[u] \cap sat) \ added
  <2>2. UNCHANGED <<query, level, cur, answer>> /\ pc' \in {"first", "expand", "blind"}
    BY <1>9 DEF NavixBlind
  <2>3. S \in SUBSET Pts /\ {} \in SUBSET Pts /\ \A r \in results : r \in cand \/ Owed(r) \subseteq added \cup S
    BY <1>2, <1>3
  <2>4. Sel(u) \in Nat
    <3>1. nbr[u] \cap sat \in SUBSET Pts
      BY <1>2
    <3>2. IsFiniteSet(nbr[u] \cap sat)
      BY <3>1, SearchAssumption, FS_Subset
    <3>. QED BY <3>2, FS_CardinalityType DEF Sel
  <2>5. svis' \subseteq Pts \ sat /\ bq' \subseteq svis' /\ want' \in Int
    BY <1>2, <1>4, <2>1, <2>4 DEF Queue
  <2>. HIDE DEF S
  <2>6. Offer(S, {}, cand)
    BY <2>1 DEF S
  <2>. QED BY <1>1, <1>2, <2>2, <2>3, <2>5, <2>6, OfferStep
<1>10. CASE NavixBlindEnd
  <2>1. /\ UNCHANGED <<query, level, cur, measured, results, answer>> /\ UNCHANGED beamVars
        /\ svis' = svis /\ bq' = {} /\ want' = 0 /\ pc' = "expand"
    BY <1>10 DEF NavixBlindEnd
  <2>2. svis' \subseteq Pts \ sat /\ bq' \subseteq svis' /\ want' \in Int
    BY <1>2, <2>1
  <2>. QED BY <1>1, <2>1, <2>2, StayStep
<1>11. CASE NavixExpand
  <2>. DEFINE c == First(cand)
              rest == cand \ {c}
  <2>1. UNCHANGED <<query, level, cur, answer>> /\ Expand(c, rest) /\ cand # {}
    BY <1>11 DEF NavixExpand
  <2>2. c \in cand
    BY <1>2, <2>1, FirstFact
  <2>. HIDE DEF c
  <2>3. c \in Pts /\ rest \in SUBSET added
    BY <1>2, <2>2
  <2>4. \A r \in results : r \in rest \/ r = c \/ Owed(r) \subseteq added
    BY <1>3
  <2>. HIDE DEF rest
  <2>5. /\ \E S, M \in SUBSET Pts : Offer(S, M, rest) /\ Owed(c) \subseteq added \cup S
        /\ svis' \subseteq Pts \ sat /\ bq' \subseteq svis' /\ want' \in Int
        /\ pc' \in {"expand", "blind"}
    BY <1>1, <2>1, <2>3, ExpandFact
  <2>6. PICK S, M \in SUBSET Pts : Offer(S, M, rest) /\ Owed(c) \subseteq added \cup S
    BY <2>5
  <2>7. \A r \in results : r \in rest \/ Owed(r) \subseteq added \cup S
    BY <2>4, <2>6
  <2>8. pc' \in {"first", "expand", "blind"}
    BY <2>5
  <2>. QED BY <1>1, <2>1, <2>3, <2>5, <2>6, <2>7, <2>8, OfferStep
<1>. QED BY <1>5, <1>6, <1>7, <1>8, <1>9, <1>10, <1>11 DEF NavixNext

\* What the invariant says at the end.
LEMMA NavixEnd == MethodsTypeOK /\ BeamInv => NavixLocal
  BY DEF NavixLocal, BeamInv, Owed, Settled

\* A set that is closed and holds no satisfying point hides none.
LEMMA NoneReached ==
    ASSUME QueryOK, cur \in Pts, NEW S \in SUBSET Pts, cur \in S,
           \A u \in S : nbr[u] \subseteq S, S \cap sat = {}
    PROVE  Reachable(cur) \cap sat = {}
<1>1. Reachable(cur) \subseteq S
  <2>1. \A u \in S : nbr[u] \ {} \subseteq S
    OBVIOUS
  <2>. QED BY <2>1, ReachFact DEF Reachable
<1>. QED BY <1>1

\* An expansion that leaves no result has offered nothing.
LEMMA NothingOffered ==
    ASSUME MethodsTypeOK, BeamInv, BeamInv', alg = "navix", UNCHANGED query, results' = {},
           NEW S \in SUBSET Pts, NEW M \in SUBSET Pts, NEW rest \in SUBSET added, Offer(S, M, rest)
    PROVE  S = {} /\ added = {} /\ cand = {} /\ results = {}
<1>1. added' = added \cup S
  BY OfferFact
<1>2. added' = {}
  BY DEF BeamInv, query
<1>3. cand \subseteq added /\ results \subseteq added
  BY DEF MethodsTypeOK, BeamInv
<1>. QED BY <1>1, <1>2, <1>3

LEMMA EmptyStep ==
    ASSUME MethodsTypeOK, QuietInv, BeamInv, BeamInv', EmptyInv, NavixNext
    PROVE  EmptyInv'
<1>1. UNCHANGED query /\ alg = "navix" /\ pc # "done"
  BY DEF NavixNext, NavixDescend, NavixNone, NavixStart, NavixFirst, NavixBlind, NavixBlindEnd,
         NavixExpand, NavixFinish, Descend, Finish, Arrived
<1>2. /\ QueryOK /\ added \in SUBSET Pts /\ cur \in Pts /\ cand \in SUBSET added
      /\ sat \in SUBSET Pts /\ svis \subseteq Pts \ sat /\ bq \subseteq svis
  BY DEF MethodsTypeOK, BaseTypeOK, QueryOK
<1>3. nbr \in [Pts -> SUBSET Pts]
  BY <1>2, GraphFact
<1>4. \A p \in Pts : /\ Deg(p) \in Nat /\ Sel(p) \in Nat
                     /\ Deg(p) = 0 => nbr[p] = {}
                     /\ nbr[p] \cap sat = {} => Sel(p) = 0
  <2>1. ASSUME NEW p \in Pts PROVE IsFiniteSet(nbr[p]) /\ IsFiniteSet(nbr[p] \cap sat)
    <3>1. nbr[p] \in SUBSET Pts /\ nbr[p] \cap sat \in SUBSET Pts
      BY <1>3
    <3>. QED BY <3>1, SearchAssumption, FS_Subset
  <2>. QED BY <2>1, FS_CardinalityType, FS_EmptySet DEF Deg, Sel
<1>5. UNCHANGED cur => Reachable(cur)' = Reachable(cur)
  BY <1>1 DEF Reachable, ReachAvoiding, query
<1>6. CASE NavixDescend
  <2>1. pc' = "descend"
    BY <1>6 DEF NavixDescend, Descend
  <2>. QED BY <2>1 DEF EmptyInv
<1>7. CASE NavixNone
  <2>1. sat' = {} /\ pc' = "done"
    BY <1>1, <1>7 DEF NavixNone, Finish, query
  <2>. QED BY <2>1 DEF EmptyInv
<1>8. CASE NavixStart
  <2>1. /\ pc = "descend" /\ pc' = "first" /\ UNCHANGED <<sat, cur>> /\ svis' = svis
        /\ IF cur \in sat THEN Offer({cur}, {}, {}) ELSE TRUE
    BY <1>8 DEF NavixStart, Arrived, query, navixVars
  <2>2. svis' = {}
    BY <2>1 DEF QuietInv
  <2>3. ASSUME results' = {} PROVE cur \notin sat
    <3>. SUFFICES ASSUME cur \in sat PROVE FALSE
      OBVIOUS
    <3>1. {cur} \in SUBSET Pts /\ {} \in SUBSET Pts /\ {} \in SUBSET added /\ Offer({cur}, {}, {})
      BY <1>2, <2>1
    <3>2. {cur} = {}
      BY <1>1, <2>3, <3>1, NothingOffered
    <3>. QED BY <3>2
  <2>. QED BY <2>1, <2>2, <2>3 DEF EmptyInv
<1>9. CASE NavixFirst
  <2>. SUFFICES ASSUME results' = {} PROVE EmptyInv'
    BY DEF EmptyInv
  <2>1. UNCHANGED <<query, cur>> /\ Expand(cur, cand) /\ pc = "first"
    BY <1>9 DEF NavixFirst
  <2>2. PICK S, M \in SUBSET Pts : Offer(S, M, cand) /\ Owed(cur) \subseteq added \cup S
    BY <1>1, <1>2, <2>1, ExpandFact
  <2>3. S = {} /\ added = {} /\ results = {}
    BY <1>1, <1>2, <2>2, NothingOffered
  <2>4. nbr[cur] \cap sat = {} /\ svis = {} /\ cur \notin sat /\ nbr[cur] \in SUBSET Pts
    BY <1>1, <1>2, <1>3, <2>1, <2>2, <2>3 DEF EmptyInv, Owed
  <2>5. Sel(cur) = 0 /\ Deg(cur) \in Nat /\ (nbr[cur] # {} => Deg(cur) > 0)
    BY <1>2, <1>4, <2>4
  <2>6. CASE ExpandDry(cur, cand) /\ pc' = "expand"
    <3>1. nbr[cur] = {}
      BY <2>6 DEF ExpandDry
    <3>2. Reachable(cur) \cap sat = {}
      <4>1. {cur} \in SUBSET Pts /\ cur \in {cur} /\ {cur} \cap sat = {}
            /\ \A u \in {cur} : nbr[u] \subseteq {cur}
        BY <1>2, <2>4, <3>1
      <4>. QED BY <1>2, <4>1, NoneReached
    <3>. QED BY <1>1, <1>5, <2>1, <2>6, <3>2 DEF EmptyInv, query
  <2>7. CASE ExpandOneHop(cur, cand) /\ pc' = "expand"
    <3>1. nbr[cur] # {} /\ 2 * Sel(cur) >= Deg(cur)
      BY <2>7 DEF ExpandOneHop, OneHop
    <3>. QED BY <2>5, <3>1
  <2>8. CASE ExpandDirected(cur, cand) /\ pc' = "expand"
    <3>1. nbr[cur] # {} /\ Sel(cur) * (DegParam + 1) >= 3 * Deg(cur)
      BY <2>8 DEF ExpandDirected, Directed
    <3>2. Sel(cur) * (DegParam + 1) = 0
      BY <2>5, DegAssumption
    <3>. QED BY <2>5, <3>1, <3>2
  <2>9. CASE ExpandBlind(cur, cand) /\ pc' = "blind"
    <3>1. /\ nbr[cur] # {} /\ bq' = (nbr[cur] \ sat) \ svis /\ svis' = svis \cup (nbr[cur] \ sat)
          /\ want' = Deg(cur) - Sel(cur)
      BY <2>9 DEF ExpandBlind
    <3>2. want' > 0 /\ svis' = nbr[cur] /\ bq' = nbr[cur] /\ nbr' = nbr /\ cur' = cur /\ sat' = sat
      BY <2>1, <2>4, <2>5, <3>1 DEF query
    <3>. QED BY <2>4, <2>9, <3>2 DEF EmptyInv
  <2>. QED BY <2>1, <2>6, <2>7, <2>8, <2>9 DEF Expand
<1>10. CASE NavixBlind
  <2>. SUFFICES ASSUME results' = {} PROVE EmptyInv'
    BY DEF EmptyInv
  <2>1. PICK u \in bq :
          /\ Offer((nbr[u] \cap sat) \ added, {}, cand)
          /\ bq' = (bq \ {u}) \cup Queue(u) /\ svis' = svis \cup Queue(u) /\ want' = want - Sel(u)
    BY <1>10 DEF NavixBlind
  <2>. DEFINE S == (nbr[u] \cap sat) \ added
  <2>2. S \in SUBSET Pts /\ {} \in SUBSET Pts /\ Offer(S, {}, cand)
    BY <1>2, <2>1
  <2>3. S = {} /\ added = {} /\ results = {}
    <3>. HIDE DEF S
    <3>. QED BY <1>1, <1>2, <2>2, NothingOffered
  <2>4. pc = "blind" /\ pc' = "blind" /\ UNCHANGED <<query, cur>>
    BY <1>10 DEF NavixBlind
  <2>5. /\ want > 0 /\ cur \notin sat /\ nbr[cur] \subseteq svis
        /\ \A x \in svis \ bq : nbr[x] \subseteq svis
    BY <1>1, <2>3, <2>4 DEF EmptyInv
  <2>6. u \in Pts /\ nbr[u] \cap sat = {} /\ Sel(u) = 0 /\ want \in Int
    BY <1>2, <1>4, <2>3 DEF MethodsTypeOK
  <2>7. want' > 0
    BY <2>1, <2>5, <2>6
  <2>8. nbr[u] \subseteq svis \cup Queue(u)
    BY <2>6 DEF Queue
  <2>9. \A x \in svis' \ bq' : nbr[x] \subseteq svis'
    <3>. SUFFICES ASSUME NEW x \in svis' \ bq' PROVE nbr[x] \subseteq svis'
      OBVIOUS
    <3>1. x \in svis /\ (x \notin bq \/ x = u)
      BY <2>1
    <3>2. CASE x \notin bq
      BY <2>1, <2>5, <3>1, <3>2
    <3>3. CASE x = u
      BY <2>1, <2>8, <3>3
    <3>. QED BY <3>1, <3>2, <3>3
  <2>10. nbr' = nbr /\ cur' = cur /\ sat' = sat /\ svis \subseteq svis'
    BY <2>1, <2>4 DEF query
  <2>. QED BY <2>4, <2>5, <2>7, <2>9, <2>10 DEF EmptyInv
<1>11. CASE NavixBlindEnd
  <2>. SUFFICES ASSUME results' = {} PROVE EmptyInv'
    BY DEF EmptyInv
  <2>1. /\ pc = "blind" /\ pc' = "expand" /\ results = {} /\ (bq = {} \/ want <= 0)
        /\ UNCHANGED <<query, cur>>
    BY <1>11 DEF NavixBlindEnd
  <2>2. /\ want > 0 /\ cur \notin sat /\ nbr[cur] \subseteq svis
        /\ \A x \in svis \ bq : nbr[x] \subseteq svis
    BY <1>1, <2>1 DEF EmptyInv
  <2>3. bq = {}
    <3>1. want \in Int
      BY DEF MethodsTypeOK
    <3>. QED BY <2>1, <2>2, <3>1
  <2>4. Reachable(cur) \cap sat = {}
    <3>. DEFINE S == {cur} \cup svis
    <3>1. S \in SUBSET Pts /\ cur \in S /\ S \cap sat = {} /\ \A u \in S : nbr[u] \subseteq S
      BY <1>2, <2>2, <2>3
    <3>. HIDE DEF S
    <3>. QED BY <1>2, <3>1, NoneReached
  <2>. QED BY <1>5, <2>1, <2>4 DEF EmptyInv, query
<1>12. CASE NavixExpand
  <2>. SUFFICES ASSUME results' = {} PROVE FALSE
    BY DEF EmptyInv
  <2>. DEFINE c == First(cand)
              rest == cand \ {c}
  <2>1. Expand(c, rest) /\ cand # {}
    BY <1>12 DEF NavixExpand
  <2>2. c \in cand
    BY <1>2, <2>1, FirstFact
  <2>. HIDE DEF c
  <2>3. c \in Pts /\ rest \in SUBSET added
    BY <1>2, <2>2
  <2>. HIDE DEF rest
  <2>4. PICK S, M \in SUBSET Pts : Offer(S, M, rest)
    BY <1>1, <2>1, <2>3, ExpandFact
  <2>5. cand = {}
    BY <1>1, <2>3, <2>4, NothingOffered
  <2>. QED BY <2>1, <2>5
<1>13. CASE NavixFinish
  <2>1. pc = "expand" /\ pc' = "done" /\ UNCHANGED <<query, cur, results>>
    BY <1>13 DEF NavixFinish, Finish
  <2>. QED BY <1>1, <1>5, <2>1 DEF EmptyInv, query
<1>. QED BY <1>6, <1>7, <1>8, <1>9, <1>10, <1>11, <1>12, <1>13 DEF NavixNext

(***************************************************************************)
(* The region traversal.                                                   *)
(***************************************************************************)

LEMMA LeastOf ==
    ASSUME NEW S \in SUBSET Nat, S # {}
    PROVE  \E n \in S : \A m \in S : n <= m
<1>. DEFINE R == OpToRel(<, Nat)
<1>1. PICK n \in S : \A m \in S : ~ (<<m, n>> \in R)
  <2>1. IsWellFoundedOn(R, Nat)
    BY NatLessThanWellFounded
  <2>. HIDE DEF R
  <2>. QED BY <2>1, WFMin
<1>2. ASSUME NEW m \in S PROVE n <= m
  <2>1. ~ (m < n)
    BY <1>1 DEF OpToRel
  <2>. QED BY <2>1
<1>. QED BY <1>2

\* struct_reach, one ring after the other: the points of the next ring, and the
\* rings up to n as a function.
RingFrom(v) == [last |-> {v}, all |-> hopped \cup {v}]
NextOf(r) == {w \in UNION {nbr[u] : u \in r.last \ sat} : ~ Shut(w) /\ w \notin r.all}
RingAfter(r) == [last |-> NextOf(r), all |-> r.all \cup NextOf(r)]
IsRings(f, v, n) == f = [h \in 0 .. n |-> IF h = 0 THEN RingFrom(v) ELSE RingAfter(f[h - 1])]

LEMMA RingsExist ==
    ASSUME NEW v, NEW n \in Nat
    PROVE  \E f : IsRings(f, v, n)
<1>. DEFINE Bad == {m \in Nat : ~ \E f : IsRings(f, v, m)}
<1>. SUFFICES ASSUME Bad # {} PROVE FALSE
  OBVIOUS
<1>1. PICK m \in Bad : \A k \in Bad : m <= k
  <2>1. Bad \in SUBSET Nat
    OBVIOUS
  <2>. HIDE DEF Bad
  <2>. QED BY <2>1, LeastOf
<1>2. m # 0
  <2>. DEFINE f == [h \in 0 .. 0 |-> RingFrom(v)]
  <2>1. f = [h \in 0 .. 0 |-> IF h = 0 THEN RingFrom(v) ELSE RingAfter(f[h - 1])]
    <3>1. \A h \in 0 .. 0 : h = 0
      OBVIOUS
    <3>. QED BY <3>1
  <2>2. IsRings(f, v, 0)
    <3>. HIDE DEF f
    <3>. QED BY <2>1 DEF IsRings
  <2>. QED BY <2>2
<1>3. PICK g : IsRings(g, v, m - 1)
  <2>1. m - 1 \in Nat /\ ~ (m <= m - 1)
    BY <1>2
  <2>. QED BY <1>1, <2>1
<1>. DEFINE F(h) == IF h = m THEN RingAfter(g[m - 1]) ELSE g[h]
            f == [h \in 0 .. m |-> F(h)]
<1>4. \A h \in 0 .. m - 1 : f[h] = g[h] /\ h # m
  OBVIOUS
<1>5. f[m] = RingAfter(g[m - 1])
  OBVIOUS
<1>6. ASSUME NEW h \in 0 .. m PROVE f[h] = IF h = 0 THEN RingFrom(v) ELSE RingAfter(f[h - 1])
  <2>1. CASE h = m
    <3>1. m - 1 \in 0 .. m - 1
      BY <1>2
    <3>. QED BY <1>2, <1>4, <1>5, <2>1, <3>1
  <2>2. CASE h # m
    <3>1. h \in 0 .. m - 1 /\ (h # 0 => h - 1 \in 0 .. m - 1)
      BY <2>2
    <3>2. g[h] = IF h = 0 THEN RingFrom(v) ELSE RingAfter(g[h - 1])
      BY <1>3, <3>1 DEF IsRings
    <3>. QED BY <1>4, <3>1, <3>2
  <2>. QED BY <2>1, <2>2
<1>7. f = [h \in 0 .. m |-> f[h]]
  OBVIOUS
<1>. HIDE DEF f
<1>8. IsRings(f, v, m)
  BY <1>6, <1>7 DEF IsRings
<1>. QED BY <1>8

LEMMA RingsFact ==
    ASSUME QueryOK, NEW v \in Pts, hopped \in SUBSET Pts
    PROVE  Rings(v) \in SUBSET Pts
<1>. DEFINE f == CHOOSE g : IsRings(g, v, Hops)
<1>1. Hops \in Nat /\ nbr \in [Pts -> SUBSET Pts]
  BY RegionAssumption, GraphFact
<1>2. Rings(v) = f[Hops].all
  BY DEF Rings, IsRings, RingFrom, RingAfter, NextOf
<1>3. IsRings(f, v, Hops)
  BY <1>1, RingsExist
<1>. HIDE DEF f
<1>4. \A h \in 0 .. Hops : f[h] = IF h = 0 THEN RingFrom(v) ELSE RingAfter(f[h - 1])
  BY <1>3 DEF IsRings
<1>. DEFINE Bad == {h \in 0 .. Hops : ~ (f[h].last \in SUBSET Pts /\ f[h].all \in SUBSET Pts)}
<1>5. Bad = {}
  <2>. SUFFICES ASSUME Bad # {} PROVE FALSE
    OBVIOUS
  <2>1. PICK m \in Bad : \A k \in Bad : m <= k
    <3>1. Bad \in SUBSET Nat
      OBVIOUS
    <3>. HIDE DEF Bad
    <3>. QED BY <3>1, LeastOf
  <2>2. m # 0
    BY <1>1, <1>4 DEF RingFrom
  <2>3. m - 1 \in 0 .. Hops /\ ~ (m <= m - 1)
    BY <1>1, <2>2
  <2>4. f[m - 1].last \in SUBSET Pts /\ f[m - 1].all \in SUBSET Pts
    BY <2>1, <2>3
  <2>5. NextOf(f[m - 1]) \in SUBSET Pts
    BY <1>1, <2>4 DEF NextOf
  <2>6. f[m] = RingAfter(f[m - 1])
    BY <1>4, <2>2
  <2>. QED BY <2>4, <2>5, <2>6 DEF RingAfter
<1>6. Hops \in 0 .. Hops
  BY <1>1
<1>. QED BY <1>2, <1>5, <1>6

\* Points evaluated: satisfying ones enter the heap or are beaten.
LEMMA ConsiderFact ==
    ASSUME MethodsTypeOK, alg = "region", UNCHANGED query, NEW S \in SUBSET Pts,
           results' = Considered(S)
    PROVE  /\ results' \subseteq results \cup (S \cap sat) /\ results' \subseteq sat
           /\ Cardinality(results') <= ef
           /\ \A p \in Pts : Settled(p) \/ p \in S \cap sat => Settled(p)'
<1>1. /\ QueryOK /\ measured \in SUBSET Pts /\ results \in SUBSET Pts /\ results \subseteq sat
      /\ ef \in Nat /\ ef' = ef
  BY DEF MethodsTypeOK, BaseTypeOK, QueryOK, query
<1>2. results' = Nearest(ef, results \cup (S \cap sat)) /\ S \cap sat \in SUBSET Pts
  BY DEF Considered
<1>3. results' \subseteq results \cup (S \cap sat) /\ Cardinality(results') <= ef
  <2>1. results \cup (S \cap sat) \in SUBSET Pts
    BY <1>1
  <2>. QED BY <1>1, <1>2, <2>1, NearestCount
<1>. QED BY <1>1, <1>2, <1>3, SettledAfter

\* A step on layer 0 that keeps the types keeps the type invariant.
LEMMA RegionTypes ==
    ASSUME MethodsTypeOK, UNCHANGED <<query, level, cur, plan>>, UNCHANGED <<beamVars, navixVars>>,
           alg = "region", pc' \in {"pop", "flood", "done"},
           measured' \in SUBSET Pts, measured \subseteq measured',
           results' \subseteq measured', results' \subseteq sat, Cardinality(results') <= ef,
           answer' \subseteq results', Cardinality(answer') <= K, pc' # "done" => answer' = {},
           uq' \subseteq Nat \X Pts, key' \in Nat, vis' \in SUBSET Pts, bfs' \in SUBSET Pts,
           scan' \in SUBSET Pts, hopped' \in SUBSET Pts
    PROVE  MethodsTypeOK' /\ QuietInv'
<1>1. BaseTypeOK'
  BY DEF MethodsTypeOK, BaseTypeOK, query
<1>2. /\ cand \subseteq added /\ added \subseteq measured
      /\ svis \subseteq Pts \ sat /\ bq \subseteq svis /\ want \in Int /\ plan \in Plans
  BY DEF MethodsTypeOK
<1>. QED BY <1>1, <1>2 DEF MethodsTypeOK, QuietInv, query, beamVars, navixVars

WalkInv == MethodsTypeOK /\ QuietInv /\ MetInv /\ SettledInv /\ NeighbourInv /\ OwnKeys
Others == UNCHANGED <<beamVars, navixVars>>

\* What the types say of a traversal.
LEMMA WalkFact ==
    ASSUME MethodsTypeOK, alg = "region"
    PROVE  /\ QueryOK /\ nbr \in [Pts -> SUBSET Pts] /\ ef \in Nat /\ K \in Nat
           /\ sat \in SUBSET Pts /\ measured \in SUBSET Pts /\ results \in SUBSET Pts
           /\ results \subseteq measured /\ results \subseteq sat /\ Cardinality(results) <= ef
           /\ cur \in Pts /\ cur \in measured /\ level \in 0 .. TopLevel
           /\ plan \in Plan /\ uq \in SUBSET (Nat \X Pts) /\ key \in Nat
           /\ vis \in SUBSET Pts /\ bfs \in SUBSET Pts /\ scan \in SUBSET Pts /\ hopped \in SUBSET Pts
           /\ \A p \in Pts : Dist[p] \in Nat
           /\ Cardinality({}) = 0
<1>1. QueryOK
  BY DEF MethodsTypeOK, BaseTypeOK, QueryOK
<1>2. nbr \in [Pts -> SUBSET Pts]
  BY <1>1, GraphFact
<1>3. Cardinality({}) = 0
  BY FS_EmptySet
<1>. QED BY <1>1, <1>2, <1>3, SearchAssumption, RegionAssumption DEF MethodsTypeOK, BaseTypeOK

LEMMA OwnFact ==
    ASSUME NEW S \in SUBSET Pts
    PROVE  /\ Own(S) \in SUBSET (Nat \X Pts)
           /\ \A e \in Own(S) : e[2] \in S /\ e[1] = Dist[e[2]]
           /\ \A p \in S : <<Dist[p], p>> \in Own(S)
  BY SearchAssumption DEF Own

\* What the plan and the predicate fix stays fixed.
LEMMA OffKept == UNCHANGED <<query, plan>> => Off' = Off
  BY DEF Off, Overlooked, GatedOff, query

LEMMA DownStep ==
    ASSUME WalkInv, alg = "region", RegionDescend \/ SkipDescent, Others
    PROVE  WalkInv' /\ UNCHANGED query /\ pc' # "done"
<1>1. MethodsTypeOK /\ QuietInv /\ pc = "descend"
  BY DEF WalkInv, RegionDescend, SkipDescent, Descend
<1>2. /\ UNCHANGED <<query, pc, results, answer>> /\ UNCHANGED regionVars /\ UNCHANGED beamVars
      /\ UNCHANGED navixVars
      /\ cur' \in measured' /\ measured' \in SUBSET Pts /\ measured \subseteq measured'
      /\ level' \in 0 .. TopLevel /\ measured' \subseteq OnUpperLayers
  <2>1. CASE RegionDescend
    BY <1>1, <2>1, DescendFact DEF RegionDescend, Others
  <2>2. CASE SkipDescent
    BY <1>1, <2>2, WalkFact, SearchAssumption DEF SkipDescent, Others, regionVars, QuietInv,
       MethodsTypeOK, BaseTypeOK
  <2>. QED BY <2>1, <2>2
<1>3. BaseTypeOK'
  BY <1>1, <1>2 DEF MethodsTypeOK, BaseTypeOK, query
<1>4. MethodsTypeOK' /\ QuietInv'
  BY <1>1, <1>2, <1>3 DEF MethodsTypeOK, QuietInv, query, beamVars, navixVars, regionVars
<1>5. /\ pc' = "descend" /\ uq' = {} /\ vis' = {} /\ bfs' = {} /\ scan' = {} /\ results' = {}
  BY <1>1, <1>2 DEF QuietInv, regionVars
<1>6. MetInv' /\ SettledInv' /\ NeighbourInv' /\ OwnKeys'
  BY <1>2, <1>5 DEF MetInv, SettledInv, NeighbourInv, OwnKeys, Known, Queued
<1>. QED BY <1>1, <1>2, <1>4, <1>6 DEF WalkInv

LEMMA StartStep ==
    ASSUME WalkInv, alg = "region", RegionStart, Others
    PROVE  WalkInv' /\ UNCHANGED query /\ pc' # "done"
<1>1. /\ pc = "descend" /\ pc' = "pop" /\ results' = Considered({cur}) /\ uq' = Own({cur})
      /\ UNCHANGED <<query, level, cur, measured, answer, plan, key, vis, bfs, scan, hopped>>
  BY DEF RegionStart, Arrived
<1>2. MethodsTypeOK /\ QuietInv
  BY DEF WalkInv
<1>3. /\ results = {} /\ vis = {} /\ bfs = {} /\ scan = {} /\ measured \subseteq OnUpperLayers
      /\ answer = {}
  BY <1>1, <1>2 DEF QuietInv
<1>4. /\ QueryOK /\ K \in Nat /\ measured \in SUBSET Pts /\ cur \in Pts /\ cur \in measured
      /\ key \in Nat /\ hopped \in SUBSET Pts /\ Cardinality({}) = 0
  BY <1>2, WalkFact
<1>5. {cur} \in SUBSET Pts
  BY <1>4
<1>6. /\ results' \subseteq results \cup ({cur} \cap sat) /\ results' \subseteq sat
      /\ Cardinality(results') <= ef
      /\ \A p \in Pts : Settled(p) \/ p \in {cur} \cap sat => Settled(p)'
  BY <1>1, <1>2, <1>5, ConsiderFact
<1>7. /\ Own({cur}) \in SUBSET (Nat \X Pts)
      /\ \A e \in Own({cur}) : e[2] \in {cur} /\ e[1] = Dist[e[2]]
      /\ \A p \in {cur} : <<Dist[p], p>> \in Own({cur})
  BY <1>5, OwnFact
<1>8. MethodsTypeOK' /\ QuietInv'
  BY <1>1, <1>2, <1>3, <1>4, <1>6, <1>7, RegionTypes DEF Others
<1>9. Queued(cur)' /\ \A p : Queued(p)' => p = cur
  BY <1>1, <1>7 DEF Queued
<1>10. MetInv'
  BY <1>1, <1>3, <1>9 DEF MetInv, Known
<1>11. SettledInv'
  <2>1. ASSUME NEW p \in sat', p \in vis' \/ Queued(p)' PROVE Settled(p)'
    <3>1. p = cur /\ p \in {cur} \cap sat /\ p \in Pts
      BY <1>1, <1>3, <1>4, <1>9, <2>1 DEF query
    <3>. QED BY <1>6, <3>1
  <2>. QED BY <2>1 DEF SettledInv
<1>12. NeighbourInv'
  BY <1>1, <1>3 DEF NeighbourInv
<1>13. OwnKeys'
  BY <1>1, <1>3, <1>6, <1>7 DEF OwnKeys
<1>. QED BY <1>1, <1>8, <1>10, <1>11, <1>12, <1>13 DEF WalkInv

\* A point is popped: what it means for the heap.
LEMMA PopFact ==
    ASSUME MethodsTypeOK, alg = "region", UNCHANGED query, NEW e \in Top,
           NEW S \in SUBSET Pts, results' = Considered(OnPop(e[2]) \cup S)
    PROVE  /\ e \in uq /\ e[1] \in Nat /\ e[2] \in Pts /\ \A f \in uq : e[1] <= f[1]
           /\ OnPop(e[2]) \in SUBSET {e[2]}
           /\ results' \subseteq results \cup ((OnPop(e[2]) \cup S) \cap sat) /\ results' \subseteq sat
           /\ Cardinality(results') <= ef
           /\ \A p \in Pts : Settled(p) \/ p \in (OnPop(e[2]) \cup S) \cap sat => Settled(p)'
           /\ SettledInv => (e[2] \in sat /\ BestFirst(e[2]) => Settled(e[2])')
<1>1. e \in uq /\ \A f \in uq : e[1] <= f[1]
  BY DEF Top
<1>2. e[1] \in Nat /\ e[2] \in Pts
  BY <1>1, WalkFact
<1>3. OnPop(e[2]) \in SUBSET {e[2]}
  BY DEF OnPop
<1>. DEFINE T == OnPop(e[2]) \cup S
<1>4. T \in SUBSET Pts
  BY <1>2, <1>3
<1>5. /\ results' \subseteq results \cup (T \cap sat) /\ results' \subseteq sat
      /\ Cardinality(results') <= ef
      /\ \A p \in Pts : Settled(p) \/ p \in T \cap sat => Settled(p)'
  <2>. HIDE DEF T
  <2>1. results' = Considered(T)
    BY DEF T
  <2>. QED BY <1>4, <2>1, ConsiderFact
<1>6. ASSUME SettledInv, e[2] \in sat, BestFirst(e[2]) PROVE Settled(e[2])'
  <2>1. CASE e[2] \in measured
    <3>1. Settled(e[2])
      BY <1>1, <1>6, <2>1 DEF SettledInv, Queued
    <3>. QED BY <1>2, <1>5, <3>1
  <2>2. CASE e[2] \notin measured
    <3>1. e[2] \in T \cap sat
      BY <1>6, <2>2 DEF OnPop
    <3>. QED BY <1>2, <1>5, <3>1
  <2>. QED BY <2>1, <2>2
<1>. QED BY <1>1, <1>2, <1>3, <1>5, <1>6

LEMMA SeenStep ==
    ASSUME WalkInv, alg = "region", PopSeen \/ PopFlood, Others
    PROVE  WalkInv' /\ UNCHANGED query /\ pc' # "done"
<1>0. /\ MethodsTypeOK /\ QuietInv /\ MetInv /\ SettledInv /\ NeighbourInv /\ OwnKeys
  BY DEF WalkInv
<1>1. PICK e \in Top :
        /\ Pop(e) /\ uq' = uq \ {e} /\ scan' = scan
        /\ \/ pc' = "pop" /\ Seen(e[2]) /\ UNCHANGED <<answer, vis, bfs>>
           \/ pc' = "flood" /\ ~ BestFirst(e[2]) /\ bfs' = {e[2]} /\ UNCHANGED <<answer, vis>>
  <2>1. PopSeen => pc = "pop" /\ pc' = pc
    BY DEF PopSeen, Pop
  <2>. QED BY <2>1 DEF PopSeen, PopFlood
<1>. DEFINE x == e[2]
<1>2. /\ pc = "pop" /\ key' = e[1] /\ measured' = measured \cup OnPop(x)
      /\ results' = Considered(OnPop(x) \cup {})
      /\ UNCHANGED <<query, level, cur, plan, hopped>>
  BY <1>1 DEF Pop
<1>3. /\ QueryOK /\ K \in Nat /\ measured \in SUBSET Pts /\ results \in SUBSET measured
      /\ sat \in SUBSET Pts /\ uq \in SUBSET (Nat \X Pts) /\ vis \in SUBSET Pts
      /\ scan \in SUBSET Pts /\ hopped \in SUBSET Pts /\ Cardinality({}) = 0
      /\ nbr \in [Pts -> SUBSET Pts]
  BY <1>0, WalkFact
<1>4. /\ e \in uq /\ e[1] \in Nat /\ x \in Pts /\ OnPop(x) \in SUBSET {x}
      /\ results' \subseteq results \cup ((OnPop(x) \cup {}) \cap sat) /\ results' \subseteq sat
      /\ Cardinality(results') <= ef
      /\ \A p \in Pts : Settled(p) \/ p \in (OnPop(x) \cup {}) \cap sat => Settled(p)'
  <2>1. {} \in SUBSET Pts
    OBVIOUS
  <2>. QED BY <1>0, <1>2, <2>1, PopFact
<1>5. answer = {} /\ bfs = {} /\ scan = {} /\ answer' = {}
  BY <1>0, <1>1, <1>2 DEF QuietInv, MetInv
<1>6. bfs' \in SUBSET Pts /\ pc' \in {"pop", "flood"} /\ vis' = vis
  BY <1>1, <1>4, <1>5
<1>7. x \in vis' \/ x \in bfs'
  BY <1>1 DEF Seen
<1>. HIDE DEF x
<1>8. MethodsTypeOK' /\ QuietInv'
  BY <1>0, <1>1, <1>2, <1>3, <1>4, <1>5, <1>6, RegionTypes DEF Others
<1>9. \A p : Queued(p) => Queued(p)' \/ p = x
  BY <1>1 DEF Queued, x
<1>10. \A p : Queued(p)' => Queued(p)
  BY <1>1 DEF Queued
<1>11. \A p : Known(p) => Known(p)'
  BY <1>5, <1>6, <1>7, <1>9 DEF Known
<1>12. MetInv'
  <2>1. ASSUME NEW p \in measured' PROVE p \in OnUpperLayers \/ Known(p)'
    <3>1. p \in measured \/ p = x
      BY <1>2, <1>4, <2>1
    <3>2. p \in measured => p \in OnUpperLayers \/ Known(p)
      BY <1>0, <1>2 DEF MetInv
    <3>. QED BY <1>7, <1>11, <3>1, <3>2 DEF Known
  <2>2. Known(cur)'
    BY <1>0, <1>2, <1>11 DEF MetInv, Known, Queued
  <2>3. pc' = "pop" => bfs' = {} /\ scan' = {}
    BY <1>1, <1>5
  <2>. QED BY <1>6, <2>1, <2>2, <2>3 DEF MetInv
<1>13. SettledInv'
  <2>1. ASSUME NEW p \in sat', p \in vis' \/ (p \in measured' /\ Queued(p)') PROVE Settled(p)'
    <3>1. p \in sat /\ p \in Pts /\ (p \in vis \/ (p \in measured' /\ Queued(p)))
      BY <1>2, <1>3, <1>6, <1>10, <2>1 DEF query
    <3>2. CASE p \in OnPop(x)
      BY <1>4, <3>1, <3>2
    <3>3. CASE p \notin OnPop(x)
      <4>1. p \in vis \/ (p \in measured /\ Queued(p))
        BY <1>2, <3>1, <3>3
      <4>2. Settled(p)
        BY <1>0, <3>1, <4>1 DEF SettledInv
      <4>. QED BY <1>4, <3>1, <4>2
    <3>. QED BY <3>2, <3>3
  <2>. QED BY <2>1 DEF SettledInv
<1>14. NeighbourInv'
  <2>1. Off' = Off
    BY <1>2, OffKept
  <2>2. plan.boundary # "STRUCT" => \A y \in vis : \A q \in nbr[y] \ Off : Known(q) \/ q \in scan
    BY <1>0, <1>2 DEF NeighbourInv
  <2>. QED BY <1>1, <1>2, <1>6, <1>11, <2>1, <2>2 DEF NeighbourInv, query
<1>15. OwnKeys'
  <2>. SUFFICES ASSUME plan.boundary # "LAZY"
                PROVE  /\ \A f \in uq' : f[2] \in sat => f[1] = Dist[f[2]]
                       /\ \A p \in results' : p \in vis' \/ p \in bfs' \/ <<Dist[p], p>> \in uq'
                       /\ plan.gated = {} =>
                            \A y \in vis' : \A q \in nbr[y] \cap sat :
                                Settled(q)' \/ q \in bfs' \/ q \in scan'
    BY <1>2 DEF OwnKeys, query
  <2>1. /\ \A f \in uq : f[2] \in sat => f[1] = Dist[f[2]]
        /\ \A p \in results : p \in vis \/ p \in bfs \/ <<Dist[p], p>> \in uq
        /\ plan.gated = {} =>
             \A y \in vis : \A q \in nbr[y] \cap sat : Settled(q) \/ q \in bfs \/ q \in scan
    BY <1>0, <1>2 DEF OwnKeys
  <2>2. ASSUME NEW p \in results' PROVE p \in vis' \/ p \in bfs' \/ <<Dist[p], p>> \in uq'
    <3>1. p = x \/ p \in results
      BY <1>4
    <3>2. <<Dist[p], p>> = e => p = x
      BY DEF x
    <3>. QED BY <1>1, <1>5, <1>6, <1>7, <2>1, <3>1, <3>2
  <2>3. ASSUME plan.gated = {}, NEW y \in vis', NEW q \in nbr[y] \cap sat
        PROVE  Settled(q)'
    <3>1. Settled(q) /\ q \in Pts
      BY <1>3, <1>5, <1>6, <2>1, <2>3
    <3>. QED BY <1>4, <3>1
  <2>. QED BY <1>1, <2>1, <2>2, <2>3
<1>. QED BY <1>2, <1>6, <1>8, <1>12, <1>13, <1>14, <1>15 DEF WalkInv

LEMMA BestStep ==
    ASSUME WalkInv, alg = "region", PopBest, Others
    PROVE  WalkInv' /\ UNCHANGED query /\ pc' # "done"
<1>0. /\ MethodsTypeOK /\ QuietInv /\ MetInv /\ SettledInv /\ NeighbourInv /\ OwnKeys
  BY DEF WalkInv
<1>1. PICK e \in Top :
        /\ BestFirst(e[2]) /\ key' = e[1]
        /\ measured' = measured \cup {e[2]} \cup nbr[e[2]]
        /\ results' = Considered(OnPop(e[2]) \cup nbr[e[2]])
        /\ vis' = vis \cup {e[2]}
        /\ uq' = (uq \ {e}) \cup Own(nbr[e[2]])
  BY DEF PopBest
<1>. DEFINE x == e[2]
<1>2. pc = "pop" /\ UNCHANGED <<query, pc, level, cur, answer, plan, bfs, scan, hopped>>
  BY DEF PopBest
<1>3. /\ QueryOK /\ K \in Nat /\ measured \in SUBSET Pts /\ results \in SUBSET measured
      /\ sat \in SUBSET Pts /\ uq \in SUBSET (Nat \X Pts) /\ vis \in SUBSET Pts
      /\ scan \in SUBSET Pts /\ bfs \in SUBSET Pts /\ hopped \in SUBSET Pts /\ Cardinality({}) = 0
      /\ nbr \in [Pts -> SUBSET Pts]
  BY <1>0, WalkFact
<1>4. x \in Pts
  BY <1>3 DEF Top
<1>. DEFINE N == nbr[x]
<1>5. N \in SUBSET Pts
  BY <1>3, <1>4
<1>6. /\ e \in uq /\ e[1] \in Nat /\ OnPop(x) \in SUBSET {x}
      /\ results' \subseteq results \cup ((OnPop(x) \cup N) \cap sat) /\ results' \subseteq sat
      /\ Cardinality(results') <= ef
      /\ \A p \in Pts : Settled(p) \/ p \in (OnPop(x) \cup N) \cap sat => Settled(p)'
      /\ x \in sat => Settled(x)'
  <2>. HIDE DEF N
  <2>1. results' = Considered(OnPop(e[2]) \cup N)
    BY <1>1 DEF N
  <2>. QED BY <1>0, <1>1, <1>2, <1>5, <2>1, PopFact
<1>7. /\ Own(N) \in SUBSET (Nat \X Pts)
      /\ \A f \in Own(N) : f[2] \in N /\ f[1] = Dist[f[2]]
      /\ \A p \in N : <<Dist[p], p>> \in Own(N)
  BY <1>5, OwnFact
<1>8. answer = {} /\ bfs = {} /\ scan = {}
  BY <1>0, <1>2 DEF QuietInv, MetInv
<1>9. /\ measured' = measured \cup {x} \cup N /\ vis' = vis \cup {x}
      /\ uq' = (uq \ {e}) \cup Own(N)
  BY <1>1
<1>. HIDE DEF x, N
<1>10. results' \subseteq measured'
  BY <1>3, <1>6, <1>9
<1>11. MethodsTypeOK' /\ QuietInv'
  <2>1. /\ measured' \in SUBSET Pts /\ uq' \subseteq Nat \X Pts /\ key' \in Nat /\ vis' \in SUBSET Pts
        /\ bfs' \in SUBSET Pts /\ scan' \in SUBSET Pts /\ hopped' \in SUBSET Pts
        /\ measured \subseteq measured'
    BY <1>1, <1>2, <1>3, <1>4, <1>5, <1>6, <1>7, <1>9
  <2>. QED BY <1>0, <1>2, <1>3, <1>6, <1>8, <1>10, <2>1, RegionTypes DEF Others
<1>12. \A p : Queued(p) => Queued(p)' \/ p = x
  BY <1>9 DEF Queued, x
<1>13. \A p \in N : Queued(p)'
  <2>1. \A p \in N : <<Dist[p], p>> \in uq'
    BY <1>7, <1>9
  <2>2. \A p : <<Dist[p], p>>[2] = p
    OBVIOUS
  <2>. QED BY <2>1, <2>2 DEF Queued
<1>14. \A p : Queued(p)' => Queued(p) \/ p \in N
  BY <1>7, <1>9 DEF Queued
<1>15. \A p : Known(p) => Known(p)'
  BY <1>2, <1>9, <1>12 DEF Known
<1>16. MetInv'
  <2>1. ASSUME NEW p \in measured' PROVE p \in OnUpperLayers \/ Known(p)'
    <3>1. p \in measured \/ p = x \/ p \in N
      BY <1>9, <2>1
    <3>2. p \in measured => p \in OnUpperLayers \/ Known(p)
      BY <1>0, <1>2 DEF MetInv
    <3>. QED BY <1>9, <1>13, <1>15, <3>1, <3>2 DEF Known
  <2>2. Known(cur)'
    BY <1>0, <1>2, <1>15 DEF MetInv, Known, Queued
  <2>. QED BY <1>2, <1>8, <2>1, <2>2 DEF MetInv
<1>17. SettledInv'
  <2>1. ASSUME NEW p \in sat', p \in vis' \/ (p \in measured' /\ Queued(p)') PROVE Settled(p)'
    <3>1. p \in sat /\ p \in Pts
      BY <1>2, <1>3, <2>1 DEF query
    <3>2. CASE p = x
      BY <1>6, <3>1, <3>2
    <3>3. CASE p \in N
      BY <1>6, <3>1, <3>3
    <3>4. CASE p # x /\ p \notin N
      <4>1. p \in vis \/ (p \in measured /\ Queued(p))
        BY <1>9, <1>14, <2>1, <3>4
      <4>2. Settled(p)
        BY <1>0, <3>1, <4>1 DEF SettledInv
      <4>. QED BY <1>6, <3>1, <4>2
    <3>. QED BY <3>2, <3>3, <3>4
  <2>. QED BY <2>1 DEF SettledInv
<1>18. NeighbourInv'
  <2>1. Off' = Off
    BY <1>2, OffKept
  <2>2. plan.boundary # "STRUCT" => \A y \in vis : \A q \in nbr[y] \ Off : Known(q) \/ q \in scan
    BY <1>0, <1>2 DEF NeighbourInv
  <2>3. \A q \in nbr[x] : Known(q)'
    BY <1>13 DEF N, Known
  <2>. QED BY <1>2, <1>9, <1>15, <2>1, <2>2, <2>3 DEF NeighbourInv, query
<1>19. OwnKeys'
  <2>. SUFFICES ASSUME plan.boundary # "LAZY"
                PROVE  /\ \A f \in uq' : f[2] \in sat => f[1] = Dist[f[2]]
                       /\ \A p \in results' : p \in vis' \/ p \in bfs' \/ <<Dist[p], p>> \in uq'
                       /\ plan.gated = {} =>
                            \A y \in vis' : \A q \in nbr[y] \cap sat :
                                Settled(q)' \/ q \in bfs' \/ q \in scan'
    BY <1>2 DEF OwnKeys, query
  <2>1. /\ \A f \in uq : f[2] \in sat => f[1] = Dist[f[2]]
        /\ \A p \in results : p \in vis \/ p \in bfs \/ <<Dist[p], p>> \in uq
        /\ plan.gated = {} =>
             \A y \in vis : \A q \in nbr[y] \cap sat : Settled(q) \/ q \in bfs \/ q \in scan
    BY <1>0, <1>2 DEF OwnKeys
  <2>2. ASSUME NEW p \in results' PROVE p \in vis' \/ p \in bfs' \/ <<Dist[p], p>> \in uq'
    <3>1. p = x \/ p \in N \/ p \in results
      BY <1>6
    <3>2. <<Dist[p], p>> = e => p = x
      BY DEF x
    <3>. QED BY <1>7, <1>8, <1>9, <2>1, <3>1, <3>2
  <2>3. ASSUME plan.gated = {}, NEW y \in vis', NEW q \in nbr[y] \cap sat
        PROVE  Settled(q)'
    <3>1. CASE y = x
      <4>1. q \in (OnPop(x) \cup N) \cap sat /\ q \in Pts
        BY <1>3, <2>3, <3>1 DEF N
      <4>. QED BY <1>6, <4>1
    <3>2. CASE y # x
      <4>1. y \in vis
        BY <1>9, <3>2
      <4>2. Settled(q) /\ q \in Pts
        BY <1>3, <1>8, <2>1, <2>3, <4>1
      <4>. QED BY <1>6, <4>2
    <3>. QED BY <3>1, <3>2
  <2>. QED BY <1>7, <1>9, <2>1, <2>2, <2>3
<1>. QED BY <1>2, <1>11, <1>16, <1>17, <1>18, <1>19 DEF WalkInv

LEMMA FloodStep ==
    ASSUME WalkInv, alg = "region", FloodPoint \/ FloodEnd, Others
    PROVE  WalkInv' /\ UNCHANGED query /\ pc' # "done"
<1>0. /\ MethodsTypeOK /\ QuietInv /\ MetInv /\ SettledInv /\ NeighbourInv /\ OwnKeys
  BY DEF WalkInv
<1>1. /\ QueryOK /\ K \in Nat /\ measured \in SUBSET Pts /\ results \in SUBSET measured
      /\ sat \in SUBSET Pts /\ uq \in SUBSET (Nat \X Pts) /\ vis \in SUBSET Pts /\ key \in Nat
      /\ scan \in SUBSET Pts /\ bfs \in SUBSET Pts /\ hopped \in SUBSET Pts /\ Cardinality({}) = 0
      /\ nbr \in [Pts -> SUBSET Pts] /\ results \subseteq sat /\ Cardinality(results) <= ef
  BY <1>0, WalkFact
<1>2. /\ pc = "flood" /\ scan = {}
      /\ UNCHANGED <<query, level, cur, answer, plan, uq, key, hopped>>
  BY DEF FloodPoint, FloodEnd
<1>3. answer = {}
  BY <1>0, <1>2 DEF QuietInv
<1>4. CASE FloodPoint
  <2>1. PICK u \in bfs \ vis :
          /\ vis' = vis \cup {u} /\ results' = Considered({u})
          /\ measured' = measured \cup ({u} \cap sat)
          /\ bfs' = (bfs \cup {v \in nbr[u] : RegionOf[v] = RegionOf[u]}) \ vis'
          /\ scan' = nbr[u] \ {v \in nbr[u] : RegionOf[v] = RegionOf[u]}
    BY <1>4 DEF FloodPoint
  <2>2. pc' = "flood" /\ u \in Pts /\ nbr[u] \in SUBSET Pts
    BY <1>1, <1>2, <1>4 DEF FloodPoint
  <2>3. /\ results' \subseteq results \cup ({u} \cap sat) /\ results' \subseteq sat
        /\ Cardinality(results') <= ef
        /\ \A p \in Pts : Settled(p) \/ p \in {u} \cap sat => Settled(p)'
    <3>1. {u} \in SUBSET Pts
      BY <2>2
    <3>. QED BY <1>0, <1>2, <2>1, <3>1, ConsiderFact
  <2>4. MethodsTypeOK' /\ QuietInv'
    <3>1. /\ measured' \in SUBSET Pts /\ measured \subseteq measured' /\ vis' \in SUBSET Pts
          /\ bfs' \in SUBSET Pts /\ scan' \in SUBSET Pts /\ results' \subseteq measured'
      BY <1>1, <2>1, <2>2, <2>3
    <3>. QED BY <1>0, <1>1, <1>2, <1>3, <2>2, <2>3, <3>1, RegionTypes DEF Others
  <2>5. \A p : Queued(p)' <=> Queued(p)
    BY <1>2 DEF Queued
  <2>6. \A p : Known(p) => Known(p)'
    BY <2>1, <2>5 DEF Known
  <2>7. MetInv'
    <3>1. \A p \in measured' : p \in measured \/ p \in vis'
      BY <2>1
    <3>2. \A p \in measured : p \in OnUpperLayers \/ Known(p)
      BY <1>0, <1>2 DEF MetInv
    <3>3. Known(cur)
      BY <1>0, <1>2 DEF MetInv
    <3>4. Known(cur)'
      BY <1>2, <2>6, <3>3 DEF Known, Queued
    <3>. QED BY <2>2, <2>6, <3>1, <3>2, <3>4 DEF MetInv, Known
  <2>8. SettledInv'
    <3>1. ASSUME NEW p \in sat', p \in vis' \/ (p \in measured' /\ Queued(p)') PROVE Settled(p)'
      <4>1. p \in sat /\ p \in Pts
        BY <1>1, <1>2, <3>1 DEF query
      <4>2. CASE p = u
        BY <2>3, <4>1, <4>2
      <4>3. CASE p # u
        <5>1. Settled(p)
          BY <1>0, <2>1, <2>5, <3>1, <4>1, <4>3 DEF SettledInv
        <5>. QED BY <2>3, <4>1, <5>1
      <4>. QED BY <4>2, <4>3
    <3>. QED BY <3>1 DEF SettledInv
  <2>9. NeighbourInv'
    <3>1. Off' = Off
      BY <1>2, OffKept
    <3>2. plan.boundary # "STRUCT" => \A y \in vis : \A q \in nbr[y] \ Off : Known(q)
      BY <1>0, <1>2 DEF NeighbourInv
    <3>3. \A q \in nbr[u] : Known(q)' \/ q \in scan'
      BY <2>1 DEF Known
    <3>. QED BY <1>2, <2>1, <2>6, <3>1, <3>2, <3>3 DEF NeighbourInv, query
  <2>10. OwnKeys'
    <3>. SUFFICES ASSUME plan.boundary # "LAZY"
                  PROVE  /\ \A f \in uq' : f[2] \in sat => f[1] = Dist[f[2]]
                         /\ \A p \in results' : p \in vis' \/ p \in bfs' \/ <<Dist[p], p>> \in uq'
                         /\ plan.gated = {} =>
                              \A y \in vis' : \A q \in nbr[y] \cap sat :
                                  Settled(q)' \/ q \in bfs' \/ q \in scan'
      BY <1>2 DEF OwnKeys, query
    <3>1. /\ \A f \in uq : f[2] \in sat => f[1] = Dist[f[2]]
          /\ \A p \in results : p \in vis \/ p \in bfs \/ <<Dist[p], p>> \in uq
          /\ plan.gated = {} =>
               \A y \in vis : \A q \in nbr[y] \cap sat : Settled(q) \/ q \in bfs \/ q \in scan
      BY <1>0, <1>2 DEF OwnKeys
    <3>2. \A p \in bfs : p \in bfs' \/ p \in vis'
      BY <2>1
    <3>3. \A p \in results' : p \in vis' \/ p \in bfs' \/ <<Dist[p], p>> \in uq'
      BY <1>2, <2>1, <2>3, <3>1, <3>2
    <3>4. ASSUME plan.gated = {}, NEW y \in vis', NEW q \in nbr[y] \cap sat
          PROVE  Settled(q)' \/ q \in bfs' \/ q \in scan'
      <4>0. q \in Pts /\ y \in Pts
        BY <1>1, <2>1, <2>2, <3>4
      <4>1. (y \in vis /\ Settled(q)) \/ q \in bfs' \/ q \in vis' \/ q \in scan'
        BY <1>2, <2>1, <3>1, <3>2, <3>4
      <4>2. q \in vis' => Settled(q)'
        BY <1>2, <2>8, <3>4 DEF SettledInv, query
      <4>. QED BY <2>3, <4>0, <4>1, <4>2
    <3>. QED BY <1>2, <3>1, <3>3, <3>4
  <2>. QED BY <1>2, <2>2, <2>4, <2>7, <2>8, <2>9, <2>10 DEF WalkInv
<1>5. CASE FloodEnd
  <2>1. /\ bfs \subseteq vis /\ pc' = "pop" /\ bfs' = {}
        /\ UNCHANGED <<measured, results, vis, scan>>
    BY <1>5 DEF FloodEnd
  <2>2. \A p : Settled(p)' = Settled(p)
    BY <1>2, <2>1 DEF Settled, Admits, Full, Worst, query
  <2>3. \A p : Known(p)' <=> Known(p)
    BY <1>2, <2>1 DEF Known, Queued
  <2>4. MethodsTypeOK' /\ QuietInv'
    BY <1>0, <1>1, <1>2, <1>3, <2>1, RegionTypes DEF Others
  <2>5. MetInv'
    <3>1. Known(cur) /\ \A p \in measured : p \in OnUpperLayers \/ Known(p)
      BY <1>0, <1>2 DEF MetInv
    <3>2. Known(cur)'
      BY <1>2, <2>3, <3>1 DEF Known, Queued
    <3>. QED BY <1>2, <2>1, <2>3, <3>1, <3>2 DEF MetInv
  <2>6. SettledInv'
    <3>1. \A p : Queued(p)' <=> Queued(p)
      BY <1>2 DEF Queued
    <3>. QED BY <1>0, <1>2, <2>1, <2>2, <3>1 DEF SettledInv, query
  <2>7. NeighbourInv'
    <3>1. Off' = Off
      BY <1>2, OffKept
    <3>. QED BY <1>0, <1>2, <2>1, <2>3, <3>1 DEF NeighbourInv, query
  <2>8. OwnKeys'
    <3>1. \A q \in sat : q \in bfs => Settled(q)
      BY <1>0, <2>1 DEF SettledInv
    <3>. QED BY <1>0, <1>2, <2>1, <2>2, <3>1 DEF OwnKeys, query
  <2>. QED BY <1>2, <2>1, <2>4, <2>5, <2>6, <2>7, <2>8 DEF WalkInv
<1>. QED BY <1>4, <1>5

\* What handle_boundary does, one way at a time.
LEMMA CrossFact ==
    ASSUME plan \in Plan, NEW v, Cross(v)
    PROVE  \/ Shut(v) /\ UNCHANGED <<measured, results, uq, hopped>>
           \/ /\ plan.boundary = "EAGER" \/ v \in sat
              /\ plan.boundary # "LAZY" /\ QueueOwn(v)
           \/ /\ plan.boundary = "LAZY" \/ (plan.boundary = "GATED" /\ v \notin sat)
              /\ QueueProxy(v)
           \/ plan.boundary = "STRUCT" /\ v \notin sat /\ SearchThrough(v)
<1>1. plan.boundary \in {"EAGER", "LAZY", "GATED", "STRUCT"}
  BY DEF Plan
<1>2. CASE Shut(v)
  BY <1>2 DEF Cross
<1>3. CASE ~ Shut(v) /\ plan.boundary = "EAGER"
  BY <1>3 DEF Cross
<1>4. CASE ~ Shut(v) /\ plan.boundary = "LAZY"
  BY <1>4 DEF Cross
<1>5. CASE ~ Shut(v) /\ plan.boundary \notin {"EAGER", "LAZY"}
  <2>1. IF v \in sat THEN QueueOwn(v)
        ELSE IF plan.boundary = "GATED" THEN QueueProxy(v) ELSE SearchThrough(v)
    BY <1>5 DEF Cross
  <2>. QED BY <1>1, <1>5, <2>1
<1>. QED BY <1>1, <1>2, <1>3, <1>4, <1>5

\* A crossing queues points that it measures and considers, under their own
\* distance, or one point that it does not, under another key.
LEMMA CrossStep ==
    ASSUME WalkInv, alg = "region", UNCHANGED <<query, plan, key>>, NEW v \in Pts, Cross(v)
    PROVE  \E S \in SUBSET Pts, P \in SUBSET Pts :
             /\ measured' = measured \cup S /\ results' = Considered(S)
             /\ uq' = (uq \cup Own(S)) \cup {<<key, p>> : p \in P}
             /\ hopped' \in SUBSET Pts
             /\ P \cap measured = {} /\ (plan.boundary # "LAZY" => P \cap sat = {})
             /\ \/ v \in S \/ v \in P \/ Shut(v) \/ plan.boundary = "STRUCT"
                \/ v \in measured /\ (plan.boundary = "LAZY" \/ (plan.boundary = "GATED" /\ v \notin sat))
             /\ plan.boundary # "LAZY" /\ v \in sat => v \in S \/ Shut(v)
<1>0. MethodsTypeOK
  BY DEF WalkInv
<1>1. /\ QueryOK /\ plan \in Plan /\ measured \in SUBSET Pts /\ hopped \in SUBSET Pts
      /\ results \in SUBSET Pts /\ ef \in Nat /\ Cardinality(results) <= ef
  BY <1>0, WalkFact
<1>2. Considered({}) = results /\ Own({}) = {}
  <2>1. results \cup ({} \cap sat) = results
    OBVIOUS
  <2>2. Nearest(ef, results) = results
    BY <1>1, NearestCount
  <2>. QED BY <2>1, <2>2 DEF Considered, Own
<1>3. CASE Shut(v) /\ UNCHANGED <<measured, results, uq, hopped>>
  <2>1. /\ measured' = measured \cup {} /\ results' = Considered({})
        /\ uq' = (uq \cup Own({})) \cup {<<key, p>> : p \in {}}
    BY <1>2, <1>3
  <2>2. {} \in SUBSET Pts /\ {} \cap measured = {} /\ {} \cap sat = {}
    OBVIOUS
  <2>. QED BY <1>1, <1>3, <2>1, <2>2
<1>4. CASE /\ plan.boundary = "EAGER" \/ v \in sat
           /\ plan.boundary # "LAZY" /\ QueueOwn(v)
  <2>1. /\ measured' = measured \cup {v} /\ results' = Considered({v}) /\ hopped' = hopped
        /\ uq' = (uq \cup Own({v})) \cup {<<key, p>> : p \in {}}
    BY <1>4 DEF QueueOwn
  <2>2. {v} \in SUBSET Pts /\ {} \in SUBSET Pts /\ {} \cap measured = {} /\ {} \cap sat = {} /\ v \in {v}
    OBVIOUS
  <2>. QED BY <1>1, <2>1, <2>2
<1>5. CASE /\ plan.boundary = "LAZY" \/ (plan.boundary = "GATED" /\ v \notin sat)
           /\ QueueProxy(v)
  <2>. DEFINE P == IF v \in measured THEN {} ELSE {v}
  <2>1. /\ measured' = measured \cup {} /\ results' = Considered({}) /\ hopped' = hopped
        /\ uq' = (uq \cup Own({})) \cup {<<key, p>> : p \in P}
    <3>1. CASE v \in measured
      BY <1>2, <1>5, <3>1 DEF QueueProxy
    <3>2. CASE v \notin measured
      BY <1>2, <1>5, <3>2 DEF QueueProxy
    <3>. QED BY <3>1, <3>2
  <2>2. /\ {} \in SUBSET Pts /\ P \in SUBSET Pts /\ P \cap measured = {}
        /\ v \in P \/ v \in measured
        /\ plan.boundary # "LAZY" => P \cap sat = {}
    BY <1>5
  <2>. HIDE DEF P
  <2>. QED BY <1>1, <1>5, <2>1, <2>2
<1>6. CASE plan.boundary = "STRUCT" /\ v \notin sat /\ SearchThrough(v)
  <2>1. PICK new : /\ new = IF v \in hopped THEN {} ELSE Rings(v) \ hopped
                   /\ hopped' = hopped \cup new /\ measured' = measured \cup (new \cap sat)
                   /\ results' = Considered(new) /\ uq' = uq \cup Own(new \cap sat)
    BY <1>6 DEF SearchThrough
  <2>2. new \in SUBSET Pts
    BY <1>1, <2>1, RingsFact
  <2>3. Considered(new) = Considered(new \cap sat)
    <3>1. results \cup (new \cap sat) = results \cup ((new \cap sat) \cap sat)
      OBVIOUS
    <3>. QED BY <3>1 DEF Considered
  <2>. DEFINE S == new \cap sat
  <2>4. /\ measured' = measured \cup S /\ results' = Considered(S)
        /\ uq' = (uq \cup Own(S)) \cup {<<key, p>> : p \in {}}
        /\ hopped' \in SUBSET Pts /\ S \in SUBSET Pts
    BY <1>1, <2>1, <2>2, <2>3
  <2>5. {} \in SUBSET Pts /\ {} \cap measured = {} /\ {} \cap sat = {}
    OBVIOUS
  <2>. HIDE DEF S
  <2>. QED BY <1>6, <2>4, <2>5
<1>. QED BY <1>1, <1>3, <1>4, <1>5, <1>6, CrossFact

LEMMA ScanStep ==
    ASSUME WalkInv, alg = "region", ScanBorder, Others
    PROVE  WalkInv' /\ UNCHANGED query /\ pc' # "done"
<1>0. /\ MethodsTypeOK /\ QuietInv /\ MetInv /\ SettledInv /\ NeighbourInv /\ OwnKeys
  BY DEF WalkInv
<1>1. /\ QueryOK /\ K \in Nat /\ measured \in SUBSET Pts /\ results \in SUBSET measured
      /\ sat \in SUBSET Pts /\ uq \in SUBSET (Nat \X Pts) /\ vis \in SUBSET Pts /\ key \in Nat
      /\ scan \in SUBSET Pts /\ bfs \in SUBSET Pts /\ Cardinality({}) = 0
      /\ nbr \in [Pts -> SUBSET Pts]
  BY <1>0, WalkFact
<1>2. /\ pc = "flood" /\ pc' = "flood"
      /\ UNCHANGED <<query, level, cur, answer, plan, key, vis, bfs>>
  BY DEF ScanBorder
<1>3. PICK v \in scan : Cross(v) /\ scan' = scan \ {v}
  BY DEF ScanBorder
<1>4. v \in Pts /\ answer = {}
  BY <1>0, <1>1, <1>2 DEF QuietInv
<1>5. PICK S \in SUBSET Pts, P \in SUBSET Pts :
        /\ measured' = measured \cup S /\ results' = Considered(S)
        /\ uq' = (uq \cup Own(S)) \cup {<<key, p>> : p \in P}
        /\ hopped' \in SUBSET Pts
        /\ P \cap measured = {} /\ (plan.boundary # "LAZY" => P \cap sat = {})
        /\ \/ v \in S \/ v \in P \/ Shut(v) \/ plan.boundary = "STRUCT"
           \/ v \in measured /\ (plan.boundary = "LAZY" \/ (plan.boundary = "GATED" /\ v \notin sat))
        /\ plan.boundary # "LAZY" /\ v \in sat => v \in S \/ Shut(v)
  BY <1>2, <1>3, <1>4, CrossStep
<1>6. /\ results' \subseteq results \cup (S \cap sat) /\ results' \subseteq sat
      /\ Cardinality(results') <= ef
      /\ \A p \in Pts : Settled(p) \/ p \in S \cap sat => Settled(p)'
  BY <1>0, <1>2, <1>5, ConsiderFact
<1>7. /\ Own(S) \in SUBSET (Nat \X Pts)
      /\ \A f \in Own(S) : f[2] \in S /\ f[1] = Dist[f[2]]
      /\ \A p \in S : <<Dist[p], p>> \in Own(S)
  BY OwnFact
<1>8. MethodsTypeOK' /\ QuietInv'
  <2>1. /\ measured' \in SUBSET Pts /\ measured \subseteq measured' /\ results' \subseteq measured'
        /\ uq' \subseteq Nat \X Pts /\ key' \in Nat /\ vis' \in SUBSET Pts /\ bfs' \in SUBSET Pts
        /\ scan' \in SUBSET Pts
    BY <1>1, <1>2, <1>3, <1>5, <1>6, <1>7
  <2>. QED BY <1>0, <1>1, <1>2, <1>4, <1>5, <1>6, <2>1, RegionTypes DEF Others
<1>9. \A p : Queued(p) => Queued(p)'
  BY <1>5 DEF Queued
<1>10. \A p : p \in S \/ p \in P => Queued(p)'
  <2>1. \A p \in S : <<Dist[p], p>> \in uq' /\ <<Dist[p], p>>[2] = p
    BY <1>5, <1>7
  <2>2. \A p \in P : <<key, p>> \in uq' /\ <<key, p>>[2] = p
    BY <1>5
  <2>. QED BY <2>1, <2>2 DEF Queued
<1>11. \A p : Queued(p)' => Queued(p) \/ p \in S \/ p \in P
  <2>1. ASSUME NEW f \in uq' PROVE f \in uq \/ f[2] \in S \/ f[2] \in P
    BY <1>5, <1>7
  <2>. QED BY <2>1 DEF Queued
<1>12. \A p : Known(p) => Known(p)'
  BY <1>2, <1>9 DEF Known
<1>13. MetInv'
  <2>1. Known(cur) /\ \A p \in measured : p \in OnUpperLayers \/ Known(p)
    BY <1>0, <1>2 DEF MetInv
  <2>2. Known(cur)'
    BY <1>2, <1>12, <2>1 DEF Known, Queued
  <2>3. ASSUME NEW p \in measured' PROVE p \in OnUpperLayers \/ Known(p)'
    <3>1. p \in measured \/ p \in S
      BY <1>5
    <3>. QED BY <1>10, <1>12, <2>1, <3>1 DEF Known
  <2>. QED BY <1>2, <2>2, <2>3 DEF MetInv
<1>14. SettledInv'
  <2>1. ASSUME NEW p \in sat', p \in vis' \/ (p \in measured' /\ Queued(p)') PROVE Settled(p)'
    <3>1. p \in sat /\ p \in Pts
      BY <1>1, <1>2, <2>1 DEF query
    <3>2. CASE p \in S
      BY <1>6, <3>1, <3>2
    <3>3. CASE p \notin S
      <4>1. p \in vis \/ (p \in measured /\ Queued(p))
        BY <1>2, <1>5, <1>11, <2>1, <3>3
      <4>2. Settled(p)
        BY <1>0, <3>1, <4>1 DEF SettledInv
      <4>. QED BY <1>6, <3>1, <4>2
    <3>. QED BY <3>2, <3>3
  <2>. QED BY <2>1 DEF SettledInv
<1>15. NeighbourInv'
  <2>1. Off' = Off
    BY <1>2, OffKept
  <2>2. plan.boundary # "STRUCT" => \A y \in vis : \A q \in nbr[y] \ Off : Known(q) \/ q \in scan
    BY <1>0, <1>2 DEF NeighbourInv
  <2>3. ASSUME plan.boundary # "STRUCT", v \notin Off PROVE Known(v)'
    <3>1. CASE v \in S \/ v \in P
      BY <1>10, <3>1 DEF Known
    <3>2. CASE Shut(v)
      <4>1. v \in vis \/ v \in GatedOff
        BY <1>4, <3>2 DEF Shut, GatedOff
      <4>. QED BY <1>2, <2>3, <4>1 DEF Off, Known
    <3>3. CASE v \in measured /\ (plan.boundary = "LAZY" \/ (plan.boundary = "GATED" /\ v \notin sat))
      <4>1. v \in OnUpperLayers => v \in Overlooked
        BY <3>3 DEF Overlooked
      <4>2. v \notin OnUpperLayers
        BY <2>3, <4>1 DEF Off
      <4>3. Known(v)
        BY <1>0, <1>2, <3>3, <4>2 DEF MetInv
      <4>. QED BY <1>12, <4>3
    <3>. QED BY <1>5, <2>3, <3>1, <3>2, <3>3
  <2>4. ASSUME plan.boundary # "STRUCT", NEW y \in vis, NEW q \in nbr[y] \ Off
        PROVE  Known(q)' \/ q \in scan'
    <3>1. Known(q) \/ q \in scan
      BY <2>2, <2>4
    <3>2. q \in scan => q \in scan' \/ q = v
      BY <1>3
    <3>. QED BY <1>12, <2>3, <2>4, <3>1, <3>2
  <2>. QED BY <1>2, <2>1, <2>4 DEF NeighbourInv, query
<1>16. OwnKeys'
  <2>. SUFFICES ASSUME plan.boundary # "LAZY"
                PROVE  /\ \A f \in uq' : f[2] \in sat => f[1] = Dist[f[2]]
                       /\ \A p \in results' : p \in vis' \/ p \in bfs' \/ <<Dist[p], p>> \in uq'
                       /\ plan.gated = {} =>
                            \A y \in vis' : \A q \in nbr[y] \cap sat :
                                Settled(q)' \/ q \in bfs' \/ q \in scan'
    BY <1>2 DEF OwnKeys, query
  <2>1. /\ \A f \in uq : f[2] \in sat => f[1] = Dist[f[2]]
        /\ \A p \in results : p \in vis \/ p \in bfs \/ <<Dist[p], p>> \in uq
        /\ plan.gated = {} =>
             \A y \in vis : \A q \in nbr[y] \cap sat : Settled(q) \/ q \in bfs \/ q \in scan
    BY <1>0, <1>2 DEF OwnKeys
  <2>2. ASSUME NEW f \in uq', f[2] \in sat PROVE f[1] = Dist[f[2]]
    <3>1. f \in uq \/ f \in Own(S) \/ \E p \in P : f = <<key, p>>
      BY <1>5
    <3>2. \A p \in P : f = <<key, p>> => f[2] \in P
      OBVIOUS
    <3>. QED BY <1>5, <1>7, <2>1, <2>2, <3>1, <3>2
  <2>3. \A p \in results' : p \in vis' \/ p \in bfs' \/ <<Dist[p], p>> \in uq'
    BY <1>2, <1>5, <1>6, <1>7, <2>1
  <2>4. ASSUME plan.gated = {}, NEW y \in vis', NEW q \in nbr[y] \cap sat
        PROVE  Settled(q)' \/ q \in bfs' \/ q \in scan'
    <3>1. y \in vis /\ q \in Pts
      BY <1>1, <1>2, <2>4
    <3>2. Settled(q) \/ q \in bfs \/ q \in scan
      BY <2>1, <2>4, <3>1
    <3>3. CASE q \in scan /\ q = v
      <4>1. q \in S \/ q \in vis
        BY <1>5, <2>4, <3>3 DEF Shut
      <4>2. q \in vis => Settled(q)
        BY <1>0, <2>4 DEF SettledInv
      <4>. QED BY <1>6, <2>4, <3>1, <4>1, <4>2
    <3>. QED BY <1>2, <1>3, <1>6, <3>1, <3>2, <3>3
  <2>. QED BY <2>2, <2>3, <2>4
<1>. QED BY <1>2, <1>8, <1>13, <1>14, <1>15, <1>16 DEF WalkInv

\* The traversal stops on a point no nearer than the worst of ef results.
LEMMA StopStep ==
    ASSUME WalkInv, alg = "region", PopStop, Others
    PROVE  WalkInv' /\ UNCHANGED query /\ RegionExhaustive' /\ OnlyWorstHides'
<1>0. /\ MethodsTypeOK /\ QuietInv /\ MetInv /\ SettledInv /\ NeighbourInv /\ OwnKeys
  BY DEF WalkInv
<1>1. PICK e \in Top :
        /\ Pop(e) /\ StopsAt(e[1], results') /\ uq' = uq \ {e}
  BY DEF PopStop
<1>. DEFINE x == e[2]
<1>2. /\ pc = "pop" /\ pc' = "done" /\ key' = e[1] /\ measured' = measured \cup OnPop(x)
      /\ results' = Considered(OnPop(x) \cup {}) /\ answer' = Nearest(K, results')
      /\ UNCHANGED <<query, level, cur, plan, hopped, vis, bfs, scan>>
  BY <1>1 DEF Pop, PopStop
<1>3. /\ QueryOK /\ K \in Nat /\ measured \in SUBSET Pts /\ results \in SUBSET measured
      /\ sat \in SUBSET Pts /\ uq \in SUBSET (Nat \X Pts) /\ vis \in SUBSET Pts
      /\ scan \in SUBSET Pts /\ bfs \in SUBSET Pts /\ hopped \in SUBSET Pts
      /\ nbr \in [Pts -> SUBSET Pts] /\ ef \in Nat \ {0}
      /\ \A p \in Pts : Dist[p] \in Nat
  BY <1>0, WalkFact DEF QueryOK
<1>4. /\ e \in uq /\ e[1] \in Nat /\ x \in Pts /\ OnPop(x) \in SUBSET {x}
      /\ \A f \in uq : e[1] <= f[1]
      /\ results' \subseteq results \cup ((OnPop(x) \cup {}) \cap sat) /\ results' \subseteq sat
      /\ Cardinality(results') <= ef
      /\ \A p \in Pts : Settled(p) \/ p \in (OnPop(x) \cup {}) \cap sat => Settled(p)'
  <2>1. {} \in SUBSET Pts
    OBVIOUS
  <2>. QED BY <1>0, <1>2, <2>1, PopFact
<1>5. bfs = {} /\ scan = {}
  BY <1>0, <1>2 DEF MetInv
<1>. HIDE DEF x
<1>6. results' \in SUBSET Pts /\ answer' \subseteq results' /\ Cardinality(answer') <= K
  <2>1. results' \in SUBSET Pts
    BY <1>3, <1>4
  <2>. QED BY <1>2, <1>3, <2>1, NearestCount
<1>7. MethodsTypeOK' /\ QuietInv'
  <2>1. /\ measured' \in SUBSET Pts /\ measured \subseteq measured' /\ results' \subseteq measured'
        /\ uq' \subseteq Nat \X Pts
    BY <1>1, <1>2, <1>3, <1>4
  <2>. QED BY <1>0, <1>2, <1>3, <1>4, <1>6, <2>1, RegionTypes DEF Others
<1>8. MetInv' /\ NeighbourInv' /\ OwnKeys'
  BY <1>2 DEF MetInv, NeighbourInv, OwnKeys
<1>9. SettledInv'
  <2>0. \A p : Queued(p)' => Queued(p)
    BY <1>1 DEF Queued
  <2>1. ASSUME NEW p \in sat', p \in vis' \/ (p \in measured' /\ Queued(p)') PROVE Settled(p)'
    <3>1. p \in sat /\ p \in Pts /\ (p \in vis \/ (p \in measured' /\ Queued(p)))
      BY <1>2, <1>3, <2>0, <2>1 DEF query
    <3>2. CASE p \in OnPop(x)
      BY <1>4, <3>1, <3>2
    <3>3. CASE p \notin OnPop(x)
      <4>1. p \in vis \/ (p \in measured /\ Queued(p))
        BY <1>2, <3>1, <3>3
      <4>2. Settled(p)
        BY <1>0, <3>1, <4>1 DEF SettledInv
      <4>. QED BY <1>4, <3>1, <4>2
    <3>. QED BY <3>2, <3>3
  <2>. QED BY <2>1 DEF SettledInv
<1>10. Cardinality(results') >= ef /\ e[1] >= WorstOf(results')
  BY <1>1, <1>2 DEF StopsAt, query
<1>11. RegionExhaustive'
  BY <1>2, <1>10 DEF RegionExhaustive, Full, query
<1>12. OnlyWorstHides'
  <2>. SUFFICES ASSUME plan.boundary # "LAZY", plan.gated = {}, NEW p \in results',
                       Dist[p] < WorstOf(results'), NEW q \in nbr[p] \cap sat
                PROVE  Settled(q)'
    BY <1>2 DEF OnlyWorstHides, Worst, Settled, query
  <2>1. /\ \A f \in uq : f[2] \in sat => f[1] = Dist[f[2]]
        /\ \A r \in results : r \in vis \/ r \in bfs \/ <<Dist[r], r>> \in uq
        /\ \A y \in vis : \A r \in nbr[y] \cap sat : Settled(r) \/ r \in bfs \/ r \in scan
    BY <1>0, <1>2 DEF OwnKeys
  <2>2. WorstOf(results') \in Nat
    BY <1>6, WorstFact
  <2>3. Dist[p] < e[1] /\ Dist[p] \in Nat /\ p \in Pts /\ p \in sat
    BY <1>3, <1>4, <1>6, <1>10, <2>2
  <2>4. p # x
    <3>. SUFFICES ASSUME p = x PROVE FALSE
      OBVIOUS
    <3>1. e[1] = Dist[p]
      BY <1>4, <2>1, <2>3 DEF x
    <3>. QED BY <2>3, <3>1
  <2>5. p \in results
    BY <1>4, <2>4
  <2>6. p \in vis
    <3>. SUFFICES ASSUME <<Dist[p], p>> \in uq PROVE FALSE
      BY <1>5, <2>1, <2>5
    <3>1. e[1] <= <<Dist[p], p>>[1]
      BY <1>4
    <3>. QED BY <1>4, <2>3, <3>1
  <2>7. Settled(q) /\ q \in Pts
    BY <1>3, <1>5, <2>1, <2>6
  <2>. QED BY <1>4, <2>7
<1>. QED BY <1>2, <1>7, <1>8, <1>9, <1>11, <1>12 DEF WalkInv

\* The traversal runs out of points.
LEMMA FinishStep ==
    ASSUME WalkInv, alg = "region", RegionFinish, Others
    PROVE  WalkInv' /\ UNCHANGED query /\ RegionExhaustive' /\ OnlyWorstHides'
<1>0. /\ MethodsTypeOK /\ QuietInv /\ MetInv /\ SettledInv /\ NeighbourInv /\ OwnKeys
  BY DEF WalkInv
<1>1. /\ pc = "pop" /\ uq = {} /\ pc' = "done" /\ answer' = Nearest(K, results)
      /\ UNCHANGED <<query, level, cur, measured, results>> /\ UNCHANGED regionVars
  BY DEF RegionFinish, Finish
<1>2. /\ QueryOK /\ K \in Nat /\ measured \in SUBSET Pts /\ results \in SUBSET measured
      /\ results \subseteq sat /\ Cardinality(results) <= ef
      /\ sat \in SUBSET Pts /\ uq \in SUBSET (Nat \X Pts) /\ vis \in SUBSET Pts /\ key \in Nat
      /\ scan \in SUBSET Pts /\ bfs \in SUBSET Pts /\ hopped \in SUBSET Pts /\ cur \in Pts
      /\ nbr \in [Pts -> SUBSET Pts]
  BY <1>0, WalkFact
<1>3. answer' \subseteq results /\ Cardinality(answer') <= K
  BY <1>0, <1>1, FinishFact
<1>4. MethodsTypeOK' /\ QuietInv'
  BY <1>0, <1>1, <1>2, <1>3, RegionTypes DEF Others, regionVars
<1>5. MetInv' /\ NeighbourInv' /\ OwnKeys'
  BY <1>1 DEF MetInv, NeighbourInv, OwnKeys
<1>6. \A p : Settled(p)' = Settled(p)
  BY <1>1 DEF Settled, Admits, Full, Worst, query
<1>7. SettledInv'
  BY <1>0, <1>1, <1>6 DEF SettledInv, Queued, query, regionVars
<1>8. bfs = {} /\ scan = {} /\ cur \in vis
  BY <1>0, <1>1 DEF MetInv, Known, Queued
<1>9. \A p \in vis \cap sat : Settled(p)
  BY <1>0 DEF SettledInv
<1>10. ~ Full /\ plan.boundary # "STRUCT" => ReachAvoiding(cur, Off) \cap sat \subseteq results
  <2>. SUFFICES ASSUME ~ Full, plan.boundary # "STRUCT"
                PROVE  ReachAvoiding(cur, Off) \cap sat \subseteq results
    OBVIOUS
  <2>1. \A y \in vis : nbr[y] \ Off \subseteq vis
    BY <1>0, <1>1, <1>8 DEF NeighbourInv, Known, Queued
  <2>2. ReachAvoiding(cur, Off) \subseteq vis
    BY <1>2, <1>8, <2>1, ReachFact
  <2>. QED BY <1>9, <2>2 DEF Settled, Admits
<1>11. RegionExhaustive'
  <2>1. Off' = Off
    BY <1>1, OffKept DEF regionVars
  <2>2. ReachAvoiding(cur, Off)' = ReachAvoiding(cur, Off)
    BY <1>1, <2>1 DEF ReachAvoiding, query
  <2>. QED BY <1>1, <1>10, <2>2 DEF RegionExhaustive, Full, Off, query, regionVars
<1>12. OnlyWorstHides'
  <2>1. plan.boundary # "LAZY" /\ plan.gated = {} =>
            \A p \in results : \A q \in nbr[p] \cap sat : Settled(q)
    BY <1>0, <1>1, <1>8 DEF OwnKeys
  <2>2. \A q : (Settled(q)' <=> (Admits(q)' => q \in results'))
    BY DEF Settled
  <2>. QED BY <1>1, <1>6, <2>1, <2>2 DEF OnlyWorstHides, query, regionVars
<1>. QED BY <1>1, <1>4, <1>5, <1>7, <1>11, <1>12 DEF WalkInv

(***************************************************************************)
(* The theorems.                                                           *)
(***************************************************************************)

LEMMA MethodsInit == Init => MethodsInv
<1>. SUFFICES ASSUME Init PROVE MethodsInv
  OBVIOUS
<1>1. /\ alg \in Algs /\ nbr \in Graphs /\ sat \in Truths
      /\ ef \in {EfFor(alg, e) : e \in Efs}
      /\ pc = "descend" /\ level = TopLevel /\ cur = EntryPoint /\ measured = {EntryPoint}
      /\ results = {} /\ answer = {}
  BY DEF Init, BaseInit
<1>2. /\ cand = {} /\ added = {} /\ svis = {} /\ bq = {} /\ want = 0
      /\ plan \in IF alg = "region" THEN Plans ELSE {CHOOSE p \in Plans : TRUE}
      /\ uq = {} /\ key = 0 /\ vis = {} /\ bfs = {} /\ scan = {} /\ hopped = {}
  BY DEF Init, BeamInit, NavixInit, RegionInit
<1>3. ef \in Nat \ {0}
  <2>1. PICK e \in Efs : ef = EfFor(alg, e)
    BY <1>1
  <2>2. e \in Int /\ K \in Nat \ {0}
    BY SearchAssumption
  <2>3. EfFor(alg, e) \in Nat \ {0}
    <3>1. CASE alg = "beam"
      BY <2>2, <3>1 DEF EfFor
    <3>2. CASE alg # "beam"
      BY <2>2, <3>2 DEF EfFor
    <3>. QED BY <3>1, <3>2
  <2>. QED BY <2>1, <2>3
<1>4. plan \in Plans
  <2>1. (CHOOSE p \in Plans : TRUE) \in Plans
    BY RegionAssumption
  <2>. QED BY <1>2, <2>1
<1>5. Cardinality({}) = 0
  BY FS_EmptySet
<1>6. BaseTypeOK
  BY <1>1, <1>3, <1>5, SearchAssumption DEF BaseTypeOK
<1>7. MethodsTypeOK
  BY <1>1, <1>2, <1>4, <1>6 DEF MethodsTypeOK
<1>8. QuietInv
  BY <1>1, <1>2 DEF QuietInv, OnUpperLayers
<1>9. BeamInv /\ EmptyInv
  BY <1>1, <1>2 DEF BeamInv, EmptyInv
<1>10. MetInv
  BY <1>1, <1>2 DEF MetInv, OnUpperLayers
<1>11. SettledInv /\ NeighbourInv /\ OwnKeys /\ RegionExhaustive /\ OnlyWorstHides
  BY <1>1, <1>2 DEF SettledInv, NeighbourInv, OwnKeys, RegionExhaustive, OnlyWorstHides, Queued
<1>. QED BY <1>7, <1>8, <1>9, <1>10, <1>11 DEF MethodsInv, RegionInv

LEMMA MethodsStep == MethodsInv /\ [Next]_vars => MethodsInv'
<1>. SUFFICES ASSUME MethodsInv, [Next]_vars PROVE MethodsInv'
  OBVIOUS
<1>0. MethodsTypeOK /\ QuietInv /\ BeamInv /\ EmptyInv /\ RegionInv
  BY DEF MethodsInv
<1>1. CASE BeamNext /\ UNCHANGED <<navixVars, regionVars>>
  <2>1. MethodsTypeOK' /\ QuietInv' /\ UNCHANGED query
    BY <1>0, <1>1, BeamTypes
  <2>2. BeamInv'
    BY <1>0, <1>1, BeamStep
  <2>3. alg' = "beam"
    <3>1. alg = "beam"
      BY <1>1 DEF BeamNext, BeamDescend, BeamStart, BeamExpand, BeamFinish
    <3>. QED BY <2>1, <3>1 DEF query
  <2>. QED BY <2>1, <2>2, <2>3 DEF MethodsInv, EmptyInv, RegionInv
<1>2. CASE NavixNext /\ UNCHANGED regionVars
  <2>1. MethodsTypeOK' /\ QuietInv' /\ BeamInv'
    BY <1>0, <1>2, NavixStep
  <2>2. EmptyInv'
    BY <1>0, <1>2, <2>1, EmptyStep
  <2>3. alg' = "navix"
    BY <1>2 DEF NavixNext, NavixDescend, NavixNone, NavixStart, NavixFirst, NavixBlind,
       NavixBlindEnd, NavixExpand, NavixFinish, Descend, Finish, query
  <2>. QED BY <2>1, <2>2, <2>3 DEF MethodsInv, RegionInv
<1>3. CASE RegionNext /\ UNCHANGED <<beamVars, navixVars>>
  <2>1. alg = "region" /\ Others
    BY <1>3 DEF Others, RegionNext, RegionDescend, SkipDescent, RegionStart, PopStop, PopSeen, PopBest,
       PopFlood, RegionFinish, FloodPoint, FloodEnd, ScanBorder, Pop
  <2>2. WalkInv
    BY <1>0, <2>1 DEF WalkInv, RegionInv
  <2>3. \/ WalkInv' /\ UNCHANGED query /\ pc' # "done"
        \/ WalkInv' /\ UNCHANGED query /\ RegionExhaustive' /\ OnlyWorstHides'
    BY <1>3, <2>1, <2>2, DownStep, StartStep, SeenStep, BestStep, FloodStep, ScanStep, StopStep,
       FinishStep DEF RegionNext
  <2>4. RegionExhaustive' /\ OnlyWorstHides'
    BY <2>3 DEF RegionExhaustive, OnlyWorstHides
  <2>5. alg' = "region" /\ WalkInv'
    BY <2>1, <2>3 DEF query
  <2>. QED BY <2>4, <2>5 DEF MethodsInv, WalkInv, RegionInv, BeamInv, EmptyInv
<1>4. CASE UNCHANGED vars
  <2>1. UNCHANGED <<base, beamVars, navixVars, regionVars>>
    BY <1>4 DEF vars
  <2>2. MethodsTypeOK' /\ QuietInv'
    BY <1>0, <2>1 DEF MethodsTypeOK, BaseTypeOK, QuietInv, base, query, beamVars, navixVars, regionVars
  <2>3. /\ \A p : Settled(p)' = Settled(p)
        /\ \A p : Owed(p)' = Owed(p)
        /\ \A p : Known(p)' = Known(p)
        /\ \A p : Queued(p)' = Queued(p)
    BY <2>1 DEF Settled, Admits, Full, Worst, Owed, Known, Queued, base, query, regionVars
  <2>4. Reachable(cur)' = Reachable(cur) /\ ReachAvoiding(cur, Off)' = ReachAvoiding(cur, Off)
    BY <2>1, OffKept DEF Reachable, ReachAvoiding, base, query, regionVars
  <2>5. BeamInv' /\ EmptyInv'
    BY <1>0, <2>1, <2>3, <2>4 DEF BeamInv, EmptyInv, base, query, beamVars, navixVars
  <2>6. MetInv' <=> MetInv
    <3>1. Known(cur)' = Known(cur)
      BY <2>1 DEF Known, Queued, base, regionVars
    <3>. QED BY <2>1, <2>3, <3>1 DEF MetInv, base, regionVars
  <2>7. SettledInv' <=> SettledInv
    BY <2>1, <2>3 DEF SettledInv, base, query, regionVars
  <2>8. Off' = Off
    BY <2>1, OffKept DEF base, regionVars
  <2>9. NeighbourInv' <=> NeighbourInv
    BY <2>1, <2>3, <2>8 DEF NeighbourInv, base, query, regionVars
  <2>10. OwnKeys' <=> OwnKeys
    BY <2>1, <2>3 DEF OwnKeys, base, query, regionVars
  <2>11. RegionExhaustive' <=> RegionExhaustive
    BY <2>1, <2>4 DEF RegionExhaustive, Full, Off, base, query, regionVars
  <2>12. OnlyWorstHides' <=> OnlyWorstHides
    BY <2>1 DEF OnlyWorstHides, Admits, Full, Worst, base, query, regionVars
  <2>13. RegionInv'
    BY <1>0, <2>1, <2>6, <2>7, <2>9, <2>10, <2>11, <2>12 DEF RegionInv, base, query
  <2>. QED BY <2>2, <2>5, <2>13 DEF MethodsInv
<1>. QED BY <1>1, <1>2, <1>3, <1>4 DEF Next

\* The state of the three searches keeps its invariant whatever the graph, the
\* predicate and the distances are.
THEOREM MethodsInvariant == Spec => []MethodsInv
<1>1. Init => MethodsInv
  BY MethodsInit
<1>2. MethodsInv /\ [Next]_vars => MethodsInv'
  BY MethodsStep
<1>. QED BY <1>1, <1>2, PTL DEF Spec

\* The types of every search's state: the heap never outgrows ef, the answer
\* never K, and nothing is expanded that the heap was not offered.
THEOREM MethodsTypes == Spec => []MethodsTypeOK
<1>1. MethodsInv => MethodsTypeOK
  BY DEF MethodsInv
<1>. QED BY <1>1, MethodsInvariant, PTL

\* hnswlib's searchBaseLayerST: when its loop breaks, no neighbour of a result
\* that the heap would still take is missing, and a heap with room holds exactly
\* what the entry point of level 0 reaches.
THEOREM BeamIsClosed == Spec => []BeamClosed
<1>1. MethodsInv => BeamClosed
  BY BeamEnd DEF MethodsInv
<1>. QED BY <1>1, MethodsInvariant, PTL

\* The NaviX-style baseline: switching between the one-hop, directed and blind
\* expansions loses no satisfying neighbour of a result.
THEOREM NavixIsLocal == Spec => []NavixLocal
<1>1. MethodsInv => NavixLocal
  BY NavixEnd DEF MethodsInv
<1>. QED BY <1>1, MethodsInvariant, PTL

\* The NaviX-style baseline answers nothing only if its blind expansion, which
\* goes on until it has ef points or no more, could reach no satisfying point.
THEOREM NavixEmptyIsRight == Spec => []NavixEmptyRight
<1>1. MethodsInv => NavixEmptyRight
  BY DEF MethodsInv, EmptyInv, NavixEmptyRight
<1>. QED BY <1>1, MethodsInvariant, PTL

\* OursSearch::run: a traversal that ends with room in its heap holds every
\* satisfying point it can reach without passing a gated region or, where
\* borders are not crossed eagerly, a point that the descent may have measured.
THEOREM TraversalIsExhaustive == Spec => []RegionExhaustive
<1>1. MethodsInv => RegionExhaustive
  BY DEF MethodsInv, RegionInv, RegionExhaustive
<1>. QED BY <1>1, MethodsInvariant, PTL

\* OursSearch::run stops on the first key that is not nearer than the worst
\* result: a result nearer than that hides no neighbour the heap would take.
THEOREM WorstAloneHides == Spec => []OnlyWorstHides
<1>1. MethodsInv => OnlyWorstHides
  BY DEF MethodsInv, RegionInv, OnlyWorstHides
<1>. QED BY <1>1, MethodsInvariant, PTL

=============================================================================
