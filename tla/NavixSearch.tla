------------------------------ MODULE NavixSearch -----------------------------
(***************************************************************************)
(* NavixMethod::search, the NaviX-style baseline: best first over the      *)
(* satisfying points only, with one of three ways to get past the others,  *)
(* chosen by how many neighbours of the expanded point satisfy.            *)
(***************************************************************************)
EXTENDS BeamSearch

CONSTANT DegParam   \* deg_ = 2 * M of the build parameters

ASSUME DegAssumption == DegParam \in Nat \ {0}

VARIABLES
    svis,    \* svis_: unsatisfying points that were queued once
    bq,      \* the queue of a blind expansion
    want     \* deg - found, how many satisfying points it still looks for

navixVars == <<svis, bq, want>>

NavixInit == svis = {} /\ bq = {} /\ want = 0

NavixDescend == alg = "navix" /\ sat # {} /\ Descend /\ UNCHANGED <<beamVars, navixVars>>

\* No point satisfies the predicate: nothing is searched.
NavixNone ==
    /\ alg = "navix" /\ pc = "descend" /\ sat = {}
    /\ Finish({})
    /\ UNCHANGED <<beamVars, navixVars>>

Deg(c) == Cardinality(nbr[c])
Sel(c) == Cardinality(nbr[c] \cap sat)

\* sigma_l >= ub_onehop_s_ (0.5), and sigma_l * (M + 1) * M >= M * leniency_ (3).
OneHop(c) == 2 * Sel(c) >= Deg(c)
Directed(c) == Sel(c) * (DegParam + 1) >= 3 * Deg(c)

\* The neighbours whose own neighbours a directed expansion looks at: nearest
\* first, until it has met deg satisfying points, counting repetitions.
Met(c, v) == UNION {{<<u, w>> : w \in nbr[u] \cap sat} : u \in {x \in nbr[c] : Dist[x] < Dist[v]}}
Walked(c) == {v \in nbr[c] : Cardinality(Met(c, v)) < Deg(c)}

ExpandDry(c, rest) ==
    /\ nbr[c] = {}
    /\ cand' = rest
    /\ UNCHANGED <<measured, results, added, navixVars>>

ExpandOneHop(c, rest) ==
    /\ nbr[c] # {} /\ OneHop(c)
    /\ Offer((nbr[c] \cap sat) \ added, {}, rest)
    /\ UNCHANGED navixVars

ExpandDirected(c, rest) ==
    /\ nbr[c] # {} /\ ~ OneHop(c) /\ Directed(c)
    /\ Offer((sat \cap UNION ({nbr[c]} \cup {nbr[v] : v \in Walked(c)})) \ added, nbr[c], rest)
    /\ UNCHANGED navixVars

ExpandBlind(c, rest) ==
    /\ nbr[c] # {} /\ ~ OneHop(c) /\ ~ Directed(c)
    /\ Offer((nbr[c] \cap sat) \ added, {}, rest)
    /\ bq' = (nbr[c] \ sat) \ svis
    /\ svis' = svis \cup (nbr[c] \ sat)
    /\ want' = Deg(c) - Sel(c)

Expand(c, rest) ==
    \/ (ExpandDry(c, rest) \/ ExpandOneHop(c, rest) \/ ExpandDirected(c, rest)) /\ pc' = "expand"
    \/ ExpandBlind(c, rest) /\ pc' = "blind"

\* The start point is expanded whether it satisfies the predicate or not.
NavixStart ==
    /\ alg = "navix" /\ sat # {} /\ Arrived
    /\ pc' = "first"
    /\ IF cur \in sat THEN Offer({cur}, {}, {}) ELSE UNCHANGED <<measured, results, beamVars>>
    /\ UNCHANGED <<query, level, cur, answer, navixVars>>

NavixFirst ==
    /\ alg = "navix" /\ pc = "first"
    /\ Expand(cur, cand)
    /\ UNCHANGED <<query, level, cur, answer>>

\* Mutant: the points behind the neighbours are not queued in turn.
ShallowQueue(u) == {}

\* What a blind step queues: the unsatisfying neighbours not queued before.
Queue(u) == (nbr[u] \ sat) \ svis

\* Points leave the queue in an order the model leaves open.
NavixBlind ==
    /\ alg = "navix" /\ pc = "blind" /\ want > 0
    /\ \E u \in bq :
        /\ Offer((nbr[u] \cap sat) \ added, {}, cand)
        /\ bq' = (bq \ {u}) \cup Queue(u)
        /\ svis' = svis \cup Queue(u)
        /\ want' = want - Sel(u)
    /\ UNCHANGED <<query, pc, level, cur, answer>>

\* The rest of the queue is dropped; its points stay marked.
NavixBlindEnd ==
    /\ alg = "navix" /\ pc = "blind"
    /\ bq = {} \/ want <= 0
    /\ pc' = "expand" /\ bq' = {} /\ want' = 0
    /\ UNCHANGED <<query, level, cur, measured, results, answer, beamVars, svis>>

NavixExpand ==
    /\ alg = "navix" /\ pc = "expand" /\ cand # {}
    /\ ~ Beyond(First(cand))
    /\ Expand(First(cand), cand \ {First(cand)})
    /\ UNCHANGED <<query, level, cur, answer>>

NavixFinish ==
    /\ alg = "navix" /\ pc = "expand"
    /\ cand # {} => Beyond(First(cand))
    /\ Finish(results)
    /\ UNCHANGED <<beamVars, navixVars>>

NavixNext ==
    \/ NavixDescend \/ NavixNone \/ NavixStart \/ NavixFirst
    \/ NavixBlind \/ NavixBlindEnd \/ NavixExpand \/ NavixFinish

\* Whatever way a point was expanded, none of its satisfying neighbours nearer
\* than the worst of ef results is missing at the end, nor any at all when there
\* are fewer results.
NavixLocal ==
    alg = "navix" /\ pc = "done" =>
        \A r \in results : \A q \in nbr[r] \cap sat : Admits(q) => q \in results

\* An empty answer is right: the blind expansion of the start point gives up
\* only when no satisfying point can be reached.
NavixEmptyRight ==
    alg = "navix" /\ pc = "done" /\ results = {} => Reachable(cur) \cap sat = {}
=============================================================================
