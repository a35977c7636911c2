------------------------------ MODULE BeamSearch ------------------------------
(***************************************************************************)
(* HnswSearch::search, the unfiltered best-first search of HNSW, and the   *)
(* post-filter baseline that keeps the satisfying points of its results.   *)
(***************************************************************************)
EXTENDS GraphSearch

VARIABLES
    cand,    \* candidates still to expand
    added    \* added_: points offered to the heap once

beamVars == <<cand, added>>

BeamInit == cand = {} /\ added = {}

BeamDescend == alg = "beam" /\ Descend /\ UNCHANGED beamVars

BeamStart ==
    /\ alg = "beam" /\ Arrived
    /\ pc' = "expand"
    /\ cand' = {cur} /\ added' = {cur} /\ results' = {cur}
    /\ UNCHANGED <<query, level, cur, measured, answer>>

\* Offer the points of S one by one, having measured those of S and M.  Those
\* that end up as results are candidates; which others were results for a while
\* is a matter of order.
Offer(S, M, rest) ==
    /\ added' = added \cup S
    /\ measured' = measured \cup S \cup M
    /\ results' = Nearest(ef, results \cup S)
    /\ \E W \in SUBSET ({p \in S : Admits(p)} \ results') :
          cand' = rest \cup (S \cap results') \cup W

\* Mutant: the worst result itself is not expanded.
EagerBeyond(c) == Full /\ Dist[c] >= Worst

\* The nearest candidate is farther than all results.
Beyond(c) == Full /\ Dist[c] > Worst

BeamExpand ==
    /\ alg = "beam" /\ pc = "expand" /\ cand # {}
    /\ LET c == First(cand) IN
       /\ ~ Beyond(c)
       /\ Offer(nbr[c] \ added, {}, cand \ {c})
    /\ UNCHANGED <<query, pc, level, cur, answer>>

\* PostFilter::search keeps the first K results that satisfy the predicate.
BeamFinish ==
    /\ alg = "beam" /\ pc = "expand"
    /\ cand # {} => Beyond(First(cand))
    /\ Finish(results \cap sat)
    /\ UNCHANGED beamVars

BeamNext == BeamDescend \/ BeamStart \/ BeamExpand \/ BeamFinish

\* The beam is closed: no neighbour of a result (the worst one included) that
\* the heap would still take is missing at the end, and a heap with room holds
\* every point that can be reached.
BeamClosed ==
    alg = "beam" /\ pc = "done" =>
        /\ \A r \in results : \A q \in nbr[r] : Admits(q) => q \in results
        /\ ~ Full => results = Reachable(cur)
=============================================================================
