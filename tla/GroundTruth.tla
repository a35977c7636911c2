----------------------------- MODULE GroundTruth -----------------------------
(***************************************************************************)
(* BruteForceGT with its cache.  A file is written in place, so a crash    *)
(* leaves it torn; it is read by later processes, which may have another   *)
(* number of threads and of queries.  Both phases of a fresh computation   *)
(* deal consecutive chunks to threads and join them.                       *)
(* The files of two predicates are taken to have different names.          *)
(***************************************************************************)
EXTENDS CacheFiles, Integers, FiniteSets

CONSTANTS
    Points,        \* the base points are 0 .. Points - 1
    GtDist,        \* GtDist[q][u]: distance of point u to query q
    KMax,
    SatOf,         \* SatOf[phi]: the points that satisfy predicate phi
    QueryCounts,   \* the numbers of queries a process may have
    ThreadCounts,
    MaxCalls       \* bound on the calls of compute

\* A heap of no points has no top (KMax = 0 is not served).
ASSUME GtAssumption ==
    /\ MaxCalls \in Nat /\ Points \in Nat /\ KMax \in Nat \ {0}
    /\ QueryCounts \subseteq Nat /\ ThreadCounts \subseteq Nat
    /\ \A nq \in QueryCounts : \A q \in 0 .. nq - 1 : GtDist[q] \in [0 .. Points - 1 -> Nat]
    /\ \A phi \in DOMAIN SatOf : SatOf[phi] \subseteq 0 .. Points - 1

VARIABLES
    gtFile,        \* gtFile[phi]: NoFile, Torn or the entries
    gt             \* the call of compute under way

gtVars == <<gtFile, gt>>

GtAt(a) == gt.at = a

GtInit ==
    /\ gtFile = [phi \in DOMAIN SatOf |-> NoFile]
    /\ gt = [at |-> "down", calls |-> 0]

\* Mutant: the last, shorter chunk is not dealt.
FloorChunk(n, T) == n \div T

Chunk(n, T) == (n + T - 1) \div T

\* Thread t works from t * chunk on, up to n.
Dealt(n, T) ==
    [t \in 0 .. T - 1 |-> {i \in 0 .. n - 1 : t * Chunk(n, T) <= i /\ i < (t + 1) * Chunk(n, T)}]

AtLeastOne(n) == IF n < 1 THEN 1 ELSE n
Fewer(a, b) == IF a < b THEN a ELSE b

Ask ==
    /\ GtAt("down") /\ gt.calls < MaxCalls
    /\ \E phi \in DOMAIN SatOf, nq \in QueryCounts, T \in ThreadCounts, cached \in BOOLEAN :
         gt' = [at |-> IF cached THEN "open" ELSE "spawn", calls |-> gt.calls + 1,
                phi |-> phi, nq |-> nq, T |-> T, cached |-> cached,
                left |-> << >>, sat |-> {}, total |-> 0,
                out |-> [q \in 0 .. nq - 1 |-> [n |-> 0, ids |-> {}]]]
    /\ UNCHANGED gtFile

\* The header holds the number of queries; a file that ends early is not used.
Usable(f, nq) == IF Whole(f) THEN Cardinality(DOMAIN f) = nq ELSE FALSE

ReadCache ==
    /\ GtAt("open")
    /\ gt' = IF Usable(gtFile[gt.phi], gt.nq)
             THEN [gt EXCEPT !.at = "answered", !.out = gtFile[gt.phi]]
             ELSE [gt EXCEPT !.at = "spawn"]
    /\ UNCHANGED gtFile

SpawnSat ==
    /\ GtAt("spawn")
    /\ gt' = [gt EXCEPT !.at = "sat", !.left = Dealt(Points, AtLeastOne(gt.T))]
    /\ UNCHANGED gtFile

Earliest(S) == CHOOSE i \in S : \A j \in S : i <= j

\* One iteration of a worker of the first phase.
EvalPoint ==
    /\ GtAt("sat")
    /\ \E t \in DOMAIN gt.left :
         /\ gt.left[t] # {}
         /\ LET u == Earliest(gt.left[t]) IN
            gt' = [gt EXCEPT !.left[t] = @ \ {u},
                             !.sat = IF u \in SatOf[gt.phi] THEN @ \cup {u} ELSE @]
    /\ UNCHANGED gtFile

Finished(left) == \A t \in DOMAIN left : left[t] = {}

\* The satisfying points are counted, and the queries are dealt.
SpawnQueries ==
    /\ GtAt("sat") /\ Finished(gt.left)
    /\ gt' = [gt EXCEPT !.at = "queries", !.total = Cardinality(gt.sat),
                        !.left = Dealt(gt.nq, AtLeastOne(Fewer(gt.T, gt.nq)))]
    /\ UNCHANGED gtFile

\* The heap of a query holds at most KMax points; its top is the farthest, of
\* equally far ones that of the largest id.
Top(q, heap) ==
    CHOOSE u \in heap : \A v \in heap : \/ GtDist[q][v] < GtDist[q][u]
                                        \/ GtDist[q][v] = GtDist[q][u] /\ v <= u

Keep(q, heap, u) ==
    IF Cardinality(heap) < KMax THEN heap \cup {u}
    ELSE IF GtDist[q][u] < GtDist[q][Top(q, heap)] THEN (heap \ {Top(q, heap)}) \cup {u}
    ELSE heap

\* The heap of query q after all points, in the order of their ids.
Scan(q, sat) ==
    LET heap[n \in 0 .. Points] ==
            IF n = 0 THEN {}
            ELSE IF n - 1 \in sat THEN Keep(q, heap[n - 1], n - 1)
            ELSE heap[n - 1] IN
    heap[Points]

\* One iteration of a worker of the second phase.
AnswerQuery ==
    /\ GtAt("queries")
    /\ \E t \in DOMAIN gt.left :
         /\ gt.left[t] # {}
         /\ LET q == Earliest(gt.left[t]) IN
            gt' = [gt EXCEPT !.left[t] = @ \ {q},
                             !.out[q] = [n |-> gt.total, ids |-> Scan(q, gt.sat)]]
    /\ UNCHANGED gtFile

\* compute_fresh returns; the file is opened for writing, and then complete.
WriteCache ==
    /\ GtAt("queries") /\ Finished(gt.left)
    /\ gt' = [gt EXCEPT !.at = IF gt.cached THEN "write" ELSE "answered"]
    /\ gtFile' = IF gt.cached THEN [gtFile EXCEPT ![gt.phi] = Torn] ELSE gtFile

CloseCache ==
    /\ GtAt("write")
    /\ gt' = [gt EXCEPT !.at = "answered"]
    /\ gtFile' = [gtFile EXCEPT ![gt.phi] = gt.out]

\* The process returns or dies, at any step; the files stay.
GtStops ==
    /\ ~ GtAt("down")
    /\ gt' = [at |-> "down", calls |-> gt.calls]
    /\ UNCHANGED gtFile

GtNext == Ask \/ ReadCache \/ SpawnSat \/ EvalPoint \/ SpawnQueries \/ AnswerQuery
              \/ WriteCache \/ CloseCache \/ GtStops

\* What is returned, fresh or from a file that any earlier process left, is the
\* answer to the predicate: every query has the number of satisfying points and
\* KMax of them, or all, such that no other satisfying point is nearer.
GTRight ==
    GtAt("answered") =>
        /\ DOMAIN gt.out = 0 .. gt.nq - 1
        /\ \A q \in DOMAIN gt.out :
             LET sat == SatOf[gt.phi]
                 ids == gt.out[q].ids IN
             /\ gt.out[q].n = Cardinality(sat)
             /\ ids \subseteq sat /\ Cardinality(ids) = Fewer(KMax, Cardinality(sat))
             /\ \A u \in ids, v \in sat \ ids : GtDist[q][u] <= GtDist[q][v]
=============================================================================
