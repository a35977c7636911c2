------------------------------ MODULE Lifecycle ------------------------------
(***************************************************************************)
(* What happens around the searches, one part at a time:                   *)
(*   index     threads construct the index, a builder cuts it into regions *)
(*   method    processes build a method from the files of earlier ones     *)
(*   truth     processes compute ground truths and keep them               *)
(*   searcher  a searcher serves one search after another                  *)
(* The parts share no state; which one runs is chosen at the start.        *)
(***************************************************************************)
EXTENDS RegionBuild, MethodBuild, GroundTruth, SearchEpochs

VARIABLE part

indexVars == <<insertVars, regions>>
vars == <<part, indexVars, buildVars, gtVars, epochVars>>

Parts == {"index", "method", "truth", "searcher"}

Init ==
    /\ part \in Parts
    /\ InsertInit /\ RegionInit /\ BuildInit /\ GtInit /\ EpochInit
    /\ part # "method" => columns

IndexStep ==
    /\ part = "index"
    /\ (InsertNext /\ UNCHANGED regions) \/ RegionNext
    /\ UNCHANGED <<part, buildVars, gtVars, epochVars>>

MethodStep(A) == part = "method" /\ A /\ UNCHANGED <<part, indexVars, gtVars, epochVars>>
TruthStep == part = "truth" /\ GtNext /\ UNCHANGED <<part, indexVars, buildVars, epochVars>>
SearcherStep == part = "searcher" /\ EpochNext /\ UNCHANGED <<part, indexVars, buildVars, gtVars>>

Next == IndexStep \/ MethodStep(BuildNext) \/ TruthStep \/ SearcherStep

\* Threads are scheduled, and a build goes on; crashes, new processes and calls
\* are not owed.
Spec == Init /\ [][Next]_vars /\ WF_vars(IndexStep) /\ WF_vars(MethodStep(BuildSteps))

\* Every variable has its type.
LifecycleTypeOK ==
    /\ next \in 1 .. LastPoint + Cardinality(Threads) + 1 /\ Ids = 0 .. Cardinality(Ids) - 1
    /\ label \in [Ids -> Base] /\ father \in [Ids -> Ids] /\ enter \in Ids /\ top \in 0 .. TopDraw
    /\ \A i, j \in Ids : label[i] = label[j] => i = j
    /\ global \in Threads \cup {None}
    /\ index \in Graphs \cup {NoFile, Torn} /\ proc.map \in Maps \cup {Nothing}
    /\ proc.budget \in 0 .. 2 * CalibBudget /\ crashes \in 0 .. MaxCrashes
    /\ gt.calls \in 0 .. MaxCalls
    /\ epoch \in 0 .. Wrap32 - 1 /\ vepoch \in 0 .. Wrap8 - 1
    /\ marks \in [Families -> SUBSET (1 .. Wrap32 - 1)] /\ missed \subseteq Families

\* The threads of a construction never wait for each other in a circle, and the
\* region builder empties its queue.
IndexBuilt == part = "index" ~> regions # None /\ (regions # None => regions.done)
=============================================================================
