---------------------------- MODULE SearchMethods ----------------------------
(***************************************************************************)
(* The searches other than the connected domain one, side by side: which   *)
(* of them runs is chosen at the start.  A search is one sequential loop,  *)
(* so it takes its next step as long as there is one.                      *)
(***************************************************************************)
EXTENDS NavixSearch, RegionTraversal

vars == <<base, beamVars, navixVars, regionVars>>

Init == BaseInit /\ BeamInit /\ NavixInit /\ RegionInit

Next ==
    \/ BeamNext /\ UNCHANGED <<navixVars, regionVars>>
    \/ NavixNext /\ UNCHANGED regionVars
    \/ RegionNext /\ UNCHANGED <<beamVars, navixVars>>

Spec == Init /\ [][Next]_vars /\ WF_vars(Next)

\* Every variable has its type; the heap never outgrows ef, the answer never K,
\* and candidates have been offered before.
MethodsTypeOK ==
    /\ BaseTypeOK
    /\ pc \in {"descend", "expand", "first", "blind", "pop", "flood", "done"}
    /\ cand \subseteq added /\ added \subseteq measured
    /\ svis \subseteq Pts \ sat /\ bq \subseteq svis /\ want \in Int
    /\ plan \in Plans /\ uq \subseteq Nat \X Pts /\ key \in Nat
    /\ \A S \in {vis, bfs, scan, hopped} : S \subseteq Pts
    /\ alg = "region" => results \subseteq sat

\* A search ends: nothing is expanded for ever, however points are queued again.
Ends == <>(pc = "done")
=============================================================================
