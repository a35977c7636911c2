---------------------------- MODULE FilteredSearch ----------------------------
(***************************************************************************)
(* What a filtered nearest-neighbour search promises, whatever way it      *)
(* takes: it collects the K nearest of the satisfying points it is offered *)
(* and ends with K results or with every point it owes the caller.         *)
(***************************************************************************)
EXTENDS Integers, FiniteSets

CONSTANTS Pts, Dist, K

VARIABLES
    goal,     \* the satisfying points the search may be offered
    owed,     \* those it must not miss
    answer,   \* the results so far
    ended

Nearest(S) == {p \in S : Cardinality({q \in S : Dist[q] < Dist[p]}) < K}

Init ==
    /\ goal \in SUBSET Pts /\ owed \in SUBSET goal
    /\ answer \in {Nearest(S) : S \in SUBSET goal}
    /\ ended = FALSE

Offer ==
    /\ ~ ended
    /\ \E S \in SUBSET goal : answer' = Nearest(answer \cup S)
    /\ UNCHANGED <<goal, owed, ended>>

End ==
    /\ ~ ended
    /\ Cardinality(answer) = K \/ owed \subseteq answer
    /\ ended' = TRUE
    /\ UNCHANGED <<goal, owed, answer>>

Next == Offer \/ End

Spec == Init /\ [][Next]_<<goal, owed, answer, ended>> /\ <>ended
=============================================================================
