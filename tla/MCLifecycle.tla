----------------------------- MODULE MCLifecycle -----------------------------
(***************************************************************************)
(* Four points on three layers, two threads, lists of two points (four on  *)
(* layer 0), so that lists fill up and are chosen anew; three builds, two  *)
(* of them crashing, with two graphs and two builders; three points, up to *)
(* three queries and three calls for the truth; epochs of 3 and 4 values.  *)
(***************************************************************************)
EXTENDS Lifecycle

CONSTANTS g1, g2, phi1, phi2

\* Chains of up to two fathers, and points that overtake the entry point.
SomeDraws == [x \in Base |-> CASE x = 0 -> {0, 2} [] x = 1 -> {0, 1} [] x = 2 -> {1, 2} [] x = 3 -> {0, 1, 2}]
\* Point 2 lies among the others, nearer to each than they are to each other.
SomeApart == [x \in Base |-> [y \in Base |-> IF x = y THEN 0 ELSE
    CASE {x, y} = {2, 3} -> 1 [] {x, y} = {0, 2} -> 2 [] {x, y} = {1, 2} -> 3
      [] {x, y} = {0, 3} -> 4 [] {x, y} = {0, 1} -> 5 [] {x, y} = {1, 3} -> 6]]
TwoGraphs == {g1, g2}
TwoBuilders == {"multilayer", "forest"}
AllKinds == {"ours", "postfilter", "navix"}
LevelsAsked == {1, 2}

\* Query 2 has two points at the same distance.
SomeGtDist == [x \in 0 .. 2 |-> [y \in 0 .. 2 |-> IF x = 2 THEN (y + 1) \div 2 ELSE (x + 2 * y) % 3]]
Answers == [phi \in {phi1, phi2} |-> IF phi = phi1 THEN {0, 1, 2} ELSE {2}]
Counts == {1, 3}
ThreadsAsked == {0, 2}
=============================================================================
