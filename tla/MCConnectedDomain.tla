-------------------------- MODULE MCConnectedDomain --------------------------
(***************************************************************************)
(* Base graphs for TLC, on points ranked by distance in an order unrelated *)
(* to their ids.                                                           *)
(***************************************************************************)
EXTENDS ConnectedDomain, TLC

Both(E) == E \cup {<<e[2], e[1]>> : e \in E}
Graph(P, E) == [p \in P |-> {e[2] : e \in {x \in E : x[1] = p}}]

Five == 0 .. 4
FiveDist == <<2, 4, 1, 3>> @@ (0 :> 0)
AnySetting == Setting
\* What the driver runs with by default.
Default == {[transparent |-> TRUE, membership |-> TRUE, es2 |-> TRUE, phase2 |-> TRUE]}
OnePerRegion == {0, 2, 4}

\* Three regions: 0-1 and 2 are connected within themselves, 3-4 hangs together
\* through region 1 only.
ThreeRegions == (0 :> 0) @@ (1 :> 0) @@ (2 :> 1) @@ (3 :> 2) @@ (4 :> 2)
Split == Graph(Five, Both({<<0, 1>>, <<1, 2>>, <<2, 3>>, <<2, 4>>, <<0, 2>>}))
AnyTruth == SUBSET Five
\* None, fewer than two, two and more satisfying points, in one region and in several.
SomeTruths == {{}, {4}, {0, 2}, {1, 3}, {3, 4}, {2, 3, 4}, {0, 1, 2, 3}}
\* Every point a region of its own; one point satisfies, two steps away.
Singles == [p \in Five |-> p]
Star == Graph(Five, Both({<<0, 1>>, <<0, 2>>, <<0, 3>>, <<2, 3>>, <<2, 4>>}))
Centre == {0}
OnlyFour == {{4}}
=============================================================================
