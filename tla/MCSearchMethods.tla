--------------------------- MODULE MCSearchMethods ---------------------------
(***************************************************************************)
(* Layers 0 on five points, one upper layer, three regions.                *)
(***************************************************************************)
EXTENDS SearchMethods, TLC

Both(E) == E \cup {<<e[2], e[1]>> : e \in E}
Graph(P, E) == [p \in P |-> {e[2] : e \in {x \in E : x[1] = p}}]

Five == 0 .. 4
FiveDist == <<2, 4, 1, 3>> @@ (0 :> 0)
ThreeRegions == (0 :> 0) @@ (1 :> 0) @@ (2 :> 1) @@ (3 :> 2) @@ (4 :> 2)
\* A ring with a chord, a hub with four spokes, a path from the start point on,
\* one-sided lists, lists that end at points without neighbours, and a start
\* point that is one.
Ring == Graph(Five, Both({<<0, 1>>, <<1, 2>>, <<2, 3>>, <<3, 4>>, <<0, 2>>}))
Hub == Graph(Five, Both({<<4, 0>>, <<4, 1>>, <<4, 2>>, <<4, 3>>}))
Path == Graph(Five, Both({<<3, 4>>, <<4, 0>>, <<0, 1>>, <<1, 2>>}))
OneSided == Graph(Five, {<<0, 1>>, <<1, 2>>, <<2, 0>>, <<2, 3>>, <<3, 4>>, <<4, 3>>, <<4, 0>>, <<3, 1>>})
Sinks == Graph(Five, {<<3, 0>>, <<3, 1>>, <<3, 2>>, <<0, 1>>, <<0, 2>>, <<0, 4>>, <<2, 4>>})
Alone == Graph(Five, {<<0, 1>>, <<4, 3>>})
Layers == {Ring, Hub, Path, OneSided, Sinks, Alone}
OneUpper == <<Graph(Five, Both({<<4, 2>>, <<4, 3>>}))>>
AnyTruth == SUBSET Five
\* Floods everywhere, best first everywhere, and one region of each other kind.
Strategies == {s \in [Regs -> {"FLOOD", "BESTFIRST"}] : s[1] = "FLOOD" => s[0] = s[2]}
SomePlans == {[boundary |-> b, strategy |-> s, gated |-> g] :
                 b \in {"EAGER", "LAZY", "GATED", "STRUCT"}, s \in Strategies, g \in {{}, {2}}}
AllSearches == {"beam", "navix", "region"}
EfValues == {0, 3}
=============================================================================
