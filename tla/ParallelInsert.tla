---------------------------- MODULE ParallelInsert ----------------------------
(***************************************************************************)
(* The construction of an HnswIndex by several threads, and its projection *)
(* to base ids.                                                            *)
(*                                                                         *)
(* A point receives its internal id when its insertion starts.  From then  *)
(* to its end the insertion holds the lock of the point's own lists; it    *)
(* takes the lock of another point for one read or one write of its lists. *)
(* A point that will be the highest holds the lock on the entry point as   *)
(* well.  A search keeps the Efc nearest points, a new point links to at   *)
(* most MaxM of them, and a full list is chosen anew.  No point is twice   *)
(* in a list, so lists are sets.                                           *)
(***************************************************************************)
EXTENDS Integers, FiniteSets

CONSTANTS
    LastPoint,      \* the points are 0 .. LastPoint
    Threads,
    Draws,     \* Draws[p]: the levels that p may draw
    Apart,     \* Apart[p][q]: rank of the distance of p and q
    MaxM,      \* M_, maxM_
    Efc,       \* ef_construction_
    None

Base == 0 .. LastPoint

ASSUME InsertAssumption ==
    /\ LastPoint \in Nat /\ IsFiniteSet(Threads) /\ None \notin Threads
    /\ DOMAIN Draws = Base /\ \A p \in Base : Draws[p] \subseteq Nat /\ IsFiniteSet(Draws[p])
    /\ Apart \in [Base -> [Base -> Nat]]
    /\ MaxM \in Nat \ {0, 1} /\ Efc \in Nat /\ Efc >= MaxM

TopDraw == CHOOSE l \in UNION {Draws[p] : p \in Base} :
               \A p \in Base : \A m \in Draws[p] : m <= l

VARIABLES
    next,      \* the counter the threads take points from
    label,     \* label[i]: the base id of internal id i
    lev,       \* element_levels_
    father,    \* father_
    links,     \* links[l][i]: the list of i on layer l
    enter,     \* enterpoint_node_
    top,       \* maxlevel_
    global,    \* the thread that holds the lock on both
    work,      \* what each thread is at
    proj       \* the projected index, None before

Ids == DOMAIN label
graph == <<label, lev, father, links, enter, top>>
insertVars == <<next, graph, global, work, proj>>

Idle == [at |-> "idle", node |-> None, cap |-> 0, l |-> 0, obj |-> None,
         found |-> {}, seen |-> {}, open |-> {}, todo |-> {}]

D(i, j) == Apart[label[i]][label[j]]
Closest(i, S) == CHOOSE j \in S : \A k \in S : D(i, j) <= D(i, k)

\* Mcurmax: what a list of layer l holds.
Most(l) == IF l = 0 THEN 2 * MaxM ELSE MaxM

\* Mutant: the selection stops one point late.
OneMore(kept, m) == Cardinality(kept) <= m

HasRoom(kept, m) == Cardinality(kept) < m

\* getNeighborsByHeuristic2: from the nearest on, a point is kept if none kept
\* before is nearer to it than i is, until there are m.
Before(i, k, j) == D(i, k) < D(i, j) \/ (D(i, k) = D(i, j) /\ k > j)
Selected(i, S, m) ==
    IF Cardinality(S) < m THEN {S}
    ELSE {R \in SUBSET S : \A j \in S :
            LET earlier == {k \in R : Before(i, k, j)} IN
            j \in R <=> HasRoom(earlier, m) /\ \A k \in earlier : D(k, j) >= D(i, j)}

\* The first point is inserted before the threads start.
InsertInit ==
    /\ next = 1
    /\ label = [i \in {0} |-> 0]
    /\ lev \in [{0} -> Draws[0]]
    /\ father = [i \in {0} |-> 0]
    /\ links = [l \in 0 .. TopDraw |-> [i \in {0} |-> {}]]
    /\ enter = 0 /\ top = lev[0]
    /\ global = None
    /\ work = [t \in Threads |-> Idle]
    /\ proj = None

At(t, a) == work[t].at = a
Become(t, w) == work' = [work EXCEPT ![t] = w]

\* Mutant: a point's own lists are not locked.
NeverLocked(i) == FALSE

\* The lists of a point are locked while it is being inserted.
Locked(i) == \E t \in Threads : work[t].node = i

\* i = next++, and the part of addPoint under the label lock: the point enters
\* the tables as its own father, not yet in any list.
Take(t) ==
    /\ At(t, "idle") /\ next <= LastPoint
    /\ next' = next + 1
    /\ Become(t, [Idle EXCEPT !.at = "add", !.obj = next])
    /\ UNCHANGED <<graph, global, proj>>

Enter(t) ==
    /\ At(t, "add")
    /\ LET i == Cardinality(Ids)
           new == Ids \cup {i} IN
       /\ label' = [j \in new |-> IF j = i THEN work[t].obj ELSE label[j]]
       /\ \E d \in Draws[work[t].obj] : lev' = [j \in new |-> IF j = i THEN d ELSE lev[j]]
       /\ father' = [j \in new |-> IF j = i THEN i ELSE father[j]]
       /\ links' = [l \in DOMAIN links |-> [j \in new |-> IF j = i THEN {} ELSE links[l][j]]]
       /\ Become(t, [Idle EXCEPT !.at = "look", !.node = i])
    /\ UNCHANGED <<next, enter, top, global, proj>>

\* Mutant: the lock is given back whatever the level.
Releases(l) == TRUE

\* The lock on the entry point is given back at once by a point that will not
\* be the highest.
KeepsNot(l) == l <= top

\* Read maxlevel_ under the lock ...
Look(t) ==
    /\ At(t, "look") /\ global = None
    /\ global' = IF KeepsNot(lev[work[t].node]) THEN None ELSE t
    /\ Become(t, [work[t] EXCEPT !.at = "start", !.cap = top])
    /\ UNCHANGED <<next, graph, proj>>

\* ... and enterpoint_node_ after it, when it may have changed.
Start(t) ==
    /\ At(t, "start")
    /\ LET w == work[t] IN
       Become(t, IF lev[w.node] < w.cap
                 THEN [w EXCEPT !.at = "descend", !.obj = enter, !.l = w.cap]
                 ELSE [w EXCEPT !.at = "search", !.l = w.cap, !.obj = enter,
                                !.found = {enter}, !.seen = {enter}, !.open = {enter}])
    /\ UNCHANGED <<next, graph, global, proj>>

AtOwnLevel(t) == work[t].l = lev[work[t].node]

\* One pass of the greedy descent on the layers above the point.
Descend(t) ==
    /\ At(t, "descend") /\ ~ AtOwnLevel(t)
    /\ LET w == work[t]
           best == Closest(w.node, {w.obj} \cup links[w.l][w.obj]) IN
       /\ ~ Locked(w.obj)
       /\ Become(t, IF best = w.obj THEN [w EXCEPT !.l = w.l - 1] ELSE [w EXCEPT !.obj = best])
    /\ UNCHANGED <<next, graph, global, proj>>

\* The point it ends at is the father.
Adopt(t) ==
    /\ At(t, "descend") /\ AtOwnLevel(t)
    /\ LET w == work[t] IN
       /\ father' = [father EXCEPT ![w.node] = w.obj]
       /\ Become(t, [w EXCEPT !.at = "search", !.found = {w.obj}, !.seen = {w.obj}, !.open = {w.obj}])
    /\ UNCHANGED <<next, label, lev, links, enter, top, global, proj>>

\* The Efc nearest, whichever way ties fall.
Nearest(i, S) ==
    IF Cardinality(S) <= Efc THEN {S}
    ELSE {K \in SUBSET S : Cardinality(K) = Efc /\ \A j \in K, k \in S \ K : D(i, j) <= D(i, k)}

\* A search ends at a candidate farther than all of Efc found.
InReach(i, S, kept) ==
    {j \in S : Cardinality(kept) < Efc \/ \E k \in kept : D(i, j) <= D(i, k)}

\* searchBaseLayer on one layer, nearest candidate first.  Of the neighbours met
\* for the first time it takes those that are near enough when their turn comes.
Search(t) ==
    /\ At(t, "search") /\ work[t].open # {}
    /\ LET w == work[t]
           u == Closest(w.node, w.open)
           met == links[w.l][u] \ w.seen IN
       /\ ~ Locked(u)
       /\ \E kept \in Nearest(w.node, w.found \cup met), taken \in SUBSET met :
             /\ met \cap kept \subseteq taken
             /\ Become(t, [w EXCEPT !.found = kept, !.seen = @ \cup met,
                            !.open = InReach(w.node, (@ \ {u}) \cup taken, kept)])
    /\ UNCHANGED <<next, graph, global, proj>>

\* Mutant: a neighbour on any layer may become the father.
AnyLevel(i, S) == S

\* A link on the point's own layer to one that is also on a higher layer and
\* nearer than the father makes it the father.
Higher(i, S) == {j \in S : lev[j] > lev[i]}
Nearer(i, S) ==
    LET best == Closest(i, S) IN
    IF S = {} \/ (father[i] # i /\ D(i, father[i]) <= D(i, best)) THEN father[i] ELSE best

Refined(i, l, S) ==
    IF l = lev[i] THEN [father EXCEPT ![i] = Nearer(i, Higher(i, S))] ELSE father

\* mutuallyConnectNewElement, first half: the list of the new point.
Choose(t) ==
    /\ At(t, "search") /\ work[t].open = {}
    /\ LET w == work[t] IN
       \E list \in Selected(w.node, w.found, MaxM) :
          /\ links' = [links EXCEPT ![w.l][w.node] = list]
          /\ father' = Refined(w.node, w.l, list)
          /\ Become(t, [w EXCEPT !.at = "link", !.found = list, !.seen = {}, !.todo = list])
    /\ UNCHANGED <<next, label, lev, enter, top, global, proj>>

\* Second half: the lists of its neighbours, one lock at a time.  A full one is
\* chosen anew, which may also find its point a nearer father.
Link(t) ==
    /\ At(t, "link")
    /\ LET w == work[t] IN
       \E e \in w.todo :
          LET list == links[w.l][e] IN
          /\ ~ Locked(e)
          /\ \/ /\ Cardinality(list) < Most(w.l)
                /\ links' = [links EXCEPT ![w.l][e] = list \cup {w.node}]
                /\ father' = father
             \/ /\ Cardinality(list) >= Most(w.l)
                /\ \E again \in Selected(e, list \cup {w.node}, Most(w.l)) :
                      /\ links' = [links EXCEPT ![w.l][e] = again]
                      /\ father' = Refined(e, w.l, again)
          /\ Become(t, [w EXCEPT !.todo = @ \ {e}])
    /\ UNCHANGED <<next, label, lev, enter, top, global, proj>>

\* The search on the next layer starts at the nearest neighbour.
NextLayer(t) ==
    /\ At(t, "link") /\ work[t].todo = {} /\ work[t].l > 0
    /\ LET w == work[t]
           obj == Closest(w.node, w.found) IN
       Become(t, [w EXCEPT !.at = "search", !.l = w.l - 1, !.obj = obj,
                           !.found = {obj}, !.seen = {obj}, !.open = {obj}])
    /\ UNCHANGED <<next, graph, global, proj>>

\* Mutant: the lock on the entry point is kept.
KeptLock(t) == global

GivenBack(t) == IF global = t THEN None ELSE global

Inserted(t) ==
    /\ At(t, "link") /\ work[t].todo = {} /\ work[t].l = 0
    /\ LET w == work[t] IN
       IF lev[w.node] > w.cap THEN enter' = w.node /\ top' = lev[w.node]
       ELSE UNCHANGED <<enter, top>>
    /\ global' = GivenBack(t)
    /\ Become(t, Idle)
    /\ UNCHANGED <<next, label, lev, father, links, proj>>

Step(t) ==
    \/ Take(t) \/ Enter(t) \/ Look(t) \/ Start(t) \/ Descend(t) \/ Adopt(t)
    \/ Search(t) \/ Choose(t) \/ Link(t) \/ NextLayer(t) \/ Inserted(t)

Joined == next > LastPoint /\ \A t \in Threads : At(t, "idle")

\* Mutant: fathers keep their internal ids.
RawName(i) == i

\* getExternalLabel.
Name(i) == label[i]
InternalOf(p) == CHOOSE i \in Ids : label[i] = p

\* project: levels, fathers and lists under base ids.
Project ==
    /\ Joined /\ proj = None
    /\ proj' = [level |-> [p \in Base |-> lev[InternalOf(p)]],
                father |-> [p \in Base |-> Name(father[InternalOf(p)])],
                nbr |-> [l \in 0 .. top |-> [p \in Base |->
                            {label[j] : j \in links[l][InternalOf(p)]}]],
                entry |-> label[enter]]
    /\ UNCHANGED <<next, graph, global, work>>

InsertNext == Project \/ \E t \in Threads : Step(t)

(***************************************************************************)
(* Properties.                                                             *)
(***************************************************************************)

\* None of the exceptions of an insertion is thrown, in whatever order the
\* threads run: the list a point is about to fill is empty, no point is offered
\* itself, nothing is linked on a layer it is not on, and no list has more
\* points than it may hold.
NeverThrows ==
    /\ \A t \in Threads :
        LET w == work[t] IN
        /\ w.at = "search" => links[w.l][w.node] = {}
        /\ w.at \in {"search", "link"} =>
              w.node \notin w.found /\ \A j \in w.found : lev[j] >= w.l
        /\ w.at = "link" => Cardinality(w.found) <= MaxM
    /\ \A l \in DOMAIN links : \A i \in Ids : Cardinality(links[l][i]) <= Most(l)

\* A father lies on a higher layer than its child, in the projected index too
\* (tests/region_test.cpp:67), so that the fathers form a forest.
FathersAbove ==
    /\ \A i \in Ids : father[i] # i => lev[father[i]] > lev[i]
    /\ proj # None =>
          \A p \in Base : proj.father[p] # p => proj.level[proj.father[p]] > proj.level[p]

\* Every layer of the finished index that has no more points than the list of
\* one of them can name hangs together: whoever was inserted at the same time,
\* all its points can be reached from the entry point.  A larger layer may lose
\* the last link to a point when a full list is chosen anew.
LayersConnected ==
    proj # None =>
        \A l \in 0 .. top :
            LET on == {p \in Base : proj.level[p] >= l} IN
            Cardinality(on) <= Most(l) + 1 =>
                \A S \in SUBSET Base :
                    proj.entry \in S /\ (\A p \in S : proj.nbr[l][p] \subseteq S)
                        => on \subseteq S
=============================================================================
