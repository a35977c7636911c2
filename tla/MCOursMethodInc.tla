--------------------------- MODULE MCOursMethodInc ---------------------------
(***************************************************************************)
(* The driver over the one-tree and the two-tree forests of MCHistForest:  *)
(* the build leaves room for one or two later additions.                   *)
(***************************************************************************)
EXTENDS OursMethodInc, MCHistForest

\* base_to_internal_ after a parallel build that stored points 0 and 1 in the
\* other order.
Swapped == [p \in Pts |-> IF p = 0 THEN 1 ELSE IF p = 1 THEN 0 ELSE p]

\* Single atoms suffice to tell a dropped point.
AtomQueries == {{{a}} : a \in Atoms}

\* Ranges that begin beyond the last edge of the build: a satisfying value lies
\* in the last bucket, the histogram counts none.
Beyond == {[col |-> col, vals |-> {1}, counted |-> {}] : col \in Col}

\* One conjunction whose estimate rounds away, alone and beside another clause.
FaintClause == {[col |-> col, vals |-> {0}, counted |-> {0}] : col \in Col} \cup Beyond
NoFaint == {}
OneFaint == {FaintClause, {[col |-> col, vals |-> {0}, counted |-> {0}] : col \in Col}}
SkipQueries == {{{a}} : a \in Atoms \cup Beyond} \cup {{{a}, c} : a \in Atoms \cup Beyond, c \in OneFaint}

DriverPresence == <<PresenceView, pending, erased, copies, switches>>
DriverCounts == <<CountView, regionOf, pending, erased, copies, switches>>
=============================================================================
