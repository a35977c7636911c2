----------------------------- MODULE SearchEpochs -----------------------------
(***************************************************************************)
(* The epochs of an OursSearch.  A search clears nothing: it takes the     *)
(* next epoch, and an entry of an array is set when it holds that epoch.   *)
(* The arrays fall into families by who clears them when the 32-bit epoch  *)
(* wraps; the visit marks have 8 bits and an epoch of their own.           *)
(*   shared   stamp_, considered_, pstamp_                                 *)
(*   run      svis_, chain_stamp_, ppush_stamp_                            *)
(*   domain   svis2_, rtype_, ent_, absorbed_, w_, rc_stamp_, dnf_tr_*     *)
(*   tables   tvis_region_, mb_stamp_: only build_tadj_ clears them        *)
(***************************************************************************)
EXTENDS Integers

CONSTANTS Wrap8, Wrap32      \* 2^8 and 2^32 in the code

ASSUME EpochAssumption == Wrap8 \in Nat /\ Wrap32 \in Nat /\ Wrap8 > 1 /\ Wrap32 > 1

Families == {"shared", "run", "domain", "tables"}
Searches == {"run", "domain"}

VARIABLES
    epoch,      \* epoch_
    vepoch,     \* vepoch8_
    marks,      \* marks[a]: the epochs that may be found in family a
    vis,        \* the visit epochs that may be found in pack_
    built,      \* tadj_built_
    searching,  \* the search that runs, "none" between searches
    missed      \* the families that the last wrap left as they were

epochVars == <<epoch, vepoch, marks, vis, built, searching, missed>>

EpochInit ==
    /\ epoch = 0 /\ vepoch = 0
    /\ marks = [a \in Families |-> {}] /\ vis = {}
    /\ built = FALSE /\ searching = "none" /\ missed = {}

\* The families that search s fills with zeros when the epoch wraps.
Clears(s) == {"shared", s}

\* Mutant: the visit marks are cleared with the 32-bit epoch only.
VisKept(v) == FALSE

\* The visit marks are cleared when their epoch wraps.
VisCleared(v) == v = 0

\* Mutant: epoch 0 is used.
AnyEpoch(e) == e

\* An epoch never is 0 in a search: that is what cleared arrays hold.
NonZero(e) == IF e = 0 THEN 1 ELSE e

\* ++ on an unsigned counter of w values.
Advance(e, w) == IF e + 1 = w THEN 0 ELSE e + 1

\* Epochs are advanced; the domain search builds its tables if it needs them and
\* has none; on a wrap the arrays are cleared.
Begin(s) ==
    LET e == Advance(epoch, Wrap32)
        v == Advance(vepoch, Wrap8) IN
    /\ searching = "none"
    /\ searching' = s
    /\ epoch' = NonZero(e) /\ vepoch' = NonZero(v)
    /\ vis' = IF VisCleared(v) \/ e = 0 THEN {} ELSE vis
    /\ \E needed \in IF s = "domain" THEN BOOLEAN ELSE {FALSE} :
         LET fresh == IF needed /\ ~ built THEN {"tables"} ELSE {}
             cleared == IF e = 0 THEN Clears(s) ELSE {} IN
         /\ built' = (built \/ needed)
         /\ marks' = [a \in Families |-> IF a \in fresh \cup cleared THEN {} ELSE marks[a]]
         /\ missed' = (IF e = 0 THEN Families \ cleared ELSE missed) \ fresh

\* An entry of a family the search uses, and a visited point.
Mark(a) ==
    /\ searching # "none"
    /\ a \in {"shared", searching} \cup IF searching = "domain" /\ built THEN {"tables"} ELSE {}
    /\ marks' = [marks EXCEPT ![a] = @ \cup {epoch}]
    /\ UNCHANGED <<epoch, vepoch, vis, built, searching, missed>>

Visit ==
    /\ searching # "none"
    /\ vis' = vis \cup {vepoch}
    /\ UNCHANGED <<epoch, vepoch, marks, built, searching, missed>>

End ==
    /\ searching # "none"
    /\ searching' = "none"
    /\ UNCHANGED <<epoch, vepoch, marks, vis, built, missed>>

\* invalidate_tadj, when the regions have changed.
Invalidate ==
    /\ searching = "none" /\ built
    /\ built' = FALSE
    /\ UNCHANGED <<epoch, vepoch, marks, vis, searching, missed>>

\* rebuild_searcher_: a new OursSearch.
Renew ==
    /\ searching = "none"
    /\ epoch' = 0 /\ vepoch' = 0
    /\ marks' = [a \in Families |-> {}] /\ vis' = {}
    /\ built' = FALSE /\ missed' = {}
    /\ UNCHANGED searching

EpochNext ==
    \/ \E s \in Searches : Begin(s)
    \/ \E a \in Families : Mark(a)
    \/ Visit \/ End \/ Invalidate \/ Renew

EpochSpec == EpochInit /\ [][EpochNext]_epochVars

\* A search starts with nothing marked: no point is visited, considered or
\* measured, however many searches ran before.  What the last wrap left alone is
\* excepted; the shared arrays and the visit marks never are.
MarksFresh ==
    [][searching = "none" /\ searching' # "none" =>
          /\ vepoch' \notin vis'
          /\ "shared" \notin missed'
          /\ \A a \in Families \ missed' : epoch' \notin marks'[a]]_epochVars
=============================================================================
