---------------------------- MODULE OursMethodInc ----------------------------
(***************************************************************************)
(* The incremental maintenance interface of the Selera driver (OursMethod, *)
(* harness/method) around the statistics of HistForest, together with the  *)
(* copies its searcher keeps: OursSearch packs the region id of each point *)
(* into pack_[].rid when it is constructed, and builds the member slice of *)
(* each region (mcsr_perm_) and their adjacency (tadj_dst_) on demand.     *)
(*                                                                         *)
(* The driver runs one call at a time.  The caller updates and deletes     *)
(* only points it has flushed, and does not search while the tables have   *)
(* to be built and additions are pending.                                  *)
(***************************************************************************)
EXTENDS HistForest

CONSTANTS
    Toggles,   \* whether the caller changes switches during maintenance
    Faint      \* conjunctions so selective that 1 - sel_Cj rounds to 1

VARIABLES
    pending,      \* pending_adds_: added to the graph, not yet flushed
    erased,       \* the points inc_delete was called for
    packRid,      \* pack_[].rid of the points the searcher was built with
    arrayRegions, \* n_regions when the searcher sized its arrays
    tadjBuilt,    \* tadj_built_
    sliceOf,      \* the region whose member slice holds a point
    histStaled,   \* hist_staled_
    transitCfg,   \* transit_skip_cfg_
    presenceCfg,  \* use_presence_cfg_, which the searcher copies
    transitSkip   \* the searcher's transit_skip_

switches == <<histStaled, transitCfg, presenceCfg, transitSkip>>
copies == <<packRid, arrayRegions, tadjBuilt, sliceOf>>
incVars == <<vars, pending, erased, copies, switches>>

IncInit ==
    /\ Init
    /\ pending = << >>
    /\ erased = {}
    /\ packRid = regionOf
    /\ arrayRegions = nreg
    /\ tadjBuilt = FALSE
    /\ sliceOf = << >>
    /\ histStaled = FALSE
    /\ transitCfg \in BOOLEAN
    /\ presenceCfg \in BOOLEAN
    /\ transitSkip = transitCfg

\* Mutant: a replaced searcher forgets that the histograms are stale.
FreshSearcherSkips ==
    /\ packRid' = regionOf'
    /\ arrayRegions' = nreg'
    /\ tadjBuilt' = FALSE
    /\ transitSkip' = transitCfg
    /\ UNCHANGED sliceOf

\* Mutant: flushing keeps the searcher and only drops its tables.
SameSearcher ==
    /\ tadjBuilt' = FALSE
    /\ UNCHANGED <<packRid, arrayRegions, sliceOf, transitSkip>>

\* rebuild_searcher_: every copy is taken anew, every switch is set again.
NewSearcher ==
    /\ packRid' = regionOf'
    /\ arrayRegions' = nreg'
    /\ tadjBuilt' = FALSE
    /\ transitSkip' = (transitCfg /\ ~ histStaled')
    /\ UNCHANGED sliceOf

\* Mutant: only the tables are dropped, however many regions there are now.
OnlyInvalidate(skip) ==
    /\ tadjBuilt' = FALSE
    /\ transitSkip' = skip
    /\ UNCHANGED <<packRid, arrayRegions, sliceOf>>

\* Mutant: the tables survive an operation that moved points.
KeepTables(skip) ==
    IF nreg' > nreg THEN NewSearcher
    ELSE /\ transitSkip' = skip
         /\ UNCHANGED <<packRid, arrayRegions, tadjBuilt, sliceOf>>

\* rebuild_tree and its callers report whether region ids were added; only
\* then is the searcher replaced, else its tables are dropped.
AfterMaintenance(skip) ==
    IF nreg' > nreg THEN NewSearcher
    ELSE /\ tadjBuilt' = FALSE
         /\ transitSkip' = skip
         /\ UNCHANGED <<packRid, arrayRegions, sliceOf>>

\* inc_add: the next id enters the graph at once, the statistics wait.
IncAdd(p, v) ==
    /\ p \in Pts \ (flushed \cup DOMAIN pending)
    /\ \A q \in Pts \ (flushed \cup DOMAIN pending) : p <= q
    /\ pending' = [q \in DOMAIN pending \cup {p} |-> IF q = p THEN v ELSE pending[q]]
    /\ UNCHANGED <<vars, erased, copies, switches>>

\* inc_flush: reproject, on_insert of each pending point, a new searcher.
IncFlush(a) ==
    /\ pending # << >>
    /\ Insert(DOMAIN pending, pending, a)
    /\ pending' = << >>
    /\ UNCHANGED <<erased, histStaled, transitCfg, presenceCfg>>
    /\ NewSearcher

\* Mutant: updates are taken to leave the histograms good enough to skip by.
NeverStale == FALSE

\* An update goes past the histograms with no presence bitmap to catch it.
GoesStale == ~ presenceCfg /\ ~ histStaled

\* inc_update: the first such update ends transit skips for good.
IncUpdate(p, col, new) ==
    /\ histStaled' = (histStaled \/ GoesStale)
    /\ Update(p, col, new)
    /\ AfterMaintenance(transitSkip /\ ~ GoesStale)
    /\ UNCHANGED <<pending, erased, transitCfg, presenceCfg>>

IncDelete(p) ==
    /\ Delete(p)
    /\ erased' = erased \cup {p}
    /\ UNCHANGED <<pending, histStaled, transitCfg, presenceCfg>>
    /\ AfterMaintenance(transitSkip)

\* inc_rebuild_tree: unless regions were added, the searcher is left alone.
IncRebuild(t) ==
    /\ Rebuild(t)
    /\ UNCHANGED <<pending, erased, histStaled, transitCfg, presenceCfg>>
    /\ IF nreg' > nreg THEN NewSearcher ELSE UNCHANGED <<copies, transitSkip>>

SetTransitSkip(b) ==
    /\ Toggles
    /\ transitCfg' = b
    /\ transitSkip' = (b /\ ~ histStaled)
    /\ UNCHANGED <<vars, pending, erased, copies, histStaled, presenceCfg>>

SetUsePresence(b) ==
    /\ Toggles
    /\ presenceCfg' = b
    /\ UNCHANGED <<vars, pending, erased, copies, histStaled, transitCfg, transitSkip>>

\* The first search after the tables were dropped builds them (build_tadj_).
SearchBuildsTables ==
    /\ ~ tadjBuilt
    /\ pending = << >>
    /\ tadjBuilt' = TRUE
    /\ sliceOf' = regionOf
    /\ UNCHANGED <<vars, pending, erased, packRid, arrayRegions, switches>>

\* The calls of the maintenance experiments: insert, update, delete, search.
MaintNext ==
    \/ \E p \in Pts, v \in Tuple : IncAdd(p, v)
    \/ \E a \in [DOMAIN pending -> Cand \cup {None}] : IncFlush(a)
    \/ \E p \in flushed, col \in Col : \E new \in Value(col) : IncUpdate(p, col, new)
    \/ \E p \in flushed : IncDelete(p)
    \/ \E b \in BOOLEAN : SetTransitSkip(b) \/ SetUsePresence(b)
    \/ SearchBuildsTables

IncNext == MaintNext \/ \E t \in Root : IncRebuild(t)

MaintSpec == IncInit /\ [][MaintNext]_incVars
IncSpec == IncInit /\ [][IncNext]_incVars

(***************************************************************************)
(* A search with transit_skip_ but without presence bitmaps reads an empty *)
(* histogram as "nothing here": sigma_hat looks at the row of the nearest  *)
(* ancestor that keeps one for the column (hist_node).                     *)
(***************************************************************************)
HistNode(r, col) ==
    LET keeps == {c \in Bound(rid) : rid[c] \in DOMAIN hist[col]}
    IN rid[Nearest(Owner(r, rid), keeps)]

\* sigma_hat is zero: nothing lies in the part of the histogram that the atom
\* covers within the edges.  (A GT atom over an empty row answers 1, not 0, and
\* is skipped less than stated here.)
SigmaZero(r, a) ==
    LET node == HistNode(r, a.col) IN
    \/ size[node] = 0
    \/ \A b \in a.counted : hist[a.col][node][b] = 0

\* sel_dnf is zero: every clause has an atom at zero, or rounds away.
SelZero(r, q) == \A clause \in q : clause \in Faint \/ \E a \in clause : SigmaZero(r, a)

\* The histograms count the values by which p satisfies the clause.
CountedIn(p, clause) == \A a \in clause : val[p][a.col] \in a.vals \cap a.counted

(***************************************************************************)
(* Properties.                                                             *)
(***************************************************************************)

\* The driver's own variables have their types; the packed ids cover exactly
\* the points that were flushed when the searcher was made.
IncTypeOK ==
    /\ DOMAIN pending \subseteq Pts \ flushed /\ pending \in [DOMAIN pending -> Tuple]
    /\ erased \subseteq flushed
    /\ packRid \in [flushed -> Nat]
    /\ arrayRegions \in Nat
    /\ tadjBuilt \in BOOLEAN
    /\ tadjBuilt => sliceOf \in [flushed -> Nat]
    /\ {histStaled, transitCfg, presenceCfg, transitSkip} \subseteq BOOLEAN

\* Every region id a search can meet, through RegionMap, through a packed id or
\* through the tables, lies within the arrays the searcher was sized for: a
\* rebuild inside update or delete never outgrows a searcher that stays.
ArraysFit ==
    \A p \in flushed :
        /\ regionOf[p] < arrayRegions
        /\ packRid[p] < arrayRegions
        /\ tadjBuilt => sliceOf[p] < arrayRegions

\* Once updates have gone past the histograms while no presence bitmap was in
\* effect, no searcher, however often it is replaced or its switches are set,
\* skips points on the word of a histogram.
StaleNeverSkips == histStaled => ~ transitSkip

\* As long as the caller leaves the presence switch alone, what transit_skip_
\* skips without presence bitmaps (estimated selectivity zero) holds no live
\* point that the histograms could have told: one that has a candidate ancestor
\* and satisfies a clause that does not round away, with values they count.
\* Insertions, lazy deletes and rebuilds in between never make a skip hide one.
HistSkipSafe ==
    transitSkip /\ ~ presenceCfg =>
        \A q \in Queries : \A p \in Live : \A clause \in q \ Faint :
            fca[p] # None /\ CountedIn(p, clause) => ~ SelZero(regionOf[p], q)

\* A flood sweeps the member slice of a region: the slices list every live
\* point under its present region (Algorithm 4: refresh membership slices).
SlicesCurrent == tadjBuilt => \A p \in Live : sliceOf[p] = regionOf[p]

\* With presence bitmaps in use, a search that meets a point across an edge asks
\* region_empty(pack_[].rid) and if so drops it unseen: that must lose no live
\* point that satisfies the predicate (Theorem 4.1: no closer satisfying point
\* is missed).
NoSatisfyingPointDropped ==
    presenceCfg =>
        \A q \in Queries : \A p \in Live : DnfEmpty(packRid[p], q) => ~ MaySatisfy(p, q)

\* Every point the caller deleted is tombstoned (Algorithm 4, Delete).
ErasedAreTombstoned == erased \subseteq deleted
=============================================================================
