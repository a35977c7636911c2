------------------------ MODULE OursMethodInc_proofs ------------------------
(***************************************************************************)
(* Proofs about the maintenance interface: each of its calls is a step of  *)
(* the statistics or leaves them alone, the searcher's copies stay within  *)
(* its arrays, and its transit skips never rest on a stale histogram.      *)
(***************************************************************************)
EXTENDS OursMethodInc, HistForest_proofs

(***************************************************************************)
(* The driver implements the statistics it drives.                         *)
(***************************************************************************)

\* The inductive invariant behind the driver's types.
IncInv == TypeInv /\ IncTypeOK

\* Every call is a step of the statistics, or leaves them alone.
LEMMA CallIsStep ==
    ASSUME IncInv, [IncNext]_incVars
    PROVE  [Next]_vars
<1>1. ASSUME NEW a \in [DOMAIN pending -> Cand \cup {None}], IncFlush(a)
      PROVE  Next
  <2>1. /\ DOMAIN pending \subseteq Pts \ flushed /\ pending \in [DOMAIN pending -> Tuple]
        /\ Insert(DOMAIN pending, pending, a) /\ pending # << >>
    BY <1>1 DEF IncFlush, IncInv, IncTypeOK
  <2>2. DOMAIN pending # {}
    <3>1. DOMAIN pending = {} => pending = << >>
      BY <2>1
    <3>. QED BY <2>1, <3>1
  <2>3. DOMAIN pending \in (SUBSET (Pts \ flushed)) \ {{}}
    BY <2>1, <2>2
  <2>. QED BY <2>1, <2>3 DEF Next
<1>2. ASSUME NEW p \in flushed, NEW col \in Col, NEW new \in Value(col), IncUpdate(p, col, new)
      PROVE  Next
  BY <1>2 DEF IncUpdate, Next
<1>3. ASSUME NEW p \in flushed, IncDelete(p)
      PROVE  Next
  BY <1>3 DEF IncDelete, Next
<1>4. ASSUME NEW t \in Root, IncRebuild(t)
      PROVE  Next
  BY <1>4 DEF IncRebuild, Next
<1>5. CASE UNCHANGED incVars
  BY <1>5 DEF incVars
<1>. QED BY <1>1, <1>2, <1>3, <1>4, <1>5
         DEF IncNext, MaintNext, IncAdd, SetTransitSkip, SetUsePresence, SearchBuildsTables

\* The searcher's copies of the region ids.
CopiesOK ==
    /\ packRid \in [flushed -> Nat]
    /\ arrayRegions \in Nat
    /\ tadjBuilt \in BOOLEAN
    /\ tadjBuilt => sliceOf \in [flushed -> Nat]

\* Region ids are naturals.
LEMMA RegionsAreNat ==
    ASSUME TypeInv
    PROVE  regionOf \in [flushed -> Nat] /\ nreg \in Nat
BY DEF TypeInv, TypeOK

LEMMA RegionsFitNext ==
    TypeInv' => /\ nreg' \in Nat /\ regionOf' \in [flushed' -> Nat]
                /\ \A p \in flushed' : regionOf'[p] < nreg'
BY DEF TypeInv, TypeOK

\* A searcher that is replaced takes its copies from the tables.
LEMMA NewSearcherCopies ==
    ASSUME TypeInv', NewSearcher
    PROVE  CopiesOK'
BY RegionsFitNext DEF NewSearcher, CopiesOK

\* The switches.
SwitchesOK == {histStaled, transitCfg, presenceCfg, transitSkip} \subseteq BOOLEAN

\* The types of the driver's own variables.
LEMMA NextIncInv == IncInv /\ [IncNext]_incVars => IncInv'
<1>. SUFFICES ASSUME IncInv, [IncNext]_incVars PROVE IncInv'
  OBVIOUS
<1>1. TypeInv' /\ TypeInv /\ IncTypeOK /\ CopiesOK /\ SwitchesOK
  BY CallIsStep, NextTypeInv DEF IncInv, IncTypeOK, CopiesOK, SwitchesOK
<1>2. ASSUME NEW p \in Pts, NEW v \in Tuple, IncAdd(p, v)
      PROVE  IncTypeOK'
  <2>1. /\ p \in Pts \ flushed
        /\ pending' = [q \in DOMAIN pending \cup {p} |-> IF q = p THEN v ELSE pending[q]]
        /\ UNCHANGED <<vars, erased, copies, switches>>
    BY <1>2 DEF IncAdd
  <2>2. DOMAIN pending' \subseteq Pts \ flushed /\ pending' \in [DOMAIN pending' -> Tuple]
    BY <1>1, <2>1 DEF IncTypeOK
  <2>. QED BY <1>1, <2>1, <2>2 DEF IncTypeOK, vars, copies, switches
<1>3. ASSUME NEW a \in [DOMAIN pending -> Cand \cup {None}], IncFlush(a)
      PROVE  IncTypeOK'
  <2>1. /\ flushed' = flushed \cup DOMAIN pending
        /\ pending' = << >> /\ UNCHANGED <<erased, histStaled, transitCfg, presenceCfg>>
        /\ NewSearcher
    BY <1>3 DEF IncFlush, Insert
  <2>2. /\ DOMAIN pending' \subseteq Pts \ flushed' /\ pending' \in [DOMAIN pending' -> Tuple]
        /\ erased' \subseteq flushed'
    BY <1>1, <2>1 DEF IncTypeOK
  <2>3. CopiesOK'
    BY <1>1, <2>1, NewSearcherCopies
  <2>4. transitSkip' = (transitCfg /\ ~ histStaled')
    BY <2>1 DEF NewSearcher
  <2>5. SwitchesOK'
    BY <1>1, <2>1, <2>4 DEF SwitchesOK
  <2>. QED BY <2>2, <2>3, <2>5 DEF IncTypeOK, CopiesOK, SwitchesOK
<1>4. ASSUME NEW skip \in BOOLEAN, AfterMaintenance(skip), flushed' = flushed,
             UNCHANGED <<transitCfg, presenceCfg>>, histStaled' \in BOOLEAN
      PROVE  CopiesOK' /\ SwitchesOK'
  <2>1. CASE NewSearcher
    <3>1. transitSkip' = (transitCfg /\ ~ histStaled')
      BY <2>1 DEF NewSearcher
    <3>2. SwitchesOK'
      BY <1>1, <1>4, <3>1 DEF SwitchesOK
    <3>. QED BY <1>1, <2>1, <3>2, NewSearcherCopies
  <2>2. CASE /\ tadjBuilt' = FALSE /\ transitSkip' = skip
             /\ UNCHANGED <<packRid, arrayRegions, sliceOf>>
    BY <1>1, <1>4, <2>2 DEF CopiesOK, SwitchesOK
  <2>. QED BY <1>4, <2>1, <2>2 DEF AfterMaintenance
<1>5. ASSUME NEW p \in flushed, NEW col \in Col, NEW new \in Value(col), IncUpdate(p, col, new)
      PROVE  IncTypeOK'
  <2>1. /\ flushed' = flushed /\ UNCHANGED <<pending, erased, transitCfg, presenceCfg>>
        /\ histStaled' = (histStaled \/ GoesStale)
        /\ AfterMaintenance(transitSkip /\ ~ GoesStale)
    BY <1>5 DEF IncUpdate, Update
  <2>2. histStaled' \in BOOLEAN /\ (transitSkip /\ ~ GoesStale) \in BOOLEAN
    BY <2>1
  <2>3. CopiesOK' /\ SwitchesOK'
    BY <1>4, <2>1, <2>2
  <2>. QED BY <1>1, <2>1, <2>3 DEF IncTypeOK, CopiesOK, SwitchesOK
<1>6. ASSUME NEW p \in flushed, IncDelete(p)
      PROVE  IncTypeOK'
  <2>1. /\ flushed' = flushed /\ UNCHANGED <<pending, histStaled, transitCfg, presenceCfg>>
        /\ erased' = erased \cup {p}
        /\ AfterMaintenance(transitSkip)
    BY <1>6 DEF IncDelete, Delete
  <2>2. transitSkip \in BOOLEAN /\ histStaled' \in BOOLEAN
    BY <1>1, <2>1 DEF SwitchesOK
  <2>3. CopiesOK' /\ SwitchesOK'
    BY <1>4, <2>1, <2>2
  <2>. QED BY <1>1, <2>1, <2>3 DEF IncTypeOK, CopiesOK, SwitchesOK
<1>7. ASSUME NEW t \in Root, IncRebuild(t)
      PROVE  IncTypeOK'
  <2>1. /\ flushed' = flushed
        /\ UNCHANGED <<pending, erased, histStaled, transitCfg, presenceCfg>>
        /\ NewSearcher \/ UNCHANGED <<copies, transitSkip>>
    BY <1>7 DEF IncRebuild, Rebuild
  <2>2. CASE NewSearcher
    <3>1. transitSkip' = (transitCfg /\ ~ histStaled')
      BY <2>2 DEF NewSearcher
    <3>2. CopiesOK' /\ SwitchesOK'
      BY <1>1, <2>1, <2>2, <3>1, NewSearcherCopies DEF SwitchesOK
    <3>. QED BY <1>1, <2>1, <3>2 DEF IncTypeOK, CopiesOK, SwitchesOK
  <2>3. CASE UNCHANGED <<copies, transitSkip>>
    BY <1>1, <2>1, <2>3 DEF IncTypeOK, copies
  <2>. QED BY <2>1, <2>2, <2>3
<1>8. ASSUME NEW b \in BOOLEAN, SetTransitSkip(b) \/ SetUsePresence(b)
      PROVE  IncTypeOK'
  <2>1. UNCHANGED <<vars, pending, erased, copies, histStaled>>
    BY <1>8 DEF SetTransitSkip, SetUsePresence
  <2>2. transitCfg' \in BOOLEAN /\ presenceCfg' \in BOOLEAN /\ transitSkip' \in BOOLEAN
    BY <1>1, <1>8 DEF SetTransitSkip, SetUsePresence, SwitchesOK
  <2>3. SwitchesOK'
    BY <1>1, <2>1, <2>2 DEF SwitchesOK
  <2>. QED BY <1>1, <2>1, <2>3 DEF IncTypeOK, SwitchesOK, vars, copies
<1>9. ASSUME SearchBuildsTables
      PROVE  IncTypeOK'
  <2>1. regionOf \in [flushed -> Nat]
    BY <1>1, RegionsAreNat
  <2>. QED BY <1>1, <1>9, <2>1 DEF SearchBuildsTables, IncTypeOK, vars, switches
<1>10. ASSUME UNCHANGED incVars
       PROVE  IncTypeOK'
  BY <1>1, <1>10 DEF incVars, vars, copies, switches, IncTypeOK
<1>. QED BY <1>1, <1>2, <1>3, <1>5, <1>6, <1>7, <1>8, <1>9, <1>10 DEF IncInv, IncNext, MaintNext

LEMMA InitIncInv == IncInit => IncInv
<1>. SUFFICES ASSUME IncInit PROVE IncInv
  OBVIOUS
<1>1. TypeInv /\ regionOf \in [flushed -> Nat] /\ nreg \in Nat
  BY InitTypeInv, RegionsAreNat DEF IncInit
<1>2. /\ pending = << >> /\ erased = {} /\ packRid = regionOf /\ arrayRegions = nreg
      /\ tadjBuilt = FALSE /\ histStaled = FALSE /\ transitCfg \in BOOLEAN
      /\ presenceCfg \in BOOLEAN /\ transitSkip = transitCfg
  BY DEF IncInit
<1>3. SwitchesOK
  BY <1>2 DEF SwitchesOK
<1>4. DOMAIN pending = {} /\ pending \in [{} -> Tuple]
  BY <1>2
<1>. QED BY <1>1, <1>2, <1>3, <1>4 DEF IncInv, IncTypeOK, SwitchesOK

\* The variables of the driver hold values of their types, the packed ids of a
\* searcher cover exactly the flushed points, and only flushed points are ever
\* deleted (OursMethod's inc_ functions).
THEOREM DriverTypes == IncSpec => []IncTypeOK
<1>1. IncInv => IncTypeOK
  BY DEF IncInv
<1>. QED BY <1>1, InitIncInv, NextIncInv, PTL DEF IncSpec

LEMMA DriverInvariant == IncSpec => []IncInv
<1>. QED BY InitIncInv, NextIncInv, PTL DEF IncSpec

\* The driver implements the statistics: whatever it does to them between two
\* searches is one of their operations, so all that holds of the statistics
\* holds of them under the driver (inc_flush, inc_update, inc_delete,
\* inc_rebuild_tree).
THEOREM DriverImplementsStatistics == IncSpec => Spec
<1>1. IncInit => Init
  BY DEF IncInit
<1>2. IncInv /\ [IncNext]_incVars => [Next]_vars
  BY CallIsStep
<1>. QED BY <1>1, <1>2, DriverInvariant, PTL DEF IncSpec, Spec

\* The searches of the maintenance experiments are driven without rebuilds on
\* request.
LEMMA MaintIsInc == MaintSpec => IncSpec
<1>1. [MaintNext]_incVars => [IncNext]_incVars
  BY DEF IncNext
<1>. QED BY <1>1, PTL DEF MaintSpec, IncSpec

(***************************************************************************)
(* The searcher's copies.                                                  *)
(***************************************************************************)

\* The inductive invariant behind the array bounds: the arrays are sized for
\* exactly the region ids that exist.
FitInv == IncInv /\ arrayRegions = nreg /\ ArraysFit

\* What a replaced searcher packs fits its arrays.
LEMMA NewSearcherFits ==
    ASSUME TypeInv', NewSearcher
    PROVE  arrayRegions' = nreg' /\ ArraysFit'
BY RegionsFitNext DEF NewSearcher, ArraysFit

\* Copies of a searcher that stays still fit when no region was added.
LEMMA KeptSearcherFits ==
    ASSUME FitInv, TypeInv', flushed' = flushed, nreg' = nreg,
           UNCHANGED <<packRid, arrayRegions, sliceOf>>, tadjBuilt' => tadjBuilt
    PROVE  arrayRegions' = nreg' /\ ArraysFit'
BY RegionsFitNext DEF FitInv, ArraysFit

\* Region ids are only ever added.
LEMMA RegionsGrow ==
    ASSUME TypeInv, [Next]_vars
    PROVE  nreg' \in Nat /\ nreg' >= nreg
<1>1. nreg \in Nat
  BY DEF TypeInv, TypeOK
<1>2. \A p \in flushed : TreeOf(fca[p]) \in Root
  BY TreeOfType DEF TypeInv, TypeOK
<1>3. ASSUME NEW p \in flushed, NEW col \in Col, NEW new \in Value(col), Update(p, col, new)
      PROVE  nreg' = nreg \/ RebuildTree(TreeOf(fca[p]))
  BY <1>3 DEF Update
<1>4. ASSUME NEW p \in flushed, Delete(p)
      PROVE  nreg' = nreg \/ RebuildTree(TreeOf(fca[p]))
  BY <1>4 DEF Delete
<1>5. nreg' = nreg \/ \E t \in Root : RebuildTree(t)
  BY <1>2, <1>3, <1>4 DEF Next, Insert, Rebuild, vars
<1>. QED BY <1>1, <1>5, RebuildRids

LEMMA NextFitInv == FitInv /\ [IncNext]_incVars => FitInv'
<1>. SUFFICES ASSUME FitInv, [IncNext]_incVars PROVE FitInv'
  OBVIOUS
<1>1. IncInv /\ IncInv' /\ TypeInv /\ TypeInv' /\ [Next]_vars
  BY NextIncInv, CallIsStep DEF FitInv, IncInv
<1>2. nreg \in Nat /\ nreg' \in Nat /\ nreg' >= nreg
  BY <1>1, RegionsGrow DEF TypeInv, TypeOK
<1>. DEFINE Fits == arrayRegions' = nreg' /\ ArraysFit'
<1>3. ASSUME NewSearcher
      PROVE  Fits
  BY <1>1, <1>3, NewSearcherFits
<1>4. ASSUME NEW skip, AfterMaintenance(skip), flushed' = flushed
      PROVE  Fits
  <2>1. CASE nreg' > nreg
    BY <1>3, <1>4, <2>1 DEF AfterMaintenance
  <2>2. CASE ~ (nreg' > nreg)
    <3>1. nreg' = nreg
      BY <1>2, <2>2
    <3>2. tadjBuilt' = FALSE /\ UNCHANGED <<packRid, arrayRegions, sliceOf>>
      BY <1>4, <2>2 DEF AfterMaintenance
    <3>. QED BY <1>1, <1>4, <3>1, <3>2, KeptSearcherFits
  <2>. QED BY <2>1, <2>2
<1>5. ASSUME UNCHANGED <<vars, copies>>
      PROVE  Fits
  BY <1>1, <1>5, KeptSearcherFits DEF vars, copies
<1>6. ASSUME NEW a \in [DOMAIN pending -> Cand \cup {None}], IncFlush(a)
      PROVE  Fits
  BY <1>3, <1>6 DEF IncFlush
<1>7. ASSUME NEW p \in flushed, NEW col \in Col, NEW new \in Value(col), IncUpdate(p, col, new)
      PROVE  Fits
  <2>1. flushed' = flushed /\ AfterMaintenance(transitSkip /\ ~ GoesStale)
    BY <1>7 DEF IncUpdate, Update
  <2>. QED BY <1>4, <2>1
<1>8. ASSUME NEW p \in flushed, IncDelete(p)
      PROVE  Fits
  <2>1. flushed' = flushed /\ AfterMaintenance(transitSkip)
    BY <1>8 DEF IncDelete, Delete
  <2>. QED BY <1>4, <2>1
<1>9. ASSUME NEW t \in Root, IncRebuild(t)
      PROVE  Fits
  <2>1. CASE nreg' > nreg
    BY <1>3, <1>9, <2>1 DEF IncRebuild
  <2>2. CASE ~ (nreg' > nreg)
    <3>1. nreg' = nreg /\ flushed' = flushed /\ UNCHANGED copies
      BY <1>2, <1>9, <2>2 DEF IncRebuild, Rebuild
    <3>. QED BY <1>1, <3>1, KeptSearcherFits DEF copies
  <2>. QED BY <2>1, <2>2
<1>10. ASSUME SearchBuildsTables
       PROVE  Fits
  <2>1. /\ sliceOf' = regionOf /\ UNCHANGED <<packRid, arrayRegions>>
        /\ flushed' = flushed /\ nreg' = nreg /\ regionOf' = regionOf
    BY <1>10 DEF SearchBuildsTables, vars
  <2>2. \A p \in flushed : regionOf[p] < nreg
    BY <1>1, <1>2 DEF TypeInv, TypeOK
  <2>. QED BY <2>1, <2>2 DEF FitInv, ArraysFit
<1>11. Fits
  BY <1>5, <1>6, <1>7, <1>8, <1>9, <1>10
     DEF IncNext, MaintNext, IncAdd, SetTransitSkip, SetUsePresence, incVars
<1>. QED BY <1>1, <1>11 DEF FitInv

LEMMA InitFitInv == IncInit => FitInv
<1>. SUFFICES ASSUME IncInit PROVE FitInv
  OBVIOUS
<1>1. IncInv /\ TypeInv
  BY InitIncInv DEF IncInv
<1>2. packRid = regionOf /\ arrayRegions = nreg /\ tadjBuilt = FALSE
  BY DEF IncInit
<1>3. \A p \in flushed : regionOf[p] < nreg
  BY <1>1 DEF TypeInv, TypeOK
<1>. QED BY <1>1, <1>2, <1>3 DEF FitInv, ArraysFit

\* No region id that a search can read, fresh, packed or in a slice, lies beyond
\* the arrays of the searcher, although rebuilds inside updates and deletes add
\* regions behind its back (rebuild_searcher_, AfterMaintenance's callers).
THEOREM ArraysAlwaysFit == IncSpec => []ArraysFit
<1>1. FitInv => ArraysFit
  BY DEF FitInv
<1>. QED BY <1>1, InitFitInv, NextFitInv, PTL DEF IncSpec

\* The slices list every live point under its present region in every search of
\* the maintenance experiments, which never ask for a rebuild themselves: each
\* operation that can move points drops the tables (Algorithm 4).
THEOREM SlicesStayCurrent == MaintSpec => []SlicesCurrent
<1>1. IncInit => SlicesCurrent
  BY DEF IncInit, SlicesCurrent
<1>2. ASSUME SlicesCurrent, [MaintNext]_incVars
      PROVE  SlicesCurrent'
  <2>1. ASSUME UNCHANGED <<vars, copies>>
        PROVE  SlicesCurrent'
    BY <1>2, <2>1 DEF vars, copies, SlicesCurrent, Live
  <2>2. CASE SearchBuildsTables
    BY <2>2 DEF SearchBuildsTables, SlicesCurrent, Live, vars
  <2>3. CASE tadjBuilt' = FALSE
    BY <2>3 DEF SlicesCurrent
  <2>. QED BY <1>2, <2>1, <2>2, <2>3
           DEF MaintNext, IncAdd, IncFlush, IncUpdate, IncDelete, SetTransitSkip, SetUsePresence,
               NewSearcher, AfterMaintenance, incVars
<1>. QED BY <1>1, <1>2, PTL DEF MaintSpec

(***************************************************************************)
(* Transit skips.                                                          *)
(***************************************************************************)

\* A stale histogram ends transit skips.
LEMMA NextStale == IncInv /\ StaleNeverSkips /\ [IncNext]_incVars => StaleNeverSkips'
<1>. SUFFICES ASSUME IncInv, StaleNeverSkips, [IncNext]_incVars PROVE StaleNeverSkips'
  OBVIOUS
<1>1. CASE NewSearcher
  BY <1>1 DEF NewSearcher, StaleNeverSkips
<1>2. CASE UNCHANGED <<histStaled, transitSkip>>
  BY <1>2 DEF StaleNeverSkips
<1>3. ASSUME NEW p \in flushed, NEW col \in Col, NEW new \in Value(col), IncUpdate(p, col, new)
      PROVE  StaleNeverSkips'
  <2>1. /\ histStaled' = (histStaled \/ GoesStale)
        /\ AfterMaintenance(transitSkip /\ ~ GoesStale)
    BY <1>3 DEF IncUpdate
  <2>2. CASE transitSkip' = (transitSkip /\ ~ GoesStale)
    BY <2>1, <2>2 DEF StaleNeverSkips
  <2>. QED BY <1>1, <2>1, <2>2 DEF AfterMaintenance
<1>4. ASSUME NEW p \in flushed, IncDelete(p)
      PROVE  StaleNeverSkips'
  BY <1>1, <1>2, <1>4 DEF IncDelete, AfterMaintenance
<1>5. ASSUME NEW b \in BOOLEAN, SetTransitSkip(b)
      PROVE  StaleNeverSkips'
  BY <1>5 DEF SetTransitSkip, StaleNeverSkips
<1>. QED BY <1>1, <1>2, <1>3, <1>4, <1>5
         DEF IncNext, MaintNext, IncAdd, IncFlush, IncRebuild, SetUsePresence,
             SearchBuildsTables, switches, incVars

\* Once an update has gone past the histograms with no presence bitmap in effect,
\* no searcher skips points on the word of a histogram, however often it is
\* replaced and its switches are set again (hist_staled_).
THEOREM StaleEndsSkips == IncSpec => []StaleNeverSkips
<1>1. IncInit => StaleNeverSkips
  BY DEF IncInit, StaleNeverSkips
<1>. QED BY <1>1, NextStale, DriverInvariant, PTL DEF IncSpec

\* As long as the presence switch is left alone, histograms that no bitmap backs
\* and that are not marked stale have seen no update since they were counted.
RowsFresh == ~ presenceCfg /\ ~ histStaled => \A t \in Root : cntMod[t] = 0

LEMMA NextRowsFresh ==
    ASSUME ~ Toggles
    PROVE  IncInv /\ RowsFresh /\ [IncNext]_incVars => RowsFresh'
<1>. SUFFICES ASSUME IncInv, RowsFresh, [IncNext]_incVars PROVE RowsFresh'
  OBVIOUS
<1>1. /\ cntMod \in [Root -> Nat]
      /\ \A p \in flushed : TreeOf(fca[p]) \in Root
  BY TreeOfType DEF IncInv, TypeInv, TypeOK
<1>2. ASSUME NEW t \in Root, RebuildTree(t), UNCHANGED <<histStaled, presenceCfg>>
      PROVE  RowsFresh'
  <2>1. cntMod' = [cntMod EXCEPT ![t] = 0]
    BY <1>2 DEF RebuildTree
  <2>. QED BY <1>1, <1>2, <2>1 DEF RowsFresh
<1>3. CASE UNCHANGED <<cntMod, histStaled, presenceCfg>>
  BY <1>3 DEF RowsFresh
<1>4. ASSUME NEW p \in flushed, NEW col \in Col, NEW new \in Value(col), IncUpdate(p, col, new)
      PROVE  RowsFresh'
  <2>1. histStaled' = (histStaled \/ GoesStale) /\ presenceCfg' = presenceCfg
    BY <1>4 DEF IncUpdate
  <2>2. presenceCfg \/ histStaled'
    BY <2>1 DEF GoesStale
  <2>. QED BY <2>1, <2>2 DEF RowsFresh
<1>5. ASSUME NEW p \in flushed, IncDelete(p)
      PROVE  RowsFresh'
  <2>1. RebuildTree(TreeOf(fca[p])) \/ cntMod' = cntMod
    BY <1>5 DEF IncDelete, Delete
  <2>. QED BY <1>1, <1>2, <1>3, <1>5, <2>1 DEF IncDelete
<1>6. ASSUME NEW t \in Root, IncRebuild(t)
      PROVE  RowsFresh'
  BY <1>2, <1>6 DEF IncRebuild, Rebuild
<1>. QED BY <1>3, <1>4, <1>5, <1>6
         DEF IncNext, MaintNext, IncAdd, IncFlush, Insert, SetTransitSkip, SetUsePresence,
             SearchBuildsTables, switches, vars, incVars

\* A live point counts in the histogram that a search of its region looks at.
LEMMA NodeAbove ==
    ASSUME TypeInv, RidInjective, RootRows, RegionCurrent, NEW p \in Live, fca[p] # None,
           NEW col \in Col
    PROVE  \E c \in Bound(rid) :
              /\ HistNode(regionOf[p], col) = rid[c]
              /\ rid[c] \in DOMAIN hist[col]
              /\ p \in Below(c, Live, fca)
<1>. DEFINE a == fca[p]
            n == Nearest(a, Bound(rid))
            keeps == {c \in Bound(rid) : rid[c] \in DOMAIN hist[col]}
            m == Nearest(n, keeps)
<1>1. a \in Cand /\ p \in flushed /\ p \notin deleted
  BY DEF Live, TypeInv, TypeOK
<1>2. \A u \in Root : u \in Bound(rid) /\ u \in keeps
  BY DEF RootRows, Bound, Root
<1>3. n \in Anc[a] /\ n \in Bound(rid)
  <2>1. Anc[a] \cap Bound(rid) # {}
    BY <1>1, <1>2, RootOfFacts
  <2>2. PICK d \in Anc[a] \cap Bound(rid) : Anc[a] \cap Bound(rid) \subseteq Anc[d]
    BY <1>1, <2>1, NearestExists
  <2>3. d = n
    BY <1>1, <2>2, NearestUnique
  <2>. QED BY <2>2, <2>3
<1>4. regionOf[p] = rid[n]
  <2>1. Anc[a] \cap Bound(rid) # {}
    BY <1>3
  <2>. QED BY <2>1 DEF RegionCurrent, RegionFor
<1>5. Owner(rid[n], rid) = n /\ n \in Cand
  BY <1>3, OwnerOfBound, ForestAssumption DEF RidInjective, Bound
<1>6. m \in Anc[n] /\ m \in keeps
  <2>. HIDE DEF n, keeps
  <2>1. Anc[n] \cap keeps # {}
    BY <1>2, <1>5, RootOfFacts
  <2>2. PICK d \in Anc[n] \cap keeps : Anc[n] \cap keeps \subseteq Anc[d]
    BY <1>5, <2>1, NearestExists
  <2>3. d = m
    BY <1>5, <2>2, NearestUnique
  <2>. QED BY <2>2, <2>3
<1>7. HistNode(regionOf[p], col) = rid[m]
  BY <1>4, <1>5 DEF HistNode
<1>8. m \in Anc[a]
  BY <1>1, <1>3, <1>6, AncTransitive
<1>9. p \in Below(m, Live, fca)
  <2>. HIDE DEF m
  <2>. QED BY <1>8 DEF Below
<1>. HIDE DEF m
<1>. QED BY <1>6, <1>7, <1>9

\* What transit_skip_ skips without bitmaps hides no live point that has a
\* candidate ancestor and satisfies the predicate with values the histograms
\* count, through a clause that does not round away: provided only that remove
\* tombstones the point it is given and that the caller leaves the presence
\* switch alone.
THEOREM SkipsAreSound ==
    ASSUME ~ Toggles,
           \A p \in Pts : Internal[p] = p
    PROVE  IncSpec => []HistSkipSafe
<1>1. ASSUME TypeInv, SizeInv, HistInv, RegionCurrent, RowsFresh, StaleNeverSkips
      PROVE  HistSkipSafe
  <2>. SUFFICES ASSUME transitSkip, ~ presenceCfg, NEW q \in Queries, NEW p \in Live,
                       NEW clause \in q \ Faint, fca[p] # None,
                       CountedIn(p, clause), SelZero(regionOf[p], q)
                PROVE  FALSE
    BY DEF HistSkipSafe
  <2>1. PICK a \in clause : SigmaZero(regionOf[p], a)
    BY DEF SelZero
  <2>3. a \in Atom /\ a.col \in Col /\ a.counted \subseteq Bkt
    BY ColumnAssumption DEF Atom
  <2>. DEFINE b == val[p][a.col]
  <2>4. b \in a.counted /\ b \in Bkt
    BY <2>1, <2>3 DEF CountedIn
  <2>5. PICK c \in Bound(rid) : /\ HistNode(regionOf[p], a.col) = rid[c]
                                /\ rid[c] \in DOMAIN hist[a.col]
                                /\ p \in Below(c, Live, fca)
    BY <1>1, <2>3, NodeAbove DEF HistInv
  <2>6. c \in Cand /\ cntMod[RootOf[c]] = 0
    BY <1>1, RootOfFacts DEF Bound, RowsFresh, StaleNeverSkips
  <2>7. size[rid[c]] # 0
    <3>1. Below(c, Live, fca) \in SUBSET Pts
      BY <1>1, <2>3, <2>4, <2>5, DriftTypes
    <3>2. Cardinality(Below(c, Live, fca)) \in Nat /\ Cardinality(Below(c, Live, fca)) # 0
      BY <2>5, <3>1, CountsAreNat, FS_EmptySet
    <3>3. size[rid[c]] >= Cardinality(Below(c, Live, fca))
      BY <1>1 DEF SizeInv, SizesCover
    <3>. QED BY <3>2, <3>3
  <2>8. hist[a.col][rid[c]][b] # 0
    <3>1. /\ hist[a.col][rid[c]][b] \in Nat /\ Actual(a.col, b, c) \in Nat
          /\ Below(c, Live, fca) \in SUBSET Pts
      BY <1>1, <2>3, <2>4, <2>5, DriftTypes
    <3>2. Actual(a.col, b, c) # 0
      <4>1. \A col, v : CountOf(col, v[p][col], Below(c, Live, fca), v) # 0
        BY <2>5, <3>1, BucketPositive
      <4>. QED BY <4>1 DEF Actual
    <3>3. DriftOf(a.col, c, b)
      BY <1>1, <2>3, <2>4, <2>5 DEF HistInv, Drifts
    <3>. QED BY <2>6, <3>1, <3>2, <3>3 DEF DriftOf
  <2>. HIDE DEF b
  <2>. QED BY <2>1, <2>4, <2>5, <2>7, <2>8 DEF SigmaZero
<1>2. IncSpec => []SizeInv
  <2>1. SizeInv /\ [Next]_vars => SizeInv'
    BY NextSizeInv
  <2>. QED BY <2>1, InitSizeInv, DriverImplementsStatistics, PTL DEF Spec
<1>3. IncSpec => []HistInv
  <2>1. HistInv /\ [Next]_vars => HistInv'
    BY NextHistInv
  <2>. QED BY <2>1, InitHistInv, DriverImplementsStatistics, PTL DEF Spec
<1>4. IncSpec => []RowsFresh
  <2>1. IncInit => RowsFresh
    BY DEF IncInit, Init, RowsFresh
  <2>2. IncInv /\ RowsFresh /\ [IncNext]_incVars => RowsFresh'
    BY NextRowsFresh
  <2>. QED BY <2>1, <2>2, DriverInvariant, PTL DEF IncSpec
<1>5. IncSpec => [](TypeInv /\ RegionCurrent)
  BY TypeInvariant, RegionsCurrent, DriverImplementsStatistics, PTL
<1>6. TypeInv /\ SizeInv /\ HistInv /\ RegionCurrent /\ RowsFresh /\ StaleNeverSkips => HistSkipSafe
  BY <1>1
<1>. QED BY <1>2, <1>3, <1>4, <1>5, <1>6, StaleEndsSkips, PTL

\* Region discarding stays sound under the driver, whatever calls it makes.
THEOREM DriverDiscardsSoundly == IncSpec => []DiscardSafe
<1>. QED BY DiscardSound, DriverImplementsStatistics, PTL

=============================================================================
