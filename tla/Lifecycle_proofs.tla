--------------------------- MODULE Lifecycle_proofs ---------------------------
(***************************************************************************)
(* The build of a method over crashes, what the parts promise when they    *)
(* are put together, and the two region builders on every index that       *)
(* threads can construct.                                                  *)
(***************************************************************************)
EXTENDS Lifecycle, ParallelInsert_proofs, SearchEpochs_proofs

(***************************************************************************)
(* The build of a method.                                                  *)
(***************************************************************************)

BuildSpec == BuildInit /\ [][BuildNext]_buildVars

Rooms == {"down", "open", "load", "thrown", "construct", "save", "regions", "calib", "sample",
          "save_calib", "searcher", "ready"}
Measurements == Nat \X Maps
Procs == [at : Rooms, kind : Kinds \cup {Nothing}, cached : BOOLEAN,
          builder : Builders \cup {Nothing}, graph : Graphs \cup {Nothing},
          map : Maps \cup {Nothing}, budget : 0 .. 2 * CalibBudget,
          costs : Measurements \cup {Nothing}, samples : Measurements \cup {Nothing}]
Models == [costs : Measurements \cup {Nothing}, samples : Measurements]

BuildTypesOK ==
    /\ index \in Graphs \cup {NoFile, Torn}
    /\ calib \in [Maps -> Models \cup {NoFile, Torn}]
    /\ columns \in BOOLEAN /\ proc \in Procs
    /\ crashes \in 0 .. MaxCrashes /\ starts \in Nat

\* A model measured on map m, complete if there was a column to measure.
Measured(costs, samples, m) ==
    samples \in Measurements /\ samples[2] = m /\ (columns => costs = samples)

\* A calibration file that is not torn was measured on the map it is named for.
CalibsOK ==
    \A m \in Maps : calib[m] \notin {NoFile, Torn} => Measured(calib[m].costs, calib[m].samples, m)

\* The process holds what it has loaded or made, on the map it has now.
BuiltGraph == {"regions", "calib", "sample", "save_calib", "searcher", "ready"}
ProcOK ==
    /\ proc.at # "down" => proc.builder \in Builders
    /\ proc.at = "load" => index # NoFile
    /\ proc.at \in BuiltGraph \cup {"save"} => proc.graph \in Graphs
    /\ proc.at \in BuiltGraph /\ proc.cached => index = proc.graph
    /\ proc.at \in {"calib", "sample", "save_calib"} =>
          proc.map \in Maps /\ (columns => proc.costs = <<starts, proc.map>>)
    /\ proc.at = "save_calib" => proc.samples = <<starts, proc.map>>
    /\ proc.at \in {"searcher", "ready"} /\ proc.kind = "ours" =>
          Measured(proc.costs, proc.samples, proc.map)

BuildInv == BuildTypesOK /\ CalibsOK /\ ProcOK

LEMMA BuildInitInv == BuildInit => BuildInv
<1>. SUFFICES ASSUME BuildInit PROVE BuildInv
  OBVIOUS
<1>1. proc = Off /\ proc.at = "down" /\ proc \in Procs
  BY BuildAssumption DEF BuildInit, Off, Procs, Rooms
<1>2. BuildTypesOK
  BY <1>1, BuildAssumption DEF BuildInit, BuildTypesOK
<1>3. CalibsOK
  BY DEF BuildInit, CalibsOK
<1>4. ProcOK
  BY <1>1 DEF ProcOK, BuiltGraph
<1>. QED BY <1>2, <1>3, <1>4 DEF BuildInv

\* What a graph at hand leads to.
LEMMA ReadyFact ==
    ASSUME BuildInv, NEW g \in Graphs, proc' = IndexReady(g), proc.builder \in Builders,
           UNCHANGED <<calib, columns, crashes, starts>>, index' \in Graphs \cup {NoFile, Torn},
           proc.cached => index' = g
    PROVE  BuildInv'
<1>. DEFINE a == IF proc.kind = "ours" THEN "regions" ELSE "searcher"
<1>1. proc \in Procs /\ a \in Rooms /\ proc' = [proc EXCEPT !.at = a, !.graph = g]
  BY DEF BuildInv, BuildTypesOK, IndexReady, Rooms
<1>2. /\ proc' \in Procs /\ proc'.at = a /\ proc'.graph = g /\ proc'.kind = proc.kind
      /\ proc'.cached = proc.cached /\ proc'.builder = proc.builder
  <2>. HIDE DEF a
  <2>. QED BY <1>1 DEF Procs
<1>3. BuildTypesOK'
  BY <1>2 DEF BuildInv, BuildTypesOK
<1>4. CalibsOK'
  BY DEF BuildInv, CalibsOK, Measured
<1>5. ProcOK'
  BY <1>2 DEF ProcOK, BuiltGraph
<1>. QED BY <1>3, <1>4, <1>5 DEF BuildInv

\* A process starts, chooses its way, and gets to a graph.
LEMMA GraphStepsInv ==
    ASSUME BuildInv, Launch \/ OpenIndex \/ LoadIndex \/ Construct \/ SaveIndex
    PROVE  BuildInv'
<1>1. proc \in Procs /\ index \in Graphs \cup {NoFile, Torn} /\ ProcOK /\ starts \in Nat
  BY DEF BuildInv, BuildTypesOK
<1>2. CASE Launch
  <2>1. PICK k \in Kinds, c \in BOOLEAN, b \in Builders :
          proc' = [Off EXCEPT !.at = "open", !.kind = k, !.cached = c, !.builder = b]
    BY <1>2 DEF Launch
  <2>2. proc' \in Procs /\ proc'.at = "open" /\ proc'.builder = b
    <3>1. Off \in Procs
      BY BuildAssumption DEF Off, Procs, Rooms
    <3>. QED BY <2>1, <3>1 DEF Procs, Rooms
  <2>3. starts' \in Nat /\ UNCHANGED <<index, calib, columns, crashes>>
    <3>1. starts' = starts + 1 /\ UNCHANGED <<index, calib, columns, crashes>>
      BY <1>2 DEF Launch
    <3>. QED BY <1>1, <3>1
  <2>4. BuildTypesOK'
    BY <2>2, <2>3 DEF BuildInv, BuildTypesOK
  <2>5. CalibsOK'
    BY <2>3 DEF BuildInv, CalibsOK, Measured
  <2>6. ProcOK'
    BY <2>2 DEF ProcOK, BuiltGraph
  <2>. QED BY <2>4, <2>5, <2>6 DEF BuildInv
<1>3. CASE OpenIndex
  <2>1. UNCHANGED <<index, calib, columns, crashes, starts>> /\ proc.at = "open"
    BY <1>3 DEF OpenIndex, ProcAt
  <2>2. /\ proc' \in Procs /\ proc'.builder = proc.builder /\ proc'.at \in {"load", "construct"}
        /\ proc'.at = "load" => index # NoFile
    BY <1>1, <1>3 DEF OpenIndex, Go, Procs, Rooms
  <2>3. BuildTypesOK'
    BY <2>1, <2>2 DEF BuildInv, BuildTypesOK
  <2>4. CalibsOK'
    BY <2>1 DEF BuildInv, CalibsOK, Measured
  <2>5. ProcOK'
    BY <1>1, <2>1, <2>2 DEF ProcOK, BuiltGraph
  <2>. QED BY <2>3, <2>4, <2>5 DEF BuildInv
<1>4. CASE LoadIndex
  <2>1. UNCHANGED <<index, calib, columns, crashes, starts>> /\ proc.at = "load"
        /\ index # NoFile /\ proc.builder \in Builders
    BY <1>1, <1>4 DEF LoadIndex, ProcAt, ProcOK
  <2>2. CASE index = Torn
    <3>1. proc' \in Procs /\ proc'.at = "thrown" /\ proc'.builder = proc.builder
      BY <1>1, <1>4, <2>2 DEF LoadIndex, Go, Procs, Rooms
    <3>2. BuildTypesOK'
      BY <2>1, <3>1 DEF BuildInv, BuildTypesOK
    <3>3. CalibsOK'
      BY <2>1 DEF BuildInv, CalibsOK, Measured
    <3>4. ProcOK'
      BY <2>1, <3>1 DEF ProcOK, BuiltGraph
    <3>. QED BY <3>2, <3>3, <3>4 DEF BuildInv
  <2>3. CASE index # Torn
    <3>1. index \in Graphs /\ proc' = IndexReady(index)
      BY <1>1, <1>4, <2>1, <2>3 DEF LoadIndex
    <3>. QED BY <2>1, <3>1, ReadyFact
  <2>. QED BY <2>2, <2>3
<1>5. CASE Construct
  <2>1. PICK g \in Graphs :
          proc' = IF proc.cached THEN [proc EXCEPT !.at = "save", !.graph = g] ELSE IndexReady(g)
    BY <1>5 DEF Construct
  <2>2. UNCHANGED <<calib, columns, crashes, starts>> /\ proc.builder \in Builders
        /\ index' = IF proc.cached THEN Torn ELSE index
    BY <1>1, <1>5 DEF Construct, ProcAt, ProcOK
  <2>3. CASE proc.cached
    <3>1. proc' \in Procs /\ proc'.at = "save" /\ proc'.graph = g /\ proc'.builder = proc.builder
      BY <1>1, <2>1, <2>3 DEF Procs, Rooms
    <3>2. BuildTypesOK'
      BY <2>2, <2>3, <3>1 DEF BuildInv, BuildTypesOK
    <3>3. CalibsOK'
      BY <2>2 DEF BuildInv, CalibsOK, Measured
    <3>4. ProcOK'
      BY <2>2, <3>1 DEF ProcOK, BuiltGraph
    <3>. QED BY <3>2, <3>3, <3>4 DEF BuildInv
  <2>4. CASE ~ proc.cached
    BY <1>1, <2>1, <2>2, <2>4, ReadyFact
  <2>. QED BY <2>3, <2>4
<1>6. CASE SaveIndex
  <2>1. proc.graph \in Graphs /\ proc.builder \in Builders
    BY <1>1, <1>6 DEF SaveIndex, ProcAt, ProcOK
  <2>. QED BY <1>6, <2>1, ReadyFact DEF SaveIndex
<1>. QED BY <1>2, <1>3, <1>4, <1>5, <1>6

\* A loaded calibration is taken as it is; another is sampled, and written.
LEMMA CalibStepsInv ==
    ASSUME BuildInv, Regions \/ OpenCalib \/ Sample \/ Calibrate \/ SaveCalib
    PROVE  BuildInv'
<1>1. /\ proc \in Procs /\ ProcOK /\ CalibsOK /\ starts \in Nat /\ columns \in BOOLEAN
      /\ calib \in [Maps -> Models \cup {NoFile, Torn}]
  BY DEF BuildInv, BuildTypesOK
<1>2. /\ UNCHANGED <<index, columns, crashes, starts>>
      /\ proc.at \in {"regions", "calib", "sample", "save_calib"}
  BY DEF Regions, OpenCalib, Sample, Calibrate, SaveCalib, ProcAt
<1>3. /\ proc.builder \in Builders /\ proc.graph \in Graphs /\ (proc.cached => index = proc.graph)
      /\ proc.at # "regions" =>
            proc.map \in Maps /\ (columns => proc.costs = <<starts, proc.map>>)
  BY <1>1, <1>2 DEF ProcOK, BuiltGraph
<1>4. SUFFICES /\ proc' \in Procs /\ calib' \in [Maps -> Models \cup {NoFile, Torn}] /\ CalibsOK'
               /\ proc'.builder = proc.builder /\ proc'.graph = proc.graph
               /\ proc'.cached = proc.cached /\ proc'.kind = proc.kind
               /\ proc'.at \in BuiltGraph \ {"regions"}
               /\ proc'.at \in {"calib", "sample", "save_calib"} =>
                     proc'.map \in Maps /\ (columns => proc'.costs = <<starts, proc'.map>>)
               /\ proc'.at = "save_calib" => proc'.samples = <<starts, proc'.map>>
               /\ proc'.at \in {"searcher", "ready"} /\ proc'.kind = "ours" =>
                     Measured(proc'.costs, proc'.samples, proc'.map)
  <2>1. BuildTypesOK'
    BY <1>2, <1>4 DEF BuildInv, BuildTypesOK
  <2>2. Measured(proc'.costs, proc'.samples, proc'.map) => Measured(proc.costs, proc.samples, proc.map)'
    BY <1>2 DEF Measured
  <2>3. ProcOK'
    BY <1>2, <1>3, <1>4, <2>2 DEF ProcOK, BuiltGraph
  <2>. QED BY <1>4, <2>1, <2>3 DEF BuildInv
<1>5. CASE Regions
  <2>. DEFINE m == <<proc.graph, proc.builder>>
              a == IF proc.cached THEN "calib" ELSE "sample"
              c == IF columns THEN <<starts, m>> ELSE Nothing
  <2>1. proc' = [proc EXCEPT !.at = a, !.map = m, !.budget = 2 * CalibBudget, !.costs = c]
        /\ calib' = calib
    BY <1>5 DEF Regions
  <2>2. /\ m \in Maps /\ a \in {"calib", "sample"} /\ a \in Rooms
        /\ c \in Measurements \cup {Nothing} /\ (columns => c = <<starts, m>>)
        /\ 2 * CalibBudget \in 0 .. 2 * CalibBudget
    BY <1>1, <1>3, BuildAssumption DEF Maps, Measurements, Rooms
  <2>. HIDE DEF m, a, c
  <2>3. /\ proc' \in Procs /\ proc'.at = a /\ proc'.map = m /\ proc'.costs = c
        /\ proc'.builder = proc.builder /\ proc'.graph = proc.graph
        /\ proc'.cached = proc.cached /\ proc'.kind = proc.kind
    BY <1>1, <2>1, <2>2 DEF Procs
  <2>4. CalibsOK'
    BY <1>1, <1>2, <2>1 DEF CalibsOK, Measured
  <2>. QED BY <1>1, <2>1, <2>2, <2>3, <2>4 DEF BuiltGraph
<1>6. CASE OpenCalib
  <2>. DEFINE f == calib[proc.map]
  <2>1. proc.at = "calib" /\ proc.map \in Maps /\ proc' = LoadCalib(f) /\ calib' = calib
    BY <1>3, <1>6 DEF OpenCalib, ProcAt, CalibPath
  <2>2. CalibsOK'
    BY <1>1, <1>2, <2>1 DEF CalibsOK, Measured
  <2>3. CASE f \in {NoFile, Torn}
    <3>1. proc' = [proc EXCEPT !.at = "sample"]
      BY <2>1, <2>3 DEF LoadCalib, Go
    <3>2. /\ proc' \in Procs /\ proc'.at = "sample" /\ proc'.map = proc.map
          /\ proc'.costs = proc.costs
          /\ proc'.builder = proc.builder /\ proc'.graph = proc.graph
          /\ proc'.cached = proc.cached /\ proc'.kind = proc.kind
      BY <1>1, <3>1 DEF Procs, Rooms
    <3>. QED BY <1>1, <1>3, <2>1, <2>2, <3>2 DEF BuiltGraph
  <2>4. CASE f \notin {NoFile, Torn}
    <3>1. f \in Models /\ Measured(f.costs, f.samples, proc.map)
      BY <1>1, <2>1, <2>4 DEF CalibsOK
    <3>2. proc' = [proc EXCEPT !.at = "searcher", !.costs = f.costs, !.samples = f.samples]
      BY <1>1, <2>1, <2>4 DEF LoadCalib, Go, Procs
    <3>3. f.costs \in Measurements \cup {Nothing} /\ f.samples \in Measurements
      BY <3>1 DEF Models
    <3>. HIDE DEF f
    <3>4. /\ proc' \in Procs /\ proc'.at = "searcher" /\ proc'.map = proc.map
          /\ proc'.costs = f.costs /\ proc'.samples = f.samples
          /\ proc'.builder = proc.builder /\ proc'.graph = proc.graph
          /\ proc'.cached = proc.cached /\ proc'.kind = proc.kind
      BY <1>1, <3>2, <3>3 DEF Procs, Rooms
    <3>. QED BY <1>1, <2>1, <2>2, <3>1, <3>4 DEF BuiltGraph
  <2>. QED BY <2>3, <2>4
<1>7. CASE Sample
  <2>1. proc.at = "sample" /\ proc.budget # 0 /\ proc' = [proc EXCEPT !.budget = proc.budget - 1]
        /\ calib' = calib
    BY <1>1, <1>7 DEF Sample, ProcAt, Sampled, Procs
  <2>2. proc.budget - 1 \in 0 .. 2 * CalibBudget
    <3>1. proc.budget \in 0 .. 2 * CalibBudget
      BY <1>1 DEF Procs
    <3>. QED BY <2>1, <3>1, BuildAssumption
  <2>3. /\ proc' \in Procs /\ proc'.at = "sample" /\ proc'.map = proc.map
        /\ proc'.costs = proc.costs
        /\ proc'.builder = proc.builder /\ proc'.graph = proc.graph
        /\ proc'.cached = proc.cached /\ proc'.kind = proc.kind
    BY <1>1, <2>1, <2>2 DEF Procs
  <2>4. CalibsOK'
    BY <1>1, <1>2, <2>1 DEF CalibsOK, Measured
  <2>. QED BY <1>1, <1>3, <2>1, <2>3, <2>4 DEF BuiltGraph
<1>8. CASE Calibrate
  <2>. DEFINE a == IF proc.cached THEN "save_calib" ELSE "searcher"
              d == <<starts, proc.map>>
  <2>1. /\ proc.at = "sample" /\ proc' = [proc EXCEPT !.at = a, !.samples = d]
        /\ calib' = IF proc.cached THEN [calib EXCEPT ![proc.map] = Torn] ELSE calib
    BY <1>8 DEF Calibrate, ProcAt, CalibPath
  <2>2. /\ a \in {"save_calib", "searcher"} /\ a \in Rooms /\ d \in Measurements /\ d[2] = proc.map
        /\ proc.map \in Maps
    BY <1>1, <1>3, <2>1 DEF Measurements, Rooms
  <2>3. calib' \in [Maps -> Models \cup {NoFile, Torn}]
    BY <1>1, <2>1, <2>2
  <2>4. \A m \in Maps : calib'[m] \notin {NoFile, Torn} => calib'[m] = calib[m]
    BY <1>1, <2>1
  <2>5. CalibsOK'
    BY <1>1, <1>2, <2>4 DEF CalibsOK, Measured
  <2>6. columns => proc.costs = d
    BY <1>3, <2>1
  <2>. HIDE DEF a, d
  <2>7. /\ proc' \in Procs /\ proc'.at = a /\ proc'.map = proc.map
        /\ proc'.costs = proc.costs /\ proc'.samples = d
        /\ proc'.builder = proc.builder /\ proc'.graph = proc.graph
        /\ proc'.cached = proc.cached /\ proc'.kind = proc.kind
    BY <1>1, <2>1, <2>2 DEF Procs
  <2>8. Measured(proc.costs, d, proc.map)
    BY <2>2, <2>6 DEF Measured
  <2>. QED BY <1>3, <2>1, <2>2, <2>3, <2>5, <2>7, <2>8 DEF BuiltGraph, d
<1>9. CASE SaveCalib
  <2>. DEFINE r == [costs |-> proc.costs, samples |-> proc.samples]
  <2>1. /\ proc.at = "save_calib" /\ proc' = [proc EXCEPT !.at = "searcher"]
        /\ calib' = [calib EXCEPT ![proc.map] = r]
    BY <1>9 DEF SaveCalib, ProcAt, CalibPath, Go
  <2>2. proc.map \in Maps /\ proc.samples = <<starts, proc.map>>
        /\ (columns => proc.costs = proc.samples)
    BY <1>1, <1>3, <2>1 DEF ProcOK
  <2>3. Measured(proc.costs, proc.samples, proc.map)
    BY <1>1, <2>2 DEF Measured, Measurements
  <2>4. r \in Models /\ Measured(r.costs, r.samples, proc.map)
    BY <1>1, <2>3 DEF Models, Measured, Procs
  <2>. HIDE DEF r
  <2>5. calib' \in [Maps -> Models \cup {NoFile, Torn}]
    BY <1>1, <2>1, <2>4
  <2>6. CalibsOK'
    <3>1. ASSUME NEW m \in Maps, calib'[m] \notin {NoFile, Torn}
          PROVE  Measured(calib'[m].costs, calib'[m].samples, m)
      <4>1. CASE m = proc.map
        BY <1>1, <2>1, <2>4, <4>1
      <4>2. CASE m # proc.map
        BY <1>1, <2>1, <3>1, <4>2 DEF CalibsOK
      <4>. QED BY <4>1, <4>2
    <3>. QED BY <1>2, <3>1 DEF CalibsOK, Measured
  <2>7. /\ proc' \in Procs /\ proc'.at = "searcher" /\ proc'.map = proc.map
        /\ proc'.costs = proc.costs /\ proc'.samples = proc.samples
        /\ proc'.builder = proc.builder /\ proc'.graph = proc.graph
        /\ proc'.cached = proc.cached /\ proc'.kind = proc.kind
    BY <1>1, <2>1 DEF Procs, Rooms
  <2>. QED BY <2>3, <2>5, <2>6, <2>7 DEF BuiltGraph
<1>. QED BY <1>5, <1>6, <1>7, <1>8, <1>9

\* The searcher is made; the process ends or dies, and the files stay.
LEMMA EndStepsInv ==
    ASSUME BuildInv, MakeSearcher \/ Crash \/ Exit
    PROVE  BuildInv'
<1>1. /\ proc \in Procs /\ ProcOK /\ UNCHANGED <<index, calib, columns, starts>>
      /\ crashes \in 0 .. MaxCrashes
  BY DEF BuildInv, BuildTypesOK, MakeSearcher, Crash, Exit
<1>2. CalibsOK'
  BY <1>1 DEF BuildInv, CalibsOK, Measured
<1>3. crashes' \in 0 .. MaxCrashes
  BY <1>1, BuildAssumption DEF MakeSearcher, Crash, Exit
<1>4. CASE MakeSearcher
  <2>1. proc.at = "searcher" /\ proc' = [proc EXCEPT !.at = "ready"]
    BY <1>4 DEF MakeSearcher, ProcAt, Go
  <2>2. /\ proc' \in Procs /\ proc'.at = "ready" /\ proc'.map = proc.map
        /\ proc'.costs = proc.costs /\ proc'.samples = proc.samples
        /\ proc'.builder = proc.builder /\ proc'.graph = proc.graph
        /\ proc'.cached = proc.cached /\ proc'.kind = proc.kind
    BY <1>1, <2>1 DEF Procs, Rooms
  <2>3. BuildTypesOK'
    BY <1>1, <1>3, <2>2 DEF BuildInv, BuildTypesOK
  <2>4. ProcOK'
    BY <1>1, <2>1, <2>2 DEF ProcOK, BuiltGraph, Measured
  <2>. QED BY <1>2, <2>3, <2>4 DEF BuildInv
<1>5. CASE Crash \/ Exit
  <2>1. proc' = Off /\ Off \in Procs /\ Off.at = "down"
    BY <1>5, BuildAssumption DEF Crash, Exit, Off, Procs, Rooms
  <2>2. BuildTypesOK'
    BY <1>1, <1>3, <2>1 DEF BuildInv, BuildTypesOK
  <2>3. ProcOK'
    BY <2>1 DEF ProcOK, BuiltGraph
  <2>. QED BY <1>2, <2>2, <2>3 DEF BuildInv
<1>. QED BY <1>4, <1>5

LEMMA BuildStep == BuildInv /\ [BuildNext]_buildVars => BuildInv'
<1>. SUFFICES ASSUME BuildInv, [BuildNext]_buildVars PROVE BuildInv'
  OBVIOUS
<1>1. CASE BuildNext
  BY <1>1, GraphStepsInv, CalibStepsInv, EndStepsInv DEF BuildNext, BuildSteps
<1>2. CASE UNCHANGED buildVars
  BY <1>2 DEF buildVars, BuildInv, BuildTypesOK, CalibsOK, Measured, ProcOK
<1>. QED BY <1>1, <1>2

\* The invariant of the builds, whatever crashes.
THEOREM BuildInvariant == BuildSpec => []BuildInv
<1>. QED BY BuildInitInv, BuildStep, PTL DEF BuildSpec
\* A method that is ready searches with a whole cost model, measured on the
\* region map it has now; with the cache, on the graph in the file: whatever
\* earlier processes left, and wherever they died.
THEOREM ModelsAreWhole == BuildSpec => []CalibWhole
<1>1. ASSUME BuildInv PROVE CalibWhole
  <2>1. ProcOK
    BY <1>1 DEF BuildInv
  <2>2. Nothing \notin Measurements
    BY BuildAssumption DEF Measurements
  <2>. QED BY <2>1, <2>2 DEF CalibWhole, ProcAt, ProcOK, BuiltGraph, Measured
<1>. QED BY <1>1, BuildInvariant, PTL

(***************************************************************************)
(* The parts together.                                                     *)
(***************************************************************************)

\* A step of the whole is a step of each part, or the part stands still.
LEMMA PartSteps ==
    ASSUME [Next]_vars
    PROVE  /\ [InsertNext]_insertVars /\ [BuildNext]_buildVars /\ [EpochNext]_epochVars
           /\ [GtNext]_gtVars
<1>1. CASE IndexStep
  <2>1. UNCHANGED <<buildVars, gtVars, epochVars>> /\ (InsertNext \/ RegionNext)
    BY <1>1 DEF IndexStep
  <2>2. RegionNext => UNCHANGED insertVars
    BY DEF RegionNext, ForestBuild, HubStart, HubPop, HubEnd
  <2>. QED BY <2>1, <2>2
<1>2. CASE MethodStep(BuildNext)
  BY <1>2 DEF MethodStep, indexVars
<1>3. CASE TruthStep
  BY <1>3 DEF TruthStep, indexVars
<1>4. CASE SearcherStep
  BY <1>4 DEF SearcherStep, indexVars
<1>5. CASE UNCHANGED vars
  BY <1>5 DEF vars, indexVars
<1>. QED BY <1>1, <1>2, <1>3, <1>4, <1>5 DEF Next

\* The whole implements its parts.
LEMMA SpecImpliesParts == Spec => InsertSpec /\ BuildSpec /\ EpochSpec
<1>1. Init => InsertInit /\ BuildInit /\ EpochInit
  BY DEF Init
<1>2. [Next]_vars => [InsertNext]_insertVars /\ [BuildNext]_buildVars /\ [EpochNext]_epochVars
  BY PartSteps
<1>. QED BY <1>1, <1>2, PTL DEF Spec, InsertSpec, BuildSpec, EpochSpec

\* What is proved of the parts holds in whatever part of its life a program is: no
\* insertion throws, fathers lie above their children, the small layers of the
\* index hang together, a method that is ready has a whole model, and a search
\* starts with nothing marked.
COROLLARY LifecyclePromises ==
    Spec => /\ [](NeverThrows /\ FathersAbove /\ LayersConnected /\ CalibWhole)
            /\ MarksFresh
<1>. QED BY SpecImpliesParts, InsertionsNeverThrow, FathersLieAbove, LayersAreConnected,
            ModelsAreWhole, EpochFresh, PTL

\* The calls for a ground truth are counted.
CallsOK == "calls" \in DOMAIN gt /\ gt.calls \in 0 .. MaxCalls

LEMMA CallsStep == CallsOK /\ [GtNext]_gtVars => CallsOK'
<1>. SUFFICES ASSUME CallsOK, [GtNext]_gtVars PROVE CallsOK'
  OBVIOUS
<1>1. CASE Ask
  <2>1. /\ gt.calls < MaxCalls
        /\ \E phi \in DOMAIN SatOf, nq \in QueryCounts, T \in ThreadCounts, cached \in BOOLEAN :
             gt' = [at |-> IF cached THEN "open" ELSE "spawn", calls |-> gt.calls + 1,
                    phi |-> phi, nq |-> nq, T |-> T, cached |-> cached,
                    left |-> << >>, sat |-> {}, total |-> 0,
                    out |-> [q \in 0 .. nq - 1 |-> [n |-> 0, ids |-> {}]]]
    BY <1>1 DEF Ask
  <2>2. "calls" \in DOMAIN gt' /\ gt'.calls = gt.calls + 1
    BY <2>1
  <2>. QED BY <2>1, <2>2, GtAssumption DEF CallsOK
<1>2. CASE ReadCache \/ SpawnSat \/ SpawnQueries \/ WriteCache \/ CloseCache
  BY <1>2 DEF ReadCache, SpawnSat, SpawnQueries, WriteCache, CloseCache, CallsOK
<1>3. CASE EvalPoint
  <2>1. DOMAIN gt' = DOMAIN gt /\ gt'.calls = gt.calls
    BY <1>3 DEF EvalPoint, CallsOK
  <2>. QED BY <2>1 DEF CallsOK
<1>4. CASE AnswerQuery
  <2>1. DOMAIN gt' = DOMAIN gt /\ gt'.calls = gt.calls
    BY <1>4 DEF AnswerQuery, CallsOK
  <2>. QED BY <2>1 DEF CallsOK
<1>5. CASE GtStops
  BY <1>5 DEF GtStops, CallsOK
<1>6. CASE UNCHANGED gtVars
  BY <1>6 DEF gtVars, CallsOK
<1>. QED BY <1>1, <1>2, <1>3, <1>4, <1>5, <1>6 DEF GtNext

\* What a wrap leaves alone holds old epochs, but never 0 and never more than
\* the counter can hold.
MarksInRange == marks \in [Families -> SUBSET (1 .. Wrap32 - 1)]

LEMMA MarksStep == EpochInv /\ MarksInRange /\ [EpochNext]_epochVars => MarksInRange'
<1>. SUFFICES ASSUME EpochInv, MarksInRange, [EpochNext]_epochVars PROVE MarksInRange'
  OBVIOUS
<1>1. ASSUME NEW s \in Searches, Begin(s) PROVE MarksInRange'
  <2>1. \E C : marks' = [a \in Families |-> IF a \in C THEN {} ELSE marks[a]]
    BY <1>1 DEF Begin
  <2>. QED BY <2>1 DEF MarksInRange
<1>2. ASSUME NEW a \in Families, Mark(a) PROVE MarksInRange'
  <2>1. epoch \in 1 .. Wrap32 - 1
    BY <1>2, EpochAssumption DEF Mark, EpochInv, EpochTypeOK, Running
  <2>2. marks' = [marks EXCEPT ![a] = marks[a] \cup {epoch}]
    BY <1>2 DEF Mark
  <2>. QED BY <2>1, <2>2 DEF MarksInRange
<1>3. CASE Visit \/ End \/ Invalidate \/ Renew \/ UNCHANGED epochVars
  BY <1>3 DEF Visit, End, Invalidate, Renew, epochVars, MarksInRange
<1>. QED BY <1>1, <1>2, <1>3 DEF EpochNext

\* Every variable has its type.
THEOREM LifecycleTypes == Spec => []LifecycleTypeOK
<1>1. ASSUME InsertInv, BuildInv, EpochInv, CallsOK, MarksInRange PROVE LifecycleTypeOK
  <2>1. /\ next \in 1 .. LastPoint + 1 /\ LastPoint \in Nat /\ label \in [Ids -> 0 .. next - 1]
        /\ father \in [Ids -> Ids] /\ enter \in Ids /\ global \in Threads \cup {None}
        /\ \A i, j \in Ids : label[i] = label[j] => i = j
    BY <1>1, InsertAssumption DEF InsertInv, TypesOK, GraphOK, LabelsOK
  <2>2. PICK k \in Nat : Ids = 0 .. k
    BY <1>1 DEF InsertInv, TypesOK, GraphOK
  <2>3. Ids = 0 .. Cardinality(Ids) - 1
    <3>1. Cardinality(Ids) = k + 1
      BY <2>2, FS_Interval
    <3>. QED BY <2>2, <3>1
  <2>4. top \in 0 .. TopDraw
    BY <1>1, Typed DEF Layers
  <2>5. next \in 1 .. LastPoint + Cardinality(Threads) + 1
    <3>1. Cardinality(Threads) \in Nat
      BY InsertAssumption, FS_CardinalityType
    <3>. QED BY <2>1, <3>1
  <2>6. label \in [Ids -> Base]
    BY <2>1 DEF Base
  <2>7. /\ index \in Graphs \cup {NoFile, Torn} /\ proc.map \in Maps \cup {Nothing}
        /\ proc.budget \in 0 .. 2 * CalibBudget /\ crashes \in 0 .. MaxCrashes
    BY <1>1 DEF BuildInv, BuildTypesOK, Procs
  <2>8. /\ epoch \in 0 .. Wrap32 - 1 /\ vepoch \in 0 .. Wrap8 - 1
        /\ missed \subseteq Families
    BY <1>1, EpochAssumption DEF EpochInv, EpochTypeOK
  <2>9. gt.calls \in 0 .. MaxCalls /\ marks \in [Families -> SUBSET (1 .. Wrap32 - 1)]
    BY <1>1 DEF CallsOK, MarksInRange
  <2>. QED BY <2>1, <2>3, <2>4, <2>5, <2>6, <2>7, <2>8, <2>9 DEF LifecycleTypeOK
<1>2. Init => CallsOK /\ MarksInRange
  BY GtAssumption DEF Init, GtInit, EpochInit, CallsOK, MarksInRange
<1>3. [Next]_vars => [GtNext]_gtVars /\ [EpochNext]_epochVars
  BY PartSteps
<1>. QED BY <1>1, <1>2, <1>3, SpecImpliesParts, InsertInvariant, BuildInvariant, EpochInvariant,
            CallsStep, MarksStep, PTL DEF Spec
(***************************************************************************)
(* The regions.                                                            *)
(***************************************************************************)

\* The projected index, with fathers above their children.
ProjTyped ==
    proj # None =>
        /\ proj.level \in [Base -> Nat] /\ proj.father \in [Base -> Base] /\ proj.entry \in Base
        /\ proj.nbr[0] \in [Base -> SUBSET Base]
        /\ \A p \in Base : proj.father[p] # p => proj.level[proj.father[p]] > proj.level[p]

LEMMA ProjFacts ==
    ASSUME InsertInv, ProjOK
    PROVE  ProjTyped
<1>. SUFFICES ASSUME proj # None
              PROVE  /\ proj.level \in [Base -> Nat] /\ proj.father \in [Base -> Base]
                     /\ proj.entry \in Base /\ proj.nbr[0] \in [Base -> SUBSET Base]
                     /\ \A p \in Base : proj.father[p] # p => proj.level[proj.father[p]] > proj.level[p]
  BY DEF ProjTyped
<1>1. Joined /\ proj = Image
  BY DEF ProjOK
<1>2. /\ \A p \in Base : InternalOf(p) \in Ids
      /\ \A i \in Ids : label[i] \in Base
  BY <1>1, NamesFit
<1>3. /\ lev \in [Ids -> Layers] /\ Layers \subseteq Nat /\ father \in [Ids -> Ids] /\ enter \in Ids
      /\ links \in [Layers -> [Ids -> SUBSET Ids]] /\ TopDraw \in Nat /\ top \in Layers
  BY Typed
<1>4. proj.level \in [Base -> Nat] /\ proj.father \in [Base -> Base] /\ proj.entry \in Base
  BY <1>1, <1>2, <1>3 DEF Image
<1>5. 0 \in 0 .. top /\ 0 \in Layers
  BY <1>3 DEF Layers
<1>6. proj.nbr[0] = [p \in Base |-> {label[j] : j \in links[0][InternalOf(p)]}]
  BY <1>1, <1>5 DEF Image
<1>7. \A p \in Base : \A j \in links[0][InternalOf(p)] : label[j] \in Base
  BY <1>2, <1>3, <1>5
<1>8. proj.nbr[0] \in [Base -> SUBSET Base]
  BY <1>6, <1>7
<1>. QED BY <1>4, <1>8, AboveFact DEF FathersAbove

LEMMA BaseFinite == IsFiniteSet(Base) /\ Base \subseteq Nat
BY InsertAssumption, FS_Interval DEF Base

\* Of some points, one is highest.
LEMMA HighestOf ==
    ASSUME NEW S \in SUBSET Base, S # {}, NEW f \in [Base -> Nat]
    PROVE  \E p \in S : \A q \in S : f[q] <= f[p]
<1>. DEFINE V == {f[p] : p \in S}
            g == [p \in S |-> f[p]]
<1>1. IsFiniteSet(S)
  BY BaseFinite, FS_Subset
<1>2. g \in Surjection(S, V)
  BY DEF Surjection
<1>3. IsFiniteSet(V)
  <2>. HIDE DEF g, V
  <2>. QED BY <1>1, <1>2, FS_Surjection
<1>4. V \subseteq Nat /\ V # {}
  OBVIOUS
<1>5. \E d \in V : \A e \in V : e <= d
  <2>. HIDE DEF V
  <2>. QED BY <1>3, <1>4, GreatestOf
<1>. QED BY <1>5

\* Ranks number a finite set without gaps.
Rank(S, f, p) == Cardinality({q \in S : f[q] < f[p]})

LEMMA RankFact ==
    ASSUME NEW S, IsFiniteSet(S), NEW f \in [S -> Nat], \A p, q \in S : f[p] = f[q] => p = q
    PROVE  /\ \A p \in S : Rank(S, f, p) \in 0 .. Cardinality(S) - 1
           /\ \A p, q \in S : Rank(S, f, p) = Rank(S, f, q) => p = q
           /\ {Rank(S, f, p) : p \in S} = 0 .. Cardinality(S) - 1
<1>. DEFINE Below(p) == {q \in S : f[q] < f[p]}
            n == Cardinality(S)
            V == {Rank(S, f, p) : p \in S}
            g == [p \in S |-> Rank(S, f, p)]
<1>1. n \in Nat
  BY FS_CardinalityType
<1>2. ASSUME NEW p \in S
      PROVE  /\ IsFiniteSet(Below(p)) /\ Rank(S, f, p) = Cardinality(Below(p))
             /\ Rank(S, f, p) \in 0 .. n - 1
  <2>1. Below(p) \in SUBSET S /\ p \notin Below(p)
    OBVIOUS
  <2>2. IsFiniteSet(Below(p)) /\ Cardinality(Below(p)) <= n /\ Cardinality(Below(p)) # n
    BY <2>1, FS_Subset
  <2>3. Cardinality(Below(p)) \in Nat
    BY <2>2, FS_CardinalityType
  <2>. QED BY <1>1, <2>2, <2>3 DEF Rank
<1>3. ASSUME NEW p \in S, NEW q \in S, f[p] < f[q] PROVE Rank(S, f, p) # Rank(S, f, q)
  <2>1. Below(p) \in SUBSET Below(q) /\ p \in Below(q) /\ p \notin Below(p)
    BY <1>3
  <2>2. Cardinality(Below(p)) # Cardinality(Below(q))
    BY <1>2, <2>1, FS_Subset
  <2>. QED BY <1>2, <2>2
<1>4. \A p, q \in S : Rank(S, f, p) = Rank(S, f, q) => p = q
  BY <1>3
<1>5. g \in Surjection(S, V) /\ g \in Injection(S, V)
  BY <1>4 DEF Surjection, Injection, IsInjective
<1>6. Cardinality(V) = n
  <2>. HIDE DEF g, V
  <2>. QED BY <1>5, FS_Surjection
<1>7. V \in SUBSET (0 .. n - 1)
  BY <1>2
<1>8. IsFiniteSet(0 .. n - 1) /\ Cardinality(0 .. n - 1) = n
  BY <1>1, FS_Interval
<1>9. V = 0 .. n - 1
  <2>. HIDE DEF V, n
  <2>. QED BY <1>6, <1>7, <1>8, FS_Subset
<1>. QED BY <1>2, <1>4, <1>9

\* Following fathers comes to an end: whatever is closed under fathers contains
\* a point that is its own.
LEMMA FathersEnd ==
    ASSUME ProjTyped, proj # None, NEW S \in SUBSET Base, S # {},
           \A p \in S : proj.father[p] \in S
    PROVE  \E p \in S : proj.father[p] = p
<1>1. /\ proj.level \in [Base -> Nat] /\ proj.father \in [Base -> Base]
      /\ \A p \in Base : proj.father[p] # p => proj.level[proj.father[p]] > proj.level[p]
  BY DEF ProjTyped
<1>2. PICK p \in S : \A q \in S : proj.level[q] <= proj.level[p]
  BY <1>1, HighestOf
<1>3. ~ (proj.level[proj.father[p]] > proj.level[p])
  <2>1. proj.level[proj.father[p]] <= proj.level[p]
    BY <1>2
  <2>2. proj.level[proj.father[p]] \in Nat /\ proj.level[p] \in Nat
    BY <1>1
  <2>. QED BY <2>1, <2>2
<1>. QED BY <1>1, <1>3

\* Where a climb stops.
Ends(ell) == {p \in Base : p \in Hubs(ell) \/ proj.father[p] = p}

\* Climb is a function: there is one that satisfies its equation, since fathers
\* lie above their children.
LEMMA ClimbExists ==
    ASSUME ProjTyped, proj # None, NEW ell
    PROVE  \E f : f = [p \in Base |-> IF p \in Hubs(ell) \/ proj.father[p] = p
                                      THEN p ELSE f[proj.father[p]]]
<1>. DEFINE Stop == Ends(ell)
            up == proj.father
            Right(f, B) == \A p \in B : f[p] = IF p \in Stop THEN p ELSE f[up[p]]
            Closed(B) == \A p \in B : p \in Stop \/ up[p] \in B
            H == {B \in SUBSET Base : Closed(B) /\ \E f \in [Base -> Base] : Right(f, B)}
            V == {Cardinality(B) : B \in H}
<1>1. /\ proj.level \in [Base -> Nat] /\ up \in [Base -> Base]
      /\ \A p \in Base : up[p] # p => proj.level[up[p]] > proj.level[p]
  BY DEF ProjTyped
<1>2. {} \in H
  <2>1. [p \in Base |-> p] \in [Base -> Base] /\ Right([p \in Base |-> p], {}) /\ Closed({})
    OBVIOUS
  <2>. QED BY <2>1
<1>3. \A B \in SUBSET Base : IsFiniteSet(B) /\ Cardinality(B) \in 0 .. Cardinality(Base)
  <2>. SUFFICES ASSUME NEW B \in SUBSET Base
                PROVE  IsFiniteSet(B) /\ Cardinality(B) \in 0 .. Cardinality(Base)
    OBVIOUS
  <2>1. IsFiniteSet(Base) /\ Cardinality(Base) \in Nat
    BY BaseFinite, FS_CardinalityType
  <2>2. IsFiniteSet(B) /\ Cardinality(B) <= Cardinality(Base)
    BY <2>1, FS_Subset
  <2>3. Cardinality(B) \in Nat
    BY <2>2, FS_CardinalityType
  <2>. QED BY <2>1, <2>2, <2>3
<1>4. V \subseteq 0 .. Cardinality(Base) /\ V # {}
  BY <1>2, <1>3
<1>5. PICK B \in H : \A C \in H : Cardinality(C) <= Cardinality(B)
  <2>1. Cardinality(Base) \in Nat
    BY BaseFinite, FS_CardinalityType
  <2>2. IsFiniteSet(0 .. Cardinality(Base))
    BY <2>1, FS_Interval
  <2>3. IsFiniteSet(V) /\ V \subseteq Nat
    <3>. HIDE DEF V
    <3>1. IsFiniteSet(V)
      BY <1>4, <2>2, FS_Subset
    <3>2. 0 .. Cardinality(Base) \subseteq Nat
      BY <2>1
    <3>. QED BY <1>4, <3>1, <3>2
  <2>4. PICK d \in V : \A e \in V : e <= d
    <3>. HIDE DEF V
    <3>. QED BY <1>4, <2>3, GreatestOf
  <2>. QED BY <2>4
<1>6. PICK f \in [Base -> Base] : Right(f, B)
  BY <1>5
<1>7. B = Base
  <2>. SUFFICES ASSUME B # Base PROVE FALSE
    OBVIOUS
  <2>1. B \in SUBSET Base /\ Closed(B)
    BY <1>5
  <2>2. PICK p \in Base \ B : \A q \in Base \ B : proj.level[q] <= proj.level[p]
    <3>1. Base \ B \in SUBSET Base /\ Base \ B # {}
      BY <2>1
    <3>. QED BY <1>1, <3>1, HighestOf
  <2>3. p \in Stop \/ up[p] \in B
    <3>. SUFFICES ASSUME p \notin Stop, up[p] \notin B PROVE FALSE
      OBVIOUS
    <3>1. up[p] # p /\ up[p] \in Base \ B
      BY <1>1 DEF Ends
    <3>2. proj.level[up[p]] > proj.level[p] /\ proj.level[up[p]] <= proj.level[p]
      BY <1>1, <2>2, <3>1
    <3>3. proj.level[up[p]] \in Nat /\ proj.level[p] \in Nat
      BY <1>1, <3>1
    <3>. QED BY <3>2, <3>3
  <2>. DEFINE g == [f EXCEPT ![p] = IF p \in Stop THEN p ELSE f[up[p]]]
              C == B \cup {p}
  <2>4. g \in [Base -> Base] /\ g[p] = (IF p \in Stop THEN p ELSE f[up[p]])
        /\ \A q \in Base : q # p => g[q] = f[q]
    BY <1>1
  <2>5. C \in SUBSET Base /\ Closed(C)
    BY <2>1, <2>3
  <2>6. Right(g, C)
    <3>. HIDE DEF g
    <3>. SUFFICES ASSUME NEW q \in C PROVE g[q] = IF q \in Stop THEN q ELSE g[up[q]]
      OBVIOUS
    <3>1. CASE q = p
      <4>1. p \notin Stop => up[p] # p /\ up[p] \in Base
        BY <1>1 DEF Ends
      <4>. QED BY <2>4, <3>1, <4>1
    <3>2. CASE q # p
      <4>1. q \in B /\ f[q] = IF q \in Stop THEN q ELSE f[up[q]]
        BY <1>6, <3>2
      <4>2. q \notin Stop => up[q] \in B
        BY <2>1, <4>1
      <4>. QED BY <1>1, <2>1, <2>4, <3>2, <4>1, <4>2
    <3>. QED BY <3>1, <3>2
  <2>7. C \in H
    <3>. HIDE DEF g, C
    <3>. QED BY <2>4, <2>5, <2>6
  <2>8. Cardinality(C) = Cardinality(B) + 1 /\ Cardinality(B) \in Nat
    <3>1. IsFiniteSet(B) /\ p \notin B
      BY <1>3, <2>1
    <3>. QED BY <3>1, FS_AddElement, FS_CardinalityType
  <2>9. Cardinality(C) <= Cardinality(B)
    <3>. HIDE DEF C, H
    <3>. QED BY <1>5, <2>7
  <2>. QED BY <2>8, <2>9
<1>8. \A p \in Base : f[p] = IF p \in Hubs(ell) \/ proj.father[p] = p THEN p ELSE f[proj.father[p]]
  BY <1>6, <1>7 DEF Ends
<1>9. f = [p \in Base |-> IF p \in Hubs(ell) \/ proj.father[p] = p THEN p ELSE f[proj.father[p]]]
  BY <1>8
<1>. QED BY <1>9

\* A climb ends where climbs end, at the same place from a point and from its
\* father, and no lower than it began.
LEMMA ClimbFact ==
    ASSUME ProjTyped, proj # None, NEW ell, NEW p \in Base
    PROVE  /\ Climb(ell)[p] \in Ends(ell) /\ proj.level[Climb(ell)[p]] >= proj.level[p]
           /\ p \in Ends(ell) => Climb(ell)[p] = p
           /\ p \notin Ends(ell) => Climb(ell)[p] = Climb(ell)[proj.father[p]]
<1>. DEFINE end == Climb(ell)
            Good(q) == end[q] \in Ends(ell) /\ proj.level[end[q]] >= proj.level[q]
            Bad == {q \in Base : ~ Good(q)}
<1>1. end = [q \in Base |-> IF q \in Hubs(ell) \/ proj.father[q] = q THEN q ELSE end[proj.father[q]]]
  <2>1. \E f : f = [q \in Base |-> IF q \in Hubs(ell) \/ proj.father[q] = q
                                   THEN q ELSE f[proj.father[q]]]
    BY ClimbExists
  <2>2. end = CHOOSE f : f = [q \in Base |-> IF q \in Hubs(ell) \/ proj.father[q] = q
                                             THEN q ELSE f[proj.father[q]]]
    BY DEF Climb
  <2>. QED BY <2>1, <2>2
<1>. HIDE DEF end
<1>2. \A q \in Base : /\ q \in Ends(ell) => end[q] = q
                      /\ q \notin Ends(ell) => end[q] = end[proj.father[q]]
  BY <1>1 DEF Ends
<1>3. /\ proj.level \in [Base -> Nat] /\ proj.father \in [Base -> Base]
      /\ \A q \in Base : proj.father[q] # q => proj.level[proj.father[q]] > proj.level[q]
  BY DEF ProjTyped
<1>4. Ends(ell) \subseteq Base
  BY DEF Ends
<1>5. Bad = {}
  <2>. SUFFICES ASSUME Bad # {} PROVE FALSE
    OBVIOUS
  <2>1. PICK q \in Bad : \A r \in Bad : proj.level[r] <= proj.level[q]
    <3>1. Bad \in SUBSET Base
      OBVIOUS
    <3>. HIDE DEF Bad
    <3>. QED BY <1>3, <3>1, HighestOf
  <2>2. q \notin Ends(ell)
    <3>1. q \in Ends(ell) => Good(q)
      BY <1>2, <1>3
    <3>. QED BY <2>1, <3>1
  <2>3. proj.father[q] # q /\ proj.father[q] \in Base /\ proj.level[proj.father[q]] > proj.level[q]
    BY <1>3, <2>2 DEF Ends
  <2>4. proj.level[proj.father[q]] \in Nat /\ proj.level[q] \in Nat
    BY <1>3, <2>3
  <2>5. Good(proj.father[q])
    <3>1. proj.father[q] \notin Bad
      BY <2>1, <2>3, <2>4
    <3>. QED BY <2>3, <3>1
  <2>6. end[q] = end[proj.father[q]] /\ end[q] \in Ends(ell)
    BY <1>2, <2>2, <2>5
  <2>7. proj.level[end[q]] >= proj.level[q]
    <3>1. proj.level[end[q]] \in Nat
      BY <1>3, <1>4, <2>6
    <3>. QED BY <2>3, <2>4, <2>5, <2>6, <3>1
  <2>. QED BY <2>1, <2>6, <2>7
<1>6. Good(p)
  BY <1>5
<1>7. end = Climb(ell)
  BY DEF end
<1>. QED BY <1>2, <1>6, <1>7
\* The regions of a finished map are numbered without gaps, and each is a tree.
TreeTops(m, r) == {p \in Base : m.of[p] = r /\ (m.parent[p] = p \/ m.of[m.parent[p]] # r)}
TreeMap(m) ==
    /\ {m.of[p] : p \in Base} = 0 .. m.n - 1
    /\ \A r \in 0 .. m.n - 1 : Cardinality(TreeTops(m, r)) = 1
    /\ \A p \in Base : m.of[m.parent[p]] # m.of[p] => proj.level[p] >= m.ell
    /\ \A S \in SUBSET Base : S # {} /\ (\A p \in S : m.parent[p] \in S) =>
           \E p \in S : m.parent[p] = p

\* Two numberings in a row are one.
LEMMA TwoRanges ==
    ASSUME NEW h \in Nat, NEW k \in Nat
    PROVE  /\ (0 .. h - 1) \cup {h + r : r \in 0 .. k - 1} = 0 .. h + k - 1
           /\ (0 .. h - 1) \cap {h + r : r \in 0 .. k - 1} = {}
<1>. DEFINE W == {h + r : r \in 0 .. k - 1}
<1>1. ASSUME NEW x \in 0 .. h + k - 1 PROVE x \in (0 .. h - 1) \cup W
  <2>1. CASE x < h
    BY <2>1
  <2>2. CASE x >= h
    <3>1. x - h \in 0 .. k - 1 /\ x = h + (x - h)
      BY <2>2
    <3>. QED BY <3>1
  <2>. QED BY <2>1, <2>2
<1>2. \A w \in W : w \in 0 .. h + k - 1 /\ w \notin 0 .. h - 1
  OBVIOUS
<1>3. \A v \in 0 .. h - 1 : v \in 0 .. h + k - 1
  OBVIOUS
<1>. QED BY <1>1, <1>2, <1>3

\* The forest builder numbers the ends of all climbs.
Tips(ell) == {Climb(ell)[p] : p \in Base}
Lone(ell) == Tips(ell) \ Hubs(ell)
ReachedAt(ell, r) == Min({p \in Base : Climb(ell)[p] = r})
NumberOf(ell, r) ==
    IF r \in Hubs(ell) THEN Cardinality({h \in Hubs(ell) : h < r})
    ELSE Cardinality(Hubs(ell)) + Cardinality({s \in Lone(ell) : ReachedAt(ell, s) < ReachedAt(ell, r)})
Total(ell) == Cardinality(Hubs(ell)) + Cardinality(Lone(ell))
Numbers(ell) == {NumberOf(ell, r) : r \in Tips(ell)}

LEMMA NumberFact ==
    ASSUME ProjTyped, proj # None, NEW ell
    PROVE  /\ Numbers(ell) = 0 .. Total(ell) - 1
           /\ \A r, s \in Tips(ell) : NumberOf(ell, r) = NumberOf(ell, s) => r = s
<1>. DEFINE E == Tips(ell)
            H == Hubs(ell)
            L == Lone(ell)
            h == Cardinality(H)
            k == Cardinality(L)
            id == [p \in H |-> p]
            at == [r \in L |-> ReachedAt(ell, r)]
            V == {NumberOf(ell, r) : r \in H}
            W == {NumberOf(ell, r) : r \in L}
<1>1. /\ E \in SUBSET Base /\ H \in SUBSET Base /\ H \subseteq E /\ E = H \cup L /\ H \cap L = {}
  <2>1. E \in SUBSET Base
    BY ClimbFact DEF Ends, Tips
  <2>2. H \in SUBSET Base
    BY DEF Hubs
  <2>3. \A p \in H : p \in E
    <3>1. \A p \in H : p \in Base /\ p \in Ends(ell)
      BY DEF Hubs, Ends
    <3>. QED BY <3>1, ClimbFact DEF Tips
  <2>. QED BY <2>1, <2>2, <2>3 DEF Lone
<1>2. IsFiniteSet(H) /\ IsFiniteSet(L) /\ h \in Nat /\ k \in Nat
  <2>1. L \in SUBSET Base
    BY <1>1
  <2>. QED BY <1>1, <2>1, BaseFinite, FS_Subset, FS_CardinalityType
<1>3. ASSUME NEW r \in L PROVE ReachedAt(ell, r) \in Base /\ Climb(ell)[ReachedAt(ell, r)] = r
  <2>. DEFINE S == {p \in Base : Climb(ell)[p] = r}
  <2>1. S \subseteq Nat /\ S # {}
    BY BaseFinite DEF Lone, Tips
  <2>2. \E d \in S : \A e \in S : d <= e
    <3>. HIDE DEF S
    <3>. QED BY <2>1, LeastOf
  <2>3. Min(S) \in S
    BY <2>2 DEF Min
  <2>. QED BY <2>3 DEF ReachedAt
<1>4. id \in [H -> Nat] /\ \A p, q \in H : id[p] = id[q] => p = q
  BY <1>1, BaseFinite
<1>5. at \in [L -> Nat] /\ \A p, q \in L : at[p] = at[q] => p = q
  <2>1. \A r \in L : ReachedAt(ell, r) \in Nat
    BY <1>3, BaseFinite
  <2>. QED BY <1>3, <2>1
<1>6. \A r \in H : NumberOf(ell, r) = Rank(H, id, r)
  <2>1. \A r \in H : {q \in H : id[q] < id[r]} = {q \in H : q < r}
    OBVIOUS
  <2>. QED BY <2>1 DEF NumberOf, Rank
<1>7. \A r \in L : NumberOf(ell, r) = h + Rank(L, at, r)
  <2>1. \A r \in L : {q \in L : at[q] < at[r]} = {q \in L : ReachedAt(ell, q) < ReachedAt(ell, r)}
    OBVIOUS
  <2>. QED BY <1>1, <2>1 DEF NumberOf, Rank
<1>. HIDE DEF id, at, L, H, E
<1>8. /\ {Rank(H, id, p) : p \in H} = 0 .. h - 1
      /\ \A p, q \in H : Rank(H, id, p) = Rank(H, id, q) => p = q
  BY <1>2, <1>4, RankFact
<1>9. /\ {Rank(L, at, p) : p \in L} = 0 .. k - 1
      /\ \A p, q \in L : Rank(L, at, p) = Rank(L, at, q) => p = q
      /\ \A p \in L : Rank(L, at, p) \in 0 .. k - 1
  BY <1>2, <1>5, RankFact
<1>10. V = 0 .. h - 1
  BY <1>6, <1>8
<1>11. W = {h + r : r \in 0 .. k - 1}
  <2>1. W = {h + Rank(L, at, p) : p \in L}
    BY <1>7
  <2>2. {h + Rank(L, at, p) : p \in L} = {h + r : r \in {Rank(L, at, p) : p \in L}}
    OBVIOUS
  <2>. QED BY <1>9, <2>1, <2>2
<1>12. V \cup W = 0 .. h + k - 1 /\ V \cap W = {}
  <2>1. /\ (0 .. h - 1) \cup {h + r : r \in 0 .. k - 1} = 0 .. h + k - 1
        /\ (0 .. h - 1) \cap {h + r : r \in 0 .. k - 1} = {}
    <3>. HIDE DEF h, k
    <3>. QED BY <1>2, TwoRanges
  <2>. QED BY <1>10, <1>11, <2>1
<1>13. {NumberOf(ell, r) : r \in E} = V \cup W
  BY <1>1
<1>14. ASSUME NEW r \in E, NEW s \in E, NumberOf(ell, r) = NumberOf(ell, s) PROVE r = s
  <2>1. CASE r \in H /\ s \in H
    BY <1>6, <1>8, <1>14, <2>1
  <2>2. CASE r \in L /\ s \in L
    <3>1. h + Rank(L, at, r) = h + Rank(L, at, s)
      BY <1>7, <1>14, <2>2
    <3>2. Rank(L, at, r) \in Int /\ Rank(L, at, s) \in Int
      BY <1>9, <2>2
    <3>3. Rank(L, at, r) = Rank(L, at, s)
      <4>. HIDE DEF h
      <4>. QED BY <1>2, <3>1, <3>2
    <3>. QED BY <1>9, <2>2, <3>3
  <2>3. CASE (r \in H /\ s \in L) \/ (r \in L /\ s \in H)
    BY <1>12, <1>14, <2>3
  <2>. QED BY <1>1, <2>1, <2>2, <2>3
<1>15. {NumberOf(ell, r) : r \in E} = 0 .. h + k - 1
  BY <1>12, <1>13
<1>16. \A r, s \in E : NumberOf(ell, r) = NumberOf(ell, s) => r = s
  BY <1>14
<1>17. Numbers(ell) = 0 .. h + k - 1
  <2>1. Numbers(ell) = {NumberOf(ell, r) : r \in E}
    BY DEF E, Numbers
  <2>. QED BY <1>15, <2>1, Zenon
<1>18. Total(ell) = h + k
  BY DEF H, L, Total
<1>19. E = Tips(ell)
  BY DEF E
<1>20. Numbers(ell) = 0 .. Total(ell) - 1
  <2>. HIDE DEF h, k
  <2>. QED BY <1>2, <1>17, <1>18
<1>21. \A r, s \in Tips(ell) : NumberOf(ell, r) = NumberOf(ell, s) => r = s
  BY <1>16, <1>19
<1>. QED BY <1>20, <1>21

LEMMA ForestTrees ==
    ASSUME ProjTyped, proj # None, NEW ell
    PROVE  TreeMap(Forest(ell)) /\ Forest(ell).done
<1>. DEFINE end == Climb(ell)
            m == Forest(ell)
            E == Tips(ell)
            n == Total(ell)
            Num(r) == NumberOf(ell, r)
<1>1. /\ m.of = [p \in Base |-> Num(end[p])] /\ m.parent = proj.father /\ m.n = n /\ m.ell = ell
      /\ m.done = TRUE
  BY DEF Forest, NumberOf, Lone, ReachedAt, Tips, Total
<1>2. {Num(r) : r \in E} = 0 .. n - 1 /\ \A r, s \in E : Num(r) = Num(s) => r = s
  BY NumberFact DEF Numbers
<1>3. \A p \in Base : /\ end[p] \in Ends(ell) /\ proj.level[end[p]] >= proj.level[p]
                      /\ p \in Ends(ell) => end[p] = p
                      /\ p \notin Ends(ell) => end[p] = end[proj.father[p]]
  BY ClimbFact
<1>4. /\ proj.level \in [Base -> Nat] /\ proj.father \in [Base -> Base]
      /\ \A q \in Base : proj.father[q] # q => proj.level[proj.father[q]] > proj.level[q]
  BY DEF ProjTyped
<1>5. Ends(ell) \subseteq Base
  BY DEF Ends
<1>. HIDE DEF m, n, Num
<1>0. E = {end[p] : p \in Base}
  BY DEF Tips
<1>. HIDE DEF end, E
<1>6. \A p \in Base : m.of[p] = Num(end[p])
  BY <1>1
<1>7. {m.of[p] : p \in Base} = 0 .. m.n - 1
  BY <1>0, <1>1, <1>2, <1>6
<1>8. ASSUME NEW r \in 0 .. m.n - 1 PROVE Cardinality(TreeTops(m, r)) = 1
  <2>1. PICK x \in E : Num(x) = r
    BY <1>1, <1>2
  <2>2. x \in Ends(ell) /\ x \in Base /\ end[x] = x
    BY <1>0, <1>3, <1>5, <2>1
  <2>3. \A p \in Base : m.of[p] = r <=> end[p] = x
    BY <1>0, <1>2, <1>6, <2>1
  <2>4. x \in TreeTops(m, r)
    <3>1. CASE proj.father[x] = x
      BY <1>1, <2>2, <2>3, <3>1 DEF TreeTops
    <3>2. CASE proj.father[x] # x
      <4>. DEFINE y == proj.father[x]
      <4>1. y \in Base /\ proj.level[y] > proj.level[x] /\ proj.level[end[y]] >= proj.level[y]
        BY <1>3, <1>4, <2>2, <3>2
      <4>2. proj.level[y] \in Nat /\ proj.level[x] \in Nat /\ proj.level[end[y]] \in Nat
        BY <1>3, <1>4, <1>5, <2>2, <4>1
      <4>3. end[y] # x
        <5>. HIDE DEF y
        <5>. QED BY <4>1, <4>2
      <4>4. m.of[y] # r
        BY <2>3, <4>1, <4>3
      <4>. QED BY <1>1, <2>2, <2>3, <4>4 DEF TreeTops
    <3>. QED BY <3>1, <3>2
  <2>5. ASSUME NEW p \in TreeTops(m, r) PROVE p = x
    <3>1. p \in Base /\ end[p] = x /\ (proj.father[p] = p \/ m.of[proj.father[p]] # r)
      BY <1>1, <2>3 DEF TreeTops
    <3>2. p \in Ends(ell)
      <4>. SUFFICES ASSUME p \notin Ends(ell) PROVE FALSE
        OBVIOUS
      <4>1. end[proj.father[p]] = x /\ proj.father[p] # p /\ proj.father[p] \in Base
        BY <1>3, <1>4, <3>1 DEF Ends
      <4>. QED BY <2>3, <3>1, <4>1
    <3>. QED BY <1>3, <3>1, <3>2
  <2>6. TreeTops(m, r) = {x}
    BY <2>4, <2>5
  <2>. QED BY <2>6, FS_Singleton
<1>9. ASSUME NEW p \in Base, m.of[m.parent[p]] # m.of[p] PROVE proj.level[p] >= m.ell
  <2>1. proj.father[p] \in Base /\ end[proj.father[p]] # end[p]
    BY <1>1, <1>4, <1>6, <1>9
  <2>2. p \in Hubs(ell)
    BY <1>3, <2>1 DEF Ends
  <2>. QED BY <1>1, <2>2 DEF Hubs
<1>10. ASSUME NEW S \in SUBSET Base, S # {}, \A p \in S : m.parent[p] \in S
       PROVE  \E p \in S : m.parent[p] = p
  BY <1>1, <1>10, FathersEnd
<1>11. TreeMap(m)
  BY <1>7, <1>8, <1>9, <1>10 DEF TreeMap
<1>. QED BY <1>1, <1>11 DEF m
(***************************************************************************)
(* The hub-Voronoi builder.                                                *)
(***************************************************************************)

\* The entry an anchor starts with, and the maps under construction.
AnchorEntry(a) == [key |-> 0, u |-> a, from |-> a, parent |-> a]
QueueEntries == [key : Nat, u : Base, from : Base, parent : Base]
Growths == [done : {FALSE}, ell : Ells, anchors : SUBSET Base, of : [Base -> Int],
            parent : [Base -> Base], best : [Base -> Nat \cup {None}], pq : SUBSET QueueEntries]

\* An anchor waits in the queue or has its region, which nobody can take from
\* it, since its key is 0.
AnchorsOK(g) ==
    \A a \in g.anchors :
        /\ g.best[a] = 0
        /\ g.of[a] = Unassigned => AnchorEntry(a) \in g.pq
        /\ g.of[a] # Unassigned => g.of[a] = Ranked(g.anchors, a) /\ g.parent[a] = a

\* Another point was assigned after its parent, and to the same region.
OthersOK(g) ==
    \A p \in Base \ g.anchors : g.of[p] # Unassigned =>
        g.parent[p] # p /\ g.of[g.parent[p]] = g.of[p]

\* What waits in the queue waits for the region of its parent.
QueueOK(g) ==
    \A e \in g.pq :
        /\ e.from \in g.anchors
        /\ e.u \in g.anchors => e = AnchorEntry(e.u)
        /\ e.u \notin g.anchors => e.parent # e.u /\ g.of[e.parent] = Ranked(g.anchors, e.from)

\* Following parents among the assigned points never goes round in a circle.
ParentsEnd(g) ==
    \A S \in SUBSET Base : S # {} /\ (\A p \in S : g.of[p] # Unassigned /\ g.parent[p] \in S) =>
        \E p \in S : g.parent[p] = p

GrowInv(g) ==
    /\ g \in Growths /\ g.anchors # {}
    /\ \A p \in Base : g.of[p] # Unassigned => \E a \in g.anchors : g.of[p] = Ranked(g.anchors, a)
    /\ AnchorsOK(g) /\ OthersOK(g) /\ QueueOK(g) /\ ParentsEnd(g)

RegionsInv ==
    regions # None => proj # None /\ IF regions.done THEN TreeMap(regions) ELSE GrowInv(regions)

LEMMA RankedFact ==
    ASSUME NEW S \in SUBSET Base
    PROVE  /\ IsFiniteSet(S) /\ Cardinality(S) \in Nat
           /\ \A p \in S : Ranked(S, p) \in 0 .. Cardinality(S) - 1
           /\ \A p, q \in S : Ranked(S, p) = Ranked(S, q) => p = q
           /\ {Ranked(S, p) : p \in S} = 0 .. Cardinality(S) - 1
<1>. DEFINE id == [p \in S |-> p]
<1>1. IsFiniteSet(S) /\ Cardinality(S) \in Nat
  BY BaseFinite, FS_Subset, FS_CardinalityType
<1>2. id \in [S -> Nat] /\ \A p, q \in S : id[p] = id[q] => p = q
  BY BaseFinite
<1>3. \A p \in S : Rank(S, id, p) = Ranked(S, p)
  <2>1. \A p \in S : {q \in S : id[q] < id[p]} = {q \in S : q < p}
    OBVIOUS
  <2>. QED BY <2>1 DEF Rank, Ranked
<1>. HIDE DEF id
<1>4. /\ \A p \in S : Rank(S, id, p) \in 0 .. Cardinality(S) - 1
      /\ \A p, q \in S : Rank(S, id, p) = Rank(S, id, q) => p = q
      /\ {Rank(S, id, p) : p \in S} = 0 .. Cardinality(S) - 1
  BY <1>1, <1>2, RankFact
<1>. QED BY <1>1, <1>3, <1>4

LEMMA HubStartInv ==
    ASSUME ProjTyped, HubStart
    PROVE  regions' # None => proj # None /\ ~ regions'.done /\ GrowInv(regions')
<1>1. proj # None /\ proj.entry \in Base
  BY DEF HubStart, ProjTyped
<1>. DEFINE Anchors(l) == IF Hubs(l) = {} THEN {proj.entry} ELSE Hubs(l)
<1>a. PICK ell \in Ells :
        regions' = [done |-> FALSE, ell |-> ell, anchors |-> Anchors(ell),
                    of |-> [p \in Base |-> Unassigned], parent |-> [p \in Base |-> 0],
                    best |-> [p \in Base |-> IF p \in Anchors(ell) THEN 0 ELSE None],
                    pq |-> {[key |-> 0, u |-> a, from |-> a, parent |-> a] : a \in Anchors(ell)}]
  BY DEF HubStart
<1>2. PICK anchors :
        /\ anchors = Anchors(ell)
        /\ regions' = [done |-> FALSE, ell |-> ell, anchors |-> anchors,
                       of |-> [p \in Base |-> Unassigned], parent |-> [p \in Base |-> 0],
                       best |-> [p \in Base |-> IF p \in anchors THEN 0 ELSE None],
                       pq |-> {[key |-> 0, u |-> a, from |-> a, parent |-> a] : a \in anchors}]
  BY <1>a
<1>3. anchors \in SUBSET Base /\ anchors # {}
  BY <1>1, <1>2 DEF Hubs
<1>4. PICK g : g = regions'
  OBVIOUS
<1>5. /\ g.done = FALSE /\ g.ell = ell /\ g.anchors = anchors /\ g.of = [p \in Base |-> Unassigned]
      /\ g.parent = [p \in Base |-> 0] /\ g.best = [p \in Base |-> IF p \in anchors THEN 0 ELSE None]
      /\ g.pq = {AnchorEntry(a) : a \in anchors}
  BY <1>2, <1>4 DEF AnchorEntry
<1>6. 0 \in Base
  BY InsertAssumption DEF Base
<1>7. g \in Growths
  <2>1. \A a \in anchors : AnchorEntry(a) \in QueueEntries
    BY <1>3 DEF AnchorEntry, QueueEntries
  <2>2. Unassigned \in Int
    BY DEF Unassigned
  <2>3. /\ [p \in Base |-> Unassigned] \in [Base -> Int] /\ [p \in Base |-> 0] \in [Base -> Base]
        /\ [p \in Base |-> IF p \in anchors THEN 0 ELSE None] \in [Base -> Nat \cup {None}]
        /\ {AnchorEntry(a) : a \in anchors} \in SUBSET QueueEntries
    BY <1>6, <2>1, <2>2
  <2>. QED BY <1>2, <1>3, <1>4, <2>3 DEF Growths, AnchorEntry
<1>8. \A p \in Base : g.of[p] = Unassigned
  BY <1>5
<1>9. AnchorsOK(g)
  BY <1>3, <1>5, <1>8 DEF AnchorsOK
<1>10. QueueOK(g)
  BY <1>3, <1>5 DEF QueueOK, AnchorEntry
<1>11. OthersOK(g) /\ ParentsEnd(g)
  BY <1>8 DEF OthersOK, ParentsEnd
<1>12. GrowInv(g)
  BY <1>3, <1>5, <1>7, <1>8, <1>9, <1>10, <1>11 DEF GrowInv
<1>. QED BY <1>1, <1>4, <1>5, <1>12

\* One entry taken from the queue.
LEMMA HubPopInv ==
    ASSUME ProjTyped, proj # None, GrowInv(regions), HubPop
    PROVE  GrowInv(regions') /\ ~ regions'.done
<1>1. PICK g : g = regions
  OBVIOUS
<1>2. /\ g \in Growths /\ g.anchors # {} /\ AnchorsOK(g) /\ OthersOK(g) /\ QueueOK(g) /\ ParentsEnd(g)
      /\ \A p \in Base : g.of[p] # Unassigned => \E a \in g.anchors : g.of[p] = Ranked(g.anchors, a)
  BY <1>1 DEF GrowInv
<1>3. /\ g.anchors \in SUBSET Base /\ g.of \in [Base -> Int] /\ g.parent \in [Base -> Base]
      /\ g.best \in [Base -> Nat \cup {None}] /\ g.pq \in SUBSET QueueEntries
  BY <1>2 DEF Growths
<1>. DEFINE Near(e) == {v \in proj.nbr[0][e.u] : /\ regions.of[v] = Unassigned /\ v # e.u
                                                 /\ regions.best[v] # None =>
                                                          Apart[v][e.from] < regions.best[v]}
            Taken(e) == [regions EXCEPT
                           !.of[e.u] = Ranked(regions.anchors, e.from),
                           !.parent[e.u] = e.parent,
                           !.best = [v \in Base |-> IF v \in Near(e) THEN Apart[v][e.from] ELSE @[v]],
                           !.pq = (@ \ {e}) \cup {[key |-> Apart[v][e.from], u |-> v,
                                                   from |-> e.from, parent |-> e.u] : v \in Near(e)}]
<1>a. PICK e \in regions.pq :
        regions' = IF regions.of[e.u] = Unassigned THEN Taken(e)
                   ELSE [regions EXCEPT !.pq = @ \ {e}]
  BY Zenon DEF HubPop, FirstTime
<1>4. PICK near : near = Near(e)
  OBVIOUS
<1>b. g.of[e.u] = Unassigned =>
        regions' = [g EXCEPT
                      !.of[e.u] = Ranked(g.anchors, e.from),
                      !.parent[e.u] = e.parent,
                      !.best = [v \in Base |-> IF v \in near THEN Apart[v][e.from] ELSE g.best[v]],
                      !.pq = (g.pq \ {e}) \cup {[key |-> Apart[v][e.from], u |-> v,
                                                 from |-> e.from, parent |-> e.u] : v \in near}]
  <2>. HIDE DEF Near
  <2>. QED BY <1>1, <1>2, <1>a, <1>4 DEF Growths
<1>c. g.of[e.u] # Unassigned => regions' = [g EXCEPT !.pq = g.pq \ {e}]
  <2>. HIDE DEF Taken
  <2>. QED BY <1>1, <1>2, <1>a DEF Growths
<1>d. near = {v \in proj.nbr[0][e.u] : /\ g.of[v] = Unassigned /\ v # e.u
                                       /\ g.best[v] # None => Apart[v][e.from] < g.best[v]}
  BY <1>1, <1>4
<1>. HIDE DEF Near, Taken
<1>5. /\ e.u \in Base /\ e.from \in g.anchors /\ e.parent \in Base
      /\ e.u \in g.anchors => e = AnchorEntry(e.u)
      /\ e.u \notin g.anchors => e.parent # e.u /\ g.of[e.parent] = Ranked(g.anchors, e.from)
  BY <1>1, <1>2, <1>3 DEF QueueOK, QueueEntries
<1>6. PICK h : h = regions'
  OBVIOUS
<1>7. SUFFICES GrowInv(h) /\ ~ h.done
  BY <1>6
<1>8. \A a \in g.anchors : Ranked(g.anchors, a) # Unassigned
  <2>1. \A a \in g.anchors : Ranked(g.anchors, a) \in Nat
    <3>1. g.anchors \in SUBSET Base
      BY <1>3
    <3>2. \A a \in g.anchors : Ranked(g.anchors, a) \in 0 .. Cardinality(g.anchors) - 1
      BY <3>1, RankedFact
    <3>. QED BY <3>2
  <2>. QED BY <2>1 DEF Unassigned
<1>9. CASE g.of[e.u] # Unassigned
  <2>1. h = [g EXCEPT !.pq = g.pq \ {e}]
    BY <1>c, <1>6, <1>9
  <2>2. /\ h \in Growths /\ h.anchors = g.anchors /\ h.of = g.of /\ h.parent = g.parent
        /\ h.best = g.best /\ h.pq = g.pq \ {e} /\ h.done = FALSE
    BY <1>2, <2>1 DEF Growths
  <2>3. AnchorsOK(h)
    <3>1. \A a \in g.anchors : g.of[a] = Unassigned => AnchorEntry(a) # e
      BY <1>9 DEF AnchorEntry
    <3>. QED BY <1>2, <2>2, <3>1 DEF AnchorsOK
  <2>4. OthersOK(h) /\ QueueOK(h) /\ ParentsEnd(h)
    BY <1>2, <2>2 DEF OthersOK, QueueOK, ParentsEnd
  <2>. QED BY <1>2, <2>2, <2>3, <2>4 DEF GrowInv
<1>10. CASE g.of[e.u] = Unassigned
  <2>. DEFINE u == e.u
              New(v) == [key |-> Apart[v][e.from], u |-> v, from |-> e.from, parent |-> u]
              of == [g.of EXCEPT ![u] = Ranked(g.anchors, e.from)]
              parent == [g.parent EXCEPT ![u] = e.parent]
              best == [v \in Base |-> IF v \in near THEN Apart[v][e.from] ELSE g.best[v]]
              pq == (g.pq \ {e}) \cup {New(v) : v \in near}
  <2>1. h = [g EXCEPT !.of = of, !.parent = parent, !.best = best, !.pq = pq]
    BY <1>b, <1>6, <1>10
  <2>2. /\ near \subseteq Base
        /\ \A v \in near : /\ g.of[v] = Unassigned /\ v # u
                           /\ Apart[v][e.from] \in Nat
                           /\ g.best[v] # None => Apart[v][e.from] < g.best[v]
    <3>1. proj.nbr[0] \in [Base -> SUBSET Base]
      BY DEF ProjTyped
    <3>2. near \subseteq Base
      BY <1>d, <1>5, <3>1
    <3>3. \A v \in near : Apart[v][e.from] \in Nat
      BY <1>3, <1>5, <3>2, InsertAssumption
    <3>. QED BY <1>d, <3>2, <3>3
  <2>3. \A v \in near : v \notin g.anchors
    <3>. SUFFICES ASSUME NEW v \in near, v \in g.anchors PROVE FALSE
      OBVIOUS
    <3>1. g.best[v] = 0 /\ 0 # None
      BY <1>2, RegionAssumption DEF AnchorsOK
    <3>. QED BY <2>2, <3>1
  <2>4. \A v \in near : New(v) \in QueueEntries /\ New(v).u = v /\ New(v).from = e.from /\ New(v).parent = u
    BY <1>3, <1>5, <2>2 DEF QueueEntries
  <2>5. /\ of \in [Base -> Int] /\ of[u] = Ranked(g.anchors, e.from)
        /\ \A p \in Base : p # u => of[p] = g.of[p]
    <3>1. Ranked(g.anchors, e.from) \in Int
      BY <1>3, <1>5, RankedFact
    <3>. QED BY <1>3, <1>5, <3>1
  <2>6. /\ parent \in [Base -> Base] /\ parent[u] = e.parent
        /\ \A p \in Base : p # u => parent[p] = g.parent[p]
    BY <1>3, <1>5
  <2>7. /\ best \in [Base -> Nat \cup {None}] /\ \A p \in Base : p \notin near => best[p] = g.best[p]
    BY <1>3, <2>2
  <2>8. pq \in SUBSET QueueEntries
    BY <1>3, <2>4
  <2>9. \A x \in pq : x \in g.pq \/ \E v \in near : x = New(v)
    OBVIOUS
  <2>10. \A x \in g.pq : x # e => x \in pq
    OBVIOUS
  <2>. HIDE DEF of, parent, best, pq, New
  <2>11. /\ h \in Growths /\ h.anchors = g.anchors /\ h.of = of /\ h.parent = parent
         /\ h.best = best /\ h.pq = pq /\ h.done = FALSE
    BY <1>2, <2>1, <2>5, <2>6, <2>7, <2>8 DEF Growths
  <2>12. of[u] # Unassigned /\ \A p \in Base : p # u => (of[p] # Unassigned <=> g.of[p] # Unassigned)
    BY <1>5, <1>8, <2>5
  <2>13. AnchorsOK(h)
    <3>. SUFFICES ASSUME NEW a \in g.anchors
                  PROVE  /\ best[a] = 0
                         /\ of[a] = Unassigned => AnchorEntry(a) \in pq
                         /\ of[a] # Unassigned => of[a] = Ranked(g.anchors, a) /\ parent[a] = a
      BY <2>11 DEF AnchorsOK
    <3>1. best[a] = 0 /\ a \in Base
      BY <1>2, <1>3, <2>3, <2>7 DEF AnchorsOK
    <3>2. CASE a = u
      <4>1. e.from = a /\ e.parent = a
        BY <1>5, <3>2 DEF AnchorEntry
      <4>. QED BY <2>5, <2>6, <2>12, <3>1, <3>2, <4>1
    <3>3. CASE a # u
      <4>1. AnchorEntry(a) # e
        BY <3>3 DEF AnchorEntry
      <4>. QED BY <1>2, <2>5, <2>6, <2>10, <3>1, <3>3, <4>1 DEF AnchorsOK
    <3>. QED BY <3>2, <3>3
  <2>14. OthersOK(h)
    <3>. SUFFICES ASSUME NEW p \in Base \ g.anchors, of[p] # Unassigned
                  PROVE  parent[p] # p /\ of[parent[p]] = of[p]
      BY <2>11 DEF OthersOK
    <3>1. CASE p = u
      <4>1. e.parent # u /\ g.of[e.parent] = Ranked(g.anchors, e.from)
        BY <1>5, <3>1
      <4>. QED BY <1>5, <2>5, <2>6, <3>1, <4>1
    <3>2. CASE p # u
      <4>1. g.parent[p] # p /\ g.of[g.parent[p]] = g.of[p] /\ g.of[p] # Unassigned
        BY <1>2, <2>12, <3>2 DEF OthersOK
      <4>2. g.parent[p] # u /\ g.parent[p] \in Base
        BY <1>3, <1>10, <4>1
      <4>. QED BY <2>5, <2>6, <3>2, <4>1, <4>2
    <3>. QED BY <3>1, <3>2
  <2>15. QueueOK(h)
    <3>. SUFFICES ASSUME NEW x \in pq
                  PROVE  /\ x.from \in g.anchors
                         /\ x.u \in g.anchors => x = AnchorEntry(x.u)
                         /\ x.u \notin g.anchors =>
                               x.parent # x.u /\ of[x.parent] = Ranked(g.anchors, x.from)
      BY <2>11 DEF QueueOK
    <3>1. CASE x \in g.pq
      <4>1. /\ x.from \in g.anchors /\ x.parent \in Base
            /\ x.u \in g.anchors => x = AnchorEntry(x.u)
            /\ x.u \notin g.anchors =>
                  x.parent # x.u /\ g.of[x.parent] = Ranked(g.anchors, x.from)
        BY <1>2, <1>3, <3>1 DEF QueueOK, QueueEntries
      <4>2. x.u \notin g.anchors => x.parent # u
        BY <1>8, <1>10, <4>1
      <4>. QED BY <2>5, <4>1, <4>2
    <3>2. CASE \E v \in near : x = New(v)
      <4>1. PICK v \in near : x = New(v)
        BY <3>2
      <4>. QED BY <1>5, <2>2, <2>3, <2>4, <2>5, <4>1
    <3>. QED BY <2>9, <3>1, <3>2
  <2>16. ParentsEnd(h)
    <3>. SUFFICES ASSUME NEW S \in SUBSET Base, S # {},
                         \A p \in S : of[p] # Unassigned /\ parent[p] \in S
                  PROVE  \E p \in S : parent[p] = p
      BY <2>11 DEF ParentsEnd
    <3>1. CASE u \notin S
      <4>1. \A p \in S : g.of[p] # Unassigned /\ g.parent[p] \in S
        BY <2>6, <2>12, <3>1
      <4>2. \E p \in S : g.parent[p] = p
        BY <1>2, <4>1 DEF ParentsEnd
      <4>. QED BY <2>6, <3>1, <4>2
    <3>2. CASE u \in S /\ e.parent = u
      BY <2>6, <3>2
    <3>3. CASE u \in S /\ e.parent # u
      <4>. DEFINE T == S \ {u}
      <4>1. T \in SUBSET Base /\ T # {}
        BY <2>6, <3>3
      <4>2. ASSUME NEW p \in T PROVE g.of[p] # Unassigned /\ g.parent[p] \in T
        <5>1. g.of[p] # Unassigned /\ g.parent[p] = parent[p] /\ g.parent[p] \in S
          BY <2>6, <2>12
        <5>2. g.of[g.parent[p]] # Unassigned
          <6>1. CASE p \in g.anchors
            BY <1>2, <5>1, <6>1 DEF AnchorsOK
          <6>2. CASE p \notin g.anchors
            BY <1>2, <5>1, <6>2 DEF OthersOK
          <6>. QED BY <6>1, <6>2
        <5>. QED BY <1>10, <5>1, <5>2
      <4>3. \E p \in T : g.parent[p] = p
        <5>. HIDE DEF T
        <5>. QED BY <1>2, <4>1, <4>2 DEF ParentsEnd
      <4>. QED BY <2>6, <4>3
    <3>. QED BY <3>1, <3>2, <3>3
  <2>17. \A p \in Base : of[p] # Unassigned => \E a \in g.anchors : of[p] = Ranked(g.anchors, a)
    BY <1>2, <1>5, <2>5, <2>12
  <2>. QED BY <1>2, <2>11, <2>13, <2>14, <2>15, <2>16, <2>17 DEF GrowInv
<1>. QED BY <1>9, <1>10

\* When the queue is empty every anchor has its region, and the points no anchor
\* reached become regions of their own, numbered after those of the anchors.
LEMMA HubEndInv ==
    ASSUME GrowInv(regions), HubEnd
    PROVE  TreeMap(regions') /\ regions'.done
<1>1. PICK g : g = regions
  OBVIOUS
<1>2. /\ g \in Growths /\ g.anchors # {} /\ AnchorsOK(g) /\ OthersOK(g) /\ ParentsEnd(g) /\ g.pq = {}
      /\ \A p \in Base : g.of[p] # Unassigned => \E a \in g.anchors : g.of[p] = Ranked(g.anchors, a)
  BY <1>1 DEF GrowInv, HubEnd
<1>3. g.anchors \in SUBSET Base /\ g.of \in [Base -> Int] /\ g.parent \in [Base -> Base]
  BY <1>2 DEF Growths
<1>. DEFINE A == g.anchors
            L == {p \in Base : g.of[p] = Unassigned}
            k == Cardinality(A)
            c == Cardinality(L)
            of == [p \in Base |-> IF p \in L THEN k + Ranked(L, p) ELSE g.of[p]]
            parent == [p \in Base |-> IF p \in L THEN p ELSE g.parent[p]]
<1>4. PICK m : m = regions'
  OBVIOUS
<1>5. m.done = TRUE /\ m.n = k + c /\ m.of = of /\ m.parent = parent
  BY <1>1, <1>4 DEF HubEnd
<1>6. L \in SUBSET Base /\ A \in SUBSET Base
  BY <1>3
<1>7. /\ k \in Nat /\ c \in Nat
      /\ {Ranked(A, a) : a \in A} = 0 .. k - 1 /\ {Ranked(L, p) : p \in L} = 0 .. c - 1
      /\ \A a, b \in A : Ranked(A, a) = Ranked(A, b) => a = b
      /\ \A p, q \in L : Ranked(L, p) = Ranked(L, q) => p = q
  <2>. HIDE DEF A, L
  <2>. QED BY <1>6, RankedFact
<1>8. \A a \in A : g.of[a] = Ranked(A, a) /\ g.parent[a] = a /\ a \notin L
  <2>1. \A a \in A : g.of[a] # Unassigned
    BY <1>2 DEF AnchorsOK
  <2>. QED BY <1>2, <2>1 DEF AnchorsOK
<1>9. /\ \A p \in L : of[p] = k + Ranked(L, p) /\ parent[p] = p
      /\ \A p \in Base \ L : of[p] = g.of[p] /\ parent[p] = g.parent[p]
  BY <1>6
<1>10. \A p \in Base \ L : g.of[p] \in 0 .. k - 1
  BY <1>2, <1>7
<1>11. \A p \in Base : parent[p] \in Base /\ of[parent[p]] = of[p]
  <2>. SUFFICES ASSUME NEW p \in Base PROVE parent[p] \in Base /\ of[parent[p]] = of[p]
    OBVIOUS
  <2>. HIDE DEF of, parent, A, L
  <2>1. CASE p \in L
    BY <1>9, <2>1
  <2>2. CASE p \in A
    BY <1>8, <1>9, <2>2
  <2>3. CASE p \notin L /\ p \notin A
    <3>1. g.of[p] # Unassigned
      BY <2>3 DEF L
    <3>2. g.of[g.parent[p]] = g.of[p] /\ g.parent[p] \in Base
      BY <1>2, <1>3, <2>3, <3>1 DEF OthersOK, A
    <3>3. g.parent[p] \notin L
      BY <3>1, <3>2 DEF L
    <3>. QED BY <1>9, <2>3, <3>2, <3>3
  <2>. QED BY <2>1, <2>2, <2>3
<1>. DEFINE W == {k + r : r \in 0 .. c - 1}
<1>. HIDE DEF of, parent, A, L, k, c
<1>12. (0 .. k - 1) \cup W = 0 .. k + c - 1 /\ (0 .. k - 1) \cap W = {}
  BY <1>7, TwoRanges
<1>13. \A p \in L : of[p] \in W
  BY <1>7, <1>9
<1>14. {of[p] : p \in Base} = 0 .. k + c - 1
  <2>1. \A p \in Base : of[p] \in 0 .. k + c - 1
    BY <1>9, <1>10, <1>12, <1>13
  <2>2. ASSUME NEW r \in 0 .. k - 1 PROVE \E p \in Base : of[p] = r
    <3>1. PICK a \in A : Ranked(A, a) = r
      BY <1>7
    <3>2. a \in Base \ L /\ of[a] = r
      BY <1>6, <1>8, <1>9, <3>1
    <3>. QED BY <3>2
  <2>3. ASSUME NEW r \in W PROVE \E p \in Base : of[p] = r
    <3>1. PICK s \in 0 .. c - 1 : r = k + s
      OBVIOUS
    <3>2. PICK p \in L : Ranked(L, p) = s
      BY <1>7
    <3>. QED BY <1>6, <1>9, <3>1, <3>2
  <2>. QED BY <1>12, <2>1, <2>2, <2>3
<1>15. ASSUME NEW r \in 0 .. k + c - 1 PROVE Cardinality(TreeTops(m, r)) = 1
  <2>1. TreeTops(m, r) = {p \in Base : of[p] = r /\ parent[p] = p}
    BY <1>5, <1>11 DEF TreeTops
  <2>2. CASE r \in 0 .. k - 1
    <3>. DEFINE V == {Ranked(A, a) : a \in A}
    <3>a. V = 0 .. k - 1
      BY <1>7
    <3>b. \A v \in V : \E a \in A : Ranked(A, a) = v
      OBVIOUS
    <3>. HIDE DEF V
    <3>1. PICK a \in A : Ranked(A, a) = r
      BY <2>2, <3>a, <3>b
    <3>0. a \in Base \ L /\ g.of[a] = r /\ g.parent[a] = a
      BY <1>6, <1>8, <3>1
    <3>2. a \in Base /\ of[a] = r /\ parent[a] = a
      BY <1>9, <3>0
    <3>3. ASSUME NEW p \in Base, of[p] = r, parent[p] = p PROVE p = a
      <4>1. p \notin L
        BY <1>12, <1>13, <2>2, <3>3
      <4>2. g.of[p] = r /\ g.parent[p] = p /\ g.of[p] # Unassigned
        BY <1>9, <3>3, <4>1 DEF L
      <4>3. p \in A
        BY <1>2, <4>2 DEF OthersOK, A
      <4>. QED BY <1>7, <1>8, <3>1, <4>2, <4>3
    <3>4. TreeTops(m, r) = {a}
      BY <2>1, <3>2, <3>3
    <3>. QED BY <3>4, FS_Singleton
  <2>3. CASE r \in W
    <3>1. PICK s \in 0 .. c - 1 : r = k + s
      BY <2>3
    <3>2. PICK q \in L : Ranked(L, q) = s
      BY <1>7
    <3>3. q \in Base /\ of[q] = r /\ parent[q] = q
      BY <1>6, <1>9, <3>1, <3>2
    <3>4. ASSUME NEW p \in Base, of[p] = r, parent[p] = p PROVE p = q
      <4>1. p \in L
        BY <1>9, <1>10, <1>12, <2>3, <3>4
      <4>2. Ranked(L, p) \in 0 .. c - 1 /\ k + Ranked(L, p) = r
        BY <1>7, <1>9, <3>4, <4>1
      <4>3. Ranked(L, p) = Ranked(L, q)
        BY <1>7, <3>1, <3>2, <4>2
      <4>. QED BY <1>7, <4>1, <4>3
    <3>5. TreeTops(m, r) = {q}
      BY <2>1, <3>3, <3>4
    <3>. QED BY <3>5, FS_Singleton
  <2>. QED BY <1>12, <2>2, <2>3
<1>16. ASSUME NEW S \in SUBSET Base, S # {}, \A p \in S : parent[p] \in S
       PROVE  \E p \in S : parent[p] = p
  <2>1. CASE \E p \in S : p \in L
    BY <1>9, <2>1
  <2>2. CASE \A p \in S : p \notin L
    <3>1. \A p \in S : g.of[p] # Unassigned /\ g.parent[p] \in S
      BY <1>9, <1>16, <2>2 DEF L
    <3>2. \E p \in S : g.parent[p] = p
      BY <1>2, <1>16, <3>1 DEF ParentsEnd
    <3>. QED BY <1>9, <2>2, <3>2
  <2>. QED BY <2>1, <2>2
<1>17. TreeMap(m)
  <2>1. 0 .. m.n - 1 = 0 .. k + c - 1
    BY <1>5, <1>7
  <2>2. {m.of[p] : p \in Base} = 0 .. m.n - 1
    BY <1>5, <1>14, <2>1
  <2>3. \A r \in 0 .. m.n - 1 : Cardinality(TreeTops(m, r)) = 1
    BY <1>15, <2>1
  <2>4. \A p \in Base : m.of[m.parent[p]] = m.of[p]
    BY <1>5, <1>11
  <2>5. \A S \in SUBSET Base : S # {} /\ (\A p \in S : m.parent[p] \in S) =>
            \E p \in S : m.parent[p] = p
    BY <1>5, <1>16
  <2>. QED BY <2>2, <2>3, <2>4, <2>5 DEF TreeMap
<1>. QED BY <1>4, <1>5, <1>17

\* Whatever step is taken, the map under construction or the finished one stays
\* what it has to be: once regions are cut, the index is no longer changed.
LEMMA RegionsStep ==
    ASSUME InsertInv, ProjOK, RegionsInv, [Next]_vars
    PROVE  RegionsInv'
<1>1. ProjTyped
  BY ProjFacts
<1>2. CASE ForestBuild
  <2>1. PICK ell \in Ells : regions' = Forest(ell) /\ proj # None /\ proj' = proj
    BY <1>2 DEF ForestBuild, insertVars
  <2>2. TreeMap(regions') /\ regions'.done
    BY <1>1, <2>1, ForestTrees
  <2>. QED BY <2>1, <2>2 DEF RegionsInv, TreeMap, TreeTops
<1>3. CASE HubStart
  <2>1. proj' = proj
    BY <1>3 DEF HubStart, insertVars
  <2>2. regions' # None => proj # None /\ ~ regions'.done /\ GrowInv(regions')
    BY <1>1, <1>3, HubStartInv
  <2>. QED BY <2>1, <2>2 DEF RegionsInv
<1>4. CASE HubPop
  <2>1. proj' = proj /\ regions # None /\ ~ regions.done
    BY <1>4 DEF HubPop, Growing, insertVars
  <2>2. proj # None /\ GrowInv(regions)
    BY <2>1 DEF RegionsInv
  <2>3. GrowInv(regions') /\ ~ regions'.done
    BY <1>1, <1>4, <2>2, HubPopInv
  <2>. QED BY <2>1, <2>2, <2>3 DEF RegionsInv
<1>5. CASE HubEnd
  <2>1. proj' = proj /\ regions # None /\ ~ regions.done
    BY <1>5 DEF HubEnd, Growing, insertVars
  <2>2. proj # None /\ GrowInv(regions)
    BY <2>1 DEF RegionsInv
  <2>3. TreeMap(regions') /\ regions'.done
    BY <1>5, <2>2, HubEndInv
  <2>. QED BY <2>1, <2>2, <2>3 DEF RegionsInv, TreeMap, TreeTops
<1>6. CASE UNCHANGED regions /\ [InsertNext]_insertVars
  <2>1. proj # None => proj' = proj
    <3>. SUFFICES ASSUME proj # None PROVE proj' = proj
      OBVIOUS
    <3>1. \A t \in Threads : ~ Step(t)
      BY NoStepAfter DEF ProjOK
    <3>. QED BY <1>6, <3>1 DEF InsertNext, Project, insertVars
  <2>. QED BY <1>6, <2>1 DEF RegionsInv, TreeMap, TreeTops
<1>7. RegionNext \/ (UNCHANGED regions /\ [InsertNext]_insertVars)
  BY DEF Next, IndexStep, MethodStep, TruthStep, SearcherStep, indexVars, vars
<1>. QED BY <1>2, <1>3, <1>4, <1>5, <1>6, <1>7 DEF RegionNext

\* Both builders, on every index that threads can construct: the regions are
\* numbered without gaps, each is a tree whose only way out is above level ell,
\* and following parents never goes round in a circle (src/hnsw_stats/region/).
THEOREM RegionsStayTrees == Spec => []RegionsAreTrees
<1>1. Init => RegionsInv
  BY DEF Init, RegionInit, RegionsInv
<1>2. InsertInv /\ ProjOK /\ RegionsInv /\ [Next]_vars => RegionsInv'
  BY RegionsStep
<1>3. RegionsInv => RegionsAreTrees
  BY DEF RegionsInv, RegionsAreTrees, TreeMap, TreeTops
<1>4. ProjOK /\ [InsertNext]_insertVars /\ InsertInv => ProjOK'
  BY ProjStep
<1>5. InsertInit => ProjOK
  BY DEF InsertInit, ProjOK
<1>. QED BY <1>1, <1>2, <1>3, <1>4, <1>5, SpecImpliesParts, InsertInvariant, PTL DEF Spec, InsertSpec

(***************************************************************************)
(* The ground truth.                                                       *)
(***************************************************************************)

GtSpec == GtInit /\ [][GtNext]_gtVars

BasePoints == 0 .. Points - 1

\* A heap that has seen the points of S.
HeapRight(q, S, heap) ==
    /\ heap \subseteq S /\ Cardinality(heap) = Fewer(KMax, Cardinality(S))
    /\ \A u \in heap, v \in S \ heap : GtDist[q][u] <= GtDist[q][v]

\* What an entry has to say of a query, and what a file or an answer has to.
EntryRight(phi, q, e) == e.n = Cardinality(SatOf[phi]) /\ HeapRight(q, SatOf[phi], e.ids)
AnswerRight(phi, nq, out) ==
    DOMAIN out = 0 .. nq - 1 /\ \A q \in 0 .. nq - 1 : EntryRight(phi, q, out[q])

LEMMA PointsFinite ==
    ASSUME NEW S \in SUBSET BasePoints
    PROVE  IsFiniteSet(S) /\ Cardinality(S) \in Nat /\ S \subseteq Nat
<1>1. Points - 1 \in Int /\ 0 \in Int /\ BasePoints \subseteq Nat
  BY GtAssumption DEF BasePoints
<1>2. IsFiniteSet(BasePoints)
  BY <1>1, FS_Interval DEF BasePoints
<1>. QED BY <1>1, <1>2, FS_Subset, FS_CardinalityType

\* A heap that holds a point has a top.
LEMMA HeapTop ==
    ASSUME NEW q, GtDist[q] \in [BasePoints -> Nat], NEW heap \in SUBSET BasePoints, heap # {}
    PROVE  Top(q, heap) \in heap /\ \A v \in heap : GtDist[q][v] <= GtDist[q][Top(q, heap)]
<1>. DEFINE far == GtDist[q]
            V == {far[u] : u \in heap}
            Beats(u, v) == far[v] < far[u] \/ (far[v] = far[u] /\ v <= u)
<1>1. IsFiniteSet(heap) /\ heap \subseteq Nat
  BY PointsFinite
<1>2. V \subseteq Nat /\ V # {}
  OBVIOUS
<1>3. IsFiniteSet(V)
  <2>1. V = {[u \in heap |-> far[u]][v] : v \in heap}
    OBVIOUS
  <2>2. [u \in heap |-> far[u]] \in Surjection(heap, V)
    BY DEF Surjection
  <2>. QED BY <1>1, <2>2, FS_Surjection
<1>4. PICK d \in V : \A e \in V : e <= d
  <2>. HIDE DEF V
  <2>. QED BY <1>2, <1>3, GreatestOf
<1>. DEFINE M == {u \in heap : far[u] = d}
<1>5. IsFiniteSet(M) /\ M \subseteq Nat /\ M # {}
  BY <1>1, FS_Subset
<1>6. PICK m \in M : \A e \in M : e <= m
  <2>. HIDE DEF M
  <2>. QED BY <1>5, GreatestOf
<1>7. \A v \in heap : Beats(m, v)
  <2>. SUFFICES ASSUME NEW v \in heap PROVE Beats(m, v)
    OBVIOUS
  <2>1. far[v] \in Nat /\ far[m] = d /\ d \in Nat /\ far[v] <= d
    BY <1>2, <1>4
  <2>2. far[v] = d => v <= m
    BY <1>6
  <2>. QED BY <2>1, <2>2
<1>8. Top(q, heap) = CHOOSE u \in heap : \A v \in heap : Beats(u, v)
  BY DEF Top
<1>9. Top(q, heap) \in heap /\ \A v \in heap : Beats(Top(q, heap), v)
  <2>. HIDE DEF Beats
  <2>. QED BY <1>6, <1>7, <1>8
<1>10. \A v \in heap : far[v] \in Nat
  OBVIOUS
<1>. QED BY <1>9, <1>10

\* One more point leaves a right heap right.
LEMMA KeepFact ==
    ASSUME NEW q, GtDist[q] \in [BasePoints -> Nat], NEW S \in SUBSET BasePoints,
           NEW heap, HeapRight(q, S, heap), NEW u \in BasePoints, u \notin S
    PROVE  HeapRight(q, S \cup {u}, Keep(q, heap, u))
<1>. DEFINE far == GtDist[q]
<1>1. heap \in SUBSET S /\ heap \in SUBSET BasePoints
  BY DEF HeapRight
<1>2. /\ IsFiniteSet(S) /\ Cardinality(S) \in Nat
      /\ IsFiniteSet(heap) /\ Cardinality(heap) \in Nat
  BY <1>1, PointsFinite
<1>3. /\ Cardinality(S \cup {u}) = Cardinality(S) + 1
      /\ Cardinality(heap \cup {u}) = Cardinality(heap) + 1
  BY <1>1, <1>2, FS_AddElement
<1>4. KMax \in Nat \ {0} /\ Cardinality(heap) = Fewer(KMax, Cardinality(S))
  BY GtAssumption DEF HeapRight
<1>5. \A v \in BasePoints : far[v] \in Nat
  OBVIOUS
<1>6. \A x \in heap, v \in S \ heap : far[x] <= far[v]
  BY DEF HeapRight
<1>7. CASE Cardinality(heap) < KMax
  <2>1. Cardinality(heap) = Cardinality(S)
    BY <1>2, <1>4, <1>7 DEF Fewer
  <2>2. heap = S
    BY <1>1, <1>2, <2>1, FS_Subset
  <2>3. Keep(q, heap, u) = S \cup {u}
    BY <1>7, <2>2 DEF Keep
  <2>4. Cardinality(S \cup {u}) = Fewer(KMax, Cardinality(S \cup {u}))
    BY <1>2, <1>3, <1>4, <1>7, <2>1 DEF Fewer
  <2>. QED BY <2>3, <2>4 DEF HeapRight
<1>8. CASE ~ (Cardinality(heap) < KMax)
  <2>1. Cardinality(heap) = KMax /\ Fewer(KMax, Cardinality(S \cup {u})) = KMax
    BY <1>2, <1>3, <1>4, <1>8 DEF Fewer
  <2>2. heap # {}
    BY <1>4, <2>1, FS_EmptySet
  <2>3. PICK t \in heap : t = Top(q, heap) /\ \A v \in heap : far[v] <= far[t]
    BY <1>1, <2>2, HeapTop
  <2>4. CASE far[u] < far[t]
    <3>. DEFINE new == (heap \ {t}) \cup {u}
    <3>1. Keep(q, heap, u) = new
      BY <1>8, <2>3, <2>4 DEF Keep
    <3>2. Cardinality(new) = KMax
      <4>1. IsFiniteSet(heap \ {t}) /\ Cardinality(heap \ {t}) = KMax - 1
        BY <1>2, <2>1, <2>3, FS_RemoveElement
      <4>2. u \notin heap \ {t}
        BY <1>1
      <4>3. Cardinality(new) = KMax - 1 + 1
        BY <4>1, <4>2, FS_AddElement
      <4>. QED BY <1>4, <4>3
    <3>3. ASSUME NEW x \in new, NEW v \in (S \cup {u}) \ new PROVE far[x] <= far[v]
      <4>1. v \in S /\ (v \notin heap \/ v = t) /\ v \in BasePoints /\ t \in BasePoints
        BY <1>1, <2>3
      <4>2. x = u \/ x \in heap
        OBVIOUS
      <4>3. far[t] <= far[v]
        BY <1>5, <1>6, <2>3, <4>1
      <4>4. far[x] <= far[t] /\ x \in BasePoints
        BY <1>1, <1>5, <2>3, <2>4, <4>1, <4>2
      <4>. QED BY <1>5, <4>1, <4>3, <4>4
    <3>4. new \subseteq S \cup {u}
      BY <1>1
    <3>. QED BY <2>1, <3>1, <3>2, <3>3, <3>4 DEF HeapRight
  <2>5. CASE ~ (far[u] < far[t])
    <3>1. Keep(q, heap, u) = heap
      BY <1>8, <2>3, <2>5 DEF Keep
    <3>2. ASSUME NEW x \in heap, NEW v \in (S \cup {u}) \ heap PROVE far[x] <= far[v]
      <4>1. CASE v \in S
        BY <1>6, <4>1
      <4>2. CASE v = u
        <5>1. far[x] <= far[t] /\ far[x] \in Nat /\ far[t] \in Nat /\ far[u] \in Nat
          BY <1>1, <1>5, <2>3
        <5>. QED BY <2>5, <4>2, <5>1
      <4>. QED BY <4>1, <4>2
    <3>. QED BY <1>1, <2>1, <3>1, <3>2 DEF HeapRight
  <2>. QED BY <2>4, <2>5
<1>. QED BY <1>7, <1>8

\* What the worker has in its heap before it comes to point n.
Seen(sat, n) == {u \in sat : u < n}

LEMMA SeenFact ==
    ASSUME NEW sat \in SUBSET BasePoints
    PROVE  /\ Seen(sat, 0) = {} /\ Seen(sat, Points) = sat
           /\ \A n \in 0 .. Points - 1 :
                /\ n \in BasePoints /\ n \notin Seen(sat, n) /\ Seen(sat, n) \in SUBSET BasePoints
                /\ n \in sat => Seen(sat, n + 1) = Seen(sat, n) \cup {n}
                /\ n \notin sat => Seen(sat, n + 1) = Seen(sat, n)
<1>1. Points \in Nat
  BY GtAssumption
<1>2. \A u \in sat : u \in Nat /\ u < Points
  BY <1>1 DEF BasePoints
<1>3. Seen(sat, 0) = {}
  BY <1>2 DEF Seen
<1>4. Seen(sat, Points) = sat
  BY <1>2 DEF Seen
<1>5. ASSUME NEW n \in 0 .. Points - 1
      PROVE  /\ n \in BasePoints /\ n \notin Seen(sat, n) /\ Seen(sat, n) \in SUBSET BasePoints
             /\ n \in sat => Seen(sat, n + 1) = Seen(sat, n) \cup {n}
             /\ n \notin sat => Seen(sat, n + 1) = Seen(sat, n)
  <2>1. n \in Nat /\ \A u \in Nat : u < n + 1 <=> u < n \/ u = n
    BY <1>1
  <2>2. n \in BasePoints /\ n \notin Seen(sat, n) /\ Seen(sat, n) \in SUBSET BasePoints
    <3>1. Seen(sat, n) \subseteq sat /\ n \notin Seen(sat, n)
      BY <2>1 DEF Seen
    <3>. QED BY <3>1 DEF BasePoints
  <2>3. ASSUME n \in sat PROVE Seen(sat, n + 1) = Seen(sat, n) \cup {n}
    BY <1>2, <2>1, <2>3 DEF Seen
  <2>4. ASSUME n \notin sat PROVE Seen(sat, n + 1) = Seen(sat, n)
    BY <1>2, <2>1, <2>4 DEF Seen
  <2>. QED BY <2>2, <2>3, <2>4
<1>. QED BY <1>3, <1>4, <1>5

\* One turn of the worker's loop over the points, in the form of Scan.
ScanTurn(q, sat, f, n) ==
    IF n = 0 THEN {}
    ELSE IF n - 1 \in sat THEN Keep(q, f[n - 1], n - 1)
    ELSE f[n - 1]

\* Scan is a function of the points: one satisfies its equation.
LEMMA ScanExists ==
    ASSUME NEW q, NEW sat
    PROVE  \E f : f = [n \in 0 .. Points |-> ScanTurn(q, sat, f, n)]
<1>. DEFINE Turn(g, n) == ScanTurn(q, sat, g, n)
            Upto(k, g) == g = [n \in 0 .. k |-> Turn(g, n)]
            Bad == {k \in Nat : ~ \E g : Upto(k, g)}
<1>1. Points \in Nat
  BY GtAssumption
<1>2. Bad = {}
  <2>. SUFFICES ASSUME Bad # {} PROVE FALSE
    OBVIOUS
  <2>1. PICK k \in Bad : \A j \in Bad : k <= j
    <3>1. Bad \subseteq Nat
      OBVIOUS
    <3>. HIDE DEF Bad
    <3>. QED BY <3>1, LeastOf
  <2>2. k # 0
    <3>1. Upto(0, [n \in 0 .. 0 |-> {}])
      BY DEF ScanTurn
    <3>. QED BY <2>1, <3>1
  <2>3. k - 1 \in Nat /\ k \in Nat
    BY <2>1, <2>2
  <2>4. PICK g : Upto(k - 1, g)
    <3>1. k - 1 \notin Bad
      <4>. HIDE DEF Bad
      <4>. QED BY <2>1, <2>3
    <3>. HIDE DEF Upto
    <3>. QED BY <2>3, <3>1
  <2>. DEFINE h == [n \in 0 .. k |-> Turn(g, n)]
  <2>5. \A n \in 0 .. k - 1 : h[n] = g[n]
    <3>. HIDE DEF Turn
    <3>1. \A n \in 0 .. k - 1 : g[n] = Turn(g, n) /\ n \in 0 .. k
      BY <2>3, <2>4
    <3>. QED BY <3>1
  <2>6. \A n \in 0 .. k : Turn(g, n) = Turn(h, n)
    <3>. SUFFICES ASSUME NEW n \in 0 .. k PROVE Turn(g, n) = Turn(h, n)
      OBVIOUS
    <3>1. n = 0 \/ n - 1 \in 0 .. k - 1
      BY <2>3
    <3>2. n = 0 \/ h[n - 1] = g[n - 1]
      BY <2>5, <3>1
    <3>. HIDE DEF h
    <3>. QED BY <3>2 DEF ScanTurn
  <2>7. Upto(k, h)
    <3>. HIDE DEF Turn
    <3>. QED BY <2>6
  <2>. QED BY <2>1, <2>7
<1>3. \E g : Upto(Points, g)
  BY <1>1, <1>2
<1>. QED BY <1>3

\* It keeps the nearest of the points seen, so at the end of all.
LEMMA ScanFact ==
    ASSUME NEW q, GtDist[q] \in [BasePoints -> Nat], NEW sat \in SUBSET BasePoints
    PROVE  HeapRight(q, sat, Scan(q, sat))
<1>. DEFINE heap == CHOOSE f : f = [n \in 0 .. Points |-> ScanTurn(q, sat, f, n)]
            Right(n) == HeapRight(q, Seen(sat, n), heap[n])
            Bad == {n \in 0 .. Points : ~ Right(n)}
<1>1. heap = [n \in 0 .. Points |-> ScanTurn(q, sat, heap, n)]
  BY ScanExists
<1>2. Scan(q, sat) = heap[Points]
  BY DEF Scan, ScanTurn
<1>. HIDE DEF heap
<1>3. Points \in Nat /\ KMax \in Nat \ {0}
  BY GtAssumption
<1>4. heap[0] = {}
  BY <1>1, <1>3 DEF ScanTurn
<1>5. ASSUME NEW m \in 0 .. Points - 1
      PROVE  heap[m + 1] = IF m \in sat THEN Keep(q, heap[m], m) ELSE heap[m]
  <2>1. m + 1 \in 0 .. Points /\ m + 1 # 0 /\ (m + 1) - 1 = m
    BY <1>3
  <2>. QED BY <1>1, <2>1 DEF ScanTurn
<1>6. Right(0)
  <2>1. Seen(sat, 0) = {}
    BY SeenFact
  <2>2. Cardinality({}) = 0 /\ Fewer(KMax, 0) = 0
    BY <1>3, FS_EmptySet DEF Fewer
  <2>. QED BY <1>4, <2>1, <2>2 DEF HeapRight
<1>7. ASSUME NEW m \in 0 .. Points - 1, Right(m) PROVE Right(m + 1)
  <2>1. /\ m \in BasePoints /\ m \notin Seen(sat, m) /\ Seen(sat, m) \in SUBSET BasePoints
        /\ m \in sat => Seen(sat, m + 1) = Seen(sat, m) \cup {m}
        /\ m \notin sat => Seen(sat, m + 1) = Seen(sat, m)
    BY SeenFact
  <2>2. CASE m \in sat
    <3>1. HeapRight(q, Seen(sat, m) \cup {m}, Keep(q, heap[m], m))
      BY <1>7, <2>1, KeepFact
    <3>. QED BY <1>5, <2>1, <2>2, <3>1
  <2>3. CASE m \notin sat
    BY <1>5, <1>7, <2>1, <2>3
  <2>. QED BY <2>2, <2>3
<1>8. Bad = {}
  <2>. SUFFICES ASSUME Bad # {} PROVE FALSE
    OBVIOUS
  <2>1. PICK n \in Bad : \A m \in Bad : n <= m
    <3>1. Bad \subseteq Nat
      BY <1>3
    <3>. HIDE DEF Bad
    <3>. QED BY <3>1, LeastOf
  <2>2. n # 0
    BY <1>6
  <2>3. PICK m \in 0 .. Points - 1 : n = m + 1
    <3>1. n \in 0 .. Points /\ n - 1 \in 0 .. Points - 1 /\ n = (n - 1) + 1
      BY <1>3, <2>2
    <3>. QED BY <3>1
  <2>4. Right(m)
    <3>. HIDE DEF Right
    <3>1. m \in 0 .. Points /\ ~ (n <= m)
      BY <1>3, <2>3
    <3>2. m \notin Bad
      BY <2>1, <3>1
    <3>. QED BY <3>1, <3>2
  <2>. QED BY <1>7, <2>3, <2>4
<1>9. Right(Points)
  <2>. HIDE DEF Right
  <2>. QED BY <1>3, <1>8
<1>10. Seen(sat, Points) = sat
  BY SeenFact
<1>. QED BY <1>2, <1>9, <1>10

LEMMA EarliestFact ==
    ASSUME NEW S \in SUBSET Nat, S # {}
    PROVE  Earliest(S) \in S
<1>1. \E d \in S : \A e \in S : d <= e
  BY LeastOf
<1>. QED BY <1>1 DEF Earliest

\* The chunks leave nothing out, however many threads there are.
LEMMA DealtFact ==
    ASSUME NEW n \in Nat, NEW T \in Nat \ {0}
    PROVE  /\ DOMAIN Dealt(n, T) = 0 .. T - 1
           /\ \A t \in 0 .. T - 1 : Dealt(n, T)[t] \subseteq 0 .. n - 1
           /\ \A i \in 0 .. n - 1 : \E t \in 0 .. T - 1 : i \in Dealt(n, T)[t]
<1>. DEFINE c == Chunk(n, T)
<1>1. c \in Nat /\ n <= T * c
  <2>. DEFINE m == n + T - 1
  <2>1. m \in Nat /\ T \in Nat /\ T > 0
    OBVIOUS
  <2>. HIDE DEF m
  <2>2. m \div T \in Nat /\ m = T * (m \div T) + (m % T) /\ m % T \in 0 .. T - 1
    BY <2>1
  <2>3. n <= T * (m \div T)
    <3>. DEFINE p == T * (m \div T)
    <3>1. p \in Nat
      BY <2>1, <2>2
    <3>2. m = p + (m % T) /\ m % T \in 0 .. T - 1
      BY <2>2
    <3>. HIDE DEF p
    <3>3. m = n + T - 1
      BY DEF m
    <3>4. n <= p
      BY <2>1, <3>1, <3>2, <3>3
    <3>. QED BY <3>4 DEF p
  <2>. QED BY <2>2, <2>3 DEF Chunk, m
<1>2. ASSUME NEW i \in 0 .. n - 1
      PROVE  \E t \in 0 .. T - 1 : t * c <= i /\ i < (t + 1) * c
  <2>. DEFINE V == {t \in Nat : i < (t + 1) * c}
  <2>1. T - 1 \in V
    <3>1. (T - 1) + 1 = T /\ T - 1 \in Nat /\ i < T * c
      BY <1>1
    <3>. QED BY <3>1
  <2>2. PICK t \in V : \A s \in V : t <= s
    <3>1. V \subseteq Nat /\ V # {}
      BY <2>1
    <3>. HIDE DEF V
    <3>. QED BY <3>1, LeastOf
  <2>3. t \in 0 .. T - 1
    <3>1. t \in Nat /\ t <= T - 1
      BY <2>1, <2>2
    <3>. QED BY <3>1
  <2>4. t * c <= i
    <3>1. CASE t = 0
      <4>1. 0 * c = 0
        BY <1>1
      <4>. QED BY <3>1, <4>1
    <3>2. CASE t # 0
      <4>1. t - 1 \in Nat /\ t - 1 \notin V /\ (t - 1) + 1 = t
        <5>1. t - 1 \in Nat /\ ~ (t <= t - 1) /\ (t - 1) + 1 = t
          BY <2>3, <3>2
        <5>. HIDE DEF V
        <5>. QED BY <2>2, <5>1
      <4>2. ~ (i < t * c)
        BY <4>1
      <4>3. t * c \in Nat
        BY <1>1, <2>3
      <4>. QED BY <4>2, <4>3
    <3>. QED BY <3>1, <3>2
  <2>. QED BY <2>2, <2>3, <2>4
<1>. HIDE DEF c
<1>3. Dealt(n, T) = [t \in 0 .. T - 1 |-> {i \in 0 .. n - 1 : t * c <= i /\ i < (t + 1) * c}]
  BY DEF Dealt, c
<1>. QED BY <1>2, <1>3

\* What a call has done so far: nothing is missing but what is still dealt.
GtFields == {"at", "calls", "phi", "nq", "T", "cached", "left", "sat", "total", "out"}
GtRooms == {"open", "spawn", "sat", "queries", "write", "answered"}
SatOK ==
    /\ \A t \in DOMAIN gt.left : gt.left[t] \subseteq BasePoints
    /\ gt.sat \subseteq SatOf[gt.phi]
    /\ \A u \in SatOf[gt.phi] \ gt.sat : \E t \in DOMAIN gt.left : u \in gt.left[t]
QueriesOK ==
    /\ gt.sat = SatOf[gt.phi] /\ gt.total = Cardinality(SatOf[gt.phi])
    /\ \A t \in DOMAIN gt.left : gt.left[t] \subseteq 0 .. gt.nq - 1
    /\ \A q \in 0 .. gt.nq - 1 :
          EntryRight(gt.phi, q, gt.out[q]) \/ \E t \in DOMAIN gt.left : q \in gt.left[t]
CallOK ==
    ~ GtAt("down") =>
        /\ DOMAIN gt = GtFields /\ gt.at \in GtRooms
        /\ gt.phi \in DOMAIN SatOf /\ gt.nq \in QueryCounts /\ gt.T \in ThreadCounts
        /\ DOMAIN gt.out = 0 .. gt.nq - 1
        /\ gt.at \in {"open", "spawn"} => gt.sat = {}
        /\ GtAt("sat") => SatOK
        /\ GtAt("queries") => QueriesOK
        /\ gt.at \in {"write", "answered"} => AnswerRight(gt.phi, gt.nq, gt.out)

\* A file that is not torn answers its own predicate, for some number of queries.
FilesOK ==
    /\ DOMAIN gtFile = DOMAIN SatOf
    /\ \A phi \in DOMAIN SatOf :
          Whole(gtFile[phi]) => \E n \in Nat : AnswerRight(phi, n, gtFile[phi])

TruthInv == CallOK /\ FilesOK

LEMMA TruthInit == GtInit => TruthInv
<1>. SUFFICES ASSUME GtInit PROVE TruthInv
  OBVIOUS
<1>1. gt.at = "down"
  BY DEF GtInit
<1>. QED BY <1>1 DEF GtInit, TruthInv, CallOK, FilesOK, GtAt, Whole

LEMMA AskStep == ASSUME TruthInv, Ask PROVE TruthInv'
<1>1. PICK phi \in DOMAIN SatOf, nq \in QueryCounts, T \in ThreadCounts, cached \in BOOLEAN :
        gt' = [at |-> IF cached THEN "open" ELSE "spawn", calls |-> gt.calls + 1,
               phi |-> phi, nq |-> nq, T |-> T, cached |-> cached,
               left |-> << >>, sat |-> {}, total |-> 0,
               out |-> [q \in 0 .. nq - 1 |-> [n |-> 0, ids |-> {}]]]
  BY DEF Ask
<1>2. /\ gt'.at \in {"open", "spawn"} /\ gt'.phi = phi /\ gt'.nq = nq /\ gt'.T = T
      /\ DOMAIN gt'.out = 0 .. nq - 1 /\ DOMAIN gt' = GtFields /\ gt'.sat = {}
  BY <1>1 DEF GtFields
<1>3. CallOK'
  BY <1>2 DEF CallOK, GtAt, GtRooms
<1>4. FilesOK'
  BY DEF Ask, TruthInv, FilesOK, Whole
<1>. QED BY <1>3, <1>4 DEF TruthInv

LEMMA ReadStep == ASSUME TruthInv, ReadCache PROVE TruthInv'
<1>1. /\ gt.at = "open" /\ DOMAIN gt = GtFields /\ gt.phi \in DOMAIN SatOf
      /\ gt.nq \in QueryCounts /\ gt.T \in ThreadCounts /\ DOMAIN gt.out = 0 .. gt.nq - 1
      /\ FilesOK /\ gtFile' = gtFile /\ gt.sat = {}
  BY DEF TruthInv, CallOK, ReadCache, GtAt
<1>2. FilesOK'
  BY <1>1 DEF FilesOK, Whole
<1>3. CASE Usable(gtFile[gt.phi], gt.nq)
  <2>. DEFINE f == gtFile[gt.phi]
  <2>1. gt' = [gt EXCEPT !.at = "answered", !.out = f]
    BY <1>3 DEF ReadCache
  <2>2. /\ gt'.at = "answered" /\ gt'.phi = gt.phi /\ gt'.nq = gt.nq /\ gt'.T = gt.T
        /\ gt'.out = f /\ DOMAIN gt' = GtFields
    BY <1>1, <2>1 DEF GtFields
  <2>3. Whole(f) /\ Cardinality(DOMAIN f) = gt.nq
    BY <1>3 DEF Usable
  <2>4. PICK n \in Nat : AnswerRight(gt.phi, n, f)
    BY <1>1, <2>3 DEF FilesOK
  <2>5. n = gt.nq
    <3>1. DOMAIN f = 0 .. n - 1
      BY <2>4 DEF AnswerRight
    <3>2. Cardinality(0 .. n - 1) = n
      BY FS_Interval
    <3>. QED BY <2>3, <3>1, <3>2
  <2>. HIDE DEF f
  <2>6. CallOK'
    BY <1>1, <2>2, <2>4, <2>5 DEF CallOK, GtAt, GtRooms, AnswerRight, EntryRight
  <2>. QED BY <1>2, <2>6 DEF TruthInv
<1>4. CASE ~ Usable(gtFile[gt.phi], gt.nq)
  <2>1. gt' = [gt EXCEPT !.at = "spawn"]
    BY <1>4 DEF ReadCache
  <2>2. /\ gt'.at = "spawn" /\ gt'.phi = gt.phi /\ gt'.nq = gt.nq /\ gt'.T = gt.T
        /\ gt'.out = gt.out /\ DOMAIN gt' = GtFields /\ gt'.sat = {}
    BY <1>1, <2>1 DEF GtFields
  <2>3. CallOK'
    BY <1>1, <2>2 DEF CallOK, GtAt, GtRooms
  <2>. QED BY <1>2, <2>3 DEF TruthInv
<1>. QED BY <1>3, <1>4

LEMMA AtLeastOneFact == \A n \in Nat : AtLeastOne(n) \in Nat \ {0}
BY DEF AtLeastOne

LEMMA SpawnStep == ASSUME TruthInv, SpawnSat PROVE TruthInv'
<1>1. /\ gt.at = "spawn" /\ DOMAIN gt = GtFields /\ gt.phi \in DOMAIN SatOf
      /\ gt.nq \in QueryCounts /\ gt.T \in ThreadCounts /\ DOMAIN gt.out = 0 .. gt.nq - 1
      /\ FilesOK /\ gtFile' = gtFile /\ gt.sat = {}
      /\ gt' = [gt EXCEPT !.at = "sat", !.left = Dealt(Points, AtLeastOne(gt.T))]
  BY DEF TruthInv, CallOK, SpawnSat, GtAt
<1>. DEFINE L == Dealt(Points, AtLeastOne(gt.T))
<1>2. PICK T \in Nat \ {0} : T = AtLeastOne(gt.T)
  BY <1>1, AtLeastOneFact, GtAssumption
<1>3. /\ \A t \in DOMAIN L : L[t] \subseteq BasePoints
      /\ \A u \in BasePoints : \E t \in DOMAIN L : u \in L[t]
  <2>1. L = Dealt(Points, T) /\ Points \in Nat
    BY <1>2, GtAssumption
  <2>. HIDE DEF L
  <2>2. /\ DOMAIN L = 0 .. T - 1
        /\ \A t \in 0 .. T - 1 : L[t] \subseteq 0 .. Points - 1
        /\ \A u \in 0 .. Points - 1 : \E t \in 0 .. T - 1 : u \in L[t]
    BY <2>1, DealtFact
  <2>. QED BY <2>2 DEF BasePoints
<1>. HIDE DEF L
<1>4. /\ gt'.at = "sat" /\ gt'.phi = gt.phi /\ gt'.nq = gt.nq /\ gt'.T = gt.T
      /\ gt'.out = gt.out /\ gt'.sat = gt.sat /\ gt'.left = L /\ DOMAIN gt' = GtFields
  BY <1>1 DEF GtFields, L
<1>5. SatOK'
  <2>1. SatOf[gt.phi] \subseteq BasePoints
    BY <1>1, GtAssumption DEF BasePoints
  <2>. QED BY <1>1, <1>3, <1>4, <2>1 DEF SatOK
<1>6. CallOK'
  BY <1>1, <1>4, <1>5 DEF CallOK, GtAt, GtRooms
<1>7. FilesOK'
  BY <1>1 DEF FilesOK, Whole
<1>. QED BY <1>6, <1>7 DEF TruthInv

LEMMA EvalStep == ASSUME TruthInv, EvalPoint PROVE TruthInv'
<1>1. /\ gt.at = "sat" /\ DOMAIN gt = GtFields /\ gt.phi \in DOMAIN SatOf
      /\ gt.nq \in QueryCounts /\ gt.T \in ThreadCounts /\ DOMAIN gt.out = 0 .. gt.nq - 1
      /\ FilesOK /\ gtFile' = gtFile /\ SatOK
  BY DEF TruthInv, CallOK, EvalPoint, GtAt
<1>2. PICK t \in DOMAIN gt.left :
        /\ gt.left[t] # {}
        /\ gt' = [gt EXCEPT !.left[t] = @ \ {Earliest(gt.left[t])},
                            !.sat = IF Earliest(gt.left[t]) \in SatOf[gt.phi]
                                    THEN @ \cup {Earliest(gt.left[t])} ELSE @]
  BY DEF EvalPoint
<1>. DEFINE u == Earliest(gt.left[t])
            L == [gt.left EXCEPT ![t] = gt.left[t] \ {u}]
            S == IF u \in SatOf[gt.phi] THEN gt.sat \cup {u} ELSE gt.sat
<1>3. /\ gt'.at = "sat" /\ gt'.phi = gt.phi /\ gt'.nq = gt.nq /\ gt'.T = gt.T
      /\ gt'.out = gt.out /\ gt'.sat = S /\ gt'.left = L /\ DOMAIN gt' = GtFields
  BY <1>1, <1>2 DEF GtFields
<1>. HIDE DEF u
<1>4. /\ \A s \in DOMAIN L : L[s] \subseteq gt.left[s] /\ gt.left[s] \subseteq L[s] \cup {u}
      /\ DOMAIN L = DOMAIN gt.left
  BY <1>2
<1>5. /\ gt.sat \subseteq S /\ S \subseteq gt.sat \cup {u}
      /\ u \in SatOf[gt.phi] => u \in S
      /\ u \notin SatOf[gt.phi] => S = gt.sat
  OBVIOUS
<1>. HIDE DEF L, S
<1>6. SatOK'
  <2>1. \A s \in DOMAIN L : L[s] \subseteq BasePoints
    BY <1>1, <1>4 DEF SatOK
  <2>2. S \subseteq SatOf[gt.phi]
    BY <1>1, <1>5 DEF SatOK
  <2>3. ASSUME NEW v \in SatOf[gt.phi] \ S PROVE \E s \in DOMAIN L : v \in L[s]
    <3>1. v # u /\ v \notin gt.sat
      BY <1>5
    <3>2. PICK s \in DOMAIN gt.left : v \in gt.left[s]
      BY <1>1, <3>1 DEF SatOK
    <3>. QED BY <1>4, <3>1, <3>2
  <2>. QED BY <1>3, <2>1, <2>2, <2>3 DEF SatOK
<1>7. CallOK'
  BY <1>1, <1>3, <1>6 DEF CallOK, GtAt, GtRooms
<1>8. FilesOK'
  BY <1>1 DEF FilesOK, Whole
<1>. QED BY <1>7, <1>8 DEF TruthInv

LEMMA SpawnQueriesStep == ASSUME TruthInv, SpawnQueries PROVE TruthInv'
<1>1. /\ gt.at = "sat" /\ DOMAIN gt = GtFields /\ gt.phi \in DOMAIN SatOf
      /\ gt.nq \in QueryCounts /\ gt.T \in ThreadCounts /\ DOMAIN gt.out = 0 .. gt.nq - 1
      /\ FilesOK /\ gtFile' = gtFile /\ SatOK /\ Finished(gt.left)
      /\ gt' = [gt EXCEPT !.at = "queries", !.total = Cardinality(gt.sat),
                          !.left = Dealt(gt.nq, AtLeastOne(Fewer(gt.T, gt.nq)))]
  BY DEF TruthInv, CallOK, SpawnQueries, GtAt
<1>. DEFINE L == Dealt(gt.nq, AtLeastOne(Fewer(gt.T, gt.nq)))
<1>2. gt.nq \in Nat /\ gt.T \in Nat
  BY <1>1, GtAssumption
<1>3. PICK T \in Nat \ {0} : T = AtLeastOne(Fewer(gt.T, gt.nq))
  <2>1. Fewer(gt.T, gt.nq) \in Nat
    BY <1>2 DEF Fewer
  <2>. QED BY <2>1, AtLeastOneFact
<1>4. /\ \A t \in DOMAIN L : L[t] \subseteq 0 .. gt.nq - 1
      /\ \A q \in 0 .. gt.nq - 1 : \E t \in DOMAIN L : q \in L[t]
  <2>1. L = Dealt(gt.nq, T)
    BY <1>3
  <2>. HIDE DEF L
  <2>. QED BY <1>2, <2>1, DealtFact
<1>5. gt.sat = SatOf[gt.phi]
  BY <1>1 DEF SatOK, Finished
<1>. HIDE DEF L
<1>6. /\ gt'.at = "queries" /\ gt'.phi = gt.phi /\ gt'.nq = gt.nq /\ gt'.T = gt.T
      /\ gt'.out = gt.out /\ gt'.sat = gt.sat /\ gt'.total = Cardinality(gt.sat)
      /\ gt'.left = L /\ DOMAIN gt' = GtFields
  BY <1>1 DEF GtFields, L
<1>7. QueriesOK'
  BY <1>4, <1>5, <1>6 DEF QueriesOK
<1>8. CallOK'
  BY <1>1, <1>6, <1>7 DEF CallOK, GtAt, GtRooms
<1>9. FilesOK'
  BY <1>1 DEF FilesOK, Whole
<1>. QED BY <1>8, <1>9 DEF TruthInv

LEMMA AnswerStep == ASSUME TruthInv, AnswerQuery PROVE TruthInv'
<1>1. /\ gt.at = "queries" /\ DOMAIN gt = GtFields /\ gt.phi \in DOMAIN SatOf
      /\ gt.nq \in QueryCounts /\ gt.T \in ThreadCounts /\ DOMAIN gt.out = 0 .. gt.nq - 1
      /\ FilesOK /\ gtFile' = gtFile /\ QueriesOK
  BY DEF TruthInv, CallOK, AnswerQuery, GtAt
<1>2. PICK t \in DOMAIN gt.left :
        /\ gt.left[t] # {}
        /\ gt' = [gt EXCEPT !.left[t] = @ \ {Earliest(gt.left[t])},
                            !.out[Earliest(gt.left[t])] =
                               [n |-> gt.total, ids |-> Scan(Earliest(gt.left[t]), gt.sat)]]
  BY DEF AnswerQuery
<1>. DEFINE q == Earliest(gt.left[t])
            e == [n |-> gt.total, ids |-> Scan(q, gt.sat)]
            L == [gt.left EXCEPT ![t] = gt.left[t] \ {q}]
            O == [gt.out EXCEPT ![q] = e]
<1>3. q \in 0 .. gt.nq - 1
  <2>1. gt.nq \in Nat /\ gt.left[t] \subseteq 0 .. gt.nq - 1
    BY <1>1, <1>2, GtAssumption DEF QueriesOK
  <2>2. gt.left[t] \in SUBSET Nat
    BY <2>1
  <2>3. q \in gt.left[t]
    BY <1>2, <2>2, EarliestFact
  <2>. QED BY <2>1, <2>3
<1>4. EntryRight(gt.phi, q, e)
  <2>1. GtDist[q] \in [BasePoints -> Nat] /\ SatOf[gt.phi] \in SUBSET BasePoints
    BY <1>1, <1>3, GtAssumption DEF BasePoints
  <2>2. HeapRight(q, SatOf[gt.phi], Scan(q, SatOf[gt.phi]))
    BY <2>1, ScanFact
  <2>3. gt.sat = SatOf[gt.phi] /\ gt.total = Cardinality(SatOf[gt.phi])
    BY <1>1 DEF QueriesOK
  <2>. QED BY <2>2, <2>3 DEF EntryRight
<1>5. /\ gt'.at = "queries" /\ gt'.phi = gt.phi /\ gt'.nq = gt.nq /\ gt'.T = gt.T
      /\ gt'.out = O /\ gt'.sat = gt.sat /\ gt'.total = gt.total
      /\ gt'.left = L /\ DOMAIN gt' = GtFields
  BY <1>1, <1>2 DEF GtFields
<1>. HIDE DEF q, e
<1>6. /\ \A s \in DOMAIN L : L[s] \subseteq gt.left[s] /\ gt.left[s] \subseteq L[s] \cup {q}
      /\ DOMAIN L = DOMAIN gt.left
  BY <1>2
<1>7. /\ DOMAIN O = DOMAIN gt.out /\ O[q] = e
      /\ \A p \in DOMAIN gt.out : p # q => O[p] = gt.out[p]
  BY <1>1, <1>3
<1>. HIDE DEF L, O
<1>8. QueriesOK'
  <2>1. \A s \in DOMAIN L : L[s] \subseteq 0 .. gt.nq - 1
    BY <1>1, <1>6 DEF QueriesOK
  <2>2. ASSUME NEW p \in 0 .. gt.nq - 1
        PROVE  EntryRight(gt.phi, p, O[p]) \/ \E s \in DOMAIN L : p \in L[s]
    <3>1. CASE p = q
      BY <1>4, <1>7, <3>1
    <3>2. CASE p # q
      <4>1. O[p] = gt.out[p]
        BY <1>1, <1>7, <3>2
      <4>2. EntryRight(gt.phi, p, gt.out[p]) \/ \E s \in DOMAIN gt.left : p \in gt.left[s]
        BY <1>1 DEF QueriesOK
      <4>. QED BY <1>6, <3>2, <4>1, <4>2
    <3>. QED BY <3>1, <3>2
  <2>3. gt.sat = SatOf[gt.phi] /\ gt.total = Cardinality(SatOf[gt.phi])
    BY <1>1 DEF QueriesOK
  <2>. QED BY <1>5, <2>1, <2>2, <2>3 DEF QueriesOK, EntryRight, HeapRight
<1>9. CallOK'
  BY <1>1, <1>5, <1>7, <1>8 DEF CallOK, GtAt, GtRooms
<1>10. FilesOK'
  BY <1>1 DEF FilesOK, Whole
<1>. QED BY <1>9, <1>10 DEF TruthInv

LEMMA WriteStep == ASSUME TruthInv, WriteCache PROVE TruthInv'
<1>1. /\ gt.at = "queries" /\ DOMAIN gt = GtFields /\ gt.phi \in DOMAIN SatOf
      /\ gt.nq \in QueryCounts /\ gt.T \in ThreadCounts /\ DOMAIN gt.out = 0 .. gt.nq - 1
      /\ FilesOK /\ QueriesOK /\ Finished(gt.left)
      /\ gt' = [gt EXCEPT !.at = IF gt.cached THEN "write" ELSE "answered"]
      /\ gtFile' = IF gt.cached THEN [gtFile EXCEPT ![gt.phi] = Torn] ELSE gtFile
  BY DEF TruthInv, CallOK, WriteCache, GtAt
<1>2. /\ gt'.at \in {"write", "answered"} /\ gt'.phi = gt.phi /\ gt'.nq = gt.nq
      /\ gt'.T = gt.T /\ gt'.out = gt.out /\ DOMAIN gt' = GtFields
  BY <1>1 DEF GtFields
<1>3. AnswerRight(gt.phi, gt.nq, gt.out)
  BY <1>1 DEF AnswerRight, QueriesOK, Finished
<1>4. CallOK'
  BY <1>1, <1>2, <1>3 DEF CallOK, GtAt, GtRooms, AnswerRight, EntryRight
<1>5. FilesOK'
  BY <1>1 DEF FilesOK, Whole
<1>. QED BY <1>4, <1>5 DEF TruthInv

LEMMA CloseStep == ASSUME TruthInv, CloseCache PROVE TruthInv'
<1>1. /\ gt.at = "write" /\ DOMAIN gt = GtFields /\ gt.phi \in DOMAIN SatOf
      /\ gt.nq \in QueryCounts /\ gt.T \in ThreadCounts /\ DOMAIN gt.out = 0 .. gt.nq - 1
      /\ FilesOK /\ AnswerRight(gt.phi, gt.nq, gt.out)
      /\ gt' = [gt EXCEPT !.at = "answered"]
      /\ gtFile' = [gtFile EXCEPT ![gt.phi] = gt.out]
  BY DEF TruthInv, CallOK, CloseCache, GtAt
<1>2. /\ gt'.at = "answered" /\ gt'.phi = gt.phi /\ gt'.nq = gt.nq
      /\ gt'.T = gt.T /\ gt'.out = gt.out /\ DOMAIN gt' = GtFields
  BY <1>1 DEF GtFields
<1>3. CallOK'
  BY <1>1, <1>2 DEF CallOK, GtAt, GtRooms, AnswerRight, EntryRight
<1>4. gt.nq \in Nat
  BY <1>1, GtAssumption
<1>5. FilesOK'
  BY <1>1, <1>4 DEF FilesOK, Whole
<1>. QED BY <1>3, <1>5 DEF TruthInv

LEMMA TruthKept == TruthInv /\ [GtNext]_gtVars => TruthInv'
<1>. SUFFICES ASSUME TruthInv, [GtNext]_gtVars PROVE TruthInv'
  OBVIOUS
<1>1. CASE GtStops
  BY <1>1 DEF GtStops, TruthInv, CallOK, FilesOK, GtAt, Whole
<1>2. CASE UNCHANGED gtVars
  BY <1>2 DEF gtVars, TruthInv, CallOK, FilesOK, GtAt, Whole, SatOK, QueriesOK, AnswerRight, EntryRight
<1>. QED BY <1>1, <1>2, AskStep, ReadStep, SpawnStep, EvalStep, SpawnQueriesStep, AnswerStep,
            WriteStep, CloseStep DEF GtNext

\* compute of BruteForceGT: fresh or from a file that any process left, with any
\* number of threads and crashes, the answer is that of the predicate asked.
THEOREM AnswersAreRight == GtSpec => []GTRight
<1>1. TruthInv => GTRight
  BY DEF TruthInv, CallOK, GTRight, GtAt, AnswerRight, EntryRight, HeapRight
<1>. QED BY <1>1, TruthInit, TruthKept, PTL DEF GtSpec

\* In whatever part of its life a program is, the answers it has are right.
THEOREM AnswersStayRight == Spec => []GTRight
<1>1. Init => GtInit
  BY DEF Init
<1>2. [Next]_vars => [GtNext]_gtVars
  BY PartSteps
<1>. QED BY <1>1, <1>2, AnswersAreRight, PTL DEF Spec, GtSpec

=============================================================================
