----------------------------- MODULE MethodBuild -----------------------------
(***************************************************************************)
(* build of the methods that keep their index in a file: OursMethod,       *)
(* PostFilter and NavixMethod.  Both the index and the calibration of the  *)
(* cost model are written in place; a crash leaves the file torn.  Every   *)
(* process chooses its method, its region builder and whether it is given  *)
(* the index cache; the files outlive it.                                  *)
(*                                                                         *)
(* A region map is known by the graph and the builder it comes from, a     *)
(* measurement by the process that made it and the map it was made on.     *)
(***************************************************************************)
EXTENDS CacheFiles, Integers

CONSTANTS
    Kinds,          \* "ours" and the baselines
    Builders,       \* "multilayer", "forest", "hubvoronoi"
    Graphs,         \* the graphs a construction may end with
    CalibBudget,    \* HS_CALIB_BUDGET, samples per phase
    MaxCrashes,
    MaxStarts,
    Nothing

Maps == Graphs \X Builders

ASSUME BuildAssumption ==
    CalibBudget \in Nat /\ MaxCrashes \in Nat /\ Nothing \notin Nat \X Maps

VARIABLES
    index,          \* the index cache: NoFile, Torn or a graph
    calib,          \* calib[map]: the calibration file of a region map
    columns,        \* does the dataset have a column
    proc,           \* the process
    crashes,
    starts

buildVars == <<index, calib, columns, proc, crashes, starts>>

Off == [at |-> "down", kind |-> Nothing, cached |-> FALSE, builder |-> Nothing,
        graph |-> Nothing, map |-> Nothing, budget |-> 0, costs |-> Nothing, samples |-> Nothing]

ProcAt(a) == proc.at = a
Go(a) == [proc EXCEPT !.at = a]

BuildInit ==
    /\ index = NoFile /\ calib = [m \in Maps |-> NoFile]
    /\ columns \in BOOLEAN
    /\ proc = Off /\ crashes = 0 /\ starts = 0

Launch ==
    /\ ProcAt("down") /\ starts < MaxStarts
    /\ starts' = starts + 1
    /\ \E k \in Kinds, c \in BOOLEAN, b \in Builders :
         proc' = [Off EXCEPT !.at = "open", !.kind = k, !.cached = c, !.builder = b]
    /\ UNCHANGED <<index, calib, columns, crashes>>

\* f.good() only asks whether the file is there.
OpenIndex ==
    /\ ProcAt("open")
    /\ proc' = IF proc.cached /\ index # NoFile THEN Go("load") ELSE Go("construct")
    /\ UNCHANGED <<index, calib, columns, crashes, starts>>

IndexReady(g) ==
    [proc EXCEPT !.at = IF proc.kind = "ours" THEN "regions" ELSE "searcher", !.graph = g]

\* loadIndex throws on a file that ends early, and nothing catches it.
LoadIndex ==
    /\ ProcAt("load")
    /\ proc' = IF index = Torn THEN Go("thrown") ELSE IndexReady(index)
    /\ UNCHANGED <<index, calib, columns, crashes, starts>>

\* A construction by several threads may end with any of the graphs.
Construct ==
    /\ ProcAt("construct")
    /\ \E g \in Graphs :
         proc' = IF proc.cached THEN [proc EXCEPT !.at = "save", !.graph = g] ELSE IndexReady(g)
    /\ index' = IF proc.cached THEN Torn ELSE index
    /\ UNCHANGED <<calib, columns, crashes, starts>>

SaveIndex ==
    /\ ProcAt("save")
    /\ index' = proc.graph
    /\ proc' = IndexReady(proc.graph)
    /\ UNCHANGED <<calib, columns, crashes, starts>>

\* The region map and the statistics; then the costs of this process.
Regions ==
    /\ ProcAt("regions")
    /\ LET m == <<proc.graph, proc.builder>> IN
       proc' = [proc EXCEPT !.at = IF proc.cached THEN "calib" ELSE "sample",
                            !.map = m, !.budget = 2 * CalibBudget,
                            !.costs = IF columns THEN <<starts, m>> ELSE Nothing]
    /\ UNCHANGED <<index, calib, columns, crashes, starts>>

\* Mutant: one calibration file, whatever the region map.
OneFile(m) == CHOOSE n \in Maps : TRUE

\* The name of the file has a hash of the region map.
CalibPath(m) == m

\* Mutant: the fields are set as they are read.
InPlace(f) ==
    IF f \in {NoFile, Torn} THEN [Go("sample") EXCEPT !.costs = IF f = Torn THEN Torn ELSE @]
    ELSE [Go("searcher") EXCEPT !.costs = f.costs, !.samples = f.samples]

\* Mutant: a file that ends early ends the build.
ThrowsTorn(f) ==
    IF f = NoFile THEN Go("sample") ELSE IF f = Torn THEN Go("thrown")
    ELSE [Go("searcher") EXCEPT !.costs = f.costs, !.samples = f.samples]

\* load_calib sets the model after the last read; any failed read leaves it.
LoadCalib(f) ==
    IF f \in {NoFile, Torn} THEN Go("sample")
    ELSE [Go("searcher") EXCEPT !.costs = f.costs, !.samples = f.samples]

OpenCalib ==
    /\ ProcAt("calib")
    /\ proc' = LoadCalib(calib[CalibPath(proc.map)])
    /\ UNCHANGED <<index, calib, columns, crashes, starts>>

\* Both while (budget > 0) loops are over.
Sampled == proc.budget = 0

\* One sample of a phase.  Only a pass over the columns takes from the budget:
\* without columns the loop goes round for ever.
Sample ==
    /\ ProcAt("sample") /\ ~ Sampled /\ columns
    /\ proc' = [proc EXCEPT !.budget = @ - 1]
    /\ UNCHANGED <<index, calib, columns, crashes, starts>>

\* What was sampled goes into the model, and the model into the file.
Calibrate ==
    /\ ProcAt("sample") /\ Sampled
    /\ proc' = [proc EXCEPT !.at = IF proc.cached THEN "save_calib" ELSE "searcher",
                            !.samples = <<starts, proc.map>>]
    /\ calib' = IF proc.cached THEN [calib EXCEPT ![CalibPath(proc.map)] = Torn] ELSE calib
    /\ UNCHANGED <<index, columns, crashes, starts>>

SaveCalib ==
    /\ ProcAt("save_calib")
    /\ calib' = [calib EXCEPT ![CalibPath(proc.map)] =
                    [costs |-> proc.costs, samples |-> proc.samples]]
    /\ proc' = Go("searcher")
    /\ UNCHANGED <<index, columns, crashes, starts>>

MakeSearcher ==
    /\ ProcAt("searcher")
    /\ proc' = Go("ready")
    /\ UNCHANGED <<index, calib, columns, crashes, starts>>

Crash ==
    /\ proc.at \notin {"down", "ready", "thrown"} /\ crashes < MaxCrashes
    /\ crashes' = crashes + 1
    /\ proc' = Off
    /\ UNCHANGED <<index, calib, columns, starts>>

Exit ==
    /\ proc.at \in {"ready", "thrown"}
    /\ proc' = Off
    /\ UNCHANGED <<index, calib, columns, crashes, starts>>

BuildSteps ==
    \/ OpenIndex \/ LoadIndex \/ Construct \/ SaveIndex \/ Regions
    \/ OpenCalib \/ Sample \/ Calibrate \/ SaveCalib \/ MakeSearcher

BuildNext == Launch \/ BuildSteps \/ Crash \/ Exit

\* A method that is ready searches with a cost model whose costs and samples
\* come from one measurement, made on the region map it has now; with the
\* cache, on the graph in the file.
CalibWhole ==
    ProcAt("ready") =>
        /\ proc.cached => index = proc.graph
        /\ proc.kind = "ours" =>
             /\ proc.samples # Nothing /\ proc.samples[2] = proc.map
             /\ columns => proc.costs = proc.samples

\* After the last crash a build comes to its end, whatever the crash left in
\* the files, unless the index file is torn or there is nothing to sample.
Recovers ==
    (/\ ProcAt("open") /\ crashes = MaxCrashes
     /\ proc.cached => index # Torn
     /\ proc.kind = "ours" => columns)
        ~> ProcAt("ready")
=============================================================================
