SPECIFICATION Spec
CONSTANTS
    Pts <- Five
    Graphs <- Layers
    Upper <- OneUpper
    TopLevel = 1
    EntryPoint = 4
    Dist <- FiveDist
    K = 2
    Efs <- EfValues
    Truths <- AnyTruth
    Algs <- AllSearches
    DegParam = 8
    RegionOf <- ThreeRegions
    Plans <- SomePlans
    Hops = 2
\* A search ends.
CHECK_DEADLOCK FALSE
INVARIANTS MethodsTypeOK BeamClosed NavixLocal NavixEmptyRight RegionExhaustive OnlyWorstHides
PROPERTY Ends
