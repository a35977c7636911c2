SPECIFICATION Spec
CONSTANTS
    Pts <- Five
    Nbr <- Split
    RegionOf <- ThreeRegions
    Dist <- FiveDist
    Far = 9
    K = 2
    Entries <- OnePerRegion
    Truths <- SomeTruths
    Modes <- AnySetting
    MaxReplays = 4
\* A search ends.
CHECK_DEADLOCK FALSE
INVARIANTS TypeOK NoVisitedLost EmptyNotEntered Exhaustive
PROPERTY KeepsPromise
