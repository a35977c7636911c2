SPECIFICATION Spec
CONSTANTS
    Pts <- Five
    Nbr <- Split
    RegionOf <- ThreeRegions
    Dist <- FiveDist
    Far = 9
    K = 3
    Entries <- Five
    Truths <- AnyTruth
    Modes <- Default
    MaxReplays = 4
\* A search ends.
CHECK_DEADLOCK FALSE
INVARIANT NothingMissed
