SPECIFICATION Spec
CONSTANTS
    Pts <- Five
    Nbr <- Star
    RegionOf <- Singles
    Dist <- FiveDist
    Far = 9
    K = 1
    Entries <- Centre
    Truths <- OnlyFour
    Modes <- Default
    MaxReplays = 4
\* A search ends.
CHECK_DEADLOCK FALSE
INVARIANT NothingMissed
