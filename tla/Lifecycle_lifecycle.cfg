SPECIFICATION Spec
CONSTANTS
    LastPoint = 3
    Threads = {t1, t2}
    Draws <- SomeDraws
    Apart <- SomeApart
    MaxM = 2
    Efc = 2
    None = None
    Ells <- LevelsAsked
    NoFile = NoFile
    Torn = Torn
    Nothing = Nothing
    g1 = g1
    g2 = g2
    Kinds <- AllKinds
    Builders <- TwoBuilders
    Graphs <- TwoGraphs
    CalibBudget = 1
    MaxCrashes = 2
    MaxStarts = 3
    phi1 = phi1
    phi2 = phi2
    Points = 3
    GtDist <- SomeGtDist
    KMax = 2
    SatOf <- Answers
    QueryCounts <- Counts
    ThreadCounts <- ThreadsAsked
    MaxCalls = 3
    Wrap8 = 3
    Wrap32 = 4
\* A part may have nothing left to do.
CHECK_DEADLOCK FALSE
INVARIANTS LifecycleTypeOK NeverThrows FathersAbove LayersConnected RegionsAreTrees CalibWhole GTRight
PROPERTIES IndexBuilt Recovers MarksFresh
