SPECIFICATION MaintSpec
CONSTANTS
    NoC = NoC
    None = NoC
    Unseen = Unseen
    MaxLevel = 2
    Pts <- OnePts
    Build <- OneBuild
    Cand <- OneCand
    Level <- OneLevel
    Parent <- OneParent
    BuildFca <- OneFca
    BuildVals <- StartVals
    Queries <- AtomQueries
    Col <- Tag
    Cat <- NoCat
    Bkt <- Buckets
    Internal <- Identity
    MinThresh = 2
    ThreshNum = 1
    ThreshDen = 2
    MaxRegions = 3
    Toggles = FALSE
    Faint <- NoFaint
VIEW DriverPresence
INVARIANTS NoSatisfyingPointDropped
