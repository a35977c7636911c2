SPECIFICATION Spec
CONSTANTS
    NoC = NoC
    None = NoC
    Unseen = Unseen
    MaxLevel = 2
    Pts <- TwoPts
    Build <- TwoBuild
    Cand <- TwoCand
    Level <- TwoLevel
    Parent <- TwoParent
    BuildFca <- TwoFca
    BuildVals <- StartVals
    Queries <- SmallQueries
    Col <- Tag
    Cat <- NoCat
    Bkt <- Buckets
    Internal <- Identity
    MinThresh = 2
    ThreshNum = 1
    ThreshDen = 2
    MaxRegions = 4
VIEW PresenceView
INVARIANTS DiscardSafe RegionCurrent TreeCountSafe RidInjective
PROPERTIES FreshRegionIds OneTreeTouched
