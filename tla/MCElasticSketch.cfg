SPECIFICATION Spec
CONSTANTS
    Key <- MCKey
    Flow <- MCFlow
    NoKey = "zero"
    Cut <- MCCut
    Bucket <- MCBucket
    NSlots = 2
    NCounters = 3
    HeavyHash <- MCHeavyHash
    LightHash <- MCLightHash
    HighBit = 16
    LightMax = 3
    SwapFactor = 2
    MaxPackets = 11
    LinearCount <- MCLinearCount
    Ratios <- MCRatios
    Threshold <- MCThreshold
INVARIANTS
    TypeOK
    SlotsDistinct
    NeverUndercounts
    GuardBelowThreshold
    ExactWhenIsolated
    MiceDistAgrees
    CompressedNeverBelow
    HittersComplete
    CountedOnce
PROPERTY
    EvictionNeedsRivals
CHECK_DEADLOCK FALSE
