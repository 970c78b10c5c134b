SPECIFICATION Spec
CONSTANTS
    Fanouts = TRUE
    Blank <- MCBlank
    Lines <- MCLines
    MaxLines = 4
    DscpBound = 64
    DefaultWeight = 3
    Masters <- MCMasters
    NoRack = 0
    StartsWith <- MCStartsWith
    Unit = 4
    TableEntry = 1
    NoNumbers = NoNumbers
    File <- ProperFiles
    Garbage <- Zeroed
    TableKey <- MCTableKey
    TableVal = {1, 2}
    Buckets = 3
    Depth = 2
    MaxMoves = 5
    Hash <- MCHash
    CounterValues <- MCCounterValues
    Epochs = 2
    Inputs <- MCInputs
    Pieces = {2, 4}
INVARIANTS
    ReadingsAgree
    WeightsHonoured
    GeneratedAsMeant
    DrawsFollowCdf
    AvgIsMean
    KeysKept
    ValuesKept
    EveryWayOnce
    EpochsExplainCounters
    InverseFound
    ManglingReverses
CHECK_DEADLOCK FALSE
