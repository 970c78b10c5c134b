SPECIFICATION CdfSpec
CONSTANTS
    Unit = 4
    TableEntry = 1
    NoNumbers = NoNumbers
    File <- EndsEmpty
    Garbage <- Zeroed
INVARIANT AvgIsMean
CHECK_DEADLOCK FALSE
