CONSTANTS
    MaxRecords = 5
    Size <- MCSize
    SegmentCap = 2
    BatchRecords = 2
    SweepBytes = 3
    MaxCrashes = 1
    MaxFaults = 1
SPECIFICATION LiveSpec
INVARIANTS
    TypeOK
    KeptOnce
PROPERTIES
    SealedStaysSealed
    Compacts
