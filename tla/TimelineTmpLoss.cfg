CONSTANTS
    MaxRecords = 4
    Size <- MCSize
    SegmentCap = 2
    BatchRecords = 2
    SweepBytes = 3
    MaxCrashes = 1
    MaxFaults = 1
SPECIFICATION Spec
PROPERTY DeletedAfterRename
