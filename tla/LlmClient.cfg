SPECIFICATION FairSpec
CONSTANTS
    c1 = c1
    c2 = c2
    c3 = c3
    c4 = c4
    Calls = {c1, c2, c3, c4}
    Lanes = {"global", "fast"}
    LaneOf <- MCLaneOf
    Adaptive = {"fast"}
    MinLimit = 1
    MaxLimit = 3
    StepUp = 2
    WindowSize = 2
    ScaleUpWait = 1
    AdjustInterval = 1
    Threshold = 2
    Cooldown = 1
    MaxAborts = 2
INVARIANTS
    TypeOK
    NoWedge
    SlotsAccounted
PROPERTIES
    WaitersSettle
    BreakerRecovers
CHECK_DEADLOCK FALSE
