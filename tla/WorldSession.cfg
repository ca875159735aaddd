SPECIFICATION FairSpec
CONSTANTS
    None = None
    c1 = c1
    c2 = c2
    Clients <- TwoClients
    Runtimes <- ThreeNames
    Objects <- ThreeNames
    Rows <- AllRows
    MaxOps = 2
    MaxEdits = 1
    MaxFreezes = 1
    MaxKills = 1
    Ends <- BothEnds
    MaxWall = 1
INVARIANTS TypeOK OneWorld NoLeakedPin NoFreshWorldOverACheckpoint
PROPERTIES WorldsMaterialize
CHECK_DEADLOCK FALSE
