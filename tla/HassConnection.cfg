SPECIFICATION FairSpec
CONSTANTS
    None = None
    s1 = s1
    s2 = s2
    k1 = k1
    Sockets = {s1, s2}
    Commands = {k1}
    MaxConnects = 2
INVARIANTS
    TypeOK
    PromisesPend
    NoTimerOnceClosed
PROPERTIES
    CallersAnswered
    RecoversAfterDrop
CHECK_DEADLOCK FALSE
