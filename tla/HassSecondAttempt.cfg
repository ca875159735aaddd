SPECIFICATION Spec
CONSTANTS
    None = None
    s1 = s1
    s2 = s2
    k1 = k1
    Sockets = {s1, s2}
    Commands = {k1}
    MaxConnects = 2
INVARIANT OneAttempt
CHECK_DEADLOCK FALSE
