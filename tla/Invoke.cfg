SPECIFICATION FairSpec
CONSTANTS
    None = None
    Agents = {}
    Services = {}
    ProviderOf <- NoProvider
    Collabs = {}
    PartyReasons = {}
    Terms <- MCTerms
    a1 = a1
    HOLD_MAX_SEC = 1
    Agreements = {a1}
    TermsOf <- MCTermsOf
    EventKinds = {"motion", "clear"}
    MaxEvents = 2
    MaxInvokes = 1
    MaxRestarts = 1
    MaxNow = 1
    MaxSim = 1
INVARIANTS
    TypeOK
    SerialQuota
    ResetsFollowTriggers
PROPERTIES
    NothingStranded
CHECK_DEADLOCK FALSE
