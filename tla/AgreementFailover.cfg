SPECIFICATION FairSpec
CONSTANTS
    None = None
    Agents = {g1}
    Services = {s1}
    ProviderOf <- MCProviderOf
    Terms = {"t1"}
    Collabs = {}
    PartyReasons = {}
    HOLD_MAX_SEC = 1
    Ids = {a1, a2, a3}
    ProposalIds = {a1}
    MaxNow = 1
    MaxFlaps = 2
PROPERTIES
    WatchdogFollows
