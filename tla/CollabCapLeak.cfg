SPECIFICATION Spec
CONSTANTS
    None = None
    i = i
    p = p
    q = q
    r = r
    c1 = c1
    c2 = c2
    Agents = {i, p}
    Services = {}
    ProviderOf <- NoProvider
    Terms = {t1}
    PartyReasons = {}
    HOLD_MAX_SEC = 1
    Roots = {c1, c2}
    Collabs <- MCCollabs
    Initiator <- AllInitiate
    Primary <- OnePartner
    Ranked <- Unranked
    BatchSize = 1
    MaxConcurrent = 1
    Gated = {}
    PartyOps = {}
    Stops = FALSE
PROPERTIES
    OverloadedWhenBusy
CHECK_DEADLOCK FALSE
