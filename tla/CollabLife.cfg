SPECIFICATION FairSpec
CONSTANTS
    None = None
    i = i
    p = p
    q = q
    r = r
    c1 = c1
    c2 = c2
    Agents = {i, p, q, r}
    Services = {}
    ProviderOf <- NoProvider
    Terms = {t1}
    PartyReasons = {}
    HOLD_MAX_SEC = 1
    Roots = {c1}
    Collabs <- MCCollabs
    Initiator <- AllInitiate
    Primary <- TwoPartners
    Ranked <- RankedPQR
    BatchSize = 1
    MaxConcurrent = 1
    Gated = {p}
    PartyOps = {"hold", "release", "terminate"}
    Stops = TRUE
INVARIANTS
    TypeOK
    OnlyAcceptorsExecute
    MeteredOnce
    PromiseBacked
PROPERTIES
    RowsEndWithCollaboration
    Converges
CHECK_DEADLOCK FALSE
