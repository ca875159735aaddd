SPECIFICATION Spec
CONSTANTS
    None = None
    Agents = {g1}
    Services = {s1, s2}
    ProviderOf <- MCProviderOf
    Terms = {t1, t2}
    Collabs = {}
    PartyReasons = {"provider-unreachable"}
    HOLD_MAX_SEC = 1
    Ids = {a1, a2, a3, a4}
    ProposalIds = {a1, a2}
    MaxNow = 1
    MaxFlaps = 1
SYMMETRY MCSymmetry
INVARIANTS
    TypeOK
    NoDeadContract
    BoundedHold
PROPERTIES
    LivesAsContract
    ProviderSuspensionStands
