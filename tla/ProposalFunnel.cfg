SPECIFICATION FairSpec
CONSTANTS
    None = None
    z0 = z0
    z1 = z1
    d0 = d0
    a0 = a0
    b = b
    Zones = {z0, z1}
    BaseDevices = {d0}
    BaseAgents = {a0}
    Authors = {b}
    Menu <- Mixed
    MaxProposals = 3
    MaxZones = 2
    MaxDevices = 2
    MaxAgents = 2
    OwnerEdits = {"add-zone", "drop-zone", "supervise", "delete-device", "delete-agent"}
    MaxEdits = 1
    MaxCrashes = 1
    BaseOwner <- OneBuilder
    BaseWorld <- World0
INVARIANTS
    TypeOK
    AuditTrail
    ForcedWaitsForOwner
    WorldAccountedFor
PROPERTIES
    FunnelDrains
CHECK_DEADLOCK FALSE
