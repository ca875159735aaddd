----------------------- MODULE ProposalServiceProofs -----------------------
(***************************************************************************)
(* The safety of the governance funnel for every world, menu, quota and    *)
(* number of crashes: types, the audit trail, the owner's verdict, and the *)
(* log that accounts for the world.                                        *)
(*                                                                         *)
(* A step changes the world in three ways only: it applies a proposal      *)
(* (Written), takes one back (Undone), or is an edit of the owner.  Each   *)
(* is shown once to keep the accounts, and the actions are reduced to      *)
(* them.                                                                   *)
(***************************************************************************)
EXTENDS ProposalService, TLAPS

Table(ids, value) == UNION {[S -> value] : S \in SUBSET ids}

World == [zones : Table(Zones, Classes), devices : Table(DeviceIds, Zones),
          agents : Table(AgentIds, Agent), claims : SUBSET (Zones \X Authors)]

Row == [status : Statuses \cup {None}, forced : BOOLEAN,
        by : {None, "zone-claim", "ai", "owner"},
        devices : Table(DeviceIds, Zones), agents : Table(AgentIds, Agent)]

Request == [id : Proposals, zones : Table(Zones, Classes)]

Edits == Zones \cup ({"device"} \X DeviceIds) \cup ({"agent"} \X AgentIds)

Log == [apply : [Proposals -> Nat], revert : [Proposals -> Nat], edited : SUBSET Edits]

Shape ==
    /\ world \in World
    /\ row \in [Proposals -> Row]
    /\ asked \in Seq(Payload) /\ Len(asked) <= MaxProposals
    /\ \A p \in DOMAIN asked : asked[p] \in Menu[p]
    /\ queue \in Seq(Request)
    /\ \A k \in DOMAIN queue : queue[k].id \in DOMAIN asked
    /\ review \in {"idle", "verdict", "advice"}
    /\ log \in Log
    /\ crashes \in 0..MaxCrashes

\* Where the rows of the requests on the chain stand.
Chain ==
    /\ \A j, k \in DOMAIN queue : queue[j].id = queue[k].id => j = k
    /\ \A k \in DOMAIN queue : k > 1 => row[queue[k].id].status = None
    /\ queue # << >> /\ review = "idle" => row[queue[1].id].status = None
    /\ review # "idle" => queue # << >> /\ row[queue[1].id].status = "ai_review"
    /\ review = "verdict" => ~row[queue[1].id].forced
    /\ \A p \in Proposals : row[p].status = None => ~row[p].forced
    /\ \A p \in Proposals : p \notin DOMAIN asked => row[p].status = None

OwnersVerdict ==
    \A p \in Proposals :
       row[p].forced /\ row[p].status \in {"applied", "reverted"} => row[p].by = "owner"

InstalledDevice(d) ==
    \/ d \in BaseDevices
    \/ d \in DOMAIN asked /\ log.apply[d] > 0 /\ asked[d].kind = "install-devices"

InstalledAgent(a) ==
    \/ a \in BaseAgents
    \/ a \in DOMAIN asked /\ log.apply[a] > 0 /\ asked[a].kind = "install-agents"

RemovesDevice(p, d) == asked[p].kind = "remove-devices" /\ asked[p].dev = d
RemovesAgent(p, a) == asked[p].kind = "remove-agents" /\ asked[p].agent = a

\* What the row of an applied removal keeps for the revert is what it removed.
Saved ==
    \A p \in DOMAIN asked : row[p].status = "applied" =>
       /\ asked[p].kind = "remove-devices" =>
            DOMAIN row[p].devices = {asked[p].dev} /\ DOMAIN row[p].agents = {}
       /\ asked[p].kind = "remove-agents" =>
            DOMAIN row[p].agents = {asked[p].agent} /\ DOMAIN row[p].devices = {}

DevicesAccounted ==
    /\ \A d \in DOMAIN world.devices : InstalledDevice(d)
    /\ \A d \in BaseDevices \cup DOMAIN asked :
         InstalledDevice(d) /\ d \notin DOMAIN world.devices =>
            \/ <<"device", d>> \in log.edited
            \/ d \in DOMAIN asked /\ log.revert[d] > 0
            \/ \E p \in DOMAIN asked : RemovesDevice(p, d) /\ Standing(p)

\* Only what was installed is removed.
RemovedWasInstalled ==
    /\ \A d \in DOMAIN world.agents : InstalledAgent(d)
    /\ \A p \in DOMAIN asked : log.apply[p] > 0 =>
         /\ asked[p].kind = "remove-devices" => InstalledDevice(asked[p].dev)
         /\ asked[p].kind = "remove-agents" => InstalledAgent(asked[p].agent)

ClaimsAccounted ==
    \A g \in world.claims :
       \E p \in DOMAIN asked :
          /\ asked[p].kind = "zone-claim" /\ <<asked[p].zone, asked[p].author>> = g
          /\ Standing(p)

OnceReverted == \A p \in Proposals : log.revert[p] <= 1

\* No two removals of one object stand.
RemovalsStand ==
    OnceReverted =>
       \A p \in DOMAIN asked : Standing(p) =>
          /\ asked[p].kind = "remove-devices" =>
               /\ asked[p].dev \notin DOMAIN world.devices
               /\ \A q \in DOMAIN asked :
                    Standing(q) /\ RemovesDevice(q, asked[p].dev) => q = p
          /\ asked[p].kind = "remove-agents" =>
               /\ asked[p].agent \notin DOMAIN world.agents
               /\ \A q \in DOMAIN asked :
                    Standing(q) /\ RemovesAgent(q, asked[p].agent) => q = p

Accounts ==
    DevicesAccounted /\ RemovedWasInstalled /\ ClaimsAccounted /\ RemovalsStand

IInv == Shape /\ Chain /\ AuditTrail /\ OwnersVerdict /\ Saved /\ Accounts

----------------------------------------------------------------------------
(* Tables *)

LEMMA TableShape ==
    ASSUME NEW ids, NEW value, NEW f \in Table(ids, value)
    PROVE  DOMAIN f \subseteq ids /\ f \in [DOMAIN f -> value]
  BY DEF Table

LEMMA TableOf ==
    ASSUME NEW ids, NEW value, NEW f, DOMAIN f \subseteq ids, f \in [DOMAIN f -> value]
    PROVE  f \in Table(ids, value)
  BY DEF Table

LEMMA TableIs ==
    ASSUME NEW ids, NEW value, NEW f
    PROVE  IsTable(f, ids, value) <=> f \in Table(ids, value)
  BY TableShape, TableOf DEF IsTable

LEMMA OverrideDomain ==
    ASSUME NEW f, NEW g PROVE DOMAIN Override(f, g) = DOMAIN f \cup DOMAIN g
  BY DEF Override

LEMMA WithDomain ==
    ASSUME NEW f, NEW x, NEW v PROVE DOMAIN With(f, x, v) = DOMAIN f \cup {x}
  BY DEF With, Override

LEMMA WithoutDomain ==
    ASSUME NEW f, NEW S PROVE DOMAIN Without(f, S) = DOMAIN f \ S
  BY DEF Without

LEMMA OnlyDomain ==
    ASSUME NEW f, NEW x PROVE DOMAIN Only(f, x) = DOMAIN f \cap {x}
  BY DEF Only

LEMMA OverrideTable ==
    ASSUME NEW ids, NEW value, NEW f \in Table(ids, value), NEW g \in Table(ids, value)
    PROVE  Override(f, g) \in Table(ids, value)
  <1>1. DOMAIN f \subseteq ids /\ f \in [DOMAIN f -> value]
        /\ DOMAIN g \subseteq ids /\ g \in [DOMAIN g -> value]
    BY TableShape
  <1>2. DOMAIN Override(f, g) = DOMAIN f \cup DOMAIN g
    BY OverrideDomain
  <1>3. Override(f, g) \in [DOMAIN Override(f, g) -> value]
    BY <1>1, <1>2 DEF Override
  <1> QED BY <1>1, <1>2, <1>3, TableOf

LEMMA WithoutTable ==
    ASSUME NEW ids, NEW value, NEW f \in Table(ids, value), NEW S
    PROVE  Without(f, S) \in Table(ids, value)
  <1>1. DOMAIN f \subseteq ids /\ f \in [DOMAIN f -> value]
    BY TableShape
  <1>2. DOMAIN Without(f, S) = DOMAIN f \ S
    BY WithoutDomain
  <1>3. Without(f, S) \in [DOMAIN Without(f, S) -> value]
    BY <1>1, <1>2 DEF Without
  <1> QED BY <1>1, <1>2, <1>3, TableOf

LEMMA OnlyTable ==
    ASSUME NEW ids, NEW value, NEW f \in Table(ids, value), NEW x
    PROVE  Only(f, x) \in Table(ids, value)
  <1>1. DOMAIN f \subseteq ids /\ f \in [DOMAIN f -> value]
    BY TableShape
  <1>2. DOMAIN Only(f, x) = DOMAIN f \cap {x}
    BY OnlyDomain
  <1>3. Only(f, x) \in [DOMAIN Only(f, x) -> value]
    BY <1>1, <1>2 DEF Only
  <1> QED BY <1>1, <1>2, <1>3, TableOf

LEMMA WithTable ==
    ASSUME NEW ids, NEW value, NEW f \in Table(ids, value), NEW x \in ids, NEW v \in value
    PROVE  With(f, x, v) \in Table(ids, value)
  <1>1. DOMAIN f \subseteq ids /\ f \in [DOMAIN f -> value]
    BY TableShape
  <1>2. DOMAIN With(f, x, v) = DOMAIN f \cup {x}
    BY WithDomain
  <1>3. With(f, x, v) \in [DOMAIN With(f, x, v) -> value]
    BY <1>1, <1>2 DEF With, Override
  <1> QED BY <1>1, <1>2, <1>3, TableOf

LEMMA UpdatedTable ==
    ASSUME NEW ids, NEW value, NEW f \in Table(ids, value), NEW x, NEW v,
           x \in DOMAIN f => v \in value
    PROVE  [f EXCEPT ![x] = v] \in Table(ids, value)
  <1>1. DOMAIN f \subseteq ids /\ f \in [DOMAIN f -> value]
    BY TableShape
  <1>2. [f EXCEPT ![x] = v] \in [DOMAIN f -> value]
    BY <1>1
  <1> QED BY <1>1, <1>2, TableOf

\* What a revert of a modification leaves of a table (Undone).
Kept(f, g) == [x \in DOMAIN f |-> IF x \in DOMAIN g THEN g[x] ELSE f[x]]

LEMMA KeptTable ==
    ASSUME NEW ids, NEW value, NEW f \in Table(ids, value), NEW g \in Table(ids, value)
    PROVE  Kept(f, g) \in Table(ids, value)
  <1>1. DOMAIN f \subseteq ids /\ f \in [DOMAIN f -> value] /\ g \in [DOMAIN g -> value]
    BY TableShape
  <1>2. DOMAIN Kept(f, g) = DOMAIN f
    BY DEF Kept
  <1>3. Kept(f, g) \in [DOMAIN Kept(f, g) -> value]
    BY <1>1, <1>2 DEF Kept
  <1> QED BY <1>1, <1>2, <1>3, TableOf

LEMMA WorldParts ==
    ASSUME NEW w \in World
    PROVE  /\ w.zones \in Table(Zones, Classes) /\ w.devices \in Table(DeviceIds, Zones)
           /\ w.agents \in Table(AgentIds, Agent) /\ w.claims \in SUBSET (Zones \X Authors)
           /\ DOMAIN w.zones \subseteq Zones /\ DOMAIN w.devices \subseteq DeviceIds
           /\ DOMAIN w.agents \subseteq AgentIds
           /\ IsWorld(w)
  <1>1. /\ w.zones \in Table(Zones, Classes) /\ w.devices \in Table(DeviceIds, Zones)
        /\ w.agents \in Table(AgentIds, Agent) /\ w.claims \in SUBSET (Zones \X Authors)
        /\ w = [zones |-> w.zones, devices |-> w.devices, agents |-> w.agents,
                claims |-> w.claims]
    BY DEF World
  <1> QED BY <1>1, TableShape, TableIs DEF IsWorld

LEMMA AskedIds ==
    ASSUME Shape
    PROVE  /\ DOMAIN asked \subseteq Proposals
           /\ \A p \in DOMAIN asked : asked[p] \in Payload /\ p \notin BaseDevices \cup BaseAgents
  <1>1. DOMAIN asked = 1..Len(asked) /\ Len(asked) \in Nat /\ Len(asked) <= MaxProposals
    BY DEF Shape
  <1>2. DOMAIN asked \subseteq Proposals
    BY <1>1, ProposalAssumption DEF Proposals
  <1>3. \A p \in DOMAIN asked : asked[p] \in Payload
    BY DEF Shape
  <1> QED BY <1>2, <1>3, ProposalAssumption

----------------------------------------------------------------------------
(* The three ways the world changes *)

\* Applying p: what it passed for, what it leaves.
LEMMA WrittenEffect ==
    ASSUME Shape, NEW p \in DOMAIN asked, Passes(asked[p], world.zones)
    PROVE  /\ Written(p) \in World
           /\ DOMAIN Written(p).devices =
                CASE asked[p].kind = "install-devices" -> DOMAIN world.devices \cup {p}
                  [] asked[p].kind = "remove-devices" -> DOMAIN world.devices \ {asked[p].dev}
                  [] OTHER -> DOMAIN world.devices
           /\ DOMAIN Written(p).agents =
                CASE asked[p].kind = "install-agents" -> DOMAIN world.agents \cup {p}
                  [] asked[p].kind = "remove-agents" -> DOMAIN world.agents \ {asked[p].agent}
                  [] OTHER -> DOMAIN world.agents
           /\ Written(p).claims =
                IF asked[p].kind = "zone-claim"
                THEN world.claims \cup {<<asked[p].zone, asked[p].author>>}
                ELSE world.claims
           /\ asked[p].kind = "remove-devices" =>
                asked[p].dev \in DOMAIN world.devices /\ asked[p].agent = None
           /\ asked[p].kind = "remove-agents" =>
                asked[p].agent \in DOMAIN world.agents /\ asked[p].dev = None
  <1> USE ProposalAssumption
  <1> DEFINE pl == asked[p]
             w == Written(p)
  <1>1. pl \in Payload /\ p \in Proposals /\ p \in DeviceIds /\ p \in AgentIds
    BY DEF Shape, Proposals, DeviceIds, AgentIds
  <1>2. /\ world \in World
        /\ world.zones \in Table(Zones, Classes) /\ world.devices \in Table(DeviceIds, Zones)
        /\ world.agents \in Table(AgentIds, Agent) /\ world.claims \in SUBSET (Zones \X Authors)
        /\ DOMAIN world.zones \subseteq Zones /\ DOMAIN world.devices \subseteq DeviceIds
        /\ DOMAIN world.agents \subseteq AgentIds
    BY WorldParts DEF Shape
  <1>3. /\ pl.kind \in Kinds /\ pl.author \in Authors /\ pl.zone \in Zones \cup {None}
        /\ pl.binds \in SUBSET DeviceIds /\ pl.manages \in SUBSET Zones
        /\ pl.dev \in DeviceIds \cup {None} /\ pl.agent \in AgentIds \cup {None}
        /\ pl.dev = None \/ pl.agent = None
        /\ pl.kind = "install-zones" => pl.zone # None
        /\ [binds |-> pl.binds, manages |-> pl.manages] \in Agent
    BY <1>1 DEF Payload, Agent
  <1> HIDE DEF pl
  <1>4. CASE pl.kind = "install-zones"
    <2>1. w = [world EXCEPT !.zones = With(world.zones, pl.zone, "standard")]
      BY <1>4 DEF Written, pl
    <2>2. With(world.zones, pl.zone, "standard") \in Table(Zones, Classes)
      BY <1>2, <1>3, <1>4, WithTable DEF Classes
    <2>3. w \in World /\ w.devices = world.devices /\ w.agents = world.agents
          /\ w.claims = world.claims
      BY <1>2, <2>1, <2>2 DEF World
    <2> QED BY <1>4, <2>3 DEF pl
  <1>5. CASE pl.kind = "install-devices"
    <2>0. pl.zone \in Zones
      BY <1>2, <1>5 DEF Passes, InstallDevicesPasses, pl
    <2>1. w = [world EXCEPT !.devices = With(world.devices, p, pl.zone)]
      BY <1>5 DEF Written, pl
    <2>2. With(world.devices, p, pl.zone) \in Table(DeviceIds, Zones)
      BY <1>1, <1>2, <2>0, WithTable
    <2>4. DOMAIN With(world.devices, p, pl.zone) = DOMAIN world.devices \cup {p}
      BY WithDomain
    <2>3. /\ w \in World /\ DOMAIN w.devices = DOMAIN world.devices \cup {p}
          /\ w.agents = world.agents /\ w.claims = world.claims
      BY <1>2, <2>1, <2>2, <2>4 DEF World
    <2> QED BY <1>5, <2>3 DEF pl
  <1>6. CASE pl.kind = "install-agents"
    <2> DEFINE a == [binds |-> pl.binds, manages |-> pl.manages]
    <2>1. w = [world EXCEPT !.agents = With(world.agents, p, a)]
      BY <1>6 DEF Written, pl
    <2> HIDE DEF a
    <2>2. With(world.agents, p, a) \in Table(AgentIds, Agent)
      BY <1>1, <1>2, <1>3, WithTable DEF a
    <2>4. DOMAIN With(world.agents, p, a) = DOMAIN world.agents \cup {p}
      BY WithDomain
    <2>3. /\ w \in World /\ DOMAIN w.agents = DOMAIN world.agents \cup {p}
          /\ w.devices = world.devices /\ w.claims = world.claims
      BY <1>2, <2>1, <2>2, <2>4 DEF World
    <2> QED BY <1>6, <2>3 DEF pl
  <1>7. CASE pl.kind = "remove-devices"
    <2>0. pl.dev \in DOMAIN world.devices
      BY <1>7 DEF Passes, RemoveDevicesPasses, pl
    <2>1. w = [world EXCEPT !.devices = Without(world.devices, {pl.dev})]
      BY <1>7 DEF Written, pl
    <2>2. Without(world.devices, {pl.dev}) \in Table(DeviceIds, Zones)
      BY <1>2, WithoutTable
    <2>5. DOMAIN Without(world.devices, {pl.dev}) = DOMAIN world.devices \ {pl.dev}
      BY WithoutDomain
    <2>3. /\ w \in World /\ DOMAIN w.devices = DOMAIN world.devices \ {pl.dev}
          /\ w.agents = world.agents /\ w.claims = world.claims
      BY <1>2, <2>1, <2>2, <2>5 DEF World
    <2>4. pl.dev # None /\ pl.agent = None
      BY <1>2, <1>3, <2>0
    <2> QED BY <1>7, <2>0, <2>3, <2>4 DEF pl
  <1>8. CASE pl.kind = "remove-agents"
    <2>0. pl.agent \in DOMAIN world.agents
      BY <1>8 DEF Passes, RemoveAgentsPasses, pl
    <2>1. w = [world EXCEPT !.agents = Without(world.agents, {pl.agent})]
      BY <1>8 DEF Written, pl
    <2>2. Without(world.agents, {pl.agent}) \in Table(AgentIds, Agent)
      BY <1>2, WithoutTable
    <2>5. DOMAIN Without(world.agents, {pl.agent}) = DOMAIN world.agents \ {pl.agent}
      BY WithoutDomain
    <2>3. /\ w \in World /\ DOMAIN w.agents = DOMAIN world.agents \ {pl.agent}
          /\ w.devices = world.devices /\ w.claims = world.claims
      BY <1>2, <2>1, <2>2, <2>5 DEF World
    <2>4. pl.agent # None /\ pl.dev = None
      BY <1>2, <1>3, <2>0
    <2> QED BY <1>8, <2>0, <2>3, <2>4 DEF pl
  <1>9. CASE pl.kind = "modify-object"
    <2>1. CASE pl.dev # None
      <3>1. w = [world EXCEPT !.devices[pl.dev] = pl.zone]
        BY <1>9, <2>1 DEF Written, pl
      <3>2. pl.zone \in Zones
        BY <1>2, <1>3, <1>9, <2>1 DEF Passes, ModifyObjectPasses, pl
      <3>3. [world.devices EXCEPT ![pl.dev] = pl.zone] \in Table(DeviceIds, Zones)
        BY <1>2, <3>2, UpdatedTable
      <3>4. w = [world EXCEPT !.devices = [world.devices EXCEPT ![pl.dev] = pl.zone]]
        BY <3>1
      <3>5. /\ w \in World /\ DOMAIN w.devices = DOMAIN world.devices
            /\ w.agents = world.agents /\ w.claims = world.claims
        BY <1>2, <3>3, <3>4 DEF World
      <3> QED BY <1>9, <3>5 DEF pl
    <2>2. CASE pl.dev = None
      <3> DEFINE a == [binds |-> pl.binds, manages |-> pl.manages]
      <3>1. w = [world EXCEPT !.agents[pl.agent] = a]
        BY <1>9, <2>2 DEF Written, pl
      <3> HIDE DEF a
      <3>2. a \in Agent
        BY <1>3 DEF a
      <3>3. [world.agents EXCEPT ![pl.agent] = a] \in Table(AgentIds, Agent)
        BY <1>2, <3>2, UpdatedTable
      <3>4. w = [world EXCEPT !.agents = [world.agents EXCEPT ![pl.agent] = a]]
        BY <3>1
      <3>5. /\ w \in World /\ DOMAIN w.agents = DOMAIN world.agents
            /\ w.devices = world.devices /\ w.claims = world.claims
        BY <1>2, <3>3, <3>4 DEF World
      <3> QED BY <1>9, <3>5 DEF pl
    <2> QED BY <2>1, <2>2
  <1>10. CASE pl.kind = "zone-claim"
    <2>0. pl.zone \in Zones
      BY <1>2, <1>10 DEF Passes, ZoneClaimPasses, pl
    <2>1. w = [world EXCEPT !.claims = world.claims \cup {<<pl.zone, pl.author>>}]
      BY <1>10 DEF Written, pl
    <2>2. world.claims \cup {<<pl.zone, pl.author>>} \in SUBSET (Zones \X Authors)
      BY <1>2, <1>3, <2>0
    <2>3. /\ w \in World /\ w.claims = world.claims \cup {<<pl.zone, pl.author>>}
          /\ w.agents = world.agents /\ w.devices = world.devices
      BY <1>2, <2>1, <2>2 DEF World
    <2> QED BY <1>10, <2>3 DEF pl
  <1> QED BY <1>3, <1>4, <1>5, <1>6, <1>7, <1>8, <1>9, <1>10 DEF Kinds

\* Taking p back.
LEMMA UndoneEffect ==
    ASSUME Shape, Saved, NEW p \in DOMAIN asked, row[p].status = "applied"
    PROVE  /\ Undone(p) \in World
           /\ DOMAIN Undone(p).devices =
                CASE asked[p].kind = "install-devices" -> DOMAIN world.devices \ {p}
                  [] asked[p].kind = "remove-devices" ->
                       DOMAIN world.devices \cup {asked[p].dev}
                  [] OTHER -> DOMAIN world.devices
           /\ DOMAIN Undone(p).agents =
                CASE asked[p].kind = "install-agents" -> DOMAIN world.agents \ {p}
                  [] asked[p].kind = "remove-agents" ->
                       DOMAIN world.agents \cup {asked[p].agent}
                  [] OTHER -> DOMAIN world.agents
           /\ Undone(p).claims =
                IF asked[p].kind = "zone-claim"
                THEN world.claims \ {<<asked[p].zone, asked[p].author>>}
                ELSE world.claims
  <1> DEFINE pl == asked[p]
             w == Undone(p)
             r == row[p]
  <1>1. pl \in Payload /\ p \in Proposals
    BY AskedIds
  <1>2. /\ world \in World
        /\ world.zones \in Table(Zones, Classes) /\ world.devices \in Table(DeviceIds, Zones)
        /\ world.agents \in Table(AgentIds, Agent) /\ world.claims \in SUBSET (Zones \X Authors)
    BY WorldParts DEF Shape
  <1>3. r \in Row
    BY <1>1 DEF Shape
  <1>4. r.devices \in Table(DeviceIds, Zones) /\ r.agents \in Table(AgentIds, Agent)
    BY <1>3 DEF Row
  <1>5. pl.kind \in Kinds
    BY <1>1 DEF Payload
  <1>6. /\ pl.kind = "remove-devices" => DOMAIN r.devices = {pl.dev} /\ DOMAIN r.agents = {}
        /\ pl.kind = "remove-agents" => DOMAIN r.agents = {pl.agent} /\ DOMAIN r.devices = {}
    BY DEF Saved
  <1> HIDE DEF pl, r
  <1>7. CASE pl.kind = "install-zones"
    <2>1. w = [world EXCEPT !.zones = Without(world.zones, {pl.zone})]
      BY <1>7 DEF Undone, pl
    <2>2. Without(world.zones, {pl.zone}) \in Table(Zones, Classes)
      BY <1>2, WithoutTable
    <2>3. w \in World /\ w.devices = world.devices /\ w.agents = world.agents
          /\ w.claims = world.claims
      BY <1>2, <2>1, <2>2 DEF World
    <2> QED BY <1>7, <2>3 DEF pl
  <1>8. CASE pl.kind = "install-devices"
    <2>1. w = [world EXCEPT !.devices = Without(world.devices, {p})]
      BY <1>8 DEF Undone, pl
    <2>2. Without(world.devices, {p}) \in Table(DeviceIds, Zones)
      BY <1>2, WithoutTable
    <2>3. DOMAIN Without(world.devices, {p}) = DOMAIN world.devices \ {p}
      BY WithoutDomain
    <2>4. /\ w \in World /\ DOMAIN w.devices = DOMAIN world.devices \ {p}
          /\ w.agents = world.agents /\ w.claims = world.claims
      BY <1>2, <2>1, <2>2, <2>3 DEF World
    <2> QED BY <1>8, <2>4 DEF pl
  <1>9. CASE pl.kind = "install-agents"
    <2>1. w = [world EXCEPT !.agents = Without(world.agents, {p})]
      BY <1>9 DEF Undone, pl
    <2>2. Without(world.agents, {p}) \in Table(AgentIds, Agent)
      BY <1>2, WithoutTable
    <2>3. DOMAIN Without(world.agents, {p}) = DOMAIN world.agents \ {p}
      BY WithoutDomain
    <2>4. /\ w \in World /\ DOMAIN w.agents = DOMAIN world.agents \ {p}
          /\ w.devices = world.devices /\ w.claims = world.claims
      BY <1>2, <2>1, <2>2, <2>3 DEF World
    <2> QED BY <1>9, <2>4 DEF pl
  <1>10. CASE pl.kind \in {"remove-devices", "remove-agents"}
    <2>1. w = [world EXCEPT !.devices = Override(r.devices, world.devices),
                            !.agents = Override(r.agents, world.agents)]
      BY <1>10 DEF Undone, Restored, pl, r
    <2>2. Override(r.devices, world.devices) \in Table(DeviceIds, Zones)
      BY <1>2, <1>4, OverrideTable
    <2>3. Override(r.agents, world.agents) \in Table(AgentIds, Agent)
      BY <1>2, <1>4, OverrideTable
    <2>4. DOMAIN Override(r.devices, world.devices) = DOMAIN r.devices \cup DOMAIN world.devices
      BY OverrideDomain
    <2>5. DOMAIN Override(r.agents, world.agents) = DOMAIN r.agents \cup DOMAIN world.agents
      BY OverrideDomain
    <2>6. /\ w \in World /\ w.claims = world.claims
          /\ DOMAIN w.devices = DOMAIN r.devices \cup DOMAIN world.devices
          /\ DOMAIN w.agents = DOMAIN r.agents \cup DOMAIN world.agents
      BY <1>2, <2>1, <2>2, <2>3, <2>4, <2>5 DEF World
    <2> QED BY <1>6, <1>10, <2>6 DEF pl
  <1>11. CASE pl.kind = "modify-object"
    <2>1. w = [world EXCEPT !.devices = Kept(world.devices, r.devices),
                            !.agents = Kept(world.agents, r.agents)]
      BY <1>11 DEF Undone, Kept, pl, r
    <2>2. Kept(world.devices, r.devices) \in Table(DeviceIds, Zones)
      BY <1>2, <1>4, KeptTable
    <2>3. Kept(world.agents, r.agents) \in Table(AgentIds, Agent)
      BY <1>2, <1>4, KeptTable
    <2>4. DOMAIN Kept(world.devices, r.devices) = DOMAIN world.devices
          /\ DOMAIN Kept(world.agents, r.agents) = DOMAIN world.agents
      BY DEF Kept
    <2>5. /\ w \in World /\ w.claims = world.claims
          /\ DOMAIN w.devices = DOMAIN world.devices
          /\ DOMAIN w.agents = DOMAIN world.agents
      BY <1>2, <2>1, <2>2, <2>3, <2>4 DEF World
    <2> QED BY <1>11, <2>5 DEF pl
  <1>12. CASE pl.kind = "zone-claim"
    <2>1. w = [world EXCEPT !.claims = world.claims \ {<<pl.zone, pl.author>>}]
      BY <1>12 DEF Undone, Revoked, pl
    <2>2. /\ w \in World /\ w.claims = world.claims \ {<<pl.zone, pl.author>>}
          /\ w.agents = world.agents /\ w.devices = world.devices
      BY <1>2, <2>1 DEF World
    <2> QED BY <1>12, <2>2 DEF pl
  <1> QED BY <1>5, <1>7, <1>8, <1>9, <1>10, <1>11, <1>12 DEF Kinds

\* An edit of the owner: nothing is added but zones, and what goes is audited.
LEMMA EditEffect ==
    ASSUME Shape, OwnerEdit
    PROVE  /\ world' \in World /\ log' \in Log
           /\ log'.apply = log.apply /\ log'.revert = log.revert
           /\ log.edited \subseteq log'.edited
           /\ world'.claims = world.claims
           /\ DOMAIN world'.devices \subseteq DOMAIN world.devices
           /\ DOMAIN world'.agents \subseteq DOMAIN world.agents
           /\ \A d \in DOMAIN world.devices \ DOMAIN world'.devices :
                <<"device", d>> \in log'.edited
  <1>1. /\ world \in World /\ log \in Log
        /\ world.zones \in Table(Zones, Classes) /\ world.devices \in Table(DeviceIds, Zones)
        /\ world.agents \in Table(AgentIds, Agent)
        /\ DOMAIN world.zones \subseteq Zones /\ DOMAIN world.devices \subseteq DeviceIds
        /\ DOMAIN world.agents \subseteq AgentIds
    BY WorldParts DEF Shape
  <1>2. ASSUME NEW Z \in Table(Zones, Classes), NEW z \in Zones,
               world' = [world EXCEPT !.zones = Z],
               log' = [log EXCEPT !.edited = log.edited \cup {z}]
        PROVE  /\ world' \in World /\ log' \in Log
               /\ log'.apply = log.apply /\ log'.revert = log.revert
               /\ log.edited \subseteq log'.edited
               /\ world'.claims = world.claims /\ world'.devices = world.devices
               /\ world'.agents = world.agents
    <2>1. log.edited \cup {z} \in SUBSET Edits
      BY <1>1 DEF Log, Edits
    <2> QED BY <1>1, <1>2, <2>1 DEF World, Log
  <1>3. CASE \E z \in Zones \ DOMAIN world.zones, class \in Classes :
                /\ world' = [world EXCEPT !.zones = With(@, z, class)]
                /\ log' = [log EXCEPT !.edited = @ \cup {z}]
    <2>1. PICK z \in Zones, class \in Classes :
                /\ world' = [world EXCEPT !.zones = With(@, z, class)]
                /\ log' = [log EXCEPT !.edited = @ \cup {z}]
      BY <1>3
    <2>2. With(world.zones, z, class) \in Table(Zones, Classes)
      BY <1>1, WithTable
    <2> QED BY <1>2, <2>1, <2>2
  <1>4. CASE \E z \in DOMAIN world.zones :
                /\ world' = [world EXCEPT !.zones = Without(@, {z})]
                /\ log' = [log EXCEPT !.edited = @ \cup {z}]
    <2>1. PICK z \in DOMAIN world.zones :
                /\ world' = [world EXCEPT !.zones = Without(@, {z})]
                /\ log' = [log EXCEPT !.edited = @ \cup {z}]
      BY <1>4
    <2>2. Without(world.zones, {z}) \in Table(Zones, Classes)
      BY <1>1, WithoutTable
    <2> QED BY <1>1, <1>2, <2>1, <2>2
  <1>5. CASE \E z \in DOMAIN world.zones :
                /\ world' = [world EXCEPT !.zones[z] = "supervised"]
                /\ log' = [log EXCEPT !.edited = @ \cup {z}]
    <2>1. PICK z \in DOMAIN world.zones :
                /\ world' = [world EXCEPT !.zones[z] = "supervised"]
                /\ log' = [log EXCEPT !.edited = @ \cup {z}]
      BY <1>5
    <2>2. [world.zones EXCEPT ![z] = "supervised"] \in Table(Zones, Classes)
      BY <1>1, UpdatedTable DEF Classes
    <2>3. world' = [world EXCEPT !.zones = [world.zones EXCEPT ![z] = "supervised"]]
      BY <2>1
    <2> QED BY <1>1, <1>2, <2>1, <2>2, <2>3
  <1>6. CASE \E d \in DOMAIN world.devices :
                /\ world' = [world EXCEPT !.devices = Without(@, {d})]
                /\ log' = [log EXCEPT !.edited = @ \cup {<<"device", d>>}]
    <2>1. PICK d \in DOMAIN world.devices :
                /\ world' = [world EXCEPT !.devices = Without(@, {d})]
                /\ log' = [log EXCEPT !.edited = @ \cup {<<"device", d>>}]
      BY <1>6
    <2>2. Without(world.devices, {d}) \in Table(DeviceIds, Zones)
      BY <1>1, WithoutTable
    <2>3. DOMAIN Without(world.devices, {d}) = DOMAIN world.devices \ {d}
      BY WithoutDomain
    <2>4. log.edited \cup {<<"device", d>>} \in SUBSET Edits
      BY <1>1, <2>1 DEF Log, Edits
    <2> DEFINE E == log.edited \cup {<<"device", d>>}
    <2>5. log' = [log EXCEPT !.edited = E]
      BY <2>1
    <2>6. E \in SUBSET Edits /\ <<"device", d>> \in E /\ log.edited \subseteq E
      BY <2>4
    <2> HIDE DEF E
    <2>7. /\ log' \in Log /\ log'.apply = log.apply /\ log'.revert = log.revert
          /\ log'.edited = E
      BY <1>1, <2>5, <2>6 DEF Log
    <2>8. /\ world' \in World /\ world'.claims = world.claims /\ world'.agents = world.agents
          /\ DOMAIN world'.devices = DOMAIN world.devices \ {d}
      BY <1>1, <2>1, <2>2, <2>3 DEF World
    <2> QED BY <2>6, <2>7, <2>8
  <1>7. CASE \E a \in DOMAIN world.agents :
                /\ world' = [world EXCEPT !.agents = Without(@, {a})]
                /\ log' = [log EXCEPT !.edited = @ \cup {<<"agent", a>>}]
    <2>1. PICK a \in DOMAIN world.agents :
                /\ world' = [world EXCEPT !.agents = Without(@, {a})]
                /\ log' = [log EXCEPT !.edited = @ \cup {<<"agent", a>>}]
      BY <1>7
    <2>2. Without(world.agents, {a}) \in Table(AgentIds, Agent)
      BY <1>1, WithoutTable
    <2>3. DOMAIN Without(world.agents, {a}) = DOMAIN world.agents \ {a}
      BY WithoutDomain
    <2>4. log.edited \cup {<<"agent", a>>} \in SUBSET Edits
      BY <1>1, <2>1 DEF Log, Edits
    <2> DEFINE E == log.edited \cup {<<"agent", a>>}
    <2>5. log' = [log EXCEPT !.edited = E]
      BY <2>1
    <2>6. E \in SUBSET Edits /\ log.edited \subseteq E
      BY <2>4
    <2> HIDE DEF E
    <2>7. /\ log' \in Log /\ log'.apply = log.apply /\ log'.revert = log.revert
          /\ log'.edited = E
      BY <1>1, <2>5, <2>6 DEF Log
    <2>8. /\ world' \in World /\ world'.claims = world.claims
          /\ world'.devices = world.devices
          /\ DOMAIN world'.agents = DOMAIN world.agents \ {a}
      BY <1>1, <2>1, <2>2, <2>3 DEF World
    <2> QED BY <2>6, <2>7, <2>8
  <1> QED BY <1>3, <1>4, <1>5, <1>6, <1>7 DEF OwnerEdit

----------------------------------------------------------------------------
(* The accounts *)

\* The log after an apply and after a revert of p.
LEMMA LoggedApply ==
    ASSUME log \in Log, NEW p \in Proposals, log' = [log EXCEPT !.apply[p] = @ + 1]
    PROVE  /\ log' \in Log /\ log'.revert = log.revert /\ log'.edited = log.edited
           /\ log'.apply[p] = log.apply[p] + 1
           /\ \A q \in Proposals \ {p} : log'.apply[q] = log.apply[q]
  <1>1. log.apply[p] + 1 \in Nat
    BY DEF Log
  <1>2. [log.apply EXCEPT ![p] = log.apply[p] + 1] \in [Proposals -> Nat]
    BY <1>1 DEF Log
  <1>3. log' = [log EXCEPT !.apply = [log.apply EXCEPT ![p] = log.apply[p] + 1]]
    OBVIOUS
  <1> QED BY <1>2, <1>3 DEF Log

LEMMA LoggedRevert ==
    ASSUME log \in Log, NEW p \in Proposals, log' = [log EXCEPT !.revert[p] = @ + 1]
    PROVE  /\ log' \in Log /\ log'.apply = log.apply /\ log'.edited = log.edited
           /\ log'.revert[p] = log.revert[p] + 1
           /\ \A q \in Proposals \ {p} : log'.revert[q] = log.revert[q]
  <1>1. log.revert[p] + 1 \in Nat
    BY DEF Log
  <1>2. [log.revert EXCEPT ![p] = log.revert[p] + 1] \in [Proposals -> Nat]
    BY <1>1 DEF Log
  <1>3. log' = [log EXCEPT !.revert = [log.revert EXCEPT ![p] = log.revert[p] + 1]]
    OBVIOUS
  <1> QED BY <1>2, <1>3 DEF Log

Applies(p) ==
    /\ Passes(asked[p], world.zones)
    /\ world' = Written(p) /\ log' = [log EXCEPT !.apply[p] = @ + 1]

LEMMA ApplyKeepsAccounts ==
    ASSUME Shape, Accounts, NEW p \in DOMAIN asked, log.apply[p] = 0, log.revert[p] = 0,
           Applies(p), asked' = asked
    PROVE  Accounts' /\ world' \in World /\ log' \in Log
  <1> DEFINE k == asked[p].kind
             dev == asked[p].dev
             agent == asked[p].agent
  <1>1. p \in Proposals /\ DOMAIN asked \subseteq Proposals
        /\ p \notin BaseDevices /\ p \notin BaseAgents
    BY AskedIds
  <1>2. /\ log' \in Log /\ log'.revert = log.revert /\ log'.edited = log.edited
        /\ log'.apply[p] = 1 /\ log.apply[p] = 0 /\ log.revert[p] = 0
        /\ \A q \in Proposals \ {p} : log'.apply[q] = log.apply[q]
    <2>1. log \in Log /\ log' = [log EXCEPT !.apply[p] = @ + 1]
      BY DEF Shape, Applies
    <2> QED BY <1>1, <2>1, LoggedApply
  <1>3. /\ world' \in World
        /\ DOMAIN world'.devices =
             CASE k = "install-devices" -> DOMAIN world.devices \cup {p}
               [] k = "remove-devices" -> DOMAIN world.devices \ {dev}
               [] OTHER -> DOMAIN world.devices
        /\ DOMAIN world'.agents =
             CASE k = "install-agents" -> DOMAIN world.agents \cup {p}
               [] k = "remove-agents" -> DOMAIN world.agents \ {agent}
               [] OTHER -> DOMAIN world.agents
        /\ world'.claims =
             IF k = "zone-claim"
             THEN world.claims \cup {<<asked[p].zone, asked[p].author>>} ELSE world.claims
        /\ k = "remove-devices" => dev \in DOMAIN world.devices
        /\ k = "remove-agents" => agent \in DOMAIN world.agents
    BY WrittenEffect DEF Applies
  <1>4. log.apply \in [Proposals -> Nat] /\ log.revert \in [Proposals -> Nat]
        /\ log'.apply \in [Proposals -> Nat]
    BY <1>2 DEF Shape, Log
  <1>5. \A q \in DOMAIN asked : Standing(q)' <=> Standing(q) \/ q = p
    BY <1>1, <1>2, <1>4 DEF Standing
  <1>6. \A d : InstalledDevice(d)' <=> InstalledDevice(d) \/ (d = p /\ k = "install-devices")
    BY <1>1, <1>2, <1>4 DEF InstalledDevice
  <1>7. \A a : InstalledAgent(a)' <=> InstalledAgent(a) \/ (a = p /\ k = "install-agents")
    BY <1>1, <1>2, <1>4 DEF InstalledAgent
  <1>8. ~InstalledDevice(p) /\ ~InstalledAgent(p)
    BY <1>1, <1>2 DEF InstalledDevice, InstalledAgent
  <1> HIDE DEF k, dev, agent
  <1>9. DevicesAccounted'
    <2>1. \A d \in DOMAIN world'.devices : InstalledDevice(d)'
      BY <1>3, <1>6 DEF Accounts, DevicesAccounted
    <2>2. ASSUME NEW d \in BaseDevices \cup DOMAIN asked, InstalledDevice(d)',
                 d \notin DOMAIN world'.devices
          PROVE  \/ <<"device", d>> \in log'.edited
                 \/ d \in DOMAIN asked /\ log'.revert[d] > 0
                 \/ \E q \in DOMAIN asked : RemovesDevice(q, d) /\ Standing(q)'
      <3>1. InstalledDevice(d)
        BY <1>3, <1>6, <2>2
      <3>2. CASE d \notin DOMAIN world.devices
        BY <1>2, <1>5, <3>1, <3>2 DEF Accounts, DevicesAccounted
      <3>3. CASE d \in DOMAIN world.devices
        <4>1. k = "remove-devices" /\ d = dev
          BY <1>3, <2>2, <3>3
        <4>2. RemovesDevice(p, d)
          BY <4>1 DEF RemovesDevice, k, dev
        <4> QED BY <1>5, <4>2
      <3> QED BY <3>2, <3>3
    <2> QED BY <2>1, <2>2 DEF DevicesAccounted, RemovesDevice
  <1>10. RemovedWasInstalled'
    <2>1. \A d \in DOMAIN world'.agents : InstalledAgent(d)'
      BY <1>3, <1>7 DEF Accounts, RemovedWasInstalled
    <2>2. ASSUME NEW q \in DOMAIN asked, log'.apply[q] > 0
          PROVE  /\ asked[q].kind = "remove-devices" => InstalledDevice(asked[q].dev)'
                 /\ asked[q].kind = "remove-agents" => InstalledAgent(asked[q].agent)'
      <3>1. CASE q = p
        <4>1. k = "remove-devices" => InstalledDevice(dev)
          BY <1>3 DEF Accounts, DevicesAccounted
        <4>2. k = "remove-agents" => InstalledAgent(agent)
          BY <1>3 DEF Accounts, RemovedWasInstalled
        <4> QED BY <1>6, <1>7, <3>1, <4>1, <4>2 DEF k, dev, agent
      <3>2. CASE q # p
        BY <1>1, <1>2, <1>6, <1>7, <2>2, <3>2 DEF Accounts, RemovedWasInstalled
      <3> QED BY <3>1, <3>2
    <2> QED BY <2>1, <2>2 DEF RemovedWasInstalled
  <1>11. ClaimsAccounted'
    <2> SUFFICES ASSUME NEW g \in world'.claims
                 PROVE  \E q \in DOMAIN asked :
                          /\ asked[q].kind = "zone-claim"
                          /\ <<asked[q].zone, asked[q].author>> = g
                          /\ Standing(q)'
      BY DEF ClaimsAccounted
    <2>1. CASE g \in world.claims
      BY <1>5, <2>1 DEF Accounts, ClaimsAccounted
    <2>2. CASE g \notin world.claims
      BY <1>3, <1>5, <2>2 DEF k
    <2> QED BY <2>1, <2>2
  <1>12. RemovalsStand'
    <2> SUFFICES ASSUME OnceReverted', NEW q \in DOMAIN asked, Standing(q)'
                 PROVE  /\ asked[q].kind = "remove-devices" =>
                             /\ asked[q].dev \notin DOMAIN world'.devices
                             /\ \A o \in DOMAIN asked :
                                  Standing(o)' /\ RemovesDevice(o, asked[q].dev) => o = q
                        /\ asked[q].kind = "remove-agents" =>
                             /\ asked[q].agent \notin DOMAIN world'.agents
                             /\ \A o \in DOMAIN asked :
                                  Standing(o)' /\ RemovesAgent(o, asked[q].agent) => o = q
      BY DEF RemovalsStand, RemovesDevice, RemovesAgent
    <2>1. OnceReverted
      BY <1>2 DEF OnceReverted
    <2>2. \A o \in DOMAIN asked : Standing(o) =>
            /\ asked[o].kind = "remove-devices" =>
                 /\ asked[o].dev \notin DOMAIN world.devices
                 /\ asked[o].dev # p
                 /\ \A r \in DOMAIN asked :
                      Standing(r) /\ RemovesDevice(r, asked[o].dev) => r = o
            /\ asked[o].kind = "remove-agents" =>
                 /\ asked[o].agent \notin DOMAIN world.agents
                 /\ asked[o].agent # p
                 /\ \A r \in DOMAIN asked :
                      Standing(r) /\ RemovesAgent(r, asked[o].agent) => r = o
      BY <1>8, <2>1 DEF Accounts, RemovalsStand, RemovedWasInstalled, Standing
    <2>3. CASE asked[q].kind = "remove-devices"
      <3>1. CASE q = p
        <4>1. k = "remove-devices" /\ dev = asked[q].dev
          BY <2>3, <3>1 DEF k, dev
        <4>2. dev \notin DOMAIN world'.devices /\ dev \in DOMAIN world.devices
          BY <1>3, <4>1
        <4>3. \A o \in DOMAIN asked : Standing(o) => ~RemovesDevice(o, dev)
          BY <2>2, <4>2 DEF RemovesDevice
        <4> QED BY <1>5, <2>3, <3>1, <4>1, <4>2, <4>3
      <3>2. CASE q # p
        <4>1. Standing(q)
          BY <1>5, <3>2
        <4>2. asked[q].dev \notin DOMAIN world'.devices
          BY <1>3, <2>2, <2>3, <4>1
        <4>3. ~RemovesDevice(p, asked[q].dev)
          BY <1>3, <2>2, <2>3, <4>1 DEF RemovesDevice, k, dev
        <4> QED BY <1>5, <2>2, <2>3, <4>1, <4>2, <4>3
      <3> QED BY <3>1, <3>2
    <2>4. CASE asked[q].kind = "remove-agents"
      <3>1. CASE q = p
        <4>1. k = "remove-agents" /\ agent = asked[q].agent
          BY <2>4, <3>1 DEF k, agent
        <4>2. agent \notin DOMAIN world'.agents /\ agent \in DOMAIN world.agents
          BY <1>3, <4>1
        <4>3. \A o \in DOMAIN asked : Standing(o) => ~RemovesAgent(o, agent)
          BY <2>2, <4>2 DEF RemovesAgent
        <4> QED BY <1>5, <2>4, <3>1, <4>1, <4>2, <4>3
      <3>2. CASE q # p
        <4>1. Standing(q)
          BY <1>5, <3>2
        <4>2. asked[q].agent \notin DOMAIN world'.agents
          BY <1>3, <2>2, <2>4, <4>1
        <4>3. ~RemovesAgent(p, asked[q].agent)
          BY <1>3, <2>2, <2>4, <4>1 DEF RemovesAgent, k, agent
        <4> QED BY <1>5, <2>2, <2>4, <4>1, <4>2, <4>3
      <3> QED BY <3>1, <3>2
    <2> QED BY <2>3, <2>4
  <1> QED BY <1>2, <1>3, <1>9, <1>10, <1>11, <1>12 DEF Accounts

Reverts(p) ==
    /\ row[p].status = "applied" /\ log.apply[p] > 0
    /\ world' = Undone(p) /\ log' = [log EXCEPT !.revert[p] = @ + 1]

LEMMA RevertKeepsAccounts ==
    ASSUME Shape, Saved, Accounts, NEW p \in DOMAIN asked, Reverts(p), asked' = asked
    PROVE  Accounts' /\ world' \in World /\ log' \in Log
  <1> DEFINE k == asked[p].kind
             dev == asked[p].dev
             agent == asked[p].agent
  <1>1. p \in Proposals /\ DOMAIN asked \subseteq Proposals
    BY AskedIds
  <1>2. /\ log' \in Log /\ log'.apply = log.apply /\ log'.edited = log.edited
        /\ log'.revert[p] = log.revert[p] + 1 /\ log.apply[p] > 0
        /\ \A q \in Proposals \ {p} : log'.revert[q] = log.revert[q]
    <2>1. log \in Log /\ log' = [log EXCEPT !.revert[p] = @ + 1] /\ log.apply[p] > 0
      BY DEF Shape, Reverts
    <2> QED BY <1>1, <2>1, LoggedRevert
  <1>3. /\ world' \in World
        /\ DOMAIN world'.devices =
             CASE k = "install-devices" -> DOMAIN world.devices \ {p}
               [] k = "remove-devices" -> DOMAIN world.devices \cup {dev}
               [] OTHER -> DOMAIN world.devices
        /\ DOMAIN world'.agents =
             CASE k = "install-agents" -> DOMAIN world.agents \ {p}
               [] k = "remove-agents" -> DOMAIN world.agents \cup {agent}
               [] OTHER -> DOMAIN world.agents
        /\ world'.claims =
             IF k = "zone-claim"
             THEN world.claims \ {<<asked[p].zone, asked[p].author>>} ELSE world.claims
    BY UndoneEffect DEF Reverts
  <1>4. log.apply \in [Proposals -> Nat] /\ log.revert \in [Proposals -> Nat]
        /\ log'.revert \in [Proposals -> Nat]
    BY <1>2 DEF Shape, Log
  <1>5. \A q \in DOMAIN asked : Standing(q)' <=> Standing(q) /\ q # p
    BY <1>1, <1>2, <1>4 DEF Standing
  <1>6. \A d : InstalledDevice(d)' <=> InstalledDevice(d)
    BY <1>2 DEF InstalledDevice
  <1>7. \A a : InstalledAgent(a)' <=> InstalledAgent(a)
    BY <1>2 DEF InstalledAgent
  <1>8. /\ k = "remove-devices" => InstalledDevice(dev)
        /\ k = "remove-agents" => InstalledAgent(agent)
    BY <1>2 DEF Accounts, RemovedWasInstalled
  <1> HIDE DEF k, dev, agent
  <1>9. DevicesAccounted'
    <2>1. \A d \in DOMAIN world'.devices : InstalledDevice(d)'
      BY <1>3, <1>6, <1>8 DEF Accounts, DevicesAccounted
    <2>2. ASSUME NEW d \in BaseDevices \cup DOMAIN asked, InstalledDevice(d)',
                 d \notin DOMAIN world'.devices
          PROVE  \/ <<"device", d>> \in log'.edited
                 \/ d \in DOMAIN asked /\ log'.revert[d] > 0
                 \/ \E q \in DOMAIN asked : RemovesDevice(q, d) /\ Standing(q)'
      <3>1. CASE d \in DOMAIN world.devices
        <4>1. d = p
          BY <1>3, <2>2, <3>1
        <4> QED BY <1>1, <1>2, <1>4, <4>1
      <3>2. CASE d \notin DOMAIN world.devices
        <4>1. \/ <<"device", d>> \in log.edited
              \/ d \in DOMAIN asked /\ log.revert[d] > 0
              \/ \E q \in DOMAIN asked : RemovesDevice(q, d) /\ Standing(q)
          BY <1>6, <2>2, <3>2 DEF Accounts, DevicesAccounted
        <4>2. CASE <<"device", d>> \in log.edited
          BY <1>2, <4>2
        <4>3. CASE d \in DOMAIN asked /\ log.revert[d] > 0
          BY <1>1, <1>2, <1>4, <4>3
        <4>4. CASE \E q \in DOMAIN asked : RemovesDevice(q, d) /\ Standing(q)
          <5>1. PICK q \in DOMAIN asked : RemovesDevice(q, d) /\ Standing(q)
            BY <4>4
          <5>2. q # p
            BY <1>3, <2>2, <5>1 DEF RemovesDevice, k, dev
          <5> QED BY <1>5, <5>1, <5>2
        <4> QED BY <4>1, <4>2, <4>3, <4>4
      <3> QED BY <3>1, <3>2
    <2> QED BY <2>1, <2>2 DEF DevicesAccounted, RemovesDevice
  <1>10. RemovedWasInstalled'
    <2>1. \A d \in DOMAIN world'.agents : InstalledAgent(d)'
      BY <1>3, <1>7, <1>8 DEF Accounts, RemovedWasInstalled
    <2> QED BY <1>2, <1>6, <1>7, <2>1 DEF Accounts, RemovedWasInstalled
  <1>11. ClaimsAccounted'
    <2> SUFFICES ASSUME NEW g \in world'.claims
                 PROVE  \E q \in DOMAIN asked :
                          /\ asked[q].kind = "zone-claim"
                          /\ <<asked[q].zone, asked[q].author>> = g
                          /\ Standing(q)'
      BY DEF ClaimsAccounted
    <2>1. g \in world.claims
      BY <1>3
    <2>2. PICK q \in DOMAIN asked : /\ asked[q].kind = "zone-claim"
                                    /\ <<asked[q].zone, asked[q].author>> = g
                                    /\ Standing(q)
      BY <2>1 DEF Accounts, ClaimsAccounted
    <2>3. q # p
      BY <1>3, <2>2 DEF k
    <2> QED BY <1>5, <2>2, <2>3
  <1>12. RemovalsStand'
    <2> SUFFICES ASSUME OnceReverted', NEW q \in DOMAIN asked, Standing(q)'
                 PROVE  /\ asked[q].kind = "remove-devices" =>
                             /\ asked[q].dev \notin DOMAIN world'.devices
                             /\ \A o \in DOMAIN asked :
                                  Standing(o)' /\ RemovesDevice(o, asked[q].dev) => o = q
                        /\ asked[q].kind = "remove-agents" =>
                             /\ asked[q].agent \notin DOMAIN world'.agents
                             /\ \A o \in DOMAIN asked :
                                  Standing(o)' /\ RemovesAgent(o, asked[q].agent) => o = q
      BY DEF RemovalsStand, RemovesDevice, RemovesAgent
    <2>1. OnceReverted /\ log.revert[p] = 0
      BY <1>1, <1>2, <1>4 DEF OnceReverted
    <2>2. Standing(p) /\ Standing(q) /\ q # p
      BY <1>2, <1>5, <2>1 DEF Standing
    <2>3. CASE asked[q].kind = "remove-devices"
      <3>1. /\ asked[q].dev \notin DOMAIN world.devices
            /\ \A o \in DOMAIN asked :
                 Standing(o) /\ RemovesDevice(o, asked[q].dev) => o = q
        BY <2>1, <2>2, <2>3 DEF Accounts, RemovalsStand
      <3>2. ~RemovesDevice(p, asked[q].dev)
        BY <2>2, <3>1
      <3>3. asked[q].dev \notin DOMAIN world'.devices
        BY <1>3, <3>1, <3>2 DEF RemovesDevice, k, dev
      <3> QED BY <1>5, <2>3, <3>1, <3>3
    <2>4. CASE asked[q].kind = "remove-agents"
      <3>1. /\ asked[q].agent \notin DOMAIN world.agents
            /\ \A o \in DOMAIN asked :
                 Standing(o) /\ RemovesAgent(o, asked[q].agent) => o = q
        BY <2>1, <2>2, <2>4 DEF Accounts, RemovalsStand
      <3>2. ~RemovesAgent(p, asked[q].agent)
        BY <2>2, <3>1
      <3>3. asked[q].agent \notin DOMAIN world'.agents
        BY <1>3, <3>1, <3>2 DEF RemovesAgent, k, agent
      <3> QED BY <1>5, <2>4, <3>1, <3>3
    <2> QED BY <2>3, <2>4
  <1> QED BY <1>2, <1>3, <1>9, <1>10, <1>11, <1>12 DEF Accounts

\* Neither an edit of the owner nor a new request upsets the accounts.
LEMMA EditKeepsAccounts ==
    ASSUME Shape, Accounts, OwnerEdit
    PROVE  Accounts'
  <1>1. /\ log'.apply = log.apply /\ log'.revert = log.revert
        /\ log.edited \subseteq log'.edited
        /\ world'.claims = world.claims
        /\ DOMAIN world'.devices \subseteq DOMAIN world.devices
        /\ DOMAIN world'.agents \subseteq DOMAIN world.agents
        /\ \A d \in DOMAIN world.devices \ DOMAIN world'.devices :
             <<"device", d>> \in log'.edited
    BY EditEffect
  <1>2. asked' = asked
    BY DEF OwnerEdit
  <1>3. /\ \A q : Standing(q)' <=> Standing(q)
        /\ \A d : InstalledDevice(d)' <=> InstalledDevice(d)
        /\ \A a : InstalledAgent(a)' <=> InstalledAgent(a)
        /\ OnceReverted' <=> OnceReverted
    BY <1>1, <1>2 DEF Standing, InstalledDevice, InstalledAgent, OnceReverted
  <1>4. DevicesAccounted'
    BY <1>1, <1>2, <1>3 DEF Accounts, DevicesAccounted, RemovesDevice
  <1>5. RemovedWasInstalled'
    BY <1>1, <1>2, <1>3 DEF Accounts, RemovedWasInstalled
  <1>6. ClaimsAccounted'
    BY <1>1, <1>2, <1>3 DEF Accounts, ClaimsAccounted
  <1>7. RemovalsStand'
    BY <1>1, <1>2, <1>3 DEF Accounts, RemovalsStand, RemovesDevice, RemovesAgent
  <1> QED BY <1>4, <1>5, <1>6, <1>7 DEF Accounts

LEMMA RequestKeepsAccounts ==
    ASSUME Shape, Accounts, NEW pl, Len(asked) < MaxProposals,
           log.apply[Len(asked) + 1] = 0,
           asked' = Append(asked, pl), UNCHANGED <<world, log>>
    PROVE  Accounts'
  <1> DEFINE n == Len(asked) + 1
  <1>1. /\ DOMAIN asked' = DOMAIN asked \cup {n} /\ n \notin DOMAIN asked
        /\ \A q \in DOMAIN asked : asked'[q] = asked[q]
        /\ n \in Proposals /\ n \notin BaseDevices /\ n \notin BaseAgents
    BY ProposalAssumption DEF Shape, Proposals
  <1>2. ~Standing(n) /\ log.apply[n] = 0
    BY DEF Standing
  <1> HIDE DEF n
  <1>3. /\ \A q : Standing(q)' <=> Standing(q)
        /\ OnceReverted' <=> OnceReverted
    BY DEF Standing, OnceReverted
  <1>4. \A d : InstalledDevice(d)' <=> InstalledDevice(d)
    BY <1>1, <1>2 DEF InstalledDevice
  <1>5. \A d : InstalledAgent(d)' <=> InstalledAgent(d)
    BY <1>1, <1>2 DEF InstalledAgent
  <1>6. ~InstalledDevice(n)
    BY <1>1, <1>2 DEF InstalledDevice
  <1>7. DevicesAccounted'
    BY <1>1, <1>2, <1>3, <1>4, <1>6 DEF Accounts, DevicesAccounted, RemovesDevice
  <1>8. RemovedWasInstalled'
    BY <1>1, <1>2, <1>4, <1>5 DEF Accounts, RemovedWasInstalled
  <1>9. ClaimsAccounted'
    BY <1>1, <1>3 DEF Accounts, ClaimsAccounted
  <1>10. RemovalsStand'
    BY <1>1, <1>2, <1>3 DEF Accounts, RemovalsStand, RemovesDevice, RemovesAgent
  <1> QED BY <1>7, <1>8, <1>9, <1>10 DEF Accounts

----------------------------------------------------------------------------
(* The rows *)

\* What the invariant says of one row and its entries.
Row1(p) ==
    /\ row[p].status \in {"applied", "reverted"} => log.apply[p] = 1
    /\ row[p].status = "applied"  => log.revert[p] <= crashes
    /\ row[p].status = "reverted" => log.revert[p] \in 1..(1 + crashes)
    /\ row[p].status \notin {"applied", "reverted"} => log.revert[p] = 0
    /\ row[p].status = "approved" => log.apply[p] <= crashes
    /\ row[p].status \notin {"applied", "reverted", "approved"} => log.apply[p] = 0
    /\ row[p].forced /\ row[p].status \in {"applied", "reverted"} => row[p].by = "owner"
    /\ p \in DOMAIN asked /\ row[p].status = "applied" =>
         /\ asked[p].kind = "remove-devices" =>
              DOMAIN row[p].devices = {asked[p].dev} /\ DOMAIN row[p].agents = {}
         /\ asked[p].kind = "remove-agents" =>
              DOMAIN row[p].agents = {asked[p].agent} /\ DOMAIN row[p].devices = {}

Rows == AuditTrail /\ OwnersVerdict /\ Saved

LEMMA RowsAre == ASSUME Shape PROVE Rows <=> \A p \in Proposals : Row1(p)
  <1>1. DOMAIN asked \subseteq Proposals
    BY AskedIds
  <1> QED BY <1>1 DEF Rows, AuditTrail, OwnersVerdict, Saved, Row1

\* A step that touches the row and the entries of one proposal.
LEMMA OneRow ==
    ASSUME Shape, Shape', Rows, NEW p \in Proposals, Row1(p)',
           \A q \in Proposals \ {p} :
              /\ row'[q] = row[q]
              /\ log'.apply[q] = log.apply[q] /\ log'.revert[q] = log.revert[q],
           asked' = asked, crashes' >= crashes
    PROVE  Rows'
  <1>1. \A q \in Proposals : Row1(q)
    BY RowsAre
  <1>2. crashes \in Nat /\ crashes' \in Nat /\ log \in Log
    BY ProposalAssumption DEF Shape
  <1>3. ASSUME NEW q \in Proposals \ {p} PROVE Row1(q)'
    <2>1. Row1(q) /\ row'[q] = row[q] /\ log'.apply[q] = log.apply[q]
          /\ log'.revert[q] = log.revert[q] /\ log.apply[q] \in Nat /\ log.revert[q] \in Nat
      BY <1>1, <1>2, <1>3 DEF Log
    <2> QED BY <1>2, <2>1 DEF Row1
  <1>4. \A q \in Proposals : Row1(q)'
    BY <1>3
  <1>5. (Rows <=> \A q \in Proposals : Row1(q))'
    <2>1. Shape'
      OBVIOUS
    <2>2. DOMAIN asked' \subseteq Proposals
      BY AskedIds
    <2> QED BY <2>2 DEF Rows, AuditTrail, OwnersVerdict, Saved, Row1
  <1> QED BY <1>4, <1>5

\* Nothing happens to the rows or the log.
LEMMA NoRowMoves ==
    ASSUME Shape, Rows, UNCHANGED <<row, log, asked>>, crashes' \in Nat, crashes' >= crashes
    PROVE  Rows'
  <1>1. \A q \in Proposals : Row1(q)
    BY RowsAre
  <1>2. crashes \in Nat /\ log \in Log /\ DOMAIN asked \subseteq Proposals
    BY ProposalAssumption, AskedIds DEF Shape
  <1>3. \A q \in Proposals : log.apply[q] \in Nat /\ log.revert[q] \in Nat
    BY <1>2 DEF Log
  <1>4. \A q \in Proposals : Row1(q)'
    BY <1>1, <1>2, <1>3 DEF Row1
  <1> QED BY <1>2, <1>4 DEF Rows, AuditTrail, OwnersVerdict, Saved, Row1

Moved(p) == \A q \in Proposals \ {p} : row'[q] = row[q]

\* A proposal that has not entered the world gets another status.
LEMMA FinishRow ==
    ASSUME Shape, Rows, NEW p \in Proposals,
           row[p].status \notin {"applied", "reverted", "approved"},
           NEW s \in Statuses \ {"applied", "reverted"}, NEW f \in BOOLEAN,
           NEW b \in {row[p].by, "owner"},
           row' = [row EXCEPT ![p] = [row[p] EXCEPT !.status = s, !.forced = f, !.by = b]],
           UNCHANGED <<log, asked>>, crashes' \in Nat
    PROVE  /\ row' \in [Proposals -> Row] /\ Moved(p) /\ Row1(p)'
           /\ row'[p].status = s /\ row'[p].forced = f
  <1>1. row[p] \in Row /\ Row1(p)
    BY RowsAre DEF Shape
  <1> DEFINE r == [row[p] EXCEPT !.status = s, !.forced = f, !.by = b]
  <1>2. r \in Row /\ r.status = s /\ r.forced = f
    BY <1>1 DEF Row
  <1>3. row' = [row EXCEPT ![p] = r]
    OBVIOUS
  <1> HIDE DEF r
  <1>4. row' \in [Proposals -> Row] /\ Moved(p) /\ row'[p] = r
    BY <1>2, <1>3 DEF Shape, Moved
  <1>5. log.apply[p] = 0 /\ log.revert[p] = 0
    BY <1>1 DEF Row1
  <1> QED BY <1>2, <1>4, <1>5 DEF Row1

\* apply() succeeds.
LEMMA AppliedRow ==
    ASSUME Shape, Rows, NEW p \in DOMAIN asked,
           row[p].status \notin {"applied", "reverted", "approved"},
           NEW by \in {"zone-claim", "ai", "owner"}, row[p].forced => by = "owner",
           Passes(asked[p], world.zones),
           row' = [row EXCEPT ![p] = [row[p] EXCEPT !.by = by, !.status = "applied",
                                        !.devices = Only(world.devices, asked[p].dev),
                                        !.agents = Only(world.agents, asked[p].agent)]],
           log' = [log EXCEPT !.apply[p] = @ + 1], asked' = asked, crashes' = crashes
    PROVE  /\ row' \in [Proposals -> Row] /\ Moved(p) /\ Row1(p)'
           /\ row'[p].status = "applied"
  <1>0. p \in Proposals /\ world \in World /\ log \in Log /\ crashes \in Nat
    BY AskedIds, ProposalAssumption DEF Shape
  <1>1. row[p] \in Row /\ Row1(p)
    BY <1>0, RowsAre DEF Shape
  <1> DEFINE D == Only(world.devices, asked[p].dev)
             A == Only(world.agents, asked[p].agent)
             r == [row[p] EXCEPT !.by = by, !.status = "applied", !.devices = D, !.agents = A]
  <1>2. D \in Table(DeviceIds, Zones) /\ A \in Table(AgentIds, Agent)
    BY <1>0, WorldParts, OnlyTable
  <1>3. DOMAIN D = DOMAIN world.devices \cap {asked[p].dev}
        /\ DOMAIN A = DOMAIN world.agents \cap {asked[p].agent}
    BY OnlyDomain
  <1>4. row' = [row EXCEPT ![p] = r]
    OBVIOUS
  <1> HIDE DEF D, A
  <1>5. /\ r \in Row /\ r.status = "applied" /\ r.forced = row[p].forced /\ r.by = by
        /\ r.devices = D /\ r.agents = A
    BY <1>1, <1>2 DEF Row, Statuses
  <1> HIDE DEF r
  <1>6. row' \in [Proposals -> Row] /\ Moved(p) /\ row'[p] = r
    BY <1>0, <1>4, <1>5 DEF Shape, Moved
  <1>7. log.apply[p] = 0 /\ log.revert[p] = 0
    BY <1>1 DEF Row1
  <1>8. log'.apply[p] = 1 /\ log'.revert[p] = 0
    BY <1>0, <1>7, LoggedApply
  <1>9. /\ asked[p].kind = "remove-devices" => DOMAIN D = {asked[p].dev} /\ DOMAIN A = {}
        /\ asked[p].kind = "remove-agents" => DOMAIN A = {asked[p].agent} /\ DOMAIN D = {}
    <2>1. None \notin DOMAIN world.devices /\ None \notin DOMAIN world.agents
      BY <1>0, WorldParts, ProposalAssumption
    <2>2. /\ asked[p].kind = "remove-devices" =>
               asked[p].dev \in DOMAIN world.devices /\ asked[p].agent = None
          /\ asked[p].kind = "remove-agents" =>
               asked[p].agent \in DOMAIN world.agents /\ asked[p].dev = None
      BY WrittenEffect
    <2> QED BY <1>3, <2>1, <2>2
  <1>10. /\ row'[p].status = "applied" /\ row'[p].forced = row[p].forced
         /\ row'[p].by = by /\ row'[p].devices = D /\ row'[p].agents = A
    BY <1>5, <1>6
  <1>11. row'[p].forced => row'[p].by = "owner"
    BY <1>10
  <1>12. Row1(p)'
    BY <1>0, <1>8, <1>9, <1>10, <1>11 DEF Row1
  <1> QED BY <1>6, <1>10, <1>12

\* revert() succeeds.
LEMMA RevertedRow ==
    ASSUME Shape, Rows, NEW p \in Proposals, row[p].status = "applied",
           row' = [row EXCEPT ![p].status = "reverted"],
           log' = [log EXCEPT !.revert[p] = @ + 1], asked' = asked, crashes' = crashes
    PROVE  row' \in [Proposals -> Row] /\ Moved(p) /\ Row1(p)' /\ row'[p].status = "reverted"
  <1>0. log \in Log /\ crashes \in Nat
    BY ProposalAssumption DEF Shape
  <1>1. row[p] \in Row /\ Row1(p)
    BY RowsAre DEF Shape
  <1> DEFINE r == [row[p] EXCEPT !.status = "reverted"]
  <1>2. r \in Row /\ r.status = "reverted" /\ r.forced = row[p].forced /\ r.by = row[p].by
    BY <1>1 DEF Row, Statuses
  <1>3. row' = [row EXCEPT ![p] = r]
    OBVIOUS
  <1> HIDE DEF r
  <1>4. row' \in [Proposals -> Row] /\ Moved(p) /\ row'[p] = r
    BY <1>2, <1>3 DEF Shape, Moved
  <1>5. /\ log'.apply[p] = 1 /\ log'.revert[p] = log.revert[p] + 1
        /\ log.revert[p] <= crashes /\ log.revert[p] \in Nat
    BY <1>0, <1>1, LoggedRevert DEF Row1, Log
  <1> QED BY <1>0, <1>1, <1>2, <1>4, <1>5 DEF Row1

----------------------------------------------------------------------------
(* The chain *)

LEMMA HeadOfChain ==
    ASSUME Shape, queue # << >>
    PROVE  /\ Head(queue) = queue[1] /\ Head(queue) \in Request
           /\ Head(queue).id \in DOMAIN asked /\ Head(queue).id \in Proposals
           /\ Head(queue).zones \in Table(Zones, Classes)
           /\ 1 \in DOMAIN queue
  <1>1. Head(queue) = queue[1] /\ 1 \in DOMAIN queue /\ queue[1] \in Request
    BY DEF Shape
  <1> QED BY <1>1 DEF Shape, Request

LEMMA TailOfChain ==
    ASSUME Shape, queue # << >>
    PROVE  /\ Tail(queue) \in Seq(Request)
           /\ \A k \in DOMAIN Tail(queue) :
                k + 1 \in DOMAIN queue /\ Tail(queue)[k] = queue[k + 1] /\ k \in Nat /\ k >= 1
           /\ \A k \in DOMAIN Tail(queue) : Tail(queue)[k].id \in DOMAIN asked
  <1>1. /\ Tail(queue) \in Seq(Request)
        /\ \A k \in DOMAIN Tail(queue) :
             k + 1 \in DOMAIN queue /\ Tail(queue)[k] = queue[k + 1] /\ k \in Nat /\ k >= 1
    BY DEF Shape
  <1> QED BY <1>1 DEF Shape

\* The head leaves the chain with a status.
LEMMA ChainAdvances ==
    ASSUME Shape, Chain, queue # << >>, Moved(Head(queue).id),
           row'[Head(queue).id].status # None,
           queue' = Tail(queue), review' = "idle", asked' = asked
    PROVE  Chain'
  <1> DEFINE p == Head(queue).id
             t == Tail(queue)
  <1>1. p = queue[1].id /\ p \in DOMAIN asked /\ p \in Proposals /\ 1 \in DOMAIN queue
    BY HeadOfChain
  <1>2. \A k \in DOMAIN t :
           k + 1 \in DOMAIN queue /\ t[k] = queue[k + 1] /\ k \in Nat /\ k >= 1
    BY TailOfChain
  <1>3. \A k \in DOMAIN queue : queue[k].id \in Proposals
    BY AskedIds DEF Shape
  <1>4. \A k \in DOMAIN t : t[k].id # p /\ t[k].id \in Proposals
    BY <1>1, <1>2, <1>3 DEF Chain
  <1>5. \A k \in DOMAIN t : row[t[k].id].status = None
    BY <1>2 DEF Chain
  <1>6. \A q \in Proposals \ {p} : row'[q] = row[q]
    BY DEF Moved
  <1>7. row'[p].status # None /\ queue' = t
    OBVIOUS
  <1>8. t # << >> => 1 \in DOMAIN t
    BY TailOfChain
  <1>9. DOMAIN asked \subseteq Proposals
    BY AskedIds
  <1> HIDE DEF p, t
  <1>10. \A j, k \in DOMAIN t : t[j].id = t[k].id => j = k
    <2> SUFFICES ASSUME NEW j \in DOMAIN t, NEW k \in DOMAIN t, t[j].id = t[k].id PROVE j = k
      OBVIOUS
    <2>1. j + 1 = k + 1
      BY <1>2 DEF Chain
    <2> QED BY <1>2, <2>1
  <1>11. \A k \in DOMAIN t : row'[t[k].id].status = None
    BY <1>4, <1>5, <1>6
  <1>12. \A q \in Proposals : row'[q].status = None => ~row'[q].forced
    BY <1>6, <1>7 DEF Chain
  <1>13. \A q \in Proposals : q \notin DOMAIN asked => row'[q].status = None
    BY <1>1, <1>6 DEF Chain
  <1> QED BY <1>7, <1>8, <1>10, <1>11, <1>12, <1>13 DEF Chain

\* The head waits for the reviewer.
LEMMA ChainAwaits ==
    ASSUME Shape, Chain, queue # << >>, Moved(Head(queue).id),
           row'[Head(queue).id].status = "ai_review", review' \in {"advice", "verdict"},
           review' = "verdict" => ~row'[Head(queue).id].forced,
           queue' = queue, asked' = asked
    PROVE  Chain'
  <1> DEFINE p == Head(queue).id
  <1>1. p = queue[1].id /\ p \in DOMAIN asked /\ p \in Proposals /\ 1 \in DOMAIN queue
    BY HeadOfChain
  <1>2. \A k \in DOMAIN queue : queue[k].id \in Proposals
    BY AskedIds DEF Shape
  <1>3. \A q \in Proposals \ {p} : row'[q] = row[q]
    BY DEF Moved
  <1>4. row'[p].status = "ai_review" /\ (review' = "verdict" => ~row'[p].forced)
    OBVIOUS
  <1>5. "ai_review" # None
    BY ProposalAssumption DEF Statuses
  <1> HIDE DEF p
  <1>6. \A k \in DOMAIN queue : k > 1 => queue[k].id # p
    BY <1>1 DEF Chain, Shape
  <1>7. \A k \in DOMAIN queue : k > 1 => row'[queue[k].id].status = None
    BY <1>2, <1>3, <1>6 DEF Chain
  <1>8. \A q \in Proposals : row'[q].status = None => ~row'[q].forced
    BY <1>3, <1>4, <1>5 DEF Chain
  <1>9. \A q \in Proposals : q \notin DOMAIN asked => row'[q].status = None
    BY <1>1, <1>3 DEF Chain
  <1> QED BY <1>1, <1>4, <1>7, <1>8, <1>9 DEF Chain

\* A proposal that has left the chain moves on.
LEMMA ChainAside ==
    ASSUME Shape, Chain, NEW p \in DOMAIN asked, row[p].status \notin {None, "ai_review"},
           Moved(p), row'[p].status # None, UNCHANGED <<queue, review, asked>>
    PROVE  Chain'
  <1>1. \A q \in Proposals \ {p} : row'[q] = row[q]
    BY DEF Moved
  <1>2. DOMAIN asked \subseteq Proposals /\ \A k \in DOMAIN queue : queue[k].id \in Proposals
    BY AskedIds DEF Shape
  <1>3. \A k \in DOMAIN queue : k > 1 => queue[k].id # p
    BY DEF Chain
  <1>4. queue # << >> => 1 \in DOMAIN queue /\ queue[1].id # p
    <2>1. review \in {"idle", "verdict", "advice"}
      BY DEF Shape
    <2> QED BY <2>1, HeadOfChain DEF Chain
  <1>5. \A k \in DOMAIN queue : k > 1 => row'[queue[k].id].status = None
    BY <1>1, <1>2, <1>3 DEF Chain
  <1>6. queue # << >> => row'[queue[1].id] = row[queue[1].id]
    BY <1>1, <1>2, <1>4
  <1>7. \A q \in Proposals : row'[q].status = None => ~row'[q].forced
    BY <1>1 DEF Chain
  <1>8. \A q \in Proposals : q \notin DOMAIN asked => row'[q].status = None
    BY <1>1 DEF Chain
  <1>9. review # "idle" => queue # << >>
    BY DEF Chain
  <1> QED BY <1>5, <1>6, <1>7, <1>8, <1>9 DEF Chain, Shape

\* The process died: the chain is gone.
LEMMA ChainCut ==
    ASSUME Shape, Chain, queue' = << >>, review' = "idle", asked' = asked,
           \A q \in Proposals : row'[q] = row[q] \/ (q \in DOMAIN asked /\ row'[q].status # None)
    PROVE  Chain'
  BY DEF Chain

----------------------------------------------------------------------------
(* The steps *)

\* What the actions write into a row, in one form.
LEMMA RowForms ==
    ASSUME Shape, NEW p \in Proposals, NEW s, NEW f \in BOOLEAN
    PROVE  /\ Finish(p, s, f) =>
                row' = [row EXCEPT ![p] = [row[p] EXCEPT !.status = s, !.forced = f,
                                                         !.by = row[p].by]]
           /\ row' = [row EXCEPT ![p].status = s] =>
                row' = [row EXCEPT ![p] = [row[p] EXCEPT !.status = s,
                                                         !.forced = row[p].forced,
                                                         !.by = row[p].by]]
           /\ row' = [row EXCEPT ![p].status = s, ![p].by = "owner"] =>
                row' = [row EXCEPT ![p] = [row[p] EXCEPT !.status = s,
                                                         !.forced = row[p].forced,
                                                         !.by = "owner"]]
  <1>1. row[p] \in Row /\ row \in [Proposals -> Row]
    BY DEF Shape
  <1>2. ASSUME Finish(p, s, f)
        PROVE  row' = [row EXCEPT ![p] = [row[p] EXCEPT !.status = s, !.forced = f,
                                                        !.by = row[p].by]]
    <2>1. row' = [row EXCEPT ![p] = [row[p] EXCEPT !.status = s, !.forced = f]]
      BY <1>1, <1>2 DEF Finish
    <2>2. [row[p] EXCEPT !.status = s, !.forced = f]
            = [row[p] EXCEPT !.status = s, !.forced = f, !.by = row[p].by]
      BY <1>1 DEF Row
    <2> QED BY <2>1, <2>2
  <1>3. [row[p] EXCEPT !.status = s]
          = [row[p] EXCEPT !.status = s, !.forced = row[p].forced, !.by = row[p].by]
    BY <1>1 DEF Row
  <1>4. ASSUME row' = [row EXCEPT ![p].status = s, ![p].by = "owner"]
        PROVE  row' = [row EXCEPT ![p] = [row[p] EXCEPT !.status = s,
                                                        !.forced = row[p].forced,
                                                        !.by = "owner"]]
    <2>1. row' = [row EXCEPT ![p] = [row[p] EXCEPT !.status = s, !.by = "owner"]]
      BY <1>1, <1>4
    <2>2. [row[p] EXCEPT !.status = s, !.by = "owner"]
            = [row[p] EXCEPT !.status = s, !.forced = row[p].forced, !.by = "owner"]
      BY <1>1 DEF Row
    <2> QED BY <2>1, <2>2
  <1> QED BY <1>2, <1>3, <1>4

\* The chain after a step is the chain before it, its tail, or empty.
ChainStays ==
    queue' = queue \/ (queue # << >> /\ queue' = Tail(queue)) \/ queue' = << >>

LEMMA ChainShape ==
    ASSUME Shape, ChainStays, asked' = asked
    PROVE  queue' \in Seq(Request) /\ \A k \in DOMAIN queue' : queue'[k].id \in DOMAIN asked
  <1>1. CASE queue' = queue
    BY <1>1 DEF Shape
  <1>2. CASE queue # << >> /\ queue' = Tail(queue)
    BY <1>2, TailOfChain
  <1>3. CASE queue' = << >>
    BY <1>3
  <1> QED BY <1>1, <1>2, <1>3 DEF ChainStays

\* The world and the log stay as they are.
LEMMA AccountsStay ==
    ASSUME Accounts, UNCHANGED <<world, log, asked>>
    PROVE  Accounts'
  BY DEF Accounts, DevicesAccounted, RemovedWasInstalled, ClaimsAccounted, RemovalsStand,
     InstalledDevice, InstalledAgent, Standing, RemovesDevice, RemovesAgent, OnceReverted

LEMMA Finishes ==
    ASSUME IInv, NEW p \in DOMAIN asked,
           row[p].status \notin {"applied", "reverted", "approved"},
           NEW s \in Statuses \ {"applied", "reverted"}, NEW f \in BOOLEAN,
           NEW b \in {row[p].by, "owner"},
           row' = [row EXCEPT ![p] = [row[p] EXCEPT !.status = s, !.forced = f, !.by = b]],
           UNCHANGED <<world, log, asked>>,
           crashes' \in 0..MaxCrashes, crashes' >= crashes,
           ChainStays, review' \in {"idle", "verdict", "advice"}
    PROVE  /\ Shape' /\ Rows' /\ Accounts' /\ Moved(p)
           /\ row'[p].status = s /\ row'[p].forced = f
  <1>1. p \in Proposals /\ Shape /\ Rows /\ Accounts
    BY AskedIds DEF IInv, Rows
  <1>2. crashes' \in Nat
    BY ProposalAssumption
  <1>4. /\ row' \in [Proposals -> Row] /\ Moved(p) /\ Row1(p)'
        /\ row'[p].status = s /\ row'[p].forced = f
    BY <1>1, <1>2, FinishRow
  <1>5. queue' \in Seq(Request) /\ \A k \in DOMAIN queue' : queue'[k].id \in DOMAIN asked
    BY <1>1, ChainShape
  <1>6. Shape'
    BY <1>1, <1>4, <1>5 DEF Shape
  <1>7. Rows'
    BY <1>1, <1>4, <1>6, OneRow DEF Moved
  <1> QED BY <1>1, <1>4, <1>6, <1>7, AccountsStay

LEMMA Lands ==
    ASSUME IInv, NEW p \in DOMAIN asked, NEW by \in {"zone-claim", "ai", "owner"},
           row[p].status \notin {"applied", "reverted", "approved"},
           row[p].forced => by = "owner",
           Land(p, by), UNCHANGED <<asked, crashes>>,
           ChainStays, review' \in {"idle", "verdict", "advice"}
    PROVE  /\ Shape' /\ Rows' /\ Accounts' /\ Moved(p)
           /\ row'[p].status \in {"applied", "rejected"}
  <1>1. p \in Proposals /\ Shape /\ Rows /\ Accounts
    BY AskedIds DEF IInv, Rows
  <1>2. row[p] \in Row /\ Row1(p)
    BY <1>1, RowsAre DEF Shape
  <1>3. queue' \in Seq(Request) /\ \A k \in DOMAIN queue' : queue'[k].id \in DOMAIN asked
    BY <1>1, ChainShape
  <1>4. crashes \in Nat /\ world \in World /\ log \in Log
    BY <1>1, ProposalAssumption DEF Shape
  <1>5. CASE /\ row' = [row EXCEPT ![p] = [[row[p] EXCEPT !.by = by] EXCEPT !.status = "rejected"]]
             /\ UNCHANGED <<world, log>>
    <2> DEFINE r == [row[p] EXCEPT !.by = by, !.status = "rejected"]
    <2>1. r \in Row /\ r.status = "rejected"
      BY <1>2 DEF Row, Statuses
    <2>2. row' = [row EXCEPT ![p] = r]
      BY <1>5
    <2> HIDE DEF r
    <2>3. row' \in [Proposals -> Row] /\ Moved(p) /\ row'[p] = r
      BY <1>1, <2>1, <2>2 DEF Shape, Moved
    <2>4. Row1(p)'
      BY <1>2, <1>5, <2>1, <2>3 DEF Row1
    <2>5. Shape'
      BY <1>1, <1>3, <1>5, <2>3 DEF Shape
    <2>6. Rows'
      BY <1>1, <1>4, <1>5, <2>3, <2>4, <2>5, OneRow DEF Moved
    <2>7. Accounts'
      BY <1>1, <1>5, AccountsStay
    <2> QED BY <2>1, <2>3, <2>5, <2>6, <2>7
  <1>6. CASE /\ Applies(p)
             /\ row' = [row EXCEPT ![p] = [row[p] EXCEPT !.by = by, !.status = "applied",
                                             !.devices = Only(world.devices, asked[p].dev),
                                             !.agents = Only(world.agents, asked[p].agent)]]
    <2>1. /\ row' \in [Proposals -> Row] /\ Moved(p) /\ Row1(p)'
          /\ row'[p].status = "applied"
      BY <1>1, <1>6, AppliedRow DEF Applies
    <2>2. log.apply[p] = 0 /\ log.revert[p] = 0
      BY <1>2 DEF Row1
    <2>3. Accounts' /\ world' \in World /\ log' \in Log
      BY <1>1, <1>6, <2>2, ApplyKeepsAccounts
    <2>4. Shape'
      BY <1>1, <1>3, <2>1, <2>3 DEF Shape
    <2>5. log'.revert = log.revert /\ \A q \in Proposals \ {p} : log'.apply[q] = log.apply[q]
      BY <1>1, <1>4, <1>6, LoggedApply DEF Applies
    <2>6. Rows'
      BY <1>1, <1>4, <2>1, <2>4, <2>5, OneRow DEF Moved
    <2> QED BY <2>1, <2>3, <2>4, <2>6
  <1> QED BY <1>5, <1>6 DEF Land, Applies

----------------------------------------------------------------------------
(* The actions *)

LEMMA IInvOf ==
    ASSUME Shape', Chain', Rows', Accounts' PROVE IInv'
  BY DEF IInv, Rows

LEMMA SubmitStep == ASSUME IInv, Submit PROVE IInv'
  <1> DEFINE n == Len(asked) + 1
             r == [id |-> n, zones |-> world.zones]
  <1>1. PICK pl \in Menu[n] : asked' = Append(asked, pl)
    BY DEF Submit
  <1>2. /\ Shape /\ Chain /\ Rows /\ Accounts
        /\ queue' = Append(queue, r) /\ Len(asked) < MaxProposals
        /\ UNCHANGED <<world, row, review, log, crashes>>
    BY DEF IInv, Rows, Submit
  <1>3. n \in Proposals /\ n \notin DOMAIN asked /\ Len(asked) \in Nat
    BY <1>2, ProposalAssumption DEF Shape, Proposals
  <1>4. pl \in Payload
    BY <1>3, ProposalAssumption
  <1>5. /\ asked' \in Seq(Payload) /\ Len(asked') = n /\ DOMAIN asked' = DOMAIN asked \cup {n}
        /\ asked'[n] = pl /\ \A q \in DOMAIN asked : asked'[q] = asked[q]
    BY <1>1, <1>2, <1>4 DEF Shape
  <1>6. r \in Request
    BY <1>2, <1>3, WorldParts DEF Request, Shape
  <1>7. /\ queue' \in Seq(Request) /\ DOMAIN queue' = DOMAIN queue \cup {Len(queue) + 1}
        /\ queue'[Len(queue) + 1].id = n /\ \A k \in DOMAIN queue : queue'[k] = queue[k]
        /\ DOMAIN queue = 1..Len(queue) /\ Len(queue) \in Nat
    BY <1>2, <1>6 DEF Shape
  <1>8. row[n].status = None /\ log.apply[n] = 0
    <2>1. row[n].status = None
      BY <1>2, <1>3 DEF Chain
    <2> QED BY <1>2, <1>3, <2>1, ProposalAssumption DEF Rows, AuditTrail, Statuses
  <1>9. Accounts'
    BY <1>1, <1>2, <1>8, RequestKeepsAccounts
  <1> HIDE DEF n, r
  <1>10. Shape'
    <2>1. Len(asked') <= MaxProposals /\ \A q \in DOMAIN asked' : asked'[q] \in Menu[q]
      BY <1>1, <1>2, <1>3, <1>5, ProposalAssumption DEF Shape, n
    <2>2. \A k \in DOMAIN queue' : queue'[k].id \in DOMAIN asked'
      BY <1>2, <1>5, <1>7 DEF Shape
    <2> QED BY <1>2, <1>5, <1>7, <2>1, <2>2 DEF Shape
  <1>11. Chain'
    <2>1. \A k \in DOMAIN queue : queue[k].id # n
      BY <1>2, <1>3 DEF Shape
    <2>2. \A j, k \in DOMAIN queue' : queue'[j].id = queue'[k].id => j = k
      BY <1>2, <1>7, <2>1 DEF Chain
    <2>3. \A k \in DOMAIN queue' : k > 1 => row'[queue'[k].id].status = None
      BY <1>2, <1>7, <1>8 DEF Chain
    <2>4. CASE queue = << >>
      <3>1. queue'[1].id = n /\ review' = "idle"
        BY <1>2, <1>7, <2>4 DEF Chain
      <3> QED BY <1>2, <1>5, <1>8, <2>2, <2>3, <3>1 DEF Chain
    <2>5. CASE queue # << >>
      <3>1. queue'[1] = queue[1] /\ queue' # << >>
        BY <1>2, <1>7, <2>5, HeadOfChain
      <3> QED BY <1>2, <1>5, <2>2, <2>3, <2>5, <3>1 DEF Chain
    <2> QED BY <2>4, <2>5
  <1>12. Rows'
    <2>1. Saved'
      BY <1>2, <1>5, <1>8, ProposalAssumption DEF Rows, Saved, Statuses
    <2> QED BY <1>2, <2>1 DEF Rows, AuditTrail, OwnersVerdict
  <1> QED BY <1>9, <1>10, <1>11, <1>12, IInvOf

\* The head of the chain before and after its rule check.
LEMMA HeadRow ==
    ASSUME Shape, Chain, queue # << >>
    PROVE  /\ review = "idle" => row[Head(queue).id].status = None /\ ~row[Head(queue).id].forced
           /\ review # "idle" => row[Head(queue).id].status = "ai_review"
           /\ review = "verdict" => ~row[Head(queue).id].forced
           /\ row[Head(queue).id].status \notin {"applied", "reverted", "approved"}
  <1>1. Head(queue).id = queue[1].id /\ Head(queue).id \in Proposals
    BY HeadOfChain
  <1> QED BY <1>1, ProposalAssumption DEF Chain, Statuses

LEMMA JudgeStep == ASSUME IInv, Judge PROVE IInv'
  <1> DEFINE p == Head(queue).id
             zones == Head(queue).zones
             pl == asked[p]
             forced == Forced(pl, zones)
  <1>1. /\ Shape /\ Chain /\ queue # << >> /\ review = "idle"
        /\ UNCHANGED <<asked, crashes>> /\ crashes \in 0..MaxCrashes /\ crashes \in Nat
    BY ProposalAssumption DEF IInv, Judge, Shape
  <1>2. /\ p \in DOMAIN asked /\ p \in Proposals
        /\ row[p].status \notin {"applied", "reverted", "approved"} /\ ~row[p].forced
    BY <1>1, HeadOfChain, HeadRow
  <1>3. ASSUME NEW s \in {"rejected", "escalated", "ai_review"}, NEW f \in BOOLEAN, Finish(p, s, f),
               UNCHANGED <<world, log>>, ChainStays,
               review' \in {"idle", "verdict", "advice"}
        PROVE  /\ Shape' /\ Rows' /\ Accounts' /\ Moved(p)
               /\ row'[p].status = s /\ row'[p].forced = f /\ s # None
    <2>1. row' = [row EXCEPT ![p] = [row[p] EXCEPT !.status = s, !.forced = f, !.by = row[p].by]]
      <3> HIDE DEF p
      <3> QED BY <1>1, <1>2, <1>3, RowForms
    <2>2. s \in Statuses \ {"applied", "reverted"} /\ crashes' \in 0..MaxCrashes /\ crashes' >= crashes
      BY <1>1 DEF Statuses
    <2> HIDE DEF p
    <2> QED BY <1>1, <1>2, <1>3, <2>1, <2>2, Finishes, ProposalAssumption
  <1> HIDE DEF forced
  <1>4. CASE Finish(p, "rejected", FALSE) /\ queue' = Tail(queue) /\ UNCHANGED <<world, log, review>>
    <2>1. Shape' /\ Rows' /\ Accounts' /\ Moved(p) /\ row'[p].status # None
      BY <1>1, <1>3, <1>4 DEF ChainStays
    <2>2. Chain'
      BY <1>1, <1>4, <2>1, ChainAdvances
    <2> QED BY <2>1, <2>2, IInvOf
  <1>5. CASE Finish(p, "escalated", TRUE) /\ queue' = Tail(queue) /\ UNCHANGED <<world, log, review>>
    <2>1. Shape' /\ Rows' /\ Accounts' /\ Moved(p) /\ row'[p].status # None
      BY <1>1, <1>3, <1>5 DEF ChainStays
    <2>2. Chain'
      BY <1>1, <1>5, <2>1, ChainAdvances
    <2> QED BY <2>1, <2>2, IInvOf
  <1>6. CASE Finish(p, "ai_review", TRUE) /\ review' = "advice" /\ UNCHANGED <<world, log, queue>>
    <2>1. Shape' /\ Rows' /\ Accounts' /\ Moved(p) /\ row'[p].status = "ai_review"
      BY <1>1, <1>3, <1>6 DEF ChainStays
    <2>2. Chain'
      BY <1>1, <1>6, <2>1, ChainAwaits
    <2> QED BY <2>1, <2>2, IInvOf
  <1>7. CASE Land(p, "zone-claim") /\ queue' = Tail(queue) /\ UNCHANGED review
    <2>1. Shape' /\ Rows' /\ Accounts' /\ Moved(p) /\ row'[p].status \in {"applied", "rejected"}
      <3>1. ChainStays /\ review' \in {"idle", "verdict", "advice"}
        BY <1>1, <1>7 DEF ChainStays
      <3> HIDE DEF p
      <3> QED BY <1>1, <1>2, <1>7, <3>1, Lands
    <2>2. row'[p].status # None
      BY <2>1, ProposalAssumption DEF Statuses
    <2>3. Chain'
      BY <1>1, <1>7, <2>1, <2>2, ChainAdvances
    <2> QED BY <2>1, <2>3, IInvOf
  <1>8. CASE Finish(p, "ai_review", FALSE) /\ review' = "verdict" /\ UNCHANGED <<world, log, queue>>
    <2>1. /\ Shape' /\ Rows' /\ Accounts' /\ Moved(p)
          /\ row'[p].status = "ai_review" /\ ~row'[p].forced
      BY <1>1, <1>3, <1>8 DEF ChainStays
    <2>2. Chain'
      BY <1>1, <1>8, <2>1, ChainAwaits
    <2> QED BY <2>1, <2>2, IInvOf
  <1> QED BY <1>4, <1>5, <1>6, <1>7, <1>8 DEF Judge

LEMMA VerdictStep == ASSUME IInv, Verdict PROVE IInv'
  <1> DEFINE p == Head(queue).id
  <1>1. /\ Shape /\ Chain /\ review # "idle" /\ queue # << >>
        /\ queue' = Tail(queue) /\ review' = "idle"
        /\ UNCHANGED <<asked, crashes>> /\ crashes \in 0..MaxCrashes /\ crashes \in Nat
    BY ProposalAssumption DEF IInv, Verdict, Shape, Chain
  <1>2. /\ p \in DOMAIN asked /\ p \in Proposals
        /\ row[p].status \notin {"applied", "reverted", "approved"}
        /\ review = "verdict" => ~row[p].forced
    BY <1>1, HeadOfChain, HeadRow
  <1>3. ChainStays /\ review' \in {"idle", "verdict", "advice"}
    BY <1>1 DEF ChainStays
  <1>4. ASSUME NEW s \in {"rejected", "escalated"}, NEW f \in BOOLEAN, Finish(p, s, f),
               UNCHANGED <<world, log>>
        PROVE  IInv'
    <2>1. row' = [row EXCEPT ![p] = [row[p] EXCEPT !.status = s, !.forced = f, !.by = row[p].by]]
      <3> HIDE DEF p
      <3> QED BY <1>1, <1>2, <1>4, RowForms
    <2>2. s \in Statuses \ {"applied", "reverted"} /\ crashes' \in 0..MaxCrashes /\ crashes' >= crashes
          /\ s # None
      BY <1>1, ProposalAssumption DEF Statuses
    <2>3. Shape' /\ Rows' /\ Accounts' /\ Moved(p) /\ row'[p].status = s
      <3> HIDE DEF p
      <3> QED BY <1>1, <1>2, <1>3, <1>4, <2>1, <2>2, Finishes
    <2>4. Chain'
      BY <1>1, <2>2, <2>3, ChainAdvances
    <2> QED BY <2>3, <2>4, IInvOf
  <1>5. CASE review = "verdict" /\ Land(p, "ai")
    <2>1. Shape' /\ Rows' /\ Accounts' /\ Moved(p) /\ row'[p].status \in {"applied", "rejected"}
      <3> HIDE DEF p
      <3> QED BY <1>1, <1>2, <1>3, <1>5, Lands
    <2>2. row'[p].status # None
      BY <2>1, ProposalAssumption DEF Statuses
    <2>3. Chain'
      BY <1>1, <2>1, <2>2, ChainAdvances
    <2> QED BY <2>1, <2>3, IInvOf
  <1> QED BY <1>4, <1>5 DEF Verdict

\* Only a request has a row.
LEMMA RowWasAsked ==
    ASSUME IInv, NEW p \in Proposals, row[p].status # None
    PROVE  p \in DOMAIN asked
  BY DEF IInv, Chain

LEMMA DecideStep == ASSUME IInv, NEW p \in Proposals, Decide(p) PROVE IInv'
  <1>1. /\ Shape /\ Chain /\ row[p].status = "escalated" /\ row[p].status # None
        /\ UNCHANGED <<asked, queue, review, crashes>>
        /\ crashes \in 0..MaxCrashes /\ crashes \in Nat
    BY ProposalAssumption DEF IInv, Decide, Shape, Statuses
  <1>2. p \in DOMAIN asked /\ row[p] \in Row
    BY <1>1, RowWasAsked DEF Shape
  <1>3. ChainStays /\ review' \in {"idle", "verdict", "advice"}
    BY <1>1 DEF ChainStays, Shape
  <1>4. CASE /\ row' = [row EXCEPT ![p].status = "rejected", ![p].by = "owner"]
             /\ UNCHANGED <<world, log>>
    <2>0. PICK f \in BOOLEAN : f = row[p].forced
      BY <1>2 DEF Row
    <2>1. "rejected" \in Statuses \ {"applied", "reverted"} /\ "rejected" # None
      BY ProposalAssumption DEF Statuses
    <2>2. row' = [row EXCEPT ![p] = [row[p] EXCEPT !.status = "rejected", !.forced = f,
                                                   !.by = "owner"]]
      BY <1>1, <1>4, <2>0, <2>1, RowForms
    <2>3. UNCHANGED <<world, log, asked>> /\ crashes' \in 0..MaxCrashes /\ crashes' >= crashes
          /\ row[p].status \notin {"applied", "reverted", "approved"}
      BY <1>1, <1>4
    <2>4. Shape' /\ Rows' /\ Accounts' /\ Moved(p) /\ row'[p].status = "rejected"
      BY <1>2, <1>3, <2>1, <2>2, <2>3, Finishes
    <2>5. Chain'
      BY <1>1, <1>2, <2>1, <2>4, ChainAside
    <2> QED BY <2>4, <2>5, IInvOf
  <1>5. CASE Land(p, "owner")
    <2>1. Shape' /\ Rows' /\ Accounts' /\ Moved(p) /\ row'[p].status \in {"applied", "rejected"}
      BY <1>1, <1>2, <1>3, <1>5, Lands
    <2>2. row'[p].status # None
      BY <2>1, ProposalAssumption DEF Statuses
    <2>3. Chain'
      BY <1>1, <1>2, <2>1, <2>2, ChainAside
    <2> QED BY <2>1, <2>3, IInvOf
  <1> QED BY <1>4, <1>5 DEF Decide

LEMMA RevertStep == ASSUME IInv, NEW p \in Proposals, Revert(p) PROVE IInv'
  <1>1. /\ Shape /\ Chain /\ Rows /\ Accounts /\ Saved
        /\ row[p].status = "applied" /\ row[p].status # None /\ "reverted" # None
        /\ row' = [row EXCEPT ![p].status = "reverted"]
        /\ log' = [log EXCEPT !.revert[p] = @ + 1] /\ log \in Log
        /\ UNCHANGED <<asked, queue, review, crashes>> /\ Reverts(p)
        /\ crashes \in Nat
    BY ProposalAssumption DEF IInv, Rows, Revert, Reverts, Shape, Statuses
  <1>2. p \in DOMAIN asked
    BY <1>1, RowWasAsked
  <1>3. row' \in [Proposals -> Row] /\ Moved(p) /\ Row1(p)' /\ row'[p].status = "reverted"
    BY <1>1, RevertedRow
  <1>4. Accounts' /\ world' \in World /\ log' \in Log
    BY <1>1, <1>2, RevertKeepsAccounts
  <1>5. Shape'
    BY <1>1, <1>3, <1>4 DEF Shape
  <1>6. log'.apply = log.apply /\ \A q \in Proposals \ {p} : log'.revert[q] = log.revert[q]
    BY <1>1, LoggedRevert
  <1>7. Rows'
    BY <1>1, <1>3, <1>5, <1>6, OneRow DEF Moved
  <1>8. Chain'
    BY <1>1, <1>2, <1>3, ChainAside
  <1> QED BY <1>4, <1>5, <1>7, <1>8, IInvOf

LEMMA OwnerEditStep == ASSUME IInv, OwnerEdit PROVE IInv'
  <1>1. /\ Shape /\ Chain /\ Rows /\ Accounts
        /\ UNCHANGED <<row, asked, queue, review, crashes>>
    BY DEF IInv, Rows, OwnerEdit
  <1>2. /\ world' \in World /\ log' \in Log
        /\ log'.apply = log.apply /\ log'.revert = log.revert
    BY <1>1, EditEffect
  <1>3. Shape'
    BY <1>1, <1>2 DEF Shape
  <1>4. Rows'
    BY <1>1, <1>2 DEF Rows, AuditTrail, OwnersVerdict, Saved
  <1>5. Chain'
    BY <1>1 DEF Chain
  <1>6. Accounts'
    BY <1>1, EditKeepsAccounts
  <1> QED BY <1>3, <1>4, <1>5, <1>6, IInvOf

\* A crash counts, and leaves no chain behind.
LEMMA CrashCounts ==
    ASSUME Shape, crashes < MaxCrashes, crashes' = crashes + 1
    PROVE  crashes' \in 0..MaxCrashes /\ crashes' >= crashes /\ crashes' \in Nat
  BY ProposalAssumption DEF Shape

LEMMA CrashStep == ASSUME IInv, Crash PROVE IInv'
  <1>1. /\ Shape /\ Chain /\ Rows /\ Accounts
        /\ crashes < MaxCrashes /\ crashes' = crashes + 1
        /\ queue' = << >> /\ review' = "idle" /\ UNCHANGED <<world, asked, log>>
    BY DEF IInv, Rows, Crash
  <1>2. crashes' \in 0..MaxCrashes /\ crashes' >= crashes /\ crashes' \in Nat
    BY <1>1, CrashCounts
  <1>3. CASE UNCHANGED row
    <2>1. Shape'
      BY <1>1, <1>2, <1>3 DEF Shape
    <2>2. Rows'
      BY <1>1, <1>2, <1>3, NoRowMoves
    <2>3. Chain'
      BY <1>1, <1>3, ChainCut
    <2> QED BY <1>1, <2>1, <2>2, <2>3, AccountsStay, IInvOf
  <1>4. ASSUME queue # << >>, review = "idle", NEW s \in {"rule_check", "ai_review"},
               Finish(Head(queue).id, s, FALSE)
        PROVE  IInv'
    <2> DEFINE p == Head(queue).id
    <2>1. /\ p \in DOMAIN asked /\ p \in Proposals
          /\ row[p].status \notin {"applied", "reverted", "approved"}
      BY <1>1, <1>4, HeadOfChain, HeadRow
    <2>2. Finish(p, s, FALSE)
      BY <1>4
    <2> HIDE DEF p
    <2>3. row' = [row EXCEPT ![p] = [row[p] EXCEPT !.status = s, !.forced = FALSE,
                                                   !.by = row[p].by]]
      BY <1>1, <2>1, <2>2, RowForms
    <2>4. s \in Statuses \ {"applied", "reverted"} /\ s # None
      BY ProposalAssumption DEF Statuses
    <2>5. ChainStays /\ review' \in {"idle", "verdict", "advice"}
      BY <1>1 DEF ChainStays
    <2>6. Shape' /\ Rows' /\ Accounts' /\ Moved(p) /\ row'[p].status = s
      BY <1>1, <1>2, <2>1, <2>3, <2>4, <2>5, Finishes
    <2>7. Chain'
      BY <1>1, <2>1, <2>4, <2>6, ChainCut DEF Moved
    <2> QED BY <2>6, <2>7, IInvOf
  <1> QED BY <1>3, <1>4 DEF Crash

LEMMA CrashInApplyStep == ASSUME IInv, NEW p \in Proposals, CrashInApply(p) PROVE IInv'
  <1>1. /\ Shape /\ Chain /\ Rows /\ Accounts
        /\ crashes < MaxCrashes /\ crashes' = crashes + 1
        /\ queue' = << >> /\ review' = "idle" /\ asked' = asked
        /\ row' = [row EXCEPT ![p].status = "approved"]
    BY DEF IInv, Rows, CrashInApply
  <1>2. crashes' \in 0..MaxCrashes /\ crashes' >= crashes /\ crashes' \in Nat /\ crashes \in Nat
    BY <1>1, CrashCounts, ProposalAssumption DEF Shape
  <1>3. p \in DOMAIN asked /\ row[p].status \notin {"applied", "reverted", "approved"}
    <2>1. CASE row[p].status = "escalated"
      <3>1. row[p].status # None
        BY <2>1, ProposalAssumption DEF Statuses
      <3> QED BY <2>1, <3>1, RowWasAsked
    <2>2. CASE queue # << >> /\ p = Head(queue).id
      BY <1>1, <2>2, HeadOfChain, HeadRow
    <2> QED BY <1>1, <2>1, <2>2 DEF CrashInApply, Chain
  <1>4. row[p] \in Row
    BY <1>1 DEF Shape
  <1>f. PICK f \in BOOLEAN : f = row[p].forced
    BY <1>4 DEF Row
  <1>5. row' = [row EXCEPT ![p] = [row[p] EXCEPT !.status = "approved", !.forced = f,
                                                 !.by = row[p].by]]
    BY <1>1, <1>4, <1>f, RowForms
  <1>6. "approved" \in Statuses \ {"applied", "reverted"} /\ "approved" # None
    BY ProposalAssumption DEF Statuses
  <1>7. ChainStays /\ review' \in {"idle", "verdict", "advice"}
    BY <1>1 DEF ChainStays
  <1>8. CASE UNCHANGED <<world, log>>
    <2>1. Shape' /\ Rows' /\ Accounts' /\ Moved(p) /\ row'[p].status = "approved"
      BY <1>1, <1>2, <1>3, <1>5, <1>6, <1>7, <1>8, Finishes
    <2>2. Chain'
      BY <1>1, <1>3, <1>6, <2>1, ChainCut DEF Moved
    <2> QED BY <2>1, <2>2, IInvOf
  <1>9. CASE Applies(p)
    <2> DEFINE r == [row[p] EXCEPT !.status = "approved"]
    <2>1. r \in Row /\ r.status = "approved"
      BY <1>4, <1>6 DEF Row
    <2>2. row' = [row EXCEPT ![p] = r]
      BY <1>1
    <2> HIDE DEF r
    <2>3. row' \in [Proposals -> Row] /\ Moved(p) /\ row'[p] = r
      BY <1>1, <2>1, <2>2 DEF Shape, Moved
    <2>4. log.apply[p] = 0 /\ log.revert[p] = 0 /\ log \in Log
      BY <1>1, <1>3, RowsAre DEF Row1, Shape
    <2>5. Accounts' /\ world' \in World /\ log' \in Log
      BY <1>1, <1>3, <1>9, <2>4, ApplyKeepsAccounts
    <2>6. /\ log'.revert = log.revert /\ log'.apply[p] = 1
          /\ \A q \in Proposals \ {p} : log'.apply[q] = log.apply[q]
      BY <1>9, <2>4, LoggedApply DEF Applies
    <2>7. Row1(p)'
      BY <1>1, <1>2, <2>1, <2>3, <2>4, <2>6 DEF Row1
    <2>8. Shape'
      BY <1>1, <1>2, <2>3, <2>5 DEF Shape
    <2>9. Rows'
      BY <1>1, <1>2, <2>3, <2>6, <2>7, <2>8, OneRow DEF Moved
    <2>10. Chain'
      BY <1>1, <1>3, <1>6, <2>1, <2>3, ChainCut DEF Moved
    <2> QED BY <2>5, <2>8, <2>9, <2>10, IInvOf
  <1> QED BY <1>8, <1>9 DEF CrashInApply, Applies

LEMMA CrashInRevertStep == ASSUME IInv, NEW p \in Proposals, CrashInRevert(p) PROVE IInv'
  <1>1. /\ Shape /\ Chain /\ Rows /\ Accounts /\ Saved
        /\ row[p].status = "applied" /\ row[p].status # None
        /\ log' = [log EXCEPT !.revert[p] = @ + 1] /\ log \in Log
        /\ crashes < MaxCrashes /\ crashes' = crashes + 1
        /\ queue' = << >> /\ review' = "idle"
        /\ UNCHANGED <<row, asked>> /\ Reverts(p)
    BY ProposalAssumption DEF IInv, Rows, CrashInRevert, Reverts, Shape, Statuses
  <1>2. crashes' \in 0..MaxCrashes /\ crashes' >= crashes /\ crashes' \in Nat /\ crashes \in Nat
    BY <1>1, CrashCounts, ProposalAssumption DEF Shape
  <1>3. p \in DOMAIN asked
    BY <1>1, RowWasAsked
  <1>4. Accounts' /\ world' \in World /\ log' \in Log
    BY <1>1, <1>3, RevertKeepsAccounts
  <1>5. Shape'
    BY <1>1, <1>2, <1>4 DEF Shape
  <1>6. /\ log'.apply = log.apply /\ log'.revert[p] = log.revert[p] + 1
        /\ \A q \in Proposals \ {p} : log'.revert[q] = log.revert[q]
    BY <1>1, LoggedRevert
  <1>7. Row1(p) /\ log.revert[p] \in Nat
    BY <1>1, RowsAre DEF Log
  <1>8. Row1(p)'
    BY <1>1, <1>2, <1>6, <1>7 DEF Row1
  <1>9. Rows'
    BY <1>1, <1>2, <1>5, <1>6, <1>8, OneRow
  <1>10. Chain'
    BY <1>1, ChainCut
  <1> QED BY <1>4, <1>5, <1>9, <1>10, IInvOf

----------------------------------------------------------------------------
(* The theorems *)

LEMMA InitHolds == ASSUME Init PROVE IInv
  <1>1. world \in World
    <2>1. IsWorld(world)
      BY ProposalAssumption DEF Init
    <2>2. /\ world.zones \in Table(Zones, Classes) /\ world.devices \in Table(DeviceIds, Zones)
          /\ world.agents \in Table(AgentIds, Agent) /\ world.claims \in SUBSET (Zones \X Authors)
      BY <2>1, TableIs DEF IsWorld
    <2>3. world = [zones |-> world.zones, devices |-> world.devices, agents |-> world.agents,
                   claims |-> world.claims]
      BY <2>1 DEF IsWorld
    <2> QED BY <2>2, <2>3 DEF World
  <1>2. NoRow \in Row
    <2>1. /\ DOMAIN << >> = {} /\ << >> \in [{} -> Zones] /\ << >> \in [{} -> Agent]
      OBVIOUS
    <2>2. << >> \in Table(DeviceIds, Zones) /\ << >> \in Table(AgentIds, Agent)
      BY <2>1 DEF Table
    <2> QED BY <2>2 DEF NoRow, Row
  <1>3. log \in Log /\ \A p \in Proposals : log.apply[p] = 0 /\ log.revert[p] = 0
    BY DEF Init, Log
  <1>4. asked = << >> /\ queue = << >> /\ review = "idle" /\ crashes = 0
        /\ row = [p \in Proposals |-> NoRow]
    BY DEF Init
  <1>5. Shape
    BY <1>1, <1>2, <1>3, <1>4, ProposalAssumption DEF Shape
  <1>6. \A p \in Proposals : row[p].status = None /\ ~row[p].forced
    BY <1>4 DEF NoRow
  <1>7. Chain
    BY <1>4, <1>6 DEF Chain
  <1>8. Rows
    BY <1>3, <1>4, <1>6, ProposalAssumption DEF Rows, AuditTrail, OwnersVerdict, Saved, Statuses
  <1>9. Accounts
    <2>1. /\ world.claims = {} /\ DOMAIN world.devices = BaseDevices
          /\ DOMAIN world.agents = BaseAgents
      BY ProposalAssumption DEF Init
    <2> QED BY <1>4, <2>1 DEF Accounts, DevicesAccounted, RemovedWasInstalled, ClaimsAccounted,
               RemovalsStand, InstalledDevice, InstalledAgent
  <1> QED BY <1>5, <1>7, <1>8, <1>9 DEF IInv, Rows

LEMMA StepHolds == ASSUME IInv, [Next]_vars PROVE IInv'
  <1>1. CASE UNCHANGED vars
    BY <1>1 DEF vars, IInv, Shape, Chain, AuditTrail, OwnersVerdict, Saved, Accounts,
       DevicesAccounted, RemovedWasInstalled, ClaimsAccounted, RemovalsStand, InstalledDevice,
       InstalledAgent, Standing, RemovesDevice, RemovesAgent, OnceReverted
  <1>2. CASE Submit
    BY <1>2, SubmitStep
  <1>3. CASE Judge
    BY <1>3, JudgeStep
  <1>4. CASE Verdict
    BY <1>4, VerdictStep
  <1>5. ASSUME NEW p \in Proposals,
               Decide(p) \/ Revert(p) \/ CrashInApply(p) \/ CrashInRevert(p)
        PROVE  IInv'
    BY <1>5, DecideStep, RevertStep, CrashInApplyStep, CrashInRevertStep
  <1>6. CASE OwnerEdit
    BY <1>6, OwnerEditStep
  <1>7. CASE Crash
    BY <1>7, CrashStep
  <1> QED BY <1>1, <1>2, <1>3, <1>4, <1>5, <1>6, <1>7 DEF Next

\* The inductive invariant holds in every behaviour of the funnel: types, where the
\* rows of the chain stand, the trail, the owner's verdict, what rows of removals
\* keep, and the accounts.
THEOREM Inductive == Spec => []IInv
  BY InitHolds, StepHolds, PTL DEF Spec

\* The environment's tables, the proposal rows, the chain and the log stay within
\* what their schemas declare: applying, reverting and editing never leave a
\* device in a zone that is no zone, or a row of another form.
THEOREM TypesHold == Spec => []TypeOK
  <1>1. ASSUME IInv PROVE TypeOK
    <2>1. Shape
      BY <1>1 DEF IInv
    <2>2. IsWorld(world)
      BY <2>1, WorldParts DEF Shape
    <2>3. ASSUME NEW p \in Proposals
          PROVE  /\ row[p].status \in Statuses \cup {None} /\ row[p].forced \in BOOLEAN
                 /\ row[p].by \in {None, "zone-claim", "ai", "owner"}
                 /\ IsTable(row[p].devices, DeviceIds, Zones)
                 /\ IsTable(row[p].agents, AgentIds, Agent)
      <3>1. row[p] \in Row
        BY <2>1 DEF Shape
      <3> QED BY <3>1, TableIs DEF Row
    <2>4. ASSUME NEW k \in DOMAIN queue PROVE IsTable(queue[k].zones, Zones, Classes)
      <3>1. queue[k] \in Request
        BY <2>1 DEF Shape
      <3> QED BY <3>1, TableIs DEF Request
    <2> QED BY <2>1, <2>2, <2>3, <2>4 DEF TypeOK, Shape, Log
  <1> QED BY <1>1, Inductive, PTL

\* Whatever the reviewer answers, the owner edits, and wherever the process dies,
\* the log tells of every proposal what became of it, once; a crash inside
\* apply() or revert() is all that can leave an entry the row does not know of.
THEOREM AuditTrailHolds == Spec => []AuditTrail
  <1>1. IInv => AuditTrail
    BY DEF IInv
  <1> QED BY <1>1, Inductive, PTL

\* A change the rule check reserved for the owner is in the world by the owner's
\* verdict only.
THEOREM ForcedWaitsForOwnerHolds == Spec => []ForcedWaitsForOwner
  <1>1. ASSUME IInv PROVE ForcedWaitsForOwner
    <2> SUFFICES ASSUME NEW p \in Proposals, row[p].forced, Standing(p),
                        row[p].status # "approved"
                 PROVE  row[p].by = "owner"
      BY DEF ForcedWaitsForOwner
    <2>1. row[p].status \in {"applied", "reverted"}
      BY <1>1 DEF IInv, AuditTrail, Standing
    <2> QED BY <1>1, <2>1 DEF IInv, OwnersVerdict
  <1> QED BY <1>1, Inductive, PTL

\* The log accounts for the world: what is in it was there or was installed, what
\* is missing was deleted, reverted or removed, a stewardship rests on a claim,
\* and a removal that stands keeps its object away.
THEOREM WorldAccountedForHolds == Spec => []WorldAccountedFor
  <1>1. ASSUME IInv PROVE WorldAccountedFor
    <2>1. Shape /\ DevicesAccounted /\ ClaimsAccounted /\ RemovalsStand
      BY <1>1 DEF IInv, Accounts
    <2>2. ASSUME NEW d \in BaseDevices \cup DOMAIN asked
          PROVE  LET installed == \/ d \in BaseDevices
                                  \/ log.apply[d] > 0 /\ asked[d].kind = "install-devices"
                     removed == \/ <<"device", d>> \in log.edited
                                \/ d \in DOMAIN asked /\ log.revert[d] > 0
                                \/ \E p \in DOMAIN asked :
                                     /\ asked[p].kind = "remove-devices" /\ asked[p].dev = d
                                     /\ Standing(p)
                 IN  /\ d \in DOMAIN world.devices => installed
                     /\ installed /\ d \notin DOMAIN world.devices => removed
      <3>1. InstalledDevice(d) <=>
              d \in BaseDevices \/ (log.apply[d] > 0 /\ asked[d].kind = "install-devices")
        BY DEF InstalledDevice
      <3> QED BY <2>1, <3>1 DEF DevicesAccounted, RemovesDevice
    <2> QED BY <2>1, <2>2 DEF WorldAccountedFor, ClaimsAccounted, RemovalsStand, OnceReverted
  <1> QED BY <1>1, Inductive, PTL

=============================================================================
