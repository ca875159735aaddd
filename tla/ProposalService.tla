--------------------------- MODULE ProposalService ---------------------------
(***************************************************************************)
(* The governance funnel of one environment (proposal-service.ts with the  *)
(* rule check of proposal-rules.ts and the reviewers): builders submit     *)
(* changes of the shared world, each passes the deterministic rule check,  *)
(* the AI review or the owner's verdict, is applied in one transaction     *)
(* together with its command-log entry, and may be reverted afterwards by  *)
(* inverting that entry.                                                   *)
(*                                                                         *)
(* submit() chains the whole pipeline on the environment's promise chain.  *)
(* Everything but the reviewer's answer is synchronous, and a continuation *)
(* of the chain runs before the next request is served (Quiet).  A request *)
(* carries the environment row its route handler read when it arrived.     *)
(*                                                                         *)
(* Abstractions: a proposal installs or touches one object; an installed   *)
(* device or agent is named by its proposal; names, positions, physics,    *)
(* capabilities and notifications are left out, and so are the kinds       *)
(* inject-scenario, adopt-config and ownership-transfer.                   *)
(***************************************************************************)
EXTENDS Naturals, Sequences, FiniteSets, Functions

CONSTANTS
    None,
    Zones, BaseDevices, BaseAgents, Authors,
    Menu,           \* what the k-th request may propose
    MaxProposals,   \* bound: the proposals of a behaviour
    MaxZones, MaxDevices, MaxAgents,    \* quotas of the environment
    OwnerEdits,     \* what the environment owner changes directly
    MaxEdits,       \* bound: the objects the owner edits
    MaxCrashes,     \* bound: the crashes of the server process
    BaseOwner,      \* the owners of the objects there are from the start
    BaseWorld       \* the environment before the first proposal

Proposals == 1..MaxProposals
DeviceIds == BaseDevices \cup Proposals
AgentIds  == BaseAgents \cup Proposals

Kinds == {"install-zones", "install-devices", "install-agents", "remove-devices",
          "remove-agents", "modify-object", "zone-claim"}

\* A payload names one target (targetId), and the zone it installs.
Payload ==
    {pl \in [kind : Kinds, author : Authors, risky : BOOLEAN,
             zone : Zones \cup {None}, dev : DeviceIds \cup {None},
             agent : AgentIds \cup {None}, binds : SUBSET DeviceIds,
             manages : SUBSET Zones] :
        /\ pl.dev = None \/ pl.agent = None
        /\ pl.kind = "install-zones" => pl.zone # None}

Classes == {"standard", "supervised"}

Statuses == {"rule_check", "ai_review", "escalated", "approved", "applied",
             "rejected", "reverted"}

\* A table: a function on the ids that are present.
IsTable(f, ids, value) ==
    /\ DOMAIN f \subseteq ids
    /\ f \in [DOMAIN f -> value]

Agent == [binds : SUBSET DeviceIds, manages : SUBSET Zones]

IsWorld(w) ==
    /\ w = [zones |-> w.zones, devices |-> w.devices, agents |-> w.agents,
            claims |-> w.claims]
    /\ IsTable(w.zones, Zones, Classes)
    /\ IsTable(w.devices, DeviceIds, Zones)
    /\ IsTable(w.agents, AgentIds, Agent)
    /\ w.claims \subseteq Zones \X Authors

ASSUME ProposalAssumption ==
    /\ MaxProposals \in Nat /\ MaxEdits \in Nat /\ MaxCrashes \in Nat
    /\ MaxZones \in Nat /\ MaxDevices \in Nat /\ MaxAgents \in Nat
    /\ None \notin DeviceIds \cup AgentIds /\ None \notin Statuses
    /\ (BaseDevices \cup BaseAgents) \cap Proposals = {}
    /\ Menu \in [Proposals -> SUBSET Payload]
    /\ BaseOwner \in [BaseDevices \cup BaseAgents -> Authors]
    /\ IsWorld(BaseWorld) /\ BaseWorld.claims = {}
    /\ DOMAIN BaseWorld.devices = BaseDevices
    /\ DOMAIN BaseWorld.agents = BaseAgents
    /\ OwnerEdits \subseteq {"add-zone", "drop-zone", "supervise",
                             "delete-device", "delete-agent"}

VARIABLES
    world,      \* map data, device and agent rows, zone claims
    row,        \* the proposal rows
    asked,      \* the payload of every request made so far, in order
    queue,      \* the promise chain: requests with the zones they have read
    review,     \* what the head of the chain awaits from the reviewer
    log,        \* the command log
    crashes

vars == <<world, row, asked, queue, review, log, crashes>>

\* A row: its status, whether the rule check forced the owner's verdict, who
\* gave the last verdict, and what the apply entry keeps for the revert.
NoRow == [status |-> None, forced |-> FALSE, by |-> None,
          devices |-> << >>, agents |-> << >>]

----------------------------------------------------------------------------
(***************************************************************************)
(* The rule check                                                          *)
(***************************************************************************)
OwnerOf(id) == IF id \in DOMAIN BaseOwner THEN BaseOwner[id] ELSE asked[id].author

Override(f, g) ==
    [x \in DOMAIN f \cup DOMAIN g |-> IF x \in DOMAIN g THEN g[x] ELSE f[x]]

With(f, id, value) == Override(f, [x \in {id} |-> value])

Without(f, ids) == [x \in DOMAIN f \ ids |-> f[x]]

Only(f, id) == [x \in DOMAIN f \cap {id} |-> f[x]]

BindsOwn(pl) ==
    /\ pl.binds \subseteq DOMAIN world.devices
    /\ \A d \in pl.binds : OwnerOf(d) = pl.author

\* The checks of the kinds: on the zones of the environment row the check is
\* given, and on the device and agent tables as they are.
InstallZonesPasses(pl, zones) ==
    /\ pl.zone \notin DOMAIN zones
    /\ Cardinality(DOMAIN zones) < MaxZones

InstallDevicesPasses(pl, zones) ==
    /\ pl.zone \in DOMAIN zones
    /\ Cardinality(DOMAIN world.devices) < MaxDevices

InstallAgentsPasses(pl, zones) ==
    /\ BindsOwn(pl) /\ pl.manages \subseteq DOMAIN zones
    /\ Cardinality(DOMAIN world.agents) < MaxAgents

RemoveDevicesPasses(pl) ==
    /\ pl.dev \in DOMAIN world.devices /\ OwnerOf(pl.dev) = pl.author
    /\ \A a \in DOMAIN world.agents : pl.dev \notin world.agents[a].binds

RemoveAgentsPasses(pl) ==
    pl.agent \in DOMAIN world.agents /\ OwnerOf(pl.agent) = pl.author

ModifyObjectPasses(pl, zones) ==
    \/ /\ pl.dev \in DOMAIN world.devices /\ OwnerOf(pl.dev) = pl.author
       /\ pl.zone \in DOMAIN zones
    \/ /\ pl.agent \in DOMAIN world.agents /\ OwnerOf(pl.agent) = pl.author
       /\ BindsOwn(pl) /\ pl.manages \subseteq DOMAIN zones

ZoneClaimPasses(pl, zones) == pl.zone \in DOMAIN zones

\* checkProposalRules.
Passes(pl, zones) ==
    \/ pl.kind = "install-zones"   /\ InstallZonesPasses(pl, zones)
    \/ pl.kind = "install-devices" /\ InstallDevicesPasses(pl, zones)
    \/ pl.kind = "install-agents"  /\ InstallAgentsPasses(pl, zones)
    \/ pl.kind = "remove-devices"  /\ RemoveDevicesPasses(pl)
    \/ pl.kind = "remove-agents"   /\ RemoveAgentsPasses(pl)
    \/ pl.kind = "modify-object"   /\ ModifyObjectPasses(pl, zones)
    \/ pl.kind = "zone-claim"      /\ ZoneClaimPasses(pl, zones)

BoundZones(pl) == {world.devices[d] : d \in pl.binds \cap DOMAIN world.devices}

\* proposalZoneIds: empty when the footprint cannot be determined.
Footprint(pl) ==
    CASE pl.kind = "install-devices" -> {pl.zone}
      [] pl.kind = "install-agents"  -> pl.manages \cup BoundZones(pl)
      [] OTHER -> {}

\* proposalConsentFootprint.
ConsentFootprint(pl) ==
    CASE pl.kind = "zone-claim" -> {pl.zone}
      [] pl.kind = "modify-object" /\ pl.dev # None -> {world.devices[pl.dev], pl.zone}
      [] pl.kind = "modify-object" /\ pl.dev = None -> pl.manages \cup BoundZones(pl)
      [] OTHER -> Footprint(pl)

\* checkZoneConsent: escalateWithAiAdvisory.
Supervised(pl, zones) ==
    \E z \in ConsentFootprint(pl) \cap DOMAIN zones : zones[z] = "supervised"

Forced(pl, zones) == pl.risky \/ pl.kind = "zone-claim" \/ Supervised(pl, zones)

Covered(pl) ==
    /\ Footprint(pl) # {}
    /\ \A z \in Footprint(pl) : <<z, pl.author>> \in world.claims

----------------------------------------------------------------------------
(***************************************************************************)
(* The world a proposal leaves behind when it is applied, and when it is   *)
(* reverted                                                                *)
(***************************************************************************)
\* install*, remove*, modifyObject, grantZoneClaim of proposal p.
Written(p) ==
    LET pl == asked[p] IN
    CASE pl.kind = "install-zones" ->
           [world EXCEPT !.zones = With(@, pl.zone, "standard")]
      [] pl.kind = "install-devices" ->
           [world EXCEPT !.devices = With(@, p, pl.zone)]
      [] pl.kind = "install-agents" ->
           [world EXCEPT !.agents = With(@, p, [binds |-> pl.binds, manages |-> pl.manages])]
      [] pl.kind = "remove-devices" ->
           [world EXCEPT !.devices = Without(@, {pl.dev})]
      [] pl.kind = "remove-agents" ->
           [world EXCEPT !.agents = Without(@, {pl.agent})]
      [] pl.kind = "modify-object" /\ pl.dev # None ->
           [world EXCEPT !.devices[pl.dev] = pl.zone]
      [] pl.kind = "modify-object" /\ pl.dev = None ->
           [world EXCEPT !.agents[pl.agent] =
              [binds |-> pl.binds, manages |-> pl.manages]]
      [] pl.kind = "zone-claim" ->
           [world EXCEPT !.claims = @ \cup {<<pl.zone, pl.author>>}]

\* An occupied zone is not taken from under its objects.
Occupied(z) ==
    /\ z \in DOMAIN world.zones
    /\ \/ \E d \in DOMAIN world.devices : world.devices[d] = z
       \/ \E a \in DOMAIN world.agents : z \in world.agents[a].manages

Revertible(p) == ~(asked[p].kind = "install-zones" /\ Occupied(asked[p].zone))

\* restoreDevice, restoreAgent: the removed rows that are missing come back.
Restored(p) ==
    [world EXCEPT !.devices = Override(row[p].devices, @),
                  !.agents  = Override(row[p].agents, @)]

\* zoneClaimStore.revoke.
Revoked(pl) == [world EXCEPT !.claims = @ \ {<<pl.zone, pl.author>>}]

\* The inverse of the apply entry of p.  A removal restores the rows that are
\* missing, a modification overwrites a row that is still there, everything
\* else deletes what the entry created.
Undone(p) ==
    LET pl == asked[p]
        kept(f, g) == [x \in DOMAIN f |-> IF x \in DOMAIN g THEN g[x] ELSE f[x]]
    IN
    CASE pl.kind = "install-zones"   -> [world EXCEPT !.zones = Without(@, {pl.zone})]
      [] pl.kind = "install-devices" -> [world EXCEPT !.devices = Without(@, {p})]
      [] pl.kind = "install-agents"  -> [world EXCEPT !.agents = Without(@, {p})]
      [] pl.kind \in {"remove-devices", "remove-agents"} -> Restored(p)
      [] pl.kind = "modify-object"   ->
           [world EXCEPT !.devices = kept(@, row[p].devices),
                         !.agents  = kept(@, row[p].agents)]
      [] pl.kind = "zone-claim" -> Revoked(pl)

----------------------------------------------------------------------------
Init ==
    /\ world = BaseWorld
    /\ row = [p \in Proposals |-> NoRow]
    /\ asked = << >> /\ queue = << >> /\ review = "idle"
    /\ log = [apply |-> [p \in Proposals |-> 0], revert |-> [p \in Proposals |-> 0],
              edited |-> {}]
    /\ crashes = 0

\* No continuation of the chain is due: the next request may be served.
Quiet == queue = << >> \/ review # "idle"

\* POST /api/environments/:id/proposals (and the converted builder routes): the
\* handler reads the environment row and joins the chain.
Submit ==
    /\ Quiet /\ Len(asked) < MaxProposals
    /\ \E pl \in Menu[Len(asked) + 1] : asked' = Append(asked, pl)
    /\ queue' = Append(queue, [id |-> Len(asked) + 1, zones |-> world.zones])
    /\ UNCHANGED <<world, row, review, log, crashes>>

\* Mutated form: the rule check is not run again.
LandUnchecked(p, by) ==
    /\ row' = [row EXCEPT ![p] = [@ EXCEPT !.by = by, !.status = "applied",
                 !.devices = Only(world.devices, asked[p].dev),
                 !.agents  = Only(world.agents, asked[p].agent)]]
    /\ world' = Written(p)
    /\ log' = [log EXCEPT !.apply[p] = @ + 1]

\* apply(): the row of p is approved by `by`; the rule check runs again on the
\* environment as it is, then the world and its log entry are written together.
Land(p, by) ==
    LET pl == asked[p]
        decided == [row[p] EXCEPT !.by = by]
    IN
    \/ /\ ~Passes(pl, world.zones)
       /\ row' = [row EXCEPT ![p] = [decided EXCEPT !.status = "rejected"]]
       /\ UNCHANGED <<world, log>>
    \/ /\ Passes(pl, world.zones)
       /\ row' = [row EXCEPT ![p] =
            [decided EXCEPT !.status = "applied",
               !.devices = Only(world.devices, pl.dev),
               !.agents  = Only(world.agents, pl.agent)]]
       /\ world' = Written(p)
       /\ log' = [log EXCEPT !.apply[p] = @ + 1]

\* Mutated form: the row takes a status the schema does not know.
FinishPending(p, status, forced) ==
    row' = [row EXCEPT ![p].status = IF forced THEN "pending" ELSE status,
                       ![p].forced = forced]

Finish(p, status, forced) ==
    row' = [row EXCEPT ![p].status = status, ![p].forced = forced]

\* submitNow up to its first await, on the environment row of the request.
Judge ==
    /\ queue # << >> /\ review = "idle"
    /\ LET p == Head(queue).id
           zones == Head(queue).zones
           pl == asked[p]
           forced == Forced(pl, zones)
       IN
       \/ /\ ~Passes(pl, zones)
          /\ Finish(p, "rejected", FALSE)
          /\ queue' = Tail(queue) /\ UNCHANGED <<world, log, review>>
       \/ /\ Passes(pl, zones) /\ forced /\ ~Supervised(pl, zones)
          /\ Finish(p, "escalated", TRUE)
          /\ queue' = Tail(queue) /\ UNCHANGED <<world, log, review>>
       \/ /\ Passes(pl, zones) /\ forced /\ Supervised(pl, zones)
          /\ Finish(p, "ai_review", TRUE)
          /\ review' = "advice" /\ UNCHANGED <<world, log, queue>>
       \/ /\ Passes(pl, zones) /\ ~forced /\ Covered(pl)
          /\ Land(p, "zone-claim")
          /\ queue' = Tail(queue) /\ UNCHANGED review
       \/ /\ Passes(pl, zones) /\ ~forced /\ ~Covered(pl)
          /\ Finish(p, "ai_review", FALSE)
          /\ review' = "verdict" /\ UNCHANGED <<world, log, queue>>
    /\ UNCHANGED <<asked, crashes>>

\* Mutated form: the advice on a forced proposal is taken as the verdict.
VerdictOfAdvisor ==
    /\ review # "idle"
    /\ LET p == Head(queue).id IN
       \/ /\ \E status \in {"rejected", "escalated"} : Finish(p, status, row[p].forced)
          /\ UNCHANGED <<world, log>>
       \/ Land(p, "ai")
    /\ queue' = Tail(queue) /\ review' = "idle"
    /\ UNCHANGED <<asked, crashes>>

\* Mutated form: advice that fails is waited for without end.
VerdictWithoutAdvice ==
    /\ review = "verdict"
    /\ LET p == Head(queue).id IN
       \/ /\ \E status \in {"rejected", "escalated"} : Finish(p, status, FALSE)
          /\ UNCHANGED <<world, log>>
       \/ Land(p, "ai")
    /\ queue' = Tail(queue) /\ review' = "idle"
    /\ UNCHANGED <<asked, crashes>>

\* The reviewer answers: the LLM's verdict, or the policy's when it failed or
\* timed out.  Advice on a forced proposal neither applies nor vetoes.
Verdict ==
    /\ review # "idle"
    /\ LET p == Head(queue).id IN
       \/ /\ review = "advice"
          /\ Finish(p, "escalated", TRUE) /\ UNCHANGED <<world, log>>
       \/ /\ review = "verdict"
          /\ \E status \in {"rejected", "escalated"} : Finish(p, status, FALSE)
          /\ UNCHANGED <<world, log>>
       \/ review = "verdict" /\ Land(p, "ai")
    /\ queue' = Tail(queue) /\ review' = "idle"
    /\ UNCHANGED <<asked, crashes>>

\* POST /api/proposals/:id/decide.
Decide(p) ==
    /\ Quiet /\ row[p].status = "escalated"
    /\ \/ /\ row' = [row EXCEPT ![p].status = "rejected", ![p].by = "owner"]
          /\ UNCHANGED <<world, log>>
       \/ Land(p, "owner")
    /\ UNCHANGED <<asked, queue, review, crashes>>

\* Mutated form: the revert leaves no entry in the log.
RevertSilently(p) ==
    /\ Quiet /\ row[p].status = "applied"
    /\ log.apply[p] > 0
    /\ Revertible(p)
    /\ world' = Undone(p)
    /\ row' = [row EXCEPT ![p].status = "reverted"]
    /\ UNCHANGED <<asked, queue, review, log, crashes>>

\* POST /api/proposals/:id/revert.
Revert(p) ==
    /\ Quiet /\ row[p].status = "applied"
    /\ log.apply[p] > 0
    /\ Revertible(p)
    /\ world' = Undone(p)
    /\ log' = [log EXCEPT !.revert[p] = @ + 1]
    /\ row' = [row EXCEPT ![p].status = "reverted"]
    /\ UNCHANGED <<asked, queue, review, crashes>>

----------------------------------------------------------------------------
(***************************************************************************)
(* What happens around the funnel                                          *)
(***************************************************************************)
\* The owner-direct routes: the same tables, no funnel, an audited edit.
OwnerEdit ==
    /\ Quiet /\ Cardinality(log.edited) < MaxEdits
    /\ \/ \E z \in Zones \ DOMAIN world.zones, class \in Classes :
            /\ "add-zone" \in OwnerEdits /\ Cardinality(DOMAIN world.zones) < MaxZones
            /\ world' = [world EXCEPT !.zones = With(@, z, class)]
            /\ log' = [log EXCEPT !.edited = @ \cup {z}]
       \/ \E z \in DOMAIN world.zones :
            /\ "drop-zone" \in OwnerEdits
            /\ world' = [world EXCEPT !.zones = Without(@, {z})]
            /\ log' = [log EXCEPT !.edited = @ \cup {z}]
       \/ \E z \in DOMAIN world.zones :
            /\ "supervise" \in OwnerEdits /\ world.zones[z] = "standard"
            /\ world' = [world EXCEPT !.zones[z] = "supervised"]
            /\ log' = [log EXCEPT !.edited = @ \cup {z}]
       \/ \E d \in DOMAIN world.devices :
            /\ "delete-device" \in OwnerEdits
            /\ world' = [world EXCEPT !.devices = Without(@, {d})]
            /\ log' = [log EXCEPT !.edited = @ \cup {<<"device", d>>}]
       \/ \E a \in DOMAIN world.agents :
            /\ "delete-agent" \in OwnerEdits
            /\ world' = [world EXCEPT !.agents = Without(@, {a})]
            /\ log' = [log EXCEPT !.edited = @ \cup {<<"agent", a>>}]
    /\ UNCHANGED <<row, asked, queue, review, crashes>>

\* The process dies and comes back: the chain is gone and the rows stay as they
\* are, that of a request in its rule check included.
Crash ==
    /\ crashes < MaxCrashes /\ crashes' = crashes + 1
    /\ \/ UNCHANGED row
       \/ /\ queue # << >> /\ review = "idle"
          /\ \E status \in {"rule_check", "ai_review"} :
               Finish(Head(queue).id, status, FALSE)
    /\ queue' = << >> /\ review' = "idle"
    /\ UNCHANGED <<world, asked, log>>

\* It dies inside apply(): after the row was approved, or after the transaction
\* but before the row is applied.
CrashInApply(p) ==
    /\ crashes < MaxCrashes /\ crashes' = crashes + 1
    /\ \/ Quiet /\ row[p].status = "escalated"
       \/ review = "verdict" /\ p = Head(queue).id
       \/ /\ queue # << >> /\ review = "idle" /\ p = Head(queue).id
          /\ Passes(asked[p], Head(queue).zones) /\ Covered(asked[p])
          /\ ~Forced(asked[p], Head(queue).zones)
    /\ \/ UNCHANGED <<world, log>>
       \/ /\ Passes(asked[p], world.zones)
          /\ world' = Written(p) /\ log' = [log EXCEPT !.apply[p] = @ + 1]
    /\ row' = [row EXCEPT ![p].status = "approved"]
    /\ queue' = << >> /\ review' = "idle"
    /\ UNCHANGED asked

\* It dies inside revert(), after the transaction but before the row is reverted.
CrashInRevert(p) ==
    /\ Quiet /\ crashes < MaxCrashes /\ crashes' = crashes + 1
    /\ row[p].status = "applied" /\ log.apply[p] > 0 /\ Revertible(p)
    /\ world' = Undone(p)
    /\ log' = [log EXCEPT !.revert[p] = @ + 1]
    /\ queue' = << >> /\ review' = "idle"
    /\ UNCHANGED <<row, asked>>

Next ==
    \/ Submit
    \/ Judge \/ Verdict
    \/ \E p \in Proposals :
         Decide(p) \/ Revert(p) \/ CrashInApply(p) \/ CrashInRevert(p)
    \/ OwnerEdit \/ Crash

Spec == Init /\ [][Next]_vars

\* The promise chain runs on, and the reviewer answers or times out.
FairSpec == Spec /\ WF_vars(Judge) /\ WF_vars(Verdict)

----------------------------------------------------------------------------
\* TypeOK: the world, the proposals, the log and the chain stay within what the
\* environment rows, ProposalRow and the command log declare.
TypeOK ==
    /\ IsWorld(world)
    /\ \A p \in Proposals :
         /\ row[p].status \in Statuses \cup {None} /\ row[p].forced \in BOOLEAN
         /\ row[p].by \in {None, "zone-claim", "ai", "owner"}
         /\ IsTable(row[p].devices, DeviceIds, Zones)
         /\ IsTable(row[p].agents, AgentIds, Agent)
    /\ Len(asked) <= MaxProposals
    /\ \A p \in DOMAIN asked : asked[p] \in Menu[p]
    /\ \A k \in DOMAIN queue :
         queue[k].id \in DOMAIN asked /\ IsTable(queue[k].zones, Zones, Classes)
    /\ review \in {"idle", "verdict", "advice"}
    /\ log.apply \in [Proposals -> Nat] /\ log.revert \in [Proposals -> Nat]
    /\ crashes \in 0..MaxCrashes

\* The requests that are still in the funnel.
Chained == {queue[k].id : k \in DOMAIN queue}

\* The change of p is in the world: written, and not taken back.
Standing(p) == log.apply[p] > 0 /\ log.revert[p] = 0

\* The log tells of every proposal what became of it, once: an applied one has
\* its apply entry, a reverted one the apply and the revert entry, any other
\* none.  Only a crash between the transaction of apply() or revert() and the
\* row's transition leaves an entry the row does not know of
\* (proposal-service.ts apply, revert; proposal.md P6).
AuditTrail ==
    \A p \in Proposals :
       /\ row[p].status \in {"applied", "reverted"} => log.apply[p] = 1
       /\ row[p].status = "applied"  => log.revert[p] <= crashes
       /\ row[p].status = "reverted" => log.revert[p] \in 1..(1 + crashes)
       /\ row[p].status \notin {"applied", "reverted"} => log.revert[p] = 0
       /\ row[p].status = "approved" => log.apply[p] <= crashes
       /\ row[p].status \notin {"applied", "reverted", "approved"} => log.apply[p] = 0

\* A change the rule check reserved for the owner entered the world by the
\* owner's verdict only, whatever the reviewer answered.
ForcedWaitsForOwner ==
    \A p \in Proposals :
       row[p].forced /\ Standing(p) /\ row[p].status # "approved" => row[p].by = "owner"

\* The log accounts for the world.  Every device in it was there from the start
\* or its install was applied; one that is missing was deleted by the owner, or
\* its install was reverted, or a removal of it stands.  Every stewardship rests
\* on a claim that was applied and still stands (proposal.md 5.3).  And while a
\* removal stands, what it removed is gone: two removals of one object do not both
\* stand and the revert of one does not undo another - as long as no revert ran
\* twice, which takes a crash between its transaction and the row's transition.
WorldAccountedFor ==
    /\ \A d \in BaseDevices \cup DOMAIN asked :
         LET installed == \/ d \in BaseDevices
                          \/ log.apply[d] > 0 /\ asked[d].kind = "install-devices"
             removed == \/ <<"device", d>> \in log.edited
                        \/ d \in DOMAIN asked /\ log.revert[d] > 0
                        \/ \E p \in DOMAIN asked :
                             asked[p].kind = "remove-devices" /\ asked[p].dev = d /\ Standing(p)
         IN  /\ d \in DOMAIN world.devices => installed
             /\ installed /\ d \notin DOMAIN world.devices => removed
    /\ \A g \in world.claims :
         \E p \in DOMAIN asked :
            /\ asked[p].kind = "zone-claim" /\ <<asked[p].zone, asked[p].author>> = g
            /\ Standing(p)
    /\ (\A p \in Proposals : log.revert[p] <= 1) =>
         \A p \in DOMAIN asked :
            /\ Standing(p) /\ asked[p].kind = "remove-devices" =>
                  asked[p].dev \notin DOMAIN world.devices
            /\ Standing(p) /\ asked[p].kind = "remove-agents" =>
                  asked[p].agent \notin DOMAIN world.agents

\* Every request on the chain leaves the funnel with a verdict or in the owner's
\* hands, unless the process died (proposal.md P1).
FunnelDrains ==
    \A p \in Proposals :
       p \in Chained ~>
          \/ row[p].status \in {"escalated", "applied", "rejected", "reverted"}
          \/ crashes > 0
=============================================================================
