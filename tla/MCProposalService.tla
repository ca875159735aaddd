-------------------------- MODULE MCProposalService --------------------------
(***************************************************************************)
(* Instances of ProposalService for TLC: one builder b in a world with one *)
(* zone, one device and one agent.                                         *)
(***************************************************************************)
EXTENDS ProposalService

CONSTANTS z0, z1, d0, a0, b

OneBuilder == [x \in {d0, a0} |-> b]

World0 ==
    [zones   |-> [z \in {z0} |-> "standard"],
     devices |-> [d \in {d0} |-> z0],
     agents  |-> [a \in {a0} |-> [binds |-> {}, manages |-> {z0}]],
     claims  |-> {}]

Plain(kind) ==
    [kind |-> kind, author |-> b, risky |-> FALSE, zone |-> None, dev |-> None,
     agent |-> None, binds |-> {}, manages |-> {}]

InstallZone    == [Plain("install-zones") EXCEPT !.zone = z1]
InstallDevice  == [Plain("install-devices") EXCEPT !.zone = z1]
RiskyDevice    == [Plain("install-devices") EXCEPT !.zone = z0, !.risky = TRUE]
InstallAgent   == [Plain("install-agents") EXCEPT !.binds = {d0}, !.manages = {z0}]
RemoveDevice   == [Plain("remove-devices") EXCEPT !.dev = d0]
RemoveAgent    == [Plain("remove-agents") EXCEPT !.agent = a0]
MoveDevice     == [Plain("modify-object") EXCEPT !.dev = d0, !.zone = z1]
Rebind         == [Plain("modify-object") EXCEPT !.agent = a0, !.binds = {d0}]
ClaimZone      == [Plain("zone-claim") EXCEPT !.zone = z0]

\* Three requests: a zone or a claim, what goes into the one or is covered by the
\* other, removals that compete for one device, changes of one agent.
Mixed == << {InstallZone, ClaimZone},
            {InstallDevice, RemoveDevice, ClaimZone},
            {RiskyDevice, InstallAgent, MoveDevice, RemoveDevice, RemoveAgent, Rebind} >>
=============================================================================
