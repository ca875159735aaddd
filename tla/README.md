# A TLA+ model of the distributed embodiment framework

This directory holds TLA+ specifications of the stateful protocols of this
repository, the TLC configurations that check them on small instances, and proofs
that TLAPS checks for every instance. Every definition is translated from the
TypeScript source; `PROJECT.json` (`map`) names the lines each one stands for.

Contents: [the system](#the-system) · [components](#components) ·
[modules](#modules) · [runs](#runs-and-bounds) · [fairness](#fairness) ·
[proofs](#proofs) · [where the code and its documents differ](#where-the-code-and-its-documents-differ) ·
[further observations](#further-observations) · [not modelled](#what-is-not-modelled) · [plan](#plan)

Paths below are relative to `src/`; `server/` stands for `apps/server/src/` and
`core/` for `packages/core/src/`.

## The system

People build shared *environments* (zones, devices, agents, the services the agents
offer). A server keeps their rows in SQLite (better-sqlite3, synchronous) and runs,
for each environment, an authoritative *world session*: a simulation runtime that
advances lazily with the wall clock. Agents consume one another's services under
*agreements*; inside a simulation they form *active collaborations* by a handshake of
messages; builders who do not own an environment change it through *proposals* that
are checked, reviewed, applied and, if need be, reverted.

The server is one JavaScript thread. A handler is atomic from its start, or from the
end of one `await`, to its next `await`; SQLite calls do not wait. Concurrency is
therefore between handlers that wait (for a device command, an LLM, a runtime being
built, a timer) and everything that is served meanwhile, between the server and the
clock, and between the process and its death: rows, trajectory directories and
checkpoints survive, the maps, chains and timers of a process do not.

How the components interact:

```
 routes/agreements ──writes──▶ agreement rows ◀──retires── agent and service removal
   │        ▲                  ▲      ▲   ▲  ◀──relinks── proposal revert
   │        │            failover │   │   └── AcAgreementBridge ◀─ event bus ─ agents
   ▼        │            watchdog─┘   │                              (handshake)
 invoke lane ◀── trigger executor ── simulation events ◀── runtime ◀── world session
   │             flow service node                          ▲   ▲          ▲
   └── device commands ────────────────────────────────────┘   │          │
 proposal service ──applies──▶ environment rows ── change pipeline ── onWorldMutation
                                                  streams, arrivals ── observe, targetFor
```

## Components

For each part: the state it keeps; its operations; what makes it hard; what makes it
correct. Parts marked ● are modelled (wholly or in part), ○ are not yet.

● **Agreement store** (`server/db/agreement-store.ts`). One row per agreement: status
(`proposed`, `countered`, `active`, `held`, `rejected`, `suspended`, `terminated`),
reason, links to provider and service, terms, hold deadline, activation stamp; usage
records. No statement looks at the status it overwrites: the status machine lives in
the callers. *Correct when* the stamp, the deadline and the links fit the status on
every road.

● **Agreement lifecycle** (`server/routes/agreements.ts`, `agreements/view.ts`,
`agreement-failover.ts`, the removal lanes of `routes/env-objects.ts` and
`db/service-store.ts`). Propose, decide, counter, remind, suspend, hold, release,
terminate; a read settles an expired hold; removing an agent or a service retires its
agreements, a proposal's revert relinks them from a snapshot taken many steps before;
a timer parks the agreements of silent providers and re-signs them on recovery.
*Hard*: many writers, none of which knows the others; stale snapshots.
*Correct when* no contract is in force against something that does not exist, a
terminal row stays, pauses are bounded, re-signing never yields two live contracts,
the watchdog undoes only its own suspensions, and silent or recovered providers are
noticed.

● **Invoke lane and automatic execution** (`server/agreements/invoke-lane.ts`,
`agreement-trigger-executor.ts`, `flow-service-node-executor.ts`). Manual invocation,
invocation by a simulation event a clause names, by a flow node, and automatic resets
(after a time, or on an event). State: usage rows, arms in memory, calls in flight.
*Hard*: quota read before an `await` and consumed after it; candidates filtered once
and executed one after the other; arms taken while the map they lie in is walked.
*Correct when* the quota holds where calls do not overlap, resets match what armed
them and happen only under an active agreement, and every call, arm and evaluation
ends.

● **Collaboration handshake and agreement bridge** (`core/agent/coordinators/
CollaborationCoordinator.ts`, `core/proposal/CollaborationProposalHandler.ts`,
`core/proposal/fulfillment-gate.ts`, `core/runtime/*`, `server/ac-agreement-bridge.ts`).
Announcement, accept, reject, defer, counter, a window, fallback batches, hop-2
delegation behind a gated acceptance, execution, finalization of every agent's session,
and the server's ephemeral agreement rows that mirror all this from the event bus.
*Hard*: late answers, deferred re-evaluation, parties that hold or terminate the rows
meanwhile, a stop of the runtime. *Correct when* only acceptors execute, cancelled
work is not metered, completed work is metered once, a promise is backed when given,
rows end with their collaboration and none is born after it, everything is answered.

● **Proposal funnel** (`server/proposal-service.ts`, `proposal-rules.ts`, reviewers).
A promise chain per environment judges proposals in order; an AI reviewer advises;
some changes are reserved for the owner; apply and revert each run in a transaction
followed by a separate transition of the row; zone claims grant stewardship.
*Hard*: what is read before the turn comes, direct edits by the owner between any two
steps, reverts in any order, death between the two writes. *Correct when* the log
accounts for what the world holds, order is kept, reserved changes wait for the owner,
grants rest on claims, and the chain drains.

● **World session** (`server/world-session.ts`, with the record operations of
`server/simulation-registry.ts`, `lazy-driver.ts`, `world-checkpoint.ts`, the boot scan
of `server.ts`). One state object per environment (idle, active, hibernated; a count of
observers), a chain of operations (arrive, observe, world mutation), a coalesced
catch-up, one live or hibernated record, a runtime, a lazy driver, a trajectory
directory with a checkpoint. *Hard*: builds with real devices give way in the middle of
a swap; freeze, discard, deletion and shutdown are not on the chain; pins are released
against objects that may be gone; the process dies. *Correct when* an environment has
one world, no pin leaks, history is not overwritten by a fresh world, and whoever asks
for the world gets it at the present moment.

○ **Simulation registry beyond sessions** (`server/simulation-registry.ts`,
`sim-registry/`): user-made and sandboxed simulations, forks, the cap on records,
collection of trajectories. *Hard*: eviction against use.
*Correct when* a record in use is never evicted and a directory in use never collected.

● **Timeline** (`core/storage/segmented-log.ts`, `server/sim-timeline.ts`,
`server/sim-registry/timeline-compactor.ts`). State: a writer's buffer, numbered segment
files, an old single file, rollup files with a manifest of their sources. Appending in
batches, rotation, closing and reopening; a sweep that folds old sealed segments into a
rollup written under a temporary name, renames it and deletes the sources. *Hard*: death
or a failing call between any two file operations; numbering after deletions; a budget of
bytes per sweep. *Correct when* what reached the disk is raw or rolled up exactly once, a
sealed segment stays sealed, and old segments go in the end. Trajectories and replay
(`core/trajectory/`, `server/replay-service.ts`) are ○.

○ **Stream sessions of agreements** (`server/agreement-stream-sessions.ts`): open data
streams per agreement. *Correct when* no stream outlives its agreement's active state.

○ **Standing asks, quests, notifications, webhooks**: matching and delivery.
*Correct when* a match notifies once; delivery is best effort.

● **HASS connection** (`server/hass/connection.ts`, the part of `server/hass/service.ts`
that uses it). One websocket to Home Assistant: a state, the promise that callers of
`connect` share, a table of requests that await their answers, a backoff timer.
*Hard*: the timer, callers, the socket's events and the answers interleave; events of an
old socket come late. *Correct when* the shared promise stands for the attempt under way,
callers are answered (unless Home Assistant keeps silent in the handshake, for which the
code has no timer), nothing is tried again after `close`, and the connection returns after a
drop. Twin sync (`server/twin-sync.ts`: reverse synchronization, shadow mode,
the safety gate) is ○.

○ **Environment bridge and service derivation** (`server/environment-bridge.ts`,
`service-derivation-sync.ts`): agents and services re-derived from devices.
*Correct when* derivation is idempotent.

○ **Sandboxes, evaluation runs, exports; authentication, quotas, rate limits; imports,
geography, remaining routes**: job tables, stateless gates, conversions.

○ **Core engine** (`core/flows`, `autonomous`, `execution`, `workflow`, `management`,
`resource`, `service`, `events`): flow graphs with waits and retries; threshold and
schedule triggers with persisted edge state; the plan executor of a collaboration;
allocation counters; request brokering. *Correct when* a node runs once per
activation, a trigger fires once per edge, what is allocated is released.

○ **Decision, cognition, goals, language, planning**: prompts and scores around LLM
answers. The models take every decision these may reach.

● **LLM client** (`packages/llm-integration`): a circuit breaker tested before a request
waits for a slot and informed after it is answered; a queue per lane; a controller that
adapts the limit of the fast lane. *Hard*: between the guard and its record lie a queue
and a call, in which other requests fail, succeed or are given up; the limit moves under
the waiters. *Correct when* the probe slot is never held by nobody, no slot and no waiter
is lost, waiters settle, and the breaker of a backend that is back lets requests pass.

○ **Physics** (`packages/simulation`), **shared types**, **command line and web
client**: no protocol state of their own.

`formal/CollabProtocol.tla` is an earlier sketch of the collaboration protocol that the
repository carries; `Collaboration` is translated from the code and independent of it.

## Modules

| module | what it holds |
| --- | --- |
| `AgreementStore` | one row of `service_agreements` and the effect of each store statement on it: no variables, extended by the next three |
| `Agreement` | all actors on the explicit agreements of one environment |
| `AgreementLifecycle` | the abstract contract: what the parties are promised of any agreement |
| `AgreementProofs` | theorems about `Agreement`: its invariants, what no step does, and that it implements `AgreementLifecycle` |
| `InvokeLane`, `InvokeLaneProofs` | calls, evaluations, arms and usage over rows of `AgreementStore`; theorems about them |
| `Collaboration`, `CollaborationProofs` | handshake, sessions and the bridge's ephemeral rows, over the same operators; theorems about them |
| `ProposalService`, `ProposalServiceProofs` | the funnel, the log and the world it changes; theorems about them |
| `WorldSession`, `WorldSessionProofs` | the session, its record, runtimes, disk and streams; theorems about them |
| `LlmClient`, `LlmClientProofs` | breaker, queues and adaptive limit; theorems about the breaker and the queues |
| `HassConnection`, `HassConnectionProofs` | the websocket connection to Home Assistant; theorems about it |
| `TimelineLog`, `TimelineLogProofs` | the segmented timeline on disk, its writer and its compactor; theorems about them |
| `MC…` | values of the constants for TLC |

Three modules share `AgreementStore`, so that one translation of the store serves the
marketplace rows, the consumption lane and the ephemeral rows alike. They are not put
in one state space: the lanes meet in the row only, and each module that is not about
the parties' lifecycle takes the parties' writes as an environment (`Party` in
`InvokeLane`, `PartyWrite` in `Collaboration`).

In every module an operator that ends in a *mutated form* comment is a plausible bug,
placed before the definition it would replace. It is used by nothing: it is the evidence
that the property it is paired with in `PROJECT.json` can fail.

**What is one step.** From one `await` of the code to the next. `Agreement`: a whole
handler. `InvokeLane`: `Call` up to the targeting await, `Target` and `Finish` after the
awaits, and an evaluation step from one candidate to the next; `running` names the
evaluation that holds the thread. `Collaboration`: a message with everything its
subscribers do, because the bus delivers synchronously; evaluations, timers and
executions are separate steps. `ProposalService`: judging up to the reviewer, the
verdict, each of the two writes of apply and revert where the process may die between
them. `LlmClient`: from the guard to the slot or the queue, and everything an answer sets
off, the admission of waiters included. `HassConnection`: one event of a socket, a timer or
a caller; the network is external. `TimelineLog`: one file operation, because the process
may die, or the call fail, between two of them, although nothing else runs there. `WorldSession`: from one wait to the next, with `Settled` saying that
continuations that are ready run before anything outside is served.

**What is abstracted.** Contents that no property tells apart: prose, scores, positions,
prompts, telemetry, notifications. Users are roles. An LLM's or a reviewer's answer is
any answer. Instants are small numbers. Ids are fresh model values. What a module leaves
out is listed in its header.

## Runs and bounds

All passing runs exhaust their state space; together they take every action of every
next-state relation. States are distinct states found.

**agreement_safety** (`MCAgreement`, 468 000 states): one provider agent with two
services, two terms, four ids of which proposals may draw two and the watchdog's
successors the rest, holds of at most one tick, one tick of the clock, one silence of the
provider. Two rows are what a pairwise confusion needs (a row and its successor, a row of
the deleted service and one of the other); two services are what tells deletion of one
service from removal of the agent; one tick is enough to expire the longest hold; two
terms make a counter-offer differ. Ids, services and terms are symmetric: `ProviderOf` maps
every service to the one agent, and no property of this run is a liveness property. A party
that gives a reason gives the watchdog's own text, the one that matters.
It checks that nothing in force lacks its provider or service (`NoDeadContract`), that
holds are bounded and leave no deadline behind (`BoundedHold`), that every row leads the
life of the abstract contract (`LivesAsContract`, the refinement, [below](#refinement)),
and that a suspension by the provider or by a removal that does not bear the watchdog's text
stands, over any sweeps, removals and restorations, until a party terminates the agreement
(`ProviderSuspensionStands`).
The terminal statuses, the activation stamp, the terms and the single successor of a
re-signed row are all part of the abstract contract.

**agreement_failover** (1 400 states): one service, three ids, two silences; no symmetry,
fair sweeps. The second silence hits the re-signed successor. `WatchdogFollows`: a provider
silent for good ends with nothing active, one that stays back with nothing parked.

**invoke** (`MCInvokeLane`, 815 000 states): one agreement with a trigger, a deadline, an
all-clear and a quota of one per window; two events (what a re-arm needs, or a trigger and
its all-clear), one manual or flow invoke, one restart, one tick of each clock, parties
acting meanwhile. The window is shorter than the tick, so that it opens, fills, passes and
opens again. `SerialQuota`: deliveries that did not overlap keep the quota.
`ResetsFollowTriggers`: a reset undoes what was armed, once. `NothingStranded`: due arms
fire, calls that were answered settle.

**collab_life** (`MCCollaboration`, 90 000 states): initiator i; partners p and q in the first
batch, r by fallback; p secures a downstream promise first (the child collaboration it starts
may reach any agent); parties may hold, release or terminate a row; the runtime may stop. One
collaboration is enough for the properties of this run, which relate the rows, sessions and
answers of one collaboration and its child; several at once matter for the cap, which
`collab_cap_leak` has. `OnlyAcceptorsExecute`; `MeteredOnce` (completed work once, cancelled
work never); `PromiseBacked`; `RowsEndWithCollaboration`: no end of a collaboration, by
completion or cancel, a stop's included, leaves an agreement active, and no late accept makes
one active afterwards, only the end of a pause (which [does happen](#further-observations));
`Converges`: handshakes and evaluations all come to an answer.

**proposal_funnel** (`MCProposalService`, 445 000 states): three requests drawn from menus
that bring nine kinds of change into conflict in a world of two zones, one device and one
agent; one direct edit by the owner; one crash; quotas of two, so that the third install
meets them. Three requests are what it takes for one to be judged, one to be reviewed and
one to wait. `AuditTrail`, `ForcedWaitsForOwner`, `WorldAccountedFor` (what the world holds
is what the log says was applied and not reverted: devices, removals and grants alike),
`FunnelDrains`.

**world_session** (`MCWorldSession`, 849 000 states): two streams, two arrivals or
connections, one change of the rows among blank, simulated and real-device rows, one
hibernation, discards, one death of the process, deletion and shutdown, one tick. Three names
for runtimes and for state objects suffice: at most the record's, the driver's or the awaited
one are alive or referred to at once. The names are bounded like any other supply: an action
that begins a runtime or a state object waits for a free name (`Spares`, `NewObjects`), and
`WorldsMaterialize` would fail if one were ever missing where it matters. `OneWorld`,
`NoLeakedPin`, `NoFreshWorldOverACheckpoint` and `WorldsMaterialize` are checked.

`WorldsMaterialize`: whoever waits for the world gets it at the present moment, unless a
freeze, the shutdown, a death or a change of the rows comes between, or a build with real
devices never ends: that waits for Home Assistant (`server/hass/service.ts:112`), whose
handshake has no timer, and holds up the environment's chain as long.

`OneWorld` is stated for behaviours in which nothing from outside lands while a runtime is
being built; what happens otherwise is [below](#further-observations). The history variable
`torn` records it, and is reset by a reboot because a new process has no runtimes.

**llm_client** (`MCLlmClient`, 96 000 states): three requests of the adaptive lane, whose
limit moves between one and three, and one of the fixed lane, before one backend that is
down at first; a request slot is used again for ever; two callers give up; two failures
open the breaker for one tick. Three requests let two wait behind one, so that a waiter
given up stands before one that was not; the fixed lane brings the late answers of another
queue to the same breaker. `NoWedge`: a probe slot is held by somebody under way.
`SlotsAccounted`: active counts and queues match the requests, also when the limit grows or
shrinks under them. `WaitersSettle`, `BreakerRecovers`.

**hass_connection** (`MCHassConnection`, 91 000 states): two sockets at a time, two attempts
by callers and any number by the timer, one command, drops, refusals, wrong tokens and a close
at any moment. Two sockets are what an old one's late events need, and two attempts by callers
let one overlap the timer's after the first has served. `PromisesPend`: the promise callers
share is that of an attempt still under way. `NoTimerOnceClosed`; `CallersAnswered`: every
command is answered or fails whatever Home Assistant does, and every attempt ends, unless Home
Assistant owes the next frame of its handshake for ever (`Owed`), which a steady one never
does; `RecoversAfterDrop`: with the network steady, a connection that was lost is ready again,
was closed, or was taken over by an attempt of a caller's.

**timeline_log** (`MCTimelineLog`, 150 000 states): five records of one byte or three over
segments of two, with or without an old single file, batches of two, sweeps of three bytes,
one crash, one failing file operation. Lines larger than a segment, first lines that are, and
files that exceed the rest of a sweep's budget all occur, and a sweep may be cut off, by a
death or by a failing call, with its `.tmp` file written. `KeptOnce`: what reached the disk is
in a raw file or in a rollup in place, and never in two; the one exception are the records in
`orphans`, a history variable that holds what a `.tmp` file left behind has named.
`SealedStaysSealed`: nothing is written behind the active segment, nor under a name a rollup
covers. `Compacts`: old sealed files that fit a sweep go in the end. `timeline_tmp_loss` shows
that orphans are deleted unfolded.

The three **violation runs** each exhibit one disagreement between a comment and the code;
see [below](#where-the-code-and-its-documents-differ).

Deadlock is not checked where a behaviour ends because its bounds are spent (all requests
made, all collaborations over, the environment deleted). `Agreement` and `TimelineLog`
always have a step, so there it is checked.

## Fairness

Fairness is put on what the process does by itself, never on people, LLM verdicts or
failures.

* `Agreement`: WF(`Sweep`). `server.ts` runs the watchdog at boot and on an interval.
* `InvokeLane`: WF of an evaluation's next step, of the recheck timer and of the
  completion of a call. The event loop continues a ready handler; the recheck loop is
  re-armed while arms are pending; a device command answers or times out.
* `Collaboration`: WF of the disjunction `Work`: as long as a timer is due, an evaluation
  out or an execution running, one of them proceeds. Evaluations have a time limit and a
  fallback. Since only finitely many such steps are possible at a time, all are reached.
* `ProposalService`: WF(`Judge`), WF(`Verdict`). The promise chain goes on; the reviewer
  races a timeout.
* `LlmClient`: WF of time, and of an answer for each request: every provider call has a
  timeout. Nothing forces anybody to ask again, nor the backend to come back;
  `BreakerRecovers` is conditional on it.
* `HassConnection`: `ServerFairness` is what the process does by itself: WF of the reconnect
  timer, of each request's timeout, and of the handling of each socket's frames and close
  event. `PeerFairness` is about Home Assistant and holds only while it is `steady`: it then
  opens, authenticates or hangs up on who does not, and answers. Before, it may keep silent for
  ever; the code has a timer for requests (`hass/connection.ts:141`) and none for the handshake
  (:230-291). Drops, refusals and callers are free.
* `TimelineLog`: WF of the steps of a sweep under way (it is synchronous), of the periodic
  timer and of time. Nothing forces the simulation to write or the process to live.
* `WorldSession`: WF of the operation under way, of the start of a queued catch-up and of its
  chunks. Quiescence and catch-up waits have caps, and a build without real devices resolves or
  rejects by itself. A build with real devices has no fairness (`HassBuilding`): it awaits the
  handshake with Home Assistant.

## Proofs

`AgreementProofs` proves, for every set of agents, services, terms, ids and reasons, every
map from services to agents, every hold ceiling and every bound:

| theorem | statement |
| --- | --- |
| `TypeCorrect` | `Spec => []TypeOK` |
| `NoDeadContractHolds` | `Spec => []NoDeadContract` |
| `BoundedHoldHolds` | `Spec => []BoundedHold` |
| `ActivationHistoryHolds` | `Spec => []ActivationHistory` |
| `OneLiveSuccessorHolds` | `Spec => []OneLiveSuccessor` |

The assumptions are the two that `AgreementStore` and `Agreement` name:
`ConstantsAssumption` (services have a provider agent, the ceiling is a number, NULL is no
id, term or number) and `IdsAssumption`. None of the five properties is inductive. The
invariant is

    IInv == TypeOK /\ (\A a \in Created : RowInv(rows[a], now))
                   /\ LinksLive /\ SnapshotOK /\ OneLiveSuccessor

`RowInv` says what one row owes by itself. `LinksLive` says that a reference of *any* row,
terminal ones included, leads to something that exists: a terminal row may be relinked.
`SnapshotOK` says of the snapshots that wait for a revert that what they would relink is
what they would restore; without it a revert could bring back a link into nothing. Each
action is a lemma; actions that write one row go through `WriteStep`, those that rewrite
many through `RewriteStep`, and the sweep, which parks, closes and creates rows in one
step, has a proof of its own.

The second half of `AgreementProofs` has the action properties in the same generality:
`TerminalIsFinalHolds`, `NoReactivationHolds`, `TermsAreAgreedHolds`. Each action is
reduced to what it may do to one row (`Lawful`), and the three are read off.
`ProviderSuspensionStandsHolds` is about every suspension that does not bear the watchdog's
text, whoever may write what: the watchdog recognizes its own suspensions by that text alone.
Its proof (`Stood`, one lemma for the handlers, the world and the sweep each) comes down to
three things: of the parties' handlers only `Terminate` writes a suspended row; a removal
replaces its reason by another that is not the watchdog's, and a restoration leaves it; the
sweep closes rows of its own reason only.

### Refinement

`AgreementLifecycle` is a contract as its parties see it: a phase (offered, countered, in
force, paused, parked, refused, withdrawn, over), the terms and the offer on the table. It
says what each phase may turn into; that a contract comes into force on the terms last
offered; that what is over or was never concluded stays as it is; and that a contract is
born in force only in the place of a parked one that ends in the same step, one for one and
on the same terms. It knows no providers, services, removals, timers or reads, and lets many
contracts move at once, because a removal does.

`Agreement` maps each row to it by `ContractOf`: a held row is *paused* until a read or an
event settles it, a suspended one is *parked*, a terminated one is *over* if its activation
stamp says it was in force and *withdrawn* otherwise. `LivesAsContract` (`Lifecycle!Spec`
under that mapping) is checked by `agreement_safety`, and the last part of `AgreementProofs` proves
`ImplementsLifecycle`, `Spec => LivesAsContract`, for every value of the constants: the
empty table is the empty set of contracts, and a lemma for each action shows that each row
it touches makes a move of the contract or none. The proof rests on `IInv`, whose `RowInv`
relates the stamp to the status; for the sweep, the successors and the rows they renew are
put in one-to-one correspondence.

### The breaker and the queues

`LlmClientProofs` proves `NoWedgeHolds`, `Spec => []NoWedge`, for any requests, lanes, limits
and thresholds: while the breaker is probing, a request that took the probe slot is queued
or running. It is not inductive as it stands: the strengthening says that the breaker keeps
its type and that idle requests are no probes. An abort or a late answer frees the slot
whoever holds it, so that it is enough that the last holder's end frees it.

`SlotsAccountedHolds` and `TypesHold` (`Spec => []SlotsAccounted`, `[]TypeOK`) rest on
`SlotsInv`: types, `NoWedge`, and for each lane that the set of running requests is finite
with the active count as its cardinality, that the queue holds the waiting requests once each,
and that a queue is empty when nothing of its lane runs. Finiteness is part of the invariant
because the set of requests itself need not be finite. The centre is `AdmitEffect`: the
admission loop stops at the first waiter that was not given up (`GaveUpMeans`, by the least
such position), so that what leaves the queue starts at most one request and drops only those
given up. A completion admits once when the limit grows and once for the slot it frees; the
two sets started are disjoint, which is what keeps the count.

### The connection to Home Assistant

`HassConnectionProofs` proves `TypesHold`, `PromisesPendHolds` and `NoTimerOnceClosedHolds`
(`Spec => []TypeOK`, `[]PromisesPend`, `[]NoTimerOnceClosed`) for any sockets, commands and
number of attempts, from `HassAssumption`. A step of the code is a composition of operators on
the state of the server, so the proof has a lemma for each operator (`FailSound`,
`FailAllSound`, `RequestSound`, `EstablishSound`, ...) saying that it keeps a state typed and
its promises, and an action follows from those it is made of. The strengthening is in the last
promise of `PromisesPend`: while the connection says `connecting` there is an attempt under
way *that has no bootstrap request pending*. Without it the answer to an old attempt's
subscription might settle the very attempt the state stands for.

### The consumption lane

`InvokeLaneProofs` proves `TypesHold`, `ResetsFollowTriggersHolds` and `SerialQuotaHolds`
(`Spec => []TypeOK`, `[]ResetsFollowTriggers`, `[]SerialQuota`) for any agreements, terms,
event kinds, bounds and clocks, from `ConstantsAssumption` and `InvokeAssumption`. Both
properties count rows and calls. `Where(f, T)` are the places of a sequence or a map that
hold a member of `T`; `WhereAppend`, `WhereWith` and `WhereWithout` say how their number
changes, and `NextEffect` reduces each of the code's steps to what it does to calls, usage
and arms: nothing, start a call, refuse one, target one, settle one, forget them all
(`Effect`). Neither property is inductive:

* That resets do not outnumber deliveries needs that a reset is paid with an arm. The recheck
  tick collects what is due and fires it afterwards; `DueHeld` says that it keeps the thread
  until it is over and that what it has still to visit stays armed. `Waits` says that the
  evaluation a call hands the thread back to exists and is not running meanwhile.
* The quota is tested before the awaits and the row written after them. `Room` says that the
  deliveries the gate counted still leave room when the call delivers: an agreement that never
  raced has one consuming call at most (`Alone`), nobody else can use the room, and targeting
  only moves the start of the call forward, where it sees fewer deliveries (`LaterSeesLess`).
  `Within` is the quota of every window that has begun.

### The collaboration

`CollaborationProofs` proves `OnlyAcceptorsExecuteHolds`, `MeteredOnceHolds`,
`PromiseBackedHolds`, `RowsEndWithCollaborationHolds` and `TypesHold` for any roots, agents,
rankings, batch sizes, caps and gates, from `ConstantsAssumption` and
`CollaborationAssumption`. The invariant is in two halves.

* `Talk`, about handshakes and answers. `Consent` is the property, strengthened to everyone
  the coordinator counts as accepted. It survives the fallback rounds because of `Asked`:
  whoever was asked once is out of the ranking, so no round asks a partner that has accepted
  and turns its answer back. `Covered` says of a hop-2 collaboration that it is opened on the
  way to one answer and that a secured one has an acceptance in it; a proposal that is
  delegated is therefore never evaluated again.
* `Books`, about rows and usage. A metered row is final, so that no later close or party
  write changes its reason (`Metered`). Cancelled collaborations bill nothing because only a
  completed one ever has (`Unbilled`). What ended is not remembered, so a late acceptance
  lands no row in it (`Closed`). That is what `RowsEndWithCollaborationHolds` rests on: an end
closes every active row of what ends (`EndLasts`), an acceptance lands only in what is still
remembered (`AcceptLasts`), and of the rest only a party's write makes a row active, one that
was on hold (`Last`, `NextLasts`).

A step is reduced to what it may do to the talk about one root (`GoesOn`: an answer or a
phase moves on; `Asks`: a new round) and about one delegation (`Covers`), and to one row
(`Books1`); `TalkStep` and `BooksStep` close the induction from there, and each action is a
lemma.

### The proposal funnel

`ProposalServiceProofs` proves `TypesHold`, `AuditTrailHolds`, `ForcedWaitsForOwnerHolds` and
`WorldAccountedForHolds` for any world to begin with, menus, quotas and numbers of proposals,
edits and crashes, from `ProposalAssumption`: the world to begin with is one, base objects have
owners, and the names of the objects a proposal brings (its number) are not those of base
objects, as the generated ids of the code are not. The invariant is

    IInv == Shape /\ Chain /\ AuditTrail /\ OwnersVerdict /\ Saved /\ Accounts

`Chain` says where the rows of the requests on the promise chain stand: only the first has a
status, and only while its review is out. Without it the trail could not be kept, because a
judging step writes a status over whatever is there. `Saved` says that the row of an applied
removal keeps what it removed, and nothing else: that is what a revert writes back. `Accounts`
is `WorldAccountedFor` made inductive. The world changes in three ways only: a proposal is
written into it, one is undone, or the owner edits it; each is shown once to keep the accounts
(`ApplyKeepsAccounts`, `RevertKeepsAccounts`, `EditKeepsAccounts`), and an action is
reduced to one of them. That a removal which stands keeps its object away is true as long as no
proposal was reverted twice: a death between the revert's transaction and its transition lets
the second revert bring the object back. `RemovalsStand` therefore has that hypothesis, as the
property has.

### The world session

`WorldSessionProofs` proves `TypesHold`, `OneWorldHolds`, `NoLeakedPinHolds` and
`NoFreshWorldOverACheckpointHolds` for any finite set of streams, any names, rows, bounds and
ends, from `WorldSessionAssumption`. None of the three safety properties is inductive, and they
need one another. The invariant is

    IInv == Shape /\ Pins /\ NoLeakedPin /\ Still /\ Paths

* `Pins`: a stream has at most one request on its way, waits while it has, and holds no pin
  meanwhile. It is what makes a count of holders grow by one when a pin lands (`ObservedIs`).
* `Still`, what holds of the world wherever an operation stands: `OneWorld`; `Known`, that
  what is on disk is known to the registry by a record or a checkpoint; `FreezeWaits`, that a
  record which waits to be frozen is accompanied by a live record and a session that is not
  hibernated. The last is the heart: a freeze is not on the session's chain, and a rebuild may
  replace the record it waits for. If the session could then be found without its world, the
  operation would create a fresh one, and the freeze would land beside it.
* `Paths`, what holds on an operation's way between the points where it gives way: that what it
  waits for is the record's runtime or that record is gone (`Waits`), exactly the record's
  unless something was torn (`Untorn`), that its session is still there unless the
  environment has been deleted or the service closed (`HasSession`), that nothing waits to be
  frozen where the way leads to a creation (`NothingToFreeze`), and that a creation under
  way has neither record nor checkpoint under it (`Fresh`), which is
  `NoFreshWorldOverACheckpoint` and more.

The invariant was checked by TLC, part by part, on larger instances than the run's before it
was proved. Steps that leave the shape of the world alone (`SameWorld`) are disposed of by
`StillStays` and `PathsStay`; the freeze, discard, deletion, shutdown and death have a lemma
each, and so has every step of an operation. Counting uses the finiteness of the set of
streams, names the existence of a least element of a set of numbers (`LeastIs`).

### The timeline on disk

`TimelineLogProofs` proves, for any number of records, sizes of lines, caps, budgets, crashes
and failures, from `LogAssumption`:

| theorem | statement |
| --- | --- |
| `TypesHold` | `Spec => []TypeOK` |
| `SealedStaysSealedHolds` | `Spec => SealedStaysSealed` |
| `KeptOnceHolds` | `Spec => []KeptOnce` |

None has a hypothesis on where a sweep may be cut off. `KeptOnceHolds` bounds the loss that
`timeline_tmp_loss` exhibits: a record that is gone was in a file that a `.tmp` file, left by a
sweep cut off between its write and its rename, has named. The invariant is

    IInv == TypeOK /\ Waiting /\ Behind /\ Apart

`Waiting`: what is in the buffer is new, in every element. `Behind`: what a manifest covers,
what a sweep folds and what it still has to delete lies behind the active segment; so the
number of the active segment never falls, and appending never meets a covered name. `Apart`:
a record is in one raw file at most, and raw files and rollups hold only what has landed.
`DiskInv == Folds /\ FoldedOnce /\ Swept /\ Kept` is inductive beside it: a
rollup holds all of its sources that are still there and nothing of another file (`Folds`,
which is why deleting a covered file loses nothing and why two rollups cannot share a record),
and `Swept` says for each step of the sweep that what it folds is in no rollup in place, and
that what it deletes, or what a left-over `.tmp` file names, is in one or is an orphan
(`Safe`). `Kept` is the property without its count.

What appending a batch leaves behind is computed by recursion over its lines, and is shown for
every prefix by least counterexample (`AppendedLinesIs`): each record is put in one file, none
of them behind the active segment. The function the recursion defines is itself shown to exist
that way (`FoldIs`). The content of a sweep's budget is needed by no theorem: whatever subset
of the old sealed files a sweep takes, the three hold.

### Only model-checked

All liveness properties. Liveness under fairness and `ENABLED` are out of the prover's reach,
and so are recursive operators (no module here declares one). Every safety property that a
passing run checks is proved.

## Where the code and its documents differ

Each has a violation run whose counterexample is a behaviour of the code.

* **collab_cap_leak** (`OverloadedWhenBusy`). `activeCollaborations` of
  `CollaborationProposalHandler.ts` only grows, so an agent that has accepted five
  collaborations turns every later one down as overloaded.
* **hass_second_attempt** (`OneAttempt`). The reconnect timer clears `connectPromise` and
  calls `connect` (`server/hass/connection.ts:376`) although a caller may have an attempt
  under way: two sockets, one table of pending requests, and the failure of either ends the
  other. The comment at :117 says that `connect` is idempotent while an attempt is in flight.
* **timeline_tmp_loss** (`DeletedAfterRename`). A `.tmp` rollup left by a process that died
  between write and rename passes for a rollup (`core/storage/segmented-log.ts:101` asks for
  the prefix only). The next sweep deletes the raw files it names, and since it does not
  count for the next sequence number, the next rollup is written over it: the records are
  gone. `timeline-compactor.ts:6` says that raw segments are deleted only after the rename.

## Further observations

Behaviours met while modelling that no run is spent on. Each is in the model unless it is said
to be from the code alone, so a run can show it by stating the property.

*Agreements and consumption.* A party's reason for a suspension is free text and goes into the
column by which the watchdog knows its own suspensions (`routes/agreements.ts:1033`,
`agreement-failover.ts:129`): a provider that suspends with the text `provider-unreachable`
finds its agreement terminated and a successor in force after the next sweep, although
`docs/lifecycles/agreement.md:21` says that the parties may only terminate such a row and :118
that parties never write that column. What holds is `ProviderSuspensionStands`. The quota gate
of `routes/agreements.ts:1369` is passed once, before the targeting and execution awaits, and
counts usage rows that have landed: two invokes in flight both pass and both deliver, though
the comment at :1356 promises a ceiling. What holds is `SerialQuota`. `evaluate` of
`agreement-trigger-executor.ts:178` filters its candidates once and then awaits one after the
other: an agreement suspended meanwhile is executed, though the comment at :154 says the
status is re-read at fire time. A hold deadline stays on a terminated row and the view shows
it (`db/agreement-store.ts:602`, `agreements/view.ts:268`). A manual invoke executes the row
it read before its targeting await (`routes/agreements.ts:1419`, :1338). The all-clear loop
walks the live map of arms and takes an arm made while it runs
(`agreement-trigger-executor.ts:171`). A reset that falls due under a hold that has expired
but was not read is dropped (:422). Arms and calls in flight are lost on a restart, as
documented. One slow command delays the candidates behind it.

*Collaborations.* The bridge closes the rows that are `active` (`db/agreement-store.ts:1015`);
one on hold when its collaboration ends stays, and a release makes it active for good, against
the promise at :65 that it is terminated when the collaboration ends. What holds is
`RowsEndWithCollaboration`. An accept that comes after the cancel leaves a live session behind
(`EngineRuntime.ts:2181`, `CognitiveAgent.ts:1963`). A child row that lands after its root has
ended is never closed (`ac-agreement-bridge.ts:218`). A row a party terminates during the
execution is not metered (:497) though `docs/lifecycles/agreement.md:83` ties "no metering" to
an executor that never ran. Losers of a Contract-Net round that accepted late are metered as
successes. Rows of collaborations that execute when the runtime stops, or the process ends,
stay active.

*Proposals.* `submitNow` judges against the environment row read when the request arrived, not
when its turn came (`proposal-service.ts:273`, against :251): a device for a zone that is under
review is refused for an unknown zone after the zone was applied; the unit test of the
sequence passes because its stub store mutates the captured row. A proposal under review when the process dies stays in `ai_review`: nothing
takes it up at boot. A death between the revert's transaction and its transition
(`proposal-service.ts:780`) lets the revert run again. Apply's second check looks at `ok`
and not at `forceEscalate`. Reverting the install of a zone and then a removal puts a
device into a zone that is not there; reverting an install and then the removal of what it
installed brings the device back. Of two claims of one zone by one author, the revert of
either takes the grant. The revert of a removal may exceed the quotas, and the revert of
a modification overwrites later ones.

*World sessions.* A freeze zeroes the observers under open streams; after the next wake an
old stream that closes releases the pin of a new one, and a watched world turns idle
(`world-session.ts:444`; `docs/lifecycles/world-session.md` says a release against an
outdated state has no effect). A build with real devices that is under way when the
environment is deleted or the server closed recreates the session and its runtime
(invariant b of that document). A build that fails leaves the old runtime paused. A
rebuild from simulated to real devices that overlaps a freeze leaves a live and a
hibernated record side by side. A catch-up goes on advancing the old runtime after its
state was exported, and its dues fire again in the new one. Wake sets the session idle
whatever observers it has. The checkpoint is kept on wake, so a later death rolls the
world back to the last freeze.

*LLM client.* The guard of `circuit-breaker.ts` lets one probe out at a time, yet an aborted
request that was let through earlier frees the slot of a probe that is still under way, so
that several run at once (against "exactly ONE probe passes", :17). Requests that queued
while the breaker was closed still reach the backend while it is open. A 429 counts as a
failure and may open the breaker, though :22 says that an answered error does not. The
controller raises the limit after a 429 in its window unless the current answer is one. After
the limit has grown, each completion admits at most two waiters, while newcomers take the
free slots.

*HASS.* The end of one attempt sets the state of the connection whosever it is: a caller's
attempt that is refused while the timer's is seeding leaves the connection `disconnected` with
a healthy, subscribed socket and no timer, until the next caller replaces it. A timer that
fires while a caller's attempt is seeding finds the connection `ready`, does nothing, and if
that attempt then fails nothing tries again: hence the exemption in `RecoversAfterDrop`. The
replaced socket stays open and authenticated, and its close event, whenever it comes, rejects
every request and takes the new connection down. `closed` is never reset, and a refused token
stops the reconnecting for good. Requests have a timer and the handshake has none
(`hass/connection.ts:230`): a Home Assistant that takes the connection and says nothing leaves
`connect`, `ensureReady` and with them the chain of operations of every environment that is
building a runtime with real devices pending (`sim-registry/runtime-builder.ts:275`). From the
code alone, since the model leaves entities out: the subscription id is read from the sequence
counter after an await (`hass/connection.ts:364`), so that a command sent in between makes it
wrong and the connection deaf; changes between the snapshot and the subscription are missed.

*Timeline.* A failing append drops the rest of its batch, though the writer's comment says
that records are never dropped. The old single file is considered last and may be skipped by
the budget, so that rollups do not always precede the raw tail. A file larger than a sweep's
budget is never compacted. Until the next sweep heals it, a crash between rename and
deletion lets readers see records twice.

## What is not modelled

The signing gates beyond "an accept may not happen"; provider transfer, retirement
announcements and reminders; calendar quota windows; receipts and settlement; read delivery
and stream delivery; the proposal kinds `inject-scenario`, `adopt-config` and
`ownership-transfer` and the geometric checks; frames, LOD tiers, compression, manual steps
and commands of a session; the response cache, the replay mode, the retries and the model
health of the LLM client; Home Assistant's entities and devices, twin sync, shadow mode and the safety gate;
the arithmetic of rollups, sources without a single parsable record (deleted without a
rollup), the readers of the timeline, trajectory collection and replay; and the components marked ○, for the reasons
`PROJECT.json` gives with each. Physics, cognition and language are out of reach: their
behaviour is numbers and prose.

## Plan

Modules are written so that they can be proved about: constants with named assumptions, one
action per operation, no recursive operators, invariants as conjunctions of named parts.

1. *Done*: `AgreementStore`, `Agreement` with its invariants and its refinement proved,
   `InvokeLane`, `Collaboration`, `ProposalService`, `WorldSession`, `LlmClient`,
   `HassConnection` and `TimelineLog`, each with its safety proved.
2. **The ephemeral rows** of `Collaboration` as implementations of `AgreementLifecycle`.
3. **Stream sessions**, as an extension of `InvokeLane`: no stream outlives its agreement's
   active state.
4. **Core engine**: the flow engine's waits and retries with the trigger engine's edge
   state; the plan executor; `ResourceAllocator` with a proof that nothing is lost.
5. **Twin sync**: echo suppression and the safety gate over `HassConnection`.
6. **Simulation registry**: the record cap against use.
7. **Proofs**: the invariants of the modules above as they come; for what exists, every
   safety property a run checks has its theorem.

Runs are few by choice: each new module gets one passing run with small bounds; where two
questions can be asked of one instance they share a run.
