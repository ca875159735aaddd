----------------------------- MODULE Agreement -----------------------------
(***************************************************************************)
(* The explicit (marketplace) agreement lifecycle of one environment:      *)
(* routes/agreements.ts, the remove/restore lanes of a provider agent, the *)
(* deletion of a service and the unreachable-provider watchdog             *)
(* (agreement-failover.ts), all acting on the rows of AgreementStore.      *)
(*                                                                         *)
(* Every handler below is synchronous in the server (better-sqlite3, no    *)
(* await between its read and its write), so a handler is one step.  The   *)
(* interleavings that matter are between handlers of different actors, the *)
(* clock, the liveness of provider agents, and a proposal's revert that    *)
(* replays a snapshot taken many steps earlier.                            *)
(*                                                                         *)
(* Abstractions: the users behind the roles (a consumer action is enabled  *)
(* for "the consumer of the row"; a 403 or 409 answer changes nothing but  *)
(* the expired hold that the fetch settles, which is SettleOnRead); the    *)
(* signing gates (whether an accept passes them is not tracked: an accept  *)
(* may simply not happen, and the reminded agent provider may go either    *)
(* way); the remind window; notifications and broadcasts.  The actor of    *)
(* the newest 'agreement-transition' audit row is kept (audit), and so is  *)
(* the supersedesAgreementId of a successor's audit row (supersedes).      *)
(***************************************************************************)
EXTENDS AgreementStore, FiniteSets

CONSTANTS
    Ids,            \* agreement ids (randomUUID: a fresh one at every creation)
    ProposalIds,    \* bound: the ids Propose may draw; successors draw the rest
    MaxNow,         \* bound of the clock
    MaxFlaps        \* bound on how often a provider falls silent

ASSUME IdsAssumption ==
    /\ None \notin Ids
    /\ ProposalIds \subseteq Ids
    /\ MaxNow \in Nat
    /\ MaxFlaps \in Nat

VARIABLES
    rows,        \* service_agreements: a function on the ids created so far
    agents,      \* the agent rows that exist
    services,    \* the service rows that exist
    removed,     \* per agent: the snapshot an applied remove-agents proposal keeps
    probe,       \* per agent: what latestHeartbeatMs says against unreachableMs
    flaps,       \* number of times a provider has fallen silent
    now,         \* wall clock
    supersedes,  \* audit: the agreement a failover successor replaces
    audit        \* audit: the actor of a row's newest transition

vars == <<rows, agents, services, removed, probe, flaps, now, supersedes, audit>>
worldVars == <<agents, services, removed>>
probeVars == <<probe, flaps>>

Actors == {"consumer", "provider", "party", "remover", "system"}
Probes == {"fresh", "silent", "unknown"}

\* A removal snapshot: the agent's services, and each agreement's service.
Snapshots == [services : SUBSET Services,
              ids      : SUBSET Ids,
              link     : [Ids -> Services \cup {None}]]

----------------------------------------------------------------------------
Created == DOMAIN rows

\* getVisibleAgreementOrThrow: every fetch settles an expired hold first.
Settled(a) == SettleExpiredHold(rows[a], now)

\* One row changes, and its transition is audited under the given actor.
Write(a, row, actor) ==
    /\ rows'  = [rows EXCEPT ![a] = row]
    /\ audit' = [audit EXCEPT ![a] = actor]
    /\ UNCHANGED <<worldVars, probeVars, now, supersedes>>

\* Mutated form: the watch query forgets WHY a row is suspended.
WatchedAnySuspended(a) ==
    /\ rows[a].source = "explicit"
    /\ rows[a].provider # None
    /\ rows[a].service # None
    /\ rows[a].status \in {"active", "suspended"}

Watched(a) ==
    /\ rows[a].source = "explicit"
    /\ rows[a].provider # None
    /\ rows[a].service # None
    /\ \/ rows[a].status = "active"
       \/ rows[a].status = "suspended" /\ rows[a].reason = PROVIDER_UNREACHABLE

----------------------------------------------------------------------------
Init ==
    /\ rows = [a \in {} |-> a]
    /\ agents = Agents
    /\ services = Services
    /\ removed = [g \in Agents |-> None]
    /\ probe = [g \in Agents |-> "fresh"]
    /\ flaps = 0
    /\ now = 0
    /\ supersedes = [a \in {} |-> a]
    /\ audit = [a \in {} |-> a]

\* POST /api/services/:id/agreements
Propose(a, s, terms) ==
    /\ a \in ProposalIds \ Created
    /\ s \in services
    /\ rows' = [b \in Created \cup {a} |->
                  IF b = a
                    THEN CreateAgreement(s, ProviderOf[s], terms, "explicit",
                                         "proposed", None)
                    ELSE rows[b]]
    /\ supersedes' = [b \in Created \cup {a} |-> IF b = a THEN None ELSE supersedes[b]]
    /\ audit' = [b \in Created \cup {a} |-> IF b = a THEN "consumer" ELSE audit[b]]
    /\ UNCHANGED <<worldVars, probeVars, now>>

\* POST /api/agreements/:id/decide on a proposed row, by the provider.
DecideProposal(a, status, reason) ==
    /\ Settled(a).status = "proposed"
    /\ status \in {"active", "rejected"}
    /\ Write(a, SetStatus(Settled(a), status, reason), "provider")

\* POST /api/agreements/:id/decide on a countered row, by the consumer.
DecideCounter(a, accept, reason) ==
    /\ Settled(a).status = "countered"
    /\ accept => Settled(a).countered # None
    /\ Write(a, IF accept THEN AcceptCounter(Settled(a), reason)
                          ELSE SetStatus(Settled(a), "rejected", reason), "consumer")

\* POST /api/agreements/:id/counter, by the provider, one round.
Counter(a, terms) ==
    /\ Settled(a).status = "proposed"
    /\ terms # Settled(a).terms
    /\ Write(a, CounterRow(Settled(a), terms), "provider")

\* POST /api/agreements/:id/remind of a proposed row whose provider is an
\* agent: one deterministic verdict at remind time, audited as the provider's.
RemindAgentProvider(a, status, reason) ==
    /\ Settled(a).status = "proposed"
    /\ Settled(a).provider \in agents
    /\ Settled(a).service \in services
    /\ \/ status = "active" /\ reason = None
       \/ status = "rejected" /\ reason \in PartyReasons
    /\ Write(a, SetStatus(Settled(a), status, reason), "provider")

\* POST /api/agreements/:id/suspend, by the provider.
Suspend(a, reason) ==
    /\ Settled(a).status = "active"
    /\ Write(a, SetStatus(Settled(a), "suspended", reason), "provider")

\* POST /api/agreements/:id/hold, by the consumer.
Hold(a, durationSec) ==
    /\ Settled(a).status = "active"
    /\ Write(a, HoldRow(Settled(a), now + durationSec), "consumer")

\* DELETE /api/agreements/:id/hold, by the consumer.
ReleaseHold(a) ==
    /\ Settled(a).status = "held"
    /\ Write(a, Resume(Settled(a)), "consumer")

\* POST /api/agreements/:id/terminate, by a party or the environment's owner.
Terminate(a, reason) ==
    /\ Settled(a).status \notin Terminal
    /\ Write(a, SetStatus(Settled(a), "terminated", reason), "party")

\* GET of one row, or GET of the list: expired holds end, unaudited.
SettleOnRead(read) ==
    /\ \E a \in read : HoldExpired(rows[a], now)
    /\ rows' = [a \in Created |-> IF a \in read THEN Settled(a) ELSE rows[a]]
    /\ UNCHANGED <<worldVars, probeVars, now, supersedes, audit>>

----------------------------------------------------------------------------
ServicesOf(g) == {s \in services : ProviderOf[s] = g}
RowsOf(g)     == {a \in Created : rows[a].provider = g}

\* The agent row goes, and its service rows cascade; its agreements retire first.
RemoveProvider(g) ==
    /\ g \in agents
    /\ rows' = [a \in Created |-> IF a \in RowsOf(g) THEN RetireProvider(rows[a])
                                                     ELSE rows[a]]
    /\ audit' = [a \in Created |->
                   IF a \in RowsOf(g) /\ rows[a].status \notin Terminal
                     THEN "remover" ELSE audit[a]]
    /\ agents' = agents \ {g}
    /\ services' = services \ ServicesOf(g)
    /\ UNCHANGED <<probeVars, now, supersedes>>

\* DELETE /api/agents/:id: nothing is kept to restore from.
DeleteAgent(g) ==
    /\ RemoveProvider(g)
    /\ UNCHANGED removed

\* The apply of a remove-agents proposal: the snapshot is taken before the retire.
ApplyRemoveAgents(g) ==
    /\ RemoveProvider(g)
    /\ removed' = [removed EXCEPT ![g] =
                     [services |-> ServicesOf(g),
                      ids      |-> RowsOf(g),
                      link     |-> [a \in Ids |-> IF a \in RowsOf(g)
                                                    THEN rows[a].service ELSE None]]]

\* The revert of that proposal: agent and services return, the rows relink.
RevertRemoveAgents(g) ==
    /\ removed[g] # None
    /\ g \notin agents
    /\ agents' = agents \cup {g}
    /\ services' = services \cup removed[g].services
    /\ rows' = [a \in Created |-> IF a \in removed[g].ids
                                    THEN Relink(rows[a], removed[g].link[a], g)
                                    ELSE rows[a]]
    /\ removed' = [removed EXCEPT ![g] = None]
    /\ UNCHANGED <<probeVars, now, supersedes, audit>>

\* ServiceStore.deleteService, the one funnel of service-row deletion.
DeleteService(s) ==
    /\ s \in services
    /\ rows' = [a \in Created |-> IF rows[a].service = s THEN RetireService(rows[a])
                                                         ELSE rows[a]]
    /\ audit' = [a \in Created |->
                   IF rows[a].service = s /\ rows[a].status \notin Terminal
                     THEN "remover" ELSE audit[a]]
    /\ services' = services \ {s}
    /\ UNCHANGED <<agents, removed, probeVars, now, supersedes>>

----------------------------------------------------------------------------
\* What the watchdog's liveness probe answers for a provider agent.
Heartbeat(g) ==
    /\ probe[g] # "fresh"
    /\ probe' = [probe EXCEPT ![g] = "fresh"]
    /\ UNCHANGED <<rows, worldVars, flaps, now, supersedes, audit>>

FallSilent(g) ==
    /\ probe[g] = "fresh" /\ flaps < MaxFlaps
    /\ probe' = [probe EXCEPT ![g] = "silent"]
    /\ flaps' = flaps + 1
    /\ UNCHANGED <<rows, worldVars, now, supersedes, audit>>

\* No running world session, or no heartbeat-tracked registration: never judged.
LoseProbe(g) ==
    /\ probe[g] # "unknown"
    /\ probe' = [probe EXCEPT ![g] = "unknown"]
    /\ UNCHANGED <<rows, worldVars, flaps, now, supersedes, audit>>

\* Mutated form: the silence comparison the wrong way round.
ToResignInverted == {a \in Created : /\ Watched(a)
                                     /\ rows[a].status = "suspended"
                                     /\ probe[rows[a].provider] = "silent"}

ToPark == {a \in Created : /\ Watched(a)
                           /\ rows[a].status = "active"
                           /\ probe[rows[a].provider] = "silent"}

ToResign == {a \in Created : /\ Watched(a)
                             /\ rows[a].status = "suspended"
                             /\ probe[rows[a].provider] = "fresh"}

\* Mutated form: the re-signed row is not closed.
SweptRowLeftOpen(a) ==
    IF a \in ToPark THEN SetStatus(rows[a], "suspended", PROVIDER_UNREACHABLE)
    ELSE rows[a]

SweptRow(a) ==
    IF a \in ToPark THEN SetStatus(rows[a], "suspended", PROVIDER_UNREACHABLE)
    ELSE IF a \in ToResign THEN SetStatus(rows[a], "terminated", PROVIDER_RECOVERED)
    ELSE rows[a]

\* resignRecoveredAgreement's successor: the same contract, born active.
Successor(a) ==
    CreateAgreement(rows[a].service, rows[a].provider, rows[a].terms,
                    rows[a].source, "active", rows[a].collab)

(***************************************************************************)
(* One run of sweepProviderFailover: every watched row is judged once, in  *)
(* one synchronous pass; heir gives each re-signed row its fresh id.       *)
(***************************************************************************)
Sweep ==
    /\ ToPark \cup ToResign # {}
    /\ \E heir \in [ToResign -> Ids \ (Created \cup ProposalIds)] :
         /\ \A a, b \in ToResign : heir[a] = heir[b] => a = b
         /\ LET heirs == {heir[a] : a \in ToResign}
                Predecessor(b) == CHOOSE a \in ToResign : heir[a] = b
            IN  /\ rows' = [b \in Created \cup heirs |->
                              IF b \in heirs THEN Successor(Predecessor(b))
                                             ELSE SweptRow(b)]
                /\ supersedes' = [b \in Created \cup heirs |->
                              IF b \in heirs THEN Predecessor(b) ELSE supersedes[b]]
                /\ audit' = [b \in Created \cup heirs |->
                              IF b \in heirs \cup ToPark \cup ToResign
                                THEN "system" ELSE audit[b]]
    /\ UNCHANGED <<worldVars, probeVars, now>>

Tick ==
    /\ now < MaxNow
    /\ now' = now + 1
    /\ UNCHANGED <<rows, worldVars, probeVars, supersedes, audit>>

----------------------------------------------------------------------------
OptionalReasons == PartyReasons \cup {None}

Negotiate ==
    \/ \E a \in Ids, s \in Services, terms \in Terms : Propose(a, s, terms)
    \/ \E a \in Created :
         \/ \E status \in {"active", "rejected"}, reason \in OptionalReasons :
              DecideProposal(a, status, reason) \/ RemindAgentProvider(a, status, reason)
         \/ \E accept \in BOOLEAN, reason \in OptionalReasons :
              DecideCounter(a, accept, reason)
         \/ \E terms \in Terms : Counter(a, terms)

Perform ==
    \E a \in Created :
      \/ \E reason \in OptionalReasons : Suspend(a, reason) \/ Terminate(a, reason)
      \/ \E durationSec \in 1..HOLD_MAX_SEC : Hold(a, durationSec)
      \/ ReleaseHold(a)

Reads == \E read \in {{a} : a \in Created} \cup {Created} : SettleOnRead(read)

World ==
    \/ \E g \in Agents : \/ DeleteAgent(g) \/ ApplyRemoveAgents(g)
                         \/ RevertRemoveAgents(g)
    \/ \E s \in Services : DeleteService(s)

Liveness ==
    \E g \in Agents : Heartbeat(g) \/ FallSilent(g) \/ LoseProbe(g)

Next == Negotiate \/ Perform \/ Reads \/ World \/ Liveness \/ Sweep \/ Tick

Spec == Init /\ [][Next]_vars

\* server.ts runs the sweep at boot and then on an interval timer.
FairSpec == Spec /\ WF_vars(Sweep)
----------------------------------------------------------------------------
\* Type correctness.
TypeOK ==
    /\ Created \subseteq Ids
    /\ rows \in [Created -> Row]
    /\ agents \subseteq Agents
    /\ services \subseteq Services
    /\ removed \in [Agents -> Snapshots \cup {None}]
    /\ probe \in [Agents -> Probes]
    /\ flaps \in Nat
    /\ now \in Nat
    /\ supersedes \in [Created -> Ids \cup {None}]
    /\ audit \in [Created -> Actors]

(***************************************************************************)
(* No dead contract is negotiated or in force: while an agreement can      *)
(* still be decided, invoked or held, its provider agent and its service   *)
(* exist and belong together, whatever was deleted, retired, restored or   *)
(* re-signed in between.  The signing gates of decide and counter are      *)
(* skipped for a row without service_id, so this is also why they are not. *)
(***************************************************************************)
NoDeadContract ==
    \A a \in Created :
        rows[a].status \in Negotiating \cup InForce =>
            /\ rows[a].provider \in agents
            /\ rows[a].service \in services
            /\ ProviderOf[rows[a].service] = rows[a].provider

(***************************************************************************)
(* A pause is bounded: a held row has a deadline at most HOLD_MAX_SEC      *)
(* away, and a row in any other state than held or terminated has none, so *)
(* that no later hold or read can inherit a stale deadline.                *)
(***************************************************************************)
BoundedHold ==
    \A a \in Created :
        /\ rows[a].status = "held" => /\ rows[a].hold \in Nat
                                      /\ rows[a].hold <= now + HOLD_MAX_SEC
        /\ rows[a].status \notin {"held", "terminated"} => rows[a].hold = None

(***************************************************************************)
(* The activation stamp tells "was in effect" from "never was": the        *)
(* outcome shown for a terminated agreement (terminatedAgreementOutcome)   *)
(* reads it, so every road into and out of force must leave it right.      *)
(***************************************************************************)
ActivationHistory ==
    \A a \in Created :
        /\ rows[a].status \in InForce \cup {"suspended"} => rows[a].activated
        /\ rows[a].status \in Negotiating \cup {"rejected"} => ~rows[a].activated

(***************************************************************************)
(* "Terminate + re-sign" never yields two live contracts for one: a        *)
(* successor replaces a row that is terminated, has identical terms and    *)
(* parties' service, and is its only successor; and every row closed as    *)
(* provider-recovered has one.                                             *)
(***************************************************************************)
OneLiveSuccessor ==
    /\ \A b \in Created : supersedes[b] # None =>
         /\ supersedes[b] \in Created
         /\ rows[supersedes[b]].status = "terminated"
         /\ rows[b].terms = rows[supersedes[b]].terms
         /\ rows[b].activated
    /\ \A b, c \in Created :
         supersedes[b] = supersedes[c] /\ supersedes[b] # None => b = c

\* A rejected or terminated agreement never changes status, reason or terms
\* again, also when a proposal's revert relinks the history rows.
TerminalIsFinal ==
    [][\A a \in Created :
         rows[a].status \in Terminal =>
            /\ a \in DOMAIN rows'
            /\ rows'[a].status = rows[a].status
            /\ rows'[a].reason = rows[a].reason
            /\ rows'[a].terms = rows[a].terms]_vars

\* A suspended agreement has no way back into force: it parks or terminates.
NoReactivation ==
    [][\A a \in Created :
         rows[a].status = "suspended" =>
            rows'[a].status \in {"suspended", "terminated"}]_vars

\* The contract in force is what its parties agreed on: the terms change in
\* one step only, the consumer's accept of the counter-offer on the table.
TermsAreAgreed ==
    [][\A a \in Created :
         rows'[a].terms # rows[a].terms =>
            /\ rows[a].status = "countered" /\ rows'[a].status = "active"
            /\ rows'[a].terms = rows[a].countered
            /\ audit'[a] = "consumer"]_vars

(***************************************************************************)
(* A suspension that is not the watchdog's own: the provider decided it, or *)
(* its agent or service was removed, and the row does not name the          *)
(* watchdog's reason, by which alone the watch query knows its rows.        *)
(***************************************************************************)
NotTheWatchdogs(row, actor) ==
    /\ row.status = "suspended"
    /\ actor \in {"provider", "remover"}
    /\ row.reason # PROVIDER_UNREACHABLE

\* Such a suspension stands, over sweeps, removals and restorations, until a
\* party terminates the agreement: the watchdog re-signs neither what a provider
\* suspended nor, after its removal, what it had parked itself.
ProviderSuspensionStands ==
    [][\A a \in Created :
         NotTheWatchdogs(rows[a], audit[a]) =>
            \/ NotTheWatchdogs(rows'[a], audit'[a])
            \/ rows'[a].status = "terminated" /\ audit'[a] = "party"]_vars

----------------------------------------------------------------------------
(***************************************************************************)
(* The contract a row stands for.  The stamp activated_at tells whether a  *)
(* terminated row was ever in force, as terminatedAgreementOutcome does.   *)
(***************************************************************************)
PhaseOf(row) ==
    CASE row.status = "proposed"   -> "offered"
      [] row.status = "countered"  -> "countered"
      [] row.status = "active"     -> "inForce"
      [] row.status = "held"       -> "paused"
      [] row.status = "suspended"  -> "parked"
      [] row.status = "rejected"   -> "refused"
      [] row.status = "terminated" -> IF row.activated THEN "over" ELSE "withdrawn"

ContractOf(row) ==
    [phase |-> PhaseOf(row), terms |-> row.terms,
     offer |-> IF row.status = "countered" THEN row.countered ELSE None]

Contracts == [a \in Created |-> ContractOf(rows[a])]

Lifecycle == INSTANCE AgreementLifecycle WITH contracts <- Contracts

\* Every row leads the life of a contract: nothing that is over or was never
\* concluded comes back, nothing comes into force on other terms than those last
\* offered, and the watchdog renews one for one.
LivesAsContract == Lifecycle!Spec

\* The watchdog follows its providers: with one silent for good, again and again
\* nothing of it is active; with one back for good, again and again no agreement
\* of it waits in provider-unreachable.
WatchdogFollows ==
    \A g \in Agents :
        /\ <>[](probe[g] = "silent") =>
             []<>(\A a \in Created : rows[a].status = "active" => rows[a].provider # g)
        /\ <>[](probe[g] = "fresh") =>
             []<>(\A a \in Created :
                    rows[a].status = "suspended" /\ Watched(a) => rows[a].provider # g)
=============================================================================
