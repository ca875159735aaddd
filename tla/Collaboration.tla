---------------------------- MODULE Collaboration ----------------------------
(***************************************************************************)
(* An active collaboration from its proposals to its end: the initiator's  *)
(* handshake (core CollaborationCoordinator), the partners' answers (core  *)
(* CollaborationProposalHandler, with the opt-in fulfillment gate that     *)
(* secures a hop-2 commitment first), the session every agent keeps of it  *)
(* (CollaborationManager, finalizeCollaborationSessions) and the ephemeral *)
(* agreements the server lands, closes and meters on the same event bus    *)
(* (AcAgreementBridge over AgreementStore).                                *)
(*                                                                         *)
(* The bus delivers synchronously, so a published message and what all its *)
(* subscribers do with it are one step.  What takes time is an evaluation  *)
(* (LLM call), a defer delay, the wait for a downstream answer, the        *)
(* handshake window and the execution.                                     *)
(*                                                                         *)
(* Abstractions: why a partner decides what it decides, which acceptor     *)
(* scores best and whether an offer matches are choices; a partner accepts *)
(* a collaboration at most once, so an agreement is found by collaboration *)
(* and provider.  Reputation, trajectory and notifications are left out.   *)
(***************************************************************************)
EXTENDS AgreementStore, Sequences, FiniteSets

CONSTANTS
    Roots,          \* collaborations started by an agent
    Initiator,      \* their initiators
    Primary,        \* the partners of the first handshake
    Ranked,         \* the ranked candidates, the primary partners included
    BatchSize,      \* fallbackBatchSize
    MaxConcurrent,  \* maxConcurrentCollaborations of every agent
    Gated,          \* agents whose fulfillment gate is on
    PartyOps,       \* what the parties do with their ephemeral agreements
    Stops           \* whether the runtime may stop

\* The hop-2 collaboration p opens to fulfil c.
Child(c, p) == <<c, p>>
Children(c) == {Child(c, p) : p \in Agents}

ASSUME CollaborationAssumption ==
    /\ None \notin Row
    /\ Collabs = Roots \cup UNION {Children(c) : c \in Roots}
    /\ \A c \in Roots : Children(c) \cap Roots = {}
    /\ Initiator \in [Roots -> Agents]
    /\ Primary \in [Roots -> SUBSET Agents] /\ Ranked \in [Roots -> Seq(Agents)]
    /\ \A c \in Roots : Primary[c] # {} /\ Initiator[c] \notin Primary[c]
    /\ \A c \in Roots : \A k, l \in DOMAIN Ranked[c] : Ranked[c][k] = Ranked[c][l] => k = l
    /\ BatchSize \in Nat \ {0} /\ MaxConcurrent \in Nat /\ Stops \in BOOLEAN
    /\ PartyOps \subseteq {"hold", "release", "suspend", "terminate"}

VARIABLES
    hs,         \* the handshake of each collaboration
    resp,       \* where each partner stands with each proposal
    active,     \* activeCollaborations of each partner
    session,    \* the session of each collaboration in each agent's manager
    rows,       \* the ephemeral agreements
    usage,      \* usage rows of each agreement
    remembered, \* the bridge's remembered ac-proposals
    up          \* the runtime and its subscriptions are alive

vars == <<hs, resp, active, session, rows, usage, remembered, up>>

Phases == {"idle", "handshake", "executing", "completed", "cancelled",
           "secured", "refused"}
Ended  == {"completed", "cancelled"}

Handshake == [phase : Phases, batch : SUBSET Agents, accepted : SUBSET Agents,
              declined : SUBSET Agents, ranked : SUBSET Agents, fallback : BOOLEAN,
              team : SUBSET Agents]

Responses == {"none", "overloaded", "evaluating", "deferred", "reevaluating",
              "countered", "delegating", "accepted", "rejected"}

InEvaluation == {"evaluating", "reevaluating"}

----------------------------------------------------------------------------
\* The ranked candidates of a root, and their order.
Candidates(c) == {Ranked[c][k] : k \in DOMAIN Ranked[c]}
Before(c, q, p) ==
    \E k, l \in DOMAIN Ranked[c] : k < l /\ Ranked[c][k] = q /\ Ranked[c][l] = p

IsActive(row) == row # None /\ row.status = "active"
IsHeld(row)   == row # None /\ row.status = "held"

\* The collaboration and the children the bridge remembers of it.
Family(c) == {c} \cup (remembered \cap Children(c))

\* Mutated form: a status outside the declared set.
EndRowsUndeclared(family, reason) ==
    [d \in Collabs |->
       [p \in Agents |-> IF d \in family /\ IsActive(rows[d][p])
                           THEN SetStatus(rows[d][p], "completed", reason)
                           ELSE rows[d][p]]]

\* Mutated form: the rows of the parent are metered without their termination.
EndChildRows(family, reason) ==
    [d \in Collabs |->
       [p \in Agents |-> IF d \in family \ Roots /\ IsActive(rows[d][p])
                           THEN SetStatus(rows[d][p], "terminated", reason)
                           ELSE rows[d][p]]]

\* activeAgreementsOfCollaboration, terminated for one reason.
EndRows(family, reason) ==
    [d \in Collabs |->
       [p \in Agents |-> IF d \in family /\ IsActive(rows[d][p])
                           THEN SetStatus(rows[d][p], "terminated", reason)
                           ELSE rows[d][p]]]

MeterRows(family) ==
    [d \in Collabs |->
       [p \in Agents |-> IF d \in family /\ IsActive(rows[d][p])
                           THEN usage[d][p] + 1 ELSE usage[d][p]]]

\* finalizeCollaborationSessions: every session there is at this moment.
EndSessions(cs) ==
    [d \in Collabs |->
       [p \in Agents |-> IF d \in cs /\ session[d][p] = "live" THEN "ended"
                         ELSE session[d][p]]]

\* A proposal arrives: the concurrency cap is tested before the LLM call.
Received(p, evaluating) ==
    IF Cardinality(active[p]) >= MaxConcurrent THEN "overloaded" ELSE evaluating

Open(c, p) ==
    /\ hs[c].phase = "handshake"
    /\ p \in hs[c].batch \ (hs[c].accepted \cup hs[c].declined)

----------------------------------------------------------------------------
Init ==
    /\ hs = [c \in Collabs |->
               [phase |-> "idle", batch |-> {}, accepted |-> {}, declined |-> {},
                ranked |-> IF c \in Roots THEN Candidates(c) ELSE {},
                fallback |-> FALSE, team |-> {}]]
    /\ resp = [c \in Collabs |-> [p \in Agents |-> "none"]]
    /\ active = [p \in Agents |-> {}]
    /\ session = [c \in Collabs |-> [p \in Agents |-> "none"]]
    /\ rows = [c \in Collabs |-> [p \in Agents |-> None]]
    /\ usage = [c \in Collabs |-> [p \in Agents |-> 0]]
    /\ remembered = {}
    /\ up = TRUE

\* handleAutonomousACInitiation: the session, then a proposal to each partner.
Initiate(c) ==
    /\ up /\ hs[c].phase = "idle"
    /\ hs' = [hs EXCEPT ![c].phase = "handshake", ![c].batch = Primary[c]]
    /\ session' = [session EXCEPT ![c][Initiator[c]] = "live"]
    /\ resp' = [resp EXCEPT ![c] = [p \in Agents |->
                  IF p \in Primary[c] THEN Received(p, "evaluating") ELSE @[p]]]
    /\ remembered' = remembered \cup {c}
    /\ UNCHANGED <<active, rows, usage, up>>

\* Mutated form: every partner that was asked executes.
StartEveryone(c, accepted, declined) ==
    hs' = [hs EXCEPT ![c].phase = "executing", ![c].accepted = accepted,
                     ![c].declined = declined, ![c].team = hs[c].batch]

\* The handshake ended with acceptors: Contract Net keeps one of several when
\* ranked candidates are at hand.
Start(c, accepted, declined) ==
    LET net == Cardinality(accepted) > 1 /\ hs[c].ranked # {}
    IN  \E team \in IF net THEN {{w} : w \in accepted} ELSE {accepted} :
          hs' = [hs EXCEPT ![c].phase = "executing", ![c].accepted = accepted,
                           ![c].declined = declined, ![c].team = team]

\* ac-cancelled: the rows end unmetered, the sessions of all agents end.
CancelEffects(cs) ==
    /\ rows' = EndRows(UNION {Family(c) : c \in cs}, AC_CANCELLED)
    /\ session' = EndSessions(cs)
    /\ remembered' = remembered \ UNION {Family(c) : c \in cs}

\* The next-ranked candidates that were not asked yet.
Untried(c) == hs[c].ranked \ (hs[c].batch \cup {Initiator[c]})

NextBatch(c) ==
    {p \in Untried(c) : Cardinality({q \in Untried(c) : Before(c, q, p)}) < BatchSize}

(***************************************************************************)
(* Nobody accepted: the fallback batch is proposed to, or the collaboration *)
(* is cancelled.  answered is resp with the answer that ended the handshake.*)
(***************************************************************************)
GiveUp(c, answered, declined) ==
    LET batch == NextBatch(c)
    IN  \/ /\ batch # {}
           /\ hs' = [hs EXCEPT ![c].batch = batch, ![c].accepted = {},
                       ![c].declined = {}, ![c].fallback = TRUE,
                       ![c].ranked = Untried(c) \ batch]
           /\ resp' = [answered EXCEPT ![c] = [p \in Agents |->
                         IF p \in batch THEN Received(p, "evaluating") ELSE @[p]]]
           /\ UNCHANGED <<session, rows, remembered>>
        \/ /\ batch = {}
           /\ hs' = [hs EXCEPT ![c].phase = "cancelled", ![c].declined = declined]
           /\ resp' = answered
           /\ CancelEffects({c})

----------------------------------------------------------------------------
(***************************************************************************)
(* acceptProposal: the partner counts the collaboration as active and      *)
(* publishes its accept; the bridge lands an agreement when it remembers   *)
(* the proposal and an offer matches; the handshake, or the delegator that *)
(* waits for this answer, takes it if it is still open; the partner joins. *)
(***************************************************************************)
AcceptProposal(c, p) ==
    /\ resp' = [resp EXCEPT ![c][p] = "accepted"]
    /\ active' = [active EXCEPT ![p] = @ \cup {c}]
    /\ session' = [session EXCEPT ![c][p] = "live"]
    /\ \/ /\ c \in remembered /\ rows[c][p] = None
          /\ \E t \in Terms :
               rows' = [rows EXCEPT ![c][p] = CreateAgreement(None, p, t, "ac", "active", c)]
       \/ UNCHANGED rows
    /\ LET accepted == hs[c].accepted \cup {p}
       IN  \/ Open(c, p) /\ c \notin Roots /\ hs' = [hs EXCEPT ![c].phase = "secured"]
           \/ /\ Open(c, p) /\ c \in Roots
              /\ accepted \cup hs[c].declined = hs[c].batch
              /\ Start(c, accepted, hs[c].declined)
           \/ /\ Open(c, p) /\ c \in Roots
              /\ accepted \cup hs[c].declined # hs[c].batch
              /\ hs' = [hs EXCEPT ![c].accepted = accepted]
           \/ ~Open(c, p) /\ UNCHANGED hs
    /\ UNCHANGED <<usage, remembered, up>>

\* The answer "no" of p reaches the handshake, or the waiting delegator.
Decline(c, p) ==
    LET answered == [resp EXCEPT ![c][p] = "rejected"]
        declined == hs[c].declined \cup {p}
        complete == hs[c].accepted \cup declined = hs[c].batch
    IN  /\ \/ /\ ~Open(c, p)
              /\ resp' = answered
              /\ UNCHANGED <<hs, session, rows, remembered>>
           \/ /\ Open(c, p) /\ c \notin Roots
              /\ hs' = [hs EXCEPT ![c].phase = "refused"]
              /\ resp' = answered
              /\ UNCHANGED <<session, rows, remembered>>
           \/ /\ Open(c, p) /\ c \in Roots /\ ~complete
              /\ hs' = [hs EXCEPT ![c].declined = declined]
              /\ resp' = answered
              /\ UNCHANGED <<session, rows, remembered>>
           \/ /\ Open(c, p) /\ c \in Roots /\ complete /\ hs[c].accepted # {}
              /\ Start(c, hs[c].accepted, declined)
              /\ resp' = answered
              /\ UNCHANGED <<session, rows, remembered>>
           \/ /\ Open(c, p) /\ c \in Roots /\ complete /\ hs[c].accepted = {}
              /\ GiveUp(c, answered, declined)
        /\ UNCHANGED <<active, usage, up>>

Accept(c, p) ==
    /\ up /\ resp[c][p] \in InEvaluation
    /\ AcceptProposal(c, p)

\* A rejection, also of an overloaded partner, of a proposal still undecided
\* after its defer, and of a promise the gate cannot cover.
Reject(c, p) ==
    /\ up /\ resp[c][p] \in InEvaluation \cup {"overloaded"}
    /\ Decline(c, p)

\* deferProposal, the first time; the handshake stays open.
Defer(c, p) ==
    /\ up /\ resp[c][p] = "evaluating"
    /\ resp' = [resp EXCEPT ![c][p] = "deferred"]
    /\ UNCHANGED <<hs, active, session, rows, usage, remembered, up>>

\* reevaluateAfterDefer.
Reevaluate(c, p) ==
    /\ up /\ resp[c][p] = "deferred"
    /\ resp' = [resp EXCEPT ![c][p] = Received(p, "reevaluating")]
    /\ UNCHANGED <<hs, active, session, rows, usage, remembered, up>>

\* A counter-proposal: a delegator takes it for a rejection.
Counter(c, p) ==
    /\ up /\ resp[c][p] \in InEvaluation
    /\ resp' = [resp EXCEPT ![c][p] = "countered"]
    /\ hs' = IF c \notin Roots /\ Open(c, p) THEN [hs EXCEPT ![c].phase = "refused"] ELSE hs
    /\ UNCHANGED <<active, session, rows, usage, remembered, up>>

\* evaluateCounterProposal answered while the handshake is open: the
\* responder accepts on the spot, or is counted as declined.
AnswerCounter(c, p) ==
    /\ up /\ c \in Roots /\ resp[c][p] = "countered" /\ Open(c, p)
    /\ AcceptProposal(c, p) \/ Decline(c, p)

\* The gate finds a gap and delegates it to t before p signs.
Delegate(c, p, t) ==
    /\ up /\ c \in Roots /\ p \in Gated
    /\ resp[c][p] \in InEvaluation
    /\ t \notin {p, Initiator[c]}
    /\ hs' = [hs EXCEPT ![Child(c, p)].phase = "handshake", ![Child(c, p)].batch = {t}]
    /\ resp' = [resp EXCEPT ![c][p] = "delegating",
                            ![Child(c, p)][t] = Received(t, "evaluating")]
    /\ remembered' = remembered \cup {Child(c, p)}
    /\ UNCHANGED <<active, session, rows, usage, up>>

\* DEFAULT_DELEGATION_TIMEOUT_MS.
DelegationTimeout(c, p) ==
    /\ up /\ resp[c][p] = "delegating" /\ hs[Child(c, p)].phase = "handshake"
    /\ hs' = [hs EXCEPT ![Child(c, p)].phase = "refused"]
    /\ UNCHANGED <<resp, active, session, rows, usage, remembered, up>>

\* Mutated form: a provider that hears nothing from downstream signs anyway.
AfterDelegationSigning(c, p) ==
    /\ up /\ resp[c][p] = "delegating"
    /\ hs[Child(c, p)].phase \in {"secured", "refused"}
    /\ AcceptProposal(c, p)

\* The downstream answer decides the answer to the proposal itself.
AfterDelegation(c, p) ==
    /\ up /\ resp[c][p] = "delegating"
    /\ \/ hs[Child(c, p)].phase = "secured" /\ AcceptProposal(c, p)
       \/ hs[Child(c, p)].phase = "refused" /\ Decline(c, p)

----------------------------------------------------------------------------
\* Mutated form: the window only closes on a handshake somebody accepted.
TimeoutIfAccepted(c) ==
    /\ up /\ c \in Roots /\ hs[c].phase = "handshake" /\ hs[c].accepted # {}
    /\ Start(c, hs[c].accepted, hs[c].declined)
    /\ UNCHANGED <<resp, active, session, rows, usage, remembered, up>>

\* The handshake window closes.
Timeout(c) ==
    /\ up /\ c \in Roots /\ hs[c].phase = "handshake"
    /\ \/ /\ hs[c].accepted # {}
          /\ Start(c, hs[c].accepted, hs[c].declined)
          /\ UNCHANGED <<resp, session, rows, remembered>>
       \/ /\ hs[c].accepted = {}
          /\ GiveUp(c, resp, hs[c].declined)
    /\ UNCHANGED <<active, usage, up>>

\* executeCollaboration publishes COLLABORATION_COMPLETED, whatever the outcome.
Complete(c) ==
    /\ up /\ c \in Roots /\ hs[c].phase = "executing"
    /\ hs' = [hs EXCEPT ![c].phase = "completed"]
    /\ usage' = MeterRows(Family(c))
    /\ rows' = EndRows(Family(c), AC_COMPLETED)
    /\ session' = EndSessions({c})
    /\ remembered' = remembered \ Family(c)
    /\ UNCHANGED <<resp, active, up>>

\* Mutated form: a stop that does not cancel the agreements of what it cancels.
StopSilently ==
    /\ Stops /\ up
    /\ up' = FALSE
    /\ hs' = [c \in Collabs |-> IF c \in Roots /\ hs[c].phase = "handshake"
                                THEN [hs[c] EXCEPT !.phase = "cancelled"] ELSE hs[c]]
    /\ remembered' = {}
    /\ UNCHANGED <<resp, active, session, rows, usage>>

\* EngineRuntime.stop: pending handshakes are cancelled on the live bus, then
\* the subscriptions and the remembered proposals go.
Stop ==
    LET pending == {c \in Roots : hs[c].phase = "handshake"}
    IN  /\ Stops /\ up
        /\ up' = FALSE
        /\ hs' = [c \in Collabs |-> IF c \in pending THEN [hs[c] EXCEPT !.phase = "cancelled"]
                                    ELSE hs[c]]
        /\ rows' = EndRows(UNION {Family(c) : c \in pending}, AC_CANCELLED)
        /\ session' = EndSessions(pending)
        /\ remembered' = {}
        /\ UNCHANGED <<resp, active, usage>>

\* The parties of an ephemeral agreement have the routes of any agreement; a
\* hold that expires is released the same way.
PartyWrite(row, op) ==
    CASE op = "hold"      -> HoldRow(row, HOLD_MAX_SEC)
      [] op = "release"   -> Resume(row)
      [] op = "suspend"   -> SetStatus(row, "suspended", None)
      [] op = "terminate" -> SetStatus(row, "terminated", None)

PartyMay(row, op) ==
    CASE op \in {"hold", "suspend"} -> row.status = "active"
      [] op = "release"             -> row.status = "held"
      [] op = "terminate"           -> row.status \notin Terminal

Party(c, p) ==
    /\ rows[c][p] # None
    /\ \E op \in PartyOps :
         /\ PartyMay(rows[c][p], op)
         /\ rows' = [rows EXCEPT ![c][p] = PartyWrite(@, op)]
    /\ UNCHANGED <<hs, resp, active, session, usage, remembered, up>>

Answer(c, p) ==
    \/ Accept(c, p) \/ Reject(c, p) \/ Defer(c, p) \/ Counter(c, p)
    \/ \E t \in Agents : Delegate(c, p, t)

Next ==
    \/ \E c \in Roots : Initiate(c) \/ Timeout(c) \/ Complete(c)
    \/ \E c \in Collabs, p \in Agents :
         Answer(c, p) \/ Reevaluate(c, p) \/ AnswerCounter(c, p) \/ Party(c, p)
    \/ \E c \in Roots, p \in Agents : DelegationTimeout(c, p) \/ AfterDelegation(c, p)
    \/ Stop

Spec == Init /\ [][Next]_vars

(***************************************************************************)
(* Fairness: while a timer is due, an evaluation is out (its LLM call has  *)
(* a time limit and a fallback) or an execution runs, the event loop gets  *)
(* to one of them.                                                         *)
(***************************************************************************)
Work ==
    \/ \E c \in Roots : Timeout(c) \/ Complete(c)
    \/ \E c \in Collabs, p \in Agents : Answer(c, p) \/ Reevaluate(c, p)
    \/ \E c \in Roots, p \in Agents : DelegationTimeout(c, p) \/ AfterDelegation(c, p)

FairSpec == Spec /\ WF_vars(Work)
----------------------------------------------------------------------------
\* TypeOK: handshakes, answers, sessions, ephemeral rows and usage counts stay within
\* what the coordinator, the handler, the managers and the bridge declare.
TypeOK ==
    /\ hs \in [Collabs -> Handshake]
    /\ resp \in [Collabs -> [Agents -> Responses]]
    /\ active \in [Agents -> SUBSET Collabs]
    /\ session \in [Collabs -> [Agents -> {"none", "live", "ended"}]]
    /\ rows \in [Collabs -> [Agents -> Row \cup {None}]]
    /\ usage \in [Collabs -> [Agents -> Nat]]
    /\ remembered \subseteq Collabs
    /\ up \in BOOLEAN

(***************************************************************************)
(* Only consenting partners execute: whatever rounds of fallback, defers,  *)
(* counters and late answers came before, an executing collaboration has a *)
(* team, and every member of it accepted this collaboration.               *)
(***************************************************************************)
OnlyAcceptorsExecute ==
    \A c \in Roots : hs[c].phase \in {"executing", "completed"} =>
        /\ hs[c].team # {}
        /\ \A p \in hs[c].team : resp[c][p] = "accepted" /\ c \in active[p]

(***************************************************************************)
(* The bridge meters an agreement at most once, and what it metered it     *)
(* closed: a metered agreement is final, for the reason ac-completed.  A   *)
(* collaboration that was cancelled meters nothing, neither its own        *)
(* agreements nor those its partners secured downstream for it (Fix-21).   *)
(***************************************************************************)
MeteredOnce ==
    /\ \A c \in Collabs, p \in Agents : usage[c][p] > 0 =>
         /\ usage[c][p] = 1
         /\ rows[c][p].status = "terminated" /\ rows[c][p].reason = AC_COMPLETED
    /\ \A c \in Roots : hs[c].phase = "cancelled" =>
         \A d \in {c} \cup Children(c), p \in Agents : usage[d][p] = 0

(***************************************************************************)
(* A partner whose promise needed a downstream provider signs only after   *)
(* that provider accepted: a delegation refused, countered or timed out    *)
(* never ends in an acceptance upstream (acceptWithFulfillmentGate).       *)
(***************************************************************************)
PromiseBacked ==
    \A c \in Roots, p \in Agents :
        resp[c][p] = "accepted" /\ hs[Child(c, p)].phase # "idle" =>
            \E t \in hs[Child(c, p)].batch : resp[Child(c, p)][t] = "accepted"

(***************************************************************************)
(* "Born active, terminated when the collaboration ends": a completion and *)
(* a cancel, a stop's included, leave none of its own agreements active,   *)
(* and nothing makes one active later, no accept that comes late either,   *)
(* but a party that ends the pause of an agreement the end passed over.    *)
(***************************************************************************)
RowsEndWithCollaboration ==
    [][\A c \in Roots, p \in Agents :
         hs'[c].phase \in Ended /\ IsActive(rows'[c][p]) =>
            /\ hs[c].phase \in Ended
            /\ IsActive(rows[c][p]) \/ IsHeld(rows[c][p])]_vars

Unanswered ==
    {cp \in Collabs \X Agents :
       resp[cp[1]][cp[2]] \in {"overloaded", "evaluating", "deferred",
                               "reevaluating", "delegating"}}

(***************************************************************************)
(* Every handshake converges: silence, defers and counters of any partner  *)
(* of any round end in an execution or a cancel.  And deferring is no      *)
(* indefinite stall: unless the runtime stops, there comes a time when     *)
(* every partner has answered what it took up, with an accept, a reject or *)
(* a counter, the delegations included.                                    *)
(***************************************************************************)
Converges ==
    /\ \A c \in Roots : hs[c].phase = "handshake" ~> hs[c].phase # "handshake"
    /\ Unanswered # {} ~> Unanswered = {} \/ ~up

Running(p) == {c \in active[p] : hs[c].phase \notin Ended}

(***************************************************************************)
(* "Maximum number of concurrent collaborations": a partner turns a        *)
(* proposal down as overloaded only while it has that many running.        *)
(***************************************************************************)
OverloadedWhenBusy ==
    [][\A c \in Roots, p \in Agents :
         resp[c][p] # "overloaded" /\ resp'[c][p] = "overloaded" =>
            Cardinality(Running(p)) >= MaxConcurrent]_vars
=============================================================================
