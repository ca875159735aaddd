----------------------------- MODULE InvokeLane -----------------------------
(***************************************************************************)
(* Consumption of active agreements: the manual invoke route               *)
(* (routes/agreements.ts), the trigger-clause and auto-reset executor      *)
(* (agreement-trigger-executor.ts), the flow service node                  *)
(* (flow-service-node-executor.ts) and the core they share                 *)
(* (executeAgreementInvocation), over the rows of AgreementStore.          *)
(*                                                                         *)
(* The server is one JavaScript thread: a handler runs without             *)
(* interruption until it awaits.  The awaits that take real time are the   *)
(* targeting of a world (targeting), the execution of the command          *)
(* (executing) and the 90 s wait limit of the route; running names the     *)
(* evaluation that holds the thread between two of its awaits.             *)
(*                                                                         *)
(* Abstractions: one environment and one simulation; the terms of an       *)
(* agreement are the fields the lanes read (quota, windowSec, trigger,     *)
(* afterSec, onEvent), the quota window is the default sliding one; an     *)
(* execution ends in success or failure, a refusal before it is metered    *)
(* (device absent, flow not runnable) or not (422 of the consumer, world   *)
(* not targetable).  Receipts, command_log rows, reputation scores and     *)
(* notifications follow their usage row in the same step and are left out. *)
(***************************************************************************)
EXTENDS AgreementStore, Sequences, FiniteSets

CONSTANTS
    Agreements,     \* agreements of the environment, all active at first
    TermsOf,        \* their terms
    EventKinds,     \* the injected events the clauses can name
    MaxEvents,      \* bound: injected events
    MaxInvokes,     \* bound: manual invokes and flow-node invokes
    MaxRestarts,    \* bound: server restarts
    MaxNow,         \* bound: wall clock
    MaxSim          \* bound: simulation clock

ASSUME InvokeAssumption ==
    /\ TermsOf \in [Agreements -> Terms]
    /\ \A t \in Terms :
         /\ DOMAIN t = {"quota", "windowSec", "trigger", "afterSec", "onEvent"}
         /\ t.quota \in Nat \cup {None} /\ t.windowSec \in Nat
         /\ t.trigger \in EventKinds \cup {None}
         /\ t.afterSec \in Nat \cup {None} /\ t.onEvent \in EventKinds \cup {None}

VARIABLES
    rows,       \* the agreement rows
    calls,      \* invocations in flight
    usage,      \* usage_records, in the order they were appended
    pending,    \* the executor's map of armed resets, at most one per agreement
    evals,      \* event evaluations and recheck ticks in progress
    running,    \* the evaluation that holds the thread, or None
    now,        \* wall clock
    simTime,    \* clock of the simulation
    stopped,    \* the simulation's runtime is stopped
    events,     \* number of events injected so far
    invokes,    \* number of manual and flow-node invokes so far
    restarts,   \* number of restarts so far
    raced       \* history: agreements that once had two invokes in flight

vars == <<rows, calls, usage, pending, evals, running, now, simTime, stopped,
          events, invokes, restarts, raced>>
clockVars == <<now, simTime, stopped>>
boundVars == <<events, invokes, restarts>>

Lanes  == {"manual", "node", "autoTrigger", "autoReset"}
Phases == {"targeting", "executing"}

Call == [agr      : Agreements,
         lane     : Lanes,
         phase    : Phases,
         start    : Nat,
         answered : BOOLEAN,            \* the 503 went out
         waiter   : Nat \cup {None}]    \* the evaluation awaiting it

UsageRow == [agr : Agreements, lane : Lanes, outcome : {"success", "failure"},
             start : Nat]

\* An armed reset and its sim deadline, if it has one.
Arm == [due : Nat \cup {None}]

\* An evaluation: its event (None for a recheck tick), where it stands, and the
\* agreements it still has to visit.
Evaluation == [kind : EventKinds \cup {None},
               phase : {"resets", "triggers", "due"}, todo : SUBSET Agreements]

----------------------------------------------------------------------------
\* The least identifier that f does not use.
Fresh(f) == CHOOSE n \in 1 .. Cardinality(DOMAIN f) + 1 : n \notin DOMAIN f

Without(f, x) == [y \in DOMAIN f \ {x} |-> f[y]]
With(f, x, e) == [y \in DOMAIN f \cup {x} |-> IF y = x THEN e ELSE f[y]]

Idle == running = None

InFlight(a) == {c \in DOMAIN calls : calls[c].agr = a /\ calls[c].lane # "autoReset"}

Delivered(a) == {i \in DOMAIN usage : usage[i].agr = a /\ usage[i].outcome = "success"}

\* Mutated form: the window counts every row but the last allowed one.
SpentOffByOne(a) ==
    LET t == rows[a].terms
    IN  /\ t.quota # None
        /\ Cardinality({i \in Delivered(a) : usage[i].start + t.windowSec >= now})
             > t.quota

\* consumptionQuotaStatus over countUsageSince: deliveries STARTED in the window.
Spent(a) ==
    LET t == rows[a].terms
    IN  /\ t.quota # None
        /\ Cardinality({i \in Delivered(a) : usage[i].start + t.windowSec >= now})
             >= t.quota

UsageOf(call, outcome) ==
    [agr |-> call.agr, lane |-> call.lane, outcome |-> outcome, start |-> call.start]

NewCall(a, lane, phase, waiter) ==
    [agr |-> a, lane |-> lane, phase |-> phase, start |-> now,
     answered |-> FALSE, waiter |-> waiter]

(***************************************************************************)
(* executeAgreementInvocation up to its await: the command starts, or the  *)
(* core refuses, with a metered failure row or without.  others are the    *)
(* calls in flight beside this one.                                        *)
(***************************************************************************)
Begin(others, id, call) ==
    LET started == [call EXCEPT !.phase = "executing", !.start = now]
    IN  \/ /\ ~stopped
           /\ calls' = With(others, id, started)
           /\ UNCHANGED usage
        \/ /\ calls' = others
           /\ usage' = Append(usage, UsageOf(started, "failure"))
        \/ /\ calls' = others
           /\ UNCHANGED usage

----------------------------------------------------------------------------
Init ==
    /\ rows = [a \in Agreements |->
                 CreateAgreement(None, None, TermsOf[a], "explicit", "active", None)]
    /\ calls = << >>
    /\ usage = << >>
    /\ pending = [a \in Agreements |-> None]
    /\ evals = << >>
    /\ running = None
    /\ now = 0 /\ simTime = 0 /\ stopped = FALSE
    /\ events = 0 /\ invokes = 0 /\ restarts = 0
    /\ raced = {}

\* POST /api/agreements/:id/invocations up to the targeting await.
Invoke(a) ==
    LET row == SettleExpiredHold(rows[a], now)
    IN  /\ Idle /\ invokes < MaxInvokes
        /\ row.status = "active"
        /\ ~Spent(a)
        /\ rows' = [rows EXCEPT ![a] = row]
        /\ calls' = With(calls, Fresh(calls), NewCall(a, "manual", "targeting", None))
        /\ invokes' = invokes + 1
        /\ UNCHANGED <<usage, pending, evals, running, clockVars, events, restarts>>

\* resolveConsumptionTargetSimForLane answered: execution starts or refuses.
Target(c) ==
    /\ Idle
    /\ calls[c].phase = "targeting"
    /\ Begin(Without(calls, c), c, calls[c])
    /\ UNCHANGED <<rows, pending, evals, running, clockVars, boundVars>>

\* The wait limit answers 503 and lets the execution finish in the background.
AnswerPending(c) ==
    /\ Idle
    /\ calls[c].lane = "manual" /\ ~calls[c].answered
    /\ calls' = [calls EXCEPT ![c].answered = TRUE]
    /\ UNCHANGED <<rows, usage, pending, evals, running, clockVars, boundVars>>

\* A flow run reaches a service node: gates and core in one go.
NodeInvoke(a) ==
    LET settled == [b \in Agreements |-> SettleExpiredHold(rows[b], now)]
    IN  /\ Idle /\ invokes < MaxInvokes
        /\ settled[a].status = "active"
        /\ ~Spent(a)
        /\ rows' = settled
        /\ Begin(calls, Fresh(calls), NewCall(a, "node", "executing", None))
        /\ invokes' = invokes + 1
        /\ UNCHANGED <<pending, evals, running, clockVars, events, restarts>>

\* armReset, when the terms carry the clause.
ArmedReset(a) ==
    LET t == rows[a].terms
    IN  IF t.afterSec = None /\ t.onEvent = None THEN pending[a]
        ELSE [due |-> IF t.afterSec = None THEN None ELSE simTime + t.afterSec]

\* The command settles: the tail of the core, and of fire() when it waited.
Finish(c, outcome) ==
    /\ Idle
    /\ calls[c].phase = "executing"
    /\ calls' = Without(calls, c)
    /\ usage' = Append(usage, UsageOf(calls[c], outcome))
    /\ pending' = IF calls[c].lane = "autoTrigger" /\ outcome = "success"
                    THEN [pending EXCEPT ![calls[c].agr] = ArmedReset(calls[c].agr)]
                    ELSE pending
    /\ running' = calls[c].waiter
    /\ UNCHANGED <<rows, evals, clockVars, boundVars>>

----------------------------------------------------------------------------
\* An event is injected: evaluate() reads its candidates and takes the thread.
Inject(kind) ==
    LET settled == [a \in Agreements |-> SettleExpiredHold(rows[a], now)]
        v == Fresh(evals)
    IN  /\ Idle /\ ~stopped /\ events < MaxEvents
        /\ rows' = settled
        /\ events' = events + 1
        /\ evals' = With(evals, v,
                         [kind |-> kind, phase |-> "resets",
                          todo |-> {a \in Agreements : /\ settled[a].status = "active"
                                                        /\ settled[a].terms.trigger = kind}])
        /\ running' = v
        /\ UNCHANGED <<calls, usage, pending, clockVars, invokes, restarts>>

\* Mutated form: the arm leaves the map only after its reset was awaited.
FireResetKeepingArm(a, waiter) ==
    /\ UNCHANGED pending
    /\ IF rows[a].status = "active" /\ ~stopped
         THEN Begin(calls, Fresh(calls), NewCall(a, "autoReset", "executing", waiter))
         ELSE UNCHANGED <<calls, usage>>

\* pending.delete and fireReset: the raw row decides at fire time.
FireReset(a, waiter) ==
    /\ pending' = [pending EXCEPT ![a] = None]
    /\ IF rows[a].status = "active" /\ ~stopped
         THEN Begin(calls, Fresh(calls), NewCall(a, "autoReset", "executing", waiter))
         ELSE UNCHANGED <<calls, usage>>

\* The arms the event disarms: the loop runs over the live map.
Disarmed(v) == {a \in Agreements : /\ pending[a] # None
                                   /\ rows[a].terms.onEvent # None
                                   /\ rows[a].terms.onEvent = evals[v].kind}

Running(v, phase) == running = v /\ v \in DOMAIN evals /\ evals[v].phase = phase

\* After a call started on behalf of v, v awaits it; else it goes on.
AwaitOrGoOn(v) == running' = IF DOMAIN calls' = DOMAIN calls THEN v ELSE None

EvalReset(v) ==
    /\ Running(v, "resets")
    /\ \E a \in Disarmed(v) : FireReset(a, v)
    /\ AwaitOrGoOn(v)
    /\ UNCHANGED <<rows, evals, clockVars, boundVars>>

EvalResetsDone(v) ==
    /\ Running(v, "resets")
    /\ Disarmed(v) = {}
    /\ evals' = [evals EXCEPT ![v].phase = "triggers"]
    /\ UNCHANGED <<rows, calls, usage, pending, running, clockVars, boundVars>>

\* fire(): a spent quota is metered as a failure, else the core runs.
EvalTrigger(v) ==
    /\ Running(v, "triggers")
    /\ \E a \in evals[v].todo :
         /\ evals' = [evals EXCEPT ![v].todo = @ \ {a}]
         /\ LET call == NewCall(a, "autoTrigger", "executing", v)
            IN  IF Spent(a)
                  THEN /\ usage' = Append(usage, UsageOf(call, "failure"))
                       /\ UNCHANGED calls
                  ELSE Begin(calls, Fresh(calls), call)
    /\ AwaitOrGoOn(v)
    /\ UNCHANGED <<rows, pending, clockVars, boundVars>>

\* Mutated form: a deadline reached exactly is not due yet.
DueStrictly == {a \in Agreements : /\ pending[a] # None /\ pending[a].due # None
                                   /\ simTime > pending[a].due}

Due == {a \in Agreements : /\ pending[a] # None /\ pending[a].due # None
                           /\ simTime >= pending[a].due}

\* The recheck tick: arms of a stopped runtime drop, the others that are due
\* fire one after the other, none of them awaited.
Recheck ==
    /\ Idle
    /\ IF stopped
         THEN /\ \E a \in Agreements : pending[a] # None /\ pending[a].due # None
              /\ pending' = [a \in Agreements |->
                               IF pending[a] # None /\ pending[a].due # None
                                 THEN None ELSE pending[a]]
              /\ UNCHANGED <<evals, running>>
         ELSE /\ Due # {}
              /\ evals' = With(evals, Fresh(evals), [kind |-> None, phase |-> "due", todo |-> Due])
              /\ running' = Fresh(evals)
              /\ UNCHANGED pending
    /\ UNCHANGED <<rows, calls, usage, clockVars, boundVars>>

EvalDue(v) ==
    /\ Running(v, "due")
    /\ \E a \in evals[v].todo :
         /\ evals' = [evals EXCEPT ![v].todo = @ \ {a}]
         /\ FireReset(a, None)
    /\ UNCHANGED <<rows, running, clockVars, boundVars>>

EvalEnd(v) ==
    /\ Running(v, "triggers") \/ Running(v, "due")
    /\ evals[v].todo = {}
    /\ evals' = Without(evals, v)
    /\ running' = None
    /\ UNCHANGED <<rows, calls, usage, pending, clockVars, boundVars>>

----------------------------------------------------------------------------
\* The parties: hold and release by the consumer, suspend and terminate.
Party(a) ==
    LET row == SettleExpiredHold(rows[a], now)
    IN  /\ Idle
        /\ \/ /\ row.status = "active"
              /\ \E d \in 1..HOLD_MAX_SEC : rows' = [rows EXCEPT ![a] = HoldRow(row, now + d)]
           \/ /\ row.status = "held"
              /\ rows' = [rows EXCEPT ![a] = Resume(row)]
           \/ /\ row.status = "active"
              /\ rows' = [rows EXCEPT ![a] = SetStatus(row, "suspended", None)]
           \/ /\ row.status \notin Terminal
              /\ rows' = [rows EXCEPT ![a] = SetStatus(row, "terminated", None)]
        /\ UNCHANGED <<calls, usage, pending, evals, running, clockVars, boundVars>>

\* Any other read of the row settles an expired hold.
Read(a) ==
    /\ Idle
    /\ HoldExpired(rows[a], now)
    /\ rows' = [rows EXCEPT ![a] = SettleExpiredHold(rows[a], now)]
    /\ UNCHANGED <<calls, usage, pending, evals, running, clockVars, boundVars>>

Tick ==
    /\ Idle
    /\ \/ now < MaxNow /\ now' = now + 1 /\ UNCHANGED <<simTime, stopped>>
       \/ ~stopped /\ simTime < MaxSim /\ simTime' = simTime + 1 /\ UNCHANGED <<now, stopped>>
       \/ ~stopped /\ stopped' = TRUE /\ UNCHANGED <<now, simTime>>
    /\ UNCHANGED <<rows, calls, usage, pending, evals, running, boundVars>>

\* Mutated form: the evaluations are lost, the calls they await are not.
RestartKeepingCalls ==
    /\ Idle /\ restarts < MaxRestarts
    /\ restarts' = restarts + 1
    /\ evals' = << >>
    /\ pending' = [a \in Agreements |-> None]
    /\ stopped' = FALSE
    /\ UNCHANGED <<rows, calls, usage, running, now, simTime, events, invokes>>

\* A restart: calls, evaluations and arms live in memory, the tables do not.
Restart ==
    /\ Idle /\ restarts < MaxRestarts
    /\ restarts' = restarts + 1
    /\ calls' = << >> /\ evals' = << >>
    /\ pending' = [a \in Agreements |-> None]
    /\ stopped' = FALSE
    /\ UNCHANGED <<rows, usage, running, now, simTime, events, invokes>>

EvalStep ==
    \E v \in DOMAIN evals : \/ EvalReset(v) \/ EvalResetsDone(v) \/ EvalTrigger(v)
                            \/ EvalDue(v) \/ EvalEnd(v)

Complete == \E c \in DOMAIN calls : \/ Target(c)
                                    \/ \E o \in {"success", "failure"} : Finish(c, o)

RecordRace ==
    raced' = raced \cup {a \in Agreements : Cardinality(InFlight(a)') > 1}

Next ==
    /\ \/ \E a \in Agreements : Invoke(a) \/ NodeInvoke(a) \/ Party(a) \/ Read(a)
       \/ Complete
       \/ \E c \in DOMAIN calls : AnswerPending(c)
       \/ \E kind \in EventKinds : Inject(kind)
       \/ EvalStep
       \/ Recheck
       \/ Tick
       \/ Restart
    /\ RecordRace

Spec == Init /\ [][Next]_vars

(***************************************************************************)
(* Fairness: the thread runs a handler to its next await, the 250 ms       *)
(* recheck timer keeps firing while arms are pending, and a targeting or a *)
(* command that was awaited settles.                                       *)
(***************************************************************************)
FairSpec ==
    /\ Spec
    /\ WF_vars(EvalStep /\ RecordRace)
    /\ WF_vars(Recheck /\ RecordRace)
    /\ WF_vars(Complete /\ RecordRace)
----------------------------------------------------------------------------
\* Type correctness.
TypeOK ==
    /\ rows \in [Agreements -> Row]
    /\ \A c \in DOMAIN calls : calls[c] \in Call
    /\ usage \in Seq(UsageRow)
    /\ pending \in [Agreements -> Arm \cup {None}]
    /\ \A v \in DOMAIN evals : evals[v] \in Evaluation
    /\ running \in DOMAIN evals \cup {None}
    /\ raced \subseteq Agreements

Deliveries(a, lanes) == {i \in Delivered(a) : usage[i].lane \in lanes}

(***************************************************************************)
(* The quota binds whoever consumes one act at a time, over every lane:    *)
(* an agreement that never had two invokes in flight never has more than   *)
(* quotaPerWindow deliveries in a window, whatever the awaits, restarts    *)
(* and holds in between (consumptionQuotaStatus).  Resets are outside it.  *)
(***************************************************************************)
SerialQuota ==
    \A a \in Agreements \ raced :
        LET t == rows[a].terms
        IN  t.quota # None =>
              \A w \in 0..now :
                Cardinality({i \in Deliveries(a, Lanes \ {"autoReset"}) :
                               usage[i].start \in w .. w + t.windowSec}) <= t.quota

(***************************************************************************)
(* Un-pegging follows pegging one to one: there are never more resets,     *)
(* delivered, failed or in flight, than trigger deliveries that armed      *)
(* them, although an arm can be taken by an event, by the recheck tick and *)
(* by a re-arm, and its reset is awaited or detached.                      *)
(***************************************************************************)
ResetsFollowTriggers ==
    \A a \in Agreements :
        LET resets == {i \in DOMAIN usage : usage[i].agr = a /\ usage[i].lane = "autoReset"}
            inFlight == {c \in DOMAIN calls : calls[c].agr = a /\ calls[c].lane = "autoReset"}
            armed == IF pending[a] = None THEN 0 ELSE 1
        IN  Cardinality(resets) + Cardinality(inFlight) + armed
              <= Cardinality(Deliveries(a, {"autoTrigger"}))

(***************************************************************************)
(* Nothing that was promised is stranded: an armed deadline the simulation *)
(* reached does not stay armed, and an invocation answered with 503 (the   *)
(* waiting-room answer is not a cancellation) still leaves the set of      *)
(* invocations in flight, by its usage row or by a refusal.                *)
(***************************************************************************)
NothingStranded ==
    /\ \A a \in Agreements :
         LET overdue == /\ pending[a] # None /\ pending[a].due # None
                        /\ simTime >= pending[a].due
         IN  overdue ~> ~overdue
    /\ \A c \in 1..MaxInvokes :
         (c \in DOMAIN calls /\ calls[c].answered) ~> (c \notin DOMAIN calls)
=============================================================================
