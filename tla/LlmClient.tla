------------------------------ MODULE LlmClient ------------------------------
(***************************************************************************)
(* The way of a chat request to the language model                         *)
(* (packages/llm-integration/src): the circuit breaker of the backend      *)
(* (circuit-breaker.ts), the two request queues every client shares        *)
(* (RequestQueue in client.ts) and the controller that adapts the limit of *)
(* the fast lane (adaptive-concurrency.ts).                                *)
(*                                                                         *)
(* One backend, hence one breaker.  The guard is tested before the request *)
(* waits for a slot, and its verdict is recorded after the provider's      *)
(* answer: between the two lie the queue and the call.  A handler runs     *)
(* without interruption up to its await, so that an answer, the release of *)
(* its slot, the adjustment of the limit, the admission of the next        *)
(* requests and the breaker's record are one step.                         *)
(*                                                                         *)
(* Abstractions: a request is a slot of Calls that is used again when it   *)
(* is over; requests answered from the cache, by the replay or refused in  *)
(* strict mode never reach the guard and are left out; times are           *)
(* countdowns and ages that stop at the threshold the code compares with;  *)
(* an error is its class (isTransientLLMError, isAbortError, 429).         *)
(***************************************************************************)
EXTENDS Integers, Sequences, FiniteSets, SequencesExt, FiniteSetsExt, Functions

CONSTANTS
    Calls,          \* requests that can be under way at once
    Lanes,          \* the request queues
    LaneOf,         \* the queue of a request
    Adaptive,       \* the lanes with a controller
    MinLimit,       \* their least limit, and the limit of a fixed lane
    MaxLimit,       \* their largest
    StepUp,         \* slots added by an upshift
    WindowSize,     \* completions the failure rate looks at
    ScaleUpWait,    \* ticks of waiting before an upshift
    AdjustInterval, \* ticks between two adjustments
    Threshold,      \* consecutive failures that open the breaker
    Cooldown,       \* ticks from open to the probe
    MaxAborts       \* bound: callers that give up

ASSUME LlmAssumption ==
    /\ LaneOf \in [Calls -> Lanes] /\ Adaptive \subseteq Lanes
    /\ MinLimit \in Nat \ {0} /\ MaxLimit \in Nat /\ MinLimit <= MaxLimit
    /\ StepUp \in Nat \ {0} /\ WindowSize \in Nat \ {0}
    /\ ScaleUpWait \in Nat /\ AdjustInterval \in Nat
    /\ Threshold \in Nat \ {0} /\ Cooldown \in Nat \ {0} /\ MaxAborts \in Nat

VARIABLES
    breaker,   \* state, consecutive failures, probing and what is left of the cooldown
    call,      \* phase of each request, whether its caller gave up, whether it is a probe
    lane,      \* queue, active count and limit of each lane
    aimd,      \* controllers: window of outcomes, age of the queue, of the last adjustment
    healthy,   \* the backend answers
    aborts     \* callers that gave up so far

vars == <<breaker, call, lane, aimd, healthy, aborts>>

Null == -1     \* queueSince = null
Free == [phase |-> "idle", aborted |-> FALSE, probe |-> FALSE]
Outcomes == {"ok", "transient", "rateLimited", "permanent", "abort"}
Running(l) == {c \in Calls : LaneOf[c] = l /\ call[c].phase = "running"}

----------------------------------------------------------------------------
(* Circuit breaker *)

Closed == [state |-> "closed", failures |-> 0, probing |-> FALSE, left |-> 0]
Opened == [state |-> "open", failures |-> 0, probing |-> FALSE, left |-> Cooldown]

\* The guard lets a request pass: closed, cooled down, or half-open with no probe.
Passes == \/ breaker.state = "closed"
          \/ breaker.state = "open" /\ breaker.left = 0
          \/ breaker.state = "half-open" /\ ~breaker.probing

\* The breaker once a request has passed: the first one after the cooldown is the probe.
Probes == breaker.state = "open"
Guarded == IF Probes THEN [breaker EXCEPT !.state = "half-open", !.probing = TRUE]
           ELSE breaker

\* recordFailure: in half-open at once, otherwise from the threshold on; a late
\* failure of an open breaker counts too and may start the cooldown again.
Failed(b) ==
    IF b.state = "half-open" \/ b.failures + 1 >= Threshold THEN Opened
    ELSE [b EXCEPT !.failures = @ + 1]

\* An aborted request, whichever it is, gives the probe slot of a half-open breaker back.
ReleasedNever(b) == b
Released(b) == IF b.state = "half-open" THEN [b EXCEPT !.probing = FALSE] ELSE b

\* What the breaker records of an answer; a client error is an answer, but
\* counts for the probe only.
RecordedServed(b, o) ==
    CASE o = "ok" -> Closed
      [] o \in {"transient", "rateLimited"} -> Failed(b)
      [] o = "abort" -> Released(b)
      [] o = "permanent" -> b
Recorded(b, o) ==
    CASE o = "ok" -> Closed
      [] o \in {"transient", "rateLimited"} -> Failed(b)
      [] o = "abort" -> Released(b)
      [] o = "permanent" -> IF b.state = "half-open" /\ b.probing THEN Closed ELSE b

----------------------------------------------------------------------------
(* Request queue and controller *)

\* processNext: requests given up while waiting are refused one after the
\* other, until one starts or the queue is empty.
GaveUp(q) == Max({i \in 0..Len(q) : \A j \in 1..i : call[q[j]].aborted})
AdmitOnlyHead(ln) ==
    IF ln.queue = <<>> \/ ln.active >= ln.max THEN ln
    ELSE [ln EXCEPT !.queue = Tail(@),
                    !.active = IF call[Head(ln.queue)].aborted THEN @ ELSE @ + 1]
AdmitNewest(ln) ==
    IF ln.queue = <<>> \/ ln.active >= ln.max THEN ln
    ELSE [ln EXCEPT !.queue = SubSeq(@, 1, Len(@) - 1),
                    !.active = IF call[Last(ln.queue)].aborted THEN @ ELSE @ + 1]
Admit(ln) ==
    IF ln.queue = <<>> \/ ln.active >= ln.max THEN ln
    ELSE LET k == GaveUp(ln.queue) IN
         [ln EXCEPT !.queue = SubSeq(@, k + 2, Len(@)),
                    !.active = IF k < Len(ln.queue) THEN @ + 1 ELSE @]

\* observeQueue: the age of the queue starts with its first request and ends empty.
ObserveQueue(a, depth) ==
    [a EXCEPT !.waited = IF depth = 0 THEN Null ELSE IF @ = Null THEN 0 ELSE @]

FailureRateHigh(w) == 4 * Len(SelectSeq(w, LAMBDA ok : ~ok)) > Len(w)

\* recordCompletion: the window of the last outcomes, then the adjusted
\* controller and limit.
Windowed(w, ok) == IF Len(w) = WindowSize THEN Append(Tail(w), ok) ELSE Append(w, ok)
DownshiftUnfloored(limit) == limit \div 2
Downshift(limit) == IF limit \div 2 < MinLimit THEN MinLimit ELSE limit \div 2
Upshift(limit) == IF limit + StepUp > MaxLimit THEN MaxLimit ELSE limit + StepUp
Adjusted(a, limit, o) ==
    IF a.sinceAdjust < AdjustInterval THEN [aimd |-> a, limit |-> limit]
    ELSE IF o = "rateLimited" \/ FailureRateHigh(a.window)
    THEN IF Downshift(limit) = limit THEN [aimd |-> a, limit |-> limit]
         ELSE [aimd |-> [a EXCEPT !.sinceAdjust = 0, !.waited = Null], limit |-> Downshift(limit)]
    ELSE IF a.waited # Null /\ a.waited >= ScaleUpWait /\ limit < MaxLimit
    THEN [aimd |-> [a EXCEPT !.sinceAdjust = 0, !.waited = 0], limit |-> Upshift(limit)]
    ELSE [aimd |-> a, limit |-> limit]

Start(c)   == [call EXCEPT ![c] = [phase |-> "running", aborted |-> FALSE, probe |-> Probes]]
Enqueue(c) == [call EXCEPT ![c] = [phase |-> "queued", aborted |-> FALSE, probe |-> Probes]]

----------------------------------------------------------------------------
(* Actions *)

Init ==
    /\ breaker = Closed
    /\ call = [c \in Calls |-> Free]
    /\ lane = [l \in Lanes |-> [queue |-> <<>>, active |-> 0, max |-> MinLimit]]
    /\ aimd = [l \in Adaptive |-> [window |-> <<>>, waited |-> Null, sinceAdjust |-> AdjustInterval]]
    /\ healthy = FALSE
    /\ aborts = 0

\* chat: the guard lets the request pass and a slot is free.  Requests that
\* already wait are not looked at.
Dispatch(c) ==
    LET l == LaneOf[c] IN
    /\ call[c].phase = "idle" /\ Passes
    /\ lane[l].active < lane[l].max
    /\ breaker' = Guarded
    /\ call' = Start(c)
    /\ lane' = [lane EXCEPT ![l].active = @ + 1]
    /\ UNCHANGED <<aimd, healthy, aborts>>

\* chat: no slot is free, the request waits; it keeps the guard's verdict.
Wait(c) ==
    LET l == LaneOf[c] IN
    /\ call[c].phase = "idle" /\ Passes
    /\ lane[l].active >= lane[l].max
    /\ breaker' = Guarded
    /\ call' = Enqueue(c)
    /\ lane' = [lane EXCEPT ![l].queue = Append(@, c)]
    /\ aimd' = IF l \in Adaptive
               THEN [aimd EXCEPT ![l] = ObserveQueue(@, Len(lane[l].queue) + 1)] ELSE aimd
    /\ UNCHANGED <<healthy, aborts>>

\* chat with a signal that has fired already: the queue refuses it at once, the
\* breaker sees the request pass and then given up.
ChatAborted(c) ==
    /\ call[c].phase = "idle" /\ Passes /\ aborts < MaxAborts
    /\ aborts' = aborts + 1
    /\ breaker' = Released(Guarded)
    /\ UNCHANGED <<call, lane, aimd, healthy>>

\* The caller gives up: noticed by a waiting request when its turn comes, by a
\* running one when the provider's fetch is cancelled.
Abort(c) ==
    /\ call[c].phase # "idle" /\ ~call[c].aborted /\ aborts < MaxAborts
    /\ aborts' = aborts + 1
    /\ call' = [call EXCEPT ![c].aborted = TRUE]
    /\ UNCHANGED <<breaker, lane, aimd, healthy>>

\* What the provider may answer: an abort only when the caller gave up (whose
\* budget may also expire: a transient failure), a client error at any time.
Answers(c) ==
    {"permanent"} \cup (IF healthy THEN {"ok"} ELSE {"transient", "rateLimited"})
                  \cup (IF call[c].aborted THEN {"abort", "transient"} ELSE {})

\* The provider answers c: its slot is released, the controller adjusts the
\* limit and admits a request when it did, the queue admits one; the breaker
\* records the answer, then the refusals of the requests given up.
Observed(c, o) ==
    LET a == aimd[LaneOf[c]] IN
    ObserveQueue([a EXCEPT !.window = Windowed(@, o = "ok")], Len(lane[LaneOf[c]].queue))
Completed(c, a, o) ==
    IF LaneOf[c] \in Adaptive THEN Adjusted(a, lane[LaneOf[c]].max, o)
    ELSE [aimd |-> a, limit |-> lane[LaneOf[c]].max]
Resized(ln, limit) == IF limit = ln.max THEN ln ELSE Admit([ln EXCEPT !.max = limit])

Finish(c, o) ==
    /\ call[c].phase = "running" /\ o \in Answers(c)
    /\ \E a \in {IF LaneOf[c] \in Adaptive THEN Observed(c, o) ELSE Null} :
       \E adj \in {Completed(c, a, o)} :
       \E once \in {Resized([lane[LaneOf[c]] EXCEPT !.active = @ - 1], adj.limit)} :
       \E ln \in {Admit(once)} :
       \E left \in {ToSet(lane[LaneOf[c]].queue) \ ToSet(ln.queue)} :
         /\ lane' = [lane EXCEPT ![LaneOf[c]] = ln]
         /\ aimd' = [l \in Adaptive |-> IF l = LaneOf[c] THEN adj.aimd ELSE aimd[l]]
         /\ call' = [d \in Calls |->
               IF d = c \/ (d \in left /\ call[d].aborted) THEN Free
               ELSE IF d \in left THEN [call[d] EXCEPT !.phase = "running"] ELSE call[d]]
         /\ breaker' = IF \E d \in left : call[d].aborted THEN Released(Recorded(breaker, o))
                       ELSE Recorded(breaker, o)
    /\ UNCHANGED <<healthy, aborts>>

\* Time passes: the cooldown, the age of the queue and that of the adjustment.
Older(a) == [a EXCEPT !.waited = IF @ = Null \/ @ >= ScaleUpWait THEN @ ELSE @ + 1,
                      !.sinceAdjust = IF @ >= AdjustInterval THEN @ ELSE @ + 1]
Tick ==
    /\ breaker' = [breaker EXCEPT !.left = IF @ > 0 THEN @ - 1 ELSE 0]
    /\ aimd' = [l \in Adaptive |-> Older(aimd[l])]
    /\ UNCHANGED <<call, lane, healthy, aborts>>

\* The backend comes back; it has not gone before (external).
Revive == ~healthy /\ healthy' = TRUE /\ UNCHANGED <<breaker, call, lane, aimd, aborts>>

Answer(c) == \E o \in Answers(c) : Finish(c, o)

Next ==
    \/ \E c \in Calls : Dispatch(c) \/ Wait(c) \/ ChatAborted(c) \/ Abort(c)
    \/ \E c \in Calls, o \in Outcomes : Finish(c, o)
    \/ Tick \/ Revive

Spec == Init /\ [][Next]_vars

\* Every provider call ends, by its timeout at the latest, and time passes.
\* Nobody needs to ask again and the backend need not come back.
FairSpec ==
    /\ Spec
    /\ WF_vars(Tick)
    /\ \A c \in Calls : WF_vars(Answer(c))

----------------------------------------------------------------------------
(* Properties *)

Breakers == [state : {"closed", "open", "half-open"}, failures : 0..(Threshold - 1),
             probing : BOOLEAN, left : 0..Cooldown]
Requests == [phase : {"idle", "queued", "running"}, aborted : BOOLEAN, probe : BOOLEAN]

\* The breaker of the backend, the requests, the queues with their limits, which
\* stay between MinLimit and MaxLimit, and the controllers.
TypeOK ==
    /\ breaker \in Breakers
    /\ call \in [Calls -> Requests]
    /\ lane \in [Lanes -> [queue : Seq(Calls), active : Int, max : MinLimit..MaxLimit]]
    /\ \A l \in Lanes \ Adaptive : lane[l].max = MinLimit
    /\ aimd \in [Adaptive -> [window : Seq(BOOLEAN), waited : {Null} \cup 0..ScaleUpWait,
                             sinceAdjust : 0..AdjustInterval]]
    /\ healthy \in BOOLEAN /\ aborts \in 0..MaxAborts

\* The probe slot is never kept by nobody: while the breaker refuses requests
\* because a probe is under way, a probe is under way, waiting or running, whose
\* end gives the slot back (guard and its catch).  The probe may be given up in
\* the queue, overtaken by late answers, or be that of an earlier cooldown.
NoWedge == breaker.probing =>
    /\ breaker.state = "half-open"
    /\ \E c \in Calls : call[c].phase # "idle" /\ call[c].probe

\* The active count is the number of requests the provider is working on and
\* the queue is the requests that wait, each once: neither a slot nor a waiter
\* is lost when waiters are given up or the limit changes under them, and
\* whoever waits waits for a running request of its lane, whose end admits it.
SlotsAccounted == \A l \in Lanes :
    /\ lane[l].active = Cardinality(Running(l))
    /\ ToSet(lane[l].queue) = {c \in Calls : LaneOf[c] = l /\ call[c].phase = "queued"}
    /\ IsInjective(lane[l].queue)
    /\ lane[l].queue # <<>> => lane[l].active > 0

\* A request that waits is served or refused, although newcomers overtake it
\* whenever a slot is free, and the limit may shrink.
WaitersSettle == \A c \in Calls : call[c].phase = "queued" ~> call[c].phase # "queued"

\* Once the backend answers again the breaker lets requests pass for good,
\* whatever late failures, given-up probes and client errors come in between.
BreakerRecovers == <>healthy => <>[]Passes
=============================================================================
