--------------------------- MODULE HassConnection ---------------------------
(***************************************************************************)
(* The connection to Home Assistant (apps/server/src/hass/connection.ts)   *)
(* and the promise the server's callers share (hass/service.ts): connect   *)
(* attempts, authentication, the bootstrap that seeds the cache and        *)
(* subscribes, requests with their timers, reconnects, close.              *)
(*                                                                         *)
(* A frame, a timer or a call is one step: what follows the await of an    *)
(* answer runs before the next frame.  Home Assistant is the environment:  *)
(* it speaks the protocol hass/mock-hass.ts speaks, answers in any order,  *)
(* and until it is steady it may refuse, drop, fail or keep silent.        *)
(*                                                                         *)
(* Abstractions: the entities and their events are left out, which no      *)
(* promise depends on.  A request is named by its kind and by the attempt  *)
(* or the command it belongs to instead of by the number drawn from seq:   *)
(* numbers are never drawn twice.  Delays and the backoff are any delay.   *)
(* Sockets are slots, used again when nothing refers to the one before.    *)
(***************************************************************************)
EXTENDS Integers, Sequences, FiniteSets

CONSTANTS
    Sockets,      \* connect attempts, each with its socket, that can exist at once
    Commands,     \* call_service requests that can be under way at once
    None,
    MaxConnects   \* bound: callers that need the connection while it is not ready

ASSUME HassAssumption ==
    /\ None \notin Sockets
    /\ MaxConnects \in Nat

VARIABLES
    conn,      \* state, closed, connectPromise, ws and reconnectTimer of the connection
    waiting,   \* the attempt the callers of ensureReady wait for, or None
    sock,      \* the sockets with their attempts
    pending,   \* requests with a timer
    via,       \* the socket a request is on its way to Home Assistant by, or None
    connects,  \* attempts asked for by callers so far
    steady,    \* Home Assistant and the network behave from now on
    token      \* Home Assistant accepts the token

vars == <<conn, waiting, sock, pending, via, connects, steady, token>>
haVars == <<steady, token>>

Get(s) == <<"get_states", s>>
Sub(s) == <<"subscribe_events", s>>
Cmd(k) == <<"call_service", k>>
Bootstraps == {Get(s) : s \in Sockets} \cup {Sub(s) : s \in Sockets}
Requests == Bootstraps \cup {Cmd(k) : k \in Commands}

Frames == {<<"auth_required">>, <<"auth_ok">>, <<"auth_invalid">>} \cup ({"result"} \X Requests)
Idle == [phase |-> "free", settled |-> TRUE, byTimer |-> FALSE, auth |-> "none", inbox |-> <<>>]
Answered(r) == \E s \in Sockets : \E i \in DOMAIN sock[s].inbox : sock[s].inbox[i] = <<"result", r>>
Gone(r) == r \notin pending /\ via[r] = None /\ ~Answered(r)
Unused(s) == sock[s].phase = "free" /\ Gone(Get(s)) /\ Gone(Sub(s))

IsOpen(s) == s # None /\ sock[s].phase \in {"open", "authed"}
CanRequest == conn.state = "ready" /\ IsOpen(conn.ws)

----------------------------------------------------------------------------
(* Steps of the connection, on the whole state of the server *)

\* The state a step works on.
Now == [conn |-> conn, waiting |-> waiting, sock |-> sock, pending |-> pending, via |-> via]
Become(x) == \E y \in {x} :
    /\ conn' = y.conn /\ waiting' = y.waiting /\ sock' = y.sock
    /\ pending' = y.pending /\ via' = y.via

\* scheduleReconnect: one timer, none once closed.
ScheduleRegardless(x) == [x EXCEPT !.conn.timer = TRUE]
ScheduleReconnect(x) == [x EXCEPT !.conn.timer = @ \/ ~x.conn.closed]

\* settle(error) of the attempts S that are not settled: the socket is closed,
\* connectPromise forgotten, whosever it is, the callers are answered; an
\* attempt made by the timer schedules another unless the token was refused.
Pend(x, S) == {s \in S : ~x.sock[s].settled}
SettledFreeing(x, S) == [s \in Sockets |->
    IF s \in Pend(x, S) THEN [x.sock[s] EXCEPT !.settled = TRUE, !.phase = "free"] ELSE x.sock[s]]
Settled(x, S) == [s \in Sockets |->
    IF s \in Pend(x, S) THEN [x.sock[s] EXCEPT !.settled = TRUE, !.phase = "gone"] ELSE x.sock[s]]
Rejected(x, S) ==
    [x EXCEPT !.sock = Settled(x, S), !.conn.attempt = None, !.conn.state = "disconnected",
              !.waiting = IF @ \in Pend(x, S) THEN None ELSE @]
FailOnce(x, S, permanent) == IF Pend(x, S) = {} THEN x ELSE Rejected(x, S)
FailKeepingPromise(x, S, permanent) ==
    IF Pend(x, S) = {} THEN x
    ELSE [x EXCEPT !.sock = Settled(x, S), !.conn.state = "disconnected",
                   !.waiting = IF @ \in Pend(x, S) THEN None ELSE @]
Fail(x, S, permanent) ==
    IF Pend(x, S) = {} THEN x
    ELSE IF ~permanent /\ \E s \in Pend(x, S) : x.sock[s].byTimer
    THEN ScheduleReconnect(Rejected(x, S)) ELSE Rejected(x, S)

\* failAllPending, then the attempts whose bootstrap waited for an answer fail.
FailAllSilently(x) == [x EXCEPT !.pending = {}]
FailAllPending(x) ==
    Fail([x EXCEPT !.pending = {}],
         {s \in Sockets : Get(s) \in x.pending \/ Sub(s) \in x.pending}, FALSE)

\* request: refused unless ready and the current socket is open; a frame sent
\* before the authentication spoils it.
Send(x, r) ==
    [x EXCEPT !.pending = @ \cup {r}, !.via[r] = x.conn.ws,
              !.sock[x.conn.ws].auth = IF @ = "none" THEN "spoiled" ELSE @]
Request(x, r, s) ==
    IF x.conn.state = "ready" /\ x.conn.ws # None
       /\ x.sock[x.conn.ws].phase \in {"open", "authed"}
    THEN Send(x, r) ELSE Fail(x, {s}, FALSE)

\* establish: a new socket becomes the current one, an earlier attempt goes on.
Establish(x, s, byTimer) ==
    [x EXCEPT !.sock[s] = [Idle EXCEPT !.phase = "opening", !.settled = FALSE, !.byTimer = byTimer],
              !.conn.ws = s, !.conn.attempt = s, !.conn.state = "connecting"]

----------------------------------------------------------------------------
(* Callers *)

Down == [state |-> "disconnected", closed |-> FALSE, attempt |-> None, ws |-> None, timer |-> FALSE]

\* ensureReady and connect: join the attempt under way, or make one.
Connect ==
    /\ conn.state # "ready" /\ waiting = None /\ connects < MaxConnects
    /\ connects' = connects + 1
    /\ \/ conn.attempt # None
          /\ Become([Now EXCEPT !.waiting = conn.attempt])
       \/ conn.attempt = None
          /\ \E s \in Sockets : Unused(s)
                /\ Become([Establish(Now, s, FALSE) EXCEPT !.waiting = s])
    /\ UNCHANGED haVars

\* callService of a device.
CallService(k) ==
    /\ CanRequest /\ Gone(Cmd(k))
    /\ Become(Send(Now, Cmd(k)))
    /\ UNCHANGED <<haVars, connects>>

\* close: the timer is cancelled, every request rejected, the current socket closed.
Close ==
    /\ ~conn.closed
    /\ LET x == FailAllPending([Now EXCEPT !.conn.closed = TRUE, !.conn.timer = FALSE])
           w == conn.ws
           y == IF w # None /\ x.sock[w].phase \in {"opening", "open", "authed"}
                THEN [x EXCEPT !.sock[w].phase = "gone"] ELSE x
       IN Become([y EXCEPT !.conn.ws = None, !.conn.state = "disconnected"])
    /\ UNCHANGED <<haVars, connects>>

----------------------------------------------------------------------------
(* Timers *)

\* The reconnect timer forgets the attempt of whoever made one meanwhile.  Once
\* all is steady a socket is closed for good before the delay is over.
TimerFires ==
    /\ conn.timer /\ ~conn.closed
    /\ steady => \A s \in Sockets : sock[s].phase # "gone"
    /\ LET x == [Now EXCEPT !.conn.timer = FALSE, !.conn.attempt = None] IN
       IF conn.state = "ready" THEN Become(x)
       ELSE \E s \in Sockets : Unused(s) /\ Become(Establish(x, s, TRUE))
    /\ UNCHANGED <<haVars, connects>>

\* No answer in time, or an answer that refuses the request; a steady Home
\* Assistant answers what has reached it.
Timeout(r) ==
    /\ r \in pending
    /\ steady => ~Answered(r) /\ via[r] = None
    /\ LET x == [Now EXCEPT !.pending = @ \ {r}] IN
       Become(IF r \in Bootstraps THEN Fail(x, {r[2]}, FALSE) ELSE x)
    /\ UNCHANGED <<haVars, connects>>

----------------------------------------------------------------------------
(* Frames *)

Popped(s) == [Now EXCEPT !.sock[s].inbox = Tail(@)]

\* auth_required is answered on the current socket, be it another one; sending
\* on a socket that is still connecting throws out of the frame's handler: the
\* process dies and is started again.
AuthRequired(s) ==
    LET w == conn.ws IN
    IF w # None /\ sock[w].phase = "opening"
    THEN [conn |-> Down, waiting |-> None, sock |-> [t \in Sockets |-> Idle], pending |-> {},
          via |-> [r \in Requests |-> None]]
    ELSE IF IsOpen(w)
    THEN [Popped(s) EXCEPT !.sock[w].auth = IF @ = "none" THEN "asked" ELSE @]
    ELSE Popped(s)

\* auth_ok: ready before the cache is seeded, so that the bootstrap may send.
AuthOk(s) == Request([Popped(s) EXCEPT !.conn.state = "ready"], Get(s), s)

\* Answers, by the number of the request, whichever socket brings them.  The last
\* of a bootstrap settles its attempt, unless something else has settled it.
Result(s, r) ==
    LET x == [Popped(s) EXCEPT !.pending = @ \ {r}] IN
    IF r \notin pending \/ r \notin Bootstraps THEN x
    ELSE IF r[1] = "get_states" THEN Request(x, Sub(r[2]), r[2])
    ELSE IF x.sock[r[2]].settled THEN x
    ELSE [x EXCEPT !.sock[r[2]].settled = TRUE, !.conn.attempt = None,
                   !.waiting = IF @ = r[2] THEN None ELSE @]

Receive(s) ==
    /\ sock[s].inbox # <<>>
    /\ LET m == Head(sock[s].inbox) IN
       Become(CASE m[1] = "auth_required" -> AuthRequired(s)
                [] m[1] = "auth_ok" -> AuthOk(s)
                [] m[1] = "auth_invalid" -> Fail(Popped(s), {s}, TRUE)
                [] m[1] = "result" -> Result(s, m[2]))
    /\ UNCHANGED <<haVars, connects>>

\* The close event of a socket: an attempt under way fails, otherwise every
\* request is rejected and a connection that was ready is scheduled to return.
CloseEvent(s) ==
    /\ sock[s].phase = "gone"
    /\ LET x == [Now EXCEPT !.sock[s].inbox = <<>>,
                            !.via = [r \in Requests |-> IF via[r] = s THEN None ELSE via[r]]]
           y == FailAllPending([x EXCEPT !.conn.state = "disconnected"])
           z == IF ~sock[s].settled THEN Fail(x, {s}, FALSE)
                ELSE IF conn.state = "ready" THEN ScheduleReconnect(y) ELSE y
       IN Become([z EXCEPT !.sock[s] = Idle, !.conn.ws = IF @ = s THEN None ELSE @])
    /\ UNCHANGED <<haVars, connects>>

----------------------------------------------------------------------------
(* Home Assistant and the network *)

Put(s, m) == [sock EXCEPT ![s].inbox = Append(@, m)]
serverVars == <<conn, waiting, pending, connects>>

Open(s) ==
    /\ sock[s].phase = "opening"
    /\ sock' = [sock EXCEPT ![s].phase = "open", ![s].inbox = << <<"auth_required">> >>]
    /\ UNCHANGED <<serverVars, via, haVars>>

\* The socket's error event comes before its close event.
Refuse(s) ==
    /\ sock[s].phase = "opening" /\ ~steady
    /\ Become(Fail(Now, {s}, FALSE))
    /\ UNCHANGED <<haVars, connects>>

Authenticate(s) ==
    /\ sock[s].phase = "open" /\ sock[s].auth \in {"asked", "spoiled"}
    /\ \/ sock[s].auth = "asked" /\ token
          /\ sock' = [Put(s, <<"auth_ok">>) EXCEPT ![s].phase = "authed"]
       \/ /\ sock[s].auth = "asked" => ~token
          /\ sock' = [Put(s, <<"auth_invalid">>) EXCEPT ![s].phase = "gone"]
    /\ UNCHANGED <<serverVars, via, haVars>>

\* The connection is lost.
Drop(s) ==
    /\ sock[s].phase \in {"open", "authed"} /\ ~steady
    /\ sock' = [sock EXCEPT ![s].phase = "gone"]
    /\ UNCHANGED <<serverVars, via, haVars>>

\* Home Assistant has asked for the authentication and waited in vain.
HangUp(s) ==
    /\ sock[s].phase = "open" /\ sock[s].auth = "none" /\ sock[s].inbox = <<>>
    /\ sock' = [sock EXCEPT ![s].phase = "gone"]
    /\ UNCHANGED <<serverVars, via, haVars>>

Answer(r) ==
    LET s == via[r] IN
    /\ s # None
    /\ sock[s].phase = "authed"
    /\ sock' = Put(s, <<"result", r>>)
    /\ via' = [via EXCEPT ![r] = None]
    /\ UNCHANGED <<serverVars, haVars>>

Steady == ~steady /\ steady' = TRUE /\ UNCHANGED <<serverVars, sock, via, token>>

----------------------------------------------------------------------------
Init ==
    /\ conn = Down /\ waiting = None
    /\ sock = [s \in Sockets |-> Idle]
    /\ pending = {} /\ via = [r \in Requests |-> None]
    /\ connects = 0 /\ steady = FALSE /\ token \in BOOLEAN

Next ==
    \/ Connect \/ Close \/ TimerFires
    \/ \E k \in Commands : CallService(k)
    \/ \E r \in Requests : Timeout(r) \/ Answer(r)
    \/ \E s \in Sockets : \/ Receive(s) \/ CloseEvent(s)
                          \/ Open(s) \/ Refuse(s) \/ Authenticate(s) \/ Drop(s) \/ HangUp(s)
    \/ Steady

Spec == Init /\ [][Next]_vars

\* What the server does by itself: timers fire, frames and close events are
\* handled.  Requests have a timer, a handshake has none.
ServerFairness ==
    /\ WF_vars(TimerFires)
    /\ \A r \in Requests : WF_vars(Timeout(r))
    /\ \A s \in Sockets : WF_vars(Receive(s) \/ CloseEvent(s))

\* Home Assistant opens, authenticates, hangs up on who does not and answers only
\* once it is steady; before, it may keep silent for ever.
PeerFairness ==
    /\ \A s \in Sockets : WF_vars(steady /\ (Open(s) \/ Authenticate(s) \/ HangUp(s)))
    /\ \A r \in Requests : WF_vars(steady /\ Answer(r))

FairSpec == Spec /\ ServerFairness /\ PeerFairness

----------------------------------------------------------------------------
(* Properties *)

Conns == [state : {"disconnected", "connecting", "ready"}, closed : BOOLEAN,
          attempt : Sockets \cup {None}, ws : Sockets \cup {None}, timer : BOOLEAN]
Attempts == [phase : {"free", "opening", "open", "authed", "gone"}, settled : BOOLEAN,
             byTimer : BOOLEAN, auth : {"none", "asked", "spoiled"}, inbox : Seq(Frames)]

\* The connection, its attempts and their sockets, the requests with a timer and on
\* their way; a socket that is free has nothing left of the attempt before.
TypeOK ==
    /\ conn \in Conns /\ waiting \in Sockets \cup {None} /\ sock \in [Sockets -> Attempts]
    /\ \A s \in Sockets : sock[s].phase = "free" => sock[s] = Idle
    /\ pending \subseteq Requests /\ via \in [Requests -> Sockets \cup {None}]
    /\ connects \in 0..MaxConnects /\ steady \in BOOLEAN /\ token \in BOOLEAN

\* A promise somebody can be given, connectPromise or the one ensureReady
\* shares, is the promise of an attempt still under way: nobody joins an attempt
\* that has failed, and no failure of one attempt leaves another's callers with it.
\* Likewise the connection says connecting only while an attempt is under way,
\* although attempts and close events of earlier sockets set the state past each other.
PromisesPend ==
    /\ conn.attempt # None => ~sock[conn.attempt].settled
    /\ waiting # None => ~sock[waiting].settled
    /\ conn.state = "connecting" => \E s \in Sockets : ~sock[s].settled

\* Once closed no reconnect is ever scheduled, whichever attempt fails later and
\* whichever socket's close event comes later.
NoTimerOnceClosed == conn.closed => ~conn.timer

\* Home Assistant owes the next step of a handshake, for which nothing sets a timer.
Owed(s) == \/ sock[s].phase = "opening"
           \/ sock[s].phase = "open" /\ sock[s].inbox = <<>>

\* Every command is answered, by Home Assistant, the end of a socket, a timer or
\* close.  Every attempt comes to its end, once it is authenticated whatever Home
\* Assistant does, unless that keeps silent in the handshake for ever: then the
\* callers of connect and ensureReady wait for ever.  A steady one never does that.
CallersAnswered ==
    /\ \A k \in Commands : Cmd(k) \in pending ~> Cmd(k) \notin pending
    /\ \A s \in Sockets : ~sock[s].settled ~> (sock[s].settled \/ [](Owed(s) /\ ~steady))

\* connect is documented as idempotent while an attempt is in flight; the
\* reconnect timer forgets the promise of an attempt a caller has made and makes
\* a second one.
OneAttempt == \A s, t \in Sockets : ~sock[s].settled /\ ~sock[t].settled => s = t

\* After a drop the connection returns by itself, seeded and subscribed, once
\* Home Assistant and the network are steady, through any number of failed
\* attempts before, unless a caller takes it over with an attempt of its own:
\* "the retry decision is the caller's" (close handler).
Served == /\ conn.state = "ready" /\ conn.ws # None
          /\ sock[conn.ws].phase = "authed" /\ sock[conn.ws].settled
TakenOver == \E s \in Sockets : ~sock[s].settled /\ ~sock[s].byTimer
RecoversAfterDrop == <>steady => (conn.timer ~> Served \/ conn.closed \/ TakenOver)
=============================================================================
