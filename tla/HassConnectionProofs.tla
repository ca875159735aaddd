------------------------ MODULE HassConnectionProofs ------------------------
(***************************************************************************)
(* The promises callers share are always those of attempts under way, and  *)
(* nothing is scheduled once the connection is closed: for every number of *)
(* sockets, commands and states, with attempts, answers, close events and  *)
(* timers in any order.                                                    *)
(*                                                                         *)
(* A step of the code is a composition of the operators of HassConnection  *)
(* on the state of the server (Now).  Each operator keeps the type of such *)
(* a state (States) and what is promised of it (Promises), so that each    *)
(* action does by the lemmas of the operators it is made of.               *)
(***************************************************************************)
EXTENDS HassConnection, TLAPS

States == [conn : Conns, waiting : Sockets \cup {None}, sock : [Sockets -> Attempts],
           pending : SUBSET Requests, via : [Requests -> Sockets \cup {None}]]

\* PromisesPend and NoTimerOnceClosed of a state x, and clean slots.  The
\* connection says connecting for an attempt that has not sent its bootstrap yet:
\* the answer to the bootstrap of an earlier attempt settles another one.
Promises(x) ==
    /\ x.conn.attempt # None => ~x.sock[x.conn.attempt].settled
    /\ x.waiting # None => ~x.sock[x.waiting].settled
    /\ x.conn.state = "connecting" =>
         \E s \in Sockets : ~x.sock[s].settled /\ {Get(s), Sub(s)} \cap x.pending = {}
    /\ x.conn.closed => ~x.conn.timer
    /\ \A s \in Sockets : x.sock[s].phase = "free" => x.sock[s] = Idle

Sound(x) == x \in States /\ Promises(x)

----------------------------------------------------------------------------
(* Requests and frames *)

LEMMA RequestShape ==
    /\ \A s \in Sockets : Get(s) \in Requests /\ Sub(s) \in Requests
    /\ \A s \in Sockets : Get(s) \in Bootstraps /\ Sub(s) \in Bootstraps
    /\ \A k \in Commands : Cmd(k) \in Requests
    /\ \A r \in Bootstraps : \E s \in Sockets : r = Get(s) \/ r = Sub(s)
    /\ \A r \in Requests : r \in Bootstraps \/ \E k \in Commands : r = Cmd(k)
    /\ \A s \in Sockets : /\ Get(s)[1] = "get_states" /\ Get(s)[2] = s
                          /\ Sub(s)[1] = "subscribe_events" /\ Sub(s)[2] = s
    /\ \A k \in Commands : Cmd(k)[1] = "call_service"
  BY DEF Requests, Bootstraps, Get, Sub, Cmd

LEMMA BootstrapOf ==
    ASSUME NEW r \in Bootstraps
    PROVE  r[2] \in Sockets /\ (r = Get(r[2]) \/ r = Sub(r[2]))
           /\ (r[1] = "get_states" => r = Get(r[2])) /\ (r[1] # "get_states" => r = Sub(r[2]))
  <1>1. PICK s \in Sockets : r = Get(s) \/ r = Sub(s)
    BY RequestShape
  <1> QED BY <1>1, RequestShape

LEMMA FrameShape ==
    ASSUME NEW m \in Frames
    PROVE  /\ m[1] \in {"auth_required", "auth_ok", "auth_invalid", "result"}
           /\ m[1] = "result" => m[2] \in Requests
  <1>1. CASE m \in {<<"auth_required">>, <<"auth_ok">>, <<"auth_invalid">>}
    BY <1>1
  <1>2. CASE m \in {"result"} \X Requests
    BY <1>2
  <1> QED BY <1>1, <1>2 DEF Frames

LEMMA IdleTyped == Idle \in Attempts /\ Idle.settled /\ Idle.phase = "free"
  <1>1. <<>> \in Seq(Frames)
    OBVIOUS
  <1> QED BY <1>1 DEF Idle, Attempts

----------------------------------------------------------------------------
(* The operators of the connection *)

\* What Rejected does to a sound state when it settles somebody.
LEMMA RejectedSound ==
    ASSUME NEW x \in States, Promises(x), NEW S \in SUBSET Sockets
    PROVE  /\ Rejected(x, S) \in States /\ Promises(Rejected(x, S))
           /\ Rejected(x, S).conn.state = "disconnected"
           /\ Rejected(x, S).conn.attempt = None
           /\ Rejected(x, S).conn.closed = x.conn.closed
           /\ Rejected(x, S).pending = x.pending
           /\ \A s \in S : Rejected(x, S).sock[s].settled
           /\ \A s \in Sockets : x.sock[s].settled => Rejected(x, S).sock[s].settled
  <1> DEFINE y == Rejected(x, S)
  <1>1. Settled(x, S) \in [Sockets -> Attempts]
        /\ \A s \in Sockets : /\ x.sock[s].settled \/ s \in S => Settled(x, S)[s].settled
                              /\ ~x.sock[s].settled /\ s \notin S => ~Settled(x, S)[s].settled
                              /\ Settled(x, S)[s] = x.sock[s] \/ Settled(x, S)[s].phase = "gone"
    <2>1. x.sock \in [Sockets -> Attempts]
      BY DEF States
    <2>2. ASSUME NEW s \in Sockets
          PROVE  /\ Settled(x, S)[s] \in Attempts
                 /\ x.sock[s].settled \/ s \in S => Settled(x, S)[s].settled
                 /\ ~x.sock[s].settled /\ s \notin S => ~Settled(x, S)[s].settled
                 /\ Settled(x, S)[s] = x.sock[s] \/ Settled(x, S)[s].phase = "gone"
      <3>1. x.sock[s] \in Attempts
        BY <2>1
      <3>2. CASE s \in Pend(x, S)
        <4>1. Settled(x, S)[s] = [x.sock[s] EXCEPT !.settled = TRUE, !.phase = "gone"]
          BY <3>2 DEF Settled
        <4>2. s \in S
          BY <3>2 DEF Pend
        <4> QED BY <3>1, <4>1, <4>2 DEF Attempts
      <3>3. CASE s \notin Pend(x, S)
        <4>1. Settled(x, S)[s] = x.sock[s]
          BY <3>3 DEF Settled
        <4>2. x.sock[s].settled \/ s \notin S
          BY <3>3 DEF Pend
        <4>3. x.sock[s].settled \in BOOLEAN
          BY <3>1 DEF Attempts
        <4> QED BY <3>1, <4>1, <4>2, <4>3
      <3> QED BY <3>2, <3>3
    <2>3. Settled(x, S) = [s \in Sockets |-> Settled(x, S)[s]]
      BY DEF Settled
    <2> QED BY <2>2, <2>3
  <1>2. /\ y.sock = Settled(x, S) /\ y.pending = x.pending
        /\ y.conn = [x.conn EXCEPT !.attempt = None, !.state = "disconnected"]
        /\ y.waiting = IF x.waiting \in Pend(x, S) THEN None ELSE x.waiting
    BY DEF Rejected, States, Conns
  <1>3. y \in States
    BY <1>1 DEF Rejected, States, Conns
  <1>5. /\ y.conn.attempt = None /\ y.conn.state = "disconnected"
        /\ y.conn.closed = x.conn.closed /\ y.conn.timer = x.conn.timer
    BY <1>2 DEF Conns, States
  <1>6. \A s \in Sockets : y.sock[s].phase = "free" => y.sock[s] = Idle
    BY <1>1, <1>2 DEF Promises
  <1>7. y.waiting # None => ~y.sock[y.waiting].settled
    <2> SUFFICES ASSUME y.waiting # None PROVE ~y.sock[y.waiting].settled
      OBVIOUS
    <2>1. y.waiting = x.waiting /\ x.waiting \in Sockets \ Pend(x, S)
      BY <1>2 DEF States
    <2>2. ~x.sock[x.waiting].settled /\ x.waiting \notin S
      BY <2>1 DEF Promises, Pend
    <2>3. ~Settled(x, S)[x.waiting].settled
      BY <1>1, <2>1, <2>2
    <2> QED BY <1>2, <2>1, <2>3
  <1>8. y.conn.closed => ~y.conn.timer
    BY <1>5 DEF Promises
  <1>9. Promises(y)
    BY <1>5, <1>6, <1>7, <1>8 DEF Promises
  <1>10. \A s \in S : y.sock[s].settled
    <2>1. \A s \in S : Settled(x, S)[s].settled
      BY <1>1
    <2> QED BY <1>2, <2>1
  <1>11. \A s \in Sockets : x.sock[s].settled => y.sock[s].settled
    <2>1. \A s \in Sockets : x.sock[s].settled => Settled(x, S)[s].settled
      BY <1>1
    <2> QED BY <1>2, <2>1
  <1> QED BY <1>2, <1>3, <1>5, <1>9, <1>10, <1>11

\* The timer is armed unless the connection is closed.
LEMMA ScheduleSound ==
    ASSUME NEW x \in States, Promises(x)
    PROVE  Sound(ScheduleReconnect(x))
  <1> DEFINE y == ScheduleReconnect(x)
             t == x.conn.timer \/ ~x.conn.closed
  <1>1. t \in BOOLEAN
    OBVIOUS
  <1> HIDE DEF t
  <1>2. y = [x EXCEPT !.conn = [x.conn EXCEPT !.timer = t]]
    BY DEF ScheduleReconnect, States, Conns, t
  <1>3. [x.conn EXCEPT !.timer = t] \in Conns
    BY <1>1 DEF States, Conns
  <1>4. y \in States
    BY <1>2, <1>3 DEF States
  <1>5. /\ y.conn = [x.conn EXCEPT !.timer = t] /\ y.sock = x.sock
        /\ y.pending = x.pending /\ y.waiting = x.waiting
    BY <1>2 DEF States
  <1>6. x.conn.closed => ~t
    BY DEF t, Promises
  <1> QED BY <1>4, <1>5, <1>6 DEF Promises, Sound, States, Conns

\* Fail answers every caller of the attempts it ends, and only those.
LEMMA FailSound ==
    ASSUME NEW x \in States, Promises(x), NEW S \in SUBSET Sockets, NEW p \in BOOLEAN
    PROVE  /\ Fail(x, S, p) \in States /\ Promises(Fail(x, S, p))
           /\ Fail(x, S, p).conn.state \in {x.conn.state, "disconnected"}
           /\ Fail(x, S, p).conn.closed = x.conn.closed
           /\ Fail(x, S, p).pending = x.pending
           /\ \A s \in S : Fail(x, S, p).sock[s].settled
           /\ \A s \in Sockets : x.sock[s].settled => Fail(x, S, p).sock[s].settled
           /\ Pend(x, S) # {} => Fail(x, S, p).conn.state = "disconnected"
  <1>1. CASE Pend(x, S) = {}
    <2>1. Fail(x, S, p) = x
      BY <1>1 DEF Fail
    <2>2. \A s \in S : x.sock[s].settled
      BY <1>1 DEF Pend, States, Attempts
    <2> QED BY <1>1, <2>1, <2>2
  <1>2. CASE Pend(x, S) # {}
    <2> DEFINE y == Rejected(x, S)
    <2>1. Fail(x, S, p) = y \/ Fail(x, S, p) = ScheduleReconnect(y)
      BY <1>2 DEF Fail
    <2>2. /\ y \in States /\ Promises(y) /\ y.conn.state = "disconnected"
          /\ y.conn.closed = x.conn.closed /\ y.pending = x.pending
          /\ \A s \in S : y.sock[s].settled
          /\ \A s \in Sockets : x.sock[s].settled => y.sock[s].settled
      BY RejectedSound
    <2> HIDE DEF y
    <2>3. LET z == ScheduleReconnect(y) IN
          /\ z \in States /\ Promises(z) /\ z.conn.state = "disconnected"
          /\ z.conn.closed = x.conn.closed /\ z.pending = x.pending
          /\ \A s \in S : z.sock[s].settled
          /\ \A s \in Sockets : x.sock[s].settled => z.sock[s].settled
      <3>1. Sound(ScheduleReconnect(y))
        BY <2>2, ScheduleSound
      <3>2. /\ ScheduleReconnect(y).sock = y.sock /\ ScheduleReconnect(y).pending = y.pending
            /\ ScheduleReconnect(y).conn.state = y.conn.state
            /\ ScheduleReconnect(y).conn.closed = y.conn.closed
        BY <2>2 DEF ScheduleReconnect, States, Conns
      <3> QED BY <2>2, <3>1, <3>2 DEF Sound
    <2> QED BY <2>1, <2>2, <2>3
  <1> QED BY <1>1, <1>2

LEMMA FailAllSound ==
    ASSUME NEW x \in States, Promises(x)
    PROVE  /\ FailAllPending(x) \in States /\ Promises(FailAllPending(x))
           /\ FailAllPending(x).conn.state \in {x.conn.state, "disconnected"}
           /\ FailAllPending(x).conn.closed = x.conn.closed
           /\ \A s \in Sockets : x.sock[s].settled => FailAllPending(x).sock[s].settled
  <1> DEFINE y == [x EXCEPT !.pending = {}]
             S == {s \in Sockets : Get(s) \in x.pending \/ Sub(s) \in x.pending}
  <1>1. y \in States /\ Promises(y) /\ y.conn = x.conn /\ y.sock = x.sock
    BY DEF States, Promises
  <1>2. FailAllPending(x) = Fail(y, S, FALSE)
    BY DEF FailAllPending
  <1>3. S \in SUBSET Sockets
    OBVIOUS
  <1> HIDE DEF y, S
  <1>4. /\ Fail(y, S, FALSE) \in States /\ Promises(Fail(y, S, FALSE))
        /\ Fail(y, S, FALSE).conn.state \in {y.conn.state, "disconnected"}
        /\ Fail(y, S, FALSE).conn.closed = y.conn.closed
        /\ \A s \in Sockets : y.sock[s].settled => Fail(y, S, FALSE).sock[s].settled
    BY <1>1, <1>3, FailSound
  <1> QED BY <1>1, <1>2, <1>4

\* A request may be sent on an open socket, and none of an attempt the
\* connection says it is connecting for.
LEMMA SendSound ==
    ASSUME NEW x \in States, Promises(x), NEW r \in Requests,
           x.conn.ws # None, x.conn.state = "ready", x.sock[x.conn.ws].phase # "free"
    PROVE  Sound(Send(x, r))
  <1>1. x.conn.ws \in Sockets
    BY DEF States, Conns
  <1> DEFINE w == x.conn.ws
             a == [x.sock[w] EXCEPT !.auth = IF @ = "none" THEN "spoiled" ELSE @]
             k == [x.sock EXCEPT ![w] = a]
  <1>a. x.sock \in [Sockets -> Attempts] /\ x.sock[w] \in Attempts
    BY <1>1 DEF States
  <1>b. a \in Attempts /\ a.settled = x.sock[w].settled /\ a.phase = x.sock[w].phase
    BY <1>a DEF Attempts
  <1>c. /\ k \in [Sockets -> Attempts] /\ \A s \in Sockets : k[s].settled = x.sock[s].settled
        /\ \A s \in Sockets : k[s] = x.sock[s] \/ k[s].phase # "free"
    <2> HIDE DEF a
    <2> QED BY <1>1, <1>a, <1>b
  <1>d. /\ Send(x, r).sock = k /\ Send(x, r).conn = x.conn /\ Send(x, r).waiting = x.waiting
        /\ Send(x, r).pending = x.pending \cup {r}
        /\ Send(x, r) = [x EXCEPT !.pending = @ \cup {r}, !.via = [x.via EXCEPT ![r] = w], !.sock = k]
    BY <1>1, <1>a DEF Send, States
  <1> HIDE DEF a, k
  <1>3. Send(x, r) \in States
    <2> DEFINE p == x.pending \cup {r}
               v == [x.via EXCEPT ![r] = w]
    <2>1. p \in SUBSET Requests
      BY DEF States
    <2>2. v \in [Requests -> Sockets \cup {None}]
      BY <1>1 DEF States
    <2>3. Send(x, r) = [x EXCEPT !.pending = p, !.via = v, !.sock = k]
      BY <1>d
    <2> HIDE DEF p, v
    <2> QED BY <1>c, <2>1, <2>2, <2>3 DEF States
  <1>4. /\ Send(x, r).conn = x.conn /\ Send(x, r).waiting = x.waiting
        /\ \A s \in Sockets : Send(x, r).sock[s].settled = x.sock[s].settled
        /\ \A s \in Sockets : Send(x, r).sock[s] = x.sock[s] \/ Send(x, r).sock[s].phase # "free"
    BY <1>c, <1>d
  <1>5. Promises(Send(x, r))
    BY <1>4 DEF Promises, States, Conns
  <1> QED BY <1>3, <1>5 DEF Sound

LEMMA RequestSound ==
    ASSUME NEW x \in States, Promises(x), NEW r \in Requests, NEW s \in Sockets
    PROVE  Sound(Request(x, r, s))
  <1>1. Fail(x, {s}, FALSE) \in States /\ Promises(Fail(x, {s}, FALSE))
    BY FailSound
  <1> QED BY <1>1, SendSound DEF Request, Sound

LEMMA EstablishSound ==
    ASSUME NEW x \in States, Promises(x), NEW s \in Sockets, NEW b \in BOOLEAN,
           {Get(s), Sub(s)} \cap x.pending = {}
    PROVE  /\ Sound(Establish(x, s, b))
           /\ Sound([Establish(x, s, b) EXCEPT !.waiting = s])
  <1> DEFINE y == Establish(x, s, b)
             a == [Idle EXCEPT !.phase = "opening", !.settled = FALSE, !.byTimer = b]
             k == [x.sock EXCEPT ![s] = a]
             c == [x.conn EXCEPT !.ws = s, !.attempt = s, !.state = "connecting"]
  <1>a. a \in Attempts /\ ~a.settled /\ a.phase = "opening"
    <2>2. Idle \in Attempts
      BY IdleTyped
    <2> QED BY <2>2 DEF Attempts
  <1>b. k \in [Sockets -> Attempts] /\ c \in Conns
    <2> HIDE DEF a
    <2> QED BY <1>a DEF States, Conns
  <1>c. y = [x EXCEPT !.sock = k, !.conn = c]
    BY DEF Establish, States, Conns
  <1>1. y \in States
    <2> HIDE DEF a, k, c
    <2> QED BY <1>b, <1>c DEF States
  <1>2. /\ y.conn = [x.conn EXCEPT !.ws = s, !.attempt = s, !.state = "connecting"]
        /\ y.waiting = x.waiting /\ y.pending = x.pending
        /\ ~y.sock[s].settled /\ y.sock[s].phase # "free"
        /\ \A t \in Sockets \ {s} : y.sock[t] = x.sock[t]
    <2>1. y.conn = c /\ y.sock = k /\ y.waiting = x.waiting /\ y.pending = x.pending
      BY <1>c DEF States
    <2>2. k[s] = a /\ \A t \in Sockets \ {s} : k[t] = x.sock[t]
      BY DEF States
    <2> QED BY <2>1, <2>2, <1>a
  <1> HIDE DEF y
  <1>3. Promises(y)
    BY <1>1, <1>2 DEF Promises, States, Conns
  <1>4. [y EXCEPT !.waiting = s] \in States /\ Promises([y EXCEPT !.waiting = s])
    BY <1>1, <1>2, <1>3 DEF Promises, States
  <1> QED BY <1>1, <1>3, <1>4 DEF Sound, y

----------------------------------------------------------------------------
(* The invariant *)

Inv == Sound(Now) /\ connects \in 0..MaxConnects /\ steady \in BOOLEAN /\ token \in BOOLEAN

LEMMA BecomeSound ==
    ASSUME NEW x, Sound(x), Become(x)
    PROVE  Sound(Now)'
  <1>1. /\ conn' = x.conn /\ waiting' = x.waiting /\ sock' = x.sock /\ pending' = x.pending
        /\ via' = x.via
    BY DEF Become
  <1>2. Now' = x
    BY <1>1 DEF Now, Sound, States
  <1> QED BY <1>2

LEMMA NowFields ==
    /\ Now.conn = conn /\ Now.waiting = waiting /\ Now.sock = sock /\ Now.pending = pending
    /\ Now.via = via
  BY DEF Now

LEMMA NowTyped ==
    ASSUME Sound(Now)
    PROVE  /\ conn \in Conns /\ waiting \in Sockets \cup {None}
           /\ sock \in [Sockets -> Attempts] /\ pending \in SUBSET Requests
           /\ via \in [Requests -> Sockets \cup {None}]
           /\ Now \in States /\ Promises(Now)
  BY NowFields DEF Sound, States

\* A step of Home Assistant or the network leaves the server alone but for the
\* sockets in use, and settles nobody.
LEMMA OutsideSound ==
    ASSUME Sound(Now), sock' \in [Sockets -> Attempts],
           \A s \in Sockets : sock'[s].settled = sock[s].settled,
           \A s \in Sockets : sock'[s] = sock[s] \/ sock'[s].phase # "free",
           via' \in [Requests -> Sockets \cup {None}], UNCHANGED serverVars
    PROVE  Sound(Now)'
  <1>1. /\ conn' = conn /\ waiting' = waiting /\ pending' = pending
    BY DEF serverVars
  <1>2. Now' = [conn |-> conn, waiting |-> waiting, sock |-> sock', pending |-> pending, via |-> via']
    BY <1>1 DEF Now
  <1> DEFINE x == [conn |-> conn, waiting |-> waiting, sock |-> sock', pending |-> pending,
                   via |-> via']
  <1>3. x \in States
    BY NowTyped DEF States
  <1>4. /\ x.conn = conn /\ x.waiting = waiting /\ x.sock = sock' /\ x.pending = pending
    OBVIOUS
  <1> HIDE DEF x
  <1>5. Promises(x)
    BY <1>4, NowFields, NowTyped DEF Promises, Conns
  <1>6. Sound(x)
    BY <1>3, <1>5 DEF Sound
  <1>7. Now' = x
    BY <1>2 DEF x
  <1> QED BY <1>6, <1>7

LEMMA InvInit == Init => Inv
  <1> SUFFICES ASSUME Init PROVE Inv
    OBVIOUS
  <1>1. Idle \in Attempts
    BY IdleTyped
  <1>3. Down \in Conns
    BY DEF Down, Conns
  <1>4. sock \in [Sockets -> Attempts] /\ via \in [Requests -> Sockets \cup {None}]
    BY <1>1 DEF Init
  <1>5. Now \in States
    BY <1>3, <1>4 DEF Now, States, Init
  <1>6. Promises(Now)
    BY NowFields DEF Promises, Init, Down
  <1>7. connects \in 0..MaxConnects /\ steady \in BOOLEAN /\ token \in BOOLEAN
    <2>1. connects = 0 /\ steady = FALSE /\ token \in BOOLEAN
      BY DEF Init
    <2>2. 0 \in 0..MaxConnects
      BY HassAssumption
    <2> QED BY <2>1, <2>2
  <1>8. Sound(Now)
    BY <1>5, <1>6 DEF Sound
  <1> QED BY <1>7, <1>8 DEF Inv

----------------------------------------------------------------------------
(* Callers and timers *)

\* What Unused says of the requests of a socket's next attempt.
LEMMA UnusedIsGone ==
    ASSUME NEW s \in Sockets, Unused(s)
    PROVE  {Get(s), Sub(s)} \cap pending = {}
  BY DEF Unused, Gone

LEMMA ConnectSound ==
    ASSUME Sound(Now), Connect
    PROVE  Sound(Now)'
  <1>1. CASE conn.attempt # None /\ Become([Now EXCEPT !.waiting = conn.attempt])
    <2> DEFINE x == [Now EXCEPT !.waiting = conn.attempt]
    <2>1. conn.attempt \in Sockets
      BY <1>1, NowTyped DEF Conns
    <2>2. x \in States
      BY <2>1 DEF Sound, States
    <2>3. /\ x.waiting = conn.attempt /\ x.conn = conn /\ x.sock = sock /\ x.pending = pending
      BY NowFields DEF Now
    <2>4. Promises(x)
      BY <1>1, <2>3, NowFields, NowTyped DEF Promises
    <2> QED BY <1>1, <2>2, <2>4, BecomeSound DEF Sound
  <1>2. ASSUME NEW s \in Sockets, Unused(s), Become([Establish(Now, s, FALSE) EXCEPT !.waiting = s])
        PROVE  Sound(Now)'
    <2>1. Sound([Establish(Now, s, FALSE) EXCEPT !.waiting = s])
      BY <1>2, UnusedIsGone, EstablishSound, NowFields, NowTyped
    <2> QED BY <1>2, <2>1, BecomeSound
  <1> QED BY <1>1, <1>2 DEF Connect

LEMMA CallServiceSound ==
    ASSUME Sound(Now), NEW k \in Commands, CallService(k)
    PROVE  Sound(Now)'
  <1>1. /\ Now.conn.state = "ready" /\ Now.conn.ws # None
        /\ Now.sock[Now.conn.ws].phase # "free"
    BY NowFields DEF CallService, CanRequest, IsOpen
  <1>2. Sound(Send(Now, Cmd(k)))
    BY <1>1, RequestShape, SendSound, NowTyped
  <1> QED BY <1>2, BecomeSound DEF CallService

LEMMA CloseSound ==
    ASSUME Sound(Now), Close
    PROVE  Sound(Now)'
  <1> DEFINE a == [Now EXCEPT !.conn.closed = TRUE, !.conn.timer = FALSE]
             x == FailAllPending(a)
             w == conn.ws
             y == IF w # None /\ x.sock[w].phase \in {"opening", "open", "authed"}
                  THEN [x EXCEPT !.sock[w].phase = "gone"] ELSE x
             z == [y EXCEPT !.conn.ws = None, !.conn.state = "disconnected"]
  <1>1. a \in States /\ Promises(a)
    <2>1. a = [Now EXCEPT !.conn = [conn EXCEPT !.closed = TRUE, !.timer = FALSE]]
      BY NowFields DEF Now
    <2>2. [conn EXCEPT !.closed = TRUE, !.timer = FALSE] \in Conns
      BY NowTyped DEF Conns
    <2>3. a \in States
      BY <2>1, <2>2 DEF Sound, States
    <2>4. /\ a.sock = sock /\ a.pending = pending /\ a.waiting = waiting
          /\ a.conn = [conn EXCEPT !.closed = TRUE, !.timer = FALSE]
      BY <2>1, NowFields DEF Now
    <2>5. /\ a.conn.attempt = conn.attempt /\ a.conn.state = conn.state /\ ~a.conn.timer
      BY <2>4, NowTyped DEF Conns
    <2> HIDE DEF a
    <2>6. Promises(a)
      BY <2>4, <2>5, NowFields, NowTyped DEF Promises
    <2> QED BY <2>3, <2>6
  <1> HIDE DEF a
  <1>2. x \in States /\ Promises(x)
    BY <1>1, FailAllSound
  <1> HIDE DEF x
  <1>3. /\ y \in States /\ y.conn = x.conn /\ y.waiting = x.waiting /\ y.pending = x.pending
        /\ \A s \in Sockets : y.sock[s].settled = x.sock[s].settled
        /\ \A s \in Sockets : y.sock[s] = x.sock[s] \/ y.sock[s].phase # "free"
    <2>1. CASE y = x
      BY <1>2, <2>1
    <2>2. CASE w # None /\ y = [x EXCEPT !.sock[w].phase = "gone"]
      <3>1. w \in Sockets /\ x.sock \in [Sockets -> Attempts]
        BY <2>2, <1>2, NowTyped DEF Conns, States
      <3> DEFINE b == [x.sock[w] EXCEPT !.phase = "gone"]
                 k == [x.sock EXCEPT ![w] = b]
      <3>2. b \in Attempts /\ b.settled = x.sock[w].settled /\ b.phase = "gone"
        <4>1. x.sock[w] \in Attempts
          BY <3>1
        <4> QED BY <4>1 DEF Attempts
      <3>3. /\ k \in [Sockets -> Attempts] /\ \A s \in Sockets : k[s].settled = x.sock[s].settled
            /\ \A s \in Sockets : k[s] = x.sock[s] \/ k[s].phase = "gone"
        <4> HIDE DEF b
        <4> QED BY <3>1, <3>2
      <3>4. y = [x EXCEPT !.sock = k]
        BY <2>2
      <3> HIDE DEF k, y
      <3> QED BY <1>2, <3>3, <3>4 DEF States
    <2> QED BY <2>1, <2>2
  <1> HIDE DEF y
  <1>4. z \in States
    <2>1. z = [y EXCEPT !.conn = [y.conn EXCEPT !.ws = None, !.state = "disconnected"]]
      BY <1>3 DEF States
    <2>2. [y.conn EXCEPT !.ws = None, !.state = "disconnected"] \in Conns
      BY <1>3 DEF States, Conns
    <2> QED BY <1>3, <2>1, <2>2 DEF States
  <1>5. /\ z.conn = [y.conn EXCEPT !.ws = None, !.state = "disconnected"]
        /\ z.sock = y.sock /\ z.waiting = y.waiting /\ z.pending = y.pending
    BY <1>3 DEF States
  <1>6. Promises(z)
    <2>1. /\ z.conn.attempt = x.conn.attempt /\ z.conn.closed = x.conn.closed
          /\ z.conn.timer = x.conn.timer /\ z.conn.state = "disconnected"
      BY <1>3, <1>5 DEF States, Conns
    <2>2. /\ z.waiting = x.waiting /\ \A s \in Sockets : z.sock[s].settled = x.sock[s].settled
          /\ \A s \in Sockets : z.sock[s] = x.sock[s] \/ z.sock[s].phase # "free"
      BY <1>3, <1>5
    <2>3. x.conn.attempt \in Sockets \cup {None} /\ x.waiting \in Sockets \cup {None}
      BY <1>2 DEF States, Conns
    <2> HIDE DEF z
    <2> QED BY <1>2, <2>1, <2>2, <2>3 DEF Promises
  <1>7. Become(z)
    BY DEF Close, z, y, x, a
  <1> QED BY <1>4, <1>6, <1>7, BecomeSound DEF Sound

LEMMA TimerFiresSound ==
    ASSUME Sound(Now), TimerFires
    PROVE  Sound(Now)'
  <1> DEFINE c == [conn EXCEPT !.timer = FALSE, !.attempt = None]
             x == [Now EXCEPT !.conn.timer = FALSE, !.conn.attempt = None]
  <1>1. x = [Now EXCEPT !.conn = c] /\ c \in Conns
    BY NowFields, NowTyped DEF Now, Conns
  <1>2. /\ x.conn = c /\ x.sock = sock /\ x.waiting = waiting /\ x.pending = pending
    BY <1>1, NowFields DEF Now
  <1>3. x \in States
    BY <1>1 DEF Sound, States
  <1>4. Promises(x)
    <2>1. x.conn.attempt = None /\ x.conn.state = conn.state /\ ~x.conn.timer
      BY <1>1, <1>2, NowTyped DEF Conns
    <2> HIDE DEF x
    <2> QED BY <1>2, <2>1, NowFields, NowTyped DEF Promises
  <1>5. CASE Become(x)
    BY <1>3, <1>4, <1>5, BecomeSound DEF Sound
  <1>6. ASSUME NEW s \in Sockets, Unused(s), Become(Establish(x, s, TRUE))
        PROVE  Sound(Now)'
    <2> HIDE DEF x
    <2>1. Sound(Establish(x, s, TRUE))
      BY <1>2, <1>3, <1>4, <1>6, UnusedIsGone, EstablishSound
    <2> QED BY <1>6, <2>1, BecomeSound DEF x
  <1> QED BY <1>5, <1>6 DEF TimerFires

\* Forgetting a request keeps a sound state sound.
LEMMA ForgetSound ==
    ASSUME NEW x \in States, Promises(x), NEW r
    PROVE  /\ Sound([x EXCEPT !.pending = @ \ {r}])
           /\ [x EXCEPT !.pending = @ \ {r}].conn = x.conn
           /\ [x EXCEPT !.pending = @ \ {r}].sock = x.sock
  BY DEF States, Promises, Sound

LEMMA TimeoutSound ==
    ASSUME Sound(Now), NEW r \in Requests, Timeout(r)
    PROVE  Sound(Now)'
  <1> DEFINE x == [Now EXCEPT !.pending = @ \ {r}]
  <1>1. x \in States /\ Promises(x)
    BY ForgetSound, NowTyped DEF Sound
  <1> HIDE DEF x
  <1>2. Become(IF r \in Bootstraps THEN Fail(x, {r[2]}, FALSE) ELSE x)
    BY DEF Timeout, x
  <1>3. CASE r \notin Bootstraps
    BY <1>1, <1>2, <1>3, BecomeSound DEF Sound
  <1>4. CASE r \in Bootstraps
    <2>1. {r[2]} \in SUBSET Sockets
      BY <1>4, BootstrapOf
    <2>2. Sound(Fail(x, {r[2]}, FALSE))
      BY <1>1, <2>1, FailSound DEF Sound
    <2> QED BY <1>2, <1>4, <2>2, BecomeSound
  <1> QED BY <1>3, <1>4

----------------------------------------------------------------------------
(* Frames *)

\* Taking a frame off a socket leaves a sound state; the socket was in use.
LEMMA PoppedSound ==
    ASSUME Sound(Now), NEW s \in Sockets, sock[s].inbox # <<>>
    PROVE  /\ Popped(s) \in States /\ Promises(Popped(s))
           /\ Popped(s).conn = conn /\ Popped(s).waiting = waiting
           /\ Popped(s).pending = pending /\ Popped(s).sock[s].phase # "free"
           /\ \A t \in Sockets : Popped(s).sock[t].phase = sock[t].phase
           /\ Head(sock[s].inbox) \in Frames
  <1> DEFINE a == [sock[s] EXCEPT !.inbox = Tail(@)]
             k == [sock EXCEPT ![s] = a]
             y == Popped(s)
  <1>1. sock \in [Sockets -> Attempts] /\ sock[s] \in Attempts
    BY NowTyped
  <1>2. sock[s].inbox \in Seq(Frames) /\ Head(sock[s].inbox) \in Frames
        /\ Tail(sock[s].inbox) \in Seq(Frames)
    BY <1>1 DEF Attempts
  <1>3. a \in Attempts /\ a.settled = sock[s].settled /\ a.phase = sock[s].phase
    BY <1>1, <1>2 DEF Attempts
  <1>4. sock[s].phase # "free"
    <2>1. sock[s].phase = "free" => sock[s] = Idle
      BY NowFields, NowTyped DEF Promises
    <2> QED BY <2>1 DEF Idle
  <1>5. /\ k \in [Sockets -> Attempts] /\ k[s] = a /\ \A t \in Sockets \ {s} : k[t] = sock[t]
    <2> HIDE DEF a
    <2> QED BY <1>1, <1>3
  <1>6. y = [Now EXCEPT !.sock = k]
    BY NowFields DEF Popped, Now
  <1> HIDE DEF a, k
  <1>7. y \in States
    BY <1>5, <1>6 DEF Sound, States
  <1>8. y.conn = conn /\ y.waiting = waiting /\ y.pending = pending /\ y.sock = k
    BY <1>6, NowFields DEF Now
  <1>9. \A t \in Sockets : y.sock[t].settled = sock[t].settled /\ y.sock[t].phase = sock[t].phase
    BY <1>3, <1>5, <1>8
  <1>10. \A t \in Sockets : y.sock[t].phase = "free" => y.sock[t] = Idle
    BY <1>3, <1>4, <1>5, <1>8, NowFields, NowTyped DEF Promises
  <1> HIDE DEF y
  <1>11. Promises(y)
    BY <1>8, <1>9, <1>10, NowFields, NowTyped DEF Promises, Conns
  <1> QED BY <1>2, <1>4, <1>7, <1>8, <1>9, <1>11 DEF y

\* The process that dies starts with nothing.
LEMMA RestartSound ==
    Sound([conn |-> Down, waiting |-> None, sock |-> [t \in Sockets |-> Idle], pending |-> {},
           via |-> [r \in Requests |-> None]])
  <1> DEFINE x == [conn |-> Down, waiting |-> None, sock |-> [t \in Sockets |-> Idle],
                   pending |-> {}, via |-> [r \in Requests |-> None]]
             k == [t \in Sockets |-> Idle]
             v == [r \in Requests |-> None]
  <1>1. k \in [Sockets -> Attempts] /\ v \in [Requests -> Sockets \cup {None}]
    BY IdleTyped
  <1>2. Down \in Conns
    BY DEF Down, Conns
  <1>3. x.conn = Down /\ x.waiting = None /\ x.sock = k /\ x.pending = {} /\ x.via = v
    OBVIOUS
  <1>4. x = [conn |-> Down, waiting |-> None, sock |-> k, pending |-> {}, via |-> v]
    OBVIOUS
  <1>5. \A s \in Sockets : k[s] = Idle
    OBVIOUS
  <1> HIDE DEF k, v
  <1>6. x \in States
    BY <1>1, <1>2, <1>4 DEF States
  <1>7. Promises(x)
    BY <1>3, <1>5 DEF Promises, Down
  <1> QED BY <1>6, <1>7 DEF Sound

LEMMA AuthRequiredSound ==
    ASSUME Sound(Now), NEW s \in Sockets, sock[s].inbox # <<>>
    PROVE  Sound(AuthRequired(s))
  <1> DEFINE w == conn.ws
             x == Popped(s)
  <1>1. /\ x \in States /\ Promises(x) /\ x.conn = conn
        /\ \A t \in Sockets : x.sock[t].phase = sock[t].phase
    BY PoppedSound
  <1>2. CASE w # None /\ sock[w].phase = "opening"
    BY <1>2, RestartSound DEF AuthRequired
  <1>3. CASE ~(w # None /\ sock[w].phase = "opening") /\ ~IsOpen(w)
    <2>1. AuthRequired(s) = x
      BY <1>3 DEF AuthRequired
    <2> QED BY <1>1, <2>1 DEF Sound
  <1>4. CASE ~(w # None /\ sock[w].phase = "opening") /\ IsOpen(w)
    <2> DEFINE a == [x.sock[w] EXCEPT !.auth = IF @ = "none" THEN "asked" ELSE @]
               k == [x.sock EXCEPT ![w] = a]
               y == AuthRequired(s)
    <2>1. w \in Sockets /\ sock[w].phase # "free"
      BY <1>4, NowTyped DEF Conns, IsOpen
    <2>2. x.sock \in [Sockets -> Attempts] /\ x.sock[w] \in Attempts
      BY <1>1, <2>1 DEF States
    <2>3. a \in Attempts /\ a.settled = x.sock[w].settled /\ a.phase = x.sock[w].phase
      BY <2>2 DEF Attempts
    <2>4. /\ k \in [Sockets -> Attempts] /\ \A t \in Sockets : k[t].settled = x.sock[t].settled
          /\ \A t \in Sockets : k[t] = x.sock[t] \/ k[t].phase # "free"
      <3> HIDE DEF a
      <3> QED BY <1>1, <2>1, <2>2, <2>3
    <2>5. y = [x EXCEPT !.sock = k]
      <3>1. y = [x EXCEPT !.sock[w].auth = IF @ = "none" THEN "asked" ELSE @]
        BY <1>4 DEF AuthRequired
      <3> HIDE DEF y
      <3> QED BY <3>1
    <2> HIDE DEF a, k
    <2>6. y \in States
      BY <1>1, <2>4, <2>5 DEF States
    <2>7. y.conn = x.conn /\ y.waiting = x.waiting /\ y.pending = x.pending /\ y.sock = k
      BY <1>1, <2>5 DEF States
    <2> HIDE DEF y, x
    <2>8. Promises(y)
      BY <1>1, <2>4, <2>7 DEF Promises, States, Conns
    <2> QED BY <2>6, <2>8 DEF Sound, y
  <1> QED BY <1>2, <1>3, <1>4

\* The state may be set to anything but connecting.
LEMMA StateSound ==
    ASSUME NEW x \in States, Promises(x), NEW q \in {"disconnected", "ready"}
    PROVE  /\ Sound([x EXCEPT !.conn.state = q])
           /\ [x EXCEPT !.conn.state = q].conn.state = q
           /\ [x EXCEPT !.conn.state = q].sock = x.sock
           /\ [x EXCEPT !.conn.state = q].pending = x.pending
  <1> DEFINE c == [x.conn EXCEPT !.state = q]
             y == [x EXCEPT !.conn.state = q]
  <1>1. y = [x EXCEPT !.conn = c] /\ c \in Conns
    BY DEF States, Conns
  <1>2. /\ c.state = q /\ c.attempt = x.conn.attempt /\ c.closed = x.conn.closed
        /\ c.timer = x.conn.timer
    BY DEF States, Conns
  <1> HIDE DEF c, y
  <1>3. y \in States
    BY <1>1 DEF States
  <1>4. y.conn = c /\ y.sock = x.sock /\ y.waiting = x.waiting /\ y.pending = x.pending
    BY <1>1 DEF States
  <1>5. Promises(y)
    BY <1>2, <1>4 DEF Promises
  <1> QED BY <1>2, <1>3, <1>4, <1>5 DEF Sound, y

LEMMA AuthOkSound ==
    ASSUME Sound(Now), NEW s \in Sockets, sock[s].inbox # <<>>
    PROVE  Sound(AuthOk(s))
  <1> DEFINE x == [Popped(s) EXCEPT !.conn.state = "ready"]
  <1>1. Popped(s) \in States /\ Promises(Popped(s))
    BY PoppedSound
  <1>2. x \in States /\ Promises(x)
    BY <1>1, StateSound DEF Sound
  <1> HIDE DEF x
  <1>3. Sound(Request(x, Get(s), s))
    BY <1>2, RequestShape, RequestSound
  <1> QED BY <1>3 DEF AuthOk, x

\* The answer to a subscription settles the attempt it belongs to, which is not
\* the one the connection says it is connecting for.
LEMMA ResultSound ==
    ASSUME Sound(Now), NEW s \in Sockets, sock[s].inbox # <<>>, NEW r \in Requests
    PROVE  Sound(Result(s, r))
  <1> DEFINE p == Popped(s)
             x == [p EXCEPT !.pending = @ \ {r}]
  <1>1. p \in States /\ Promises(p) /\ p.pending = pending
    BY PoppedSound
  <1> HIDE DEF p
  <1>2. Sound(x) /\ x.pending = pending \ {r} /\ x.conn = p.conn /\ x.sock = p.sock
        /\ x.waiting = p.waiting
    BY <1>1, ForgetSound DEF States
  <1> HIDE DEF x
  <1>3. CASE r \notin pending \/ r \notin Bootstraps
    <2>1. Result(s, r) = x
      BY <1>3 DEF Result, x, p
    <2> QED BY <1>2, <2>1
  <1>4. CASE r \in pending /\ r \in Bootstraps /\ r[1] = "get_states"
    <2>1. Result(s, r) = Request(x, Sub(r[2]), r[2])
      BY <1>4 DEF Result, x, p
    <2>2. r[2] \in Sockets
      BY <1>4, BootstrapOf
    <2>3. Sub(r[2]) \in Requests
      BY <2>2, RequestShape
    <2>4. x \in States /\ Promises(x)
      BY <1>2 DEF Sound
    <2>5. Sound(Request(x, Sub(r[2]), r[2]))
      BY <2>2, <2>3, <2>4, RequestSound
    <2> QED BY <2>1, <2>5
  <1>5. CASE r \in pending /\ r \in Bootstraps /\ r[1] # "get_states" /\ x.sock[r[2]].settled
    <2>1. Result(s, r) = x
      BY <1>5 DEF Result, x, p
    <2> QED BY <1>2, <2>1
  <1>6. CASE r \in pending /\ r \in Bootstraps /\ r[1] # "get_states" /\ ~x.sock[r[2]].settled
    <2> DEFINE v == r[2]
               a == [x.sock[v] EXCEPT !.settled = TRUE]
               k == [x.sock EXCEPT ![v] = a]
               c == [x.conn EXCEPT !.attempt = None]
               u == IF x.waiting = v THEN None ELSE x.waiting
               y == Result(s, r)
    <2>1. v \in Sockets /\ r = Sub(v)
      BY <1>6, BootstrapOf
    <2>2. x \in States /\ x.sock \in [Sockets -> Attempts] /\ x.sock[v] \in Attempts
      BY <1>2, <2>1 DEF Sound, States
    <2>3. a \in Attempts /\ a.settled /\ a.phase = x.sock[v].phase
      BY <2>2 DEF Attempts
    <2>4. a = x.sock[v] \/ x.sock[v].phase # "free"
      <3>1. x.sock[v].phase = "free" => x.sock[v] = Idle
        BY <1>2, <2>1 DEF Sound, Promises
      <3>2. x.sock[v] = Idle => x.sock[v].settled = TRUE
        BY DEF Idle
      <3>3. x.sock[v].settled = TRUE => a = x.sock[v]
        BY <2>2 DEF Attempts
      <3> QED BY <3>1, <3>2, <3>3
    <2>5. /\ k \in [Sockets -> Attempts] /\ k[v] = a
          /\ \A t \in Sockets \ {v} : k[t] = x.sock[t]
      <3> HIDE DEF a
      <3> QED BY <2>1, <2>2, <2>3
    <2>6. c \in Conns /\ c.attempt = None /\ c.state = x.conn.state /\ c.closed = x.conn.closed
          /\ c.timer = x.conn.timer
      BY <2>2 DEF States, Conns
    <2>7. u \in Sockets \cup {None}
      BY <2>2 DEF States
    <2>8. y = [x EXCEPT !.sock = k, !.conn = c, !.waiting = u]
      <3>1. y = [x EXCEPT !.sock[r[2]].settled = TRUE, !.conn.attempt = None,
                          !.waiting = IF @ = r[2] THEN None ELSE @]
        BY <1>6 DEF Result, x, p
      <3> HIDE DEF y
      <3> QED BY <2>2, <3>1 DEF States
    <2>9. u # None => u # v /\ u = x.waiting
      OBVIOUS
    <2> HIDE DEF k, c, u, y
    <2>10. y \in States
      BY <2>2, <2>5, <2>6, <2>7, <2>8 DEF States
    <2>11. y.sock = k /\ y.conn = c /\ y.waiting = u /\ y.pending = x.pending
      BY <2>2, <2>8 DEF States
    <2>12. y.conn.state = "connecting" =>
             \E t \in Sockets : ~y.sock[t].settled /\ {Get(t), Sub(t)} \cap y.pending = {}
      <3> SUFFICES ASSUME y.conn.state = "connecting"
                   PROVE  \E t \in Sockets : ~y.sock[t].settled
                                             /\ {Get(t), Sub(t)} \cap y.pending = {}
        OBVIOUS
      <3>1. p.conn.state = "connecting"
        BY <1>2, <2>6, <2>11
      <3>2. PICK t \in Sockets : ~p.sock[t].settled /\ {Get(t), Sub(t)} \cap p.pending = {}
        BY <1>1, <3>1 DEF Promises
      <3>3. t # v
        BY <1>1, <1>6, <2>1, <3>2
      <3>4. ~y.sock[t].settled
        BY <1>2, <2>5, <2>11, <3>2, <3>3
      <3>5. {Get(t), Sub(t)} \cap y.pending = {}
        BY <1>1, <1>2, <2>11, <3>2
      <3> QED BY <3>4, <3>5
    <2>13. \A t \in Sockets : y.sock[t].phase = "free" => y.sock[t] = Idle
      <3>1. \A t \in Sockets : x.sock[t].phase = "free" => x.sock[t] = Idle
        BY <1>2 DEF Sound, Promises
      <3> HIDE DEF a
      <3> QED BY <2>1, <2>3, <2>4, <2>5, <2>11, <3>1
    <2>14. y.waiting # None => ~y.sock[y.waiting].settled
      <3> SUFFICES ASSUME u # None PROVE ~k[u].settled
        BY <2>11
      <3>1. u \in Sockets \ {v} /\ u = x.waiting
        BY <2>7, <2>9
      <3>2. ~x.sock[u].settled
        BY <1>2, <3>1 DEF Sound, Promises
      <3> QED BY <2>5, <3>1, <3>2
    <2>15. y.conn.attempt = None /\ (y.conn.closed => ~y.conn.timer)
      BY <1>2, <2>6, <2>11 DEF Sound, Promises
    <2>16. Promises(y)
      BY <2>12, <2>13, <2>14, <2>15 DEF Promises
    <2> QED BY <2>10, <2>16 DEF Sound, y
  <1> QED BY <1>3, <1>4, <1>5, <1>6

LEMMA ReceiveSound ==
    ASSUME Sound(Now), NEW s \in Sockets, Receive(s)
    PROVE  Sound(Now)'
  <1> DEFINE m == Head(sock[s].inbox)
  <1>1. sock[s].inbox # <<>>
    BY DEF Receive
  <1>2. /\ m \in Frames /\ Popped(s) \in States /\ Promises(Popped(s))
    BY <1>1, PoppedSound
  <1>3. Become(CASE m[1] = "auth_required" -> AuthRequired(s)
                 [] m[1] = "auth_ok" -> AuthOk(s)
                 [] m[1] = "auth_invalid" -> Fail(Popped(s), {s}, TRUE)
                 [] m[1] = "result" -> Result(s, m[2]))
    BY DEF Receive
  <1> HIDE DEF m
  <1>4. CASE m[1] = "auth_required"
    <2>1. Become(AuthRequired(s))
      BY <1>3, <1>4
    <2> QED BY <1>1, <2>1, AuthRequiredSound, BecomeSound
  <1>5. CASE m[1] = "auth_ok"
    <2>1. Become(AuthOk(s))
      BY <1>3, <1>5
    <2> QED BY <1>1, <2>1, AuthOkSound, BecomeSound
  <1>6. CASE m[1] = "auth_invalid"
    <2>1. Become(Fail(Popped(s), {s}, TRUE))
      BY <1>3, <1>6
    <2>2. Sound(Fail(Popped(s), {s}, TRUE))
      BY <1>2, FailSound DEF Sound
    <2> QED BY <2>1, <2>2, BecomeSound
  <1>7. CASE m[1] = "result"
    <2>1. Become(Result(s, m[2]))
      BY <1>3, <1>7
    <2>2. m[2] \in Requests
      BY <1>2, <1>7, FrameShape
    <2> QED BY <1>1, <2>1, <2>2, ResultSound, BecomeSound
  <1> QED BY <1>2, <1>4, <1>5, <1>6, <1>7, FrameShape

\* A slot whose socket is closed for good is taken from a sound state when
\* nobody waits for its attempt.
LEMMA FreeSound ==
    ASSUME NEW z \in States, Promises(z), NEW s \in Sockets,
           z.sock[s].settled, z.conn.state = "disconnected"
    PROVE  Sound([z EXCEPT !.sock[s] = Idle, !.conn.ws = IF @ = s THEN None ELSE @])
  <1> DEFINE k == [z.sock EXCEPT ![s] = Idle]
             c == [z.conn EXCEPT !.ws = IF @ = s THEN None ELSE @]
             y == [z EXCEPT !.sock[s] = Idle, !.conn.ws = IF @ = s THEN None ELSE @]
  <1>1. k \in [Sockets -> Attempts] /\ k[s] = Idle /\ \A t \in Sockets \ {s} : k[t] = z.sock[t]
    BY IdleTyped DEF States
  <1>2. /\ c \in Conns /\ c.state = z.conn.state /\ c.attempt = z.conn.attempt
        /\ c.closed = z.conn.closed /\ c.timer = z.conn.timer
    BY DEF States, Conns
  <1>3. y = [z EXCEPT !.sock = k, !.conn = c]
    BY DEF States
  <1> HIDE DEF k, c, y
  <1>4. y \in States
    BY <1>1, <1>2, <1>3 DEF States
  <1>5. y.sock = k /\ y.conn = c /\ y.waiting = z.waiting /\ y.pending = z.pending
    BY <1>3 DEF States
  <1>6. y.conn.attempt # None => ~y.sock[y.conn.attempt].settled
    <2> SUFFICES ASSUME z.conn.attempt # None PROVE ~k[z.conn.attempt].settled
      BY <1>2, <1>5
    <2>1. ~z.sock[z.conn.attempt].settled /\ z.conn.attempt \in Sockets
      BY DEF Promises, States, Conns
    <2> QED BY <1>1, <2>1
  <1>7. y.waiting # None => ~y.sock[y.waiting].settled
    <2> SUFFICES ASSUME z.waiting # None PROVE ~k[z.waiting].settled
      BY <1>5
    <2>1. ~z.sock[z.waiting].settled /\ z.waiting \in Sockets
      BY DEF Promises, States
    <2> QED BY <1>1, <2>1
  <1>8. \A t \in Sockets : y.sock[t].phase = "free" => y.sock[t] = Idle
    BY <1>1, <1>5 DEF Promises
  <1>9. y.conn.state = "disconnected" /\ (y.conn.closed => ~y.conn.timer)
    BY <1>2, <1>5 DEF Promises
  <1>10. Promises(y)
    BY <1>6, <1>7, <1>8, <1>9 DEF Promises
  <1> QED BY <1>4, <1>10 DEF Sound, y

LEMMA CloseEventSound ==
    ASSUME Sound(Now), NEW s \in Sockets, CloseEvent(s)
    PROVE  Sound(Now)'
  <1> DEFINE v == [r \in Requests |-> IF via[r] = s THEN None ELSE via[r]]
             a == [sock[s] EXCEPT !.inbox = <<>>]
             k == [sock EXCEPT ![s] = a]
             x == [Now EXCEPT !.sock[s].inbox = <<>>,
                              !.via = [r \in Requests |-> IF via[r] = s THEN None ELSE via[r]]]
             q == [x EXCEPT !.conn.state = "disconnected"]
             y == FailAllPending(q)
             z == IF ~sock[s].settled THEN Fail(x, {s}, FALSE)
                  ELSE IF conn.state = "ready" THEN ScheduleReconnect(y) ELSE y
  <1>1. sock \in [Sockets -> Attempts] /\ sock[s] \in Attempts /\ sock[s].phase = "gone"
    BY NowTyped DEF CloseEvent
  <1>2. a \in Attempts /\ a.settled = sock[s].settled /\ a.phase = "gone"
    <2>1. <<>> \in Seq(Frames)
      OBVIOUS
    <2> QED BY <1>1, <2>1 DEF Attempts
  <1>3. /\ k \in [Sockets -> Attempts] /\ k[s] = a /\ \A t \in Sockets \ {s} : k[t] = sock[t]
    <2> HIDE DEF a
    <2> QED BY <1>1, <1>2
  <1>4. v \in [Requests -> Sockets \cup {None}]
    BY NowTyped
  <1>5. x = [Now EXCEPT !.sock = k, !.via = v]
    BY NowFields DEF Now
  <1> HIDE DEF a, k, v, x
  <1>6. x \in States
    BY <1>3, <1>4, <1>5, NowTyped DEF States
  <1>7. x.conn = conn /\ x.waiting = waiting /\ x.pending = pending /\ x.sock = k
    BY <1>5, NowFields DEF Now
  <1>8. Promises(x)
    <2>1. \A t \in Sockets : x.sock[t].settled = sock[t].settled
      BY <1>2, <1>3, <1>7
    <2>2. \A t \in Sockets : x.sock[t].phase = "free" => x.sock[t] = Idle
      BY <1>2, <1>3, <1>7, NowFields, NowTyped DEF Promises
    <2> QED BY <1>7, <2>1, <2>2, NowFields, NowTyped DEF Promises, Conns
  <1>9. z \in States /\ Promises(z) /\ z.conn.state = "disconnected" /\ z.sock[s].settled
    <2>1. CASE ~sock[s].settled
      <3>1. z = Fail(x, {s}, FALSE)
        BY <2>1
      <3>2. s \in Pend(x, {s})
        BY <1>2, <1>3, <1>7, <2>1 DEF Pend
      <3> DEFINE f == Fail(x, {s}, FALSE)
      <3>3. /\ f \in States /\ Promises(f) /\ f.conn.state = "disconnected"
            /\ \A t \in {s} : f.sock[t].settled
        BY <1>6, <1>8, <3>2, FailSound
      <3> HIDE DEF f
      <3>4. z = f
        BY <3>1 DEF f
      <3> HIDE DEF z
      <3> QED BY <3>3, <3>4
    <2>2. CASE sock[s].settled
      <3>1. q \in States /\ Promises(q) /\ q.conn.state = "disconnected" /\ q.sock = x.sock
        BY <1>6, <1>8, StateSound DEF Sound
      <3>2. q.sock[s].settled
        BY <1>2, <1>3, <1>7, <2>2, <3>1
      <3> HIDE DEF q
      <3>3. /\ y \in States /\ Promises(y) /\ y.conn.state = "disconnected" /\ y.sock[s].settled
        BY <3>1, <3>2, FailAllSound
      <3> HIDE DEF y
      <3>4. /\ ScheduleReconnect(y) \in States /\ Promises(ScheduleReconnect(y))
            /\ ScheduleReconnect(y).conn.state = y.conn.state
            /\ ScheduleReconnect(y).sock = y.sock
        BY <3>3, ScheduleSound DEF ScheduleReconnect, Sound, States, Conns
      <3>5. z = ScheduleReconnect(y) \/ z = y
        BY <2>2
      <3> QED BY <3>3, <3>4, <3>5
    <2> QED BY <2>1, <2>2
  <1>10. Become([z EXCEPT !.sock[s] = Idle, !.conn.ws = IF @ = s THEN None ELSE @])
    BY DEF CloseEvent, x
  <1> HIDE DEF z
  <1> QED BY <1>9, <1>10, FreeSound, BecomeSound

----------------------------------------------------------------------------
(* Home Assistant and the network *)

LEMMA OpenSound ==
    ASSUME Sound(Now), NEW s \in Sockets, Open(s)
    PROVE  Sound(Now)'
  <1> DEFINE a == [sock[s] EXCEPT !.phase = "open", !.inbox = << <<"auth_required">> >>]
  <1>1. sock \in [Sockets -> Attempts] /\ sock[s] \in Attempts
    BY NowTyped
  <1>2. << <<"auth_required">> >> \in Seq(Frames)
    BY DEF Frames
  <1>3. a \in Attempts /\ a.settled = sock[s].settled /\ a.phase = "open"
    BY <1>1, <1>2 DEF Attempts
  <1>4. sock' = [sock EXCEPT ![s] = a]
    BY DEF Open
  <1> HIDE DEF a
  <1>5. /\ sock' \in [Sockets -> Attempts] /\ \A t \in Sockets : sock'[t].settled = sock[t].settled
        /\ \A t \in Sockets : sock'[t] = sock[t] \/ sock'[t].phase # "free"
    BY <1>1, <1>3, <1>4
  <1>6. via' \in [Requests -> Sockets \cup {None}]
    BY NowTyped DEF Open
  <1> QED BY <1>5, <1>6, OutsideSound DEF Open

LEMMA RefuseSound ==
    ASSUME Sound(Now), NEW s \in Sockets, Refuse(s)
    PROVE  Sound(Now)'
  <1>1. Sound(Fail(Now, {s}, FALSE))
    BY NowTyped, FailSound DEF Sound
  <1> QED BY <1>1, BecomeSound DEF Refuse

\* A socket that changes its phase, or receives a frame, stays in use.
LEMMA SocketSound ==
    ASSUME Sound(Now), NEW s \in Sockets, NEW m \in Seq(Frames),
           NEW p \in {"open", "authed", "gone"},
           sock' = [sock EXCEPT ![s] = [sock[s] EXCEPT !.inbox = m, !.phase = p]],
           via' \in [Requests -> Sockets \cup {None}], UNCHANGED serverVars
    PROVE  Sound(Now)'
  <1> DEFINE a == [sock[s] EXCEPT !.inbox = m, !.phase = p]
  <1>1. sock \in [Sockets -> Attempts] /\ sock[s] \in Attempts
    BY NowTyped
  <1>2. a \in Attempts /\ a.settled = sock[s].settled /\ a.phase = p
    BY <1>1 DEF Attempts
  <1>3. sock' = [sock EXCEPT ![s] = a]
    OBVIOUS
  <1> HIDE DEF a
  <1>4. /\ sock' \in [Sockets -> Attempts] /\ \A t \in Sockets : sock'[t].settled = sock[t].settled
        /\ \A t \in Sockets : sock'[t] = sock[t] \/ sock'[t].phase # "free"
    BY <1>1, <1>2, <1>3
  <1> QED BY <1>4, OutsideSound

LEMMA AuthenticateSound ==
    ASSUME Sound(Now), NEW s \in Sockets, Authenticate(s)
    PROVE  Sound(Now)'
  <1> DEFINE ok == Append(sock[s].inbox, <<"auth_ok">>)
             no == Append(sock[s].inbox, <<"auth_invalid">>)
  <1>1. sock \in [Sockets -> Attempts] /\ sock[s] \in Attempts
    BY NowTyped
  <1>2. sock[s].inbox \in Seq(Frames) /\ <<"auth_ok">> \in Frames /\ <<"auth_invalid">> \in Frames
    BY <1>1 DEF Attempts, Frames
  <1>3. ok \in Seq(Frames) /\ no \in Seq(Frames)
    BY <1>2
  <1>4. \/ sock' = [Put(s, <<"auth_ok">>) EXCEPT ![s].phase = "authed"]
        \/ sock' = [Put(s, <<"auth_invalid">>) EXCEPT ![s].phase = "gone"]
    BY DEF Authenticate
  <1>5. \/ sock' = [sock EXCEPT ![s] = [sock[s] EXCEPT !.inbox = ok, !.phase = "authed"]]
        \/ sock' = [sock EXCEPT ![s] = [sock[s] EXCEPT !.inbox = no, !.phase = "gone"]]
    BY <1>1, <1>4 DEF Put
  <1>6. via' \in [Requests -> Sockets \cup {None}] /\ UNCHANGED serverVars
    BY NowTyped DEF Authenticate
  <1> HIDE DEF ok, no
  <1> QED BY <1>3, <1>5, <1>6, SocketSound

LEMMA GoneSound ==
    ASSUME Sound(Now), NEW s \in Sockets, Drop(s) \/ HangUp(s)
    PROVE  Sound(Now)'
  <1> DEFINE i == sock[s].inbox
  <1>1. sock \in [Sockets -> Attempts] /\ sock[s] \in Attempts
    BY NowTyped
  <1>2. i \in Seq(Frames)
    BY <1>1 DEF Attempts
  <1>3. sock' = [sock EXCEPT ![s].phase = "gone"] /\ UNCHANGED serverVars /\ UNCHANGED via
    BY DEF Drop, HangUp
  <1>4. [sock[s] EXCEPT !.phase = "gone"] = [sock[s] EXCEPT !.inbox = i, !.phase = "gone"]
    BY <1>1 DEF Attempts
  <1>5. sock' = [sock EXCEPT ![s] = [sock[s] EXCEPT !.inbox = i, !.phase = "gone"]]
    BY <1>3, <1>4
  <1>6. via' \in [Requests -> Sockets \cup {None}]
    BY <1>3, NowTyped
  <1> HIDE DEF i
  <1> QED BY <1>2, <1>3, <1>5, <1>6, SocketSound

LEMMA AnswerSound ==
    ASSUME Sound(Now), NEW r \in Requests, Answer(r)
    PROVE  Sound(Now)'
  <1> DEFINE s == via[r]
             i == Append(sock[s].inbox, <<"result", r>>)
  <1>1. s \in Sockets /\ sock \in [Sockets -> Attempts] /\ sock[s] \in Attempts
    BY NowTyped DEF Answer
  <1>2. sock[s].inbox \in Seq(Frames) /\ <<"result", r>> \in Frames
    BY <1>1 DEF Attempts, Frames
  <1>3. i \in Seq(Frames)
    BY <1>2
  <1>4. sock' = [sock EXCEPT ![s].inbox = i] /\ sock[s].phase = "authed"
    BY DEF Answer, Put
  <1>5. via' \in [Requests -> Sockets \cup {None}] /\ UNCHANGED serverVars
    BY NowTyped DEF Answer
  <1> HIDE DEF i, s
  <1>6. [sock[s] EXCEPT !.inbox = i] = [sock[s] EXCEPT !.inbox = i, !.phase = "authed"]
    BY <1>1, <1>4 DEF Attempts
  <1>7. sock' = [sock EXCEPT ![s] = [sock[s] EXCEPT !.inbox = i, !.phase = "authed"]]
    BY <1>1, <1>4, <1>6
  <1> QED BY <1>1, <1>3, <1>5, <1>7, SocketSound

----------------------------------------------------------------------------
(* The theorems *)

LEMMA InvStep == Inv /\ [Next]_vars => Inv'
  <1> SUFFICES ASSUME Inv, [Next]_vars PROVE Inv'
    OBVIOUS
  <1>1. Sound(Now)
    BY DEF Inv
  <1>2. connects' \in 0..MaxConnects
    <2>1. connects' = connects \/ (connects < MaxConnects /\ connects' = connects + 1)
      BY DEF Next, vars, serverVars, Connect, Close, TimerFires, CallService,
         Timeout, Answer, Receive, CloseEvent, Open, Refuse, Authenticate, Drop, HangUp, Steady
    <2>2. connects \in 0..MaxConnects /\ MaxConnects \in Nat
      BY HassAssumption DEF Inv
    <2> QED BY <2>1, <2>2
  <1>3. steady' \in BOOLEAN /\ token' \in BOOLEAN
    BY DEF Inv, Next, vars, haVars, Connect, Close, TimerFires, CallService,
       Timeout, Answer, Receive, CloseEvent, Open, Refuse, Authenticate, Drop, HangUp, Steady
  <1>4. Sound(Now)'
    <2>1. CASE UNCHANGED vars
      BY <1>1, <2>1 DEF vars, Now
    <2>2. CASE Steady
      BY <1>1, <2>2 DEF Steady, serverVars, Now
    <2>3. CASE Connect
      BY <1>1, <2>3, ConnectSound
    <2>4. CASE Close
      BY <1>1, <2>4, CloseSound
    <2>5. CASE TimerFires
      BY <1>1, <2>5, TimerFiresSound
    <2>6. ASSUME NEW k \in Commands, CallService(k) PROVE Sound(Now)'
      BY <1>1, <2>6, CallServiceSound
    <2>7. ASSUME NEW r \in Requests, Timeout(r) \/ Answer(r) PROVE Sound(Now)'
      BY <1>1, <2>7, TimeoutSound, AnswerSound
    <2>8. ASSUME NEW s \in Sockets, Receive(s) \/ CloseEvent(s) PROVE Sound(Now)'
      BY <1>1, <2>8, ReceiveSound, CloseEventSound
    <2>9. ASSUME NEW s \in Sockets,
                 Open(s) \/ Refuse(s) \/ Authenticate(s) \/ Drop(s) \/ HangUp(s)
          PROVE  Sound(Now)'
      BY <1>1, <2>9, OpenSound, RefuseSound, AuthenticateSound, GoneSound
    <2> QED BY <2>1, <2>2, <2>3, <2>4, <2>5, <2>6, <2>7, <2>8, <2>9 DEF Next
  <1> QED BY <1>2, <1>3, <1>4 DEF Inv

LEMMA Invariance == Spec => []Inv
  <1> QED BY InvInit, InvStep, PTL DEF Spec

\* The state of the connection keeps its type, and a slot that is free has nothing
\* left of the attempt before (settle, the close handler, failAllPending).
THEOREM TypesHold == Spec => []TypeOK
  <1>1. Inv => TypeOK
    BY NowFields, NowTyped DEF Inv, TypeOK, Promises
  <1> QED BY <1>1, Invariance, PTL

\* connectPromise and the promise that ensureReady shares are always those of
\* attempts under way, and connecting always means that one is.
THEOREM PromisesPendHolds == Spec => []PromisesPend
  <1>1. Inv => PromisesPend
    BY NowFields, NowTyped DEF Inv, PromisesPend, Promises
  <1> QED BY <1>1, Invariance, PTL

\* After close no failing attempt and no late close event schedules a reconnect.
THEOREM NoTimerOnceClosedHolds == Spec => []NoTimerOnceClosed
  <1>1. Inv => NoTimerOnceClosed
    BY NowFields DEF Inv, NoTimerOnceClosed, Sound, Promises
  <1> QED BY <1>1, Invariance, PTL
=============================================================================
