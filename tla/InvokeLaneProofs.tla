-------------------------- MODULE InvokeLaneProofs --------------------------
(***************************************************************************)
(* Resets never outnumber the deliveries that armed them, and whoever      *)
(* consumes one act at a time keeps the quota: for every set of            *)
(* agreements and terms, any number of events, invokes and restarts, and   *)
(* clocks without bound.                                                   *)
(*                                                                         *)
(* Both properties count rows and calls.  Where(f, T) are the places of f  *)
(* that hold a member of T; its lemmas say how it grows and shrinks, and a *)
(* step is reduced to what it does to calls, usage and arms (Effect).      *)
(***************************************************************************)
EXTENDS InvokeLane, FiniteSetTheorems, TLAPS

Where(f, T) == {i \in DOMAIN f : f[i] \in T}

----------------------------------------------------------------------------
(* Counting *)

LEMMA FreshIsNew ==
    ASSUME NEW f, IsFiniteSet(DOMAIN f)
    PROVE  Fresh(f) \in Nat /\ Fresh(f) \notin DOMAIN f
  <1> DEFINE n == Cardinality(DOMAIN f)
  <1>1. n \in Nat
    BY FS_CardinalityType
  <1>2. IsFiniteSet(1 .. n + 1) /\ Cardinality(1 .. n + 1) = n + 1
    BY <1>1, FS_Interval
  <1>3. \E m \in 1 .. n + 1 : m \notin DOMAIN f
    <2> SUFFICES ASSUME 1 .. n + 1 \subseteq DOMAIN f PROVE FALSE
      OBVIOUS
    <2>1. Cardinality(1 .. n + 1) <= n
      BY FS_Subset
    <2> QED BY <1>1, <1>2, <2>1
  <1>4. Fresh(f) \in 1 .. n + 1 /\ Fresh(f) \notin DOMAIN f
    BY <1>3 DEF Fresh
  <1> QED BY <1>1, <1>4

LEMMA WithShape ==
    ASSUME NEW f, NEW x, NEW e
    PROVE  /\ DOMAIN With(f, x, e) = DOMAIN f \cup {x}
           /\ With(f, x, e)[x] = e
           /\ \A y \in DOMAIN f \ {x} : With(f, x, e)[y] = f[y]
  BY DEF With

LEMMA WithoutShape ==
    ASSUME NEW f, NEW x
    PROVE  /\ DOMAIN Without(f, x) = DOMAIN f \ {x}
           /\ \A y \in DOMAIN f \ {x} : Without(f, x)[y] = f[y]
  BY DEF Without

LEMMA WhereFinite ==
    ASSUME NEW f, IsFiniteSet(DOMAIN f), NEW T
    PROVE  IsFiniteSet(Where(f, T)) /\ Cardinality(Where(f, T)) \in Nat
  <1>1. Where(f, T) \in SUBSET (DOMAIN f)
    BY DEF Where
  <1> QED BY <1>1, FS_Subset, FS_CardinalityType

LEMMA WhereWith ==
    ASSUME NEW f, IsFiniteSet(DOMAIN f), NEW x, x \notin DOMAIN f, NEW e, NEW T
    PROVE  /\ IsFiniteSet(DOMAIN With(f, x, e))
           /\ Cardinality(Where(With(f, x, e), T)) =
                Cardinality(Where(f, T)) + (IF e \in T THEN 1 ELSE 0)
  <1> DEFINE g == With(f, x, e)
  <1>0. /\ DOMAIN g = DOMAIN f \cup {x} /\ g[x] = e
        /\ \A y \in DOMAIN f : g[y] = f[y]
    BY DEF With
  <1> HIDE DEF g
  <1>1. IsFiniteSet(DOMAIN g)
    BY <1>0, FS_AddElement
  <1>2. IsFiniteSet(Where(f, T)) /\ Cardinality(Where(f, T)) \in Nat
    BY WhereFinite
  <1>3. x \notin Where(f, T)
    BY DEF Where
  <1>4. CASE e \in T
    <2>1. Where(g, T) = Where(f, T) \cup {x}
      BY <1>0, <1>4 DEF Where
    <2>2. Cardinality(Where(f, T) \cup {x}) = Cardinality(Where(f, T)) + 1
      BY <1>2, <1>3, FS_AddElement
    <2> QED BY <1>1, <1>4, <2>1, <2>2 DEF g
  <1>5. CASE e \notin T
    <2>1. Where(g, T) = Where(f, T)
      BY <1>0, <1>5 DEF Where
    <2> QED BY <1>1, <1>2, <1>5, <2>1 DEF g
  <1> QED BY <1>4, <1>5

LEMMA WhereWithout ==
    ASSUME NEW f, IsFiniteSet(DOMAIN f), NEW x \in DOMAIN f, NEW T
    PROVE  /\ IsFiniteSet(DOMAIN Without(f, x))
           /\ Cardinality(Where(f, T)) =
                Cardinality(Where(Without(f, x), T)) + (IF f[x] \in T THEN 1 ELSE 0)
  <1>1. IsFiniteSet(DOMAIN Without(f, x))
    BY FS_RemoveElement, WithoutShape
  <1>2. IsFiniteSet(Where(Without(f, x), T)) /\ Cardinality(Where(Without(f, x), T)) \in Nat
    BY <1>1, WhereFinite
  <1>3. x \notin Where(Without(f, x), T)
    BY WithoutShape DEF Where
  <1>4. CASE f[x] \in T
    <2>1. Where(f, T) = Where(Without(f, x), T) \cup {x}
      BY <1>4, WithoutShape DEF Where
    <2>2. Cardinality(Where(Without(f, x), T) \cup {x}) = Cardinality(Where(Without(f, x), T)) + 1
      BY <1>2, <1>3, FS_AddElement
    <2> QED BY <1>1, <1>4, <2>1, <2>2
  <1>5. CASE f[x] \notin T
    <2>1. Where(f, T) = Where(Without(f, x), T)
      BY <1>5, WithoutShape DEF Where
    <2> QED BY <1>1, <1>2, <1>5, <2>1
  <1> QED BY <1>4, <1>5

LEMMA SeqFinite ==
    ASSUME NEW S, NEW u \in Seq(S)
    PROVE  IsFiniteSet(DOMAIN u)
  <1>1. Len(u) \in Nat /\ DOMAIN u = 1 .. Len(u)
    OBVIOUS
  <1> QED BY <1>1, FS_Interval

LEMMA WhereAppend ==
    ASSUME NEW S, NEW u \in Seq(S), NEW e \in S, NEW T
    PROVE  Cardinality(Where(Append(u, e), T)) =
             Cardinality(Where(u, T)) + (IF e \in T THEN 1 ELSE 0)
  <1> DEFINE n == Len(u) + 1
             v == Append(u, e)
  <1>1. /\ DOMAIN v = DOMAIN u \cup {n} /\ v[n] = e /\ n \notin DOMAIN u
        /\ \A i \in DOMAIN u : v[i] = u[i]
    OBVIOUS
  <1>2. IsFiniteSet(Where(u, T)) /\ Cardinality(Where(u, T)) \in Nat
    BY SeqFinite, WhereFinite
  <1>3. n \notin Where(u, T)
    BY <1>1 DEF Where
  <1> HIDE DEF n, v
  <1>4. CASE e \in T
    <2>1. Where(v, T) = Where(u, T) \cup {n}
      BY <1>1, <1>4 DEF Where
    <2>2. Cardinality(Where(u, T) \cup {n}) = Cardinality(Where(u, T)) + 1
      BY <1>2, <1>3, FS_AddElement
    <2> QED BY <1>4, <2>1, <2>2 DEF v
  <1>5. CASE e \notin T
    <2>1. Where(v, T) = Where(u, T)
      BY <1>1, <1>5 DEF Where
    <2> QED BY <1>2, <1>5, <2>1 DEF v
  <1> QED BY <1>4, <1>5

----------------------------------------------------------------------------
(* What a step does to calls, usage and arms *)

\* A call waited for belongs to one evaluation, which is not running meanwhile.
Waits == \A c \in DOMAIN calls : calls[c].waiter # None =>
    /\ calls[c].waiter \in DOMAIN evals /\ calls[c].waiter # running
    /\ \A d \in DOMAIN calls : calls[d].waiter = calls[c].waiter => d = c

\* A recheck tick keeps the thread until it is over, and what it has still to
\* visit stays armed.
DueHeld == \A v \in DOMAIN evals : evals[v].phase = "due" =>
    running = v /\ \A a \in evals[v].todo : pending[a] # None

Base ==
    /\ TypeOK
    /\ now \in Nat /\ simTime \in Nat /\ stopped \in BOOLEAN
    /\ IsFiniteSet(DOMAIN calls) /\ IsFiniteSet(DOMAIN evals) /\ DOMAIN evals \subseteq Nat
    /\ \A a \in Agreements : rows[a].terms = TermsOf[a]
    /\ \A i \in DOMAIN usage : usage[i].start <= now
    /\ \A c \in DOMAIN calls : calls[c].start <= now
    /\ Waits /\ DueHeld

\* The arm of a reset is taken when it fires.
Taken(x) == IF x.lane = "autoReset"
            THEN pending[x.agr] # None /\ pending' = [pending EXCEPT ![x.agr] = None]
            ELSE UNCHANGED pending

Quiet == /\ UNCHANGED <<calls, usage>>
         /\ \A a \in Agreements : pending'[a] \in {pending[a], None}
Answers(c) == /\ calls' = [calls EXCEPT ![c] = [calls[c] EXCEPT !.answered = TRUE]]
              /\ UNCHANGED <<usage, pending>>
Clears == calls' = << >> /\ UNCHANGED usage /\ pending' = [a \in Agreements |-> None]
Starts(id, call) ==
    /\ id \notin DOMAIN calls /\ call \in Call /\ call.start = now
    /\ call.lane # "autoReset" => ~Spent(call.agr)
    /\ calls' = With(calls, id, call) /\ UNCHANGED usage /\ Taken(call)
Refuses(row) ==
    /\ row.outcome = "failure" /\ row.start = now
    /\ UNCHANGED calls /\ usage' = Append(usage, row) /\ Taken(row)
Begun(c) == [calls[c] EXCEPT !.phase = "executing", !.start = now]
Targets(c) ==
    /\ UNCHANGED pending
    /\ \/ calls' = With(Without(calls, c), c, Begun(c)) /\ UNCHANGED usage
       \/ calls' = Without(calls, c) /\ usage' = Append(usage, UsageOf(Begun(c), "failure"))
       \/ calls' = Without(calls, c) /\ UNCHANGED usage
Finishes(c, o) ==
    /\ calls' = Without(calls, c) /\ usage' = Append(usage, UsageOf(calls[c], o))
    /\ pending' = IF calls[c].lane = "autoTrigger" /\ o = "success"
                    THEN [pending EXCEPT ![calls[c].agr] = ArmedReset(calls[c].agr)]
                    ELSE pending

Acts == \/ \E c \in DOMAIN calls : Answers(c) \/ Targets(c)
        \/ Clears
        \/ \E id : \E call \in Call : Starts(id, call)
        \/ \E row \in UsageRow : Refuses(row)
        \/ \E c \in DOMAIN calls, o \in {"success", "failure"} : Finishes(c, o)
Effect == /\ Quiet \/ Acts
          /\ now' \in Nat /\ now' >= now /\ (now' = now \/ Quiet)
          /\ \A a \in Agreements : rows'[a].terms = rows[a].terms

LEMMA NewCallTyped ==
    ASSUME now \in Nat, NEW a \in Agreements, NEW l \in Lanes, NEW p \in Phases,
           NEW w \in Nat \cup {None}
    PROVE  /\ NewCall(a, l, p, w) \in Call
           /\ NewCall(a, l, p, w).agr = a /\ NewCall(a, l, p, w).lane = l
           /\ NewCall(a, l, p, w).start = now /\ NewCall(a, l, p, w).waiter = w
           /\ NewCall(a, l, p, w).phase = p
  <1> DEFINE k == NewCall(a, l, p, w)
  <1>1. k = [agr |-> a, lane |-> l, phase |-> p, start |-> now, answered |-> FALSE, waiter |-> w]
    BY DEF NewCall
  <1> HIDE DEF k
  <1>2. /\ k.agr = a /\ k.lane = l /\ k.phase = p /\ k.start = now /\ k.waiter = w
        /\ k.answered = FALSE
    BY <1>1
  <1>3. k \in Call
    BY <1>1 DEF Call
  <1> QED BY <1>2, <1>3 DEF k

LEMMA UsageOfTyped ==
    ASSUME NEW call \in Call, NEW o \in {"success", "failure"}
    PROVE  /\ UsageOf(call, o) \in UsageRow
           /\ UsageOf(call, o).agr = call.agr /\ UsageOf(call, o).lane = call.lane
           /\ UsageOf(call, o).start = call.start /\ UsageOf(call, o).outcome = o
  BY DEF UsageOf, UsageRow, Call

\* executeAgreementInvocation starts a call, meters a refusal or does nothing.
LEMMA BeginActs ==
    ASSUME Base, NEW a \in Agreements, NEW l \in Lanes, NEW w \in Nat \cup {None},
           Begin(calls, Fresh(calls), NewCall(a, l, "executing", w)),
           l # "autoReset" => ~Spent(a),
           IF l = "autoReset" THEN pending[a] # None /\ pending' = [pending EXCEPT ![a] = None]
           ELSE UNCHANGED pending
    PROVE  /\ \/ Starts(Fresh(calls), NewCall(a, l, "executing", w))
              \/ \E row \in UsageRow : Refuses(row)
              \/ Quiet
           /\ calls' \in {calls, With(calls, Fresh(calls), NewCall(a, l, "executing", w))}
  <1> DEFINE call == NewCall(a, l, "executing", w)
  <1>1. /\ call \in Call /\ call.agr = a /\ call.lane = l /\ call.start = now
        /\ [call EXCEPT !.phase = "executing", !.start = now] = call
    <2>1. "executing" \in Phases /\ now \in Nat
      BY DEF Phases, Base
    <2>2. /\ call \in Call /\ call.agr = a /\ call.lane = l /\ call.start = now
          /\ call.phase = "executing"
      BY <2>1, NewCallTyped
    <2> HIDE DEF call
    <2>3. [call EXCEPT !.phase = "executing", !.start = now] = call
      BY <2>2 DEF Call
    <2> QED BY <2>2, <2>3
  <1> HIDE DEF call
  <1>2. \/ calls' = With(calls, Fresh(calls), call) /\ UNCHANGED usage
        \/ calls' = calls /\ usage' = Append(usage, UsageOf(call, "failure"))
        \/ calls' = calls /\ UNCHANGED usage
    <2>1. Begin(calls, Fresh(calls), call)
      BY DEF call
    <2> QED BY <1>1, <2>1 DEF Begin
  <1>3. Taken(call)
    BY <1>1 DEF Taken
  <1>4. CASE calls' = With(calls, Fresh(calls), call) /\ UNCHANGED usage
    <2>1. Fresh(calls) \notin DOMAIN calls
      BY FreshIsNew DEF Base
    <2>2. Starts(Fresh(calls), call)
      BY <1>1, <1>3, <1>4, <2>1 DEF Starts
    <2> QED BY <1>4, <2>2 DEF call
  <1>5. CASE calls' = calls /\ usage' = Append(usage, UsageOf(call, "failure"))
    <2> DEFINE r == UsageOf(call, "failure")
    <2>1. /\ r \in UsageRow /\ r.agr = a /\ r.lane = l /\ r.start = now /\ r.outcome = "failure"
      BY <1>1, UsageOfTyped
    <2> HIDE DEF r
    <2>2. Taken(r)
      BY <2>1 DEF Taken
    <2>3. Refuses(r)
      BY <1>5, <2>1, <2>2 DEF Refuses, r
    <2> QED BY <1>5, <2>1, <2>3
  <1>6. CASE calls' = calls /\ UNCHANGED usage
    <2>1. \A b \in Agreements : pending'[b] \in {pending[b], None}
      BY DEF Base, TypeOK
    <2> QED BY <1>6, <2>1 DEF Quiet
  <1> QED BY <1>2, <1>4, <1>5, <1>6

----------------------------------------------------------------------------
(* The shape of the state *)

Rest ==
    /\ rows \in [Agreements -> Row] /\ pending \in [Agreements -> Arm \cup {None}]
    /\ \A v \in DOMAIN evals : evals[v] \in Evaluation
    /\ running \in DOMAIN evals \cup {None}
    /\ simTime \in Nat /\ stopped \in BOOLEAN
    /\ IsFiniteSet(DOMAIN evals) /\ DOMAIN evals \subseteq Nat
    /\ Waits /\ DueHeld

LEMMA BaseRest == Base => Rest
  BY DEF Base, Rest, TypeOK

LEMMA NoneIsNoNumber == None \notin Nat
  BY ConstantsAssumption

\* While nothing runs no recheck tick is under way.
LEMMA IdleNoDue ==
    ASSUME Base, Idle, NEW v \in DOMAIN evals
    PROVE  evals[v].phase # "due"
  BY NoneIsNoNumber DEF Base, Idle, DueHeld

\* The statements on a row keep its type and its terms.
LEMMA RowsKept ==
    ASSUME NEW r \in Row, NEW n \in Nat
    PROVE  /\ SettleExpiredHold(r, n) \in Row /\ SettleExpiredHold(r, n).terms = r.terms
           /\ HoldRow(r, n) \in Row /\ HoldRow(r, n).terms = r.terms
           /\ Resume(r) \in Row /\ Resume(r).terms = r.terms
           /\ \A s \in {"suspended", "terminated"} :
                SetStatus(r, s, None) \in Row /\ SetStatus(r, s, None).terms = r.terms
  <1>1. Resume(r) \in Row /\ Resume(r).terms = r.terms
    BY DEF Resume, Row, Statuses
  <1>2. HoldRow(r, n) \in Row /\ HoldRow(r, n).terms = r.terms
    BY DEF HoldRow, Row, Statuses
  <1>3. SettleExpiredHold(r, n) \in Row /\ SettleExpiredHold(r, n).terms = r.terms
    BY <1>1 DEF SettleExpiredHold
  <1>4. ASSUME NEW s \in {"suspended", "terminated"}
        PROVE  SetStatus(r, s, None) \in Row /\ SetStatus(r, s, None).terms = r.terms
    <2>1. s \in Statuses /\ None \in Reasons
      BY DEF Statuses, Reasons
    <2>2. (r.activated \/ s = "active") \in BOOLEAN
      OBVIOUS
    <2> QED BY <2>1, <2>2 DEF SetStatus, Row
  <1> QED BY <1>1, <1>2, <1>3, <1>4

\* What is waited for stays so when no call begins to wait.
LEMMA WaitsKept ==
    ASSUME Waits,
           \A c \in DOMAIN calls' :
             /\ c \in DOMAIN calls /\ calls'[c].waiter = calls[c].waiter
             /\ calls'[c].waiter # None =>
                  calls'[c].waiter \in DOMAIN evals' /\ calls'[c].waiter # running'
    PROVE  Waits'
  BY DEF Waits

\* A call that begins to wait does so for the evaluation that ran.
LEMMA WaitsBegun ==
    ASSUME Base, NEW id, id \notin DOMAIN calls, NEW call,
           calls' = With(calls, id, call), DOMAIN evals' = DOMAIN evals,
           \/ call.waiter = None /\ running' = running
           \/ call.waiter = running /\ running' = None
    PROVE  Waits'
  <1>1. /\ DOMAIN calls' = DOMAIN calls \cup {id} /\ calls'[id] = call
        /\ \A c \in DOMAIN calls : calls'[c] = calls[c]
    BY DEF With
  <1>2. running \in DOMAIN evals \cup {None} /\ Waits
    BY DEF Base, TypeOK
  <1>3. ASSUME NEW c \in DOMAIN calls', calls'[c].waiter # None
        PROVE  /\ calls'[c].waiter \in DOMAIN evals' /\ calls'[c].waiter # running'
               /\ \A d \in DOMAIN calls' : calls'[d].waiter = calls'[c].waiter => d = c
    <2>1. CASE c = id
      <3>1. call.waiter = running /\ running' = None /\ running # None
        BY <1>1, <1>3, <2>1
      <3>2. \A d \in DOMAIN calls : calls[d].waiter # running
        BY <1>2, <3>1 DEF Waits
      <3> QED BY <1>1, <1>2, <2>1, <3>1, <3>2
    <2>2. CASE c # id
      <3>1. c \in DOMAIN calls /\ calls'[c] = calls[c] /\ calls[c].waiter # None
        BY <1>1, <1>3, <2>2
      <3>2. /\ calls[c].waiter \in DOMAIN evals /\ calls[c].waiter # running
            /\ \A d \in DOMAIN calls : calls[d].waiter = calls[c].waiter => d = c
        BY <1>2, <3>1 DEF Waits
      <3>3. call.waiter # calls[c].waiter /\ calls[c].waiter # running'
        BY <3>1, <3>2
      <3> QED BY <1>1, <3>1, <3>2, <3>3
    <2> QED BY <2>1, <2>2
  <1> QED BY <1>3 DEF Waits

----------------------------------------------------------------------------
(* The steps of a call *)

LEMMA InvokeEffect ==
    ASSUME Base, NEW a \in Agreements, Invoke(a)
    PROVE  Effect /\ Rest'
  <1> DEFINE id == Fresh(calls)
             call == NewCall(a, "manual", "targeting", None)
  <1>1. id \notin DOMAIN calls
    BY FreshIsNew DEF Base
  <1>2. /\ call \in Call /\ call.agr = a /\ call.lane = "manual" /\ call.start = now
        /\ call.waiter = None
    BY NewCallTyped DEF Base, Lanes, Phases
  <1> HIDE DEF id, call
  <1>3. /\ calls' = With(calls, id, call) /\ UNCHANGED <<usage, pending, evals, running>>
        /\ UNCHANGED <<now, simTime, stopped>> /\ ~Spent(a)
        /\ rows' = [rows EXCEPT ![a] = SettleExpiredHold(rows[a], now)]
    BY DEF Invoke, id, call, clockVars
  <1>4. Starts(id, call)
    BY <1>1, <1>2, <1>3 DEF Starts, Taken
  <1>5. rows' \in [Agreements -> Row] /\ \A b \in Agreements : rows'[b].terms = rows[b].terms
    <2>1. rows \in [Agreements -> Row] /\ rows[a] \in Row /\ now \in Nat
      BY DEF Base, TypeOK
    <2>2. SettleExpiredHold(rows[a], now) \in Row
          /\ SettleExpiredHold(rows[a], now).terms = rows[a].terms
      BY <2>1, RowsKept
    <2> QED BY <1>3, <2>1, <2>2
  <1>6. Waits'
    BY <1>1, <1>2, <1>3, WaitsBegun
  <1>7. Rest'
    BY <1>3, <1>5, <1>6, BaseRest DEF Rest, DueHeld
  <1>8. now' \in Nat /\ now' >= now /\ now' = now
    BY <1>3 DEF Base
  <1> QED BY <1>2, <1>4, <1>5, <1>7, <1>8 DEF Effect, Acts

LEMMA TargetEffect ==
    ASSUME Base, NEW c \in DOMAIN calls, Target(c)
    PROVE  Effect /\ Rest'
  <1>1. /\ Begin(Without(calls, c), c, calls[c])
        /\ UNCHANGED <<rows, pending, evals, running>> /\ UNCHANGED <<now, simTime, stopped>>
    BY DEF Target, clockVars
  <1>2. Targets(c)
    BY <1>1 DEF Begin, Targets, Begun
  <1>3. calls[c] \in Call /\ Begun(c).waiter = calls[c].waiter
    BY DEF Base, TypeOK, Begun, Call
  <1>4. \A d \in DOMAIN calls' : d \in DOMAIN calls /\ calls'[d].waiter = calls[d].waiter
    <2>1. CASE calls' = Without(calls, c)
      BY <2>1 DEF Without
    <2>2. CASE calls' = With(Without(calls, c), c, Begun(c))
      BY <1>3, <2>2 DEF With, Without
    <2> QED BY <1>2, <2>1, <2>2 DEF Targets
  <1>5. Waits'
    <2>1. Waits
      BY DEF Base
    <2>2. \A d \in DOMAIN calls' : calls'[d].waiter # None =>
            calls'[d].waiter \in DOMAIN evals' /\ calls'[d].waiter # running'
      BY <1>1, <1>4, <2>1 DEF Waits
    <2> QED BY <1>4, <2>1, <2>2, WaitsKept
  <1>6. Rest'
    BY <1>1, <1>5, BaseRest DEF Rest, DueHeld
  <1>7. now' \in Nat /\ now' >= now /\ now' = now
    BY <1>1 DEF Base
  <1> QED BY <1>1, <1>2, <1>6, <1>7 DEF Effect, Acts

LEMMA AnswerPendingEffect ==
    ASSUME Base, NEW c \in DOMAIN calls, AnswerPending(c)
    PROVE  Effect /\ Rest'
  <1>1. /\ UNCHANGED <<rows, usage, pending, evals, running>> /\ UNCHANGED <<now, simTime, stopped>>
        /\ calls' = [calls EXCEPT ![c].answered = TRUE]
    BY DEF AnswerPending, clockVars
  <1>2. Answers(c)
    BY <1>1 DEF Answers
  <1>3. calls[c] \in Call
    BY DEF Base, TypeOK
  <1>4. [calls[c] EXCEPT !.answered = TRUE].waiter = calls[c].waiter
    BY <1>3 DEF Call
  <1>5. \A d \in DOMAIN calls' : d \in DOMAIN calls /\ calls'[d].waiter = calls[d].waiter
    BY <1>2, <1>4 DEF Answers
  <1>6. Waits'
    <2>1. Waits
      BY DEF Base
    <2>2. \A d \in DOMAIN calls' : calls'[d].waiter # None =>
            calls'[d].waiter \in DOMAIN evals' /\ calls'[d].waiter # running'
      BY <1>1, <1>5, <2>1 DEF Waits
    <2> QED BY <1>5, <2>1, <2>2, WaitsKept
  <1>7. Rest'
    BY <1>1, <1>6, BaseRest DEF Rest, DueHeld
  <1>8. now' \in Nat /\ now' >= now /\ now' = now
    BY <1>1 DEF Base
  <1> QED BY <1>1, <1>2, <1>7, <1>8 DEF Effect, Acts

LEMMA NodeInvokeEffect ==
    ASSUME Base, NEW a \in Agreements, NodeInvoke(a)
    PROVE  Effect /\ Rest'
  <1> DEFINE call == NewCall(a, "node", "executing", None)
  <1>1. /\ Begin(calls, Fresh(calls), call) /\ ~Spent(a)
        /\ UNCHANGED <<pending, evals, running>> /\ UNCHANGED <<now, simTime, stopped>>
        /\ rows' = [b \in Agreements |-> SettleExpiredHold(rows[b], now)]
    BY DEF NodeInvoke, clockVars
  <1>2. /\ \/ Starts(Fresh(calls), call)
           \/ \E row \in UsageRow : Refuses(row)
           \/ Quiet
        /\ calls' \in {calls, With(calls, Fresh(calls), call)}
    BY <1>1, BeginActs DEF Lanes
  <1>3. Quiet \/ Acts
    <2>1. call \in Call
      BY NewCallTyped DEF Base, Lanes, Phases
    <2> QED BY <1>2, <2>1 DEF Acts
  <1>4. rows' \in [Agreements -> Row] /\ \A b \in Agreements : rows'[b].terms = rows[b].terms
    <2>1. rows \in [Agreements -> Row] /\ now \in Nat
      BY DEF Base, TypeOK
    <2>2. \A b \in Agreements : SettleExpiredHold(rows[b], now) \in Row
                                /\ SettleExpiredHold(rows[b], now).terms = rows[b].terms
      BY <2>1, RowsKept
    <2> QED BY <1>1, <2>2
  <1>5. Waits'
    <2>1. CASE calls' = calls
      BY <1>1, <2>1 DEF Base, Waits
    <2>2. CASE calls' = With(calls, Fresh(calls), call)
      <3>1. call.waiter = None
        BY DEF NewCall
      <3>2. Fresh(calls) \notin DOMAIN calls
        BY FreshIsNew DEF Base
      <3> HIDE DEF call
      <3> QED BY <1>1, <2>2, <3>1, <3>2, WaitsBegun
    <2> QED BY <1>2, <2>1, <2>2
  <1>6. Rest'
    BY <1>1, <1>4, <1>5, BaseRest DEF Rest, DueHeld
  <1>7. now' \in Nat /\ now' >= now /\ now' = now
    BY <1>1 DEF Base
  <1> QED BY <1>3, <1>4, <1>6, <1>7 DEF Effect

\* A settled command lets the evaluation that waited for it go on.
LEMMA FinishEffect ==
    ASSUME Base, NEW c \in DOMAIN calls, NEW o \in {"success", "failure"}, Finish(c, o)
    PROVE  Effect /\ Rest'
  <1>1. /\ calls' = Without(calls, c) /\ usage' = Append(usage, UsageOf(calls[c], o))
        /\ running' = calls[c].waiter /\ UNCHANGED <<rows, evals>>
        /\ UNCHANGED <<now, simTime, stopped>> /\ Idle
    BY DEF Finish, clockVars
  <1>2. Finishes(c, o)
    BY DEF Finish, Finishes
  <1>3. calls[c] \in Call
    BY DEF Base, TypeOK
  <1>4. pending' \in [Agreements -> Arm \cup {None}]
    <2>1. calls[c].agr \in Agreements /\ pending \in [Agreements -> Arm \cup {None}]
      BY <1>3 DEF Call, Base, TypeOK
    <2>2. ArmedReset(calls[c].agr) \in Arm \cup {None}
      <3> DEFINE a == calls[c].agr
                 u == rows[a].terms
      <3>1. rows[a].terms = TermsOf[a] /\ TermsOf[a] \in Terms
        BY <2>1, InvokeAssumption DEF Base
      <3>2. u.afterSec \in Nat \cup {None}
        BY <3>1, InvokeAssumption
      <3>3. simTime \in Nat /\ pending[a] \in Arm \cup {None}
        BY <2>1 DEF Base
      <3>4. (IF u.afterSec = None THEN None ELSE simTime + u.afterSec) \in Nat \cup {None}
        BY <3>2, <3>3
      <3> QED BY <3>3, <3>4 DEF ArmedReset, Arm
    <2> QED BY <1>2, <2>1, <2>2 DEF Finishes
  <1>5. running' \in DOMAIN evals \cup {None}
    BY <1>1 DEF Base, Waits
  <1>6. Waits'
    <2>1. Waits
      BY DEF Base
    <2>2. \A d \in DOMAIN calls' : d \in DOMAIN calls /\ d # c /\ calls'[d] = calls[d]
      BY <1>1 DEF Without
    <2>3. \A d \in DOMAIN calls' : calls'[d].waiter # None =>
            calls'[d].waiter \in DOMAIN evals' /\ calls'[d].waiter # running'
      BY <1>1, <2>1, <2>2 DEF Waits
    <2> QED BY <2>1, <2>2, <2>3, WaitsKept
  <1>7. DueHeld'
    BY <1>1, IdleNoDue DEF DueHeld
  <1>8. Rest'
    BY <1>1, <1>4, <1>5, <1>6, <1>7, BaseRest DEF Rest
  <1>9. now' \in Nat /\ now' >= now /\ now' = now
    BY <1>1 DEF Base
  <1> QED BY <1>1, <1>2, <1>8, <1>9 DEF Effect, Acts

----------------------------------------------------------------------------
(* The steps of an evaluation *)

\* Firing a reset takes its arm, and starts a call, meters a refusal or neither.
LEMMA FireResetActs ==
    ASSUME Base, NEW a \in Agreements, NEW w \in Nat \cup {None},
           pending[a] # None, FireReset(a, w)
    PROVE  /\ Quiet \/ Acts
           /\ calls' \in {calls, With(calls, Fresh(calls), NewCall(a, "autoReset", "executing", w))}
           /\ pending' = [pending EXCEPT ![a] = None]
           /\ pending' \in [Agreements -> Arm \cup {None}]
  <1> DEFINE call == NewCall(a, "autoReset", "executing", w)
  <1>1. /\ pending' = [pending EXCEPT ![a] = None]
        /\ Begin(calls, Fresh(calls), call) \/ UNCHANGED <<calls, usage>>
    BY DEF FireReset
  <1>2. pending \in [Agreements -> Arm \cup {None}]
    BY DEF Base, TypeOK
  <1>3. pending' \in [Agreements -> Arm \cup {None}]
        /\ \A b \in Agreements : pending'[b] \in {pending[b], None}
    BY <1>1, <1>2
  <1>4. CASE UNCHANGED <<calls, usage>>
    BY <1>1, <1>3, <1>4 DEF Quiet
  <1>5. CASE Begin(calls, Fresh(calls), call)
    <2>1. /\ \/ Starts(Fresh(calls), call)
             \/ \E row \in UsageRow : Refuses(row)
             \/ Quiet
          /\ calls' \in {calls, With(calls, Fresh(calls), call)}
      BY <1>1, <1>5, BeginActs DEF Lanes
    <2>2. call \in Call
      BY NewCallTyped DEF Base, Lanes, Phases
    <2>3. Quiet \/ Acts
      BY <2>1, <2>2 DEF Acts
    <2> QED BY <1>1, <1>3, <2>1, <2>3
  <1> QED BY <1>1, <1>4, <1>5

\* After a call begun on its behalf an evaluation waits, otherwise it goes on.
LEMMA AwaitKeeps ==
    ASSUME Base, NEW v \in DOMAIN evals, running = v, AwaitOrGoOn(v), NEW call,
           call.waiter = v, calls' \in {calls, With(calls, Fresh(calls), call)},
           DOMAIN evals' = DOMAIN evals
    PROVE  Waits' /\ running' \in DOMAIN evals' \cup {None}
  <1>1. Fresh(calls) \notin DOMAIN calls
    BY FreshIsNew DEF Base
  <1>2. CASE calls' = calls
    BY <1>2 DEF AwaitOrGoOn, Base, Waits
  <1>3. CASE calls' = With(calls, Fresh(calls), call)
    <2>1. DOMAIN calls' = DOMAIN calls \cup {Fresh(calls)}
      BY <1>3, WithShape
    <2>2. running' = None
      BY <1>1, <2>1 DEF AwaitOrGoOn
    <2> QED BY <1>1, <1>3, <2>2, WaitsBegun
  <1> QED BY <1>2, <1>3

LEMMA InjectEffect ==
    ASSUME Base, NEW kind \in EventKinds, Inject(kind)
    PROVE  Effect /\ Rest'
  <1> DEFINE settled == [a \in Agreements |-> SettleExpiredHold(rows[a], now)]
             v == Fresh(evals)
             e == [kind |-> kind, phase |-> "resets",
                   todo |-> {a \in Agreements : /\ settled[a].status = "active"
                                                /\ settled[a].terms.trigger = kind}]
  <1>1. /\ rows' = settled /\ evals' = With(evals, v, e) /\ running' = v /\ Idle
        /\ UNCHANGED <<calls, usage, pending>> /\ UNCHANGED <<now, simTime, stopped>>
    BY DEF Inject, clockVars
  <1>2. rows' \in [Agreements -> Row] /\ \A b \in Agreements : rows'[b].terms = rows[b].terms
    <2>1. rows \in [Agreements -> Row] /\ now \in Nat
      BY DEF Base, TypeOK
    <2>2. \A b \in Agreements : SettleExpiredHold(rows[b], now) \in Row
                                /\ SettleExpiredHold(rows[b], now).terms = rows[b].terms
      BY <2>1, RowsKept
    <2> QED BY <1>1, <2>2
  <1>3. e \in Evaluation /\ e.phase = "resets"
    BY DEF Evaluation
  <1>4. v \in Nat /\ v \notin DOMAIN evals
    BY FreshIsNew DEF Base
  <1> HIDE DEF e, v
  <1>5. /\ DOMAIN evals' = DOMAIN evals \cup {v} /\ evals'[v] = e
        /\ \A u \in DOMAIN evals : evals'[u] = evals[u]
    BY <1>1, <1>4 DEF With
  <1>6. IsFiniteSet(DOMAIN evals') /\ DOMAIN evals' \subseteq Nat
    BY <1>4, <1>5, FS_AddElement DEF Base
  <1>7. Waits'
    BY <1>1, <1>4, <1>5 DEF Base, Waits
  <1>8. DueHeld'
    BY <1>1, <1>3, <1>5, IdleNoDue DEF DueHeld
  <1>9. \A u \in DOMAIN evals' : evals'[u] \in Evaluation
    BY <1>3, <1>5 DEF Base, TypeOK
  <1>10. Rest'
    BY <1>1, <1>2, <1>5, <1>6, <1>7, <1>8, <1>9, BaseRest DEF Rest
  <1>11. now' \in Nat /\ now' >= now /\ Quiet
    BY <1>1 DEF Base, Quiet
  <1> QED BY <1>2, <1>10, <1>11 DEF Effect

LEMMA EvalResetEffect ==
    ASSUME Base, NEW v \in DOMAIN evals, EvalReset(v)
    PROVE  Effect /\ Rest'
  <1>1. PICK a \in Disarmed(v) : FireReset(a, v)
    BY DEF EvalReset
  <1>2. a \in Agreements /\ pending[a] # None /\ v \in Nat
    BY <1>1 DEF Disarmed, Base
  <1>3. /\ running = v /\ evals[v].phase = "resets" /\ AwaitOrGoOn(v)
        /\ UNCHANGED <<rows, evals>> /\ UNCHANGED <<now, simTime, stopped>>
    BY DEF EvalReset, Running, clockVars
  <1> DEFINE call == NewCall(a, "autoReset", "executing", v)
  <1>4. /\ Quiet \/ Acts
        /\ calls' \in {calls, With(calls, Fresh(calls), call)}
        /\ pending' \in [Agreements -> Arm \cup {None}]
    BY <1>1, <1>2, FireResetActs
  <1>5. call.waiter = v
    BY DEF NewCall
  <1> HIDE DEF call
  <1>6. Waits' /\ running' \in DOMAIN evals' \cup {None}
    BY <1>3, <1>4, <1>5, AwaitKeeps
  <1>7. \A u \in DOMAIN evals : evals[u].phase # "due"
    BY <1>3 DEF Base, DueHeld
  <1>8. DueHeld'
    BY <1>3, <1>7 DEF DueHeld
  <1>9. Rest'
    BY <1>3, <1>4, <1>6, <1>8, BaseRest DEF Rest
  <1>10. now' \in Nat /\ now' >= now /\ now' = now
    BY <1>3 DEF Base
  <1> QED BY <1>3, <1>4, <1>9, <1>10 DEF Effect

LEMMA EvalResetsDoneEffect ==
    ASSUME Base, NEW v \in DOMAIN evals, EvalResetsDone(v)
    PROVE  Effect /\ Rest'
  <1>1. /\ running = v /\ evals[v].phase = "resets"
        /\ evals' = [evals EXCEPT ![v].phase = "triggers"]
        /\ UNCHANGED <<rows, calls, usage, pending, running>> /\ UNCHANGED <<now, simTime, stopped>>
    BY DEF EvalResetsDone, Running, clockVars
  <1>2. evals[v] \in Evaluation /\ [evals[v] EXCEPT !.phase = "triggers"] \in Evaluation
    BY DEF Base, TypeOK, Evaluation
  <1>3. /\ DOMAIN evals' = DOMAIN evals /\ evals'[v] = [evals[v] EXCEPT !.phase = "triggers"]
        /\ \A u \in DOMAIN evals \ {v} : evals'[u] = evals[u]
    BY <1>1
  <1>4. \A u \in DOMAIN evals' : evals'[u] \in Evaluation
    BY <1>2, <1>3 DEF Base, TypeOK
  <1>5. Waits'
    BY <1>1, <1>3 DEF Base, Waits
  <1>6. DueHeld'
    <2>1. evals'[v].phase # "due"
      BY <1>2, <1>3 DEF Evaluation
    <2>2. \A u \in DOMAIN evals \ {v} : evals'[u].phase # "due"
      BY <1>1, <1>3 DEF Base, DueHeld
    <2> QED BY <1>3, <2>1, <2>2 DEF DueHeld
  <1>7. Rest'
    BY <1>1, <1>3, <1>4, <1>5, <1>6, BaseRest DEF Rest
  <1>8. now' \in Nat /\ now' >= now /\ Quiet
    BY <1>1 DEF Base, Quiet
  <1> QED BY <1>1, <1>7, <1>8 DEF Effect

LEMMA EvalTriggerEffect ==
    ASSUME Base, NEW v \in DOMAIN evals, EvalTrigger(v)
    PROVE  Effect /\ Rest'
  <1>1. PICK a \in evals[v].todo :
          /\ evals' = [evals EXCEPT ![v].todo = @ \ {a}]
          /\ LET call == NewCall(a, "autoTrigger", "executing", v)
             IN  IF Spent(a)
                   THEN /\ usage' = Append(usage, UsageOf(call, "failure"))
                        /\ UNCHANGED calls
                   ELSE Begin(calls, Fresh(calls), call)
    BY DEF EvalTrigger
  <1> DEFINE call == NewCall(a, "autoTrigger", "executing", v)
             e == [evals[v] EXCEPT !.todo = @ \ {a}]
  <1>2. /\ running = v /\ evals[v].phase = "triggers" /\ AwaitOrGoOn(v)
        /\ UNCHANGED <<rows, pending>> /\ UNCHANGED <<now, simTime, stopped>>
    BY DEF EvalTrigger, Running, clockVars
  <1>3. evals[v] \in Evaluation /\ v \in Nat
    BY DEF Base, TypeOK
  <1>4. a \in Agreements /\ e \in Evaluation /\ e.phase = "triggers"
    BY <1>1, <1>2, <1>3 DEF Evaluation
  <1>5. /\ call \in Call /\ call.agr = a /\ call.lane = "autoTrigger" /\ call.start = now
        /\ call.waiter = v
    BY <1>3, <1>4, NewCallTyped DEF Base, Lanes, Phases
  <1>6. (Quiet \/ Acts) /\ calls' \in {calls, With(calls, Fresh(calls), call)}
    <2>1. CASE Spent(a)
      <3> DEFINE r == UsageOf(call, "failure")
      <3>1. usage' = Append(usage, r) /\ UNCHANGED calls
        BY <1>1, <2>1
      <3> HIDE DEF call
      <3>2. /\ r \in UsageRow /\ r.agr = a /\ r.lane = "autoTrigger" /\ r.start = now
            /\ r.outcome = "failure"
        BY <1>5, UsageOfTyped
      <3> HIDE DEF r
      <3>3. Refuses(r)
        BY <1>2, <3>1, <3>2 DEF Refuses, Taken
      <3> QED BY <3>1, <3>2, <3>3 DEF Acts
    <2>2. CASE ~Spent(a)
      <3>1. Begin(calls, Fresh(calls), call)
        BY <1>1, <2>2
      <3>2. /\ \/ Starts(Fresh(calls), call)
               \/ \E row \in UsageRow : Refuses(row)
               \/ Quiet
            /\ calls' \in {calls, With(calls, Fresh(calls), call)}
        BY <1>2, <1>3, <1>4, <2>2, <3>1, BeginActs DEF Lanes
      <3> QED BY <1>5, <3>2 DEF Acts
    <2> QED BY <2>1, <2>2
  <1> HIDE DEF call, e
  <1>7. /\ DOMAIN evals' = DOMAIN evals /\ evals'[v] = e
        /\ \A u \in DOMAIN evals \ {v} : evals'[u] = evals[u]
    BY <1>1 DEF e
  <1>8. Waits' /\ running' \in DOMAIN evals' \cup {None}
    BY <1>2, <1>5, <1>6, <1>7, AwaitKeeps
  <1>9. DueHeld'
    <2>1. \A u \in DOMAIN evals : evals[u].phase # "due"
      BY <1>2 DEF Base, DueHeld
    <2> QED BY <1>4, <1>7, <2>1 DEF DueHeld
  <1>10. \A u \in DOMAIN evals' : evals'[u] \in Evaluation
    BY <1>4, <1>7 DEF Base, TypeOK
  <1>11. Rest'
    BY <1>2, <1>7, <1>8, <1>9, <1>10, BaseRest DEF Rest
  <1>12. now' \in Nat /\ now' >= now /\ now' = now
    BY <1>2 DEF Base
  <1> QED BY <1>2, <1>6, <1>11, <1>12 DEF Effect

LEMMA RecheckEffect ==
    ASSUME Base, Recheck
    PROVE  Effect /\ Rest'
  <1>1. /\ Idle /\ UNCHANGED <<rows, calls, usage>> /\ UNCHANGED <<now, simTime, stopped>>
    BY DEF Recheck, clockVars
  <1>2. pending \in [Agreements -> Arm \cup {None}]
    BY DEF Base, TypeOK
  <1>3. CASE stopped
    <2>1. /\ pending' = [a \in Agreements |-> IF pending[a] # None /\ pending[a].due # None
                                              THEN None ELSE pending[a]]
          /\ UNCHANGED <<evals, running>>
      BY <1>3 DEF Recheck
    <2>2. pending' \in [Agreements -> Arm \cup {None}]
          /\ \A a \in Agreements : pending'[a] \in {pending[a], None}
      BY <1>2, <2>1
    <2>3. Waits' /\ DueHeld'
      BY <1>1, <2>1, IdleNoDue DEF Base, Waits, DueHeld
    <2>4. Rest'
      BY <1>1, <2>1, <2>2, <2>3, BaseRest DEF Rest
    <2>5. now' \in Nat /\ now' >= now /\ Quiet
      BY <1>1, <2>2 DEF Base, Quiet
    <2> QED BY <1>1, <2>4, <2>5 DEF Effect
  <1>4. CASE ~stopped
    <2> DEFINE v == Fresh(evals)
               e == [kind |-> None, phase |-> "due", todo |-> Due]
    <2>1. evals' = With(evals, v, e) /\ running' = v /\ UNCHANGED pending
      BY <1>4 DEF Recheck
    <2>2. e \in Evaluation /\ e.phase = "due" /\ \A a \in e.todo : pending[a] # None
      BY DEF Evaluation, Due
    <2>3. v \in Nat /\ v \notin DOMAIN evals
      BY FreshIsNew DEF Base
    <2> HIDE DEF e, v
    <2>4. /\ DOMAIN evals' = DOMAIN evals \cup {v} /\ evals'[v] = e
          /\ \A u \in DOMAIN evals : evals'[u] = evals[u]
      BY <2>1, <2>3 DEF With
    <2>5. IsFiniteSet(DOMAIN evals') /\ DOMAIN evals' \subseteq Nat
      BY <2>3, <2>4, FS_AddElement DEF Base
    <2>6. Waits'
      BY <1>1, <2>1, <2>3, <2>4 DEF Base, Waits
    <2>7. DueHeld'
      BY <1>1, <2>1, <2>2, <2>4, IdleNoDue DEF DueHeld
    <2>8. \A u \in DOMAIN evals' : evals'[u] \in Evaluation
      BY <2>2, <2>4 DEF Base, TypeOK
    <2>9. Rest'
      BY <1>1, <2>1, <2>4, <2>5, <2>6, <2>7, <2>8, BaseRest DEF Rest
    <2>10. now' \in Nat /\ now' >= now /\ Quiet
      BY <1>1, <2>1 DEF Base, Quiet
    <2> QED BY <1>1, <2>9, <2>10 DEF Effect
  <1> QED BY <1>3, <1>4

\* What a tick visits is still armed, because nothing runs between its resets.
LEMMA EvalDueEffect ==
    ASSUME Base, NEW v \in DOMAIN evals, EvalDue(v)
    PROVE  Effect /\ Rest'
  <1>1. PICK a \in evals[v].todo :
          evals' = [evals EXCEPT ![v].todo = @ \ {a}] /\ FireReset(a, None)
    BY DEF EvalDue
  <1> DEFINE e == [evals[v] EXCEPT !.todo = @ \ {a}]
             call == NewCall(a, "autoReset", "executing", None)
  <1>2. /\ running = v /\ evals[v].phase = "due"
        /\ UNCHANGED <<rows, running>> /\ UNCHANGED <<now, simTime, stopped>>
    BY DEF EvalDue, Running, clockVars
  <1>3. evals[v] \in Evaluation
    BY DEF Base, TypeOK
  <1>4. /\ a \in Agreements /\ e \in Evaluation /\ e.phase = "due"
        /\ e.todo = evals[v].todo \ {a}
    BY <1>1, <1>2, <1>3 DEF Evaluation
  <1>5. \A b \in evals[v].todo : pending[b] # None
    BY <1>2 DEF Base, DueHeld
  <1>6. /\ Quiet \/ Acts
        /\ calls' \in {calls, With(calls, Fresh(calls), call)}
        /\ pending' = [pending EXCEPT ![a] = None]
        /\ pending' \in [Agreements -> Arm \cup {None}]
    BY <1>1, <1>4, <1>5, FireResetActs
  <1>7. call.waiter = None
    BY DEF NewCall
  <1> HIDE DEF call, e
  <1>8. /\ DOMAIN evals' = DOMAIN evals /\ evals'[v] = e
        /\ \A u \in DOMAIN evals \ {v} : evals'[u] = evals[u]
    BY <1>1 DEF e
  <1>9. Waits'
    <2>1. CASE calls' = calls
      BY <1>2, <1>8, <2>1 DEF Base, Waits
    <2>2. CASE calls' = With(calls, Fresh(calls), call)
      <3>1. Fresh(calls) \notin DOMAIN calls
        BY FreshIsNew DEF Base
      <3> QED BY <1>2, <1>7, <1>8, <2>2, <3>1, WaitsBegun
    <2> QED BY <1>6, <2>1, <2>2
  <1>10. DueHeld'
    <2>1. \A u \in DOMAIN evals \ {v} : evals[u].phase # "due"
      BY <1>2 DEF Base, DueHeld
    <2>2. \A b \in e.todo : pending'[b] # None
      <3>1. pending \in [Agreements -> Arm \cup {None}]
        BY DEF Base, TypeOK
      <3>2. \A b \in e.todo : b # a /\ pending[b] # None /\ b \in Agreements
        BY <1>3, <1>4, <1>5 DEF Evaluation
      <3> QED BY <1>6, <3>1, <3>2
    <2> QED BY <1>2, <1>4, <1>8, <2>1, <2>2 DEF DueHeld
  <1>11. \A u \in DOMAIN evals' : evals'[u] \in Evaluation
    BY <1>4, <1>8 DEF Base, TypeOK
  <1>12. Rest'
    BY <1>2, <1>6, <1>8, <1>9, <1>10, <1>11, BaseRest DEF Rest
  <1>13. now' \in Nat /\ now' >= now /\ now' = now
    BY <1>2 DEF Base
  <1> QED BY <1>2, <1>6, <1>12, <1>13 DEF Effect

LEMMA EvalEndEffect ==
    ASSUME Base, NEW v \in DOMAIN evals, EvalEnd(v)
    PROVE  Effect /\ Rest'
  <1>1. /\ running = v /\ evals' = Without(evals, v) /\ running' = None
        /\ UNCHANGED <<rows, calls, usage, pending>> /\ UNCHANGED <<now, simTime, stopped>>
    BY DEF EvalEnd, Running, clockVars
  <1>2. /\ DOMAIN evals' = DOMAIN evals \ {v}
        /\ \A u \in DOMAIN evals \ {v} : evals'[u] = evals[u]
    BY <1>1 DEF Without
  <1>3. IsFiniteSet(DOMAIN evals') /\ DOMAIN evals' \subseteq Nat
    BY <1>2, FS_RemoveElement DEF Base
  <1>4. Waits'
    BY <1>1, <1>2 DEF Base, Waits
  <1>5. DueHeld'
    BY <1>1, <1>2 DEF Base, DueHeld
  <1>6. \A u \in DOMAIN evals' : evals'[u] \in Evaluation
    BY <1>2 DEF Base, TypeOK
  <1>7. Rest'
    BY <1>1, <1>3, <1>4, <1>5, <1>6, BaseRest DEF Rest
  <1>8. now' \in Nat /\ now' >= now /\ Quiet
    BY <1>1 DEF Base, Quiet
  <1> QED BY <1>1, <1>7, <1>8 DEF Effect

----------------------------------------------------------------------------
(* Everybody else *)

\* Who writes one row and nothing else.
LEMMA RowEffect ==
    ASSUME Base, NEW a \in Agreements, NEW r \in Row, r.terms = rows[a].terms,
           rows' = [rows EXCEPT ![a] = r],
           UNCHANGED <<calls, usage, pending, evals, running, clockVars>>
    PROVE  Effect /\ Rest'
  <1>1. rows' \in [Agreements -> Row] /\ \A b \in Agreements : rows'[b].terms = rows[b].terms
    BY DEF Base, TypeOK
  <1>2. UNCHANGED <<now, simTime, stopped>>
    BY DEF clockVars
  <1>3. Waits' /\ DueHeld'
    BY DEF Base, Waits, DueHeld
  <1>4. Rest'
    BY <1>1, <1>2, <1>3, BaseRest DEF Rest
  <1>5. now' \in Nat /\ now' >= now /\ Quiet
    BY <1>2 DEF Base, Quiet
  <1> QED BY <1>1, <1>4, <1>5 DEF Effect

LEMMA PartyEffect ==
    ASSUME Base, NEW a \in Agreements, Party(a)
    PROVE  Effect /\ Rest'
  <1> DEFINE row == SettleExpiredHold(rows[a], now)
  <1>1. row \in Row /\ row.terms = rows[a].terms /\ now \in Nat
    BY RowsKept DEF Base, TypeOK
  <1>2. PICK r : /\ rows' = [rows EXCEPT ![a] = r]
                 /\ \/ \E d \in 1..HOLD_MAX_SEC : r = HoldRow(row, now + d)
                    \/ r = Resume(row)
                    \/ r = SetStatus(row, "suspended", None)
                    \/ r = SetStatus(row, "terminated", None)
    BY DEF Party
  <1>3. UNCHANGED <<calls, usage, pending, evals, running, clockVars>>
    BY DEF Party
  <1> HIDE DEF row
  <1>4. r \in Row /\ r.terms = rows[a].terms
    <2>1. ASSUME NEW d \in 1..HOLD_MAX_SEC, r = HoldRow(row, now + d)
          PROVE  r \in Row /\ r.terms = row.terms
      <3>1. now + d \in Nat
        BY <1>1, ConstantsAssumption
      <3> QED BY <1>1, <2>1, <3>1, RowsKept
    <2> QED BY <1>1, <1>2, <2>1, RowsKept
  <1> QED BY <1>2, <1>3, <1>4, RowEffect

LEMMA ReadEffect ==
    ASSUME Base, NEW a \in Agreements, Read(a)
    PROVE  Effect /\ Rest'
  <1>1. /\ SettleExpiredHold(rows[a], now) \in Row
        /\ SettleExpiredHold(rows[a], now).terms = rows[a].terms
    BY RowsKept DEF Base, TypeOK
  <1> QED BY <1>1, RowEffect DEF Read

LEMMA TickEffect ==
    ASSUME Base, Tick
    PROVE  Effect /\ Rest'
  <1>1. /\ UNCHANGED <<rows, calls, usage, pending, evals, running>>
        /\ now' \in Nat /\ now' >= now /\ simTime' \in Nat /\ stopped' \in BOOLEAN
    <2>1. now \in Nat /\ simTime \in Nat /\ stopped \in BOOLEAN
      BY DEF Base
    <2>2. /\ UNCHANGED <<rows, calls, usage, pending, evals, running>>
          /\ now' = now \/ now' = now + 1
          /\ simTime' = simTime \/ simTime' = simTime + 1
      BY DEF Tick
    <2>3. stopped' = stopped \/ stopped' = TRUE
      BY DEF Tick
    <2>4. now' \in Nat /\ now' >= now /\ simTime' \in Nat
      BY <2>1, <2>2
    <2> QED BY <2>1, <2>2, <2>3, <2>4
  <1>2. Waits' /\ DueHeld'
    BY <1>1 DEF Base, Waits, DueHeld
  <1>3. Rest'
    BY <1>1, <1>2, BaseRest DEF Rest
  <1>4. Quiet
    BY <1>1 DEF Quiet
  <1> QED BY <1>1, <1>3, <1>4 DEF Effect

LEMMA RestartEffect ==
    ASSUME Base, Restart
    PROVE  Effect /\ Rest'
  <1>1. /\ calls' = << >> /\ evals' = << >> /\ pending' = [a \in Agreements |-> None]
        /\ stopped' = FALSE /\ UNCHANGED <<rows, usage, running, now, simTime>> /\ Idle
    BY DEF Restart
  <1>2. DOMAIN calls' = {} /\ DOMAIN evals' = {}
    BY <1>1
  <1>3. Waits' /\ DueHeld'
    BY <1>2 DEF Waits, DueHeld
  <1>4. IsFiniteSet(DOMAIN evals')
    BY <1>2, FS_EmptySet
  <1>5. Rest'
    BY <1>1, <1>2, <1>3, <1>4, BaseRest DEF Rest, Idle
  <1>6. Clears
    BY <1>1 DEF Clears
  <1>7. now' \in Nat /\ now' >= now /\ now' = now
    BY <1>1 DEF Base
  <1> QED BY <1>1, <1>5, <1>6, <1>7 DEF Effect, Acts

LEMMA NextEffect ==
    ASSUME Base, Next
    PROVE  Effect /\ Rest'
  <1>1. ASSUME NEW a \in Agreements, Invoke(a) \/ NodeInvoke(a) \/ Party(a) \/ Read(a)
        PROVE  Effect /\ Rest'
    BY <1>1, InvokeEffect, NodeInvokeEffect, PartyEffect, ReadEffect
  <1>2. CASE Complete
    BY <1>2, TargetEffect, FinishEffect DEF Complete
  <1>3. CASE \E c \in DOMAIN calls : AnswerPending(c)
    BY <1>3, AnswerPendingEffect
  <1>4. CASE \E kind \in EventKinds : Inject(kind)
    BY <1>4, InjectEffect
  <1>5. CASE EvalStep
    BY <1>5, EvalResetEffect, EvalResetsDoneEffect, EvalTriggerEffect, EvalDueEffect,
       EvalEndEffect DEF EvalStep
  <1>6. CASE Recheck
    BY <1>6, RecheckEffect
  <1>7. CASE Tick
    BY <1>7, TickEffect
  <1>8. CASE Restart
    BY <1>8, RestartEffect
  <1> QED BY <1>1, <1>2, <1>3, <1>4, <1>5, <1>6, <1>7, <1>8 DEF Next

----------------------------------------------------------------------------
(* Calls and usage *)

\* A call started, retargeted or settled keeps its agreement and lane.
LEMMA BegunTyped ==
    ASSUME Base, NEW c \in DOMAIN calls
    PROVE  /\ calls[c] \in Call /\ Begun(c) \in Call
           /\ Begun(c).agr = calls[c].agr /\ Begun(c).lane = calls[c].lane
           /\ Begun(c).start = now
  <1>1. calls[c] \in Call /\ now \in Nat /\ "executing" \in Phases
    BY DEF Base, TypeOK, Phases
  <1> QED BY <1>1 DEF Begun, Call

Counted ==
    /\ \A c \in DOMAIN calls : calls[c] \in Call /\ calls[c].start <= now
    /\ usage \in Seq(UsageRow) /\ \A i \in DOMAIN usage : usage[i].start <= now
    /\ IsFiniteSet(DOMAIN calls)

LEMMA AppendStarts ==
    ASSUME Base, NEW row \in UsageRow, row.start <= now, usage' = Append(usage, row), now' = now
    PROVE  usage' \in Seq(UsageRow) /\ \A i \in DOMAIN usage' : usage'[i].start <= now'
  <1>1. usage \in Seq(UsageRow) /\ \A i \in DOMAIN usage : usage[i].start <= now
    BY DEF Base, TypeOK
  <1>2. usage' \in Seq(UsageRow)
    BY <1>1
  <1>3. /\ DOMAIN usage' = DOMAIN usage \cup {Len(usage) + 1} /\ usage'[Len(usage) + 1] = row
        /\ \A i \in DOMAIN usage : usage'[i] = usage[i]
    BY <1>1
  <1> QED BY <1>1, <1>2, <1>3

LEMMA WithoutCounted ==
    ASSUME Base, NEW c \in DOMAIN calls
    PROVE  /\ IsFiniteSet(DOMAIN Without(calls, c))
           /\ \A d \in DOMAIN Without(calls, c) :
                d \in DOMAIN calls /\ d # c /\ Without(calls, c)[d] = calls[d]
  <1>1. IsFiniteSet(DOMAIN calls \ {c})
    BY FS_RemoveElement DEF Base
  <1>2. DOMAIN Without(calls, c) = DOMAIN calls \ {c}
    BY DEF Without
  <1> QED BY <1>1, <1>2 DEF Without

LEMMA WithCounted ==
    ASSUME NEW k, IsFiniteSet(DOMAIN k), NEW id, NEW call
    PROVE  /\ IsFiniteSet(DOMAIN With(k, id, call))
           /\ \A d \in DOMAIN With(k, id, call) :
                \/ d = id /\ With(k, id, call)[d] = call
                \/ d # id /\ d \in DOMAIN k /\ With(k, id, call)[d] = k[d]
  BY FS_AddElement DEF With

LEMMA CountedStep ==
    ASSUME Base, Effect
    PROVE  Counted'
  <1>1. Counted /\ now \in Nat
    BY DEF Base, TypeOK, Counted
  <1>2. CASE Quiet
    <2>1. /\ calls' = calls /\ usage' = usage /\ now' \in Nat /\ now' >= now
      BY <1>2 DEF Quiet, Effect
    <2>2. \A c \in DOMAIN calls : calls[c].start \in Nat
      BY <1>1 DEF Counted, Call
    <2>3. \A i \in DOMAIN usage : usage[i].start \in Nat
      <3>1. \A i \in DOMAIN usage : usage[i] \in UsageRow
        BY <1>1 DEF Counted
      <3> QED BY <3>1 DEF UsageRow
    <2>4. (\A c \in DOMAIN calls : calls[c].start <= now') /\ (\A i \in DOMAIN usage : usage[i].start <= now')
      BY <1>1, <2>1, <2>2, <2>3 DEF Counted
    <2> QED BY <1>1, <2>1, <2>4 DEF Counted
  <1>3. CASE ~Quiet
    <2>0. now' = now /\ Acts
      BY <1>3 DEF Effect
    <2>1. ASSUME NEW c \in DOMAIN calls, Answers(c) PROVE Counted'
      <3>1. [calls[c] EXCEPT !.answered = TRUE] \in Call
            /\ [calls[c] EXCEPT !.answered = TRUE].start = calls[c].start
        BY <1>1 DEF Counted, Call
      <3> QED BY <1>1, <2>0, <2>1, <3>1 DEF Answers, Counted
    <2>2. ASSUME NEW c \in DOMAIN calls, Targets(c) PROVE Counted'
      <3>1. Begun(c) \in Call /\ Begun(c).start <= now
        BY <1>1, BegunTyped
      <3>2. CASE calls' = With(Without(calls, c), c, Begun(c)) /\ UNCHANGED usage
        BY <1>1, <2>0, <3>1, <3>2, WithoutCounted, WithCounted DEF Counted
      <3>3. CASE calls' = Without(calls, c) /\ usage' = Append(usage, UsageOf(Begun(c), "failure"))
        <4>1. UsageOf(Begun(c), "failure") \in UsageRow /\ UsageOf(Begun(c), "failure").start <= now
          BY <3>1, UsageOfTyped
        <4> QED BY <1>1, <2>0, <3>3, <4>1, WithoutCounted, AppendStarts DEF Counted
      <3>4. CASE calls' = Without(calls, c) /\ UNCHANGED usage
        BY <1>1, <2>0, <3>4, WithoutCounted DEF Counted
      <3> QED BY <2>2, <3>2, <3>3, <3>4 DEF Targets
    <2>3. CASE Clears
      <3>1. DOMAIN calls' = {}
        BY <2>3 DEF Clears
      <3> QED BY <1>1, <2>0, <2>3, <3>1, FS_EmptySet DEF Clears, Counted
    <2>4. ASSUME NEW id, NEW call \in Call, Starts(id, call) PROVE Counted'
      <3>1. call.start <= now
        BY <1>1, <2>4 DEF Starts
      <3> QED BY <1>1, <2>0, <2>4, <3>1, WithCounted DEF Starts, Counted
    <2>5. ASSUME NEW row \in UsageRow, Refuses(row) PROVE Counted'
      <3>1. row.start <= now
        BY <1>1, <2>5 DEF Refuses
      <3> QED BY <1>1, <2>0, <2>5, <3>1, AppendStarts DEF Refuses, Counted
    <2>6. ASSUME NEW c \in DOMAIN calls, NEW o \in {"success", "failure"}, Finishes(c, o)
          PROVE  Counted'
      <3>1. UsageOf(calls[c], o) \in UsageRow /\ UsageOf(calls[c], o).start <= now
        BY <1>1, UsageOfTyped DEF Counted
      <3> QED BY <1>1, <2>0, <2>6, <3>1, WithoutCounted, AppendStarts DEF Finishes, Counted
    <2> QED BY <2>0, <2>1, <2>2, <2>3, <2>4, <2>5, <2>6 DEF Acts
  <1> QED BY <1>2, <1>3

LEMMA BaseStep == Base /\ [Next]_vars => Base'
  <1> SUFFICES ASSUME Base, [Next]_vars PROVE Base'
    OBVIOUS
  <1>1. CASE Next
    <2>1. Effect /\ Rest' /\ Counted'
      BY <1>1, NextEffect, CountedStep
    <2>2. raced' \subseteq Agreements
      BY <1>1 DEF Next, RecordRace, Base, TypeOK
    <2>3. now' \in Nat /\ \A a \in Agreements : rows'[a].terms = TermsOf[a]
      BY <2>1 DEF Effect, Base
    <2> QED BY <2>1, <2>2, <2>3 DEF Base, TypeOK, Rest, Counted
  <1>2. CASE UNCHANGED vars
    BY <1>2 DEF vars, Base, TypeOK, Waits, DueHeld
  <1> QED BY <1>1, <1>2

LEMMA BaseInit == Init => Base
  <1> SUFFICES ASSUME Init PROVE Base
    OBVIOUS
  <1>1. DOMAIN calls = {} /\ DOMAIN evals = {} /\ DOMAIN usage = {}
    BY DEF Init
  <1>2. \A a \in Agreements : rows[a] \in Row /\ rows[a].terms = TermsOf[a]
    <2>1. \A a \in Agreements : TermsOf[a] \in Terms
      BY InvokeAssumption
    <2> QED BY <2>1 DEF Init, CreateAgreement, Row, Statuses, Sources, Reasons
  <1>3. rows \in [Agreements -> Row] /\ pending \in [Agreements -> Arm \cup {None}]
    BY <1>2 DEF Init
  <1>4. usage \in Seq(UsageRow)
    BY DEF Init
  <1>5. IsFiniteSet(DOMAIN calls) /\ IsFiniteSet(DOMAIN evals)
    BY <1>1, FS_EmptySet
  <1>6. Waits /\ DueHeld
    BY <1>1 DEF Waits, DueHeld
  <1>7. TypeOK
    BY <1>1, <1>3, <1>4 DEF TypeOK, Init
  <1>8. now \in Nat /\ simTime \in Nat /\ stopped \in BOOLEAN
    BY DEF Init
  <1> QED BY <1>1, <1>2, <1>5, <1>6, <1>7, <1>8 DEF Base

----------------------------------------------------------------------------
(* Resets and the deliveries that armed them *)

ResetRows(a) == {x \in UsageRow : x.agr = a /\ x.lane = "autoReset"}
ResetCalls(a) == {x \in Call : x.agr = a /\ x.lane = "autoReset"}
TriggerRows(a) == {x \in UsageRow : /\ x.agr = a /\ x.outcome = "success"
                                    /\ x.lane = "autoTrigger"}
Armed(p, a) == IF p[a] = None THEN 0 ELSE 1
Balanced(u, k, p, a) ==
    Cardinality(Where(u, ResetRows(a))) + Cardinality(Where(k, ResetCalls(a))) + Armed(p, a)
      <= Cardinality(Where(u, TriggerRows(a)))

LEMMA BalanceMeans ==
    ASSUME Base
    PROVE  ResetsFollowTriggers <=> \A a \in Agreements : Balanced(usage, calls, pending, a)
  <1> SUFFICES ASSUME NEW a \in Agreements
      PROVE  /\ {i \in DOMAIN usage : usage[i].agr = a /\ usage[i].lane = "autoReset"}
                  = Where(usage, ResetRows(a))
             /\ {c \in DOMAIN calls : calls[c].agr = a /\ calls[c].lane = "autoReset"}
                  = Where(calls, ResetCalls(a))
             /\ Deliveries(a, {"autoTrigger"}) = Where(usage, TriggerRows(a))
    BY DEF ResetsFollowTriggers, Balanced, Armed
  <1>1. /\ \A c \in DOMAIN calls : calls[c] \in Call
        /\ \A i \in DOMAIN usage : usage[i] \in UsageRow
    BY DEF Base, TypeOK
  <1>2. {i \in DOMAIN usage : usage[i].agr = a /\ usage[i].lane = "autoReset"}
          = Where(usage, ResetRows(a))
    BY <1>1 DEF Where, ResetRows
  <1>3. {c \in DOMAIN calls : calls[c].agr = a /\ calls[c].lane = "autoReset"}
          = Where(calls, ResetCalls(a))
    BY <1>1 DEF Where, ResetCalls
  <1>4. Deliveries(a, {"autoTrigger"}) = Where(usage, TriggerRows(a))
    BY <1>1 DEF Where, TriggerRows, Deliveries, Delivered
  <1> QED BY <1>2, <1>3, <1>4

LEMMA CountsAreNumbers ==
    ASSUME Base, NEW T
    PROVE  /\ Cardinality(Where(usage, T)) \in Nat /\ Cardinality(Where(calls, T)) \in Nat
           /\ IsFiniteSet(Where(usage, T)) /\ IsFiniteSet(Where(calls, T))
  <1>1. usage \in Seq(UsageRow) /\ IsFiniteSet(DOMAIN calls)
    BY DEF Base, TypeOK
  <1>2. IsFiniteSet(DOMAIN usage)
    BY <1>1, SeqFinite
  <1> QED BY <1>1, <1>2, WhereFinite

\* What has been answered is still the same call.
LEMMA AnswersCount ==
    ASSUME Base, NEW c \in DOMAIN calls, Answers(c), NEW a
    PROVE  Where(calls', ResetCalls(a)) = Where(calls, ResetCalls(a))
  <1> DEFINE e == [calls[c] EXCEPT !.answered = TRUE]
  <1>1. calls[c] \in Call
    BY DEF Base, TypeOK
  <1>2. e \in Call /\ e.agr = calls[c].agr /\ e.lane = calls[c].lane
    BY <1>1 DEF Call
  <1>3. e \in ResetCalls(a) <=> calls[c] \in ResetCalls(a)
    BY <1>1, <1>2 DEF ResetCalls
  <1>4. calls' = [calls EXCEPT ![c] = e]
    BY DEF Answers
  <1> HIDE DEF e
  <1> QED BY <1>3, <1>4 DEF Where

\* A taken arm pays for the reset it becomes.
LEMMA TakenPays ==
    ASSUME Base, NEW x, x.agr \in Agreements, Taken(x), NEW a \in Agreements
    PROVE  /\ Armed(pending, a) \in 0..1 /\ Armed(pending', a) \in 0..1
           /\ Armed(pending', a) + (IF x.agr = a /\ x.lane = "autoReset" THEN 1 ELSE 0)
                = Armed(pending, a)
  <1>1. pending \in [Agreements -> Arm \cup {None}]
    BY DEF Base, TypeOK
  <1>2. CASE x.lane = "autoReset"
    <2>1. pending[x.agr] # None /\ pending' = [pending EXCEPT ![x.agr] = None]
      BY <1>2 DEF Taken
    <2> QED BY <1>1, <1>2, <2>1 DEF Armed
  <1>3. CASE x.lane # "autoReset"
    BY <1>1, <1>3 DEF Taken, Armed
  <1> QED BY <1>2, <1>3

LEMMA BalanceStep ==
    ASSUME Base, Effect, NEW a \in Agreements, Balanced(usage, calls, pending, a)
    PROVE  Balanced(usage', calls', pending', a)
  <1> DEFINE R == Cardinality(Where(usage, ResetRows(a)))
             C == Cardinality(Where(calls, ResetCalls(a)))
             T == Cardinality(Where(usage, TriggerRows(a)))
             R1 == Cardinality(Where(usage', ResetRows(a)))
             C1 == Cardinality(Where(calls', ResetCalls(a)))
             T1 == Cardinality(Where(usage', TriggerRows(a)))
             A == Armed(pending, a)
             A1 == Armed(pending', a)
             One(b) == IF b THEN 1 ELSE 0
  <1>0. R + C + A <= T
    BY DEF Balanced
  <1>1. R \in Nat /\ C \in Nat /\ T \in Nat /\ A \in 0..1 /\ A1 \in 0..1
    BY CountsAreNumbers DEF Armed
  <1>2. /\ usage \in Seq(UsageRow) /\ IsFiniteSet(DOMAIN calls)
        /\ \A c \in DOMAIN calls : calls[c] \in Call
    BY DEF Base, TypeOK
  <1>3. SUFFICES R1 + C1 + A1 <= T1
    BY DEF Balanced
  <1>4. ASSUME UNCHANGED usage PROVE R1 = R /\ T1 = T
    BY <1>4
  <1>5. ASSUME NEW row \in UsageRow, usage' = Append(usage, row)
        PROVE  /\ R1 = R + One(row.agr = a /\ row.lane = "autoReset")
               /\ T1 = T + One(row.agr = a /\ row.outcome = "success" /\ row.lane = "autoTrigger")
    <2>1. R1 = R + (IF row \in ResetRows(a) THEN 1 ELSE 0)
      BY <1>2, <1>5, WhereAppend
    <2>2. T1 = T + (IF row \in TriggerRows(a) THEN 1 ELSE 0)
      BY <1>2, <1>5, WhereAppend
    <2>3. /\ row \in ResetRows(a) <=> (row.agr = a /\ row.lane = "autoReset")
          /\ row \in TriggerRows(a)
               <=> (row.agr = a /\ row.outcome = "success" /\ row.lane = "autoTrigger")
      BY DEF ResetRows, TriggerRows
    <2> QED BY <2>1, <2>2, <2>3
  <1>6. ASSUME NEW c \in DOMAIN calls
        PROVE  /\ Cardinality(Where(Without(calls, c), ResetCalls(a))) \in Nat
               /\ C = Cardinality(Where(Without(calls, c), ResetCalls(a)))
                        + One(calls[c].agr = a /\ calls[c].lane = "autoReset")
    <2>1. C = Cardinality(Where(Without(calls, c), ResetCalls(a)))
                + (IF calls[c] \in ResetCalls(a) THEN 1 ELSE 0)
      BY <1>2, WhereWithout
    <2>2. calls[c] \in ResetCalls(a) <=> (calls[c].agr = a /\ calls[c].lane = "autoReset")
      BY <1>2 DEF ResetCalls
    <2>3. Cardinality(Where(Without(calls, c), ResetCalls(a))) \in Nat
      BY WithoutCounted, WhereFinite
    <2> QED BY <2>1, <2>2, <2>3
  <1>7. ASSUME NEW k, IsFiniteSet(DOMAIN k), NEW id, id \notin DOMAIN k, NEW call \in Call,
               calls' = With(k, id, call)
        PROVE  C1 = Cardinality(Where(k, ResetCalls(a)))
                      + One(call.agr = a /\ call.lane = "autoReset")
    <2>1. C1 = Cardinality(Where(k, ResetCalls(a))) + (IF call \in ResetCalls(a) THEN 1 ELSE 0)
      BY <1>7, WhereWith
    <2>2. call \in ResetCalls(a) <=> (call.agr = a /\ call.lane = "autoReset")
      BY DEF ResetCalls
    <2> QED BY <2>1, <2>2
  <1> HIDE DEF R, C, T, R1, C1, T1, A, A1
  <1>8. CASE Quiet
    <2>1. R1 = R /\ T1 = T /\ C1 = C
      BY <1>4, <1>8 DEF Quiet, C, C1
    <2>2. A1 <= A
      BY <1>8 DEF Quiet, A, A1, Armed
    <2> QED BY <1>0, <1>1, <2>1, <2>2
  <1>9. ASSUME NEW c \in DOMAIN calls, Answers(c) PROVE R1 + C1 + A1 <= T1
    <2>1. R1 = R /\ T1 = T /\ A1 = A
      BY <1>4, <1>9 DEF Answers, A, A1
    <2>2. C1 = C
      BY <1>9, AnswersCount DEF C, C1
    <2> QED BY <1>0, <1>1, <2>1, <2>2
  <1>10. CASE Clears
    <2>1. R1 = R /\ T1 = T
      BY <1>4, <1>10 DEF Clears
    <2>2. Where(calls', ResetCalls(a)) = {}
      BY <1>10 DEF Clears, Where
    <2>3. C1 = 0 /\ A1 = 0
      BY <1>10, <2>2, FS_EmptySet DEF Clears, C1, A1, Armed
    <2> QED BY <1>0, <1>1, <2>1, <2>3
  <1>11. ASSUME NEW id, NEW call \in Call, Starts(id, call) PROVE R1 + C1 + A1 <= T1
    <2>1. R1 = R /\ T1 = T /\ call.agr \in Agreements
      BY <1>4, <1>11 DEF Starts, Call
    <2>2. C1 = C + One(call.agr = a /\ call.lane = "autoReset")
      BY <1>2, <1>7, <1>11 DEF Starts, C
    <2>3. A1 + One(call.agr = a /\ call.lane = "autoReset") = A
      BY <1>11, <2>1, TakenPays DEF Starts, A, A1
    <2> QED BY <1>0, <1>1, <2>1, <2>2, <2>3
  <1>12. ASSUME NEW row \in UsageRow, Refuses(row) PROVE R1 + C1 + A1 <= T1
    <2>1. /\ R1 = R + One(row.agr = a /\ row.lane = "autoReset") /\ T1 = T
          /\ row.agr \in Agreements
      BY <1>1, <1>5, <1>12 DEF Refuses, UsageRow
    <2>2. C1 = C
      BY <1>12 DEF Refuses, C, C1
    <2>3. A1 + One(row.agr = a /\ row.lane = "autoReset") = A
      BY <1>12, <2>1, TakenPays DEF Refuses, A, A1
    <2> QED BY <1>0, <1>1, <2>1, <2>2, <2>3
  <1>13. ASSUME NEW c \in DOMAIN calls, Targets(c) PROVE R1 + C1 + A1 <= T1
    <2> DEFINE D == Cardinality(Where(Without(calls, c), ResetCalls(a)))
               b == calls[c].agr = a /\ calls[c].lane = "autoReset"
    <2>1. D \in Nat /\ C = D + One(b) /\ A1 = A
      BY <1>6, <1>13 DEF Targets, A, A1
    <2>2. /\ Begun(c) \in Call /\ Begun(c).agr = calls[c].agr /\ Begun(c).lane = calls[c].lane
      BY BegunTyped
    <2>3. CASE calls' = With(Without(calls, c), c, Begun(c)) /\ UNCHANGED usage
      <3>1. c \notin DOMAIN Without(calls, c) /\ IsFiniteSet(DOMAIN Without(calls, c))
        BY WithoutCounted
      <3>2. C1 = D + One(b)
        BY <1>7, <2>2, <2>3, <3>1
      <3> QED BY <1>0, <1>1, <1>4, <2>1, <2>3, <3>2
    <2>4. CASE calls' = Without(calls, c) /\ usage' = Append(usage, UsageOf(Begun(c), "failure"))
      <3>1. /\ UsageOf(Begun(c), "failure") \in UsageRow
            /\ UsageOf(Begun(c), "failure").agr = calls[c].agr
            /\ UsageOf(Begun(c), "failure").lane = calls[c].lane
            /\ UsageOf(Begun(c), "failure").outcome = "failure"
        BY <2>2, UsageOfTyped
      <3>2. R1 = R + One(b) /\ T1 = T
        BY <1>1, <1>5, <2>4, <3>1
      <3>3. C1 = D
        BY <2>4 DEF C1
      <3> QED BY <1>0, <1>1, <2>1, <3>2, <3>3
    <2>5. CASE calls' = Without(calls, c) /\ UNCHANGED usage
      <3>1. C1 = D
        BY <2>5 DEF C1
      <3> QED BY <1>0, <1>1, <1>4, <2>1, <2>5, <3>1
    <2> QED BY <1>13, <2>3, <2>4, <2>5 DEF Targets
  <1>14. ASSUME NEW c \in DOMAIN calls, NEW o \in {"success", "failure"}, Finishes(c, o)
         PROVE  R1 + C1 + A1 <= T1
    <2> DEFINE D == Cardinality(Where(Without(calls, c), ResetCalls(a)))
               b == calls[c].agr = a /\ calls[c].lane = "autoReset"
               f == calls[c].agr = a /\ o = "success" /\ calls[c].lane = "autoTrigger"
    <2>1. D \in Nat /\ C = D + One(b) /\ C1 = D
      BY <1>6, <1>14 DEF Finishes, C1
    <2>2. /\ UsageOf(calls[c], o) \in UsageRow /\ UsageOf(calls[c], o).agr = calls[c].agr
          /\ UsageOf(calls[c], o).lane = calls[c].lane /\ UsageOf(calls[c], o).outcome = o
      BY <1>2, UsageOfTyped
    <2>3. R1 = R + One(b) /\ T1 = T + One(f)
      BY <1>5, <1>14, <2>2 DEF Finishes
    <2>4. A1 <= A + One(f)
      <3>1. CASE f
        BY <1>1, <3>1
      <3>2. CASE ~f
        <4>1. pending'[a] = pending[a]
          BY <1>14, <3>2 DEF Finishes, Base, TypeOK
        <4> QED BY <1>1, <3>2, <4>1 DEF A, A1, Armed
      <3> QED BY <3>1, <3>2
    <2> QED BY <1>0, <1>1, <2>1, <2>3, <2>4
  <1>15. Quiet \/ Acts
    BY DEF Effect
  <1> QED BY <1>8, <1>9, <1>10, <1>11, <1>12, <1>13, <1>14, <1>15 DEF Acts

----------------------------------------------------------------------------
(* The quota of who acts one at a time *)

Counts(x, a) == x.agr = a /\ x.outcome = "success" /\ x.lane # "autoReset"

\* Deliveries whose window reaches the instant s, and those that started in the
\* window that begins at w.
RecentRows(a, s) == {x \in UsageRow : Counts(x, a) /\ x.start + TermsOf[a].windowSec >= s}
WindowRows(a, w) == {x \in UsageRow : Counts(x, a) /\ x.start \in w .. w + TermsOf[a].windowSec}

\* One consuming call at most; whoever is let through still has room when it
\* delivers; no window holds more than the quota.
Alone(k, a) == \A c, d \in DOMAIN k : k[c].agr = a /\ k[c].lane # "autoReset"
                                      /\ k[d].agr = a /\ k[d].lane # "autoReset" => c = d
Room(u, k, a) == \A c \in DOMAIN k : k[c].agr = a /\ k[c].lane # "autoReset" =>
    Cardinality(Where(u, RecentRows(a, k[c].start))) < TermsOf[a].quota
Within(u, n, a) == \A w \in 0..n : Cardinality(Where(u, WindowRows(a, w))) <= TermsOf[a].quota

Limited(a) == TermsOf[a].quota # None
Serial(a) == Alone(calls, a) /\ (Limited(a) => Room(usage, calls, a) /\ Within(usage, now, a))

LEMMA TermsTyped ==
    ASSUME NEW a \in Agreements
    PROVE  TermsOf[a].windowSec \in Nat /\ (Limited(a) => TermsOf[a].quota \in Nat)
  <1>1. TermsOf[a] \in Terms
    BY InvokeAssumption
  <1> QED BY <1>1, InvokeAssumption DEF Limited

LEMMA WindowMeans ==
    ASSUME Base, NEW a \in Agreements, NEW w \in Nat
    PROVE  {i \in Deliveries(a, Lanes \ {"autoReset"}) :
              usage[i].start \in w .. w + TermsOf[a].windowSec} = Where(usage, WindowRows(a, w))
  <1>1. \A i \in DOMAIN usage : usage[i] \in UsageRow
    BY DEF Base, TypeOK
  <1>2. \A i \in DOMAIN usage : usage[i].lane \in Lanes
    BY <1>1 DEF UsageRow
  <1> QED BY <1>1, <1>2 DEF Where, WindowRows, Deliveries, Delivered, Counts

LEMMA SerialMeans ==
    ASSUME Base, \A a \in Agreements \ raced : Serial(a)
    PROVE  SerialQuota
  <1> SUFFICES ASSUME NEW a \in Agreements \ raced, rows[a].terms.quota # None, NEW w \in 0..now
      PROVE  Cardinality({i \in Deliveries(a, Lanes \ {"autoReset"}) :
               usage[i].start \in w .. w + rows[a].terms.windowSec}) <= rows[a].terms.quota
    BY DEF SerialQuota
  <1>1. rows[a].terms = TermsOf[a] /\ w \in Nat
    BY DEF Base
  <1>2. Within(usage, now, a)
    BY <1>1 DEF Serial, Limited
  <1> QED BY <1>1, <1>2, WindowMeans DEF Within

\* More of a sequence's rows are in a larger set.
LEMMA WhereMonotone ==
    ASSUME NEW u \in Seq(UsageRow), NEW S, NEW T,
           \A i \in DOMAIN u : u[i] \in S => u[i] \in T
    PROVE  /\ Cardinality(Where(u, S)) \in Nat /\ Cardinality(Where(u, T)) \in Nat
           /\ Cardinality(Where(u, S)) <= Cardinality(Where(u, T))
  <1>1. IsFiniteSet(DOMAIN u)
    BY SeqFinite
  <1>2. /\ IsFiniteSet(Where(u, T)) /\ Cardinality(Where(u, T)) \in Nat
        /\ Cardinality(Where(u, S)) \in Nat
    BY <1>1, WhereFinite
  <1>3. Where(u, S) \in SUBSET Where(u, T)
    BY DEF Where
  <1> QED BY <1>2, <1>3, FS_Subset

\* The gate leaves room: it counts resets too, and every window that reaches now.
LEMMA GateLeavesRoom ==
    ASSUME Base, NEW a \in Agreements, Limited(a), ~Spent(a)
    PROVE  Cardinality(Where(usage, RecentRows(a, now))) < TermsOf[a].quota
  <1> DEFINE D == {i \in Delivered(a) : usage[i].start + TermsOf[a].windowSec >= now}
  <1>1. rows[a].terms = TermsOf[a] /\ usage \in Seq(UsageRow)
    BY DEF Base, TypeOK
  <1>2. ~(Cardinality(D) >= TermsOf[a].quota)
    BY <1>1 DEF Spent, Limited
  <1>3. IsFiniteSet(DOMAIN usage)
    BY <1>1, SeqFinite
  <1>4. D \in SUBSET (DOMAIN usage)
    BY DEF Delivered
  <1>5. IsFiniteSet(D) /\ Cardinality(D) \in Nat
    BY <1>3, <1>4, FS_Subset, FS_CardinalityType
  <1>6. Where(usage, RecentRows(a, now)) \in SUBSET D
    BY DEF Where, RecentRows, Counts, Delivered
  <1> HIDE DEF D
  <1>7. Cardinality(Where(usage, RecentRows(a, now))) <= Cardinality(D)
    BY <1>5, <1>6, FS_Subset
  <1>8. Cardinality(Where(usage, RecentRows(a, now))) \in Nat
    BY CountsAreNumbers
  <1> QED BY <1>2, <1>5, <1>7, <1>8, TermsTyped

\* Who has not raced has one consuming call in flight at most.
LEMMA NotRacedAlone ==
    ASSUME NEW a \in Agreements, RecordRace, a \notin raced', IsFiniteSet(DOMAIN calls')
    PROVE  Alone(calls', a)
  <1> DEFINE I == {c \in DOMAIN calls' : calls'[c].agr = a /\ calls'[c].lane # "autoReset"}
  <1>1. ~(Cardinality(I) > 1)
    BY DEF RecordRace, InFlight
  <1>2. IsFiniteSet(I) /\ Cardinality(I) \in Nat
    <2>1. I \in SUBSET (DOMAIN calls')
      OBVIOUS
    <2> QED BY <2>1, FS_Subset, FS_CardinalityType
  <1>3. ASSUME NEW c \in I, NEW d \in I, c # d PROVE FALSE
    <2>1. IsFiniteSet({c}) /\ Cardinality({c}) = 1
      BY FS_Singleton
    <2>2. Cardinality({c} \cup {d}) = Cardinality({c}) + 1
      BY <1>3, <2>1, FS_AddElement
    <2>3. {c} \cup {d} \in SUBSET I
      OBVIOUS
    <2> HIDE DEF I
    <2>4. Cardinality({c} \cup {d}) <= Cardinality(I)
      BY <1>2, <2>3, FS_Subset
    <2> QED BY <1>1, <1>2, <2>1, <2>2, <2>4
  <1> QED BY <1>3 DEF Alone

\* A step that delivers nothing of a counts as before.
SameCount(a) == \A s \in Nat :
    /\ Cardinality(Where(usage', RecentRows(a, s))) = Cardinality(Where(usage, RecentRows(a, s)))
    /\ Cardinality(Where(usage', WindowRows(a, s))) = Cardinality(Where(usage, WindowRows(a, s)))

LEMMA UncountedRow ==
    ASSUME Base, NEW a \in Agreements, NEW row \in UsageRow, ~Counts(row, a),
           usage' = Append(usage, row)
    PROVE  SameCount(a)
  <1> SUFFICES ASSUME NEW s \in Nat
      PROVE  /\ Cardinality(Where(usage', RecentRows(a, s)))
                  = Cardinality(Where(usage, RecentRows(a, s)))
             /\ Cardinality(Where(usage', WindowRows(a, s)))
                  = Cardinality(Where(usage, WindowRows(a, s)))
    BY DEF SameCount
  <1>1. row \notin RecentRows(a, s) /\ row \notin WindowRows(a, s)
    BY DEF RecentRows, WindowRows
  <1>2. usage \in Seq(UsageRow)
    BY DEF Base, TypeOK
  <1>3. /\ Cardinality(Where(usage, RecentRows(a, s))) \in Nat
        /\ Cardinality(Where(usage, WindowRows(a, s))) \in Nat
    BY CountsAreNumbers
  <1>4. Cardinality(Where(Append(usage, row), RecentRows(a, s)))
          = Cardinality(Where(usage, RecentRows(a, s)))
    BY <1>1, <1>2, <1>3, WhereAppend
  <1>5. Cardinality(Where(Append(usage, row), WindowRows(a, s)))
          = Cardinality(Where(usage, WindowRows(a, s)))
    BY <1>1, <1>2, <1>3, WhereAppend
  <1> QED BY <1>4, <1>5

\* A consuming call of a was there, started no later, or the gate just let it in.
Heirs(a) == \A d \in DOMAIN calls' : calls'[d].agr = a /\ calls'[d].lane # "autoReset" =>
    \/ /\ d \in DOMAIN calls /\ calls[d].agr = a /\ calls[d].lane # "autoReset"
       /\ calls'[d].start \in Nat /\ calls[d].start <= calls'[d].start
    \/ calls'[d].start = now /\ ~Spent(a)

\* Later instants see fewer deliveries.
LEMMA LaterSeesLess ==
    ASSUME Base, NEW a \in Agreements, NEW s \in Nat, NEW t \in Nat, s <= t
    PROVE  Cardinality(Where(usage, RecentRows(a, t))) <= Cardinality(Where(usage, RecentRows(a, s)))
  <1>1. usage \in Seq(UsageRow) /\ TermsOf[a].windowSec \in Nat
    BY TermsTyped DEF Base, TypeOK
  <1>2. \A x \in UsageRow : x \in RecentRows(a, t) => x \in RecentRows(a, s)
    <2>1. \A x \in UsageRow : x.start \in Nat
      BY DEF UsageRow
    <2> QED BY <1>1, <2>1 DEF RecentRows
  <1>3. \A i \in DOMAIN usage : usage[i] \in RecentRows(a, t) => usage[i] \in RecentRows(a, s)
    BY <1>1, <1>2
  <1> QED BY <1>1, <1>3, WhereMonotone

LEMMA RoomKept ==
    ASSUME Base, NEW a \in Agreements, Limited(a), Room(usage, calls, a), SameCount(a), Heirs(a)
    PROVE  Room(usage', calls', a)
  <1> SUFFICES ASSUME NEW d \in DOMAIN calls', calls'[d].agr = a, calls'[d].lane # "autoReset"
      PROVE  Cardinality(Where(usage', RecentRows(a, calls'[d].start))) < TermsOf[a].quota
    BY DEF Room
  <1>1. CASE calls'[d].start = now /\ ~Spent(a)
    <2>1. now \in Nat
      BY DEF Base
    <2>2. Cardinality(Where(usage, RecentRows(a, now))) < TermsOf[a].quota
      BY <1>1, GateLeavesRoom
    <2> QED BY <1>1, <2>1, <2>2 DEF SameCount
  <1>2. CASE /\ d \in DOMAIN calls /\ calls[d].agr = a /\ calls[d].lane # "autoReset"
             /\ calls'[d].start \in Nat /\ calls[d].start <= calls'[d].start
    <2> DEFINE s == calls[d].start
               t == calls'[d].start
    <2>1. calls[d] \in Call
      BY <1>2 DEF Base, TypeOK
    <2>2. s \in Nat /\ t \in Nat /\ s <= t
      BY <1>2, <2>1 DEF Call
    <2>3. Cardinality(Where(usage, RecentRows(a, s))) < TermsOf[a].quota
      BY <1>2 DEF Room
    <2> HIDE DEF s, t
    <2>4. Cardinality(Where(usage, RecentRows(a, t))) <= Cardinality(Where(usage, RecentRows(a, s)))
      BY <2>2, LaterSeesLess
    <2>5. Cardinality(Where(usage, RecentRows(a, t))) \in Nat
          /\ Cardinality(Where(usage, RecentRows(a, s))) \in Nat
      BY CountsAreNumbers
    <2>6. Cardinality(Where(usage, RecentRows(a, t))) < TermsOf[a].quota
      BY <2>3, <2>4, <2>5, TermsTyped
    <2>7. Cardinality(Where(usage', RecentRows(a, t))) < TermsOf[a].quota
      BY <2>2, <2>6 DEF SameCount
    <2> QED BY <2>7 DEF t
  <1> QED BY <1>1, <1>2 DEF Heirs

LEMMA WithinKept ==
    ASSUME Base, NEW a \in Agreements, Limited(a), Within(usage, now, a), SameCount(a),
           now' \in Nat, now' >= now, now' = now \/ UNCHANGED usage
    PROVE  Within(usage', now', a)
  <1> SUFFICES ASSUME NEW w \in 0..now'
      PROVE  Cardinality(Where(usage', WindowRows(a, w))) <= TermsOf[a].quota
    BY DEF Within
  <1>1. w \in Nat /\ now \in Nat /\ TermsOf[a].quota \in Nat
    BY TermsTyped DEF Base
  <1>2. CASE w <= now
    <2>1. Cardinality(Where(usage, WindowRows(a, w))) <= TermsOf[a].quota
      BY <1>1, <1>2 DEF Within
    <2> QED BY <1>1, <2>1 DEF SameCount
  <1>3. CASE w > now
    <2>1. \A i \in DOMAIN usage : usage[i] \in UsageRow /\ usage[i].start <= now
      BY DEF Base, TypeOK
    <2>2. \A i \in DOMAIN usage : usage[i] \notin WindowRows(a, w)
      <3> SUFFICES ASSUME NEW i \in DOMAIN usage, usage[i] \in WindowRows(a, w) PROVE FALSE
        OBVIOUS
      <3>1. usage[i].start \in w .. w + TermsOf[a].windowSec
        BY DEF WindowRows
      <3> QED BY <1>1, <1>3, <2>1, <3>1
    <2>3. Where(usage, WindowRows(a, w)) = {}
      BY <2>2 DEF Where
    <2>4. Cardinality(Where(usage, WindowRows(a, w))) = 0
      BY <2>3, FS_EmptySet
    <2> QED BY <1>1, <2>4 DEF SameCount
  <1> QED BY <1>1, <1>2, <1>3

\* The delivery of whoever is alone uses the room that was left for it.
LEMMA DeliveryFits ==
    ASSUME Base, NEW a \in Agreements, Limited(a), Within(usage, now, a),
           NEW row \in UsageRow, usage' = Append(usage, row),
           Cardinality(Where(usage, RecentRows(a, row.start))) < TermsOf[a].quota
    PROVE  Within(usage', now, a)
  <1> SUFFICES ASSUME NEW w \in 0..now
      PROVE  Cardinality(Where(usage', WindowRows(a, w))) <= TermsOf[a].quota
    BY DEF Within
  <1> DEFINE W == Cardinality(Where(usage, WindowRows(a, w)))
             N == Cardinality(Where(usage, RecentRows(a, row.start)))
  <1>1. /\ w \in Nat /\ row.start \in Nat /\ usage \in Seq(UsageRow)
        /\ TermsOf[a].quota \in Nat /\ TermsOf[a].windowSec \in Nat
    <2>1. now \in Nat
      BY DEF Base
    <2> QED BY <2>1, TermsTyped DEF Base, TypeOK, UsageRow
  <1>2. W \in Nat /\ N \in Nat /\ W <= TermsOf[a].quota
    BY CountsAreNumbers DEF Within
  <1>3. Cardinality(Where(Append(usage, row), WindowRows(a, w)))
          = W + (IF row \in WindowRows(a, w) THEN 1 ELSE 0)
    BY <1>1, WhereAppend
  <1>4. CASE row \notin WindowRows(a, w)
    BY <1>2, <1>3, <1>4
  <1>5. CASE row \in WindowRows(a, w)
    <2>1. row.start \in w .. w + TermsOf[a].windowSec
      BY <1>5 DEF WindowRows
    <2>2. \A x \in UsageRow : x \in WindowRows(a, w) => x \in RecentRows(a, row.start)
      <3> SUFFICES ASSUME NEW x \in UsageRow, x \in WindowRows(a, w)
          PROVE  x.start + TermsOf[a].windowSec >= row.start /\ Counts(x, a)
        BY DEF RecentRows
      <3>1. x.start \in w .. w + TermsOf[a].windowSec /\ Counts(x, a)
        BY DEF WindowRows
      <3> QED BY <1>1, <2>1, <3>1
    <2>3. \A i \in DOMAIN usage : usage[i] \in WindowRows(a, w) => usage[i] \in RecentRows(a, row.start)
      BY <1>1, <2>2
    <2>4. W <= N
      BY <1>1, <2>3, WhereMonotone
    <2> QED BY <1>1, <1>2, <1>3, <1>5, <2>4
  <1> QED BY <1>4, <1>5

\* Every step but the delivery of a consuming call of a counts as before, and
\* its calls of a are heirs.
LEMMA HeirsStep ==
    ASSUME Base, Effect, NEW a \in Agreements,
           ~\E c \in DOMAIN calls : /\ Finishes(c, "success")
                                    /\ calls[c].agr = a /\ calls[c].lane # "autoReset"
    PROVE  SameCount(a) /\ Heirs(a)
  <1>1. /\ now \in Nat
        /\ \A c \in DOMAIN calls : calls[c] \in Call /\ calls[c].start \in Nat /\ calls[c].start <= now
    BY DEF Base, TypeOK, Call
  <1>2. ASSUME UNCHANGED usage PROVE SameCount(a)
    BY <1>2 DEF SameCount
  <1>3. ASSUME UNCHANGED calls PROVE Heirs(a)
    BY <1>1, <1>3 DEF Heirs
  <1>4. ASSUME NEW c \in DOMAIN calls, calls' = Without(calls, c) PROVE Heirs(a)
    BY <1>1, <1>4, WithoutCounted DEF Heirs
  <1>5. CASE Quiet
    BY <1>2, <1>3, <1>5 DEF Quiet
  <1>6. ASSUME NEW c \in DOMAIN calls, Answers(c) PROVE SameCount(a) /\ Heirs(a)
    <2>1. /\ [calls[c] EXCEPT !.answered = TRUE].agr = calls[c].agr
          /\ [calls[c] EXCEPT !.answered = TRUE].lane = calls[c].lane
          /\ [calls[c] EXCEPT !.answered = TRUE].start = calls[c].start
      BY <1>1 DEF Call
    <2>2. /\ DOMAIN calls' = DOMAIN calls
          /\ \A d \in DOMAIN calls : /\ calls'[d].agr = calls[d].agr
                                     /\ calls'[d].lane = calls[d].lane
                                     /\ calls'[d].start = calls[d].start
      BY <1>6, <2>1 DEF Answers
    <2> QED BY <1>1, <1>2, <1>6, <2>2 DEF Answers, Heirs
  <1>7. CASE Clears
    <2>1. DOMAIN calls' = {}
      BY <1>7 DEF Clears
    <2> QED BY <1>2, <1>7, <2>1 DEF Clears, Heirs
  <1>8. ASSUME NEW id, NEW call \in Call, Starts(id, call) PROVE SameCount(a) /\ Heirs(a)
    <2>1. \A d \in DOMAIN calls' : \/ d = id /\ calls'[d] = call
                                   \/ d \in DOMAIN calls /\ calls'[d] = calls[d]
      BY <1>8, WithCounted DEF Starts, Base
    <2> QED BY <1>1, <1>2, <1>8, <2>1 DEF Starts, Heirs
  <1>9. ASSUME NEW row \in UsageRow, Refuses(row) PROVE SameCount(a) /\ Heirs(a)
    <2>1. ~Counts(row, a)
      BY <1>9 DEF Refuses, Counts
    <2> QED BY <1>3, <1>9, <2>1, UncountedRow DEF Refuses
  <1>10. ASSUME NEW c \in DOMAIN calls, Targets(c) PROVE SameCount(a) /\ Heirs(a)
    <2>1. /\ Begun(c) \in Call /\ Begun(c).agr = calls[c].agr /\ Begun(c).lane = calls[c].lane
          /\ Begun(c).start = now
      BY BegunTyped
    <2>2. CASE calls' = With(Without(calls, c), c, Begun(c)) /\ UNCHANGED usage
      <3>1. \A d \in DOMAIN calls' : \/ d = c /\ calls'[d] = Begun(c)
                                     \/ d \in DOMAIN calls /\ calls'[d] = calls[d]
        BY <2>2, WithCounted, WithoutCounted
      <3> QED BY <1>1, <1>2, <2>1, <2>2, <3>1 DEF Heirs
    <2>3. CASE calls' = Without(calls, c) /\ usage' = Append(usage, UsageOf(Begun(c), "failure"))
      <3>1. UsageOf(Begun(c), "failure") \in UsageRow
            /\ UsageOf(Begun(c), "failure").outcome = "failure"
        BY <2>1, UsageOfTyped
      <3>2. ~Counts(UsageOf(Begun(c), "failure"), a)
        BY <3>1 DEF Counts
      <3> QED BY <1>4, <2>3, <3>1, <3>2, UncountedRow
    <2>4. CASE calls' = Without(calls, c) /\ UNCHANGED usage
      BY <1>2, <1>4, <2>4
    <2> QED BY <1>10, <2>2, <2>3, <2>4 DEF Targets
  <1>11. ASSUME NEW c \in DOMAIN calls, NEW o \in {"success", "failure"}, Finishes(c, o)
         PROVE  SameCount(a) /\ Heirs(a)
    <2>1. /\ UsageOf(calls[c], o) \in UsageRow /\ UsageOf(calls[c], o).agr = calls[c].agr
          /\ UsageOf(calls[c], o).lane = calls[c].lane /\ UsageOf(calls[c], o).outcome = o
      BY <1>1, UsageOfTyped
    <2>2. ~Counts(UsageOf(calls[c], o), a)
      BY <1>11, <2>1 DEF Counts
    <2> QED BY <1>4, <1>11, <2>1, <2>2, UncountedRow DEF Finishes
  <1> QED BY <1>5, <1>6, <1>7, <1>8, <1>9, <1>10, <1>11 DEF Effect, Acts

LEMMA SerialStep ==
    ASSUME Base, Effect, NEW a \in Agreements, Serial(a), Alone(calls', a)
    PROVE  Serial(a)'
  <1> SUFFICES ASSUME Limited(a) PROVE Room(usage', calls', a) /\ Within(usage', now', a)
    BY DEF Serial, Limited
  <1>1. Room(usage, calls, a) /\ Within(usage, now, a) /\ Alone(calls, a)
    BY DEF Serial
  <1>2. now' \in Nat /\ now' >= now /\ (now' = now \/ UNCHANGED usage)
    BY DEF Effect, Quiet
  <1>3. CASE ~\E c \in DOMAIN calls : /\ Finishes(c, "success")
                                      /\ calls[c].agr = a /\ calls[c].lane # "autoReset"
    <2>1. SameCount(a) /\ Heirs(a)
      BY <1>3, HeirsStep
    <2> QED BY <1>1, <1>2, <2>1, RoomKept, WithinKept
  <1>4. ASSUME NEW c \in DOMAIN calls, Finishes(c, "success"),
               calls[c].agr = a, calls[c].lane # "autoReset"
        PROVE  Room(usage', calls', a) /\ Within(usage', now', a)
    <2> DEFINE row == UsageOf(calls[c], "success")
    <2>1. row \in UsageRow /\ row.start = calls[c].start /\ usage' = Append(usage, row)
      <3>1. calls[c] \in Call
        BY DEF Base, TypeOK
      <3> QED BY <1>4, <3>1, UsageOfTyped DEF Finishes
    <2>2. Room(usage', calls', a)
      BY <1>1, <1>4, WithoutCounted DEF Alone, Room, Finishes
    <2>3. Cardinality(Where(usage, RecentRows(a, row.start))) < TermsOf[a].quota
      BY <1>1, <1>4, <2>1 DEF Room
    <2>4. Within(usage', now, a)
      <3> HIDE DEF row
      <3> QED BY <1>1, <2>1, <2>3, DeliveryFits
    <2>5. CASE now' = now
      BY <2>2, <2>4, <2>5
    <2>6. CASE UNCHANGED usage
      <3>1. usage \in Seq(UsageRow)
        BY DEF Base, TypeOK
      <3>2. Len(Append(usage, row)) = Len(usage) + 1 /\ Len(usage) \in Nat
        BY <2>1, <3>1
      <3> QED BY <2>1, <2>6, <3>2
    <2> QED BY <1>2, <2>5, <2>6
  <1> QED BY <1>3, <1>4

----------------------------------------------------------------------------
(* The invariant *)

Inv == /\ Base
       /\ \A a \in Agreements : Balanced(usage, calls, pending, a)
       /\ \A a \in Agreements \ raced : Serial(a)

LEMMA InvInit == Init => Inv
  <1> SUFFICES ASSUME Init PROVE Inv
    OBVIOUS
  <1>1. Base
    BY BaseInit
  <1>2. DOMAIN calls = {} /\ DOMAIN usage = {} /\ pending = [a \in Agreements |-> None]
    BY DEF Init
  <1>3. \A T : Cardinality(Where(calls, T)) = 0 /\ Cardinality(Where(usage, T)) = 0
    <2>1. \A T : Where(calls, T) = {} /\ Where(usage, T) = {}
      BY <1>2 DEF Where
    <2> QED BY <2>1, FS_EmptySet
  <1>4. \A a \in Agreements : Balanced(usage, calls, pending, a)
    BY <1>2, <1>3 DEF Balanced, Armed
  <1>5. ASSUME NEW a \in Agreements PROVE Serial(a)
    <2>1. Alone(calls, a) /\ Room(usage, calls, a)
      BY <1>2 DEF Alone, Room
    <2>2. Limited(a) => Within(usage, now, a)
      <3>1. Limited(a) => \A w \in 0..now : 0 <= TermsOf[a].quota
        BY TermsTyped
      <3> QED BY <1>3, <3>1 DEF Within
    <2> QED BY <2>1, <2>2 DEF Serial
  <1> QED BY <1>1, <1>4, <1>5 DEF Inv

LEMMA InvStep == Inv /\ [Next]_vars => Inv'
  <1> SUFFICES ASSUME Inv, [Next]_vars PROVE Inv'
    OBVIOUS
  <1>1. Base /\ Base'
    BY BaseStep DEF Inv
  <1>2. CASE Next
    <2>1. Effect /\ RecordRace
      BY <1>1, <1>2, NextEffect DEF Next
    <2>2. \A a \in Agreements : Balanced(usage', calls', pending', a)
      BY <1>1, <2>1, BalanceStep DEF Inv
    <2>3. ASSUME NEW a \in Agreements \ raced' PROVE Serial(a)'
      <3>1. a \notin raced
        BY <2>1, <2>3 DEF RecordRace
      <3>2. Alone(calls', a)
        BY <1>1, <2>1, <2>3, NotRacedAlone DEF Base
      <3> QED BY <1>1, <2>1, <3>1, <3>2, SerialStep DEF Inv
    <2> QED BY <1>1, <2>2, <2>3 DEF Inv
  <1>3. CASE UNCHANGED vars
    <2>1. /\ usage' = usage /\ calls' = calls /\ pending' = pending /\ now' = now
          /\ raced' = raced
      BY <1>3 DEF vars
    <2>2. \A a \in Agreements : Balanced(usage', calls', pending', a)
      BY <2>1 DEF Inv
    <2>3. ASSUME NEW a \in Agreements \ raced' PROVE Serial(a)'
      BY <2>1 DEF Inv, Serial, Limited
    <2> QED BY <1>1, <2>2, <2>3 DEF Inv
  <1> QED BY <1>2, <1>3

LEMMA InvHolds == Spec => []Inv
  BY InvInit, InvStep, PTL DEF Spec

\* Type correctness of the consumption lane: rows, calls in flight, usage rows,
\* armed resets and evaluations keep their shape (executeAgreementInvocation and
\* the trigger executor's maps).
THEOREM TypesHold == Spec => []TypeOK
  <1>1. Inv => TypeOK
    BY DEF Inv, Base
  <1> QED BY <1>1, InvHolds, PTL

\* There are never more resets, delivered, failed or in flight, than trigger
\* deliveries that armed them, whichever of fireReset's callers takes the arm.
THEOREM ResetsFollowTriggersHolds == Spec => []ResetsFollowTriggers
  <1>1. Inv => ResetsFollowTriggers
    BY BalanceMeans DEF Inv
  <1> QED BY <1>1, InvHolds, PTL

\* Whoever consumes one act at a time never gets more than its quota into one
\* window (consumptionQuotaStatus read before the awaits, the row written after).
THEOREM SerialQuotaHolds == Spec => []SerialQuota
  <1>1. Inv => SerialQuota
    BY SerialMeans DEF Inv
  <1> QED BY <1>1, InvHolds, PTL
=============================================================================
