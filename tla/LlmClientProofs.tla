-------------------------- MODULE LlmClientProofs --------------------------
(***************************************************************************)
(* The probe slot of the circuit breaker is never kept by nobody, and no   *)
(* slot or waiter of a queue is lost, for every number of requests, lanes, *)
(* limits and thresholds.                                                  *)
(***************************************************************************)
EXTENDS LlmClient, FiniteSetTheorems, WellFoundedInduction, TLAPS

\* What the argument needs besides the property: the shape of the breaker and of
\* the requests.  The queues and the limits play no part in it.
ProbeInv ==
    /\ breaker \in Breakers
    /\ call \in [Calls -> Requests]
    /\ NoWedge

\* Whatever the breaker records of an answer, it keeps the probe slot taken only
\* if it was taken before and the request that holds it is another one.
LEMMA RecordedReleases ==
    ASSUME NEW b \in Breakers, NEW o \in Outcomes,
           b.probing => b.state = "half-open"
    PROVE  /\ Recorded(b, o) \in Breakers
           /\ ~Recorded(b, o).probing
  <1> USE LlmAssumption
  <1>1. CASE o = "ok"
    BY <1>1 DEF Recorded, Closed, Breakers
  <1>2. CASE o \in {"transient", "rateLimited"}
    BY <1>2 DEF Recorded, Failed, Opened, Breakers
  <1>3. CASE o = "abort"
    BY <1>3 DEF Recorded, Released, Breakers
  <1>4. CASE o = "permanent"
    BY <1>4 DEF Recorded, Closed, Breakers
  <1> QED BY <1>1, <1>2, <1>3, <1>4 DEF Outcomes

\* Giving the slot back keeps the shape and leaves the slot free in half-open.
LEMMA ReleasedFrees ==
    ASSUME NEW b \in Breakers, b.probing => b.state = "half-open"
    PROVE  Released(b) \in Breakers /\ ~Released(b).probing
  BY DEF Released, Breakers

\* The guard takes the slot for the request it lets pass.
LEMMA GuardedShape ==
    ASSUME breaker \in Breakers, breaker.probing => breaker.state = "half-open"
    PROVE  /\ Guarded \in Breakers
           /\ Guarded.probing => Guarded.state = "half-open"
           /\ Guarded.probing /\ ~breaker.probing => Probes
  BY DEF Guarded, Probes, Breakers

\* Every step keeps the invariant; an answer always leaves the slot free.
LEMMA ProbeInvStep == ProbeInv /\ [Next]_vars => ProbeInv'
  <1> SUFFICES ASSUME ProbeInv, [Next]_vars PROVE ProbeInv'
    OBVIOUS
  <1> USE LlmAssumption DEF ProbeInv
  <1>0. breaker.probing => breaker.state = "half-open"
    BY DEF NoWedge
  <1>1. ASSUME NEW c \in Calls, Dispatch(c) PROVE ProbeInv'
    <2>1. /\ breaker' = Guarded /\ call' = Start(c) /\ call[c].phase = "idle"
      BY <1>1 DEF Dispatch
    <2>2. call' \in [Calls -> Requests]
      BY <2>1 DEF Start, Requests, Probes
    <2>3. \A d \in Calls : call[d].phase # "idle" => call'[d] = call[d]
      BY <2>1 DEF Start
    <2>4. Probes => call'[c].probe /\ call'[c].phase # "idle"
      BY <2>1 DEF Start
    <2> QED BY <1>0, <2>1, <2>2, <2>3, <2>4, GuardedShape DEF NoWedge
  <1>2. ASSUME NEW c \in Calls, Wait(c) PROVE ProbeInv'
    <2>1. /\ breaker' = Guarded /\ call' = Enqueue(c) /\ call[c].phase = "idle"
      BY <1>2 DEF Wait
    <2>2. call' \in [Calls -> Requests]
      BY <2>1 DEF Enqueue, Requests, Probes
    <2>3. \A d \in Calls : call[d].phase # "idle" => call'[d] = call[d]
      BY <2>1 DEF Enqueue
    <2>4. Probes => call'[c].probe /\ call'[c].phase # "idle"
      BY <2>1 DEF Enqueue
    <2> QED BY <1>0, <2>1, <2>2, <2>3, <2>4, GuardedShape DEF NoWedge
  <1>3. ASSUME NEW c \in Calls, ChatAborted(c) PROVE ProbeInv'
    <2>1. /\ breaker' = Released(Guarded) /\ call' = call
      BY <1>3 DEF ChatAborted
    <2>2. Released(Guarded) \in Breakers /\ ~Released(Guarded).probing
      BY <1>0, GuardedShape, ReleasedFrees
    <2> QED BY <2>1, <2>2 DEF NoWedge
  <1>4. ASSUME NEW c \in Calls, Abort(c) PROVE ProbeInv'
    <2>1. /\ breaker' = breaker /\ call' = [call EXCEPT ![c].aborted = TRUE]
      BY <1>4 DEF Abort
    <2>2. call' \in [Calls -> Requests]
      BY <2>1 DEF Requests
    <2>3. \A d \in Calls : call'[d].phase = call[d].phase /\ call'[d].probe = call[d].probe
      BY <2>1 DEF Requests
    <2> QED BY <2>1, <2>2, <2>3 DEF NoWedge
  <1>5. ASSUME NEW c \in Calls, NEW o \in Outcomes, Finish(c, o) PROVE ProbeInv'
    <2>1. /\ Recorded(breaker, o) \in Breakers
          /\ ~Recorded(breaker, o).probing
      BY <1>0, RecordedReleases
    <2>2. /\ Released(Recorded(breaker, o)) \in Breakers
          /\ ~Released(Recorded(breaker, o)).probing
      BY <2>1, ReleasedFrees
    <2>3. breaker' \in {Recorded(breaker, o), Released(Recorded(breaker, o))}
      BY <1>5 DEF Finish
    <2>4. PICK left : call' = [d \in Calls |->
               IF d = c \/ (d \in left /\ call[d].aborted) THEN Free
               ELSE IF d \in left THEN [call[d] EXCEPT !.phase = "running"] ELSE call[d]]
      BY <1>5 DEF Finish
    <2>5. call' \in [Calls -> Requests]
      BY <2>4 DEF Free, Requests
    <2> QED BY <2>1, <2>2, <2>3, <2>5 DEF NoWedge
  <1>6. ASSUME Tick PROVE ProbeInv'
    <2>1. breaker' \in Breakers /\ breaker'.probing = breaker.probing
          /\ breaker'.state = breaker.state /\ call' = call
      BY <1>6 DEF Tick, Breakers
    <2> QED BY <2>1 DEF NoWedge
  <1>7. ASSUME Revive PROVE ProbeInv'
    BY <1>7 DEF Revive, NoWedge
  <1>8. CASE UNCHANGED vars
    BY <1>8 DEF vars, NoWedge
  <1> QED BY <1>1, <1>2, <1>3, <1>4, <1>5, <1>6, <1>7, <1>8 DEF Next

\* While the breaker refuses requests because of a probe there is one under way.
THEOREM NoWedgeHolds == Spec => []NoWedge
  <1>1. Init => ProbeInv
    BY LlmAssumption DEF Init, ProbeInv, NoWedge, Closed, Breakers, Free, Requests
  <1>2. ProbeInv => NoWedge
    BY DEF ProbeInv
  <1> QED BY <1>1, <1>2, ProbeInvStep, PTL DEF Spec

----------------------------------------------------------------------------
(* Queues *)

LaneStates == [queue : Seq(Calls), active : Int, max : MinLimit..MaxLimit]

\* The least of a set of numbers.
LEMMA LeastOf ==
    ASSUME NEW D \in SUBSET Nat, D # {}
    PROVE  \E n \in D : \A m \in D : n <= m
  <1>1. PICK n \in D : \A m \in D : <<m, n>> \notin OpToRel(<, Nat)
    BY NatLessThanWellFounded, WFMin
  <1>2. \A m \in D : ~(m < n)
    BY <1>1 DEF OpToRel
  <1> QED BY <1>2

\* The first request that was not given up: where processNext stops.
LEMMA GaveUpMeans ==
    ASSUME NEW q \in Seq(Calls)
    PROVE  /\ GaveUp(q) \in 0..Len(q)
           /\ \A j \in 1..GaveUp(q) : call[q[j]].aborted
           /\ GaveUp(q) < Len(q) => ~call[q[GaveUp(q) + 1]].aborted
  <1> DEFINE S == {i \in 0..Len(q) : \A j \in 1..i : call[q[j]].aborted}
             D == {i \in 1..Len(q) : ~call[q[i]].aborted}
  <1>0. Len(q) \in Nat
    OBVIOUS
  <1>1. \E k \in S : /\ \A i \in S : k >= i
                     /\ k < Len(q) => ~call[q[k + 1]].aborted
    <2>1. CASE D = {}
      <3>1. Len(q) \in S /\ \A i \in S : Len(q) >= i
        BY <1>0, <2>1
      <3> QED BY <1>0, <3>1
    <2>2. CASE D # {}
      <3>1. D \in SUBSET Nat
        BY <1>0
      <3>2. PICK n \in D : \A m \in D : n <= m
        BY <2>2, <3>1, LeastOf
      <3>3. n - 1 \in 0..Len(q) /\ \A j \in 1..(n - 1) : call[q[j]].aborted
        BY <1>0, <3>2
      <3>4. \A i \in S : n - 1 >= i
        BY <1>0, <3>2
      <3>5. n - 1 \in S /\ ~call[q[(n - 1) + 1]].aborted
        BY <1>0, <3>2, <3>3
      <3> QED BY <3>4, <3>5
    <2> QED BY <2>1, <2>2
  <1>2. GaveUp(q) = CHOOSE k \in S : \A i \in S : k >= i
    BY DEF GaveUp, Max
  <1>3. PICK k \in S : /\ \A i \in S : k >= i
                       /\ k < Len(q) => ~call[q[k + 1]].aborted
    BY <1>1
  <1>4. GaveUp(q) \in S /\ \A i \in S : GaveUp(q) >= i
    BY <1>2, <1>3
  <1>5. GaveUp(q) = k
    BY <1>0, <1>3, <1>4
  <1> QED BY <1>3, <1>5

\* Who starts when the queue q shrinks to r.
Started(q, r) == {d \in ToSet(q) \ ToSet(r) : ~call[d].aborted}

LEMMA AdmitEffect ==
    ASSUME NEW ln \in LaneStates, ln.active >= 0, IsInjective(ln.queue)
    PROVE  /\ Admit(ln) \in LaneStates /\ Admit(ln).max = ln.max
           /\ IsInjective(Admit(ln).queue)
           /\ ToSet(Admit(ln).queue) \subseteq ToSet(ln.queue)
           /\ Admit(ln).queue # <<>> => Admit(ln).active > 0
           /\ \/ Started(ln.queue, Admit(ln).queue) = {} /\ Admit(ln).active = ln.active
              \/ \E d : /\ Started(ln.queue, Admit(ln).queue) = {d}
                       /\ Admit(ln).active = ln.active + 1
  <1> USE LlmAssumption DEF Started
  <1> DEFINE q == ln.queue
             k == GaveUp(q)
             out == Admit(ln)
             gone == ToSet(q) \ ToSet(out.queue)
             started == {d \in gone : ~call[d].aborted}
  <1>1. q \in Seq(Calls) /\ Len(q) \in Nat /\ ln.active \in Int /\ ln.max \in Int /\ ln.max > 0
        /\ MinLimit \in Int /\ MaxLimit \in Int
    BY DEF LaneStates
  <1>2. CASE q = <<>> \/ ln.active >= ln.max
    <2>1. out = ln
      BY <1>2 DEF Admit
    <2> QED BY <1>1, <1>2, <2>1
  <1>3. CASE q # <<>> /\ ~(ln.active >= ln.max)
    <2>1. /\ k \in 0..Len(q) /\ \A j \in 1..k : call[q[j]].aborted
          /\ k < Len(q) => ~call[q[k + 1]].aborted
      BY <1>1, GaveUpMeans
    <2>2. out = [ln EXCEPT !.queue = SubSeq(q, k + 2, Len(q)),
                           !.active = IF k < Len(q) THEN ln.active + 1 ELSE ln.active]
      BY <1>3 DEF Admit
    <2>0. gone = ToSet(q) \ ToSet(out.queue)
      OBVIOUS
    <2> HIDE DEF k, out
    <2>3. /\ out.queue = SubSeq(q, k + 2, Len(q)) /\ out.max = ln.max
          /\ out.active = IF k < Len(q) THEN ln.active + 1 ELSE ln.active
      BY <2>2 DEF LaneStates
    <2>4. /\ SubSeq(q, k + 2, Len(q)) \in Seq(Calls)
          /\ k < Len(q) => Len(SubSeq(q, k + 2, Len(q))) = Len(q) - (k + 1)
          /\ k = Len(q) => Len(SubSeq(q, k + 2, Len(q))) = 0
          /\ \A i \in 1..(Len(q) - (k + 1)) : SubSeq(q, k + 2, Len(q))[i] = q[i + (k + 1)]
      BY <1>1, <2>1
    <2>5. /\ out.queue \in Seq(Calls)
          /\ k < Len(q) => Len(out.queue) = Len(q) - (k + 1)
          /\ k = Len(q) => Len(out.queue) = 0
          /\ \A i \in 1..(Len(q) - (k + 1)) : out.queue[i] = q[i + (k + 1)]
      BY <2>3, <2>4
    <2>6. out \in LaneStates
      <3> DEFINE r == SubSeq(q, k + 2, Len(q))
                 a == IF k < Len(q) THEN ln.active + 1 ELSE ln.active
      <3>1. r \in Seq(Calls) /\ a \in Int
        BY <1>1, <2>1, <2>4
      <3>2. out = [ln EXCEPT !.queue = r, !.active = a]
        BY <2>2
      <3> HIDE DEF r, a
      <3> QED BY <3>1, <3>2 DEF LaneStates
    <2>7. DOMAIN q = 1..Len(q) /\ DOMAIN out.queue = 1..Len(out.queue)
      BY <1>1, <2>5
    <2> HIDE DEF q
    <2>12. \A i \in 1..Len(out.queue) : /\ i + (k + 1) \in 1..Len(q) /\ i + (k + 1) > k + 1
                                        /\ out.queue[i] = q[i + (k + 1)]
      <3>1. CASE k = Len(q)
        BY <1>1, <2>1, <2>5, <3>1
      <3>2. CASE k < Len(q)
        BY <1>1, <2>1, <2>5, <3>2
      <3> QED BY <1>1, <2>1, <3>1, <3>2
    <2>13. \A i, j \in 1..Len(q) : q[i] = q[j] => i = j
      BY <2>7 DEF q, IsInjective
    <2>14. k \in Int /\ Len(out.queue) \in Nat
      BY <1>1, <2>1, <2>5
    <2>8. IsInjective(out.queue)
      <3> SUFFICES ASSUME NEW i \in 1..Len(out.queue), NEW j \in 1..Len(out.queue),
                          out.queue[i] = out.queue[j]
          PROVE  i = j
        BY <2>7 DEF IsInjective
      <3>1. i + (k + 1) = j + (k + 1)
        BY <2>12, <2>13
      <3> QED BY <2>14, <3>1
    <2>9. ToSet(out.queue) \subseteq ToSet(q)
      BY <2>7, <2>12 DEF ToSet
    <2>10. CASE k = Len(q)
      <3>1. out.queue = <<>> /\ out.active = ln.active
        BY <1>1, <2>3, <2>5, <2>10
      <3>2. \A d \in gone : call[d].aborted
        BY <2>0, <2>1, <2>7, <2>10 DEF ToSet
      <3>3. started = {}
        BY <3>2
      <3> QED BY <2>6, <2>8, <2>9, <2>3, <3>1, <3>3 DEF out, q
    <2>11. CASE k < Len(q)
      <3> DEFINE d == q[k + 1]
      <3>1. out.active = ln.active + 1 /\ out.active > 0
        BY <1>1, <2>3, <2>11
      <3>2. d \in ToSet(q) /\ ~call[d].aborted
        BY <1>1, <2>1, <2>7, <2>11 DEF ToSet
      <3>3. d \notin ToSet(out.queue)
        <4> SUFFICES ASSUME NEW i \in 1..Len(out.queue), out.queue[i] = d PROVE FALSE
          BY <2>7 DEF ToSet
        <4>1. k + 1 \in 1..Len(q) /\ q[i + (k + 1)] = q[k + 1]
          BY <1>1, <2>1, <2>11, <2>12
        <4>2. i + (k + 1) = k + 1
          BY <2>12, <2>13, <4>1
        <4> QED BY <2>12, <2>14, <4>2
      <3>4. ASSUME NEW e \in gone, ~call[e].aborted PROVE e = d
        <4>1. PICK i \in 1..Len(q) : e = q[i]
          BY <2>0, <2>7 DEF ToSet
        <4>2. i > k
          BY <1>1, <2>1, <3>4, <4>1
        <4>3. i > k + 1 => e \in ToSet(out.queue)
          <5> SUFFICES ASSUME i > k + 1 PROVE e \in ToSet(out.queue)
            OBVIOUS
          <5>1. i - (k + 1) \in 1..(Len(q) - (k + 1)) /\ (i - (k + 1)) + (k + 1) = i
            BY <1>1, <2>1
          <5>2. out.queue[i - (k + 1)] = e
            BY <2>5, <4>1, <5>1
          <5> QED BY <2>5, <2>7, <2>11, <5>1, <5>2 DEF ToSet
        <4>4. e \notin ToSet(out.queue)
          BY <2>0
        <4> QED BY <1>1, <2>1, <4>1, <4>2, <4>3, <4>4
      <3>5. d \in gone
        BY <2>0, <3>2, <3>3
      <3>6. started = {d}
        BY <3>2, <3>4, <3>5
      <3> QED BY <2>3, <2>6, <2>8, <2>9, <3>1, <3>6 DEF out, q
    <2>15. k = Len(q) \/ k < Len(q)
      BY <1>1, <2>1
    <2> QED BY <2>10, <2>11, <2>15
  <1> QED BY <1>2, <1>3

----------------------------------------------------------------------------
(* Slots *)

\* What is accounted for in one lane; the count is of a finite set.
LaneOK(l) ==
    /\ IsFiniteSet(Running(l))
    /\ lane[l].active = Cardinality(Running(l))
    /\ ToSet(lane[l].queue) = {c \in Calls : LaneOf[c] = l /\ call[c].phase = "queued"}
    /\ IsInjective(lane[l].queue)
    /\ lane[l].queue # <<>> => lane[l].active > 0

SlotsInv == TypeOK /\ NoWedge /\ \A l \in Lanes : LaneOK(l)

LEMMA SameLane ==
    ASSUME NEW l \in Lanes, LaneOK(l), lane'[l] = lane[l],
           \A c \in Calls : LaneOf[c] = l => call'[c].phase = call[c].phase
    PROVE  LaneOK(l)'
  <1>1. Running(l)' = Running(l)
    BY DEF Running
  <1>2. {c \in Calls : LaneOf[c] = l /\ call'[c].phase = "queued"}
        = {c \in Calls : LaneOf[c] = l /\ call[c].phase = "queued"}
    OBVIOUS
  <1> QED BY <1>1, <1>2 DEF LaneOK

\* Requests that were running and those that start are counted alike.
LEMMA CountStarted ==
    ASSUME NEW R, IsFiniteSet(R), NEW S, R \cap S = {}, NEW n \in Int, n = Cardinality(R),
           NEW m, \/ S = {} /\ m = n
                  \/ \E d : S = {d} /\ m = n + 1
    PROVE  IsFiniteSet(R \cup S) /\ m = Cardinality(R \cup S)
  <1>1. CASE S = {} /\ m = n
    <2>1. R \cup S = R
      BY <1>1
    <2> QED BY <1>1, <2>1
  <1>2. CASE \E d : S = {d} /\ m = n + 1
    <2>1. PICK d : S = {d} /\ m = n + 1
      BY <1>2
    <2>2. d \notin R
      BY <2>1
    <2>3. IsFiniteSet(R \cup {d}) /\ Cardinality(R \cup {d}) = Cardinality(R) + 1
      BY <2>2, FS_AddElement
    <2> QED BY <2>1, <2>3
  <1> QED BY <1>1, <1>2

LEMMA DispatchStep ==
    ASSUME SlotsInv, NEW c \in Calls, Dispatch(c)
    PROVE  /\ lane' \in [Lanes -> LaneStates]
           /\ \A l \in Lanes \ Adaptive : lane'[l].max = MinLimit
           /\ \A l \in Lanes : LaneOK(l)'
  <1> DEFINE l == LaneOf[c]
  <1>1. /\ l \in Lanes /\ call \in [Calls -> Requests] /\ lane \in [Lanes -> LaneStates]
        /\ lane[l] \in LaneStates
    BY LlmAssumption DEF SlotsInv, TypeOK, LaneStates
  <1>2. /\ call[c].phase = "idle" /\ lane' = [lane EXCEPT ![l].active = @ + 1]
        /\ call' = Start(c)
    BY DEF Dispatch
  <1>3. call'[c].phase = "running" /\ \A d \in Calls : d # c => call'[d] = call[d]
    BY <1>1, <1>2 DEF Start
  <1>4. /\ lane' \in [Lanes -> LaneStates] /\ \A m \in Lanes : m # l => lane'[m] = lane[m]
        /\ lane'[l].queue = lane[l].queue /\ lane'[l].active = lane[l].active + 1
        /\ lane'[l].max = lane[l].max
    <2> HIDE DEF l
    <2>1. lane[l].active + 1 \in Int
      BY <1>1 DEF LaneStates
    <2>2. lane' = [lane EXCEPT ![l] = [lane[l] EXCEPT !.active = lane[l].active + 1]]
      BY <1>1, <1>2
    <2>3. [lane[l] EXCEPT !.active = lane[l].active + 1] \in LaneStates
      BY <1>1, <2>1 DEF LaneStates
    <2> QED BY <1>1, <2>1, <2>2, <2>3 DEF LaneStates
  <1>5. ASSUME NEW m \in Lanes, m # l PROVE LaneOK(m)'
    <2>1. LaneOK(m) /\ lane'[m] = lane[m]
      BY <1>4, <1>5 DEF SlotsInv
    <2>2. \A d \in Calls : LaneOf[d] = m => call'[d].phase = call[d].phase
      BY <1>3, <1>5
    <2> QED BY <2>1, <2>2, SameLane
  <1>6. LaneOK(l)'
    <2>1. LaneOK(l)
      BY <1>1 DEF SlotsInv
    <2>2. Running(l)' = Running(l) \cup {c} /\ c \notin Running(l)
      BY <1>2, <1>3 DEF Running
    <2>3. /\ IsFiniteSet(Running(l) \cup {c})
          /\ Cardinality(Running(l) \cup {c}) = Cardinality(Running(l)) + 1
      BY <2>1, <2>2, FS_AddElement DEF LaneOK
    <2>4. {d \in Calls : LaneOf[d] = l /\ call'[d].phase = "queued"}
          = {d \in Calls : LaneOf[d] = l /\ call[d].phase = "queued"}
      BY <1>2, <1>3
    <2>5. lane[l].active \in Nat
      BY <2>1, FS_CardinalityType DEF LaneOK
    <2> QED BY <1>4, <2>1, <2>2, <2>3, <2>4, <2>5 DEF LaneOK
  <1>7. \A m \in Lanes \ Adaptive : lane'[m].max = MinLimit
    BY <1>4 DEF SlotsInv, TypeOK
  <1> QED BY <1>4, <1>5, <1>6, <1>7

LEMMA WaitStep ==
    ASSUME SlotsInv, NEW c \in Calls, Wait(c)
    PROVE  /\ lane' \in [Lanes -> LaneStates]
           /\ \A l \in Lanes \ Adaptive : lane'[l].max = MinLimit
           /\ \A l \in Lanes : LaneOK(l)'
  <1> DEFINE l == LaneOf[c]
             q == lane[l].queue
  <1>1. /\ l \in Lanes /\ call \in [Calls -> Requests] /\ lane \in [Lanes -> LaneStates]
        /\ lane[l] \in LaneStates /\ q \in Seq(Calls)
    BY LlmAssumption DEF SlotsInv, TypeOK, LaneStates
  <1>2. /\ call[c].phase = "idle" /\ lane' = [lane EXCEPT ![l].queue = Append(q, c)]
        /\ call' = Enqueue(c) /\ lane[l].active >= lane[l].max
    BY DEF Wait
  <1>3. call'[c].phase = "queued" /\ \A d \in Calls : d # c => call'[d] = call[d]
    BY <1>1, <1>2 DEF Enqueue
  <1>4. /\ lane' \in [Lanes -> LaneStates] /\ \A m \in Lanes : m # l => lane'[m] = lane[m]
        /\ lane'[l].queue = Append(q, c) /\ lane'[l].active = lane[l].active
        /\ lane'[l].max = lane[l].max
    <2>1. Append(q, c) \in Seq(Calls)
      BY <1>1
    <2> HIDE DEF q
    <2> QED BY <1>1, <1>2, <2>1 DEF LaneStates
  <1>5. ASSUME NEW m \in Lanes, m # l PROVE LaneOK(m)'
    <2>1. LaneOK(m) /\ lane'[m] = lane[m]
      BY <1>4, <1>5 DEF SlotsInv
    <2>2. \A d \in Calls : LaneOf[d] = m => call'[d].phase = call[d].phase
      BY <1>3, <1>5
    <2> QED BY <2>1, <2>2, SameLane
  <1>6. LaneOK(l)'
    <2>1. LaneOK(l)
      BY <1>1 DEF SlotsInv
    <2>2. Running(l)' = Running(l)
      BY <1>2, <1>3 DEF Running
    <2>3. c \notin ToSet(q)
      BY <1>2, <2>1 DEF LaneOK
    <2> HIDE DEF q
    <2>4. /\ DOMAIN q = 1..Len(q) /\ Len(q) \in Nat
          /\ DOMAIN Append(q, c) = 1..(Len(q) + 1)
          /\ \A i \in 1..Len(q) : Append(q, c)[i] = q[i] /\ q[i] # c
          /\ Append(q, c)[Len(q) + 1] = c
      BY <1>1, <2>3 DEF ToSet
    <2>5. ToSet(Append(q, c)) = ToSet(q) \cup {c}
      <3>1. \A i \in 1..(Len(q) + 1) : i \in 1..Len(q) \/ i = Len(q) + 1
        BY <2>4
      <3>2. 1..Len(q) \subseteq 1..(Len(q) + 1) /\ Len(q) + 1 \in 1..(Len(q) + 1)
        BY <2>4
      <3> QED BY <2>4, <3>1, <3>2 DEF ToSet
    <2>6. IsInjective(Append(q, c))
      <3>1. \A i, j \in 1..Len(q) : q[i] = q[j] => i = j
        BY <2>1, <2>4 DEF LaneOK, IsInjective, q
      <3> SUFFICES ASSUME NEW i \in 1..(Len(q) + 1), NEW j \in 1..(Len(q) + 1),
                          Append(q, c)[i] = Append(q, c)[j]
          PROVE  i = j
        BY <2>4 DEF IsInjective
      <3>2. (i \in 1..Len(q) \/ i = Len(q) + 1) /\ (j \in 1..Len(q) \/ j = Len(q) + 1)
        BY <2>4
      <3> QED BY <2>4, <3>1, <3>2
    <2>7. ToSet(Append(q, c)) = {d \in Calls : LaneOf[d] = l /\ call'[d].phase = "queued"}
      BY <1>3, <2>1, <2>5 DEF LaneOK, q
    <2>8. lane[l].active > 0
      BY <1>1, <1>2, LlmAssumption DEF LaneStates
    <2> QED BY <1>4, <2>1, <2>2, <2>6, <2>7, <2>8 DEF LaneOK
  <1>7. \A m \in Lanes \ Adaptive : lane'[m].max = MinLimit
    BY <1>4 DEF SlotsInv, TypeOK
  <1> QED BY <1>4, <1>5, <1>6, <1>7

----------------------------------------------------------------------------
(* Completions *)

Controllers == [window : Seq(BOOLEAN), waited : {Null} \cup 0..ScaleUpWait,
                sinceAdjust : 0..AdjustInterval]

LEMMA AdjustedShape ==
    ASSUME NEW a \in Controllers, NEW limit \in MinLimit..MaxLimit, NEW o
    PROVE  Adjusted(a, limit, o).aimd \in Controllers /\ Adjusted(a, limit, o).limit \in MinLimit..MaxLimit
  <1> USE LlmAssumption
  <1>1. /\ Downshift(limit) \in MinLimit..MaxLimit /\ Upshift(limit) \in MinLimit..MaxLimit
    <2>1. limit \div 2 \in Int /\ limit \div 2 <= limit
      OBVIOUS
    <2> QED BY <2>1 DEF Downshift, Upshift
  <1>2. /\ [a EXCEPT !.sinceAdjust = 0, !.waited = Null] \in Controllers
        /\ [a EXCEPT !.sinceAdjust = 0, !.waited = 0] \in Controllers
    <2>1. 0 \in 0..AdjustInterval /\ 0 \in 0..ScaleUpWait
      OBVIOUS
    <2> QED BY <2>1 DEF Controllers
  <1> QED BY <1>1, <1>2 DEF Adjusted

LEMMA ObserveShape ==
    ASSUME NEW a \in Controllers, NEW depth
    PROVE  ObserveQueue(a, depth) \in Controllers
  BY LlmAssumption DEF ObserveQueue, Controllers

LEMMA TailOfSeq ==
    ASSUME NEW S, NEW s \in Seq(S), s # <<>>
    PROVE  Tail(s) \in Seq(S)
  OBVIOUS

LEMMA AppendToSeq ==
    ASSUME NEW S, NEW s \in Seq(S), NEW e \in S
    PROVE  Append(s, e) \in Seq(S)
  OBVIOUS

LEMMA WindowShape ==
    ASSUME NEW a \in Controllers, NEW ok \in BOOLEAN
    PROVE  [a EXCEPT !.window = Windowed(@, ok)] \in Controllers
  <1>1. a.window \in Seq(BOOLEAN)
    BY DEF Controllers
  <1>2. Windowed(a.window, ok) \in Seq(BOOLEAN)
    <2>1. CASE Len(a.window) = WindowSize
      <3>1. a.window # <<>>
        BY <1>1, <2>1, LlmAssumption
      <3>2. Tail(a.window) \in Seq(BOOLEAN)
        BY <1>1, <3>1, TailOfSeq
      <3>3. Append(Tail(a.window), ok) \in Seq(BOOLEAN)
        BY <3>2, AppendToSeq
      <3> QED BY <2>1, <3>3 DEF Windowed
    <2>2. CASE Len(a.window) # WindowSize
      BY <1>1, <2>2, AppendToSeq DEF Windowed
    <2> QED BY <2>1, <2>2
  <1> QED BY <1>2 DEF Controllers

\* The limit changes before the queue is admitted, if it changes.
LEMMA ResizedEffect ==
    ASSUME NEW ln \in LaneStates, ln.active >= 0, IsInjective(ln.queue),
           NEW limit \in MinLimit..MaxLimit
    PROVE  /\ Resized(ln, limit) \in LaneStates /\ Resized(ln, limit).max = limit
           /\ IsInjective(Resized(ln, limit).queue)
           /\ ToSet(Resized(ln, limit).queue) \subseteq ToSet(ln.queue)
           /\ \/ /\ Started(ln.queue, Resized(ln, limit).queue) = {}
                 /\ Resized(ln, limit).active = ln.active
              \/ \E d : /\ Started(ln.queue, Resized(ln, limit).queue) = {d}
                       /\ Resized(ln, limit).active = ln.active + 1
  <1>1. CASE limit = ln.max
    <2>1. Resized(ln, limit) = ln
      BY <1>1 DEF Resized
    <2>2. Started(ln.queue, ln.queue) = {}
      BY DEF Started
    <2> QED BY <1>1, <2>1, <2>2
  <1>2. CASE limit # ln.max
    <2> DEFINE r == [ln EXCEPT !.max = limit]
    <2>1. r \in LaneStates /\ r.active = ln.active /\ r.queue = ln.queue /\ r.max = limit
      BY DEF LaneStates
    <2>2. Resized(ln, limit) = Admit(r)
      BY <1>2 DEF Resized
    <2> HIDE DEF r
    <2>3. /\ Admit(r) \in LaneStates /\ Admit(r).max = r.max
          /\ IsInjective(Admit(r).queue) /\ ToSet(Admit(r).queue) \subseteq ToSet(r.queue)
          /\ \/ Started(r.queue, Admit(r).queue) = {} /\ Admit(r).active = r.active
             \/ \E d : /\ Started(r.queue, Admit(r).queue) = {d}
                      /\ Admit(r).active = r.active + 1
      BY <2>1, AdmitEffect
    <2> QED BY <2>1, <2>2, <2>3
  <1> QED BY <1>1, <1>2

\* The end of a request: who leaves the queue starts or is refused.
Ends(c, o, adj, ln, left) ==
    /\ lane' = [lane EXCEPT ![LaneOf[c]] = ln]
    /\ aimd' = [l \in Adaptive |-> IF l = LaneOf[c] THEN adj.aimd ELSE aimd[l]]
    /\ call' = [d \in Calls |->
          IF d = c \/ (d \in left /\ call[d].aborted) THEN Free
          ELSE IF d \in left THEN [call[d] EXCEPT !.phase = "running"] ELSE call[d]]
    /\ breaker' = IF \E d \in left : call[d].aborted THEN Released(Recorded(breaker, o))
                  ELSE Recorded(breaker, o)

LEMMA FinishStep ==
    ASSUME SlotsInv, NEW c \in Calls, NEW o \in Outcomes, Finish(c, o)
    PROVE  /\ lane' \in [Lanes -> LaneStates]
           /\ \A l \in Lanes \ Adaptive : lane'[l].max = MinLimit
           /\ aimd' \in [Adaptive -> Controllers]
           /\ \A l \in Lanes : LaneOK(l)'
  <1> DEFINE l == LaneOf[c]
             q == lane[l].queue
             freed == [lane[l] EXCEPT !.active = @ - 1]
  <1>1. /\ l \in Lanes /\ call \in [Calls -> Requests] /\ lane \in [Lanes -> LaneStates]
        /\ lane[l] \in LaneStates /\ q \in Seq(Calls) /\ LaneOK(l)
        /\ aimd \in [Adaptive -> Controllers] /\ c \in Running(l)
        /\ \A m \in Lanes \ Adaptive : lane[m].max = MinLimit
    BY LlmAssumption DEF SlotsInv, TypeOK, LaneStates, Controllers, Finish, Running
  <1>2. PICK a \in {IF l \in Adaptive THEN Observed(c, o) ELSE Null} :
        \E adj \in {Completed(c, a, o)} :
        \E once \in {Resized(freed, adj.limit)} :
        \E ln \in {Admit(once)} :
        \E left \in {ToSet(q) \ ToSet(ln.queue)} : Ends(c, o, adj, ln, left)
    BY Zenon DEF Finish, Ends
  <1>3. PICK adj \in {Completed(c, a, o)} :
        \E once \in {Resized(freed, adj.limit)} :
        \E ln \in {Admit(once)} :
        \E left \in {ToSet(q) \ ToSet(ln.queue)} : Ends(c, o, adj, ln, left)
    BY <1>2, Zenon
  <1>a. PICK once \in {Resized(freed, adj.limit)} :
        \E ln \in {Admit(once)} :
        \E left \in {ToSet(q) \ ToSet(ln.queue)} : Ends(c, o, adj, ln, left)
    BY <1>3, Zenon
  <1>b. PICK ln \in {Admit(once)} :
        \E left \in {ToSet(q) \ ToSet(ln.queue)} : Ends(c, o, adj, ln, left)
    BY <1>a, Zenon
  <1>c. PICK left \in {ToSet(q) \ ToSet(ln.queue)} : Ends(c, o, adj, ln, left)
    BY <1>b, Zenon
  <1>4. /\ lane' = [lane EXCEPT ![l] = ln]
        /\ aimd' = [m \in Adaptive |-> IF m = l THEN adj.aimd ELSE aimd[m]]
        /\ call' = [d \in Calls |->
              IF d = c \/ (d \in left /\ call[d].aborted) THEN Free
              ELSE IF d \in left THEN [call[d] EXCEPT !.phase = "running"] ELSE call[d]]
    BY <1>c DEF Ends
  <1>5. /\ adj.limit \in MinLimit..MaxLimit
        /\ l \notin Adaptive => adj.limit = MinLimit
        /\ l \in Adaptive => adj.aimd \in Controllers
    <2>1. lane[l].max \in MinLimit..MaxLimit
      BY <1>1 DEF LaneStates
    <2>2. CASE l \in Adaptive
      <3>1. aimd[l] \in Controllers /\ (o = "ok") \in BOOLEAN
        BY <1>1, <2>2
      <3>2. a = ObserveQueue([aimd[l] EXCEPT !.window = Windowed(@, o = "ok")], Len(q))
        BY <2>2 DEF Observed
      <3>3. a \in Controllers
        BY <3>1, <3>2, WindowShape, ObserveShape
      <3>4. adj = Adjusted(a, lane[l].max, o)
        BY <2>2 DEF Completed
      <3> QED BY <2>1, <2>2, <3>3, <3>4, AdjustedShape
    <2>3. CASE l \notin Adaptive
      <3>1. adj = [aimd |-> a, limit |-> lane[l].max]
        BY <2>3 DEF Completed
      <3> QED BY <1>1, <2>1, <2>3, <3>1
    <2> QED BY <2>2, <2>3
  <1>6. /\ IsFiniteSet(Running(l) \ {c}) /\ lane[l].active - 1 = Cardinality(Running(l) \ {c})
        /\ lane[l].active - 1 \in Nat
    <2>1. /\ IsFiniteSet(Running(l) \ {c})
          /\ Cardinality(Running(l) \ {c}) = Cardinality(Running(l)) - 1
      BY <1>1, FS_RemoveElement DEF LaneOK
    <2> QED BY <1>1, <2>1, FS_CardinalityType DEF LaneOK
  <1>7. /\ freed \in LaneStates /\ freed.active = lane[l].active - 1 /\ freed.active >= 0
        /\ freed.queue = q /\ IsInjective(q)
    <2>1. lane[l].active \in Int /\ lane[l].active - 1 \in Int /\ lane[l].active - 1 >= 0
      BY <1>1, <1>6 DEF LaneStates
    <2>2. IsInjective(q)
      BY <1>1 DEF LaneOK
    <2> HIDE DEF l
    <2> QED BY <1>1, <2>1, <2>2 DEF LaneStates
  <1> DEFINE g1 == ToSet(q) \ ToSet(once.queue)
             s1 == Started(q, once.queue)
             g2 == ToSet(once.queue) \ ToSet(ln.queue)
             s2 == Started(once.queue, ln.queue)
  <1>8. /\ once \in LaneStates /\ once.max = adj.limit /\ IsInjective(once.queue)
        /\ ToSet(once.queue) \subseteq ToSet(q)
        /\ \/ s1 = {} /\ once.active = freed.active
           \/ \E d : s1 = {d} /\ once.active = freed.active + 1
    <2> HIDE DEF freed
    <2>1. once = Resized(freed, adj.limit) /\ ToSet(freed.queue) = ToSet(q) /\ IsInjective(freed.queue)
      BY <1>7
    <2>2. /\ Resized(freed, adj.limit) \in LaneStates /\ Resized(freed, adj.limit).max = adj.limit
          /\ IsInjective(Resized(freed, adj.limit).queue)
          /\ ToSet(Resized(freed, adj.limit).queue) \subseteq ToSet(freed.queue)
          /\ \/ /\ Started(freed.queue, Resized(freed, adj.limit).queue) = {}
                /\ Resized(freed, adj.limit).active = freed.active
             \/ \E d : /\ Started(freed.queue, Resized(freed, adj.limit).queue) = {d}
                      /\ Resized(freed, adj.limit).active = freed.active + 1
      BY <1>5, <1>7, <2>1, ResizedEffect
    <2> QED BY <1>7, <2>1, <2>2
  <1>9. once.active \in Nat /\ once.active >= 0
    BY <1>6, <1>7, <1>8
  <1>10. /\ ln \in LaneStates /\ ln.max = adj.limit /\ IsInjective(ln.queue)
         /\ ToSet(ln.queue) \subseteq ToSet(once.queue)
         /\ ln.queue # <<>> => ln.active > 0
         /\ \/ s2 = {} /\ ln.active = once.active
            \/ \E d : s2 = {d} /\ ln.active = once.active + 1
    <2>1. ln = Admit(once)
      OBVIOUS
    <2> QED BY <1>8, <1>9, <2>1, AdmitEffect
  <1>11. left = g1 \cup g2 /\ g1 \cap g2 = {} /\ left = ToSet(q) \ ToSet(ln.queue)
    BY <1>8, <1>10
  <1>12. /\ \A d \in ToSet(q) : d \in Calls /\ LaneOf[d] = l /\ call[d].phase = "queued"
         /\ \A d \in Calls : LaneOf[d] = l /\ call[d].phase = "queued" => d \in ToSet(q)
         /\ call[c].phase = "running"
    BY <1>1 DEF LaneOK, Running
  <1>13. \A d \in Calls :
           /\ d = c => call'[d].phase = "idle"
           /\ d \in left /\ call[d].aborted => call'[d].phase = "idle"
           /\ d \in left /\ ~call[d].aborted => call'[d].phase = "running"
           /\ d # c /\ d \notin left => call'[d].phase = call[d].phase
    BY <1>1, <1>4, <1>11, <1>12 DEF Free, Requests
  <1> HIDE DEF freed
  <1>14. lane' \in [Lanes -> LaneStates] /\ lane'[l] = ln /\ \A m \in Lanes : m # l => lane'[m] = lane[m]
    BY <1>1, <1>4, <1>10
  <1>15. LaneOK(l)'
    <2>1. Running(l)' = ((Running(l) \ {c}) \cup s1) \cup s2
      <3>1. \A d \in Calls : d \in left <=> d \in g1 \/ d \in g2
        BY <1>11
      <3>2. \A d \in left : d \in Calls /\ LaneOf[d] = l /\ call[d].phase = "queued"
        BY <1>11, <1>12
      <3>3. \A d \in Calls : LaneOf[d] = l /\ call'[d].phase = "running" <=>
              d \in Running(l) \ {c} \/ d \in s1 \/ d \in s2
        BY <1>13, <3>1, <3>2 DEF Running, Started
      <3>4. s1 \subseteq Calls /\ s2 \subseteq Calls /\ Running(l) \subseteq Calls
        BY <1>11, <3>2 DEF Running, Started
      <3> HIDE DEF s1, s2
      <3> QED BY <3>3, <3>4 DEF Running
    <2>2. (Running(l) \ {c}) \cap s1 = {} /\ ((Running(l) \ {c}) \cup s1) \cap s2 = {}
      BY <1>11, <1>12 DEF Running, Started
    <2> HIDE DEF s1, s2
    <2>0. /\ IsFiniteSet(Running(l) \ {c}) /\ freed.active \in Int
          /\ freed.active = Cardinality(Running(l) \ {c}) /\ once.active \in Int
      BY <1>6, <1>7, <1>9
    <2>3. /\ IsFiniteSet((Running(l) \ {c}) \cup s1)
          /\ once.active = Cardinality((Running(l) \ {c}) \cup s1)
      BY <1>8, <2>0, <2>2, CountStarted
    <2>4. /\ IsFiniteSet(((Running(l) \ {c}) \cup s1) \cup s2)
          /\ ln.active = Cardinality(((Running(l) \ {c}) \cup s1) \cup s2)
      BY <1>10, <2>0, <2>2, <2>3, CountStarted
    <2>5. ToSet(ln.queue) = {d \in Calls : LaneOf[d] = l /\ call'[d].phase = "queued"}
      <3>1. ToSet(ln.queue) \subseteq ToSet(q)
        BY <1>8, <1>10
      <3>2. ASSUME NEW d \in Calls
            PROVE  d \in ToSet(ln.queue) <=> LaneOf[d] = l /\ call'[d].phase = "queued"
        <4>1. CASE d \in ToSet(ln.queue)
          <5>1. d \notin left /\ d \in ToSet(q) /\ d # c
            BY <1>11, <1>12, <3>1, <4>1
          <5> QED BY <1>12, <1>13, <4>1, <5>1
        <4>2. CASE d \notin ToSet(ln.queue)
          <5>1. d \in left \/ d \notin ToSet(q)
            BY <1>11, <4>2
          <5> QED BY <1>12, <1>13, <4>2, <5>1
        <4> QED BY <4>1, <4>2
      <3>3. ToSet(ln.queue) \subseteq Calls
        BY <1>12, <3>1
      <3> QED BY <3>2, <3>3
    <2> QED BY <1>10, <1>14, <2>1, <2>4, <2>5 DEF LaneOK
  <1>16. ASSUME NEW m \in Lanes, m # l PROVE LaneOK(m)'
    <2>1. LaneOK(m) /\ lane'[m] = lane[m]
      BY <1>14, <1>16 DEF SlotsInv
    <2>2. \A d \in Calls : LaneOf[d] = m => call'[d].phase = call[d].phase
      BY <1>11, <1>12, <1>13, <1>16
    <2> QED BY <2>1, <2>2, SameLane
  <1>17. \A m \in Lanes \ Adaptive : lane'[m].max = MinLimit
    BY <1>1, <1>5, <1>10, <1>14
  <1>18. aimd' \in [Adaptive -> Controllers]
    BY <1>1, <1>4, <1>5
  <1> QED BY <1>14, <1>15, <1>16, <1>17, <1>18

LEMMA SlotsInvStep == SlotsInv /\ [Next]_vars => SlotsInv'
  <1> SUFFICES ASSUME SlotsInv, [Next]_vars PROVE SlotsInv'
    OBVIOUS
  <1>0. /\ TypeOK /\ ProbeInv /\ lane \in [Lanes -> LaneStates]
        /\ aimd \in [Adaptive -> Controllers] /\ aborts \in 0..MaxAborts /\ healthy \in BOOLEAN
        /\ \A l \in Lanes \ Adaptive : lane[l].max = MinLimit
    BY DEF SlotsInv, TypeOK, ProbeInv, LaneStates, Controllers
  <1>1. ProbeInv'
    BY <1>0, ProbeInvStep
  <1> DEFINE Kept == /\ lane' \in [Lanes -> LaneStates]
                     /\ \A l \in Lanes \ Adaptive : lane'[l].max = MinLimit
                     /\ \A l \in Lanes : LaneOK(l)'
  <1>2. ASSUME lane' = lane, \A d \in Calls : call'[d].phase = call[d].phase PROVE Kept
    <2>1. \A l \in Lanes : LaneOK(l)'
      BY <1>2, SameLane DEF SlotsInv
    <2> QED BY <1>0, <1>2, <2>1
  <1> DEFINE Goal == /\ Kept /\ aimd' \in [Adaptive -> Controllers]
                     /\ aborts' \in 0..MaxAborts /\ healthy' \in BOOLEAN
  <1> HIDE DEF Kept
  <1>3. ASSUME NEW c \in Calls, Dispatch(c) PROVE Goal
    <2>1. Kept
      BY <1>3, DispatchStep DEF Kept
    <2> QED BY <1>0, <1>3, <2>1 DEF Dispatch
  <1>4. ASSUME NEW c \in Calls, Wait(c) PROVE Goal
    <2>1. Kept
      BY <1>4, WaitStep DEF Kept
    <2>2. aimd' \in [Adaptive -> Controllers]
      BY <1>0, <1>4, ObserveShape DEF Wait
    <2> QED BY <1>0, <1>4, <2>1, <2>2 DEF Wait
  <1>5. ASSUME NEW c \in Calls, ChatAborted(c) PROVE Goal
    <2>1. Kept
      BY <1>2, <1>5 DEF ChatAborted
    <2>2. aborts' \in 0..MaxAborts
      BY <1>0, <1>5, LlmAssumption DEF ChatAborted
    <2> QED BY <1>0, <1>5, <2>1, <2>2 DEF ChatAborted
  <1>6. ASSUME NEW c \in Calls, Abort(c) PROVE Goal
    <2>1. call \in [Calls -> Requests]
      BY <1>0 DEF TypeOK
    <2>2. \A d \in Calls : call'[d].phase = call[d].phase
      BY <1>6, <2>1 DEF Abort, Requests
    <2>3. Kept
      BY <1>2, <1>6, <2>2 DEF Abort
    <2>4. aborts' \in 0..MaxAborts
      BY <1>0, <1>6, LlmAssumption DEF Abort
    <2> QED BY <1>0, <1>6, <2>3, <2>4 DEF Abort
  <1>7. ASSUME NEW c \in Calls, NEW o \in Outcomes, Finish(c, o) PROVE Goal
    <2>1. Kept /\ aimd' \in [Adaptive -> Controllers]
      BY <1>7, FinishStep DEF Kept
    <2> QED BY <1>0, <1>7, <2>1 DEF Finish
  <1>8. ASSUME Tick PROVE Goal
    <2>1. Kept
      BY <1>2, <1>8 DEF Tick
    <2>2. \A l \in Adaptive : Older(aimd[l]) \in Controllers
      <3> TAKE l \in Adaptive
      <3>1. aimd[l] \in Controllers
        BY <1>0
      <3>2. /\ (IF aimd[l].waited = Null \/ aimd[l].waited >= ScaleUpWait THEN aimd[l].waited
                ELSE aimd[l].waited + 1) \in {Null} \cup 0..ScaleUpWait
            /\ (IF aimd[l].sinceAdjust >= AdjustInterval THEN aimd[l].sinceAdjust
                ELSE aimd[l].sinceAdjust + 1) \in 0..AdjustInterval
        BY <3>1, LlmAssumption DEF Controllers
      <3> QED BY <3>1, <3>2 DEF Older, Controllers
    <2>3. aimd' \in [Adaptive -> Controllers]
      BY <1>8, <2>2 DEF Tick
    <2> QED BY <1>0, <1>8, <2>1, <2>3 DEF Tick
  <1>9. ASSUME Revive PROVE Goal
    <2>1. Kept
      BY <1>2, <1>9 DEF Revive
    <2> QED BY <1>0, <1>9, <2>1 DEF Revive
  <1>10. ASSUME UNCHANGED vars PROVE Goal
    <2>1. Kept
      BY <1>2, <1>10 DEF vars
    <2>2. aimd' = aimd /\ aborts' = aborts /\ healthy' = healthy
      BY <1>10 DEF vars
    <2> QED BY <1>0, <2>1, <2>2
  <1> HIDE DEF Goal
  <1>11. Goal
    BY <1>3, <1>4, <1>5, <1>6, <1>7, <1>8, <1>9, <1>10 DEF Next
  <1> QED BY <1>1, <1>11 DEF SlotsInv, TypeOK, ProbeInv, LaneStates, Controllers, Kept, Goal

LEMMA SlotsInvInit == Init => SlotsInv
  <1> SUFFICES ASSUME Init PROVE SlotsInv
    OBVIOUS
  <1>1. TypeOK /\ NoWedge
    <2>1. breaker \in Breakers /\ NoWedge
      BY LlmAssumption DEF Init, NoWedge, Closed, Breakers
    <2>2. call \in [Calls -> Requests]
      BY DEF Init, Free, Requests
    <2>3. lane \in [Lanes -> LaneStates] /\ \A l \in Lanes : lane[l].max = MinLimit
      BY LlmAssumption DEF Init, LaneStates
    <2>4. aimd \in [Adaptive -> Controllers]
      BY LlmAssumption DEF Init, Controllers
    <2>5. healthy \in BOOLEAN
      BY DEF Init
    <2>6. aborts \in 0..MaxAborts
      BY LlmAssumption DEF Init
    <2> QED BY <2>1, <2>2, <2>3, <2>4, <2>5, <2>6 DEF TypeOK, LaneStates, Controllers
  <1>2. ASSUME NEW l \in Lanes PROVE LaneOK(l)
    <2>1. Running(l) = {}
      BY DEF Running, Init, Free
    <2>2. lane[l].queue = <<>> /\ lane[l].active = 0 /\ ToSet(<<>>) = {} /\ IsInjective(<<>>)
      BY DEF Init, ToSet, IsInjective
    <2>3. {c \in Calls : LaneOf[c] = l /\ call[c].phase = "queued"} = {}
      BY DEF Init, Free
    <2> QED BY <2>1, <2>2, <2>3, FS_EmptySet DEF LaneOK
  <1> QED BY <1>1, <1>2 DEF SlotsInv

\* TypesHold: whatever answers, aborts and adjustments there are, breaker,
\* requests, queues and controllers stay well formed and limits in their range.
THEOREM TypesHold == Spec => []TypeOK
  <1>1. SlotsInv => TypeOK
    BY DEF SlotsInv
  <1> QED BY <1>1, SlotsInvInit, SlotsInvStep, PTL DEF Spec

\* SlotsAccountedHolds: no slot and no waiter of a queue is lost or counted
\* twice, whoever gives up and however the limit moves.
THEOREM SlotsAccountedHolds == Spec => []SlotsAccounted
  <1>1. SlotsInv => SlotsAccounted
    BY DEF SlotsInv, LaneOK, SlotsAccounted
  <1> QED BY <1>1, SlotsInvInit, SlotsInvStep, PTL DEF Spec
=============================================================================
