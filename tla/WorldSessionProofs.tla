------------------------- MODULE WorldSessionProofs -------------------------
(***************************************************************************)
(* The safety of the world session for every number of streams, names,     *)
(* operations, edits, freezes and deaths of the process: types, one world, *)
(* no leaked pin, and no fresh world over a checkpoint.                    *)
(*                                                                         *)
(* The invariant has four parts: the pins the operations owe to streams    *)
(* (Pins), the count of the state object (NoLeakedPin), what holds of the  *)
(* world wherever an operation stands (Still), and what holds on the way   *)
(* of an operation between the points where it gives way (Paths).          *)
(***************************************************************************)
EXTENDS WorldSession, FiniteSetTheorems, WellFoundedInduction, TLAPS

Ops == [k : {"target", "observe", "mutate"}, c : Clients \cup {None}, had : BOOLEAN,
        obj : Objects \cup {None}, pc : Steps, for : {None, "create", "wake", "adopt", "land"},
        topo : {None, "plain", "hass"}, rt : Runtimes \cup {None}, t : Moments,
        retry : BOOLEAN]

Runs == [st : {"running", "paused", "stopped"}, topo : {"plain", "hass"}, t : Moments]

PinStates == [at : {"out", "joining", "left", "open"}, obj : Objects \cup {None}]

Shape ==
    /\ env \in {"blank", "plain", "hass", "gone"} /\ closed \in BOOLEAN
    /\ sess \in SessionState \cup {None}
    /\ op \in Ops \cup {None}
    /\ queue \in Seq(Ops) /\ \A i \in DOMAIN queue : queue[i].pc = "ensure"
    /\ catchUp \in [queued : BOOLEAN, target : Moments \cup {None}]
    /\ pins \in [Clients -> PinStates]
    /\ rec \in Runtimes \cup {None} /\ driver \in Runtimes \cup {None}
    /\ freeze \in Runtimes \cup {None}
    /\ run \in [Runtimes -> Runs]
    /\ hib \in Moments \cup {None}
    /\ disk \in [dir : BOOLEAN, at : Moments \cup {None}]
    /\ wall \in Moments /\ torn \in BOOLEAN

\* A pin is owed to each stream whose request is on its way, once, and a stream
\* that waits for one holds none.
Pins ==
    /\ \A c \in Clients : pins[c].obj # None => pins[c].at = "open"
    /\ op # None /\ op.k = "observe" => op.c \in Clients /\ pins[op.c].at \in {"joining", "left"}
    /\ \A i \in DOMAIN queue : queue[i].k = "observe" =>
         /\ queue[i].c \in Clients /\ pins[queue[i].c].at \in {"joining", "left"}
         /\ op # None /\ op.k = "observe" => op.c # queue[i].c
    /\ \A i, j \in DOMAIN queue :
         queue[i].k = "observe" /\ queue[j].k = "observe" /\ queue[i].c = queue[j].c => i = j

Holders(o) == {c \in Clients : pins[c].obj = o}

On == env # "gone"
Up == ~closed /\ On

\* What is on disk is known to the registry: without a record nothing is left.
Known ==
    /\ disk.at # None => disk.dir
    /\ On /\ rec = None /\ hib = None => disk.at = None

\* A record that waits to be frozen is, or was, the environment's world: until it
\* is written, there is a live record and a session that knows of it.
FreezeWaits ==
    /\ On /\ Alive(freeze) => hib = None
    /\ Up /\ Alive(freeze) => Alive(rec)
    /\ Up /\ sess = None => ~Alive(rec)
    /\ Up /\ Alive(freeze) /\ freeze # rec => sess # None /\ sess.status # "hibernated"

Still == OneWorld /\ Known /\ FreezeWaits

At(steps) == op # None /\ op.pc \in steps
For(steps, fors) == At(steps) /\ op.for \in fors

\* An operation that waits for a build or for quiescence.
Waits ==
    /\ At({"quiesce", "building"}) =>
         op.topo \in {"plain", "hass"} /\ op.for \in {"create", "wake", "adopt", "land"}
    /\ At({"quiesce"}) => op.for \in {"adopt", "land"}
    /\ For({"quiesce", "building"}, {"adopt", "land"}) =>
         op.rt \in Runtimes /\ rec \in {op.rt, None}

\* Nobody else touched the record while a runtime was built.
Untorn ==
    ~torn => /\ For({"building"}, {"wake"}) => rec = None
             /\ For({"building"}, {"adopt", "land"}) => op.rt = rec

\* On its way the operation has its session.
HasSession ==
    Up => /\ At({"check"}) \/ For({"quiesce", "building"}, {"wake", "adopt"}) =>
               sess # None /\ sess.obj = op.obj
          /\ For({"quiesce"}, {"land"}) => sess # None \/ ~Alive(op.rt)
          /\ For({"building"}, {"land"}) => sess # None

\* Where the way leads to the creation of a world, nothing waits to be frozen.
NothingToFreeze ==
    /\ On /\ At({"create"}) => ~Alive(freeze)
    /\ On /\ At({"check"}) /\ Alive(freeze) => Alive(rec) \/ hib # None
    /\ Up /\ For({"quiesce", "building"}, {"adopt"}) /\ Alive(freeze) => freeze = rec
    /\ closed /\ On /\ For({"quiesce", "building"}, {"adopt"}) => ~Alive(rec) /\ ~Alive(freeze)

Fresh ==
    For({"building"}, {"create"}) =>
       rec = None /\ hib = None /\ disk.at = None /\ ~Alive(freeze)

Paths == Waits /\ Untorn /\ HasSession /\ NothingToFreeze /\ Fresh

IInv == Shape /\ Pins /\ NoLeakedPin /\ Still /\ Paths

----------------------------------------------------------------------------
(* Names, runtimes, ways *)

LEMMA LeastIs ==
    ASSUME NEW D \in SUBSET Nat, D # {}
    PROVE  Least(D) \in D
  <1>1. PICK n \in D : \A m \in D : <<m, n>> \notin OpToRel(<, Nat)
    BY NatLessThanWellFounded, WFMin
  <1>2. \A m \in D : ~(m < n)
    BY <1>1 DEF OpToRel
  <1>3. \A m \in D : n <= m
    BY <1>2
  <1> QED BY <1>3 DEF Least

LEMMA SpareIs ==
    ASSUME Spares # {}
    PROVE  /\ Spare \in Runtimes /\ run[Spare] = Stopped /\ Spare # None
           /\ Spare # rec /\ Spare # driver /\ Spare # freeze /\ (op # None => op.rt # Spare)
  <1>1. Spares \in SUBSET Nat
    BY WorldSessionAssumption DEF Spares
  <1>2. Spare \in Spares
    BY <1>1, LeastIs DEF Spare
  <1> QED BY <1>2, WorldSessionAssumption DEF Spares

LEMMA NewObjectIs ==
    ASSUME NewObjects # {}
    PROVE  NewObject \in Objects
  <1>1. NewObjects \in SUBSET Nat
    BY WorldSessionAssumption DEF NewObjects
  <1>2. NewObject \in NewObjects
    BY <1>1, LeastIs DEF NewObject
  <1> QED BY <1>2 DEF NewObjects

LEMMA NewSession ==
    ASSUME NEW o \in Objects, NEW s \in Statuses
    PROVE  /\ Session(o, s) \in SessionState /\ Session(o, s) # None
           /\ Session(o, s).obj = o /\ Session(o, s).status = s /\ Session(o, s).observers = 0
  <1>1. /\ Session(o, s) \in SessionState
        /\ Session(o, s).obj = o /\ Session(o, s).status = s /\ Session(o, s).observers = 0
    BY DEF Session, SessionState
  <1> QED BY <1>1, WorldSessionAssumption

LEMMA StoppedIs == Stopped \in Runs /\ Stopped.st = "stopped" /\ Stopped.t = 0
  BY WorldSessionAssumption DEF Stopped, Runtime, Runs, Moments

\* A runtime that has started, been paused or been set running is not stopped.
LEMMA Started ==
    ASSUME NEW topo \in {"plain", "hass"}, NEW t \in Moments
    PROVE  Runtime("running", topo, t) \in Runs /\ Runtime("running", topo, t) # Stopped
  BY DEF Runtime, Runs, Stopped

LEMMA Touched ==
    ASSUME Shape, NEW r \in Runtimes, Alive(r), NEW st \in {"running", "paused"},
           run' = [run EXCEPT ![r].st = st]
    PROVE  /\ run' \in [Runtimes -> Runs]
           /\ \A q \in Runtimes : run'[q] = Stopped <=> run[q] = Stopped
  <1> DEFINE x == [run[r] EXCEPT !.st = st]
  <1>1. run[r] \in Runs /\ run[r] # Stopped
    BY DEF Shape, Alive
  <1>2. x \in Runs /\ x.st = st
    BY <1>1 DEF Runs
  <1>3. x # Stopped
    BY <1>2, StoppedIs
  <1>4. run' = [run EXCEPT ![r] = x]
    OBVIOUS
  <1> HIDE DEF x
  <1> QED BY <1>1, <1>2, <1>3, <1>4 DEF Shape

LEMMA Advanced ==
    ASSUME Shape, NEW r \in Runtimes, run[r] # Stopped, NEW m \in Moments, run[r].t < m,
           run' = [run EXCEPT ![r].t = @ + 1]
    PROVE  /\ run' \in [Runtimes -> Runs]
           /\ \A q \in Runtimes : run'[q] = Stopped <=> run[q] = Stopped
  <1> DEFINE x == [run[r] EXCEPT !.t = run[r].t + 1]
  <1>1. run[r] \in Runs
    BY DEF Shape
  <1>2. run[r].t + 1 \in Moments /\ run[r].t + 1 # 0
    BY <1>1, WorldSessionAssumption DEF Runs, Moments
  <1>3. x \in Runs /\ x.t = run[r].t + 1
    BY <1>1, <1>2 DEF Runs
  <1>4. x # Stopped
    BY <1>2, <1>3, StoppedIs
  <1>5. run' = [run EXCEPT ![r] = x]
    OBVIOUS
  <1> HIDE DEF x
  <1> QED BY <1>3, <1>4, <1>5 DEF Shape

\* Where an operation begins, waits for the catch-up or is over, nothing is owed.
LEMMA OffPath ==
    ASSUME op' = None \/ op'.pc \in {"ensure", "rebuild", "await", "landed"}
    PROVE  Paths'
  BY DEF Paths, Waits, Untorn, HasSession, NothingToFreeze, Fresh, At, For

\* Nothing of the world but the moments it has reached changes.
SameWorld ==
    /\ UNCHANGED <<closed, rec, driver, hib, disk, freeze, torn>>
    /\ (env' = "gone" <=> env = "gone")
    /\ (sess' = None <=> sess = None)
    /\ sess # None =>
         sess'.obj = sess.obj /\ (sess'.status = "hibernated" => sess.status = "hibernated")
    /\ \A q \in Runtimes : run'[q] = Stopped <=> run[q] = Stopped

LEMMA StillStays ==
    ASSUME Shape, Still, SameWorld
    PROVE  Still'
  <1>1. \A r \in Runtimes \cup {None} : Alive(r)' <=> Alive(r)
    BY DEF SameWorld, Alive
  <1>2. Alive(rec)' <=> Alive(rec)
    BY <1>1 DEF SameWorld, Shape, Alive
  <1>3. Alive(freeze)' <=> Alive(freeze)
    BY <1>1 DEF SameWorld, Shape, Alive
  <1>4. OneWorld'
    BY DEF Still, OneWorld, SameWorld
  <1>5. Known'
    BY DEF Still, Known, On, SameWorld
  <1>6. FreezeWaits'
    BY <1>2, <1>3 DEF Still, FreezeWaits, Up, On, SameWorld
  <1> QED BY <1>4, <1>5, <1>6 DEF Still

LEMMA PathsStay ==
    ASSUME Shape, Paths, SameWorld, op' = op
    PROVE  Paths'
  <1>1. Alive(rec)' <=> Alive(rec)
    BY DEF SameWorld, Shape, Alive
  <1>2. Alive(freeze)' <=> Alive(freeze)
    BY DEF SameWorld, Shape, Alive
  <1>3. Waits' /\ Untorn' /\ Fresh'
    BY <1>2 DEF Paths, Waits, Untorn, Fresh, At, For, SameWorld
  <1>4. HasSession'
    <2>1. For({"quiesce"}, {"land"}) => op.rt \in Runtimes
      BY DEF Paths, Waits, At, For
    <2>2. For({"quiesce"}, {"land"}) => (Alive(op.rt)' <=> Alive(op.rt))
      BY <2>1 DEF SameWorld, Alive
    <2> QED BY <2>2 DEF Paths, HasSession, At, For, Up, On, SameWorld
  <1>5. NothingToFreeze'
    BY <1>1, <1>2 DEF Paths, NothingToFreeze, At, For, Up, On, SameWorld
  <1> QED BY <1>3, <1>4, <1>5 DEF Paths

----------------------------------------------------------------------------
(* The pins *)

LEMMA PinsStay ==
    ASSUME Pins, UNCHANGED <<pins, queue>>,
           op' # None => op # None /\ op'.k = op.k /\ op'.c = op.c
    PROVE  Pins'
  BY DEF Pins

\* The observer of the operation gets nothing.
LEMMA PinGone ==
    ASSUME Shape, Pins, op # None, op.k = "observe", op' = None, pins' = NoPin(op.c),
           queue' = queue
    PROVE  Pins' /\ pins' \in [Clients -> PinStates] /\ \A o \in Objects : Holders(o)' = Holders(o)
  <1> DEFINE c == op.c
             p == [at |-> IF pins[c].at = "left" THEN "out" ELSE "open", obj |-> None]
  <1>1. c \in Clients /\ pins[c].at \in {"joining", "left"} /\ pins[c].obj = None
    BY DEF Pins
  <1>2. pins' = [pins EXCEPT ![c] = p]
    BY DEF NoPin
  <1>3. p \in PinStates /\ p.obj = None
    BY DEF PinStates
  <1>4. \A i \in DOMAIN queue : queue[i].k = "observe" => queue[i].c # c
    BY DEF Pins
  <1> HIDE DEF c, p
  <1>5. pins' \in [Clients -> PinStates] /\ pins'[c] = p
        /\ \A d \in Clients \ {c} : pins'[d] = pins[d]
    BY <1>1, <1>2, <1>3 DEF Shape
  <1>6. \A d \in Clients : pins'[d].obj = pins[d].obj
    BY <1>1, <1>3, <1>5
  <1>7. \A o \in Objects : Holders(o)' = Holders(o)
    BY <1>6 DEF Holders
  <1>8. Pins'
    BY <1>3, <1>4, <1>5 DEF Pins
  <1> QED BY <1>5, <1>7, <1>8

\* The operation rejected.
LEMMA ThrewIs ==
    ASSUME Shape, Pins, op # None, Threw, queue' = queue
    PROVE  /\ Pins' /\ pins' \in [Clients -> PinStates] /\ op' \in Ops \cup {None}
           /\ op' = None \/ op'.pc = "rebuild"
           /\ \A o \in Objects : Holders(o)' = Holders(o)
  <1>1. CASE op.k = "mutate" /\ op.had
    <2>1. op \in Ops /\ op' = [op EXCEPT !.pc = "rebuild"] /\ pins' = pins
      BY <1>1 DEF Threw, Shape
    <2>2. op' \in Ops /\ op'.pc = "rebuild" /\ op'.k = op.k /\ op'.c = op.c
      BY <2>1 DEF Ops, Steps
    <2> QED BY <2>1, <2>2, PinsStay DEF Shape, Holders
  <1>2. CASE ~(op.k = "mutate" /\ op.had)
    <2>1. op' = None /\ pins' = IF op.k = "observe" THEN NoPin(op.c) ELSE pins
      BY <1>2 DEF Threw
    <2>2. CASE op.k = "observe"
      BY <2>1, <2>2, PinGone
    <2>3. CASE op.k # "observe"
      BY <2>1, <2>3, PinsStay DEF Shape, Holders
    <2> QED BY <2>1, <2>2, <2>3
  <1> QED BY <1>1, <1>2

LEMMA HoldersFinite ==
    ASSUME NEW o PROVE IsFiniteSet(Holders(o)) /\ Cardinality(Holders(o)) \in Nat
  <1>1. Holders(o) \subseteq Clients /\ IsFiniteSet(Clients)
    BY WorldSessionAssumption DEF Holders
  <1>2. IsFiniteSet(Holders(o))
    BY <1>1, FS_Subset
  <1> QED BY <1>2, FS_CardinalityType

LEMMA CountIs ==
    NoLeakedPin <=> (sess # None => sess.observers <= Cardinality(Holders(sess.obj)))
  BY DEF NoLeakedPin, Holders

\* The state object counts what it counted, or begins anew, and no pin is given up.
LEMMA CountStays ==
    ASSUME Shape, NoLeakedPin, \A o \in Objects : Holders(o)' = Holders(o),
           sess' # None =>
              /\ sess' \in SessionState
              /\ \/ sess'.observers = 0
                 \/ sess # None /\ sess'.obj = sess.obj /\ sess'.observers = sess.observers
    PROVE  NoLeakedPin'
  <1> SUFFICES ASSUME sess' # None
               PROVE  (sess.observers <= Cardinality(Holders(sess.obj)))'
    BY DEF NoLeakedPin, Holders
  <1>1. Holders(sess.obj)' = Holders(sess'.obj)
    BY DEF SessionState, Holders
  <1>2. Cardinality(Holders(sess'.obj)) \in Nat
    BY HoldersFinite
  <1>3. CASE sess'.observers = 0
    BY <1>1, <1>2, <1>3
  <1>4. CASE sess # None /\ sess'.obj = sess.obj /\ sess'.observers = sess.observers
    BY <1>1, <1>4, CountIs
  <1> QED BY <1>3, <1>4

LEMMA ReleasedIs ==
    ASSUME NEW s \in SessionState
    PROVE  /\ Released(s) \in SessionState /\ Released(s).obj = s.obj
           /\ Released(s).observers = IF s.observers > 0 THEN s.observers - 1 ELSE 0
           /\ Released(s).status = "hibernated" => s.status = "hibernated"
  <1> DEFINE n == IF s.observers > 0 THEN s.observers - 1 ELSE 0
             st == IF n = 0 /\ s.status = "active" THEN "idle" ELSE s.status
  <1>1. s.observers \in Nat /\ s.status \in Statuses /\ s.obj \in Objects
    BY DEF SessionState
  <1>2. n \in Nat /\ st \in Statuses /\ (st = "hibernated" => s.status = "hibernated")
    BY <1>1 DEF Statuses
  <1>3. Released(s) = [s EXCEPT !.observers = n, !.status = st]
    BY DEF Released
  <1> HIDE DEF st
  <1> QED BY <1>1, <1>2, <1>3 DEF SessionState

LEMMA PinnedIs ==
    ASSUME NEW s \in SessionState
    PROVE  /\ Pinned(s) \in SessionState /\ Pinned(s).obj = s.obj
           /\ Pinned(s).observers = s.observers + 1 /\ Pinned(s).status = "active"
  <1>1. s.observers + 1 \in Nat /\ "active" \in Statuses
    BY DEF SessionState, Statuses
  <1> QED BY <1>1 DEF Pinned, SessionState

\* The observer of the operation gets its pin, if there is something to pin.
LEMMA ObservedIs ==
    ASSUME Shape, Pins, NoLeakedPin, op # None, op.k = "observe", op' = None, Observed(op.c),
           queue' = queue
    PROVE  /\ Pins' /\ pins' \in [Clients -> PinStates] /\ NoLeakedPin'
           /\ sess' \in SessionState \cup {None} /\ (sess' = None <=> sess = None)
           /\ sess # None => sess'.obj = sess.obj /\ sess'.status # "hibernated"
  <1> DEFINE c == op.c
  <1>1. c \in Clients /\ pins[c].at \in {"joining", "left"} /\ pins[c].obj = None
    BY DEF Pins
  <1>2. CASE sess = None
    <2>1. pins' = NoPin(c) /\ sess' = sess
      BY <1>2 DEF Observed
    <2> QED BY <1>2, <2>1, PinGone DEF NoLeakedPin
  <1>3. CASE sess # None /\ pins[c].at = "left"
    <2>1. pins' = NoPin(c) /\ sess' = Released(Pinned(sess)) /\ sess \in SessionState
      BY <1>3 DEF Observed, Shape
    <2>2. Pins' /\ pins' \in [Clients -> PinStates] /\ \A o \in Objects : Holders(o)' = Holders(o)
      BY <2>1, PinGone
    <2>3. /\ Pinned(sess) \in SessionState /\ Pinned(sess).obj = sess.obj
          /\ Pinned(sess).observers = sess.observers + 1 /\ Pinned(sess).status = "active"
          /\ sess.observers \in Nat
      BY <2>1, PinnedIs DEF SessionState
    <2>4. /\ sess' \in SessionState /\ sess'.obj = sess.obj
          /\ sess'.observers = sess.observers /\ sess'.status # "hibernated"
      BY <2>1, <2>3, ReleasedIs
    <2>5. NoLeakedPin'
      BY <1>3, <2>2, <2>4, CountStays
    <2> QED BY <1>3, <2>2, <2>4, <2>5, WorldSessionAssumption
  <1>4. CASE sess # None /\ pins[c].at # "left"
    <2> DEFINE p == [at |-> "open", obj |-> sess.obj]
    <2>1. pins' = [pins EXCEPT ![c] = p] /\ sess' = Pinned(sess) /\ sess \in SessionState
      BY <1>4 DEF Observed, Shape
    <2>2. /\ sess' \in SessionState /\ sess'.obj = sess.obj
          /\ sess'.observers = sess.observers + 1 /\ sess'.status = "active"
          /\ sess.observers \in Nat /\ sess.obj \in Objects /\ sess.obj # None
      BY <2>1, PinnedIs, WorldSessionAssumption DEF SessionState
    <2>3. p \in PinStates /\ p.at = "open" /\ p.obj = sess.obj
      BY <2>2 DEF PinStates
    <2>4. \A i \in DOMAIN queue : queue[i].k = "observe" => queue[i].c # c
      BY DEF Pins
    <2> HIDE DEF c, p
    <2>5. pins' \in [Clients -> PinStates] /\ pins'[c] = p
          /\ \A d \in Clients \ {c} : pins'[d] = pins[d]
      BY <1>1, <2>1, <2>3 DEF Shape
    <2>6. Pins'
      BY <2>3, <2>4, <2>5 DEF Pins
    <2>7. Holders(sess.obj)' = Holders(sess.obj) \cup {c} /\ c \notin Holders(sess.obj)
      BY <1>1, <2>2, <2>3, <2>5 DEF Holders
    <2>8. Cardinality(Holders(sess.obj)') = Cardinality(Holders(sess.obj)) + 1
      BY <2>7, HoldersFinite, FS_AddElement
    <2>9. NoLeakedPin'
      <3>1. sess.observers <= Cardinality(Holders(sess.obj))
            /\ Cardinality(Holders(sess.obj)) \in Nat
        BY <1>4, CountIs, HoldersFinite
      <3>2. (sess.observers <= Cardinality(Holders(sess.obj)))'
        BY <2>2, <2>8, <3>1
      <3> QED BY <3>2 DEF NoLeakedPin, Holders
    <2> QED BY <1>4, <2>2, <2>5, <2>6, <2>9, WorldSessionAssumption
  <1> QED BY <1>2, <1>3, <1>4

----------------------------------------------------------------------------
(* What happens beside the operations *)

LEMMA IInvOf ==
    ASSUME Shape', Pins', NoLeakedPin', Still', Paths' PROVE IInv'
  BY DEF IInv

\* The world stays, the operation too, the pins and the queue are what they were.
LEMMA BesideStep ==
    ASSUME IInv, SameWorld, Shape', UNCHANGED <<op, sess, pins, queue>>
    PROVE  IInv'
  <1>1. Still' /\ Paths'
    BY StillStays, PathsStay DEF IInv
  <1>2. Pins' /\ NoLeakedPin'
    BY PinsStay DEF IInv, NoLeakedPin
  <1> QED BY <1>1, <1>2, IInvOf

LEMMA StartCatchUpStep == ASSUME IInv, StartCatchUp PROVE IInv'
  <1>1. Shape /\ catchUp \in [queued : BOOLEAN, target : Moments \cup {None}] /\ wall \in Moments
    BY DEF IInv, Shape
  <1>2. catchUp' \in [queued : BOOLEAN, target : Moments \cup {None}]
    BY <1>1 DEF StartCatchUp
  <1>3. UNCHANGED <<env, closed, sess, op, queue, pins, rec, run, driver, hib, disk, freeze,
                    wall, left, torn>>
    BY DEF StartCatchUp, registry
  <1>4. Shape'
    BY <1>1, <1>2, <1>3 DEF Shape
  <1>5. SameWorld
    BY <1>3 DEF SameWorld
  <1> QED BY <1>3, <1>4, <1>5, BesideStep

LEMMA ChunkStep == ASSUME IInv, Chunk PROVE IInv'
  <1>1. /\ Shape /\ catchUp \in [queued : BOOLEAN, target : Moments \cup {None}]
        /\ UNCHANGED <<env, closed, sess, op, queue, pins, rec, driver, hib, disk, freeze,
                       wall, left, torn>>
    BY DEF IInv, Shape, Chunk
  <1>2. CASE /\ Alive(rec) /\ run[rec].t < catchUp.target /\ catchUp' = catchUp
             /\ run' = [run EXCEPT ![rec].t = @ + 1]
    <2>1. rec \in Runtimes /\ run[rec] # Stopped
      BY <1>1, <1>2 DEF Shape, Alive
    <2>2. catchUp.target \in Moments
      BY <1>1 DEF Chunk
    <2>3. /\ run' \in [Runtimes -> Runs]
          /\ \A q \in Runtimes : run'[q] = Stopped <=> run[q] = Stopped
      BY <1>1, <1>2, <2>1, <2>2, Advanced
    <2>4. Shape' /\ SameWorld
      BY <1>1, <1>2, <2>3 DEF Shape, SameWorld
    <2> QED BY <1>1, <2>4, BesideStep
  <1>3. CASE run' = run /\ catchUp' = [catchUp EXCEPT !.target = None]
    <2>1. catchUp' \in [queued : BOOLEAN, target : Moments \cup {None}]
      BY <1>1, <1>3
    <2>2. Shape' /\ SameWorld
      BY <1>1, <1>3, <2>1 DEF Shape, SameWorld
    <2> QED BY <1>1, <2>2, BesideStep
  <1> QED BY <1>2, <1>3 DEF Chunk

LEMMA DriveStep == ASSUME IInv, Drive PROVE IInv'
  <1>1. /\ Shape /\ driver # None /\ run[driver].st = "running" /\ run[driver].t < wall
        /\ run' = [run EXCEPT ![driver].t = @ + 1] /\ wall \in Moments
        /\ UNCHANGED <<env, closed, sess, op, queue, catchUp, pins, rec, driver, hib, disk,
                       freeze, wall, left, torn>>
    BY DEF IInv, Shape, Drive, service
  <1>2. driver \in Runtimes /\ run[driver] # Stopped
    BY <1>1, StoppedIs DEF Shape
  <1>3. /\ run' \in [Runtimes -> Runs]
        /\ \A q \in Runtimes : run'[q] = Stopped <=> run[q] = Stopped
    BY <1>1, <1>2, Advanced
  <1>4. Shape' /\ SameWorld
    BY <1>1, <1>3 DEF Shape, SameWorld
  <1> QED BY <1>1, <1>4, BesideStep

LEMMA TickStep == ASSUME IInv, Tick PROVE IInv'
  <1>1. /\ Shape
        /\ UNCHANGED <<env, closed, sess, op, queue, catchUp, pins, rec, run, driver, hib, disk,
                       freeze, left, torn>>
    BY DEF IInv, Tick, service, registry
  <1>2. wall' \in Moments
    BY <1>1, WorldSessionAssumption DEF Shape, Tick, Moments
  <1>3. Shape' /\ SameWorld
    BY <1>1, <1>2 DEF Shape, SameWorld
  <1> QED BY <1>1, <1>3, BesideStep

\* A request joins the queue.
LEMMA Enqueued ==
    ASSUME Shape, NEW k \in {"target", "observe", "mutate"}, NEW c \in Clients \cup {None},
           Enqueue(Operation(k, c))
    PROVE  /\ queue' \in Seq(Ops) /\ \A i \in DOMAIN queue' : queue'[i].pc = "ensure"
           /\ DOMAIN queue' = DOMAIN queue \cup {Len(queue) + 1}
           /\ Len(queue) + 1 \notin DOMAIN queue
           /\ \A i \in DOMAIN queue : queue'[i] = queue[i]
           /\ queue'[Len(queue) + 1].k = k /\ queue'[Len(queue) + 1].c = c
  <1> DEFINE o == Operation(k, c)
  <1>1. o \in Ops /\ o.pc = "ensure" /\ o.k = k /\ o.c = c
    BY WorldSessionAssumption DEF Operation, Ops, Steps, Moments
  <1>2. queue' = Append(queue, o) /\ queue \in Seq(Ops)
    BY DEF Enqueue, Shape
  <1> HIDE DEF o
  <1>3. /\ queue' \in Seq(Ops) /\ DOMAIN queue' = DOMAIN queue \cup {Len(queue) + 1}
        /\ Len(queue) + 1 \notin DOMAIN queue
        /\ queue'[Len(queue) + 1] = o /\ \A i \in DOMAIN queue : queue'[i] = queue[i]
    BY <1>1, <1>2
  <1> QED BY <1>1, <1>3 DEF Shape

\* Nobody observes by it.
LEMMA PinsBehind ==
    ASSUME Shape, Pins, NEW k \in {"target", "mutate"}, Enqueue(Operation(k, None)),
           UNCHANGED <<op, pins>>
    PROVE  Pins'
  <1>1. /\ DOMAIN queue' = DOMAIN queue \cup {Len(queue) + 1}
        /\ \A i \in DOMAIN queue : queue'[i] = queue[i]
        /\ queue'[Len(queue) + 1].k # "observe"
    BY Enqueued
  <1> QED BY <1>1 DEF Pins

LEMMA ArriveStep == ASSUME IInv, Arrive PROVE IInv'
  <1>1. /\ Shape /\ Pins /\ Enqueue(Operation("target", None))
        /\ UNCHANGED <<env, closed, sess, op, catchUp, pins, rec, run, driver, hib, disk,
                       freeze, wall, torn>>
    BY DEF IInv, Arrive, registry
  <1>2. queue' \in Seq(Ops) /\ \A i \in DOMAIN queue' : queue'[i].pc = "ensure"
    BY <1>1, Enqueued
  <1>3. Shape' /\ SameWorld
    BY <1>1, <1>2 DEF Shape, SameWorld
  <1>4. Pins'
    BY <1>1, PinsBehind
  <1>5. Still' /\ Paths' /\ NoLeakedPin'
    BY <1>1, <1>3, StillStays, PathsStay DEF IInv, NoLeakedPin
  <1> QED BY <1>3, <1>4, <1>5, IInvOf

LEMMA EditStep == ASSUME IInv, Edit PROVE IInv'
  <1>1. /\ Shape /\ Pins /\ Enqueue(Operation("mutate", None)) /\ env # "gone"
        /\ env' \in {"blank", "plain", "hass"}
        /\ UNCHANGED <<closed, sess, op, catchUp, pins, rec, run, driver, hib, disk,
                       freeze, wall, torn>>
    BY WorldSessionAssumption DEF IInv, Edit, registry
  <1>2. queue' \in Seq(Ops) /\ \A i \in DOMAIN queue' : queue'[i].pc = "ensure"
    BY <1>1, Enqueued
  <1>3. Shape' /\ SameWorld
    BY <1>1, <1>2 DEF Shape, SameWorld
  <1>4. Pins'
    BY <1>1, PinsBehind
  <1>5. Still' /\ Paths' /\ NoLeakedPin'
    BY <1>1, <1>3, StillStays, PathsStay DEF IInv, NoLeakedPin
  <1> QED BY <1>3, <1>4, <1>5, IInvOf

LEMMA ConnectStep == ASSUME IInv, NEW c \in Clients, Connect(c) PROVE IInv'
  <1> DEFINE p == [at |-> "joining", obj |-> None]
  <1>1. /\ Shape /\ Pins /\ Enqueue(Operation("observe", c)) /\ pins[c].at = "out"
        /\ pins' = [pins EXCEPT ![c] = p]
        /\ UNCHANGED <<env, closed, sess, op, catchUp, rec, run, driver, hib, disk,
                       freeze, wall, torn>>
    BY DEF IInv, Connect, registry
  <1>2. /\ queue' \in Seq(Ops) /\ \A i \in DOMAIN queue' : queue'[i].pc = "ensure"
        /\ DOMAIN queue' = DOMAIN queue \cup {Len(queue) + 1}
        /\ Len(queue) + 1 \notin DOMAIN queue
        /\ \A i \in DOMAIN queue : queue'[i] = queue[i]
        /\ queue'[Len(queue) + 1].k = "observe" /\ queue'[Len(queue) + 1].c = c
    BY <1>1, Enqueued
  <1>3. p \in PinStates /\ p.at = "joining" /\ p.obj = None
    BY DEF PinStates
  <1> HIDE DEF p
  <1>4. pins' \in [Clients -> PinStates] /\ pins'[c] = p
        /\ \A d \in Clients \ {c} : pins'[d] = pins[d]
    BY <1>1, <1>3 DEF Shape
  <1>5. Shape' /\ SameWorld
    BY <1>1, <1>2, <1>4 DEF Shape, SameWorld
  <1>6. pins[c].obj = None
    BY <1>1 DEF Pins
  <1>7. \A i \in DOMAIN queue : queue[i].k = "observe" => queue[i].c # c
    BY <1>1 DEF Pins
  <1>8. op # None /\ op.k = "observe" => op.c # c
    BY <1>1 DEF Pins
  <1>9. Pins'
    <2>1. \A d \in Clients : pins'[d].obj # None => pins'[d].at = "open"
      BY <1>1, <1>3, <1>4 DEF Pins
    <2>2. op' # None /\ op'.k = "observe" =>
             op'.c \in Clients /\ pins'[op'.c].at \in {"joining", "left"}
      BY <1>1, <1>4, <1>8 DEF Pins
    <2>3. \A i \in DOMAIN queue' : queue'[i].k = "observe" =>
             /\ queue'[i].c \in Clients /\ pins'[queue'[i].c].at \in {"joining", "left"}
             /\ op' # None /\ op'.k = "observe" => op'.c # queue'[i].c
      BY <1>1, <1>2, <1>3, <1>4, <1>7, <1>8 DEF Pins
    <2>4. \A i, j \in DOMAIN queue' :
             queue'[i].k = "observe" /\ queue'[j].k = "observe" /\ queue'[i].c = queue'[j].c
               => i = j
      BY <1>1, <1>2, <1>7 DEF Pins
    <2> QED BY <2>1, <2>2, <2>3, <2>4 DEF Pins
  <1>10. \A o \in Objects : Holders(o)' = Holders(o)
    BY <1>3, <1>4, <1>6 DEF Holders
  <1>11. NoLeakedPin'
    BY <1>1, <1>10, CountStays DEF IInv, Shape
  <1>12. Still' /\ Paths'
    BY <1>1, <1>5, StillStays, PathsStay DEF IInv
  <1> QED BY <1>5, <1>9, <1>11, <1>12, IInvOf

LEMMA DisconnectStep == ASSUME IInv, NEW c \in Clients, Disconnect(c) PROVE IInv'
  <1> DEFINE p == [at |-> IF pins[c].at = "joining" THEN "left" ELSE "out", obj |-> None]
  <1>1. /\ Shape /\ Pins /\ pins[c].at \in {"joining", "open"}
        /\ pins' = [pins EXCEPT ![c] = p]
        /\ sess' = IF sess # None /\ pins[c].obj = sess.obj THEN Released(sess) ELSE sess
        /\ UNCHANGED <<env, closed, op, queue, catchUp, rec, run, driver, hib, disk,
                       freeze, wall, left, torn>>
    BY DEF IInv, Disconnect, registry
  <1>2. p \in PinStates /\ p.obj = None /\ (pins[c].at = "joining" => p.at = "left")
    BY DEF PinStates
  <1> HIDE DEF p
  <1>3. pins' \in [Clients -> PinStates] /\ pins'[c] = p
        /\ \A d \in Clients \ {c} : pins'[d] = pins[d]
    BY <1>1, <1>2 DEF Shape
  <1>4. /\ sess' \in SessionState \cup {None} /\ (sess' = None <=> sess = None)
        /\ sess # None =>
             sess'.obj = sess.obj /\ (sess'.status = "hibernated" => sess.status = "hibernated")
    <2>1. CASE sess # None /\ pins[c].obj = sess.obj
      <3>1. sess \in SessionState /\ sess' = Released(sess)
        BY <1>1, <2>1 DEF Shape
      <3> QED BY <2>1, <3>1, ReleasedIs, WorldSessionAssumption
    <2>2. CASE ~(sess # None /\ pins[c].obj = sess.obj)
      BY <1>1, <2>2 DEF Shape
    <2> QED BY <2>1, <2>2
  <1>5. Shape' /\ SameWorld
    BY <1>1, <1>3, <1>4 DEF Shape, SameWorld
  <1>6. Pins'
    BY <1>1, <1>2, <1>3 DEF Pins
  <1>7. NoLeakedPin'
    <2>1. CASE sess # None /\ pins[c].obj = sess.obj
      <3>1. /\ sess \in SessionState /\ sess' = Released(sess)
            /\ sess.observers \in Nat /\ sess.obj \in Objects
            /\ sess'.observers = IF sess.observers > 0 THEN sess.observers - 1 ELSE 0
        BY <1>1, <2>1, ReleasedIs DEF Shape, SessionState
      <3> DEFINE H == Holders(sess.obj)
      <3>2. H = Holders(sess.obj)' \cup {c} /\ c \notin Holders(sess.obj)'
        BY <1>2, <1>3, <1>4, <2>1, <3>1, WorldSessionAssumption DEF Holders
      <3>3. Holders(sess.obj)' = H \ {c} /\ c \in H
        BY <3>2
      <3>4. Cardinality(H) \in Nat /\ IsFiniteSet(H)
        BY HoldersFinite
      <3>5. sess.observers <= Cardinality(H)
        BY <2>1, CountIs DEF IInv
      <3> HIDE DEF H
      <3>6. Cardinality(H \ {c}) = Cardinality(H) - 1
        BY <3>3, <3>4, FS_RemoveElement
      <3>7. Cardinality(H) - 1 \in Nat
        BY <3>4, <3>6, FS_Subset, FS_CardinalityType
      <3>8. (sess.observers <= Cardinality(Holders(sess.obj)))'
        BY <3>1, <3>3, <3>4, <3>5, <3>6, <3>7
      <3> QED BY <3>8 DEF NoLeakedPin, Holders
    <2>2. CASE sess # None /\ pins[c].obj # sess.obj
      <3>1. sess' = sess /\ Holders(sess.obj)' = Holders(sess.obj)
        <4>1. sess' = sess /\ sess.obj # None
          BY <1>1, <2>2, WorldSessionAssumption DEF Shape, SessionState
        <4> QED BY <1>2, <1>3, <2>2, <4>1 DEF Holders
      <3>2. (sess.observers <= Cardinality(Holders(sess.obj)))'
        BY <2>2, <3>1, CountIs DEF IInv
      <3> QED BY <3>2 DEF NoLeakedPin, Holders
    <2>3. CASE sess = None
      BY <1>4, <2>3 DEF NoLeakedPin
    <2> QED BY <2>1, <2>2, <2>3
  <1>8. Still' /\ Paths'
    BY <1>1, <1>5, StillStays, PathsStay DEF IInv
  <1> QED BY <1>5, <1>6, <1>7, <1>8, IInvOf

----------------------------------------------------------------------------
(* What lands from outside *)

\* Where something outside may land, an operation is at one of its waits.
LEMMA SettledIs ==
    ASSUME Settled
    PROVE  ~At({"ensure", "create", "check", "rebuild"})
  BY DEF Settled, At

LEMMA StoppedOne ==
    ASSUME Shape, NEW r \in Runtimes, run' = [run EXCEPT ![r] = Stopped]
    PROVE  /\ run' \in [Runtimes -> Runs] /\ run'[r] = Stopped
           /\ \A q \in Runtimes : q # r => run'[q] = run[q]
  BY StoppedIs DEF Shape

LEMMA FreezeStep == ASSUME IInv, Freeze PROVE IInv'
  <1>1. /\ Shape /\ Settled /\ hib = None /\ Alive(rec) /\ freeze' = rec
        /\ run' = [run EXCEPT ![rec].st = "paused"]
        /\ UNCHANGED <<env, closed, sess, op, queue, catchUp, pins, rec, driver, hib, disk,
                       wall, torn>>
    BY DEF IInv, Freeze, service
  <1>2. rec \in Runtimes
    BY <1>1 DEF Shape, Alive
  <1>3. /\ run' \in [Runtimes -> Runs]
        /\ \A q \in Runtimes : run'[q] = Stopped <=> run[q] = Stopped
    BY <1>1, <1>2, Touched
  <1>4. Shape'
    BY <1>1, <1>2, <1>3 DEF Shape
  <1>5. ~At({"create", "check"}) /\ (closed /\ On => ~For({"quiesce", "building"}, {"adopt"}))
    BY <1>1, SettledIs DEF IInv, Paths, NothingToFreeze, At
  <1>6. ~For({"building"}, {"create"})
    BY <1>1, WorldSessionAssumption DEF IInv, Paths, Fresh, Alive
  <1>7. Still'
    <2>1. OneWorld'
      BY <1>1, <1>3 DEF IInv, Still, OneWorld
    <2>2. FreezeWaits'
      BY <1>1, <1>2, <1>3 DEF IInv, Still, FreezeWaits, Up, On, Alive
    <2> QED BY <1>1, <2>1, <2>2 DEF IInv, Still, Known, On
  <1>8. Paths'
    <2>1. (Waits /\ Untorn)'
      BY <1>1 DEF IInv, Paths, Waits, Untorn, At, For
    <2>2. HasSession'
      <3>1. For({"quiesce"}, {"land"}) => op.rt \in Runtimes
        BY DEF IInv, Paths, Waits, At, For
      <3> QED BY <1>1, <1>3, <3>1 DEF IInv, Paths, HasSession, At, For, Up, On, Alive
    <2>3. (NothingToFreeze /\ Fresh)'
      BY <1>1, <1>2, <1>5, <1>6 DEF NothingToFreeze, Fresh, At, For, Up, On
    <2> QED BY <2>1, <2>2, <2>3 DEF Paths
  <1>9. Pins' /\ NoLeakedPin'
    BY <1>1, PinsStay DEF IInv, NoLeakedPin
  <1> QED BY <1>4, <1>7, <1>8, <1>9, IInvOf

LEMMA FrozenStep == ASSUME IInv, Frozen PROVE IInv'
  <1>1. /\ Shape /\ Settled /\ freeze \in Runtimes /\ freeze' = None
        /\ UNCHANGED <<env, closed, op, queue, catchUp, pins, wall>>
        /\ ~Alive(freeze)'
    BY DEF IInv, Frozen, Shape, Alive
  <1>2. Pins'
    BY <1>1, PinsStay DEF IInv
  <1>3. ~At({"create", "check"})
    BY <1>1, SettledIs DEF At
  <1>4. CASE ~Alive(freeze)
    <2>1. UNCHANGED <<sess, rec, run, driver, hib, disk, torn>>
      BY <1>4 DEF Frozen, registry
    <2>2. Shape'
      BY <1>1, <2>1 DEF Shape
    <2>3. Still'
      BY <1>1, <2>1 DEF IInv, Still, OneWorld, Known, FreezeWaits, Up, On, Alive
    <2>4. (Waits /\ Untorn /\ HasSession)'
      BY <1>1, <2>1 DEF IInv, Paths, Waits, Untorn, HasSession, At, For, Up, On, Alive
    <2>5. (NothingToFreeze /\ Fresh)'
      BY <1>1, <1>3, <2>1 DEF IInv, Paths, NothingToFreeze, Fresh, At, For, Up, On, Alive
    <2> QED BY <1>1, <1>2, <2>1, <2>2, <2>3, <2>4, <2>5, IInvOf DEF Paths, IInv, NoLeakedPin
  <1>5. CASE Alive(freeze)
    <2> DEFINE t == run[freeze].t
               o == IF sess = None THEN NewObject ELSE sess.obj
    <2>1. /\ disk' = [dir |-> TRUE, at |-> t] /\ hib' = t /\ rec' = None /\ driver' = None
          /\ run' = [run EXCEPT ![freeze] = Stopped] /\ torn' = (torn \/ Building)
          /\ sess' = Session(o, "hibernated") /\ (sess = None => NewObjects # {})
      BY <1>5 DEF Frozen
    <2>2. t \in Moments /\ t # None
      BY <1>1, WorldSessionAssumption DEF Shape, Runs, Moments
    <2>3. o \in Objects /\ (sess # None => o = sess.obj)
      BY <1>1, <2>1, NewObjectIs DEF Shape, SessionState
    <2> HIDE DEF t, o
    <2>4. sess' \in SessionState /\ sess' # None /\ sess'.obj = o /\ sess'.observers = 0
      BY <2>1, <2>3, NewSession DEF Statuses
    <2>5. torn' \in BOOLEAN /\ (~torn' => ~torn /\ ~Building)
      BY <1>1, <2>1 DEF Shape
    <2>6. /\ run' \in [Runtimes -> Runs] /\ run'[freeze] = Stopped
          /\ \A q \in Runtimes : q # freeze => run'[q] = run[q]
      BY <1>1, <2>1, StoppedOne
    <2>7. ~Alive(rec)' /\ hib' # None
      BY <2>1, <2>2 DEF Alive
    <2>8. Shape'
      BY <1>1, <2>1, <2>2, <2>4, <2>5, <2>6 DEF Shape
    <2>9. OneWorld'
      <3>1. ~torn => \A q \in Runtimes : q # freeze => run[q] = Stopped
        BY <1>1, <1>5 DEF IInv, Still, OneWorld, Alive
      <3> QED BY <2>1, <2>5, <2>6, <3>1 DEF OneWorld
    <2>10. (Known /\ FreezeWaits)'
      BY <1>1, <2>1, <2>4, <2>7 DEF Known, FreezeWaits
    <2>11. ~For({"building"}, {"create"})
      BY <1>5 DEF IInv, Paths, Fresh
    <2>12. (Waits /\ Untorn /\ Fresh)'
      BY <1>1, <2>1, <2>5, <2>11 DEF IInv, Paths, Waits, Untorn, Fresh, At, For, Building
    <2>13. HasSession'
      BY <1>1, <2>3, <2>4 DEF IInv, Paths, HasSession, At, For, Up, On
    <2>14. NothingToFreeze'
      BY <1>1, <2>7 DEF NothingToFreeze
    <2>15. NoLeakedPin'
      BY <1>1, <2>4, CountStays DEF IInv, Holders
    <2> QED BY <1>2, <2>8, <2>9, <2>10, <2>12, <2>13, <2>14, <2>15, IInvOf DEF Still, Paths
  <1> QED BY <1>4, <1>5

LEMMA DiscardStep == ASSUME IInv, Discard PROVE IInv'
  <1>1. /\ Shape /\ Settled /\ hib' = None /\ disk' = NoDisk
        /\ torn' = (torn \/ Building)
        /\ UNCHANGED <<env, closed, sess, op, queue, catchUp, pins, rec, run, driver, freeze,
                       wall>>
    BY DEF IInv, Discard, service
  <1>2. disk' \in [dir : BOOLEAN, at : Moments \cup {None}] /\ disk'.at = None
    BY <1>1 DEF NoDisk
  <1>3. torn' \in BOOLEAN /\ (~torn' => ~torn /\ ~Building)
    BY <1>1 DEF Shape
  <1>4. ~At({"create", "check"})
    BY <1>1, SettledIs DEF At
  <1>5. Shape'
    BY <1>1, <1>2, <1>3 DEF Shape
  <1>6. Still'
    BY <1>1, <1>2, <1>3 DEF IInv, Still, OneWorld, Known, FreezeWaits, Up, On, Alive
  <1>7. (Waits /\ Untorn /\ Fresh)'
    BY <1>1, <1>2, <1>3 DEF IInv, Paths, Waits, Untorn, Fresh, At, For, Building, Alive
  <1>8. (HasSession /\ NothingToFreeze)'
    BY <1>1, <1>4 DEF IInv, Paths, HasSession, NothingToFreeze, At, For, Up, On, Alive
  <1>9. Pins' /\ NoLeakedPin'
    BY <1>1, PinsStay DEF IInv, NoLeakedPin
  <1> QED BY <1>5, <1>6, <1>7, <1>8, <1>9, IInvOf DEF Paths

\* The runtime of the record stops, if there is a record.
LEMMA RecordStopped ==
    ASSUME Shape, run' = IF rec = None THEN run ELSE [run EXCEPT ![rec] = Stopped]
    PROVE  /\ run' \in [Runtimes -> Runs] /\ (rec # None => run'[rec] = Stopped)
           /\ \A q \in Runtimes : q # rec => run'[q] = run[q]
  <1>1. CASE rec = None
    BY <1>1 DEF Shape
  <1>2. CASE rec # None
    BY <1>2, StoppedIs DEF Shape
  <1> QED BY <1>1, <1>2

LEMMA DeleteStep == ASSUME IInv, Delete PROVE IInv'
  <1>1. /\ Shape /\ Settled /\ env' = "gone" /\ sess' = None
        /\ run' = IF rec = None THEN run ELSE [run EXCEPT ![rec] = Stopped]
        /\ driver' = IF rec = None THEN driver ELSE None
        /\ rec' = None /\ hib' = None
        /\ disk' = IF rec = None /\ hib = None THEN disk ELSE NoDisk
        /\ torn' = (torn \/ Building)
        /\ UNCHANGED <<closed, op, queue, catchUp, pins, freeze, wall>>
    BY DEF IInv, Delete
  <1>2. /\ run' \in [Runtimes -> Runs] /\ (rec # None => run'[rec] = Stopped)
        /\ \A q \in Runtimes : q # rec => run'[q] = run[q]
    BY <1>1, RecordStopped
  <1>3. disk' \in [dir : BOOLEAN, at : Moments \cup {None}] /\ (disk'.at # None => disk' = disk)
    BY <1>1 DEF NoDisk, Shape
  <1>4. torn' \in BOOLEAN /\ (~torn' => ~torn /\ ~Building)
    BY <1>1 DEF Shape
  <1>5. Shape'
    BY <1>1, <1>2, <1>3, <1>4 DEF Shape
  <1>6. ~On'
    BY <1>1 DEF On
  <1>7. OneWorld'
    BY <1>1, <1>2, <1>4 DEF IInv, Still, OneWorld
  <1>8. (Known /\ FreezeWaits)'
    BY <1>3, <1>6 DEF IInv, Still, Known, FreezeWaits, Up
  <1>9. (Waits /\ Untorn)'
    BY <1>1, <1>4 DEF IInv, Paths, Waits, Untorn, At, For, Building
  <1>10. Fresh'
    <2>1. For({"building"}, {"create"}) => disk'.at = None /\ ~Alive(freeze)'
      BY <1>1, <1>2, <1>3 DEF IInv, Paths, Fresh, Alive, Shape
    <2> QED BY <1>1, <2>1 DEF Fresh, At, For
  <1>11. (HasSession /\ NothingToFreeze)'
    BY <1>6 DEF HasSession, NothingToFreeze, Up
  <1>12. Pins' /\ NoLeakedPin'
    BY <1>1, PinsStay DEF IInv, NoLeakedPin
  <1> QED BY <1>5, <1>7, <1>8, <1>9, <1>10, <1>11, <1>12, IInvOf DEF Still, Paths

LEMMA CloseStep == ASSUME IInv, Close PROVE IInv'
  <1>1. /\ Shape /\ Settled /\ ~closed /\ closed' = TRUE /\ sess' = None
        /\ catchUp' = [catchUp EXCEPT !.queued = FALSE]
        /\ run' = IF rec = None THEN run ELSE [run EXCEPT ![rec] = Stopped]
        /\ driver' = IF rec = None THEN driver ELSE None
        /\ torn' = (torn \/ Building)
        /\ UNCHANGED <<env, op, queue, pins, rec, hib, disk, freeze, wall>>
    BY DEF IInv, Close
  <1>2. /\ run' \in [Runtimes -> Runs] /\ (rec # None => run'[rec] = Stopped)
        /\ \A q \in Runtimes : q # rec => run'[q] = run[q]
    BY <1>1, RecordStopped
  <1>3. torn' \in BOOLEAN /\ (~torn' => ~torn /\ ~Building)
    BY <1>1 DEF Shape
  <1>4. catchUp' \in [queued : BOOLEAN, target : Moments \cup {None}]
    BY <1>1 DEF Shape
  <1>5. Shape'
    BY <1>1, <1>2, <1>3, <1>4 DEF Shape
  <1>6. ~Up' /\ ~Alive(rec)' /\ (Alive(freeze)' => Alive(freeze) /\ freeze # rec)
    BY <1>1, <1>2 DEF Up, Alive, Shape
  <1>7. ~At({"create", "check"})
    BY <1>1, SettledIs DEF At
  <1>8. OneWorld'
    BY <1>1, <1>2, <1>3 DEF IInv, Still, OneWorld
  <1>9. (Known /\ FreezeWaits)'
    BY <1>1, <1>6 DEF IInv, Still, Known, FreezeWaits, On
  <1>10. (Waits /\ Untorn)'
    BY <1>1, <1>3 DEF IInv, Paths, Waits, Untorn, At, For, Building
  <1>11. (Fresh /\ HasSession)'
    BY <1>1, <1>6 DEF IInv, Paths, Fresh, HasSession, At, For
  <1>12. NothingToFreeze'
    BY <1>1, <1>6, <1>7 DEF IInv, Paths, NothingToFreeze, At, For, Up, On
  <1>13. Pins' /\ NoLeakedPin'
    BY <1>1, PinsStay DEF IInv, NoLeakedPin
  <1> QED BY <1>5, <1>8, <1>9, <1>10, <1>11, <1>12, <1>13, IInvOf DEF Still, Paths

LEMMA RebootStep == ASSUME IInv, Reboot PROVE IInv'
  <1>1. /\ Shape /\ closed' = FALSE /\ op' = None
        /\ catchUp' = [queued |-> FALSE, target |-> None]
        /\ pins' = [c \in Clients |-> [at |-> "out", obj |-> None]]
        /\ rec' = None /\ driver' = None /\ freeze' = None
        /\ run' = [r \in Runtimes |-> Stopped]
        /\ hib' = IF Adopted THEN disk.at ELSE None
        /\ sess' = IF Adopted THEN Session(Least(Objects), "hibernated") ELSE None
        /\ torn' = FALSE /\ UNCHANGED <<env, disk, wall>>
    BY DEF IInv, Reboot
  <1>2. queue' \in Seq(Ops) /\ \A i \in DOMAIN queue' : queue'[i].pc = "ensure" /\ queue'[i].k = "mutate"
    <2>1. Operation("mutate", None) \in Ops /\ Operation("mutate", None).pc = "ensure"
          /\ Operation("mutate", None).k = "mutate"
      BY WorldSessionAssumption DEF Operation, Ops, Steps, Moments
    <2>2. queue' = <<Operation("mutate", None)>> \/ queue' = << >>
      BY DEF Reboot
    <2> DEFINE o == Operation("mutate", None)
    <2> HIDE DEF o
    <2>3. CASE queue' = <<o>>
      BY <2>1, <2>3 DEF o
    <2>4. CASE queue' = << >>
      BY <2>4
    <2> QED BY <2>2, <2>3, <2>4 DEF o
  <1>3. sess' # None => sess' \in SessionState /\ sess'.observers = 0
    <2>1. Least(Objects) \in Objects
      BY LeastIs, WorldSessionAssumption
    <2> QED BY <1>1, <2>1, NewSession DEF Statuses
  <1>4. hib' \in Moments \cup {None} /\ (hib' = None <=> ~Adopted)
    BY <1>1 DEF Shape, Adopted
  <1>5. pins' \in [Clients -> PinStates]
    BY <1>1 DEF PinStates
  <1>6. Shape'
    BY <1>1, <1>2, <1>3, <1>4, <1>5, StoppedIs DEF Shape
  <1>7. Pins'
    BY <1>1, <1>2 DEF Pins
  <1>8. NoLeakedPin'
    <2>1. {c \in Clients : pins'[c].obj = sess'.obj} \in SUBSET Clients
      OBVIOUS
    <2>2. Cardinality({c \in Clients : pins'[c].obj = sess'.obj}) \in Nat
      BY <2>1, WorldSessionAssumption, FS_Subset, FS_CardinalityType
    <2> QED BY <1>3, <2>2 DEF NoLeakedPin
  <1>9. Still'
    <2>1. OneWorld'
      BY <1>1 DEF OneWorld
    <2>2. Known'
      BY <1>1, <1>4 DEF IInv, Still, Known, On, Adopted
    <2>3. FreezeWaits'
      BY <1>1 DEF FreezeWaits, Alive
    <2> QED BY <2>1, <2>2, <2>3 DEF Still
  <1>10. Paths'
    BY <1>1, OffPath
  <1> QED BY <1>6, <1>7, <1>8, <1>9, <1>10, IInvOf

----------------------------------------------------------------------------
(* The operations *)

LEMMA CreatePath ==
    ASSUME op'.pc = "create", On' => ~Alive(freeze)'
    PROVE  Paths'
  BY DEF Paths, Waits, Untorn, HasSession, NothingToFreeze, Fresh, At, For

LEMMA CheckPath ==
    ASSUME op'.pc = "check", Up' => sess' # None /\ sess'.obj = op'.obj,
           On' /\ Alive(freeze)' => Alive(rec)' \/ hib' # None
    PROVE  Paths'
  BY DEF Paths, Waits, Untorn, HasSession, NothingToFreeze, Fresh, At, For

\* The next request of the queue becomes the operation.
LEMMA PinsBegin ==
    ASSUME Shape, Pins, op = None, queue # << >>, queue' = Tail(queue), pins' = pins,
           op' # None => op'.k = Head(queue).k /\ op'.c = Head(queue).c
    PROVE  /\ Pins' /\ queue' \in Seq(Ops)
           /\ \A i \in DOMAIN queue' : queue'[i].pc = "ensure"
  <1>1. Head(queue) = queue[1] /\ 1 \in DOMAIN queue
    BY DEF Shape
  <1>2. /\ queue' \in Seq(Ops)
        /\ \A i \in DOMAIN queue' :
             i + 1 \in DOMAIN queue /\ queue'[i] = queue[i + 1] /\ i \in Nat /\ i >= 1
    BY DEF Shape
  <1>3. \A i \in DOMAIN queue' : queue'[i].pc = "ensure"
    BY <1>2 DEF Shape
  <1>4. \A i \in DOMAIN queue' : queue'[i].k = "observe" =>
           /\ queue'[i].c \in Clients /\ pins[queue'[i].c].at \in {"joining", "left"}
           /\ queue[1].k = "observe" => queue[1].c # queue'[i].c
    <2> SUFFICES ASSUME NEW i \in DOMAIN queue', queue'[i].k = "observe"
                 PROVE  /\ queue'[i].c \in Clients
                        /\ pins[queue'[i].c].at \in {"joining", "left"}
                        /\ queue[1].k = "observe" => queue[1].c # queue'[i].c
      OBVIOUS
    <2>1. i + 1 \in DOMAIN queue /\ queue'[i] = queue[i + 1] /\ i + 1 # 1
      BY <1>2
    <2> QED BY <1>1, <2>1 DEF Pins
  <1>5. \A i, j \in DOMAIN queue' :
           queue'[i].k = "observe" /\ queue'[j].k = "observe" /\ queue'[i].c = queue'[j].c
             => i = j
    <2> SUFFICES ASSUME NEW i \in DOMAIN queue', NEW j \in DOMAIN queue',
                        queue'[i].k = "observe", queue'[j].k = "observe",
                        queue'[i].c = queue'[j].c
                 PROVE  i = j
      OBVIOUS
    <2>1. i + 1 \in DOMAIN queue /\ queue'[i] = queue[i + 1] /\ i \in Nat
          /\ j + 1 \in DOMAIN queue /\ queue'[j] = queue[j + 1] /\ j \in Nat
      BY <1>2
    <2>2. i + 1 = j + 1
      BY <2>1 DEF Pins
    <2> QED BY <2>1, <2>2
  <1>6. op' # None /\ op'.k = "observe" =>
           op'.c \in Clients /\ pins[op'.c].at \in {"joining", "left"}
    BY <1>1 DEF Pins
  <1>7. Pins'
    BY <1>1, <1>4, <1>5, <1>6 DEF Pins
  <1> QED BY <1>2, <1>3, <1>7

LEMMA BeginStep == ASSUME IInv, Begin PROVE IInv'
  <1> DEFINE o == [Head(queue) EXCEPT !.had = sess # None]
  <1>1. /\ Shape /\ Pins /\ op = None /\ queue # << >> /\ queue' = Tail(queue)
        /\ \/ op' = None
           \/ ~closed /\ sess = None /\ op' = [o EXCEPT !.pc = "create"]
           \/ op' = o
        /\ UNCHANGED <<env, closed, sess, catchUp, pins, rec, run, driver, hib, disk, freeze,
                       wall, torn>>
    BY DEF IInv, Begin, registry
  <1>2. Head(queue) \in Ops /\ Head(queue).pc = "ensure"
    BY <1>1 DEF Shape
  <1>3. o \in Ops /\ o.pc = "ensure" /\ o.k = Head(queue).k /\ o.c = Head(queue).c
    <2>1. (sess # None) \in BOOLEAN
      OBVIOUS
    <2> QED BY <1>2, <2>1 DEF Ops
  <1> HIDE DEF o
  <1>4. /\ op' \in Ops \cup {None}
        /\ op' # None => op'.k = Head(queue).k /\ op'.c = Head(queue).c
        /\ \/ op' = None \/ op'.pc = "ensure"
           \/ op'.pc = "create" /\ ~closed /\ sess = None
    <2>1. CASE op' = None
      BY <2>1
    <2>2. CASE ~closed /\ sess = None /\ op' = [o EXCEPT !.pc = "create"]
      BY <1>3, <2>2 DEF Ops, Steps
    <2>3. CASE op' = o
      BY <1>3, <2>3
    <2> QED BY <1>1, <2>1, <2>2, <2>3
  <1>5. Pins' /\ queue' \in Seq(Ops) /\ \A i \in DOMAIN queue' : queue'[i].pc = "ensure"
    BY <1>1, <1>4, PinsBegin
  <1>6. Shape' /\ SameWorld
    BY <1>1, <1>4, <1>5 DEF Shape, SameWorld
  <1>7. Still' /\ NoLeakedPin'
    BY <1>1, <1>6, StillStays DEF IInv, NoLeakedPin
  <1>8. Paths'
    <2>1. CASE op' = None \/ op'.pc = "ensure"
      BY <2>1, OffPath
    <2>2. CASE op'.pc = "create" /\ ~closed /\ sess = None
      <3>1. On' => ~Alive(freeze)'
        BY <1>1, <2>2 DEF IInv, Still, FreezeWaits, Up, On, Alive
      <3> QED BY <2>2, <3>1, CreatePath
    <2> QED BY <1>4, <2>1, <2>2
  <1> QED BY <1>5, <1>6, <1>7, <1>8, IInvOf

\* The operation rejects, and nothing else happens.
LEMMA ThrewStep ==
    ASSUME IInv, op # None, Threw,
           UNCHANGED <<env, closed, sess, queue, catchUp, rec, run, driver, hib, disk, freeze,
                       wall, torn>>
    PROVE  IInv'
  <1>1. Shape /\ Pins
    BY DEF IInv
  <1>2. /\ Pins' /\ pins' \in [Clients -> PinStates] /\ op' \in Ops \cup {None}
        /\ op' = None \/ op'.pc = "rebuild"
        /\ \A h \in Objects : Holders(h)' = Holders(h)
    BY <1>1, ThrewIs
  <1>3. Shape' /\ SameWorld
    BY <1>1, <1>2 DEF Shape, SameWorld
  <1>4. NoLeakedPin'
    BY <1>1, <1>2, CountStays DEF IInv, Shape
  <1>5. Still' /\ Paths'
    BY <1>1, <1>2, <1>3, StillStays, OffPath DEF IInv
  <1> QED BY <1>2, <1>3, <1>4, <1>5, IInvOf

\* There is neither a checkpoint nor a usable record: the husk is discarded.
LEMMA HuskStep ==
    ASSUME IInv, op # None, hib = None, ~Alive(rec),
           On => ~Alive(freeze),
           sess' = None, rec' = None,
           driver' = IF rec # None THEN None ELSE driver,
           disk' = IF rec # None THEN NoDisk ELSE disk,
           op' \in Ops, op'.pc = "create", op'.k = op.k, op'.c = op.c,
           UNCHANGED <<env, closed, queue, catchUp, pins, run, hib, freeze, wall, torn>>
    PROVE  IInv'
  <1>1. disk' \in [dir : BOOLEAN, at : Moments \cup {None}]
        /\ (disk'.at # None => disk' = disk /\ rec = None)
    BY DEF IInv, Shape, NoDisk
  <1>2. Shape'
    BY <1>1 DEF IInv, Shape
  <1>3. OneWorld'
    BY DEF IInv, Still, OneWorld, Alive, Shape
  <1>4. Known'
    BY <1>1 DEF IInv, Still, Known, On
  <1>5. ~Alive(rec)' /\ (On' => ~Alive(freeze)')
    BY DEF Alive, On
  <1>6. FreezeWaits'
    BY <1>5 DEF FreezeWaits, Up
  <1>7. Paths'
    BY <1>5, CreatePath
  <1>8. Pins' /\ NoLeakedPin'
    BY PinsStay DEF IInv, NoLeakedPin
  <1> QED BY <1>2, <1>3, <1>4, <1>6, <1>7, <1>8, IInvOf DEF Still

\* Nothing changes but how far the operation is.
LEMMA OpStep ==
    ASSUME IInv, op # None, op' \in Ops, op'.k = op.k, op'.c = op.c, Paths',
           UNCHANGED <<env, closed, sess, queue, catchUp, pins, rec, run, driver, hib, disk,
                       freeze, wall, torn>>
    PROVE  IInv'
  <1>1. Shape' /\ SameWorld
    BY DEF IInv, Shape, SameWorld
  <1>2. Still' /\ NoLeakedPin' /\ Pins'
    BY <1>1, StillStays, PinsStay DEF IInv, NoLeakedPin
  <1> QED BY <1>1, <1>2, IInvOf

LEMMA EnsureStep == ASSUME IInv, Ensure PROVE IInv'
  <1>1. /\ Shape /\ op \in Ops /\ op # None /\ op.pc = "ensure"
        /\ UNCHANGED <<env, closed, queue, catchUp, freeze, wall, torn>>
    BY DEF IInv, Shape, Ensure
  <1>2. /\ ~closed /\ On => (Alive(freeze) => Alive(rec))
        /\ ~closed /\ On /\ sess = None => ~Alive(rec) /\ ~Alive(freeze)
    BY DEF IInv, Still, FreezeWaits, Up
  <1>3. CASE closed /\ Threw /\ UNCHANGED <<sess, registry>>
    BY <1>1, <1>3, ThrewStep DEF registry
  <1>4. CASE /\ ~closed /\ sess = None /\ disk.at # None /\ rec = None /\ hib = None
             /\ NewObjects # {} /\ hib' = disk.at /\ sess' = Session(NewObject, "hibernated")
             /\ UNCHANGED <<op, pins, rec, run, driver, disk>>
    <2>1. /\ sess' \in SessionState /\ sess' # None /\ sess'.observers = 0
      BY <1>4, NewObjectIs, NewSession DEF Statuses
    <2>2. Shape'
      BY <1>1, <1>4, <2>1 DEF Shape
    <2>3. OneWorld' /\ Known'
      BY <1>1, <1>4 DEF IInv, Still, OneWorld, Known, On
    <2>4. FreezeWaits'
      BY <1>1, <1>2, <1>4, <2>1 DEF FreezeWaits, Up, On, Alive
    <2>5. Paths'
      BY <1>1, <1>4, OffPath
    <2>6. Pins'
      BY <1>1, <1>4, PinsStay DEF IInv
    <2>7. NoLeakedPin'
      BY <1>1, <1>4, <2>1, CountStays DEF IInv, Holders
    <2> QED BY <2>2, <2>3, <2>4, <2>5, <2>6, <2>7, IInvOf DEF Still
  <1>5. CASE /\ ~closed /\ sess = None /\ op' = [op EXCEPT !.pc = "create"]
             /\ UNCHANGED <<sess, pins, registry>>
    <2>1. op' \in Ops /\ op'.pc = "create" /\ op'.k = op.k /\ op'.c = op.c
      BY <1>1, <1>5 DEF Ops, Steps
    <2>2. On' => ~Alive(freeze)'
      BY <1>1, <1>2, <1>5 DEF On, Alive, registry
    <2>3. Paths'
      BY <2>1, <2>2, CreatePath
    <2> QED BY <1>1, <1>5, <2>1, <2>3, OpStep DEF registry
  <1>6. CASE /\ ~closed /\ sess # None /\ op' = [op EXCEPT !.pc = "check", !.obj = sess.obj]
             /\ UNCHANGED <<sess, pins, registry>>
    <2>1. op' \in Ops /\ op'.pc = "check" /\ op'.k = op.k /\ op'.c = op.c /\ op'.obj = sess.obj
      BY <1>1, <1>6 DEF Ops, Steps, Shape, SessionState
    <2>2. On' /\ Alive(freeze)' => Alive(rec)'
      BY <1>1, <1>2, <1>6 DEF On, Alive, registry
    <2>3. Paths'
      BY <1>6, <2>1, <2>2, CheckPath
    <2> QED BY <1>1, <1>6, <2>1, <2>3, OpStep DEF registry
  <1>7. CASE /\ ~closed /\ sess # None /\ hib # None
             /\ op' = [op EXCEPT !.pc = "check", !.obj = sess.obj, !.for = "wake"]
             /\ UNCHANGED <<sess, pins, registry>>
    <2>1. op' \in Ops /\ op'.pc = "check" /\ op'.k = op.k /\ op'.c = op.c /\ op'.obj = sess.obj
      BY <1>1, <1>7 DEF Ops, Steps, Shape, SessionState
    <2>2. hib' # None
      BY <1>7 DEF registry
    <2>3. Paths'
      BY <1>7, <2>1, <2>2, CheckPath
    <2> QED BY <1>1, <1>7, <2>1, <2>3, OpStep DEF registry
  <1>8. CASE /\ ~closed /\ sess # None /\ sess.status = "hibernated" /\ hib = None /\ Alive(rec)
             /\ sess' = [sess EXCEPT !.status = "idle"]
             /\ \/ /\ Simulatable /\ run' = [run EXCEPT ![rec].st = "paused"]
                   /\ op' = [op EXCEPT !.pc = "quiesce", !.for = "adopt", !.topo = env,
                                       !.rt = rec, !.obj = sess.obj]
                \/ op' = [op EXCEPT !.pc = "check", !.obj = sess.obj] /\ UNCHANGED run
             /\ UNCHANGED <<pins, rec, driver, hib, disk>>
    <2>1. /\ sess \in SessionState /\ sess' \in SessionState /\ sess' # None
          /\ sess'.obj = sess.obj /\ sess'.observers = sess.observers /\ sess'.status = "idle"
          /\ sess.obj \in Objects
      BY <1>1, <1>8, WorldSessionAssumption DEF Shape, SessionState, Statuses
    <2>2. rec \in Runtimes
      BY <1>1, <1>8 DEF Shape, Alive
    <2>3. /\ run' \in [Runtimes -> Runs]
          /\ \A q \in Runtimes : run'[q] = Stopped <=> run[q] = Stopped
      BY <1>1, <1>8, <2>2, Touched DEF Shape
    <2>4. SameWorld
      BY <1>1, <1>8, <2>1, <2>3 DEF SameWorld
    <2>5. Still'
      BY <1>1, <2>4, StillStays DEF IInv
    <2>6. On /\ Alive(freeze) => freeze = rec
      BY <1>8 DEF IInv, Still, FreezeWaits, Up
    <2>7. Alive(rec)' /\ (Alive(freeze)' => Alive(freeze))
      BY <1>1, <1>8, <2>2, <2>3 DEF Alive, Shape
    <2>8. op' \in Ops /\ op'.k = op.k /\ op'.c = op.c /\ Paths'
      <3>1. CASE op' = [op EXCEPT !.pc = "quiesce", !.for = "adopt", !.topo = env,
                                  !.rt = rec, !.obj = sess.obj] /\ Simulatable
        <4>1. /\ op' \in Ops /\ op'.k = op.k /\ op'.c = op.c /\ op'.pc = "quiesce"
              /\ op'.for = "adopt" /\ op'.topo \in {"plain", "hass"} /\ op'.rt = rec
              /\ op'.obj = sess.obj
          BY <1>1, <2>1, <2>2, <3>1 DEF Ops, Steps, Simulatable
        <4>2. (Waits /\ Untorn /\ Fresh)'
          BY <1>8, <2>2, <4>1, WorldSessionAssumption DEF Waits, Untorn, Fresh, At, For
        <4>3. (HasSession /\ NothingToFreeze)'
          BY <1>1, <1>8, <2>1, <2>6, <2>7, <4>1
             DEF HasSession, NothingToFreeze, At, For, Up, On
        <4> QED BY <4>1, <4>2, <4>3 DEF Paths
      <3>2. CASE op' = [op EXCEPT !.pc = "check", !.obj = sess.obj]
        <4>1. op' \in Ops /\ op'.pc = "check" /\ op'.k = op.k /\ op'.c = op.c
              /\ op'.obj = sess.obj
          BY <1>1, <2>1, <3>2 DEF Ops, Steps
        <4> QED BY <2>1, <2>7, <4>1, CheckPath
      <3> QED BY <1>8, <3>1, <3>2
    <2>9. Shape'
      BY <1>1, <1>8, <2>1, <2>3, <2>8 DEF Shape
    <2>10. Pins' /\ NoLeakedPin'
      BY <1>1, <1>8, <2>1, <2>8, PinsStay, CountStays DEF IInv, Holders
    <2> QED BY <2>5, <2>8, <2>9, <2>10, IInvOf
  <1>9. CASE /\ ~closed /\ hib = None /\ ~Alive(rec)
             /\ sess' = None /\ rec' = None
             /\ driver' = IF rec # None THEN None ELSE driver
             /\ disk' = IF rec # None THEN NoDisk ELSE disk
             /\ op' = [op EXCEPT !.pc = "create"]
             /\ UNCHANGED <<pins, run, hib>>
    <2>1. op' \in Ops /\ op'.pc = "create" /\ op'.k = op.k /\ op'.c = op.c
      BY <1>1, <1>9 DEF Ops, Steps
    <2>2. On => ~Alive(freeze)
      BY <1>2, <1>9
    <2> QED BY <1>1, <1>9, <2>1, <2>2, HuskStep
  <1> QED BY <1>3, <1>4, <1>5, <1>6, <1>7, <1>8, <1>9 DEF Ensure

LEMMA BuildIs ==
    ASSUME op \in Ops, Simulatable, NEW f \in {"create", "wake"}, NEW t \in Moments, Build(f, t)
    PROVE  /\ op' \in Ops /\ op'.k = op.k /\ op'.c = op.c /\ op'.obj = op.obj
           /\ op'.pc = "building" /\ op'.for = f /\ op'.topo \in {"plain", "hass"}
  <1>1. env \in {"plain", "hass"}
    BY DEF Simulatable
  <1>2. op' = [op EXCEPT !.pc = "building", !.for = f, !.topo = env, !.t = t]
    BY DEF Build
  <1> QED BY <1>1, <1>2 DEF Ops, Steps

\* The creation is refused and forgets what it found.
LEMMA ForgetStep ==
    ASSUME IInv, op # None, op.pc = "create", Simulatable, rec # None \/ hib # None,
           op' = [op EXCEPT !.retry = TRUE], hib' = None, disk' = NoDisk,
           IF hib # None THEN UNCHANGED <<rec, run, driver>>
           ELSE rec' = None /\ driver' = None /\ run' = [run EXCEPT ![rec] = Stopped],
           UNCHANGED <<env, closed, sess, queue, catchUp, pins, freeze, wall, torn>>
    PROVE  IInv'
  <1>1. Shape /\ op \in Ops /\ On
    BY WorldSessionAssumption DEF IInv, Shape, Simulatable, On
  <1>2. op' \in Ops /\ op'.pc = "create" /\ op'.k = op.k /\ op'.c = op.c
    BY <1>1 DEF Ops
  <1>3. disk' \in [dir : BOOLEAN, at : Moments \cup {None}] /\ disk'.at = None
    BY DEF NoDisk
  <1>4. ~Alive(freeze)
    BY <1>1 DEF IInv, Paths, NothingToFreeze, At
  <1>5. /\ run' \in [Runtimes -> Runs] /\ rec' \in {rec, None} /\ driver' \in {driver, None}
        /\ \A q \in Runtimes : run[q] = Stopped => run'[q] = Stopped
        /\ ~Alive(freeze)'
        /\ rec' = None \/ run' = run
    <2>1. CASE hib # None
      BY <1>1, <1>4, <2>1 DEF Shape, Alive
    <2>2. CASE hib = None
      <3>1. rec \in Runtimes /\ run' = [run EXCEPT ![rec] = Stopped] /\ rec' = None
            /\ driver' = None
        BY <1>1, <2>2 DEF Shape
      <3>2. run' \in [Runtimes -> Runs] /\ run'[rec] = Stopped
            /\ \A q \in Runtimes : q # rec => run'[q] = run[q]
        BY <1>1, <3>1, StoppedOne
      <3> QED BY <1>1, <1>4, <3>1, <3>2 DEF Shape, Alive
    <2> QED BY <2>1, <2>2
  <1>6. Shape'
    BY <1>1, <1>2, <1>3, <1>5 DEF Shape
  <1>7. OneWorld'
    <2>1. CASE hib # None
      BY <2>1 DEF IInv, Still, OneWorld
    <2>2. CASE hib = None
      <3>1. rec \in Runtimes /\ run' = [run EXCEPT ![rec] = Stopped] /\ rec' = None
            /\ driver' = None
        BY <1>1, <2>2 DEF Shape
      <3>2. run'[rec] = Stopped /\ \A q \in Runtimes : q # rec => run'[q] = run[q]
        BY <1>1, <3>1, StoppedOne
      <3> QED BY <3>1, <3>2 DEF IInv, Still, OneWorld
    <2> QED BY <2>1, <2>2
  <1>8. Known'
    BY <1>3 DEF Known
  <1>9. FreezeWaits'
    BY <1>5 DEF IInv, Still, FreezeWaits, Up, On, Alive
  <1>10. Paths'
    BY <1>2, <1>5, CreatePath
  <1>11. Pins' /\ NoLeakedPin'
    BY <1>2, PinsStay DEF IInv, NoLeakedPin
  <1> QED BY <1>6, <1>7, <1>8, <1>9, <1>10, <1>11, IInvOf DEF Still

LEMMA CreateStep == ASSUME IInv, Create PROVE IInv'
  <1>1. /\ Shape /\ op \in Ops /\ op # None /\ op.pc = "create"
        /\ UNCHANGED <<env, closed, sess, queue, catchUp, freeze, wall, torn>>
    BY DEF IInv, Shape, Create
  <1>2. CASE Threw /\ UNCHANGED registry
    BY <1>1, <1>2, ThrewStep DEF registry
  <1>3. CASE /\ Simulatable /\ rec = None /\ hib = None /\ Build("create", 0)
             /\ UNCHANGED <<pins, registry>>
    <2>1. /\ op' \in Ops /\ op'.k = op.k /\ op'.c = op.c /\ op'.pc = "building"
          /\ op'.for = "create" /\ op'.topo \in {"plain", "hass"}
      <3>1. 0 \in Moments
        BY WorldSessionAssumption DEF Moments
      <3> QED BY <1>1, <1>3, <3>1, BuildIs
    <2>2. On /\ disk.at = None /\ ~Alive(freeze)
      BY <1>1, <1>3 DEF IInv, Still, Known, Paths, NothingToFreeze, At, On, Simulatable
    <2>3. Fresh'
      BY <1>1, <1>3, <2>2 DEF Fresh, Alive, registry
    <2>4. Paths'
      BY <2>1, <2>3 DEF Paths, Waits, Untorn, HasSession, NothingToFreeze, At, For
    <2> QED BY <1>1, <1>3, <2>1, <2>4, OpStep DEF registry
  <1>4. CASE /\ Simulatable /\ (rec # None \/ hib # None)
             /\ op' = [op EXCEPT !.retry = TRUE] /\ hib' = None /\ disk' = NoDisk
             /\ IF hib # None THEN UNCHANGED <<rec, run, driver>>
                ELSE rec' = None /\ driver' = None /\ run' = [run EXCEPT ![rec] = Stopped]
             /\ UNCHANGED pins
    BY <1>1, <1>4, ForgetStep
  <1> QED BY <1>2, <1>3, <1>4 DEF Create

\* The marker is set, and the world is woken from its checkpoint.
LEMMA WakeStep ==
    ASSUME IInv, op # None, op.pc = "check", hib # None,
           sess' = IF sess # None /\ sess.obj = op.obj
                   THEN [sess EXCEPT !.status = "hibernated"] ELSE sess,
           IF Simulatable THEN Build("wake", hib) /\ UNCHANGED pins ELSE Threw,
           UNCHANGED <<env, closed, queue, catchUp, rec, run, driver, hib, disk, freeze, wall,
                       torn>>
    PROVE  IInv'
  <1>1. Shape /\ op \in Ops /\ Pins
    BY DEF IInv, Shape
  <1>2. /\ sess' \in SessionState \cup {None} /\ (sess' = None <=> sess = None)
        /\ sess # None => sess'.obj = sess.obj /\ sess'.observers = sess.observers
    <2>1. CASE sess # None /\ sess.obj = op.obj
      <3>1. sess \in SessionState /\ sess' = [sess EXCEPT !.status = "hibernated"]
        BY <1>1, <2>1 DEF Shape
      <3>2. sess' \in SessionState /\ sess'.obj = sess.obj /\ sess'.observers = sess.observers
        BY <3>1 DEF SessionState, Statuses
      <3> QED BY <2>1, <3>2, WorldSessionAssumption
    <2>2. CASE ~(sess # None /\ sess.obj = op.obj)
      BY <1>1, <2>2 DEF Shape
    <2> QED BY <2>1, <2>2
  <1>3. On => ~Alive(freeze)
    BY DEF IInv, Still, FreezeWaits
  <1>4. Still'
    <2>1. (OneWorld /\ Known)'
      BY DEF IInv, Still, OneWorld, Known, On
    <2>2. FreezeWaits'
      BY <1>2, <1>3 DEF IInv, Still, FreezeWaits, Up, On, Alive
    <2> QED BY <2>1, <2>2 DEF Still
  <1>5. CASE Simulatable
    <2>1. /\ op' \in Ops /\ op'.k = op.k /\ op'.c = op.c /\ op'.obj = op.obj
          /\ op'.pc = "building" /\ op'.for = "wake" /\ op'.topo \in {"plain", "hass"}
      <3>1. hib \in Moments
        BY <1>1 DEF Shape
      <3> QED BY <1>1, <1>5, <3>1, BuildIs
    <2>2. pins' = pins
      BY <1>5
    <2>3. Untorn'
      BY <2>1 DEF IInv, Still, OneWorld, Untorn, At, For
    <2>4. HasSession'
      <3>1. Up => sess # None /\ sess.obj = op.obj
        BY DEF IInv, Paths, HasSession, At
      <3>2. Up' => sess' # None /\ sess'.obj = op'.obj
        BY <1>2, <2>1, <3>1 DEF Up, On
      <3> QED BY <2>1, <3>2 DEF HasSession, At, For
    <2>5. (Waits /\ NothingToFreeze /\ Fresh)'
      BY <2>1 DEF Waits, NothingToFreeze, Fresh, At, For
    <2>6. Shape'
      BY <1>1, <1>2, <2>1, <2>2 DEF Shape
    <2>7. Pins' /\ NoLeakedPin'
      BY <1>1, <1>2, <2>1, <2>2, PinsStay, CountStays DEF IInv, Holders
    <2> QED BY <1>4, <2>3, <2>4, <2>5, <2>6, <2>7, IInvOf DEF Paths
  <1>6. CASE ~Simulatable
    <2>1. Threw
      BY <1>6
    <2>2. /\ Pins' /\ pins' \in [Clients -> PinStates] /\ op' \in Ops \cup {None}
          /\ op' = None \/ op'.pc = "rebuild"
          /\ \A h \in Objects : Holders(h)' = Holders(h)
      BY <1>1, <2>1, ThrewIs
    <2>3. Shape'
      BY <1>1, <1>2, <2>2 DEF Shape
    <2>4. NoLeakedPin' /\ Paths'
      BY <1>1, <1>2, <2>2, CountStays, OffPath DEF IInv
    <2> QED BY <1>4, <2>2, <2>3, <2>4, IInvOf
  <1> QED BY <1>5, <1>6

LEMMA CheckStep == ASSUME IInv, Check PROVE IInv'
  <1>1. /\ Shape /\ op \in Ops /\ op # None /\ op.pc = "check"
        /\ UNCHANGED <<env, closed, queue, freeze, wall, torn>>
    BY DEF IInv, Shape, Check
  <1>2. CASE /\ hib # None
             /\ sess' = IF sess # None /\ sess.obj = op.obj
                        THEN [sess EXCEPT !.status = "hibernated"] ELSE sess
             /\ IF Simulatable THEN Build("wake", hib) /\ UNCHANGED pins ELSE Threw
             /\ UNCHANGED <<registry, catchUp>>
    <2>1. UNCHANGED <<rec, run, driver, hib, disk, catchUp>>
      BY <1>2 DEF registry
    <2> QED BY <1>1, <1>2, <2>1, WakeStep
  <1>3. CASE /\ hib = None /\ ~Alive(rec) /\ sess' = None /\ rec' = None
             /\ driver' = IF rec # None THEN None ELSE driver
             /\ disk' = IF rec # None THEN NoDisk ELSE disk
             /\ op' = [op EXCEPT !.pc = "create", !.retry = TRUE]
             /\ UNCHANGED <<pins, run, hib, catchUp>>
    <2>1. op' \in Ops /\ op'.pc = "create" /\ op'.k = op.k /\ op'.c = op.c
      BY <1>1, <1>3 DEF Ops, Steps
    <2>2. On => ~Alive(freeze)
      BY <1>1, <1>3 DEF IInv, Paths, NothingToFreeze, At
    <2> QED BY <1>1, <1>3, <2>1, <2>2, HuskStep
  <1>4. CASE /\ Alive(rec) /\ run' = [run EXCEPT ![rec].st = "running"]
             /\ driver' = DriverFor(rec, driver) /\ op' = [op EXCEPT !.pc = "await"] /\ Queued
             /\ UNCHANGED <<sess, pins, rec, hib, disk>>
    <2>1. rec \in Runtimes
      BY <1>1, <1>4 DEF Shape, Alive
    <2>2. /\ run' \in [Runtimes -> Runs]
          /\ \A q \in Runtimes : run'[q] = Stopped <=> run[q] = Stopped
      BY <1>1, <1>4, <2>1, Touched
    <2>3. op' \in Ops /\ op'.pc = "await" /\ op'.k = op.k /\ op'.c = op.c
      BY <1>1, <1>4 DEF Ops, Steps
    <2>4. catchUp' \in [queued : BOOLEAN, target : Moments \cup {None}]
      BY <1>1, <1>4 DEF Queued, Shape
    <2>5. driver' \in {rec, driver} /\ (driver' = rec \/ driver # None)
      BY <1>4 DEF DriverFor
    <2>6. Shape'
      BY <1>1, <1>4, <2>1, <2>2, <2>3, <2>4, <2>5 DEF Shape
    <2>7. OneWorld'
      BY <1>1, <1>4, <2>2, <2>5 DEF IInv, Still, OneWorld
    <2>8. FreezeWaits'
      BY <1>1, <1>4, <2>2 DEF IInv, Still, FreezeWaits, Up, On, Alive, Shape
    <2>9. Known'
      BY <1>1, <1>4 DEF IInv, Still, Known, On
    <2>10. Paths'
      BY <2>3, OffPath
    <2>11. Pins' /\ NoLeakedPin'
      BY <1>1, <1>4, <2>3, PinsStay DEF IInv, NoLeakedPin
    <2> QED BY <2>6, <2>7, <2>8, <2>9, <2>10, <2>11, IInvOf DEF Still
  <1> QED BY <1>2, <1>3, <1>4 DEF Check

LEMMA RebuildStep == ASSUME IInv, Rebuild PROVE IInv'
  <1>1. /\ Shape /\ op \in Ops /\ op # None /\ op.pc = "rebuild"
        /\ UNCHANGED <<env, closed, sess, queue, catchUp, pins, rec, driver, hib, disk, freeze,
                       wall, torn>>
    BY DEF IInv, Shape, Rebuild
  <1>2. CASE Simulatable /\ rec # None
    <2>1. /\ op' = [op EXCEPT !.pc = "quiesce", !.for = "land", !.topo = env, !.rt = rec]
          /\ run' = IF Alive(rec) THEN [run EXCEPT ![rec].st = "paused"] ELSE run
          /\ env \in {"plain", "hass"} /\ rec \in Runtimes
      BY <1>1, <1>2 DEF Rebuild, Simulatable, Shape
    <2>2. /\ op' \in Ops /\ op'.k = op.k /\ op'.c = op.c /\ op'.pc = "quiesce"
          /\ op'.for = "land" /\ op'.topo \in {"plain", "hass"} /\ op'.rt = rec
      BY <1>1, <2>1 DEF Ops, Steps
    <2>3. /\ run' \in [Runtimes -> Runs]
          /\ \A q \in Runtimes : run'[q] = Stopped <=> run[q] = Stopped
      <3>1. CASE Alive(rec)
        BY <1>1, <2>1, <3>1, Touched
      <3>2. CASE ~Alive(rec)
        BY <1>1, <2>1, <3>2 DEF Shape
      <3> QED BY <3>1, <3>2
    <2>4. Shape' /\ SameWorld
      BY <1>1, <2>2, <2>3 DEF Shape, SameWorld
    <2>5. Still'
      BY <1>1, <2>4, StillStays DEF IInv
    <2>6. Up' /\ sess' = None => ~Alive(op.rt)'
      BY <1>1, <2>2, <2>5 DEF Still, FreezeWaits
    <2>7. (Waits /\ HasSession)'
      BY <1>1, <2>1, <2>2, <2>6 DEF Waits, HasSession, At, For
    <2>8. (Untorn /\ NothingToFreeze /\ Fresh)'
      BY <2>2 DEF Untorn, NothingToFreeze, Fresh, At, For
    <2>9. Pins' /\ NoLeakedPin'
      BY <1>1, <2>2, PinsStay DEF IInv, NoLeakedPin
    <2> QED BY <2>4, <2>5, <2>7, <2>8, <2>9, IInvOf DEF Paths
  <1>3. CASE ~(Simulatable /\ rec # None)
    <2>1. op' = None /\ run' = run
      BY <1>3 DEF Rebuild
    <2>2. Shape' /\ SameWorld
      BY <1>1, <2>1 DEF Shape, SameWorld
    <2>3. Still' /\ Paths'
      BY <1>1, <2>1, <2>2, StillStays, OffPath DEF IInv
    <2>4. Pins' /\ NoLeakedPin'
      BY <1>1, <2>1, PinsStay DEF IInv, NoLeakedPin
    <2> QED BY <2>2, <2>3, <2>4, IInvOf
  <1> QED BY <1>2, <1>3

LEMMA NotRebuiltStep ==
    ASSUME IInv, For({"quiesce", "building"}, {"adopt", "land"}), NotRebuilt,
           UNCHANGED <<env, closed, sess, queue, catchUp, pins, rec, run, driver, hib, disk,
                       freeze, wall, torn>>
    PROVE  IInv'
  <1>1. Shape /\ op \in Ops /\ op # None
    BY DEF IInv, Shape, For, At
  <1>2. CASE op.for = "adopt"
    <2>1. op' = [op EXCEPT !.pc = "check", !.for = None, !.rt = None]
      BY <1>2 DEF NotRebuilt
    <2>2. op' \in Ops /\ op'.k = op.k /\ op'.c = op.c /\ op'.obj = op.obj /\ op'.pc = "check"
      BY <1>1, <2>1 DEF Ops, Steps
    <2>3. For({"quiesce", "building"}, {"wake", "adopt"}) /\ For({"quiesce", "building"}, {"adopt"})
      BY <1>2 DEF For
    <2>4. Up' => sess' # None /\ sess'.obj = op'.obj
      BY <2>2, <2>3 DEF IInv, Paths, HasSession, Up, On
    <2>5. On /\ Alive(freeze) => Alive(rec)
      BY <1>1, <2>3 DEF IInv, Still, FreezeWaits, Paths, NothingToFreeze, Up, Shape
    <2>6. On' /\ Alive(freeze)' => Alive(rec)'
      BY <2>5 DEF On, Alive
    <2>7. Paths'
      BY <2>2, <2>4, <2>6, CheckPath
    <2> QED BY <1>1, <2>2, <2>7, OpStep
  <1>3. CASE op.for # "adopt"
    <2>1. op' = None
      BY <1>3 DEF NotRebuilt
    <2>2. Shape' /\ SameWorld
      BY <1>1, <2>1 DEF Shape, SameWorld
    <2>3. Still' /\ Paths'
      BY <1>1, <2>1, <2>2, StillStays, OffPath DEF IInv
    <2>4. Pins' /\ NoLeakedPin'
      BY <1>1, <2>1, PinsStay DEF IInv, NoLeakedPin
    <2> QED BY <2>2, <2>3, <2>4, IInvOf
  <1> QED BY <1>2, <1>3

LEMMA QuiesceStep == ASSUME IInv, Quiesce PROVE IInv'
  <1>1. /\ Shape /\ op \in Ops /\ op # None /\ op.pc = "quiesce"
        /\ UNCHANGED <<env, closed, sess, queue, catchUp, pins, rec, run, driver, hib, disk,
                       freeze, wall, torn>>
    BY DEF IInv, Shape, Quiesce, registry
  <1>2. /\ op.for \in {"adopt", "land"} /\ op.topo \in {"plain", "hass"}
        /\ op.rt \in Runtimes /\ rec \in {op.rt, None}
    BY <1>1 DEF IInv, Paths, Waits, At, For
  <1>3. CASE Alive(op.rt)
    <2>1. op' = [op EXCEPT !.pc = "building", !.t = run[op.rt].t] /\ run[op.rt].t \in Moments
      BY <1>1, <1>2, <1>3 DEF Quiesce, Shape, Runs
    <2>2. /\ op' \in Ops /\ op'.pc = "building" /\ op'.k = op.k /\ op'.c = op.c
          /\ op'.for = op.for /\ op'.topo = op.topo /\ op'.rt = op.rt /\ op'.obj = op.obj
      BY <1>1, <2>1 DEF Ops, Steps
    <2>3. Waits'
      BY <1>1, <1>2, <2>2 DEF Waits, At, For
    <2>4. Untorn'
      <3>1. ~torn => op.rt = rec
        BY <1>2, <1>3 DEF IInv, Still, OneWorld, Alive
      <3> QED BY <1>1, <1>2, <2>2, <3>1 DEF Untorn, At, For
    <2>5. HasSession'
      <3>1. Up => /\ op.for = "adopt" => sess # None /\ sess.obj = op.obj
                  /\ op.for = "land" => sess # None
        BY <1>1, <1>3 DEF IInv, Paths, HasSession, At, For
      <3> QED BY <1>1, <1>2, <2>2, <3>1 DEF HasSession, At, For, Up, On
    <2>6. NothingToFreeze'
      BY <1>1, <1>2, <2>2 DEF IInv, Paths, NothingToFreeze, At, For, Up, On, Alive
    <2>7. Fresh'
      BY <1>2, <2>2 DEF Fresh, At, For
    <2>8. Paths'
      BY <2>3, <2>4, <2>5, <2>6, <2>7 DEF Paths
    <2> QED BY <1>1, <2>2, <2>8, OpStep
  <1>4. CASE ~Alive(op.rt)
    <2>1. NotRebuilt /\ For({"quiesce", "building"}, {"adopt", "land"})
      BY <1>1, <1>2, <1>4 DEF Quiesce, For, At
    <2> QED BY <1>1, <2>1, NotRebuiltStep
  <1> QED BY <1>3, <1>4

LEMMA BuildFailsStep == ASSUME IInv, BuildFails PROVE IInv'
  <1>1. /\ op # None /\ op.pc = "building"
        /\ UNCHANGED <<env, closed, sess, queue, catchUp, rec, run, driver, hib, disk, freeze,
                       wall, torn>>
    BY DEF BuildFails, Building, registry
  <1>2. op.for \in {"create", "wake", "adopt", "land"}
    BY <1>1 DEF IInv, Paths, Waits, At
  <1>3. CASE op.for \in {"create", "wake"}
    <2>1. Threw
      BY <1>3 DEF BuildFails
    <2> QED BY <1>1, <2>1, ThrewStep
  <1>4. CASE op.for \in {"adopt", "land"}
    <2>1. NotRebuilt /\ pins' = pins /\ For({"quiesce", "building"}, {"adopt", "land"})
      BY <1>1, <1>4 DEF BuildFails, For, At
    <2> QED BY <1>1, <2>1, NotRebuiltStep
  <1> QED BY <1>2, <1>3, <1>4

LEMMA LandCreateStep == ASSUME IInv, LandCreate PROVE IInv'
  <1> DEFINE n == Spare
             o == NewObject
  <1>1. /\ Shape /\ op \in Ops /\ op # None /\ op.pc = "building" /\ op.for = "create"
        /\ rec' = n /\ run' = [run EXCEPT ![n] = Runtime("running", op.topo, wall)]
        /\ driver' = DriverFor(n, driver) /\ disk' = [disk EXCEPT !.dir = TRUE]
        /\ sess' = Session(o, "idle") /\ Spares # {} /\ NewObjects # {}
        /\ op' = IF op.k = "mutate" /\ ~op.had THEN None
                 ELSE [op EXCEPT !.pc = "check", !.obj = o, !.for = None]
        /\ UNCHANGED <<env, closed, queue, catchUp, pins, hib, freeze, wall, torn>>
    BY DEF IInv, Shape, LandCreate, Building
  <1>2. /\ n \in Runtimes /\ n # None /\ n # freeze /\ run[n] = Stopped
        /\ o \in Objects
    BY <1>1, SpareIs, NewObjectIs
  <1>3. rec = None /\ hib = None /\ disk.at = None /\ ~Alive(freeze)
    BY <1>1 DEF IInv, Paths, Fresh, At, For
  <1>4. op.topo \in {"plain", "hass"} /\ wall \in Moments
    BY <1>1 DEF IInv, Paths, Waits, At, Shape
  <1>5. Runtime("running", op.topo, wall) \in Runs /\ Runtime("running", op.topo, wall) # Stopped
    BY <1>4, Started
  <1>6. sess' \in SessionState /\ sess' # None /\ sess'.obj = o /\ sess'.observers = 0
        /\ sess'.status = "idle"
    BY <1>1, <1>2, NewSession DEF Statuses
  <1> HIDE DEF n, o
  <1>7. /\ run' \in [Runtimes -> Runs] /\ run'[n] # Stopped
        /\ \A q \in Runtimes : q # n => run'[q] = run[q]
    BY <1>1, <1>2, <1>5 DEF Shape
  <1>8. disk' \in [dir : BOOLEAN, at : Moments \cup {None}] /\ disk'.at = None
    BY <1>1, <1>3 DEF Shape
  <1>9. driver' \in {n, driver} /\ (driver = None => driver' = n)
    BY <1>1 DEF DriverFor
  <1>10. \/ op' = None
         \/ op' \in Ops /\ op'.pc = "check" /\ op'.k = op.k /\ op'.c = op.c /\ op'.obj = o
    BY <1>1, <1>2 DEF Ops, Steps
  <1>11. Shape'
    BY <1>1, <1>2, <1>6, <1>7, <1>8, <1>9, <1>10 DEF Shape
  <1>12. OneWorld'
    <2>1. ~torn => driver = None /\ \A r \in Runtimes : run[r] = Stopped
      BY <1>3, WorldSessionAssumption DEF IInv, Still, OneWorld
    <2> QED BY <1>1, <1>3, <1>7, <1>9, <2>1 DEF OneWorld
  <1>13. ~Alive(freeze)' /\ Alive(rec)'
    BY <1>1, <1>2, <1>3, <1>7 DEF Alive, Shape
  <1>14. (Known /\ FreezeWaits)'
    BY <1>6, <1>8, <1>13 DEF Known, FreezeWaits
  <1>15. Paths'
    BY <1>6, <1>10, <1>13, OffPath, CheckPath
  <1>16. Pins' /\ NoLeakedPin'
    BY <1>1, <1>6, <1>10, PinsStay, CountStays DEF IInv, Holders
  <1> QED BY <1>11, <1>12, <1>14, <1>15, <1>16, IInvOf DEF Still

LEMMA LandWakeStep == ASSUME IInv, LandWake PROVE IInv'
  <1> DEFINE n == Spare
  <1>1. /\ Shape /\ op \in Ops /\ op # None /\ op.pc = "building" /\ op.for = "wake"
        /\ rec' = n /\ run' = [run EXCEPT ![n] = Runtime("running", op.topo, op.t)]
        /\ driver' = DriverFor(n, driver) /\ hib' = None
        /\ disk' = [disk EXCEPT !.dir = TRUE] /\ Spares # {}
        /\ sess' = IF sess # None /\ sess.obj = op.obj
                   THEN [sess EXCEPT !.status = "idle"] ELSE sess
        /\ op' = [op EXCEPT !.pc = "check", !.for = None]
        /\ UNCHANGED <<env, closed, queue, catchUp, pins, freeze, wall, torn>>
    BY DEF IInv, Shape, LandWake, Building
  <1>2. n \in Runtimes /\ n # None /\ n # freeze /\ run[n] = Stopped
    BY <1>1, SpareIs
  <1>3. (~torn => rec = None) /\ (Up => sess # None /\ sess.obj = op.obj)
    BY <1>1 DEF IInv, Paths, Untorn, HasSession, At, For
  <1>4. op.topo \in {"plain", "hass"} /\ op.t \in Moments
    BY <1>1 DEF IInv, Paths, Waits, At, Ops
  <1>5. Runtime("running", op.topo, op.t) \in Runs /\ Runtime("running", op.topo, op.t) # Stopped
    BY <1>4, Started
  <1> HIDE DEF n
  <1>6. /\ run' \in [Runtimes -> Runs] /\ run'[n] # Stopped
        /\ \A q \in Runtimes : q # n => run'[q] = run[q]
    BY <1>1, <1>2, <1>5 DEF Shape
  <1>7. disk' \in [dir : BOOLEAN, at : Moments \cup {None}] /\ disk'.dir
    BY <1>1 DEF Shape
  <1>8. driver' \in {n, driver} /\ (driver = None => driver' = n)
    BY <1>1 DEF DriverFor
  <1>9. op' \in Ops /\ op'.pc = "check" /\ op'.k = op.k /\ op'.c = op.c /\ op'.obj = op.obj
    BY <1>1 DEF Ops, Steps
  <1>10. /\ sess' \in SessionState \cup {None} /\ (sess' = None <=> sess = None)
         /\ sess # None => sess'.obj = sess.obj /\ sess'.observers = sess.observers
         /\ sess # None /\ sess.obj = op.obj => sess'.status = "idle"
    <2>1. CASE sess # None /\ sess.obj = op.obj
      <3>1. sess \in SessionState /\ sess' = [sess EXCEPT !.status = "idle"]
        BY <1>1, <2>1 DEF Shape
      <3>2. sess' \in SessionState /\ sess'.obj = sess.obj /\ sess'.observers = sess.observers
            /\ sess'.status = "idle"
        BY <3>1 DEF SessionState, Statuses
      <3> QED BY <2>1, <3>2, WorldSessionAssumption
    <2>2. CASE ~(sess # None /\ sess.obj = op.obj)
      BY <1>1, <2>2 DEF Shape
    <2> QED BY <2>1, <2>2
  <1>11. Shape'
    BY <1>1, <1>2, <1>6, <1>7, <1>8, <1>9, <1>10 DEF Shape
  <1>12. OneWorld'
    <2>1. ~torn => driver = None /\ \A r \in Runtimes : run[r] = Stopped
      BY <1>3, WorldSessionAssumption DEF IInv, Still, OneWorld
    <2> QED BY <1>1, <1>6, <1>8, <2>1 DEF OneWorld
  <1>13. Alive(rec)' /\ hib' = None /\ rec' # None
    BY <1>1, <1>2, <1>6 DEF Alive
  <1>14. Up' => sess' # None /\ sess'.obj = op'.obj /\ sess'.status # "hibernated"
    BY <1>1, <1>3, <1>9, <1>10 DEF Up, On
  <1>15. (Known /\ FreezeWaits)'
    BY <1>7, <1>13, <1>14 DEF Known, FreezeWaits
  <1>16. Paths'
    BY <1>9, <1>13, <1>14, CheckPath
  <1>17. Pins' /\ NoLeakedPin'
    BY <1>1, <1>9, <1>10, PinsStay, CountStays DEF IInv, Holders
  <1> QED BY <1>11, <1>12, <1>15, <1>16, <1>17, IInvOf DEF Still

LEMMA LandRebuildStep == ASSUME IInv, LandRebuild PROVE IInv'
  <1> DEFINE n == Spare
             x == Runtime("running", op.topo, op.t)
  <1>1. /\ Shape /\ op \in Ops /\ op # None /\ op.pc = "building" /\ op.for \in {"adopt", "land"}
        /\ rec' = n /\ run' = [run EXCEPT ![op.rt] = Stopped, ![n] = x]
        /\ driver' = n /\ disk' = [disk EXCEPT !.dir = TRUE] /\ Spares # {}
        /\ \/ op.for = "land" /\ op' = [op EXCEPT !.pc = "landed", !.rt = None] /\ Queued
           \/ /\ op.for = "adopt" /\ op' = [op EXCEPT !.pc = "check", !.for = None, !.rt = None]
              /\ UNCHANGED catchUp
        /\ UNCHANGED <<env, closed, sess, queue, pins, hib, freeze, wall, torn>>
    BY DEF IInv, Shape, LandRebuild, Building
  <1>2. n \in Runtimes /\ n # None /\ n # freeze /\ n # op.rt /\ run[n] = Stopped
    BY <1>1, SpareIs
  <1>3. /\ op.topo \in {"plain", "hass"} /\ op.t \in Moments
        /\ op.rt \in Runtimes /\ rec \in {op.rt, None}
    BY <1>1 DEF IInv, Paths, Waits, At, For, Ops
  <1>4. x \in Runs /\ x # Stopped
    BY <1>3, Started
  <1>5. (~torn => op.rt = rec) /\ (Up => sess # None)
        /\ (Up /\ op.for = "adopt" => sess.obj = op.obj)
    BY <1>1 DEF IInv, Paths, Untorn, HasSession, At, For
  <1> HIDE DEF n, x
  <1>6. /\ run' \in [Runtimes -> Runs] /\ run'[n] # Stopped /\ run'[op.rt] = Stopped
        /\ \A q \in Runtimes : q # n /\ q # op.rt => run'[q] = run[q]
    BY <1>1, <1>2, <1>3, <1>4, StoppedIs DEF Shape
  <1>7. disk' \in [dir : BOOLEAN, at : Moments \cup {None}] /\ disk'.dir
    BY <1>1 DEF Shape
  <1>8. /\ op' \in Ops /\ op'.k = op.k /\ op'.c = op.c /\ op'.obj = op.obj
        /\ op'.pc = "landed" \/ (op'.pc = "check" /\ op.for = "adopt")
    BY <1>1 DEF Ops, Steps
  <1>9. catchUp' \in [queued : BOOLEAN, target : Moments \cup {None}]
    BY <1>1 DEF Shape, Queued
  <1>10. Shape'
    BY <1>1, <1>2, <1>6, <1>7, <1>8, <1>9 DEF Shape
  <1>11. OneWorld'
    <2>1. ~torn => hib = None /\ \A q \in Runtimes : q # op.rt => run[q] = Stopped
      BY <1>3, <1>5, WorldSessionAssumption DEF IInv, Still, OneWorld
    <2> QED BY <1>1, <1>2, <1>6, <2>1 DEF OneWorld
  <1>12. Alive(rec)' /\ rec' # None
    BY <1>1, <1>2, <1>6 DEF Alive
  <1>13. Alive(freeze)' => Alive(freeze) /\ freeze # rec
    BY <1>1, <1>2, <1>3, <1>6 DEF Alive, Shape
  <1>14. Known'
    BY <1>7, <1>12 DEF Known
  <1>15. FreezeWaits'
    <2>1. /\ On /\ Alive(freeze)' => hib = None
          /\ Up /\ Alive(freeze)' => sess # None /\ sess.status # "hibernated"
      BY <1>13 DEF IInv, Still, FreezeWaits
    <2> QED BY <1>1, <1>5, <1>12, <2>1 DEF FreezeWaits, Up, On
  <1>16. Paths'
    <2>1. CASE op'.pc = "landed"
      BY <2>1, OffPath
    <2>2. CASE op'.pc = "check" /\ op.for = "adopt"
      <3>1. Up' => sess' # None /\ sess'.obj = op'.obj
        BY <1>1, <1>5, <1>8, <2>2 DEF Up, On
      <3> QED BY <1>12, <2>2, <3>1, CheckPath
    <2> QED BY <1>8, <2>1, <2>2
  <1>17. Pins' /\ NoLeakedPin'
    BY <1>1, <1>8, PinsStay DEF IInv, NoLeakedPin
  <1> QED BY <1>10, <1>11, <1>14, <1>15, <1>16, <1>17, IInvOf DEF Still

LEMMA ReturnStep == ASSUME IInv, Return PROVE IInv'
  <1>1. /\ Shape /\ Pins /\ NoLeakedPin /\ op \in Ops /\ op # None
        /\ op' = IF op.k = "mutate" /\ op.pc = "await" THEN [op EXCEPT !.pc = "rebuild"] ELSE None
        /\ IF op.k = "observe" THEN Observed(op.c) ELSE UNCHANGED <<sess, pins>>
        /\ UNCHANGED <<env, closed, queue, catchUp, rec, run, driver, hib, disk, freeze,
                       wall, torn>>
    BY DEF IInv, Shape, Return, registry
  <1>2. \/ op' = None
        \/ op' \in Ops /\ op'.pc = "rebuild" /\ op'.k = op.k /\ op'.c = op.c
    BY <1>1 DEF Ops, Steps
  <1>3. CASE op.k = "observe"
    <2>1. op' = None /\ Observed(op.c)
      BY <1>1, <1>3
    <2>2. /\ Pins' /\ pins' \in [Clients -> PinStates] /\ NoLeakedPin'
          /\ sess' \in SessionState \cup {None} /\ (sess' = None <=> sess = None)
          /\ sess # None => sess'.obj = sess.obj /\ sess'.status # "hibernated"
      BY <1>1, <1>3, <2>1, ObservedIs
    <2>3. Shape' /\ SameWorld
      BY <1>1, <2>1, <2>2 DEF Shape, SameWorld
    <2>4. Still' /\ Paths'
      BY <1>1, <2>1, <2>3, StillStays, OffPath DEF IInv
    <2> QED BY <2>2, <2>3, <2>4, IInvOf
  <1>4. CASE op.k # "observe"
    <2>1. UNCHANGED <<sess, pins>>
      BY <1>1, <1>4
    <2>2. Shape' /\ SameWorld
      BY <1>1, <1>2, <2>1 DEF Shape, SameWorld
    <2>3. Still' /\ Paths'
      BY <1>1, <1>2, <2>2, StillStays, OffPath DEF IInv
    <2>4. Pins' /\ NoLeakedPin'
      BY <1>1, <1>2, <2>1, PinsStay DEF NoLeakedPin
    <2> QED BY <2>2, <2>3, <2>4, IInvOf
  <1> QED BY <1>3, <1>4

----------------------------------------------------------------------------
(* Theorems *)

LEMMA InitHolds == ASSUME Init PROVE IInv
  <1> DEFINE o == Operation("mutate", None)
  <1>1. o \in Ops /\ o.pc = "ensure" /\ o.k = "mutate"
    BY WorldSessionAssumption DEF Operation, Ops, Steps, Moments
  <1>2. queue = <<o>>
    BY DEF Init
  <1> HIDE DEF o
  <1>3. queue \in Seq(Ops) /\ \A i \in DOMAIN queue : queue[i] = o /\ i = 1
    BY <1>1, <1>2
  <1>4. /\ env \in {"blank", "plain", "hass"} /\ closed = FALSE /\ sess = None /\ op = None
        /\ catchUp = [queued |-> FALSE, target |-> None]
        /\ pins = [c \in Clients |-> [at |-> "out", obj |-> None]]
        /\ rec = None /\ run = [r \in Runtimes |-> Stopped] /\ driver = None
        /\ hib = None /\ disk = NoDisk /\ freeze = None /\ wall = 0 /\ torn = FALSE
    BY WorldSessionAssumption DEF Init
  <1>5. 0 \in Moments /\ disk \in [dir : BOOLEAN, at : Moments \cup {None}] /\ disk.at = None
    BY <1>4, WorldSessionAssumption DEF Moments, NoDisk
  <1>6. pins \in [Clients -> PinStates] /\ \A c \in Clients : pins[c].obj = None
    BY <1>4 DEF PinStates
  <1>7. Shape
    BY <1>1, <1>3, <1>4, <1>5, <1>6, StoppedIs DEF Shape
  <1>8. Pins
    BY <1>1, <1>3, <1>4, <1>6 DEF Pins
  <1>9. Still /\ NoLeakedPin
    BY <1>4, <1>5 DEF Still, OneWorld, Known, FreezeWaits, NoLeakedPin, Alive
  <1>10. Paths
    BY <1>4 DEF Paths, Waits, Untorn, HasSession, NothingToFreeze, Fresh, At, For
  <1> QED BY <1>7, <1>8, <1>9, <1>10 DEF IInv

LEMMA NextHolds == ASSUME IInv, Next PROVE IInv'
  <1>1. CASE Operate
    BY <1>1, BeginStep, EnsureStep, CreateStep, CheckStep, RebuildStep, QuiesceStep,
       LandCreateStep, LandWakeStep, LandRebuildStep, BuildFailsStep, ReturnStep DEF Operate
  <1>2. CASE StartCatchUp \/ Chunk \/ Drive \/ Tick
    BY <1>2, StartCatchUpStep, ChunkStep, DriveStep, TickStep
  <1>3. CASE Arrive \/ Edit \/ Freeze \/ Frozen \/ Discard \/ Delete \/ Close \/ Reboot
    BY <1>3, ArriveStep, EditStep, FreezeStep, FrozenStep, DiscardStep, DeleteStep, CloseStep,
       RebootStep
  <1>4. CASE \E c \in Clients : Connect(c) \/ Disconnect(c)
    BY <1>4, ConnectStep, DisconnectStep
  <1> QED BY <1>1, <1>2, <1>3, <1>4 DEF Next

LEMMA StutterHolds == ASSUME IInv, UNCHANGED vars PROVE IInv'
  <1>1. UNCHANGED <<env, closed, sess, op, queue, catchUp, pins, rec, run, driver, hib, disk,
                    freeze, wall, torn>>
    BY DEF vars, service, registry
  <1>2. Shape' /\ SameWorld
    BY <1>1 DEF IInv, Shape, SameWorld
  <1> QED BY <1>1, <1>2, BesideStep

\* The inductive invariant holds in every behaviour of the world session: what the
\* operations owe their streams, what the state object counts, what holds of the world
\* while nobody is working on it, and what holds on an operation's way.
THEOREM Inductive == Spec => []IInv
  <1>1. Init => IInv
    BY InitHolds
  <1>2. IInv /\ [Next]_vars => IInv'
    BY NextHolds, StutterHolds
  <1> QED BY <1>1, <1>2, PTL DEF Spec

\* The session's status, the pins, the registry's records, the disk and the clock stay
\* within what SessionState and the registry declare; the session never counts more
\* observers than there are streams.
THEOREM TypesHold == Spec => []TypeOK
  <1>1. IInv => TypeOK
    <2> SUFFICES ASSUME IInv PROVE TypeOK
      OBVIOUS
    <2>1. Shape
      BY DEF IInv
    <2>2. sess # None =>
             sess \in [obj : Objects, status : Statuses, observers : 0..Cardinality(Clients)]
      <3> SUFFICES ASSUME sess # None
                   PROVE  sess \in [obj : Objects, status : Statuses,
                                    observers : 0..Cardinality(Clients)]
        OBVIOUS
      <3>1. sess \in SessionState /\ sess.observers <= Cardinality(Holders(sess.obj))
        BY <2>1, CountIs DEF IInv, Shape
      <3>2. Holders(sess.obj) \subseteq Clients /\ IsFiniteSet(Clients)
        BY WorldSessionAssumption DEF Holders
      <3>3. /\ Cardinality(Holders(sess.obj)) \in Nat /\ Cardinality(Clients) \in Nat
            /\ Cardinality(Holders(sess.obj)) <= Cardinality(Clients)
        BY <3>2, HoldersFinite, FS_Subset, FS_CardinalityType
      <3>4. sess.observers \in 0..Cardinality(Clients)
        BY <3>1, <3>3 DEF SessionState
      <3> QED BY <3>1, <3>4 DEF SessionState
    <2>3. op # None => op.pc \in Steps /\ op.obj \in Objects \cup {None}
      BY <2>1 DEF Shape, Ops
    <2>4. \A r \in Runtimes : /\ run[r].st \in {"running", "paused", "stopped"}
                              /\ run[r].topo \in {"plain", "hass"} /\ run[r].t \in Moments
      BY <2>1 DEF Shape, Runs
    <2>5. pins \in [Clients -> [at : {"out", "joining", "left", "open"},
                                obj : Objects \cup {None}]]
      BY <2>1 DEF Shape, PinStates
    <2> QED BY <2>1, <2>2, <2>3, <2>4, <2>5 DEF TypeOK, Shape
  <1> QED BY <1>1, Inductive, PTL

\* As long as nothing outside lands while a runtime is being built, the environment has
\* one world, live or checkpointed, with no runtime and no driver beside it.
THEOREM OneWorldHolds == Spec => []OneWorld
  <1>1. IInv => OneWorld
    BY DEF IInv, Still
  <1> QED BY <1>1, Inductive, PTL

\* The session counts no more observers than streams hold a pin on its state object.
THEOREM NoLeakedPinHolds == Spec => []NoLeakedPin
  <1>1. IInv => NoLeakedPin
    BY DEF IInv
  <1> QED BY <1>1, Inductive, PTL

\* A world is created at its beginning only when no history is left on disk.
THEOREM NoFreshWorldOverACheckpointHolds == Spec => []NoFreshWorldOverACheckpoint
  <1>1. IInv => NoFreshWorldOverACheckpoint
    BY DEF IInv, Paths, Fresh, For, At, Building, NoFreshWorldOverACheckpoint
  <1> QED BY <1>1, Inductive, PTL

=============================================================================
