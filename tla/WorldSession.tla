---------------------------- MODULE WorldSession ----------------------------
(***************************************************************************)
(* The authoritative world session of one environment: the service of      *)
(* world-session.ts, the part of the simulation registry it drives, the    *)
(* simulation routes that freeze or discard its record, the observing      *)
(* streams, and the boot scan of server.ts.                                *)
(*                                                                         *)
(* Arrivals (targetFor), observers (observe) and world changes             *)
(* (onWorldMutation) are serialized per environment; the routes, the       *)
(* deletion of the environment, the shutdown and the process's death are   *)
(* not.  An operation gives way in three places: while a rebuild waits for *)
(* the old runtime to become quiescent, while a runtime with real devices  *)
(* is built (createDeviceFactory connects to Home Assistant; any other     *)
(* build resolves before the next request is served), and while it waits,  *)
(* at most the sync cap, for the catch-up.  Everything else of it runs     *)
(* before anything outside may happen (Settled).                           *)
(*                                                                         *)
(* Abstractions: of the rows only whether they can be simulated and bind   *)
(* real devices; a runtime has the wall moment its world has reached; a    *)
(* catch-up chunk, coarse or precise, is one step of it; one freeze is under *)
(* way at a time; drift notes, physics tiers, reputation, frames and status *)
(* broadcasts are left out.  The sync cap and quiescence may be reached at *)
(* any time.                                                               *)
(***************************************************************************)
EXTENDS Naturals, Sequences, FiniteSets

CONSTANTS
    None,
    Clients,        \* streams that pin the session while they are connected
    Runtimes,       \* names of runtimes, reused once stopped and forgotten
    Objects,        \* names of SessionState objects, reused likewise
    Rows,           \* what an edit may make of the environment's rows
    MaxOps,         \* bound: arrivals and connections
    MaxEdits,       \* bound: changes of the environment
    MaxFreezes,     \* bound: hibernations
    MaxKills,       \* bound: deaths of the process
    Ends,           \* whether the environment is deleted, the server closed
    MaxWall         \* bound of the wall clock

Statuses == {"idle", "active", "hibernated"}

SessionState == [obj : Objects, status : Statuses, observers : Nat]

ASSUME WorldSessionAssumption ==
    /\ Runtimes \subseteq Nat /\ Objects \subseteq Nat /\ Objects # {}
    /\ None \notin Nat /\ None \notin SessionState /\ IsFiniteSet(Clients)
    /\ MaxOps \in Nat /\ MaxEdits \in Nat /\ MaxFreezes \in Nat
    /\ MaxKills \in Nat /\ MaxWall \in Nat
    /\ Rows \subseteq {"blank", "plain", "hass"}
    /\ Ends \subseteq {"delete", "close"}

VARIABLES
    env,        \* the environment's rows
    closed,     \* the service is shut down
    sess,       \* the session's state object, if there is one
    op, queue,  \* the operation under way and those behind it
    catchUp,    \* the background chain: a queued advance, a running one's target
    pins,       \* what each stream holds
    rec,        \* the registry's live record, by its runtime
    run,        \* the runtimes of this process
    driver,     \* the runtime the lazy driver of the record's id advances
    hib,        \* the registry's hibernated record, by its checkpoint's moment
    disk,       \* the trajectory directory and the checkpoint in it
    freeze,     \* the record a hibernate request waits to freeze
    wall,
    left,       \* what the bounds leave
    torn        \* history: something outside landed while a runtime was built

service  == <<closed, sess, op, queue, catchUp, pins>>
registry == <<rec, run, driver, hib, disk>>
vars == <<env, service, registry, freeze, wall, left, torn>>

Operation(k, c) ==
    [k |-> k, c |-> c, had |-> FALSE, obj |-> None, pc |-> "ensure", for |-> None,
     topo |-> None, rt |-> None, t |-> 0, retry |-> FALSE]

Steps == {"ensure", "create", "check", "rebuild", "quiesce", "building", "await", "landed"}

Runtime(st, topo, t) == [st |-> st, topo |-> topo, t |-> t]
Stopped == Runtime("stopped", "plain", 0)

Simulatable == env \in {"plain", "hass"}

\* Nothing runs or is due to run before the next event from outside.
Settled ==
    IF op = None THEN queue = << >>
    ELSE \/ op.pc \in {"quiesce", "await", "landed"}
         \/ op.pc = "building" /\ op.topo = "hass"

Building == op # None /\ op.pc = "building"
HassBuilding == Building /\ op.topo = "hass"

Least(S) == CHOOSE n \in S : \A m \in S : n <= m

\* The names no part of the system knows any more; where a new runtime or state
\* object comes to be, there is one left (bound: Runtimes, Objects).
Spares == {r \in Runtimes : /\ run[r] = Stopped /\ r \notin {rec, driver, freeze}
                            /\ op = None \/ op.rt # r}

NewObjects == {o \in Objects : /\ sess = None \/ sess.obj # o
                               /\ op = None \/ op.obj # o
                               /\ \A c \in Clients : pins[c].obj # o}

Spare == Least(Spares)
NewObject == Least(NewObjects)

Session(o, status) == [obj |-> o, status |-> status, observers |-> 0]

NoDisk == [dir |-> FALSE, at |-> None]

Alive(r) == r # None /\ run[r] # Stopped

-----------------------------------------------------------------------------
\* The ends of an operation.  The continuation of observe() counts the pin at
\* once; a stream that has closed meanwhile releases it on the spot.

\* Mutated form: the count is not kept above zero.
ReleasedBelowZero(s) ==
    [s EXCEPT !.observers = @ - 1, !.status = IF s.observers = 1 /\ @ = "active" THEN "idle" ELSE @]

Released(s) ==
    LET n == IF s.observers > 0 THEN s.observers - 1 ELSE 0 IN
    [s EXCEPT !.observers = n,
              !.status = IF n = 0 /\ @ = "active" THEN "idle" ELSE @]

Pinned(s) == [s EXCEPT !.observers = @ + 1, !.status = "active"]

NoPin(c) == [pins EXCEPT ![c] = [at |-> IF @.at = "left" THEN "out" ELSE "open", obj |-> None]]

\* Mutated form: a stream that closed before its pin arrived does not release it.
ObservedRegardless(c) ==
    IF sess = None
    THEN pins' = NoPin(c) /\ UNCHANGED sess
    ELSE /\ sess' = Pinned(sess)
         /\ pins' = IF pins[c].at = "left" THEN NoPin(c)
                    ELSE [pins EXCEPT ![c] = [at |-> "open", obj |-> sess.obj]]

\* observe(): the pin, or nothing when there is no state object any more.
Observed(c) ==
    IF sess = None
    THEN pins' = NoPin(c) /\ UNCHANGED sess
    ELSE IF pins[c].at = "left"
         THEN sess' = Released(Pinned(sess)) /\ pins' = NoPin(c)
         ELSE /\ sess' = Pinned(sess)
              /\ pins' = [pins EXCEPT ![c] = [at |-> "open", obj |-> sess.obj]]

\* The operation rejected: observeOrMaterialize and targetFor only warn, and a
\* world change goes on to the rebuild unless it was the creation that failed.
Threw ==
    IF op.k = "mutate" /\ op.had
    THEN op' = [op EXCEPT !.pc = "rebuild"] /\ UNCHANGED pins
    ELSE /\ op' = None
         /\ pins' = IF op.k = "observe" THEN NoPin(op.c) ELSE pins

Queued == catchUp' = [catchUp EXCEPT !.queued = TRUE]

\* startSessionRuntime: run it, and the driver of the id, if there is none yet.
DriverFor(r, d) == IF d = None THEN r ELSE d

-----------------------------------------------------------------------------
\* The serialized operations.

\* Mutated form: only the creation of the environment may create its world.
BeginExisting ==
    /\ op = None /\ queue # << >>
    /\ queue' = Tail(queue)
    /\ LET o == [Head(queue) EXCEPT !.had = sess # None] IN
       op' = IF o.k = "mutate" /\ sess = None THEN None ELSE o
    /\ UNCHANGED <<env, closed, sess, catchUp, pins, registry, freeze, wall, left, torn>>

Begin ==
    /\ op = None /\ queue # << >>
    /\ queue' = Tail(queue)
    /\ LET o == [Head(queue) EXCEPT !.had = sess # None] IN
       \/ o.k = "mutate" /\ sess = None /\ closed /\ op' = None
       \/ o.k = "mutate" /\ sess = None /\ ~closed /\ op' = [o EXCEPT !.pc = "create"]
       \/ ~(o.k = "mutate" /\ sess = None) /\ op' = o
    /\ UNCHANGED <<env, closed, sess, catchUp, pins, registry, freeze, wall, left, torn>>

\* scenarioOfEnv, then the build.
Build(for, t) == op' = [op EXCEPT !.pc = "building", !.for = for, !.topo = env, !.t = t]

\* ensureCaughtUp up to the record check.
Ensure ==
    /\ op # None /\ op.pc = "ensure"
    /\ \/ closed /\ Threw /\ UNCHANGED <<sess, registry>>
       \/ /\ ~closed /\ sess = None
          /\ IF disk.at # None /\ rec = None /\ hib = None
             THEN /\ NewObjects # {}
                  /\ hib' = disk.at                                  \* tryRebindFromDisk
                  /\ sess' = Session(NewObject, "hibernated")
                  /\ UNCHANGED <<op, pins, rec, run, driver, disk>>
             ELSE /\ op' = [op EXCEPT !.pc = "create"]
                  /\ UNCHANGED <<sess, pins, registry>>
       \/ /\ ~closed /\ sess # None /\ sess.status # "hibernated"
          /\ op' = [op EXCEPT !.pc = "check", !.obj = sess.obj]
          /\ UNCHANGED <<sess, pins, registry>>
       \/ /\ ~closed /\ sess # None /\ sess.status = "hibernated" /\ hib # None
          /\ op' = [op EXCEPT !.pc = "check", !.obj = sess.obj, !.for = "wake"]
          /\ UNCHANGED <<sess, pins, registry>>
       \/ /\ ~closed /\ sess # None /\ sess.status = "hibernated" /\ hib = None
          /\ IF Alive(rec)
             THEN \* a live record behind a stale marker: adopt and rebuild it
                  /\ sess' = [sess EXCEPT !.status = "idle"]
                  /\ IF Simulatable
                     THEN /\ run' = [run EXCEPT ![rec].st = "paused"]
                          /\ op' = [op EXCEPT !.pc = "quiesce", !.for = "adopt", !.topo = env,
                                              !.rt = rec, !.obj = sess.obj]
                     ELSE op' = [op EXCEPT !.pc = "check", !.obj = sess.obj] /\ UNCHANGED run
                  /\ UNCHANGED <<pins, rec, driver, hib, disk>>
             ELSE \* neither a checkpoint nor a usable record
                  /\ sess' = None
                  /\ rec' = None
                  /\ driver' = IF rec # None THEN None ELSE driver
                  /\ disk' = IF rec # None THEN NoDisk ELSE disk
                  /\ op' = [op EXCEPT !.pc = "create"]
                  /\ UNCHANGED <<pins, run, hib>>
    /\ UNCHANGED <<env, closed, queue, catchUp, freeze, wall, left, torn>>

\* createSessionDiscardingHusk, and createSession once it has retried.
Create ==
    /\ op # None /\ op.pc = "create"
    /\ \/ ~Simulatable /\ Threw /\ UNCHANGED registry
       \/ /\ Simulatable /\ rec = None /\ hib = None
          /\ Build("create", 0)
          /\ UNCHANGED <<pins, registry>>
       \/ /\ Simulatable /\ (rec # None \/ hib # None)
          /\ IF op.retry THEN Threw /\ UNCHANGED registry
             ELSE /\ op' = [op EXCEPT !.retry = TRUE]
                  /\ hib' = None                                     \* stopAndRemove
                  /\ disk' = NoDisk
                  /\ IF hib # None THEN UNCHANGED <<rec, run, driver>>
                     ELSE rec' = None /\ driver' = None /\ run' = [run EXCEPT ![rec] = Stopped]
                  /\ UNCHANGED pins
    /\ UNCHANGED <<env, closed, sess, queue, catchUp, freeze, wall, left, torn>>

\* The record check of ensureCaughtUp: wake a checkpoint, discard a husk, or
\* start the runtime and queue the catch-up.
Check ==
    /\ op # None /\ op.pc = "check"
    /\ \/ /\ hib # None /\ (op.for = "wake" \/ rec = None)
          /\ sess' = IF sess # None /\ sess.obj = op.obj
                     THEN [sess EXCEPT !.status = "hibernated"] ELSE sess
          /\ IF Simulatable THEN Build("wake", hib) /\ UNCHANGED pins ELSE Threw
          /\ UNCHANGED <<registry, catchUp>>
       \/ /\ hib = None /\ ~Alive(rec)
          /\ sess' = None
          /\ rec' = None
          /\ driver' = IF rec # None THEN None ELSE driver
          /\ disk' = IF rec # None THEN NoDisk ELSE disk
          /\ op' = [op EXCEPT !.pc = "create", !.retry = TRUE]
          /\ UNCHANGED <<pins, run, hib, catchUp>>
       \/ /\ Alive(rec) /\ ~(hib # None /\ op.for = "wake")
          /\ run' = [run EXCEPT ![rec].st = "running"]
          /\ driver' = DriverFor(rec, driver)
          /\ op' = [op EXCEPT !.pc = "await"]
          /\ Queued
          /\ UNCHANGED <<sess, pins, rec, hib, disk>>
    /\ UNCHANGED <<env, closed, queue, freeze, wall, left, torn>>

\* onWorldMutation after the catch-up: rebuildLiveSession up to its first wait.
Rebuild ==
    /\ op # None /\ op.pc = "rebuild"
    /\ IF Simulatable /\ rec # None
       THEN /\ op' = [op EXCEPT !.pc = "quiesce", !.for = "land", !.topo = env, !.rt = rec]
            /\ run' = IF Alive(rec) THEN [run EXCEPT ![rec].st = "paused"] ELSE run
       ELSE op' = None /\ UNCHANGED run
    /\ UNCHANGED <<env, closed, sess, queue, catchUp, pins, rec, driver, hib, disk,
                   freeze, wall, left, torn>>

\* The rebuild is over without a new runtime.
NotRebuilt ==
    op' = IF op.for = "adopt" THEN [op EXCEPT !.pc = "check", !.for = None, !.rt = None]
          ELSE None

\* awaitQuiescent returns; exportWorldState refuses a stopped runtime.
Quiesce ==
    /\ op # None /\ op.pc = "quiesce"
    /\ IF Alive(op.rt) THEN op' = [op EXCEPT !.pc = "building", !.t = run[op.rt].t]
       ELSE NotRebuilt
    /\ UNCHANGED <<env, closed, sess, queue, catchUp, pins, registry, freeze, wall,
                   left, torn>>

\* createSession once the runtime is built.
LandCreate ==
    /\ Building /\ op.for = "create" /\ Spares # {} /\ NewObjects # {}
    /\ rec' = Spare
    /\ run' = [run EXCEPT ![Spare] = Runtime("running", op.topo, wall)]
    /\ driver' = DriverFor(Spare, driver)
    /\ disk' = [disk EXCEPT !.dir = TRUE]
    /\ sess' = Session(NewObject, "idle")
    /\ op' = IF op.k = "mutate" /\ ~op.had THEN None
             ELSE [op EXCEPT !.pc = "check", !.obj = NewObject, !.for = None]
    /\ UNCHANGED <<env, closed, queue, catchUp, pins, hib, freeze, wall, left, torn>>

\* resumeEnvSession once the runtime is built, and the rest of wakeHibernated.
LandWake ==
    /\ Building /\ op.for = "wake" /\ Spares # {}
    /\ rec' = Spare
    /\ run' = [run EXCEPT ![Spare] = Runtime("running", op.topo, op.t)]
    /\ driver' = DriverFor(Spare, driver)
    /\ hib' = None
    /\ disk' = [disk EXCEPT !.dir = TRUE]
    /\ sess' = IF sess # None /\ sess.obj = op.obj
               THEN [sess EXCEPT !.status = "idle"] ELSE sess
    /\ op' = [op EXCEPT !.pc = "check", !.for = None]
    /\ UNCHANGED <<env, closed, queue, catchUp, pins, freeze, wall, left, torn>>

\* Mutated form: the old runtime goes on after the swap.
LandRebuildBeside ==
    /\ Building /\ op.for \in {"adopt", "land"} /\ Spares # {}
    /\ rec' = Spare
    /\ run' = [run EXCEPT ![Spare] = Runtime("running", op.topo, op.t)]
    /\ driver' = Spare
    /\ disk' = [disk EXCEPT !.dir = TRUE]
    /\ op' = [op EXCEPT !.pc = IF op.for = "land" THEN "landed" ELSE "check", !.for = None,
                        !.rt = None]
    /\ IF op.for = "land" THEN Queued ELSE UNCHANGED catchUp
    /\ UNCHANGED <<env, closed, sess, queue, pins, hib, freeze, wall, left, torn>>

\* rebuildLiveSession's swap: the old runtime is stopped, the record replaced.
LandRebuild ==
    /\ Building /\ op.for \in {"adopt", "land"} /\ Spares # {}
    /\ LET new == Spare IN
       /\ rec' = new
       /\ run' = [run EXCEPT ![op.rt] = Stopped,
                             ![new] = Runtime("running", op.topo, op.t)]
       /\ driver' = new
    /\ disk' = [disk EXCEPT !.dir = TRUE]
    /\ IF op.for = "land"
       THEN op' = [op EXCEPT !.pc = "landed", !.rt = None] /\ Queued
       ELSE op' = [op EXCEPT !.pc = "check", !.for = None, !.rt = None] /\ UNCHANGED catchUp
    /\ UNCHANGED <<env, closed, sess, queue, pins, hib, freeze, wall, left, torn>>

\* Home Assistant is not configured or does not know the entity.
BuildFails ==
    /\ Building /\ op.topo = "hass"
    /\ IF op.for \in {"create", "wake"} THEN Threw ELSE NotRebuilt /\ UNCHANGED pins
    /\ UNCHANGED <<env, closed, sess, queue, catchUp, registry, freeze, wall, left, torn>>

\* The advance is done, or the sync cap has passed.
Return ==
    /\ op # None /\ op.pc \in {"await", "landed"}
    /\ op' = IF op.k = "mutate" /\ op.pc = "await" THEN [op EXCEPT !.pc = "rebuild"] ELSE None
    /\ IF op.k = "observe" THEN Observed(op.c) ELSE UNCHANGED <<sess, pins>>
    /\ UNCHANGED <<env, closed, queue, catchUp, registry, freeze, wall, left, torn>>

-----------------------------------------------------------------------------
\* The background chain.

StartCatchUp ==
    /\ catchUp.queued /\ catchUp.target = None
    /\ catchUp' = [queued |-> FALSE,
                   target |-> IF ~closed /\ sess # None /\ Alive(rec) /\ run[rec].t < wall
                              THEN wall ELSE None]
    /\ UNCHANGED <<env, closed, sess, op, queue, pins, registry, freeze, wall, left, torn>>

\* One chunk on the record of the moment, which a rebuild may have replaced.
Chunk ==
    /\ catchUp.target # None
    /\ IF Alive(rec) /\ run[rec].t < catchUp.target
       THEN run' = [run EXCEPT ![rec].t = @ + 1] /\ UNCHANGED catchUp
       ELSE catchUp' = [catchUp EXCEPT !.target = None] /\ UNCHANGED run
    /\ UNCHANGED <<env, closed, sess, op, queue, pins, rec, driver, hib, disk, freeze,
                   wall, left, torn>>

\* The lazy driver reaches a due moment.
Drive ==
    /\ Settled /\ driver # None
    /\ run[driver].st = "running" /\ run[driver].t < wall
    /\ run' = [run EXCEPT ![driver].t = @ + 1]
    /\ UNCHANGED <<env, service, rec, driver, hib, disk, freeze, wall, left, torn>>

Tick ==
    /\ Settled /\ wall < MaxWall
    /\ wall' = wall + 1
    /\ UNCHANGED <<env, service, registry, freeze, left, torn>>

-----------------------------------------------------------------------------
\* What comes from outside.

Spend(what) == left[what] > 0 /\ left' = [left EXCEPT ![what] = @ - 1]

Enqueue(o) == queue' = Append(queue, o)

Arrive ==
    /\ Settled /\ env # "gone" /\ Spend("ops")
    /\ Enqueue(Operation("target", None))
    /\ UNCHANGED <<env, closed, sess, op, catchUp, pins, registry, freeze, wall, torn>>

Connect(c) ==
    /\ Settled /\ env # "gone" /\ pins[c].at = "out" /\ Spend("ops")
    /\ pins' = [pins EXCEPT ![c] = [at |-> "joining", obj |-> None]]
    /\ Enqueue(Operation("observe", c))
    /\ UNCHANGED <<env, closed, sess, op, catchUp, registry, freeze, wall, torn>>

Disconnect(c) ==
    /\ Settled /\ pins[c].at \in {"joining", "open"}
    /\ pins' = [pins EXCEPT ![c] = [at |-> IF @.at = "joining" THEN "left" ELSE "out",
                                    obj |-> None]]
    /\ IF sess # None /\ pins[c].obj = sess.obj
       THEN sess' = Released(sess)
       ELSE UNCHANGED sess
    /\ UNCHANGED <<env, closed, op, queue, catchUp, registry, freeze, wall, left, torn>>

\* The rows change and the change pipeline hands the change to the world.
Edit ==
    /\ Settled /\ env # "gone" /\ Spend("edits")
    /\ env' \in Rows
    /\ Enqueue(Operation("mutate", None))
    /\ UNCHANGED <<closed, sess, op, catchUp, pins, registry, freeze, wall, torn>>

\* POST stop or hibernate on the live record, up to its wait for quiescence.
Freeze ==
    /\ Settled /\ freeze = None /\ hib = None /\ Alive(rec)
    /\ run[rec].topo # "hass"
    /\ Spend("freezes")
    /\ freeze' = rec
    /\ run' = [run EXCEPT ![rec].st = "paused"]
    /\ UNCHANGED <<env, service, rec, driver, hib, disk, wall, torn>>

\* The checkpoint is written, the runtime released, the freeze adopted.
Frozen ==
    /\ Settled /\ freeze # None /\ (Alive(freeze) /\ sess = None => NewObjects # {})
    /\ freeze' = None
    /\ IF Alive(freeze)
       THEN /\ disk' = [dir |-> TRUE, at |-> run[freeze].t]
            /\ hib' = run[freeze].t
            /\ rec' = None /\ driver' = None
            /\ run' = [run EXCEPT ![freeze] = Stopped]
            /\ sess' = IF sess = None THEN Session(NewObject, "hibernated")
                       ELSE Session(sess.obj, "hibernated")
            /\ torn' = (torn \/ Building)
       ELSE UNCHANGED <<sess, registry, torn>>
    /\ UNCHANGED <<env, closed, op, queue, catchUp, pins, wall, left>>

\* POST stop on the hibernated record: record, directory and checkpoint go.
Discard ==
    /\ Settled /\ hib # None
    /\ hib' = None /\ disk' = NoDisk
    /\ torn' = (torn \/ Building)
    /\ UNCHANGED <<env, service, rec, run, driver, freeze, wall, left>>

\* DELETE of the environment: session state, then the registry's records.
Delete ==
    /\ Settled /\ "delete" \in Ends /\ env # "gone"
    /\ env' = "gone"
    /\ sess' = None
    /\ run' = IF rec = None THEN run ELSE [run EXCEPT ![rec] = Stopped]
    /\ driver' = IF rec = None THEN driver ELSE None
    /\ rec' = None /\ hib' = None
    /\ disk' = IF rec = None /\ hib = None THEN disk ELSE NoDisk
    /\ torn' = (torn \/ Building)
    /\ UNCHANGED <<closed, op, queue, catchUp, pins, freeze, wall, left>>

\* onClose: the service's close, then stopAll.
Close ==
    /\ Settled /\ "close" \in Ends /\ ~closed
    /\ closed' = TRUE
    /\ sess' = None
    /\ catchUp' = [catchUp EXCEPT !.queued = FALSE]
    /\ run' = IF rec = None THEN run ELSE [run EXCEPT ![rec] = Stopped]
    /\ driver' = IF rec = None THEN driver ELSE None
    /\ torn' = (torn \/ Building)
    /\ UNCHANGED <<env, op, queue, pins, rec, hib, disk, freeze, wall, left>>

\* Mutated form: the next process wakes the worlds it finds without their checkpoints.
AdoptedNever == FALSE

\* The process dies; the next one scans the trajectory directory, adopts the
\* checkpoint it finds and wakes every world it knows of.
Adopted == env # "gone" /\ disk.dir /\ disk.at # None

Reboot ==
    /\ Settled /\ Spend("kills")
    /\ closed' = FALSE
    /\ op' = None
    /\ queue' = IF env # "gone" /\ disk.dir THEN <<Operation("mutate", None)>> ELSE << >>
    /\ catchUp' = [queued |-> FALSE, target |-> None]
    /\ pins' = [c \in Clients |-> [at |-> "out", obj |-> None]]
    /\ rec' = None /\ driver' = None /\ freeze' = None
    /\ run' = [r \in Runtimes |-> Stopped]
    /\ hib' = IF Adopted THEN disk.at ELSE None
    /\ sess' = IF Adopted THEN Session(Least(Objects), "hibernated") ELSE None
    /\ torn' = FALSE
    /\ UNCHANGED <<env, disk, wall>>

\* The environment has just been created; finishCreation wakes its world.
Init ==
    /\ env \in Rows
    /\ closed = FALSE /\ sess = None
    /\ op = None /\ queue = <<Operation("mutate", None)>>
    /\ catchUp = [queued |-> FALSE, target |-> None]
    /\ pins = [c \in Clients |-> [at |-> "out", obj |-> None]]
    /\ rec = None /\ run = [r \in Runtimes |-> Stopped] /\ driver = None
    /\ hib = None /\ disk = NoDisk /\ freeze = None
    /\ wall = 0
    /\ left = [ops |-> MaxOps, edits |-> MaxEdits, freezes |-> MaxFreezes, kills |-> MaxKills]
    /\ torn = FALSE

Operate ==
    \/ Begin \/ Ensure \/ Create \/ Check \/ Rebuild \/ Quiesce
    \/ LandCreate \/ LandWake \/ LandRebuild \/ BuildFails \/ Return

Next ==
    \/ Operate \/ StartCatchUp \/ Chunk \/ Drive \/ Tick
    \/ Arrive \/ Edit \/ Freeze \/ Frozen \/ Discard \/ Delete \/ Close \/ Reboot
    \/ \E c \in Clients : Connect(c) \/ Disconnect(c)

Spec == Init /\ [][Next]_vars

\* A promise chain goes on as long as the process lives: quiescence and the wait
\* for the catch-up are bounded in time and a build without real devices resolves
\* at once.  A build with real devices may wait for Home Assistant for ever.
FairSpec ==
    /\ Spec
    /\ WF_vars(Operate /\ ~HassBuilding)
    /\ WF_vars(StartCatchUp) /\ WF_vars(Chunk)

-----------------------------------------------------------------------------
\* Properties.

Moments == 0..MaxWall

\* TypeOK: the session's status, the pins, the registry's records, the disk and the
\* clock stay within what SessionState and the registry declare.
TypeOK ==
    /\ env \in {"blank", "plain", "hass", "gone"} /\ closed \in BOOLEAN
    /\ \/ sess = None
       \/ sess \in [obj : Objects, status : Statuses, observers : 0..Cardinality(Clients)]
    /\ op # None => op.pc \in Steps /\ op.obj \in Objects \cup {None}
    /\ catchUp \in [queued : BOOLEAN, target : Moments \cup {None}]
    /\ pins \in [Clients -> [at : {"out", "joining", "left", "open"},
                             obj : Objects \cup {None}]]
    /\ {rec, driver, freeze} \subseteq Runtimes \cup {None}
    /\ \A r \in Runtimes : /\ run[r].st \in {"running", "paused", "stopped"}
                           /\ run[r].topo \in {"plain", "hass"} /\ run[r].t \in Moments
    /\ hib \in Moments \cup {None}
    /\ disk \in [dir : BOOLEAN, at : Moments \cup {None}]
    /\ wall \in Moments /\ torn \in BOOLEAN

\* OneWorld: as long as nothing outside lands while a runtime is being built
\* (hibernate, discard, delete, close against createEnvSession, resumeEnvSession,
\* rebuildLiveSession), the environment has one world: either a live record or a
\* checkpointed one, no runtime beside the record's, no driver on another.
OneWorld ==
    ~torn => /\ rec # None => hib = None
             /\ \A r \in Runtimes : run[r] # Stopped => r = rec
             /\ driver # None => driver = rec

\* NoLeakedPin: the session counts no more observers than streams hold a pin on
\* its state object, whatever order connections, disconnections, freezes and
\* re-creations of the session come in; a pin too many would keep the world
\* ACTIVE, at full precision, for good.
NoLeakedPin ==
    sess # None => sess.observers <= Cardinality({c \in Clients : pins[c].obj = sess.obj})

\* NoFreshWorldOverACheckpoint: a world is created at its beginning only when no
\* history is left on disk, after a freeze, a discard or the death of the process
\* (tryRebindFromDisk and the boot scan come first).
NoFreshWorldOverACheckpoint == Building /\ op.for = "create" => disk.at = None

\* WorldsMaterialize: with an arrival, an observer or a world change waiting and
\* rows that can be simulated, the session comes to exist, alive, with a world
\* that has reached the moment the request waited at -- also where the session
\* could not be created before, was discarded, or its record had gone (R82-F1,
\* R37-F1) -- unless a freeze, the shutdown, the process's death or a change of
\* the rows comes between, or an operation before it builds a runtime with real
\* devices and Home Assistant never answers: such a build holds up the chain.
WorldsMaterialize ==
    \A w \in 1..MaxWall, k \in 0..MaxKills :
        (queue # << >> /\ env = "plain" /\ wall = w /\ left.kills = k)
            ~> \/ sess # None /\ Alive(rec) /\ run[rec].t >= w
               \/ closed \/ env # "plain" \/ freeze # None \/ left.kills # k
               \/ []HassBuilding
=============================================================================
