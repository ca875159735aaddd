---------------------------- MODULE TimelineLog ----------------------------
(***************************************************************************)
(* The timeline of one simulation on disk: a writer that buffers records   *)
(* and appends them in batches to numbered segments, and the compactor     *)
(* that rolls old sealed segments up into minute aggregates and deletes    *)
(* the raw files afterwards.                                               *)
(*                                                                         *)
(* A record is a number, given in the order of appending; a file is the    *)
(* set of the records whose lines it holds, so a file that does not exist  *)
(* is the empty set (no file is ever created empty).  File 0 is the legacy *)
(* single file, file n > 0 is segment-<n>.jsonl.  A rollup is the set of   *)
(* the sources its manifest names and the set of the records folded into   *)
(* its aggregates; the k-th rollup is rollup-1m-<k>.jsonl.                 *)
(*                                                                         *)
(* Every file operation is synchronous, so nothing of the process runs     *)
(* between two of them: only a crash or a failing call can separate them.  *)
(* "job" is where the synchronous sweep stands.                            *)
(***************************************************************************)
EXTENDS Integers, Sequences, FiniteSets, FiniteSetsExt

CONSTANTS
    MaxRecords,     \* bound: records appended
    Size,           \* the bytes of each record's line
    SegmentCap,     \* maxFileBytes, the cap of one segment
    BatchRecords,   \* TIMELINE_BATCH_MAX_RECORDS
    SweepBytes,     \* ROLLUP_BATCH_MAX_BYTES
    MaxCrashes,     \* bound: crashes of the process
    MaxFaults       \* bound: file operations that fail

Records == 0 .. MaxRecords
Files == 0 .. MaxRecords + 1

\* A configured cap of zero disables rotation and is not modelled.
ASSUME LogAssumption ==
    /\ MaxRecords \in Nat \ {0} /\ SegmentCap \in Nat \ {0}
    /\ BatchRecords \in Nat \ {0} /\ SweepBytes \in Nat
    /\ MaxCrashes \in Nat /\ MaxFaults \in Nat
    /\ Size \in [Records -> Nat \ {0}]

VARIABLES
    buffer,     \* records waiting in the writer, oldest first
    closed,     \* the writer was closed: appends write through
    next,       \* the record the simulation emits next
    raw,        \* the records in each raw file
    stale,      \* raw files whose newest byte is older than the window
    rollups,    \* the rollup files, in the order of their sequence numbers
    tmp,        \* the rollup-1m-<next>.jsonl.tmp files: none or one
    job,        \* the step the synchronous sweep has reached
    roll,       \* the sources the sweep folds (toRoll), then those still to delete
    del,        \* the residue the sweep has still to delete (toDelete)
    landed,     \* history: every record that ever reached the disk
    orphans,    \* history: the records whose files a .tmp left behind has named
    crashes, faults

memory == <<buffer, closed, next>>
disk == <<raw, stale, rollups, tmp>>
sweep == <<job, roll, del>>
history == <<landed, orphans>>
vars == <<memory, disk, sweep, history, crashes, faults>>

Jobs == {"idle", "sweep", "write", "rename", "delete"}
Rollups == [sources : SUBSET Files, records : SUBSET Records]

Init ==
    /\ buffer = <<>> /\ closed = FALSE /\ next = 1
    /\ raw \in { [f \in Files |-> {}],
                 [f \in Files |-> IF f = 0 THEN {0} ELSE {}] }
    /\ stale = {} /\ rollups = <<>> /\ tmp = {}
    /\ job = "idle" /\ roll = {} /\ del = {}
    /\ landed = raw[0] /\ orphans = {} /\ crashes = 0 /\ faults = 0

---------------------------------------------------------------------------
(* The segmented log *)

Bytes(S) == MapThenSumSet(LAMBDA r : Size[r], S)

Existing == {f \in Files : raw[f] # {}}
Segments == Existing \ {0}
Highest == Max(Segments \cup {0})

\* The segments behind the active one, and the legacy file.
Sealed == {f \in Existing : f = 0 \/ f < Highest}

\* What appending leaves behind: the segment reached, the room left in it,
\* and the records put in each file.
Start(at, room) == [at |-> at, room |-> room, put |-> [f \in Files |-> {}]]

\* The mutated form numbers segments by how many there are.
OnLastOfCount ==
    LET n == Cardinality(Segments) IN Start(n, SegmentCap - Bytes(raw[n]))
OnActive == Start(Highest, SegmentCap - Bytes(raw[Highest]))

Put(log, r) ==
    IF Size[r] > log.room
    THEN [at |-> log.at + 1, room |-> SegmentCap - Size[r],
          put |-> [log.put EXCEPT ![log.at + 1] = {r}]]
    ELSE [log EXCEPT !.room = @ - Size[r], !.put[log.at] = @ \cup {r}]

\* A batch rotates at the first line that does not fit.  On an empty log a
\* first line larger than the cap leaves number 1 unused.
AppendedLines(batch) ==
    LET log[n \in 0 .. Len(batch)] ==
            IF n = 0
            THEN IF Segments = {} THEN Start(1, SegmentCap) ELSE OnActive
            ELSE Put(log[n - 1], batch[n])
    IN  log[Len(batch)]

\* A single line starts segment 1 on an empty log, whatever its size.
AppendedLine(r) ==
    IF Segments = {} THEN Put(Start(1, Size[r]), r) ELSE Put(OnActive, r)

\* Appending renews the mtime of the files it writes to.
Lands(put) ==
    LET written == {f \in Files : put[f] # {}} IN
    /\ raw' = [f \in Files |-> raw[f] \cup put[f]]
    /\ stale' = stale \ written
    /\ landed' = landed \cup UNION {put[f] : f \in Files}
    /\ UNCHANGED orphans

\* The hook runs when a segment was sealed: the sweep of the directory.
Rotated(log) == log.at > Max({1, Highest})

WritesOut(log) ==
    /\ Lands(log.put)
    /\ job' = IF Rotated(log) THEN "sweep" ELSE "idle"
    /\ UNCHANGED <<rollups, tmp, roll, del>>

\* A failing append drops the rest of the batch: the buffer was emptied
\* first, and the failure is only logged.
FailsAfter(log, f) ==
    /\ faults < MaxFaults /\ faults' = faults + 1
    /\ Lands([g \in Files |-> IF g < f THEN log.put[g] ELSE {}])
    /\ UNCHANGED <<rollups, tmp, sweep>>

Written(log) ==
    \/ WritesOut(log) /\ UNCHANGED faults
    \/ \E f \in {g \in Files : log.put[g] # {}} : FailsAfter(log, f)

---------------------------------------------------------------------------
(* The writer *)

Flushed(batch) == Written(AppendedLines(batch))

\* BatchedTimelineWriter.append: buffered, flushed at the limit, written
\* through once closed.
AppendRecord ==
    /\ job = "idle" /\ next <= MaxRecords
    /\ next' = next + 1
    /\ IF closed
       THEN Written(AppendedLine(next)) /\ UNCHANGED buffer
       ELSE LET batch == Append(buffer, next) IN
            IF Len(batch) >= BatchRecords
            THEN Flushed(batch) /\ buffer' = <<>>
            ELSE buffer' = batch /\ UNCHANGED <<disk, sweep, history, faults>>
    /\ UNCHANGED <<closed, crashes>>

\* The interval timer.
Flush ==
    /\ job = "idle" /\ ~closed /\ buffer # <<>>
    /\ Flushed(buffer) /\ buffer' = <<>>
    /\ UNCHANGED <<closed, next, crashes>>

\* Mutated form: the last flush is forgotten.
CloseUnflushed ==
    /\ job = "idle" /\ ~closed /\ closed' = TRUE
    /\ UNCHANGED <<buffer, next, disk, sweep, history, crashes, faults>>

\* closeSimTimelineWriter: a last flush, then the writer leaves the map.
Close ==
    /\ job = "idle" /\ ~closed
    /\ IF buffer = <<>>
       THEN UNCHANGED <<disk, sweep, history, faults>>
       ELSE Flushed(buffer)
    /\ buffer' = <<>> /\ closed' = TRUE
    /\ UNCHANGED <<next, crashes>>

\* A resumed simulation gets a new writer on the same directory.
Open ==
    /\ job = "idle" /\ closed
    /\ closed' = FALSE
    /\ UNCHANGED <<buffer, next, disk, sweep, history, crashes, faults>>

---------------------------------------------------------------------------
(* The compactor *)

\* Every file whose name starts with "rollup-" is read for its manifest,
\* and that includes a .tmp file left behind.
Manifests == {rollups[k] : k \in DOMAIN rollups} \cup tmp
Covered == UNION {m.sources : m \in Manifests}

\* The order in which a sweep looks at files: segments, the legacy file last.
First(S) == IF S = {0} THEN 0 ELSE Min(S \ {0})
Before(f, S) == {g \in S : g # 0 /\ (f = 0 \/ g < f)}

\* A file that does not fit in the budget of the sweep is skipped, and the
\* files after it are still considered.
FillsBudget(batch, files) ==
    \A f \in files :
        f \in batch <=>
            Bytes(UNION {raw[g] : g \in Before(f, batch)}) + Bytes(raw[f]) <= SweepBytes

Foldable == (Sealed \cap stale) \ Covered
\* The residue of a sweep that was cut off; the mutated form skips it only.
ToDeleteNothing == {}
ToDelete == Sealed \cap Covered

\* compactLog up to its first write.
Plan ==
    /\ job = "sweep"
    /\ roll' \in {batch \in SUBSET Foldable : FillsBudget(batch, Foldable)}
    /\ del' = ToDelete
    /\ job' = IF roll' # {} THEN "write"
              ELSE IF ToDelete # {} THEN "delete" ELSE "idle"
    /\ UNCHANGED <<memory, disk, history, crashes, faults>>

Folded == [sources |-> roll, records |-> UNION {raw[f] : f \in roll}]

\* The name of the .tmp file is that of the next rollup, so a file left by
\* an earlier sweep is overwritten.
WriteTmp ==
    /\ job = "write"
    /\ tmp' = {Folded} /\ job' = "rename"
    /\ UNCHANGED <<memory, raw, stale, rollups, roll, del, history, crashes, faults>>

Rename ==
    /\ job = "rename"
    /\ \E rollup \in tmp : rollups' = Append(rollups, rollup)
    /\ tmp' = {} /\ job' = "delete"
    /\ UNCHANGED <<memory, raw, stale, roll, del, history, crashes, faults>>

SweepEnds == job' = "idle" /\ roll' = {} /\ del' = {}

\* Mutated form: the raw files go although the rename has failed.
SweepGoesOn ==
    /\ job = "rename"
    /\ faults < MaxFaults /\ faults' = faults + 1
    /\ job' = "delete" /\ tmp' = {}
    /\ UNCHANGED <<memory, raw, stale, rollups, roll, del, history, crashes>>

\* What a sweep that is cut off may leave: a write may have left the file before,
\* one with no readable manifest, or one with its manifest and none of its
\* aggregates; what it names passes for rolled up from now on.
Leftovers ==
    IF job = "write" THEN {tmp, {}, {[Folded EXCEPT !.records = {}]}} ELSE {tmp}

CutOff ==
    /\ tmp' \in Leftovers
    /\ orphans' = orphans \cup UNION {raw[f] : f \in UNION {m.sources : m \in tmp'}}
    /\ roll' = {} /\ del' = {}
    /\ UNCHANGED <<next, raw, stale, rollups, landed>>

\* An exception ends the sweep of this log.
SweepFails ==
    /\ job \in {"write", "rename"}
    /\ faults < MaxFaults /\ faults' = faults + 1
    /\ CutOff
    /\ job' = "idle"
    /\ UNCHANGED <<buffer, closed, crashes>>

\* unlinkSync, whose failure is left to the next sweep.
Deletes(f) ==
    /\ raw' = [raw EXCEPT ![f] = {}]
    /\ stale' = stale \ {f}
    /\ UNCHANGED faults

DeleteFails ==
    /\ faults < MaxFaults /\ faults' = faults + 1
    /\ UNCHANGED <<raw, stale>>

\* The residue goes first, then what was folded.
DeleteNext ==
    /\ job = "delete"
    /\ IF del \cup roll = {}
       THEN SweepEnds /\ UNCHANGED <<raw, stale, faults>>
       ELSE LET f == First(IF del # {} THEN del ELSE roll) IN
            /\ Deletes(f) \/ DeleteFails
            /\ del' = del \ {f} /\ roll' = roll \ {f} /\ UNCHANGED job
    /\ UNCHANGED <<memory, rollups, tmp, history, crashes>>

\* The timer of the periodic pass.
SweepTimer ==
    /\ job = "idle"
    /\ job' = "sweep"
    /\ UNCHANGED <<memory, disk, roll, del, history, crashes, faults>>

---------------------------------------------------------------------------
(* The environment *)

\* Time passes: the oldest file in the window leaves it.
Age ==
    /\ Existing \ stale # {}
    /\ stale' = stale \cup {Min(Existing \ stale)}
    /\ UNCHANGED <<memory, raw, rollups, tmp, sweep, history, crashes, faults>>

\* The buffer is lost; the boot of the next process sweeps.
Crash ==
    /\ crashes < MaxCrashes /\ crashes' = crashes + 1
    /\ CutOff
    /\ buffer' = <<>> /\ closed' = FALSE /\ job' = "sweep"
    /\ UNCHANGED faults

Sweeps == Plan \/ WriteTmp \/ Rename \/ SweepFails \/ DeleteNext

Next ==
    \/ AppendRecord \/ Flush \/ Close \/ Open
    \/ Sweeps \/ SweepTimer
    \/ Age \/ Crash

\* A sweep once begun runs to its end; the periodic timer keeps firing; time
\* passes.  Nothing forces the simulation to write, to close or to crash.
Fairness == WF_vars(Sweeps) /\ WF_vars(SweepTimer) /\ WF_vars(Age)

Spec == Init /\ [][Next]_vars
LiveSpec == Spec /\ Fairness

---------------------------------------------------------------------------
(* Properties *)

\* The type of the state.
TypeOK ==
    /\ buffer \in Seq(Records) /\ Len(buffer) < BatchRecords
    /\ closed \in BOOLEAN /\ (closed => buffer = <<>>)
    /\ next \in 1 .. MaxRecords + 1
    /\ raw \in [Files -> SUBSET Records] /\ stale \subseteq Existing
    /\ rollups \in Seq(Rollups)
    /\ tmp \in SUBSET Rollups /\ Cardinality(tmp) <= 1
    /\ job \in Jobs /\ roll \subseteq Files /\ del \subseteq Files
    /\ landed \subseteq Records /\ orphans \subseteq Records
    /\ crashes \in 0 .. MaxCrashes /\ faults \in 0 .. MaxFaults

InRaw(r) == \E f \in Files : r \in raw[f]
RolledIn(r) == {k \in DOMAIN rollups : r \in rollups[k].records}

\* A record that reached the disk stays in a raw file or in a rollup that is in
\* place, and never in two rollups, wherever a sweep was cut off and whichever
\* deletion failed (timeline-compactor.ts:6-10), but for what a sweep cut off
\* between its write and its rename had in hand: that may be gone, and nothing else.
KeptOnce ==
    \A r \in landed : /\ InRaw(r) \/ RolledIn(r) # {} \/ r \in orphans
                      /\ Cardinality(RolledIn(r)) <= 1

\* Lines go to the end of the log only: no sealed segment is written again, so
\* that files in the order of their numbers hold records in the order they came,
\* and no name a manifest covers is used for a new segment, which would be taken
\* for residue and deleted.
SealedStaysSealed ==
    [][\A f \in Files : ~(raw'[f] \subseteq raw[f]) =>
         f # 0 /\ f >= Highest /\ f \notin Covered]_vars

\* Every sealed file that fits the budget of a sweep is compacted away in the
\* end, also when deletions failed or a crash cut a sweep off.
Compacts ==
    \A f \in Files :
        f \in Sealed /\ Bytes(raw[f]) <= SweepBytes ~> f \notin Sealed

\* What the compactor's header says: "a raw segment is only deleted AFTER its
\* rollup file has been durably renamed into place".
DeletedAfterRename ==
    [][\A f \in Files : raw'[f] = {} => \A r \in raw[f] : RolledIn(r) # {}]_vars
=============================================================================
