------------------------- MODULE TimelineLogProofs -------------------------
(***************************************************************************)
(* The safety of the timeline on disk, for every number of records, sizes  *)
(* of lines, caps, crashes and failures: types, sealed segments stay       *)
(* sealed, and every record that reached the disk is kept, and kept once,  *)
(* but for what a .tmp file left behind has named.                         *)
(*                                                                         *)
(* What an append leaves behind (IsPut, IsLog) is shown for every prefix   *)
(* of a batch by least counterexample; the existence of the function that  *)
(* AppendedLines recurses with is shown the same way (FoldIs).             *)
(***************************************************************************)
EXTENDS TimelineLog, FiniteSetTheorems, WellFoundedInduction, TLAPS

\* What waits in the buffer is new, in every element.
Waiting ==
    /\ \A i \in DOMAIN buffer : buffer[i] < next /\ buffer[i] \notin landed
    /\ \A i, j \in DOMAIN buffer : buffer[i] = buffer[j] => i = j
    /\ \A r \in landed : r < next

\* What a sweep touches, and what any sweep has touched, is behind the active segment.
Behind == \A f \in Covered \cup roll \cup del : f = 0 \/ f < Highest

\* A record is in one raw file at most; raw files and rollups hold what has landed.
Apart ==
    /\ \A f, g \in Files : f # g => raw[f] \cap raw[g] = {}
    /\ \A f \in Files : raw[f] \subseteq landed
    /\ \A k \in DOMAIN rollups : rollups[k].records \subseteq landed
    /\ \A m \in tmp : m.records \subseteq landed

IInv == TypeOK /\ Waiting /\ Behind /\ Apart

\* A rollup holds all of its sources that are still there, and nothing of another file.
Folds ==
    \A k \in DOMAIN rollups : \A f \in Files :
        /\ raw[f] \cap rollups[k].records # {} => f \in rollups[k].sources
        /\ f \in rollups[k].sources => raw[f] \subseteq rollups[k].records

FoldedOnce ==
    \A k, l \in DOMAIN rollups :
        k # l => rollups[k].records \cap rollups[l].records = {}

InPlace == UNION {rollups[k].sources : k \in DOMAIN rollups}

\* The sources of f are in place, or what is left of them was named by a .tmp file.
Safe(f) == f \in InPlace \/ raw[f] \subseteq orphans

\* Where the sweep stands: what it folds is in no rollup yet, what it deletes is in one
\* or an orphan, and so is what a .tmp file left behind names.
Swept ==
    /\ job = "rename" => tmp = {Folded}
    /\ job # "rename" => \A m \in tmp : \A f \in m.sources : raw[f] \subseteq orphans
    /\ job \in {"idle", "sweep"} => roll = {} /\ del = {}
    /\ job \in {"write", "rename"} => roll \cap InPlace = {}
    /\ job = "delete" => roll \subseteq InPlace
    /\ \A f \in del : Safe(f)

Kept == \A r \in landed : InRaw(r) \/ RolledIn(r) # {} \/ r \in orphans

DiskInv == Folds /\ FoldedOnce /\ Swept /\ Kept

\* What lines of the records S may be put where: behind nothing that is sealed.
IsPut(put, S) ==
    /\ put \in [Files -> SUBSET S]
    /\ \A f \in Files : put[f] # {} => f # 0 /\ f >= Highest
    /\ \A f, g \in Files : f # g => put[f] \cap put[g] = {}

\* What appending the records S leaves behind.
IsLog(log, S) ==
    /\ log = [at |-> log.at, room |-> log.room, put |-> log.put]
    /\ log.at \in Nat \ {0} /\ log.at >= Highest
    /\ IsPut(log.put, S)
    /\ \A f \in Files : log.put[f] # {} => f <= log.at

\* The function that AppendedLines recurses with, up to line m.
IsFold(g, m, start, batch) ==
    g = [n \in 0 .. m |-> IF n = 0 THEN start ELSE Put(g[n - 1], batch[n])]

Items(batch, n) == {batch[i] : i \in 1 .. n}
Distinct(batch) == \A i, j \in DOMAIN batch : batch[i] = batch[j] => i = j

\* A step that lands lines of the records S.
Appends(S) ==
    /\ \E put : IsPut(put, S) /\ Lands(put)
    /\ job' \in {"sweep", "idle"} /\ faults' \in 0 .. MaxFaults
    /\ UNCHANGED <<rollups, tmp, roll, del, orphans>>

\* The body of the action property, and what every step has to be.
Sealing ==
    \A f \in Files : ~(raw'[f] \subseteq raw[f]) => f # 0 /\ f >= Highest /\ f \notin Covered

Stepped == IInv' /\ Sealing /\ (DiskInv => DiskInv')

----------------------------------------------------------------------------
(* Least and greatest *)

LEMMA LeastNat ==
    ASSUME NEW D \in SUBSET Nat, D # {}
    PROVE  \E n \in D : \A m \in D : n <= m
  <1>1. PICK n \in D : \A m \in D : <<m, n>> \notin OpToRel(<, Nat)
    BY NatLessThanWellFounded, WFMin
  <1>2. \A m \in D : ~(m < n)
    BY <1>1 DEF OpToRel
  <1> QED BY <1>2

LEMMA MinIs ==
    ASSUME NEW S \in SUBSET Nat, S # {}
    PROVE  Min(S) \in S
  <1>1. \E n \in S : \A m \in S : n <= m
    BY LeastNat
  <1> QED BY <1>1 DEF Min

LEMMA MaxIs ==
    ASSUME NEW S \in SUBSET Files, S # {}
    PROVE  Max(S) \in S /\ \A f \in S : f <= Max(S)
  <1> DEFINE top == MaxRecords + 1
             D == {top - f : f \in S}
  <1>1. top \in Nat /\ \A f \in S : f \in Nat /\ f <= top
    BY LogAssumption DEF Files
  <1>2. D \in SUBSET Nat /\ D # {}
    BY <1>1
  <1>3. PICK d \in D : \A e \in D : d <= e
    BY <1>2, LeastNat
  <1>4. PICK f \in S : d = top - f
    BY <1>3
  <1>5. \A g \in S : top - f <= top - g
    BY <1>3, <1>4
  <1> HIDE DEF top
  <1>6. \A g \in S : f >= g
    BY <1>1, <1>4, <1>5
  <1>7. Max(S) \in S /\ \A g \in S : Max(S) >= g
    BY <1>4, <1>6 DEF Max
  <1> QED BY <1>1, <1>7

LEMMA HighestIs ==
    /\ Highest \in Files /\ Highest \in Nat
    /\ Highest \in Segments \cup {0} /\ \A f \in Segments : f <= Highest
  <1>1. Segments \cup {0} \in SUBSET Files /\ Files \subseteq Nat
    BY LogAssumption DEF Segments, Existing, Files
  <1> QED BY <1>1, MaxIs DEF Highest

LEMMA FirstIs ==
    ASSUME NEW S \in SUBSET Files, S # {}
    PROVE  First(S) \in S
  <1>1. CASE S = {0}
    BY <1>1 DEF First
  <1>2. CASE S # {0}
    <2>1. S \ {0} \in SUBSET Nat /\ S \ {0} # {}
      BY <1>2 DEF Files
    <2> QED BY <1>2, <2>1, MinIs DEF First
  <1> QED BY <1>1, <1>2

----------------------------------------------------------------------------
(* What appending leaves behind *)

LEMMA StartIs ==
    ASSUME NEW at \in Nat \ {0}, at >= Highest, NEW room
    PROVE  IsLog(Start(at, room), {})
  BY DEF IsLog, IsPut, Start

LEMMA PutKeeps ==
    ASSUME NEW log, NEW S, NEW r, IsLog(log, S), r \notin S
    PROVE  IsLog(Put(log, r), S \cup {r})
  <1> DEFINE at == log.at
             new == at + 1
             put == log.put
  <1>1. at \in Nat /\ at # 0 /\ at >= Highest /\ IsPut(put, S) /\ Highest \in Nat
    BY HighestIs DEF IsLog
  <1>2. put \in [Files -> SUBSET S] /\ Files \subseteq Nat
    BY <1>1 DEF IsPut, Files
  <1>3. CASE Size[r] > log.room
    <2> DEFINE p == [put EXCEPT ![new] = {r}]
    <2>1. Put(log, r) = [at |-> new, room |-> SegmentCap - Size[r], put |-> p]
      BY <1>3 DEF Put
    <2>2. p \in [Files -> SUBSET (S \cup {r})]
      BY <1>2
    <2>3. \A f \in Files : p[f] = IF f = new THEN {r} ELSE put[f]
      BY <1>2
    <2>4. \A f \in Files : put[f] # {} => f # 0 /\ f >= Highest /\ f <= at
      BY <1>1 DEF IsPut, IsLog
    <2>5. \A f \in Files : p[f] # {} => f # 0 /\ f >= Highest /\ f <= new
      <3> SUFFICES ASSUME NEW f \in Files, p[f] # {} PROVE f # 0 /\ f >= Highest /\ f <= new
        OBVIOUS
      <3> HIDE DEF p
      <3>1. CASE f = new
        BY <1>1, <3>1
      <3>2. CASE f # new
        <4>1. f # 0 /\ f >= Highest /\ f <= at
          BY <2>3, <2>4, <3>2
        <4> QED BY <1>1, <1>2, <4>1
      <3> QED BY <3>1, <3>2
    <2>6. \A f, g \in Files : f # g => p[f] \cap p[g] = {}
      <3>1. \A f \in Files : r \notin put[f]
        BY <1>2
      <3>2. \A f, g \in Files : f # g => put[f] \cap put[g] = {}
        BY <1>1 DEF IsPut
      <3> HIDE DEF p
      <3> QED BY <2>3, <3>1, <3>2
    <2> HIDE DEF p
    <2>7. IsPut(p, S \cup {r})
      BY <2>2, <2>5, <2>6 DEF IsPut
    <2> HIDE DEF put
    <2>8. /\ Put(log, r).at = new /\ Put(log, r).put = p
          /\ Put(log, r).room = SegmentCap - Size[r]
      BY <2>1
    <2>9. new \in Nat \ {0} /\ new >= Highest
      BY <1>1
    <2> QED BY <2>1, <2>5, <2>7, <2>8, <2>9 DEF IsLog
  <1>4. CASE ~(Size[r] > log.room)
    <2> DEFINE p == [put EXCEPT ![at] = @ \cup {r}]
               room == log.room - Size[r]
    <2>1. Put(log, r) = [at |-> at, room |-> room, put |-> p]
      <3>1. log = [at |-> log.at, room |-> log.room, put |-> log.put]
        BY DEF IsLog
      <3>2. Put(log, r) = [log EXCEPT !.room = @ - Size[r], !.put[log.at] = @ \cup {r}]
        BY <1>4 DEF Put
      <3> QED BY <3>1, <3>2
    <2>2. p \in [Files -> SUBSET (S \cup {r})]
      BY <1>2
    <2>3. \A f \in Files : p[f] = IF f = at THEN put[f] \cup {r} ELSE put[f]
      BY <1>2
    <2>4. \A f \in Files : put[f] # {} => f # 0 /\ f >= Highest /\ f <= at
      BY <1>1 DEF IsPut, IsLog
    <2>5. \A f \in Files : p[f] # {} => f # 0 /\ f >= Highest /\ f <= at
      <3> SUFFICES ASSUME NEW f \in Files, p[f] # {} PROVE f # 0 /\ f >= Highest /\ f <= at
        OBVIOUS
      <3> HIDE DEF p
      <3>1. CASE f = at
        BY <1>1, <3>1
      <3>2. CASE f # at
        BY <2>3, <2>4, <3>2
      <3> QED BY <3>1, <3>2
    <2>6. \A f, g \in Files : f # g => p[f] \cap p[g] = {}
      <3>1. \A f \in Files : r \notin put[f]
        BY <1>2
      <3>2. \A f, g \in Files : f # g => put[f] \cap put[g] = {}
        BY <1>1 DEF IsPut
      <3> HIDE DEF p, put, at
      <3> QED BY <2>3, <3>1, <3>2
    <2> HIDE DEF p
    <2>7. IsPut(p, S \cup {r})
      BY <2>2, <2>5, <2>6 DEF IsPut
    <2> HIDE DEF put, room
    <2>8. Put(log, r).at = at /\ Put(log, r).put = p /\ Put(log, r).room = room
      BY <2>1
    <2> QED BY <1>1, <2>1, <2>5, <2>7, <2>8 DEF IsLog
  <1> QED BY <1>3, <1>4

\* The recursion of AppendedLines: a function that satisfies it exists.
LEMMA FoldIs ==
    ASSUME NEW N \in Nat, NEW start, NEW batch
    PROVE  \E log : IsFold(log, N, start, batch)
  <1> DEFINE Bad == {m \in 0 .. N : ~ \E g : IsFold(g, m, start, batch)}
  <1> SUFFICES ASSUME Bad # {} PROVE FALSE
    <2>1. N \in 0 .. N
      OBVIOUS
    <2> QED BY <2>1
  <1>1. Bad \in SUBSET Nat
    OBVIOUS
  <1>2. PICK m \in Bad : \A k \in Bad : m <= k
    BY <1>1, LeastNat
  <1>3. m \in Nat /\ m <= N
    BY <1>2
  <1>4. m # 0
    <2> SUFFICES ASSUME m = 0 PROVE FALSE
      OBVIOUS
    <2> DEFINE g == [n \in 0 .. 0 |-> start]
    <2>1. IsFold(g, 0, start, batch)
      BY DEF IsFold
    <2> QED BY <1>2, <2>1
  <1>5. PICK g : IsFold(g, m - 1, start, batch)
    <2>1. m - 1 \in 0 .. N /\ ~(m <= m - 1)
      BY <1>3, <1>4
    <2>2. m - 1 \notin Bad
      BY <1>2, <2>1
    <2> QED BY <2>1, <2>2
  <1> DEFINE h == [n \in 0 .. m |-> IF n = m THEN Put(g[m - 1], batch[m]) ELSE g[n]]
  <1>6. \A n \in 0 .. m : h[n] = IF n = 0 THEN start ELSE Put(h[n - 1], batch[n])
    <2> SUFFICES ASSUME NEW n \in 0 .. m
                 PROVE  h[n] = IF n = 0 THEN start ELSE Put(h[n - 1], batch[n])
      OBVIOUS
    <2>1. \A k \in 0 .. m - 1 : h[k] = g[k]
      BY <1>3, <1>4
    <2>2. \A k \in 0 .. m - 1 : g[k] = IF k = 0 THEN start ELSE Put(g[k - 1], batch[k])
      BY <1>5 DEF IsFold
    <2>3. h[m] = Put(g[m - 1], batch[m])
      BY <1>3
    <2> HIDE DEF h
    <2>4. CASE n = m
      BY <1>3, <1>4, <2>1, <2>3, <2>4
    <2>5. CASE n # m /\ n # 0
      <3>1. n \in 0 .. m - 1 /\ n - 1 \in 0 .. m - 1
        BY <1>3, <2>5
      <3> QED BY <2>1, <2>2, <2>5, <3>1
    <2>6. CASE n # m /\ n = 0
      <3>1. 0 \in 0 .. m - 1
        BY <1>3, <1>4
      <3> QED BY <2>1, <2>2, <2>6, <3>1
    <2> QED BY <2>4, <2>5, <2>6
  <1>7. IsFold(h, m, start, batch)
    <2> DEFINE e == [n \in 0 .. m |-> IF n = 0 THEN start ELSE Put(h[n - 1], batch[n])]
    <2>1. DOMAIN h = 0 .. m /\ DOMAIN e = 0 .. m /\ \A n \in 0 .. m : h[n] = e[n]
      BY <1>6
    <2>2. h = [n \in DOMAIN h |-> h[n]] /\ e = [n \in DOMAIN e |-> e[n]]
      OBVIOUS
    <2>3. h = e
      BY <2>1, <2>2
    <2> QED BY <2>3 DEF IsFold
  <1> QED BY <1>2, <1>7

LEMMA SegmentsAreUp ==
    (Segments = {} => Highest = 0) /\ (Segments # {} => Highest # 0)
  <1>1. Segments \subseteq Nat \ {0}
    BY DEF Segments, Existing, Files
  <1>2. Segments # {} => Highest # 0
    <2> SUFFICES ASSUME NEW f \in Segments PROVE Highest # 0
      OBVIOUS
    <2>1. f \in Nat /\ f # 0 /\ f <= Highest /\ Highest \in Nat
      BY <1>1, HighestIs
    <2> QED BY <2>1
  <1> QED BY <1>2, HighestIs

LEMMA StartOfBatch ==
    IsLog(IF Segments = {} THEN Start(1, SegmentCap) ELSE OnActive, {})
  BY SegmentsAreUp, HighestIs, StartIs DEF OnActive

\* A batch puts each of its records in one file, none of them behind the active segment.
LEMMA AppendedLinesIs ==
    ASSUME NEW batch \in Seq(Records), Distinct(batch)
    PROVE  IsLog(AppendedLines(batch), Items(batch, Len(batch)))
  <1> DEFINE start == IF Segments = {} THEN Start(1, SegmentCap) ELSE OnActive
             N == Len(batch)
             log == CHOOSE g : IsFold(g, N, start, batch)
             Bad == {n \in 0 .. N : ~ IsLog(log[n], Items(batch, n))}
  <1>1. N \in Nat /\ DOMAIN batch = 1 .. N
    OBVIOUS
  <1>2. AppendedLines(batch) = log[N]
    BY DEF AppendedLines, IsFold
  <1>3. IsFold(log, N, start, batch)
    <2>1. \E g : IsFold(g, N, start, batch)
      <3> HIDE DEF start, N
      <3>1. N \in Nat
        BY <1>1
      <3> QED BY <3>1, FoldIs
    <2> QED BY <2>1
  <1> HIDE DEF log
  <1>4. \A n \in 0 .. N : log[n] = IF n = 0 THEN start ELSE Put(log[n - 1], batch[n])
    BY <1>3 DEF IsFold
  <1>5. IsLog(start, {})
    BY StartOfBatch
  <1> HIDE DEF start
  <1>6. Bad = {}
    <2> SUFFICES ASSUME Bad # {} PROVE FALSE
      OBVIOUS
    <2>1. PICK m \in Bad : \A k \in Bad : m <= k
      <3>1. Bad \in SUBSET Nat
        BY <1>1
      <3> QED BY <3>1, LeastNat
    <2>2. m \in 0 .. N /\ ~ IsLog(log[m], Items(batch, m))
      BY <2>1
    <2>3. m # 0
      <3>1. Items(batch, 0) = {}
        BY DEF Items
      <3>2. 0 \in 0 .. N
        BY <1>1
      <3> QED BY <1>4, <1>5, <2>2, <3>1, <3>2
    <2>4. m - 1 \in 0 .. N /\ ~(m <= m - 1) /\ m \in 1 .. N
      BY <1>1, <2>2, <2>3
    <2>5. IsLog(log[m - 1], Items(batch, m - 1))
      BY <2>1, <2>4
    <2>6. batch[m] \notin Items(batch, m - 1)
      <3> SUFFICES ASSUME NEW i \in 1 .. m - 1, batch[i] = batch[m] PROVE FALSE
        BY DEF Items
      <3>1. i \in 1 .. N /\ i # m
        BY <1>1, <2>4
      <3> QED BY <1>1, <2>4, <3>1 DEF Distinct
    <2>7. Items(batch, m) = Items(batch, m - 1) \cup {batch[m]}
      <3>1. 1 .. m = (1 .. m - 1) \cup {m}
        BY <2>4
      <3> QED BY <3>1 DEF Items
    <2>8. log[m] = Put(log[m - 1], batch[m])
      BY <1>4, <2>2, <2>3
    <2> QED BY <2>2, <2>5, <2>6, <2>7, <2>8, PutKeeps
  <1>7. N \in 0 .. N
    BY <1>1
  <1> QED BY <1>2, <1>6, <1>7

LEMMA AppendedLineIs ==
    ASSUME NEW r \in Records
    PROVE  IsLog(AppendedLine(r), {r})
  <1>1. CASE Segments = {}
    <2>1. IsLog(Start(1, Size[r]), {})
      BY <1>1, SegmentsAreUp, StartIs
    <2>2. IsLog(Put(Start(1, Size[r]), r), {} \cup {r})
      BY <2>1, PutKeeps
    <2> QED BY <1>1, <2>2 DEF AppendedLine
  <1>2. CASE Segments # {}
    <2>1. IsLog(OnActive, {})
      BY <1>2, StartOfBatch
    <2>2. IsLog(Put(OnActive, r), {} \cup {r})
      BY <2>1, PutKeeps
    <2> QED BY <1>2, <2>2 DEF AppendedLine
  <1> QED BY <1>1, <1>2

LEMMA WrittenAppends ==
    ASSUME TypeOK, job = "idle", NEW log, NEW S, IsLog(log, S), Written(log)
    PROVE  Appends(S)
  <1>1. IsPut(log.put, S)
    BY DEF IsLog
  <1>2. faults \in Nat /\ MaxFaults \in Nat /\ faults <= MaxFaults
    BY LogAssumption DEF TypeOK
  <1>3. CASE WritesOut(log) /\ UNCHANGED faults
    BY <1>1, <1>2, <1>3 DEF WritesOut, Appends, Lands
  <1>4. CASE \E f \in {g \in Files : log.put[g] # {}} : FailsAfter(log, f)
    <2>1. PICK f \in Files : FailsAfter(log, f)
      BY <1>4
    <2> DEFINE put == [g \in Files |-> IF g < f THEN log.put[g] ELSE {}]
    <2>2. put \in [Files -> SUBSET S] /\ \A g \in Files : put[g] # {} => put[g] = log.put[g]
      BY <1>1 DEF IsPut
    <2>3. Lands(put)
      BY <2>1 DEF FailsAfter
    <2> HIDE DEF put
    <2>4. IsPut(put, S)
      <3>1. \A g \in Files : put[g] # {} => g # 0 /\ g >= Highest
        BY <1>1, <2>2 DEF IsPut
      <3>2. \A g, h \in Files : g # h => put[g] \cap put[h] = {}
        BY <1>1, <2>2 DEF IsPut
      <3> QED BY <2>2, <3>1, <3>2 DEF IsPut
    <2>5. /\ faults' = faults + 1 /\ faults < MaxFaults /\ job' = "idle"
          /\ UNCHANGED <<rollups, tmp, roll, del, orphans>>
      BY <2>1 DEF FailsAfter, sweep, Lands
    <2> QED BY <1>2, <2>3, <2>4, <2>5 DEF Appends
  <1> QED BY <1>3, <1>4 DEF Written

----------------------------------------------------------------------------
(* What steps leave as it was *)

LEMMA HighestRises ==
    ASSUME Highest \in Segments' \cup {0}
    PROVE  Highest <= Highest'
  <1>1. Segments' \cup {0} \in SUBSET Files /\ Segments' \cup {0} # {}
    BY LogAssumption DEF Segments, Existing, Files
  <1>2. Highest' = Max(Segments' \cup {0})
    BY DEF Highest
  <1> QED BY <1>1, <1>2, MaxIs

LEMMA BehindStays ==
    ASSUME Highest <= Highest', NEW S, S \subseteq Files,
           \A f \in S : f = 0 \/ f < Highest
    PROVE  \A f \in S : f = 0 \/ f < Highest'
  <1>1. Highest \in Nat /\ S \subseteq Nat
    BY HighestIs DEF Files
  <1>2. Highest' \in Nat
    <2>1. Segments' \cup {0} \in SUBSET Files /\ Segments' \cup {0} # {} /\ Files \subseteq Nat
      BY LogAssumption DEF Segments, Existing, Files
    <2> QED BY <2>1, MaxIs DEF Highest
  <1> QED BY <1>1, <1>2

LEMMA CoveredAreFiles ==
    ASSUME TypeOK
    PROVE  Covered \subseteq Files
  <1>1. \A k \in DOMAIN rollups : rollups[k] \in Rollups
    BY DEF TypeOK
  <1>2. \A m \in Manifests : m \in Rollups
    BY <1>1 DEF TypeOK, Manifests
  <1>3. \A m \in Manifests : m.sources \subseteq Files
    BY <1>2 DEF Rollups
  <1> QED BY <1>3 DEF Covered

\* Where no raw file, no rollup and no record that landed changes, little is left to show.
LEMMA QuietStep ==
    ASSUME IInv, UNCHANGED <<raw, rollups, landed, next>>,
           UNCHANGED <<buffer, closed>> \/ (buffer' = <<>> /\ closed' \in BOOLEAN),
           stale' \subseteq Existing,
           job' \in Jobs, roll' \subseteq Files, del' \subseteq Files,
           crashes' \in 0 .. MaxCrashes, faults' \in 0 .. MaxFaults,
           tmp' = {} \/ tmp' = tmp \/ (\E m \in Rollups : tmp' = {m} /\ m.records \subseteq landed),
           \A f \in Covered' \cup roll' \cup del' : f = 0 \/ f < Highest,
           orphans' \in SUBSET Records, orphans \subseteq orphans',
           DiskInv => Swept'
    PROVE  Stepped
  <1>1. Existing' = Existing /\ Highest' = Highest
    BY DEF Existing, Segments, Highest
  <1>2. tmp' \in SUBSET Rollups /\ Cardinality(tmp') <= 1 /\ \A m \in tmp' : m.records \subseteq landed
    <2>1. CASE tmp' = {}
      BY <2>1, FS_EmptySet
    <2>2. CASE tmp' = tmp
      BY <2>2 DEF IInv, TypeOK, Apart
    <2>3. CASE \E m \in Rollups : tmp' = {m} /\ m.records \subseteq landed
      <3>1. PICK m \in Rollups : tmp' = {m} /\ m.records \subseteq landed
        BY <2>3
      <3>2. Cardinality({m}) = 1
        BY FS_Singleton
      <3> QED BY <3>1, <3>2
    <2> QED BY <2>1, <2>2, <2>3
  <1>3. TypeOK'
    <2>1. buffer' \in Seq(Records) /\ Len(buffer') < BatchRecords /\ closed' \in BOOLEAN
          /\ (closed' => buffer' = <<>>)
      <3>1. <<>> \in Seq(Records) /\ Len(<<>>) < BatchRecords
        BY LogAssumption
      <3>2. CASE UNCHANGED <<buffer, closed>>
        BY <3>2 DEF IInv, TypeOK
      <3> QED BY <3>1, <3>2
    <2> QED BY <1>1, <1>2, <2>1 DEF IInv, TypeOK
  <1>4. Waiting'
    BY DEF IInv, Waiting
  <1>5. Behind'
    BY <1>1 DEF Behind
  <1>6. Apart'
    BY <1>2 DEF IInv, Apart
  <1>7. Sealing
    BY DEF Sealing
  <1>8. ASSUME DiskInv PROVE DiskInv'
    <2>1. Folds' /\ FoldedOnce' /\ Kept'
      BY <1>8 DEF DiskInv, Folds, FoldedOnce, Kept, InRaw, RolledIn
    <2> QED BY <1>8, <2>1 DEF DiskInv
  <1> QED BY <1>3, <1>4, <1>5, <1>6, <1>7, <1>8 DEF IInv, Stepped

----------------------------------------------------------------------------
(* The writer *)

\* Lines that land, of records that are new, from a buffer that is empty afterwards.
LEMMA AppendsStep ==
    ASSUME IInv, job = "idle", NEW S \in SUBSET Records, S \cap landed = {}, Appends(S),
           buffer' = <<>>, closed' \in BOOLEAN, UNCHANGED crashes,
           next' \in 1 .. MaxRecords + 1, next' >= next, \A r \in S : r < next'
    PROVE  Stepped
  <1>1. PICK put : IsPut(put, S) /\ Lands(put)
    BY DEF Appends
  <1>2. /\ put \in [Files -> SUBSET S]
        /\ \A f \in Files : put[f] # {} => f # 0 /\ f >= Highest
        /\ \A f, g \in Files : f # g => put[f] \cap put[g] = {}
    BY <1>1 DEF IsPut
  <1>3. /\ raw' = [f \in Files |-> raw[f] \cup put[f]]
        /\ stale' \subseteq stale
        /\ landed' = landed \cup UNION {put[f] : f \in Files}
    BY <1>1 DEF Lands
  <1>4. \A f \in Files : raw'[f] = raw[f] \cup put[f]
    BY <1>3
  <1>5. landed \subseteq landed' /\ landed' \subseteq landed \cup S
        /\ \A f \in Files : put[f] \subseteq landed'
    BY <1>2, <1>3
  <1>6. /\ job' \in {"idle", "sweep"} /\ faults' \in 0 .. MaxFaults
        /\ UNCHANGED <<rollups, tmp, roll, del, orphans>> /\ Covered' = Covered
    BY DEF Appends, Covered, Manifests
  <1>7. TypeOK /\ Waiting /\ Behind /\ Apart
    BY DEF IInv
  <1>8. Existing \subseteq Existing' /\ Segments \subseteq Segments'
    BY <1>4 DEF Existing, Segments
  <1>9. TypeOK'
    <2>1. raw' \in [Files -> SUBSET Records] /\ landed' \subseteq Records
      BY <1>2, <1>3, <1>5, <1>7 DEF TypeOK
    <2>2. stale' \subseteq Existing'
      BY <1>3, <1>7, <1>8 DEF TypeOK
    <2>3. <<>> \in Seq(Records) /\ Len(<<>>) < BatchRecords
      BY LogAssumption
    <2> QED BY <1>6, <1>7, <2>1, <2>2, <2>3 DEF TypeOK, Jobs
  <1>10. Waiting'
    <2>1. \A r \in landed' : r < next'
      <3>1. landed \subseteq Int /\ next \in Int /\ next' \in Int
        BY <1>7, LogAssumption DEF TypeOK, Records
      <3>2. \A r \in landed : r < next'
        BY <1>7, <3>1 DEF Waiting
      <3> QED BY <1>5, <3>2
    <2> QED BY <2>1 DEF Waiting
  <1>11. Behind'
    <2>1. Highest <= Highest'
      BY <1>8, HighestIs, HighestRises
    <2>2. Covered \cup roll \cup del \subseteq Files
      BY <1>7, CoveredAreFiles DEF TypeOK
    <2> QED BY <1>6, <1>7, <2>1, <2>2, BehindStays DEF Behind
  <1>12. Apart'
    <2>1. \A f, g \in Files : f # g => raw'[f] \cap raw'[g] = {}
      <3> SUFFICES ASSUME NEW f \in Files, NEW g \in Files, f # g
                   PROVE  raw'[f] \cap raw'[g] = {}
        OBVIOUS
      <3>1. raw[f] \cap raw[g] = {} /\ raw[f] \subseteq landed /\ raw[g] \subseteq landed
        BY <1>7 DEF Apart
      <3>2. put[f] \cap put[g] = {} /\ put[f] \cap landed = {} /\ put[g] \cap landed = {}
        BY <1>2
      <3> QED BY <1>4, <3>1, <3>2
    <2>2. \A f \in Files : raw'[f] \subseteq landed'
      BY <1>4, <1>5, <1>7 DEF Apart
    <2>3. /\ \A k \in DOMAIN rollups : rollups[k].records \subseteq landed'
          /\ \A m \in tmp : m.records \subseteq landed'
      BY <1>5, <1>7 DEF Apart
    <2> QED BY <1>6, <2>1, <2>2, <2>3 DEF Apart
  <1>13. \A f \in Files : put[f] # {} => f \notin Covered
    <2> SUFFICES ASSUME NEW f \in Files, put[f] # {}, f \in Covered PROVE FALSE
      OBVIOUS
    <2>1. f # 0 /\ f >= Highest /\ f < Highest
      BY <1>2, <1>7 DEF Behind
    <2> QED BY <2>1, HighestIs DEF Files
  <1>14. Sealing
    BY <1>2, <1>4, <1>13 DEF Sealing
  <1>15. ASSUME DiskInv PROVE DiskInv'
    <2>1. Folds'
      <3> SUFFICES ASSUME NEW k \in DOMAIN rollups, NEW f \in Files
                   PROVE  /\ raw'[f] \cap rollups[k].records # {} => f \in rollups[k].sources
                          /\ f \in rollups[k].sources => raw'[f] \subseteq rollups[k].records
        BY <1>6 DEF Folds
      <3>1. /\ raw[f] \cap rollups[k].records # {} => f \in rollups[k].sources
            /\ f \in rollups[k].sources => raw[f] \subseteq rollups[k].records
        BY <1>15 DEF DiskInv, Folds
      <3>2. put[f] \cap rollups[k].records = {}
        BY <1>2, <1>7 DEF Apart
      <3>3. f \in rollups[k].sources => put[f] = {}
        BY <1>13 DEF Covered, Manifests
      <3> QED BY <1>4, <3>1, <3>2, <3>3
    <2>2. FoldedOnce'
      BY <1>6, <1>15 DEF DiskInv, FoldedOnce
    <2>3. Swept'
      <3>1. roll = {} /\ del = {}
        BY <1>15 DEF DiskInv, Swept
      <3>2. \A m \in tmp : \A f \in m.sources : f \in Covered /\ f \in Files
        BY <1>7 DEF Covered, Manifests, TypeOK, Rollups
      <3>3. \A m \in tmp : \A f \in m.sources : raw'[f] \subseteq orphans
        BY <1>4, <1>13, <1>15, <3>2 DEF DiskInv, Swept
      <3> QED BY <1>6, <3>1, <3>3 DEF Swept
    <2>4. Kept'
      <3> SUFFICES ASSUME NEW r \in landed'
                   PROVE  InRaw(r)' \/ RolledIn(r)' # {} \/ r \in orphans'
        BY DEF Kept
      <3>1. CASE r \in landed
        BY <1>4, <1>6, <1>15, <3>1 DEF DiskInv, Kept, InRaw, RolledIn
      <3>2. CASE \E f \in Files : r \in put[f]
        BY <1>4, <3>2 DEF InRaw
      <3> QED BY <1>3, <3>1, <3>2
    <2> QED BY <2>1, <2>2, <2>3, <2>4 DEF DiskInv
  <1> QED BY <1>9, <1>10, <1>11, <1>12, <1>14, <1>15 DEF IInv, Stepped

LEMMA BufferIs ==
    ASSUME IInv
    PROVE  /\ buffer \in Seq(Records) /\ Distinct(buffer)
           /\ Items(buffer, Len(buffer)) \in SUBSET Records
           /\ Items(buffer, Len(buffer)) \cap landed = {}
           /\ \A r \in Items(buffer, Len(buffer)) : r < next
  <1>1. buffer \in Seq(Records) /\ DOMAIN buffer = 1 .. Len(buffer)
    BY DEF IInv, TypeOK
  <1>2. \A i \in 1 .. Len(buffer) : buffer[i] \in Records
    BY <1>1
  <1> QED BY <1>1, <1>2 DEF IInv, Waiting, Items, Distinct

LEMMA LongerBufferIs ==
    ASSUME IInv, next <= MaxRecords, NEW batch, batch = Append(buffer, next)
    PROVE  /\ batch \in Seq(Records) /\ Distinct(batch)
           /\ Items(batch, Len(batch)) \in SUBSET Records
           /\ Items(batch, Len(batch)) \cap landed = {}
           /\ \A i \in DOMAIN batch : batch[i] < next + 1 /\ batch[i] \notin landed
           /\ \A r \in Items(batch, Len(batch)) : r < next + 1
  <1> DEFINE N == Len(buffer)
  <1>1. buffer \in Seq(Records) /\ N \in Nat /\ DOMAIN buffer = 1 .. N
    BY DEF IInv, TypeOK
  <1>2. next \in Records /\ next \in Int /\ Records \subseteq Int
    BY LogAssumption DEF IInv, TypeOK, Records
  <1>3. batch \in Seq(Records) /\ Len(batch) = N + 1 /\ DOMAIN batch = 1 .. N + 1
    BY <1>1, <1>2
  <1>4. \A i \in 1 .. N : batch[i] = buffer[i] /\ batch[i] \in Records
    BY <1>1
  <1>5. batch[N + 1] = next
    BY <1>1
  <1> HIDE DEF N
  <1>6. \A i \in 1 .. N + 1 : i \in 1 .. N \/ i = N + 1
    BY <1>1
  <1>7. \A i \in 1 .. N : batch[i] < next /\ batch[i] \notin landed
    BY <1>1, <1>4 DEF IInv, Waiting
  <1>8. next \notin landed
    BY <1>2 DEF IInv, Waiting
  <1>9. \A i \in DOMAIN batch :
           batch[i] \in Records /\ batch[i] < next + 1 /\ batch[i] \notin landed
    <2> SUFFICES ASSUME NEW i \in 1 .. N + 1
                 PROVE  batch[i] \in Records /\ batch[i] < next + 1 /\ batch[i] \notin landed
      BY <1>3
    <2>1. CASE i \in 1 .. N
      <3>1. batch[i] \in Int /\ batch[i] < next /\ batch[i] \in Records /\ batch[i] \notin landed
        BY <1>2, <1>4, <1>7, <2>1
      <3>2. \A a, b \in Int : a < b => a < b + 1
        OBVIOUS
      <3>3. batch[i] < next + 1
        BY <1>2, <3>1, <3>2, Zenon
      <3> QED BY <3>1, <3>3, Zenon
    <2>2. CASE i = N + 1
      BY <1>1, <1>2, <1>5, <1>8, <2>2
    <2> QED BY <1>6, <2>1, <2>2
  <1>10. Distinct(batch)
    <2> SUFFICES ASSUME NEW i \in 1 .. N + 1, NEW j \in 1 .. N + 1, batch[i] = batch[j]
                 PROVE  i = j
      BY <1>3 DEF Distinct
    <2>1. CASE i \in 1 .. N /\ j \in 1 .. N
      BY <1>1, <1>4, <2>1 DEF IInv, Waiting
    <2>2. CASE i = N + 1 /\ j \in 1 .. N
      BY <1>1, <1>2, <1>5, <1>7, <2>2
    <2>3. CASE i \in 1 .. N /\ j = N + 1
      BY <1>1, <1>2, <1>5, <1>7, <2>3
    <2> QED BY <1>6, <2>1, <2>2, <2>3
  <1>11. \A r \in Items(batch, Len(batch)) : \E i \in DOMAIN batch : r = batch[i]
    BY <1>3 DEF Items
  <1> QED BY <1>3, <1>9, <1>10, <1>11

LEMMA FlushedAppends ==
    ASSUME IInv, job = "idle", NEW batch \in Seq(Records), Distinct(batch), Flushed(batch)
    PROVE  Appends(Items(batch, Len(batch)))
  <1>1. IsLog(AppendedLines(batch), Items(batch, Len(batch)))
    BY AppendedLinesIs
  <1> QED BY <1>1, WrittenAppends DEF Flushed, IInv

LEMMA AppendRecordStep ==
    ASSUME IInv, AppendRecord
    PROVE  Stepped
  <1>1. /\ job = "idle" /\ next <= MaxRecords /\ next' = next + 1
        /\ UNCHANGED <<closed, crashes>>
    BY DEF AppendRecord
  <1>2. next \in Records /\ next \in Int /\ next' \in 1 .. MaxRecords + 1 /\ next' >= next
    BY <1>1, LogAssumption DEF IInv, TypeOK, Records
  <1>3. closed' \in BOOLEAN
    BY <1>1 DEF IInv, TypeOK
  <1>4. CASE closed
    <2>1. Written(AppendedLine(next)) /\ buffer' = <<>>
      BY <1>4 DEF AppendRecord, IInv, TypeOK
    <2>2. Appends({next})
      BY <1>1, <1>2, <2>1, AppendedLineIs, WrittenAppends DEF IInv
    <2>3. {next} \cap landed = {}
      BY <1>2 DEF IInv, Waiting
    <2>4. next < next'
      BY <1>1, <1>2
    <2>5. {next} \in SUBSET Records /\ \A r \in {next} : r < next'
      BY <1>2, <2>4
    <2> QED BY <1>1, <1>2, <1>3, <2>1, <2>2, <2>3, <2>5, AppendsStep
  <1> DEFINE batch == Append(buffer, next)
             S == Items(batch, Len(batch))
  <1>5. CASE ~closed /\ Len(batch) >= BatchRecords
    <2>1. Flushed(batch) /\ buffer' = <<>>
      BY <1>5 DEF AppendRecord
    <2>2. /\ batch \in Seq(Records) /\ Distinct(batch)
          /\ S \in SUBSET Records /\ S \cap landed = {} /\ \A r \in S : r < next + 1
      <3> HIDE DEF batch
      <3>1. batch = Append(buffer, next)
        BY DEF batch
      <3> QED BY <1>1, <3>1, LongerBufferIs
    <2> HIDE DEF batch
    <2>3. Appends(S)
      BY <1>1, <2>1, <2>2, FlushedAppends
    <2> HIDE DEF S
    <2> QED BY <1>1, <1>2, <1>3, <2>1, <2>2, <2>3, AppendsStep
  <1>6. CASE ~closed /\ ~(Len(batch) >= BatchRecords)
    <2>1. buffer' = batch /\ UNCHANGED <<disk, sweep, history, faults>>
      BY <1>6 DEF AppendRecord
    <2>2. UNCHANGED <<raw, stale, rollups, tmp, job, roll, del, landed, orphans, faults, closed,
                      crashes>>
      BY <1>1, <2>1 DEF disk, sweep, history
    <2>3. /\ batch \in Seq(Records) /\ Distinct(batch)
          /\ \A i \in DOMAIN batch : batch[i] < next + 1 /\ batch[i] \notin landed
      <3> HIDE DEF batch
      <3>1. batch = Append(buffer, next)
        BY DEF batch
      <3> QED BY <1>1, <3>1, LongerBufferIs
    <2>4. Len(batch) < BatchRecords
      BY <1>6, <2>3, LogAssumption
    <2> HIDE DEF batch
    <2>5. Existing' = Existing /\ Highest' = Highest /\ Covered' = Covered
      BY <2>2 DEF Existing, Segments, Highest, Covered, Manifests
    <2>6. TypeOK'
      BY <1>2, <1>6, <2>1, <2>2, <2>3, <2>4, <2>5 DEF IInv, TypeOK
    <2>7. \A r \in landed : r < next'
      BY <1>1, <1>2 DEF IInv, Waiting, TypeOK, Records
    <2>8. Waiting'
      BY <1>1, <2>1, <2>2, <2>3, <2>7 DEF Waiting, Distinct
    <2>9. Behind' /\ Apart'
      BY <2>2, <2>5 DEF IInv, Behind, Apart
    <2>10. DiskInv => DiskInv'
      BY <2>2 DEF DiskInv, Folds, FoldedOnce, Swept, Safe, InPlace, Kept, InRaw, RolledIn, Folded
    <2>11. Sealing
      BY <2>2 DEF Sealing
    <2> QED BY <2>6, <2>8, <2>9, <2>10, <2>11 DEF IInv, Stepped
  <1> QED BY <1>4, <1>5, <1>6

\* A flush at the end of an interval, or the last one.
LEMMA FlushedStep ==
    ASSUME IInv, job = "idle", Flushed(buffer), buffer' = <<>>, closed' \in BOOLEAN,
           UNCHANGED <<next, crashes>>
    PROVE  Stepped
  <1> DEFINE S == Items(buffer, Len(buffer))
  <1>1. S \in SUBSET Records /\ S \cap landed = {} /\ \A r \in S : r < next
    BY BufferIs
  <1>2. Appends(S)
    BY BufferIs, FlushedAppends
  <1>3. next' \in 1 .. MaxRecords + 1 /\ next' >= next
    BY LogAssumption DEF IInv, TypeOK
  <1> HIDE DEF S
  <1> QED BY <1>1, <1>2, <1>3, AppendsStep

LEMMA FlushStep ==
    ASSUME IInv, Flush
    PROVE  Stepped
  <1>1. closed' \in BOOLEAN
    BY DEF Flush, IInv, TypeOK
  <1> QED BY <1>1, FlushedStep DEF Flush

LEMMA DeskStep ==
    ASSUME IInv, Close \/ Open
    PROVE  Stepped
  <1>1. CASE Close /\ buffer # <<>>
    BY <1>1, FlushedStep DEF Close
  <1>2. CASE Open \/ (Close /\ buffer = <<>>)
    <2>1. /\ UNCHANGED <<raw, rollups, landed, orphans, next, stale, tmp, job, roll, del, crashes,
                         faults>>
          /\ closed' \in BOOLEAN /\ buffer' = <<>>
      BY <1>2 DEF Open, Close, disk, sweep, history, IInv, TypeOK
    <2>2. Covered' = Covered
      BY <2>1 DEF Covered, Manifests
    <2>3. DiskInv => Swept'
      BY <2>1 DEF DiskInv, Swept, Safe, InPlace, Folded
    <2>4. \A f \in Covered' \cup roll' \cup del' : f = 0 \/ f < Highest
      BY <2>1, <2>2 DEF IInv, Behind
    <2> QED BY <2>1, <2>3, <2>4, QuietStep DEF IInv, TypeOK
  <1> QED BY <1>1, <1>2

----------------------------------------------------------------------------
(* The compactor *)

LEMMA CoveredIsSafe ==
    ASSUME DiskInv, job # "rename", NEW f \in Covered
    PROVE  Safe(f)
  <1>1. CASE f \in InPlace
    BY <1>1 DEF Safe
  <1>2. CASE \E m \in tmp : f \in m.sources
    BY <1>2 DEF DiskInv, Swept, Safe
  <1> QED BY <1>1, <1>2 DEF Covered, Manifests, InPlace

LEMMA PlanStep ==
    ASSUME IInv, Plan
    PROVE  Stepped
  <1>1. /\ job = "sweep" /\ roll' \subseteq Foldable /\ del' = Sealed \cap Covered
        /\ job' \in {"write", "delete", "idle"}
        /\ job' = "write" <=> roll' # {}
        /\ job' = "idle" => roll' = {} /\ del' = {}
    BY DEF Plan, ToDelete
  <1>2. UNCHANGED <<buffer, closed, next, raw, stale, rollups, tmp, landed, orphans, crashes,
                    faults>>
    BY DEF Plan, memory, disk, history
  <1>3. Covered' = Covered /\ InPlace' = InPlace
    BY <1>2 DEF Covered, Manifests, InPlace
  <1>4. Foldable \subseteq Sealed /\ Foldable \cap Covered = {} /\ Sealed \subseteq Existing
        /\ \A f \in Sealed : f \in Files /\ (f = 0 \/ f < Highest)
    BY DEF Foldable, Sealed, Existing
  <1>5. \A f \in Covered' \cup roll' \cup del' : f = 0 \/ f < Highest
    BY <1>1, <1>3, <1>4 DEF IInv, Behind
  <1>6. roll' \subseteq Files /\ del' \subseteq Files
    BY <1>1, <1>4
  <1>7. ASSUME DiskInv PROVE Swept'
    <2>1. \A f \in del' : Safe(f)'
      BY <1>1, <1>2, <1>3, <1>7, CoveredIsSafe DEF Safe
    <2>2. roll' \cap InPlace' = {}
      BY <1>1, <1>3, <1>4 DEF Covered, Manifests, InPlace
    <2>3. \A m \in tmp' : \A f \in m.sources : raw'[f] \subseteq orphans'
      BY <1>1, <1>2, <1>7 DEF DiskInv, Swept
    <2>4. job' = "delete" => roll' = {}
      BY <1>1
    <2> QED BY <1>1, <2>1, <2>2, <2>3, <2>4 DEF Swept
  <1> QED BY <1>1, <1>2, <1>5, <1>6, <1>7, QuietStep DEF IInv, TypeOK, Jobs

LEMMA FoldedIs ==
    ASSUME IInv
    PROVE  Folded \in Rollups /\ Folded.sources = roll /\ Folded.records \subseteq landed
           /\ Folded.records = UNION {raw[f] : f \in roll}
  BY DEF IInv, TypeOK, Apart, Folded, Rollups

LEMMA WriteTmpStep ==
    ASSUME IInv, WriteTmp
    PROVE  Stepped
  <1>1. /\ job = "write" /\ job' = "rename" /\ tmp' = {Folded}
        /\ UNCHANGED <<buffer, closed, next, raw, stale, rollups, roll, del, landed, orphans,
                       crashes, faults>>
    BY DEF WriteTmp, memory, history
  <1>2. InPlace' = InPlace /\ Folded' = Folded
    BY <1>1 DEF InPlace, Folded
  <1>3. \A f \in Covered' : f \in Covered \/ f \in roll
    BY <1>1, FoldedIs DEF Covered, Manifests
  <1>4. \A f \in Covered' \cup roll' \cup del' : f = 0 \/ f < Highest
    BY <1>1, <1>3 DEF IInv, Behind
  <1>5. ASSUME DiskInv PROVE Swept'
    BY <1>1, <1>2, <1>5 DEF DiskInv, Swept, Safe
  <1>6. \E m \in Rollups : tmp' = {m} /\ m.records \subseteq landed
    BY <1>1, FoldedIs
  <1> QED BY <1>1, <1>4, <1>5, <1>6, QuietStep DEF IInv, TypeOK, Jobs

\* A sweep that is cut off, with what it may leave.
LEMMA CutOffIs ==
    ASSUME IInv, CutOff, job' \in {"idle", "sweep"}
    PROVE  /\ roll' = {} /\ del' = {} /\ UNCHANGED <<next, raw, stale, rollups, landed>>
           /\ tmp' = {} \/ tmp' = tmp
              \/ (\E m \in Rollups : tmp' = {m} /\ m.records \subseteq landed)
           /\ \A f \in Covered' \cup roll' \cup del' : f = 0 \/ f < Highest
           /\ orphans' \in SUBSET Records /\ orphans \subseteq orphans'
           /\ Swept'
  <1>1. /\ tmp' \in Leftovers /\ roll' = {} /\ del' = {}
        /\ orphans' = orphans \cup UNION {raw[f] : f \in UNION {m.sources : m \in tmp'}}
        /\ UNCHANGED <<next, raw, stale, rollups, landed>>
    BY DEF CutOff
  <1> DEFINE half == [Folded EXCEPT !.records = {}]
  <1>2. half \in Rollups /\ half.sources = roll /\ half.records = {}
    BY FoldedIs DEF Folded, Rollups
  <1>3. tmp' = tmp \/ tmp' = {} \/ tmp' = {half}
    BY <1>1 DEF Leftovers
  <1> HIDE DEF half
  <1>4. \A m \in tmp' : m \in tmp \/ m.sources = roll
    BY <1>2, <1>3
  <1>5. \A f \in Covered' : f \in Covered \/ f \in roll
    BY <1>1, <1>4 DEF Covered, Manifests
  <1>6. \A f \in Covered' \cup roll' \cup del' : f = 0 \/ f < Highest
    BY <1>1, <1>5 DEF IInv, Behind
  <1>7. \A m \in tmp' : \A f \in m.sources : f \in Files
    <2>1. tmp \subseteq Rollups /\ roll \subseteq Files
      BY DEF IInv, TypeOK
    <2>2. \A m \in tmp : m.sources \subseteq Files
      BY <2>1 DEF Rollups
    <2> QED BY <1>4, <2>1, <2>2
  <1>8. orphans' \in SUBSET Records
    <2>1. raw \in [Files -> SUBSET Records] /\ orphans \subseteq Records
      BY DEF IInv, TypeOK
    <2>2. \A f \in UNION {m.sources : m \in tmp'} : raw[f] \subseteq Records
      BY <1>7, <2>1
    <2> QED BY <1>1, <2>1, <2>2
  <1>9. \A m \in tmp' : \A f \in m.sources : raw'[f] \subseteq orphans'
    BY <1>1
  <1>10. Swept'
    BY <1>1, <1>9 DEF Swept
  <1>11. orphans \subseteq orphans'
    BY <1>1
  <1>12. tmp' = {} \/ tmp' = tmp \/ (\E m \in Rollups : tmp' = {m} /\ m.records \subseteq landed)
    BY <1>2, <1>3
  <1> QED BY <1>1, <1>6, <1>8, <1>10, <1>11, <1>12

LEMMA SweepFailsStep ==
    ASSUME IInv, SweepFails
    PROVE  Stepped
  <1>1. /\ CutOff /\ job' = "idle" /\ faults < MaxFaults /\ faults' = faults + 1
        /\ UNCHANGED <<buffer, closed, crashes>>
    BY DEF SweepFails
  <1>2. faults' \in 0 .. MaxFaults
    BY <1>1, LogAssumption DEF IInv, TypeOK
  <1>3. job' \in {"idle", "sweep"} /\ job' \in Jobs
    BY <1>1 DEF Jobs
  <1>4. stale' \subseteq Existing /\ crashes' \in 0 .. MaxCrashes
    BY <1>1 DEF CutOff, IInv, TypeOK
  <1> QED BY <1>1, <1>2, <1>3, <1>4, CutOffIs, QuietStep

LEMMA SweepTimerStep ==
    ASSUME IInv, SweepTimer
    PROVE  Stepped
  <1>1. /\ job = "idle" /\ job' = "sweep"
        /\ UNCHANGED <<buffer, closed, next, raw, stale, rollups, tmp, roll, del, landed,
                       orphans, crashes, faults>>
    BY DEF SweepTimer, memory, disk, history
  <1>2. \A f \in Covered' \cup roll' \cup del' : f = 0 \/ f < Highest
    BY <1>1 DEF IInv, Behind, Covered, Manifests
  <1>3. ASSUME DiskInv PROVE Swept'
    BY <1>1, <1>3 DEF DiskInv, Swept, Safe
  <1> QED BY <1>1, <1>2, <1>3, QuietStep DEF IInv, TypeOK, Jobs

LEMMA AgeStep ==
    ASSUME IInv, Age
    PROVE  Stepped
  <1>1. /\ Existing \ stale # {} /\ stale' = stale \cup {Min(Existing \ stale)}
        /\ UNCHANGED <<buffer, closed, next, raw, rollups, tmp, job, roll, del, landed,
                       orphans, crashes, faults>>
    BY DEF Age, memory, sweep, history
  <1>2. stale' \subseteq Existing
    <2>1. Existing \ stale \in SUBSET Nat
      BY DEF Existing, Files
    <2> QED BY <1>1, <2>1, MinIs DEF IInv, TypeOK
  <1>3. \A f \in Covered' \cup roll' \cup del' : f = 0 \/ f < Highest
    BY <1>1 DEF IInv, Behind, Covered, Manifests
  <1>4. ASSUME DiskInv PROVE Swept'
    BY <1>1, <1>4 DEF DiskInv, Swept, Safe, InPlace, Folded
  <1> QED BY <1>1, <1>2, <1>3, <1>4, QuietStep DEF IInv, TypeOK, Jobs

LEMMA CrashStep ==
    ASSUME IInv, Crash
    PROVE  Stepped
  <1>1. /\ crashes < MaxCrashes /\ crashes' = crashes + 1 /\ CutOff
        /\ buffer' = <<>> /\ closed' = FALSE /\ job' = "sweep" /\ UNCHANGED faults
    BY DEF Crash
  <1>2. crashes' \in 0 .. MaxCrashes
    BY <1>1, LogAssumption DEF IInv, TypeOK
  <1>3. job' \in {"idle", "sweep"} /\ job' \in Jobs
    BY <1>1 DEF Jobs
  <1>4. stale' \subseteq Existing /\ faults' \in 0 .. MaxFaults
    BY <1>1 DEF CutOff, IInv, TypeOK
  <1> QED BY <1>1, <1>2, <1>3, <1>4, CutOffIs, QuietStep

LEMMA RenameStep ==
    ASSUME IInv, Rename
    PROVE  Stepped
  <1>1. /\ job = "rename" /\ job' = "delete" /\ tmp' = {}
        /\ UNCHANGED <<buffer, closed, next, raw, stale, roll, del, landed, orphans, crashes,
                       faults>>
    BY DEF Rename, memory, history
  <1>2. PICK rollup \in tmp : rollups' = Append(rollups, rollup)
    BY DEF Rename
  <1>3. TypeOK /\ Waiting /\ Behind /\ Apart
    BY DEF IInv
  <1> DEFINE N == Len(rollups)
  <1>4. rollups \in Seq(Rollups) /\ N \in Nat /\ DOMAIN rollups = 1 .. N /\ rollup \in Rollups
    BY <1>2, <1>3 DEF TypeOK
  <1>5. rollups' \in Seq(Rollups) /\ DOMAIN rollups' = 1 .. N + 1
    BY <1>2, <1>4
  <1>6. \A k \in 1 .. N : rollups'[k] = rollups[k]
    BY <1>2, <1>4
  <1>7. rollups'[N + 1] = rollup
    BY <1>2, <1>4
  <1> HIDE DEF N
  <1>8. \A k \in 1 .. N + 1 : k \in 1 .. N \/ k = N + 1
    BY <1>4
  <1>9. 1 .. N \subseteq 1 .. N + 1 /\ N + 1 \in 1 .. N + 1 /\ N + 1 \notin 1 .. N
    BY <1>4
  <1>10. Existing' = Existing /\ Highest' = Highest /\ Folded' = Folded
    BY <1>1 DEF Existing, Segments, Highest, Folded
  <1>11. Covered' \subseteq Covered
    <2> SUFFICES ASSUME NEW k \in 1 .. N + 1, NEW f \in rollups'[k].sources
                 PROVE  f \in Covered
      BY <1>1, <1>5 DEF Covered, Manifests
    <2>1. CASE k \in 1 .. N
      BY <1>4, <1>6, <2>1 DEF Covered, Manifests
    <2>2. CASE k = N + 1
      BY <1>2, <1>7, <2>2 DEF Covered, Manifests
    <2> QED BY <1>8, <2>1, <2>2
  <1>12. TypeOK'
    BY <1>1, <1>3, <1>5, <1>10, FS_EmptySet DEF TypeOK, Jobs
  <1>13. Waiting' /\ Behind'
    BY <1>1, <1>3, <1>10, <1>11 DEF Waiting, Behind
  <1>14. Apart'
    <2>1. \A k \in DOMAIN rollups' : rollups'[k].records \subseteq landed
      BY <1>2, <1>3, <1>4, <1>5, <1>6, <1>7, <1>8 DEF Apart
    <2> QED BY <1>1, <1>3, <2>1 DEF Apart
  <1>15. Sealing
    BY <1>1 DEF Sealing
  <1>16. ASSUME DiskInv PROVE DiskInv'
    <2>1. /\ rollup.sources = roll /\ rollup.records = UNION {raw[f] : f \in roll}
          /\ roll \subseteq Files
      BY <1>1, <1>2, <1>3, <1>16, FoldedIs DEF DiskInv, Swept, TypeOK
    <2>2. roll \cap InPlace = {} /\ \A f \in del : Safe(f)
      BY <1>1, <1>16 DEF DiskInv, Swept
    <2>3. Folds'
      <3> SUFFICES ASSUME NEW k \in 1 .. N + 1, NEW f \in Files
                   PROVE  /\ raw[f] \cap rollups'[k].records # {} => f \in rollups'[k].sources
                          /\ f \in rollups'[k].sources => raw[f] \subseteq rollups'[k].records
        BY <1>1, <1>5 DEF Folds
      <3>1. CASE k \in 1 .. N
        BY <1>4, <1>6, <1>16, <3>1 DEF DiskInv, Folds
      <3>2. CASE k = N + 1
        <4>1. \A g \in roll : f # g => raw[f] \cap raw[g] = {}
          BY <1>3, <2>1 DEF Apart
        <4> QED BY <1>7, <2>1, <3>2, <4>1
      <3> QED BY <1>8, <3>1, <3>2
    <2>4. \A k \in 1 .. N : rollups[k].records \cap rollup.records = {}
      <3> SUFFICES ASSUME NEW k \in 1 .. N, NEW f \in roll,
                          raw[f] \cap rollups[k].records # {}
                   PROVE  FALSE
        BY <2>1
      <3>1. f \in rollups[k].sources
        BY <1>4, <1>16, <2>1 DEF DiskInv, Folds
      <3> QED BY <1>4, <2>2, <3>1 DEF InPlace
    <2>5. FoldedOnce'
      <3> SUFFICES ASSUME NEW k \in 1 .. N + 1, NEW l \in 1 .. N + 1, k # l
                   PROVE  rollups'[k].records \cap rollups'[l].records = {}
        BY <1>5 DEF FoldedOnce
      <3>1. CASE k \in 1 .. N /\ l \in 1 .. N
        BY <1>4, <1>6, <1>16, <3>1 DEF DiskInv, FoldedOnce
      <3>2. CASE k \in 1 .. N /\ l = N + 1
        BY <1>6, <1>7, <2>4, <3>2
      <3>3. CASE k = N + 1 /\ l \in 1 .. N
        BY <1>6, <1>7, <2>4, <3>3
      <3> QED BY <1>8, <3>1, <3>2, <3>3
    <2>6. InPlace \subseteq InPlace' /\ roll \subseteq InPlace'
      <3>1. InPlace \subseteq InPlace'
        BY <1>4, <1>5, <1>6, <1>9 DEF InPlace
      <3>2. rollups'[N + 1].sources \subseteq InPlace'
        BY <1>5, <1>9 DEF InPlace
      <3> QED BY <1>7, <2>1, <3>1, <3>2
    <2>7. Swept'
      <3>1. \A f \in del' : Safe(f)'
        BY <1>1, <2>2, <2>6 DEF Safe
      <3> QED BY <1>1, <2>6, <3>1 DEF Swept
    <2>8. Kept'
      <3>1. \A r : RolledIn(r) \subseteq RolledIn(r)'
        BY <1>4, <1>5, <1>6, <1>9 DEF RolledIn
      <3>2. \A r : InRaw(r)' <=> InRaw(r)
        BY <1>1 DEF InRaw
      <3> QED BY <1>1, <1>16, <3>1, <3>2 DEF DiskInv, Kept
    <2> QED BY <2>3, <2>5, <2>7, <2>8 DEF DiskInv
  <1> QED BY <1>12, <1>13, <1>14, <1>15, <1>16 DEF IInv, Stepped

\* A file that a sweep may delete goes, and the active segment stays what it was.
LEMMA DeletesStep ==
    ASSUME IInv, job = "delete", NEW f \in del \cup roll, Deletes(f),
           del' = del \ {f}, roll' = roll \ {f},
           UNCHANGED <<job, buffer, closed, next, rollups, tmp, landed, orphans, crashes>>
    PROVE  Stepped
  <1>1. TypeOK /\ Waiting /\ Behind /\ Apart
    BY DEF IInv
  <1>2. f \in Files /\ (f = 0 \/ f < Highest)
    BY <1>1 DEF TypeOK, Behind
  <1>3. /\ raw' = [raw EXCEPT ![f] = {}] /\ stale' = stale \ {f} /\ faults' = faults
        /\ raw' \in [Files -> SUBSET Records]
    BY <1>1 DEF Deletes, TypeOK
  <1>4. \A g \in Files : raw'[g] = IF g = f THEN {} ELSE raw[g]
    BY <1>1, <1>3 DEF TypeOK
  <1>5. Existing' = Existing \ {f}
    BY <1>4 DEF Existing
  <1>6. Highest <= Highest'
    <2>1. Highest \in Segments \cup {0} /\ Highest \in Nat
      BY HighestIs
    <2>2. f # 0 => Highest # f
      BY <1>2, <2>1 DEF Files
    <2>3. Highest \in Segments' \cup {0}
      BY <1>5, <2>1, <2>2 DEF Segments
    <2> QED BY <2>3, HighestRises
  <1>7. Covered' = Covered /\ InPlace' = InPlace
    BY DEF Covered, Manifests, InPlace
  <1>8. TypeOK'
    BY <1>1, <1>3, <1>5 DEF TypeOK
  <1>9. Waiting'
    BY <1>1 DEF Waiting
  <1>10. Behind'
    <2>1. Covered \cup roll \cup del \subseteq Files
      BY <1>1, CoveredAreFiles DEF TypeOK
    <2>2. \A g \in Covered \cup roll \cup del : g = 0 \/ g < Highest'
      BY <1>1, <1>6, <2>1, BehindStays DEF Behind
    <2> QED BY <1>7, <2>2 DEF Behind
  <1>11. Apart'
    BY <1>1, <1>4 DEF Apart
  <1>12. Sealing
    BY <1>4 DEF Sealing
  <1>13. ASSUME DiskInv PROVE DiskInv'
    <2>1. \A r \in raw[f] : RolledIn(r) # {} \/ r \in orphans
      <3>1. Safe(f)
        BY <1>13 DEF DiskInv, Swept, Safe
      <3>2. CASE f \in InPlace
        <4>1. PICK k \in DOMAIN rollups : f \in rollups[k].sources
          BY <3>2 DEF InPlace
        <4>2. \A r \in raw[f] : k \in RolledIn(r)
          BY <1>2, <1>13, <4>1 DEF DiskInv, Folds, RolledIn
        <4> QED BY <4>2
      <3> QED BY <3>1, <3>2 DEF Safe
    <2>2. Folds' /\ FoldedOnce'
      <3>1. Folds'
        BY <1>4, <1>13 DEF DiskInv, Folds
      <3> QED BY <1>13, <3>1 DEF DiskInv, FoldedOnce
    <2>3. Swept'
      <3>1. \A g \in Files : raw'[g] \subseteq raw[g]
        BY <1>4
      <3>2. \A g \in del' : Safe(g)'
        BY <1>1, <1>7, <1>13, <3>1 DEF DiskInv, Swept, Safe, TypeOK
      <3>3. \A m \in tmp : \A g \in m.sources : g \in Files
        BY <1>1 DEF TypeOK, Rollups
      <3>4. \A m \in tmp' : \A g \in m.sources : raw'[g] \subseteq orphans'
        BY <1>13, <3>1, <3>3 DEF DiskInv, Swept
      <3> QED BY <1>7, <1>13, <3>2, <3>4 DEF DiskInv, Swept
    <2>4. Kept'
      <3> SUFFICES ASSUME NEW r \in landed
                   PROVE  InRaw(r)' \/ RolledIn(r)' # {} \/ r \in orphans
        BY DEF Kept
      <3>1. RolledIn(r)' = RolledIn(r)
        BY DEF RolledIn
      <3>2. CASE RolledIn(r) # {} \/ r \in orphans
        BY <3>1, <3>2
      <3>3. CASE \E g \in Files : r \in raw[g]
        BY <1>4, <2>1, <3>1, <3>3 DEF InRaw
      <3> QED BY <1>13, <3>2, <3>3 DEF DiskInv, Kept, InRaw
    <2> QED BY <2>2, <2>3, <2>4 DEF DiskInv
  <1> QED BY <1>8, <1>9, <1>10, <1>11, <1>12, <1>13 DEF IInv, Stepped

LEMMA DeleteNextStep ==
    ASSUME IInv, DeleteNext
    PROVE  Stepped
  <1>1. job = "delete"
        /\ UNCHANGED <<buffer, closed, next, rollups, tmp, landed, orphans, crashes>>
    BY DEF DeleteNext, memory, history
  <1>2. roll \subseteq Files /\ del \subseteq Files
    BY DEF IInv, TypeOK
  <1>3. Covered' = Covered /\ InPlace' = InPlace
    BY <1>1 DEF Covered, Manifests, InPlace
  <1>4. CASE del \cup roll = {}
    <2>1. job' = "idle" /\ roll' = {} /\ del' = {} /\ UNCHANGED <<raw, stale, faults>>
      BY <1>4 DEF DeleteNext, SweepEnds
    <2>2. \A f \in Covered' \cup roll' \cup del' : f = 0 \/ f < Highest
      BY <1>3, <2>1 DEF IInv, Behind
    <2>3. ASSUME DiskInv PROVE Swept'
      BY <1>1, <2>1, <2>3 DEF DiskInv, Swept
    <2> QED BY <1>1, <2>1, <2>2, <2>3, QuietStep DEF IInv, TypeOK, Jobs
  <1>5. CASE del \cup roll # {}
    <2> DEFINE f == First(IF del # {} THEN del ELSE roll)
    <2>1. /\ Deletes(f) \/ DeleteFails
          /\ del' = del \ {f} /\ roll' = roll \ {f} /\ UNCHANGED job
      BY <1>5 DEF DeleteNext
    <2>2. f \in del \cup roll
      BY <1>2, <1>5, FirstIs
    <2> HIDE DEF f
    <2>3. CASE Deletes(f)
      BY <1>1, <2>1, <2>2, <2>3, DeletesStep
    <2>4. CASE DeleteFails
      <3>1. faults' \in 0 .. MaxFaults /\ UNCHANGED <<raw, stale>>
        BY <2>4, LogAssumption DEF DeleteFails, IInv, TypeOK
      <3>2. \A g \in Covered' \cup roll' \cup del' : g = 0 \/ g < Highest
        BY <1>3, <2>1 DEF IInv, Behind
      <3>3. ASSUME DiskInv PROVE Swept'
        BY <1>1, <1>3, <2>1, <3>1, <3>3 DEF DiskInv, Swept, Safe
      <3>4. roll' \subseteq Files /\ del' \subseteq Files /\ job' \in Jobs
        BY <1>1, <1>2, <2>1 DEF Jobs
      <3> QED BY <1>1, <3>1, <3>2, <3>3, <3>4, QuietStep DEF IInv, TypeOK
    <2> QED BY <2>1, <2>3, <2>4
  <1> QED BY <1>4, <1>5

----------------------------------------------------------------------------
(* Theorems *)

LEMMA InitHolds ==
    ASSUME Init
    PROVE  IInv /\ DiskInv
  <1>1. /\ buffer = <<>> /\ closed = FALSE /\ next = 1 /\ stale = {} /\ rollups = <<>>
        /\ tmp = {} /\ job = "idle" /\ roll = {} /\ del = {} /\ landed = raw[0]
        /\ orphans = {} /\ crashes = 0 /\ faults = 0
    BY DEF Init
  <1>2. /\ raw \in [Files -> SUBSET Records] /\ 0 \in Files
        /\ \A f \in Files : raw[f] \subseteq {0} /\ (f # 0 => raw[f] = {})
    BY LogAssumption DEF Init, Files, Records
  <1>3. TypeOK
    <2>1. buffer \in Seq(Records) /\ Len(buffer) < BatchRecords /\ rollups \in Seq(Rollups)
      BY <1>1, LogAssumption
    <2>2. tmp \in SUBSET Rollups /\ Cardinality(tmp) <= 1
      BY <1>1, FS_EmptySet
    <2>3. landed \subseteq Records
      BY <1>1, <1>2
    <2>4. next \in 1 .. MaxRecords + 1 /\ crashes \in 0 .. MaxCrashes /\ faults \in 0 .. MaxFaults
      BY <1>1, LogAssumption
    <2> QED BY <1>1, <1>2, <2>1, <2>2, <2>3, <2>4 DEF TypeOK, Jobs
  <1>4. Waiting /\ Behind
    BY <1>1, <1>2 DEF Waiting, Behind, Covered, Manifests
  <1>5. Apart
    BY <1>1, <1>2 DEF Apart
  <1>6. DiskInv
    BY <1>1, <1>2 DEF DiskInv, Folds, FoldedOnce, Swept, Kept, InRaw
  <1> QED BY <1>3, <1>4, <1>5, <1>6 DEF IInv

LEMMA NextHolds ==
    ASSUME IInv, Next
    PROVE  Stepped
  <1>1. CASE AppendRecord \/ Flush \/ Close \/ Open
    BY <1>1, AppendRecordStep, FlushStep, DeskStep
  <1>2. CASE Sweeps
    BY <1>2, PlanStep, WriteTmpStep, RenameStep, SweepFailsStep, DeleteNextStep DEF Sweeps
  <1>3. CASE SweepTimer \/ Age \/ Crash
    BY <1>3, SweepTimerStep, AgeStep, CrashStep
  <1> QED BY <1>1, <1>2, <1>3 DEF Next

LEMMA StutterHolds ==
    ASSUME IInv, UNCHANGED vars
    PROVE  Stepped
  <1>1. UNCHANGED <<buffer, closed, next, raw, stale, rollups, tmp, job, roll, del, landed,
                    orphans, crashes, faults>>
    BY DEF vars, memory, disk, sweep, history
  <1>2. \A f \in Covered' \cup roll' \cup del' : f = 0 \/ f < Highest
    BY <1>1 DEF IInv, Behind, Covered, Manifests
  <1>3. ASSUME DiskInv PROVE Swept'
    BY <1>1, <1>3 DEF DiskInv, Swept, Safe, InPlace, Folded
  <1> QED BY <1>1, <1>2, <1>3, QuietStep DEF IInv, TypeOK

\* The inductive invariant: what waits in the writer is new, what a sweep touches is
\* behind the active segment, and a record is in one raw file at most.
THEOREM Inductive == Spec => []IInv
  <1>1. Init => IInv
    BY InitHolds
  <1>2. IInv /\ [Next]_vars => IInv'
    BY NextHolds, StutterHolds DEF Stepped
  <1> QED BY <1>1, <1>2, PTL DEF Spec

\* Buffer, files, rollups and sweep stay within their types: the buffer never reaches the
\* limit of a batch and is empty once the writer is closed, there is one temporary file at
\* most, and only files that exist grow old.
THEOREM TypesHold == Spec => []TypeOK
  <1>1. IInv => TypeOK
    BY DEF IInv
  <1> QED BY <1>1, Inductive, PTL

\* Whatever crashes, fails or survives, no sealed segment is written again and no name a
\* rollup covers is used for a new one.
THEOREM SealedStaysSealedHolds == Spec => SealedStaysSealed
  <1>1. IInv /\ [Next]_vars =>
          [\A f \in Files : ~(raw'[f] \subseteq raw[f]) =>
             f # 0 /\ f >= Highest /\ f \notin Covered]_vars
    BY NextHolds DEF Stepped, Sealing
  <1> QED BY <1>1, Inductive, PTL DEF Spec, SealedStaysSealed

\* Rollups hold all of their sources that are still there, no record is folded twice, and
\* what a sweep deletes is folded or was named by a .tmp file left behind.
THEOREM DiskInductive == Spec => [](IInv /\ DiskInv)
  <1>1. Init => IInv /\ DiskInv
    BY InitHolds
  <1>2. IInv /\ DiskInv /\ [Next]_vars => (IInv /\ DiskInv)'
    BY NextHolds, StutterHolds DEF Stepped
  <1> QED BY <1>1, <1>2, PTL DEF Spec

\* A record that reached the disk is in a raw file or in a rollup in place, and never in
\* two rollups; only what a sweep had in hand that was cut off between its write and its
\* rename may be gone.
THEOREM KeptOnceHolds == Spec => []KeptOnce
  <1>1. IInv /\ DiskInv => KeptOnce
    <2> SUFFICES ASSUME IInv, DiskInv, NEW r \in landed
                 PROVE  /\ InRaw(r) \/ RolledIn(r) # {} \/ r \in orphans
                        /\ Cardinality(RolledIn(r)) <= 1
      BY DEF KeptOnce
    <2>1. \A k, l \in RolledIn(r) : k = l
      BY DEF DiskInv, FoldedOnce, RolledIn
    <2>2. RolledIn(r) = {} \/ \E k : RolledIn(r) = {k}
      BY <2>1
    <2>3. Cardinality(RolledIn(r)) <= 1
      <3>1. CASE RolledIn(r) = {}
        BY <3>1, FS_EmptySet
      <3>2. CASE \E k : RolledIn(r) = {k}
        <4>1. PICK k : RolledIn(r) = {k}
          BY <3>2
        <4>2. Cardinality({k}) = 1
          BY FS_Singleton
        <4> QED BY <4>1, <4>2
      <3> QED BY <2>2, <3>1, <3>2
    <2> QED BY <2>3 DEF DiskInv, Kept
  <1> QED BY <1>1, DiskInductive, PTL
=============================================================================
