------------------------------ MODULE Journal ------------------------------
(***************************************************************************)
(* The legacy single-file container: daemon/journal.cpp and the anchors of *)
(* daemon/container.cpp.  A transaction is DATA records and a prepare      *)
(* record, a barrier, a commit record and a barrier; a checkpoint is one   *)
(* record, a barrier, the alternate anchor and a barrier.  A process may   *)
(* exit between any two bytes it writes; a power loss also tears what was  *)
(* written since the last barrier.                                         *)
(*                                                                         *)
(* A file is a sequence of cells: a record, a segment header or a stretch  *)
(* of zero padding is one cell.  A digest is the value it is taken of.     *)
(***************************************************************************)
EXTENDS Integers, Sequences, FiniteSets, SequencesExt

CONSTANTS Keys, Objects,
          None,           \* an absent root
          Same,           \* a root the batch does not touch
          SegmentCells,   \* cells of a segment, its header included (16 MiB)
          MaxMutations,   \* 64 mutations
          MaxSequence,    \* bound on committed transactions
          MaxGeneration,  \* bound on anchor generations
          MaxCells,       \* bound on the file
          MaxLosses       \* bound on power losses, which tear unsynchronized writes

ASSUME JournalAssumption ==
    /\ None \notin Objects
    /\ Same \notin Objects \cup {None}
    /\ MaxMutations \in Nat \ {0}
    /\ SegmentCells \in Nat /\ SegmentCells >= MaxMutations + 3
    /\ MaxLosses \in Nat

VARIABLES
    file,      \* the cells as the operating system shows them
    stable,    \* the cells as of the last barrier
    anchors,   \* the two anchor slots, as shown
    fixed,     \* the two anchor slots as of the last barrier
    mem,       \* the Journal and Container objects of the owning process
    job,       \* the put, transact or checkpoint in progress
    acked,     \* history: the last acknowledged commit
    wanted,    \* history: the roots the latest transaction n was to publish
    served,    \* history: what the last process to own the file showed
    losses     \* power losses so far

vars == <<file, stable, anchors, fixed, mem, job, acked, wanted, served, losses>>

Slots == {0, 1}
Root == Objects \cup {None}
NoRoots == [k \in Keys |-> None]
NoObjects == [o \in Objects |-> 0]      \* object -> cell of its DATA record
NoChange == [k \in Keys |-> Same]
Indexed(locations) == {o \in Objects : locations[o] # 0}
Changed(changes) == {k \in Keys : changes[k] # Same}

Data(o, s) == [kind |-> "data", seq |-> s, object |-> o]
Prepare(s, h, changes) == [kind |-> "prepare", seq |-> s, prev |-> h, changes |-> changes]
Commit(s, h, begin, batch) ==
    [kind |-> "commit", seq |-> s, prev |-> h, begin |-> begin, batch |-> batch]
CheckpointRecord(s, h, locations, r) ==
    [kind |-> "checkpoint", seq |-> s, hash |-> h, objects |-> locations, roots |-> r]
Segment == [kind |-> "segment"]
Zero == [kind |-> "zero"]
Short == [kind |-> "short"]    \* an incomplete record or header at the end
Bad == [kind |-> "bad"]        \* complete in size, damaged in content

\* A checkpoint at cell 0 is none: replay starts at the base.
Anchor(g, at) == [generation |-> g, checkpoint |-> at]
Torn == Anchor(0, 0)
Valid(a) == a.generation # 0

Shown(m) == [roots |-> m.roots, objects |-> Indexed(m.objects), seq |-> m.seq]

\* MUTANT: publishing replaces the index by the batch.
ApplyBlind(changes, r) == changes

\* Publishing a batch: the roots it does not touch stay.
Apply(changes, r) == [k \in Keys |-> IF changes[k] = Same THEN r[k] ELSE changes[k]]

Idle == [pc |-> "idle", first |-> "idle", changes |-> NoChange, values |-> {}]
Empty == [state |-> "closed", roots |-> NoRoots, objects |-> NoObjects, seq |-> 0, hash |-> <<>>,
          end |-> 0, tail |-> FALSE, poisoned |-> FALSE, generation |-> 0, slot |-> 0]

\* create_legacy(): two equal anchors of generation 1, and no segment.
Init ==
    /\ file = <<>>
    /\ stable = <<>>
    /\ anchors = [s \in Slots |-> Anchor(1, 0)]
    /\ fixed = anchors
    /\ mem = Empty
    /\ job = Idle
    /\ acked = [seq |-> 0, end |-> 0]
    /\ wanted = [n \in 0..MaxSequence |-> NoRoots]
    /\ served = Shown(Empty)
    /\ losses = 0

-----------------------------------------------------------------------------
(* Replay: the scan of Journal's constructor, one cell at a time. *)

Scan0(m) == [status |-> "scan", phase |-> 0, padding |-> FALSE, at |-> m.end, begin |-> 0,
             pending |-> NoObjects, changes |-> NoChange, batch |-> <<>>, m |-> m]
Throw(s) == [s EXCEPT !.status = "throw"]
Stop(s) == [s EXCEPT !.status = "stop"]
Skip(s) == [s EXCEPT !.at = @ + 1]

ScanData(s, c) ==
    LET t == IF s.phase = 0
             THEN [s EXCEPT !.begin = s.at, !.pending = NoObjects, !.batch = <<>>]
             ELSE s
    IN  IF t.pending[c.object] # 0 THEN Throw(s)
        ELSE Skip([t EXCEPT !.phase = 1, !.pending[c.object] = s.at + 1, !.batch = Append(@, c)])

\* MUTANT: the changes of a prepare record show before its commit record.
PrepareApplies(s, c) ==
    Skip([s EXCEPT !.begin = IF s.phase = 0 THEN s.at ELSE @, !.batch = Append(@, c), !.phase = 2,
                   !.changes = c.changes, !.m.roots = Apply(c.changes, @)])

\* The objects a prepare record may name: new ones, all of them, or known ones.
ScanPrepare(s, c) ==
    LET t == IF s.phase = 0
             THEN [s EXCEPT !.begin = s.at, !.pending = NoObjects, !.batch = <<>>]
             ELSE s
        named == {c.changes[k] : k \in Changed(c.changes)}
        sound == /\ c.prev = s.m.hash
                 /\ named \ {None} \subseteq Indexed(t.pending) \cup Indexed(s.m.objects)
                 /\ Indexed(t.pending) \subseteq named
                 /\ \A k \in Keys : c.changes[k] = None => s.m.roots[k] # None
    IN  IF ~sound THEN Throw(s)
        ELSE Skip([t EXCEPT !.phase = 2, !.changes = c.changes, !.batch = Append(@, c)])

BatchMatches(s, c) == c.begin = s.begin /\ c.batch = s.batch

ScanCommit(s, c) ==
    IF ~(c.prev = s.m.hash /\ BatchMatches(s, c)) THEN Throw(s)
    ELSE [Skip(s) EXCEPT
            !.phase = 0,
            !.m = [s.m EXCEPT
                     !.objects = [o \in Objects |-> IF s.pending[o] # 0 THEN s.pending[o] ELSE @[o]],
                     !.roots = Apply(s.changes, @),
                     !.seq = c.seq,
                     !.hash = Append(@, s.changes),
                     !.end = s.at + 1]]

\* An unanchored checkpoint is a physical hint.
ScanCheckpoint(s, c) ==
    IF c.seq = s.m.seq /\ c.hash = s.m.hash
    THEN [Skip(s) EXCEPT !.m.end = s.at + 1]
    ELSE Throw(s)

\* A segment starts with its header, never inside a transaction.
ScanHeader(s, c) ==
    IF c = Short /\ s.phase = 0 THEN Stop(s)
    ELSE IF c = Segment /\ s.phase = 0 THEN [Skip(s) EXCEPT !.padding = FALSE]
    ELSE Throw(s)

\* The rest of a segment after padding is padding.
ScanZero(s) == IF s.phase = 0 THEN [Skip(s) EXCEPT !.padding = TRUE] ELSE Throw(s)

ScanRecord(s, c) ==
    LET next == c.seq = s.m.seq + 1
    IN  CASE c.kind = "checkpoint" /\ s.phase = 0 -> ScanCheckpoint(s, c)
          [] c.kind = "data" /\ s.phase < 2 /\ next -> ScanData(s, c)
          [] c.kind = "prepare" /\ s.phase < 2 /\ next -> ScanPrepare(s, c)
          [] c.kind = "commit" /\ s.phase = 2 /\ next -> ScanCommit(s, c)
          [] OTHER -> Throw(s)

ScanCell(s, c) ==
    IF s.status # "scan" THEN s
    ELSE IF s.at % SegmentCells = 0 THEN ScanHeader(s, c)
    ELSE IF c = Zero THEN ScanZero(s)
    ELSE IF s.padding \/ c \in {Bad, Segment} THEN Throw(s)
    ELSE IF c = Short THEN Stop(s)
    ELSE ScanRecord(s, c)

\* The scan of cells after m.end.
Scan(cells, m) ==
    LET S[i \in m.end..Len(cells)] == IF i = m.end THEN Scan0(m) ELSE ScanCell(S[i - 1], cells[i])
    IN  S[Len(cells)]

\* Journal's constructor: the published checkpoint, then the cells after it.
Replayed(cells, at, m) ==
    LET c == cells[at]
        restored == [m EXCEPT !.roots = c.roots, !.objects = c.objects, !.seq = c.seq,
                              !.hash = c.hash, !.end = at]
        \* "Starting inside a segment must still validate that segment's identity."
        header == cells[((at - 1) \div SegmentCells) * SegmentCells + 1]
    IN  IF at = 0 THEN Scan(cells, m)
        ELSE IF at <= Len(cells) /\ c.kind = "checkpoint" /\ header = Segment THEN Scan(cells, restored)
        ELSE Throw(Scan0(m))

-----------------------------------------------------------------------------
(* Container's constructor. *)

\* The valid anchor of the higher generation; the first slot wins a tie.
Chosen ==
    CHOOSE s \in Slots :
        /\ Valid(anchors[s])
        /\ \A t \in Slots : Valid(anchors[t]) =>
              anchors[s].generation >= anchors[t].generation /\
              (anchors[s].generation = anchors[t].generation => s <= t)

AnchorsAgree ==
    /\ \E s \in Slots : Valid(anchors[s])
    /\ anchors[0].generation = anchors[1].generation => anchors[0] = anchors[1]

\* Opening changes nothing in the file.
Open ==
    LET a == anchors[Chosen]
        s == Replayed(file, a.checkpoint, Empty)
        recovered == [s.m EXCEPT !.state = "open", !.tail = Len(file) # s.m.end,
                                 !.generation = a.generation, !.slot = Chosen]
    IN  /\ mem.state = "closed"
        /\ mem' = IF AnchorsAgree /\ s.status # "throw" THEN recovered
                  ELSE [Empty EXCEPT !.state = "refused"]
        /\ served' = IF mem'.state = "open" THEN Shown(recovered) ELSE served
        /\ wanted' = IF mem'.state = "open"
                     THEN [n \in 0..MaxSequence |-> IF n <= mem'.seq THEN wanted[n] ELSE NoRoots]
                     ELSE wanted
        /\ UNCHANGED <<file, stable, anchors, fixed, job, acked, losses>>

-----------------------------------------------------------------------------
(* put(), transact() and checkpoint(). *)

Ready == mem.state = "open" /\ ~mem.poisoned

\* A batch needs a position where it fits before the end of the segment.
Placement(n) ==
    LET in == mem.end % SegmentCells
    IN  IF in # 0 /\ SegmentCells - in >= n THEN <<>>
        ELSE [i \in 1..((SegmentCells - in) % SegmentCells) |-> Zero] \o <<Segment>>

BatchOf(j) ==
    [i \in 1..Cardinality(j.values) |-> Data(SetToSeq(j.values)[i], mem.seq + 1)]
        \o <<Prepare(mem.seq + 1, mem.hash, j.changes)>>

Prefix(j) ==
    IF j.first = "record" THEN Placement(1)
    ELSE Placement(Cardinality(j.values) + 2)

Begin(j) == mem.end + Len(Prefix(j))

\* MUTANT: the padding before a batch is left out of its objects' locations.
UnpaddedLocation(j, o) ==
    mem.end + CHOOSE i \in 1..Len(BatchOf(j)) : BatchOf(j)[i] = Data(o, mem.seq + 1)

\* The cell where a job puts object o.
Location(j, o) ==
    Begin(j) + CHOOSE i \in 1..Len(BatchOf(j)) : BatchOf(j)[i] = Data(o, mem.seq + 1)

\* What the current write of a job appends.
Output ==
    CASE job.pc = "batch" -> Prefix(job) \o BatchOf(job)
      [] job.pc = "commit" -> <<Commit(mem.seq + 1, mem.hash, Begin(job), BatchOf(job))>>
      [] job.pc = "record" -> Prefix(job) \o
                              <<CheckpointRecord(mem.seq, mem.hash, mem.objects, mem.roots)>>
      [] OTHER -> <<>>

\* MUTANT: the next writer appends after whatever the last one left.
KeepTail == FALSE

MustTruncate == mem.tail

Start(j) == [j EXCEPT !.pc = IF MustTruncate THEN "truncate" ELSE j.first]

TransactBegin(changes, values) ==
    LET named == {changes[k] : k \in Changed(changes)} \ {None}
        j == [Idle EXCEPT !.first = "batch", !.changes = changes, !.values = values]
    IN  /\ job = Idle
        /\ Ready
        /\ mem.seq < MaxSequence
        /\ Cardinality(Changed(changes)) \in 1..MaxMutations
        /\ values \subseteq named                             \* PUT of a value,
        /\ named \subseteq values \cup Indexed(mem.objects)   \* or of a known object
        /\ \A k \in Keys : changes[k] = None => mem.roots[k] # None
        /\ mem.end + Len(Prefix(j)) + Cardinality(values) + 2 <= MaxCells
        /\ job' = Start(j)
        /\ wanted' = [wanted EXCEPT ![mem.seq + 1] = Apply(changes, mem.roots)]
        /\ UNCHANGED <<file, stable, anchors, fixed, mem, acked, served, losses>>

CheckpointBegin ==
    LET j == [Idle EXCEPT !.first = "record"]
    IN  /\ job = Idle
        /\ Ready
        /\ mem.generation < MaxGeneration
        /\ mem.end + Len(Prefix(j)) + 1 <= MaxCells
        /\ job' = Start(j)
        /\ UNCHANGED <<file, stable, anchors, fixed, mem, acked, wanted, served, losses>>

Truncate ==
    /\ job.pc = "truncate"
    /\ file' = SubSeq(file, 1, mem.end)
    /\ job' = [job EXCEPT !.pc = "truncatesync"]
    /\ UNCHANGED <<stable, anchors, fixed, mem, acked, wanted, served, losses>>

\* A completed pwrite is followed by its barrier.
WriteCells ==
    /\ job.pc \in {"batch", "commit", "record"}
    /\ file' = file \o Output
    /\ job' = [job EXCEPT !.pc = CASE @ = "batch" -> "batchsync"
                                   [] @ = "commit" -> "commitsync"
                                   [] @ = "record" -> "recordsync"]
    /\ UNCHANGED <<stable, anchors, fixed, mem, acked, wanted, served, losses>>

\* MUTANT: checkpoint() overwrites the anchor it was opened from.
SameSlot == mem.slot

\* The anchor is written to the slot that is not in use.
Target == 1 - mem.slot

NextAnchor == Anchor(mem.generation + 1, mem.end)

WriteAnchor ==
    /\ job.pc = "anchor"
    /\ anchors' = [anchors EXCEPT ![Target] = NextAnchor]
    /\ job' = [job EXCEPT !.pc = "anchorsync"]
    /\ UNCHANGED <<file, stable, fixed, mem, acked, wanted, served, losses>>

\* MUTANT: a barrier that does nothing.
Unsynced == UNCHANGED <<stable, fixed>>

\* fsync() makes all of the file durable, the anchors included.
Synced == stable' = file /\ fixed' = anchors

\* MUTANT: no barrier between the batch and its commit record.
NoBarrier == UNCHANGED <<stable, fixed>>

Barrier == Synced

SyncTruncate ==
    /\ job.pc = "truncatesync"
    /\ Synced
    /\ job' = [job EXCEPT !.pc = job.first]
    /\ UNCHANGED <<file, anchors, mem, acked, wanted, served, losses>>

SyncBatch ==
    /\ job.pc = "batchsync"
    /\ Barrier
    /\ job' = [job EXCEPT !.pc = "commit"]
    /\ UNCHANGED <<file, anchors, mem, acked, wanted, served, losses>>

\* The second barrier, then the indexes move and the caller is told.
SyncCommit ==
    LET m == [mem EXCEPT
                !.objects = [o \in Objects |-> IF o \in job.values THEN Location(job, o) ELSE @[o]],
                !.roots = Apply(job.changes, @),
                !.seq = @ + 1,
                !.hash = Append(@, job.changes),
                !.end = Begin(job) + Len(BatchOf(job)) + 1,
                !.tail = FALSE]
    IN  /\ job.pc = "commitsync"
        /\ Synced
        /\ mem' = m
        /\ job' = Idle
        /\ acked' = [seq |-> m.seq, end |-> m.end]
        /\ served' = Shown(m)
        /\ UNCHANGED <<file, anchors, wanted, losses>>

SyncRecord ==
    /\ job.pc = "recordsync"
    /\ Barrier
    /\ mem' = [mem EXCEPT !.end = Begin(job) + 1, !.tail = FALSE]
    /\ job' = [job EXCEPT !.pc = "anchor"]
    /\ UNCHANGED <<file, anchors, acked, wanted, served, losses>>

SyncAnchor ==
    /\ job.pc = "anchorsync"
    /\ Synced
    /\ mem' = [mem EXCEPT !.generation = @ + 1, !.slot = Target]
    /\ job' = Idle
    /\ UNCHANGED <<file, anchors, acked, wanted, served, losses>>

-----------------------------------------------------------------------------
(* Errors, process exits and power loss. *)

\* Part of the current write has reached the file.
PartWritten ==
    \/ \E n \in 0..Len(Output), short \in BOOLEAN :
          /\ short => n < Len(Output) /\ Output[n + 1] # Zero
          /\ file' = file \o SubSeq(Output, 1, n) \o (IF short THEN <<Short>> ELSE <<>>)
          /\ anchors' = anchors
    \/ /\ job.pc = "anchor"
       /\ anchors' = [anchors EXCEPT ![Target] = Torn]
       /\ file' = file

\* A write or barrier fails: the object is poisoned until the next open.
WriteError ==
    /\ job # Idle
    /\ PartWritten
    /\ mem' = [mem EXCEPT !.poisoned = TRUE]
    /\ job' = Idle
    /\ UNCHANGED <<stable, fixed, acked, wanted, served, losses>>

\* The process ends; the operating system keeps what was written.
Exit ==
    /\ mem.state # "closed"
    /\ PartWritten
    /\ mem' = Empty
    /\ job' = Idle
    /\ UNCHANGED <<stable, fixed, acked, wanted, served, losses>>

\* Of the cells since the last barrier, those in lost did not reach the disk.
CellAfter(lost, shown, i) ==
    CASE i \notin lost /\ i <= Len(shown) -> shown[i]
      [] i \in lost /\ i <= Len(stable) -> stable[i]
      [] OTHER -> Zero

TornAnchors(s) ==
    {anchors[s], fixed[s]} \cup (IF anchors[s] # fixed[s] THEN {Torn} ELSE {})
        \cup (IF job.pc = "anchor" /\ s = Target THEN {NextAnchor, Torn} ELSE {})

\* What both the file and its durable copy hold survives; the rest may not.
LosePower ==
    LET shown == file \o Output
        kept == Len(LongestCommonPrefix({shown, stable}))
        longest == Max({Len(shown), Len(stable)})
    IN  /\ losses < MaxLosses
        /\ losses' = losses + 1
        /\ \E n \in kept..longest :
              \E lost \in SUBSET ((kept + 1)..n), torn \in {0} \cup (kept + 1)..n, c \in {Bad, Short} :
                 /\ torn \notin lost
                 /\ c = Short => torn = n
                 /\ file' = [i \in 1..n |-> IF i <= kept THEN shown[i]
                                           ELSE IF i = torn THEN c
                                           ELSE CellAfter(lost, shown, i)]
        /\ stable' = file'
        /\ \E a0 \in TornAnchors(0), a1 \in TornAnchors(1) :
              anchors' = [s \in Slots |-> IF s = 0 THEN a0 ELSE a1]
        /\ fixed' = anchors'
        /\ mem' = Empty
        /\ job' = Idle
        /\ UNCHANGED <<acked, wanted, served>>

-----------------------------------------------------------------------------
Next ==
    \/ Open
    \/ \E changes \in [Keys -> Root \cup {Same}], values \in SUBSET Objects :
          TransactBegin(changes, values)
    \/ CheckpointBegin
    \/ Truncate \/ WriteCells \/ WriteAnchor
    \/ SyncTruncate \/ SyncBatch \/ SyncCommit \/ SyncRecord \/ SyncAnchor
    \/ WriteError \/ Exit \/ LosePower

Spec == Init /\ [][Next]_vars

-----------------------------------------------------------------------------
\* Every variable stays in its type (journal.h, container.h).
TypeOK ==
    /\ Len(file) <= MaxCells /\ Len(stable) <= MaxCells
    /\ \A s \in Slots : {anchors[s], fixed[s]} \subseteq [generation : 0..MaxGeneration, checkpoint : 0..MaxCells]
    /\ mem.state \in {"closed", "open", "refused"}
    /\ mem.roots \in [Keys -> Root]
    /\ mem.objects \in [Objects -> 0..MaxCells]
    /\ mem.seq \in 0..MaxSequence /\ Len(mem.hash) = mem.seq
    /\ job.values \in SUBSET Objects
    /\ acked \in [seq : 0..MaxSequence, end : 0..MaxCells]
    /\ wanted \in [0..MaxSequence -> [Keys -> Root]]

\* An acknowledged commit survives everything: at any moment, open or not, a
\* replay from the base up to it finds exactly the roots it was to publish.
AckedPrefixIntact ==
    LET s == Scan(SubSeq(file, 1, acked.end), Empty)
    IN  /\ acked.end <= Len(file)
        /\ s.status = "scan" /\ s.phase = 0
        /\ s.m.seq = acked.seq /\ s.m.roots = wanted[acked.seq]

\* An open container shows the acknowledged commits and at most whole later
\* ones: "a partial final transaction is invisible", and no attempt that was
\* lost comes back once another one took its number.
RecoveredExact ==
    mem.state = "open" => mem.seq >= acked.seq /\ mem.roots = wanted[mem.seq]

\* read_object: the record at the indexed place is the object's DATA record, of a commit that is known.
ReadObject(o) ==
    LET at == mem.objects[o]
    IN  /\ at # 0 /\ at <= mem.end /\ at <= Len(file)
        /\ file[at].kind = "data" /\ file[at].object = o
        /\ file[at].seq > 0 /\ file[at].seq <= mem.seq
Verify == \A o \in Indexed(mem.objects) : ReadObject(o)
Get(k) == mem.roots[k] # None /\ ReadObject(mem.roots[k])

\* get() and verify() never fail on an indexed object: each location holds the
\* object's DATA record, through truncations, checkpoints and replays.
IndexedReadable ==
    mem.state = "open" => Verify /\ \A k \in Keys : mem.roots[k] # None => Get(k)

\* "Fallback if one anchor is torn": there is always a valid anchor, and a
\* valid anchor never points at a checkpoint that is not there.
AnchorsUsable ==
    /\ \E s \in Slots : Valid(anchors[s])
    /\ \A s \in Slots : anchors[s].checkpoint # 0 =>
          anchors[s].checkpoint <= Len(file) /\ file[anchors[s].checkpoint].kind = "checkpoint"

\* Wherever a process exits, the container opens again.
NeverRefused == mem.state # "refused"

\* The legacy log implements the same abstract store as LevelStore.
Abstract == INSTANCE ObjectStore WITH
    roots <- served.roots, objects <- served.objects, sequence <- served.seq
ImplementsObjectStore == Abstract!Spec

\* Exits between any two writes: the container opens again with every
\* acknowledged commit, its indexed objects are readable, and what it serves
\* changes as the abstract store does.
Recovers == ImplementsObjectStore /\ [](TypeOK /\ NeverRefused /\ AckedPrefixIntact /\ IndexedReadable)

\* Power losses: the acknowledged commits are on the disk behind a usable
\* anchor, and an open container shows them and whole later ones only.
PowerSafe == AckedPrefixIntact /\ RecoveredExact /\ AnchorsUsable
=============================================================================
