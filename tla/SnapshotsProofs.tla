--------------------------- MODULE SnapshotsProofs ---------------------------
(***************************************************************************)
(* Registered snapshots are sound and their windows held for any number of *)
(* processes, snapshots and hard-link groups, and any number of failing    *)
(* calls and deaths.                                                       *)
(***************************************************************************)
EXTENDS Snapshots, FiniteSetTheorems, TLAPS

\* The constants: a tree has finitely many hard-link groups.
Sane == MaxSnaps \in Nat /\ IsFiniteSet(Groups) /\ None \notin Procs

States == {"none", "creating", "active", "deleted", "trashing", "trashed", "dead"}
Made == {"active", "trashing", "trashed", "dead"}
Building == {"mkdir", "clone", "manifest", "rename", "activate", "undo", "unrow"}
Reading == {"access", "flock", "bare", "inside", "shut", "unlock"}
Clearing == {"creating", "creatingRow", "list", "sweep", "sweepTree", "scan", "reconcile", "reconcileRow"}
Pcs == {"idle"} \cup Building \cup Reading \cup Clearing

Row == [st : States, own : Procs \cup {None}, hl : Nat]
Process == [pc : Pcs, s : SnapIds \cup {None}, op : {"none", "create", "clone", "verify", "diff", "gc"},
            hl : SUBSET Groups, todo : SUBSET SnapIds, bad : BOOLEAN]

Shape ==
    /\ row \in [SnapIds -> Row]
    /\ tmp \in [SnapIds -> {"absent", "part", "whole"}]
    /\ dir \in [SnapIds -> {"absent", "part", "whole", "stump"}]
    /\ man \in [SnapIds -> SUBSET Groups]
    /\ gate \in [SnapIds -> BOOLEAN]
    /\ lock \in [SnapIds -> Procs \cup {None}]
    /\ died \in SUBSET SnapIds /\ lost \in SUBSET SnapIds
    /\ proc \in [Procs -> Process]

-----------------------------------------------------------------------------
(* The inductive invariant. *)

\* Its row has lost its owner before it was ever ACTIVE.
Orphan(s) == row[s].own = None /\ row[s].st \in {"creating", "deleted"}

\* Its root was lost.
Rootless(s) == row[s].st \in Made /\ s \in lost /\ dir[s] \in {"stump", "absent"}

\* A snapshot that is ACTIVE, or may become it again when a discard finds nothing to move.
Kept(s) ==
    row[s].st \in {"active", "trashing"} =>
      /\ dir[s] = "whole" \/ Rootless(s)
      /\ Cardinality(man[s]) = row[s].hl

RowSound(s) ==
    /\ Kept(s)
    /\ row[s].own # None => row[s].st = "creating"
    /\ row[s].st = "none" => tmp[s] = "absent"
    /\ gate[s] => lock[s] # None \/ s \in died

\* A process that makes a snapshot owns the row, and nobody else touches the tree.
Maker(p) ==
    LET s == proc[p].s
    IN proc[p].pc \in Building =>
         /\ s \in SnapIds /\ row[s].own = p /\ row[s].st = "creating"
         /\ proc[p].pc \in {"clone", "manifest"} => tmp[s] = "part"
         /\ proc[p].pc = "rename" => tmp[s] = "whole" /\ man[s] = proc[p].hl
         /\ proc[p].pc = "activate" => dir[s] = "whole" /\ man[s] = proc[p].hl

\* A reader inside the window holds the flock; when it gives it up the root is shut.
Reader(p) ==
    LET s == proc[p].s
    IN proc[p].pc \in Reading =>
         /\ s \in SnapIds /\ row[s].st \in Made
         /\ proc[p].pc \in {"inside", "shut", "unlock"} => lock[s] = p
         /\ proc[p].pc = "inside" /\ dir[s] = "whole" => gate[s]
         /\ proc[p].pc = "unlock" => ~gate[s]

\* What a collector has read from the table stays true until it acts on it.
Cleaner(p) ==
    LET s == proc[p].s
    IN proc[p].pc \in Clearing =>
         /\ proc[p].pc \in {"creatingRow", "sweepTree", "reconcileRow"} => s \in SnapIds
         /\ proc[p].pc \in {"creating", "creatingRow"} => \A r \in proc[p].todo : Orphan(r)
         /\ proc[p].pc = "creatingRow" => Orphan(s)
         /\ proc[p].pc \in {"sweep", "sweepTree"} => \A r \in proc[p].todo : row[r].st # "none"
         /\ proc[p].pc = "sweepTree" => row[s].st \in {"deleted", "dead"}
         /\ proc[p].pc \in {"reconcile", "reconcileRow"} => \A r \in proc[p].todo : Rootless(r)

ProcSound(p) == Maker(p) /\ Reader(p) /\ Cleaner(p)

IInv ==
    /\ Shape
    /\ \A s \in SnapIds : RowSound(s)
    /\ \A p \in Procs : ProcSound(p)

\* What everybody but p relies on about s.
Calm(s, p) ==
    /\ row[s].own \notin {p, None} => row'[s] = row[s] /\ tmp'[s] = tmp[s] /\ dir'[s] = dir[s] /\ man'[s] = man[s]
    /\ Orphan(s) => Orphan(s)'
    /\ row[s].st # "none" => row'[s].st # "none"
    /\ row[s].st \in {"deleted", "dead"} => row'[s].st = row[s].st
    /\ row[s].st \in Made => row'[s].st \in Made
    /\ Rootless(s) => Rootless(s)'
    /\ lock[s] \notin {p, None} => lock'[s] = lock[s]
    /\ lock[s] \notin {p, None} /\ row[s].st \in Made =>
         /\ dir'[s] = "whole" => dir[s] = "whole" /\ gate'[s] = gate[s]
         /\ gate'[s] => gate[s]

\* A step of p, or of nobody: the others rely on what they relied on.
LEMMA Others ==
    ASSUME Sane, IInv, NEW p, \A s \in SnapIds : Calm(s, p),
           \A q \in Procs \ {p} : proc'[q] = proc[q]
    PROVE  \A q \in Procs \ {p} : ProcSound(q)'
  <1> SUFFICES ASSUME NEW q \in Procs \ {p} PROVE ProcSound(q)'
    BY Zenon
  <1>1. proc'[q] = proc[q] /\ ProcSound(q) /\ q \notin {p, None} /\ proc[q].todo \subseteq SnapIds
    BY Zenon DEF IInv, Sane, Shape, Process
  <1>2. Maker(q)'
    <2> SUFFICES ASSUME proc[q].pc \in Building PROVE Maker(q)'
      BY <1>1, Zenon DEF Maker
    <2> DEFINE s == proc[q].s
    <2>1. s \in SnapIds /\ row[s].own = q
      BY <1>1, Zenon DEF ProcSound, Maker
    <2>2. row'[s] = row[s] /\ tmp'[s] = tmp[s] /\ dir'[s] = dir[s] /\ man'[s] = man[s]
      BY <1>1, <2>1, Zenon DEF Calm
    <2> QED BY <1>1, <2>1, <2>2, Zenon DEF ProcSound, Maker
  <1>3. Reader(q)'
    <2> SUFFICES ASSUME proc[q].pc \in Reading PROVE Reader(q)'
      BY <1>1, Zenon DEF Reader
    <2> DEFINE s == proc[q].s
    <2>1. s \in SnapIds /\ row[s].st \in Made /\ Calm(s, p)
      BY <1>1, Zenon DEF ProcSound, Reader
    <2>2. row'[s].st \in Made
      BY <2>1, Zenon DEF Calm
    <2>3. CASE proc[q].pc \in {"inside", "shut", "unlock"}
      <3>1. lock[s] = q
        BY <1>1, <2>3, Zenon DEF ProcSound, Reader
      <3>2. lock'[s] = q /\ (dir'[s] = "whole" => dir[s] = "whole" /\ gate'[s] = gate[s]) /\ (gate'[s] => gate[s])
        BY <1>1, <2>1, <3>1, Zenon DEF Calm
      <3> QED BY <1>1, <2>1, <2>2, <3>2, Zenon DEF ProcSound, Reader
    <2>4. CASE proc[q].pc \notin {"inside", "shut", "unlock"}
      BY <1>1, <2>1, <2>2, <2>4, Zenon DEF Reader
    <2> QED BY <2>3, <2>4, Zenon
  <1>4. Cleaner(q)'
    <2>1. \A s \in SnapIds : /\ Orphan(s) => Orphan(s)'
                             /\ row[s].st # "none" => row'[s].st # "none"
                             /\ row[s].st \in {"deleted", "dead"} => row'[s].st \in {"deleted", "dead"}
                             /\ Rootless(s) => Rootless(s)'
      BY Zenon DEF Calm
    <2> QED BY <1>1, <2>1, Zenon DEF ProcSound, Cleaner
  <1> QED BY <1>2, <1>3, <1>4, Zenon DEF ProcSound

-----------------------------------------------------------------------------
(* The process that steps. *)

LEMMA Moved ==
    ASSUME Shape, NEW p \in Procs, NEW x \in Pcs, Goto(p, x)
    PROVE  /\ proc' \in [Procs -> Process]
           /\ proc'[p] = [proc[p] EXCEPT !.pc = x]
           /\ proc'[p].pc = x /\ proc'[p].s = proc[p].s /\ proc'[p].hl = proc[p].hl /\ proc'[p].todo = proc[p].todo
           /\ \A q \in Procs \ {p} : proc'[q] = proc[q]
  <1>1. proc \in [Procs -> Process] /\ proc[p] \in Process
    BY Zenon DEF Shape
  <1>2. proc' = [proc EXCEPT ![p] = [proc[p] EXCEPT !.pc = x]]
    BY <1>1, Zenon DEF Goto
  <1>3. [proc[p] EXCEPT !.pc = x] \in Process
    BY <1>1, Zenon DEF Process
  <1>4. /\ [proc[p] EXCEPT !.pc = x].pc = x /\ [proc[p] EXCEPT !.pc = x].s = proc[p].s
        /\ [proc[p] EXCEPT !.pc = x].hl = proc[p].hl /\ [proc[p] EXCEPT !.pc = x].todo = proc[p].todo
    BY <1>1, Zenon DEF Process
  <1> QED BY <1>1, <1>2, <1>3, <1>4, Zenon

LEMMA IdleType == Idle \in Process /\ Idle.pc = "idle"
  BY Zenon DEF Idle, Process, Pcs

\* The command ends: the rows are those given, without an owner where p was.
LEMMA Returned ==
    ASSUME Sane, Shape, NEW p \in Procs, NEW rows \in [SnapIds -> Row], Return(p, rows)
    PROVE  /\ proc' \in [Procs -> Process] /\ proc'[p].pc = "idle"
           /\ \A q \in Procs \ {p} : proc'[q] = proc[q]
           /\ row' \in [SnapIds -> Row]
           /\ \A s \in SnapIds : /\ row'[s].st = rows[s].st /\ row'[s].hl = rows[s].hl
                                 /\ row'[s].own = IF rows[s].own = p THEN None ELSE rows[s].own
                                 /\ rows[s].own # p => row'[s] = rows[s]
  <1>1. proc \in [Procs -> Process]
    BY Zenon DEF Shape
  <1>2. /\ proc' \in [Procs -> Process] /\ proc'[p].pc = "idle"
        /\ \A q \in Procs \ {p} : proc'[q] = proc[q]
    BY <1>1, IdleType, Zenon DEF Return
  <1>3. \A s \in SnapIds : row'[s] = IF rows[s].own = p THEN [rows[s] EXCEPT !.own = None] ELSE rows[s]
    BY Zenon DEF Return
  <1>4. \A s \in SnapIds : row'[s] \in Row /\ row'[s].st = rows[s].st /\ row'[s].hl = rows[s].hl
                           /\ row'[s].own = IF rows[s].own = p THEN None ELSE rows[s].own
    <2> SUFFICES ASSUME NEW s \in SnapIds
                 PROVE  row'[s] \in Row /\ row'[s].st = rows[s].st /\ row'[s].hl = rows[s].hl
                        /\ row'[s].own = IF rows[s].own = p THEN None ELSE rows[s].own
      BY Zenon
    <2>1. rows[s] \in Row
      BY Zenon
    <2> QED BY <1>3, <2>1, Zenon DEF Row
  <1>5. row' \in [SnapIds -> Row]
    BY <1>4, Zenon DEF Return
  <1> QED BY <1>2, <1>3, <1>4, <1>5, Zenon

\* A row whose state alone changes.
LEMMA Restated ==
    ASSUME Shape, NEW s \in SnapIds, NEW x \in States
    PROVE  /\ [row EXCEPT ![s].st = x] \in [SnapIds -> Row]
           /\ [row EXCEPT ![s].st = x][s].st = x
           /\ [row EXCEPT ![s].st = x][s].own = row[s].own /\ [row EXCEPT ![s].st = x][s].hl = row[s].hl
           /\ \A r \in SnapIds \ {s} : [row EXCEPT ![s].st = x][r] = row[r]
  <1>1. row \in [SnapIds -> Row] /\ row[s] \in Row
    BY Zenon DEF Shape
  <1>2. [row EXCEPT ![s].st = x] = [row EXCEPT ![s] = [row[s] EXCEPT !.st = x]]
    BY <1>1, Zenon
  <1>3. [row[s] EXCEPT !.st = x] \in Row /\ [row[s] EXCEPT !.st = x].st = x
        /\ [row[s] EXCEPT !.st = x].own = row[s].own /\ [row[s] EXCEPT !.st = x].hl = row[s].hl
    BY <1>1, Zenon DEF Row
  <1> QED BY <1>1, <1>2, <1>3, Zenon

\* An idle process promises nothing.
LEMMA IdleSound ==
    ASSUME NEW p, proc[p].pc = "idle"
    PROVE  ProcSound(p)
  BY Zenon DEF ProcSound, Maker, Reader, Cleaner, Building, Reading, Clearing

\* What has to be shown of a step of p.
Preserves(p) ==
    /\ Shape'
    /\ \A s \in SnapIds : RowSound(s)' /\ Calm(s, p)
    /\ \A q \in Procs \ {p} : proc'[q] = proc[q]
    /\ p \in Procs => ProcSound(p)'

LEMMA Suffices ==
    ASSUME Sane, IInv, NEW p, Preserves(p)
    PROVE  IInv'
  BY Others, Zenon DEF IInv, Preserves
-----------------------------------------------------------------------------
(* Steps that only move the process. *)

disk == <<row, tmp, dir, man, gate, lock, died, lost>>

LEMMA SameRows ==
    ASSUME IInv, NEW p, UNCHANGED disk
    PROVE  \A s \in SnapIds : RowSound(s)' /\ Calm(s, p)
  <1>1. UNCHANGED row /\ UNCHANGED tmp /\ UNCHANGED dir /\ UNCHANGED man /\ UNCHANGED gate
        /\ UNCHANGED lock /\ UNCHANGED died /\ UNCHANGED lost
    BY Zenon DEF disk
  <1>2. \A s \in SnapIds : (Orphan(s)' <=> Orphan(s)) /\ (Rootless(s)' <=> Rootless(s)) /\ (Kept(s)' <=> Kept(s))
    BY <1>1, Zenon DEF Orphan, Rootless, Kept
  <1>3. \A s \in SnapIds : RowSound(s)'
    BY <1>1, <1>2, Zenon DEF IInv, RowSound
  <1>4. \A s \in SnapIds : Calm(s, p)
    BY <1>1, <1>2, Zenon DEF Calm
  <1> QED BY <1>3, <1>4, Zenon

LEMMA SameShape ==
    ASSUME Shape, UNCHANGED disk, proc' \in [Procs -> Process]
    PROVE  Shape'
  BY Zenon DEF Shape, disk

LEMMA Walked ==
    ASSUME IInv, NEW p \in Procs, UNCHANGED disk, proc' \in [Procs -> Process],
           \A q \in Procs \ {p} : proc'[q] = proc[q], ProcSound(p)'
    PROVE  Preserves(p)
  BY SameRows, SameShape, Zenon DEF IInv, Preserves

LEMMA ReadBeginKeeps ==
    ASSUME Sane, IInv, NEW p \in Procs, NEW s \in SnapIds, ReadBegin(p, s)
    PROVE  Preserves(p)
  <1>1. UNCHANGED disk /\ row[s].st = "active"
    BY Zenon DEF ReadBegin, files, window, disk
  <1>2. PICK op \in {"clone", "verify", "diff"} :
          proc' = [proc EXCEPT ![p] = [Idle EXCEPT !.s = s, !.op = op,
                  !.pc = IF op = "diff" THEN "access" ELSE "flock",
                  !.bad = op = "verify" /\ gate[s]]]
    BY Zenon DEF ReadBegin
  <1>3. PICK x \in {"access", "flock"} : x = IF op = "diff" THEN "access" ELSE "flock"
    BY Zenon
  <1>4. PICK b \in BOOLEAN : b = (op = "verify" /\ gate[s])
    BY Zenon
  <1> DEFINE w == [Idle EXCEPT !.s = s, !.op = op, !.pc = x, !.bad = b]
  <1>5. w \in Process /\ w.pc = x /\ w.s = s
    BY Zenon DEF Idle, Process, Pcs, Reading
  <1>6. proc' = [proc EXCEPT ![p] = w] /\ proc \in [Procs -> Process]
    BY <1>2, <1>3, <1>4, Zenon DEF IInv, Shape
  <1> HIDE DEF w
  <1>7. proc' \in [Procs -> Process] /\ proc'[p] = w /\ \A q \in Procs \ {p} : proc'[q] = proc[q]
    BY <1>5, <1>6, Zenon
  <1>8. row' = row
    BY <1>1, Zenon DEF disk
  <1>9. ProcSound(p)'
    BY <1>1, <1>5, <1>7, <1>8, Zenon DEF ProcSound, Maker, Reader, Cleaner, Building, Reading, Clearing, Made
  <1> QED BY <1>1, <1>7, <1>9, Walked, Zenon

LEMMA CollectKeeps ==
    ASSUME Sane, IInv, NEW p \in Procs, Collect(p)
    PROVE  Preserves(p)
  <1>1. UNCHANGED disk
    BY Zenon DEF Collect, files, window, disk
  <1> DEFINE S == {s \in SnapIds : row[s].st = "creating" /\ row[s].own = None}
  <1> DEFINE w == [Idle EXCEPT !.pc = "creating", !.op = "gc", !.todo = S]
  <1>2. w \in Process /\ w.pc = "creating" /\ w.todo = S
    BY Zenon DEF Idle, Process, Pcs, Clearing
  <1>3. proc' = [proc EXCEPT ![p] = w] /\ proc \in [Procs -> Process]
    BY Zenon DEF Collect, IInv, Shape
  <1> HIDE DEF w
  <1>4. proc' \in [Procs -> Process] /\ proc'[p] = w /\ \A q \in Procs \ {p} : proc'[q] = proc[q]
    BY <1>2, <1>3, Zenon
  <1>5. \A r \in S : Orphan(r)'
    BY <1>1, Zenon DEF disk, Orphan
  <1> HIDE DEF S
  <1>6. ProcSound(p)'
    BY <1>2, <1>4, <1>5, Zenon DEF ProcSound, Maker, Reader, Cleaner, Building, Reading, Clearing
  <1> QED BY <1>1, <1>4, <1>6, Walked, Zenon

\* A collector takes a new list,
Lists(p, x, S) == proc' = [proc EXCEPT ![p].pc = x, ![p].todo = S]

LEMMA Listed ==
    ASSUME Shape, NEW p \in Procs, NEW x \in Pcs, NEW S \in SUBSET SnapIds, Lists(p, x, S)
    PROVE  /\ proc' \in [Procs -> Process]
           /\ proc'[p].pc = x /\ proc'[p].todo = S /\ proc'[p].s = proc[p].s
           /\ \A q \in Procs \ {p} : proc'[q] = proc[q]
  <1> DEFINE w == [proc[p] EXCEPT !.pc = x, !.todo = S]
  <1>1. proc \in [Procs -> Process] /\ proc[p] \in Process
    BY Zenon DEF Shape
  <1>2. w \in Process
    BY <1>1, Zenon DEF Process
  <1>3. w.pc = x /\ w.todo = S /\ w.s = proc[p].s
    BY <1>1, Zenon DEF Process
  <1>4. proc' = [proc EXCEPT ![p] = w]
    BY <1>1, Zenon DEF Lists
  <1> HIDE DEF w
  <1> QED BY <1>1, <1>2, <1>3, <1>4, Zenon

\* or one entry from it.
LEMMA Picked ==
    ASSUME Shape, NEW p \in Procs, NEW x \in Pcs, NEW s \in SnapIds,
           proc' = [proc EXCEPT ![p].todo = @ \ {s}, ![p].s = s, ![p].pc = x]
    PROVE  /\ proc' \in [Procs -> Process]
           /\ proc'[p].pc = x /\ proc'[p].todo = proc[p].todo \ {s} /\ proc'[p].s = s
           /\ \A q \in Procs \ {p} : proc'[q] = proc[q]
  <1>1. proc \in [Procs -> Process] /\ proc[p] \in Process /\ proc[p].todo \in SUBSET SnapIds
    BY Zenon DEF Shape, Process
  <1>2. PICK S \in SUBSET SnapIds : S = proc[p].todo \ {s}
    BY <1>1, Zenon
  <1> DEFINE w == [proc[p] EXCEPT !.todo = S, !.s = s, !.pc = x]
  <1>3. w \in Process
    BY <1>1, Zenon DEF Process
  <1>4. w.pc = x /\ w.todo = S /\ w.s = s
    BY <1>1, Zenon DEF Process
  <1>5. proc' = [proc EXCEPT ![p] = w]
    BY <1>1, <1>2, Zenon
  <1> HIDE DEF w
  <1>6. proc' \in [Procs -> Process] /\ proc'[p] = w /\ \A q \in Procs \ {p} : proc'[q] = proc[q]
    BY <1>1, <1>3, <1>5
  <1> QED BY <1>2, <1>4, <1>6, Zenon

LEMMA Skipped ==
    ASSUME Shape, NEW p \in Procs, NEW s \in SnapIds, proc' = [proc EXCEPT ![p].todo = @ \ {s}]
    PROVE  /\ proc' \in [Procs -> Process]
           /\ proc'[p].pc = proc[p].pc /\ proc'[p].todo = proc[p].todo \ {s} /\ proc'[p].s = proc[p].s
           /\ \A q \in Procs \ {p} : proc'[q] = proc[q]
  <1>1. proc \in [Procs -> Process] /\ proc[p] \in Process /\ proc[p].todo \in SUBSET SnapIds
    BY Zenon DEF Shape, Process
  <1>2. PICK S \in SUBSET SnapIds : S = proc[p].todo \ {s}
    BY <1>1, Zenon
  <1> DEFINE w == [proc[p] EXCEPT !.todo = S]
  <1>3. w \in Process
    BY <1>1, Zenon DEF Process
  <1>4. w.pc = proc[p].pc /\ w.todo = S /\ w.s = proc[p].s
    BY <1>1, Zenon DEF Process
  <1>5. proc' = [proc EXCEPT ![p] = w]
    BY <1>1, <1>2, Zenon
  <1> HIDE DEF w
  <1> QED BY <1>1, <1>2, <1>3, <1>4, <1>5, Zenon

LEMMA SweepListKeeps ==
    ASSUME Sane, IInv, NEW p \in Procs, SweepList(p)
    PROVE  Preserves(p)
  <1>0. PICK S \in SUBSET SnapIds : S = {s \in SnapIds : tmp[s] # "absent"}
    BY Zenon
  <1>1. UNCHANGED disk /\ Lists(p, "sweep", S)
    BY <1>0, Zenon DEF Lists, SweepList, files, window, disk
  <1>2. \A s \in S : row'[s].st # "none"
    BY <1>0, <1>1, Zenon DEF disk, IInv, RowSound
  <1>3. "sweep" \in Pcs
    BY Zenon DEF Pcs, Clearing
  <1>4. /\ proc' \in [Procs -> Process] /\ proc'[p].pc = "sweep" /\ proc'[p].todo = S
        /\ \A q \in Procs \ {p} : proc'[q] = proc[q]
    BY <1>0, <1>1, <1>3, Listed, Zenon DEF IInv
  <1>5. ProcSound(p)'
    BY <1>2, <1>4, Zenon DEF ProcSound, Maker, Reader, Cleaner, Building, Reading, Clearing
  <1> QED BY <1>1, <1>4, <1>5, Walked, Zenon

LEMMA SweepAskKeeps ==
    ASSUME Sane, IInv, NEW p \in Procs, SweepAsk(p)
    PROVE  Preserves(p)
  <1>1. UNCHANGED disk /\ proc[p].pc = "sweep" /\ proc[p].todo \subseteq SnapIds
        /\ \A r \in proc[p].todo : row[r].st # "none"
    BY Zenon DEF SweepAsk, files, window, disk, IInv, ProcSound, Cleaner, Clearing, Shape, Process
  <1>2. CASE Goto(p, "scan")
    <2>1. "scan" \in Pcs
      BY Zenon DEF Pcs, Clearing
    <2>2. proc' \in [Procs -> Process] /\ proc'[p].pc = "scan" /\ \A q \in Procs \ {p} : proc'[q] = proc[q]
      BY <1>2, <2>1, Moved, Zenon DEF IInv
    <2>3. ProcSound(p)'
      BY <2>2, Zenon DEF ProcSound, Maker, Reader, Cleaner, Building, Reading, Clearing
    <2> QED BY <1>1, <2>2, <2>3, Walked, Zenon
  <1>3. ASSUME NEW s \in proc[p].todo,
               proc' = [proc EXCEPT ![p].todo = @ \ {s}, ![p].s = s,
                               ![p].pc = IF NamedByRow(s) THEN "sweep" ELSE "sweepTree"]
        PROVE  Preserves(p)
    <2>1. PICK x \in {"sweep", "sweepTree"} : x = IF NamedByRow(s) THEN "sweep" ELSE "sweepTree"
      BY Zenon
    <2>2. s \in SnapIds /\ row[s] \in Row /\ x \in Pcs
      BY <1>1, Zenon DEF IInv, Shape, Pcs, Clearing
    <2>3. proc' = [proc EXCEPT ![p].todo = @ \ {s}, ![p].s = s, ![p].pc = x]
      BY <1>3, <2>1, Zenon
    <2>4. /\ proc' \in [Procs -> Process]
          /\ proc'[p].pc = x /\ proc'[p].todo = proc[p].todo \ {s} /\ proc'[p].s = s
          /\ \A q \in Procs \ {p} : proc'[q] = proc[q]
      BY <2>2, <2>3, Picked, Zenon DEF IInv
    <2>5. row' = row
      BY <1>1, Zenon DEF disk
    <2>6. x = "sweepTree" => row[s].st \in {"deleted", "dead"}
      BY <1>1, <2>1, Zenon DEF NamedByRow
    <2>7. ProcSound(p)'
      BY <1>1, <2>1, <2>2, <2>4, <2>5, <2>6, Zenon DEF ProcSound, Maker, Reader, Cleaner, Building, Reading, Clearing
    <2> QED BY <1>1, <2>4, <2>7, Walked, Zenon
  <1> QED BY <1>2, <1>3, Zenon DEF SweepAsk

LEMMA ReconcileScanKeeps ==
    ASSUME Sane, IInv, NEW p \in Procs, ReconcileScan(p)
    PROVE  Preserves(p)
  <1>0. PICK S \in SUBSET SnapIds : S = {s \in SnapIds : row[s].st = "active" /\ dir[s] \in {"absent", "stump"}}
    BY Zenon
  <1>1. UNCHANGED disk /\ Lists(p, "reconcile", S)
    BY <1>0, Zenon DEF Lists, ReconcileScan, files, window, disk
  <1>2. \A s \in S : Rootless(s)
    BY <1>0, Zenon DEF IInv, RowSound, Kept
  <1>3. \A s \in S : Rootless(s)'
    BY <1>1, <1>2, Zenon DEF disk, Rootless
  <1>4. "reconcile" \in Pcs
    BY Zenon DEF Pcs, Clearing
  <1>5. /\ proc' \in [Procs -> Process] /\ proc'[p].pc = "reconcile" /\ proc'[p].todo = S
        /\ \A q \in Procs \ {p} : proc'[q] = proc[q]
    BY <1>0, <1>1, <1>4, Listed, Zenon DEF IInv
  <1>6. ProcSound(p)'
    BY <1>3, <1>5, Zenon DEF ProcSound, Maker, Reader, Cleaner, Building, Reading, Clearing
  <1> QED BY <1>1, <1>5, <1>6, Walked, Zenon
LEMMA ReadAccessKeeps ==
    ASSUME Sane, IInv, NEW p \in Procs, ReadAccess(p)
    PROVE  Preserves(p)
  <1>1. PICK x \in {"bare", "flock"} : x = IF gate[proc[p].s] THEN "bare" ELSE "flock"
    BY Zenon
  <1>2. UNCHANGED disk /\ proc[p].pc = "access" /\ Goto(p, x) /\ x \in Pcs
    BY <1>1, Zenon DEF ReadAccess, files, window, disk, Pcs, Reading
  <1>3. /\ proc' \in [Procs -> Process] /\ proc'[p].pc = x /\ proc'[p].s = proc[p].s
        /\ \A q \in Procs \ {p} : proc'[q] = proc[q]
    BY <1>2, Moved, Zenon DEF IInv
  <1>4. proc[p].s \in SnapIds /\ row'[proc[p].s].st \in Made
    BY <1>2, Zenon DEF IInv, ProcSound, Reader, Reading, disk
  <1>5. ProcSound(p)'
    BY <1>1, <1>3, <1>4, Zenon DEF ProcSound, Maker, Reader, Cleaner, Building, Reading, Clearing
  <1> QED BY <1>2, <1>3, <1>5, Walked, Zenon

LEMMA ReadDoneKeeps ==
    ASSUME Sane, IInv, NEW p \in Procs, ReadDone(p)
    PROVE  Preserves(p)
  <1>1. UNCHANGED disk /\ proc[p].pc = "inside" /\ Goto(p, "shut") /\ "shut" \in Pcs
    BY Zenon DEF ReadDone, files, disk, Pcs, Reading
  <1>2. /\ proc' \in [Procs -> Process] /\ proc'[p].pc = "shut" /\ proc'[p].s = proc[p].s
        /\ \A q \in Procs \ {p} : proc'[q] = proc[q]
    BY <1>1, Moved, Zenon DEF IInv
  <1>3. proc[p].s \in SnapIds /\ row'[proc[p].s].st \in Made /\ lock'[proc[p].s] = p
    BY <1>1, Zenon DEF IInv, ProcSound, Reader, Reading, disk
  <1>4. ProcSound(p)'
    BY <1>2, <1>3, Zenon DEF ProcSound, Maker, Reader, Cleaner, Building, Reading, Clearing
  <1> QED BY <1>1, <1>2, <1>4, Walked, Zenon

-----------------------------------------------------------------------------
(* Making a snapshot. *)

\* What a process in the middle of it knows.
LEMMA Owns ==
    ASSUME Sane, IInv, NEW p \in Procs, proc[p].pc \in Building
    PROVE  /\ proc[p].s \in SnapIds /\ row[proc[p].s].own = p /\ row[proc[p].s].st = "creating"
           /\ proc[p].hl \in SUBSET Groups /\ row[proc[p].s] \in Row /\ p # None
  BY DEF IInv, ProcSound, Maker, Shape, Process, Sane

\* Steps that change at most the tree and the manifest of the snapshot being made.
LEMMA MakesTree ==
    ASSUME Sane, IInv, NEW p \in Procs, NEW s \in SnapIds, row[s].own = p, row[s].st = "creating",
           UNCHANGED row, UNCHANGED lock, UNCHANGED died, UNCHANGED lost,
           \A r \in SnapIds \ {s} : tmp'[r] = tmp[r] /\ dir'[r] = dir[r] /\ man'[r] = man[r] /\ gate'[r] = gate[r],
           gate'[s] => gate[s]
    PROVE  \A r \in SnapIds : RowSound(r)' /\ Calm(r, p)
  <1> SUFFICES ASSUME NEW r \in SnapIds PROVE RowSound(r)' /\ Calm(r, p)
    BY Zenon
  <1>1. CASE r = s
    <2>1. row[r].st \notin Made /\ row[r].own \notin {None}
      BY <1>1, Zenon DEF Made, Sane
    <2>2. RowSound(r)'
      BY <1>1, Zenon DEF IInv, RowSound, Kept
    <2>3. Calm(r, p)
      BY <1>1, <2>1, Zenon DEF Calm, Orphan, Rootless
    <2> QED BY <2>2, <2>3, Zenon
  <1>2. CASE r # s
    <2>1. tmp'[r] = tmp[r] /\ dir'[r] = dir[r] /\ man'[r] = man[r] /\ gate'[r] = gate[r]
      BY <1>2, Zenon
    <2>2. (Orphan(r)' <=> Orphan(r)) /\ (Rootless(r)' <=> Rootless(r)) /\ (Kept(r)' <=> Kept(r))
      BY <2>1, Zenon DEF Orphan, Rootless, Kept
    <2>3. RowSound(r)'
      BY <2>1, <2>2, Zenon DEF IInv, RowSound
    <2>4. Calm(r, p)
      BY <2>1, <2>2, Zenon DEF Calm
    <2> QED BY <2>3, <2>4
  <1> QED BY <1>1, <1>2, Zenon

LEMMA CreateTmpKeeps ==
    ASSUME Sane, IInv, NEW p \in Procs, CreateTmp(p)
    PROVE  Preserves(p)
  <1>1. PICK s \in SnapIds : s = proc[p].s /\ row[s].own = p /\ row[s].st = "creating"
    BY Owns, Zenon DEF CreateTmp, Building
  <1>2. /\ tmp' = [tmp EXCEPT ![s] = "part"] /\ Goto(p, "clone") /\ "clone" \in Pcs
        /\ UNCHANGED <<row, dir, man, gate, lock, died, lost>>
    BY <1>1, Zenon DEF CreateTmp, window, Pcs, Building
  <1>3. /\ proc' \in [Procs -> Process] /\ proc'[p].pc = "clone" /\ proc'[p].s = s
        /\ \A q \in Procs \ {p} : proc'[q] = proc[q]
    BY <1>1, <1>2, Moved, Zenon DEF IInv
  <1>4. tmp'[s] = "part" /\ \A r \in SnapIds \ {s} : tmp'[r] = tmp[r]
    BY <1>2, Zenon DEF IInv, Shape
  <1>5. \A r \in SnapIds : RowSound(r)' /\ Calm(r, p)
    BY <1>1, <1>2, <1>4, MakesTree, Zenon
  <1>6. Shape'
    BY <1>2, <1>3, Zenon DEF IInv, Shape
  <1>7. ProcSound(p)'
    BY <1>1, <1>2, <1>3, <1>4, Zenon DEF ProcSound, Maker, Reader, Cleaner, Building, Reading, Clearing
  <1> QED BY <1>3, <1>5, <1>6, <1>7, Zenon DEF Preserves

\* Giving up: the row is still owned and nothing else is promised.
LEMMA Undoing ==
    ASSUME Sane, IInv, NEW p \in Procs, proc[p].pc \in Building, NEW x \in {"undo", "unrow"}, Goto(p, x), UNCHANGED row
    PROVE  /\ proc' \in [Procs -> Process] /\ ProcSound(p)'
           /\ \A q \in Procs \ {p} : proc'[q] = proc[q]
  <1>1. x \in Pcs
    BY Zenon DEF Pcs, Building
  <1>2. /\ proc' \in [Procs -> Process] /\ proc'[p].pc = x /\ proc'[p].s = proc[p].s
        /\ \A q \in Procs \ {p} : proc'[q] = proc[q]
    BY <1>1, Moved, Zenon DEF IInv
  <1>3. ProcSound(p)'
    BY <1>2, Owns, Zenon DEF ProcSound, Maker, Reader, Cleaner, Building, Reading, Clearing
  <1> QED BY <1>2, <1>3, Zenon

LEMMA CreateCloneKeeps ==
    ASSUME Sane, IInv, NEW p \in Procs, CreateClone(p)
    PROVE  Preserves(p)
  <1>1. UNCHANGED disk /\ proc[p].pc = "clone" /\ proc[p].pc \in Building /\ row' = row
    BY Zenon DEF CreateClone, files, window, disk, Building
  <1>2. CASE Goto(p, "undo")
    BY <1>1, <1>2, Undoing, Walked, Zenon
  <1>3. ASSUME NEW kept \in DropGroups(proc[p].hl),
               proc' = [proc EXCEPT ![p].pc = "manifest", ![p].hl = kept]
        PROVE  Preserves(p)
    <2>1. proc \in [Procs -> Process] /\ proc[p] \in Process /\ kept \in SUBSET Groups
      BY <1>1, <1>3, Owns, Zenon DEF DropGroups, IInv, Shape
    <2> DEFINE w == [proc[p] EXCEPT !.pc = "manifest", !.hl = kept]
    <2>2. w \in Process
      BY <2>1, Zenon DEF Process, Pcs, Building
    <2>3. w.pc = "manifest" /\ w.s = proc[p].s /\ w.hl = kept
      BY <2>1, Zenon DEF Process
    <2>4. proc' = [proc EXCEPT ![p] = w]
      BY <1>3, <2>1, Zenon
    <2> HIDE DEF w
    <2>5. proc' \in [Procs -> Process] /\ proc'[p] = w /\ \A q \in Procs \ {p} : proc'[q] = proc[q]
      BY <2>1, <2>2, <2>4, Zenon
    <2>6. tmp'[proc[p].s] = "part"
      BY <1>1, Zenon DEF IInv, ProcSound, Maker, disk
    <2>7. ProcSound(p)'
      BY <1>1, <2>3, <2>5, <2>6, Owns DEF ProcSound, Maker, Reader, Cleaner, Building, Reading, Clearing
    <2> QED BY <1>1, <2>5, <2>7, Walked, Zenon
  <1> QED BY <1>2, <1>3, Zenon DEF CreateClone
LEMMA CreateManifestKeeps ==
    ASSUME Sane, IInv, NEW p \in Procs, CreateManifest(p)
    PROVE  Preserves(p)
  <1>1. PICK s \in SnapIds : s = proc[p].s /\ row[s].own = p /\ row[s].st = "creating"
    BY Owns, Zenon DEF CreateManifest, Building
  <1>2. /\ proc[p].pc = "manifest" /\ proc[p].pc \in Building /\ proc[p].hl \in SUBSET Groups
        /\ UNCHANGED <<row, dir, lock, died, lost>>
    BY Owns, Zenon DEF CreateManifest, Building
  <1>3. CASE Goto(p, "undo") /\ UNCHANGED <<man, tmp, gate>>
    BY <1>2, <1>3, Undoing, Walked, Zenon DEF disk
  <1>4. CASE /\ man' = [man EXCEPT ![s] = proc[p].hl]
             /\ tmp' = [tmp EXCEPT ![s] = IF @ = "part" THEN "whole" ELSE @]
             /\ gate' = [gate EXCEPT ![s] = FALSE]
             /\ Goto(p, "rename")
    <2>1. tmp[s] = "part"
      BY <1>1, <1>2, Zenon DEF IInv, ProcSound, Maker
    <2>2. "rename" \in Pcs
      BY Zenon DEF Pcs, Building
    <2>3. /\ proc' \in [Procs -> Process] /\ proc'[p].pc = "rename" /\ proc'[p].s = s /\ proc'[p].hl = proc[p].hl
          /\ \A q \in Procs \ {p} : proc'[q] = proc[q]
      BY <1>1, <1>4, <2>2, Moved, Zenon DEF IInv
    <2>4. tmp'[s] = "whole" /\ man'[s] = proc[p].hl /\ ~gate'[s]
      BY <1>4, <2>1, Zenon DEF IInv, Shape
    <2>5. \A r \in SnapIds \ {s} : tmp'[r] = tmp[r] /\ dir'[r] = dir[r] /\ man'[r] = man[r] /\ gate'[r] = gate[r]
      BY <1>2, <1>4, Zenon DEF IInv, Shape
    <2>6. \A r \in SnapIds : RowSound(r)' /\ Calm(r, p)
      BY <1>1, <1>2, <2>4, <2>5, MakesTree, Zenon
    <2>7. Shape'
      <3>1. man' \in [SnapIds -> SUBSET Groups] /\ gate' \in [SnapIds -> BOOLEAN]
        BY <1>2, <1>4, Zenon DEF IInv, Shape
      <3>2. tmp' = [tmp EXCEPT ![s] = "whole"]
        BY <1>4, <2>1, Zenon DEF IInv, Shape
      <3> QED BY <1>2, <2>3, <3>1, <3>2, Zenon DEF IInv, Shape
    <2>8. ProcSound(p)'
      BY <1>1, <1>2, <2>3, <2>4, Zenon DEF ProcSound, Maker, Reader, Cleaner, Building, Reading, Clearing
    <2> QED BY <2>3, <2>6, <2>7, <2>8, Zenon DEF Preserves
  <1> QED BY <1>1, <1>3, <1>4, Zenon DEF CreateManifest

LEMMA CreateRenameKeeps ==
    ASSUME Sane, IInv, NEW p \in Procs, CreateRename(p)
    PROVE  Preserves(p)
  <1>1. PICK s \in SnapIds : s = proc[p].s /\ row[s].own = p /\ row[s].st = "creating"
    BY Owns, Zenon DEF CreateRename, Building
  <1>2. /\ proc[p].pc = "rename" /\ proc[p].pc \in Building
        /\ UNCHANGED <<row, man, gate, lock, died, lost>>
    BY Zenon DEF CreateRename, Building, window
  <1>3. CASE Goto(p, "undo") /\ UNCHANGED <<dir, tmp>>
    BY <1>2, <1>3, Undoing, Walked, Zenon DEF disk
  <1>4. CASE /\ dir' = [dir EXCEPT ![s] = tmp[s]] /\ tmp' = [tmp EXCEPT ![s] = "absent"]
             /\ Goto(p, "activate")
    <2>1. tmp[s] = "whole" /\ man[s] = proc[p].hl
      BY <1>1, <1>2, Zenon DEF IInv, ProcSound, Maker
    <2>2. "activate" \in Pcs
      BY Zenon DEF Pcs, Building
    <2>3. /\ proc' \in [Procs -> Process] /\ proc'[p].pc = "activate" /\ proc'[p].s = s /\ proc'[p].hl = proc[p].hl
          /\ \A q \in Procs \ {p} : proc'[q] = proc[q]
      BY <1>1, <1>4, <2>2, Moved, Zenon DEF IInv
    <2>4. dir'[s] = "whole"
      BY <1>4, <2>1, Zenon DEF IInv, Shape
    <2>5. \A r \in SnapIds \ {s} : tmp'[r] = tmp[r] /\ dir'[r] = dir[r] /\ man'[r] = man[r] /\ gate'[r] = gate[r]
      BY <1>2, <1>4, Zenon DEF IInv, Shape
    <2>6. \A r \in SnapIds : RowSound(r)' /\ Calm(r, p)
      BY <1>1, <1>2, <2>4, <2>5, MakesTree, Zenon
    <2>7. Shape'
      BY <1>2, <1>4, <2>1, <2>3, Zenon DEF IInv, Shape
    <2>8. ProcSound(p)'
      BY <1>1, <1>2, <2>1, <2>3, <2>4, Zenon DEF ProcSound, Maker, Reader, Cleaner, Building, Reading, Clearing
    <2> QED BY <2>3, <2>6, <2>7, <2>8, Zenon DEF Preserves
  <1> QED BY <1>1, <1>3, <1>4, Zenon DEF CreateRename

LEMMA CreateUndoKeeps ==
    ASSUME Sane, IInv, NEW p \in Procs, CreateUndo(p)
    PROVE  Preserves(p)
  <1>1. PICK s \in SnapIds : s = proc[p].s /\ row[s].own = p /\ row[s].st = "creating"
    BY Owns, Zenon DEF CreateUndo, Building
  <1>2. /\ proc[p].pc \in Building /\ Goto(p, "unrow") /\ UNCHANGED <<row, dir, man, gate, lock, died, lost>>
        /\ tmp' = [tmp EXCEPT ![s] = "absent"] \/ tmp' = tmp
    BY <1>1, Zenon DEF CreateUndo, Building, window
  <1>3. /\ proc' \in [Procs -> Process] /\ ProcSound(p)'
        /\ \A q \in Procs \ {p} : proc'[q] = proc[q]
    BY <1>2, Undoing, Zenon
  <1>4. \A r \in SnapIds \ {s} : tmp'[r] = tmp[r]
    BY <1>2, Zenon DEF IInv, Shape
  <1>5. \A r \in SnapIds : RowSound(r)' /\ Calm(r, p)
    BY <1>1, <1>2, <1>4, MakesTree, Zenon
  <1>6. Shape'
    BY <1>2, <1>3, Zenon DEF IInv, Shape
  <1> QED BY <1>3, <1>5, <1>6, Zenon DEF Preserves

\* The command ends and has changed at most the row it owns.
LEMMA Ends ==
    ASSUME Sane, IInv, NEW p \in Procs, NEW rows \in [SnapIds -> Row], Return(p, rows),
           UNCHANGED <<tmp, dir, man, gate, lock, died, lost>>,
           \A s \in SnapIds : rows[s] # row[s] =>
             /\ row[s].own = p /\ row[s].st = "creating" /\ rows[s].own = p
             /\ \/ rows[s].st = "deleted"
                \/ rows[s].st = "active" /\ dir[s] = "whole" /\ Cardinality(man[s]) = rows[s].hl
    PROVE  Preserves(p)
  <1>1. /\ proc' \in [Procs -> Process] /\ proc'[p].pc = "idle"
        /\ \A q \in Procs \ {p} : proc'[q] = proc[q]
        /\ row' \in [SnapIds -> Row]
        /\ \A s \in SnapIds : /\ row'[s].st = rows[s].st /\ row'[s].hl = rows[s].hl
                              /\ row'[s].own = IF rows[s].own = p THEN None ELSE rows[s].own
                              /\ rows[s].own # p => row'[s] = rows[s]
    BY Returned, Zenon DEF IInv
  <1>2. Shape'
    BY <1>1, Zenon DEF IInv, Shape
  <1>3. ASSUME NEW s \in SnapIds PROVE RowSound(s)' /\ Calm(s, p)
    <2>1. p # None
      BY Zenon DEF Sane
    <2>2. CASE rows[s] = row[s]
      <3>1. row'[s].st = row[s].st /\ row'[s].hl = row[s].hl /\ (row[s].own = None => row'[s].own = None)
            /\ (row[s].own # p => row'[s] = row[s])
        BY <1>1, <2>1, <2>2
      <3>2. (Orphan(s) => Orphan(s)') /\ (Rootless(s)' <=> Rootless(s)) /\ (Kept(s) => Kept(s)')
        BY <3>1, Zenon DEF Orphan, Rootless, Kept
      <3>3. RowSound(s)'
        BY <3>1, <3>2, Zenon DEF IInv, RowSound
      <3>4. Calm(s, p)
        BY <3>1, <3>2, Zenon DEF Calm
      <3> QED BY <3>3, <3>4, Zenon
    <2>3. CASE rows[s] # row[s]
      <3>1. row[s].own = p /\ row[s].st = "creating" /\ row'[s].st = rows[s].st /\ row'[s].hl = rows[s].hl
            /\ row'[s].own = None
            /\ \/ rows[s].st = "deleted"
               \/ rows[s].st = "active" /\ dir[s] = "whole" /\ Cardinality(man[s]) = rows[s].hl
        BY <1>1, <2>3, Zenon
      <3>2. Kept(s)'
        BY <3>1, Zenon DEF Kept
      <3>3. RowSound(s)'
        BY <3>1, <3>2, Zenon DEF IInv, RowSound
      <3>4. Calm(s, p)
        BY <2>1, <3>1, Zenon DEF Calm, Orphan, Rootless, Made
      <3> QED BY <3>3, <3>4
    <2> QED BY <2>2, <2>3, Zenon
  <1>4. ProcSound(p)'
    BY <1>1, Zenon DEF ProcSound, Maker, Reader, Cleaner, Building, Reading, Clearing
  <1> QED BY <1>1, <1>2, <1>3, <1>4, Zenon DEF Preserves
LEMMA CreateActiveKeeps ==
    ASSUME Sane, IInv, NEW p \in Procs, CreateActive(p)
    PROVE  Preserves(p)
  <1>1. PICK s \in SnapIds : s = proc[p].s /\ row[s].own = p /\ row[s].st = "creating" /\ row[s] \in Row
    BY Owns, Zenon DEF CreateActive, Building
  <1>2. PICK n \in Nat : n = Cardinality(proc[p].hl)
    <2>1. proc[p].hl \in SUBSET Groups
      BY Zenon DEF IInv, Shape, Process
    <2> QED BY <2>1, FS_Subset, FS_CardinalityType, Zenon DEF Sane
  <1>3. dir[s] = "whole" /\ Cardinality(man[s]) = n
    BY <1>1, <1>2, Zenon DEF CreateActive, IInv, ProcSound, Maker, Building
  <1>4. UNCHANGED <<tmp, dir, man, gate, lock, died, lost>> /\ row \in [SnapIds -> Row]
    BY Zenon DEF CreateActive, files, window, IInv, Shape
  <1>5. CASE Return(p, row)
    BY <1>4, <1>5, Ends, Zenon
  <1>6. CASE Return(p, [row EXCEPT ![s].st = "active", ![s].hl = n])
    <2> DEFINE w == [row[s] EXCEPT !.st = "active", !.hl = n]
    <2> DEFINE rows == [row EXCEPT ![s] = w]
    <2>1. w \in Row
      BY <1>1, Zenon DEF Row, States
    <2>2. w.st = "active" /\ w.hl = n /\ w.own = p
      BY <1>1, Zenon DEF Row
    <2>3. Return(p, rows)
      BY <1>4, <1>6, Zenon
    <2> HIDE DEF w
    <2>4. rows \in [SnapIds -> Row] /\ rows[s] = w /\ \A r \in SnapIds \ {s} : rows[r] = row[r]
      BY <1>4, <2>1, Zenon
    <2> HIDE DEF rows
    <2>5. \A r \in SnapIds : rows[r] # row[r] => r = s
      BY <2>4, Zenon
    <2> QED BY <1>1, <1>3, <1>4, <2>2, <2>3, <2>4, <2>5, Ends
  <1> QED BY <1>1, <1>2, <1>5, <1>6, Zenon DEF CreateActive

LEMMA CreateUnrowKeeps ==
    ASSUME Sane, IInv, NEW p \in Procs, CreateUnrow(p)
    PROVE  Preserves(p)
  <1>1. PICK s \in SnapIds : s = proc[p].s /\ row[s].own = p /\ row[s].st = "creating"
    BY Owns, Zenon DEF CreateUnrow, Building
  <1>2. UNCHANGED <<tmp, dir, man, gate, lock, died, lost>> /\ Return(p, [row EXCEPT ![s].st = "deleted"])
    BY <1>1, Zenon DEF CreateUnrow, files, window
  <1>3. "deleted" \in States
    BY Zenon DEF States
  <1> DEFINE rows == [row EXCEPT ![s].st = "deleted"]
  <1>4. rows \in [SnapIds -> Row] /\ rows[s].st = "deleted" /\ rows[s].own = p
        /\ \A r \in SnapIds \ {s} : rows[r] = row[r]
    BY <1>1, <1>3, Restated DEF IInv
  <1> HIDE DEF rows
  <1>5. \A r \in SnapIds : rows[r] # row[r] => r = s
    BY <1>4, Zenon
  <1>6. Return(p, rows)
    BY <1>2, Zenon DEF rows
  <1> QED BY <1>1, <1>2, <1>4, <1>5, <1>6, Ends

LEMMA BareDoneKeeps ==
    ASSUME Sane, IInv, NEW p \in Procs, BareDone(p)
    PROVE  Preserves(p)
  <1>1. UNCHANGED <<tmp, dir, man, gate, lock, died, lost>> /\ Return(p, row) /\ row \in [SnapIds -> Row]
    BY Zenon DEF BareDone, files, window, IInv, Shape
  <1> QED BY <1>1, Ends, Zenon

LEMMA CreateRowKeeps ==
    ASSUME Sane, IInv, NEW p \in Procs, CreateRow(p)
    PROVE  Preserves(p)
  <1>1. PICK s \in SnapIds :
          /\ row[s].st = "none"
          /\ row' = [row EXCEPT ![s] = [st |-> "creating", own |-> p, hl |-> 0]]
          /\ proc' = [proc EXCEPT ![p] = [Idle EXCEPT !.pc = "mkdir", !.s = s, !.op = "create", !.hl = Groups]]
    BY Zenon DEF CreateRow
  <1>2. UNCHANGED <<tmp, dir, man, gate, lock, died, lost>> /\ row \in [SnapIds -> Row] /\ proc \in [Procs -> Process]
    BY Zenon DEF CreateRow, files, window, IInv, Shape
  <1> DEFINE w == [Idle EXCEPT !.pc = "mkdir", !.s = s, !.op = "create", !.hl = Groups]
  <1>3. w \in Process /\ w.pc = "mkdir" /\ w.s = s
    BY Zenon DEF Idle, Process, Pcs, Building
  <1> HIDE DEF w
  <1>4. proc' \in [Procs -> Process] /\ proc'[p] = w /\ \A q \in Procs \ {p} : proc'[q] = proc[q]
    BY <1>1, <1>2, <1>3, Zenon DEF w
  <1> DEFINE e == [st |-> "creating", own |-> p, hl |-> 0]
  <1>5. e \in Row /\ e.st = "creating" /\ e.own = p
    BY Zenon DEF Row, States
  <1> HIDE DEF e
  <1>6. row' \in [SnapIds -> Row] /\ row'[s] = e /\ \A r \in SnapIds \ {s} : row'[r] = row[r]
    BY <1>1, <1>2, <1>5, Zenon DEF e
  <1>7. Shape'
    BY <1>2, <1>4, <1>6, Zenon DEF IInv, Shape
  <1>8. ProcSound(p)'
    BY <1>3, <1>4, <1>5, <1>6, Zenon DEF ProcSound, Maker, Reader, Cleaner, Building, Reading, Clearing
  <1>9. ASSUME NEW r \in SnapIds PROVE RowSound(r)' /\ Calm(r, p)
    <2>1. CASE r = s
      <3>1. tmp[s] = "absent" /\ row'[s].st = "creating"
        BY <1>1, <1>5, <1>6, Zenon DEF IInv, RowSound, Shape
      <3>2. RowSound(r)'
        BY <1>2, <2>1, <3>1, Zenon DEF IInv, RowSound, Kept
      <3>3. row[s].own = None
        BY <1>1, Zenon DEF IInv, RowSound
      <3>4. Calm(r, p)
        BY <1>1, <1>2, <2>1, <3>3, Zenon DEF Calm, Orphan, Rootless, Made
      <3> QED BY <3>2, <3>4, Zenon
    <2>2. CASE r # s
      <3>1. row'[r] = row[r]
        BY <1>6, <2>2, Zenon
      <3>2. (Orphan(r)' <=> Orphan(r)) /\ (Rootless(r)' <=> Rootless(r)) /\ (Kept(r)' <=> Kept(r))
        BY <1>2, <3>1, Zenon DEF Orphan, Rootless, Kept
      <3>3. RowSound(r)'
        BY <1>2, <3>1, <3>2, Zenon DEF IInv, RowSound
      <3>4. Calm(r, p)
        BY <1>2, <3>1, <3>2, Zenon DEF Calm
      <3> QED BY <3>3, <3>4
    <2> QED BY <2>1, <2>2, Zenon
  <1> QED BY <1>4, <1>7, <1>8, <1>9, Zenon DEF Preserves
-----------------------------------------------------------------------------
(* The window. *)

\* A step that changes at most the gate and the flock of one snapshot.
LEMMA Gated ==
    ASSUME Sane, IInv, NEW p, NEW s \in SnapIds, UNCHANGED <<row, tmp, dir, man, died, lost>>,
           \A r \in SnapIds \ {s} : lock'[r] = lock[r] /\ gate'[r] = gate[r],
           lock[s] \in {p, None}, gate'[s] => lock'[s] # None \/ s \in died
    PROVE  \A r \in SnapIds : RowSound(r)' /\ Calm(r, p)
  <1> SUFFICES ASSUME NEW r \in SnapIds PROVE RowSound(r)' /\ Calm(r, p)
    BY Zenon
  <1>1. (Orphan(r)' <=> Orphan(r)) /\ (Rootless(r)' <=> Rootless(r)) /\ (Kept(r)' <=> Kept(r))
    BY Zenon DEF Orphan, Rootless, Kept
  <1>2. RowSound(r)'
    BY <1>1, Zenon DEF IInv, RowSound
  <1>3. Calm(r, p)
    BY <1>1, Zenon DEF Calm
  <1> QED BY <1>2, <1>3, Zenon

LEMMA GateOpenKeeps ==
    ASSUME Sane, IInv, NEW p \in Procs, GateOpen(p)
    PROVE  Preserves(p)
  <1>1. proc[p].pc = "flock" /\ UNCHANGED <<tmp, dir, man, died, lost>>
    BY Zenon DEF GateOpen, files
  <1>2. PICK s \in SnapIds : s = proc[p].s /\ row[s].st \in Made
    BY <1>1, Zenon DEF IInv, ProcSound, Reader, Reading
  <1>3. CASE dir[s] = "absent"
    <2>1. Return(p, row) /\ UNCHANGED <<gate, lock>> /\ row \in [SnapIds -> Row]
      BY <1>2, <1>3, Zenon DEF GateOpen, IInv, Shape
    <2> QED BY <1>1, <2>1, Ends, Zenon
  <1>4. CASE dir[s] # "absent"
    <2>1. PICK x \in {"unlock", "inside"} : x = IF dir[s] = "stump" THEN "unlock" ELSE "inside"
      BY Zenon
    <2>2. /\ lock[s] = None /\ lock' = [lock EXCEPT ![s] = p] /\ gate' = [gate EXCEPT ![s] = dir[s] # "stump"]
          /\ Goto(p, x) /\ row' = row /\ x \in Pcs
      BY <1>2, <1>4, <2>1, Zenon DEF GateOpen, Pcs, Reading
    <2>3. /\ proc' \in [Procs -> Process] /\ proc'[p].pc = x /\ proc'[p].s = s
          /\ \A q \in Procs \ {p} : proc'[q] = proc[q]
      BY <1>2, <2>2, Moved, Zenon DEF IInv
    <2>4. /\ lock'[s] = p /\ (gate'[s] <=> dir[s] # "stump")
          /\ \A r \in SnapIds \ {s} : lock'[r] = lock[r] /\ gate'[r] = gate[r]
      BY <2>2, Zenon DEF IInv, Shape
    <2>5. \A r \in SnapIds : RowSound(r)' /\ Calm(r, p)
      BY <1>1, <2>2, <2>4, Gated, Zenon DEF Sane
    <2>6. Shape'
      BY <1>1, <2>2, <2>3, Zenon DEF IInv, Shape
    <2>7. ProcSound(p)'
      BY <1>1, <1>2, <2>1, <2>2, <2>3, <2>4, Zenon DEF ProcSound, Maker, Reader, Cleaner, Building, Reading, Clearing
    <2> QED BY <2>3, <2>5, <2>6, <2>7, Zenon DEF Preserves
  <1> QED BY <1>3, <1>4, Zenon

LEMMA GateShutKeeps ==
    ASSUME Sane, IInv, NEW p \in Procs, GateShut(p)
    PROVE  Preserves(p)
  <1>1. proc[p].pc = "shut" /\ UNCHANGED <<row, tmp, dir, man, lock, died, lost>> /\ Goto(p, "unlock")
        /\ "unlock" \in Pcs
    BY Zenon DEF GateShut, files, Pcs, Reading
  <1>2. PICK s \in SnapIds : s = proc[p].s /\ row[s].st \in Made /\ lock[s] = p
    BY <1>1, Zenon DEF IInv, ProcSound, Reader, Reading
  <1>3. gate' = [gate EXCEPT ![s] = FALSE]
    BY <1>2, Zenon DEF GateShut
  <1>4. /\ proc' \in [Procs -> Process] /\ proc'[p].pc = "unlock" /\ proc'[p].s = s
        /\ \A q \in Procs \ {p} : proc'[q] = proc[q]
    BY <1>1, <1>2, Moved, Zenon DEF IInv
  <1>5. ~gate'[s] /\ \A r \in SnapIds \ {s} : gate'[r] = gate[r]
    BY <1>3, Zenon DEF IInv, Shape
  <1>6. \A r \in SnapIds : RowSound(r)' /\ Calm(r, p)
    BY <1>1, <1>2, <1>5, Gated, Zenon
  <1>7. Shape'
    BY <1>1, <1>3, <1>4, Zenon DEF IInv, Shape
  <1>8. ProcSound(p)'
    BY <1>1, <1>2, <1>4, <1>5, Zenon DEF ProcSound, Maker, Reader, Cleaner, Building, Reading, Clearing
  <1> QED BY <1>4, <1>6, <1>7, <1>8, Zenon DEF Preserves

LEMMA GateUnlockKeeps ==
    ASSUME Sane, IInv, NEW p \in Procs, GateUnlock(p)
    PROVE  Preserves(p)
  <1>1. proc[p].pc = "unlock" /\ UNCHANGED <<tmp, dir, man, gate, died, lost>> /\ Return(p, row)
    BY Zenon DEF GateUnlock, files
  <1>2. PICK s \in SnapIds : s = proc[p].s /\ lock[s] = p /\ ~gate[s]
    BY <1>1, Zenon DEF IInv, ProcSound, Reader, Reading
  <1>3. lock' = [lock EXCEPT ![s] = None]
    BY <1>2, Zenon DEF GateUnlock, IInv, Shape
  <1>4. lock'[s] = None /\ (\A r \in SnapIds \ {s} : lock'[r] = lock[r]) /\ lock' \in [SnapIds -> Procs \cup {None}]
    BY <1>3, Zenon DEF IInv, Shape
  <1>5. /\ proc' \in [Procs -> Process] /\ proc'[p].pc = "idle"
        /\ \A q \in Procs \ {p} : proc'[q] = proc[q]
        /\ row' \in [SnapIds -> Row]
        /\ \A r \in SnapIds : /\ row'[r].st = row[r].st /\ row'[r].hl = row[r].hl
                              /\ row[r].own # p => row'[r] = row[r]
    <2>1. Shape /\ row \in [SnapIds -> Row] /\ Return(p, row)
      BY <1>1, Zenon DEF IInv, Shape
    <2>2. /\ proc' \in [Procs -> Process] /\ proc'[p].pc = "idle"
          /\ \A q \in Procs \ {p} : proc'[q] = proc[q]
          /\ row' \in [SnapIds -> Row]
          /\ \A r \in SnapIds : /\ row'[r].st = row[r].st /\ row'[r].hl = row[r].hl
                                /\ row'[r].own = IF row[r].own = p THEN None ELSE row[r].own
                                /\ row[r].own # p => row'[r] = row[r]
      BY <2>1, Returned, Zenon
    <2> QED BY <2>2, Zenon
  <1>6. Shape'
    BY <1>1, <1>4, <1>5, Zenon DEF IInv, Shape
  <1>7. ASSUME NEW r \in SnapIds PROVE RowSound(r)' /\ Calm(r, p)
    <2>1. p # None /\ row'[r].st = row[r].st /\ row'[r].hl = row[r].hl /\ (row[r].own # p => row'[r] = row[r])
      BY <1>5, Zenon DEF Sane
    <2>2. (Orphan(r) => Orphan(r)') /\ (Rootless(r)' <=> Rootless(r)) /\ (Kept(r) => Kept(r)')
      BY <1>1, <2>1, Zenon DEF Orphan, Rootless, Kept
    <2>3. (row[r].own = None => row'[r].own = None) /\ (gate'[r] => lock'[r] # None \/ r \in died')
      BY <1>1, <1>2, <1>4, <2>1, Zenon DEF IInv, RowSound
    <2>4. RowSound(r)'
      BY <1>1, <2>1, <2>2, <2>3, Zenon DEF IInv, RowSound
    <2>5. Calm(r, p)
      BY <1>1, <1>2, <1>4, <2>1, <2>2, Zenon DEF Calm
    <2> QED BY <2>4, <2>5
  <1>8. ProcSound(p)'
    BY <1>5, Zenon DEF ProcSound, Maker, Reader, Cleaner, Building, Reading, Clearing
  <1> QED BY <1>5, <1>6, <1>7, <1>8, Zenon DEF Preserves

\* A death drops the flock and leaves the window as it is.
LEMMA DieKeeps ==
    ASSUME Sane, IInv, NEW p \in Procs, Die(p)
    PROVE  Preserves(p)
  <1>1. /\ UNCHANGED <<tmp, dir, man, gate, lost>> /\ Return(p, row)
        /\ lock' = [s \in SnapIds |-> IF lock[s] = p THEN None ELSE lock[s]]
        /\ died' = died \cup {s \in SnapIds : lock[s] = p}
    BY Zenon DEF Die, files
  <1>2. /\ lock' \in [SnapIds -> Procs \cup {None}] /\ died' \in SUBSET SnapIds
        /\ \A r \in SnapIds : (lock[r] # p => lock'[r] = lock[r]) /\ (lock[r] = p => r \in died')
        /\ died \subseteq died'
    BY <1>1, Zenon DEF IInv, Shape
  <1>3. /\ proc' \in [Procs -> Process] /\ proc'[p].pc = "idle"
        /\ \A q \in Procs \ {p} : proc'[q] = proc[q]
        /\ row' \in [SnapIds -> Row]
        /\ \A r \in SnapIds : /\ row'[r].st = row[r].st /\ row'[r].hl = row[r].hl
                              /\ row[r].own # p => row'[r] = row[r]
    <2>1. row \in [SnapIds -> Row]
      BY Zenon DEF IInv, Shape
    <2>2. Return(p, row)
      BY <1>1, Zenon
    <2>3. Shape
      BY Zenon DEF IInv
    <2> QED BY <2>1, <2>2, <2>3, Returned
  <1>4. Shape'
    BY <1>1, <1>2, <1>3, Zenon DEF IInv, Shape
  <1>5. ASSUME NEW r \in SnapIds PROVE RowSound(r)' /\ Calm(r, p)
    <2>1. p # None /\ row'[r].st = row[r].st /\ row'[r].hl = row[r].hl /\ (row[r].own # p => row'[r] = row[r])
      BY <1>3, Zenon DEF Sane
    <2>2. (Orphan(r) => Orphan(r)') /\ (Rootless(r)' <=> Rootless(r)) /\ (Kept(r) => Kept(r)')
      BY <1>1, <2>1, Zenon DEF Orphan, Rootless, Kept
    <2>3. (row[r].own = None => row'[r].own = None) /\ (gate'[r] => lock'[r] # None \/ r \in died')
      BY <1>1, <1>2, <2>1, Zenon DEF IInv, RowSound
    <2>4. RowSound(r)'
      BY <1>1, <2>1, <2>2, <2>3, Zenon DEF IInv, RowSound
    <2>5. Calm(r, p)
      BY <1>1, <1>2, <2>1, <2>2, Zenon DEF Calm
    <2> QED BY <2>4, <2>5, Zenon
  <1>6. ProcSound(p)'
    BY <1>3, Zenon DEF ProcSound, Maker, Reader, Cleaner, Building, Reading, Clearing
  <1> QED BY <1>3, <1>4, <1>5, <1>6, Zenon DEF Preserves
-----------------------------------------------------------------------------
(* The collector. *)

\* A collector removes what has no owner and was never ACTIVE,
LEMMA Clears ==
    ASSUME Sane, IInv, NEW p \in Procs, NEW s \in SnapIds, Orphan(s),
           UNCHANGED <<row, man, gate, lock, died, lost>>,
           \A r \in SnapIds \ {s} : tmp'[r] = tmp[r] /\ dir'[r] = dir[r],
           dir'[s] # "whole" \/ dir'[s] = dir[s]
    PROVE  \A r \in SnapIds : RowSound(r)' /\ Calm(r, p)
  <1> SUFFICES ASSUME NEW r \in SnapIds PROVE RowSound(r)' /\ Calm(r, p)
    BY Zenon
  <1>1. CASE r = s
    <2>1. row[r].st \in {"creating", "deleted"} /\ row[r].own = None
      BY <1>1, Zenon DEF Orphan
    <2>2. RowSound(r)'
      BY <1>1, <2>1, Zenon DEF IInv, RowSound, Kept
    <2>3. Calm(r, p)
      BY <2>1, Zenon DEF Calm, Orphan, Rootless, Made
    <2> QED BY <2>2, <2>3, Zenon
  <1>2. CASE r # s
    <2>1. tmp'[r] = tmp[r] /\ dir'[r] = dir[r]
      BY <1>2, Zenon
    <2>2. (Orphan(r)' <=> Orphan(r)) /\ (Rootless(r)' <=> Rootless(r)) /\ (Kept(r)' <=> Kept(r))
      BY <2>1, Zenon DEF Orphan, Rootless, Kept
    <2>3. RowSound(r)' /\ Calm(r, p)
      BY <2>1, <2>2, Zenon DEF IInv, RowSound, Calm
    <2> QED BY <2>3, Zenon
  <1> QED BY <1>1, <1>2, Zenon

Picks(p, s, x) == proc' = [proc EXCEPT ![p].todo = @ \ {s}, ![p].s = s, ![p].pc = x]
Skips(p, s) == proc' = [proc EXCEPT ![p].todo = @ \ {s}]

LEMMA GcCreatingKeeps ==
    ASSUME Sane, IInv, NEW p \in Procs, GcCreating(p)
    PROVE  Preserves(p)
  <1>1. /\ proc[p].pc = "creating" /\ UNCHANGED <<row, man, gate, lock, died, lost>>
        /\ proc[p].todo \subseteq SnapIds /\ \A r \in proc[p].todo : Orphan(r)
    BY Zenon DEF GcCreating, window, IInv, ProcSound, Cleaner, Clearing, Shape, Process
  <1>2. CASE Goto(p, "list") /\ UNCHANGED <<tmp, dir>>
    <2>1. "list" \in Pcs
      BY Zenon DEF Pcs, Clearing
    <2>2. proc' \in [Procs -> Process] /\ proc'[p].pc = "list" /\ \A q \in Procs \ {p} : proc'[q] = proc[q]
      BY <1>2, <2>1, Moved, Zenon DEF IInv
    <2>3. ProcSound(p)'
      BY <2>2, Zenon DEF ProcSound, Maker, Reader, Cleaner, Building, Reading, Clearing
    <2> QED BY <1>1, <1>2, <2>2, <2>3, Walked, Zenon DEF disk
  <1>3. ASSUME NEW s \in proc[p].todo, tmp' = [tmp EXCEPT ![s] = "absent"], dir' = [dir EXCEPT ![s] = "absent"],
               Picks(p, s, "creatingRow")
        PROVE  Preserves(p)
    <2>1. s \in SnapIds /\ "creatingRow" \in Pcs /\ Orphan(s)
      BY <1>1, Zenon DEF Pcs, Clearing
    <2>2. /\ proc' \in [Procs -> Process]
          /\ proc'[p].pc = "creatingRow" /\ proc'[p].todo = proc[p].todo \ {s} /\ proc'[p].s = s
          /\ \A q \in Procs \ {p} : proc'[q] = proc[q]
      BY <1>3, <2>1, Picked, Zenon DEF IInv, Picks
    <2>3. dir'[s] = "absent" /\ \A r \in SnapIds \ {s} : tmp'[r] = tmp[r] /\ dir'[r] = dir[r]
      BY <1>3, <2>1, Zenon DEF IInv, Shape
    <2>4. \A r \in SnapIds : RowSound(r)' /\ Calm(r, p)
      BY <1>1, <2>1, <2>3, Clears, Zenon
    <2>5. Shape'
      BY <1>1, <1>3, <2>2, Zenon DEF IInv, Shape
    <2>6. Orphan(s)' /\ \A r \in proc[p].todo \ {s} : Orphan(r)'
      BY <1>1, <2>1, Zenon DEF Orphan
    <2>7. ProcSound(p)'
      BY <2>1, <2>2, <2>6, Zenon DEF ProcSound, Maker, Reader, Cleaner, Building, Reading, Clearing
    <2> QED BY <2>2, <2>4, <2>5, <2>7, Zenon DEF Preserves
  <1>4. ASSUME NEW s \in proc[p].todo, Skips(p, s), UNCHANGED tmp,
               dir' = [dir EXCEPT ![s] = IF @ = "whole" THEN "part" ELSE @]
        PROVE  Preserves(p)
    <2>1. s \in SnapIds /\ Orphan(s)
      BY <1>1, Zenon
    <2>2. /\ proc' \in [Procs -> Process]
          /\ proc'[p].pc = "creating" /\ proc'[p].todo = proc[p].todo \ {s}
          /\ \A q \in Procs \ {p} : proc'[q] = proc[q]
      BY <1>1, <1>4, <2>1, Skipped, Zenon DEF IInv, Skips
    <2>3. PICK x \in {"absent", "part", "stump"} : dir' = [dir EXCEPT ![s] = x]
      <3>1. PICK x \in {"absent", "part", "stump"} : x = IF dir[s] = "whole" THEN "part" ELSE dir[s]
        BY <2>1, Zenon DEF IInv, Shape
      <3> QED BY <1>4, <2>1, <3>1, Zenon DEF IInv, Shape
    <2>4. dir'[s] = x /\ \A r \in SnapIds \ {s} : tmp'[r] = tmp[r] /\ dir'[r] = dir[r]
      BY <1>4, <2>1, <2>3, Zenon DEF IInv, Shape
    <2>5. \A r \in SnapIds : RowSound(r)' /\ Calm(r, p)
      BY <1>1, <2>1, <2>4, Clears, Zenon
    <2>6. Shape'
      BY <1>1, <1>4, <2>2, <2>3 DEF IInv, Shape
    <2>7. \A r \in proc[p].todo \ {s} : Orphan(r)'
      BY <1>1, Zenon DEF Orphan
    <2>8. ProcSound(p)'
      BY <2>2, <2>7, Zenon DEF ProcSound, Maker, Reader, Cleaner, Building, Reading, Clearing
    <2> QED BY <2>2, <2>5, <2>6, <2>8, Zenon DEF Preserves
  <1> QED BY <1>2, <1>3, <1>4, Zenon DEF GcCreating, Picks, Skips

\* A row whose state moves on.
LEMMA Advances ==
    ASSUME Sane, IInv, NEW p, NEW s \in SnapIds, NEW x \in {"deleted", "dead"},
           row' = [row EXCEPT ![s].st = x], UNCHANGED <<tmp, dir, man, gate, lock, died, lost>>,
           x = "deleted" => Orphan(s), x = "dead" => row[s].st = "active"
    PROVE  /\ row' \in [SnapIds -> Row]
           /\ \A r \in SnapIds : RowSound(r)' /\ Calm(r, p)
           /\ row'[s].own = row[s].own /\ row'[s].st = x /\ \A r \in SnapIds \ {s} : row'[r] = row[r]
  <1>1. x \in States
    BY Zenon DEF States
  <1>2. row' \in [SnapIds -> Row] /\ row'[s].st = x /\ row'[s].own = row[s].own /\ row'[s].hl = row[s].hl
        /\ \A r \in SnapIds \ {s} : row'[r] = row[r]
    BY <1>1, Restated DEF IInv
  <1>3. ASSUME NEW r \in SnapIds PROVE RowSound(r)' /\ Calm(r, p)
    <2>1. CASE r = s
      <3>1. RowSound(r)'
        BY <1>2, <2>1, Zenon DEF IInv, RowSound, Kept, Orphan
      <3>2. (Orphan(r) => Orphan(r)') /\ (Rootless(r) => Rootless(r)')
        BY <1>2, <2>1, Zenon DEF Orphan, Rootless, Made
      <3>3. row[r].st \in {"creating", "deleted", "active"} /\ (row[r].st \in Made => row'[r].st \in Made)
            /\ row'[r].st # "none" /\ (row[r].st = "deleted" => row'[r].st = "deleted")
        BY <1>2, <2>1, Zenon DEF Orphan, Made
      <3>4. Calm(r, p)
        BY <3>2, <3>3, <2>1, Zenon DEF Calm, Orphan, IInv, RowSound
      <3> QED BY <3>1, <3>4, Zenon
    <2>2. CASE r # s
      <3>1. row'[r] = row[r]
        BY <1>2, <2>2, Zenon
      <3>2. (Orphan(r)' <=> Orphan(r)) /\ (Rootless(r)' <=> Rootless(r)) /\ (Kept(r)' <=> Kept(r))
        BY <3>1, Zenon DEF Orphan, Rootless, Kept
      <3>3. RowSound(r)' /\ Calm(r, p)
        BY <3>1, <3>2, Zenon DEF IInv, RowSound, Calm
      <3> QED BY <3>3, Zenon
    <2> QED BY <2>1, <2>2, Zenon
  <1> QED BY <1>2, <1>3, Zenon
LEMMA GcCreatingRowKeeps ==
    ASSUME Sane, IInv, NEW p \in Procs, GcCreatingRow(p)
    PROVE  Preserves(p)
  <1>1. /\ proc[p].pc = "creatingRow" /\ UNCHANGED <<tmp, dir, man, gate, lock, died, lost>> /\ Goto(p, "creating")
        /\ proc[p].s \in SnapIds /\ Orphan(proc[p].s) /\ proc[p].todo \subseteq SnapIds
        /\ \A r \in proc[p].todo : Orphan(r)
    BY Zenon DEF GcCreatingRow, files, window, IInv, ProcSound, Cleaner, Clearing, Shape, Process
  <1>2. PICK s \in SnapIds : s = proc[p].s
    BY <1>1, Zenon
  <1>3. "creating" \in Pcs
    BY Zenon DEF Pcs, Clearing
  <1>4. /\ proc' \in [Procs -> Process] /\ proc'[p].pc = "creating" /\ proc'[p].todo = proc[p].todo
        /\ \A q \in Procs \ {p} : proc'[q] = proc[q]
    BY <1>1, <1>3, Moved, Zenon DEF IInv
  <1>5. /\ row' \in [SnapIds -> Row]
        /\ \A r \in SnapIds : RowSound(r)' /\ Calm(r, p)
    <2>1. CASE row[s].st = "creating"
      <3>1. row' = [row EXCEPT ![s].st = "deleted"]
        BY <1>2, <2>1, Zenon DEF GcCreatingRow
      <3> QED BY <1>1, <1>2, <3>1, Advances, Zenon
    <2>2. CASE row[s].st # "creating"
      <3>1. row' = row
        BY <1>2, <2>2, Zenon DEF GcCreatingRow
      <3> QED BY <1>1, <3>1, SameRows, Zenon DEF disk, IInv, Shape
    <2> QED BY <2>1, <2>2, Zenon
  <1>6. Shape'
    BY <1>1, <1>4, <1>5, Zenon DEF IInv, Shape
  <1>7. \A r \in proc[p].todo : Orphan(r)'
    BY <1>1, <1>5, Zenon DEF Calm
  <1>8. ProcSound(p)'
    BY <1>4, <1>7, Zenon DEF ProcSound, Maker, Reader, Cleaner, Building, Reading, Clearing
  <1> QED BY <1>4, <1>5, <1>6, <1>8, Zenon DEF Preserves

\* a temporary no row names,
LEMMA SweepTreeKeeps ==
    ASSUME Sane, IInv, NEW p \in Procs, SweepTree(p)
    PROVE  Preserves(p)
  <1>1. /\ proc[p].pc = "sweepTree" /\ UNCHANGED <<row, dir, man, gate, lock, died, lost>> /\ Goto(p, "sweep")
        /\ proc[p].s \in SnapIds /\ row[proc[p].s].st \in {"deleted", "dead"}
        /\ \A r \in proc[p].todo : row[r].st # "none"
    BY Zenon DEF SweepTree, window, IInv, ProcSound, Cleaner, Clearing
  <1>2. PICK s \in SnapIds : s = proc[p].s
    BY <1>1, Zenon
  <1>3. "sweep" \in Pcs
    BY Zenon DEF Pcs, Clearing
  <1>4. /\ proc' \in [Procs -> Process] /\ proc'[p].pc = "sweep" /\ proc'[p].todo = proc[p].todo
        /\ \A q \in Procs \ {p} : proc'[q] = proc[q]
    BY <1>1, <1>3, Moved, Zenon DEF IInv
  <1>5. tmp' = [tmp EXCEPT ![s] = "absent"] \/ tmp' = tmp
    BY <1>2, Zenon DEF SweepTree
  <1>6. \A r \in SnapIds \ {s} : tmp'[r] = tmp[r]
    BY <1>5, Zenon DEF IInv, Shape
  <1>7. Shape'
    BY <1>1, <1>4, <1>5, Zenon DEF IInv, Shape
  <1>8. ASSUME NEW r \in SnapIds PROVE RowSound(r)' /\ Calm(r, p)
    <2>1. (Orphan(r)' <=> Orphan(r)) /\ (Rootless(r)' <=> Rootless(r)) /\ (Kept(r)' <=> Kept(r))
      BY <1>1, Zenon DEF Orphan, Rootless, Kept
    <2>2. r = s => row[r].st # "none" /\ row[r].own = None
      BY <1>1, <1>2, Zenon DEF IInv, RowSound
    <2>3. RowSound(r)'
      BY <1>1, <1>6, <2>1, <2>2, Zenon DEF IInv, RowSound
    <2>4. Calm(r, p)
      BY <1>1, <1>6, <2>1, <2>2, Zenon DEF Calm
    <2> QED BY <2>3, <2>4
  <1>9. ProcSound(p)'
    BY <1>1, <1>4, Zenon DEF ProcSound, Maker, Reader, Cleaner, Building, Reading, Clearing
  <1> QED BY <1>4, <1>7, <1>8, <1>9, Zenon DEF Preserves

\* and what is left of a snapshot whose root was lost.
LEMMA ReconcileTreeKeeps ==
    ASSUME Sane, IInv, NEW p \in Procs, ReconcileTree(p)
    PROVE  Preserves(p)
  <1>1. /\ proc[p].pc = "reconcile" /\ UNCHANGED <<tmp, man, gate, lock, died, lost>>
        /\ proc[p].todo \subseteq SnapIds /\ \A r \in proc[p].todo : Rootless(r)
    BY Zenon DEF ReconcileTree, window, IInv, ProcSound, Cleaner, Clearing, Shape, Process
  <1>2. CASE Return(p, row) /\ UNCHANGED dir
    <2>1. row \in [SnapIds -> Row]
      BY DEF IInv, Shape
    <2> QED BY <1>1, <1>2, <2>1, Ends, Zenon
  <1>3. ASSUME NEW s \in proc[p].todo, dir' = [dir EXCEPT ![s] = "absent"], row' = row, Picks(p, s, "reconcileRow")
        PROVE  Preserves(p)
    <2>1. s \in SnapIds /\ "reconcileRow" \in Pcs /\ Rootless(s)
      BY <1>1, Zenon DEF Pcs, Clearing
    <2>2. /\ proc' \in [Procs -> Process]
          /\ proc'[p].pc = "reconcileRow" /\ proc'[p].todo = proc[p].todo \ {s} /\ proc'[p].s = s
          /\ \A q \in Procs \ {p} : proc'[q] = proc[q]
      BY <1>3, <2>1, Picked, Zenon DEF IInv, Picks
    <2>3. dir'[s] = "absent" /\ \A r \in SnapIds \ {s} : dir'[r] = dir[r]
      BY <1>3, <2>1, Zenon DEF IInv, Shape
    <2>4. \A r \in SnapIds : Rootless(r) => Rootless(r)'
      BY <1>1, <1>3, <2>3, Zenon DEF Rootless
    <2>5. ASSUME NEW r \in SnapIds PROVE RowSound(r)' /\ Calm(r, p)
      <3>1. CASE r = s
        <4>1. Rootless(r)' /\ row[r].st \in Made /\ row[r].own = None /\ dir'[r] = "absent"
          BY <2>1, <2>3, <2>4, <3>1, Zenon DEF Rootless, Made, IInv, RowSound
        <4>2. RowSound(r)'
          BY <1>1, <1>3, <4>1, Zenon DEF IInv, RowSound, Kept
        <4>3. Calm(r, p)
          BY <1>1, <1>3, <4>1, Zenon DEF Calm, Orphan, Made
        <4> QED BY <4>2, <4>3, Zenon
      <3>2. CASE r # s
        <4>1. dir'[r] = dir[r]
          BY <2>3, <3>2, Zenon
        <4>2. (Orphan(r)' <=> Orphan(r)) /\ (Rootless(r)' <=> Rootless(r)) /\ (Kept(r)' <=> Kept(r))
          BY <1>1, <1>3, <4>1, Zenon DEF Orphan, Rootless, Kept
        <4>3. RowSound(r)' /\ Calm(r, p)
          BY <1>1, <1>3, <4>1, <4>2, Zenon DEF IInv, RowSound, Calm
        <4> QED BY <4>3, Zenon
      <3> QED BY <3>1, <3>2, Zenon
    <2>6. Shape'
      BY <1>1, <1>3, <2>2, Zenon DEF IInv, Shape
    <2>7. \A r \in proc[p].todo \ {s} : Rootless(r)'
      BY <1>1, <2>4, Zenon
    <2>8. ProcSound(p)'
      BY <2>1, <2>2, <2>7, Zenon DEF ProcSound, Maker, Reader, Cleaner, Building, Reading, Clearing
    <2> QED BY <2>2, <2>5, <2>6, <2>8, Zenon DEF Preserves
  <1>4. ASSUME NEW s \in proc[p].todo, Skips(p, s), UNCHANGED <<dir, row>>
        PROVE  Preserves(p)
    <2>1. s \in SnapIds
      BY <1>1, Zenon
    <2>2. /\ proc' \in [Procs -> Process]
          /\ proc'[p].pc = "reconcile" /\ proc'[p].todo = proc[p].todo \ {s}
          /\ \A q \in Procs \ {p} : proc'[q] = proc[q]
      BY <1>1, <1>4, <2>1, Skipped, Zenon DEF IInv, Skips
    <2>3. \A r \in proc[p].todo \ {s} : Rootless(r)'
      BY <1>1, <1>4, Zenon DEF Rootless
    <2>4. ProcSound(p)'
      BY <2>2, <2>3, Zenon DEF ProcSound, Maker, Reader, Cleaner, Building, Reading, Clearing
    <2>5. UNCHANGED disk
      BY <1>1, <1>4, Zenon DEF disk
    <2> QED BY <2>2, <2>4, <2>5, Walked, Zenon
  <1> QED BY <1>2, <1>3, <1>4, Zenon DEF ReconcileTree, Picks, Skips

LEMMA ReconcileRowKeeps ==
    ASSUME Sane, IInv, NEW p \in Procs, ReconcileRow(p)
    PROVE  Preserves(p)
  <1>1. /\ proc[p].pc = "reconcileRow" /\ UNCHANGED <<tmp, dir, man, gate, lock, died, lost>> /\ Goto(p, "reconcile")
        /\ proc[p].s \in SnapIds /\ proc[p].todo \subseteq SnapIds /\ \A r \in proc[p].todo : Rootless(r)
    BY Zenon DEF ReconcileRow, files, window, IInv, ProcSound, Cleaner, Clearing, Shape, Process
  <1>2. PICK s \in SnapIds : s = proc[p].s
    BY <1>1, Zenon
  <1>3. "reconcile" \in Pcs
    BY Zenon DEF Pcs, Clearing
  <1>4. /\ proc' \in [Procs -> Process] /\ proc'[p].pc = "reconcile" /\ proc'[p].todo = proc[p].todo
        /\ \A q \in Procs \ {p} : proc'[q] = proc[q]
    BY <1>1, <1>3, Moved, Zenon DEF IInv
  <1>5. /\ row' \in [SnapIds -> Row]
        /\ \A r \in SnapIds : RowSound(r)' /\ Calm(r, p)
    <2>1. CASE row[s].st = "active"
      <3>1. row' = [row EXCEPT ![s].st = "dead"]
        BY <1>2, <2>1, Zenon DEF ReconcileRow
      <3> QED BY <1>1, <1>2, <2>1, <3>1, Advances, Zenon
    <2>2. CASE row[s].st # "active"
      <3>1. row' = row
        BY <1>2, <2>2, Zenon DEF ReconcileRow
      <3> QED BY <1>1, <3>1, SameRows, Zenon DEF disk, IInv, Shape
    <2> QED BY <2>1, <2>2, Zenon
  <1>6. Shape'
    BY <1>1, <1>4, <1>5, Zenon DEF IInv, Shape
  <1>7. \A r \in proc[p].todo : Rootless(r)'
    BY <1>1, <1>5, Zenon DEF Calm
  <1>8. ProcSound(p)'
    BY <1>4, <1>7, Zenon DEF ProcSound, Maker, Reader, Cleaner, Building, Reading, Clearing
  <1> QED BY <1>4, <1>5, <1>6, <1>8, Zenon DEF Preserves
-----------------------------------------------------------------------------
(* Discards, and a root that is lost. *)

\* A step of nobody that touches one snapshot, which was made.
LEMMA Around ==
    ASSUME Sane, IInv, NEW s \in SnapIds, row[s].st \in Made, row' \in [SnapIds -> Row], row'[s].st \in Made,
           row'[s].own = row[s].own, row'[s].hl = row[s].hl, UNCHANGED <<tmp, man, lock, died, proc>>,
           dir' \in [SnapIds -> {"absent", "part", "whole", "stump"}], gate' \in [SnapIds -> BOOLEAN],
           lost' \in SUBSET SnapIds, lost \subseteq lost',
           \A r \in SnapIds \ {s} : row'[r] = row[r] /\ dir'[r] = dir[r] /\ gate'[r] = gate[r] /\ (r \in lost' <=> r \in lost),
           row[s].st = "dead" => row'[s].st = "dead",
           Kept(s)', Rootless(s) => Rootless(s)', gate'[s] => gate[s],
           dir'[s] = "whole" => dir[s] = "whole" /\ gate'[s] = gate[s]
    PROVE  Preserves(None)
  <1>1. Shape'
    BY Zenon DEF IInv, Shape
  <1>2. ASSUME NEW r \in SnapIds PROVE RowSound(r)' /\ Calm(r, None)
    <2>1. CASE r = s
      <3>1. row[r].own = None /\ row'[r].st # "none"
        BY <2>1, Zenon DEF IInv, RowSound, Made
      <3>2. RowSound(r)'
        BY <2>1, <3>1, Zenon DEF IInv, RowSound
      <3>3. Calm(r, None)
        BY <2>1, <3>1, Zenon DEF Calm, Orphan, Made
      <3> QED BY <3>2, <3>3, Zenon
    <2>2. CASE r # s
      <3>1. row'[r] = row[r] /\ dir'[r] = dir[r] /\ gate'[r] = gate[r] /\ (r \in lost' <=> r \in lost)
        BY <2>2, Zenon
      <3>2. (Orphan(r)' <=> Orphan(r)) /\ (Rootless(r)' <=> Rootless(r)) /\ (Kept(r)' <=> Kept(r))
        BY <3>1, Zenon DEF Orphan, Rootless, Kept
      <3>3. RowSound(r)' /\ Calm(r, None)
        BY <3>1, <3>2 DEF IInv, RowSound, Calm
      <3> QED BY <3>3, Zenon
    <2> QED BY <2>1, <2>2, Zenon
  <1> QED BY <1>1, <1>2, Zenon DEF Preserves, Sane

LEMMA DiscardMarkKeeps ==
    ASSUME Sane, IInv, NEW s \in SnapIds, DiscardMark(s)
    PROVE  Preserves(None)
  <1>1. PICK x \in {"dead", "trashing"} : x = IF dir[s] = "absent" THEN "dead" ELSE "trashing"
    BY Zenon
  <1>2. /\ row[s].st = "active" /\ row' = [row EXCEPT ![s].st = x]
        /\ UNCHANGED <<tmp, dir, man, gate, lock, died, lost, proc>>
    BY <1>1, Zenon DEF DiscardMark, files, window
  <1>3. x \in States
    BY Zenon DEF States
  <1>4. row' \in [SnapIds -> Row] /\ row'[s].st = x /\ row'[s].own = row[s].own /\ row'[s].hl = row[s].hl
        /\ \A r \in SnapIds \ {s} : row'[r] = row[r]
    BY <1>2, <1>3, Restated DEF IInv
  <1>5. Kept(s) /\ row[s].st \in Made /\ row'[s].st \in Made
    BY <1>2, <1>4, Zenon DEF IInv, RowSound, Made
  <1>6. Kept(s)' /\ (Rootless(s) => Rootless(s)')
    BY <1>2, <1>4, <1>5, Zenon DEF Kept, Rootless
  <1>7. dir \in [SnapIds -> {"absent", "part", "whole", "stump"}] /\ gate \in [SnapIds -> BOOLEAN] /\ lost \in SUBSET SnapIds
    BY Zenon DEF IInv, Shape
  <1> QED BY <1>2, <1>4, <1>5, <1>6, <1>7, Around, Zenon

LEMMA DiscardMoveKeeps ==
    ASSUME Sane, IInv, NEW s \in SnapIds, DiscardMove(s)
    PROVE  Preserves(None)
  <1>1. PICK x \in {"active", "trashed"} : x = IF dir[s] = "absent" THEN "active" ELSE "trashed"
    BY Zenon
  <1>2. /\ row[s].st = "trashing" /\ row' = [row EXCEPT ![s].st = x]
        /\ UNCHANGED <<tmp, man, gate, lock, died, lost, proc>>
        /\ \/ x = "active" /\ dir' = dir /\ dir[s] = "absent"
           \/ x = "trashed" /\ dir' = [dir EXCEPT ![s] = "absent"]
    BY <1>1, Zenon DEF DiscardMove, window
  <1>3. x \in States
    BY Zenon DEF States
  <1>4. row' \in [SnapIds -> Row] /\ row'[s].st = x /\ row'[s].own = row[s].own /\ row'[s].hl = row[s].hl
        /\ \A r \in SnapIds \ {s} : row'[r] = row[r]
    BY <1>2, <1>3, Restated DEF IInv
  <1>5. Kept(s) /\ row[s].st \in Made /\ row'[s].st \in Made
    BY <1>2, <1>4, Zenon DEF IInv, RowSound, Made
  <1>6. /\ dir' \in [SnapIds -> {"absent", "part", "whole", "stump"}] /\ gate \in [SnapIds -> BOOLEAN] /\ lost \in SUBSET SnapIds
        /\ dir'[s] = "absent" /\ \A r \in SnapIds \ {s} : dir'[r] = dir[r]
    BY <1>2, Zenon DEF IInv, Shape
  <1>7. Rootless(s) => Rootless(s)'
    BY <1>2, <1>5, <1>6, Zenon DEF Rootless
  <1>8. Kept(s)'
    BY <1>2, <1>4, <1>5, <1>6, <1>7, Zenon DEF Kept
  <1> QED BY <1>2, <1>4, <1>5, <1>6, <1>7, <1>8, Around

LEMMA RootLostKeeps ==
    ASSUME Sane, IInv, NEW s \in SnapIds, RootLost(s)
    PROVE  Preserves(None)
  <1>1. /\ row[s].st = "active" /\ dir' = [dir EXCEPT ![s] = "stump"] /\ gate' = [gate EXCEPT ![s] = FALSE]
        /\ lost' = lost \cup {s} /\ UNCHANGED <<row, tmp, man, lock, died, proc>>
    BY Zenon DEF RootLost
  <1>2. /\ dir' \in [SnapIds -> {"absent", "part", "whole", "stump"}] /\ gate' \in [SnapIds -> BOOLEAN]
        /\ lost' \in SUBSET SnapIds /\ lost \subseteq lost' /\ s \in lost'
        /\ dir'[s] = "stump" /\ ~gate'[s]
        /\ \A r \in SnapIds \ {s} : dir'[r] = dir[r] /\ gate'[r] = gate[r] /\ (r \in lost' <=> r \in lost)
    BY <1>1, Zenon DEF IInv, Shape
  <1>3. Kept(s) /\ row[s].st \in Made /\ row \in [SnapIds -> Row]
    BY <1>1, Zenon DEF IInv, RowSound, Made, Shape
  <1>4. Rootless(s)'
    BY <1>1, <1>2, <1>3, Zenon DEF Rootless
  <1>5. Kept(s)'
    BY <1>1, <1>3, <1>4, Zenon DEF Kept
  <1> QED BY <1>1, <1>2, <1>3, <1>4, <1>5, Around, Zenon

-----------------------------------------------------------------------------

LEMMA InitIInv == ASSUME Sane PROVE Init => IInv
  <1> SUFFICES ASSUME Init PROVE IInv
    BY Zenon
  <1>1. \A s \in SnapIds : row[s].st = "none" /\ row[s].own = None /\ tmp[s] = "absent" /\ ~gate[s]
    BY Zenon DEF Init
  <1>2. row \in [SnapIds -> Row]
    <2>1. [st |-> "none", own |-> None, hl |-> 0] \in Row
      BY Zenon DEF Row, States
    <2> QED BY <2>1, Zenon DEF Init
  <1>3. proc \in [Procs -> Process] /\ \A p \in Procs : proc[p].pc = "idle"
    BY IdleType, Zenon DEF Init
  <1>4. Shape
    BY <1>2, <1>3, Zenon DEF Init, Shape
  <1>5. \A s \in SnapIds : RowSound(s)
    BY <1>1, Zenon DEF RowSound, Kept
  <1>6. \A p \in Procs : ProcSound(p)
    BY <1>3, IdleSound, Zenon
  <1> QED BY <1>4, <1>5, <1>6, Zenon DEF IInv

LEMMA NextIInv == ASSUME Sane PROVE IInv /\ [Next]_vars => IInv'
  <1> SUFFICES ASSUME IInv, [Next]_vars PROVE IInv'
    BY Zenon
  <1>1. ASSUME NEW p \in Procs, CreateRow(p) \/ Collect(p) \/ Die(p) PROVE IInv'
    BY <1>1, CreateRowKeeps, CollectKeeps, DieKeeps, Suffices, Zenon
  <1>2. ASSUME NEW p \in Procs, Step(p) PROVE IInv'
    <2>1. CASE CreateTmp(p) \/ CreateClone(p) \/ CreateManifest(p) \/ CreateRename(p)
      BY <2>1, CreateTmpKeeps, CreateCloneKeeps, CreateManifestKeeps, CreateRenameKeeps, Suffices
    <2>2. CASE CreateActive(p) \/ CreateUndo(p) \/ CreateUnrow(p)
      BY <2>2, CreateActiveKeeps, CreateUndoKeeps, CreateUnrowKeeps, Suffices
    <2>3. CASE ReadAccess(p) \/ GateOpen(p) \/ ReadDone(p)
      BY <2>3, ReadAccessKeeps, GateOpenKeeps, ReadDoneKeeps, Suffices, Zenon
    <2>4. CASE GateShut(p) \/ GateUnlock(p) \/ BareDone(p)
      BY <2>4, GateShutKeeps, GateUnlockKeeps, BareDoneKeeps, Suffices, Zenon
    <2>5. CASE GcCreating(p) \/ GcCreatingRow(p) \/ SweepList(p)
      BY <2>5, GcCreatingKeeps, GcCreatingRowKeeps, SweepListKeeps, Suffices
    <2>6. CASE SweepAsk(p) \/ SweepTree(p) \/ ReconcileScan(p)
      BY <2>6, SweepAskKeeps, SweepTreeKeeps, ReconcileScanKeeps, Suffices
    <2>7. CASE ReconcileTree(p) \/ ReconcileRow(p)
      BY <2>7, ReconcileTreeKeeps, ReconcileRowKeeps, Suffices, Zenon
    <2> QED BY <1>2, <2>1, <2>2, <2>3, <2>4, <2>5, <2>6, <2>7 DEF Step
  <1>3. ASSUME NEW p \in Procs, NEW s \in SnapIds, ReadBegin(p, s) PROVE IInv'
    BY <1>3, ReadBeginKeeps, Suffices, Zenon
  <1>4. ASSUME NEW s \in SnapIds, DiscardMark(s) \/ DiscardMove(s) \/ RootLost(s) PROVE IInv'
    BY <1>4, DiscardMarkKeeps, DiscardMoveKeeps, RootLostKeeps, Suffices, Zenon
  <1>5. CASE UNCHANGED vars
    <2>1. UNCHANGED disk /\ proc' = proc
      BY <1>5, Zenon DEF vars, disk
    <2>2. proc \in [Procs -> Process]
      BY Zenon DEF IInv, Shape
    <2>3. Shape' /\ \A s \in SnapIds : RowSound(s)' /\ Calm(s, None)
      BY <2>1, <2>2, SameRows, SameShape, Zenon DEF IInv
    <2>4. Preserves(None)
      BY <2>1, <2>3, Zenon DEF Preserves, Sane
    <2> QED BY <2>4, Suffices, Zenon
  <1> QED BY <1>1, <1>2, <1>3, <1>4, <1>5, Zenon DEF Next

LEMMA Implied == ASSUME IInv PROVE SnapshotsSound
  <1>1. ActiveSound
    BY Zenon DEF IInv, RowSound, Kept, Rootless, ActiveSound
  <1>2. WindowHeld
    BY Zenon DEF IInv, RowSound, ProcSound, Reader, Reading, WindowHeld
  <1> QED BY <1>1, <1>2, Zenon DEF SnapshotsSound

\* wfs_snapshot_create, SnapGate and wfs_gc_ex beside each other, at any number of
\* processes, deaths and failing calls: an ACTIVE snapshot is whole, or its root was lost
\* from outside, and its manifest lists the groups its row counts; whoever is inside the
\* window of a whole snapshot finds its root open, and an open root has somebody inside
\* or was left so by a death.
THEOREM AlwaysSound == ASSUME Sane PROVE Spec => []SnapshotsSound
  <1>1. Init => IInv
    BY InitIInv, Zenon
  <1>2. IInv /\ [Next]_vars => IInv'
    BY NextIInv, Zenon
  <1>3. IInv => SnapshotsSound
    BY Implied, Zenon
  <1> QED BY <1>1, <1>2, <1>3, PTL DEF Spec
=============================================================================
