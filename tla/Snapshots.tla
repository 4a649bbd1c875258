------------------------------ MODULE Snapshots ------------------------------
(* Making a snapshot, reading one behind its gate, and the collector's passes
   over half-made, stray and vanished ones (core/src/world.cpp:
   wfs_snapshot_create, wfs_snapshot_verify, rm_tmp_in_store_dir, wfs_gc_ex;
   core/src/snapshot_access.cpp).

   A snapshot S<n> is built in S<n>.wfs-tmp and renamed.  Its root is mode
   0000; whoever reads it holds an exclusive flock on its manifest and opens
   the root for as long.  A process runs one command and may die at any step,
   which drops its flock and leaves its row without an owner.                *)
EXTENDS Naturals, FiniteSets

CONSTANTS
  Procs, MaxSnaps,
  Groups,       \* the hard-link groups of the source
  None,
  Ops,          \* the commands of this instance
  MaxFaults     \* bound: failing calls and deaths together

VARIABLES
  row,      \* rows of the table snapshots: state, owner, hl_groups
  tmp, dir, \* S<n>.wfs-tmp and S<n>: absent, part, whole; S<n> also: stump (its root is gone)
  man,      \* the groups the manifest lists
  gate,     \* is the root open?
  lock,     \* the flock on the manifest
  died,     \* the snapshots in whose window a process has died
  lost,     \* the snapshots whose root has vanished
  verdict,  \* what the last verify of a process answered
  proc, faults

vars == <<row, tmp, dir, man, gate, lock, died, lost, verdict, proc, faults>>
files == <<tmp, dir, man>>
window == <<gate, lock, died, lost, verdict>>

SnapIds == 1..MaxSnaps
Idle == [pc |-> "idle", s |-> None, op |-> "none", hl |-> {}, todo |-> {}, bad |-> FALSE]

Init ==
  /\ row = [s \in SnapIds |-> [st |-> "none", own |-> None, hl |-> 0]]
  /\ tmp = [s \in SnapIds |-> "absent"] /\ dir = [s \in SnapIds |-> "absent"]
  /\ man = [s \in SnapIds |-> {}]
  /\ gate = [s \in SnapIds |-> FALSE] /\ lock = [s \in SnapIds |-> None]
  /\ died = {} /\ lost = {} /\ verdict = [p \in Procs |-> None]
  /\ proc = [p \in Procs |-> Idle] /\ faults = 0

Goto(p, pc) == proc' = [proc EXCEPT ![p].pc = pc]
Fault == faults < MaxFaults /\ faults' = faults + 1
NoFault == UNCHANGED faults

\* The command ends and no longer owns its row.
Return(p, rows) ==
  /\ proc' = [proc EXCEPT ![p] = Idle]
  /\ row' = [s \in SnapIds |-> IF rows[s].own = p THEN [rows[s] EXCEPT !.own = None] ELSE rows[s]]

--------------------------------------------------------------------------
\* wfs_snapshot_create.

\* The source is checked and scanned for hard-link groups; the row comes first.
CreateRow(p) ==
  /\ proc[p].pc = "idle" /\ "create" \in Ops
  /\ \E s \in SnapIds :
       /\ row[s].st = "none" /\ \A r \in 1..(s - 1) : row[r].st # "none"
       /\ row' = [row EXCEPT ![s] = [st |-> "creating", own |-> p, hl |-> 0]]
       /\ proc' = [proc EXCEPT ![p] = [Idle EXCEPT !.pc = "mkdir", !.s = s, !.op = "create", !.hl = Groups]]
  /\ UNCHANGED <<files, window, faults>>

CreateTmp(p) ==
  /\ proc[p].pc = "mkdir"
  /\ tmp' = [tmp EXCEPT ![proc[p].s] = "part"]
  /\ Goto(p, "clone")
  /\ UNCHANGED <<row, dir, man, window, faults>>

\* hl_drop_broken after the replay, hl_drop_changed after git_import: a group
\* that changed under the clone is not one any more.
DropGroups(hl) == SUBSET hl

CreateClone(p) ==
  /\ proc[p].pc = "clone"
  /\ \/ \E kept \in DropGroups(proc[p].hl) :
          proc' = [proc EXCEPT ![p].pc = "manifest", ![p].hl = kept] /\ NoFault
     \/ Fault /\ Goto(p, "undo")
  /\ UNCHANGED <<row, files, window>>

\* The scan with its manifest, the groups' section, and the gate.
CreateManifest(p) ==
  LET s == proc[p].s
  IN /\ proc[p].pc = "manifest"
     /\ \/ /\ man' = [man EXCEPT ![s] = proc[p].hl]
           /\ tmp' = [tmp EXCEPT ![s] = IF @ = "part" THEN "whole" ELSE @]
           /\ gate' = [gate EXCEPT ![s] = FALSE]
           /\ Goto(p, "rename") /\ NoFault
        \/ Fault /\ Goto(p, "undo") /\ UNCHANGED <<man, tmp, gate>>
     /\ UNCHANGED <<row, dir, lock, died, lost, verdict>>

CreateRename(p) ==
  LET s == proc[p].s
  IN /\ proc[p].pc = "rename"
     /\ \/ /\ tmp[s] # "absent"
           /\ dir' = [dir EXCEPT ![s] = tmp[s]] /\ tmp' = [tmp EXCEPT ![s] = "absent"]
           /\ Goto(p, "activate") /\ NoFault
        \/ /\ IF tmp[s] = "absent" THEN NoFault ELSE Fault
           /\ Goto(p, "undo") /\ UNCHANGED <<dir, tmp>>
     /\ UNCHANGED <<row, man, window>>

\* (Mutant: the count of groups is the one the source was scanned with.)
CreateActiveEarly(p) ==
  /\ proc[p].pc = "activate"
  /\ Return(p, [row EXCEPT ![proc[p].s].st = "active", ![proc[p].s].hl = Cardinality(Groups)])
  /\ UNCHANGED <<files, window, faults>>

\* A commit that fails leaves the CREATING row and the tree to the collector.
CreateActive(p) ==
  /\ proc[p].pc = "activate"
  /\ \/ /\ Return(p, [row EXCEPT ![proc[p].s].st = "active",
                                 ![proc[p].s].hl = Cardinality(proc[p].hl)])
        /\ NoFault
     \/ Fault /\ Return(p, row)
  /\ UNCHANGED <<files, window>>

\* The temporary goes if it can; the row goes in any case.
CreateUndo(p) ==
  /\ proc[p].pc = "undo"
  /\ \/ tmp' = [tmp EXCEPT ![proc[p].s] = "absent"] /\ NoFault
     \/ Fault /\ UNCHANGED tmp
  /\ Goto(p, "unrow")
  /\ UNCHANGED <<row, dir, man, window>>

CreateUnrow(p) ==
  /\ proc[p].pc = "unrow"
  /\ Return(p, [row EXCEPT ![proc[p].s].st = "deleted"])
  /\ UNCHANGED <<files, window, faults>>

--------------------------------------------------------------------------
\* SnapGate and its users: a fork's or a fill's clone, verify, and diff.

\* The row is read; verify looks at the root's mode before it waits.
ReadBegin(p, s) ==
  /\ proc[p].pc = "idle" /\ row[s].st = "active"
  /\ \E op \in Ops \cap {"clone", "verify", "diff"} :
       proc' = [proc EXCEPT ![p] = [Idle EXCEPT !.s = s, !.op = op,
                  !.pc = IF op = "diff" THEN "access" ELSE "flock",
                  !.bad = op = "verify" /\ gate[s]]]
  /\ UNCHANGED <<row, files, window, faults>>

\* snapshot_open_for_read: a root that is traversable already is taken as it is.
ReadAccess(p) ==
  /\ proc[p].pc = "access"
  /\ Goto(p, IF gate[proc[p].s] THEN "bare" ELSE "flock")
  /\ UNCHANGED <<row, files, window, faults>>

\* (Mutant: the root is opened without the flock.)
GateOpenUnlocked(p) ==
  LET s == proc[p].s
  IN /\ proc[p].pc = "flock" /\ dir[s] # "absent"
     /\ gate' = [gate EXCEPT ![s] = TRUE] /\ Goto(p, "inside")
     /\ UNCHANGED <<lock, row, files, died, lost, verdict, faults>>

\* SnapGate::open, which waits for the flock.
GateOpen(p) ==
  LET s == proc[p].s
  IN /\ proc[p].pc = "flock"
     /\ IF dir[s] = "absent"
        THEN Return(p, row) /\ UNCHANGED <<gate, lock>>
        ELSE /\ lock[s] = None
             /\ lock' = [lock EXCEPT ![s] = p]
             /\ gate' = [gate EXCEPT ![s] = dir[s] # "stump"]
             /\ IF dir[s] = "stump" THEN Goto(p, "unlock") ELSE Goto(p, "inside")
             /\ UNCHANGED row
     /\ UNCHANGED <<files, died, lost, verdict, faults>>

\* wfs_snapshot_verify inside the gate: every line of the manifest, and the
\* groups against the row's count.
ReadDone(p) ==
  LET s == proc[p].s
      dirty == proc[p].bad \/ dir[s] # "whole" \/ Cardinality(man[s]) # row[s].hl
  IN /\ proc[p].pc = "inside"
     /\ verdict' = IF proc[p].op = "verify"
                   THEN [verdict EXCEPT ![p] = [s |-> s, dirty |-> dirty, mode |-> proc[p].bad]]
                   ELSE verdict
     /\ Goto(p, "shut")
     /\ UNCHANGED <<row, files, gate, lock, died, lost, faults>>

\* SnapGate::close: the mode, then the flock.
GateShut(p) ==
  /\ proc[p].pc = "shut"
  /\ gate' = [gate EXCEPT ![proc[p].s] = FALSE]
  /\ Goto(p, "unlock")
  /\ UNCHANGED <<row, files, lock, died, lost, verdict, faults>>

GateUnlock(p) ==
  /\ proc[p].pc = "unlock"
  /\ lock' = [lock EXCEPT ![proc[p].s] = IF @ = p THEN None ELSE @]
  /\ Return(p, row)
  /\ UNCHANGED <<files, gate, died, lost, verdict, faults>>

\* A reader without a window of its own is done.
BareDone(p) ==
  /\ proc[p].pc = "bare" /\ Return(p, row)
  /\ UNCHANGED <<files, window, faults>>

--------------------------------------------------------------------------
\* wfs_gc_ex: the CREATING pass, the sweep of row-less temporaries, and
\* --reconcile.

Collect(p) ==
  /\ proc[p].pc = "idle" /\ "gc" \in Ops
  /\ proc' = [proc EXCEPT ![p] = [Idle EXCEPT !.pc = "creating", !.op = "gc",
       !.todo = {s \in SnapIds : row[s].st = "creating" /\ row[s].own = None}]]
  /\ UNCHANGED <<row, files, window, faults>>

\* One row: both trees go, and then the row if both are gone.
GcCreating(p) ==
  /\ proc[p].pc = "creating"
  /\ \/ proc[p].todo = {} /\ Goto(p, "list") /\ UNCHANGED <<tmp, dir, faults>>
     \/ \E s \in proc[p].todo :
          \/ /\ tmp' = [tmp EXCEPT ![s] = "absent"] /\ dir' = [dir EXCEPT ![s] = "absent"]
             /\ proc' = [proc EXCEPT ![p].todo = @ \ {s}, ![p].s = s, ![p].pc = "creatingRow"]
             /\ NoFault
          \/ /\ Fault /\ proc' = [proc EXCEPT ![p].todo = @ \ {s}]
             /\ dir' = [dir EXCEPT ![s] = IF @ = "whole" THEN "part" ELSE @] /\ UNCHANGED tmp
  /\ UNCHANGED <<row, man, window>>

GcCreatingRow(p) ==
  LET s == proc[p].s
  IN /\ proc[p].pc = "creatingRow"
     /\ row' = IF row[s].st = "creating" THEN [row EXCEPT ![s].st = "deleted"] ELSE row
     /\ Goto(p, "creating")
     /\ UNCHANGED <<files, window, faults>>

\* rm_tmp_in_store_dir.
SweepList(p) ==
  /\ proc[p].pc = "list"
  /\ proc' = [proc EXCEPT ![p].pc = "sweep", ![p].todo = {s \in SnapIds : tmp[s] # "absent"}]
  /\ UNCHANGED <<row, files, window, faults>>

\* snap_tmp_named_by_row: any row but a DEAD one.
\* (Mutant: any row there ever was.)
NamedEver(s) == row[s].st # "none"

NamedByRow(s) == row[s].st \notin {"none", "deleted", "dead"}

SweepAsk(p) ==
  /\ proc[p].pc = "sweep"
  /\ \/ proc[p].todo = {} /\ Goto(p, "scan")
     \/ \E s \in proc[p].todo :
          proc' = [proc EXCEPT ![p].todo = @ \ {s}, ![p].s = s,
                               ![p].pc = IF NamedByRow(s) THEN "sweep" ELSE "sweepTree"]
  /\ UNCHANGED <<row, files, window, faults>>

SweepTree(p) ==
  /\ proc[p].pc = "sweepTree"
  /\ \/ tmp' = [tmp EXCEPT ![proc[p].s] = "absent"] /\ NoFault
     \/ Fault /\ UNCHANGED tmp
  /\ Goto(p, "sweep")
  /\ UNCHANGED <<row, dir, man, window>>

\* The ACTIVE rows whose root is proven gone.
ReconcileScan(p) ==
  /\ proc[p].pc = "scan"
  /\ proc' = [proc EXCEPT ![p].pc = "reconcile",
       ![p].todo = {s \in SnapIds : row[s].st = "active" /\ dir[s] \in {"absent", "stump"}}]
  /\ UNCHANGED <<row, files, window, faults>>

\* What is left of S<n> goes first; while it stays, so does the row.
ReconcileTree(p) ==
  /\ proc[p].pc = "reconcile"
  /\ \/ proc[p].todo = {} /\ Return(p, row) /\ UNCHANGED <<dir, faults>>
     \/ \E s \in proc[p].todo :
          /\ \/ /\ dir' = [dir EXCEPT ![s] = "absent"] /\ NoFault
                /\ proc' = [proc EXCEPT ![p].todo = @ \ {s}, ![p].s = s, ![p].pc = "reconcileRow"]
             \/ Fault /\ proc' = [proc EXCEPT ![p].todo = @ \ {s}] /\ UNCHANGED dir
          /\ UNCHANGED row
  /\ UNCHANGED <<tmp, man, window>>

ReconcileRow(p) ==
  LET s == proc[p].s
  IN /\ proc[p].pc = "reconcileRow"
     /\ row' = IF row[s].st = "active" THEN [row EXCEPT ![s].st = "dead"] ELSE row
     /\ Goto(p, "reconcile")
     /\ UNCHANGED <<files, window, faults>>

--------------------------------------------------------------------------
\* Around them: a discard (see Trash), a root that is lost, a death.

DiscardMark(s) ==
  /\ "discard" \in Ops /\ row[s].st = "active"
  /\ row' = [row EXCEPT ![s].st = IF dir[s] = "absent" THEN "dead" ELSE "trashing"]
  /\ UNCHANGED <<files, window, proc, faults>>
DiscardMove(s) ==
  /\ row[s].st = "trashing"
  /\ IF dir[s] = "absent" THEN row' = [row EXCEPT ![s].st = "active"] /\ UNCHANGED dir
     ELSE row' = [row EXCEPT ![s].st = "trashed"] /\ dir' = [dir EXCEPT ![s] = "absent"]
  /\ UNCHANGED <<tmp, man, window, proc, faults>>

RootLost(s) ==
  /\ row[s].st = "active" /\ dir[s] = "whole" /\ Fault
  /\ dir' = [dir EXCEPT ![s] = "stump"] /\ gate' = [gate EXCEPT ![s] = FALSE]
  /\ lost' = lost \cup {s}
  /\ UNCHANGED <<row, tmp, man, lock, died, verdict, proc>>

Die(p) ==
  /\ proc[p].pc # "idle" /\ Fault /\ Return(p, row)
  /\ lock' = [s \in SnapIds |-> IF lock[s] = p THEN None ELSE lock[s]]
  /\ died' = died \cup {s \in SnapIds : lock[s] = p}
  /\ UNCHANGED <<files, gate, lost, verdict>>

Step(p) ==
  \/ CreateTmp(p) \/ CreateClone(p) \/ CreateManifest(p) \/ CreateRename(p)
  \/ CreateActive(p) \/ CreateUndo(p) \/ CreateUnrow(p)
  \/ ReadAccess(p) \/ GateOpen(p) \/ ReadDone(p) \/ GateShut(p) \/ GateUnlock(p) \/ BareDone(p)
  \/ GcCreating(p) \/ GcCreatingRow(p) \/ SweepList(p) \/ SweepAsk(p) \/ SweepTree(p)
  \/ ReconcileScan(p) \/ ReconcileTree(p) \/ ReconcileRow(p)

Next ==
  \/ \E p \in Procs : CreateRow(p) \/ Collect(p) \/ Step(p) \/ Die(p)
  \/ \E p \in Procs, s \in SnapIds : ReadBegin(p, s)
  \/ \E s \in SnapIds : DiscardMark(s) \/ DiscardMove(s) \/ RootLost(s)

Spec == Init /\ [][Next]_vars

--------------------------------------------------------------------------

\* wfs_snapshot_create beside a collector: a snapshot is ACTIVE only when its
\* tree is whole and its manifest lists as many groups as its row says, which
\* is what every fork checks.  Only the loss of a root takes that away.
ActiveSound ==
  \A s \in SnapIds : row[s].st = "active" =>
    /\ dir[s] = "whole" \/ (s \in lost /\ dir[s] \in {"stump", "absent"})
    /\ Cardinality(man[s]) = row[s].hl

\* SnapGate: who is inside the window finds the root open, whoever else opens
\* and closes it; and an open root has somebody inside or was left by a death.
WindowHeld ==
  \A s \in SnapIds :
    /\ dir[s] = "whole" => \A p \in Procs : proc[p].pc = "inside" /\ proc[p].s = s => gate[s]
    /\ gate[s] => lock[s] # None \/ s \in died

\* What is neither a snapshot nor being made.
Temporary(s) == tmp[s] # "absent"
Creating(s) == row[s].st = "creating"
Abandoned(s) == row[s].own = None

\* A registered snapshot is whole and counts its hard-link groups right, and who
\* reads it inside the window finds it open.
SnapshotsSound == ActiveSound /\ WindowHeld
=============================================================================
