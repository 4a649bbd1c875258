------------------------------- MODULE Identity -------------------------------
(***************************************************************************)
(* What makes a directory a World (core/src/world.cpp): the .world marker  *)
(* in its root and the inode in the store's row, never the path.  The      *)
(* module models verify, which repairs the path of a World that was moved, *)
(* adopt, which takes a copy over as a new World, the refresh of a marker  *)
(* and the reconciliation of rows whose tree is gone, each in the steps    *)
(* between which another process or the user may act.                      *)
(***************************************************************************)
EXTENDS Integers, FiniteSets

CONSTANTS Procs, Dirs, Paths, None,
          Worlds,      \* row ids, 1 .. n; the first is registered at the start
          Ops,         \* the commands of an instance
          MaxCopies,   \* bound on directories the user copies
          MaxMoves,    \* bound on directories the user renames
          MaxFaults    \* bound on failures and deaths

VARIABLES loc,       \* where a directory is
          marker,    \* the World its .world names; None when there is none
          rows,      \* the worlds table
          snap,      \* the snapshot W1 was forked from is ACTIVE
          proc, copies, moves, faults

vars == <<loc, marker, rows, snap, proc, copies, moves, faults>>

NoRow == [state |-> "none", dir |-> None, path |-> None, based |-> FALSE]
Idle == [pc |-> "idle", op |-> "none", path |-> None, world |-> None, dir |-> None, dead |-> {},
         filled |-> {}]   \* history: where the user put a directory since the scan
D1 == CHOOSE d \in Dirs : TRUE
P1 == CHOOSE p \in Paths : TRUE

Init ==
  /\ loc = [d \in Dirs |-> IF d = D1 THEN P1 ELSE None]
  /\ marker = [d \in Dirs |-> IF d = D1 THEN 1 ELSE None]
  /\ rows = [w \in Worlds |-> IF w = 1 THEN [state |-> "active", dir |-> D1, path |-> P1, based |-> TRUE]
                                       ELSE NoRow]
  /\ snap = TRUE
  /\ proc = [p \in Procs |-> Idle]
  /\ copies = 0 /\ moves = 0 /\ faults = 0

At(path) == {d \in Dirs : loc[d] = path}
Go(p, pc) == proc' = [proc EXCEPT ![p].pc = pc]
Done(p) == proc' = [proc EXCEPT ![p] = Idle]
Fault == faults < MaxFaults /\ faults' = faults + 1
Disk == <<loc, marker>>
User == <<copies, moves>>

-----------------------------------------------------------------------------
(* wfs_world_verify_identity, which adopt and refresh begin with as well. *)

(* realpath and is_dir; check_path asks the same of adopt.  The marker is    *)
(* then read through the path: marker_read.                                  *)
VerifyMarker(p, op, path) ==
  /\ proc[p] = Idle
  /\ \E d \in At(path) :
       /\ marker[d] # None
       /\ proc' = [proc EXCEPT ![p] = [Idle EXCEPT !.pc = "stat", !.op = op, !.path = path,
                                                   !.world = marker[d]]]
  /\ UNCHANGED <<Disk, rows, snap, User, faults>>

(* stat. *)
VerifyStat(p) ==
  /\ proc[p].pc = "stat"
  /\ IF At(proc[p].path) = {} THEN Done(p)
     ELSE \E d \in At(proc[p].path) : proc' = [proc EXCEPT ![p].dir = d, ![p].pc = "row"]
  /\ UNCHANGED <<Disk, rows, snap, User, faults>>

Registered(p) == rows[proc[p].world].state # "none" /\ rows[proc[p].world].dir = proc[p].dir

(* The row and the inode decide: a registered World, moved or not, or a copy. *)
VerifyRow(p) ==
  LET r == rows[proc[p].world] IN
  /\ proc[p].pc = "row"
  /\ CASE Registered(p) /\ r.state = "active" /\ r.path # proc[p].path -> Go(p, "repair")
       [] Registered(p) /\ ~(r.state = "active" /\ r.path # proc[p].path) ->
            IF proc[p].op = "refresh" THEN Go(p, "lock") ELSE Done(p)
       [] OTHER -> IF proc[p].op = "adopt" THEN Go(p, "reread") ELSE Done(p)
  /\ UNCHANGED <<Disk, rows, snap, User, faults>>

(* UPDATE worlds SET path=? WHERE id=?, a transaction of its own. *)
VerifyRepair(p) ==
  /\ proc[p].pc = "repair"
  /\ rows' = [rows EXCEPT ![proc[p].world].path = proc[p].path]
  /\ IF proc[p].op = "refresh" THEN Go(p, "lock") ELSE Done(p)
  /\ UNCHANGED <<Disk, snap, User, faults>>

-----------------------------------------------------------------------------
(* wfs_world_adopt, once verify has called the directory a copy. *)

(* The marker and the directory are read again. *)
AdoptReread(p) ==
  /\ proc[p].pc = "reread"
  /\ IF At(proc[p].path) = {} THEN Done(p)
     ELSE \E d \in At(proc[p].path) :
            IF marker[d] = None THEN Done(p)
            ELSE proc' = [proc EXCEPT ![p].world = marker[d], ![p].dir = d, ![p].pc = "insert"]
  /\ UNCHANGED <<Disk, rows, snap, User, faults>>

Fresh == {w \in Worlds : rows[w].state = "none" /\ \A p \in Procs : proc[p].world # w}

Adopt(p, based) ==
  /\ \E w \in Fresh :
       /\ \A v \in Fresh : w <= v
       /\ rows' = [rows EXCEPT ![w] = [state |-> "active", dir |-> proc[p].dir,
                                       path |-> proc[p].path, based |-> based]]
       /\ proc' = [proc EXCEPT ![p].world = w, ![p].pc = "unmark"]

AdoptInsertUnchecked(p) ==
  /\ proc[p].pc = "insert"
  /\ IF Fresh = {} THEN Done(p) /\ UNCHANGED rows ELSE Adopt(p, rows[proc[p].world].based)
  /\ UNCHANGED <<Disk, snap, User, faults>>

(* The transaction: the marker's snapshot is the baseline, if it is ACTIVE.  *)
AdoptInsert(p) ==
  LET based == rows[proc[p].world].based IN
  /\ proc[p].pc = "insert"
  /\ IF Fresh = {} \/ (based /\ ~snap) THEN Done(p) /\ UNCHANGED rows ELSE Adopt(p, based)
  /\ UNCHANGED <<Disk, snap, User, faults>>

(* marker_write: unlink, then a new file. *)
AdoptUnmark(p) ==
  /\ proc[p].pc = "unmark"
  /\ IF At(proc[p].path) = {} THEN Go(p, "delete") /\ UNCHANGED marker
     ELSE \E d \in At(proc[p].path) :
            marker' = [marker EXCEPT ![d] = None] /\ Go(p, "mark")
  /\ UNCHANGED <<loc, rows, snap, User, faults>>

AdoptMark(p) ==
  /\ proc[p].pc = "mark"
  /\ \/ /\ \E d \in At(proc[p].path) : marker' = [marker EXCEPT ![d] = proc[p].world]
        /\ Done(p)
        /\ UNCHANGED faults
     \/ At(proc[p].path) = {} /\ Go(p, "delete") /\ UNCHANGED <<marker, faults>>
     \/ Fault /\ Go(p, "delete") /\ UNCHANGED marker
  /\ UNCHANGED <<loc, rows, snap, User>>

(* The row of an adoption whose marker could not be written; without a       *)
(* transaction it stays.                                                     *)
AdoptDelete(p) ==
  /\ proc[p].pc = "delete"
  /\ \/ rows' = [rows EXCEPT ![proc[p].world] = NoRow] /\ UNCHANGED faults
     \/ Fault /\ UNCHANGED rows
  /\ Done(p)
  /\ UNCHANGED <<Disk, snap, User>>

-----------------------------------------------------------------------------
(* wfs_world_marker_refresh, under the flock of the marker: the marker is    *)
(* read, written beside and renamed over.                                    *)
RefreshRead(p) ==
  /\ proc[p].pc = "lock"
  /\ IF \E d \in At(proc[p].path) : marker[d] # None
       THEN \E d \in At(proc[p].path) :
              marker[d] # None /\ proc' = [proc EXCEPT ![p].world = marker[d], ![p].pc = "rename"]
       ELSE Done(p)
  /\ UNCHANGED <<Disk, rows, snap, User, faults>>

RefreshRename(p) ==
  /\ proc[p].pc = "rename"
  /\ IF At(proc[p].path) = {} THEN UNCHANGED marker
     ELSE \E d \in At(proc[p].path) : marker' = [marker EXCEPT ![d] = proc[p].world]
  /\ Done(p)
  /\ UNCHANGED <<loc, rows, snap, User, faults>>

-----------------------------------------------------------------------------
(* wfs_gc_ex with WFS_GC_RECONCILE, on worlds. *)

(* Rows whose path holds nothing, with that path. *)
ReconcileScan(p) ==
  /\ proc[p] = Idle
  /\ proc' = [proc EXCEPT ![p] = [Idle EXCEPT !.pc = "bury", !.op = "reconcile",
                !.dead = {<<w, rows[w].path>> : w \in {v \in Worlds : rows[v].state = "active"
                                                                      /\ At(rows[v].path) = {}}}]]
  /\ UNCHANGED <<Disk, rows, snap, User, faults>>

Bury(p, w, path, still) ==
  /\ proc[p].pc = "bury"
  /\ <<w, path>> \in proc[p].dead
  /\ rows' = IF rows[w].state = "active" /\ still THEN [rows EXCEPT ![w].state = "dead"] ELSE rows
  /\ proc' = [proc EXCEPT ![p].dead = @ \ {<<w, path>>}]
  /\ UNCHANGED <<Disk, snap, User, faults>>

ReconcileRowById(p, w, path) == Bury(p, w, path, TRUE)
ReconcileRow(p, w, path) == Bury(p, w, path, rows[w].path = path)

ReconcileEnd(p) ==
  /\ proc[p].pc = "bury" /\ proc[p].dead = {}
  /\ Done(p)
  /\ UNCHANGED <<Disk, rows, snap, User, faults>>

(* wfs_snapshot_discard refuses while a World refers to the snapshot; the    *)
(* discard of a World is in module Trash.                                    *)
DiscardSnap ==
  /\ snap
  /\ \A w \in Worlds : ~(rows[w].state = "active" /\ rows[w].based)
  /\ snap' = FALSE
  /\ UNCHANGED <<Disk, rows, proc, User, faults>>

DiscardWorld(w) ==
  /\ rows[w].state = "active"
  /\ At(rows[w].path) \cap {rows[w].dir} # {}
  /\ rows' = [rows EXCEPT ![w].state = "trashed"]
  /\ loc' = [loc EXCEPT ![rows[w].dir] = None]
  /\ UNCHANGED <<marker, snap, proc, User, faults>>

-----------------------------------------------------------------------------
(* The user renames a directory and copies one, marker and all. *)
Filled(path) ==
  proc' = [q \in Procs |-> IF proc[q].pc = "bury" THEN [proc[q] EXCEPT !.filled = @ \cup {path}] ELSE proc[q]]

UserMove(d, path) ==
  /\ moves < MaxMoves /\ moves' = moves + 1
  /\ loc[d] # None /\ At(path) = {}
  /\ loc' = [loc EXCEPT ![d] = path]
  /\ Filled(path)
  /\ UNCHANGED <<marker, rows, snap, copies, faults>>

UserCopy(d, c, path) ==
  /\ copies < MaxCopies /\ copies' = copies + 1
  /\ loc[d] # None /\ loc[c] = None /\ marker[c] = None /\ At(path) = {}
  /\ loc' = [loc EXCEPT ![c] = path]
  /\ marker' = [marker EXCEPT ![c] = marker[d]]
  /\ Filled(path)
  /\ UNCHANGED <<rows, snap, moves, faults>>

Die(p) ==
  /\ proc[p] # Idle
  /\ Fault
  /\ Done(p)
  /\ UNCHANGED <<Disk, rows, snap, User>>

Step(p) ==
  \/ VerifyStat(p) \/ VerifyRow(p) \/ VerifyRepair(p)
  \/ AdoptReread(p) \/ AdoptInsert(p) \/ AdoptUnmark(p) \/ AdoptMark(p) \/ AdoptDelete(p)
  \/ RefreshRead(p) \/ RefreshRename(p) \/ ReconcileEnd(p)
  \/ \E w \in Worlds, path \in Paths : ReconcileRow(p, w, path)

Next ==
  \/ \E p \in Procs :
       \/ Step(p) \/ Die(p)
       \/ \E path \in Paths, op \in Ops \cap {"verify", "adopt", "refresh"} : VerifyMarker(p, op, path)
       \/ "reconcile" \in Ops /\ ReconcileScan(p)
  \/ "discard" \in Ops /\ DiscardSnap
  \/ "discard" \in Ops /\ \E w \in Worlds : DiscardWorld(w)
  \/ \E d \in Dirs, path \in Paths : UserMove(d, path) \/ \E c \in Dirs : UserCopy(d, c, path)

Spec == Init /\ [][Next]_vars

-----------------------------------------------------------------------------
(* Reconciliation buries a World only while nothing is where its row says:   *)
(* the path that a verify has repaired between the scan and the update is    *)
(* respected.  Only a directory that the user puts at the row's own path     *)
(* after the scan has looked there goes unseen.                              *)
BuryAbsent == \A w \in Worlds :
  rows[w].state = "active" /\ rows'[w].state = "dead" =>
    \E p \in Procs : proc'[p] # proc[p] /\ (At(rows[w].path) = {} \/ rows[w].path \in proc[p].filled)
BuriesAbsent == [][BuryAbsent]_vars

(* An adopted copy keeps a baseline it can be compared with: whichever of    *)
(* the adoption and the discard of the snapshot commits first.               *)
AdoptedBaseline == \A w \in Worlds : rows[w].state = "active" /\ rows[w].based => snap

=============================================================================
