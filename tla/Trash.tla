------------------------------- MODULE Trash -------------------------------
(***************************************************************************)
(* Discarding, restoring and deleting Worlds and snapshots in the retired  *)
(* directory product (core/src/world.cpp): the three-step trashing         *)
(* protocol, its recovery, `discard --now`, and the collector's passes     *)
(* over the trash.                                                         *)
(*                                                                         *)
(* A process runs one operation.  A SQLite transaction holds the write     *)
(* lock (txn) from its first step to its commit; renames, probes and       *)
(* unlinks outside one interleave with everything.  A process may die      *)
(* between any two steps.  The user owns the directories of the Worlds on  *)
(* another volume than the store (Cross), the .wfs-trash beside them       *)
(* included, and may rename what is in there at any moment.                *)
(***************************************************************************)
EXTENDS Naturals, FiniteSets

CONSTANTS
  Worlds, Snaps,
  BaseOf,       \* the snapshot each World was forked from
  Cross,        \* the Worlds on another volume than the store
  Procs,
  Stranger,     \* a directory of the user's, no World
  Free, None,
  Retention,    \* how long an entry stays in the trash
  MaxClock, MaxCrashes, MaxMoves,
  SoloRecovery,   \* no two processes are inside trashing_recover at once
  Ops           \* the operations an instance runs

Items == Worlds \cup Snaps

\* Where a tree can be: home; an entry of <store>/trash or of .wfs-trash,
\* named by the item and the second it was discarded in, perhaps with the
\* suffix .deleting; or some other directory of the user's.
Path(d, x, t, del) == [dir |-> d, of |-> x, t |-> t, del |-> del]
Home(x) == Path("home", x, 0, FALSE)
Del(e) == [e EXCEPT !.del = TRUE]
NoPath == Path("none", None, 0, FALSE)
Entries == {Path(d, x, t, del) : d \in {"store", "side"}, x \in Items,
                                 t \in 0..MaxClock, del \in BOOLEAN}
Away == {Path("away", None, t, FALSE) : t \in {0, 1}}
Paths == {Home(x) : x \in Items} \cup Entries \cup Away
UserPaths == {e \in Paths : e.dir = "away" \/ (e.dir \in {"home", "side"} /\ e.of \in Cross)}

VARIABLES
  row,     \* the worlds and snapshots tables: state, trash_path, trashed_at, owner
  fs,      \* the tree at each path
  torn,    \* the trees whose contents an unlink walk has started on
  proc,    \* what each process is doing
  txn,     \* the holder of the database's write lock
  marked,  \* the holder of the flock on each World's marker
  clock, crashes, moves

vars == <<row, fs, torn, proc, txn, marked, clock, crashes, moves>>

Job(x, path, rp) == [x |-> x, path |-> path, rp |-> rp]
NoJob == Job(None, NoPath, NoPath)
Idle == [pc |-> "idle", op |-> "none", job |-> NoJob, held |-> FALSE, todo |-> {}]

Init ==
  /\ row = [x \in Items |-> [st |-> "active", tp |-> NoPath, at |-> 0, own |-> None]]
  /\ fs = [e \in Paths |-> IF e.dir = "home" THEN e.of
                           ELSE IF e = Path("away", None, 0, FALSE) THEN Stranger ELSE Free]
  /\ torn = {}
  /\ proc = [p \in Procs |-> Idle]
  /\ txn = None
  /\ marked = [x \in Worlds |-> None]
  /\ clock = 0 /\ crashes = 0 /\ moves = 0

--------------------------------------------------------------------------
\* Helpers.

Goto(p, pc) == proc' = [proc EXCEPT ![p].pc = pc]

\* The operation returns: the marker lock is dropped, and with the process
\* gone nobody owns the rows it left in flight (producer_alive).
Return(p) ==
  /\ proc' = [proc EXCEPT ![p] = Idle]
  /\ marked' = [x \in Worlds |-> IF marked[x] = p THEN None ELSE marked[x]]
  /\ txn' = IF txn = p THEN None ELSE txn

Disowned(r, p) == [x \in Items |-> IF r[x].own = p THEN [r[x] EXCEPT !.own = None] ELSE r[x]]

ReturnWith(p, r) == Return(p) /\ row' = Disowned(r, p)

\* rename(2) of one directory: the source is there, the target is not.
CanRename(a, b) == fs[a] # Free /\ fs[b] = Free
Rename(a, b) == fs' = [fs EXCEPT ![a] = Free, ![b] = fs[a]]

\* trash_follow_deleting: the collector renames first and records second.
Follow(e) == IF ~e.del /\ fs[e] = Free /\ fs[Del(e)] # Free THEN Del(e) ELSE e

\* trash_is_deleting, with the identity of trash_identity.
IsDeleting(x, e) == e.del \/ (fs[e] = Free /\ fs[Del(e)] = x)

\* snapshot_refs_locked: Worlds that refuse the discard of their baseline.
Referenced(s) == \E w \in Worlds : BaseOf[w] = s /\ row[w].st \in {"active", "trashing"}

\* claim_trash_paths, trash_path_claimed_locked: a row's trash path claims
\* that name and the same name with .deleting, whatever the row's state.
Claimed(e) == \E x \in Items : row[x].tp \in {e, [e EXCEPT !.del = FALSE]}

OneTxn(p) == txn = None /\ UNCHANGED txn

\* trashing_reclaim, then trashing_commit: step (c).  A row that is no longer
\* in flight is squared with the tree, if the tree is where we put it.
TrashingCommit(x, tp) ==
  CASE row[x].st = "trashing" -> [row EXCEPT ![x].st = "trashed", ![x].own = None]
    [] row[x].st = "active" /\ fs[tp] # Free ->
         [row EXCEPT ![x] = [st |-> "trashed", tp |-> tp, at |-> clock, own |-> None]]
    [] OTHER -> row

\* trashing_undo: the rename never happened, so neither did the discard.
TrashingUndo(x) ==
  IF row[x].st = "trashing"
  THEN [row EXCEPT ![x] = [st |-> "active", tp |-> NoPath, at |-> 0, own |-> None]]
  ELSE row

Trashing(p, x, e) ==
  [row EXCEPT ![x] = [st |-> "trashing", tp |-> e, at |-> clock, own |-> p]]

--------------------------------------------------------------------------
\* wfs_world_discard.

StartDiscard(p, x, op) ==
  /\ proc[p].pc = "idle" /\ op \in {"discard", "now"} \cap Ops
  /\ \/ /\ row[x].st = "trashed" /\ op = "now"
        /\ proc' = [proc EXCEPT ![p] = [Idle EXCEPT !.pc = "follow", !.op = op,
                                         !.job = Job(x, row[x].tp, row[x].tp)]]
        /\ UNCHANGED marked
     \/ /\ row[x].st = "active"
        /\ fs[Home(x)] = x /\ marked[x] = None
        /\ marked' = [marked EXCEPT ![x] = p]
        /\ proc' = [proc EXCEPT ![p] = [Idle EXCEPT !.pc = "rowFirst", !.op = op,
                                         !.job = Job(x, Path("store", x, clock, FALSE), NoPath)]]
  /\ UNCHANGED <<row, fs, torn, txn, clock, crashes, moves>>

\* (a) the row first.
RowFirst(p) ==
  LET x == proc[p].job.x
  IN /\ proc[p].pc = "rowFirst" /\ txn = None
     /\ IF row[x].st = "active"
        THEN /\ row' = Trashing(p, x, proc[p].job.path)
             /\ Goto(p, "moveOut")
             /\ UNCHANGED <<marked, txn>>
        ELSE ReturnWith(p, row)
     /\ UNCHANGED <<fs, torn, clock, crashes, moves>>

\* (b) the tree; EXDEV sends a World of another volume to .wfs-trash beside
\* it, and the row has to name that place first (trashing_set_path).
MoveOut(p) ==
  LET x == proc[p].job.x
      e == proc[p].job.path
  IN /\ proc[p].pc = "moveOut"
     /\ \/ /\ x \in Cross /\ e.dir = "store"
           /\ OneTxn(p)
           /\ LET side == [e EXCEPT !.dir = "side"]
              IN /\ row' = IF row[x].st = "trashing" THEN [row EXCEPT ![x].tp = side] ELSE row
                 /\ proc' = [proc EXCEPT ![p].job.path = side]
           /\ UNCHANGED <<fs, marked>>
        \/ /\ ~(x \in Cross /\ e.dir = "store")
           /\ CanRename(Home(x), e)
           /\ Rename(Home(x), e)
           /\ Goto(p, "commit")
           /\ UNCHANGED <<row, marked, txn>>
        \/ /\ ~(x \in Cross /\ e.dir = "store")
           /\ ~CanRename(Home(x), e)
           /\ txn = None
           /\ ReturnWith(p, TrashingUndo(x))
           /\ UNCHANGED fs
     /\ UNCHANGED <<torn, clock, crashes, moves>>

\* (c), and --now goes on to delete the entry.
Commit(p) ==
  LET x == proc[p].job.x
      e == proc[p].job.path
      r == TrashingCommit(x, e)
  IN /\ proc[p].pc = "commit" /\ txn = None
     /\ IF proc[p].op = "now" /\ r[x].st = "trashed" /\ r[x].tp = e
        THEN /\ row' = r
             /\ proc' = [proc EXCEPT ![p].pc = "follow", ![p].job.rp = e]
             /\ UNCHANGED <<marked, txn>>
        ELSE ReturnWith(p, r)
     /\ UNCHANGED <<fs, torn, clock, crashes, moves>>

\* wfs_snapshot_discard: the reference count and the state change are one
\* transaction; a snapshot whose directory is gone goes straight to DEAD.
DiscardSnap(p, s, op) ==
  /\ proc[p].pc = "idle" /\ op \in {"discard", "now"} \cap Ops
  /\ txn = None
  /\ \/ /\ row[s].st = "trashed" /\ op = "now"
        /\ proc' = [proc EXCEPT ![p] = [Idle EXCEPT !.pc = "follow", !.op = op,
                                         !.job = Job(s, row[s].tp, row[s].tp)]]
        /\ UNCHANGED row
     \/ /\ row[s].st = "active" /\ ~Referenced(s)
        /\ LET e == Path("store", s, clock, FALSE)
           IN IF fs[Home(s)] = Free
              THEN /\ row' = [row EXCEPT ![s] = [st |-> "dead", tp |-> NoPath,
                                                 at |-> clock, own |-> None]]
                   /\ UNCHANGED proc
              ELSE /\ row' = Trashing(p, s, e)
                   /\ proc' = [proc EXCEPT ![p] = [Idle EXCEPT !.pc = "moveOut", !.op = op,
                                                    !.job = Job(s, e, NoPath)]]
  /\ UNCHANGED <<fs, torn, txn, marked, clock, crashes, moves>>

--------------------------------------------------------------------------
\* wfs_world_restore: the same protocol backwards.

StartRestore(p, x) ==
  /\ proc[p].pc = "idle" /\ "restore" \in Ops
  /\ row[x].st = "trashed"
  /\ ~IsDeleting(x, row[x].tp)
  /\ fs[row[x].tp] # Free /\ fs[Home(x)] = Free
  /\ proc' = [proc EXCEPT ![p] = [Idle EXCEPT !.pc = "restoreClaim", !.op = "restore",
                                   !.job = Job(x, row[x].tp, row[x].tp)]]
  /\ UNCHANGED <<row, fs, torn, txn, marked, clock, crashes, moves>>

\* (a) everything again under the write lock, the tree's identity through the
\* descriptor that is kept across the rename.
RestoreClaim(p) ==
  LET x == proc[p].job.x
      e == proc[p].job.rp
  IN /\ proc[p].pc = "restoreClaim" /\ txn = None
     /\ IF row[x].st = "trashed" /\ row[x].tp = e /\ ~IsDeleting(x, e) /\ fs[e] = x
        THEN txn' = p /\ Goto(p, "restoreRow") /\ UNCHANGED <<row, marked>>
        ELSE ReturnWith(p, row)
     /\ UNCHANGED <<fs, torn, clock, crashes, moves>>

\* (Mutant: the baseline's state is not looked at.)
RestoreRowUnchecked(p) ==
  LET x == proc[p].job.x
  IN /\ proc[p].pc = "restoreRow" /\ txn = p
     /\ row' = [row EXCEPT ![x].st = "trashing", ![x].own = p]
     /\ Goto(p, "moveHome")
     /\ txn' = None
     /\ UNCHANGED <<marked, fs, torn, clock, crashes, moves>>

RestoreRow(p) ==
  LET x == proc[p].job.x
  IN /\ proc[p].pc = "restoreRow" /\ txn = p
     /\ IF row[BaseOf[x]].st = "active"
        THEN /\ row' = [row EXCEPT ![x].st = "trashing", ![x].own = p]
             /\ Goto(p, "moveHome")
             /\ txn' = None
             /\ UNCHANGED marked
        ELSE ReturnWith(p, row)
     /\ UNCHANGED <<fs, torn, clock, crashes, moves>>

\* (b) a rename that fails leaves the row as it was: TRASHED.
MoveHome(p) ==
  LET x == proc[p].job.x
      e == proc[p].job.rp
  IN /\ proc[p].pc = "moveHome"
     /\ \/ CanRename(e, Home(x)) /\ Rename(e, Home(x))
           /\ Goto(p, "verifyHome") /\ UNCHANGED <<row, marked, txn>>
        \/ ~CanRename(e, Home(x)) /\ txn = None
           /\ ReturnWith(p, TrashingCommit(x, e)) /\ UNCHANGED fs
     /\ UNCHANGED <<torn, clock, crashes, moves>>

\* The rename moved some directory home; the descriptor says whether it was
\* the World's.  If not, it goes back and the row with it.
VerifyHome(p) ==
  LET x == proc[p].job.x
      e == proc[p].job.rp
  IN /\ proc[p].pc = "verifyHome"
     /\ \/ fs[Home(x)] = x /\ Goto(p, "activate") /\ UNCHANGED <<row, fs, marked, txn>>
        \/ fs[Home(x)] # x /\ CanRename(Home(x), e) /\ Rename(Home(x), e)
           /\ Goto(p, "putBack") /\ UNCHANGED <<row, marked, txn>>
        \/ fs[Home(x)] # x /\ ~CanRename(Home(x), e) /\ ReturnWith(p, row) /\ UNCHANGED fs
     /\ UNCHANGED <<torn, clock, crashes, moves>>

PutBack(p) ==
  /\ proc[p].pc = "putBack" /\ txn = None
  /\ ReturnWith(p, TrashingCommit(proc[p].job.x, proc[p].job.rp))
  /\ UNCHANGED <<fs, torn, clock, crashes, moves>>

\* (c) a row that somebody put back in TRASHED meanwhile is picked up too.
Activate(p) ==
  LET x == proc[p].job.x
  IN /\ proc[p].pc = "activate" /\ txn = None
     /\ ReturnWith(p, IF row[x].st \in {"trashing", "trashed"}
                      THEN [row EXCEPT ![x] = [st |-> "active", tp |-> NoPath,
                                               at |-> 0, own |-> None]]
                      ELSE row)
     /\ UNCHANGED <<fs, torn, clock, crashes, moves>>

--------------------------------------------------------------------------
\* Deleting one entry, for `--now` (trash_delete_now) and for the collector
\* (gc_delete_one): claim, rename to .deleting, record, unlink, bury.

\* The collector goes on with its next job, --now returns.
Leave(p) ==
  IF proc[p].op = "gc"
  THEN /\ proc' = [proc EXCEPT ![p].pc = "jobs", ![p].job = NoJob, ![p].held = FALSE]
       /\ txn' = IF txn = p THEN None ELSE txn
       /\ UNCHANGED <<row, marked>>
  ELSE ReturnWith(p, row)

StartNow(p) ==
  /\ proc[p].pc = "follow"
  /\ proc' = [proc EXCEPT ![p].pc = "claim", ![p].job.path = Follow(proc[p].job.rp)]
  /\ UNCHANGED <<row, fs, torn, txn, marked, clock, crashes, moves>>

\* trash_row_still_ours, and the same question inside the transaction: the
\* row is the one that was queued, or still no row names an orphan.
StillOurs(j) == IF j.x = None THEN ~Claimed(j.path)
                ELSE row[j.x].st = "trashed" /\ row[j.x].tp = j.rp

\* trash_claim_open: a World's tree is proven by its inode.  Anything else at
\* the path is refused; an absent one goes on, without a descriptor.
Foreign(j) == j.x \in Worlds /\ fs[j.path] \notin {Free, j.x}
TrashClaim(j) == j.x \in Worlds /\ fs[j.path] = j.x

\* gc_claim_deleting up to the descriptor.
\* (Mutant: the row is not read again.)
ClaimQueued(p) ==
  LET j == proc[p].job
  IN /\ proc[p].pc = "claim" /\ txn = None
     /\ IF Foreign(j)
        THEN Leave(p)
        ELSE /\ txn' = p
             /\ proc' = [proc EXCEPT ![p].pc = "mark", ![p].held = TrashClaim(j)]
             /\ UNCHANGED <<row, marked>>
     /\ UNCHANGED <<fs, torn, clock, crashes, moves>>

Claim(p) ==
  LET j == proc[p].job
  IN /\ proc[p].pc = "claim" /\ txn = None
     /\ IF ~StillOurs(j) \/ Foreign(j)
        THEN Leave(p)
        ELSE /\ txn' = p
             /\ proc' = [proc EXCEPT ![p].pc = "mark", ![p].held = TrashClaim(j)]
             /\ UNCHANGED <<row, marked>>
     /\ UNCHANGED <<fs, torn, clock, crashes, moves>>

\* trash_mark_deleting: at neither name (-ENOENT), blocked by something that
\* sits on the .deleting name, or renamed to it.
MarkDeleting(p) ==
  LET e == proc[p].job.path
  IN /\ proc[p].pc = "mark" /\ txn = p
     /\ \/ /\ fs[e] = Free
           /\ Goto(p, "bury") /\ txn' = None
           /\ UNCHANGED <<row, fs, marked>>
        \/ /\ fs[e] # Free /\ e.del
           /\ Goto(p, "record") /\ UNCHANGED <<row, fs, marked, txn>>
        \/ /\ fs[e] # Free /\ ~e.del /\ fs[Del(e)] # Free
           /\ Leave(p) /\ UNCHANGED fs
        \/ /\ CanRename(e, Del(e)) /\ ~e.del
           /\ Rename(e, Del(e))
           /\ Goto(p, "record") /\ UNCHANGED <<row, marked, txn>>
     /\ UNCHANGED <<torn, clock, crashes, moves>>

\* The row learns the new name, in the same transaction.
RecordPath(j, d) == IF j.x = None THEN row ELSE [row EXCEPT ![j.x].tp = d]

\* trash_claim_verify_rename, then RecordPath.  Somebody else's directory is
\* renamed straight back.
Record(p) ==
  LET j == proc[p].job
      d == Del(j.path)
  IN /\ proc[p].pc = "record" /\ txn = p
     /\ IF proc[p].held /\ fs[d] # j.x
        THEN /\ Leave(p)
             /\ IF ~j.path.del /\ CanRename(d, j.path)
                THEN Rename(d, j.path) ELSE UNCHANGED fs
        ELSE /\ row' = RecordPath(j, d)
             /\ proc' = [proc EXCEPT ![p].pc = "unlink",
                                     ![p].job = Job(j.x, d, IF j.x = None THEN NoPath ELSE d)]
             /\ txn' = None
             /\ UNCHANGED <<fs, marked>>
     /\ UNCHANGED <<torn, clock, crashes, moves>>

\* trash_unlink_claim through the descriptor, or trash_unlink by path: the
\* contents.  A deadline or an error leaves the tree half gone.
Unlink(p) ==
  LET j == proc[p].job
      tree == IF proc[p].held THEN j.x ELSE fs[j.path]
  IN /\ proc[p].pc = "unlink"
     /\ torn' = torn \cup ({tree} \ {Free})
     /\ \/ Goto(p, "rmdir") /\ UNCHANGED <<row, marked, txn>>
        \/ Leave(p)
     /\ UNCHANGED <<fs, clock, crashes, moves>>

\* The directory itself: removed by name, if the name still is the tree's
\* (trash_claim_is_ours) and empty.
Rmdir(p) ==
  LET j == proc[p].job
  IN /\ proc[p].pc = "rmdir"
     /\ \/ /\ fs[j.path] = Free
           /\ Goto(p, "bury") /\ UNCHANGED <<row, fs, marked, txn>>
        \/ /\ fs[j.path] \in torn /\ (proc[p].held => fs[j.path] = j.x)
           /\ fs' = [fs EXCEPT ![j.path] = Free]
           /\ Goto(p, "bury") /\ UNCHANGED <<row, marked, txn>>
        \/ /\ fs[j.path] \notin torn \cup {Free} \/ (proc[p].held /\ fs[j.path] \notin {j.x, Free})
           /\ Leave(p) /\ UNCHANGED fs
     /\ UNCHANGED <<torn, clock, crashes, moves>>

\* mark_dead: conditional on the row still being the one that was queued.
Bury(p) ==
  LET j == proc[p].job
      r == IF j.x # None /\ StillOurs(j)
           THEN [row EXCEPT ![j.x].st = "dead", ![j.x].tp = NoPath] ELSE row
  IN /\ proc[p].pc = "bury" /\ txn = None
     /\ IF proc[p].op = "gc"
        THEN /\ row' = r
             /\ proc' = [proc EXCEPT ![p].pc = "jobs", ![p].job = NoJob, ![p].held = FALSE]
             /\ UNCHANGED <<marked, txn>>
        ELSE ReturnWith(p, r)
     /\ UNCHANGED <<fs, torn, clock, crashes, moves>>

--------------------------------------------------------------------------
\* trashing_recover, at every open of the store and before a collection: the
\* rows in flight whose owner is gone.

\* (Mutant: a row whose owner is alive is resolved as well.)
StartRecoverAll(p, op) ==
  /\ proc[p].pc = "idle" /\ op \in {"open", "gc"} \cap Ops
  /\ SoloRecovery => \A q \in Procs : proc[q].pc \notin {"recover", "resolve"}
  /\ proc' = [proc EXCEPT ![p] =
                [Idle EXCEPT !.pc = "recover", !.op = op,
                             !.todo = {Job(x, NoPath, row[x].tp) :
                                       x \in {y \in Items : row[y].st = "trashing"}}]]
  /\ UNCHANGED <<row, fs, torn, txn, marked, clock, crashes, moves>>

StartRecover(p, op) ==
  /\ proc[p].pc = "idle" /\ op \in {"open", "gc"} \cap Ops
  /\ SoloRecovery => \A q \in Procs : proc[q].pc \notin {"recover", "resolve"}
  /\ proc' = [proc EXCEPT ![p] =
                [Idle EXCEPT !.pc = "recover", !.op = op,
                             !.todo = {Job(x, NoPath, row[x].tp) :
                                       x \in {y \in Items : row[y].st = "trashing"
                                                            /\ row[y].own = None}}]]
  /\ UNCHANGED <<row, fs, torn, txn, marked, clock, crashes, moves>>

\* Where is the tree?  A baseline somebody needs goes home again.
Probe(p) ==
  /\ proc[p].pc = "recover"
  /\ \/ /\ proc[p].todo = {}
        /\ IF proc[p].op = "gc"
           THEN Goto(p, "scan") /\ UNCHANGED <<row, marked, txn>>
           ELSE ReturnWith(p, row)
        /\ UNCHANGED fs
     \/ \E j \in proc[p].todo :
          LET inTrash == fs[j.rp] # Free
              needed == j.x \in Snaps /\ inTrash /\ Referenced(j.x)
              blocked == needed /\ fs[Home(j.x)] # Free
          IN /\ IF needed /\ ~blocked THEN Rename(j.rp, Home(j.x)) ELSE UNCHANGED fs
             /\ proc' = [proc EXCEPT ![p].todo = @ \ {j},
                                     ![p].pc = IF blocked THEN "recover" ELSE "resolve",
                                     ![p].job = IF blocked THEN NoJob ELSE j,
                                     ![p].held = inTrash /\ ~needed]
             /\ UNCHANGED <<row, marked, txn>>
  /\ UNCHANGED <<torn, clock, crashes, moves>>

\* (Mutant: only a tree found in the trash settles the row.)
ResolveTrashed(p) ==
  LET j == proc[p].job
  IN /\ proc[p].pc = "resolve" /\ OneTxn(p)
     /\ row' = IF row[j.x].st # "trashing" \/ row[j.x].tp # j.rp \/ ~proc[p].held THEN row
               ELSE [row EXCEPT ![j.x].st = "trashed", ![j.x].own = None]
     /\ proc' = [proc EXCEPT ![p].pc = "recover", ![p].job = NoJob, ![p].held = FALSE]
     /\ UNCHANGED <<fs, torn, marked, clock, crashes, moves>>

Resolve(p) ==
  LET j == proc[p].job
  IN /\ proc[p].pc = "resolve" /\ OneTxn(p)
     /\ row' = IF row[j.x].st # "trashing" \/ row[j.x].tp # j.rp THEN row
               ELSE IF proc[p].held THEN [row EXCEPT ![j.x].st = "trashed", ![j.x].own = None]
               ELSE TrashingUndo(j.x)
     /\ proc' = [proc EXCEPT ![p].pc = "recover", ![p].job = NoJob, ![p].held = FALSE]
     /\ UNCHANGED <<fs, torn, marked, clock, crashes, moves>>

--------------------------------------------------------------------------
\* The collector: trash_scan, then each job, interrupted trees first.

\* The rows, under the mutex.  What the rows claim at this moment is kept in
\* todo as jobs without a path, until the directory has been read.
Scan(p) ==
  /\ proc[p].pc = "scan"
  /\ proc' = [proc EXCEPT
       ![p].pc = "orphans",
       ![p].todo =
         {Job(x, Follow(row[x].tp), row[x].tp) :
            x \in {y \in Items : row[y].st = "trashed" /\
                                 (Follow(row[y].tp).del \/ row[y].at + Retention <= clock)}}
         \cup {Job(None, NoPath, row[x].tp) : x \in {y \in Items : row[y].tp # NoPath}}]
  /\ UNCHANGED <<row, fs, torn, txn, marked, clock, crashes, moves>>

\* The directory: an entry of <store>/trash that no row claimed at the scan
\* and none claims now is an orphan and due at once.
Orphans(p) ==
  LET known == {j.rp : j \in {k \in proc[p].todo : k.path = NoPath}}
      stray == {e \in Entries : /\ e.dir = "store" /\ fs[e] # Free
                                /\ known \cap {e, [e EXCEPT !.del = FALSE]} = {}
                                /\ ~Claimed(e)}
  IN /\ proc[p].pc = "orphans"
     /\ proc' = [proc EXCEPT ![p].pc = "jobs",
                             ![p].todo = {j \in @ : j.path # NoPath}
                                         \cup {Job(None, e, NoPath) : e \in stray}]
     /\ UNCHANGED <<row, fs, torn, txn, marked, clock, crashes, moves>>

\* The next job, or the end: nothing left, out of time, or out of budget.
NextJob(p) ==
  LET first == {j \in proc[p].todo : j.path.del}
  IN /\ proc[p].pc = "jobs"
     /\ \/ ReturnWith(p, row)
        \/ \E j \in (IF first # {} THEN first ELSE proc[p].todo) :
             /\ proc' = [proc EXCEPT ![p].pc = IF StillOurs(j) THEN "claim" ELSE "jobs",
                                     ![p].job = IF StillOurs(j) THEN j ELSE NoJob,
                                     ![p].todo = @ \ {j}]
             /\ UNCHANGED <<row, marked, txn>>
     /\ UNCHANGED <<fs, torn, clock, crashes, moves>>

--------------------------------------------------------------------------
\* The surroundings.

Tick ==
  /\ clock < MaxClock /\ clock' = clock + 1
  /\ UNCHANGED <<row, fs, torn, proc, txn, marked, crashes, moves>>

\* kill -9, or an error of a row write that the operation returns with: an
\* open transaction rolls back, what was renamed stays renamed.
Crash(p) ==
  /\ proc[p].pc # "idle" /\ crashes < MaxCrashes
  /\ crashes' = crashes + 1
  /\ ReturnWith(p, row)
  /\ UNCHANGED <<fs, torn, clock, moves>>

UserMove(a, b) ==
  /\ moves < MaxMoves /\ moves' = moves + 1
  /\ CanRename(a, b) /\ Rename(a, b)
  /\ UNCHANGED <<row, torn, proc, txn, marked, clock, crashes>>

DeleteEntry(p) ==
  Claim(p) \/ MarkDeleting(p) \/ Record(p) \/ Unlink(p) \/ Rmdir(p) \/ Bury(p)
DeleteNow(p) == StartNow(p) \/ (proc[p].op = "now" /\ DeleteEntry(p))
CollectTrash(p) == NextJob(p) \/ (proc[p].op = "gc" /\ DeleteEntry(p))

Step(p) ==
  \/ RowFirst(p) \/ MoveOut(p) \/ Commit(p)
  \/ RestoreClaim(p) \/ RestoreRow(p) \/ MoveHome(p) \/ VerifyHome(p) \/ PutBack(p)
  \/ Activate(p)
  \/ DeleteNow(p)
  \/ Probe(p) \/ Resolve(p) \/ Scan(p) \/ Orphans(p) \/ CollectTrash(p)

Begins(p) ==
  \/ \E x \in Worlds, op \in {"discard", "now"} : StartDiscard(p, x, op)
  \/ \E s \in Snaps, op \in {"discard", "now"} : DiscardSnap(p, s, op)
  \/ \E x \in Worlds : StartRestore(p, x)
  \/ \E op \in {"open", "gc"} : StartRecover(p, op)

Next ==
  \/ \E p \in Procs : Begins(p) \/ Step(p) \/ Crash(p)
  \/ Tick
  \/ \E a, b \in UserPaths : UserMove(a, b)

Spec == Init /\ [][Next]_vars

--------------------------------------------------------------------------

\* snapshot_refs_locked and wfs_world_restore: a World that is live has its
\* baseline, row and tree, whatever is discarded, restored or recovered at
\* the same time.
BaselineKept ==
  \A w \in Worlds : row[w].st = "active" =>
    /\ row[BaseOf[w]].st = "active"
    /\ fs[Home(BaseOf[w])] = BaseOf[w] /\ BaseOf[w] \notin torn

\* The three-step protocol: a whole tree in the trash is named by its row at
\* every moment until the row is buried, so that no collector takes it for an
\* orphan and a discard that died can be resolved.
EntriesNamed ==
  \A e \in Entries : fs[e] \in Items \ torn /\ (e.dir = "store" \/ moves = 0) =>
    row[fs[e]].st = "dead" \/ row[fs[e]].tp \in {e, [e EXCEPT !.del = FALSE]}

\* gc_claim_deleting and mark_dead: nothing of an item is unlinked unless its
\* row says TRASHED at that moment or already says DEAD, so that no World a
\* restore brings back, or has brought back, has lost files.
OnlyTrashDeleted == \A x \in torn \cap Items : row[x].st \in {"trashed", "dead"}

InFlight(x) == row[x].st = "trashing"
Stranded(x) == InFlight(x) /\ row[x].own = None

\* discard, restore and recovery: a live World keeps its baseline, and a tree in
\* the trash is named by its row until it is buried.
TrashSound == BaselineKept /\ EntriesNamed
=============================================================================
