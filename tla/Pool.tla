--------------------------------- MODULE Pool ---------------------------------
(* Forks of a snapshot or of a World, and the pool of prepared clones they
   are served from (core/src/world.cpp: wfs_world_create_ex and the CREATING
   pass of wfs_gc_ex; core/src/pool.cpp).

   Every SQLite transaction, every directory renamed and every tree cloned or
   removed is a step.  A process runs one command and may die at any step;
   rows it leaves in flight then have an owner that is gone.  The minimum age
   of a CREATING row is left out: a row whose owner is gone may be reaped at
   once, which only adds behaviours.                                         *)
EXTENDS Naturals, FiniteSets

CONSTANTS
  Procs,        \* processes, each running one command at a time
  Entries,      \* pool entries (a uuid each, used for one clone)
  MaxWorlds,    \* World rows, numbered as AUTOINCREMENT does
  Targets,      \* the paths forks are asked for
  None, Free, User,   \* no value; an empty path; a directory of the user's
  Git,          \* does the snapshot hold a Git repository?
  Ops,          \* the commands of this instance
  MaxReturns,   \* bound: times an entry goes back into the pool
  MaxFaults     \* bound: failing calls and deaths together

VARIABLES
  snap,     \* the snapshot: active, gone (discarded), lost (tree gone, reconciled)
  pool,     \* rows of the table pool
  world,    \* rows of the table worlds
  disk,     \* which tree stands at a path
  whole,    \* the trees that are complete clones
  mark,     \* the World named by a tree's .world marker
  locked,   \* flock on a World's marker (WorldLock)
  poolLock, \* flock on locks/pool.lock
  proc, faults

vars == <<snap, pool, world, disk, whole, mark, locked, poolLock, proc, faults>>

WorldIds == 1..MaxWorlds
Trees == Entries \cup WorldIds
PoolPath(e) == <<"pool", e>>
PoolTmp(e) == <<"pooltmp", e>>
Target(t) == <<"target", t>>
ForkTmp(w) == <<"forktmp", w>>
Paths == {PoolPath(e) : e \in Entries} \cup {PoolTmp(e) : e \in Entries}
         \cup {Target(t) : t \in Targets} \cup {ForkTmp(w) : w \in WorldIds}

Idle == [pc |-> "idle", op |-> "none", w |-> None, e |-> None, to |-> None,
         src |-> None, todo |-> {}, live |-> {}]
NoRow == [st |-> "none", tmp |-> None, own |-> None, to |-> None, tree |-> None]

Init ==
  /\ snap = "active"
  /\ pool = [e \in Entries |-> [st |-> "none", own |-> None, id |-> 0]]
  /\ world = [w \in WorldIds |-> NoRow]
  /\ disk = [x \in Paths |-> Free]
  /\ whole = {} /\ mark = [t \in Trees |-> None]
  /\ locked = [w \in WorldIds |-> None] /\ poolLock = None
  /\ proc = [p \in Procs |-> Idle] /\ faults = 0

--------------------------------------------------------------------------
\* Helpers.

Goto(p, pc) == proc' = [proc EXCEPT ![p].pc = pc]

Fault == faults < MaxFaults /\ faults' = faults + 1
NoFault == UNCHANGED faults

\* The command ends.  Its locks go with its descriptors, and the rows it left
\* in flight have an owner that producer_alive no longer finds.
Disown(p, rows) ==
  [r \in DOMAIN rows |-> IF rows[r].own = p THEN [rows[r] EXCEPT !.own = None] ELSE rows[r]]
ReturnWith(p, pl, ws) ==
  /\ proc' = [proc EXCEPT ![p] = Idle]
  /\ pool' = Disown(p, pl) /\ world' = Disown(p, ws)
  /\ locked' = [w \in WorldIds |-> IF locked[w] = p THEN None ELSE locked[w]]
  /\ poolLock' = IF poolLock = p THEN None ELSE poolLock
Return(p) == ReturnWith(p, pool, world)

\* The row id of the next INSERT INTO worlds.
Fresh == {w \in WorldIds : world[w].st = "none" /\ \A v \in 1..(w - 1) : world[v].st # "none"}

Creating(p, tmp, to, t) == [st |-> "creating", tmp |-> tmp, own |-> p, to |-> to, tree |-> t]

\* fs_rename, fs_rename_excl: the target name has to be free.
Moved(a, b) == [disk EXCEPT ![a] = Free, ![b] = disk[a]]

\* fs_remove_tree: all of it, or some of it and an error.
RemoveTrees(ps, ok) ==
  /\ whole' = whole \ {disk[x] : x \in ps}
  /\ disk' = IF ok THEN [x \in Paths |-> IF x \in ps THEN Free ELSE disk[x]] ELSE disk
  /\ IF ok THEN NoFault ELSE Fault

Deleted(w) == [world EXCEPT ![w].st = "deleted", ![w].own = None, ![w].tmp = None]
Activated(w) == [world EXCEPT ![w].st = "active", ![w].tmp = None, ![w].own = None]

--------------------------------------------------------------------------
\* wfs_world_create_ex.

\* check_path on the target.
TargetFree(t) == disk[Target(t)] = Free

\* From a snapshot: its row is read, the target is looked at.
ForkBegin(p, t) ==
  /\ proc[p].pc = "idle" /\ "fork" \in Ops
  /\ snap = "active" /\ TargetFree(t)
  /\ proc' = [proc EXCEPT ![p] = [Idle EXCEPT !.pc = "claim", !.op = "fork", !.to = t]]
  /\ UNCHANGED <<snap, pool, world, disk, whole, mark, locked, poolLock, faults>>

\* From a World: its identity is verified and its marker locked, which keeps
\* a discard away until the fork returns.  (Mutant: without the lock.)
ForkWorldUnlocked(p, v, t) ==
  /\ proc[p].pc = "idle" /\ "forkWorld" \in Ops
  /\ world[v].st = "active" /\ locked[v] = None /\ TargetFree(t)
  /\ proc' = [proc EXCEPT ![p] = [Idle EXCEPT !.pc = "plain", !.op = "forkWorld",
                                               !.to = t, !.src = v]]
  /\ UNCHANGED <<locked, snap, pool, world, disk, whole, mark, poolLock, faults>>

ForkWorld(p, v, t) ==
  /\ proc[p].pc = "idle" /\ "forkWorld" \in Ops
  /\ world[v].st = "active" /\ locked[v] = None /\ TargetFree(t)
  /\ locked' = [locked EXCEPT ![v] = p]
  /\ proc' = [proc EXCEPT ![p] = [Idle EXCEPT !.pc = "plain", !.op = "forkWorld",
                                               !.to = t, !.src = v]]
  /\ UNCHANGED <<snap, pool, world, disk, whole, mark, poolLock, faults>>

\* pool_claim and pool_fork_insert, one transaction: the pool row goes and the
\* World row comes, naming the entry's tree as its temporary.
\* (Mutant: the entry stays in the pool.)
PoolClaimShared(p) ==
  /\ proc[p].pc = "claim"
  /\ \/ \E e \in Entries, w \in Fresh :
          /\ pool[e].st = "ready" /\ disk[PoolPath(e)] # Free /\ snap = "active"
          /\ world' = [world EXCEPT ![w] = Creating(p, PoolPath(e), proc[p].to, e)]
          /\ proc' = [proc EXCEPT ![p].pc = "marker", ![p].e = e, ![p].w = w]
     \/ /\ \A e \in Entries : pool[e].st # "ready"
        /\ Goto(p, "plain") /\ UNCHANGED world
  /\ UNCHANGED <<pool, snap, disk, whole, mark, locked, poolLock, faults>>

PoolClaim(p) ==
  /\ proc[p].pc = "claim"
  /\ \/ \E e \in Entries :
          /\ pool[e].st = "ready"
          /\ \/ /\ disk[PoolPath(e)] = Free
                /\ pool' = [pool EXCEPT ![e].st = "none"]
                /\ Goto(p, "plain") /\ UNCHANGED world
             \/ /\ disk[PoolPath(e)] # Free /\ (snap # "active" \/ Fresh = {})
                /\ Goto(p, "plain") /\ UNCHANGED <<pool, world>>
             \/ \E w \in Fresh :
                  /\ disk[PoolPath(e)] # Free /\ snap = "active"
                  /\ pool' = [pool EXCEPT ![e].st = "none"]
                  /\ world' = [world EXCEPT ![w] = Creating(p, PoolPath(e), proc[p].to, e)]
                  /\ proc' = [proc EXCEPT ![p].pc = "marker", ![p].e = e, ![p].w = w]
     \/ /\ \A e \in Entries : pool[e].st # "ready"
        /\ Goto(p, "plain") /\ UNCHANGED <<pool, world>>
  /\ UNCHANGED <<snap, disk, whole, mark, locked, poolLock, faults>>

\* The branch and the marker; then the one rename that publishes.
Marker(p) ==
  /\ proc[p].pc = "marker"
  /\ \/ /\ mark' = [mark EXCEPT ![proc[p].e] = proc[p].w]
        /\ Goto(p, "publish") /\ NoFault
     \/ Fault /\ Goto(p, "unwind") /\ UNCHANGED mark
  /\ UNCHANGED <<snap, pool, world, disk, whole, locked, poolLock>>

Publish(p) ==
  /\ proc[p].pc = "publish"
  /\ IF disk[Target(proc[p].to)] = Free
     THEN disk' = Moved(PoolPath(proc[p].e), Target(proc[p].to)) /\ Goto(p, "activate")
     ELSE Goto(p, "unwind") /\ UNCHANGED disk
  /\ UNCHANGED <<snap, pool, world, whole, mark, locked, poolLock, faults>>

\* The row, if it is still CREATING; a failing stat or commit takes the
\* published tree back.
Activate(p) ==
  LET w == proc[p].w
  IN /\ proc[p].pc = "activate"
     /\ \/ /\ world[w].st = "creating"
           /\ ReturnWith(p, pool, Activated(w)) /\ NoFault
        \/ /\ IF world[w].st = "creating" THEN Fault ELSE NoFault
           /\ Goto(p, "moveBack")
           /\ UNCHANGED <<pool, world, locked, poolLock>>
     /\ UNCHANGED <<snap, disk, whole, mark>>

\* Back to the pool path; where that fails the row at least names the tree.
MoveBack(p) ==
  LET w == proc[p].w
  IN /\ proc[p].pc = "moveBack"
     /\ \/ /\ disk' = Moved(Target(proc[p].to), PoolPath(proc[p].e))
           /\ Goto(p, "unwind") /\ NoFault
           /\ UNCHANGED <<pool, world, locked, poolLock>>
        \/ /\ Fault
           /\ ReturnWith(p, pool, IF world[w].st = "creating"
                                  THEN [world EXCEPT ![w].tmp = Target(proc[p].to)] ELSE world)
           /\ UNCHANGED disk
     /\ UNCHANGED <<snap, whole, mark>>

\* pool_return with pool_fork_unwind: the entry is a pool row again and the
\* World row is gone, in one transaction, if the snapshot still is active.
\* Otherwise, and always for a Git branch, the tree is removed.
PoolReturn(p) ==
  LET e == proc[p].e
      w == proc[p].w
  IN /\ proc[p].pc = "unwind"
     /\ mark' = [mark EXCEPT ![e] = None]
     /\ \/ /\ ~Git /\ snap = "active" /\ pool[e].id < MaxReturns
           /\ pool' = [pool EXCEPT ![e] = [st |-> "ready", own |-> None, id |-> @.id + 1]]
           /\ world' = Deleted(w)
           /\ Goto(p, "plain")
           /\ UNCHANGED <<disk, whole, faults>>
        \/ /\ Git \/ snap # "active" \/ pool[e].id >= MaxReturns
           /\ \E ok \in BOOLEAN : RemoveTrees({PoolPath(e)}, ok)
           /\ Goto(p, "unwindRow") /\ UNCHANGED <<pool, world>>
     /\ UNCHANGED <<snap, locked, poolLock>>

UnwindRow(p) ==
  /\ proc[p].pc = "unwindRow"
  /\ world' = Deleted(proc[p].w)
  /\ Goto(p, "plain")
  /\ UNCHANGED <<snap, pool, disk, whole, mark, locked, poolLock, faults>>

\* The plain path: a CREATING row first, in one transaction with the look at
\* the snapshot.  (Mutant: the snapshot is not looked at again.)
InsertRowUnchecked(p) ==
  /\ proc[p].pc = "plain"
  /\ \E w \in Fresh :
       /\ world' = [world EXCEPT ![w] = Creating(p, None, proc[p].to, w)]
       /\ proc' = [proc EXCEPT ![p].pc = "setTmp", ![p].w = w]
       /\ UNCHANGED <<pool, locked, poolLock>>
  /\ UNCHANGED <<snap, disk, whole, mark, faults>>

InsertRow(p) ==
  /\ proc[p].pc = "plain"
  /\ \/ /\ proc[p].op = "forkWorld" \/ snap = "active"
        /\ \E w \in Fresh :
             /\ world' = [world EXCEPT ![w] = Creating(p, None, proc[p].to, w)]
             /\ proc' = [proc EXCEPT ![p].pc = "setTmp", ![p].w = w]
             /\ UNCHANGED <<pool, locked, poolLock>>
     \/ ((proc[p].op = "fork" /\ snap # "active") \/ Fresh = {}) /\ Return(p)
  /\ UNCHANGED <<snap, disk, whole, mark, faults>>

\* world_set_tmp_path: the row names the temporary before it exists.
SetTmp(p) ==
  LET w == proc[p].w
  IN /\ proc[p].pc = "setTmp"
     /\ \/ world' = [world EXCEPT ![w].tmp = ForkTmp(w)] /\ Goto(p, "clone") /\ NoFault
        \/ Fault /\ Goto(p, "undoRow") /\ UNCHANGED world
     /\ UNCHANGED <<snap, pool, disk, whole, mark, locked, poolLock>>

\* The tree the fork copies: the snapshot's, or that of the locked World.
SourceThere(p) == IF proc[p].op = "fork" THEN snap = "active"
                  ELSE world[proc[p].src].tree \in whole

Clone(p) ==
  LET w == proc[p].w
  IN /\ proc[p].pc = "clone"
     /\ disk' = [disk EXCEPT ![ForkTmp(w)] = w]
     /\ IF SourceThere(p) THEN Goto(p, "finish") ELSE Goto(p, "undo")
     /\ UNCHANGED <<snap, pool, world, whole, mark, locked, poolLock, faults>>

\* The clone is complete, its links replayed, its branch made, its marker
\* written; or one of these failed.
Finish(p) ==
  LET w == proc[p].w
  IN /\ proc[p].pc = "finish"
     /\ \/ SourceThere(p) /\ whole' = whole \cup {w} /\ mark' = [mark EXCEPT ![w] = w]
           /\ Goto(p, "publishTmp") /\ NoFault
        \/ (IF SourceThere(p) THEN Fault ELSE NoFault)
           /\ Goto(p, "undo") /\ UNCHANGED <<whole, mark>>
     /\ UNCHANGED <<snap, pool, world, disk, locked, poolLock>>

PublishTmp(p) ==
  LET w == proc[p].w
  IN /\ proc[p].pc = "publishTmp"
     /\ IF disk[Target(proc[p].to)] = Free
        THEN disk' = Moved(ForkTmp(w), Target(proc[p].to)) /\ Goto(p, "activateTmp")
        ELSE Goto(p, "undo") /\ UNCHANGED disk
     /\ UNCHANGED <<snap, pool, world, whole, mark, locked, poolLock, faults>>

ActivateTmp(p) ==
  LET w == proc[p].w
  IN /\ proc[p].pc = "activateTmp"
     /\ \/ /\ world[w].st = "creating"
           /\ ReturnWith(p, pool, Activated(w))
           /\ NoFault /\ UNCHANGED disk
        \/ /\ IF world[w].st = "creating" THEN Fault ELSE NoFault
           /\ disk' = Moved(Target(proc[p].to), ForkTmp(w))
           /\ Goto(p, "takeBack")
           /\ UNCHANGED <<pool, world, locked, poolLock>>
     /\ UNCHANGED <<snap, whole, mark>>

TakeBack(p) ==
  /\ proc[p].pc = "takeBack"
  /\ \E ok \in BOOLEAN : RemoveTrees({ForkTmp(proc[p].w)}, ok)
  /\ Return(p)
  /\ UNCHANGED <<snap, mark>>

\* The tree first, then the row; a tree that stays keeps its row.
Undo(p) ==
  /\ proc[p].pc = "undo"
  /\ \/ /\ RemoveTrees({ForkTmp(proc[p].w)}, TRUE)
        /\ Goto(p, "undoRow") /\ UNCHANGED <<pool, world, locked, poolLock>>
     \/ RemoveTrees({ForkTmp(proc[p].w)}, FALSE) /\ Return(p)
  /\ UNCHANGED <<snap, mark>>

UndoRow(p) ==
  /\ proc[p].pc = "undoRow"
  /\ ReturnWith(p, pool, Deleted(proc[p].w))
  /\ UNCHANGED <<snap, disk, whole, mark, faults>>

--------------------------------------------------------------------------
\* wfs_pool_fill and build_one.

\* PoolLock::take: one filler or drain at a time; who finds it taken gives up.
TakePoolLock(p) == poolLock = None /\ poolLock' = p

Fill(p) ==
  /\ proc[p].pc = "idle" /\ "fill" \in Ops
  /\ snap = "active" /\ TakePoolLock(p)
  /\ proc' = [proc EXCEPT ![p] = [Idle EXCEPT !.pc = "build", !.op = "fill"]]
  /\ UNCHANGED <<snap, pool, world, disk, whole, mark, locked, faults>>

\* The row, CREATING, in one transaction with the look at the snapshot; or
\* the pool is full and the command ends.
BuildRow(p) ==
  /\ proc[p].pc = "build"
  /\ \/ \E e \in Entries :
          /\ snap = "active" /\ pool[e].id = 0
          /\ pool' = [pool EXCEPT ![e] = [st |-> "building", own |-> p, id |-> 1]]
          /\ proc' = [proc EXCEPT ![p].pc = "buildClone", ![p].e = e]
          /\ UNCHANGED <<world, locked, poolLock>>
     \/ Return(p)
  /\ UNCHANGED <<snap, disk, whole, mark, faults>>

BuildClone(p) ==
  /\ proc[p].pc = "buildClone"
  /\ disk' = [disk EXCEPT ![PoolTmp(proc[p].e)] = proc[p].e]
  /\ Goto(p, "buildMove")
  /\ UNCHANGED <<snap, pool, world, whole, mark, locked, poolLock, faults>>

\* The clone is complete, its links replayed, and it takes its name.
BuildMove(p) ==
  LET e == proc[p].e
  IN /\ proc[p].pc = "buildMove"
     /\ \/ /\ snap = "active"
           /\ whole' = whole \cup {e}
           /\ disk' = Moved(PoolTmp(e), PoolPath(e))
           /\ Goto(p, "buildReady") /\ NoFault
        \/ (IF snap = "active" THEN Fault ELSE NoFault)
           /\ Goto(p, "buildUndo") /\ UNCHANGED <<disk, whole>>
     /\ UNCHANGED <<snap, pool, world, mark, locked, poolLock>>

BuildReady(p) ==
  /\ proc[p].pc = "buildReady"
  /\ \/ /\ pool' = [pool EXCEPT ![proc[p].e].st = "ready", ![proc[p].e].own = None]
        /\ Goto(p, "build") /\ NoFault /\ UNCHANGED <<world, locked, poolLock>>
     \/ Fault /\ Return(p)
  /\ UNCHANGED <<snap, disk, whole, mark>>

BuildUndo(p) ==
  LET e == proc[p].e
  IN /\ proc[p].pc = "buildUndo"
     /\ \E ok \in BOOLEAN : RemoveTrees({PoolTmp(e)}, ok)
     /\ Goto(p, "buildUnrow")
     /\ UNCHANGED <<snap, pool, world, mark, locked, poolLock>>

BuildUnrow(p) ==
  /\ proc[p].pc = "buildUnrow"
  /\ ReturnWith(p, [pool EXCEPT ![proc[p].e].st = "none"], world)
  /\ UNCHANGED <<snap, disk, whole, mark, faults>>

--------------------------------------------------------------------------
\* wfs_pool_drain.

Drain(p) ==
  /\ proc[p].pc = "idle" /\ "drain" \in Ops
  /\ TakePoolLock(p)
  /\ proc' = [proc EXCEPT ![p] = [Idle EXCEPT !.pc = "drain", !.op = "drain",
                !.todo = {<<e, pool[e].id>> : e \in {f \in Entries : pool[f].st # "none"}}]]
  /\ UNCHANGED <<snap, pool, world, disk, whole, mark, locked, faults>>

\* The row is taken before the tree: from here on no fork is given it.  A row
\* a fork took first is skipped.
DrainRow(p) ==
  /\ proc[p].pc = "drain"
  /\ \/ proc[p].todo = {} /\ Return(p)
     \/ \E <<e, i>> \in proc[p].todo :
          LET mine == pool[e].st # "none" /\ pool[e].id = i
          IN /\ pool' = IF mine THEN [pool EXCEPT ![e].st = "draining"] ELSE pool
             /\ proc' = [proc EXCEPT ![p].todo = @ \ {<<e, i>>}, ![p].e = e, ![p].src = i,
                                     ![p].pc = IF mine THEN "drainTree" ELSE "drain"]
             /\ UNCHANGED <<world, locked, poolLock>>
  /\ UNCHANGED <<snap, disk, whole, mark, faults>>

DrainTree(p) ==
  LET ps == {PoolPath(proc[p].e), PoolTmp(proc[p].e)}
  IN /\ proc[p].pc = "drainTree"
     /\ \/ RemoveTrees(ps, TRUE) /\ Goto(p, "drainEnd")
           /\ UNCHANGED <<pool, world, locked, poolLock>>
        \/ RemoveTrees(ps, FALSE) /\ Return(p)
     /\ UNCHANGED <<snap, mark>>

DrainEnd(p) ==
  LET e == proc[p].e
  IN /\ proc[p].pc = "drainEnd"
     /\ pool' = IF pool[e].st = "draining" /\ pool[e].id = proc[p].src
                THEN [pool EXCEPT ![e].st = "none"] ELSE pool
     /\ Goto(p, "drain")
     /\ UNCHANGED <<snap, world, disk, whole, mark, locked, poolLock, faults>>

--------------------------------------------------------------------------
\* The collector: CREATING Worlds, then pool_collect.

\* (Mutant: the owner is not asked about.)
CollectAll(p) ==
  /\ proc[p].pc = "idle" /\ "gc" \in Ops
  /\ proc' = [proc EXCEPT ![p] = [Idle EXCEPT !.pc = "gcWorlds", !.op = "gc",
                !.todo = {<<w, world[w].tmp>> : w \in {v \in WorldIds : world[v].st = "creating"}}]]
  /\ UNCHANGED <<snap, pool, world, disk, whole, mark, locked, poolLock, faults>>

Collect(p) ==
  /\ proc[p].pc = "idle" /\ "gc" \in Ops
  /\ proc' = [proc EXCEPT ![p] = [Idle EXCEPT !.pc = "gcWorlds", !.op = "gc",
                !.todo = {<<w, world[w].tmp>> :
                          w \in {v \in WorldIds : world[v].st = "creating" /\ world[v].own = None}}]]
  /\ UNCHANGED <<snap, pool, world, disk, whole, mark, locked, poolLock, faults>>

\* gc_tmp_is_removable: the marker is ours or absent, the row still names the
\* tree and is CREATING, and no other live World has that inode.
Removable(w, x) ==
  /\ x # None /\ disk[x] \in Trees
  /\ mark[disk[x]] \in {None, w}
  /\ world[w].st = "creating" /\ world[w].tmp = x
  /\ \A v \in WorldIds \ {w} : world[v].st = "active" => world[v].tree # disk[x]

\* The descriptor is kept: what is removed is the tree that was looked at.
GcWorld(p) ==
  /\ proc[p].pc = "gcWorlds"
  /\ \/ /\ proc[p].todo = {} /\ Goto(p, "gcScan")
     \/ \E <<w, x>> \in proc[p].todo :
          proc' = [proc EXCEPT ![p].todo = @ \ {<<w, x>>}, ![p].w = w, ![p].to = x,
                               ![p].e = IF Removable(w, x) THEN disk[x] ELSE None,
                               ![p].pc = IF Removable(w, x) THEN "gcTree" ELSE "gcBury"]
  /\ UNCHANGED <<snap, pool, world, disk, whole, mark, locked, poolLock, faults>>

\* trash_unlink_claim; a tree that stays keeps its row.
GcTree(p) ==
  LET x == proc[p].to
      t == proc[p].e
  IN /\ proc[p].pc = "gcTree"
     /\ whole' = whole \ {t}
     /\ \/ disk' = [disk EXCEPT ![x] = IF @ = t THEN Free ELSE @]
           /\ Goto(p, "gcBury") /\ NoFault
        \/ Fault /\ Goto(p, "gcWorlds") /\ UNCHANGED disk
     /\ UNCHANGED <<snap, pool, world, mark, locked, poolLock>>

GcBury(p) ==
  LET w == proc[p].w
  IN /\ proc[p].pc = "gcBury"
     /\ world' = IF world[w].st = "creating" /\ world[w].tmp = proc[p].to
                 THEN [world EXCEPT ![w].st = "dead", ![w].tmp = None] ELSE world
     /\ Goto(p, "gcWorlds")
     /\ UNCHANGED <<snap, pool, disk, whole, mark, locked, poolLock, faults>>

\* pool_scan, and pool_row_still_doomed_locked for one row of it.
Doomed(e) ==
  \/ pool[e].st = "draining"
  \/ pool[e].st = "building" /\ pool[e].own = None
  \/ pool[e].st = "ready" /\ snap # "active"

GcScan(p) ==
  LET rows == {e \in Entries : pool[e].st # "none"}
      kept == {e \in rows : ~Doomed(e)}
  IN /\ proc[p].pc = "gcScan"
     /\ proc' = [proc EXCEPT ![p].pc = "gcRows",
                             ![p].todo = {<<e, pool[e].id>> : e \in rows \ kept},
                             ![p].live = {PoolPath(e) : e \in kept} \cup {PoolTmp(e) : e \in kept}
                               \cup {world[w].tmp : w \in {v \in WorldIds : world[v].st = "creating"}}]
     /\ UNCHANGED <<snap, pool, world, disk, whole, mark, locked, poolLock, faults>>

GcRow(p) ==
  /\ proc[p].pc = "gcRows"
  /\ \/ /\ proc[p].todo = {} /\ Goto(p, "gcList")
     \/ \E <<e, i>> \in proc[p].todo :
          LET still == pool[e].id = i /\ Doomed(e)
          IN proc' = [proc EXCEPT ![p].todo = @ \ {<<e, i>>}, ![p].e = e, ![p].src = i,
                        ![p].live = IF still THEN @ ELSE @ \cup {PoolPath(e), PoolTmp(e)},
                        ![p].pc = IF still THEN "gcDrop" ELSE "gcRows"]
  /\ UNCHANGED <<snap, pool, world, disk, whole, mark, locked, poolLock, faults>>

GcDrop(p) ==
  LET ps == {PoolPath(proc[p].e), PoolTmp(proc[p].e)}
  IN /\ proc[p].pc = "gcDrop"
     /\ \/ RemoveTrees(ps, TRUE) /\ Goto(p, "gcDropRow")
        \/ /\ RemoveTrees(ps, FALSE)
           /\ proc' = [proc EXCEPT ![p].pc = "gcRows", ![p].live = @ \cup ps]
     /\ UNCHANGED <<snap, pool, world, mark, locked, poolLock>>

GcDropRow(p) ==
  /\ proc[p].pc = "gcDropRow"
  /\ pool' = [e \in Entries |-> IF e = proc[p].e /\ pool[e].id = proc[p].src
                                THEN [pool[e] EXCEPT !.st = "none"] ELSE pool[e]]
  /\ Goto(p, "gcRows")
  /\ UNCHANGED <<snap, world, disk, whole, mark, locked, poolLock, faults>>

\* pool_sweep_orphans: trees of the pool directory that no row claimed at the
\* scan; each is asked about again before it goes.
GcList(p) ==
  /\ proc[p].pc = "gcList"
  /\ proc' = [proc EXCEPT ![p].pc = "gcOrphans",
       ![p].todo = {x \in Paths : x[1] \in {"pool", "pooltmp"} /\ disk[x] # Free} \ proc[p].live]
  /\ UNCHANGED <<snap, pool, world, disk, whole, mark, locked, poolLock, faults>>

\* pool_path_claimed_locked.
Claimed(x) ==
  \/ pool[x[2]].st # "none"
  \/ \E w \in WorldIds : world[w].st = "creating" /\ world[w].tmp \in {x, PoolPath(x[2])}

GcOrphan(p) ==
  /\ proc[p].pc = "gcOrphans"
  /\ \/ proc[p].todo = {} /\ Return(p)
     \/ \E x \in proc[p].todo :
          /\ proc' = [proc EXCEPT ![p].todo = @ \ {x}, ![p].to = x,
                                  ![p].pc = IF Claimed(x) THEN "gcOrphans" ELSE "gcSweep"]
          /\ UNCHANGED <<pool, world, locked, poolLock>>
  /\ UNCHANGED <<snap, disk, whole, mark, faults>>

GcSweep(p) ==
  /\ proc[p].pc = "gcSweep"
  /\ \E ok \in BOOLEAN : RemoveTrees({proc[p].to}, ok)
  /\ Goto(p, "gcOrphans")
  /\ UNCHANGED <<snap, pool, world, mark, locked, poolLock>>

--------------------------------------------------------------------------
\* Around them.

\* wfs_snapshot_discard: the references are counted and the row is taken in
\* one transaction (see Trash).
DiscardSnap ==
  /\ "discard" \in Ops /\ snap = "active"
  /\ \A e \in Entries : pool[e].st = "none"
  /\ \A w \in WorldIds : world[w].st \notin {"creating", "active"}
  /\ snap' = "gone"
  /\ UNCHANGED <<pool, world, disk, whole, mark, locked, poolLock, proc, faults>>

\* The snapshot's tree is gone from the disk, and gc --reconcile says so
\* whoever refers to it.
SnapLost ==
  /\ "lost" \in Ops /\ snap = "active"
  /\ snap' = "lost"
  /\ UNCHANGED <<pool, world, disk, whole, mark, locked, poolLock, proc, faults>>

\* wfs_world_discard takes the marker's lock (see Trash); the tree leaves.
DiscardWorld(w) ==
  /\ "discard" \in Ops /\ world[w].st = "active" /\ locked[w] = None
  /\ world' = [world EXCEPT ![w].st = "dead"]
  /\ disk' = [disk EXCEPT ![Target(world[w].to)] = Free]
  /\ UNCHANGED <<snap, pool, whole, mark, locked, poolLock, proc, faults>>

\* The user makes a directory at a path a fork was asked for.
UserMkdir(t) ==
  /\ "user" \in Ops /\ disk[Target(t)] = Free
  /\ disk' = [disk EXCEPT ![Target(t)] = User]
  /\ UNCHANGED <<snap, pool, world, whole, mark, locked, poolLock, proc, faults>>

Die(p) ==
  /\ proc[p].pc # "idle" /\ Fault
  /\ Return(p)
  /\ UNCHANGED <<snap, disk, whole, mark>>

ForkStep(p) ==
  \/ PoolClaim(p) \/ Marker(p) \/ Publish(p) \/ Activate(p) \/ MoveBack(p)
  \/ PoolReturn(p) \/ UnwindRow(p)
  \/ InsertRow(p) \/ SetTmp(p) \/ Clone(p) \/ Finish(p) \/ PublishTmp(p)
  \/ ActivateTmp(p) \/ TakeBack(p) \/ Undo(p) \/ UndoRow(p)
PoolStep(p) ==
  \/ BuildRow(p) \/ BuildClone(p) \/ BuildMove(p) \/ BuildReady(p) \/ BuildUndo(p) \/ BuildUnrow(p)
  \/ DrainRow(p) \/ DrainTree(p) \/ DrainEnd(p)
CollectStep(p) ==
  \/ GcWorld(p) \/ GcTree(p) \/ GcBury(p) \/ GcScan(p) \/ GcRow(p) \/ GcDrop(p)
  \/ GcDropRow(p) \/ GcList(p) \/ GcOrphan(p) \/ GcSweep(p)
Step(p) == ForkStep(p) \/ PoolStep(p) \/ CollectStep(p)

Begin(p) ==
  \/ \E t \in Targets : ForkBegin(p, t)
  \/ \E v \in WorldIds, t \in Targets : ForkWorld(p, v, t)
  \/ Fill(p) \/ Drain(p) \/ Collect(p)

Next ==
  \/ \E p \in Procs : Begin(p) \/ Step(p) \/ Die(p)
  \/ DiscardSnap \/ SnapLost
  \/ \E w \in WorldIds : DiscardWorld(w)
  \/ \E t \in Targets : UserMkdir(t)

Spec == Init /\ [][Next]_vars

--------------------------------------------------------------------------

\* wfs_world_create_ex, pool_collect, wfs_pool_drain, the CREATING pass: a
\* World that is ACTIVE is a complete clone and stands at its target; no
\* drain, no collector and no failing fork beside it has touched its tree.
ActiveWhole ==
  \A w \in WorldIds : world[w].st = "active" =>
    /\ world[w].tree \in whole /\ disk[Target(world[w].to)] = world[w].tree
    /\ mark[world[w].tree] = w

\* pool_claim and pool_return: a prepared tree belongs to one row at a time,
\* so that no two forks are given the same directory.
HandedOnce ==
  \A e \in Entries :
    Cardinality({w \in WorldIds : world[w].st \in {"creating", "active"} /\ world[w].tree = e})
    + (IF pool[e].st = "none" THEN 0 ELSE 1) <= 1

\* snapshot_refs_locked beside the inserts of a fork and of a fill: once a
\* snapshot is discarded, no World and no pool entry has it as its baseline.
BaselineHeld ==
  snap = "gone" =>
    /\ \A e \in Entries : pool[e].st = "none"
    /\ \A w \in WorldIds : world[w].st \notin {"creating", "active"}

\* What fork gives to a caller is complete, in place, marked as this World and
\* in nobody else's hands.
ForksWhole == ActiveWhole /\ HandedOnce
=============================================================================
