------------------------------ MODULE Collector ------------------------------
(***************************************************************************)
(* Who empties the trash: the commands that notice due work and start a    *)
(* background worker (cli/main.cpp), the store-wide flock that keeps one   *)
(* worker at a time, the batch a worker deletes, its hand-over to a        *)
(* successor, and the failure counters that end the chain.  How one entry  *)
(* is claimed and unlinked is in module Trash; here that is one step.      *)
(* A command that starts a worker does so as its last act, so the worker   *)
(* takes the place of its process.                                         *)
(***************************************************************************)
EXTENDS Integers, FiniteSets

CONSTANTS Procs,        \* processes
          Entries,      \* trees that come into the trash
          Orphans,      \* those of them no row names
          Dir,          \* the trash directory, as a key of the counters
          None,         \* nobody holds the flock
          Retentions,   \* states a discard leaves its tree in, by its --retention
          FailCap,      \* kGcFailCap
          Batch,        \* gc_batch_entries
          MaxCommands,  \* bound on the commands that are counted
          MaxFaults     \* bound on faults

VARIABLES entry,     \* where a tree is: home, waiting, due, deleting, gone
          parts,     \* batches a tree's deletion still takes
          stuck,     \* trees that cannot be deleted: blocked, foreign, failing
          readable,  \* the trash directory can be listed
          fails,     \* the gcfail: rows of the meta table
          lock,      \* holder of the flock on locks/gc.lock
          proc,      \* the processes
          commands, faults

vars == <<entry, parts, stuck, readable, fails, lock, proc, commands, faults>>

Idle == [pc |-> "idle", kind |-> "none", jobs |-> {}, done |-> 0, remains |-> FALSE, running |-> FALSE]

Init ==
  /\ entry = [e \in Entries |-> "home"]
  /\ parts \in [Entries -> 1 .. 2]
  /\ stuck = {}
  /\ readable = TRUE
  /\ fails = [k \in Entries \cup {Dir} |-> 0]
  /\ lock = None
  /\ proc = [p \in Procs |-> Idle]
  /\ commands = 0
  /\ faults = 0

Fault == faults < MaxFaults /\ faults' = faults + 1
Command == commands < MaxCommands /\ commands' = commands + 1
Set(p, rec) == proc' = [proc EXCEPT ![p] = rec]
Go(p, pc) == proc' = [proc EXCEPT ![p].pc = pc]
Disk == <<entry, parts, stuck, readable>>
Rest == <<commands, faults>>

Waits(e) == entry[e] \in {"due", "deleting"}

(* trash_scan: the rows, and whatever else lies in a directory it could read. *)
Seen == {e \in Entries : Waits(e) /\ (e \in Orphans => readable)}

(* gc_fail_bump; it goes on past the cap, which changes nothing. *)
BumpRolledBack(k) == fails' = fails
Bump(k) == fails' = [fails EXCEPT ![k] = IF @ < FailCap THEN @ + 1 ELSE @]
Clear(k) == fails' = [fails EXCEPT ![k] = 0]

(* gc_dirs_unreadable_pending: a counter that is there and under the cap. *)
DirsPending == fails[Dir] \in 1 .. FailCap - 1

(* wfs_gc_pending, which asks the same scan as the collector. *)
PendingRows == Seen \ Orphans # {} \/ DirsPending
Pending ==
  \/ Seen # {}
  \/ ~readable /\ fails[Dir] < FailCap
  \/ DirsPending

-----------------------------------------------------------------------------
(* The commands. *)

(* cmd_fork, which asks for a worker when it is done. *)
Fork(p) ==
  /\ proc[p] = Idle
  /\ Set(p, [Idle EXCEPT !.kind = "ask", !.pc = "probe"])
  /\ UNCHANGED <<Disk, fails, lock, Rest>>

(* cmd_discard and cmd_discard_snapshot: the rename has been made, the       *)
(* retention is the default or zero.                                         *)
Discard(p, e) ==
  /\ proc[p] = Idle
  /\ entry[e] = "home" /\ e \notin Orphans
  /\ Command
  /\ \E s \in Retentions : entry' = [entry EXCEPT ![e] = s]
  /\ Set(p, [Idle EXCEPT !.kind = "ask", !.pc = "probe"])
  /\ UNCHANGED <<parts, stuck, readable, fails, lock, faults>>

(* A discard whose row was lost leaves a tree that no row names. *)
Orphan(e) ==
  /\ entry[e] = "home" /\ e \in Orphans
  /\ \E s \in {"due", "deleting"} : entry' = [entry EXCEPT ![e] = s]
  /\ UNCHANGED <<parts, stuck, readable, fails, lock, proc, Rest>>

(* cmd_gc, with or without --now: wfs_gc_ex without the flock. *)
Gc(p, kind) ==
  /\ proc[p] = Idle
  /\ Command
  /\ Set(p, [Idle EXCEPT !.kind = kind, !.pc = "scan"])
  /\ UNCHANGED <<Disk, fails, lock, faults>>

(* gc_worker_probe takes the flock to see whether it is free. *)
ProbeTake(p) ==
  /\ proc[p].pc = "probe"
  /\ IF lock = None
       THEN lock' = p /\ Go(p, "probing")
       ELSE /\ proc' = [proc EXCEPT ![p].running = TRUE, ![p].pc = "ask"]
            /\ UNCHANGED lock
  /\ UNCHANGED <<Disk, fails, Rest>>

ProbeDrop(p) ==
  /\ proc[p].pc = "probing"
  /\ lock' = None
  /\ Go(p, "ask")
  /\ UNCHANGED <<Disk, fails, Rest>>

(* spawn_gc_worker_now; the new process may fail to come up. *)
Spawn(p) ==
  \/ Set(p, [Idle EXCEPT !.kind = "worker", !.pc = "start"]) /\ UNCHANGED faults
  \/ Set(p, Idle) /\ Fault

SpawnIf(p, wanted) ==
  /\ proc[p].pc = "ask"
  /\ IF wanted /\ ~proc[p].running THEN Spawn(p) ELSE Set(p, Idle) /\ UNCHANGED faults
  /\ UNCHANGED <<Disk, fails, lock, commands>>

(* spawn_gc_worker after a fork or discard. *)
SpawnWorker(p) == proc[p].kind = "ask" /\ SpawnIf(p, Pending)

(* The end of cmd_gc, which knows that work remains and only asks whether    *)
(* somebody is on it.                                                        *)
SpawnRest(p) == proc[p].kind = "gc" /\ SpawnIf(p, TRUE)

-----------------------------------------------------------------------------
(* wfs_gc_ex. *)

(* GcLock::take of cmd_gc_worker.  A worker that meets another worker exits; *)
(* meeting a probe, which holds the flock for two system calls, counts as a  *)
(* fault.                                                                    *)
WorkerTake(p) ==
  /\ proc[p].pc = "start"
  /\ lock = None
  /\ lock' = p
  /\ Go(p, "scan")
  /\ UNCHANGED <<Disk, fails, Rest>>

WorkerBusy(p) ==
  /\ proc[p].pc = "start"
  /\ lock # None
  /\ IF proc[lock].pc = "probing" THEN Fault ELSE UNCHANGED faults
  /\ Set(p, Idle)
  /\ UNCHANGED <<Disk, fails, lock, commands>>

Unlock(p) == lock' = IF lock = p THEN None ELSE lock

(* gc_note_unreadable and gc_note_readable, as the collector calls them. *)
NoteDir == IF readable THEN Clear(Dir) ELSE Bump(Dir)
Retry == ~readable /\ fails[Dir] + 1 < FailCap

(* A worker or --now makes its list. *)
ScanTrash(p) ==
  /\ proc[p].pc = "scan" /\ proc[p].kind # "gc"
  /\ NoteDir
  /\ proc' = [proc EXCEPT ![p].jobs = Seen, ![p].remains = Retry, ![p].pc = "loop"]
  /\ UNCHANGED <<Disk, lock, Rest>>

(* WFS_GC_NO_TRASH: a run without --now leaves the trash to a worker. *)
ScanOnly(p) ==
  /\ proc[p].pc = "scan" /\ proc[p].kind = "gc"
  /\ NoteDir
  /\ IF Retry \/ Seen # {} THEN Go(p, "probe") ELSE Set(p, Idle)
  /\ UNCHANGED <<Disk, lock, Rest>>

(* Any of its statements may fail; the call returns the error. *)
ScanFails(p) ==
  /\ proc[p].pc = "scan"
  /\ Fault
  /\ Set(p, Idle)
  /\ Unlock(p)
  /\ UNCHANGED <<Disk, fails, commands>>

(* Interrupted deletions come first. *)
NextJob(p, e) ==
  /\ proc[p].pc = "loop"
  /\ e \in proc[p].jobs
  /\ (\E f \in proc[p].jobs : entry[f] = "deleting") => entry[e] = "deleting"
  /\ proc[p].kind = "worker" => proc[p].done < Batch

(* gc_delete_one finds that the entry is no longer its own. *)
Skip(p, e) ==
  /\ NextJob(p, e)
  /\ ~Waits(e)
  /\ proc' = [proc EXCEPT ![p].jobs = @ \ {e}]
  /\ UNCHANGED <<Disk, fails, lock, Rest>>

(* WFS_E_TRASH_BLOCKED, WFS_E_TRASH_FOREIGN or an errno. *)
JobFails(p, e) ==
  /\ NextJob(p, e)
  /\ Waits(e) /\ e \in stuck
  /\ Bump(e)
  /\ proc' = [proc EXCEPT ![p].jobs = @ \ {e}, ![p].remains = @ \/ fails[e] + 1 < FailCap]
  /\ UNCHANGED <<Disk, lock, Rest>>

(* The entry is deleted, or the deadline of a worker stops in the middle. *)
DeleteOne(p, e) ==
  /\ NextJob(p, e)
  /\ Waits(e) /\ e \notin stuck
  /\ Clear(e)
  /\ IF proc[p].kind = "worker" /\ parts[e] > 1
       THEN /\ entry' = [entry EXCEPT ![e] = "deleting"]
            /\ parts' = [parts EXCEPT ![e] = @ - 1]
            /\ proc' = [proc EXCEPT ![p].remains = TRUE, ![p].pc = "end"]
       ELSE /\ entry' = [entry EXCEPT ![e] = "gone"]
            /\ proc' = [proc EXCEPT ![p].jobs = @ \ {e}, ![p].done = @ + 1]
            /\ UNCHANGED parts
  /\ UNCHANGED <<stuck, readable, lock, Rest>>

(* The budget or the deadline, looked at before each entry.  A deadline that *)
(* passes before anything was deleted counts as a fault.                     *)
BatchEnds(p) ==
  /\ proc[p].pc = "loop"
  /\ proc[p].kind = "worker"
  /\ proc[p].jobs # {}
  /\ IF proc[p].done = 0 THEN Fault ELSE UNCHANGED faults
  /\ proc' = [proc EXCEPT ![p].remains = TRUE, ![p].pc = "end"]
  /\ UNCHANGED <<Disk, fails, lock, commands>>

LoopEnds(p) ==
  /\ proc[p].pc = "loop"
  /\ proc[p].jobs = {}
  /\ Go(p, "end")
  /\ UNCHANGED <<Disk, fails, lock, Rest>>

(* wfs_gc_ex returns and the flock goes. *)
Release(p) ==
  /\ proc[p].pc = "end"
  /\ Unlock(p)
  /\ IF proc[p].kind = "worker" THEN Go(p, "hand") ELSE Set(p, Idle)
  /\ UNCHANGED <<Disk, fails, Rest>>

(* The last line of cmd_gc_worker. *)
HandOver(p) ==
  /\ proc[p].pc = "hand"
  /\ IF proc[p].remains THEN Spawn(p) ELSE Set(p, Idle) /\ UNCHANGED faults
  /\ UNCHANGED <<Disk, fails, lock, commands>>

-----------------------------------------------------------------------------
(* The surroundings. *)

(* The retention of an entry runs out. *)
Tick(e) ==
  /\ entry[e] = "waiting"
  /\ entry' = [entry EXCEPT ![e] = "due"]
  /\ UNCHANGED <<parts, stuck, readable, fails, lock, proc, Rest>>

Die(p) ==
  /\ proc[p] # Idle
  /\ Fault
  /\ Set(p, Idle)
  /\ Unlock(p)
  /\ UNCHANGED <<Disk, fails, commands>>

(* An entry or the directory becomes unusable, and is repaired. *)
Jam(e) ==
  /\ Waits(e) /\ e \notin stuck
  /\ Fault
  /\ stuck' = stuck \cup {e}
  /\ UNCHANGED <<entry, parts, readable, fails, lock, proc, commands>>

Shut ==
  /\ readable
  /\ Fault
  /\ readable' = FALSE
  /\ UNCHANGED <<entry, parts, stuck, fails, lock, proc, commands>>

Repair ==
  /\ ~readable \/ stuck # {}
  /\ stuck' = {} /\ readable' = TRUE
  /\ UNCHANGED <<entry, parts, fails, lock, proc, Rest>>

Step(p) ==
  \/ ProbeTake(p) \/ ProbeDrop(p) \/ SpawnWorker(p) \/ SpawnRest(p) \/ WorkerTake(p) \/ WorkerBusy(p)
  \/ ScanTrash(p) \/ ScanOnly(p) \/ BatchEnds(p) \/ LoopEnds(p) \/ Release(p) \/ HandOver(p)
  \/ \E e \in Entries : Skip(p, e) \/ JobFails(p, e) \/ DeleteOne(p, e)

Next ==
  \/ \E p \in Procs :
       \/ Step(p) \/ Fork(p) \/ ScanFails(p) \/ Die(p)
       \/ \E e \in Entries : Discard(p, e)
       \/ \E k \in {"gc", "now"} : Gc(p, k)
  \/ \E e \in Entries : Orphan(e) \/ Tick(e) \/ Jam(e)
  \/ Shut \/ Repair

Spec == Init /\ [][Next]_vars

-----------------------------------------------------------------------------
Working == \E p \in Procs : proc[p].kind = "worker"
Lost(e) == e \in stuck \/ (e \in Orphans /\ ~readable)

Deleted(e) == entry[e] = "gone"
=============================================================================
