------------------------------- MODULE ExecLock -------------------------------
(***************************************************************************)
(* The exec lock of one World (core/src/world.cpp) and the commands that   *)
(* use it: `world exec`, which holds it while its child runs (cmd_exec of  *)
(* cli/main.cpp), and discard, checkpoint and fork, which refuse while it  *)
(* is held (exec_lock_guard).  The lock is a file that names its holder's  *)
(* pid, under a flock; a file judged stale is unlinked by its path.        *)
(***************************************************************************)
EXTENDS Integers, FiniteSets

CONSTANTS Procs,      \* processes; a dead one's pid is not used again, or is
          Inodes,     \* files that may be created at the lock's path
          None,
          Ops,        \* the commands of an instance: "exec", "guard"
          MaxFaults   \* bound on deaths, signals and failures

VARIABLES path,    \* the inode at <store>/locks/W<n>.lock
          text,    \* the pid an inode's text names
          flock,   \* the holder of an inode's flock
          pids,    \* pids kill(pid, 0) finds
          proc,    \* the processes
          child,   \* the command: none, runs, zombie (not waited for), reaped
          faults

vars == <<path, text, flock, pids, proc, child, faults>>

Idle == [pc |-> "idle", op |-> "none", fd |-> None, read |-> None,
         came |-> FALSE, kept |-> FALSE, exit |-> "none"]

Init ==
  /\ path = None
  /\ text = [i \in Inodes |-> None]
  /\ flock = [i \in Inodes |-> None]
  /\ pids = {}
  /\ proc = [p \in Procs |-> Idle]
  /\ child = [p \in Procs |-> "none"]
  /\ faults = 0

Fault == faults < MaxFaults /\ faults' = faults + 1
Go(p, pc) == proc' = [proc EXCEPT ![p].pc = pc]
Drop(p) == flock' = [i \in Inodes |-> IF flock[i] = p THEN None ELSE flock[i]]
InUse == {path} \cup {proc[p].fd : p \in Procs}

(* The process ends; its pid goes. *)
Exit(p) ==
  /\ proc' = [proc EXCEPT ![p] = [Idle EXCEPT !.exit = proc[p].exit]]
  /\ pids' = pids \ {p}

Start(p, op) ==
  /\ proc[p].pc = "idle" /\ p \notin pids
  /\ op \in Ops
  /\ proc' = [proc EXCEPT ![p] = [Idle EXCEPT !.pc = "probe", !.op = op]]
  /\ pids' = pids \cup {p}
  /\ child' = [child EXCEPT ![p] = "none"]
  /\ UNCHANGED <<path, text, flock, faults>>

-----------------------------------------------------------------------------
(* lock_probe. *)

(* No file, no holder: exec goes on to take the lock, a guard lets pass. *)
Unlocked(p) == IF proc[p].op = "exec" THEN "open" ELSE "act"

ProbeOpen(p) ==
  /\ proc[p].pc = "probe"
  /\ proc' = [proc EXCEPT ![p].fd = path,
                          ![p].read = IF path = None THEN None ELSE text[path],
                          ![p].pc = IF path = None THEN Unlocked(p) ELSE "judge"]
  /\ UNCHANGED <<path, text, flock, pids, child, faults>>

(* A pid that is gone is stale.  One that is there may be another process,   *)
(* so the flock is tried too, and given back at once.                        *)
ProbeJudgePid(p) ==
  /\ proc[p].pc = "judge"
  /\ Go(p, IF proc[p].read \in pids THEN "busy" ELSE "stale")
  /\ UNCHANGED <<path, text, flock, pids, child, faults>>

ProbeJudge(p) ==
  /\ proc[p].pc = "judge"
  /\ CASE proc[p].read \notin pids -> Go(p, "stale") /\ UNCHANGED flock
       [] proc[p].read \in pids /\ flock[proc[p].fd] = None ->
            flock' = [flock EXCEPT ![proc[p].fd] = p] /\ Go(p, "unflock")
       [] OTHER -> Go(p, "busy") /\ UNCHANGED flock
  /\ UNCHANGED <<path, text, pids, child, faults>>

ProbeUnflock(p) ==
  /\ proc[p].pc = "unflock"
  /\ Drop(p)
  /\ Go(p, "stale")
  /\ UNCHANGED <<path, text, pids, child, faults>>

(* unlink takes whatever file the path names by now. *)
ProbeUnlink(p) ==
  /\ proc[p].pc = "stale"
  /\ path' = None
  /\ proc' = [proc EXCEPT ![p].fd = None, ![p].pc = Unlocked(p)]
  /\ UNCHANGED <<text, flock, pids, child, faults>>

(* WFS_E_WORLD_BUSY. *)
Refuse(p) ==
  /\ proc[p].pc = "busy"
  /\ Exit(p)
  /\ UNCHANGED <<path, text, flock, child, faults>>

(* What exec_lock_guard let through. *)
Act(p) ==
  /\ proc[p].pc = "act"
  /\ Exit(p)
  /\ UNCHANGED <<path, text, flock, child, faults>>

-----------------------------------------------------------------------------
(* wfs_world_lock_exec, after its probe. *)

LockOpen(p) ==
  /\ proc[p].pc = "open"
  /\ \E i \in IF path = None THEN Inodes \ InUse ELSE {path} :
       /\ path' = i
       /\ text' = IF path = None THEN [text EXCEPT ![i] = None] ELSE text
       /\ proc' = [proc EXCEPT ![p].fd = i, ![p].pc = "flock"]
  /\ UNCHANGED <<flock, pids, child, faults>>

LockFlock(p) ==
  /\ proc[p].pc = "flock"
  /\ IF flock[proc[p].fd] = None
       THEN flock' = [flock EXCEPT ![proc[p].fd] = p] /\ Go(p, "write")
       ELSE Go(p, "busy") /\ UNCHANGED flock
  /\ UNCHANGED <<path, text, pids, child, faults>>

LockWrite(p) ==
  /\ proc[p].pc = "write"
  /\ \/ /\ text' = [text EXCEPT ![proc[p].fd] = p]
        /\ Go(p, "preflight")
        /\ UNCHANGED <<flock, faults>>
     \/ Fault /\ Drop(p) /\ Go(p, "busy") /\ UNCHANGED text
  /\ UNCHANGED <<path, pids, child>>

-----------------------------------------------------------------------------
(* cmd_exec. *)

(* The sandbox check, the Git capture, the profile, the arguments and the    *)
(* mounts: whatever refuses, the lock is given back first.                   *)
Preflight(p) ==
  /\ proc[p].pc = "preflight"
  /\ \/ Go(p, "fork") /\ child' = [child EXCEPT ![p] = "runs"] /\ UNCHANGED faults
     \/ Go(p, "unlink") /\ Fault /\ UNCHANGED child
  /\ UNCHANGED <<path, text, flock, pids>>

(* The handlers are installed with the signals blocked, g_child set. *)
Handlers(p) ==
  /\ proc[p].pc = "fork"
  /\ Go(p, "wait")
  /\ UNCHANGED <<path, text, flock, pids, child, faults>>

ChildEnds(p) ==
  /\ child[p] = "runs"
  /\ child' = [child EXCEPT ![p] = "zombie"]
  /\ UNCHANGED <<path, text, flock, pids, proc, faults>>

(* waitpid. *)
Reap(p) ==
  /\ proc[p].pc = "wait" /\ child[p] = "zombie"
  /\ child' = [child EXCEPT ![p] = "reaped"]
  /\ Go(p, "reaped")
  /\ UNCHANGED <<path, text, flock, pids, faults>>

(* g_post_capture = 1, g_child = 0, with the signals blocked. *)
PostCapture(p) ==
  /\ proc[p].pc = "reaped"
  /\ Go(p, "inspect")
  /\ UNCHANGED <<path, text, flock, pids, child, faults>>

(* The Git administration is looked at again, unless a signal came. *)
Inspect(p) ==
  /\ proc[p].pc = "inspect"
  /\ Go(p, "unlink")
  /\ UNCHANGED <<path, text, flock, pids, child, faults>>

(* wfs_world_unlock_exec. *)
UnlockUnlink(p) ==
  /\ proc[p].pc = "unlink"
  /\ path' = None
  /\ Go(p, "close")
  /\ UNCHANGED <<text, flock, pids, child, faults>>

(* Closes, restores the handlers and returns: the signal that came after the *)
(* command, or the command's own status.                                     *)
UnlockClose(p) ==
  /\ proc[p].pc = "close"
  /\ Drop(p)
  /\ proc' = [proc EXCEPT ![p] = [Idle EXCEPT !.exit = IF proc[p].kept THEN "signal" ELSE "status"]]
  /\ pids' = pids \ {p}
  /\ UNCHANGED <<path, text, child, faults>>

(* forward_signal.  Before the inspection the signal goes to the child; when *)
(* that one has been waited for, kill answers ESRCH and the signal is kept.  *)
Signalled(p, kept) ==
  /\ proc[p].pc \in {"wait", "reaped", "inspect", "unlink", "close"} /\ child[p] # "none"
  /\ Fault
  /\ proc' = [proc EXCEPT ![p].kept = @ \/ kept, ![p].came = @ \/ child[p] = "reaped"]
  /\ UNCHANGED <<path, text, flock, pids, child>>

Captured(p) == proc[p].pc \in {"inspect", "unlink", "close"}
ForwardSignalOnly(p) == Signalled(p, Captured(p))
ForwardSignal(p) == Signalled(p, Captured(p) \/ child[p] = "reaped")

-----------------------------------------------------------------------------
(* A death drops the flock.  The pid may go to a process of somebody else,   *)
(* for as long as that one lives; one pid at a time does.                    *)
Die(p) ==
  /\ proc[p].pc # "idle"
  /\ Fault
  /\ Drop(p)
  /\ proc' = [proc EXCEPT ![p] = Idle]
  /\ \/ pids' = pids \ {p}
     \/ pids' = pids /\ \A q \in pids : proc[q].pc # "idle"
  /\ UNCHANGED <<path, text, child>>

PidEnds(p) ==
  /\ p \in pids /\ proc[p].pc = "idle"
  /\ pids' = pids \ {p}
  /\ UNCHANGED <<path, text, flock, proc, child, faults>>

Step(p) ==
  \/ ProbeOpen(p) \/ ProbeJudge(p) \/ ProbeUnflock(p) \/ ProbeUnlink(p)
  \/ Refuse(p) \/ Act(p) \/ LockOpen(p) \/ LockFlock(p) \/ LockWrite(p)
  \/ Preflight(p) \/ Handlers(p) \/ ChildEnds(p) \/ Reap(p) \/ PostCapture(p)
  \/ Inspect(p) \/ UnlockUnlink(p) \/ UnlockClose(p)

Next == \E p \in Procs :
  \/ Step(p) \/ Die(p) \/ PidEnds(p) \/ ForwardSignal(p)
  \/ \E op \in Ops : Start(p, op)

Spec == Init /\ [][Next]_vars

-----------------------------------------------------------------------------
(* A lock file whose holder died. *)
Stale(i) == path = i /\ text[i] # None /\ flock[i] = None

(* The exit status is the command's own only if no signal came. *)
SignalCounts == \A p \in Procs : proc[p].pc = "close" /\ proc'[p].exit = "status" => ~proc[p].came

=============================================================================
