------------------------------ MODULE MCCoreLive ------------------------------
(* What must happen in the end in the retired core: TreeWalk, ExecLock,        *)
(* Collector and StoreUpgrade. A behaviour explores one part and leaves the    *)
(* variables of the others alone.                                              *)
EXTENDS TreeWalk, TLC

CONSTANTS p1, p2, e1, e2, Dir, m, s1, s2, i1, i2, Free, NoProc, None

VARIABLES part, x1, x2, x3, x4, x5, x6, x7, x8, x9

rest == <<x1, x2, x3, x4, x5, x6, x7, x8, x9>>

\* A file beside a directory that holds a directory with a file, and one that is
\* pruned.
MCParent == "a" :> "root" @@ "d" :> "root" @@ "x" :> "root" @@ "e" :> "d" @@ "c" :> "e"

Exec == INSTANCE ExecLock WITH
  Procs <- {p1, p2}, Inodes <- {i1, i2}, Ops <- {"exec", "guard"}, MaxFaults <- 1,
  path <- x1, text <- x2, flock <- x3, pids <- x4, proc <- x5, child <- x6, faults <- x7

Purge == INSTANCE Collector WITH
  Procs <- {p1, p2}, Entries <- {e1, e2}, Orphans <- {e2}, Retentions <- {"waiting", "due"}, FailCap <- 2,
  Batch <- 1, MaxCommands <- 1, MaxFaults <- 1,
  entry <- x1, parts <- x2, stuck <- x3, readable <- x4, fails <- x5, lock <- x6, proc <- x7, commands <- x8,
  faults <- x9

\* One opener that crashes and fails beside a process of the old version.
Upgrade == INSTANCE StoreUpgrade WITH
  Openers <- {p1}, Legacy <- {m}, Stubs <- {s1, s2}, Inodes <- {i1, i2}, 
  Starts <- {"schema2", "schema2_wal", "no_stub"}, MaxFaults <- 2, MaxCrashes <- 2, LegacyWrites <- TRUE,
  version <- x1, names <- x2, db <- x3, side <- x4, lock <- x5, up <- x6, m1 <- x7, budget <- x8, rows <- x9

PartsInit ==
  /\ Init
  /\ \/ part = "walk" /\ x1 = 0 /\ x2 = 0 /\ x3 = 0 /\ x4 = 0 /\ x5 = 0 /\ x6 = 0 /\ x7 = 0 /\ x8 = 0 /\ x9 = 0
     \/ part = "exec" /\ Exec!Init /\ x8 = 0 /\ x9 = 0
     \/ part = "purge" /\ Purge!Init
     \/ part = "upgrade" /\ Upgrade!Init
  /\ part # "walk" => kind = "pre"

PartsNext ==
  \/ part = "walk" /\ Next /\ UNCHANGED <<part, rest>>
  \/ part = "exec" /\ Exec!Next /\ UNCHANGED <<part, vars, x8, x9>>
  \/ part = "purge" /\ Purge!Next /\ UNCHANGED <<part, vars>>
  \/ part = "upgrade" /\ Upgrade!Next /\ UNCHANGED <<part, vars>>

\* The threads of a walk and its caller run.
ThreadsRun ==
  /\ WF_vars(part = "walk" /\ Caller)
  /\ \A t \in Threads : WF_vars(part = "walk" /\ Work(t))

\* Commands and workers that were started run on, the World is used and the
\* store is opened again and again.
CommandsRun ==
  /\ \A p \in {p1, p2} : /\ WF_(Exec!vars)(part = "exec" /\ Exec!Step(p))
                         /\ WF_(Exec!vars)(part = "exec" /\ \E op \in {"exec", "guard"} : Exec!Start(p, op))
                         /\ WF_(Purge!vars)(part = "purge" /\ Purge!Step(p))
  /\ WF_(Upgrade!vars)(part = "upgrade" /\ (Upgrade!CheckVersion(p1) \/ Upgrade!Step(p1)) /\ UNCHANGED x9)

LiveSpec == PartsInit /\ [][PartsNext]_<<part, vars, rest>> /\ ThreadsRun /\ CommandsRun

-------------------------------------------------------------------------------
\* kGcFailCap: the chain of workers ends.  What cannot be deleted, and a
\* directory that cannot be read, stop waking a successor after as many attempts.
\* Said of runs in which forks, which ask again each time, come to an end too.
ChainEnds ==
  <>[][part = "purge" => ~\E p \in {p1, p2} : Purge!Fork(p)]_(Purge!vars)
    => <>[](part = "purge" => ~Purge!Working)

\* wfs_gc_ex: while the store is used, every due tree that can be deleted is
\* deleted, whichever command, worker or successor died, failed or lost the flock.
Collected ==
  (\A p \in {p1, p2} : WF_(Purge!vars)(part = "purge" /\ Purge!Fork(p)))
    => \A e \in {e1, e2} :
         (part = "purge" /\ Purge!Waits(e)) ~> (part = "purge" => Purge!Deleted(e) \/ Purge!Lost(e))

\* store_layout, open_failure_verdict: no crash, fault or refusal of the upgrade
\* makes a later open call the store damaged.
NeverDamaged == part = "upgrade" => Upgrade!NeverDamaged

\* wfs_store_open: when the processes of the old version have gone, an opener
\* that retries is given the store again and again, whatever its crashes and
\* faults left behind.
Takeover ==
  <>[](part = "upgrade" /\ Upgrade!LegacyGone) => []<>(part = "upgrade" => Upgrade!Served)

\* walk_worker, fs_walk_tree_ex: the walk returns, also when threads could not
\* be started, when a worker fails while others wait, and when all of them run
\* out of work at once.
WalkEnds == <>(part = "walk" => Returned)

\* exec_lock_guard: a lock file whose holder died does not stay; a pid that is
\* gone or that belongs to somebody else by now does not keep the World busy.
StaleCleared ==
  \A i \in {i1, i2} : (part = "exec" /\ Exec!Stale(i)) ~> (part = "exec" => ~Exec!Stale(i))

\* cmd_exec: a signal that arrives once the command has been waited for ends the
\* inspection and is the exit status, also in the moment before g_post_capture
\* is set.
SignalKept == [][part = "exec" => Exec!SignalCounts]_(Exec!vars)
===============================================================================
