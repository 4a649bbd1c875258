------------------------------- MODULE MCWorlds -------------------------------
(* Small instances of Trash, Pool and Snapshots, the three ways in which      *)
(* commands of the retired product create and destroy trees.  A behaviour     *)
(* explores one part; the variables of the other parts keep one value.        *)
EXTENDS Snapshots, TLC

CONSTANTS p1, p2, w1, s1, e1, t1, t2, User, g1, g2, Stranger, Free

VARIABLES part, x1, x2, x3, x4, x5, x6, x7, x8, x9, x10

OneBase == [w \in {w1} |-> s1]
rest == <<x1, x2, x3, x4, x5, x6, x7, x8, x9, x10>>

\* Commands that die anywhere, and recovery that runs alone.
Bin == INSTANCE Trash WITH
  Worlds <- {w1}, Snaps <- {s1}, BaseOf <- OneBase, Cross <- {}, Procs <- {p1, p2},
  Retention <- 1, MaxClock <- 1, MaxCrashes <- 1, MaxMoves <- 0, SoloRecovery <- TRUE,
  Ops <- {"discard", "now", "restore", "open", "gc"},
  row <- x1, fs <- x2, torn <- x3, proc <- x4, txn <- x5, marked <- x6, clock <- x7, crashes <- x8, moves <- x9

\* The World's tree is on another volume than the trash, and users move trees.
Moves == INSTANCE Trash WITH
  Worlds <- {w1}, Snaps <- {s1}, BaseOf <- OneBase, Cross <- {w1}, Procs <- {p1, p2},
  Retention <- 0, MaxClock <- 0, MaxCrashes <- 0, MaxMoves <- 1, SoloRecovery <- TRUE,
  Ops <- {"discard", "now", "restore", "open", "gc"},
  row <- x1, fs <- x2, torn <- x3, proc <- x4, txn <- x5, marked <- x6, clock <- x7, crashes <- x8, moves <- x9

\* Forks from the pool of prepared Worlds beside its filling, draining and sweeping.
Forks == INSTANCE Pool WITH
  Procs <- {p1, p2}, Entries <- {e1}, MaxWorlds <- 2, Targets <- {t1}, Git <- FALSE,
  Ops <- {"fork", "fill", "drain", "gc", "lost", "user"}, MaxReturns <- 2, MaxFaults <- 1,
  snap <- x1, pool <- x2, world <- x3, disk <- x4, whole <- x5, mark <- x6, locked <- x7, poolLock <- x8,
  proc <- x9, faults <- x10

\* Forks of snapshots and of Worlds beside a discard of the snapshot.
Discards == INSTANCE Pool WITH
  Procs <- {p1, p2}, Entries <- {e1}, MaxWorlds <- 2, Targets <- {t1, t2}, Git <- FALSE,
  Ops <- {"fork", "forkWorld", "fill", "gc", "discard"}, MaxReturns <- 2, MaxFaults <- 0,
  snap <- x1, pool <- x2, world <- x3, disk <- x4, whole <- x5, mark <- x6, locked <- x7, poolLock <- x8,
  proc <- x9, faults <- x10

PartsInit ==
  /\ Init
  /\ \/ part = "snapshots" /\ x1 = 0 /\ x2 = 0 /\ x3 = 0 /\ x4 = 0 /\ x5 = 0 /\ x6 = 0 /\ x7 = 0 /\ x8 = 0 /\ x9 = 0
        /\ x10 = 0
     \/ part = "trash" /\ Bin!Init /\ x10 = 0
     \/ part = "moves" /\ Moves!Init /\ x10 = 0
     \/ part = "forks" /\ Forks!Init
     \/ part = "discards" /\ Discards!Init

PartsNext ==
  \/ part = "snapshots" /\ Next /\ UNCHANGED <<part, rest>>
  \/ part = "trash" /\ Bin!Next /\ UNCHANGED <<part, vars, x10>>
  \/ part = "moves" /\ Moves!Next /\ UNCHANGED <<part, vars, x10>>
  \/ part = "forks" /\ Forks!Next /\ UNCHANGED <<part, vars>>
  \/ part = "discards" /\ Discards!Next /\ UNCHANGED <<part, vars>>

PartsSpec == PartsInit /\ [][PartsNext]_<<part, vars, rest>>

Symmetry == Permutations({p1, p2}) \cup Permutations({g1, g2})

-------------------------------------------------------------------------------
\* wfs_world_discard, wfs_world_restore and trashing_recover: through
\* crashes a live World keeps its baseline and a tree in the trash is named by
\* its row, and whoever moves trees about, only what lies in the trash is
\* deleted.
TrashTrue ==
  /\ part = "trash" => Bin!TrashSound
  /\ part = "moves" => Moves!OnlyTrashDeleted

\* A World handed out by a fork is whole and handed out once (pool_claim),
\* and the snapshot of a fork in progress is there until the fork's row is
\* (wfs_world_create_ex, wfs_snapshot_discard).
ForksSound ==
  /\ part = "forks" => Forks!ForksWhole
  /\ part = "discards" => Discards!BaselineHeld
===============================================================================
