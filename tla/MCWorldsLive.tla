----------------------------- MODULE MCWorldsLive -----------------------------
(* What commands of the retired product leave behind when they die, and who    *)
(* clears it: Trash and Snapshots on smaller instances, for liveness.  A       *)
(* behaviour explores one part.                                                *)
EXTENDS Naturals, FiniteSets

CONSTANTS p1, p2, w1, s1, None, Free, Stranger

VARIABLES part, x1, x2, x3, x4, x5, x6, x7, x8, x9, x10, x11

vars == <<part, x1, x2, x3, x4, x5, x6, x7, x8, x9, x10, x11>>

Bin == INSTANCE Trash WITH
  Worlds <- {w1}, Snaps <- {s1}, BaseOf <- [w \in {w1} |-> s1], Cross <- {}, Procs <- {p1, p2},
  Retention <- 0, MaxClock <- 0, MaxCrashes <- 1, MaxMoves <- 0, SoloRecovery <- TRUE,
  Ops <- {"discard", "restore", "open", "gc"},
  row <- x1, fs <- x2, torn <- x3, proc <- x4, txn <- x5, marked <- x6, clock <- x7, crashes <- x8, moves <- x9

Shots == INSTANCE Snapshots WITH
  Procs <- {p1, p2}, MaxSnaps <- 1, Groups <- {}, Ops <- {"create", "verify", "diff", "gc"}, MaxFaults <- 2,
  row <- x1, tmp <- x2, dir <- x3, man <- x4, gate <- x5, lock <- x6, died <- x7, lost <- x8, verdict <- x9,
  proc <- x10, faults <- x11

Init ==
  \/ part = "trash" /\ Bin!Init /\ x10 = 0 /\ x11 = 0
  \/ part = "snapshots" /\ Shots!Init

Next ==
  \/ part = "trash" /\ Bin!Next /\ UNCHANGED <<part, x10, x11>>
  \/ part = "snapshots" /\ Shots!Next /\ UNCHANGED part

\* A running process takes its steps: SQLite's busy handler retries a BEGIN
\* IMMEDIATE until the short transactions of the others let it through.  The
\* store is opened and gc is run again and again.
CommandsRun ==
  /\ \A p \in {p1, p2} : SF_(Bin!vars)(part = "trash" /\ Bin!Step(p))
  /\ SF_(Bin!vars)(part = "trash" /\ \E p \in {p1, p2} : Bin!StartRecover(p, "open"))
  /\ \A p \in {p1, p2} : WF_(Shots!vars)(part = "snapshots" /\ Shots!Step(p))
  /\ SF_(Shots!vars)(part = "snapshots" /\ \E p \in {p1, p2} : Shots!Collect(p))

Spec == Init /\ [][Next]_vars /\ CommandsRun

-------------------------------------------------------------------------------
\* trashing_recover: a discard or restore whose process is gone does not stay in
\* flight for ever, as long as the store is opened now and then.
Resolved ==
  \A x \in {w1, s1} : (part = "trash" /\ Bin!Stranded(x)) ~> (part = "trash" => ~Bin!InFlight(x))

\* wfs_gc_ex: temporaries and CREATING rows of commands that died are gone
\* after the collections that follow.
Reaped ==
  \A s \in Shots!SnapIds :
    /\ (part = "snapshots" /\ Shots!Temporary(s) /\ Shots!Abandoned(s))
          ~> (part = "snapshots" => ~Shots!Temporary(s))
    /\ (part = "snapshots" /\ Shots!Creating(s) /\ Shots!Abandoned(s))
          ~> (part = "snapshots" => ~Shots!Creating(s))
===============================================================================
