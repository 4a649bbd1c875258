------------------------------- MODULE MCDaemon -------------------------------
(* Small instances of LevelStore, of the open descriptions of RangeLocks and   *)
(* of the mounted Volume.  A behaviour explores one part and leaves the        *)
(* variables of the others alone.                                              *)
EXTENDS LevelStore, TLC

CONSTANTS t1, t2, t3, root, d1, d2, f1, f2, a, b, h1, h2, h3

VARIABLES part, x1, x2, x3, x4, x5, x6, x7, x8, x9, x10, x11, x12, x13

more == <<x6, x7, x8, x9, x10, x11, x12, x13>>
rest == <<x1, x2, x3, x4, x5, more>>

\* Two open descriptions of one file under three handles.
Locking == INSTANCE RangeLocks WITH
  Tokens <- {t1, t2, t3}, Files <- {f1}, Descriptions <- {d1, d2}, MaxOffset <- 2, MaxSize <- 2, MaxRanges <- 2,
  Calls <- {"lock"}, handles <- x1, desc <- x2, size <- x3, byte <- x4, exact <- x5

Seeking == INSTANCE RangeLocks WITH
  Tokens <- {t1, t2, t3}, Files <- {f1}, Descriptions <- {d1, d2}, MaxOffset <- 3, MaxSize <- 3, MaxRanges <- 2,
  Calls <- {"move"}, handles <- x1, desc <- x2, size <- x3, byte <- x4, exact <- x5

\* Names among three directories; calls fail and replies are lost.
Naming == INSTANCE Volume WITH
  Dirs <- {root, d1, d2}, Files <- {f1}, Root <- root, Names <- {a, b}, Handles <- {h1}, MaxStreams <- 3,
  MaxStarts <- 1, MaxFaults <- 1, Lossy <- TRUE, Calls <- {"names", "open"},
  names <- x1, born <- x2, handles <- x3, session <- x4, items <- x5, open <- x6, job <- x7, streams <- x8,
  started <- x9, alive <- x10, beat <- x11, unsure <- x12, faults <- x13

\* Opens and closes of two files, one of which may replace the other.
Opening == INSTANCE Volume WITH
  Dirs <- {root}, Files <- {f1, f2}, Root <- root, Names <- {a, b}, Handles <- {h1, h2, h3}, MaxStreams <- 3,
  MaxStarts <- 1, MaxFaults <- 1, Lossy <- FALSE, Calls <- {"names", "open"},
  names <- x1, born <- x2, handles <- x3, session <- x4, items <- x5, open <- x6, job <- x7, streams <- x8,
  started <- x9, alive <- x10, beat <- x11, unsure <- x12, faults <- x13

\* The same for one file, when the reply to a call that took effect may be lost.
Losing == INSTANCE Volume WITH
  Dirs <- {root}, Files <- {f1}, Root <- root, Names <- {a}, Handles <- {h1, h2, h3}, MaxStreams <- 3,
  MaxStarts <- 1, MaxFaults <- 1, Lossy <- TRUE, Calls <- {"names", "open"},
  names <- x1, born <- x2, handles <- x3, session <- x4, items <- x5, open <- x6, job <- x7, streams <- x8,
  started <- x9, alive <- x10, beat <- x11, unsure <- x12, faults <- x13

\* Twice as many directory streams as the limit.
Listing == INSTANCE Volume WITH
  Dirs <- {root, d1}, Files <- {f1}, Root <- root, Names <- {a}, Handles <- {h1}, MaxStreams <- 3, MaxStarts <- 6,
  MaxFaults <- 1, Lossy <- FALSE, Calls <- {"names", "streams"},
  names <- x1, born <- x2, handles <- x3, session <- x4, items <- x5, open <- x6, job <- x7, streams <- x8,
  started <- x9, alive <- x10, beat <- x11, unsure <- x12, faults <- x13

NoFive == x1 = 0 /\ x2 = 0 /\ x3 = 0 /\ x4 = 0 /\ x5 = 0
NoMore == x6 = 0 /\ x7 = 0 /\ x8 = 0 /\ x9 = 0 /\ x10 = 0 /\ x11 = 0 /\ x12 = 0 /\ x13 = 0

PartsInit ==
  /\ Init
  /\ \/ part = "store" /\ NoFive /\ NoMore
     \/ part = "locking" /\ Locking!Init /\ NoMore
     \/ part = "seeking" /\ Seeking!Init /\ NoMore
     \/ part = "naming" /\ Naming!Init
     \/ part = "opening" /\ Opening!Init
     \/ part = "listing" /\ Listing!Init

PartsNext ==
  \/ part = "store" /\ Next /\ UNCHANGED <<part, rest>>
  \/ part = "locking" /\ Locking!Next /\ UNCHANGED <<part, vars, more>>
  \/ part = "seeking" /\ Seeking!Next /\ UNCHANGED <<part, vars, more>>
  \/ part = "naming" /\ Naming!Next /\ UNCHANGED <<part, vars>>
  \/ part = "opening" /\ Opening!Next /\ UNCHANGED <<part, vars>>
  \/ part = "listing" /\ Listing!Next /\ UNCHANGED <<part, vars>>

PartsSpec == PartsInit /\ [][PartsNext]_<<part, vars, rest>>

LosingInit == Init /\ part = "losing" /\ Losing!Init
LosingSpec == LosingInit /\ [][Losing!Next /\ UNCHANGED <<part, vars>>]_<<part, vars, rest>>

Symmetry == Permutations({d1, d2}) \cup Permutations({a, b})

-------------------------------------------------------------------------------
\* Namespace::try_lock_range and the handles that share an open description: the ranges kept
\* for it agree with a definition byte by byte, up to the end of the offset
\* space; and Namespace::seek and the sequential calls leave positions that agree
\* with unbounded arithmetic, from the most negative to the largest offset.
DescriptionsExact ==
  /\ part = "locking" => Locking!LocksExact
  /\ part = "seeking" => Seeking!PositionsExact

\* The mounted volume: the cached link counts and parents of its items are true
\* after every callback; between callbacks every mode in which the kernel holds
\* an item open has a daemon handle that serves it; the newest directory
\* streams can be resumed and no new one is refused.
VolumeTrue ==
  /\ part = "naming" => Naming!CachedTrue
  /\ part = "opening" => Opening!OpenServed
  /\ part = "listing" => Listing!StreamsKept

\* closeItem is to "preserve an unlinked inode through a read-capable dup": a
\* file the kernel holds open is served, also when the reply to a call that took
\* effect is lost.
ServedDespiteLoss == part = "losing" => Losing!OpenServed
===============================================================================
