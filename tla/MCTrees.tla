------------------------------- MODULE MCTrees -------------------------------
(* Small instances of History, Hardlinks and View: what the retired product    *)
(* records, copies and shows of a tree that is in use.  A behaviour explores   *)
(* one part and leaves the variables of the others alone.                      *)
EXTENDS History, TLC

CONSTANTS r1, r2

VARIABLES part, x1, x2, x3, x4, x5, x6, x7, x8, x9, x10

rest == <<x1, x2, x3, x4, x5, x6, x7, x8, x9, x10>>

\* History of one World: a directory with a file that is absent at first, and a
\* file whose second part is, or is not, over the budget.
MCBelow(p) == IF p = "d" THEN {"d/x"} ELSE {}
OldFile == [kind |-> "file", data |-> <<"x", "x">>, mode |-> "rw", time |-> 0, ino |-> 0]
OneFile(f) == [p \in {"d", "d/x", "f"} |-> IF p = "f" THEN f ELSE Absent]
MCBaselines == {OneFile(OldFile), OneFile([OldFile EXCEPT !.data = <<"big", "x">>])}
MCOrder == <<"d", "d/x", "f">>

\* Two recorders of one file.
Twice == INSTANCE History WITH
  Recorders <- {r1, r2}, Top <- {"f"}, Below <- MCBelow, Order <- <<"f">>, Values <- {"y"}, Modes <- {"rw", "ro"},
  Baselines <- {[p \in {"f"} |-> OldFile]}, MaxEdits <- 2, MaxRefresh <- 0, MaxRecords <- 3,
  world <- x1, base <- x2, content <- x3, rows <- x4, revisions <- x5, marker <- x6, rec <- x7, edits <- x8,
  records <- x9, had <- x10

In(k) == <<"live", k>>
Source(at, outside) == [at |-> at, data |-> [i \in {In(1), In(2), In(3)} |-> "x"], outside |-> outside]
Four(a, b, c, m) == ("a" :> a) @@ ("b" :> b) @@ ("c" :> c) @@ ("m" :> m)
OneDir(n) == "d"

\* A tree with a group of three names, edited once.
Triple == INSTANCE Hardlinks WITH
  Order <- <<"a", "b", "c", "m">>, Excluded <- {"m"}, DirOf <- OneDir, Contents <- {"y"},
  Sources <- {Source(Four(In(1), In(1), In(1), In(2)), {})},
  ReadOnly <- {}, Rewrites <- {"b"}, Workers <- {"w1"}, Jobs <- {"snapshot", "fork", "live"},
  MaxEdits <- 1, MaxFaults <- 0, MaxJobs <- 2,
  src <- x1, job <- x2, worker <- x3, mutex <- x4, snap <- x5, out <- x6, edits <- x7, faults <- x8, jobs <- x9

\* A group that crosses an excluded name beside a file that has a name outside,
\* edited twice.
Linked == INSTANCE Hardlinks WITH
  Order <- <<"a", "b", "c", "m">>, Excluded <- {"m"}, DirOf <- OneDir, Contents <- {"y"},
  Sources <- {Source(Four(In(1), In(1), In(2), In(1)), {In(2)})},
  ReadOnly <- {}, Rewrites <- {"b"}, Workers <- {"w1"}, Jobs <- {"snapshot", "fork", "live"},
  MaxEdits <- 2, MaxFaults <- 0, MaxJobs <- 2,
  src <- x1, job <- x2, worker <- x3, mutex <- x4, snap <- x5, out <- x6, edits <- x7, faults <- x8, jobs <- x9

\* Two workers and two groups in one directory that is read-only, and a file of
\* one of them that Git may rewrite.
Shared == INSTANCE Hardlinks WITH
  Order <- <<"a", "b", "c", "m">>, Excluded <- {}, DirOf <- OneDir, Contents <- {},
  Sources <- {Source(Four(In(1), In(1), In(2), In(2)), {})},
  ReadOnly <- {"d"}, Rewrites <- {"b"}, Workers <- {"w1", "w2"}, Jobs <- {"snapshot", "fork"},
  MaxEdits <- 0, MaxFaults <- 1, MaxJobs <- 2,
  src <- x1, job <- x2, worker <- x3, mutex <- x4, snap <- x5, out <- x6, edits <- x7, faults <- x8, jobs <- x9

\* A mount whose kernel sends one request at a time.
Never(op) == FALSE
Mounted == INSTANCE View WITH
  Root <- 1, Inodes <- {2, 3, 4}, Dirs <- {2}, Names <- {"a", "b"}, Initial <- (<<1, "a">> :> 2) @@ (<<1, "b">> :> 3),
  Threads <- {"t"}, Beside <- Never, MaxDepth <- 4,
  Ops <- {"lookup", "create", "readdir", "link", "unlink", "rename", "reclaim", "write", "chmod"},
  tree <- x1, nodes <- x2, items <- x3, held <- x4, mode <- x5, asked <- x6, req <- x7

PartsInit ==
  /\ Init
  /\ \/ /\ part = "history" /\ x1 = 0 /\ x2 = 0 /\ x3 = 0 /\ x4 = 0 /\ x5 = 0 /\ x6 = 0 /\ x7 = 0 /\ x8 = 0 /\ x9 = 0
        /\ x10 = 0
     \/ part = "recorders" /\ Twice!Init
     \/ part = "triple" /\ Triple!Init /\ x10 = 0
     \/ part = "links" /\ Linked!Init /\ x10 = 0
     \/ part = "shared" /\ Shared!Init /\ x10 = 0
     \/ part = "view" /\ Mounted!Init /\ x8 = 0 /\ x9 = 0 /\ x10 = 0
  /\ part # "history" => base = OneFile(OldFile)

PartsNext ==
  \/ part = "history" /\ Next /\ UNCHANGED <<part, rest>>
  \/ part = "recorders" /\ Twice!Next /\ UNCHANGED <<part, vars>>
  \/ part = "triple" /\ Triple!Next /\ UNCHANGED <<part, vars, x10>>
  \/ part = "links" /\ Linked!Next /\ UNCHANGED <<part, vars, x10>>
  \/ part = "shared" /\ Shared!Next /\ UNCHANGED <<part, vars, x10>>
  \/ part = "view" /\ Mounted!Next /\ UNCHANGED <<part, vars, x8, x9, x10>>

PartsSpec == PartsInit /\ [][PartsNext]_<<part, vars, rest>>

-------------------------------------------------------------------------------
\* wfs_history_record: after a record nobody disturbed the history ends in what the
\* World holds, what it calls observed was there, and under the flock the
\* revisions of two recorders form one chain.
HistoryKept == HistoryTrue /\ (part = "recorders" => Twice!ChainLinked)

\* hardlinks_scan, hardlinks_restore: published groups are whole, relinking loses
\* no content, and links nobody touched survive a snapshot and a fork; a damaged
\* manifest makes no fork with other links; with two workers modes come back and
\* no temporary name is published, also when a call fails.
LinksKept ==
  /\ part = "triple" => Triple!LinksFaithful
  /\ part = "links" => Linked!LinksFaithful
  /\ part = "shared" => Shared!Tidy /\ Shared!SnapshotsForkable /\ Shared!DamageRefused

\* The node table of a mount: the name kept for an inode is a true one, and a
\* mode that was set for a write comes back.
TableTrue == part = "view" => Mounted!TableTrue

\* View: a record of the node table goes only when its item is reclaimed or its
\* last name is removed.
RecordsKept == [][part = "view" => Mounted!RecordsStay]_(Mounted!vars)
===============================================================================
