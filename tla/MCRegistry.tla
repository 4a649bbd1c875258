------------------------------ MODULE MCRegistry ------------------------------
(* Small instances of Identity, Diff, StoreUpgrade and the removals of         *)
(* TreeWalk: what the retired product says of the trees and of the store it    *)
(* is responsible for.  A behaviour explores one part and leaves the variables *)
(* of the others alone.                                                        *)
EXTENDS Identity, TLC

CONSTANTS p1, p2, d1, d2, a, b, c, m, s1, s2, i1, i2, Free, Folder, NoProc

VARIABLES part, x1, x2, x3, x4, x5, x6, x7, x8, x9, x10, x11, x12, x13, x14, x15, x16, x17, x18

more == <<x9, x10, x11, x12, x13, x14, x15, x16, x17, x18>>
rest == <<x1, x2, x3, x4, x5, x6, x7, x8, more>>

SizeOf(d) == IF d = "long" THEN 2 ELSE 1
Vals(ns) == [n \in ns |-> 1]
Bare == [list |-> "none", vals |-> <<>>]
Old(d) == [kind |-> "file", data |-> d, time |-> "base", mode |-> "rw", xa |-> Bare]
Dir == [kind |-> "dir", mode |-> "rw"]

\* A directory with a file in it, an empty directory and a file; that file has no
\* attributes, or one that is ignored, or its attributes may not be read.
Letters == {"a", "b", "c"}
OneTree(xa) == [p \in {<<n>> : n \in Letters} \cup (Letters \X Letters) |->
                  CASE p = <<"a">> -> Dir
                    [] p = <<"a", "b">> -> Old("x")
                    [] p = <<"b">> -> [Old("x") EXCEPT !.xa = xa]
                    [] OTHER -> [kind |-> "absent"]]
Prov == [list |-> "listed", vals |-> Vals({"prov"})]
Denied == [list |-> "fails", vals |-> <<>>]
MCBaselines == {OneTree(Bare)}
MCTrees == {OneTree(Prov), OneTree(Denied)}
MCAttrs == {Bare, Prov, Denied, [list |-> "opaque", vals |-> Vals({"user"})],
            [list |-> "listed", vals |-> Vals({"user"})], [list |-> "listed", vals |-> Vals({"user", "tag", "prov"})]}

Events == INSTANCE Diff WITH
  Names <- Letters, Datas <- {"y"}, Size <- SizeOf, Ignored <- {"prov"}, Attrs <- {}, Modes <- {"rw", "none"},
  Targets <- {"nowhere"}, Baselines <- MCBaselines, NamesCap <- 1, FlagSets <- {{"events"}},
  Edits <- {"write", "mode", "link", "remove", "rename", "lose", "fork"}, MaxEdits <- 2,
  world <- x1, snap <- x2, pending <- x3, journal <- x4, stream <- x5, origin <- x6, diff <- x7, edits <- x8

Scan == INSTANCE Diff WITH
  Names <- Letters, Datas <- {"x", "y", "long"}, Size <- SizeOf, Ignored <- {"prov"}, Attrs <- MCAttrs,
  Modes <- {"rw", "none"}, Targets <- {"nowhere"}, Baselines <- MCTrees, NamesCap <- 1,
  FlagSets <- {{}, {"allxattrs"}},
  Edits <- {"write", "mode", "attr", "dir", "link", "remove", "rename"}, MaxEdits <- 2,
  world <- x1, snap <- x2, pending <- x3, journal <- x4, stream <- x5, origin <- x6, diff <- x7, edits <- x8

\* Two openers beside a process of the old version.
Upgrade == INSTANCE StoreUpgrade WITH
  Openers <- {p1, p2}, Legacy <- {m}, Stubs <- {s1, s2}, Inodes <- {i1, i2}, Dir <- Folder,
  Starts <- {"schema2", "schema2_wal", "no_stub", "empty"}, MaxFaults <- 0, MaxCrashes <- 0, LegacyWrites <- FALSE,
  version <- x1, names <- x2, db <- x3, side <- x4, lock <- x5, up <- x6, m1 <- x7, budget <- x8, rows <- x9

Chain == "a" :> "root" @@ "d" :> "root" @@ "e" :> "d" @@ "c" :> "e" @@ "b" :> "e"
Removal == INSTANCE TreeWalk WITH
  Nodes <- {"root", "a", "d", "e", "c", "b"}, Root <- "root", Parent <- Chain, Dirs <- {"root", "d", "e"},
  Pruned <- {}, Plain <- {}, Sealed <- {"e"}, Want <- 2, Kinds <- {"parallel", "serial", "fd"}, Timed <- TRUE,
  MaxFaults <- 2, MaxSlips <- 2, RootSlips <- FALSE,
  kind <- x1, present <- x2, bits <- x3, stack <- x4, dirs <- x5, idle <- x6, threads <- x7, done <- x8, err <- x9,
  worker <- x10, main <- x11, seen <- x12, count <- x13, tries <- x14, late <- x15, result <- x16, faults <- x17,
  slips <- x18

NoEight == x1 = 0 /\ x2 = 0 /\ x3 = 0 /\ x4 = 0 /\ x5 = 0 /\ x6 = 0 /\ x7 = 0 /\ x8 = 0
NoMore == x10 = 0 /\ x11 = 0 /\ x12 = 0 /\ x13 = 0 /\ x14 = 0 /\ x15 = 0 /\ x16 = 0 /\ x17 = 0 /\ x18 = 0

PartsInit ==
  /\ Init
  /\ \/ part = "registry" /\ NoEight /\ x9 = 0 /\ NoMore
     \/ part = "events" /\ Events!Init /\ x9 = 0 /\ NoMore
     \/ part = "scan" /\ Scan!Init /\ x9 = 0 /\ NoMore
     \/ part = "upgrade" /\ Upgrade!Init /\ NoMore
     \/ part = "removal" /\ Removal!Init

PartsNext ==
  \/ part = "registry" /\ Next /\ UNCHANGED <<part, rest>>
  \/ part = "events" /\ Events!Next /\ UNCHANGED <<part, vars, more>>
  \/ part = "scan" /\ Scan!Next /\ UNCHANGED <<part, vars, more>>
  \/ part = "upgrade" /\ Upgrade!Next /\ UNCHANGED <<part, vars, x10, x11, x12, x13, x14, x15, x16, x17, x18>>
  \/ part = "removal" /\ Removal!Next /\ UNCHANGED <<part, vars>>

PartsSpec == PartsInit /\ [][PartsNext]_<<part, vars, rest>>

Symmetry == Permutations({p1, p2}) \cup Permutations({s1, s2}) \cup Permutations({b, c})

-------------------------------------------------------------------------------
\* wfs_world_diff_ex: an answer, from the journal or from a scan nobody
\* disturbed, is exactly how the World differs from its snapshot, or an error.
DiffExact == (part = "events" => Events!EventsExact) /\ (part = "scan" => Scan!ScanExact)

\* db_move_to_schema3, legacy_holders_gate: the old version works in no database
\* that was moved or made by an opener, and the rows stay where an opener finds
\* them.
StoreKept == part = "upgrade" => Upgrade!StoreKept

\* fs_remove_tree and its variants: the result, the count and what is left on
\* disk agree.
RemovalTrue == part = "removal" => Removal!RemovalTrue
===============================================================================
