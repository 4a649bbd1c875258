----------------------------- MODULE MCRevisions -----------------------------
(* Small instances of Compaction, of Revisions, of the treap beside the map it *)
(* stands for and of directory cursors: what Worlds and revisions hold.  A     *)
(* behaviour explores one part and leaves the variables of the others alone.   *)
EXTENDS Compaction, TLC

CONSTANTS v1, v2, w1, w2, main, fork, r1, r2, c1, Nil

VARIABLES part, x1, x2, x3, x4, x5, x6, x7, x8

rest == <<x1, x2, x3, x4, x5, x6, x7, x8>>
RootOnly == 1 :> "v"

\* Two Worlds, two revisions and a cursor over trees of three keys.
Mixed == [k \in 1 .. 3 |-> (k * 2) % 3]
Graph == INSTANCE Revisions WITH
  Keys <- 1 .. 3, RootKey <- 1, Priority <- Mixed, Values <- {v1, v2}, MaxHeight <- 256, Worlds <- {main, fork},
  Main <- main, Names <- {r1, r2}, Cursors <- {c1}, MaxBatch <- 1, MaxSequence <- 5,
  flat <- x1, heads <- x2, revisions <- x3, bases <- x4, registry <- x5, objects <- x6, cursors <- x7, sequence <- x8

\* Six keys with priorities that are neither sorted nor all different.
Colliding == [k \in 1 .. 6 |-> (k * 3) % 4]
Treap == INSTANCE TreapMap WITH
  Keys <- 1 .. 6, Priority <- Colliding, Values <- {v1, v2}, MaxHeight <- 256, MaxBatch <- 2, root <- x1, map <- x2

\* A directory of three names before another directory's, read while entries come, change and go.
Listed == INSTANCE Directory WITH
  Keys <- 1 .. 4, Priority <- [k \in 1 .. 4 |-> (k * 2) % 3], Values <- {v1, v2}, MaxHeight <- 256,
  Lower <- 1, Upper <- 4, Cursors <- {c1}, MaxLimit <- 3, head <- x1, cursors <- x2, listed <- x3

ASSUME Instances == /\ Graph!RevisionsAssumption /\ Graph!MetadataTreeAssumption
                    /\ Treap!MetadataTreeAssumption

NoMore == x4 = 0 /\ x5 = 0 /\ x6 = 0 /\ x7 = 0 /\ x8 = 0
more == <<x4, x5, x6, x7, x8>>

PartsInit ==
  /\ Init
  /\ \/ part = "runs" /\ x1 = 0 /\ x2 = 0 /\ x3 = 0 /\ NoMore
     \/ part = "revisions" /\ Graph!Init
     \/ part = "treap" /\ Treap!Init /\ x3 = 0 /\ NoMore
     \/ part = "directory" /\ Listed!Init /\ NoMore

PartsNext ==
  \/ part = "runs" /\ Next /\ UNCHANGED <<part, rest>>
  \/ part = "revisions" /\ Graph!Next /\ UNCHANGED <<part, vars>>
  \/ part = "treap" /\ Treap!Next /\ UNCHANGED <<part, vars, x3, more>>
  \/ part = "directory" /\ Listed!Next /\ UNCHANGED <<part, vars, more>>

PartsSpec == PartsInit /\ [][PartsNext]_<<part, vars, rest>>

-------------------------------------------------------------------------------
\* MetadataTree::update, get, page: lookups, ranges and pages answer as a map
\* would, and equal maps have equal roots; read_directory: the pages of a cursor
\* are the listing of the moment it was opened, whatever is committed meanwhile.
TreapExact == /\ part = "treap" => Treap!TreapExact
              /\ part = "directory" => Listed!PagesExact

\* Container::collect_garbage against everything that holds on to objects:
\* nothing retained or listed by the registry is ever missing, and what a
\* collection leaves is exactly what is retained.
CollectionExact ==
  /\ [](part = "revisions" => Graph!RetainedStored)
  /\ [][part = "revisions" => Graph!LeavesRetained]_(Graph!vars)
===============================================================================
