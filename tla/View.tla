-------------------------------- MODULE View --------------------------------
(***************************************************************************)
(* A mounted World of the native-directory product: the node table of      *)
(* core/src/view.cpp under its mutex, and the item table of the frontend   *)
(* in macos/fskit/WorldVolumeHandler.mm, over a real directory.  The node  *)
(* table keeps one name for each inode and every request builds its path   *)
(* from it.  A request is a thread of its own; what it does under a lock   *)
(* or in one system call is one step.                                      *)
(***************************************************************************)
EXTENDS Naturals, Sequences, FiniteSets, TLC, Functions

CONSTANTS
    Root,        \* WFS_INO_ROOT
    Inodes,      \* other inodes
    Dirs,        \* the ones that are directories
    Names,
    Initial,       \* the directory at the start: pairs of directory and name to inodes
    Threads,     \* requests in progress
    Ops,         \* the requests of this instance
    Beside(_),   \* does the kernel send this request beside others?
    MaxDepth     \* kMaxDepth

VARIABLES
    tree,     \* the backing directory
    nodes,    \* wfs_view::nodes, without the root
    items,    \* WorldVolumeH::_items
    held,     \* items that the kernel has and has not given back
    mode,     \* inodes whose mode denies their owner to write
    asked,    \* the inodes for which that is what was asked
    req       \* the requests

vars == <<tree, nodes, items, held, mode, asked, req>>

DirSet == Dirs \union {Root}
None == 0       \* no inode
Idle == [op |-> "none", pc |-> "idle", dir |-> Root, name |-> "", ino |-> None, ddir |-> Root,
         dname |-> "", path |-> <<>>, src |-> <<>>, found |-> None, todo |-> {}, isdir |-> FALSE,
         readonly |-> FALSE]

Used == Range(tree) \union DOMAIN nodes \union held \union {req[t].ino : t \in Threads}
            \union {req[t].found : t \in Threads} \union items

-----------------------------------------------------------------------------
(* The backing file system                                                  *)

\* External: what a path from the mount source names now.
RECURSIVE At(_, _, _)
At(tr, d, p) ==
    IF p = <<>> THEN d
    ELSE IF d \in DirSet /\ <<d, Head(p)>> \in DOMAIN tr THEN At(tr, tr[<<d, Head(p)>>], Tail(p))
    ELSE None
Resolve(p) == At(tree, Root, p)
ParentOf(p) == At(tree, Root, SubSeq(p, 1, Len(p) - 1))
Slot(p) == <<ParentOf(p), p[Len(p)]>>
EmptyDir(i) == \A s \in DOMAIN tree : s[1] # i
Without(f, x) == [y \in DOMAIN f \ {x} |-> f[y]]

\* External: is directory i at or above directory d?
RECURSIVE Above(_, _)
Above(i, d) ==
    \/ i = d
    \/ d # Root /\ \E s \in DOMAIN tree : tree[s] = d /\ Above(i, s[1])

\* External: rename(2), link(2), unlink(2) and rmdir(2) as the platform layer calls them.
CanRename(f, g) ==
    /\ Resolve(f) # None
    /\ ParentOf(g) \in DirSet
    /\ Resolve(f) \in Dirs => ~Above(Resolve(f), ParentOf(g))
    /\ Resolve(g) # None /\ Resolve(g) # Resolve(f) =>
           /\ (Resolve(g) \in Dirs) = (Resolve(f) \in Dirs)
           /\ Resolve(g) \in Dirs => EmptyDir(Resolve(g))
Renamed(f, g) ==
    IF Resolve(f) = Resolve(g) THEN tree
    ELSE Without((Slot(g) :> Resolve(f)) @@ tree, Slot(f))
CanUnlink(p, isdir) ==
    /\ Resolve(p) \notin {None, Root}
    /\ (Resolve(p) \in Dirs) = isdir
    /\ isdir => EmptyDir(Resolve(p))

-----------------------------------------------------------------------------
(* The node table                                                           *)

\* path_locked: the path of an inode as a set of at most one; the empty set is ESTALE or ELOOP.
RECURSIVE PathUpTo(_, _)
PathUpTo(i, depth) ==
    IF i = Root THEN {<<>>}
    ELSE IF i \notin DOMAIN nodes \/ depth = MaxDepth THEN {}
    ELSE {Append(p, nodes[i].name) : p \in PathUpTo(nodes[i].parent, depth + 1)}
PathOf(i) == PathUpTo(i, 0)
ChildPath(d, n) == {Append(p, n) : p \in PathOf(d)}

\* intern: a record that exists keeps its name.
Interned(d, n, i) == IF i \in DOMAIN nodes THEN nodes ELSE (i :> [parent |-> d, name |-> n]) @@ nodes

\* A plausible slip: the record is dropped whatever name it has.
DroppedAny(nt, d, n, i) == IF i \in DOMAIN nt THEN Without(nt, i) ELSE nt
\* A plausible slip: the record of a removed name stays.
DroppedNever(nt, d, n, i) == nt
\* wfs_unlink, wfs_rename: the record goes if this was the name it has.
Dropped(nt, d, n, i) ==
    IF i \in DOMAIN nt /\ nt[i] = [parent |-> d, name |-> n] THEN Without(nt, i) ELSE nt

Init ==
    /\ tree = Initial
    /\ nodes = <<>>
    /\ items = {Root} /\ held = {Root}
    /\ mode = {} /\ asked = {}
    /\ req = [t \in Threads |-> Idle]

-----------------------------------------------------------------------------
(* Requests                                                                 *)

Go(t, r) == req' = [req EXCEPT ![t] = r]
Done(t) == Go(t, Idle)
Free(t, op) ==
    /\ op \in Ops
    /\ req[t].pc = "idle"
    /\ Beside(op) \/ \A u \in Threads : req[u].pc = "idle" \/ Beside(req[u].op)

\* lookupItemNamed, createItemNamed and createSymbolicLinkNamed, enumerateDirectory.
AskLookup(t) ==
    /\ Free(t, "lookup")
    /\ \E d \in held \intersect DirSet, n \in Names :
           Go(t, [Idle EXCEPT !.op = "lookup", !.pc = "path", !.dir = d, !.name = n])
    /\ UNCHANGED <<tree, nodes, items, held, mode, asked>>
AskCreate(t) ==
    /\ Free(t, "create")
    /\ \E d \in held \intersect DirSet, n \in Names, i \in Inodes \ Used :
           Go(t, [Idle EXCEPT !.op = "create", !.pc = "path", !.dir = d, !.name = n, !.ino = i])
    /\ UNCHANGED <<tree, nodes, items, held, mode, asked>>
AskReaddir(t) ==
    /\ Free(t, "readdir")
    /\ \E d \in held \intersect DirSet : Go(t, [Idle EXCEPT !.op = "readdir", !.pc = "path", !.dir = d])
    /\ UNCHANGED <<tree, nodes, items, held, mode, asked>>
\* createLinkToItem
AskLink(t) ==
    /\ Free(t, "link")
    /\ \E d \in held \intersect DirSet, n \in Names, i \in held \ DirSet :
           Go(t, [Idle EXCEPT !.op = "link", !.pc = "source", !.dir = d, !.name = n, !.ino = i])
    /\ UNCHANGED <<tree, nodes, items, held, mode, asked>>
\* removeItem: the kernel has looked the name up before.
AskUnlink(t) ==
    /\ Free(t, "unlink")
    /\ \E d \in held \intersect DirSet, n \in Names :
           /\ <<d, n>> \in DOMAIN tree /\ tree[<<d, n>>] \in held
           /\ Go(t, [Idle EXCEPT !.op = "unlink", !.pc = "path", !.dir = d, !.name = n,
                                 !.ino = tree[<<d, n>>]])
    /\ UNCHANGED <<tree, nodes, items, held, mode, asked>>
\* renameItem
AskRename(t) ==
    /\ Free(t, "rename")
    /\ \E d, e \in held \intersect DirSet, n, m \in Names :
           /\ <<d, n>> \in DOMAIN tree /\ tree[<<d, n>>] \in held
           /\ Go(t, [Idle EXCEPT !.op = "rename", !.pc = "rename", !.dir = d, !.name = n,
                                 !.ddir = e, !.dname = m, !.ino = tree[<<d, n>>]])
    /\ UNCHANGED <<tree, nodes, items, held, mode, asked>>
\* writeContents
AskWrite(t) ==
    /\ Free(t, "write")
    /\ \E i \in held \ DirSet : Go(t, [Idle EXCEPT !.op = "write", !.pc = "path", !.ino = i])
    /\ UNCHANGED <<tree, nodes, items, held, mode, asked>>
\* setAttributes with a mode
AskChmod(t) ==
    /\ Free(t, "chmod")
    /\ \E i \in held \ DirSet, ro \in BOOLEAN :
           Go(t, [Idle EXCEPT !.op = "chmod", !.pc = "path", !.ino = i, !.readonly = ro])
    /\ UNCHANGED <<tree, nodes, items, held, mode, asked>>
\* reclaimItem: the kernel gives an item back; the items below a directory went before it.
AskReclaim(t) ==
    /\ Free(t, "reclaim")
    /\ \E i \in held \ {Root} :
           /\ \A u \in Threads : i \notin {req[u].dir, req[u].ddir, req[u].ino}
           /\ \A c \in held : c \in DOMAIN nodes => nodes[c].parent # i
           /\ held' = held \ {i}
           /\ Go(t, [Idle EXCEPT !.op = "reclaim", !.pc = "item", !.ino = i])
    /\ UNCHANGED <<tree, nodes, items, mode, asked>>

-----------------------------------------------------------------------------
(* Their steps                                                              *)

\* child_path, path_of: the path is built under the mutex and used after it.
BuildPath(t) ==
    LET r == req[t]
        paths == CASE r.op \in {"write", "chmod"} -> PathOf(r.ino)
                   [] r.op = "readdir" -> PathOf(r.dir)
                   [] OTHER -> ChildPath(r.dir, r.name)
    IN  /\ r.pc = "path"
        /\ IF paths = {} THEN Done(t)
           ELSE \E p \in paths :
                   Go(t, [r EXCEPT !.path = p, !.pc = r.op, !.isdir = r.ino \in DOMAIN nodes /\ r.ino \in Dirs])
        /\ UNCHANGED <<tree, nodes, items, held, mode, asked>>

\* wfs_lookup: lstat of the path, and then the record.
Lstat(t) ==
    /\ req[t].pc = "lookup"
    /\ IF Resolve(req[t].path) = None THEN Done(t)
       ELSE Go(t, [req[t] EXCEPT !.found = Resolve(req[t].path), !.pc = "intern"])
    /\ UNCHANGED <<tree, nodes, items, held, mode, asked>>
Intern(t) ==
    /\ req[t].pc = "intern"
    /\ nodes' = Interned(req[t].dir, req[t].name, req[t].found)
    /\ Go(t, IF req[t].op = "readdir" THEN [req[t] EXCEPT !.pc = "next", !.found = None]
             ELSE [req[t] EXCEPT !.pc = "reply"])
    /\ UNCHANGED <<tree, items, held, mode, asked>>
\* itemFor, and the reply that gives the kernel the item.
Reply(t) ==
    /\ req[t].pc = "reply"
    /\ items' = items \union {req[t].found}
    /\ held' = held \union {req[t].found}
    /\ Done(t)
    /\ UNCHANGED <<tree, nodes, mode, asked>>

\* wfs_create, wfs_symlink: the new name, and then a lookup of it.
Make(t) ==
    LET r == req[t]
        can == ParentOf(r.path) \in DirSet /\ Resolve(r.path) = None
    IN  /\ r.pc = "create"
        /\ tree' = IF can THEN (Slot(r.path) :> r.ino) @@ tree ELSE tree
        /\ IF can THEN Go(t, [r EXCEPT !.op = "lookup", !.pc = "path"]) ELSE Done(t)
        /\ UNCHANGED <<nodes, items, held, mode, asked>>

\* wfs_readdir: opendir and the names, then lstat and a record for each entry.
Opendir(t) ==
    LET d == Resolve(req[t].path)
    IN  /\ req[t].pc = "readdir"
        /\ IF d \notin DirSet THEN Done(t)
           ELSE Go(t, [req[t] EXCEPT !.todo = {s[2] : s \in {s \in DOMAIN tree : s[1] = d}}, !.pc = "next"])
        /\ UNCHANGED <<tree, nodes, items, held, mode, asked>>
Entry(t) ==
    LET r == req[t]
    IN  /\ r.pc = "next"
        /\ IF r.todo = {} THEN Done(t)
           ELSE \E n \in r.todo :
                   LET i == Resolve(Append(r.path, n))
                   IN  Go(t, IF i = None THEN [r EXCEPT !.todo = @ \ {n}]
                             ELSE [r EXCEPT !.todo = @ \ {n}, !.name = n, !.found = i, !.pc = "intern"])
        /\ UNCHANGED <<tree, nodes, items, held, mode, asked>>

\* wfs_link: path_of the item, child_path, link(2); no record of the new name.
LinkSource(t) ==
    /\ req[t].pc = "source"
    /\ IF PathOf(req[t].ino) = {} THEN Done(t)
       ELSE \E p \in PathOf(req[t].ino) : Go(t, [req[t] EXCEPT !.src = p, !.pc = "path"])
    /\ UNCHANGED <<tree, nodes, items, held, mode, asked>>
Link(t) ==
    LET r == req[t]
    IN  /\ r.pc = "link"
        /\ tree' = IF Resolve(r.src) \in Inodes \ Dirs /\ ParentOf(r.path) \in DirSet /\ Resolve(r.path) = None
                   THEN (Slot(r.path) :> Resolve(r.src)) @@ tree ELSE tree
        /\ Done(t)
        /\ UNCHANGED <<nodes, items, held, mode, asked>>

\* wfs_unlink: the system call, and then the record under the mutex.
Unlink(t) ==
    LET r == req[t]
        can == CanUnlink(r.path, r.isdir)
    IN  /\ r.pc = "unlink"
        /\ tree' = IF can THEN Without(tree, Slot(r.path)) ELSE tree
        /\ IF can THEN Go(t, [r EXCEPT !.pc = "erase"]) ELSE Done(t)
        /\ UNCHANGED <<nodes, items, held, mode, asked>>
Erase(t) ==
    /\ req[t].pc = "erase"
    /\ nodes' = Dropped(nodes, req[t].dir, req[t].name, req[t].ino)
    /\ Done(t)
    /\ UNCHANGED <<tree, items, held, mode, asked>>

\* A plausible slip: the record of a file that the rename replaced stays.
RenamedTableKept(r, over) ==
    IF r.ino \in DOMAIN nodes THEN [nodes EXCEPT ![r.ino] = [parent |-> r.ddir, name |-> r.dname]] ELSE nodes
\* wfs_rename: the table after the system call.
RenamedTable(r, over) ==
    LET kept == IF over \in {None, r.ino} THEN nodes ELSE Dropped(nodes, r.ddir, r.dname, over)
    IN  IF r.ino \in DOMAIN kept THEN [kept EXCEPT ![r.ino] = [parent |-> r.ddir, name |-> r.dname]] ELSE kept

\* wfs_rename: paths, system call and table in one critical section.
Rename(t) ==
    LET r == req[t]
    IN  /\ r.pc = "rename"
        /\ IF \E f \in ChildPath(r.dir, r.name), g \in ChildPath(r.ddir, r.dname) : CanRename(f, g)
           THEN \E f \in ChildPath(r.dir, r.name), g \in ChildPath(r.ddir, r.dname) :
                   /\ tree' = Renamed(f, g)
                   /\ nodes' = RenamedTable(r, Resolve(g))
           ELSE UNCHANGED <<tree, nodes>>
        /\ Done(t)
        /\ UNCHANGED <<items, held, mode, asked>>

\* wfs_setattr: the mode of the file that the path built before names now.
Chmod(t) ==
    LET i == Resolve(req[t].path)
    IN  /\ req[t].pc = "chmod"
        /\ mode' = IF req[t].readonly /\ i # None THEN mode \union {i} ELSE mode \ {i}
        /\ asked' = IF req[t].readonly /\ i # None THEN asked \union {i} ELSE asked \ {i}
        /\ Done(t)
        /\ UNCHANGED <<tree, nodes, items, held>>

\* openFDFor: open(2) of the path built before; found is the file that it reached.
OpenFD(t) ==
    LET i == Resolve(req[t].path)
    IN  /\ req[t].pc = "write"
        /\ Go(t, [req[t] EXCEPT !.found = i, !.pc = IF i \in mode THEN "stat" ELSE "opened"])
        /\ UNCHANGED <<tree, nodes, items, held, mode, asked>>
\* After EACCES: the mode to put back.
StatMode(t) ==
    LET i == Resolve(req[t].path)
    IN  /\ req[t].pc = "stat"
        /\ IF i \notin Inodes \ Dirs THEN Go(t, [req[t] EXCEPT !.found = i, !.pc = "opened"])
           ELSE Go(t, [req[t] EXCEPT !.readonly = i \in mode, !.pc = "lift"])
        /\ UNCHANGED <<tree, nodes, items, held, mode, asked>>
LiftMode(t) ==
    /\ req[t].pc = "lift"
    /\ mode' = mode \ {Resolve(req[t].path)}
    /\ Go(t, [req[t] EXCEPT !.pc = "reopen"])
    /\ UNCHANGED <<tree, nodes, items, held, asked>>
Reopen(t) ==
    /\ req[t].pc = "reopen"
    /\ Go(t, [req[t] EXCEPT !.found = Resolve(req[t].path), !.pc = "restore"])
    /\ UNCHANGED <<tree, nodes, items, held, mode, asked>>
\* A plausible slip: the mode is put back when the file could not be opened, and only then.
RestoredIfFailed(r) == mode
\* fchmod of the descriptor; an open that failed again puts the mode back by path.
Restored(r) ==
    IF ~r.readonly THEN mode \ {r.found} ELSE IF r.found = None THEN mode ELSE mode \union {r.found}
RestoreMode(t) ==
    /\ req[t].pc = "restore"
    /\ mode' = Restored(req[t])
    /\ Go(t, [req[t] EXCEPT !.pc = "opened"])
    /\ UNCHANGED <<tree, nodes, items, held, asked>>
\* writeContents: pwrite and close.
EndWrite(t) ==
    /\ req[t].pc = "opened"
    /\ Done(t)
    /\ UNCHANGED <<tree, nodes, items, held, mode, asked>>

\* reclaimItem: the item table under its lock, then wfs_forget under the view's.
DropItem(t) ==
    /\ req[t].pc = "item"
    /\ items' = items \ {req[t].ino}
    /\ Go(t, [req[t] EXCEPT !.pc = "forget"])
    /\ UNCHANGED <<tree, nodes, held, mode, asked>>
Forget(t) ==
    /\ req[t].pc = "forget"
    /\ nodes' = IF req[t].ino \in DOMAIN nodes THEN Without(nodes, req[t].ino) ELSE nodes
    /\ Done(t)
    /\ UNCHANGED <<tree, items, held, mode, asked>>

Next ==
    \E t \in Threads :
        \/ AskLookup(t) \/ AskCreate(t) \/ AskReaddir(t) \/ AskLink(t) \/ AskUnlink(t) \/ AskRename(t)
        \/ AskWrite(t) \/ AskChmod(t) \/ AskReclaim(t)
        \/ BuildPath(t) \/ Lstat(t) \/ Intern(t) \/ Reply(t) \/ Make(t) \/ Opendir(t) \/ Entry(t)
        \/ LinkSource(t) \/ Link(t) \/ Unlink(t) \/ Erase(t) \/ Rename(t) \/ Chmod(t) \/ OpenFD(t) \/ StatMode(t)
        \/ LiftMode(t) \/ Reopen(t) \/ RestoreMode(t) \/ EndWrite(t)
        \/ DropItem(t) \/ Forget(t)

Spec == Init /\ [][Next]_vars

-----------------------------------------------------------------------------
(* What the node table promises                                             *)

\* A removal of the recorded name of i has happened and its record is about to go.
Erasing(i) == \E t \in Threads : req[t].pc = "erase" /\ req[t].ino = i

\* view.cpp: whatever names were created, linked, moved, replaced, removed, listed and forgotten, the
\* path that the node table gives for an inode names that inode, never a file that took its place.
NamesTrue ==
    \A i \in DOMAIN nodes : \A p \in PathOf(i) : Erasing(i) \/ Resolve(p) = i

\* wfs_unlink, wfs_rename: an inode loses its record only when the name in that record has gone, or when
\* the kernel gave its item back; removing another hard link of it leaves the record alone.
RecordsStay ==
    \A i \in DOMAIN nodes \ DOMAIN nodes' :
        \/ \E t \in Threads : req[t].pc = "forget" /\ req[t].ino = i
        \/ \A s \in DOMAIN tree' : s = <<nodes[i].parent, nodes[i].name>> => tree'[s] # i

\* openFDFor: when no write-back is in progress, every file has the mode that was last asked for it, though
\* writes to a read-only file lift it.
ModeKept ==
    (\A t \in Threads : req[t].op # "write") => mode \intersect Range(tree) = asked \intersect Range(tree)

\* The inode table: a kept name is true, and a mode that was lent to a write comes back.
TableTrue == NamesTrue /\ ModeKept
=============================================================================
