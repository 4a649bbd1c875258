----------------------------- MODULE FileTree ------------------------------
(***************************************************************************)
(* One World of daemon/namespace.cpp on the LevelDB back end: inodes,      *)
(* directory entries, symbolic links, open handles and the orphan roots    *)
(* that keep an unlinked open file.  An operation holds Container::mutex_  *)
(* and ends in at most one transact(), so it is one action; a transact     *)
(* that fails poisons the store and may or may not be found by the next    *)
(* process.  Times and permission bits are left out.                       *)
(***************************************************************************)
EXTENDS Integers, Sequences, FiniteSets, SequencesExt

CONSTANTS Inodes,       \* inode identities
          Names,        \* directory entry names
          Targets,      \* symbolic link targets: components, "/" first if absolute
          Contents,     \* file contents, <<>> among them
          Handles,      \* handle tokens; as many as the handle limit
          None,
          MaxDepth,     \* longest path an operation is given
          MaxFollows,   \* 40 symbolic links in one walk
          RecoverBatch  \* 4096 keys in one recovery transaction

FileTreeAssumption ==
    /\ None \notin Inodes
    /\ <<>> \in Contents
    /\ MaxDepth \in Nat \ {0} /\ MaxFollows \in Nat /\ RecoverBatch \in Nat \ {0}
    /\ \A target \in Targets : target # <<>>

VARIABLES
    disk,      \* the World's records and its orphan roots, as the store has them
    handles,   \* Container::handles_
    counts,    \* Container::open_counts_
    state      \* of the process: "recovering", "open" or "poisoned"

vars == <<disk, handles, counts, state>>

Paths == UNION {[1..n -> Names] : n \in 1..MaxDepth}
Node(kind, links, size) == [kind |-> kind, links |-> links, size |-> size]
Absent == Node("none", 0, 0)
Zero == "0"
Sizes == {Len(value) : value \in Contents}

Init ==
    /\ disk = [root |-> None, allocated |-> {},
               inode |-> [i \in Inodes |-> Absent], content |-> [i \in Inodes |-> None],
               entry |-> [e \in Inodes \X Names |-> None],
               orphanInode |-> [i \in Inodes |-> Absent], orphanContent |-> [i \in Inodes |-> None]]
    /\ handles = [h \in Handles |-> None]
    /\ counts = [i \in Inodes |-> 0]
    /\ state = "open"

-----------------------------------------------------------------------------
(* walk(): the loop over the pending components, a step at a time. *)

Walk0(t, names) ==
    [status |-> "walk", stack |-> <<t.root>>, pending |-> names, follows |-> 0, at |-> <<>>]

Fail(w) == [w EXCEPT !.status = "error"]

\* MUTANT: an absolute target goes on below the directories already walked.
FollowBelow(w, target, rest) ==
    IF w.follows = MaxFollows THEN Fail(w)
    ELSE [w EXCEPT !.follows = @ + 1,
                   !.stack = IF Head(target) = "/" THEN Append(@, @[1]) ELSE @,
                   !.pending = SelectSeq(target, LAMBDA c : c # "/") \o rest]

\* A symbolic link puts its components before the pending ones.
Follow(w, target, rest) ==
    IF w.follows = MaxFollows THEN Fail(w)
    ELSE IF Head(target) = "/"
    THEN [w EXCEPT !.follows = @ + 1, !.stack = <<w.stack[1]>>, !.pending = Tail(target) \o rest]
    ELSE [w EXCEPT !.follows = @ + 1, !.pending = target \o rest]

\* followFinal and create are walk()'s follow_final and missing.
WalkStep(t, w, followFinal, create) ==
    LET name == Head(w.pending)
        rest == Tail(w.pending)
        dir == Last(w.stack)
        child == t.entry[<<dir, name>>]
    IN  IF w.status # "walk" THEN w
        ELSE IF w.pending = <<>> THEN [w EXCEPT !.status = "found"]
        ELSE IF t.inode[dir].kind # "directory" THEN Fail(w)
        ELSE IF name = "." THEN [w EXCEPT !.pending = rest]
        ELSE IF name = ".."
        THEN [w EXCEPT !.pending = rest,
                       !.stack = IF Len(@) > 1 THEN Front(@) ELSE @]
        ELSE IF child = None
        THEN IF create /\ rest = <<>> THEN [w EXCEPT !.status = "missing", !.at = <<dir, name>>]
             ELSE Fail(w)
        ELSE IF t.inode[child].kind = "symlink" /\ (followFinal \/ rest # <<>>)
        THEN Follow(w, t.content[child], rest)
        ELSE [w EXCEPT !.pending = rest, !.stack = Append(@, child)]

\* Every step uses up a component; a followed link brings its own.
WalkSteps(names) ==
    Len(names) + MaxFollows * (1 + Max({0} \cup {Len(target) : target \in Targets})) + 1

Walk(t, names, followFinal, create) ==
    LET W[n \in Nat] == IF n = 0 THEN Walk0(t, names)
                        ELSE WalkStep(t, W[n - 1], followFinal, create)
    IN  IF t.root = None THEN Fail(Walk0(t, names)) ELSE W[WalkSteps(names)]

Found(w) == w.status = "found"
Id(w) == Last(w.stack)

Resolve(t, path, follow) == Walk(t, path, follow, FALSE)

\* parent(): the directory of the last component, which is not followed.
Parent(t, path) ==
    LET w == Walk(t, Front(path), TRUE, FALSE)
    IN  IF Found(w) /\ t.inode[Id(w)].kind = "directory"
        THEN [w EXCEPT !.at = <<Id(w), Last(path)>>] ELSE Fail(w)

\* Where write() and a creating open() put a file: the entry of the path, or
\* the missing end of the symbolic links it names.
Place(t, path) ==
    LET p == Parent(t, path)
        id == t.entry[p.at]
    IN  IF ~Found(p) THEN p
        ELSE IF id = None THEN [p EXCEPT !.status = "missing"]
        ELSE IF t.inode[id].kind = "symlink" THEN Walk(t, path, TRUE, TRUE)
        ELSE [p EXCEPT !.stack = Append(@, id)]

\* MUTANT: the first name of the inode is taken, however long.
FirstName(top, id) == top.inode = id

ShortName(top, id) == top.inode = id /\ ~top.long

\* path_for_inode(): one turn of the depth-first search for a name of inode id.
\* A branch whose path is over the limit is searched on without its path.
PathStep(t, id, w, limit) ==
    LET top == Last(w.pending)
        names == SetToSeq({name \in Names : t.entry[<<top.inode, name>>] # None})
        long == top.long \/ Len(top.path) >= limit
        child(name) == [inode |-> t.entry[<<top.inode, name>>], long |-> long,
                        path |-> IF long THEN <<>> ELSE Append(top.path, name)]
    IN  IF w.answer # "search" THEN w
        ELSE IF w.pending = <<>> THEN [w EXCEPT !.answer = IF w.seen THEN "too long" ELSE "not linked"]
        ELSE IF ShortName(top, id) THEN [w EXCEPT !.answer = "path", !.path = top.path]
        ELSE IF t.inode[top.inode].kind # "directory"
        THEN [w EXCEPT !.pending = Front(@), !.seen = @ \/ top.inode = id]
        ELSE IF top.inode \in w.visited THEN [w EXCEPT !.answer = "cycle"]
        ELSE [w EXCEPT !.pending = Front(@) \o [k \in DOMAIN names |-> child(names[k])],
                       !.seen = @ \/ top.inode = id, !.visited = @ \cup {top.inode}]

PathForInode(t, id, limit) ==
    LET start == [pending |-> <<[inode |-> t.root, long |-> FALSE, path |-> <<>>]>>,
                  visited |-> {}, seen |-> FALSE, answer |-> "search", path |-> <<>>]
        P[n \in Nat] == IF n = 0 THEN start ELSE PathStep(t, id, P[n - 1], limit)
    IN  P[Cardinality(Inodes) * Cardinality(Names) + 2]

-----------------------------------------------------------------------------
(* Changes to the records. *)

\* MUTANT: new_id() looks for a live inode only.
FreshInode(t) == {i \in Inodes : t.inode[i] = Absent}

\* new_id(): never an identity allocated before.  The markers that are looked
\* up span all Worlds, so those of this World are among them.
Fresh(t) == {i \in Inodes : i \notin t.allocated /\ t.inode[i] = Absent}

MakeDirectory(t, at, id) ==
    [t EXCEPT !.inode = [@ EXCEPT ![id] = Node("directory", 2, 0), ![at[1]].links = @ + 1],
              !.entry[at] = id, !.allocated = @ \cup {id}]

MakeFile(t, at, id, kind, value) ==
    [t EXCEPT !.inode[id] = Node(kind, 1, Len(value)), !.content[id] = value,
              !.entry[at] = id, !.allocated = @ \cup {id}]

SetContent(t, id, value) == [t EXCEPT !.inode[id].size = Len(value), !.content[id] = value]

SetOrphan(t, id, value) ==
    [t EXCEPT !.orphanInode[id] = Node("regular", 0, Len(value)), !.orphanContent[id] = value]

\* MUTANT: the last unlink of an open file keeps nothing for its handles.
RetireOnly(t, id) == [t EXCEPT !.inode[id] = Absent, !.content[id] = None]

\* retire(): the records go; those of an open file stay as orphan roots.
Retire(t, id) ==
    LET gone == [t EXCEPT !.inode[id] = Absent, !.content[id] = None]
    IN  IF counts[id] > 0 THEN SetOrphan(gone, id, t.content[id]) ELSE gone

\* One name of inode id goes.
Unlink(t, id) ==
    IF t.inode[id].kind = "directory" \/ t.inode[id].links = 1 THEN Retire(t, id)
    ELSE [t EXCEPT !.inode[id].links = @ - 1]

IsDirectory(t, id) == t.inode[id].kind = "directory"
IsEmpty(t, id) == \A name \in Names : t.entry[<<id, name>>] = None

\* journal.transact(): a failed write may be found by the next process.
Poison(t) == state' = "poisoned" /\ disk' \in {disk, t}
Transact(t) == (disk' = t /\ UNCHANGED state) \/ Poison(t)
Update(t) == state = "open" /\ Transact(t) /\ UNCHANGED <<handles, counts>>

-----------------------------------------------------------------------------
(* Operations on paths. *)

Initialize ==
    \E id \in Fresh(disk) :
       /\ disk.root = None
       /\ Update([disk EXCEPT !.root = id, !.inode[id] = Node("directory", 2, 0),
                              !.allocated = @ \cup {id}])

Mkdir(path) ==
    LET p == Parent(disk, path)
    IN  /\ Found(p) /\ disk.entry[p.at] = None
        /\ \E id \in Fresh(disk) : Update(MakeDirectory(disk, p.at, id))

Write(path, value) ==
    LET w == Place(disk, path)
    IN  \/ /\ w.status = "missing"
           /\ \E id \in Fresh(disk) : Update(MakeFile(disk, w.at, id, "regular", value))
        \/ /\ Found(w) /\ disk.inode[Id(w)].kind = "regular"
           /\ Update(SetContent(disk, Id(w), value))

\* replace_file(): a new inode takes the name, whatever non-directory had it.
ReplaceFile(path, value) ==
    LET p == Parent(disk, path)
        old == disk.entry[p.at]
        t == IF old = None THEN disk ELSE Unlink(disk, old)
    IN  /\ Found(p) /\ (old # None => ~IsDirectory(disk, old))
        /\ \E id \in Fresh(disk) : Update(MakeFile(t, p.at, id, "regular", value))

\* write_at(), append() and truncate().
EditContent(path, value) ==
    LET w == Resolve(disk, path, TRUE)
    IN  /\ Found(w) /\ ~IsDirectory(disk, Id(w))
        /\ value # disk.content[Id(w)]
        /\ Update(SetContent(disk, Id(w), value))

\* set_attributes() of a size: cut off, or filled up with zeros.
Resized(value, n) == [k \in 1..n |-> IF k <= Len(value) THEN value[k] ELSE Zero]

SetAttributes(path, n) ==
    LET w == Resolve(disk, path, TRUE)
    IN  /\ Found(w) /\ disk.inode[Id(w)].kind = "regular"
        /\ n # disk.inode[Id(w)].size
        /\ Update(SetContent(disk, Id(w), Resized(disk.content[Id(w)], n)))

Symlink(target, path) ==
    LET p == Parent(disk, path)
    IN  /\ Found(p) /\ disk.entry[p.at] = None
        /\ \E id \in Fresh(disk) : Update(MakeFile(disk, p.at, id, "symlink", target))

Link(source, path) ==
    LET w == Resolve(disk, source, FALSE)
        p == Parent(disk, path)
    IN  /\ Found(w) /\ ~IsDirectory(disk, Id(w))
        /\ Found(p) /\ disk.entry[p.at] = None
        /\ Update([disk EXCEPT !.entry[p.at] = Id(w), !.inode[Id(w)].links = @ + 1,
                               !.allocated = @ \cup {Id(w)}])

RemoveEntry(path) ==
    LET p == Parent(disk, path)
        id == disk.entry[p.at]
        t == [Unlink(disk, id) EXCEPT !.entry[p.at] = None]
    IN  /\ Found(p) /\ id # None
        /\ IF IsDirectory(disk, id)
           THEN IsEmpty(disk, id) /\ Update([t EXCEPT !.inode[p.at[1]].links = @ - 1])
           ELSE Update(t)

\* MUTANT: the target directory is not looked for below the moved one.
InsideUnchecked(id, w) == FALSE

\* "cannot move directory into itself": id is on the walked ancestry.
Inside(id, w) == id \in {w.stack[i] : i \in 1..Len(w.stack)}

\* MUTANT: a directory moves without its parents' link counts.
LinksStay(t, from, to) == t

\* A directory that changes parent takes its ".." with it.
MoveLinks(t, from, to) ==
    IF from = to THEN t
    ELSE [t EXCEPT !.inode = [@ EXCEPT ![from].links = @ - 1, ![to].links = @ + 1]]

Rename(source, path) ==
    LET src == Parent(disk, source)
        dst == Parent(disk, path)
        id == disk.entry[src.at]
        other == disk.entry[dst.at]
        replaced == IF other = None THEN disk
                    ELSE IF IsDirectory(disk, other)
                    THEN [Unlink(disk, other) EXCEPT !.inode[dst.at[1]].links = @ - 1]
                    ELSE Unlink(disk, other)
        linked == IF IsDirectory(disk, id) THEN MoveLinks(replaced, src.at[1], dst.at[1])
                  ELSE replaced
    IN  /\ Found(src) /\ id # None /\ Found(dst)
        /\ src.at # dst.at /\ other # id
        /\ IsDirectory(disk, id) => ~Inside(id, dst)
        /\ other # None => /\ IsDirectory(disk, other) = IsDirectory(disk, id)
                           /\ IsDirectory(disk, other) => IsEmpty(disk, other)
        /\ Update([linked EXCEPT !.entry = [@ EXCEPT ![src.at] = None, ![dst.at] = id]])

-----------------------------------------------------------------------------
(* Handles. *)

OpenOptions == {o \in [create : BOOLEAN, exclusive : BOOLEAN, truncate : BOOLEAN,
                       nofollow : BOOLEAN, writable : BOOLEAN] :
                  (o.exclusive => o.create) /\ (o.truncate => o.writable)}

\* What open() resolves the path to: "found", "missing" or "error".
OpenWalk(t, path, o) ==
    LET p == Parent(t, path)
        raw == t.entry[p.at]
    IN  IF ~o.create THEN Resolve(t, path, ~o.nofollow)
        ELSE IF Found(p) /\ raw # None /\ (o.exclusive \/ (o.nofollow /\ t.inode[raw].kind = "symlink"))
        THEN Fail(p)
        ELSE Place(t, path)

Hold(h, id, o) ==
    /\ handles' = [handles EXCEPT ![h] = [inode |-> id, writable |-> o.writable]]
    /\ counts' = [counts EXCEPT ![id] = @ + 1]

\* open(): the handle and its count are reserved before the commit, and
\* rolled back when it fails.
OpenCommit(h, id, o, t) ==
    \/ Hold(h, id, o) /\ disk' = t /\ UNCHANGED state
    \/ t # disk /\ Poison(t) /\ UNCHANGED <<handles, counts>>

Open(path, o, h) ==
    LET w == OpenWalk(disk, path, o)
    IN  /\ state = "open" /\ handles[h] = None
        /\ \/ /\ w.status = "missing"
              /\ \E id \in Fresh(disk) :
                    OpenCommit(h, id, o, MakeFile(disk, w.at, id, "regular", <<>>))
           \/ /\ Found(w) /\ disk.inode[Id(w)].kind = "regular"
              /\ OpenCommit(h, Id(w), o, IF o.truncate THEN SetContent(disk, Id(w), <<>>) ELSE disk)

Dup(h, copy) ==
    /\ state = "open" /\ handles[h] # None /\ handles[copy] = None
    /\ Hold(copy, handles[h].inode, handles[h])
    /\ UNCHANGED <<disk, state>>

Linked(id) == disk.inode[id] # Absent

\* What a read of the handle returns.
HandleContent(h) ==
    LET id == handles[h].inode
    IN  IF Linked(id) THEN disk.content[id] ELSE disk.orphanContent[id]

EditHandle(h, value) ==
    LET id == handles[h].inode
    IN  /\ handles[h] # None /\ handles[h].writable
        /\ value # HandleContent(h)
        /\ Update(IF Linked(id) THEN SetContent(disk, id, value) ELSE SetOrphan(disk, id, value))

HandleSetAttributes(h, n) ==
    LET id == handles[h].inode
        value == Resized(HandleContent(h), n)
    IN  /\ state = "open" /\ handles[h] # None /\ handles[h].writable
        /\ n # Len(HandleContent(h))
        /\ Update(IF Linked(id) THEN SetContent(disk, id, value) ELSE SetOrphan(disk, id, value))

\* MUTANT: any close of an unlinked file releases its orphan roots.
LastAlways(id) == TRUE

LastHandle(id) == counts[id] = 1

\* MUTANT: close() does not count the handle off.
ReleaseHandleOnly(h) == handles' = [handles EXCEPT ![h] = None] /\ UNCHANGED counts

Release(h) ==
    /\ handles' = [handles EXCEPT ![h] = None]
    /\ counts' = [counts EXCEPT ![handles[h].inode] = @ - 1]

\* close(): the last handle of an unlinked file releases its orphan roots.
Close(h) ==
    LET id == handles[h].inode
        t == [disk EXCEPT !.orphanInode[id] = Absent, !.orphanContent[id] = None]
    IN  /\ handles[h] # None
        /\ IF LastHandle(id) /\ disk.orphanInode[id] # Absent
           THEN /\ state = "open"
                /\ \/ Release(h) /\ disk' = t /\ UNCHANGED state
                   \/ Poison(t) /\ UNCHANGED <<handles, counts>>
           ELSE /\ LastHandle(id) => state = "open"
                /\ Release(h)
                /\ UNCHANGED <<disk, state>>

-----------------------------------------------------------------------------
(* The process ends and another one opens the repository. *)

Restart ==
    /\ handles' = [h \in Handles |-> None]
    /\ counts' = [i \in Inodes |-> 0]
    /\ state' = "recovering"
    /\ UNCHANGED disk

OrphanKeys(t) ==
    {<<"inode", i>> : i \in {i \in Inodes : t.orphanInode[i] # Absent}} \cup
    {<<"content", i>> : i \in {i \in Inodes : t.orphanContent[i] # None}}

\* MUTANT: recovery stops after one full batch.
OneBatch(left) == TRUE

RecoveryDone(left) == left = {}

\* recover_orphans(): one transaction of at most RecoverBatch keys.
Recover ==
    /\ state = "recovering"
    /\ \E batch \in SUBSET OrphanKeys(disk) :
          LET left == OrphanKeys(disk) \ batch
          IN  /\ Cardinality(batch) = RecoverBatch \/ left = {}
              /\ Cardinality(batch) <= RecoverBatch
              /\ disk' = [disk EXCEPT
                    !.orphanInode = [i \in Inodes |-> IF <<"inode", i>> \in batch THEN Absent ELSE @[i]],
                    !.orphanContent = [i \in Inodes |-> IF <<"content", i>> \in batch THEN None ELSE @[i]]]
              /\ state' = IF RecoveryDone(left) THEN "open" ELSE "recovering"
    /\ UNCHANGED <<handles, counts>>

Next ==
    \/ Initialize
    \/ \E path \in Paths :
          \/ Mkdir(path)
          \/ RemoveEntry(path)
          \/ \E n \in Sizes : SetAttributes(path, n)
          \/ \E value \in Contents : Write(path, value) \/ ReplaceFile(path, value) \/ EditContent(path, value)
          \/ \E target \in Targets : Symlink(target, path)
          \/ \E source \in Paths : Link(source, path) \/ Rename(source, path)
          \/ \E o \in OpenOptions, h \in Handles : Open(path, o, h)
    \/ \E h \in Handles :
          \/ Close(h)
          \/ \E copy \in Handles : Dup(h, copy)
          \/ \E n \in Sizes : HandleSetAttributes(h, n)
          \/ \E value \in Contents : EditHandle(h, value)
    \/ Restart
    \/ Recover

Spec == Init /\ [][Next]_vars

-----------------------------------------------------------------------------
Present == {i \in Inodes : Linked(i)}
NamesOf(id) == {e \in Inodes \X Names : disk.entry[e] = id}
Subdirectories(id) ==
    {name \in Names : disk.entry[<<id, name>>] # None /\ IsDirectory(disk, disk.entry[<<id, name>>])}

\* The inodes that n or fewer names lead to.
Reached[n \in Nat] ==
    IF n = 0 THEN {disk.root} \ {None}
    ELSE Reached[n - 1] \cup
         ({disk.entry[<<i, name>>] : i \in Reached[n - 1], name \in Names} \ {None})

\* Every variable stays in its type (namespace.h, container.h).
TypeOK ==
    /\ disk.root \in Inodes \cup {None}
    /\ \A i \in Inodes : {disk.inode[i], disk.orphanInode[i]} \subseteq
          [kind : {"none", "regular", "directory", "symlink"}, links : Nat, size : Nat]
    /\ disk.entry \in [Inodes \X Names -> Inodes \cup {None}]
    /\ disk.allocated \subseteq Inodes
    /\ handles \in [Handles -> [inode : Inodes, writable : BOOLEAN] \cup {None}]
    /\ counts \in [Inodes -> 0..Cardinality(Handles)]
    /\ state \in {"recovering", "open", "poisoned"}

\* verify()'s link counts: a file has as many links as names, a directory two
\* and one for each subdirectory, through every rename over, move and unlink.
LinksExact ==
    \A i \in Present :
       disk.inode[i].links = IF IsDirectory(disk, i) THEN 2 + Cardinality(Subdirectories(i))
                             ELSE Cardinality(NamesOf(i))

\* verify()'s traversal: the records are exactly those of a tree.  Every inode
\* is reached from the root, a directory by one name ("directory cycle or
\* hardlink"), every name leads to an inode, and every inode is allocated and
\* has content of its size unless it is a directory.
RecordsAreATree ==
    /\ Reached[Cardinality(Inodes)] = Present
    /\ \A i \in Present :
          /\ i \in disk.allocated
          /\ IsDirectory(disk, i) => Cardinality(NamesOf(i)) = IF i = disk.root THEN 0 ELSE 1
          /\ ~IsDirectory(disk, i) => IsEmpty(disk, i) /\ disk.inode[i].size = Len(disk.content[i])
    /\ \A i \in Inodes : ~Linked(i) => IsEmpty(disk, i) /\ disk.content[i] = None

\* verify() finds the World sound, whatever sequence of operations, failed
\* commits and crashes led to it.
VerifySucceeds == LinksExact /\ RecordsAreATree

\* verify()'s orphan roots: "orphan lacks an open handle" and "orphan also
\* appears in World tree" never happen, whatever was unlinked, closed or lost
\* in a crash before.
OrphansHeld ==
    state = "open" =>
        \A i \in Inodes :
           /\ disk.orphanInode[i] = Absent <=> disk.orphanContent[i] = None
           /\ disk.orphanInode[i] # Absent =>
                 /\ \E h \in Handles : handles[h] # None /\ handles[h].inode = i
                 /\ ~Linked(i)

\* An open handle can always be read: its inode is a regular file of the World
\* or an orphan, with content of the recorded size.
HandlesReadable ==
    state = "open" =>
        \A h \in Handles : handles[h] # None =>
           LET i == handles[h].inode
               n == IF Linked(i) THEN disk.inode[i] ELSE disk.orphanInode[i]
           IN  n.kind = "regular" /\ HandleContent(h) # None /\ n.size = Len(HandleContent(h))

\* "Allocation markers": an identity that was removed never names another file,
\* so a handle, a cursor or a client's number for it cannot show a stranger.
NeverReused ==
    [][\A i \in disk.allocated : ~Linked(i) => ~Linked(i)']_vars

\* A step that changes names (unlink, rename over, replace_file) changes
\* nothing a handle reads.
NamesLeaveDataAlone ==
    [][\A h \in Handles :
          /\ handles[h] # None /\ handles'[h] = handles[h]
          /\ disk'.entry # disk.entry /\ state' = "open"
          => HandleContent(h)' = HandleContent(h)]_vars

\* walk() ends on every path, symbolic link loops included, and its ancestry is
\* the real chain of directories from the root, which rename() relies on.
WalksSound ==
    \A path \in Paths, follow \in BOOLEAN :
       LET w == Walk(disk, path, follow, TRUE)
       IN  /\ w.status # "walk"
           /\ Found(w) =>
                 /\ w.stack[1] = disk.root
                 /\ \A i \in 1..(Len(w.stack) - 1) :
                       \E name \in Names : disk.entry[<<w.stack[i], name>>] = w.stack[i + 1]

\* path_for_inode() finds a name of every inode that has one within the limit,
\* through which the inode is found again; otherwise it says which it is: a
\* name too long, or none.  A short alias is not missed for a long first name.
PathsFound ==
    disk.root # None =>
       \A id \in Inodes, limit \in 1..MaxDepth :
          LET r == PathForInode(disk, id, limit)
              at(path) == FoldLeft(LAMBDA i, name : IF i = None THEN None ELSE disk.entry[<<i, name>>],
                                   disk.root, path)
          IN  CASE r.answer = "path" -> /\ Len(r.path) <= limit
                                        /\ LET w == Resolve(disk, r.path, FALSE) IN Found(w) /\ Id(w) = id
                [] r.answer = "too long" -> /\ Linked(id)
                                            /\ \A path \in Paths : Len(path) <= limit => at(path) # id
                [] r.answer = "not linked" -> ~Linked(id)
                [] OTHER -> FALSE

\* Names come and go and files stay: at every moment verify() would succeed
\* (the records are a tree with exact link counts, orphans are held by handles,
\* walks end with the true ancestry, an inode's path is found), a handle can be
\* read and reads the same data after any change of names, and no identity is
\* given to another file.
FilesSound ==
    /\ [](TypeOK /\ VerifySucceeds /\ OrphansHeld /\ HandlesReadable /\ WalksSound /\ PathsFound)
    /\ NeverReused /\ NamesLeaveDataAlone
=============================================================================
