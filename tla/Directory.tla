----------------------------- MODULE Directory -----------------------------
(***************************************************************************)
(* Directory cursors of daemon/namespace.cpp and the fs-dir- commands of   *)
(* daemon/rpc.cpp.  A cursor keeps the manifest it was opened on and the   *)
(* last key it returned; a client reads a directory one page at a time     *)
(* while others commit.  Every call holds Container::mutex_.  The          *)
(* directory's names are the keys from Lower up to Upper, the other keys   *)
(* belong to inodes and to other directories.                              *)
(***************************************************************************)
EXTENDS MetadataTree

CONSTANTS
    Values,        \* inodes: what an entry's attributes are read from
    Lower, Upper,  \* the directory's prefix, a half-open interval of keys
    Cursors,       \* cursor tokens
    MaxLimit       \* 1024 names of a page

VARIABLES
    head,      \* the World's tree, None while the World is flat
    cursors,   \* token to cursor, <<>> when closed
    listed     \* history: the listing each cursor was opened on

vars == <<head, cursors, listed>>

\* list() and the attributes of its names.
Listing(root) == LET names == InOrder(root, Lower, Upper)
                 IN  [i \in DOMAIN names |-> <<names[i], Lookup(root, names[i])>>]

Init ==
    /\ head = None
    /\ cursors = [c \in Cursors |-> <<>>]
    /\ listed = [c \in Cursors |-> <<>>]

\* update(): the first change converts a flat World.
Commit(k, v) ==
    /\ head' = ApplyAll(IF head = None THEN Nil ELSE head, [x \in {k} |-> v]).root
    /\ UNCHANGED <<cursors, listed>>

\* open_directory(): a flat World's directory is empty, and so is its cursor for good.  The history field
\* shown collects what the pages since the last rewind returned.
OpenDirectory(c) ==
    /\ cursors[c] = <<>>
    /\ cursors' = [cursors EXCEPT ![c] =
                      <<[manifest |-> head, after |-> Lower - 1, done |-> head = None, shown |-> <<>>]>>]
    /\ listed' = [listed EXCEPT ![c] = IF head = None THEN <<>> ELSE Listing(head)]
    /\ UNCHANGED head

\* A plausible slip: the page comes from the World's head.
PageOfHead(cursor, limit) == Page(IF head = None THEN Nil ELSE head, cursor.after, Upper, limit + 1)
\* read_directory() asks for one name more than the page holds.
PageOf(cursor, limit) == Page(cursor.manifest, cursor.after, Upper, limit + 1)

ReadDirectory(cursor, limit) ==
    LET keys == PageOf(cursor, limit)
        eof == Len(keys) <= limit
        page == IF eof THEN keys ELSE SubSeq(keys, 1, limit)
        entry(k) == <<k, Lookup(cursor.manifest, k)>>
    IN  IF cursor.done THEN cursor
        ELSE [cursor EXCEPT !.after = IF page = <<>> THEN @ ELSE Last(page),
                            !.done = eof,
                            !.shown = @ \o [i \in DOMAIN page |-> entry(page[i])]]

\* fs-dir-page and fs-dir-entries.
FsDirPage(c, limit) ==
    /\ cursors[c] # <<>> /\ limit \in 1..MaxLimit
    /\ cursors' = [cursors EXCEPT ![c] = <<ReadDirectory(cursors[c][1], limit)>>]
    /\ UNCHANGED <<head, listed>>

RewindDirectory(c) ==
    /\ cursors[c] # <<>>
    /\ cursors' = [cursors EXCEPT ![c][1] = [@ EXCEPT !.after = Lower - 1, !.done = cursors[c][1].manifest = None,
                                                      !.shown = <<>>]]
    /\ UNCHANGED <<head, listed>>

FsDirClose(c) ==
    /\ cursors[c] # <<>>
    /\ cursors' = [cursors EXCEPT ![c] = <<>>]
    /\ listed' = [listed EXCEPT ![c] = <<>>]
    /\ UNCHANGED head

Next ==
    \/ \E k \in Keys, v \in Values \cup {None} : Commit(k, v)
    \/ \E c \in Cursors :
           \/ OpenDirectory(c) \/ RewindDirectory(c) \/ FsDirClose(c)
           \/ \E limit \in 1..MaxLimit : FsDirPage(c, limit)

Spec == Init /\ [][Next]_vars

-----------------------------------------------------------------------------
\* read_directory, rewind_directory: whatever is committed between the pages, whatever their sizes, and as often
\* as the cursor is rewound, the pages are the listing of the moment the cursor was opened, cut into pieces: every
\* name once, in order, with its attributes of that moment, and eof comes with the last name and not before.
PagesExact ==
    \A c \in Cursors : cursors[c] # <<>> =>
        LET cursor == cursors[c][1]
        IN  /\ IsPrefix(cursor.shown, listed[c])
            /\ cursor.done => cursor.shown = listed[c]
            /\ cursor.shown = listed[c] /\ cursor.shown # <<>> => cursor.done
=============================================================================
