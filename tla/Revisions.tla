----------------------------- MODULE Revisions -----------------------------
(***************************************************************************)
(* Worlds, revisions and physical garbage collection on the LevelDB back   *)
(* end: Namespace::commit_changes, snapshot, fork and the directory        *)
(* cursors of daemon/namespace.cpp, NamespaceView::plan, and               *)
(* Container::collect_garbage.  A World's head is a manifest, which names  *)
(* the root of a copy-on-write tree; a commit writes only the nodes and    *)
(* payloads the object registry does not list.  The operations hold        *)
(* Container::mutex_ and end in one transaction.                           *)
(***************************************************************************)
EXTENDS MetadataTree

CONSTANTS Values,       \* payloads
          RootKey,      \* the namespace root's key, which is never deleted
          Worlds, Main,
          Names,        \* revision names
          Cursors,      \* directory cursors
          MaxBatch,     \* bound on the keys of one update
          MaxSequence   \* bound on transactions

RevisionsAssumption ==
    /\ RootKey \in Keys /\ Main \in Worlds
    /\ None \notin Values

VARIABLES
    flat,       \* the namespace keys of an unconverted main World
    heads,      \* world/<name>: the tree the manifest names
    revisions,  \* revision/<name>: a descriptor
    bases,      \* base/<name>: the descriptor a World grew from
    registry,   \* object/<hex>: objects a commit need not write again
    objects,    \* the stored objects
    cursors,    \* the trees that live directory cursors pin
    sequence

vars == <<flat, heads, revisions, bases, registry, objects, cursors, sequence>>

Payload(v) == [type |-> "payload", of |-> v]
NodeObject(n) == [type |-> "node", of |-> n]
Manifest(n) == [type |-> "manifest", of |-> n]
Descriptor(n, parent, at) == [type |-> "revision", of |-> n, parent |-> parent, sequence |-> at]
BaseRecord(d) == [type |-> "base", of |-> d]

Absent == [type |-> "absent"]
FlatKeys == {k \in Keys : flat[k] # None}
Legacy(w) == w = Main /\ heads[w] = Absent
Initialized(w) == IF Legacy(w) THEN flat[RootKey] # None ELSE heads[w] # Absent

Init ==
    /\ flat = [k \in Keys |-> None]
    /\ heads = [w \in Worlds |-> Absent]
    /\ revisions = [r \in Names |-> Absent]
    /\ bases = [w \in Worlds |-> Absent]
    /\ registry = {}
    /\ objects = {}
    /\ cursors = [c \in Cursors |-> Absent]
    /\ sequence = 0

Committed == sequence < MaxSequence /\ sequence' = sequence + 1

\* plan(): the tree after the changes, and the nodes made for it.  The first
\* change of a flat main World carries the whole World over.
Plan(w, changes) ==
    LET all == IF Legacy(w)
               THEN [k \in DOMAIN changes \cup FlatKeys |->
                        IF k \in DOMAIN changes THEN changes[k] ELSE flat[k]]
               ELSE changes
        e == ApplyAll(IF Legacy(w) THEN Nil ELSE heads[w].of, all)
    IN  [root |-> e.root, new |-> {NodeObject(n) : n \in Stored(e.root, e.made)}]

-----------------------------------------------------------------------------
\* initialize(): the original flat format, in the main World.
Initialize(v) ==
    /\ flat[RootKey] = None /\ heads[Main] = Absent
    /\ Committed
    /\ flat' = [flat EXCEPT ![RootKey] = v]
    /\ objects' = objects \cup {Payload(v)}
    /\ UNCHANGED <<heads, revisions, bases, registry, cursors>>

\* update() and commit_changes(): new objects that the registry does not list are
\* written and listed, with the new head.
Update(w, changes) ==
    LET plan == Plan(w, changes)
        values == {Payload(changes[k]) : k \in {k \in DOMAIN changes : changes[k] # None}}
        new == plan.new \cup values
    IN  /\ Initialized(w)
        /\ Height(plan.root) <= MaxHeight
        /\ Committed
        /\ heads' = [heads EXCEPT ![w] = Manifest(plan.root)]
        /\ registry' = registry \cup new
        /\ objects' = objects \cup (new \ registry) \cup {Manifest(plan.root)}
        /\ UNCHANGED <<flat, revisions, bases, cursors>>

Snapshot(w, r) ==
    LET plan == Plan(w, <<>>)
        manifest == IF Legacy(w) THEN Manifest(plan.root) ELSE heads[w]
        new == IF Legacy(w) THEN plan.new \cup {manifest} ELSE {}
        d == Descriptor(manifest.of, bases[w], sequence)
    IN  /\ Initialized(w) /\ revisions[r] = Absent
        /\ Committed
        /\ revisions' = [revisions EXCEPT ![r] = d]
        /\ bases' = [bases EXCEPT ![w] = d]
        /\ registry' = registry \cup new
        /\ objects' = objects \cup (new \ registry) \cup {d, BaseRecord(d)}
        /\ UNCHANGED <<flat, heads, cursors>>

Fork(r, w) ==
    /\ w # Main /\ heads[w] = Absent /\ bases[w] = Absent
    /\ revisions[r] # Absent
    /\ Committed
    /\ heads' = [heads EXCEPT ![w] = Manifest(revisions[r].of)]
    /\ bases' = [bases EXCEPT ![w] = revisions[r]]
    /\ objects' = objects \cup {BaseRecord(revisions[r])}
    /\ UNCHANGED <<flat, revisions, registry, cursors>>

\* open_directory(): the cursor keeps the manifest it was opened on, through
\* later commits; the end of the cursor is the end of its pin.
OpenWorldCursor(c, w) ==
    /\ cursors[c] = Absent /\ heads[w] # Absent
    /\ cursors' = [cursors EXCEPT ![c] = heads[w]]
    /\ UNCHANGED <<flat, heads, revisions, bases, registry, objects, sequence>>

OpenRevisionCursor(c, r) ==
    /\ cursors[c] = Absent /\ revisions[r] # Absent
    /\ cursors' = [cursors EXCEPT ![c] = Manifest(revisions[r].of)]
    /\ UNCHANGED <<flat, heads, revisions, bases, registry, objects, sequence>>

CloseCursor(c) ==
    /\ cursors[c] # Absent
    /\ cursors' = [cursors EXCEPT ![c] = Absent]
    /\ UNCHANGED <<flat, heads, revisions, bases, registry, objects, sequence>>

\* Cursors and their pins end with the process.
Restart ==
    /\ cursors' = [c \in Cursors |-> Absent]
    /\ UNCHANGED <<flat, heads, revisions, bases, registry, objects, sequence>>

-----------------------------------------------------------------------------
(* collect_garbage() *)

TreeObjects(n) ==
    {Manifest(n)} \cup {NodeObject(m) : m \in Nodes(n)} \cup {Payload(m.value) : m \in Nodes(n)}

\* kind 0: a descriptor, its manifest and its parent.
RECURSIVE TraceRevision(_)
TraceRevision(d) ==
    {d} \cup TreeObjects(d.of) \cup (IF d.parent = Absent THEN {} ELSE TraceRevision(d.parent))

\* What is marked from the roots that are not registry names.
Marked ==
    {Payload(flat[k]) : k \in FlatKeys}
    \cup UNION {TreeObjects(heads[w].of) : w \in {w \in Worlds : heads[w] # Absent}}
    \cup UNION {TraceRevision(revisions[r]) : r \in {r \in Names : revisions[r] # Absent}}
    \cup UNION {{BaseRecord(bases[w])} \cup TraceRevision(bases[w]) : w \in {w \in Worlds : bases[w] # Absent}}

\* MUTANT: registry names pin their objects.
LiveRegistry == Marked \cup registry

\* Registry names are not retention pins.
Live == Marked

\* No cursor pins a tree; handles and the compaction worker are absent too.
Idle == \A c \in Cursors : cursors[c] = Absent

\* MUTANT: registry names of collected objects stay.
ObsoleteNone == {}

Obsolete == registry \ Live

CollectGarbage ==
    /\ Idle
    /\ Committed
    /\ registry' = registry \ Obsolete
    /\ objects' = objects \cap Live
    /\ UNCHANGED <<flat, heads, revisions, bases, cursors>>

Next ==
    \/ \E v \in Values : Initialize(v)
    \/ \E w \in Worlds, keys \in SUBSET Keys :
          /\ Cardinality(keys) \in 1..MaxBatch
          /\ \E changes \in [keys -> Values \cup {None}] :
                /\ RootKey \in keys => changes[RootKey] # None
                /\ Update(w, changes)
    \/ \E w \in Worlds, r \in Names : Snapshot(w, r) \/ Fork(r, w)
    \/ \E c \in Cursors :
          \/ \E w \in Worlds : OpenWorldCursor(c, w)
          \/ \E r \in Names : OpenRevisionCursor(c, r)
          \/ CloseCursor(c)
    \/ CollectGarbage
    \/ Restart

Spec == Init /\ [][Next]_vars

-----------------------------------------------------------------------------
Trees ==
    {heads[w].of : w \in {w \in Worlds : heads[w] # Absent}}
    \cup {revisions[r].of : r \in {r \in Names : revisions[r] # Absent}}
    \cup {cursors[c].of : c \in {c \in Cursors : cursors[c] # Absent}}
Descriptors == ({revisions[r] : r \in Names} \cup {bases[w] : w \in Worlds}) \ {Absent}

\* Every object some reader can still ask for: the trees of Worlds, revisions
\* and cursors, the flat World, and the ancestry of revisions.
Retained ==
    UNION {TreeObjects(n) : n \in Trees}
    \cup {Payload(flat[k]) : k \in FlatKeys}
    \cup Descriptors
    \cup ({d.parent : d \in Descriptors} \ {Absent})
    \cup {BaseRecord(bases[w]) : w \in {w \in Worlds : bases[w] # Absent}}

\* No reader meets a missing object: whatever was committed, deduplicated by
\* the registry, snapshot, forked and collected before, everything retained is
\* stored, and so is everything the registry says need not be written again.
RetainedStored == Retained \cup registry \subseteq objects

\* gc removes all the rest: what it leaves is exactly what is retained.
LeavesRetained == CollectGarbage => objects' = Retained' /\ registry' \subseteq Retained'
CollectExact == [][LeavesRetained]_vars

\* collect_garbage against everything that holds on to objects: nothing
\* retained or listed by the registry is ever missing, and nothing else stays.
CollectionExact == []RetainedStored /\ CollectExact
=============================================================================
