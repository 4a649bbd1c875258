----------------------------- MODULE LevelStore -----------------------------
(***************************************************************************)
(* daemon/level_store.cpp: the object store of a repository on LevelDB.    *)
(* Immutable objects (O/), named roots (R/) and three counters (M/) change *)
(* in one synchronous WriteBatch.  In front of the database stand a cache  *)
(* of root facts, tied to one commit epoch, and a cache of verified        *)
(* payloads.  Readers run beside the single writer that holds mutex_.      *)
(*                                                                         *)
(* An object is its SHA-256 identity.  LevelDB is external: a synchronous  *)
(* batch is all or nothing, and one whose Write reports an error is not in *)
(* the running database but may still be in the log that a reopen replays. *)
(***************************************************************************)
EXTENDS Integers, FiniteSets

CONSTANTS Keys,         \* root names
          Registry,     \* the "object/" names among them
          Objects,      \* object identities
          Small,        \* objects the payload cache admits
          Readers,      \* threads reading beside the writer
          None,         \* a root that does not exist
          Unknown,      \* no fact cached / root not touched by the batch
          CacheLimit,   \* 4096 root facts
          MaxBatch,     \* 4096 mutations
          MaxSequence   \* UINT64_MAX

ASSUME LevelStoreAssumption ==
    /\ Registry \subseteq Keys
    /\ Small \subseteq Objects
    /\ None \notin Objects
    /\ Unknown \notin Objects \cup {None}
    /\ IsFiniteSet(Keys)
    /\ IsFiniteSet(Objects)
    /\ CacheLimit \in Nat \ {0}
    /\ MaxBatch \in Nat \ {0}
    /\ MaxSequence \in Nat \ {0}

VARIABLES
    roots,        \* R/ keys of the database
    objects,      \* O/ keys of the database
    disk,         \* M/sequence, M/roots, M/objects
    limbo,        \* database contents a reopen may find after a failed Write
    meta,         \* sequence_, roots_, objects_
    poisoned,     \* poisoned_
    rootCache,    \* root_cache_sequence_, root_cache_
    objectCache,  \* object_cache_
    txn,          \* the transact() in progress under mutex_
    reader,       \* the read() or object() each reader is in
    published     \* history: the roots as of meta.sequence

vars == <<roots, objects, disk, limbo, meta, poisoned, rootCache, objectCache,
          txn, reader, published>>

Root == Objects \cup {None}
Fact == Root \cup {Unknown}
Counters == [sequence : 0..MaxSequence, roots : Int, objects : Int]
NoFacts == [k \in Keys |-> Unknown]
Database == [roots : [Keys -> Root], objects : SUBSET Objects, disk : Counters]
NoLimbo == {}

IdleTxn == [pc |-> "idle", updates |-> NoFacts, values |-> {}, roots |-> 0]
IdleReader == [pc |-> "idle", key |-> Unknown, object |-> Unknown,
               epoch |-> 0, got |-> Unknown, seen |-> {}]

Present(r) == {k \in Keys : r[k] # None}
Known(facts) == {k \in Keys : facts[k] # Unknown}
Touched(t) == {k \in Keys : t.updates[k] # Unknown}

Init ==
    /\ roots = [k \in Keys |-> None]
    /\ objects = {}
    /\ disk = [sequence |-> 0, roots |-> 0, objects |-> 0]
    /\ limbo = NoLimbo
    /\ meta = disk
    /\ poisoned = FALSE
    /\ rootCache = [sequence |-> MaxSequence, facts |-> NoFacts]
    /\ objectCache = {}
    /\ txn = IdleTxn
    /\ reader = [r \in Readers |-> IdleReader]
    /\ published = roots

-----------------------------------------------------------------------------
\* MUTANT: calls go on after a failed write.
HealthyAlways == TRUE

\* healthy(): after a failed write every call but a reopen throws.
Healthy == ~poisoned

\* MUTANT: the counter is not checked for exhaustion.
SequenceUnchecked == TRUE

\* A step that would move sequence_ past UINT64_MAX throws.
SequenceLeft == meta.sequence # MaxSequence

-----------------------------------------------------------------------------
(* The root-fact cache. *)

\* The first lookup of an epoch drops the facts of the previous one.
Refresh(c) ==
    IF c.sequence # meta.sequence
    THEN [sequence |-> meta.sequence, facts |-> NoFacts]
    ELSE c

\* A full cache is emptied before the new fact goes in.
Install(c, k, v) ==
    LET kept == IF Cardinality(Known(c.facts)) >= CacheLimit THEN NoFacts ELSE c.facts
    IN  [c EXCEPT !.facts = [kept EXCEPT ![k] = v]]

\* read("R/" + k) as the writer does it: nothing can commit under mutex_.
CachedRoot(k) ==
    LET fact == Refresh(rootCache).facts[k]
    IN  IF fact # Unknown THEN fact ELSE roots[k]

AfterLookup(k) ==
    LET c == Refresh(rootCache)
    IN  IF c.facts[k] # Unknown THEN c ELSE Install(c, k, roots[k])

-----------------------------------------------------------------------------
(* The payload cache. *)

Admit(cache, o) == IF o \in Small THEN cache \cup {o} ELSE cache

\* object(o) succeeds: a cached payload is not looked up in the database.
Resolves(o) == o \in objectCache \/ o \in objects

\* LevelDB's LRU may drop any payload at any time.
Evict(o) ==
    /\ o \in objectCache
    /\ objectCache' = objectCache \ {o}
    /\ UNCHANGED <<roots, objects, disk, limbo, meta, poisoned, rootCache, txn,
                   reader, published>>

-----------------------------------------------------------------------------
(* transact(): mutex_ is held from TransactBegin to the return. *)

TransactBegin ==
    /\ txn.pc = "idle"
    /\ Healthy
    /\ SequenceLeft
    /\ txn' = [IdleTxn EXCEPT !.pc = "loop", !.roots = meta.roots]
    /\ UNCHANGED <<roots, objects, disk, limbo, meta, poisoned, rootCache,
                   objectCache, reader, published>>

\* One more mutation of the batch; keys are unique.
Mutation(k) ==
    /\ txn.pc = "loop"
    /\ txn.updates[k] = Unknown
    /\ Cardinality(Touched(txn)) < MaxBatch
    /\ rootCache' = AfterLookup(k)
    /\ UNCHANGED <<roots, objects, disk, limbo, meta, poisoned, reader, published>>

RootsAfterPut(k) == IF CachedRoot(k) = None THEN txn.roots + 1 ELSE txn.roots

MutateValue(k, o) ==
    /\ Mutation(k)
    /\ txn' = [txn EXCEPT !.updates[k] = o, !.values = @ \cup {o}, !.roots = RootsAfterPut(k)]
    /\ UNCHANGED objectCache

MutateReference(k, o) ==
    /\ Mutation(k)
    /\ Resolves(o)
    /\ txn' = [txn EXCEPT !.updates[k] = o, !.roots = RootsAfterPut(k)]
    /\ objectCache' = Admit(objectCache, o)

MutateDelete(k) ==
    /\ Mutation(k)
    /\ CachedRoot(k) # None
    /\ txn' = [txn EXCEPT !.updates[k] = None, !.roots = @ - 1]
    /\ UNCHANGED objectCache


\* need(...) fails: a bad key or size, a reference to no object, a delete of
\* an absent root.  The lookup made so far stays in the cache.
TransactThrow(k) ==
    /\ txn.pc = "loop"
    /\ rootCache' \in {rootCache, AfterLookup(k)}
    /\ txn' = IdleTxn
    /\ UNCHANGED <<roots, objects, disk, limbo, meta, poisoned, objectCache,
                   reader, published>>

\* The WriteBatch: new objects, changed roots and counters together.
Batch ==
    [roots   |-> [k \in Keys |-> IF txn.updates[k] = Unknown THEN roots[k] ELSE txn.updates[k]],
     objects |-> objects \cup txn.values,
     disk    |-> [sequence |-> meta.sequence + 1,
                  roots    |-> txn.roots,
                  objects  |-> meta.objects + Cardinality(txn.values \ objects)]]

Store(d) ==
    /\ roots' = d.roots
    /\ objects' = d.objects
    /\ disk' = d.disk

\* The value a root takes while a read of it is in flight is one it may return.
Witnessed(r) ==
    IF reader[r].pc \in {"get", "install", "done"}
    THEN [reader[r] EXCEPT !.seen = @ \cup {roots'[reader[r].key]}]
    ELSE reader[r]

\* DB::Write has returned ok; sequence_ is still the old one.
TransactWrite ==
    /\ txn.pc = "loop"
    /\ Touched(txn) # {}
    /\ Store(Batch)
    /\ txn' = [txn EXCEPT !.pc = "written"]
    /\ reader' = [r \in Readers |-> Witnessed(r)]
    /\ UNCHANGED <<limbo, meta, poisoned, rootCache, objectCache, published>>

TransactPublish ==
    /\ txn.pc = "written"
    /\ meta' = disk
    /\ txn' = IdleTxn
    /\ published' = roots
    /\ UNCHANGED <<roots, objects, disk, limbo, poisoned, rootCache, objectCache, reader>>

\* DB::Write has returned an error: whether the batch is durable is unknown.
TransactFail ==
    /\ txn.pc = "loop"
    /\ Touched(txn) # {}
    /\ poisoned' = TRUE
    /\ limbo' = {Batch}
    /\ txn' = IdleTxn
    /\ UNCHANGED <<roots, objects, disk, meta, rootCache, objectCache, reader, published>>

-----------------------------------------------------------------------------
(* Readers: read("R/" + key) and object(id) beside the writer. *)

ReadBegin(r, k) ==
    LET c == Refresh(rootCache)
        begun == [IdleReader EXCEPT !.key = k, !.epoch = meta.sequence,
                                    !.seen = {published[k], roots[k]}]
    IN  /\ reader[r].pc = "idle"
        /\ Healthy
        /\ rootCache' = c
        /\ reader' = [reader EXCEPT ![r] =
               IF c.facts[k] # Unknown
               THEN [begun EXCEPT !.pc = "done", !.got = c.facts[k]]
               ELSE [begun EXCEPT !.pc = "get"]]
        /\ UNCHANGED <<roots, objects, disk, limbo, meta, poisoned, objectCache, txn, published>>

\* DB::Get runs without any lock.
ReadGet(r) ==
    /\ reader[r].pc = "get"
    /\ reader' = [reader EXCEPT ![r].pc = "install", ![r].got = roots[reader[r].key]]
    /\ UNCHANGED <<roots, objects, disk, limbo, meta, poisoned, rootCache, objectCache,
                   txn, published>>

\* MUTANT: the fact goes in whatever was committed meanwhile.
MayInstallAlways(r) == TRUE

\* No commit was published since the read began, and the cache is of its epoch.
MayInstall(r) ==
    /\ meta.sequence = reader[r].epoch
    /\ rootCache.sequence = reader[r].epoch

ReadInstall(r) ==
    /\ reader[r].pc = "install"
    /\ rootCache' = IF MayInstall(r)
                    THEN Install(rootCache, reader[r].key, reader[r].got)
                    ELSE rootCache
    /\ reader' = [reader EXCEPT ![r].pc = "done"]
    /\ UNCHANGED <<roots, objects, disk, limbo, meta, poisoned, objectCache, txn, published>>

\* A payload the cache lacks is read and hash-checked ...
ObjectGet(r, o) ==
    /\ reader[r].pc = "idle"
    /\ Healthy
    /\ o \notin objectCache
    /\ o \in objects
    /\ reader' = [reader EXCEPT ![r] = [IdleReader EXCEPT !.pc = "insert", !.object = o]]
    /\ UNCHANGED <<roots, objects, disk, limbo, meta, poisoned, rootCache, objectCache,
                   txn, published>>

\* ... and then inserted, if it is small enough for a shard.
ObjectInsert(r) ==
    /\ reader[r].pc = "insert"
    /\ objectCache' = Admit(objectCache, reader[r].object)
    /\ reader' = [reader EXCEPT ![r] = IdleReader]
    /\ UNCHANGED <<roots, objects, disk, limbo, meta, poisoned, rootCache, txn, published>>

ReadReturn(r) ==
    /\ reader[r].pc = "done"
    /\ reader' = [reader EXCEPT ![r] = IdleReader]
    /\ UNCHANGED <<roots, objects, disk, limbo, meta, poisoned, rootCache, objectCache,
                   txn, published>>

-----------------------------------------------------------------------------
(* verify(), collect_garbage() and reopening. *)

Named(r) == {r[k] : k \in Present(r)}

\* verify() and compact(): every root's object passes through object().
Verify ==
    /\ txn.pc = "idle"
    /\ Healthy
    /\ objectCache' = objectCache \cup (Named(roots) \cap Small \cap objects)
    /\ UNCHANGED <<roots, objects, disk, limbo, meta, poisoned, rootCache, txn, reader, published>>

\* collect_garbage() holds Container::mutex_, and so does every other caller.
Quiet == txn.pc = "idle" /\ \A r \in Readers : reader[r].pc = "idle"

\* MUTANT: registry names are left behind when their object goes.
ObsoleteNone(live) == {}

\* Registry names do not retain an object: those of dead objects go too.
Obsolete(live) == {k \in Registry : roots[k] # None /\ roots[k] \notin live}

\* MUTANT: the mark misses what a root names.
MarksAny == SUBSET objects

\* What the mark phase finds: all that the other roots name, and perhaps more.
Marks == {live \in SUBSET objects : \A k \in Present(roots) \ Registry : roots[k] \in live}

Collected(live) ==
    [roots   |-> [k \in Keys |-> IF k \in Obsolete(live) THEN None ELSE roots[k]],
     objects |-> live,
     disk    |-> [sequence |-> meta.sequence + 1,
                  roots    |-> meta.roots - Cardinality(Obsolete(live)),
                  objects  |-> meta.objects - Cardinality(objects \ live)]]

\* Prune() empties the payload cache; the verify() of compact() refills it.
AfterPrune(d) == Named(d.roots) \cap Small

\* The mark looked every root up, under the epoch this step supersedes.
MarkedFacts == [sequence |-> meta.sequence, facts |-> roots]

Collect(live) ==
    /\ Quiet
    /\ Healthy
    /\ SequenceLeft
    /\ live \in Marks
    /\ LET d == Collected(live)
       IN  /\ Store(d)
           /\ meta' = d.disk
           /\ published' = d.roots
           /\ objectCache' = AfterPrune(d)
    /\ rootCache' = MarkedFacts
    /\ UNCHANGED <<limbo, poisoned, txn, reader>>

CollectFail(live) ==
    /\ Quiet
    /\ Healthy
    /\ SequenceLeft
    /\ live \in Marks
    /\ poisoned' = TRUE
    /\ limbo' = {Collected(live)}
    /\ rootCache' = MarkedFacts
    /\ UNCHANGED <<roots, objects, disk, meta, objectCache, txn, reader, published>>

\* The process ends, at any point, and the repository is opened again.
Reopen ==
    /\ \E d \in limbo \cup {[roots |-> roots, objects |-> objects, disk |-> disk]} :
          /\ Store(d)
          /\ meta' = d.disk
          /\ published' = d.roots
    /\ limbo' = NoLimbo
    /\ poisoned' = FALSE
    /\ rootCache' = [sequence |-> MaxSequence, facts |-> NoFacts]
    /\ objectCache' = {}
    /\ txn' = IdleTxn
    /\ reader' = [r \in Readers |-> IdleReader]

-----------------------------------------------------------------------------
Transact ==
    \/ TransactBegin
    \/ \E k \in Keys : \/ \E o \in Objects : MutateValue(k, o)
                       \/ \E o \in Objects : MutateReference(k, o)
                       \/ MutateDelete(k)
                       \/ TransactThrow(k)
    \/ TransactWrite
    \/ TransactPublish
    \/ TransactFail

Read(r) ==
    \/ \E k \in Keys : ReadBegin(r, k)
    \/ ReadGet(r)
    \/ ReadInstall(r)
    \/ ReadReturn(r)
    \/ \E o \in Objects : ObjectGet(r, o)
    \/ ObjectInsert(r)

Next ==
    \/ Transact
    \/ \E r \in Readers : Read(r)
    \/ \E o \in Objects : Evict(o)
    \/ Verify
    \/ \E live \in SUBSET Objects : Collect(live)
    \/ \E live \in SUBSET Objects : CollectFail(live)
    \/ Reopen

Spec == Init /\ [][Next]_vars

-----------------------------------------------------------------------------
TxnType == [pc : {"idle", "loop", "written"}, updates : [Keys -> Fact],
            values : SUBSET Objects, roots : Int]
ReaderType == [pc : {"idle", "get", "install", "done", "insert"},
               key : Keys \cup {Unknown}, object : Objects \cup {Unknown},
               epoch : 0..MaxSequence, got : Fact, seen : SUBSET Root]

\* Every variable stays in its type: the members of LevelStore (level_store.h).
TypeOK ==
    /\ roots \in [Keys -> Root]
    /\ objects \in SUBSET Objects
    /\ disk \in Counters
    /\ limbo \in SUBSET Database
    /\ meta \in Counters
    /\ poisoned \in BOOLEAN
    /\ rootCache \in [sequence : 0..MaxSequence, facts : [Keys -> Fact]]
    /\ objectCache \in SUBSET Objects
    /\ txn \in TxnType
    /\ reader \in [Readers -> ReaderType]
    /\ published \in [Keys -> Root]

\* Every root of the database names a stored object, in the running database
\* and in the one a reopen after a failed Write may find, although transact()
\* lets a reference pass that only the payload cache vouches for.
RootsResolve ==
    /\ Named(roots) \subseteq objects
    /\ \A d \in limbo : Named(d.roots) \subseteq d.objects

\* collect(): "deleted objects must not be resurrected by a later reference":
\* the payload cache never holds an object the database has dropped.
NoResurrection == objectCache \subseteq objects

\* verify() never reports a count mismatch: the persisted and the in-memory
\* counters are the numbers of roots and objects, though transact() counts
\* from the cached answer of contains().
CountersExact ==
    /\ disk.roots = Cardinality(Present(roots))
    /\ disk.objects = Cardinality(objects)
    /\ txn.pc # "written" => meta = disk

\* "A read crossing a successful commit may return its snapshot, but must never
\* install it as a fact in the next commit's epoch": a fact that a lookup would
\* use now is the published root or the one being published.
CacheCoherent ==
    rootCache.sequence = meta.sequence =>
        \A k \in Keys : rootCache.facts[k] \in {Unknown, published[k], roots[k]}

\* Neither cache lies: a root fact in use is current, and a cached payload is
\* that of a stored object, whatever reads, commits and collections overlap.
CachesTrue == CacheCoherent /\ NoResurrection

\* A root read returns a value that the root had at some moment of the read.
ReadsAreCurrent ==
    \A r \in Readers : reader[r].pc = "done" => reader[r].got \in reader[r].seen

\* A failed Write stops the store: until a reopen the database, the published
\* sequence and the roots that readers may be told stay as they were.
PoisonFreezes ==
    [][poisoned /\ poisoned' => UNCHANGED <<roots, objects, disk, meta, published>>]_vars

\* Transactions, collections and reopens, whatever happens between them, are
\* steps of the abstract store.
Abstract == INSTANCE ObjectStore WITH sequence <- disk.sequence
ImplementsObjectStore == Abstract!Spec

\* LevelStore::verify() never complains: no root dangles, and the counters
\* M/roots and M/objects are those of the database, whatever the caches said
\* while they were counted.
DatabaseVerifies == TypeOK /\ RootsResolve /\ CountersExact
=============================================================================
