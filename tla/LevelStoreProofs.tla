-------------------------- MODULE LevelStoreProofs --------------------------
(***************************************************************************)
(* The safety of LevelStore for any number of roots, objects and readers.  *)
(***************************************************************************)
EXTENDS LevelStore, FiniteSetTheorems, TLAPS

\* What the batch being assembled under mutex_ promises its Write.
TxnSound ==
    /\ txn.pc # "idle" => ~poisoned /\ meta.sequence # MaxSequence
    /\ txn.pc = "loop" =>
          /\ \A k \in Keys : txn.updates[k] \in {Unknown, None} \cup objects \cup txn.values
          /\ \A o \in txn.values : \E k \in Keys : txn.updates[k] = o
    /\ txn.pc # "written" => published = roots /\ disk.sequence = meta.sequence
    /\ txn.pc = "written" => disk.sequence = meta.sequence + 1

\* The database d is what one transaction, or one collection, makes of this one.
TransactTo(d) ==
    /\ objects \subseteq d.objects
    /\ Named(d.roots) \subseteq d.objects
    /\ \A o \in d.objects \ objects : \E k \in Keys : d.roots[k] = o

CollectTo(d) ==
    /\ d.objects \subseteq objects
    /\ Named(d.roots) \subseteq d.objects
    /\ \A k \in Keys : d.roots[k] \in {None, roots[k]}

\* What a reopen may find instead of the running database is one step ahead.
LimboSound ==
    \A d \in limbo : /\ poisoned
                     /\ d.disk.sequence = disk.sequence + 1
                     /\ TransactTo(d) \/ CollectTo(d)

\* The cached epoch is never ahead of sequence_, except the empty cache's.
EpochSound ==
    rootCache.sequence <= meta.sequence \/ \A k \in Keys : rootCache.facts[k] = Unknown

\* What each read in flight has fetched so far.
ReadersSound ==
    \A r \in Readers :
        /\ reader[r].pc = "insert" => reader[r].object \in objects
        /\ reader[r].pc \in {"get", "install", "done"} => reader[r].key \in Keys
        /\ reader[r].pc \in {"get", "install"} =>
              /\ reader[r].epoch <= meta.sequence
              /\ roots[reader[r].key] \in reader[r].seen
        /\ reader[r].pc = "install" =>
              /\ reader[r].got \in reader[r].seen
              /\ reader[r].epoch = meta.sequence =>
                    reader[r].got \in {published[reader[r].key], roots[reader[r].key]}

\* The inductive invariant.
IInv ==
    /\ TypeOK
    /\ RootsResolve
    /\ NoResurrection
    /\ CacheCoherent
    /\ ReadsAreCurrent
    /\ TxnSound
    /\ LimboSound
    /\ EpochSound
    /\ ReadersSound

-----------------------------------------------------------------------------
(* Operators. *)

\* Counting objects gives a number: there are finitely many identities.
LEMMA CardInt == \A S : S \subseteq Objects \/ S \subseteq Keys => Cardinality(S) \in Nat
  BY LevelStoreAssumption, FS_Subset, FS_CardinalityType, Zenon

\* Refresh() leaves a cache of the current epoch.
LEMMA RefreshSound ==
    ASSUME TypeOK, CacheCoherent
    PROVE  /\ Refresh(rootCache) \in [sequence : 0..MaxSequence, facts : [Keys -> Fact]]
           /\ Refresh(rootCache).sequence = meta.sequence
           /\ \A k \in Keys : Refresh(rootCache).facts[k] \in {Unknown, published[k], roots[k]}
  <1>1. NoFacts \in [Keys -> Fact] /\ \A k \in Keys : NoFacts[k] = Unknown
    BY Zenon DEF NoFacts, Fact
  <1>2. CASE rootCache.sequence # meta.sequence
    BY <1>1, <1>2, Zenon DEF TypeOK, Refresh, Counters
  <1>3. CASE rootCache.sequence = meta.sequence
    BY <1>3, Zenon DEF TypeOK, Refresh, CacheCoherent
  <1> QED BY <1>2, <1>3, Zenon

\* Installing a true fact keeps a cache well-formed and its facts true.
LEMMA InstallSound ==
    ASSUME TypeOK,
           NEW c \in [sequence : 0..MaxSequence, facts : [Keys -> Fact]],
           \A k \in Keys : c.facts[k] \in {Unknown, published[k], roots[k]},
           NEW j \in Keys, NEW v \in Fact, v \in {published[j], roots[j]}
    PROVE  /\ Install(c, j, v) \in [sequence : 0..MaxSequence, facts : [Keys -> Fact]]
           /\ Install(c, j, v).sequence = c.sequence
           /\ \A k \in Keys : Install(c, j, v).facts[k] \in {Unknown, published[k], roots[k]}
  <1> DEFINE kept == IF Cardinality(Known(c.facts)) >= CacheLimit THEN NoFacts ELSE c.facts
  <1>1. kept \in [Keys -> Fact] /\ \A k \in Keys : kept[k] \in {Unknown, published[k], roots[k]}
    BY Zenon DEF NoFacts, Fact
  <1>2. Install(c, j, v) = [c EXCEPT !.facts = [kept EXCEPT ![j] = v]]
    BY Zenon DEF Install
  <1> HIDE DEF kept
  <1> QED BY <1>1, <1>2

\* A lookup by the writer sees the database and leaves true facts.
LEMMA LookupSound ==
    ASSUME TypeOK, CacheCoherent, NEW k \in Keys
    PROVE  /\ AfterLookup(k) \in [sequence : 0..MaxSequence, facts : [Keys -> Fact]]
           /\ AfterLookup(k).sequence = meta.sequence
           /\ \A j \in Keys : AfterLookup(k).facts[j] \in {Unknown, published[j], roots[j]}
  <1>1. roots[k] \in Fact
    BY Zenon DEF TypeOK, Fact
  <1> QED BY <1>1, RefreshSound, InstallSound, Zenon DEF AfterLookup

\* The initial state.
LEMMA InitIInv == Init => IInv
  <1> SUFFICES ASSUME Init PROVE IInv
    BY Zenon
  <1>1. TypeOK
    <2>1. NoFacts \in [Keys -> Fact]
      BY Zenon DEF NoFacts, Fact
    <2>2. roots \in [Keys -> Root] /\ published \in [Keys -> Root]
      BY Zenon DEF Init, Root
    <2>3. meta \in Counters /\ disk \in Counters /\ 0 \in 0..MaxSequence
      BY LevelStoreAssumption DEF Init, Counters
    <2>4. rootCache \in [sequence : 0..MaxSequence, facts : [Keys -> Fact]]
      BY <2>1, LevelStoreAssumption DEF Init
    <2>5. txn \in TxnType
      BY <2>1 DEF Init, TxnType, IdleTxn
    <2>6. reader \in [Readers -> ReaderType]
      BY <2>3, Zenon DEF Init, ReaderType, IdleReader, Fact
    <2> QED BY <2>2, <2>3, <2>4, <2>5, <2>6, Zenon DEF Init, TypeOK, NoLimbo
  <1>2. RootsResolve
    BY Zenon DEF Init, RootsResolve, Named, Present, NoLimbo
  <1> QED BY <1>1, <1>2, LevelStoreAssumption DEF IInv, Init, NoResurrection, CacheCoherent,
       ReadsAreCurrent, TxnSound, LimboSound, EpochSound, ReadersSound, NoFacts, NoLimbo,
       IdleTxn, IdleReader

-----------------------------------------------------------------------------
(* Each action preserves the invariant. *)

\* NoFacts and the idle records are of their types.
LEMMA IdleType ==
    /\ NoFacts \in [Keys -> Fact]
    /\ \A k \in Keys : NoFacts[k] = Unknown
    /\ IdleTxn \in TxnType
    /\ IdleReader \in ReaderType
  <1>1. 0 \in 0..MaxSequence
    BY LevelStoreAssumption
  <1> QED BY <1>1 DEF NoFacts, IdleTxn, IdleReader, TxnType, ReaderType, Fact

\* TransactBegin takes mutex_.
LEMMA BeginStep == ASSUME IInv, TransactBegin PROVE IInv'
  <1> USE DEF IInv, TransactBegin, Healthy, SequenceLeft
  <1>1. txn' \in TxnType /\ txn'.pc = "loop" /\ txn'.updates = NoFacts
    BY IdleType, Zenon DEF TypeOK, TxnType, Counters, IdleTxn
  <1>2. TypeOK' /\ RootsResolve' /\ NoResurrection' /\ LimboSound'
    BY <1>1, Zenon DEF TypeOK, RootsResolve, NoResurrection, LimboSound, TransactTo, CollectTo, Named, Present
  <1>3. CacheCoherent' /\ ReadsAreCurrent' /\ EpochSound' /\ ReadersSound'
    BY Zenon DEF CacheCoherent, ReadsAreCurrent, EpochSound, ReadersSound
  <1>4. TxnSound'
    BY <1>1, IdleType, Zenon DEF TxnSound, IdleTxn
  <1> QED BY <1>2, <1>3, <1>4, Zenon

\* A mutation only grows the batch and the two caches.
LEMMA MutateStep ==
    ASSUME IInv, NEW k \in Keys, Mutation(k),
           txn' \in TxnType,
           txn'.pc = "loop",
           txn.values \subseteq txn'.values,
           \A j \in Keys : txn'.updates[j] \in {txn.updates[j], None} \cup objects \cup txn'.values,
           \A v \in txn'.values : \E j \in Keys : txn'.updates[j] = v,
           objectCache' \subseteq objects
    PROVE  IInv'
  <1> USE DEF IInv, Mutation
  <1>1. TypeOK'
    BY LookupSound, Zenon DEF TypeOK
  <1>2. RootsResolve' /\ NoResurrection' /\ LimboSound'
    BY DEF RootsResolve, NoResurrection, LimboSound, TransactTo, CollectTo, Named, Present
  <1>3. CacheCoherent' /\ EpochSound'
    BY LookupSound DEF CacheCoherent, EpochSound, TypeOK, Counters
  <1>4. ReadsAreCurrent' /\ ReadersSound'
    BY Zenon DEF ReadsAreCurrent, ReadersSound
  <1>5. TxnSound'
    BY Zenon DEF TxnSound
  <1> QED BY <1>1, <1>2, <1>3, <1>4, <1>5, Zenon

\* The three kinds of mutation.
LEMMA MutationsStep ==
    ASSUME IInv, NEW k \in Keys, NEW o \in Objects,
           MutateValue(k, o) \/ MutateReference(k, o) \/ MutateDelete(k)
    PROVE  IInv'
  <1>0. txn \in TxnType /\ RootsAfterPut(k) \in Int /\ txn.roots - 1 \in Int /\ None \in Fact /\ o \in Fact
    BY DEF IInv, TypeOK, TxnType, RootsAfterPut, Fact, Root
  <1>1. objectCache \subseteq objects
    BY Zenon DEF IInv, NoResurrection
  <1>5. /\ Unknown \notin Objects /\ txn.values \subseteq Objects
        /\ Mutation(k) => txn.updates[k] = Unknown
        /\ txn.pc = "loop" => \A v \in txn.values : \E j \in Keys : txn.updates[j] = v
    BY <1>0, LevelStoreAssumption, Zenon DEF IInv, TxnSound, TxnType, Mutation
  <1>2. CASE MutateValue(k, o)
    <2>1. Mutation(k) /\ txn.pc = "loop" /\ objectCache' = objectCache
      BY <1>2, Zenon DEF MutateValue, Mutation
    <2>2. txn' = [txn EXCEPT !.updates[k] = o, !.values = txn.values \cup {o}, !.roots = RootsAfterPut(k)]
      BY <1>2, Zenon DEF MutateValue
    <2>3. txn' \in TxnType /\ txn'.pc = "loop" /\ txn'.values = txn.values \cup {o}
      BY <1>0, <2>1, <2>2, Zenon DEF TxnType
    <2>4. \A j \in Keys : txn'.updates[j] = IF j = k THEN o ELSE txn.updates[j]
      BY <1>0, <2>2, Zenon DEF TxnType
    <2>5. \A v \in txn'.values : \E j \in Keys : txn'.updates[j] = v
      BY <1>5, <2>1, <2>3, <2>4
    <2> QED BY <1>1, <2>1, <2>3, <2>4, <2>5, MutateStep, Zenon
  <1>3. CASE MutateReference(k, o)
    <2>1. Mutation(k) /\ txn.pc = "loop"
      BY <1>3, Zenon DEF MutateReference, Mutation
    <2>2. txn' = [txn EXCEPT !.updates[k] = o, !.roots = RootsAfterPut(k)]
      BY <1>3, Zenon DEF MutateReference
    <2>3. txn' \in TxnType /\ txn'.pc = "loop" /\ txn'.values = txn.values
      BY <1>0, <2>1, <2>2, Zenon DEF TxnType
    <2>4. \A j \in Keys : txn'.updates[j] = IF j = k THEN o ELSE txn.updates[j]
      BY <1>0, <2>2, Zenon DEF TxnType
    <2>5. o \in objects /\ objectCache' \subseteq objects
      BY <1>1, <1>3, Zenon DEF MutateReference, Resolves, Admit
    <2>6. \A v \in txn'.values : \E j \in Keys : txn'.updates[j] = v
      BY <1>5, <2>1, <2>3, <2>4, Zenon
    <2> QED BY <2>1, <2>3, <2>4, <2>5, <2>6, MutateStep, Zenon
  <1>4. CASE MutateDelete(k)
    <2>1. Mutation(k) /\ txn.pc = "loop" /\ objectCache' = objectCache
      BY <1>4, Zenon DEF MutateDelete, Mutation
    <2>2. txn' = [txn EXCEPT !.updates[k] = None, !.roots = txn.roots - 1]
      BY <1>4, Zenon DEF MutateDelete
    <2>3. txn' \in TxnType /\ txn'.pc = "loop" /\ txn'.values = txn.values
      BY <1>0, <2>1, <2>2, Zenon DEF TxnType
    <2>4. \A j \in Keys : txn'.updates[j] = IF j = k THEN None ELSE txn.updates[j]
      BY <1>0, <2>2, Zenon DEF TxnType
    <2>5. \A v \in txn'.values : \E j \in Keys : txn'.updates[j] = v
      BY <1>5, <2>1, <2>3, <2>4, Zenon
    <2> QED BY <1>1, <2>1, <2>3, <2>4, <2>5, MutateStep, Zenon
  <1> QED BY <1>2, <1>3, <1>4, Zenon

\* A transaction that throws leaves the batch behind.
LEMMA ThrowStep == ASSUME IInv, NEW k \in Keys, TransactThrow(k) PROVE IInv'
  <1> USE DEF IInv, TransactThrow
  <1>1. TypeOK'
    BY IdleType, LookupSound DEF TypeOK
  <1>2. RootsResolve' /\ NoResurrection' /\ LimboSound'
    BY Zenon DEF RootsResolve, NoResurrection, LimboSound, TransactTo, CollectTo, Named, Present
  <1>3. CacheCoherent' /\ EpochSound'
    BY LookupSound DEF CacheCoherent, EpochSound, TypeOK, Counters
  <1>4. ReadsAreCurrent' /\ ReadersSound' /\ TxnSound'
    BY Zenon DEF ReadsAreCurrent, ReadersSound, TxnSound, IdleTxn
  <1> QED BY <1>1, <1>2, <1>3, <1>4, Zenon

\* The WriteBatch is a database whose roots resolve.
LEMMA BatchSound ==
    ASSUME IInv, txn.pc = "loop"
    PROVE  /\ Batch \in Database
           /\ Named(Batch.roots) \subseteq Batch.objects
           /\ objects \subseteq Batch.objects
           /\ Batch.disk.sequence = meta.sequence + 1
           /\ TransactTo(Batch)
  <1> USE DEF IInv
  <1>1. meta.sequence + 1 \in 0..MaxSequence
    BY LevelStoreAssumption DEF TypeOK, Counters, TxnSound
  <1>2. meta.objects + Cardinality(txn.values \ objects) \in Int
    BY CardInt DEF TypeOK, Counters, TxnType
  <1>3. Batch.roots \in [Keys -> Root]
    BY Zenon DEF Batch, TypeOK, TxnType, Fact
  <1>4. Batch \in Database
    BY <1>1, <1>2, <1>3, Zenon DEF Batch, Database, Counters, TypeOK, TxnType
  <1>5. Named(Batch.roots) \subseteq Batch.objects
    <2> SUFFICES ASSUME NEW k \in Keys, Batch.roots[k] # None
                 PROVE  Batch.roots[k] \in objects \cup txn.values
      BY Zenon DEF Named, Present, Batch
    <2>1. CASE txn.updates[k] = Unknown
      BY <2>1, Zenon DEF Batch, RootsResolve, Named, Present
    <2>2. CASE txn.updates[k] # Unknown
      BY <2>2, Zenon DEF Batch, TxnSound
    <2> QED BY <2>1, <2>2, Zenon
  <1>6. \A o \in txn.values : \E k \in Keys : Batch.roots[k] = o
    BY LevelStoreAssumption DEF Batch, TxnSound, TypeOK, TxnType
  <1> QED BY <1>4, <1>5, <1>6, Zenon DEF Batch, TransactTo

\* DB::Write puts the batch in the database, under the old epoch.
LEMMA WriteStep == ASSUME IInv, TransactWrite PROVE IInv'
  <1> USE DEF IInv
  <1>0. /\ txn.pc = "loop"
        /\ Store(Batch)
        /\ txn' = [txn EXCEPT !.pc = "written"]
        /\ reader' = [r \in Readers |-> Witnessed(r)]
        /\ UNCHANGED <<limbo, meta, poisoned, rootCache, objectCache, published>>
    BY Zenon DEF TransactWrite
  <1>1. /\ roots' \in [Keys -> Root]
        /\ objects' \in SUBSET Objects
        /\ disk' \in Counters
        /\ Named(roots') \subseteq objects'
        /\ objects \subseteq objects'
        /\ disk'.sequence = meta.sequence + 1
    BY <1>0, BatchSound, Zenon DEF Store, Database
  <1>2. txn' \in TxnType /\ txn'.pc = "written"
    BY <1>0, Zenon DEF TypeOK, TxnType
  <1>3. \A r \in Readers : /\ reader'[r] \in ReaderType
                           /\ reader'[r].pc = reader[r].pc
                           /\ reader'[r].key = reader[r].key
                           /\ reader'[r].object = reader[r].object
                           /\ reader'[r].epoch = reader[r].epoch
                           /\ reader'[r].got = reader[r].got
                           /\ reader[r].seen \subseteq reader'[r].seen
                           /\ reader[r].pc \in {"get", "install"} => roots'[reader[r].key] \in reader'[r].seen
    <2> SUFFICES ASSUME NEW r \in Readers
                 PROVE  /\ Witnessed(r) \in ReaderType
                        /\ Witnessed(r).pc = reader[r].pc
                        /\ Witnessed(r).key = reader[r].key
                        /\ Witnessed(r).object = reader[r].object
                        /\ Witnessed(r).epoch = reader[r].epoch
                        /\ Witnessed(r).got = reader[r].got
                        /\ reader[r].seen \subseteq Witnessed(r).seen
                        /\ reader[r].pc \in {"get", "install"} => roots'[reader[r].key] \in Witnessed(r).seen
      BY <1>0, Zenon
    <2>1. reader[r] \in ReaderType
      BY Zenon DEF TypeOK
    <2>2. CASE reader[r].pc \in {"get", "install", "done"}
      <3>1. roots'[reader[r].key] \in Root
        BY <1>1, <2>2, Zenon DEF ReadersSound
      <3>2. Witnessed(r) = [reader[r] EXCEPT !.seen = reader[r].seen \cup {roots'[reader[r].key]}]
        BY <2>2, Zenon DEF Witnessed
      <3> QED BY <2>1, <3>1, <3>2 DEF ReaderType
    <2>3. CASE reader[r].pc \notin {"get", "install", "done"}
      BY <2>1, <2>3, Zenon DEF Witnessed
    <2> QED BY <2>2, <2>3, Zenon
  <1>4. TypeOK'
    BY <1>0, <1>1, <1>2, <1>3, Zenon DEF TypeOK
  <1>5. RootsResolve' /\ NoResurrection' /\ LimboSound'
    BY <1>0, <1>1, Zenon DEF RootsResolve, NoResurrection, LimboSound, TxnSound, Named, Present
  <1>6. published = roots /\ TxnSound'
    BY <1>0, <1>1, <1>2, Zenon DEF TxnSound
  <1>7. CacheCoherent' /\ EpochSound'
    BY <1>0, <1>6, Zenon DEF CacheCoherent, EpochSound
  <1>8. ReadsAreCurrent'
    BY <1>3, Zenon DEF ReadsAreCurrent
  <1>9. ReadersSound'
    BY <1>0, <1>1, <1>3, <1>6 DEF ReadersSound
  <1> QED BY <1>4, <1>5, <1>6, <1>7, <1>8, <1>9, Zenon

\* Publishing starts a new epoch: no cached fact and no read belongs to it.
LEMMA PublishStep == ASSUME IInv, TransactPublish PROVE IInv'
  <1> USE DEF IInv, TransactPublish
  <1>1. /\ meta.sequence \in Nat /\ rootCache.sequence \in Nat
        /\ meta'.sequence = meta.sequence + 1
    BY DEF TxnSound, TypeOK, Counters
  <1>2. TypeOK'
    BY IdleType, Zenon DEF TypeOK
  <1>3. RootsResolve' /\ NoResurrection' /\ ReadsAreCurrent' /\ LimboSound'
    BY Zenon DEF RootsResolve, NoResurrection, ReadsAreCurrent, LimboSound, TransactTo, CollectTo, Named, Present
  <1>4. CacheCoherent' /\ EpochSound'
    BY <1>1 DEF CacheCoherent, EpochSound
  <1>5. TxnSound'
    BY Zenon DEF TxnSound, IdleTxn
  <1>6. \A r \in Readers : reader[r].epoch \in Nat
    BY DEF TypeOK, ReaderType
  <1>7. ReadersSound'
    <2>1. ReadersSound /\ UNCHANGED <<roots, objects, reader>>
      BY Zenon
    <2> HIDE DEF IInv, TransactPublish
    <2> QED BY <1>1, <1>6, <2>1 DEF ReadersSound
  <1> QED BY <1>2, <1>3, <1>4, <1>5, <1>7, Zenon

\* A failed Write leaves the batch in limbo.
LEMMA FailStep == ASSUME IInv, TransactFail PROVE IInv'
  <1> USE DEF IInv, TransactFail
  <1>1. TypeOK'
    BY BatchSound, IdleType, Zenon DEF TypeOK
  <1>2. RootsResolve' /\ NoResurrection' /\ LimboSound'
    <2>1. /\ poisoned' = TRUE /\ limbo' = {Batch}
          /\ UNCHANGED <<roots, objects, disk, meta, objectCache>>
      BY Zenon
    <2>2. /\ Named(Batch.roots) \subseteq Batch.objects /\ TransactTo(Batch)
          /\ Batch.disk.sequence = disk.sequence + 1
      BY BatchSound, Zenon DEF TxnSound
    <2>3. RootsResolve /\ NoResurrection
      BY Zenon
    <2> HIDE DEF IInv, TransactFail
    <2>4. ASSUME NEW d, d = Batch PROVE TransactTo(d)' /\ (Named(d.roots) \subseteq d.objects)'
      BY <2>1, <2>2, <2>4, Zenon DEF TransactTo, Named, Present
    <2>5. (Named(roots) \subseteq objects)'
      BY <2>1, <2>3, Zenon DEF RootsResolve, Named, Present
    <2> QED BY <2>1, <2>2, <2>3, <2>4, <2>5, Zenon DEF RootsResolve, NoResurrection, LimboSound
  <1>3. CacheCoherent' /\ EpochSound' /\ ReadsAreCurrent' /\ ReadersSound'
    BY Zenon DEF CacheCoherent, EpochSound, ReadsAreCurrent, ReadersSound
  <1>4. TxnSound'
    BY Zenon DEF TxnSound, IdleTxn
  <1> QED BY <1>1, <1>2, <1>3, <1>4, Zenon

\* What a step that leaves the database and the writer alone keeps.
LEMMA StoreFrame ==
    ASSUME RootsResolve, TxnSound, LimboSound,
           UNCHANGED <<roots, objects, disk, limbo, meta, poisoned, txn, published>>,
           objectCache' \subseteq objects
    PROVE  RootsResolve' /\ NoResurrection' /\ TxnSound' /\ LimboSound'
  <1>1. RootsResolve' /\ NoResurrection'
    BY Zenon DEF RootsResolve, NoResurrection, Named, Present
  <1>2. TxnSound'
    BY Zenon DEF TxnSound
  <1>3. LimboSound'
    BY Zenon DEF LimboSound, TransactTo, CollectTo, Named, Present
  <1> QED BY <1>1, <1>2, <1>3, Zenon

\* What ReadersSound says of the reader that moves is all there is to show.
LEMMA ReadersFrame ==
    ASSUME ReadersSound, NEW r \in Readers, NEW next,
           UNCHANGED <<roots, objects, meta, published>>,
           \A q \in Readers : reader'[q] = IF q = r THEN next ELSE reader[q],
           next.pc = "insert" => next.object \in objects,
           next.pc \in {"get", "install", "done"} => next.key \in Keys,
           next.pc \in {"get", "install"} =>
               next.epoch <= meta.sequence /\ roots[next.key] \in next.seen,
           next.pc = "install" => next.got \in next.seen /\ next.got = roots[next.key]
    PROVE  ReadersSound'
  <1> SUFFICES ASSUME NEW q \in Readers PROVE ReadersSound!(q)'
    BY Zenon DEF ReadersSound
  <1>1. CASE q = r
    BY <1>1, Zenon
  <1>2. CASE q # r
    BY <1>2, Zenon DEF ReadersSound
  <1> QED BY <1>1, <1>2, Zenon

\* A read begins: the cache moves to the current epoch and may answer.
LEMMA ReadBeginStep ==
    ASSUME IInv, NEW r \in Readers, NEW k \in Keys, ReadBegin(r, k) PROVE IInv'
  <1> USE DEF IInv
  <1> DEFINE c == Refresh(rootCache)
             begun == [IdleReader EXCEPT !.key = k, !.epoch = meta.sequence,
                                         !.seen = {published[k], roots[k]}]
             next == IF c.facts[k] # Unknown
                     THEN [begun EXCEPT !.pc = "done", !.got = c.facts[k]]
                     ELSE [begun EXCEPT !.pc = "get"]
  <1>1. /\ rootCache' = c
        /\ reader' = [reader EXCEPT ![r] = next]
        /\ UNCHANGED <<roots, objects, disk, limbo, meta, poisoned, objectCache, txn, published>>
    BY Zenon DEF ReadBegin
  <1>2. /\ c \in [sequence : 0..MaxSequence, facts : [Keys -> Fact]]
        /\ c.sequence = meta.sequence
        /\ \A j \in Keys : c.facts[j] \in {Unknown, published[j], roots[j]}
    BY RefreshSound, Zenon
  <1>3. {published[k], roots[k]} \subseteq Root /\ meta.sequence \in 0..MaxSequence
    BY DEF TypeOK, Counters
  <1>4. begun \in ReaderType /\ begun.key = k /\ begun.seen = {published[k], roots[k]}
                             /\ begun.epoch = meta.sequence
    BY <1>3, IdleType, Zenon DEF ReaderType, IdleReader
  <1> HIDE DEF begun, c
  <1>5. /\ next \in ReaderType
        /\ next.pc \in {"done", "get"}
        /\ next.pc = "done" => next.got \in next.seen
        /\ next.key = k /\ next.epoch = meta.sequence
        /\ roots[k] \in next.seen
    BY <1>2, <1>4, Zenon DEF ReaderType
  <1> HIDE DEF next
  <1>6. \A q \in Readers : reader'[q] = IF q = r THEN next ELSE reader[q]
    BY <1>1, Zenon DEF TypeOK
  <1>7. TypeOK'
    BY <1>1, <1>2, <1>5, Zenon DEF TypeOK
  <1>8. RootsResolve' /\ NoResurrection' /\ TxnSound' /\ LimboSound'
    BY <1>1, StoreFrame, Zenon DEF NoResurrection
  <1>9. CacheCoherent' /\ EpochSound'
    <2> HIDE DEF IInv
    <2>1. rootCache' = c /\ meta' = meta /\ published' = published /\ roots' = roots
      BY <1>1, Zenon
    <2>2. CacheCoherent'
      BY <1>2, <2>1, Zenon DEF CacheCoherent
    <2>3. rootCache'.sequence = meta'.sequence /\ meta'.sequence \in Int
      BY <1>2, <1>3, <2>1
    <2> QED BY <2>2, <2>3 DEF EpochSound
  <1>10. ReadsAreCurrent'
    BY <1>5, <1>6, Zenon DEF ReadsAreCurrent
  <1>11. ReadersSound'
    BY <1>1, <1>3, <1>5, <1>6, ReadersFrame
  <1> QED BY <1>7, <1>8, <1>9, <1>10, <1>11, Zenon

\* What a step of one reader must keep when only it and a cache move.
LEMMA ReaderFrame ==
    ASSUME IInv, NEW r \in Readers, NEW next \in ReaderType,
           reader' = [reader EXCEPT ![r] = next],
           UNCHANGED <<roots, objects, disk, limbo, meta, poisoned, txn, published>>,
           rootCache' \in [sequence : 0..MaxSequence, facts : [Keys -> Fact]],
           CacheCoherent', EpochSound',
           objectCache' \subseteq objects,
           next.pc \in {"idle", "done", "install", "insert"},
           next.pc = "insert" => next.object \in objects,
           next.pc \in {"install", "done"} => next.key \in Keys /\ next.got \in next.seen,
           next.pc = "install" =>
               /\ next.epoch <= meta.sequence
               /\ roots[next.key] \in next.seen
               /\ next.got = roots[next.key]
    PROVE  IInv'
  <1> USE DEF IInv
  <1>1. \A q \in Readers : reader'[q] = IF q = r THEN next ELSE reader[q]
    BY Zenon DEF TypeOK
  <1>2. TypeOK'
    BY Zenon DEF TypeOK
  <1>3. RootsResolve' /\ NoResurrection' /\ TxnSound' /\ LimboSound'
    BY StoreFrame, Zenon
  <1>4. ReadsAreCurrent'
    BY <1>1, Zenon DEF ReadsAreCurrent
  <1>5. ReadersSound'
    BY <1>1, ReadersFrame
  <1> QED BY <1>2, <1>3, <1>4, <1>5, Zenon

\* The later steps of a root read, and the two of a payload read.
LEMMA ReadStep ==
    ASSUME IInv, NEW r \in Readers, NEW o \in Objects \cup {Unknown},
           ReadGet(r) \/ ReadInstall(r) \/ ReadReturn(r) \/ ObjectGet(r, o) \/ ObjectInsert(r)
    PROVE  IInv'
  <1> USE DEF IInv
  <1>0. reader[r] \in ReaderType /\ objectCache \subseteq objects /\ o \in Objects \cup {Unknown}
    BY Zenon DEF TypeOK, NoResurrection
  <1>a. /\ rootCache \in [sequence : 0..MaxSequence, facts : [Keys -> Fact]]
        /\ rootCache' = rootCache /\ UNCHANGED <<roots, meta, published>> => CacheCoherent' /\ EpochSound'
    BY Zenon DEF TypeOK, CacheCoherent, EpochSound
  <1>1. CASE ReadGet(r)
    <2> DEFINE next == [reader[r] EXCEPT !.pc = "install", !.got = roots[reader[r].key]]
    <2>1. /\ reader[r].pc = "get"
          /\ reader' = [reader EXCEPT ![r] = next]
          /\ UNCHANGED <<roots, objects, disk, limbo, meta, poisoned, rootCache, objectCache, txn, published>>
      BY <1>1, Zenon DEF ReadGet, TypeOK
    <2>2. /\ reader[r].key \in Keys /\ reader[r].epoch <= meta.sequence
          /\ roots[reader[r].key] \in reader[r].seen
      BY <2>1, Zenon DEF ReadersSound
    <2>3. roots[reader[r].key] \in Fact
      BY <2>2, Zenon DEF TypeOK, Fact
    <2>4. /\ next \in ReaderType /\ next.pc = "install" /\ next.key = reader[r].key
          /\ next.epoch = reader[r].epoch /\ next.seen = reader[r].seen
          /\ next.got = roots[reader[r].key]
      BY <1>0, <2>3, Zenon DEF ReaderType
    <2> HIDE DEF next
    <2> QED BY <1>0, <1>a, <2>1, <2>2, <2>4, ReaderFrame, Zenon
  <1>2. CASE ReadInstall(r)
    <2> DEFINE next == [reader[r] EXCEPT !.pc = "done"]
    <2>1. /\ reader[r].pc = "install"
          /\ reader' = [reader EXCEPT ![r] = next]
          /\ rootCache' = IF MayInstall(r) THEN Install(rootCache, reader[r].key, reader[r].got) ELSE rootCache
          /\ UNCHANGED <<roots, objects, disk, limbo, meta, poisoned, objectCache, txn, published>>
      BY <1>2, Zenon DEF ReadInstall, TypeOK
    <2>2. /\ reader[r].key \in Keys /\ reader[r].got \in reader[r].seen /\ reader[r].got \in Fact
          /\ reader[r].epoch = meta.sequence =>
                 reader[r].got \in {published[reader[r].key], roots[reader[r].key]}
      BY <1>0, <2>1, Zenon DEF ReadersSound, ReaderType
    <2>3. /\ next \in ReaderType /\ next.pc = "done" /\ next.key = reader[r].key
          /\ next.got = reader[r].got /\ next.seen = reader[r].seen
      BY <1>0, Zenon DEF ReaderType
    <2>4. rootCache' \in [sequence : 0..MaxSequence, facts : [Keys -> Fact]] /\ CacheCoherent' /\ EpochSound'
      <3>1. CASE MayInstall(r)
        <4>1. rootCache.sequence = meta.sequence /\ reader[r].epoch = meta.sequence
          BY <3>1, Zenon DEF MayInstall
        <4>2. \A j \in Keys : rootCache.facts[j] \in {Unknown, published[j], roots[j]}
          BY <4>1, Zenon DEF CacheCoherent
        <4>3. /\ rootCache' \in [sequence : 0..MaxSequence, facts : [Keys -> Fact]]
              /\ rootCache'.sequence = rootCache.sequence
              /\ \A j \in Keys : rootCache'.facts[j] \in {Unknown, published[j], roots[j]}
          BY <1>a, <2>1, <2>2, <3>1, <4>1, <4>2, InstallSound
        <4> QED BY <2>1, <4>1, <4>3 DEF CacheCoherent, EpochSound, TypeOK, Counters
      <3>2. CASE ~MayInstall(r)
        BY <1>a, <2>1, <3>2, Zenon
      <3> QED BY <3>1, <3>2, Zenon
    <2> HIDE DEF next
    <2> QED BY <1>0, <2>1, <2>2, <2>3, <2>4, ReaderFrame, Zenon
  <1>3. CASE ReadReturn(r)
    BY <1>0, <1>a, <1>3, IdleType, ReaderFrame, Zenon DEF ReadReturn, IdleReader
  <1>4. CASE ObjectGet(r, o)
    <2> DEFINE next == [IdleReader EXCEPT !.pc = "insert", !.object = o]
    <2>1. next \in ReaderType /\ next.pc = "insert" /\ next.object = o
      BY <1>0, IdleType, Zenon DEF ReaderType, IdleReader
    <2> HIDE DEF next
    <2>2. /\ reader' = [reader EXCEPT ![r] = next] /\ o \in objects
          /\ UNCHANGED <<roots, objects, disk, limbo, meta, poisoned, rootCache, objectCache, txn, published>>
      BY <1>4, Zenon DEF ObjectGet, next
    <2> QED BY <1>0, <1>a, <2>1, <2>2, ReaderFrame, Zenon
  <1>5. CASE ObjectInsert(r)
    <2>1. objectCache' \subseteq objects
      BY <1>0, <1>5, Zenon DEF ObjectInsert, Admit, ReadersSound
    <2> QED BY <1>0, <1>a, <1>5, <2>1, IdleType, ReaderFrame, Zenon DEF ObjectInsert, IdleReader
  <1> QED BY <1>1, <1>2, <1>3, <1>4, <1>5, Zenon

\* An eviction and a verify() move the payload cache only.
LEMMA CacheStep ==
    ASSUME IInv, Verify \/ (\E o \in Objects : Evict(o)) \/ UNCHANGED vars
    PROVE  IInv'
  <1> USE DEF IInv
  <1>1. /\ objectCache' \subseteq objects
        /\ UNCHANGED <<roots, objects, disk, limbo, meta, poisoned, rootCache, txn, reader, published>>
    BY Zenon DEF Verify, Evict, NoResurrection, vars
  <1>2. TypeOK'
    BY <1>1, Zenon DEF TypeOK
  <1>3. RootsResolve' /\ NoResurrection' /\ LimboSound' /\ TxnSound'
    BY <1>1, StoreFrame, Zenon
  <1>4. CacheCoherent' /\ EpochSound'
    BY <1>1, Zenon DEF CacheCoherent, EpochSound
  <1>5. ReadsAreCurrent' /\ ReadersSound'
    BY <1>1, Zenon DEF ReadsAreCurrent, ReadersSound
  <1> QED BY <1>2, <1>3, <1>4, <1>5, Zenon

\* What a collection makes of the database is one whose roots resolve.
LEMMA CollectedSound ==
    ASSUME IInv, NEW live \in Marks, txn.pc = "idle", meta.sequence # MaxSequence
    PROVE  /\ Collected(live) \in Database
           /\ CollectTo(Collected(live))
           /\ Collected(live).disk.sequence = meta.sequence + 1
  <1> USE DEF IInv
  <1>1. live \subseteq objects /\ \A k \in Keys \ Registry : roots[k] # None => roots[k] \in live
    BY Zenon DEF Marks, Present
  <1>2. meta.sequence + 1 \in 0..MaxSequence
    BY LevelStoreAssumption DEF TypeOK, Counters
  <1>3. /\ meta.roots - Cardinality(Obsolete(live)) \in Int
        /\ meta.objects - Cardinality(objects \ live) \in Int
    BY CardInt, LevelStoreAssumption DEF TypeOK, Counters, Obsolete
  <1>4. Collected(live).roots \in [Keys -> Root]
    BY Zenon DEF Collected, TypeOK, Root
  <1>5. Collected(live) \in Database
    BY <1>1, <1>2, <1>3, <1>4, Zenon DEF Collected, Database, Counters, TypeOK
  <1>6. \A k \in Keys : Collected(live).roots[k] \in {None, roots[k]}
    BY Zenon DEF Collected
  <1>7. \A k \in Keys : Collected(live).roots[k] # None => Collected(live).roots[k] \in live
    BY <1>1, Zenon DEF Collected, Obsolete
  <1>8. CollectTo(Collected(live))
    BY <1>1, <1>6, <1>7, Zenon DEF CollectTo, Named, Present, Collected
  <1> QED BY <1>5, <1>8, Zenon DEF Collected

\* A collection, done or failed, with nothing else in flight.
LEMMA CollectStep ==
    ASSUME IInv, NEW live, Collect(live) \/ CollectFail(live) PROVE IInv'
  <1> USE DEF IInv
  <1>0. /\ Quiet /\ ~poisoned /\ meta.sequence # MaxSequence /\ live \in Marks
        /\ rootCache' = MarkedFacts /\ txn' = txn /\ reader' = reader
    BY Zenon DEF Collect, CollectFail, Healthy, SequenceLeft
  <1>1. /\ txn.pc = "idle" /\ \A r \in Readers : reader[r].pc = "idle"
        /\ limbo = {} /\ published = roots /\ disk.sequence = meta.sequence
    BY <1>0, Zenon DEF Quiet, LimboSound, TxnSound
  <1>2. /\ MarkedFacts \in [sequence : 0..MaxSequence, facts : [Keys -> Fact]]
        /\ MarkedFacts.sequence = meta.sequence /\ MarkedFacts.facts = roots
    BY Zenon DEF MarkedFacts, TypeOK, Counters, Fact
  <1>3. /\ Collected(live) \in Database /\ CollectTo(Collected(live))
        /\ Collected(live).disk.sequence = meta.sequence + 1
    BY <1>0, <1>1, CollectedSound, Zenon
  <1>4. meta.sequence \in Nat
    BY DEF TypeOK, Counters
  <1>5. ReadsAreCurrent' /\ ReadersSound'
    BY <1>0, <1>1, Zenon DEF ReadsAreCurrent, ReadersSound
  <1>6. CASE Collect(live)
    <2>1. /\ Store(Collected(live)) /\ meta' = Collected(live).disk
          /\ published' = Collected(live).roots /\ objectCache' = AfterPrune(Collected(live))
          /\ UNCHANGED <<limbo, poisoned>>
      BY <1>6, Zenon DEF Collect
    <2>2. TypeOK'
      BY <1>0, <1>2, <1>3, <2>1, LevelStoreAssumption, Zenon DEF TypeOK, Store, Database, AfterPrune
    <2>3. RootsResolve' /\ NoResurrection' /\ LimboSound'
      BY <1>1, <1>3, <2>1 DEF RootsResolve, NoResurrection, LimboSound, AfterPrune, CollectTo, Store,
         Named, Present
    <2>4. CacheCoherent' /\ EpochSound'
      <3> HIDE DEF IInv
      <3>1. rootCache'.sequence = meta.sequence /\ meta'.sequence = meta.sequence + 1
        BY <1>0, <1>2, <1>3, <2>1, Zenon
      <3> QED BY <1>4, <3>1 DEF CacheCoherent, EpochSound
    <2>5. TxnSound'
      BY <1>0, <1>1, <2>1, Zenon DEF TxnSound, Store
    <2> QED BY <1>5, <2>2, <2>3, <2>4, <2>5, Zenon
  <1>7. CASE CollectFail(live)
    <2>1. /\ poisoned' = TRUE /\ limbo' = {Collected(live)}
          /\ UNCHANGED <<roots, objects, disk, meta, objectCache, published>>
      BY <1>7, Zenon DEF CollectFail
    <2>2. TypeOK'
      BY <1>0, <1>2, <1>3, <2>1, Zenon DEF TypeOK
    <2>3. RootsResolve' /\ NoResurrection'
      BY <1>3, <2>1 DEF RootsResolve, NoResurrection, CollectTo, Named, Present
    <2>4. LimboSound'
      <3> HIDE DEF IInv
      <3>1. ASSUME NEW d, d = Collected(live) PROVE CollectTo(d)'
        BY <1>3, <2>1, <3>1, Zenon DEF CollectTo, Named, Present
      <3> QED BY <1>1, <1>3, <2>1, <3>1, Zenon DEF LimboSound
    <2>5. CacheCoherent' /\ EpochSound'
      <3> HIDE DEF IInv
      <3>1. rootCache'.sequence = meta'.sequence /\ rootCache'.facts = roots' /\ meta'.sequence \in Nat
        BY <1>0, <1>2, <1>4, <2>1, Zenon
      <3> QED BY <3>1 DEF CacheCoherent, EpochSound
    <2>6. TxnSound'
      BY <1>0, <1>1, <2>1, Zenon DEF TxnSound
    <2> QED BY <1>5, <2>2, <2>3, <2>4, <2>5, <2>6, Zenon
  <1> QED BY <1>6, <1>7, Zenon

\* A reopen starts from one of the databases the crash may have left.
LEMMA ReopenStep == ASSUME IInv, Reopen PROVE IInv'
  <1> USE DEF IInv
  <1>1. PICK d \in limbo \cup {[roots |-> roots, objects |-> objects, disk |-> disk]} :
            Store(d) /\ meta' = d.disk /\ published' = d.roots
    BY Zenon DEF Reopen
  <1>2. d \in Database /\ Named(d.roots) \subseteq d.objects
    BY DEF TypeOK, Database, RootsResolve
  <1>3. rootCache' \in [sequence : 0..MaxSequence, facts : [Keys -> Fact]]
    BY IdleType, LevelStoreAssumption DEF Reopen
  <1>4. TypeOK'
    BY <1>1, <1>2, <1>3, IdleType, Zenon DEF Reopen, TypeOK, Store, Database, NoLimbo
  <1>5. RootsResolve' /\ NoResurrection' /\ LimboSound'
    BY <1>1, <1>2, Zenon DEF Reopen, RootsResolve, NoResurrection, LimboSound, NoLimbo, Store, Named, Present
  <1>6. CacheCoherent' /\ EpochSound' /\ ReadsAreCurrent' /\ ReadersSound'
    BY IdleType, Zenon DEF Reopen, CacheCoherent, EpochSound, ReadsAreCurrent, ReadersSound, IdleReader
  <1>7. TxnSound'
    BY <1>1, Zenon DEF Reopen, TxnSound, IdleTxn, Store
  <1> QED BY <1>4, <1>5, <1>6, <1>7, Zenon

(* Every step of the store, of any thread, keeps the inductive invariant.    *)
LEMMA NextStep == IInv /\ [Next]_vars => IInv'
  <1> SUFFICES ASSUME IInv, [Next]_vars PROVE IInv'
    BY Zenon
  <1>1. CASE Transact
    <2>1. ASSUME NEW k \in Keys, MutateDelete(k) PROVE IInv'
      <3>1. CachedRoot(k) \in Root \ {None}
        <4>1. Refresh(rootCache).facts[k] \in {Unknown, published[k], roots[k]}
          BY RefreshSound, Zenon DEF IInv
        <4> QED BY <2>1, <4>1, Zenon DEF CachedRoot, MutateDelete, IInv, TypeOK
      <3> QED BY <2>1, <3>1, MutationsStep, Zenon DEF Root
    <2> QED BY <1>1, <2>1, BeginStep, MutationsStep, ThrowStep, WriteStep, PublishStep, FailStep, Zenon DEF Transact
  <1>2. ASSUME NEW r \in Readers, Read(r) PROVE IInv'
    BY <1>2, ReadBeginStep, ReadStep, Zenon DEF Read
  <1>3. CASE Verify \/ (\E o \in Objects : Evict(o)) \/ UNCHANGED vars
    BY <1>3, CacheStep, Zenon
  <1>4. CASE \E live \in SUBSET Objects : Collect(live) \/ CollectFail(live)
    BY <1>4, CollectStep, Zenon
  <1>5. CASE Reopen
    BY <1>5, ReopenStep, Zenon
  <1> QED BY <1>1, <1>2, <1>3, <1>4, <1>5, Zenon DEF Next

\* IInv holds in every reachable state.
LEMMA InvariantIInv == Spec => []IInv
  BY InitIInv, NextStep, PTL DEF Spec

-----------------------------------------------------------------------------
(* The theorems. *)

\* Every variable of the store keeps its type.
THEOREM TypeCorrect == Spec => []TypeOK
  <1>1. IInv => TypeOK
    BY Zenon DEF IInv
  <1> QED BY <1>1, InvariantIInv, PTL

\* Roots never dangle, in the running database or after a failed Write.
THEOREM RootsAlwaysResolve == Spec => []RootsResolve
  <1>1. IInv => RootsResolve
    BY Zenon DEF IInv
  <1> QED BY <1>1, InvariantIInv, PTL

\* No read installs a fact of an earlier epoch, and the payload cache never
\* vouches for a collected object.
THEOREM CachesAlwaysTrue == Spec => []CachesTrue
  <1>1. IInv => CachesTrue
    BY Zenon DEF IInv, CachesTrue
  <1> QED BY <1>1, InvariantIInv, PTL

\* Every root read returns a value the root had while the read ran.
THEOREM ReadsAlwaysCurrent == Spec => []ReadsAreCurrent
  <1>1. IInv => ReadsAreCurrent
    BY Zenon DEF IInv
  <1> QED BY <1>1, InvariantIInv, PTL

\* A failed Write freezes database and published state until the reopen.
THEOREM PoisonAlwaysFreezes == Spec => PoisonFreezes
  <1>1. IInv /\ [Next]_vars => [poisoned /\ poisoned' => UNCHANGED <<roots, objects, disk, meta, published>>]_vars
    <2> SUFFICES ASSUME IInv, Next, poisoned, poisoned'
                 PROVE  UNCHANGED <<roots, objects, disk, meta, published>>
      BY Zenon
    <2>1. txn.pc = "idle"
      BY Zenon DEF IInv, TypeOK, TxnType, TxnSound
    <2>2. ~Reopen
      BY Zenon DEF Reopen
    <2>3. CASE Transact
      BY <2>1, <2>3 DEF Transact, TransactBegin, MutateValue, MutateReference, MutateDelete, Mutation,
         TransactThrow, TransactWrite, TransactPublish, TransactFail
    <2>4. ASSUME NEW r \in Readers, Read(r) PROVE UNCHANGED <<roots, objects, disk, meta, published>>
      BY <2>4, Zenon DEF Read, ReadBegin, ReadGet, ReadInstall, ReadReturn, ObjectGet, ObjectInsert
    <2>5. CASE Verify \/ \E o \in Objects : Evict(o)
      BY <2>5, Zenon DEF Verify, Evict
    <2>6. CASE \E live \in SUBSET Objects : Collect(live) \/ CollectFail(live)
      BY <2>6, Zenon DEF Collect, CollectFail, Healthy
    <2> QED BY <2>2, <2>3, <2>4, <2>5, <2>6, Zenon DEF Next
  <1> QED BY <1>1, InvariantIInv, PTL DEF Spec, PoisonFreezes

\* A database one transaction or one collection ahead is an abstract step away.
LEMMA StoreRefines ==
    ASSUME IInv, NEW d \in Database, Store(d), d.disk.sequence = disk.sequence + 1,
           TransactTo(d) \/ CollectTo(d)
    PROVE  Abstract!Next
  <1>1. d.roots \in [Keys -> Abstract!Root] /\ d.objects \in SUBSET Objects
    BY Zenon DEF Database, Root, Abstract!Root
  <1>2. /\ roots' = d.roots /\ objects' = d.objects
        /\ (disk.sequence)' = disk.sequence + 1
    BY Zenon DEF Store
  <1>3. Abstract!Named(roots') = Named(d.roots)
    BY <1>2, Zenon DEF Abstract!Named, Named, Present
  <1>4. CASE TransactTo(d)
    <2>1. objects' \ objects \subseteq Abstract!Named(roots')
      BY <1>2, <1>4, LevelStoreAssumption, Zenon DEF TransactTo, Abstract!Named, Database
    <2> QED BY <1>1, <1>2, <1>3, <1>4, <2>1, Zenon DEF TransactTo, Abstract!Next, Abstract!Transact
  <1>5. CASE CollectTo(d)
    BY <1>1, <1>2, <1>3, <1>5, Zenon DEF CollectTo, Abstract!Next, Abstract!Collect
  <1> QED BY <1>4, <1>5, Zenon

\* The store implements ObjectStore: a Write, a collection, or a reopen that
\* finds the batch of a failed Write is one abstract step, all else is none.
THEOREM Refinement == Spec => ImplementsObjectStore
  <1>1. Init => Abstract!Init
    BY DEF Init, Abstract!Init
  <1>2. IInv /\ [Next]_vars => [Abstract!Next]_(Abstract!vars)
    <2> SUFFICES ASSUME IInv, [Next]_vars PROVE Abstract!Next \/ UNCHANGED <<roots, objects, disk>>
      BY Zenon DEF Abstract!vars
    <2>1. CASE Transact
      <3>1. CASE TransactWrite
        <4>1. Batch \in Database /\ TransactTo(Batch) /\ Batch.disk.sequence = disk.sequence + 1
          BY <3>1, BatchSound, Zenon DEF TransactWrite, IInv, TxnSound
        <4> QED BY <3>1, <4>1, StoreRefines, Zenon DEF TransactWrite
      <3> QED BY <2>1, <3>1, Zenon DEF Transact, TransactBegin, MutateValue, MutateReference, MutateDelete,
            Mutation, TransactThrow, TransactPublish, TransactFail
    <2>2. ASSUME NEW r \in Readers, Read(r) PROVE UNCHANGED <<roots, objects, disk>>
      BY <2>2, Zenon DEF Read, ReadBegin, ReadGet, ReadInstall, ReadReturn, ObjectGet, ObjectInsert
    <2>3. CASE Verify \/ \E o \in Objects : Evict(o)
      BY <2>3, Zenon DEF Verify, Evict
    <2>4. ASSUME NEW live, Collect(live) PROVE Abstract!Next
      <3>1. live \in Marks /\ txn.pc = "idle" /\ meta.sequence # MaxSequence /\ Store(Collected(live))
        BY <2>4, Zenon DEF Collect, Quiet, SequenceLeft
      <3>2. disk.sequence = meta.sequence
        BY <3>1, Zenon DEF IInv, TxnSound
      <3> QED BY <3>1, <3>2, CollectedSound, StoreRefines, Zenon
    <2>5. ASSUME NEW live, CollectFail(live) PROVE UNCHANGED <<roots, objects, disk>>
      BY <2>5, Zenon DEF CollectFail
    <2>6. CASE Reopen
      <3>1. PICK d \in limbo \cup {[roots |-> roots, objects |-> objects, disk |-> disk]} : Store(d)
        BY <2>6, Zenon DEF Reopen
      <3>2. CASE d \in limbo
        BY <3>1, <3>2, StoreRefines, Zenon DEF IInv, LimboSound, TypeOK
      <3>3. CASE d \notin limbo
        BY <3>1, <3>3 DEF Store
      <3> QED BY <3>2, <3>3, Zenon
    <2>7. CASE UNCHANGED vars
      BY <2>7, Zenon DEF vars
    <2> QED BY <2>1, <2>2, <2>3, <2>4, <2>5, <2>6, <2>7, Zenon DEF Next
  <1> QED BY <1>1, <1>2, InvariantIInv, PTL DEF Spec, ImplementsObjectStore, Abstract!Spec

-----------------------------------------------------------------------------
(* The counters: transact() counts from cached answers and collect() by      *)
(* subtraction, and verify() never finds a difference.                       *)

\* The counters of a database are those of its contents.
Counted(d) ==
    /\ d.disk.roots = Cardinality(Present(d.roots))
    /\ d.disk.objects = Cardinality(d.objects)

\* The inductive part: the batch being assembled knows how many roots there
\* will be, and what a reopen may find is counted too.
CountsSound ==
    /\ CountersExact
    /\ txn.pc = "loop" => txn.roots = Cardinality(Present(Batch.roots))
    /\ \A d \in limbo : Counted(d)

-----------------------------------------------------------------------------
(* Sets of roots and objects. *)

LEMMA FiniteSets == \A S : S \subseteq Objects \/ S \subseteq Keys => IsFiniteSet(S) /\ Cardinality(S) \in Nat
  BY LevelStoreAssumption, FS_Subset, FS_CardinalityType, Zenon

\* Adding one set to another that it may overlap.
LEMMA CountUnion ==
    ASSUME NEW S \in SUBSET Objects, NEW T \in SUBSET Objects
    PROVE  Cardinality(S \cup T) = Cardinality(S) + Cardinality(T \ S)
  <1>1. IsFiniteSet(S) /\ IsFiniteSet(T \ S) /\ Cardinality(S) \in Nat /\ Cardinality(T \ S) \in Nat
    BY FiniteSets, Zenon
  <1>2. Cardinality(S \cup (T \ S)) = Cardinality(S) + Cardinality(T \ S) - Cardinality(S \cap (T \ S))
    BY <1>1, FS_Union, Zenon
  <1>3. S \cap (T \ S) = {} /\ S \cup (T \ S) = S \cup T
    BY Zenon
  <1>4. Cardinality({}) = 0
    BY FS_EmptySet, Zenon
  <1>5. Cardinality(S \cup T) = Cardinality(S) + Cardinality(T \ S) - Cardinality({})
    BY <1>2, <1>3, Zenon
  <1> QED BY <1>1, <1>4, <1>5

\* Taking a subset away.
LEMMA CountRest ==
    ASSUME NEW S, NEW T \in SUBSET S, S \subseteq Objects \/ S \subseteq Keys
    PROVE  Cardinality(S \ T) = Cardinality(S) - Cardinality(T)
  <1>1. /\ IsFiniteSet(T) /\ IsFiniteSet(S \ T)
        /\ Cardinality(T) \in Nat /\ Cardinality(S \ T) \in Nat
    BY FiniteSets, Zenon
  <1>2. Cardinality(T \cup (S \ T)) = Cardinality(T) + Cardinality(S \ T) - Cardinality(T \cap (S \ T))
    BY <1>1, FS_Union, Zenon
  <1>3. T \cap (S \ T) = {} /\ T \cup (S \ T) = S
    BY Zenon
  <1>4. Cardinality({}) = 0
    BY FS_EmptySet, Zenon
  <1>5. Cardinality(S) = Cardinality(T) + Cardinality(S \ T) - Cardinality({})
    BY <1>2, <1>3, Zenon
  <1> QED BY <1>1, <1>4, <1>5

\* Under mutex_ the cached answer is the root: nothing commits meanwhile.
LEMMA LookupExact ==
    ASSUME IInv, txn.pc = "loop", NEW k \in Keys
    PROVE  CachedRoot(k) = roots[k]
  <1>1. Refresh(rootCache).facts[k] \in {Unknown, published[k], roots[k]}
    BY RefreshSound, Zenon DEF IInv
  <1>2. published = roots
    BY Zenon DEF IInv, TxnSound
  <1> QED BY <1>1, <1>2, Zenon DEF CachedRoot

\* One more root of the batch.
LEMMA CountOne ==
    ASSUME NEW r, NEW s, NEW k \in Keys, \A j \in Keys \ {k} : s[j] = r[j]
    PROVE  /\ r[k] = None /\ s[k] # None => Cardinality(Present(s)) = Cardinality(Present(r)) + 1
           /\ r[k] # None /\ s[k] # None => Cardinality(Present(s)) = Cardinality(Present(r))
           /\ r[k] # None /\ s[k] = None => Cardinality(Present(s)) = Cardinality(Present(r)) - 1
  <1>1. IsFiniteSet(Present(r))
    BY FiniteSets, Zenon DEF Present
  <1>2. ASSUME r[k] = None, s[k] # None PROVE Cardinality(Present(s)) = Cardinality(Present(r)) + 1
    <2>1. Present(s) = Present(r) \cup {k} /\ k \notin Present(r)
      BY <1>2 DEF Present
    <2> QED BY <1>1, <2>1, FS_AddElement, Zenon
  <1>3. ASSUME r[k] # None, s[k] # None PROVE Present(s) = Present(r)
    BY <1>3, Zenon DEF Present
  <1>4. ASSUME r[k] # None, s[k] = None PROVE Cardinality(Present(s)) = Cardinality(Present(r)) - 1
    <2>1. Present(s) = Present(r) \ {k} /\ k \in Present(r)
      BY <1>4, Zenon DEF Present
    <2> QED BY <1>1, <2>1, FS_RemoveElement, Zenon
  <1> QED BY <1>2, <1>3, <1>4, Zenon

\* A transaction's batch, and a collection's, are counted.
LEMMA BatchCounted == ASSUME IInv, CountsSound, txn.pc = "loop" PROVE Counted(Batch)
  <1>1. meta.objects = Cardinality(objects) /\ txn.roots = Cardinality(Present(Batch.roots))
    BY Zenon DEF CountsSound, CountersExact
  <1>2. Cardinality(objects \cup txn.values) = Cardinality(objects) + Cardinality(txn.values \ objects)
    BY CountUnion, Zenon DEF IInv, TypeOK, TxnType
  <1>3. /\ Batch.disk.roots = txn.roots
        /\ Batch.disk.objects = meta.objects + Cardinality(txn.values \ objects)
        /\ Batch.objects = objects \cup txn.values
    BY Zenon DEF Batch
  <1> QED BY <1>1, <1>2, <1>3, Zenon DEF Counted

LEMMA CollectionCounted ==
    ASSUME IInv, CountsSound, txn.pc = "idle", NEW live \in Marks PROVE Counted(Collected(live))
  <1>1. meta.objects = Cardinality(objects) /\ meta.roots = Cardinality(Present(roots))
    BY Zenon DEF CountsSound, CountersExact
  <1>2. live \in SUBSET objects /\ objects \subseteq Objects /\ Obsolete(live) \in SUBSET Present(roots)
    BY LevelStoreAssumption, Zenon DEF Marks, Obsolete, Present, IInv, TypeOK
  <1>3. Cardinality(objects \ live) = Cardinality(objects) - Cardinality(live)
    BY <1>2, CountRest, Zenon
  <1>4. Cardinality(Present(roots) \ Obsolete(live)) = Cardinality(Present(roots)) - Cardinality(Obsolete(live))
    <2>1. Present(roots) \subseteq Keys
      BY Zenon DEF Present
    <2> QED BY <1>2, <2>1, CountRest, Zenon
  <1>5. Present(Collected(live).roots) = Present(roots) \ Obsolete(live)
    BY Zenon DEF Collected, Present
  <1>6. /\ Collected(live).disk.roots = meta.roots - Cardinality(Obsolete(live))
        /\ Collected(live).disk.objects = meta.objects - Cardinality(objects \ live)
        /\ Collected(live).objects = live
    BY Zenon DEF Collected
  <1>7. Cardinality(live) \in Nat /\ Cardinality(objects) \in Nat
    BY <1>2, FiniteSets, Zenon
  <1> QED BY <1>1, <1>3, <1>4, <1>5, <1>6, <1>7 DEF Counted

-----------------------------------------------------------------------------
(* Steps. *)

\* A mutation counts from the answer of contains().
LEMMA MutationCounted ==
    ASSUME IInv, CountsSound, NEW k \in Keys, NEW v \in Root, Mutation(k),
           txn'.pc = "loop",
           txn'.updates = [txn.updates EXCEPT ![k] = v],
           txn'.roots = IF v = None THEN txn.roots - 1 ELSE RootsAfterPut(k),
           v = None => CachedRoot(k) # None
    PROVE  CountsSound'
  <1>1. /\ txn.pc = "loop" /\ txn.updates[k] = Unknown
        /\ UNCHANGED <<roots, objects, disk, limbo, meta>>
    BY Zenon DEF Mutation
  <1>2. CachedRoot(k) = roots[k]
    BY <1>1, LookupExact, Zenon
  <1>3. /\ Batch.roots[k] = roots[k]
        /\ Batch'.roots[k] = v
        /\ \A j \in Keys \ {k} : Batch'.roots[j] = Batch.roots[j]
    BY <1>1, LevelStoreAssumption DEF Batch, Root, IInv, TypeOK, TxnType
  <1>4. /\ Batch.roots[k] = None /\ v # None => Cardinality(Present(Batch'.roots)) = Cardinality(Present(Batch.roots)) + 1
        /\ Batch.roots[k] # None /\ v # None => Cardinality(Present(Batch'.roots)) = Cardinality(Present(Batch.roots))
        /\ Batch.roots[k] # None /\ v = None => Cardinality(Present(Batch'.roots)) = Cardinality(Present(Batch.roots)) - 1
    <2>1. PICK r, s : r = Batch.roots /\ s = Batch'.roots
      BY Zenon
    <2>2. \A j \in Keys \ {k} : s[j] = r[j]
      BY <1>3, <2>1, Zenon
    <2>3. /\ r[k] = None /\ s[k] # None => Cardinality(Present(s)) = Cardinality(Present(r)) + 1
          /\ r[k] # None /\ s[k] # None => Cardinality(Present(s)) = Cardinality(Present(r))
          /\ r[k] # None /\ s[k] = None => Cardinality(Present(s)) = Cardinality(Present(r)) - 1
      BY <2>2, CountOne, Zenon
    <2> QED BY <1>3, <2>1, <2>3, Zenon
  <1>5. txn'.roots = Cardinality(Present(Batch'.roots))
    BY <1>1, <1>2, <1>3, <1>4, Zenon DEF CountsSound, RootsAfterPut
  <1>6. CountersExact'
    BY <1>1, Zenon DEF CountsSound, CountersExact, Present
  <1>7. \A d \in limbo' : Counted(d)'
    BY <1>1, Zenon DEF CountsSound, Counted, Present
  <1>8. Present(Batch.roots)' = Present(Batch'.roots)
    BY Zenon DEF Present
  <1> QED BY <1>5, <1>6, <1>7, <1>8, Zenon DEF CountsSound

\* A step that leaves database, counters and writer alone, or ends the writer
\* before its Write.
LEMMA CountFrame ==
    ASSUME CountsSound, UNCHANGED <<roots, objects, disk, meta>>, \A d \in limbo' : Counted(d)',
           txn' = txn \/ (txn.pc # "written" /\ txn'.pc = "idle")
    PROVE  CountsSound'
  <1>1. CountersExact'
    BY Zenon DEF CountsSound, CountersExact, Present
  <1>2. CASE txn' = txn
    <2>1. Present(Batch.roots)' = Present(Batch.roots)
      BY <1>2, Zenon DEF Present, Batch
    <2> QED BY <1>1, <1>2, <2>1, Zenon DEF CountsSound
  <1>3. CASE txn'.pc = "idle"
    BY <1>1, <1>3, Zenon DEF CountsSound
  <1> QED BY <1>2, <1>3, Zenon

\* The database becomes one that is counted, and the counters in memory follow.
LEMMA CountStore ==
    ASSUME NEW d, Counted(d), Store(d), \A e \in limbo' : Counted(e)',
           txn'.pc \in {"idle", "written"}, txn'.pc = "idle" => meta' = d.disk
    PROVE  CountsSound'
  BY Zenon DEF CountsSound, CountersExact, Counted, Store, Present

\* Counted() is about its argument alone.
LEMMA CountedRigid == ASSUME NEW d, Counted(d) PROVE Counted(d)'
  BY Zenon DEF Counted, Present

LEMMA TransactCounted == ASSUME IInv, CountsSound, Transact PROVE CountsSound'
  <1>0. /\ txn \in TxnType /\ txn.pc \in {"idle", "loop", "written"}
        /\ \A d \in limbo : Counted(d)'
    BY CountedRigid, Zenon DEF IInv, TypeOK, TxnType, CountsSound
  <1>1. CASE TransactBegin
    <2>1. /\ txn'.pc = "loop" /\ txn'.updates = NoFacts /\ txn'.roots = meta.roots
          /\ txn.pc = "idle" /\ UNCHANGED <<roots, objects, disk, limbo, meta>>
      BY <1>1, Zenon DEF TransactBegin, IdleTxn
    <2>2. Present(Batch.roots)' = Present(roots)
      BY <2>1, Zenon DEF Batch, Present, NoFacts
    <2>3. CountersExact'
      BY <2>1, Zenon DEF CountsSound, CountersExact, Present
    <2> QED BY <1>0, <2>1, <2>2, <2>3, Zenon DEF CountsSound, CountersExact
  <1>2. ASSUME NEW k \in Keys, NEW o \in Objects, MutateValue(k, o) \/ MutateReference(k, o) PROVE CountsSound'
    <2>1. /\ Mutation(k) /\ txn'.pc = txn.pc /\ txn'.updates = [txn.updates EXCEPT ![k] = o]
          /\ txn'.roots = RootsAfterPut(k)
      BY <1>0, <1>2, Zenon DEF MutateValue, MutateReference, TxnType
    <2>2. o \in Root /\ o # None /\ txn.pc = "loop"
      BY <2>1, LevelStoreAssumption, Zenon DEF Root, Mutation
    <2> QED BY <2>1, <2>2, MutationCounted, Zenon
  <1>3. ASSUME NEW k \in Keys, MutateDelete(k) PROVE CountsSound'
    <2>1. /\ Mutation(k) /\ txn'.pc = txn.pc /\ txn'.updates = [txn.updates EXCEPT ![k] = None]
          /\ txn'.roots = txn.roots - 1 /\ CachedRoot(k) # None
      BY <1>0, <1>3, Zenon DEF MutateDelete, TxnType
    <2>2. None \in Root /\ txn.pc = "loop"
      BY <2>1, Zenon DEF Root, Mutation
    <2> QED BY <2>1, <2>2, MutationCounted, Zenon
  <1>4. ASSUME NEW k \in Keys, TransactThrow(k) PROVE CountsSound'
    BY <1>0, <1>4, CountFrame, Zenon DEF TransactThrow, IdleTxn
  <1>5. CASE TransactWrite
    <2>1. txn.pc = "loop" /\ Store(Batch) /\ txn'.pc = "written" /\ limbo' = limbo
      BY <1>0, <1>5, Zenon DEF TransactWrite, TxnType
    <2> QED BY <1>0, <2>1, BatchCounted, CountStore, Zenon
  <1>6. CASE TransactPublish
    <2>1. /\ txn'.pc = "idle" /\ meta' = disk' /\ UNCHANGED <<roots, objects, disk, limbo>>
      BY <1>6, Zenon DEF TransactPublish, IdleTxn
    <2> QED BY <1>0, <2>1, Zenon DEF CountsSound, CountersExact, Present
  <1>7. CASE TransactFail
    <2>1. /\ txn.pc = "loop" /\ txn'.pc = "idle" /\ limbo' = {Batch}
          /\ UNCHANGED <<roots, objects, disk, meta>>
      BY <1>7, Zenon DEF TransactFail, IdleTxn
    <2>2. \A d \in limbo' : Counted(d)'
      BY <2>1, BatchCounted, CountedRigid, Zenon
    <2> QED BY <2>1, <2>2, CountFrame, Zenon
  <1> QED BY <1>1, <1>2, <1>3, <1>4, <1>5, <1>6, <1>7, Zenon DEF Transact

LEMMA NextCounted == IInv /\ CountsSound /\ [Next]_vars => CountsSound'
  <1> SUFFICES ASSUME IInv, CountsSound, [Next]_vars PROVE CountsSound'
    BY Zenon
  <1>0. \A d \in limbo : Counted(d)'
    BY CountedRigid, Zenon DEF CountsSound
  <1>1. CASE Transact
    BY <1>1, TransactCounted, Zenon
  <1>2. CASE \/ \E r \in Readers : Read(r)
             \/ \E o \in Objects : Evict(o)
             \/ Verify
             \/ UNCHANGED vars
    <2>1. UNCHANGED <<roots, objects, disk, limbo, meta, txn>>
      BY <1>2, Zenon DEF Read, ReadBegin, ReadGet, ReadInstall, ReadReturn, ObjectGet, ObjectInsert, Evict, Verify, vars
    <2> QED BY <1>0, <2>1, CountFrame, Zenon
  <1>3. ASSUME NEW live, Collect(live) PROVE CountsSound'
    <2>1. /\ txn.pc = "idle" /\ live \in Marks /\ Store(Collected(live)) /\ meta' = Collected(live).disk
          /\ UNCHANGED <<txn, limbo>>
      BY <1>3, Zenon DEF Collect, Quiet
    <2> QED BY <1>0, <2>1, CollectionCounted, CountStore, Zenon
  <1>4. ASSUME NEW live, CollectFail(live) PROVE CountsSound'
    <2>1. /\ txn.pc = "idle" /\ live \in Marks /\ limbo' = {Collected(live)}
          /\ UNCHANGED <<roots, objects, disk, meta, txn>>
      BY <1>4, Zenon DEF CollectFail, Quiet
    <2>2. \A d \in limbo' : Counted(d)'
      BY <2>1, CollectionCounted, CountedRigid, Zenon
    <2> QED BY <2>1, <2>2, CountFrame, Zenon
  <1>5. CASE Reopen
    <2>1. PICK d \in limbo \cup {[roots |-> roots, objects |-> objects, disk |-> disk]} :
              Store(d) /\ meta' = d.disk
      BY <1>5, Zenon DEF Reopen
    <2>2. Counted(d)
      BY DEF CountsSound, CountersExact, Counted
    <2>3. limbo' = {} /\ txn'.pc = "idle"
      BY <1>5, Zenon DEF Reopen, NoLimbo, IdleTxn
    <2> QED BY <2>1, <2>2, <2>3, CountStore, Zenon
  <1> QED BY <1>1, <1>2, <1>3, <1>4, <1>5, Zenon DEF Next

LEMMA InitCounted == Init => CountsSound
  <1> SUFFICES ASSUME Init PROVE CountsSound
    BY Zenon
  <1>1. Present(roots) = {} /\ objects = {} /\ disk.roots = 0 /\ disk.objects = 0
    BY Zenon DEF Init, Present
  <1>2. CountersExact
    BY <1>1, FS_EmptySet, Zenon DEF Init, CountersExact
  <1> QED BY <1>2, Zenon DEF Init, CountsSound, IdleTxn, NoLimbo

\* LevelStore::verify() never complains, for any roots, objects and readers: the
\* variables keep their types, no root dangles, and M/roots and M/objects are the
\* numbers of roots and objects, also in a database that a reopen finds.
THEOREM AlwaysVerifies == Spec => []DatabaseVerifies
  <1>1. IInv /\ CountsSound => DatabaseVerifies
    BY Zenon DEF IInv, CountsSound, DatabaseVerifies
  <1> QED BY <1>1, InvariantIInv, InitCounted, NextCounted, PTL DEF Spec

=============================================================================
