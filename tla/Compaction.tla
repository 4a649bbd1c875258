----------------------------- MODULE Compaction -----------------------------
(***************************************************************************)
(* Sorted-run metadata and its compaction on the single-file back end:     *)
(* the delta runs and manifests of daemon/metadata_view.cpp, the compaction *)
(* task of daemon/compaction.cpp, the background worker of                 *)
(* daemon/maintenance.cpp and the writers of Namespace::update and         *)
(* Namespace::compact that feed it and wait for it.                        *)
(*                                                                         *)
(* Every block the code runs under Container::mutex_ is one step.  A run   *)
(* is a partial map from metadata keys to values or Tombstone; its object  *)
(* id is its content, so a run stands for its own id and a head (the       *)
(* World's manifest) is its sequence of runs, newest first.  Bytes are     *)
(* counted in entries and in runs.  A notification is the set of waiting   *)
(* threads it woke: a thread that is not in it sleeps.                     *)
(***************************************************************************)
EXTENDS Naturals, Sequences, FiniteSets, Functions

CONSTANTS
  Worlds,        \* the Worlds with a head, Main among them
  Main,          \* the World that may still be flat
  Writers,       \* client threads
  Updaters,      \* those of them that call update, the others only compact
  Worker,        \* the background thread
  Keys,          \* metadata keys, natural numbers in byte order
  RootKey,       \* the record of the namespace root, never removed
  Values,        \* metadata object ids
  Tombstone,     \* a deletion recorded in a run
  Flat,          \* the head of a World whose records are still flat roots
  FlatMap,       \* those records
  None,
  PartSize,      \* entries of one image run (64 KiB)
  Soft,          \* soft_run_limit
  Hard,          \* hard_run_limit
  StageLimit,    \* runs of one staging batch (stage_bytes)
  MaxRetries     \* attempts of Namespace::compact

Processes == Writers \cup {Worker}

\* Runs map keys to records or deletions, complete maps to records only.
Maps == UNION {[S -> Values \cup {Tombstone}] : S \in SUBSET Keys}
Complete == UNION {[S -> Values] : S \in SUBSET Keys}

ASSUME RootIsAKey == RootKey \in Keys /\ Keys \subseteq Nat /\ IsFiniteSet(Keys)
ASSUME LimitsOrdered == /\ {Soft, Hard, PartSize, StageLimit, MaxRetries} \subseteq Nat \ {0}
                        /\ Soft <= Hard
ASSUME FlatHasRoot == FlatMap \in Complete /\ RootKey \in DOMAIN FlatMap
ASSUME Apart == /\ Tombstone \notin Values /\ None \notin Worlds /\ Worker \notin Writers
                /\ \A n \in 1 .. Hard : Flat \notin [1 .. n -> Maps]
ASSUME MainIsAWorld == Main \in Worlds /\ IsFiniteSet(Worlds)

VARIABLES
  heads,     \* per World: the runs of its manifest, newest first, or Flat
  catalog,   \* the runs the object catalog holds
  healthy,   \* ~poisoned_ of the journal
  running,   \* compaction_running_
  stop,      \* compaction_stop_
  queue,     \* compaction_queue_ (compaction_pending_ is the set of its members)
  worker,    \* where the worker thread is
  tasks,     \* the Compaction object of each thread
  writers,   \* where each client thread is
  woken,     \* the threads blocked on compaction_cv_ that a notify_all woke
  expected   \* history: the records the committed updates leave in each World

vars == <<heads, catalog, healthy, running, stop, queue, worker, tasks, writers,
          woken, expected>>
service == <<running, stop, worker>>
store == <<heads, catalog, expected>>

--------------------------------------------------------------------------
\* Runs, views and plans.

Overlay(run, map) ==
  LET live == ((DOMAIN map) \ DOMAIN run) \cup {k \in DOMAIN run : run[k] # Tombstone}
  IN  [k \in live |-> IF k \in DOMAIN run THEN run[k] ELSE map[k]]

Least(S) == CHOOSE i \in S : \A j \in S : i <= j

\* NamespaceView::lookup and keys: the newest run that names the key decides.
ViewOf(head) ==
  IF head = Flat THEN FlatMap
  ELSE LET naming(k) == {i \in DOMAIN head : k \in DOMAIN head[i]}
           newest(k) == head[Least(naming(k))][k]
       IN  [k \in {k \in Keys : naming(k) # {} /\ newest(k) # Tombstone} |-> newest(k)]

RunCount(head) == IF head = Flat THEN 0 ELSE Len(head)

\* How many members of a set of numbers are no larger than k, and its i-th smallest member.
Rank(S, k) == Cardinality({j \in S : j <= k})
Nth(S, i) == CHOOSE k \in S : Rank(S, k) = i

\* The image runs of a complete map: consecutive keys, PartSize at a time.
ImageRuns(map) ==
  LET part(k) == (Rank(DOMAIN map, k) + PartSize - 1) \div PartSize
  IN  [i \in 1 .. (Cardinality(DOMAIN map) + PartSize - 1) \div PartSize |->
         [k \in {j \in DOMAIN map : part(j) = i} |-> map[k]]]

\* A World forked from the flat one was given a manifest.
ASSUME ForksFit == Worlds = {Main} \/ Len(ImageRuns(FlatMap)) <= Hard

\* The runs laid over one another, from the oldest to the newest.
Layered(head) ==
  LET upTo[j \in 0 .. Len(head)] ==
        IF j = 0 THEN [k \in {} |-> Tombstone] ELSE Overlay(head[Len(head) + 1 - j], upTo[j - 1])
  IN  upTo[Len(head)]

\* NamespaceView::compact_frozen.
Merged(head) == ImageRuns(IF head = Flat THEN FlatMap ELSE Layered(head))

\* The runs of a head but those equal to one.
Without(head, run) ==
  LET kept == {i \in DOMAIN head : head[i] # run}
  IN  [i \in 1 .. Cardinality(kept) |-> head[Nth(kept, i)]]

\* Mutant: the new run is added in front of an older identical one.
PlanDuplicate(head, change) ==
  CASE head = Flat -> ImageRuns(Overlay(change, FlatMap))
    [] head # Flat /\ head[1] = change -> head
    [] OTHER -> <<change>> \o head

\* NamespaceView::plan: a flat World is migrated to image runs, otherwise the
\* change becomes the newest run and an older identical run is dropped.
Plan(head, change) ==
  CASE head = Flat -> ImageRuns(Overlay(change, FlatMap))
    [] head # Flat /\ head[1] = change -> head
    [] OTHER -> <<change>> \o Without(head, change)

--------------------------------------------------------------------------
\* Tasks, writers and the initial state.

NoTask == [phase |-> "none", world |-> None, head |-> None, fresh |-> TRUE,
           output |-> << >>, staged |-> FALSE]
IdleWriter == [pc |-> "idle", request |-> None, before |-> None, failed |-> FALSE, tries |-> 0]
Operations == [key : Keys \ {RootKey}, value : Values \cup {Tombstone}]

Volatile ==
  /\ healthy' = TRUE
  /\ running' = FALSE
  /\ stop' = FALSE
  /\ queue' = << >>
  /\ worker' = "off"
  /\ tasks' = [p \in Processes |-> NoTask]
  /\ writers' = [w \in Writers |-> IdleWriter]
  /\ woken' = {}

Init ==
  /\ heads = [w \in Worlds |-> IF w = Main THEN Flat ELSE ImageRuns(FlatMap)]
  /\ catalog = IF Worlds = {Main} THEN {} ELSE Range(ImageRuns(FlatMap))
  /\ healthy = TRUE
  /\ running = FALSE
  /\ stop = FALSE
  /\ queue = << >>
  /\ worker = "off"
  /\ tasks = [p \in Processes |-> NoTask]
  /\ writers = [w \in Writers |-> IdleWriter]
  /\ woken = {}
  /\ expected = [w \in Worlds |-> FlatMap]

Blocked == {w \in Writers : writers[w].pc = "wait"}
             \cup (IF worker = "wait" THEN {Worker} ELSE {})
Background == running /\ ~stop

\* The members of a set, each once, in some order.
InAnyOrder(S) == CHOOSE s \in [1 .. Cardinality(S) -> S] : IsInjective(s)

\* schedule_compaction_locked: the queue after asking for these Worlds.
Scheduled(worlds) == queue \o InAnyOrder(worlds \ Range(queue))

\* Any other transaction moves the sequence a flat capture is fenced by.
Fenced(p) ==
  [q \in Processes |-> IF q # p /\ tasks[q].head = Flat
                       THEN [tasks[q] EXCEPT !.fresh = FALSE] ELSE tasks[q]]

\* A transaction of the journal: it commits, or its write fails, which poisons
\* the journal and leaves the outcome to the next open.
Commits(h, c, e) ==
  /\ heads' = h /\ catalog' = c /\ expected' = e
  /\ UNCHANGED healthy
Poisons(h, c, e) ==
  /\ healthy' = FALSE
  /\ \/ heads' = h /\ catalog' = c /\ expected' = e
     \/ UNCHANGED store

--------------------------------------------------------------------------
\* Namespace::update.

\* A request is what a thread inside update carries from one turn of its loop to
\* the next; a turn is one critical section, the first at the call itself.
Requests == [world : Worlds, op : Operations, offline : {FALSE}]
Turn(w, r) == \/ writers[w].pc = "idle" /\ w \in Updaters /\ r \in Requests
              \/ writers[w].pc = "run" /\ r = writers[w].request

Change(op) == [k \in {op.key} |-> op.value]
Invalid(r) == r.op.value = Tombstone /\ r.op.key \notin DOMAIN ViewOf(heads[r.world])
Offline(r) == ~Background /\ ~r.offline /\ RunCount(heads[r.world]) >= Soft
Full(r) == Background /\ RunCount(heads[r.world]) >= Hard
NewHead(r) == Plan(heads[r.world], Change(r.op))

\* Mutant: the room in the manifest is not checked.
RefusedUnbounded(r) == ~healthy \/ Invalid(r)

\* The operation is refused: the journal is poisoned, the operation is not valid
\* in the current view, or the manifest has no room for its run.
Refused(r) == \/ ~healthy
              \/ Invalid(r)
              \/ ~Offline(r) /\ ~Full(r)
                 /\ (RunCount(heads[r.world]) >= Hard \/ Len(NewHead(r)) > Hard)

UpdateRefused(w, r) ==
  /\ Turn(w, r)
  /\ Refused(r)
  /\ writers' = [writers EXCEPT ![w] = IdleWriter]
  /\ UNCHANGED <<store, healthy, queue, service, tasks, woken>>

\* No worker: the writer compacts its World itself, without the lock.
UpdateOffline(w, r) ==
  /\ Turn(w, r)
  /\ ~Refused(r)
  /\ Offline(r)
  /\ writers' = [writers EXCEPT ![w] = [IdleWriter EXCEPT !.pc = "compact", !.request = r, !.tries = 1]]
  /\ tasks' = [tasks EXCEPT ![w] = [NoTask EXCEPT !.phase = "new", !.world = r.world]]
  /\ UNCHANGED <<store, healthy, queue, service, woken>>

\* Backpressure: ask for a compaction and wait with the lock released.
UpdateWait(w, r) ==
  /\ Turn(w, r)
  /\ ~Refused(r)
  /\ Full(r)
  /\ queue' = Scheduled({r.world})
  /\ woken' = IF queue' # queue THEN woken \cup Blocked ELSE woken
  /\ writers' = [writers EXCEPT ![w] = [IdleWriter EXCEPT !.pc = "wait", !.request = r,
                                                         !.before = heads[r.world]]]
  /\ UNCHANGED <<store, healthy, service, tasks>>

UpdateCommit(w, r) ==
  LET head == NewHead(r)
      h == [heads EXCEPT ![r.world] = head]
      c == catalog \cup Range(head)
      e == [expected EXCEPT ![r.world] = Overlay(Change(r.op), @)]
  IN  /\ Turn(w, r)
      /\ ~Refused(r) /\ ~Offline(r) /\ ~Full(r)
      /\ \/ /\ Commits(h, c, e)
            /\ queue' = IF Background /\ Len(head) >= Soft THEN Scheduled({r.world}) ELSE queue
            /\ woken' = woken \cup Blocked
         \/ /\ Poisons(h, c, e)
            /\ UNCHANGED <<queue, woken>>
      /\ tasks' = Fenced(w)
      /\ writers' = [writers EXCEPT ![w] = IdleWriter]
      /\ UNCHANGED service

Update(w, r) == UpdateRefused(w, r) \/ UpdateOffline(w, r) \/ UpdateWait(w, r) \/ UpdateCommit(w, r)

\* The predicate of the wait; reading a poisoned journal throws out of it.
Released(w) == \/ stop
               \/ writers[w].failed
               \/ ~healthy
               \/ heads[writers[w].request.world] # writers[w].before

Leave(w) ==
  writers' = [writers EXCEPT ![w] =
                IF @.failed \/ ~healthy THEN IdleWriter
                ELSE [@ EXCEPT !.pc = "run", !.before = None]]

WaitWake(w) ==
  /\ writers[w].pc = "wait"
  /\ w \in woken
  /\ woken' = woken \ {w}
  /\ IF Released(w) THEN Leave(w) ELSE UNCHANGED writers
  /\ UNCHANGED <<store, healthy, queue, service, tasks>>

\* Ten seconds passed: the predicate decides between going on and the error.
WaitTimeout(w) ==
  /\ writers[w].pc = "wait"
  /\ woken' = woken \ {w}
  /\ IF Released(w) THEN Leave(w) ELSE writers' = [writers EXCEPT ![w] = IdleWriter]
  /\ UNCHANGED <<store, healthy, queue, service, tasks>>

--------------------------------------------------------------------------
\* Namespace::compact, on a client thread.

Compact(w, world) ==
  /\ writers[w].pc = "idle"
  /\ writers' = [writers EXCEPT ![w] = [IdleWriter EXCEPT !.pc = "compact", !.tries = 1]]
  /\ tasks' = [tasks EXCEPT ![w] = [NoTask EXCEPT !.phase = "new", !.world = world]]
  /\ UNCHANGED <<store, healthy, queue, service, woken>>

\* A stale candidate is built again; the update goes on after a success.
CompactReturn(w) ==
  LET again == tasks[w].phase = "stale" /\ writers[w].tries < MaxRetries
      goesOn == tasks[w].phase = "installed" /\ writers[w].request # None
  IN  /\ writers[w].pc = "compact"
      /\ tasks[w].phase \in {"installed", "stale", "failed"}
      /\ tasks' = [tasks EXCEPT ![w] =
                     IF again THEN [NoTask EXCEPT !.phase = "new", !.world = tasks[w].world]
                     ELSE NoTask]
      /\ writers' = [writers EXCEPT ![w] =
                       CASE again  -> [@ EXCEPT !.tries = writers[w].tries + 1]
                         [] goesOn -> [@ EXCEPT !.pc = "run", !.request.offline = TRUE, !.tries = 0]
                         [] OTHER  -> IdleWriter]
      /\ UNCHANGED <<store, healthy, queue, service, woken>>

--------------------------------------------------------------------------
\* The compaction task (class Compaction), on the worker or on a client thread.

\* What is left of a task when install returns or throws.
Over(task, phase) == [NoTask EXCEPT !.phase = phase, !.world = task.world,
                                    !.output = IF phase = "installed" THEN task.output ELSE @]
Ends(p, phase) == tasks' = [tasks EXCEPT ![p] = Over(@, phase)]

\* prepare and build: capture the head under the lock, merge without it.  A
\* merge that needs more runs than a manifest holds is an error.
Prepare(p) ==
  LET head == heads[tasks[p].world]
      output == Merged(head)
  IN  /\ tasks[p].phase = "new"
      /\ IF ~healthy \/ Len(output) > Hard
         THEN Ends(p, "failed")
         ELSE tasks' = [tasks EXCEPT ![p] = [@ EXCEPT !.phase = "built", !.head = head,
                                                      !.output = output]]
      /\ UNCHANGED <<store, healthy, queue, service, writers, woken>>

\* Mutant: any head is taken for the captured one.
MatchesAny(p) == tasks[p].head # Flat \/ tasks[p].fresh

\* matches_head_locked.
Matches(p) ==
  /\ heads[tasks[p].world] = tasks[p].head
  /\ tasks[p].head # Flat \/ tasks[p].fresh

\* The locked check that opens install.
InstallCheck(p) ==
  /\ tasks[p].phase = "built"
  /\ CASE ~healthy -> Ends(p, "failed")
       [] healthy /\ ~Matches(p) -> Ends(p, "stale")
       [] healthy /\ Matches(p) /\ tasks[p].head = tasks[p].output -> Ends(p, "installed")
       [] OTHER ->
            LET staged == Len(tasks[p].output) > StageLimit
            IN  tasks' = [tasks EXCEPT ![p] = [@ EXCEPT !.staged = staged,
                                                 !.phase = IF staged THEN "stage" ELSE "publish"]]
  /\ UNCHANGED <<store, healthy, queue, service, writers, woken>>

Missing(p) == {i \in DOMAIN tasks[p].output : tasks[p].output[i] \notin catalog}

Ready(p) == Missing(p) = {}

\* stage_next: one durable batch of the outputs the catalog lacks.  The cursor
\* only skips outputs already found there, and the catalog never shrinks.
StageNext(p) ==
  LET batch == {i \in Missing(p) : Rank(Missing(p), i) <= StageLimit}
      c == catalog \cup {tasks[p].output[i] : i \in batch}
      moved == Fenced(p)
  IN  /\ tasks[p].phase = "stage"
      /\ CASE ~healthy -> Ends(p, "failed") /\ UNCHANGED <<store, healthy>>
           [] healthy /\ ~Matches(p) -> Ends(p, "stale") /\ UNCHANGED <<store, healthy>>
           [] healthy /\ Matches(p) /\ Ready(p) ->
                tasks' = [tasks EXCEPT ![p].phase = "publish"] /\ UNCHANGED <<store, healthy>>
           [] OTHER ->
                \/ Commits(heads, c, expected) /\ tasks' = moved
                \/ Poisons(heads, c, expected) /\ tasks' = [moved EXCEPT ![p] = Over(@, "failed")]
      /\ UNCHANGED <<queue, service, writers, woken>>

\* The locked end of install: the head is switched in one transaction, with the
\* outputs not staged before it.
Publish(p) ==
  LET world == tasks[p].world
      output == tasks[p].output
      h == [heads EXCEPT ![world] = output]
      c == IF tasks[p].staged THEN catalog ELSE catalog \cup Range(output)
      moved == Fenced(p)
  IN  /\ tasks[p].phase = "publish"
      /\ CASE ~healthy \/ (tasks[p].staged /\ ~Ready(p) /\ Matches(p)) ->
                Ends(p, "failed") /\ UNCHANGED <<store, healthy, woken>>
           [] healthy /\ ~Matches(p) -> Ends(p, "stale") /\ UNCHANGED <<store, healthy, woken>>
           [] OTHER ->
                \/ /\ Commits(h, c, expected)
                   /\ tasks' = [moved EXCEPT ![p] = Over(@, "installed")]
                   /\ woken' = woken \cup Blocked
                \/ /\ Poisons(h, c, expected)
                   /\ tasks' = [moved EXCEPT ![p] = Over(@, "failed")]
                   /\ UNCHANGED woken
      /\ UNCHANGED <<queue, service, writers>>

--------------------------------------------------------------------------
\* The worker thread and its life cycle.

\* Mutant: the Worlds that are already over the limit are not looked for.
DueNever == {}

\* The Worlds start_compaction finds due in the durable heads.
Due == {w \in Worlds : RunCount(heads[w]) >= Soft}

StartCompaction ==
  /\ ~running
  /\ healthy
  /\ running' = TRUE
  /\ stop' = FALSE
  /\ worker' = "wait"
  /\ queue' = Scheduled(Due)
  /\ woken' = woken \cup Blocked \cup {Worker}
  /\ UNCHANGED <<store, healthy, tasks, writers>>

\* Mutant: the stop flag is set without a notification.
StopSilently ==
  /\ running
  /\ ~stop
  /\ stop' = TRUE
  /\ UNCHANGED <<store, healthy, running, queue, worker, tasks, writers, woken>>

StopRequest ==
  /\ running
  /\ ~stop
  /\ stop' = TRUE
  /\ woken' = woken \cup Blocked
  /\ UNCHANGED <<store, healthy, running, queue, worker, tasks, writers>>

StopJoined ==
  /\ running
  /\ stop
  /\ worker = "exited"
  /\ running' = FALSE
  /\ worker' = "off"
  /\ queue' = << >>
  /\ woken' = woken \cup Blocked
  /\ UNCHANGED <<store, healthy, stop, tasks, writers>>

WorkerWake ==
  /\ worker = "wait"
  /\ Worker \in woken
  /\ woken' = woken \ {Worker}
  /\ CASE stop -> worker' = "exited" /\ UNCHANGED <<queue, tasks>>
       [] ~stop /\ queue # << >> ->
            /\ worker' = "task"
            /\ queue' = Tail(queue)
            /\ tasks' = [tasks EXCEPT ![Worker] = [NoTask EXCEPT !.phase = "new", !.world = Head(queue)]]
       [] OTHER -> UNCHANGED <<worker, queue, tasks>>
  /\ UNCHANGED <<store, healthy, running, stop, writers>>

\* Mutant: a job that leaves the manifest full counts as a success.
FailedPlainly(task) == task.phase = "failed"

\* The job failed, or its merge leaves no room in the manifest.
JobFailed(task) == \/ task.phase = "failed"
                   \/ task.phase = "installed" /\ Len(task.output) >= Hard

\* The queue after a job: a raced World is queued again.
Requeue(task) == IF task.phase = "stale" /\ Background THEN Scheduled({task.world}) ELSE queue

WorkerFinish ==
  LET task == tasks[Worker]
  IN  /\ worker = "task"
      /\ task.phase \in {"installed", "stale", "failed"}
      /\ writers' = [w \in Writers |->
                       IF JobFailed(task) /\ writers[w].pc = "wait" /\ writers[w].request.world = task.world
                       THEN [writers[w] EXCEPT !.failed = TRUE] ELSE writers[w]]
      /\ queue' = Requeue(task)
      /\ tasks' = [tasks EXCEPT ![Worker] = NoTask]
      /\ worker' = IF task.phase = "stale" /\ ~stop THEN "backoff" ELSE "wait"
      /\ woken' = woken \cup Blocked \cup (IF worker' = "wait" THEN {Worker} ELSE {})
      /\ UNCHANGED <<store, healthy, running, stop>>

\* The back-off ends after ten milliseconds, or at once on a stop.
WorkerBackoff ==
  /\ worker = "backoff"
  /\ worker' = "wait"
  /\ woken' = woken \cup {Worker}
  /\ UNCHANGED <<store, healthy, queue, running, stop, tasks, writers>>

--------------------------------------------------------------------------
\* The rest of the process.

\* A transaction on other roots (Container::put, Container::transact).
OtherTransact ==
  /\ healthy
  /\ tasks' = Fenced(None)
  /\ UNCHANGED <<store, healthy, queue, service, writers, woken>>

\* The process ends and the container is opened again: the committed heads and
\* objects are there, the queue, the jobs and the waiters are gone.
Restart == Volatile /\ UNCHANGED store

TaskStep(p) == Prepare(p) \/ InstallCheck(p) \/ StageNext(p) \/ Publish(p)
WriterStep(w) == \/ writers[w].pc = "run" /\ Update(w, writers[w].request)
                 \/ WaitWake(w)
                 \/ CompactReturn(w)
WorkerStep == WorkerWake \/ WorkerFinish \/ WorkerBackoff

Next ==
  \/ \E w \in Writers, r \in Requests : writers[w].pc = "idle" /\ Update(w, r)
  \/ \E w \in Writers, world \in Worlds : Compact(w, world)
  \/ \E w \in Writers : WriterStep(w) \/ WaitTimeout(w)
  \/ \E p \in Processes : TaskStep(p)
  \/ WorkerStep
  \/ StartCompaction
  \/ StopRequest
  \/ StopJoined
  \/ OtherTransact
  \/ Restart

Spec == Init /\ [][Next]_vars

--------------------------------------------------------------------------
\* Properties.

\* The variables hold what the declarations of container.h and compaction.h
\* allow, and no manifest or candidate is ever longer than the hard limit that
\* encode_manifest and load enforce.
TypeOK ==
  /\ DOMAIN heads = Worlds
  /\ \A w \in Worlds : heads[w] = Flat \/ (Range(heads[w]) \subseteq Maps /\ Len(heads[w]) <= Hard)
  /\ catalog \subseteq Maps
  /\ {healthy, running, stop} \subseteq BOOLEAN
  /\ Range(queue) \subseteq Worlds
  /\ worker \in {"off", "wait", "task", "backoff", "exited"}
  /\ \A p \in Processes :
       /\ tasks[p].phase \in {"none", "new", "built", "stage", "publish", "installed", "stale", "failed"}
       /\ Len(tasks[p].output) <= Hard
  /\ \A w \in Writers : writers[w].pc \in {"idle", "run", "wait", "compact"}
  /\ woken \subseteq Processes

\* A World always reads as the updates committed to it left it: merging,
\* staging, publishing, losing a race, failing and restarting never lose,
\* resurrect or expose a record (Compaction::install, NamespaceView::plan).
ViewsExact == \A w \in Worlds : ViewOf(heads[w]) = expected[w]

\* Every manifest a head names can be loaded: its runs are in the object
\* catalog, none is named twice (NamespaceView::load refuses that), and the
\* root record is visible, so no crash or race publishes an unusable head.
ManifestsLoadable ==
  \A w \in Worlds : heads[w] # Flat =>
    /\ Range(heads[w]) \subseteq catalog
    /\ IsInjective(heads[w])
    /\ RootKey \in DOMAIN ViewOf(heads[w])

\* No writer waits for nobody: while the worker runs, a writer whose wait is
\* not over has its World queued or in the worker's hands (Namespace::update,
\* Container::compaction_loop), whatever stops, starts and races came between.
WaiterServed ==
  \A w \in Writers :
    LET world == writers[w].request.world
    IN  writers[w].pc = "wait" /\ Background /\ ~Released(w) =>
          \/ world \in Range(queue)
          \/ worker = "task" /\ tasks[Worker].world = world

\* While the worker runs, every World over the soft limit that a merge would
\* change is queued or being merged, unless the merge cannot fit a manifest:
\* a stop discards the queue and start_compaction finds the backlog again.
BacklogFound ==
  \A w \in Worlds :
    /\ Background /\ healthy
    /\ RunCount(heads[w]) >= Soft
    /\ heads[w] # Merged(heads[w])
    /\ Len(Merged(heads[w])) <= Hard
    => \/ w \in Range(queue)
       \/ worker = "task" /\ tasks[Worker].world = w

\* A writer held back at the hard limit is let go without its timeout: by a
\* published merge, by the failure of its World's job, by a stop or by a
\* poisoned journal (Namespace::update, lines 165 to 173).
WaitersReleased == \A w \in Writers : (writers[w].pc = "wait") ~> (writers[w].pc # "wait")

\* stop_compaction returns: the worker sees the flag wherever it waits and its
\* bounded job ends.
StopCompletes == (running /\ stop) ~> ~running

\* The worker has all the work there is: no writer waits for a merge nobody
\* will do, no overdue World is forgotten by a stop, a start or a failure, and
\* no manifest passes the hard limit meanwhile.
WorkFound == TypeOK /\ WaiterServed /\ BacklogFound

\* Merging never changes a World: it reads as its committed updates left it and
\* its manifest loads, whatever was captured, staged or abandoned meanwhile.
WorldsIntact == ViewsExact /\ ManifestsLoadable

\* Nobody hangs on the condition variable: held-back writers are released and a
\* requested stop returns.
NobodyHangs == WaitersReleased /\ StopCompletes
=============================================================================
