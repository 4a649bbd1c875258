----------------------------- MODULE MCDaemonLive -----------------------------
(* What must happen in the end in the daemon and its clients, on instances     *)
(* smaller than those for safety: Transport, Compaction, Sessions and Volume.  *)
(* A behaviour explores one part and leaves the variables of the others alone. *)
EXTENDS Transport, TLC

CONSTANTS t1, t2, h1, h2, c1, c2, w1, w2, main, base, root, f1, a, thread, Flat, Tombstone, None

VARIABLES part, x1, x2, x3, x4, x5, x6, x7, x8, x9, x10, x11, x12, x13

rest == <<x1, x2, x3, x4, x5, x6, x7, x8, x9, x10, x11, x12, x13>>
RootOnly == 1 :> "v"

\* Writers at the hard limit beside a worker that is stopped and started again.
Runs == INSTANCE Compaction WITH
  Worlds <- {main}, Main <- main, Writers <- {w1, w2}, Updaters <- {w1}, Worker <- thread, Keys <- 1 .. 2, RootKey <- 1,
  Values <- {"v"}, FlatMap <- RootOnly, PartSize <- 1, Soft <- 1, Hard <- 2, StageLimit <- 1, MaxRetries <- 1,
  heads <- x1, catalog <- x2, healthy <- x3, running <- x4, stop <- x5, queue <- x6, worker <- x7, tasks <- x8,
  writers <- x9, woken <- x10, expected <- x11

Service == INSTANCE Sessions WITH
  Tokens <- {t1, t2}, Handles <- {h1, h2}, Cursors <- {c1}, Worlds <- {main}, Revisions <- {base},
  MaxSessions <- 2, MaxHandles <- 2, MaxOpen <- 2, MaxCursors <- 1, MaxAllCursors <- 1,
  sessions <- x1, open <- x2, healthy <- x3, server <- x4, effect <- x5

Mount == INSTANCE Volume WITH
  Dirs <- {root}, Files <- {f1}, Root <- root, Names <- {a}, Handles <- {h1, h2}, MaxStreams <- 2, MaxStarts <- 1,
  MaxFaults <- 1, Lossy <- FALSE, Calls <- {"names", "open", "session"},
  names <- x1, born <- x2, handles <- x3, session <- x4, items <- x5, open <- x6, job <- x7, streams <- x8,
  started <- x9, alive <- x10, beat <- x11, unsure <- x12, faults <- x13

NoFive == x1 = 0 /\ x2 = 0 /\ x3 = 0 /\ x4 = 0 /\ x5 = 0
NoMore == x6 = 0 /\ x7 = 0 /\ x8 = 0 /\ x9 = 0 /\ x10 = 0 /\ x11 = 0 /\ x12 = 0
more == <<x6, x7, x8, x9, x10, x11, x12, x13>>

PartsInit ==
  /\ Init
  /\ \/ part = "transport" /\ NoFive /\ NoMore /\ x13 = 0
     \/ part = "compaction" /\ Runs!Init /\ x12 = 0 /\ x13 = 0
     \/ part = "sessions" /\ Service!Init /\ NoMore /\ x13 = 0
     \/ part = "volume" /\ Mount!Init

PartsNext ==
  \/ part = "transport" /\ Next /\ UNCHANGED <<part, rest>>
  \/ part = "compaction" /\ Runs!Next /\ UNCHANGED <<part, vars, x12, x13>>
  \/ part = "sessions" /\ Service!Next /\ UNCHANGED <<part, vars, more>>
  \/ part = "volume" /\ Mount!Next /\ UNCHANGED <<part, vars>>

\* Threads that can run do run, and the worker is not started for ever; nobody
\* is made to call, to stop or to time out.
ThreadsRun ==
  /\ WF_(Runs!vars)(part = "compaction" /\ Runs!WorkerStep)
  /\ WF_(Runs!vars)(part = "compaction" /\ Runs!StopJoined)
  /\ \A p \in Runs!Processes : WF_(Runs!vars)(part = "compaction" /\ Runs!TaskStep(p))
  /\ \A w \in {w1, w2} : WF_(Runs!vars)(part = "compaction" /\ Runs!WriterStep(w))
  /\ <>[][~(part = "compaction" /\ Runs!StartCompaction)]_(Runs!vars)

\* The service loop comes round at least every hundred milliseconds while the
\* server is up, and the clock goes on; nothing makes a client send or read.
LoopRuns ==
  /\ WF_(Service!vars)(part = "sessions" /\ Service!Expire)
  /\ \A c \in Calls : /\ WF_vars(part = "transport" /\ Accept(c))
                      /\ WF_vars(part = "transport" /\ PeerLate(c))
                      /\ WF_vars(part = "transport" /\ Expire(c))

\* A callback of the volume that was begun goes on, and the timer fires.
CallbacksRun ==
  /\ WF_(Mount!vars)(part = "volume" /\ Mount!DupWriter)
  /\ WF_(Mount!vars)(part = "volume" /\ Mount!CloseWriter)
  /\ WF_(Mount!vars)(part = "volume" /\ Mount!CloseReader)
  /\ WF_(Mount!vars)(part = "volume" /\ Mount!Heartbeat)
  /\ WF_(Mount!vars)(part = "volume" /\ Mount!CloseMount)

LiveSpec == PartsInit /\ [][PartsNext]_<<part, vars, rest>> /\ ThreadsRun /\ LoopRuns /\ CallbacksRun

-------------------------------------------------------------------------------
\* Nobody hangs on the condition variable of the compaction: held-back writers
\* are released and a requested stop returns.
NobodyHangs ==
  /\ \A w \in {w1, w2} :
       (part = "compaction" /\ x9[w].pc = "wait") ~> (part = "compaction" => x9[w].pc # "wait")
  /\ (part = "compaction" /\ x4 /\ x5) ~> (part = "compaction" => ~x4)

\* Sessions::expire: a session that ran out or whose closing failed is gone in
\* the end, with its handles and its mount: the World does not stay locked by a
\* lost client.
Reclaimed ==
  \A t \in {t1, t2} :
    (part = "sessions" /\ Service!Leaving(t)) ~> (part = "sessions" => ~Service!Present(t))

\* serve_rpc: a connection that was accepted is closed in the end, though its
\* client neither sends, reads nor closes.
ConnectionsEnd == \A c \in Calls : (part = "transport" /\ Connected(c)) ~> ~Connected(c)

\* The heartbeat of the volume: once the daemon has ended the session the mount
\* is closed and no callback is served from old state.
FailsClosed == (part = "volume" /\ Mount!SessionEnded) ~> (part = "volume" => Mount!Closed)
===============================================================================
