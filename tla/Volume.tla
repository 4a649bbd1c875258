------------------------------- MODULE Volume -------------------------------
(***************************************************************************)
(* The FSKit frontend of a mounted World, RevisionVolume.mm.  Callbacks    *)
(* run one at a time under the volume's lock and turn into calls of the    *)
(* daemon.  A call may fail before it has taken effect or after, when its  *)
(* reply is lost.  The mount has the World to itself, so the daemon's side *)
(* changes only through these calls and when the session ends.             *)
(***************************************************************************)
EXTENDS Naturals, FiniteSets

CONSTANTS
    Dirs, Files,   \* inodes that may come to exist, the root among the directories
    Root, None,
    Names,
    Handles,       \* daemon handle tokens
    MaxStreams,    \* 64 directory streams
    MaxStarts,     \* bound on the streams started
    MaxFaults,     \* bound on failing calls
    Lossy,         \* whether a reply can be lost
    Calls          \* the callbacks of this instance

VARIABLES
    names,     \* the World: directory and name to inode
    born,      \* inodes that were created
    handles,   \* the session's handles: token to inode and access
    session,   \* whether the daemon has the session
    items,     \* _items with their attributes and handles
    open,      \* the modes in which the kernel has each item open
    job,       \* a closeItem in progress
    streams,   \* _streams: verifier to directory
    started,   \* _nextStream - 1
    alive,     \* _alive
    beat,      \* whether the timer's handler has a failure to act on
    unsure,    \* inodes whose last change was answered with an error
    faults

world == <<names, born, handles>>
volume == <<items, open, job, streams, started, alive, beat>>
vars == <<world, session, volume, unsure, faults>>

Inodes == Dirs \union Files
NoItem == [here |-> FALSE, links |-> 0, parent |-> None, reader |-> None, writer |-> None]
NoHandle == [inode |-> None, writable |-> FALSE]
Idle == [at |-> "idle", item |-> None, keep |-> {}]

Init ==
    /\ names = [d \in Dirs |-> [n \in Names |-> None]]
    /\ born = {Root}
    /\ handles = [h \in Handles |-> NoHandle]
    /\ session = TRUE
    /\ items = [i \in Inodes |-> IF i = Root THEN [NoItem EXCEPT !.here = TRUE, !.links = 1] ELSE NoItem]
    /\ open = [i \in Inodes |-> {}]
    /\ job = Idle
    /\ streams = [v \in 1..MaxStarts |-> None]
    /\ started = 0
    /\ alive = TRUE
    /\ beat = FALSE
    /\ unsure = {}
    /\ faults = 0

-----------------------------------------------------------------------------
(* The daemon, as the volume's calls use it                                 *)

Entries(i) == {e \in Dirs \X Names : names[e[1]][e[2]] = i}
LinksOf(i) == IF i = Root THEN 1 ELSE Cardinality(Entries(i))
Linked(i) == i \in born /\ LinksOf(i) > 0
Live(h) == h # None /\ handles[h].inode # None
Referenced == {items[i].reader : i \in Inodes} \union {items[i].writer : i \in Inodes}
Fresh(h) == handles[h] = NoHandle /\ h \notin Referenced

\* handle: the writer if there is one.
Handle(i) == IF items[i].writer # None THEN items[i].writer ELSE items[i].reader

\* What becomes of a call: it is done, it fails without effect, or its reply is lost.
Outcomes == IF ~session THEN {"refused"}
            ELSE {"done"} \union IF faults >= MaxFaults THEN {}
                                 ELSE {"refused"} \union (IF Lossy THEN {"lost"} ELSE {})
Count(r) == faults' = IF r = "done" \/ faults >= MaxFaults THEN faults ELSE faults + 1

\* A call that returns a new handle is refused when there are too many.
Tokens == IF \E h \in Handles : Fresh(h) THEN {h \in Handles : Fresh(h)} ELSE {None}
Openings == IF Tokens = {None} THEN {"refused"} ELSE Outcomes

\* A second call that refreshes an item after a first one: only through a handle, and it may fail as well.
Seconds(i) == IF Handle(i) = None THEN {"done"}
              ELSE (IF Live(Handle(i)) THEN {"done"} ELSE {})
                   \union (IF faults < MaxFaults \/ ~Live(Handle(i)) THEN {"failed"} ELSE {})

\* perform: no callback runs while another has the lock, and none once the session is closed.
Perform(call) == call \in Calls /\ alive /\ job = Idle

\* Whether refresh succeeds, given that its call goes through; attributes are left alone for an inode that is gone.
Refreshable(i) == IF Handle(i) # None THEN Live(Handle(i)) ELSE Linked(i)
Gone(i) == items[i].links = 0 /\ Handle(i) = None

\* The attributes after an answer, and after one that did not come.
Attrs(r, i, links) == IF r = "done" THEN [items EXCEPT ![i].links = links] ELSE items
Unsure(r, is) == unsure' = IF r = "lost" THEN unsure \union is ELSE unsure

-----------------------------------------------------------------------------
(* Attributes and names                                                     *)

\* refresh, for getAttributes and activate.
GetAttributes(i) ==
    /\ Perform("names") /\ items[i].here /\ ~Gone(i)
    /\ \E r \in Outcomes :
           /\ r = "done" => Refreshable(i)
           /\ items' = Attrs(r, i, LinksOf(i))
           /\ unsure' = IF r = "done" THEN unsure \ ({i} \ Dirs) ELSE unsure
           /\ Count(r)
    /\ UNCHANGED <<world, session, open, job, streams, started, alive, beat>>

\* setAttributes: through a handle if there is one, and a new size only through the writer.
SetAttributes(i, size) ==
    LET h == IF size THEN items[i].writer ELSE Handle(i)
    IN  /\ Perform("names") /\ items[i].here
        /\ \E r \in Outcomes :
               /\ r # "refused" => IF h # None THEN Live(h) ELSE Linked(i)
               /\ items' = Attrs(r, i, LinksOf(i))
               /\ unsure' = IF r = "done" THEN unsure \ {i} ELSE unsure
               /\ Count(r)
        /\ UNCHANGED <<world, session, open, job, streams, started, alive, beat>>

\* remember: the item of an inode is found or made; its attributes and parent are set.
Remember(i, d, links) ==
    items' = [items EXCEPT ![i].here = TRUE, ![i].links = links, ![i].parent = d]

LookupItem(d, n) ==
    LET i == names[d][n]
    IN  /\ Perform("names") /\ items[d].here /\ i # None
        /\ \E r \in Outcomes :
               /\ IF r = "done" THEN Remember(i, d, LinksOf(i)) ELSE UNCHANGED items
               /\ unsure' = IF r = "done" THEN unsure \ {i} ELSE unsure
               /\ Count(r)
        /\ UNCHANGED <<world, session, open, job, streams, started, alive, beat>>

ReclaimItem(i) ==
    /\ Perform("names") /\ items[i].here /\ i # Root /\ open[i] = {}
    /\ items[i].reader = None /\ items[i].writer = None
    /\ items' = [items EXCEPT ![i] = NoItem]
    /\ UNCHANGED <<world, session, open, job, streams, started, alive, beat, unsure, faults>>

\* createItemNamed and createSymbolicLinkNamed. A file is created with a handle, asked for its attributes and closed;
\* any of the three may fail, and the handle of a file whose creation or closing went unanswered may stay open.
CreateItem(d, n, i) ==
    /\ Perform("names") /\ items[d].here /\ Linked(d) /\ i \notin born /\ names[d][n] = None
    /\ \E r \in Outcomes :
           \E made \in IF r = "refused" THEN {FALSE, session /\ i \in Files} ELSE {TRUE} :
               /\ handles' \in {handles} \union
                      IF ~made \/ r = "done" \/ i \in Dirs THEN {}
                      ELSE {[handles EXCEPT ![h] = [inode |-> i, writable |-> TRUE]] : h \in {x \in Handles : Fresh(x)}}
               /\ names' = IF made THEN [names EXCEPT ![d][n] = i] ELSE names
               /\ born' = IF made THEN born \union {i} ELSE born
               /\ IF r = "done" THEN Remember(i, d, 1) ELSE UNCHANGED items
               /\ Count(r)
    /\ UNCHANGED <<session, open, job, streams, started, alive, beat, unsure>>

CreateLink(i, d, n) ==
    /\ Perform("names") /\ items[i].here /\ items[d].here /\ i \in Files /\ Linked(i) /\ Linked(d) /\ names[d][n] = None
    /\ \E r \in Outcomes :
           /\ names' = IF r = "refused" THEN names ELSE [names EXCEPT ![d][n] = i]
           /\ items' = Attrs(r, i, LinksOf(i) + 1)
           /\ Unsure(r, {i}) /\ Count(r)
    /\ UNCHANGED <<born, handles, session, open, job, streams, started, alive, beat>>

\* The link count of an item that has lost a name: from the daemon if it has a handle, else one less; a directory's is 0.
Dropped(i) == IF Handle(i) # None THEN LinksOf(i) - 1
              ELSE IF i \in Dirs THEN 0 ELSE items[i].links - 1

\* removeItem. With a handle the attributes come from a second call, which may fail when the name is gone.
RemoveItem(i, d, n) ==
    /\ Perform("names") /\ items[i].here /\ items[d].here /\ names[d][n] = i
    /\ i \in Dirs => \A m \in Names : names[i][m] = None
    /\ \E r \in Outcomes :
           \E second \in IF r = "done" THEN Seconds(i) ELSE {r} :
               /\ names' = IF r = "refused" THEN names ELSE [names EXCEPT ![d][n] = None]
               /\ items' = Attrs(second, i, Dropped(i))
               /\ unsure' = IF r # "refused" /\ second # "done" THEN unsure \union {i} ELSE unsure
               /\ Count(second)
    /\ UNCHANGED <<born, handles, session, open, job, streams, started, alive, beat>>

\* A directory and those that hold it.
Upward(d) == LET up[k \in 0..Cardinality(Dirs)] ==
                     IF k = 0 THEN {d} ELSE up[k - 1] \union {e \in Dirs : \E n \in Names : names[e][n] \in up[k - 1]}
             IN  up[Cardinality(Dirs)]
\* A plausible slip: the parent is the one of the last lookup.
MovedFrom(i, d) == items[i].parent
\* The parent of an item after a rename.
Moved(i, d) == d

\* renameItem, with the item it replaces. Two names of one inode stay as they are.
RenameItem(i, s, n, d, m) ==
    LET over == names[d][m]
    IN  /\ Perform("names") /\ items[i].here /\ items[s].here /\ items[d].here /\ names[s][n] = i /\ Linked(d)
        /\ i \notin Upward(d)
        /\ over # None =>
               /\ items[over].here /\ (i \in Dirs <=> over \in Dirs)
               /\ over \in Dirs \ {i} => \A x \in Names : names[over][x] = None
        /\ \E r \in Outcomes :
           \E second \in IF r = "done" /\ over \notin {None, i} THEN Seconds(over) ELSE {r} :
               /\ names' = IF r = "refused" \/ over = i THEN names
                           ELSE [names EXCEPT ![s][n] = None, ![d][m] = i]
               /\ items' = [x \in Inodes |->
                              IF r = "done" /\ x = i THEN [items[x] EXCEPT !.parent = Moved(i, d), !.links = LinksOf(i)]
                              ELSE IF second = "done" /\ x = over THEN [items[x] EXCEPT !.links = Dropped(x)]
                              ELSE items[x]]
               /\ unsure' = CASE r = "lost" -> unsure \union ({i, over} \ {None})
                              [] second = "failed" -> unsure \union {over}
                              [] OTHER -> unsure
               /\ Count(second)
        /\ UNCHANGED <<born, handles, session, open, job, streams, started, alive, beat>>

-----------------------------------------------------------------------------
(* Open modes                                                               *)

\* openItem: the writer serves reads as well; a reader is opened only without one.
OpenItem(i, modes) ==
    LET write == "w" \in modes /\ items[i].writer = None
        read == "r" \in modes /\ items[i].reader = None /\ items[i].writer = None /\ ~write
    IN  /\ Perform("open") /\ items[i].here /\ i \in Files
        /\ IF ~write /\ ~read
           THEN /\ open' = [open EXCEPT ![i] = @ \union modes]
                /\ UNCHANGED <<handles, items, faults>>
           ELSE \E r \in Openings, h \in Tokens :
                    /\ r # "refused" => Linked(i)
                    /\ handles' = IF r = "refused" THEN handles
                                  ELSE [handles EXCEPT ![h] = [inode |-> i, writable |-> write]]
                    /\ items' = IF r # "done" THEN items
                                ELSE IF write THEN [items EXCEPT ![i].writer = h] ELSE [items EXCEPT ![i].reader = h]
                    /\ open' = IF r = "done" THEN [open EXCEPT ![i] = @ \union modes] ELSE open
                    /\ Count(r)
        /\ UNCHANGED <<names, born, session, job, streams, started, alive, beat, unsure>>

Proceed(at) == job' = [job EXCEPT !.at = at]
Leave == job' = Idle

\* closeItem. The kernel has given up the modes it does not keep, whatever comes of it.
CloseItem(i, keep) ==
    /\ Perform("open") /\ items[i].here /\ open[i] # {} /\ keep \subseteq open[i] /\ keep # open[i]
    /\ open' = [open EXCEPT ![i] = keep]
    /\ IF Handle(i) = None THEN UNCHANGED <<items, job, unsure, faults>>
       ELSE \E r \in Outcomes :
                LET ok == r = "done" /\ Live(Handle(i))
                IN  /\ items' = Attrs(IF ok THEN r ELSE "refused", i, LinksOf(i))
                    /\ unsure' = IF ok THEN unsure \ {i} ELSE unsure
                    /\ job' = IF ok THEN [at |-> "dup", item |-> i, keep |-> keep] ELSE Idle
                    /\ Count(r)
    /\ UNCHANGED <<world, session, streams, started, alive, beat>>

\* A plausible slip: the reader is only made for an inode that still has a name.
NeedsReaderLinked(i, keep) == "r" \in keep /\ items[i].reader = None /\ items[i].links > 0
\* The writer also served the reads that go on.
NeedsReader(i, keep) == "r" \in keep /\ items[i].reader = None

DupWriter ==
    LET i == job.item
    IN  /\ job.at = "dup"
        /\ IF "w" \in job.keep \/ items[i].writer = None THEN Proceed("reader") /\ UNCHANGED <<handles, items, faults>>
           ELSE IF ~NeedsReader(i, job.keep) THEN Proceed("writer") /\ UNCHANGED <<handles, items, faults>>
           ELSE \E r \in Openings, h \in Tokens :
                    /\ LET ok == r = "done" /\ Live(items[i].writer)
                       IN  /\ handles' = IF r # "refused" /\ Live(items[i].writer)
                                         THEN [handles EXCEPT ![h] = handles[items[i].writer]] ELSE handles
                           /\ items' = IF ok THEN [items EXCEPT ![i].reader = h] ELSE items
                           /\ IF ok THEN Proceed("writer") ELSE Leave
                    /\ Count(r)
        /\ UNCHANGED <<names, born, session, open, streams, started, alive, beat, unsure>>

CloseWriter ==
    LET i == job.item
    IN  /\ job.at = "writer"
        /\ \E r \in Outcomes :
               LET ok == r = "done" /\ Live(items[i].writer)
               IN  /\ handles' = IF r # "refused" THEN [handles EXCEPT ![items[i].writer] = NoHandle] ELSE handles
                   /\ items' = IF ok THEN [items EXCEPT ![i].writer = None] ELSE items
                   /\ IF ok THEN Proceed("reader") ELSE Leave
                   /\ Count(r)
        /\ UNCHANGED <<names, born, session, open, streams, started, alive, beat, unsure>>

CloseReader ==
    LET i == job.item
    IN  /\ job.at = "reader"
        /\ IF "r" \in job.keep \/ items[i].reader = None THEN UNCHANGED <<handles, items, faults>>
           ELSE \E r \in Outcomes :
                    LET ok == r = "done" /\ Live(items[i].reader)
                    IN  /\ handles' = IF r # "refused" THEN [handles EXCEPT ![items[i].reader] = NoHandle] ELSE handles
                        /\ items' = IF ok THEN [items EXCEPT ![i].reader = None] ELSE items
                        /\ Count(r)
        /\ Leave
        /\ UNCHANGED <<names, born, session, open, streams, started, alive, beat, unsure>>

\* What readFromFile and writeContents need.
CanRead(i) == Live(Handle(i)) /\ handles[Handle(i)].inode = i
CanWrite(i) == Live(items[i].writer) /\ handles[items[i].writer].inode = i /\ handles[items[i].writer].writable

-----------------------------------------------------------------------------
(* Directory streams                                                        *)

Held == {v \in DOMAIN streams : streams[v] # None}

\* A plausible slip: the verifier that is compared last goes.
OldestLast(vs) == CHOOSE v \in vs : \A w \in vs : w <= v
\* The stream that makes room: the first in the order of the verifiers.
Oldest(vs) == CHOOSE v \in vs : \A w \in vs : v <= w

\* enumerateDirectory from the start: the whole directory is captured, the stream kept, and one evicted at the limit.
Enumerate(d) ==
    /\ Perform("streams") /\ items[d].here /\ started < MaxStarts
    /\ Cardinality(Held) < MaxStreams
    /\ \E r \in Outcomes :
           /\ r = "done" => Linked(d)
           /\ IF r = "done"
              THEN LET out == started + 1
                       all == Held \union {out}
                       oldest == Oldest(all)
                       kept == [streams EXCEPT ![out] = d]
                   IN  /\ started' = out
                       /\ streams' = IF Cardinality(all) >= MaxStreams /\ oldest # out
                                     THEN [kept EXCEPT ![oldest] = None] ELSE kept
              ELSE UNCHANGED <<started, streams>>
           /\ Count(r)
    /\ UNCHANGED <<world, session, items, open, job, alive, beat, unsure>>

\* A later page: the verifier's stream must be there and of this directory.
Resumable(v, d) == v \in Held /\ streams[v] = d

-----------------------------------------------------------------------------
(* The session                                                              *)

\* The lease runs out or the daemon restarts: the session's handles are closed.
SessionEnds ==
    /\ session /\ "session" \in Calls
    /\ session' = FALSE
    /\ handles' = [h \in Handles |-> NoHandle]
    /\ UNCHANGED <<names, born, volume, unsure, faults>>

\* A plausible slip: one failed keepalive is left to the next.
MissedNever(r) == FALSE
\* The timer's handler sees a failure.
Missed(r) == r # "done"
Heartbeat ==
    /\ alive /\ job = Idle /\ ~beat /\ "session" \in Calls
    /\ \E r \in Outcomes : beat' = Missed(r) /\ Count(r)
    /\ UNCHANGED <<world, session, items, open, job, streams, started, alive, unsure>>

\* It takes the lock again to close the mount.
CloseMount ==
    /\ beat /\ job = Idle
    /\ alive' = FALSE
    /\ beat' = FALSE
    /\ UNCHANGED <<world, session, items, open, job, streams, started, unsure, faults>>

\* unmount, deactivate, dealloc: the session is closed if it can be reached, and everything forgotten.
Shutdown ==
    /\ job = Idle /\ "session" \in Calls
    /\ \E r \in Outcomes :
           /\ session' = (session /\ r = "refused")
           /\ handles' = IF r = "refused" THEN handles ELSE [h \in Handles |-> NoHandle]
           /\ Count(r)
    /\ alive' = FALSE
    /\ items' = [i \in Inodes |-> NoItem]
    /\ open' = [i \in Inodes |-> {}]
    /\ streams' = [v \in 1..MaxStarts |-> None]
    /\ UNCHANGED <<names, born, job, started, beat, unsure>>

Next ==
    \/ \E i \in Inodes : GetAttributes(i) \/ ReclaimItem(i)
    \/ \E i \in Files, size \in BOOLEAN : SetAttributes(i, size)
    \/ \E d \in Dirs, n \in Names : LookupItem(d, n)
    \/ \E d \in Dirs, n \in Names, i \in Inodes : CreateItem(d, n, i) \/ CreateLink(i, d, n) \/ RemoveItem(i, d, n)
    \/ \E i \in Inodes, s, d \in Dirs, n, m \in Names : RenameItem(i, s, n, d, m)
    \/ \E i \in Files, modes \in SUBSET {"r", "w"} : (modes # {} /\ OpenItem(i, modes)) \/ CloseItem(i, modes)
    \/ DupWriter \/ CloseWriter \/ CloseReader
    \/ \E d \in Dirs : Enumerate(d)
    \/ SessionEnds \/ Heartbeat \/ CloseMount \/ Shutdown

Spec == Init /\ [][Next]_vars

-----------------------------------------------------------------------------
(* What the mount promises                                                  *)

\* openItem, closeItem, removeItem, renameItem: while the session lasts and no callback is in progress, every mode in
\* which the kernel was given an item has a daemon handle that serves it, also after the last name is gone and after a
\* close of which any call failed.
OpenServed ==
    alive /\ session /\ job = Idle =>
        \A i \in Files : /\ open[i] # {} => CanRead(i)
                         /\ "w" \in open[i] => CanWrite(i)

\* The attributes of an item are cached between callbacks: its link count is the daemon's, and a directory's parent, which
\* enumerateDirectory reports as "..", is the directory that holds it, after any creations, links, removals and renames
\* that were answered.
CachedTrue ==
    alive /\ session =>
        \A i \in Inodes : items[i].here /\ i \notin unsure =>
            /\ items[i].links = LinksOf(i)
            /\ i \in Dirs \ {Root} /\ Linked(i) => \E n \in Names : names[items[i].parent][n] = i

\* enumerateDirectory: the newest streams, one less than the limit, can be resumed, and a new one is never refused.
StreamsKept ==
    alive => /\ Cardinality(Held) < MaxStreams
             /\ \A v \in 1..started : v + MaxStreams > started + 1 => \E d \in Dirs : Resumable(v, d)

SessionEnded == ~session
Closed == ~alive
=============================================================================
