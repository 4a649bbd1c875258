------------------------------ MODULE Sessions ------------------------------
(***************************************************************************)
(* The sessions of the RPC service (class Sessions, dispatch and serve_rpc *)
(* of daemon/rpc.cpp) with the file handles of the container they own.     *)
(*                                                                         *)
(* One thread serves every request, so a dispatch turn is one step, and so *)
(* is one pass of expire.  A lease is the flag live: it goes down when the *)
(* deadline passes, and dispatch raises it again only for a session that   *)
(* acquire accepted (both acquire and the Activity destructor renew it).   *)
(* A turn that throws after acquire leaves the sessions as they were.      *)
(***************************************************************************)
EXTENDS Naturals, FiniteSets, Functions

CONSTANTS
  Tokens,        \* session tokens
  Handles,       \* file handle tokens
  Cursors,       \* directory cursor tokens
  Worlds,        \* writable views
  Revisions,     \* read-only views
  None,
  MaxSessions,   \* 128 sessions
  MaxHandles,    \* 256 handles of a session
  MaxOpen,       \* 4096 handles of the container
  MaxCursors,    \* 64 cursors of a session
  MaxAllCursors  \* 1024 cursors of all sessions

Views == Worlds \cup Revisions

ASSUME ViewsDisjoint == Worlds \cap Revisions = {} /\ None \notin Views \cup Tokens
ASSUME LimitsAreNumbers == {MaxSessions, MaxHandles, MaxOpen, MaxCursors, MaxAllCursors} \subseteq Nat

VARIABLES
  sessions,   \* values_: the open sessions by token
  open,       \* Container::handles_: the view of every open handle
  healthy,    \* the store has not been poisoned by a failed write
  server,     \* "up" while serve_rpc runs
  effect      \* history: the namespace write of the last step, if any

vars == <<sessions, open, healthy, server, effect>>

NoMap == [x \in {} |-> None]
NewSession == [live |-> TRUE, closing |-> FALSE, handles |-> NoMap, mount |-> None,
               cursors |-> {}]

Init ==
  /\ sessions = NoMap
  /\ open = NoMap
  /\ healthy = TRUE
  /\ server = "down"
  /\ effect = None

Owned(t) == DOMAIN sessions[t].handles
Extend(f, x, y) == [z \in DOMAIN f \cup {x} |-> IF z = x THEN y ELSE f[z]]
Without(f, S) == Restrict(f, (DOMAIN f) \ S)

--------------------------------------------------------------------------
\* Admission: what a turn must pass before it reaches the namespace.

\* Sessions::acquire.
Acquire(t) ==
  /\ server = "up"
  /\ t \in DOMAIN sessions
  /\ sessions[t].live
  /\ ~sessions[t].closing

\* Mutant: only a session that asks for a mount is kept out of a mounted World.
AuthorizedAlways(t, v) == TRUE

\* Sessions::authorize, for an operation that is not in the list of reads.
Authorized(t, v) ==
  v \in Worlds => \A o \in (DOMAIN sessions) \ {t} : sessions[o].mount # v

\* Mutant: the handles other sessions hold in the World are not looked at.
MountFreeOfMounts(t, v) ==
  v \in Worlds => \A o \in (DOMAIN sessions) \ {t} : sessions[o].mount # v

\* The exclusion of mount_acquire.
MountFree(t, v) ==
  v \in Worlds => \A o \in (DOMAIN sessions) \ {t} :
                    sessions[o].mount # v /\ v \notin Range(sessions[o].handles)

--------------------------------------------------------------------------
\* Session operations.

SessionOpen(t) ==
  /\ server = "up"
  /\ t \notin DOMAIN sessions
  /\ Cardinality(DOMAIN sessions) < MaxSessions
  /\ sessions' = Extend(sessions, t, NewSession)
  /\ effect' = None
  /\ UNCHANGED <<open, healthy, server>>

\* The deadline passes with nobody having acquired the session.
LeaseEnds(t) ==
  /\ server = "up"
  /\ t \in DOMAIN sessions
  /\ sessions[t].live
  /\ sessions' = [sessions EXCEPT ![t].live = FALSE]
  /\ effect' = None
  /\ UNCHANGED <<open, healthy, server>>

\* Closing the last handle of a World inode writes: the store may fail there.
Stuck(S) == \E h \in S : open[h] \in Worlds

\* Mutant: the session is dropped and its handles are left to the container.
ClosedSession(t) ==
  /\ sessions' = Without(sessions, {t})
  /\ UNCHANGED open

\* Sessions::close when no handle fails to close.
Closed(t) ==
  /\ sessions' = Without(sessions, {t})
  /\ open' = Without(open, Owned(t))

SessionClose(t) ==
  /\ Acquire(t)
  /\ effect' = None
  /\ UNCHANGED server
  /\ \/ Closed(t) /\ UNCHANGED healthy
     \/ \E S \in SUBSET Owned(t) :
          /\ Stuck(Owned(t) \ S)
          /\ sessions' = [sessions EXCEPT ![t].closing = TRUE,
                                          ![t].handles = Without(@, S)]
          /\ open' = Without(open, S)
          /\ healthy' = FALSE

\* Mutant: sessions whose closing failed are not tried again.
DeadLeasesOnly == {t \in DOMAIN sessions : ~sessions[t].live /\ ~sessions[t].closing}

\* The sessions expire() collects.
Dead == {t \in DOMAIN sessions : ~sessions[t].live \/ sessions[t].closing}

ProcessGone == sessions' = NoMap /\ open' = NoMap /\ server' = "down" /\ healthy' = TRUE

\* One pass of expire at the head of the service loop.  A handle that fails to
\* close throws out of serve_rpc and ends the process.
Expire ==
  /\ server = "up"
  /\ Dead # {}
  /\ effect' = None
  /\ \/ /\ sessions' = Without(sessions, Dead)
        /\ open' = Without(open, UNION {Owned(t) : t \in Dead})
        /\ UNCHANGED <<healthy, server>>
     \/ /\ Stuck(UNION {Owned(t) : t \in Dead})
        /\ ProcessGone

\* inode-root: the session takes the view as its mount.
InodeRoot(t, v) ==
  /\ Acquire(t)
  /\ healthy
  /\ Authorized(t, v)
  /\ sessions[t].mount \in {None, v}
  /\ MountFree(t, v)
  /\ sessions' = [sessions EXCEPT ![t].mount = v]
  /\ effect' = None
  /\ UNCHANGED <<open, healthy, server>>

--------------------------------------------------------------------------
\* Operations on files, handles and directories.

\* A namespace write of a World: it commits, or fails and poisons the store.
Writes(t, v) == \/ effect' = [by |-> t, view |-> v] /\ UNCHANGED healthy
                \/ effect' = None /\ healthy' = FALSE

\* A mutating operation on a path or, through a mount, on an inode; the token is
\* None for a request without a session.
PathWrite(t, v) ==
  /\ server = "up"
  /\ healthy
  /\ v \in Worlds
  /\ t = None \/ Acquire(t)
  /\ Authorized(t, v)
  /\ Writes(t, v)
  /\ UNCHANGED <<sessions, open, server>>

\* fs-snapshot and fs-fork count as reads: they commit history records, no file
\* of the World, and may fail like any commit.
HistoryWrite(t) ==
  /\ server = "up"
  /\ healthy
  /\ t = None \/ Acquire(t)
  /\ healthy' \in BOOLEAN
  /\ effect' = None
  /\ UNCHANGED <<sessions, open, server>>

HandleWrite(t, h) ==
  /\ Acquire(t)
  /\ healthy
  /\ h \in Owned(t)
  /\ open[h] \in Worlds
  /\ Authorized(t, open[h])
  /\ Writes(t, open[h])
  /\ UNCHANGED <<sessions, open, server>>

Gains(t, h, v) ==
  /\ Acquire(t)
  /\ healthy
  /\ Cardinality(Owned(t)) < MaxHandles
  /\ Cardinality(DOMAIN open) < MaxOpen
  /\ h \notin DOMAIN open
  /\ open' = Extend(open, h, v)
  /\ sessions' = [sessions EXCEPT ![t].handles = Extend(@, h, v)]
  /\ UNCHANGED <<healthy, server>>

\* fs-open and inode-open; creating or truncating writes to the World, and a
\* failed write takes the reserved handle back.
FsOpen(t, v, h) ==
  /\ Authorized(t, v)
  /\ \/ /\ Gains(t, h, v)
        /\ effect' \in {None} \cup {[by |-> t, view |-> w] : w \in Worlds \cap {v}}
     \/ /\ Acquire(t)
        /\ healthy
        /\ v \in Worlds
        /\ healthy' = FALSE
        /\ effect' = None
        /\ UNCHANGED <<sessions, open, server>>

FsDup(t, h, copy) ==
  /\ t \in DOMAIN sessions
  /\ h \in Owned(t)
  /\ Gains(t, copy, open[h])
  /\ effect' = None

FsClose(t, h) ==
  /\ Acquire(t)
  /\ h \in Owned(t)
  /\ effect' = None
  /\ UNCHANGED server
  /\ \/ /\ open' = Without(open, {h})
        /\ sessions' = [sessions EXCEPT ![t].handles = Without(@, {h})]
        /\ UNCHANGED healthy
     \/ /\ Stuck({h})
        /\ healthy' = FALSE
        /\ UNCHANGED <<sessions, open>>

AllCursors == UNION {sessions[t].cursors : t \in DOMAIN sessions}

\* Mutant: only the session's own cursors are counted.
CursorRoomOwn(t) == Cardinality(sessions[t].cursors) < MaxCursors

CursorRoom(t) == /\ Cardinality(sessions[t].cursors) < MaxCursors
                 /\ Cardinality(AllCursors) < MaxAllCursors

FsDirOpen(t, c) ==
  /\ Acquire(t)
  /\ healthy
  /\ c \notin AllCursors
  /\ CursorRoom(t)
  /\ sessions' = [sessions EXCEPT ![t].cursors = @ \cup {c}]
  /\ effect' = None
  /\ UNCHANGED <<open, healthy, server>>

FsDirClose(t, c) ==
  /\ Acquire(t)
  /\ c \in sessions[t].cursors
  /\ sessions' = [sessions EXCEPT ![t].cursors = @ \ {c}]
  /\ effect' = None
  /\ UNCHANGED <<open, healthy, server>>

--------------------------------------------------------------------------
\* The process.

ServerStart ==
  /\ server = "down"
  /\ server' = "up"
  /\ effect' = None
  /\ UNCHANGED <<sessions, open, healthy>>

\* A signal: the loop ends and shutdown closes every session.
Shutdown ==
  /\ server = "up"
  /\ ProcessGone
  /\ effect' = None

SessionStep(t) ==
  \/ SessionOpen(t) \/ SessionClose(t) \/ LeaseEnds(t)
  \/ \E v \in Views : InodeRoot(t, v) \/ PathWrite(t, v)
  \/ \E v \in Views, h \in Handles : FsOpen(t, v, h)
  \/ \E h \in Handles : HandleWrite(t, h) \/ FsClose(t, h)
  \/ \E h, copy \in Handles : FsDup(t, h, copy)
  \/ \E c \in Cursors : FsDirOpen(t, c) \/ FsDirClose(t, c)

Next ==
  \/ \E t \in Tokens : SessionStep(t)
  \/ \E v \in Worlds : PathWrite(None, v)
  \/ \E t \in Tokens \cup {None} : HistoryWrite(t)
  \/ Expire
  \/ ServerStart
  \/ Shutdown

Spec == Init /\ [][Next]_vars

--------------------------------------------------------------------------
\* Properties.

\* The tables hold what rpc.cpp declares, within its limits: sessions, handles
\* of a session and of the container, cursors of a session and of all.
TypeOK ==
  /\ DOMAIN sessions \subseteq Tokens
  /\ Cardinality(DOMAIN sessions) <= MaxSessions
  /\ \A t \in DOMAIN sessions :
       /\ {sessions[t].live, sessions[t].closing} \subseteq BOOLEAN
       /\ sessions[t].mount \in Views \cup {None}
       /\ Cardinality(Owned(t)) <= MaxHandles
       /\ Cardinality(sessions[t].cursors) <= MaxCursors
  /\ DOMAIN open \subseteq Handles
  /\ Cardinality(DOMAIN open) <= MaxOpen
  /\ Cardinality(AllCursors) <= MaxAllCursors
  /\ healthy \in BOOLEAN
  /\ server \in {"up", "down"}

\* Every handle the container holds open belongs to exactly one session, with
\* the view it was opened in, and every handle a session lists is open: no
\* expiry, failed close, failed open or lost session leaks one.
OwnershipExact ==
  /\ DOMAIN open = UNION {Owned(t) : t \in DOMAIN sessions}
  /\ \A t \in DOMAIN sessions, h \in Handles :
       h \in Owned(t) =>
         /\ sessions[t].handles[h] = open[h]
         /\ \A o \in (DOMAIN sessions) \ {t} : h \notin Owned(o)

\* A mounted World belongs to one session alone: no other session mounts it or
\* holds a handle in it, also while a session waits to be expired
\* (mount_acquire and authorize together).
MountExclusive ==
  \A t, o \in DOMAIN sessions :
    LET v == sessions[t].mount
    IN  t # o /\ v \in Worlds => sessions[o].mount # v /\ v \notin Range(sessions[o].handles)

\* Nothing is written to a mounted World except by the session that mounts it:
\* not by a path request without a session, not through a handle.
WritesByMounter ==
  effect # None => \A t \in DOMAIN sessions : sessions[t].mount = effect.view => t = effect.by

\* A session that ran out or whose closing failed.
Present(t) == t \in DOMAIN sessions
Leaving(t) == Present(t) /\ (sessions[t].closing \/ ~sessions[t].live)

\* Clients are kept apart: each open handle has one owner, a mounted World has
\* one session, only that session writes to it, and no table passes its limit.
ClientsApart == TypeOK /\ OwnershipExact /\ MountExclusive /\ WritesByMounter
=============================================================================
