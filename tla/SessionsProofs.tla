--------------------------- MODULE SessionsProofs ---------------------------
(***************************************************************************)
(* Clients of the RPC service are kept apart for any number of sessions,   *)
(* handles, cursors and views, and for any limits.                         *)
(***************************************************************************)
EXTENDS Sessions, FiniteSetTheorems, TLAPS

HandleMap == UNION {[S -> Views] : S \in SUBSET Handles}
Session == [live : BOOLEAN, closing : BOOLEAN, handles : HandleMap, mount : Views \cup {None},
            cursors : SUBSET Cursors]

\* The tables hold what Session and Container declare.
Shape ==
  /\ DOMAIN sessions \subseteq Tokens
  /\ sessions \in [DOMAIN sessions -> Session]
  /\ open \in HandleMap
  /\ healthy \in BOOLEAN
  /\ server \in {"up", "down"}

\* Every table is finite, so that its size is a number.
Finite ==
  /\ IsFiniteSet(DOMAIN sessions)
  /\ IsFiniteSet(DOMAIN open)
  /\ IsFiniteSet(AllCursors)
  /\ \A t \in DOMAIN sessions : IsFiniteSet(Owned(t)) /\ IsFiniteSet(sessions[t].cursors)

\* No table passes its limit.
Within ==
  /\ Cardinality(DOMAIN sessions) <= MaxSessions
  /\ Cardinality(DOMAIN open) <= MaxOpen
  /\ Cardinality(AllCursors) <= MaxAllCursors
  /\ \A t \in DOMAIN sessions : /\ Cardinality(Owned(t)) <= MaxHandles
                                /\ Cardinality(sessions[t].cursors) <= MaxCursors

\* The inductive invariant.
IInv == Shape /\ Finite /\ Within /\ OwnershipExact /\ MountExclusive /\ WritesByMounter

-----------------------------------------------------------------------------
(* Operators. *)

\* A handle map gives views to some handles.
LEMMA HandleMaps ==
  \A f : f \in HandleMap <=> DOMAIN f \subseteq Handles /\ f \in [DOMAIN f -> Views]
  <1>1. ASSUME NEW f, f \in HandleMap PROVE DOMAIN f \subseteq Handles /\ f \in [DOMAIN f -> Views]
    <2>1. PICK S \in SUBSET Handles : f \in [S -> Views]
      BY <1>1, Zenon DEF HandleMap
    <2> QED BY <2>1, Zenon
  <1>2. ASSUME NEW f, DOMAIN f \subseteq Handles, f \in [DOMAIN f -> Views] PROVE f \in HandleMap
    BY <1>2, Zenon DEF HandleMap
  <1> QED BY <1>1, <1>2, Zenon

\* The maps the steps start from and make.
LEMMA NoMapSound == NoMap \in HandleMap /\ DOMAIN NoMap = {}
  BY HandleMaps, Zenon DEF NoMap

LEMMA ExtendSound ==
  ASSUME NEW f, NEW x, NEW y
  PROVE  /\ DOMAIN Extend(f, x, y) = DOMAIN f \cup {x}
         /\ Extend(f, x, y)[x] = y
         /\ \A z \in DOMAIN f : z # x => Extend(f, x, y)[z] = f[z]
         /\ f \in HandleMap /\ x \in Handles /\ y \in Views => Extend(f, x, y) \in HandleMap
  BY HandleMaps, Zenon DEF Extend

LEMMA WithoutSound ==
  ASSUME NEW f, NEW S
  PROVE  /\ DOMAIN Without(f, S) = (DOMAIN f) \ S
         /\ \A z \in (DOMAIN f) \ S : Without(f, S)[z] = f[z]
         /\ f \in HandleMap => Without(f, S) \in HandleMap
  BY HandleMaps, Zenon DEF Without, Restrict

\* A smaller set of a finite set is finite and within the same limit.
LEMMA Smaller ==
  ASSUME NEW S, NEW T, T \subseteq S, IsFiniteSet(S), NEW n \in Nat, Cardinality(S) <= n
  PROVE  IsFiniteSet(T) /\ Cardinality(T) <= n
  BY FS_Subset, FS_CardinalityType

\* A set below its limit has room for one more.
LEMMA OneMore ==
  ASSUME NEW S, NEW x, IsFiniteSet(S), NEW n \in Nat, Cardinality(S) < n
  PROVE  IsFiniteSet(S \cup {x}) /\ Cardinality(S \cup {x}) <= n
  <1>1. Cardinality(S) \in Nat
    BY FS_CardinalityType, Zenon
  <1>2. /\ IsFiniteSet(S \cup {x})
        /\ Cardinality(S \cup {x}) = IF x \in S THEN Cardinality(S) ELSE Cardinality(S) + 1
    BY FS_AddElement, Zenon
  <1> QED BY <1>1, <1>2

LEMMA Limits ==
  /\ MaxSessions \in Nat /\ MaxHandles \in Nat /\ MaxOpen \in Nat /\ MaxCursors \in Nat
  /\ MaxAllCursors \in Nat
  BY LimitsAreNumbers, Zenon

-----------------------------------------------------------------------------
(* Steps. *)

\* A step after which every session that is left has its mount, some of its
\* cursors and some of its handles, and these are the handles that are open.
LEMMA Shrinks ==
  ASSUME IInv, Shape',
         DOMAIN sessions' \subseteq DOMAIN sessions,
         \A t \in DOMAIN sessions' :
            /\ sessions'[t].mount = sessions[t].mount
            /\ sessions'[t].cursors \subseteq sessions[t].cursors
            /\ DOMAIN sessions'[t].handles \subseteq DOMAIN sessions[t].handles
            /\ \A h \in DOMAIN sessions'[t].handles : sessions'[t].handles[h] = sessions[t].handles[h],
         \A h \in DOMAIN open' : \E t \in DOMAIN sessions' : h \in DOMAIN sessions'[t].handles,
         \A t \in DOMAIN sessions' : DOMAIN sessions'[t].handles \subseteq DOMAIN open',
         \A h \in DOMAIN open' : open'[h] = open[h],
         effect' = None
  PROVE  IInv'
  <1>0. DOMAIN open' = UNION {DOMAIN sessions'[t].handles : t \in DOMAIN sessions'}
    OBVIOUS
  <1>1. DOMAIN open' \subseteq DOMAIN open
    BY <1>0 DEF IInv, OwnershipExact, Owned
  <1>2. AllCursors' \subseteq AllCursors
    BY DEF AllCursors
  <1>3. Finite' /\ Within'
    <2>1. /\ IsFiniteSet(DOMAIN sessions') /\ Cardinality(DOMAIN sessions') <= MaxSessions
          /\ IsFiniteSet(DOMAIN open') /\ Cardinality(DOMAIN open') <= MaxOpen
          /\ IsFiniteSet(AllCursors') /\ Cardinality(AllCursors') <= MaxAllCursors
      BY <1>1, <1>2, Smaller, Limits, Zenon DEF IInv, Finite, Within
    <2>2. ASSUME NEW t \in DOMAIN sessions'
          PROVE  /\ IsFiniteSet(Owned(t)') /\ Cardinality(Owned(t)') <= MaxHandles
                 /\ IsFiniteSet(sessions'[t].cursors) /\ Cardinality(sessions'[t].cursors) <= MaxCursors
      <3>1. Owned(t)' \subseteq Owned(t) /\ sessions'[t].cursors \subseteq sessions[t].cursors /\ t \in DOMAIN sessions
        BY Zenon DEF Owned
      <3>2. /\ IsFiniteSet(Owned(t)) /\ Cardinality(Owned(t)) <= MaxHandles
            /\ IsFiniteSet(sessions[t].cursors) /\ Cardinality(sessions[t].cursors) <= MaxCursors
        BY <3>1, Zenon DEF IInv, Finite, Within
      <3>3. IsFiniteSet(Owned(t)') /\ Cardinality(Owned(t)') <= MaxHandles
        BY <3>1, <3>2, Smaller, Limits, Zenon
      <3>4. IsFiniteSet(sessions'[t].cursors) /\ Cardinality(sessions'[t].cursors) <= MaxCursors
        BY <3>1, <3>2, Smaller, Limits, Zenon
      <3> QED BY <3>3, <3>4, Zenon
    <2> QED BY <2>1, <2>2, Zenon DEF Finite, Within
  <1>4. OwnershipExact'
    BY <1>0 DEF IInv, OwnershipExact, Owned
  <1>5. MountExclusive'
    BY DEF IInv, MountExclusive, Range
  <1>6. WritesByMounter'
    BY Zenon DEF WritesByMounter
  <1> QED BY <1>3, <1>4, <1>5, <1>6, Zenon DEF IInv

\* A step that changes no table, and writes at most what it is authorized to.
LEMMA Keeps ==
  ASSUME IInv, UNCHANGED <<sessions, open>>, healthy' \in BOOLEAN, server' \in {"up", "down"},
         \/ effect' = None
         \/ \E t \in Tokens \cup {None}, v \in Worlds :
               Authorized(t, v) /\ effect' = [by |-> t, view |-> v]
  PROVE  IInv'
  <1>1. Shape' /\ Finite' /\ Within'
    BY Zenon DEF IInv, Shape, Finite, Within, Owned, AllCursors
  <1>2. OwnershipExact' /\ MountExclusive'
    BY DEF IInv, OwnershipExact, MountExclusive, Owned
  <1>3. WritesByMounter'
    BY DEF WritesByMounter, Authorized
  <1> QED BY <1>1, <1>2, <1>3, Zenon DEF IInv

\* Sessions::open adds a session that owns nothing.
LEMMA OpenStep == ASSUME IInv, NEW t \in Tokens, SessionOpen(t) PROVE IInv'
  <1>1. /\ t \notin DOMAIN sessions
        /\ Cardinality(DOMAIN sessions) < MaxSessions
        /\ DOMAIN sessions' = DOMAIN sessions \cup {t}
        /\ sessions'[t] = NewSession
        /\ \A o \in DOMAIN sessions : sessions'[o] = sessions[o]
        /\ UNCHANGED <<open, healthy, server>> /\ effect' = None
    BY Zenon DEF SessionOpen, Extend
  <1>2. NewSession \in Session /\ NewSession.mount = None /\ NewSession.cursors = {}
        /\ DOMAIN NewSession.handles = {}
    BY NoMapSound, Zenon DEF NewSession, Session
  <1>3. Shape'
    BY <1>1, <1>2, Zenon DEF IInv, Shape, SessionOpen, Extend
  <1>4. AllCursors' = AllCursors
    BY <1>1, <1>2 DEF AllCursors
  <1>5. \A o \in DOMAIN sessions : Owned(o)' = Owned(o)
    BY <1>1, Zenon DEF Owned
  <1>6. Owned(t)' = {}
    BY <1>1, <1>2, Zenon DEF Owned
  <1>7. Finite' /\ Within'
    <2>1. IsFiniteSet(DOMAIN sessions) /\ Cardinality(DOMAIN sessions) < MaxSessions
      BY <1>1, Zenon DEF IInv, Finite
    <2>2. IsFiniteSet(DOMAIN sessions \cup {t}) /\ Cardinality(DOMAIN sessions \cup {t}) <= MaxSessions
      BY <2>1, OneMore, Limits, Zenon
    <2>3. IsFiniteSet({}) /\ Cardinality({}) <= MaxHandles /\ Cardinality({}) <= MaxCursors
      BY FS_EmptySet, Limits
    <2> QED BY <1>1, <1>2, <1>4, <1>5, <1>6, <2>2, <2>3, Zenon DEF IInv, Finite, Within
  <1>8. OwnershipExact'
    BY <1>1, <1>5, <1>6 DEF IInv, OwnershipExact
  <1>9. MountExclusive'
    <2>1. None \notin Worlds
      BY ViewsDisjoint, Zenon DEF Views
    <2>2. Range(sessions'[t].handles) = {}
      BY <1>1, <1>2, Zenon DEF Range
    <2> QED BY <1>1, <1>2, <2>1, <2>2 DEF IInv, MountExclusive
  <1>10. WritesByMounter'
    BY <1>1, Zenon DEF WritesByMounter
  <1> QED BY <1>3, <1>7, <1>8, <1>9, <1>10, Zenon DEF IInv

\* mount_acquire: nobody else mounts the World or has a handle in it.
LEMMA MountStep == ASSUME IInv, NEW t \in Tokens, NEW v \in Views, InodeRoot(t, v) PROVE IInv'
  <1>1. /\ t \in DOMAIN sessions
        /\ MountFree(t, v)
        /\ sessions[t].mount \in {None, v}
        /\ sessions' = [sessions EXCEPT ![t].mount = v]
        /\ UNCHANGED <<open, healthy, server>> /\ effect' = None
    BY Zenon DEF InodeRoot, Acquire
  <1>2. /\ DOMAIN sessions' = DOMAIN sessions
        /\ sessions'[t].mount = v
        /\ \A o \in DOMAIN sessions : /\ o # t => sessions'[o].mount = sessions[o].mount
                                      /\ sessions'[o].handles = sessions[o].handles
                                      /\ sessions'[o].cursors = sessions[o].cursors
    BY <1>1, Zenon DEF IInv, Shape, Session
  <1>3. Shape'
    BY <1>1 DEF IInv, Shape, Session
  <1>4. AllCursors' = AllCursors
    BY <1>2, Zenon DEF AllCursors
  <1>5. Finite' /\ Within'
    BY <1>1, <1>2, <1>4, Zenon DEF IInv, Finite, Within, Owned
  <1>6. OwnershipExact'
    BY <1>1, <1>2 DEF IInv, OwnershipExact, Owned
  <1>7. MountExclusive'
    BY <1>1, <1>2 DEF IInv, MountExclusive, MountFree
  <1>8. WritesByMounter'
    BY <1>1, Zenon DEF WritesByMounter
  <1> QED BY <1>3, <1>5, <1>6, <1>7, <1>8, Zenon DEF IInv

\* A new handle in a view that no other session mounts.
LEMMA GainStep ==
  ASSUME IInv, NEW t \in Tokens, NEW h \in Handles, NEW v \in Views, Gains(t, h, v), Authorized(t, v),
         effect' \in {None} \cup {[by |-> t, view |-> w] : w \in Worlds \cap {v}}
  PROVE  IInv'
  <1>1. /\ t \in DOMAIN sessions
        /\ Cardinality(Owned(t)) < MaxHandles
        /\ Cardinality(DOMAIN open) < MaxOpen
        /\ h \notin DOMAIN open
        /\ open' = Extend(open, h, v)
        /\ sessions' = [sessions EXCEPT ![t].handles = Extend(sessions[t].handles, h, v)]
        /\ UNCHANGED <<healthy, server>>
    BY Zenon DEF Gains, Acquire
  <1>2. /\ DOMAIN sessions' = DOMAIN sessions
        /\ sessions'[t].handles = Extend(sessions[t].handles, h, v)
        /\ \A o \in DOMAIN sessions : /\ o # t => sessions'[o].handles = sessions[o].handles
                                      /\ sessions'[o].mount = sessions[o].mount
                                      /\ sessions'[o].cursors = sessions[o].cursors
    BY <1>1, Zenon DEF IInv, Shape, Session
  <1>3. Shape'
    <2>1. sessions[t].handles \in HandleMap /\ open \in HandleMap
      BY <1>1, Zenon DEF IInv, Shape, Session
    <2>2. Extend(sessions[t].handles, h, v) \in HandleMap /\ Extend(open, h, v) \in HandleMap
      BY <2>1, ExtendSound, Zenon
    <2> QED BY <1>1, <2>2 DEF IInv, Shape, Session
  <1>4. AllCursors' = AllCursors
    BY <1>2, Zenon DEF AllCursors
  <1>5. /\ DOMAIN open' = DOMAIN open \cup {h}
        /\ open'[h] = v
        /\ \A z \in DOMAIN open : open'[z] = open[z]
    BY <1>1, Zenon DEF Extend
  <1>6. /\ Owned(t)' = Owned(t) \cup {h}
        /\ sessions'[t].handles[h] = v
        /\ \A z \in Owned(t) : z # h => sessions'[t].handles[z] = sessions[t].handles[z]
        /\ \A o \in DOMAIN sessions : o # t => Owned(o)' = Owned(o)
    BY <1>2, Zenon DEF Owned, Extend
  <1>7. Finite' /\ Within'
    <2>1. IsFiniteSet(DOMAIN open) /\ IsFiniteSet(Owned(t))
      BY <1>1, Zenon DEF IInv, Finite
    <2>2. IsFiniteSet(DOMAIN open \cup {h}) /\ Cardinality(DOMAIN open \cup {h}) <= MaxOpen
      BY <1>1, <2>1, OneMore, Limits, Zenon
    <2>3. IsFiniteSet(Owned(t) \cup {h}) /\ Cardinality(Owned(t) \cup {h}) <= MaxHandles
      BY <1>1, <2>1, OneMore, Limits, Zenon
    <2> QED BY <1>2, <1>4, <1>5, <1>6, <2>2, <2>3, Zenon DEF IInv, Finite, Within
  <1>8. \A o \in DOMAIN sessions : h \notin Owned(o)
    BY <1>1, Zenon DEF IInv, OwnershipExact
  <1>9. OwnershipExact'
    <2>1. DOMAIN open' = UNION {Owned(o)' : o \in DOMAIN sessions'}
      BY <1>1, <1>2, <1>5, <1>6 DEF IInv, OwnershipExact
    <2>2. ASSUME NEW o \in DOMAIN sessions, NEW g \in Handles, g \in Owned(o)'
          PROVE  /\ sessions'[o].handles[g] = open'[g]
                 /\ \A p \in (DOMAIN sessions) \ {o} : g \notin Owned(p)'
      <3>1. CASE o = t /\ g = h
        BY <1>5, <1>6, <1>8, <3>1, Zenon
      <3>2. CASE g # h
        BY <1>2, <1>5, <1>6, <2>2, <3>2 DEF IInv, OwnershipExact, Owned
      <3> QED BY <1>6, <1>8, <2>2, <3>1, <3>2, Zenon
    <2> QED BY <1>2, <2>1, <2>2, Zenon DEF OwnershipExact
  <1>10. MountExclusive'
    <2>1. Range(sessions'[t].handles) \subseteq Range(sessions[t].handles) \cup {v}
      BY <1>6, Zenon DEF Range, Owned
    <2> QED BY <1>1, <1>2, <2>1 DEF IInv, MountExclusive, Authorized
  <1>11. WritesByMounter'
    BY <1>1, <1>2 DEF WritesByMounter, Authorized
  <1> QED BY <1>3, <1>7, <1>9, <1>10, <1>11, Zenon DEF IInv

\* A cursor counts against its session and against the service.
LEMMA DirOpenStep == ASSUME IInv, NEW t \in Tokens, NEW c \in Cursors, FsDirOpen(t, c) PROVE IInv'
  <1>1. /\ t \in DOMAIN sessions
        /\ Cardinality(sessions[t].cursors) < MaxCursors
        /\ Cardinality(AllCursors) < MaxAllCursors
        /\ sessions' = [sessions EXCEPT ![t].cursors = sessions[t].cursors \cup {c}]
        /\ UNCHANGED <<open, healthy, server>> /\ effect' = None
    BY Zenon DEF FsDirOpen, Acquire, CursorRoom
  <1>2. /\ DOMAIN sessions' = DOMAIN sessions
        /\ sessions'[t].cursors = sessions[t].cursors \cup {c}
        /\ \A o \in DOMAIN sessions : /\ o # t => sessions'[o].cursors = sessions[o].cursors
                                      /\ sessions'[o].handles = sessions[o].handles
                                      /\ sessions'[o].mount = sessions[o].mount
    BY <1>1, Zenon DEF IInv, Shape, Session
  <1>3. Shape'
    BY <1>1 DEF IInv, Shape, Session
  <1>4. AllCursors' = AllCursors \cup {c}
    BY <1>1, <1>2 DEF AllCursors
  <1>5. Finite' /\ Within'
    <2>1. IsFiniteSet(AllCursors) /\ IsFiniteSet(sessions[t].cursors)
      BY <1>1, Zenon DEF IInv, Finite
    <2>2. IsFiniteSet(AllCursors \cup {c}) /\ Cardinality(AllCursors \cup {c}) <= MaxAllCursors
      BY <1>1, <2>1, OneMore, Limits, Zenon
    <2>3. /\ IsFiniteSet(sessions[t].cursors \cup {c})
          /\ Cardinality(sessions[t].cursors \cup {c}) <= MaxCursors
      BY <1>1, <2>1, OneMore, Limits, Zenon
    <2> QED BY <1>1, <1>2, <1>4, <2>2, <2>3, Zenon DEF IInv, Finite, Within, Owned
  <1>6. OwnershipExact' /\ MountExclusive'
    BY <1>1, <1>2 DEF IInv, OwnershipExact, MountExclusive, Owned
  <1>7. WritesByMounter'
    BY <1>1, Zenon DEF WritesByMounter
  <1> QED BY <1>3, <1>5, <1>6, <1>7, Zenon DEF IInv

\* Sessions that go take their handles with them and nobody else's.
LEMMA LeaveStep ==
  ASSUME IInv, NEW G \in SUBSET DOMAIN sessions,
         sessions' = Without(sessions, G),
         open' = Without(open, UNION {Owned(t) : t \in G}),
         UNCHANGED <<healthy, server>>, effect' = None
  PROVE  IInv'
  <1>1. /\ DOMAIN sessions' = (DOMAIN sessions) \ G
        /\ \A o \in DOMAIN sessions' : sessions'[o] = sessions[o]
    BY Zenon DEF Without, Restrict
  <1>2. /\ DOMAIN open' = (DOMAIN open) \ UNION {Owned(t) : t \in G}
        /\ \A h \in DOMAIN open' : open'[h] = open[h]
    BY Zenon DEF Without, Restrict
  <1>3. Shape'
    <2>1. open' \in HandleMap
      BY HandleMaps, Zenon DEF IInv, Shape, Without, Restrict
    <2>2. sessions' \in [DOMAIN sessions' -> Session]
      BY Zenon DEF IInv, Shape, Without, Restrict
    <2> QED BY <1>1, <2>1, <2>2, Zenon DEF IInv, Shape
  <1>4. /\ \A h \in DOMAIN open' : \E t \in DOMAIN sessions' : h \in DOMAIN sessions'[t].handles
        /\ \A t \in DOMAIN sessions' : DOMAIN sessions'[t].handles \subseteq DOMAIN open'
    <2>1. ASSUME NEW h \in DOMAIN open' PROVE \E t \in DOMAIN sessions' : h \in DOMAIN sessions'[t].handles
      BY <1>1, <1>2, <2>1 DEF IInv, OwnershipExact, Owned
    <2>2. ASSUME NEW t \in DOMAIN sessions', NEW h \in DOMAIN sessions'[t].handles PROVE h \in DOMAIN open'
      <3>1. t \in DOMAIN sessions /\ t \notin G /\ h \in Owned(t)
        BY <1>1, <2>2, Zenon DEF Owned
      <3>2. h \in DOMAIN open
        BY <3>1, Zenon DEF IInv, OwnershipExact
      <3>3. h \in Handles
        BY <3>2, HandleMaps, Zenon DEF IInv, Shape
      <3> QED BY <1>2, <3>1, <3>2, <3>3 DEF IInv, OwnershipExact
    <2> QED BY <2>1, <2>2, Zenon
  <1> QED BY <1>1, <1>2, <1>3, <1>4, Shrinks, Zenon

\* A session that loses handles: they are closed and leave its list together.
LEMMA LoseStep ==
  ASSUME IInv, NEW t \in DOMAIN sessions, NEW S \in SUBSET Owned(t), NEW shut \in BOOLEAN,
         sessions' = [sessions EXCEPT ![t].closing = shut,
                                      ![t].handles = Without(sessions[t].handles, S)],
         open' = Without(open, S),
         healthy' \in BOOLEAN, UNCHANGED server, effect' = None
  PROVE  IInv'
  <1>0. /\ DOMAIN sessions' = DOMAIN sessions
        /\ \A o \in DOMAIN sessions : o # t => sessions'[o] = sessions[o]
        /\ sessions'[t] = [live |-> sessions[t].live, closing |-> shut,
                          handles |-> Without(sessions[t].handles, S),
                          mount |-> sessions[t].mount, cursors |-> sessions[t].cursors]
    <2>1. sessions[t] \in Session
      BY Zenon DEF IInv, Shape
    <2> QED BY <2>1, Zenon DEF IInv, Shape, Session
  <1>1. /\ DOMAIN sessions' = DOMAIN sessions
        /\ sessions'[t].handles = Without(sessions[t].handles, S)
        /\ \A o \in DOMAIN sessions : /\ o # t => sessions'[o].handles = sessions[o].handles
                                      /\ sessions'[o].mount = sessions[o].mount
                                      /\ sessions'[o].cursors = sessions[o].cursors
    BY <1>0, Zenon
  <1>2. /\ DOMAIN sessions'[t].handles = Owned(t) \ S
        /\ \A h \in DOMAIN sessions'[t].handles : sessions'[t].handles[h] = sessions[t].handles[h]
    <2>1. /\ DOMAIN Without(sessions[t].handles, S) = (DOMAIN sessions[t].handles) \ S
          /\ \A h \in (DOMAIN sessions[t].handles) \ S :
                Without(sessions[t].handles, S)[h] = sessions[t].handles[h]
      BY WithoutSound, Zenon
    <2> HIDE DEF Without
    <2> QED BY <1>1, <2>1, Zenon DEF Owned
  <1>3. /\ DOMAIN open' = (DOMAIN open) \ S
        /\ \A h \in DOMAIN open' : open'[h] = open[h]
    BY Zenon DEF Without, Restrict
  <1>4. Shape'
    <2>1. sessions[t].handles \in HandleMap /\ open \in HandleMap
      BY Zenon DEF IInv, Shape, Session
    <2>2. Without(sessions[t].handles, S) \in HandleMap /\ Without(open, S) \in HandleMap
      BY <2>1, WithoutSound, Zenon
    <2>3. sessions'[t] \in Session
      BY <1>0, <2>2 DEF IInv, Shape, Session
    <2>4. sessions' \in [DOMAIN sessions' -> Session]
      BY <1>0, <2>3, Zenon DEF IInv, Shape
    <2> QED BY <1>0, <2>2, <2>4, Zenon DEF IInv, Shape
  <1>5. /\ \A h \in DOMAIN open' : \E o \in DOMAIN sessions' : h \in DOMAIN sessions'[o].handles
        /\ \A o \in DOMAIN sessions' : DOMAIN sessions'[o].handles \subseteq DOMAIN open'
    <2>1. ASSUME NEW h \in DOMAIN open' PROVE \E o \in DOMAIN sessions' : h \in DOMAIN sessions'[o].handles
      BY <1>1, <1>2, <1>3, <2>1 DEF IInv, OwnershipExact, Owned
    <2>2. ASSUME NEW o \in DOMAIN sessions', NEW h \in DOMAIN sessions'[o].handles PROVE h \in DOMAIN open'
      <3>1. o \in DOMAIN sessions /\ h \in Owned(o) /\ (o = t => h \notin S)
        BY <1>1, <1>2, <2>2, Zenon DEF Owned
      <3>2. h \in DOMAIN open
        BY <3>1 DEF IInv, OwnershipExact
      <3>3. h \in Handles
        BY <3>2, HandleMaps, Zenon DEF IInv, Shape
      <3>4. h \notin S
        BY <3>1, <3>3, Zenon DEF IInv, OwnershipExact
      <3> QED BY <1>3, <3>2, <3>4, Zenon
    <2> QED BY <2>1, <2>2, Zenon
  <1>6. \A o \in DOMAIN sessions' :
            /\ sessions'[o].mount = sessions[o].mount
            /\ sessions'[o].cursors \subseteq sessions[o].cursors
            /\ DOMAIN sessions'[o].handles \subseteq DOMAIN sessions[o].handles
            /\ \A h \in DOMAIN sessions'[o].handles : sessions'[o].handles[h] = sessions[o].handles[h]
    BY <1>1, <1>2 DEF Owned
  <1> QED BY <1>1, <1>3, <1>4, <1>5, <1>6, Shrinks, Zenon

\* A step that changes flags or forgets cursors of one session.
LEMMA FlagStep ==
  ASSUME IInv, NEW t \in DOMAIN sessions, UNCHANGED <<open, healthy, server>>, effect' = None,
         \/ sessions' = [sessions EXCEPT ![t].live = FALSE]
         \/ \E c : sessions' = [sessions EXCEPT ![t].cursors = @ \ {c}]
  PROVE  IInv'
  <1>1. Shape'
    <2>0. sessions[t] \in Session
      BY Zenon DEF IInv, Shape
    <2>1. CASE sessions' = [sessions EXCEPT ![t].live = FALSE]
      BY <2>0, <2>1, Zenon DEF IInv, Shape, Session
    <2>2. CASE \E c : sessions' = [sessions EXCEPT ![t].cursors = @ \ {c}]
      <3>1. PICK c : sessions' = [sessions EXCEPT ![t].cursors = @ \ {c}]
        BY <2>2, Zenon
      <3>2. [sessions[t] EXCEPT !.cursors = @ \ {c}] \in Session
        BY <2>0, Zenon DEF Session
      <3>3. sessions' \in [DOMAIN sessions -> Session]
        BY <3>1, <3>2, Zenon DEF IInv, Shape
      <3> QED BY <3>3, Zenon DEF IInv, Shape
    <2> QED BY <2>1, <2>2, Zenon
  <1>2. DOMAIN sessions' = DOMAIN sessions
    BY Zenon
  <1>3. \A o \in DOMAIN sessions : /\ sessions'[o].mount = sessions[o].mount
                                   /\ sessions'[o].handles = sessions[o].handles
                                   /\ sessions'[o].cursors \subseteq sessions[o].cursors
    BY DEF IInv, Shape, Session
  <1>4. /\ \A h \in DOMAIN open : \E o \in DOMAIN sessions : h \in DOMAIN sessions[o].handles
        /\ \A o \in DOMAIN sessions : DOMAIN sessions[o].handles \subseteq DOMAIN open
    BY DEF IInv, OwnershipExact, Owned
  <1> QED BY <1>1, <1>2, <1>3, <1>4, Shrinks, Zenon

\* The process ends and a new one starts with empty tables.
LEMMA GoneStep == ASSUME IInv, ProcessGone, effect' = None PROVE IInv'
  <1>1. DOMAIN sessions' = {} /\ DOMAIN open' = {}
    BY NoMapSound, Zenon DEF ProcessGone
  <1>2. Shape'
    BY <1>1, NoMapSound, Zenon DEF ProcessGone, Shape, NoMap
  <1> QED BY <1>1, <1>2, Shrinks, Zenon

\* Sessions::close: all handles are gone, or some are and the session is closing.
LEMMA CloseStep == ASSUME IInv, NEW t \in Tokens, SessionClose(t) PROVE IInv'
  <1>1. t \in DOMAIN sessions /\ effect' = None /\ UNCHANGED server
    BY Zenon DEF SessionClose, Acquire
  <1>2. CASE Closed(t) /\ UNCHANGED healthy
    <2>1. UNION {Owned(o) : o \in {t}} = Owned(t)
      BY Zenon
    <2> QED BY <1>1, <1>2, <2>1, LeaveStep, Zenon DEF Closed
  <1>3. CASE \E S \in SUBSET Owned(t) :
                /\ sessions' = [sessions EXCEPT ![t].closing = TRUE, ![t].handles = Without(@, S)]
                /\ open' = Without(open, S)
                /\ healthy' = FALSE
    <2>1. PICK S \in SUBSET Owned(t) :
                /\ sessions' = [sessions EXCEPT ![t].closing = TRUE, ![t].handles = Without(@, S)]
                /\ open' = Without(open, S)
                /\ healthy' = FALSE
      BY <1>3, Zenon
    <2>2. sessions' = [sessions EXCEPT ![t].closing = TRUE, ![t].handles = Without(sessions[t].handles, S)]
      BY <2>1, Zenon
    <2> QED BY <1>1, <2>1, <2>2, LoseStep, Zenon
  <1> QED BY <1>2, <1>3, Zenon DEF SessionClose

\* expire: every dead session goes, or the process does.
LEMMA ExpireStep == ASSUME IInv, Expire PROVE IInv'
  <1>1. Dead \in SUBSET DOMAIN sessions /\ effect' = None
    BY Zenon DEF Dead, Expire
  <1>2. CASE /\ sessions' = Without(sessions, Dead)
             /\ open' = Without(open, UNION {Owned(t) : t \in Dead})
             /\ UNCHANGED <<healthy, server>>
    BY <1>1, <1>2, LeaveStep, Zenon
  <1>3. CASE ProcessGone
    BY <1>1, <1>3, GoneStep, Zenon
  <1> QED BY <1>2, <1>3, Zenon DEF Expire

\* A session that has a handle in a view may have another: nobody else mounts it.
LEMMA HolderAuthorized ==
  ASSUME IInv, NEW t \in DOMAIN sessions, NEW h \in Owned(t)
  PROVE  h \in DOMAIN open /\ open[h] \in Views /\ Authorized(t, open[h])
  <1>1. h \in DOMAIN open
    BY Zenon DEF IInv, OwnershipExact
  <1>2. h \in Handles /\ open[h] \in Views
    BY <1>1, HandleMaps, Zenon DEF IInv, Shape
  <1>3. open[h] \in Range(sessions[t].handles)
    BY <1>2, Zenon DEF IInv, OwnershipExact, Owned, Range
  <1> QED BY <1>1, <1>2, <1>3, Zenon DEF IInv, MountExclusive, Authorized

\* Operations on paths and handles.
LEMMA WriteSteps ==
  ASSUME IInv,
         \/ \E t \in Tokens \cup {None}, v \in Views : PathWrite(t, v)
         \/ \E t \in Tokens \cup {None} : HistoryWrite(t)
         \/ \E t \in Tokens, h \in Handles : HandleWrite(t, h)
  PROVE  IInv'
  <1>1. CASE \E t \in Tokens \cup {None}, v \in Views : PathWrite(t, v)
    BY <1>1, Keeps, Zenon DEF PathWrite, Writes, IInv, Shape
  <1>2. CASE \E t \in Tokens \cup {None} : HistoryWrite(t)
    BY <1>2, Keeps, Zenon DEF HistoryWrite, IInv, Shape
  <1>3. CASE \E t \in Tokens, h \in Handles : HandleWrite(t, h)
    BY <1>3, Keeps, Zenon DEF HandleWrite, Writes, IInv, Shape
  <1> QED BY <1>1, <1>2, <1>3, Zenon

LEMMA FsOpenStep ==
  ASSUME IInv, NEW t \in Tokens, NEW v \in Views, NEW h \in Handles, FsOpen(t, v, h)
  PROVE  IInv'
  <1>1. CASE Gains(t, h, v) /\ effect' \in {None} \cup {[by |-> t, view |-> w] : w \in Worlds \cap {v}}
    BY <1>1, GainStep, Zenon DEF FsOpen
  <1>2. CASE healthy' = FALSE /\ effect' = None /\ UNCHANGED <<sessions, open, server>>
    BY <1>2, Keeps, Zenon DEF IInv, Shape
  <1> QED BY <1>1, <1>2, Zenon DEF FsOpen

LEMMA FsDupStep ==
  ASSUME IInv, NEW t \in Tokens, NEW h \in Handles, NEW copy \in Handles, FsDup(t, h, copy)
  PROVE  IInv'
  <1>1. t \in DOMAIN sessions /\ h \in Owned(t) /\ Gains(t, copy, open[h]) /\ effect' = None
    BY Zenon DEF FsDup
  <1>2. open[h] \in Views /\ Authorized(t, open[h])
    BY <1>1, HolderAuthorized, Zenon
  <1> QED BY <1>1, <1>2, GainStep, Zenon

LEMMA FsCloseStep == ASSUME IInv, NEW t \in Tokens, NEW h \in Handles, FsClose(t, h) PROVE IInv'
  <1>1. t \in DOMAIN sessions /\ h \in Owned(t) /\ effect' = None /\ UNCHANGED server
    BY Zenon DEF FsClose, Acquire
  <1>2. CASE /\ open' = Without(open, {h})
             /\ sessions' = [sessions EXCEPT ![t].handles = Without(@, {h})]
             /\ UNCHANGED healthy
    <2>1. sessions[t] \in Session
      BY <1>1, Zenon DEF IInv, Shape
    <2>2. sessions' = [sessions EXCEPT ![t].closing = sessions[t].closing,
                                       ![t].handles = Without(sessions[t].handles, {h})]
      BY <1>1, <1>2, <2>1, Zenon DEF IInv, Shape, Session
    <2>3. sessions[t].closing \in BOOLEAN /\ healthy' \in BOOLEAN /\ {h} \in SUBSET Owned(t)
      BY <1>1, <1>2, <2>1, Zenon DEF Session, IInv, Shape
    <2> QED BY <1>1, <1>2, <2>2, <2>3, LoseStep, Zenon
  <1>3. CASE healthy' = FALSE /\ UNCHANGED <<sessions, open>>
    BY <1>1, <1>3, Keeps, Zenon DEF IInv, Shape
  <1> QED BY <1>2, <1>3, Zenon DEF FsClose

-----------------------------------------------------------------------------
(* Theorems. *)

LEMMA InitIInv == Init => IInv
  <1> SUFFICES ASSUME Init PROVE IInv
    BY Zenon
  <1>1. DOMAIN sessions = {} /\ DOMAIN open = {} /\ effect = None
    BY NoMapSound, Zenon DEF Init
  <1>2. Shape
    BY <1>1, NoMapSound, Zenon DEF Init, Shape, NoMap
  <1>3. AllCursors = {}
    BY <1>1, Zenon DEF AllCursors
  <1>4. Finite /\ Within
    BY <1>1, <1>3, FS_EmptySet, Limits DEF Finite, Within
  <1>5. OwnershipExact /\ MountExclusive /\ WritesByMounter
    BY <1>1, Zenon DEF OwnershipExact, MountExclusive, WritesByMounter
  <1> QED BY <1>2, <1>4, <1>5, Zenon DEF IInv

LEMMA NextIInv == IInv /\ [Next]_vars => IInv'
  <1> SUFFICES ASSUME IInv, [Next]_vars PROVE IInv'
    BY Zenon
  <1>1. ASSUME NEW t \in Tokens, SessionStep(t) PROVE IInv'
    <2>1. CASE SessionOpen(t)
      BY <2>1, OpenStep, Zenon
    <2>2. CASE SessionClose(t)
      BY <2>2, CloseStep
    <2>3. CASE LeaseEnds(t)
      BY <2>3, FlagStep, Zenon DEF LeaseEnds
    <2>4. CASE \E v \in Views : InodeRoot(t, v)
      BY <2>4, MountStep, Zenon
    <2>5. CASE \E v \in Views : PathWrite(t, v)
      BY <2>5, WriteSteps, Zenon
    <2>6. CASE \E v \in Views, h \in Handles : FsOpen(t, v, h)
      BY <2>6, FsOpenStep, Zenon
    <2>7. CASE \E h \in Handles : HandleWrite(t, h)
      BY <2>7, WriteSteps, Zenon
    <2>8. CASE \E h \in Handles : FsClose(t, h)
      BY <2>8, FsCloseStep, Zenon
    <2>9. CASE \E h, copy \in Handles : FsDup(t, h, copy)
      BY <2>9, FsDupStep, Zenon
    <2>10. CASE \E c \in Cursors : FsDirOpen(t, c)
      BY <2>10, DirOpenStep
    <2>11. CASE \E c \in Cursors : FsDirClose(t, c)
      BY <2>11, FlagStep, Zenon DEF FsDirClose, Acquire
    <2> QED BY <1>1, <2>1, <2>2, <2>3, <2>4, <2>5, <2>6, <2>7, <2>8, <2>9, <2>10, <2>11, Zenon DEF SessionStep
  <1>2. CASE \E v \in Worlds : PathWrite(None, v)
    BY <1>2, WriteSteps, Zenon DEF Views
  <1>3. CASE \E t \in Tokens \cup {None} : HistoryWrite(t)
    BY <1>3, WriteSteps, Zenon
  <1>4. CASE Expire
    BY <1>4, ExpireStep, Zenon
  <1>5. CASE ServerStart
    BY <1>5, Keeps, Zenon DEF ServerStart, IInv, Shape
  <1>6. CASE Shutdown
    BY <1>6, GoneStep, Zenon DEF Shutdown
  <1>7. CASE UNCHANGED vars
    <2>1. Shape' /\ Finite' /\ Within'
      BY <1>7, Zenon DEF vars, IInv, Shape, Finite, Within, Owned, AllCursors
    <2>2. OwnershipExact' /\ MountExclusive' /\ WritesByMounter'
      BY <1>7 DEF vars, IInv, OwnershipExact, MountExclusive, WritesByMounter, Owned
    <2> QED BY <2>1, <2>2, Zenon DEF IInv
  <1> QED BY <1>1, <1>2, <1>3, <1>4, <1>5, <1>6, <1>7, Zenon DEF Next

LEMMA IInvGives == IInv => ClientsApart
  <1> SUFFICES ASSUME IInv PROVE ClientsApart
    BY Zenon
  <1>1. TypeOK
    <2>1. DOMAIN open \subseteq Handles
      BY HandleMaps, Zenon DEF IInv, Shape
    <2>2. ASSUME NEW t \in DOMAIN sessions
          PROVE  /\ {sessions[t].live, sessions[t].closing} \subseteq BOOLEAN
                 /\ sessions[t].mount \in Views \cup {None}
      BY Zenon DEF IInv, Shape, Session
    <2> QED BY <2>1, <2>2, Zenon DEF TypeOK, IInv, Shape, Within
  <1> QED BY <1>1, Zenon DEF ClientsApart, IInv

\* Sessions and dispatch of rpc.cpp, for any clients, views and limits: every
\* open handle has one owner, a mounted World has one session, nobody else
\* writes to it, and no table passes its limit, through expiry, failed closes,
\* poisoned writes and restarts.
THEOREM ClientsAlwaysApart == Spec => []ClientsApart
  BY InitIInv, NextIInv, IInvGives, PTL DEF Spec
=============================================================================
