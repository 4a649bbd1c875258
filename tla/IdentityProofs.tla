--------------------------- MODULE IdentityProofs ---------------------------
(***************************************************************************)
(* For any processes, directories, paths and Worlds, and any number of     *)
(* copies, moves and failures: an adopted World keeps its baseline, and    *)
(* reconciliation respects what a verify has repaired.                     *)
(***************************************************************************)
EXTENDS Identity, TLAPS

\* There is a registered World in a directory at a path, and no path is the
\* mark of an absent one.
Sane == 1 \in Worlds /\ Dirs # {} /\ Paths # {} /\ None \notin Paths

Row == [state : {"none", "active", "dead", "trashed"}, dir : Dirs \cup {None}, path : Paths \cup {None},
        based : BOOLEAN]
Proc == [pc : {"idle", "stat", "row", "repair", "reread", "insert", "unmark", "mark", "delete", "lock",
               "rename", "bury"},
         op : {"none", "verify", "adopt", "refresh", "reconcile"},
         path : Paths \cup {None}, world : Worlds \cup {None}, dir : Dirs \cup {None},
         dead : SUBSET (Worlds \X Paths), filled : SUBSET Paths]

Shape ==
    /\ loc \in [Dirs -> Paths \cup {None}]
    /\ marker \in [Dirs -> Worlds \cup {None}]
    /\ rows \in [Worlds -> Row]
    /\ snap \in BOOLEAN
    /\ proc \in [Procs -> Proc]

\* An active row has a path.
Placed == \A w \in Worlds : rows[w].state = "active" => rows[w].path \in Paths

\* A process that works on a World knows which and where; and where its scan
\* found nothing there is still nothing, or something came after the scan.
Knows(f) ==
    /\ f.pc \notin {"idle", "bury"} => f.world \in Worlds /\ f.path \in Paths
    /\ f.pc # "bury" => f.dead = {}
Empties(f) == \A e \in f.dead : At(e[2]) = {} \/ e[2] \in f.filled
Good(f) == f \in Proc /\ Knows(f) /\ Empties(f)

\* The inductive invariant.
IInv == Sane /\ Shape /\ Placed /\ AdoptedBaseline /\ \A p \in Procs : Knows(proc[p]) /\ Empties(proc[p])

LEMMA IdleGood == ASSUME Sane PROVE Good(Idle)
  BY Zenon DEF Sane, Good, Idle, Proc, Knows, Empties

LEMMA InitIInv == ASSUME Sane PROVE Init => IInv
  <1> SUFFICES ASSUME Init PROVE IInv
    BY Zenon
  <1>1. D1 \in Dirs /\ P1 \in Paths
    BY Zenon DEF Sane, D1, P1
  <1>2. Idle \in Proc /\ Knows(Idle) /\ Empties(Idle)
    BY IdleGood, Zenon DEF Good
  <1>3. rows \in [Worlds -> Row] /\ \A w \in Worlds : rows[w].state = "active" => rows[w].path \in Paths
    BY <1>1, Zenon DEF Init, Row, NoRow
  <1>4. Shape
    BY <1>1, <1>2, <1>3, Zenon DEF Init, Shape, Sane
  <1> QED BY <1>2, <1>3, <1>4, Zenon DEF Init, IInv, Placed, AdoptedBaseline

-----------------------------------------------------------------------------
(* Steps. *)

\* One process moves, nothing goes or comes on disk, and the rows stay sound.
LEMMA OneProcess ==
    ASSUME IInv, NEW p \in Procs, NEW f, Good(f), proc' = [proc EXCEPT ![p] = f], UNCHANGED <<loc, snap>>,
           marker' \in [Dirs -> Worlds \cup {None}], rows' \in [Worlds -> Row], Placed', AdoptedBaseline'
    PROVE  IInv'
  <1>1. Shape'
    BY Zenon DEF IInv, Shape, Good
  <1>2. ASSUME NEW q \in Procs PROVE Knows(proc'[q]) /\ Empties(proc'[q])
    BY Zenon DEF IInv, Shape, Good
  <1>3. \A q \in Procs : Empties(proc[q])' 
    BY <1>2, Zenon DEF Empties, At
  <1>4. \A q \in Procs : Knows(proc[q])' 
    BY <1>2, Zenon DEF Knows
  <1> QED BY <1>1, <1>3, <1>4, Zenon DEF IInv, Sane

\* The rows are left alone.
LEMMA OneProcessOnly ==
    ASSUME IInv, NEW p \in Procs, NEW f, Good(f), proc' = [proc EXCEPT ![p] = f], UNCHANGED <<loc, snap, rows>>,
           marker' \in [Dirs -> Worlds \cup {None}]
    PROVE  IInv'
  <1>1. rows' \in [Worlds -> Row] /\ Placed' /\ AdoptedBaseline'
    BY Zenon DEF IInv, Shape, Placed, AdoptedBaseline
  <1> QED BY <1>1, OneProcess, Zenon

\* wfs_world_verify_identity.
LEMMA VerifyStep ==
    ASSUME IInv, NEW p \in Procs,
           \/ \E path \in Paths, op \in Ops \cap {"verify", "adopt", "refresh"} : VerifyMarker(p, op, path)
           \/ VerifyStat(p) \/ VerifyRow(p) \/ VerifyRepair(p)
    PROVE  IInv'
  <1>0. proc[p] \in Proc /\ Knows(proc[p]) /\ Empties(proc[p]) /\ Good(Idle)
    BY IdleGood, Zenon DEF IInv, Shape
  <1>1. CASE \E path \in Paths, op \in Ops \cap {"verify", "adopt", "refresh"} : VerifyMarker(p, op, path)
    <2>0. PICK path \in Paths, op \in {"verify", "adopt", "refresh"} : VerifyMarker(p, op, path)
      BY <1>1, Zenon
    <2> DEFINE f(d) == [Idle EXCEPT !.pc = "stat", !.op = op, !.path = path, !.world = marker[d]]
    <2>1. PICK d \in Dirs : marker[d] # None /\ proc' = [proc EXCEPT ![p] = f(d)]
      BY <2>0, Zenon DEF VerifyMarker, At
    <2>u. UNCHANGED <<loc, marker, rows, snap>>
      BY <2>0, Zenon DEF VerifyMarker, Disk
    <2>2. marker[d] \in Worlds
      BY <2>1, Zenon DEF IInv, Shape
    <2>3. Good(f(d))
      <3>1. Idle \in Proc /\ Idle.dead = {}
        BY <1>0, Zenon DEF Good, Idle
      <3>2. f(d) \in Proc
        BY <2>2, <3>1, Zenon DEF Proc
      <3>3. f(d).dead = {} /\ f(d).world = marker[d] /\ f(d).path = path
        BY <3>1, Zenon DEF Proc
      <3> QED BY <2>2, <3>2, <3>3, Zenon DEF Good, Knows, Empties
    <2> HIDE DEF f
    <2> QED BY <2>1, <2>u, <2>3, OneProcessOnly, Zenon DEF IInv, Shape
  <1>2. CASE VerifyStat(p)
    <2>1. /\ proc[p].pc = "stat" /\ UNCHANGED <<loc, marker, rows, snap>>
          /\ \/ proc' = [proc EXCEPT ![p] = Idle]
             \/ \E d \in Dirs : proc' = [proc EXCEPT ![p].dir = d, ![p].pc = "row"]
      BY <1>2, Zenon DEF VerifyStat, At, Disk, Done
    <2>2. ASSUME NEW d \in Dirs, proc' = [proc EXCEPT ![p].dir = d, ![p].pc = "row"] PROVE IInv'
      <3>1. proc' = [proc EXCEPT ![p] = [proc[p] EXCEPT !.dir = d, !.pc = "row"]]
        BY <2>2, Zenon DEF IInv, Shape
      <3>2. Good([proc[p] EXCEPT !.dir = d, !.pc = "row"])
        BY <1>0, <2>1, Zenon DEF Good, Proc, Knows, Empties
      <3> QED BY <2>1, <3>1, <3>2, OneProcessOnly, Zenon DEF IInv, Shape
    <2> QED BY <1>0, <2>1, <2>2, OneProcessOnly, Zenon DEF IInv, Shape
  <1>3. ASSUME NEW pc \in {"repair", "lock", "reread"}, proc[p].pc \in {"row", "repair"},
               proc' = [proc EXCEPT ![p].pc = pc]
        PROVE  \E f : Good(f) /\ proc' = [proc EXCEPT ![p] = f]
    <2>1. proc' = [proc EXCEPT ![p] = [proc[p] EXCEPT !.pc = pc]]
      BY <1>3, Zenon DEF IInv, Shape
    <2>2. Good([proc[p] EXCEPT !.pc = pc])
      BY <1>0, <1>3, Zenon DEF Good, Proc, Knows, Empties
    <2> QED BY <2>1, <2>2, Zenon
  <1>4. CASE VerifyRow(p)
    <2>1. /\ proc[p].pc = "row" /\ UNCHANGED <<loc, marker, rows, snap>>
          /\ \/ proc' = [proc EXCEPT ![p] = Idle]
             \/ \E pc \in {"repair", "lock", "reread"} : proc' = [proc EXCEPT ![p].pc = pc]
      BY <1>4, Zenon DEF VerifyRow, Disk, Done, Go
    <2>2. \E f : Good(f) /\ proc' = [proc EXCEPT ![p] = f]
      BY <1>0, <1>3, <2>1, Zenon
    <2> QED BY <2>1, <2>2, OneProcessOnly, Zenon DEF IInv, Shape
  <1>5. CASE VerifyRepair(p)
    <2>1. /\ proc[p].pc = "repair" /\ UNCHANGED <<loc, marker, snap>>
          /\ rows' = [rows EXCEPT ![proc[p].world].path = proc[p].path]
          /\ \/ proc' = [proc EXCEPT ![p] = Idle]
             \/ proc' = [proc EXCEPT ![p].pc = "lock"]
      BY <1>5, Zenon DEF VerifyRepair, Disk, Done, Go
    <2>2. \E f : Good(f) /\ proc' = [proc EXCEPT ![p] = f]
      BY <1>0, <1>3, <2>1, Zenon
    <2>3. proc[p].world \in Worlds /\ proc[p].path \in Paths
      BY <1>0, <2>1, Zenon DEF Knows
    <2>4. /\ rows' = [rows EXCEPT ![proc[p].world] = [rows[proc[p].world] EXCEPT !.path = proc[p].path]]
          /\ rows[proc[p].world] \in Row
      BY <2>1, <2>3, Zenon DEF IInv, Shape
    <2>5. \A w \in Worlds : /\ rows'[w] \in Row
                            /\ rows'[w].state = rows[w].state /\ rows'[w].based = rows[w].based
                            /\ rows'[w].path \in {rows[w].path, proc[p].path}
      BY <2>3, <2>4, Zenon DEF IInv, Shape, Row
    <2>6. rows' \in [Worlds -> Row] /\ Placed' /\ AdoptedBaseline'
      BY <2>1, <2>3, <2>4, <2>5, Zenon DEF IInv, Shape, Placed, AdoptedBaseline
    <2> QED BY <2>1, <2>2, <2>6, OneProcess, Zenon DEF IInv, Shape
  <1> QED BY <1>1, <1>2, <1>4, <1>5, Zenon

\* wfs_world_adopt and the refresh of a marker.
LEMMA AdoptStep ==
    ASSUME IInv, NEW p \in Procs,
           \/ AdoptReread(p) \/ AdoptInsert(p) \/ AdoptUnmark(p) \/ AdoptMark(p) \/ AdoptDelete(p)
           \/ RefreshRead(p) \/ RefreshRename(p)
    PROVE  IInv'
  <1>0. /\ proc[p] \in Proc /\ Knows(proc[p]) /\ Empties(proc[p]) /\ Good(Idle)
        /\ marker \in [Dirs -> Worlds \cup {None}] /\ proc \in [Procs -> Proc]
    BY IdleGood, Zenon DEF IInv, Shape
  <1>1. ASSUME NEW pc \in {"mark", "delete"}, proc[p].pc \in {"unmark", "mark"},
               proc' = [proc EXCEPT ![p].pc = pc]
        PROVE  \E f : Good(f) /\ proc' = [proc EXCEPT ![p] = f]
    <2>1. proc' = [proc EXCEPT ![p] = [proc[p] EXCEPT !.pc = pc]]
      BY <1>1, Zenon DEF IInv, Shape
    <2>2. Good([proc[p] EXCEPT !.pc = pc])
      BY <1>0, <1>1, Zenon DEF Good, Proc, Knows, Empties
    <2> QED BY <2>1, <2>2, Zenon
  <1>2. CASE AdoptReread(p)
    <2>1. /\ proc[p].pc = "reread" /\ UNCHANGED <<loc, marker, rows, snap>>
          /\ \/ proc' = [proc EXCEPT ![p] = Idle]
             \/ \E d \in Dirs : marker[d] # None /\ proc' = [proc EXCEPT ![p].world = marker[d], ![p].dir = d,
                                                                         ![p].pc = "insert"]
      BY <1>2, Zenon DEF AdoptReread, At, Disk, Done
    <2>2. ASSUME NEW d \in Dirs, marker[d] # None,
                 proc' = [proc EXCEPT ![p].world = marker[d], ![p].dir = d, ![p].pc = "insert"]
          PROVE  IInv'
      <3>1. proc' = [proc EXCEPT ![p] = [proc[p] EXCEPT !.world = marker[d], !.dir = d, !.pc = "insert"]]
        BY <1>0, <2>2, Zenon
      <3>2. marker[d] \in Worlds
        BY <1>0, <2>2, Zenon
      <3>3. Good([proc[p] EXCEPT !.world = marker[d], !.dir = d, !.pc = "insert"])
        BY <1>0, <2>1, <3>2, Zenon DEF Good, Proc, Knows, Empties
      <3> QED BY <1>0, <2>1, <3>1, <3>3, OneProcessOnly, Zenon
    <2> QED BY <1>0, <2>1, <2>2, OneProcessOnly, Zenon
  <1>3. CASE AdoptInsert(p)
    <2>1. /\ proc[p].pc = "insert" /\ UNCHANGED <<loc, marker, snap>>
          /\ \/ proc' = [proc EXCEPT ![p] = Idle] /\ UNCHANGED rows
             \/ ~(rows[proc[p].world].based /\ ~snap) /\ Adopt(p, rows[proc[p].world].based)
      BY <1>3, Zenon DEF AdoptInsert, Disk, Done
    <2>2. proc[p].world \in Worlds /\ proc[p].path \in Paths
      BY <1>0, <2>1, Zenon DEF Knows
    <2>3. PICK based \in BOOLEAN : based = rows[proc[p].world].based
      BY <2>2, Zenon DEF IInv, Shape, Row
    <2>4. ASSUME ~(based /\ ~snap), Adopt(p, based) PROVE IInv'
      <3> DEFINE row == [state |-> "active", dir |-> proc[p].dir, path |-> proc[p].path, based |-> based]
      <3>1. PICK w \in Worlds : /\ rows' = [rows EXCEPT ![w] = row]
                                /\ proc' = [proc EXCEPT ![p].world = w, ![p].pc = "unmark"]
        BY <2>4, Zenon DEF Adopt, Fresh
      <3>2. proc' = [proc EXCEPT ![p] = [proc[p] EXCEPT !.world = w, !.pc = "unmark"]]
        BY <1>0, <3>1, Zenon
      <3>3. Good([proc[p] EXCEPT !.world = w, !.pc = "unmark"])
        BY <1>0, <2>1, <2>2, Zenon DEF Good, Proc, Knows, Empties
      <3>4. row \in Row /\ row.path \in Paths /\ (row.based => snap)
        BY <1>0, <2>2, <2>4, Zenon DEF Row, Proc
      <3> HIDE DEF row
      <3>5. rows' \in [Worlds -> Row] /\ Placed' /\ AdoptedBaseline'
        BY <2>1, <3>1, <3>4, Zenon DEF IInv, Shape, Placed, AdoptedBaseline
      <3> QED BY <1>0, <2>1, <3>2, <3>3, <3>5, OneProcess, Zenon
    <2> QED BY <1>0, <2>1, <2>3, <2>4, OneProcessOnly, Zenon
  <1>4. CASE AdoptUnmark(p)
    <2>1. /\ proc[p].pc = "unmark" /\ UNCHANGED <<loc, rows, snap>>
          /\ marker' \in [Dirs -> Worlds \cup {None}]
          /\ \E pc \in {"mark", "delete"} : proc' = [proc EXCEPT ![p].pc = pc]
      BY <1>0, <1>4, Zenon DEF AdoptUnmark, Go
    <2>2. \E f : Good(f) /\ proc' = [proc EXCEPT ![p] = f]
      BY <1>1, <2>1, Zenon
    <2> QED BY <2>1, <2>2, OneProcessOnly, Zenon
  <1>5. CASE AdoptMark(p)
    <2>1. proc[p].pc = "mark" /\ UNCHANGED <<loc, rows, snap>>
      BY <1>5, Zenon DEF AdoptMark
    <2>2. proc[p].world \in Worlds
      BY <1>0, <2>1, Zenon DEF Knows
    <2>3. /\ marker' \in [Dirs -> Worlds \cup {None}]
          /\ proc' = [proc EXCEPT ![p] = Idle] \/ proc' = [proc EXCEPT ![p].pc = "delete"]
      BY <1>0, <1>5, <2>2, Zenon DEF AdoptMark, Go, Done
    <2>4. \E f : Good(f) /\ proc' = [proc EXCEPT ![p] = f]
      BY <1>0, <1>1, <2>1, <2>3, Zenon
    <2> QED BY <2>1, <2>3, <2>4, OneProcessOnly, Zenon
  <1>6. CASE AdoptDelete(p)
    <2>1. /\ proc' = [proc EXCEPT ![p] = Idle] /\ UNCHANGED <<loc, marker, snap>>
          /\ rows' = [rows EXCEPT ![proc[p].world] = NoRow] \/ UNCHANGED rows
      BY <1>6, Zenon DEF AdoptDelete, Done, Disk
    <2>2. NoRow \in Row /\ NoRow.state = "none"
      BY Zenon DEF NoRow, Row
    <2>3. rows' \in [Worlds -> Row] /\ Placed' /\ AdoptedBaseline'
      BY <2>1, <2>2, Zenon DEF IInv, Shape, Placed, AdoptedBaseline
    <2> QED BY <1>0, <2>1, <2>3, OneProcess, Zenon
  <1>7. CASE RefreshRead(p)
    <2>1. /\ proc[p].pc = "lock" /\ UNCHANGED <<loc, marker, rows, snap>>
          /\ \/ proc' = [proc EXCEPT ![p] = Idle]
             \/ \E d \in Dirs : marker[d] # None /\ proc' = [proc EXCEPT ![p].world = marker[d], ![p].pc = "rename"]
      BY <1>7, Zenon DEF RefreshRead, At, Disk, Done
    <2>2. ASSUME NEW d \in Dirs, marker[d] # None, proc' = [proc EXCEPT ![p].world = marker[d], ![p].pc = "rename"]
          PROVE  IInv'
      <3>1. proc' = [proc EXCEPT ![p] = [proc[p] EXCEPT !.world = marker[d], !.pc = "rename"]]
        BY <1>0, <2>2, Zenon
      <3>2. marker[d] \in Worlds
        BY <1>0, <2>2, Zenon
      <3>3. Good([proc[p] EXCEPT !.world = marker[d], !.pc = "rename"])
        BY <1>0, <2>1, <3>2, Zenon DEF Good, Proc, Knows, Empties
      <3> QED BY <1>0, <2>1, <3>1, <3>3, OneProcessOnly, Zenon
    <2> QED BY <1>0, <2>1, <2>2, OneProcessOnly, Zenon
  <1>8. CASE RefreshRename(p)
    <2>1. /\ proc' = [proc EXCEPT ![p] = Idle] /\ UNCHANGED <<loc, rows, snap>>
          /\ proc[p].pc = "rename"
      BY <1>8, Zenon DEF RefreshRename, Done
    <2>2. proc[p].world \in Worlds
      BY <1>0, <2>1, Zenon DEF Knows
    <2>3. marker' \in [Dirs -> Worlds \cup {None}]
      BY <1>0, <1>8, <2>2, Zenon DEF RefreshRename
    <2> QED BY <1>0, <2>1, <2>3, OneProcessOnly, Zenon
  <1> QED BY <1>2, <1>3, <1>4, <1>5, <1>6, <1>7, <1>8, Zenon

\* wfs_gc_ex: the scan, and the update of each row that it found.
LEMMA ReconcileStep ==
    ASSUME IInv, NEW p \in Procs,
           \/ ReconcileScan(p) \/ ReconcileEnd(p) \/ Die(p)
           \/ \E w \in Worlds, path \in Paths : ReconcileRow(p, w, path)
    PROVE  IInv'
  <1>0. /\ proc[p] \in Proc /\ Knows(proc[p]) /\ Empties(proc[p]) /\ Good(Idle)
        /\ marker \in [Dirs -> Worlds \cup {None}] /\ proc \in [Procs -> Proc]
    BY IdleGood, Zenon DEF IInv, Shape
  <1>1. CASE ReconcileScan(p)
    <2> DEFINE dead == {<<w, rows[w].path>> : w \in {v \in Worlds : rows[v].state = "active" /\ At(rows[v].path) = {}}}
               f == [Idle EXCEPT !.pc = "bury", !.op = "reconcile", !.dead = dead]
    <2>1. proc' = [proc EXCEPT ![p] = f] /\ UNCHANGED <<loc, marker, rows, snap>>
      BY <1>1, Zenon DEF ReconcileScan, Disk
    <2>2. dead \in SUBSET (Worlds \X Paths) /\ \A e \in dead : At(e[2]) = {}
      BY DEF IInv, Placed
    <2> HIDE DEF dead
    <2>3. Good(f)
      BY <2>2, Zenon DEF Good, Proc, Idle, Knows, Empties
    <2> QED BY <1>0, <2>1, <2>3, OneProcessOnly, Zenon
  <1>2. CASE ReconcileEnd(p) \/ Die(p)
    <2>1. proc' = [proc EXCEPT ![p] = Idle] /\ UNCHANGED <<loc, marker, rows, snap>>
      BY <1>2, Zenon DEF ReconcileEnd, Die, Done, Disk
    <2> QED BY <1>0, <2>1, OneProcessOnly, Zenon
  <1>3. CASE \E w \in Worlds, path \in Paths : ReconcileRow(p, w, path)
    <2>1. PICK w \in Worlds, path \in Paths : ReconcileRow(p, w, path)
      BY <1>3, Zenon
    <2>2. /\ proc[p].pc = "bury" /\ UNCHANGED <<loc, marker, snap>>
          /\ rows' = [rows EXCEPT ![w].state = "dead"] \/ UNCHANGED rows
          /\ proc' = [proc EXCEPT ![p] = [proc[p] EXCEPT !.dead = proc[p].dead \ {<<w, path>>}]]
      BY <1>0, <2>1, Zenon DEF ReconcileRow, Bury, Disk
    <2>3. Good([proc[p] EXCEPT !.dead = proc[p].dead \ {<<w, path>>}])
      BY <1>0, <2>2 DEF Good, Proc, Knows, Empties
    <2>4. rows' = [rows EXCEPT ![w] = [rows[w] EXCEPT !.state = "dead"]] \/ UNCHANGED rows
      BY <2>2, Zenon DEF IInv, Shape
    <2>5. [rows[w] EXCEPT !.state = "dead"] \in Row /\ [rows[w] EXCEPT !.state = "dead"].state = "dead"
      BY Zenon DEF IInv, Shape, Row
    <2>6. rows' \in [Worlds -> Row] /\ Placed' /\ AdoptedBaseline'
      BY <2>2, <2>4, <2>5, Zenon DEF IInv, Shape, Placed, AdoptedBaseline
    <2> QED BY <1>0, <2>2, <2>3, <2>6, OneProcess, Zenon
  <1> QED BY <1>1, <1>2, <1>3, Zenon

\* wfs_snapshot_discard and wfs_world_discard.
LEMMA DiscardStep == ASSUME IInv, DiscardSnap \/ \E w \in Worlds : DiscardWorld(w) PROVE IInv'
  <1>1. CASE DiscardSnap
    <2>1. UNCHANGED <<loc, marker, rows, proc>> /\ snap' = FALSE /\ AdoptedBaseline'
      BY <1>1, Zenon DEF DiscardSnap, Disk, AdoptedBaseline
    <2> QED BY <2>1, Zenon DEF IInv, Sane, Shape, Placed, Knows, Empties, At
  <1>2. ASSUME NEW w \in Worlds, DiscardWorld(w) PROVE IInv'
    <2>1. /\ rows' = [rows EXCEPT ![w] = [rows[w] EXCEPT !.state = "trashed"]]
          /\ loc' = [loc EXCEPT ![rows[w].dir] = None]
          /\ UNCHANGED <<marker, snap, proc>>
      BY <1>2, Zenon DEF DiscardWorld, IInv, Shape
    <2>2. [rows[w] EXCEPT !.state = "trashed"] \in Row /\ [rows[w] EXCEPT !.state = "trashed"].state = "trashed"
      BY Zenon DEF IInv, Shape, Row
    <2>3. rows' \in [Worlds -> Row] /\ Placed' /\ AdoptedBaseline'
      BY <2>1, <2>2, Zenon DEF IInv, Shape, Placed, AdoptedBaseline
    <2>4. Shape'
      BY <2>1, <2>3, Zenon DEF IInv, Shape
    <2>5. \A path \in Paths : At(path) = {} => At(path)' = {}
      BY <2>1, Zenon DEF IInv, Shape, Sane, At
    <2>6. \A p \in Procs : \A e \in proc[p].dead : e[2] \in Paths
      BY DEF IInv, Shape, Proc
    <2>7. \A p \in Procs : Knows(proc[p])' /\ Empties(proc[p])'
      BY <2>1, <2>5, <2>6, Zenon DEF IInv, Knows, Empties
    <2> QED BY <2>3, <2>4, <2>7, Zenon DEF IInv, Sane
  <1> QED BY <1>1, <1>2, Zenon

\* The user renames or copies a directory.
LEMMA UserStep ==
    ASSUME IInv, NEW d \in Dirs, NEW path \in Paths, UserMove(d, path) \/ \E c \in Dirs : UserCopy(d, c, path)
    PROVE  IInv'
  <1>1. PICK c \in Dirs : loc' = [loc EXCEPT ![c] = path]
    BY Zenon DEF UserMove, UserCopy
  <1>2. UNCHANGED <<rows, snap>> /\ marker' \in [Dirs -> Worlds \cup {None}] /\ Filled(path)
    BY Zenon DEF UserMove, UserCopy, IInv, Shape
  <1>3. \A q \in Procs :
            /\ proc'[q] \in Proc
            /\ proc'[q].pc = proc[q].pc /\ proc'[q].world = proc[q].world /\ proc'[q].path = proc[q].path
            /\ proc'[q].dead = proc[q].dead
            /\ proc[q].filled \subseteq proc'[q].filled
            /\ proc[q].pc = "bury" => path \in proc'[q].filled
    <2> SUFFICES ASSUME NEW q \in Procs
                 PROVE  /\ proc'[q] \in Proc
                        /\ proc'[q].pc = proc[q].pc /\ proc'[q].world = proc[q].world
                        /\ proc'[q].path = proc[q].path /\ proc'[q].dead = proc[q].dead
                        /\ proc[q].filled \subseteq proc'[q].filled
                        /\ proc[q].pc = "bury" => path \in proc'[q].filled
      BY Zenon
    <2>1. proc[q] \in Proc
      BY Zenon DEF IInv, Shape
    <2>2. CASE proc[q].pc = "bury"
      <3>1. proc'[q] = [proc[q] EXCEPT !.filled = proc[q].filled \cup {path}]
        BY <1>2, <2>2, Zenon DEF Filled
      <3> QED BY <2>1, <3>1 DEF Proc
    <2>3. CASE proc[q].pc # "bury"
      BY <1>2, <2>1, <2>3, Zenon DEF Filled
    <2> QED BY <2>2, <2>3, Zenon
  <1>4. Shape'
    BY <1>1, <1>2, <1>3, Zenon DEF IInv, Shape, Filled
  <1>5. \A other \in Paths \ {path} : At(other) = {} => At(other)' = {}
    BY <1>1, Zenon DEF IInv, Shape, At
  <1>6. \A q \in Procs : \A e \in proc[q].dead : e[2] \in Paths /\ proc[q].pc = "bury"
    BY DEF IInv, Shape, Proc, Knows
  <1>7. \A q \in Procs : Knows(proc[q])'
    BY <1>3, Zenon DEF IInv, Knows
  <1>8. \A q \in Procs : Empties(proc[q])'
    BY <1>3, <1>5, <1>6, Zenon DEF IInv, Empties
  <1>9. Placed' /\ AdoptedBaseline'
    BY <1>2, Zenon DEF IInv, Placed, AdoptedBaseline
  <1> QED BY <1>4, <1>7, <1>8, <1>9, Zenon DEF IInv, Sane

LEMMA NextIInv == IInv /\ [Next]_vars => IInv'
  <1> SUFFICES ASSUME IInv, [Next]_vars PROVE IInv'
    BY Zenon
  <1>1. ASSUME NEW p \in Procs, Step(p) \/ Die(p) PROVE IInv'
    BY <1>1, VerifyStep, AdoptStep, ReconcileStep, Zenon DEF Step
  <1>2. ASSUME NEW p \in Procs,
               \E path \in Paths, op \in Ops \cap {"verify", "adopt", "refresh"} : VerifyMarker(p, op, path)
        PROVE  IInv'
    BY <1>2, VerifyStep, Zenon
  <1>3. ASSUME NEW p \in Procs, ReconcileScan(p) PROVE IInv'
    BY <1>3, ReconcileStep, Zenon
  <1>4. ASSUME NEW d \in Dirs, NEW path \in Paths, UserMove(d, path) \/ \E c \in Dirs : UserCopy(d, c, path)
        PROVE  IInv'
    BY <1>4, UserStep, Zenon
  <1>5. CASE DiscardSnap \/ \E w \in Worlds : DiscardWorld(w)
    BY <1>5, DiscardStep, Zenon
  <1>6. CASE UNCHANGED vars
    BY <1>6, Zenon DEF vars, IInv, Sane, Shape, Placed, AdoptedBaseline, Knows, Empties, At
  <1> QED BY <1>1, <1>2, <1>3, <1>4, <1>5, <1>6, Zenon DEF Next

\* wfs_world_adopt beside wfs_snapshot_discard: a World that refers to a snapshot,
\* adopted or not, has it, whichever commits first.
THEOREM AlwaysBased == ASSUME Sane PROVE Spec => []AdoptedBaseline
  <1>1. IInv => AdoptedBaseline
    BY Zenon DEF IInv
  <1> QED BY <1>1, InitIInv, NextIInv, PTL DEF Spec

\* Only the update of reconciliation buries a World.
LEMMA BuriedBy ==
    ASSUME IInv, Next, NEW w \in Worlds, rows[w].state = "active", rows'[w].state = "dead"
    PROVE  \E p \in Procs, path \in Paths : ReconcileRow(p, w, path)
  <1>1. ASSUME NEW p \in Procs, VerifyRepair(p) PROVE FALSE
    BY <1>1, Zenon DEF VerifyRepair, IInv, Shape, Row
  <1>2. ASSUME NEW p \in Procs, AdoptInsert(p) PROVE FALSE
    <2>1. \A based : Adopt(p, based) => \E v \in Worlds : rows[v].state = "none" /\ \A u \in Worlds \ {v} : rows'[u] = rows[u]
      BY Zenon DEF Adopt, Fresh, IInv, Shape
    <2> QED BY <1>2, <2>1, Zenon DEF AdoptInsert
  <1>3. ASSUME NEW p \in Procs, AdoptDelete(p) PROVE FALSE
    BY <1>3 DEF AdoptDelete, NoRow, IInv, Shape, Row
  <1>4. ASSUME NEW v \in Worlds, DiscardWorld(v) PROVE FALSE
    BY <1>4, Zenon DEF DiscardWorld, IInv, Shape, Row
  <1>5. ASSUME NEW p \in Procs, NEW v \in Worlds, NEW path \in Paths, ReconcileRow(p, v, path) PROVE v = w
    BY <1>5, Zenon DEF ReconcileRow, Bury, IInv, Shape, Row
  <1>6. rows' # rows
    BY Zenon
  <1>7. ASSUME NEW p \in Procs, Step(p) PROVE \E v \in Worlds, path \in Paths : ReconcileRow(p, v, path)
    BY <1>1, <1>2, <1>3, <1>6, <1>7, Zenon DEF Step, VerifyStat, VerifyRow, AdoptReread, AdoptUnmark, AdoptMark,
       RefreshRead, RefreshRename, ReconcileEnd
  <1>8. \E p \in Procs : Step(p)
    BY <1>4, <1>6, Zenon DEF Next, Die, VerifyMarker, ReconcileScan, DiscardSnap, UserMove, UserCopy
  <1> QED BY <1>5, <1>7, <1>8, Zenon

\* What is left of the scan of a process once one of its rows is dealt with.
LEMMA DeadOf ==
  ASSUME NEW A, NEW B, NEW C, NEW D, NEW E, NEW F, NEW G, NEW v,
         NEW r \in [pc : A, op : B, path : C, world : D, dir : E, dead : F, filled : G]
  PROVE  [r EXCEPT !.dead = v].dead = v
  OBVIOUS

\* wfs_gc_ex with WFS_GC_RECONCILE: a World is buried only while nothing is where
\* its row says, unless the user put a directory there after the scan.
THEOREM AlwaysBuriesAbsent == ASSUME Sane PROVE Spec => BuriesAbsent
  <1>1. IInv /\ [Next]_vars => [BuryAbsent]_vars
    <2> SUFFICES ASSUME IInv, Next, NEW w \in Worlds, rows[w].state = "active", rows'[w].state = "dead"
                 PROVE  \E p \in Procs : /\ proc'[p] # proc[p]
                                         /\ At(rows[w].path) = {} \/ rows[w].path \in proc[p].filled
      BY Zenon DEF BuryAbsent
    <2>1. PICK p \in Procs, path \in Paths : ReconcileRow(p, w, path)
      BY BuriedBy, Zenon
    <2>2. <<w, path>> \in proc[p].dead /\ proc' = [proc EXCEPT ![p].dead = @ \ {<<w, path>>}]
      BY <2>1, Zenon DEF ReconcileRow, Bury
    <2>3. rows[w].path = path
      BY <2>1, Zenon DEF ReconcileRow, Bury
    <2>4. At(path) = {} \/ path \in proc[p].filled
      BY <2>2, Zenon DEF IInv, Empties
    <2>5. proc'[p] # proc[p]
      <3>1. proc \in [Procs -> Proc]
        BY DEF IInv, Shape
      <3>2. proc'[p] = [proc[p] EXCEPT !.dead = @ \ {<<w, path>>}]
        BY <2>2, <3>1
      <3>3. proc[p] \in Proc
        BY <3>1
      <3>4. proc'[p].dead = proc[p].dead \ {<<w, path>>}
        BY <3>2, <3>3, DeadOf, Zenon DEF Proc
      <3> QED BY <2>2, <3>4, Zenon
    <2> QED BY <2>3, <2>4, <2>5, Zenon
  <1> QED BY <1>1, InitIInv, NextIInv, PTL DEF Spec, BuriesAbsent
=============================================================================
