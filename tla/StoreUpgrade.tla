---------------------------- MODULE StoreUpgrade ----------------------------
(***************************************************************************)
(* Opening a store of the retired directory product (wfs_store_open of     *)
(* core/src/store.cpp): the VERSION file, the two names of the database,   *)
(* and the upgrade of a schema-2 store (M1) to schema 3.                   *)
(*                                                                         *)
(* Openers of this core (Openers) take the upgrade lock; M1 processes      *)
(* (Legacy) know nothing of it, read VERSION once and open metadata.db     *)
(* later.  Every system call that changes a shared name is a step, so an   *)
(* opener may be overtaken, fail or die between any two of them.           *)
(*                                                                         *)
(* A database is an inode: its stamp (user_version / 100), whether it is   *)
(* in WAL mode, the rows in the main file and its store id.  The -wal file *)
(* beside a name holds committed rows that are not in the main file yet.   *)
(***************************************************************************)
EXTENDS Naturals, FiniteSets

CONSTANTS
  Openers, Legacy,   \* processes of this core, and M1 processes
  Stubs,             \* private names metadata.db.stub.<pid>.<hex>
  Inodes,
  Free, Dir,         \* a name nobody uses, an empty directory
  NoProc,
  Starts,            \* the stores an instance begins with
  MaxFaults,         \* system calls that fail
  MaxCrashes,        \* openers that die
  LegacyWrites       \* M1 commits rows through the handle it holds

OldDb == "metadata.db"
NewDb == "metadata3.db"
FileNames == {OldDb, NewDb} \cup Stubs
OldRows == {1, 2}   \* in the store from the start
Rows == {1, 2, 3}

VARIABLES
  version,   \* the VERSION file: "2", "3", "none", or "short" (created, not written)
  names,     \* what each name of the store directory is
  db,        \* the databases by inode
  side,      \* the -wal beside a name: the rows in it, or NoWal
  lock,      \* the holder of upgrade.lock
  up,        \* the openers
  m1,        \* the M1 processes
  budget,    \* faults and crashes so far
  rows       \* history: the rows somebody was told are committed

vars == <<version, names, db, side, lock, up, m1, budget, rows>>
disk == <<version, names, db, side>>

NoWal == {0}
Regular(n) == names[n] \in Inodes
Links(i) == Cardinality({n \in FileNames : names[n] = i})
Used == {names[n] : n \in FileNames}
NoLayout == [move |-> FALSE, stub |-> FALSE, existed |-> FALSE, sweep |-> FALSE,
             content |-> FALSE, ino |-> Free]
Idle == [pc |-> "idle", legacy |-> FALSE, lay |-> NoLayout, gated |-> FALSE,
         h |-> Free, uv |-> 0, tmp |-> OldDb, id |-> NoProc, res |-> "none"]
Database(uv, wal, base, id) == [uv |-> uv, wal |-> wal, base |-> base, id |-> id]

\* A schema-2 store, perhaps with a -wal an M1 process left behind; a store
\* that does not exist yet; a schema-3 store whose stub somebody removed.
Start(s, i) ==
  [version |-> CASE s = "empty" -> "none" [] s = "no_stub" -> "3" [] OTHER -> "2",
   names   |-> [n \in FileNames |-> CASE s \in {"schema2", "schema2_wal"} /\ n = OldDb -> i
                                  [] s = "no_stub" /\ n = NewDb -> i
                                  [] OTHER -> Free],
   db      |-> [j \in Inodes |->
                  IF j = i /\ s # "empty"
                  THEN Database(IF s = "no_stub" THEN 3 ELSE 2, s # "schema2",
                                IF s = "schema2_wal" THEN {1} ELSE OldRows, NoProc)
                  ELSE Database(0, FALSE, {}, NoProc)],
   side    |-> [n \in {OldDb, NewDb} |-> IF s = "schema2_wal" /\ n = OldDb THEN {2} ELSE NoWal]]

First == CHOOSE i \in Inodes : TRUE

Init ==
  /\ \E s \in Starts : LET st == Start(s, First)
                       IN /\ version = st.version
                          /\ names = st.names
                          /\ db = st.db
                          /\ side = st.side
                          /\ rows = IF s = "empty" THEN {} ELSE OldRows
  /\ lock = NoProc
  /\ up = [p \in Openers |-> Idle]
  /\ m1 = [q \in Legacy |-> [pc |-> "idle", h |-> Free, own |-> {}]]
  /\ budget = [faults |-> 0, crashes |-> 0]

--------------------------------------------------------------------------
\* What is read off the disk.

\* fs_other_holders: the processes besides p with the inode open, by vnode.
Holders(i, p) == {q \in Openers \ {p} : up[q].h = i} \cup {q \in Legacy : m1[q].h = i}

\* Bytes in the file at a name: a database that was created and never
\* written is of length zero.
HasContent(n) == Regular(n) /\ (db[names[n]].uv # 0 \/ db[names[n]].wal)

\* store_has_trees: the store whose rows these are has trees as well.
HasTrees == rows # {}

\* store_layout: the layouts this protocol can produce and resume from; any
\* other is WFS_E_STORE_DAMAGED.  (Mutant: a second link is refused.)
LayoutAnyLinks ==
  /\ names[OldDb] \in {Free, Dir} \cup Inodes
  /\ names[NewDb] \in {Free} \cup Inodes
  /\ ~(Regular(OldDb) /\ Regular(NewDb))
  /\ names[OldDb] = Dir => Regular(NewDb)

LayoutSound ==
  /\ names[OldDb] \in {Free, Dir} \cup Inodes
  /\ names[NewDb] \in {Free} \cup Inodes
  /\ Regular(OldDb) /\ Regular(NewDb) => names[OldDb] = names[NewDb]
  /\ names[OldDb] = Dir => Regular(NewDb)
  /\ HasTrees => HasContent(OldDb) \/ HasContent(NewDb)

StoreLayout ==
  [move    |-> Regular(OldDb),
   stub    |-> names[OldDb] = Free,
   existed |-> Regular(NewDb),
   sweep   |-> Regular(OldDb) \/ (Regular(NewDb) /\ Links(names[NewDb]) > 1),
   content |-> HasContent(OldDb) \/ HasContent(NewDb),
   ino     |-> names[NewDb]]

Owed(lay) == lay.move \/ lay.stub \/ lay.sweep

--------------------------------------------------------------------------
\* How an opener moves on, gives up or dies.

Go(p, pc) == up' = [up EXCEPT ![p].pc = pc]
At(p, pc) == up[p].pc = pc

\* sqlite3_close of the last connection moves the -wal into the main file.
CloseHandle(p, n, extra) ==
  LET i == IF p \in Openers THEN up[p].h ELSE m1[p].h
      moved == (side[n] \ NoWal) \cup extra
  IN IF i \in Inodes /\ Holders(i, p) \ {p} = {}
     THEN /\ db' = [db EXCEPT ![i].base = @ \cup moved]
          /\ side' = [side EXCEPT ![n] = NoWal]
     ELSE UNCHANGED <<db, side>>

Unlock(p) == lock' = IF lock = p THEN NoProc ELSE lock

\* wfs_store_close and the destructor of UpgradeLock on every failing return.
Fail(p, res) ==
  /\ up' = [up EXCEPT ![p] = [Idle EXCEPT !.res = res]]
  /\ Unlock(p)
  /\ CloseHandle(p, NewDb, {})
  /\ UNCHANGED <<version, names, m1, budget>>

Fault == /\ budget.faults < MaxFaults
         /\ budget' = [budget EXCEPT !.faults = @ + 1]

Crash(p) ==
  /\ up[p].pc # "idle"
  /\ budget.crashes < MaxCrashes
  /\ budget' = [budget EXCEPT !.crashes = @ + 1]
  /\ up' = [up EXCEPT ![p] = Idle]
  /\ Unlock(p)
  /\ UNCHANGED <<disk, m1>>

\* open_failure_verdict: what is said of a database that could not be opened
\* or read because of the volume, a quota or a lock.  Only a database that
\* had content and whose file is not one any more is called damaged.
OpenFailureVerdict(n, hadContent) ==
  IF ~HasContent(n) /\ hadContent THEN "damaged" ELSE "io"

--------------------------------------------------------------------------
\* The first looks, the lock and the second look.

\* check_version, which creates the file of a new store.
CheckVersion(p) ==
  /\ At(p, "idle")
  /\ \/ /\ version \in {"2", "3"}
        /\ up' = [up EXCEPT ![p] = [Idle EXCEPT !.pc = "layout", !.legacy = version = "2"]]
        /\ UNCHANGED version
     \/ /\ version = "none"
        /\ version' = "short"
        /\ up' = [up EXCEPT ![p] = [Idle EXCEPT !.pc = "stamp"]]
     \/ /\ version = "short"
        /\ up' = [up EXCEPT ![p] = [Idle EXCEPT !.res = "io"]]
        /\ UNCHANGED version
  /\ UNCHANGED <<names, db, side, lock, m1, budget>>

WriteVersion(p) ==
  /\ At(p, "stamp")
  /\ version' = "3"
  /\ Go(p, "layout")
  /\ UNCHANGED <<names, db, side, lock, m1, budget>>

\* The unlocked look; a store that owes nothing never opens the lock file.
Layout(p) ==
  /\ At(p, "layout")
  /\ \/ ~LayoutSound /\ Fail(p, "damaged")
     \/ /\ LayoutSound
        /\ up' = [up EXCEPT ![p].lay = StoreLayout,
                            ![p].pc = IF Owed(StoreLayout) \/ up[p].legacy
                                      THEN "lock" ELSE "open"]
        /\ UNCHANGED <<disk, lock, m1, budget>>

\* UpgradeLock::take blocks.
TakeLock(p) ==
  /\ up[p].pc \in {"lock", "late_lock"}
  /\ lock = NoProc
  /\ lock' = p
  /\ Go(p, IF At(p, "lock") THEN "relook" ELSE "late_look")
  /\ UNCHANGED <<disk, m1, budget>>

Relook(p) ==
  /\ At(p, "relook")
  /\ \/ version \notin {"2", "3"} /\ Fail(p, "io")
     \/ version \in {"2", "3"} /\ ~LayoutSound /\ Fail(p, "damaged")
     \/ /\ version \in {"2", "3"} /\ LayoutSound
        /\ up' = [up EXCEPT ![p].lay = StoreLayout, ![p].legacy = version = "2",
                            ![p].pc = "sweep"]
        /\ UNCHANGED <<disk, lock, m1, budget>>

\* db_stub_sweep: stubs never exchanged and second links never dropped.
Sweep(p) ==
  /\ At(p, "sweep")
  /\ LET lay == up[p].lay
         ours(n) == n \in Stubs /\ (names[n] = Dir \/ (lay.existed /\ names[n] = lay.ino))
     IN /\ names' = IF lay.sweep THEN [n \in FileNames |-> IF ours(n) THEN Free ELSE names[n]]
                    ELSE names
        /\ Go(p, CASE lay.move -> "old_stamp" [] up[p].legacy -> "bump" [] OTHER -> "open")
  /\ UNCHANGED <<version, db, side, lock, m1, budget>>

--------------------------------------------------------------------------
\* The move: the stamp where the database lies, the bump, the four steps.

\* db_user_version_at on the old name.
OldStamp(p) ==
  /\ At(p, "old_stamp")
  /\ Go(p, IF ~Regular(OldDb) THEN "moved" ELSE IF up[p].legacy THEN "bump" ELSE "checkpoint")
  /\ UNCHANGED <<disk, lock, m1, budget>>

\* version_upgrade: a private temporary and one rename; a failed one leaves 2.
Bump(p) ==
  /\ At(p, "bump")
  /\ \/ /\ version' = "3"
        /\ Go(p, IF up[p].lay.move THEN "checkpoint" ELSE "open")
        /\ UNCHANGED <<names, db, side, lock, m1, budget>>
     \/ /\ Fault
        /\ up' = [up EXCEPT ![p] = [Idle EXCEPT !.res = "io"]]
        /\ Unlock(p)
        /\ UNCHANGED <<disk, m1>>

CheckpointForgets(p) ==
  /\ At(p, "checkpoint")
  /\ IF side[NewDb] # NoWal \/ ~Regular(OldDb) THEN Go(p, "moved") ELSE Go(p, "unlink_side")
  /\ UNCHANGED <<disk, lock, m1, budget>>

\* The head of db_move_to_schema3: no sidecar under the new name, and the
\* -wal of the old one checkpointed.  A connection elsewhere keeps WAL mode.
Checkpoint(p) ==
  /\ At(p, "checkpoint")
  /\ LET i == names[OldDb]
     IN IF side[NewDb] # NoWal \/ ~Regular(OldDb) \/ (db[i].wal /\ Holders(i, p) # {})
        THEN Go(p, "moved") /\ UNCHANGED <<db, side>>
        ELSE /\ db' = [db EXCEPT ![i].base = @ \cup (side[OldDb] \ NoWal), ![i].wal = FALSE]
             /\ side' = [side EXCEPT ![OldDb] = NoWal]
             /\ Go(p, "unlink_side")
  /\ UNCHANGED <<version, names, lock, m1, budget>>

\* The three sidecar names are unlinked; an M1 connection that opened its
\* -wal in the meantime keeps the unlinked file.
UnlinkSide(p) ==
  /\ At(p, "unlink_side")
  /\ m1' = [q \in Legacy |-> IF m1[q].h \in Inodes
                             THEN [m1[q] EXCEPT !.own = @ \cup (side[OldDb] \ NoWal)]
                             ELSE m1[q]]
  /\ side' = [side EXCEPT ![OldDb] = NoWal]
  /\ Go(p, "mkstub")
  /\ UNCHANGED <<version, names, db, lock, budget>>

\* Step 1: the stub under a private name.
MakeStub(p) ==
  /\ At(p, "mkstub")
  /\ \/ \E t \in Stubs : /\ names[t] = Free
                         /\ names' = [names EXCEPT ![t] = Dir]
                         /\ up' = [up EXCEPT ![p].tmp = t, ![p].pc = "link"]
                         /\ UNCHANGED budget
     \/ Fault /\ Go(p, "moved") /\ UNCHANGED names
  /\ UNCHANGED <<version, db, side, lock, m1>>

LinkExclusive(p) ==
  /\ At(p, "link")
  /\ names' = IF names[NewDb] = Free THEN [names EXCEPT ![NewDb] = names[OldDb]]
              ELSE [names EXCEPT ![up[p].tmp] = Free]
  /\ Go(p, IF names[NewDb] = Free THEN "swap" ELSE "moved")
  /\ UNCHANGED <<version, db, side, lock, m1, budget>>

\* Step 2: the second name; a link that is already there is this step done.
LinkNew(p) ==
  /\ At(p, "link")
  /\ \/ /\ Regular(OldDb) /\ names[NewDb] \in {Free, names[OldDb]}
        /\ names' = [names EXCEPT ![NewDb] = names[OldDb]]
        /\ Go(p, "swap")
        /\ UNCHANGED budget
     \/ /\ \/ ~(Regular(OldDb) /\ names[NewDb] \in {Free, names[OldDb]}) /\ UNCHANGED budget
           \/ Fault
        /\ names' = [names EXCEPT ![up[p].tmp] = Free]
        /\ Go(p, "moved")
  /\ UNCHANGED <<version, db, side, lock, m1>>

\* Step 3: fs_rename_swap exchanges the stub and the database.
Swap(p) ==
  /\ At(p, "swap")
  /\ LET t == up[p].tmp
     IN \/ /\ names[t] # Free /\ names[OldDb] # Free
           /\ names' = [names EXCEPT ![t] = names[OldDb], ![OldDb] = names[t]]
           /\ Go(p, "drop")
           /\ UNCHANGED budget
        \/ /\ \/ (names[t] = Free \/ names[OldDb] = Free) /\ UNCHANGED budget
              \/ Fault
           /\ names' = [names EXCEPT ![t] = IF @ = Dir THEN Free ELSE @]
           /\ Go(p, "moved")
  /\ UNCHANGED <<version, db, side, lock, m1>>

\* unlink_extra_link: only a second link of the database that stays is removed.
ExtraLink(go, keep) == Regular(go) /\ names[keep] = names[go] /\ Links(names[go]) >= 2

\* Step 4.
DropLink(p) ==
  /\ At(p, "drop")
  /\ LET t == up[p].tmp
     IN IF names[t] \in {Free, Dir} \/ ExtraLink(t, NewDb)
        THEN names' = [names EXCEPT ![t] = Free] /\ Go(p, "gate")
        ELSE Go(p, "moved") /\ UNCHANGED names
  /\ UNCHANGED <<version, db, side, lock, m1, budget>>

\* The move failed: somebody else's may have landed, and only a layout that
\* still owes it ends this open.
Moved(p) ==
  /\ At(p, "moved")
  /\ \/ ~LayoutSound /\ Fail(p, "damaged")
     \/ LayoutSound /\ StoreLayout.move /\ Fail(p, "busy")
     \/ /\ LayoutSound /\ ~StoreLayout.move
        /\ up' = [up EXCEPT ![p].lay = StoreLayout, ![p].pc = "open"]
        /\ UNCHANGED <<disk, lock, m1, budget>>

--------------------------------------------------------------------------
\* The holder gate, and the move backwards through the same steps.

GateSkipped(p) ==
  /\ At(p, "gate")
  /\ up' = [up EXCEPT ![p].gated = TRUE, ![p].lay.stub = FALSE, ![p].lay.existed = TRUE,
                      ![p].pc = IF up[p].h = Free THEN "open" ELSE "pragmas"]
  /\ UNCHANGED <<disk, lock, m1, budget>>

\* legacy_holders_gate: nobody else has the database open, or back it goes.
\* With a -wal under the new name it stays where it is.
Gate(p) ==
  /\ At(p, "gate")
  /\ LET others == Holders(names[NewDb], p)
     IN \/ /\ others = {}
           /\ up' = IF up[p].h = Free
                    THEN [up EXCEPT ![p].gated = TRUE, ![p].lay.stub = FALSE,
                                    ![p].lay.existed = TRUE, ![p].pc = "open"]
                    ELSE [up EXCEPT ![p].pc = "pragmas"]
           /\ UNCHANGED <<disk, lock, m1, budget>>
        \/ others # {} /\ side[NewDb] # NoWal /\ Fail(p, "busy")
        \/ /\ others # {} /\ side[NewDb] = NoWal
           /\ Go(p, "rv_link")
           /\ UNCHANGED <<disk, lock, m1, budget>>

RevertLink(p) ==
  /\ At(p, "rv_link")
  /\ \/ /\ Regular(NewDb)
        /\ \E t \in Stubs : /\ names[t] = Free
                           /\ names' = [names EXCEPT ![t] = names[NewDb]]
                           /\ up' = [up EXCEPT ![p].tmp = t, ![p].pc = "rv_swap"]
        /\ UNCHANGED <<version, db, side, lock, m1, budget>>
     \/ ~Regular(NewDb) /\ Fail(p, "busy")

RevertSwap(p) ==
  /\ At(p, "rv_swap")
  /\ LET t == up[p].tmp
     IN \/ /\ names[OldDb] # Free
           /\ names' = [names EXCEPT ![t] = names[OldDb], ![OldDb] = names[t]]
           /\ Go(p, "rv_unlink")
           /\ UNCHANGED budget
        \/ /\ \/ names[OldDb] = Free /\ UNCHANGED budget
              \/ Fault
           /\ names' = IF ExtraLink(t, NewDb) THEN [names EXCEPT ![t] = Free] ELSE names
           /\ Go(p, "rv_end")
  /\ UNCHANGED <<version, db, side, lock, m1>>

RevertUnlink(p) ==
  /\ At(p, "rv_unlink")
  /\ IF names[NewDb] = Free \/ ExtraLink(NewDb, OldDb)
     THEN names' = [names EXCEPT ![NewDb] = Free] /\ Go(p, "rv_rmdir")
     ELSE Go(p, "rv_end") /\ UNCHANGED names
  /\ UNCHANGED <<version, db, side, lock, m1, budget>>

RevertRmdir(p) ==
  /\ At(p, "rv_rmdir")
  /\ names' = [names EXCEPT ![up[p].tmp] = IF @ = Dir THEN Free ELSE @]
  /\ Go(p, "rv_version")
  /\ UNCHANGED <<version, db, side, lock, m1, budget>>

\* Best effort: a failed write leaves 3, and the next open goes forward.
RevertVersion(p) ==
  /\ At(p, "rv_version")
  /\ \/ version' = "2" /\ UNCHANGED budget
     \/ Fault /\ UNCHANGED version
  /\ Go(p, "rv_end")
  /\ UNCHANGED <<names, db, side, lock, m1>>

RevertEnd(p) == At(p, "rv_end") /\ Fail(p, "busy")

--------------------------------------------------------------------------
\* The open proper.

\* sqlite3_open_v2 with CREATE and the first read, which gives the stamp.
OpenDb(p) ==
  /\ At(p, "open")
  /\ \/ \E i \in Inodes :
          /\ IF names[NewDb] = Free
             THEN i \notin Used /\ Holders(i, p) = {} ELSE i = names[NewDb]
          /\ names' = [names EXCEPT ![NewDb] = i]
          /\ db' = IF names[NewDb] = Free
                   THEN [db EXCEPT ![i] = Database(0, FALSE, {}, NoProc)] ELSE db
          /\ side' = [side EXCEPT ![NewDb] = IF @ = NoWal /\ db'[i].wal THEN {} ELSE @]
          /\ up' = [up EXCEPT ![p].h = i, ![p].uv = db'[i].uv, ![p].pc = "stub"]
          /\ UNCHANGED <<version, lock, m1, budget>>
     \/ /\ Fault
        /\ up' = [up EXCEPT ![p] =
                    [Idle EXCEPT !.res = OpenFailureVerdict(NewDb, up[p].lay.content)]]
        /\ Unlock(p)
        /\ UNCHANGED <<disk, m1>>

\* db_stub_make where nothing is at the M1 name, then the choice of the late
\* gate: a database that was there and is not migrated.
MakeOldStub(p) ==
  /\ At(p, "stub")
  /\ LET lay == up[p].lay
         late == ~up[p].gated /\ lay.existed /\ up[p].uv <= 2
         then == CASE ~late -> "pragmas" [] late /\ lock = p -> "gate" [] OTHER -> "late_lock"
     IN \/ lay.stub /\ Regular(OldDb) /\ Fail(p, "damaged")
        \/ /\ ~(lay.stub /\ Regular(OldDb))
           /\ names' = IF lay.stub THEN [names EXCEPT ![OldDb] = Dir] ELSE names
           /\ Go(p, then)
           /\ UNCHANGED <<version, db, side, lock, m1, budget>>

\* Under the late lock: the inode is still the one we opened and the stamp is
\* read again.
LateLook(p) ==
  /\ At(p, "late_look")
  /\ \/ names[NewDb] # up[p].lay.ino /\ Fail(p, "busy")
     \/ /\ names[NewDb] = up[p].lay.ino
        /\ up' = [up EXCEPT ![p].uv = db[up[p].h].uv,
                            ![p].pc = IF db[up[p].h].uv <= 2 THEN "gate" ELSE "pragmas"]
        /\ UNCHANGED <<disk, lock, m1, budget>>

Pragmas(p) ==
  /\ At(p, "pragmas")
  /\ db' = [db EXCEPT ![up[p].h].wal = TRUE]
  /\ side' = [side EXCEPT ![NewDb] = IF @ = NoWal THEN {} ELSE @]
  /\ Go(p, IF up[p].uv = 3 THEN "id" ELSE "migrate")
  /\ UNCHANGED <<version, names, lock, m1, budget>>

\* migrate_schema is one transaction with the stamp last; afterwards VERSION
\* must say 3.
Migrate(p) ==
  /\ At(p, "migrate")
  /\ \/ /\ db' = [db EXCEPT ![up[p].h].uv = 3]
        /\ Go(p, "reread")
        /\ UNCHANGED <<version, names, side, lock, m1, budget>>
     \/ /\ Fault
        /\ up' = [up EXCEPT ![p] = [Idle EXCEPT !.res = "io"]]
        /\ Unlock(p)
        /\ CloseHandle(p, NewDb, {})
        /\ UNCHANGED <<version, names, m1>>

Reread(p) ==
  /\ At(p, "reread")
  /\ \/ version # "3" /\ Fail(p, "schema")
     \/ /\ version = "3" /\ Go(p, "id")
        /\ UNCHANGED <<disk, lock, m1, budget>>

\* meta_get and meta_set of the store id are two statements.
ReadId(p) ==
  /\ At(p, "id")
  /\ LET id == db[up[p].h].id
     IN /\ up' = [up EXCEPT ![p].id = id, ![p].pc = IF id = NoProc THEN "set_id" ELSE "ready"]
        /\ IF id = NoProc THEN UNCHANGED lock ELSE Unlock(p)
  /\ UNCHANGED <<disk, m1, budget>>

SetId(p) ==
  /\ At(p, "set_id")
  /\ db' = [db EXCEPT ![up[p].h].id = p]
  /\ up' = [up EXCEPT ![p].id = p, ![p].pc = "ready"]
  /\ Unlock(p)
  /\ UNCHANGED <<version, names, side, m1, budget>>

Close(p) == At(p, "ready") /\ Fail(p, "done")

--------------------------------------------------------------------------
\* An M1 process, as the comments of store.cpp describe it: it reads VERSION,
\* opens (or creates) metadata.db in WAL mode and stamps it 2.

LegacyCheck(q) ==
  /\ m1[q].pc = "idle" /\ version = "2"
  /\ m1' = [m1 EXCEPT ![q].pc = "admitted"]
  /\ UNCHANGED <<disk, lock, up, budget>>

LegacyOpen(q) ==
  /\ m1[q].pc = "admitted"
  /\ \/ /\ names[OldDb] = Dir
        /\ m1' = [m1 EXCEPT ![q].pc = "idle"]
        /\ UNCHANGED disk
     \/ /\ names[OldDb] # Dir
        /\ \E i \in Inodes :
             /\ IF Regular(OldDb) THEN i = names[OldDb] ELSE i \notin Used /\ Holders(i, q) = {}
             /\ names' = [names EXCEPT ![OldDb] = i]
             /\ db' = [db EXCEPT ![i] = IF Regular(OldDb) THEN [@ EXCEPT !.uv = 2, !.wal = TRUE]
                                        ELSE Database(2, TRUE, {}, NoProc)]
             /\ m1' = [m1 EXCEPT ![q] = [pc |-> "in", h |-> i, own |-> {}]]
        /\ side' = [side EXCEPT ![OldDb] = IF @ = NoWal THEN {} ELSE @]
        /\ UNCHANGED version
  /\ UNCHANGED <<lock, up, budget>>

\* A commit goes to the -wal, or to the unlinked file the process still holds.
LegacyCommit(q) ==
  /\ m1[q].pc = "in" /\ LegacyWrites
  /\ \E r \in Rows :
       /\ rows' = rows \cup {r}
       /\ IF side[OldDb] # NoWal
          THEN side' = [side EXCEPT ![OldDb] = @ \cup {r}] /\ UNCHANGED m1
          ELSE m1' = [m1 EXCEPT ![q].own = @ \cup {r}] /\ UNCHANGED side
  /\ UNCHANGED <<version, names, db, lock, up, budget>>

LegacyClose(q) ==
  /\ m1[q].pc = "in"
  /\ CloseHandle(q, OldDb, m1[q].own)
  /\ m1' = [m1 EXCEPT ![q] = [pc |-> "idle", h |-> Free, own |-> {}]]
  /\ UNCHANGED <<version, names, lock, up, budget>>

Step(p) ==
  \/ WriteVersion(p) \/ Layout(p) \/ TakeLock(p) \/ Relook(p) \/ Sweep(p)
  \/ OldStamp(p) \/ Bump(p) \/ Checkpoint(p) \/ UnlinkSide(p) \/ MakeStub(p)
  \/ LinkNew(p) \/ Swap(p) \/ DropLink(p) \/ Moved(p) \/ Gate(p) \/ RevertLink(p)
  \/ RevertSwap(p) \/ RevertUnlink(p) \/ RevertRmdir(p) \/ RevertVersion(p) \/ RevertEnd(p)
  \/ OpenDb(p) \/ MakeOldStub(p) \/ LateLook(p) \/ Pragmas(p) \/ Migrate(p) \/ Reread(p)
  \/ ReadId(p) \/ SetId(p)

Next ==
  \/ /\ \/ \E p \in Openers : CheckVersion(p) \/ Step(p) \/ Close(p) \/ Crash(p)
        \/ \E q \in Legacy : LegacyCheck(q) \/ LegacyOpen(q) \/ LegacyClose(q)
     /\ UNCHANGED rows
  \/ \E q \in Legacy : LegacyCommit(q)

Spec == Init /\ [][Next]_vars

--------------------------------------------------------------------------
\* Correctness.

\* An M1 process never works in a migrated database nor beside an opener that
\* was given the store, and the database it holds is the store's own, never a
\* fresh one made because metadata.db was missing for a moment
\* (db_move_to_schema3, legacy_holders_gate and the order of wfs_store_open).
LegacyExcluded ==
  \A q \in Legacy : m1[q].pc = "in" =>
    /\ db[m1[q].h].uv = 2
    /\ rows # {} => m1[q].h = First
    /\ \A p \in Openers : up[p].pc # "ready"

\* The rows of the store survive every order of moves, reverts and crashes: in
\* the database the next opener will find, with the -wal of the name it will
\* find it under (unlink_extra_link, the checkpoint, the sidecar rules).
RowsKept ==
  LET at == IF Regular(OldDb) THEN OldDb ELSE NewDb
      live == {q \in Legacy : m1[q].pc = "in"}
      pending == IF live = {} THEN {} ELSE side[OldDb] \cup UNION {m1[q].own : q \in live}
  IN rows # {} => /\ names[at] = First
                  /\ rows \subseteq db[First].base \cup side[at] \cup pending

\* No crash, fault, race or refusal of this protocol makes a later open call
\* the store damaged (store_layout, open_failure_verdict).
NeverDamaged == \A p \in Openers : up[p].res # "damaged"

LegacyGone == \A q \in Legacy : m1[q].pc # "in"
Served == \E p \in Openers : up[p].pc = "ready"

\* The upgrade loses nothing to the old version: M1 works in no database that
\* was moved or made by an opener, and the rows stay where an opener finds them.
StoreKept == LegacyExcluded /\ RowsKept
=============================================================================
