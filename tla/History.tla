------------------------------ MODULE History ------------------------------
(***************************************************************************)
(* Work history of the native-directory product (core/src/history.cpp):    *)
(* wfs_history_record compares a live World with its baseline snapshot,    *)
(* stores the bytes that changed as content objects and publishes what     *)
(* changed since the previous revision.  Any process may edit the World    *)
(* meanwhile; recorders exclude each other with the World's marker lock    *)
(* and may fail or die at any step.                                        *)
(*                                                                         *)
(* A file's content is a pair of halves, so that a read can be torn.  A    *)
(* content hash is the content itself; <<>> is the empty hash.             *)
(***************************************************************************)
EXTENDS Naturals, Sequences, FiniteSets, Functions

CONSTANTS
    Recorders,   \* processes that record
    Top,         \* paths in the root directory
    Below(_),    \* the paths inside a path, {} for most
    Order,       \* all paths, sorted
    Values,      \* what half a file may hold; "big" takes it over the budget
    Modes,       \* permission bits; "none" denies reading
    Baselines,   \* snapshots to start from
    MaxEdits,    \* bound on edits of the World
    MaxRefresh,  \* bound on replacements of the marker
    MaxRecords   \* bound on records

VARIABLES
    world,      \* the World's tree
    base,       \* its baseline snapshot
    content,    \* <store>/content
    rows,       \* history_files
    revisions,  \* revisions with their changes
    marker,     \* which file is the World's marker
    rec,        \* each recorder's record in progress
    edits,      \* edits so far
    records,    \* records so far
    had         \* contents each path ever had

vars == <<world, base, content, rows, revisions, marker, rec, edits, records, had>>

Paths == Range(Order)
Absent == [kind |-> "absent", data |-> <<>>, mode |-> "rw", time |-> 0, ino |-> 0]
Over(d) == "big" \in Range(d)
Empty(t, p) == \A q \in Below(p) : t[q].kind = "absent"

(***************************************************************************)
(* The state of a path as the recorder keeps it (State).  Kind "absent" is *)
(* the 0 of the kind column, which is also how an entry that is there but  *)
(* could not be opened is left.                                            *)
(***************************************************************************)
Gone == [kind |-> "absent", hash |-> <<>>, mode |-> "rw", mtime |-> 0, here |-> FALSE, bad |-> FALSE]
Kept(s) == [s EXCEPT !.here = s.kind # "absent", !.bad = FALSE]
Hashless(s) == s.here /\ s.kind = "file" /\ s.hash = <<>>

\* what one look at an entry gives when no content has to be read
Seen(n, hash, bad) == [kind |-> n.kind, hash |-> hash, mode |-> n.mode, mtime |-> n.time,
                       here |-> n.kind # "absent", bad |-> bad]
Unopened(n) == [Seen(n, <<>>, TRUE) EXCEPT !.kind = "absent"]

\* a snapshot never changes: its state in one step
BaseState(p) ==
    LET n == base[p] IN
    CASE n.kind = "file" -> IF Over(n.data) THEN Seen(n, <<>>, TRUE) ELSE Seen(n, n.data, FALSE)
      [] n.kind = "link" -> Seen(n, n.data, FALSE)
      [] n.kind = "dir" -> Seen(n, <<>>, FALSE)
      [] OTHER -> Gone

Differs(cur, prev) ==
    CASE ~cur.here /\ ~prev.here -> "no"
      [] cur.here /\ ~prev.here -> "added"
      [] ~cur.here /\ prev.here -> "deleted"
      [] OTHER ->
         IF cur.hash # prev.hash \/ cur.kind # prev.kind THEN "modified"
         ELSE IF cur.kind = "file" /\ cur.hash = <<>> /\ cur.mtime # prev.mtime THEN "modified"
         ELSE IF cur.mode # prev.mode THEN "meta" ELSE "no"

Change(p, cur, prev) ==
    [path |-> p, change |-> Differs(cur, prev), before |-> prev.hash, after |-> cur.hash,
     cur |-> cur, prev |-> prev]

(***************************************************************************)
(* The diff (Diff.tla): files and links that differ in anything, and empty *)
(* directories that are on one side only.                                  *)
(***************************************************************************)
Reported(p) ==
    LET w == world[p]
        s == base[p]
    IN IF w.kind = "dir" \/ s.kind = "dir"
       THEN w.kind # s.kind /\ Empty(world, p) /\ Empty(base, p)
       ELSE [w EXCEPT !.ino = 0] # [s EXCEPT !.ino = 0]

Idle == [pc |-> "idle", diff |-> {}, left |-> {}, path |-> Order[1], lst |-> Absent, fd |-> Absent,
         attached |-> FALSE, first |-> <<>>, start |-> 0, lk |-> 0, recs |-> {}, bad |-> FALSE,
         quiet |-> FALSE]

Init ==
    /\ base \in Baselines
    /\ world = base
    /\ content = {} /\ revisions = <<>> /\ marker = 0
    /\ rows = [p \in Paths |-> [row |-> FALSE, last |-> Gone, base |-> Gone]]
    /\ rec = [r \in Recorders |-> Idle]
    /\ edits = 0 /\ records = 0
    /\ had = {<<p, base[p].data>> : p \in Paths}

(***************************************************************************)
(* Edits of the World.  A write in place reaches whoever has the file      *)
(* open; a replacement does not.                                           *)
(***************************************************************************)
Edit(w, p, inPlace) ==
    /\ edits < MaxEdits
    /\ w # world
    /\ edits' = edits + 1
    /\ world' = w
    /\ had' = had \cup {<<q, w[q].data>> : q \in Paths}
    /\ rec' = [r \in Recorders |->
                 LET mine == rec[r].attached /\ rec[r].path = p IN
                 [rec[r] EXCEPT !.quiet = FALSE,
                                !.fd = IF mine /\ inPlace THEN w[p] ELSE @,
                                !.attached = @ /\ (inPlace \/ ~mine)]]
    /\ UNCHANGED <<base, content, rows, revisions, marker, records>>

Holds(p) == p \in Top \/ \E d \in Top : p \in Below(d) /\ world[d].kind = "dir"
Stamp == edits + 1

WriteHalf(p, i, v) ==
    /\ world[p].kind = "file"
    /\ Edit([world EXCEPT ![p].data[i] = v, ![p].time = Stamp], p, TRUE)

Chmod(p, m) ==
    /\ world[p].kind = "file"
    /\ Edit([world EXCEPT ![p].mode = m], p, TRUE)

Replace(p, v, kind) ==
    /\ Holds(p) /\ Below(p) = {} /\ world[p].kind # "dir"
    /\ Edit([world EXCEPT ![p] = [kind |-> kind, data |-> IF kind = "link" THEN <<v>> ELSE <<v, v>>,
                                  mode |-> "rw", time |-> Stamp, ino |-> Stamp]], p, FALSE)

MakeDir(p) ==
    /\ Below(p) # {} /\ world[p].kind = "absent"
    /\ Edit([world EXCEPT ![p] = [Absent EXCEPT !.kind = "dir", !.ino = Stamp]], p, FALSE)

Remove(p) ==
    /\ world[p].kind # "absent" /\ Empty(world, p)
    /\ Edit([world EXCEPT ![p] = Absent], p, FALSE)

\* the old file is copied back with its times
Revert(p) ==
    /\ Holds(p) /\ base[p].kind \in {"file", "link"} /\ world[p].kind # "dir"
    /\ Edit([world EXCEPT ![p] = [base[p] EXCEPT !.ino = Stamp]], p, FALSE)

(***************************************************************************)
(* wfs_history_record.                                                     *)
(***************************************************************************)
Keep == UNCHANGED <<world, base, edits, had>>
Step(r, f) == rec' = [rec EXCEPT ![r] = f]

Start(r) ==
    /\ rec[r].pc = "idle" /\ records < MaxRecords
    /\ records' = records + 1
    /\ Step(r, [Idle EXCEPT !.pc = "lock", !.lk = marker])
    /\ UNCHANGED <<content, rows, revisions, marker>> /\ Keep

\* a plausible slip: nobody asks whether the lock is taken
LockedNever(i) == FALSE

\* world_marker_lock_take: flock(2) on the marker that was opened
Locked(i) == \E r \in Recorders : rec[r].lk = i /\ rec[r].pc \notin {"idle", "lock", "done"}

Flock(r) ==
    /\ rec[r].pc = "lock"
    /\ Step(r, IF Locked(rec[r].lk) THEN Idle ELSE [rec[r] EXCEPT !.pc = "diff"])
    /\ UNCHANGED <<content, rows, revisions, marker, records>> /\ Keep

\* wfs_world_marker_refresh, under the same lock: a new file is renamed over the marker
Refresh ==
    /\ marker < MaxRefresh
    /\ ~Locked(marker)
    /\ marker' = marker + 1
    /\ UNCHANGED <<content, rows, revisions, rec, records>> /\ Keep

TakeDiff(r) ==
    /\ rec[r].pc = "diff"
    /\ LET ps == {p \in Paths : Reported(p)} IN
       Step(r, [rec[r] EXCEPT !.pc = "stat", !.diff = ps, !.left = ps, !.quiet = TRUE])
    /\ UNCHANGED <<content, rows, revisions, marker, records>> /\ Keep

\* the next path of the sorted diff
Current(r) == CHOOSE p \in rec[r].left :
                 \A q \in rec[r].left : \E i, j \in DOMAIN Order : Order[i] = p /\ Order[j] = q /\ i <= j

\* ContentWriter: an object appears whole, under its hash
Put(hashes) == content \cup (hashes \ {<<>>})

(* The state of one path is known: compare it with the row, or with the    *)
(* snapshot when there is none.                                            *)
Captured(r, p, cur) ==
    LET prev == IF rows[p].row THEN Kept(rows[p].last) ELSE BaseState(p)
        diff == Differs(cur, prev)
        bad == cur.bad \/ prev.bad \/ Hashless(cur) \/ Hashless(prev)
    IN /\ content' = Put({cur.hash, IF rows[p].row THEN <<>> ELSE prev.hash})
       /\ Step(r, [rec[r] EXCEPT !.pc = "stat", !.left = @ \ {p}, !.path = Idle.path,
                                 !.lst = Absent, !.fd = Absent, !.attached = FALSE,
                                 !.first = <<>>, !.start = 0,
                                 !.bad = @ \/ bad,
                                 !.recs = IF diff = "no" THEN @ ELSE @ \cup {Change(p, cur, prev)}])
       /\ UNCHANGED <<rows, revisions, marker, records>> /\ Keep

Stat(r) ==
    /\ rec[r].pc = "stat" /\ rec[r].left # {}
    /\ LET p == Current(r)
           n == world[p]
       IN CASE n.kind = "absent" -> Captured(r, p, Gone)
            [] n.kind = "link" -> Captured(r, p, Seen(n, n.data, FALSE))
            [] n.kind = "dir" -> Captured(r, p, Seen(n, <<>>, FALSE))
            [] OTHER -> /\ Step(r, [rec[r] EXCEPT !.pc = "open", !.path = p, !.lst = n])
                        /\ UNCHANGED <<content, rows, revisions, marker, records>> /\ Keep

Open(r) ==
    /\ rec[r].pc = "open"
    /\ LET p == rec[r].path
           n == world[p]
           lst == rec[r].lst
       IN IF n.kind \in {"absent", "link"} \/ n.mode = "none" THEN Captured(r, p, Unopened(lst))
          ELSE IF Over(lst.data) \/ n.kind # "file" \/ n.ino # lst.ino
          THEN Captured(r, p, Seen(lst, <<>>, TRUE))
          ELSE /\ Step(r, [rec[r] EXCEPT !.pc = "first", !.fd = n, !.attached = TRUE,
                                         !.start = n.time])
               /\ UNCHANGED <<content, rows, revisions, marker, records>> /\ Keep

ReadFirst(r) ==
    /\ rec[r].pc = "first"
    /\ Step(r, [rec[r] EXCEPT !.pc = "second", !.first = SubSeq(rec[r].fd.data, 1, 1)])
    /\ UNCHANGED <<content, rows, revisions, marker, records>> /\ Keep

\* a plausible slip: the file is not looked at again after the read
TornAllowed(r) == FALSE

\* the read crossed a change: fstat after it differs from the one before (an unlink
\* changes the ctime too)
Torn(r) == ~rec[r].attached \/ rec[r].fd.time # rec[r].start \/ rec[r].fd.mode # rec[r].lst.mode

ReadSecond(r) ==
    /\ rec[r].pc = "second"
    /\ LET hash == rec[r].first \o SubSeq(rec[r].fd.data, 2, 2) IN
       Captured(r, rec[r].path,
                IF Over(hash) THEN Seen(rec[r].lst, <<>>, TRUE) ELSE Seen(rec[r].lst, hash, Torn(r)))

\* a plausible slip: a path the diff does not report is left as it was recorded
ReconciledNone(r) == {}

\* recorded paths that the diff does not report are back at their baseline
Reconciled(r) ==
    {Change(p, Kept(rows[p].base), Kept(rows[p].last)) :
        p \in {q \in Paths \ rec[r].diff : rows[q].row}}

Reconcile(r) ==
    /\ rec[r].pc = "stat" /\ rec[r].left = {}
    /\ LET back == {c \in Reconciled(r) : c.change # "no"}
           all == rec[r].recs \cup back
           bad == rec[r].bad \/ \E p \in Paths \ rec[r].diff :
                                   rows[p].row /\ (Hashless(Kept(rows[p].base)) \/ Hashless(Kept(rows[p].last)))
       IN IF all = {}
          THEN Step(r, [rec[r] EXCEPT !.pc = "done"])
          ELSE Step(r, [rec[r] EXCEPT !.pc = "publish", !.recs = all, !.bad = bad])
    /\ UNCHANGED <<content, rows, revisions, marker, records>> /\ Keep

\* the state the next record compares with: a deletion is recorded absent
After(c) == IF c.change = "deleted" THEN [c.prev EXCEPT !.kind = "absent", !.hash = <<>>, !.mtime = 0]
            ELSE c.cur

\* a row keeps the baseline it was created with
FileRow(p, c) == [row |-> TRUE, last |-> After(c),
                  base |-> IF rows[p].row THEN rows[p].base ELSE c.prev]

Publish(r) ==
    /\ rec[r].pc = "publish"
    /\ revisions' = Append(revisions,
         [parent |-> Len(revisions), cover |-> IF rec[r].bad THEN "incomplete" ELSE "observed",
          changes |-> {[path |-> c.path, change |-> c.change, before |-> c.before, after |-> c.after]
                        : c \in rec[r].recs}])
    /\ rows' = [p \in Paths |->
                  IF \E c \in rec[r].recs : c.path = p
                  THEN FileRow(p, CHOOSE c \in rec[r].recs : c.path = p)
                  ELSE rows[p]]
    /\ Step(r, [rec[r] EXCEPT !.pc = "done"])
    /\ UNCHANGED <<content, marker, records>> /\ Keep

\* an error return, or the end of the process: the lock goes with the descriptor
Fail(r) ==
    /\ rec[r].pc \notin {"idle", "done"}
    /\ Step(r, Idle)
    /\ UNCHANGED <<content, rows, revisions, marker, records>> /\ Keep

Return(r) ==
    /\ rec[r].pc = "done"
    /\ Step(r, Idle)
    /\ UNCHANGED <<content, rows, revisions, marker, records>> /\ Keep

Next ==
    \/ \E p \in Paths :
         \/ \E v \in Values : (\E i \in 1..2 : WriteHalf(p, i, v)) \/ \E k \in {"file", "link"} : Replace(p, v, k)
         \/ \E m \in Modes : Chmod(p, m)
         \/ MakeDir(p) \/ Remove(p) \/ Revert(p)
    \/ Refresh
    \/ \E r \in Recorders :
         \/ Start(r) \/ Flock(r) \/ TakeDiff(r) \/ Stat(r) \/ Open(r) \/ ReadFirst(r) \/ ReadSecond(r)
         \/ Reconcile(r) \/ Publish(r) \/ Fail(r) \/ Return(r)

Spec == Init /\ [][Next]_vars

-----------------------------------------------------------------------------
Changes(n, p) == {c \in revisions[n].changes : c.path = p}
LastBefore(n, p) ==
    LET ms == {m \in 1..(n - 1) : Changes(m, p) # {}} IN
    IF ms = {} THEN BaseState(p).hash
    ELSE (CHOOSE c \in Changes(CHOOSE m \in ms : \A k \in ms : k <= m, p) : TRUE).after

(* Revisions form one chain: each says of a path that it was in the state  *)
(* the revision before left it in, names every path once, and every        *)
(* content it names is in the store, whichever recorders overlapped,       *)
(* failed or died (the marker lock, content first and then the row).       *)
ChainLinked ==
    \A n \in DOMAIN revisions :
        /\ revisions[n].parent = n - 1
        /\ \A c \in revisions[n].changes :
             /\ Changes(n, c.path) = {c}
             /\ c.before = LastBefore(n, c.path)
             /\ {c.before, c.after} \ {<<>>} \subseteq content

Recorded(p) == LET s == IF rows[p].row THEN rows[p].last ELSE BaseState(p) IN
               IF s.kind = "absent" THEN Gone ELSE [s EXCEPT !.here = TRUE, !.bad = FALSE]
Agrees(s, n) == /\ s.kind = n.kind
                /\ n.kind \in {"file", "link"} => s.mode = n.mode
                /\ n.kind \in {"file", "link"} /\ ~Over(n.data) => s.hash = n.data
                /\ n.kind = "file" /\ Over(n.data) => s.hash = <<>> /\ s.mtime = n.time
Complete(r) == rec[r].pc = "done" /\ rec[r].quiet

(* After a record during which nobody edited the World, the history knows  *)
(* the state of every file: what was changed, put back, removed, replaced  *)
(* or grew over the budget (the comparison with history_files and the      *)
(* reconciliation of paths the diff no longer reports).                    *)
Converged ==
    \A r \in Recorders : Complete(r) => \A p \in Paths :
        (world[p].kind # "dir" /\ base[p].kind # "dir") => Agrees(Recorded(p), world[p])

(* A revision called observed names only contents its files really had at  *)
(* one moment; a read that crossed a write is marked incomplete            *)
(* (capture_regular).                                                      *)
HonestCoverage ==
    \A n \in DOMAIN revisions : revisions[n].cover = "observed" =>
        \A c \in revisions[n].changes : c.after = <<>> \/ <<c.path, c.after>> \in had

(* The recorded history ends in what the World holds after a record nobody    *)
(* disturbed, and what it calls observed was there.                           *)
HistoryTrue == Converged /\ HonestCoverage
=============================================================================
