-------------------------------- MODULE Diff --------------------------------
(***************************************************************************)
(* `world fs diff` of the native-directory product (core/src/diff.cpp) and *)
(* the replay of the file-system event journal that gives it candidates    *)
(* (core/src/platform_darwin_events.cpp): what changed in a World since it *)
(* was forked from its snapshot.                                           *)
(*                                                                         *)
(* A tree gives every path (a sequence of one or two names) a node.  The   *)
(* World is an ordinary directory that any process may edit while the diff *)
(* runs; the snapshot never changes.  An edit leaves an event, which       *)
(* reaches the journal some time later and in any order.                   *)
(***************************************************************************)
EXTENDS Naturals, Sequences, FiniteSets

CONSTANTS
    Names,        \* names of entries
    Datas,        \* contents a file may be given
    Size(_),      \* their lengths
    Ignored,      \* attribute names that are not workspace state (provenance)
    Attrs,        \* attribute states an edit may give a file
    Modes,        \* permission bits an edit may set; "none" denies reading
    Targets,      \* what a new symbolic link may name
    Baselines,    \* snapshots to start from
    NamesCap,     \* kXattrNames: names the bounded list holds
    FlagSets,     \* the flags a diff may be asked with
    Edits,        \* the kinds of edit of this instance
    MaxEdits      \* bound on the edits

VARIABLES
    world,    \* the World's tree
    snap,     \* its baseline snapshot
    pending,  \* events not in the journal yet
    journal,  \* events in the journal
    stream,   \* "ok", or why the journal cannot account for every change
    origin,   \* what the World was forked from: "snapshot" or "world"
    diff,     \* the diff in progress, or the last one
    edits     \* edits made so far

vars == <<world, snap, pending, journal, stream, origin, diff, edits>>

TreePaths == {<<n>> : n \in Names} \cup {<<n, m>> : n \in Names, m \in Names}
Absent == [kind |-> "absent"]
Plain == [list |-> "none", vals |-> <<>>]
File(d) == [kind |-> "file", data |-> d, time |-> "new", mode |-> "rw", xa |-> Plain]
Children(p) == {q \in TreePaths : Len(q) = Len(p) + 1 /\ SubSeq(q, 1, Len(p)) = p}
Present(t) == {p \in TreePaths : t[p].kind # "absent"}

(***************************************************************************)
(* Path lookup as lstat(2) does it: every component but the last is        *)
(* followed when it is a symbolic link.                                    *)
(***************************************************************************)
RECURSIVE Follow(_, _, _)
Follow(t, n, left) ==
    LET node == IF n \in Names THEN t[<<n>>] ELSE Absent IN
    IF node.kind = "link"
    THEN IF left = 0 THEN [rc |-> "ELOOP"] ELSE Follow(t, node.to, left - 1)
    ELSE IF node.kind # "dir" THEN [rc |-> "gone"]
    ELSE IF node.mode = "none" THEN [rc |-> "EACCES"]
    ELSE [rc |-> "ok", dir |-> n]

Lstat(t, p) ==
    IF Len(p) = 1 THEN t[p]
    ELSE LET d == Follow(t, p[1], Cardinality(Names)) IN
         IF d.rc = "ok" THEN t[<<d.dir, p[2]>>]
         ELSE IF d.rc = "gone" THEN Absent ELSE [kind |-> d.rc]

SideFails(n) == n.kind \in {"EACCES", "ELOOP"}

(***************************************************************************)
(* The attribute comparison.  The names of one side, the ignored ones      *)
(* dropped; a list that fails is not an empty list, and one too long for   *)
(* the bounded buffer is compared by the careful path.                     *)
(***************************************************************************)
Retained(xa, flags) ==
    IF "allxattrs" \in flags THEN DOMAIN xa.vals ELSE DOMAIN xa.vals \ Ignored

XattrNames(xa, flags) ==
    CASE xa.list = "none" -> [rc |-> "ok", names |-> {}]
      [] xa.list = "fails" -> [rc |-> "failed", names |-> {}]
      [] OTHER -> LET r == Retained(xa, flags) IN
                  [rc |-> IF Cardinality(r) > NamesCap THEN "many" ELSE "ok", names |-> r]

XattrValues(a, b, names) ==
    IF names # {} /\ "opaque" \in {a.list, b.list}
    THEN IF a.list = "opaque" THEN "errorA" ELSE "errorB"
    ELSE IF \E n \in names : a.vals[n] # b.vals[n] THEN "differ" ELSE "equal"

XattrEqualRaw(a, b, flags) ==
    IF "fails" \in {a.list, b.list}
    THEN IF a.list = "fails" THEN "errorA" ELSE "errorB"
    ELSE LET na == Retained(a, flags)
             nb == Retained(b, flags)
         IN IF na # nb THEN "differ" ELSE XattrValues(a, b, na)

\* a plausible slip: a list that fails is taken for an empty one
XattrEqualSilent(a, b, flags) ==
    LET na == XattrNames(a, flags)
        nb == XattrNames(b, flags)
    IN IF "many" \in {na.rc, nb.rc} THEN XattrEqualRaw(a, b, flags)
       ELSE IF na.names # nb.names THEN "differ"
       ELSE XattrValues(a, b, na.names)

XattrEqual(a, b, flags) ==
    LET na == XattrNames(a, flags)
        nb == XattrNames(b, flags)
    IN IF a.list = "none" /\ b.list = "none" THEN "equal"
       ELSE IF na.rc = "failed" THEN "errorA"
       ELSE IF nb.rc = "failed" THEN "errorB"
       ELSE IF "many" \in {na.rc, nb.rc} THEN XattrEqualRaw(a, b, flags)
       ELSE IF na.names # nb.names THEN "differ"
       ELSE XattrValues(a, b, na.names)

ContentEqual(w, s) == w.mode # "none" /\ w.data = s.data

(* Both sides exist: nothing, "M" or "T"; "fatal" when the snapshot's own  *)
(* attributes may not be read.                                             *)
Classify(w, s, flags) ==
    IF w.kind # s.kind THEN "M"
    ELSE CASE w.kind = "dir" -> "same"
           [] w.kind = "link" -> IF w.to # s.to THEN "M" ELSE "same"
           [] OTHER ->
              IF Size(w.data) # Size(s.data) THEN "M"
              ELSE IF w.time # s.time /\ ("nocontent" \in flags \/ ~ContentEqual(w, s)) THEN "M"
              ELSE IF w.mode # s.mode \/ w.time # s.time THEN "T"
              ELSE IF "noxattr" \in flags THEN "same"
              ELSE LET x == XattrEqual(w.xa, s.xa, flags) IN
                   IF x = "equal" THEN "same" ELSE IF x = "errorB" THEN "fatal" ELSE "T"

(***************************************************************************)
(* The two passes of a full scan, and the check of one candidate.  Each    *)
(* yields the lines it adds to the sink and whether a lookup failed.       *)
(***************************************************************************)
EmptyDir(t, p) == \A q \in Children(p) : t[q].kind = "absent"
Unreadable(t, p) == t[p].kind = "dir" /\ t[p].mode = "none"
Line(p, c) == [path |-> p, change |-> c]
Verdict(p, c) == IF c \in {"M", "T"} THEN {Line(p, c)} ELSE {}

\* a path on one side only: a directory speaks through its files, unless it is empty
OneSide(t, p, c) == IF t[p].kind # "dir" \/ EmptyDir(t, p) THEN {Line(p, c)} ELSE {}

WorldEntry(p, flags) ==
    LET s == Lstat(snap, p) IN
    IF s.kind = "absent" THEN OneSide(world, p, "A")
    ELSE Verdict(p, Classify(world[p], s, flags))

WorldPass(flags) ==
    LET ps == Present(world)
        fails == \/ \E p \in ps : Unreadable(world, p) \/ SideFails(Lstat(snap, p))
                 \/ \E p \in ps : LET s == Lstat(snap, p) IN
                        s.kind # "absent" /\ Classify(world[p], s, flags) = "fatal"
    IN IF fails THEN [rc |-> "error", lines |-> {}]
       ELSE [rc |-> "ok", lines |-> UNION {WorldEntry(p, flags) : p \in ps}]

SnapEntry(p) == IF Lstat(world, p).kind = "absent" THEN OneSide(snap, p, "D") ELSE {}

SnapPass ==
    LET ps == Present(snap) IN
    IF \E p \in ps : SideFails(Lstat(world, p)) THEN [rc |-> "error", lines |-> {}]
    ELSE [rc |-> "ok", lines |-> UNION {SnapEntry(p) : p \in ps}]

\* the files below a directory that is on one side only, with or without itself
Expand(t, p, c, self) ==
    UNION {OneSide(t, q, c) : q \in {q \in Children(p) \cup {p} :
                                       t[q].kind # "absent" /\ (q # p \/ self)}}

ExpandFails(t, p) == \E q \in Children(p) \cup {p} : Unreadable(t, q)

Candidate(p, flags) ==
    LET w == Lstat(world, p)
        s == Lstat(snap, p)
        gone == w.kind = "absent"
        new == s.kind = "absent"
        expandW == w.kind = "dir" /\ s.kind # "dir"
        expandS == s.kind = "dir" /\ w.kind # "dir"
        both == ~gone /\ ~new
    IN IF \/ SideFails(w) \/ SideFails(s)
          \/ expandW /\ ExpandFails(world, p)
          \/ expandS /\ ExpandFails(snap, p)
          \/ both /\ Classify(w, s, flags) = "fatal"
       THEN [rc |-> "error", lines |-> {}]
       ELSE [rc |-> "ok",
             lines |-> (IF expandW THEN Expand(world, p, "A", new)
                        ELSE IF new /\ ~gone THEN {Line(p, "A")} ELSE {})
                       \cup (IF expandS THEN Expand(snap, p, "D", gone)
                             ELSE IF gone /\ ~new THEN {Line(p, "D")} ELSE {})
                       \cup (IF both THEN Verdict(p, Classify(w, s, flags)) ELSE {})]

(***************************************************************************)
(* Edits of the World by any process, and their events.                    *)
(***************************************************************************)
Edit(kind, t, events) ==
    /\ kind \in Edits
    /\ edits < MaxEdits
    /\ t # world
    /\ edits' = edits + 1
    /\ world' = t
    /\ pending' = pending \cup events
    /\ diff' = [diff EXCEPT !.quiet = FALSE]
    /\ UNCHANGED <<snap, journal, stream, origin>>

CanHold(p) == Len(p) = 1 \/ world[<<p[1]>>] = [kind |-> "dir", mode |-> "rw"]

WriteFile(p, d) ==
    /\ CanHold(p) /\ world[p].kind \in {"absent", "file"}
    /\ Edit("write", [world EXCEPT ![p] = File(d)], {p})

SetMode(p, m) ==
    /\ world[p].kind \in {"file", "dir"}
    /\ Edit("mode", [world EXCEPT ![p].mode = m], {p})

SetAttr(p, xa) ==
    /\ world[p].kind = "file"
    /\ Edit("attr", [world EXCEPT ![p].xa = xa], {p})

MakeDir(p) ==
    /\ CanHold(p) /\ Len(p) = 1 /\ world[p].kind = "absent"
    /\ Edit("dir", [world EXCEPT ![p] = [kind |-> "dir", mode |-> "rw"]], {p})

MakeLink(p, n) ==
    /\ Len(p) = 1 /\ world[p].kind = "absent" /\ p # <<n>>
    /\ Edit("link", [world EXCEPT ![p] = [kind |-> "link", to |-> n]], {p})

Remove(p) ==
    /\ CanHold(p) /\ EmptyDir(world, p)
    /\ Edit("remove", [world EXCEPT ![p] = Absent], {p})

\* one event for each name, none for what is below it
Rename(p, q) ==
    /\ Len(p) = 1 /\ Len(q) = 1 /\ world[p].kind # "absent" /\ world[q].kind = "absent"
    /\ Edit("rename",
            [x \in TreePaths |-> IF x[1] = p[1] THEN Absent
                             ELSE IF x[1] = q[1] THEN world[<<p[1]>> \o Tail(x)] ELSE world[x]],
            {p, q})

\* the journal takes events in any order, and may lose some: then it says so
Flush(p) ==
    /\ p \in pending
    /\ pending' = pending \ {p}
    /\ journal' = journal \cup {p}
    /\ UNCHANGED <<world, snap, stream, origin, diff, edits>>

Lose(why) ==
    /\ stream = "ok" /\ "lose" \in Edits
    /\ stream' = why
    /\ IF why \in {"stale", "wrapped"} THEN journal' = {} /\ UNCHANGED pending
       ELSE pending' = {} /\ UNCHANGED journal
    /\ UNCHANGED <<world, snap, origin, diff, edits>>

(* The World becomes a fork of what it was: same files, same baseline, a   *)
(* cursor that starts now.                                                 *)
ForkWorld ==
    /\ "fork" \in Edits /\ origin = "snapshot" /\ diff.pc \in {"idle", "done"}
    /\ origin' = "world"
    /\ pending' = {} /\ journal' = {}
    /\ UNCHANGED <<world, snap, stream, diff, edits>>

(***************************************************************************)
(* The diff.                                                               *)
(***************************************************************************)
Idle == [pc |-> "idle", flags |-> {}, way |-> "full", bag |-> {}, sink |-> {}, rc |-> "ok",
         quiet |-> FALSE, heard |-> FALSE]

Init ==
    /\ snap \in Baselines
    /\ world = snap
    /\ pending = {} /\ journal = {} /\ stream = "ok" /\ origin = "snapshot"
    /\ diff = Idle
    /\ edits = 0

DiffStep(d) == /\ diff' = d
               /\ UNCHANGED <<world, snap, pending, journal, stream, origin, edits>>

FullAtOnce(flags) == "events" \notin flags \/ origin # "snapshot"

DiffStart(flags) ==
    /\ diff.pc \in {"idle", "done"}
    /\ LET full == FullAtOnce(flags) \/ stream \in {"stale", "wrapped"} IN
       DiffStep([Idle EXCEPT !.pc = IF full THEN "world" ELSE "history",
                             !.way = IF full THEN "full" ELSE "events",
                             !.flags = flags, !.quiet = TRUE])

\* a plausible slip: a dropped batch is only skipped
DeliverDropped(d) == [d EXCEPT !.pc = IF d.pc = "history" THEN "tail" ELSE "verify",
                               !.bag = @ \cup journal]

(* on_events: the batch that ends the history, then the one with the       *)
(* sentinel; a batch that says events are missing sends the diff to the    *)
(* full scan.                                                              *)
Deliver(d) ==
    IF stream # "ok" THEN [d EXCEPT !.pc = "world", !.way = "full", !.bag = {}]
    ELSE [d EXCEPT !.pc = IF d.pc = "history" THEN "tail" ELSE "verify", !.bag = @ \cup journal]

ReplayStep ==
    /\ diff.pc \in {"history", "tail"}
    /\ DiffStep([Deliver(diff) EXCEPT !.heard = pending = {}])

ReplayTimeout ==
    /\ diff.pc \in {"history", "tail"}
    /\ DiffStep([diff EXCEPT !.pc = "world", !.way = "full", !.bag = {}])

Compared(res, next) ==
    IF res.rc = "error" THEN DiffStep([diff EXCEPT !.pc = "done", !.rc = "error", !.sink = {}])
    ELSE DiffStep([diff EXCEPT !.pc = next, !.sink = @ \cup res.lines])

ScanWorld == diff.pc = "world" /\ Compared(WorldPass(diff.flags), "snap")
ScanSnap == diff.pc = "snap" /\ Compared(SnapPass, "report")

VerifyCandidate ==
    /\ diff.pc = "verify"
    /\ IF diff.bag = {} THEN DiffStep([diff EXCEPT !.pc = "report"])
       ELSE \E p \in diff.bag :
              LET res == Candidate(p, diff.flags) IN
              IF res.rc = "error"
              THEN DiffStep([diff EXCEPT !.pc = "done", !.rc = "error", !.sink = {}])
              ELSE DiffStep([diff EXCEPT !.bag = @ \ {p}, !.sink = @ \cup res.lines])

\* sorted by path alone, one line kept of the lines of a path
Report ==
    /\ diff.pc = "report"
    /\ \E keep \in SUBSET diff.sink :
         /\ \A l \in diff.sink : Cardinality({k \in keep : k.path = l.path}) = 1
         /\ DiffStep([diff EXCEPT !.pc = "done", !.sink = keep])

Next ==
    \/ \E p \in TreePaths :
         \/ \E d \in Datas : WriteFile(p, d)
         \/ \E m \in Modes : SetMode(p, m)
         \/ \E xa \in Attrs : SetAttr(p, xa)
         \/ MakeDir(p) \/ Remove(p) \/ Flush(p)
         \/ \E n \in Targets : MakeLink(p, n)
         \/ \E q \in TreePaths : Rename(p, q)
    \/ \E why \in {"stale", "wrapped", "dropped", "mustscan"} : Lose(why)
    \/ ForkWorld
    \/ \E flags \in FlagSets : DiffStart(flags)
    \/ ReplayStep \/ ReplayTimeout \/ ScanWorld \/ ScanSnap \/ VerifyCandidate \/ Report

Spec == Init /\ [][Next]_vars

(***************************************************************************)
(* What a diff should say, defined from the two trees alone.               *)
(***************************************************************************)
Visible(xa, flags) == [n \in Retained(xa, flags) |-> xa.vals[n]]
Uncertain(xa, flags) ==
    xa.list = "fails" \/ (xa.list = "opaque" /\ Retained(xa, flags) # {})

SameNode(w, s, flags) ==
    IF w.kind # "file" \/ s.kind # "file" THEN w.kind = s.kind /\ (w.kind = "link" => w.to = s.to)
    ELSE /\ [w EXCEPT !.xa = Plain] = [s EXCEPT !.xa = Plain]
         /\ Visible(w.xa, flags) = Visible(s.xa, flags)
         /\ ~Uncertain(w.xa, flags) /\ ~Uncertain(s.xa, flags)

Told(t, p) == t[p].kind \notin {"absent", "dir"} \/ (t[p].kind = "dir" /\ EmptyDir(t, p))
AddedPaths == {p \in TreePaths : snap[p].kind = "absent" /\ Told(world, p)}
DeletedPaths == {p \in TreePaths : world[p].kind = "absent" /\ Told(snap, p)}
ChangedPaths(flags) ==
    {p \in Present(world) \cap Present(snap) : ~SameNode(world[p], snap[p], flags)}

Exact(d) ==
    /\ {l.path : l \in {l \in d.sink : l.change = "A"}} = AddedPaths
    /\ {l.path : l \in {l \in d.sink : l.change = "D"}} = DeletedPaths
    /\ {l.path : l \in {l \in d.sink : l.change \in {"M", "T"}}} = ChangedPaths(d.flags)
    /\ \A l \in d.sink : l.change = "T" => world[l.path].data = snap[l.path].data

(* A full scan of a World nobody edits meanwhile reports exactly the files *)
(* that differ from the baseline, each once and under the right letter, or *)
(* fails; it never answers with a part (side_entry, side_lookup, classify, *)
(* xattr_equal, the fallbacks of wfs_world_diff_ex).                       *)
ScanExact ==
    diff.pc = "done" /\ diff.rc = "ok" /\ diff.way = "full" /\ diff.quiet => Exact(diff)

(* The event path gives the same answer whenever the journal had taken in  *)
(* every event: whatever was moved, replaced or emptied, the candidates    *)
(* and the expansion of their directories are enough (verify_candidate,    *)
(* fs_events_replay).                                                      *)
EventsExact ==
    diff.pc = "done" /\ diff.rc = "ok" /\ diff.way = "events" /\ diff.quiet /\ diff.heard
        => Exact(diff)
=============================================================================
