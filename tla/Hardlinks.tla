----------------------------- MODULE Hardlinks -----------------------------
(***************************************************************************)
(* Hard links of the native-directory product (core/src/hardlinks.cpp and  *)
(* its callers in wfs_snapshot_create and the forks of world.cpp).  A      *)
(* clone of a tree gives every name an inode of its own; the groups of     *)
(* names that shared one are found in the source, relinked in the clone by *)
(* several workers, and kept in the snapshot's manifest for its forks.     *)
(* The source is a live directory that anybody may edit at any step.       *)
(***************************************************************************)
EXTENDS Naturals, Sequences, FiniteSets, TLC, Functions, SequencesExt, FiniteSetsExt

CONSTANTS
    Order,      \* the names of the tree, sorted
    Excluded,   \* names that are not files of the tree (the marker)
    DirOf(_),   \* the directory of a name
    Contents,   \* what a file may hold, with its size and time
    Sources,    \* trees to start from: names to inodes, inodes with outside names
    ReadOnly,   \* directories whose mode denies writing
    Rewrites,   \* names that Git may rewrite in the clone (--committed-only)
    Workers,    \* threads of the replay
    Jobs,       \* the kinds of job of this instance
    MaxEdits,   \* bound on edits of the source
    MaxFaults,  \* bound on system calls that fail
    MaxJobs     \* bound on jobs

VARIABLES
    src,      \* the live tree: at, data, links from outside, next inode
    job,      \* the snapshot or fork being made
    worker,   \* the threads of its replay
    mutex,    \* the Relender's holder, or "free"
    snap,     \* the published snapshot
    out,      \* the last published fork
    edits, faults, jobs

vars == <<src, job, worker, mutex, snap, out, edits, faults, jobs>>

Names == Range(Order)
Dirs == {DirOf(n) : n \in Names}
Inner == Names \ Excluded
Here(t) == {n \in Names : t.at[n] # <<>>}
Nlink(s, i) == Cardinality({n \in Names : s.at[n] = i}) + Cardinality({x \in s.outside : x = i})
Before(n, m) == \E i, j \in DOMAIN Order : Order[i] = n /\ Order[j] = m /\ i < j
First(S) == CHOOSE n \in S : \A m \in S \ {n} : Before(n, m)

NoTree == [at |-> [n \in Names |-> <<>>], data |-> <<>>, temps |-> {},
           mode |-> [d \in Dirs |-> IF d \in ReadOnly THEN "ro" ELSE "w"]]
\* HardlinkSet: the groups, and the number of names in them
HardlinkSet(groups) == [groups |-> groups, names |-> MapThenSumSet(Cardinality, groups)]

NoJob == [kind |-> "none", pc |-> "idle", seen |-> <<>>, hl |-> HardlinkSet({}), todo |-> {}, broken |-> {},
          err |-> FALSE, copied |-> <<>>, tree |-> NoTree, quiet |-> TRUE]
NoSnap == [here |-> FALSE, tree |-> NoTree, groups |-> {}, manifest |-> <<>>, copied |-> <<>>, source |-> <<>>, quiet |-> FALSE]
Resting == [pc |-> "idle", group |-> {}, base |-> <<>>, name |-> Order[1], left |-> {},
            whole |-> TRUE, temp |-> FALSE, lent |-> "no"]

Init ==
    /\ src \in Sources
    /\ job = NoJob
    /\ worker = [w \in Workers |-> Resting]
    /\ mutex = "free"
    /\ snap = NoSnap /\ out = NoSnap
    /\ edits = 0 /\ faults = 0 /\ jobs = 0

(***************************************************************************)
(* Edits of the source.                                                    *)
(***************************************************************************)
Edit(s) ==
    /\ edits < MaxEdits
    /\ s # src
    /\ edits' = edits + 1
    /\ src' = s
    /\ job' = [job EXCEPT !.quiet = FALSE]
    /\ UNCHANGED <<worker, mutex, snap, out, faults, jobs>>

Fresh == <<"live", edits + 10>>
ReplaceFile(n, c) == Edit([src EXCEPT !.at[n] = Fresh, !.data = @ @@ (Fresh :> c)])
LinkName(n, m) ==
    /\ src.at[m] # <<>>
    /\ Edit([src EXCEPT !.at[n] = src.at[m]])
Unlink(n) == Edit([src EXCEPT !.at[n] = <<>>])

(***************************************************************************)
(* hardlinks_scan: every name is looked at once, in any order, then the    *)
(* records are put together.                                               *)
(***************************************************************************)
Rest == UNCHANGED <<src, worker, mutex, snap, out, edits, faults, jobs>>

Begin(kind) ==
    /\ job.pc = "idle" /\ jobs < MaxJobs
    /\ kind \in Jobs /\ (kind # "snapshot" => snap.here)
    /\ jobs' = jobs + 1
    /\ job' = [NoJob EXCEPT !.kind = kind, !.pc = IF kind = "snapshot" THEN "scan" ELSE "read"]
    /\ UNCHANGED <<src, worker, mutex, snap, out, edits, faults>>

ScanEntry(n) ==
    /\ job.pc = "scan" /\ n \notin DOMAIN job.seen
    /\ LET i == src.at[n] IN
       job' = [job EXCEPT !.seen = @ @@ (n :> [ino |-> i, nlink |-> IF i = <<>> THEN 0 ELSE Nlink(src, i)])]
    /\ Rest

\* a plausible slip: the excluded name is counted as an outside one
ExcludedNone(seen, i) == 0

ExcludedLinks(seen, i) == Cardinality({n \in Excluded : seen[n].ino = i})

(* One group per inode of which every name was found: the number of names  *)
(* is the link count, less the excluded ones.  When the count changed      *)
(* during the scan, the first record decides, and any may be the first.    *)
Groups(seen) ==
    LET named(i) == {n \in Inner : seen[n].ino = i /\ seen[n].nlink > 1}
        all == {named(seen[n].ino) : n \in {m \in Inner : seen[m].ino # <<>> /\ seen[m].nlink > 1}}
        whole(g) == \E n \in g : seen[n].nlink - ExcludedLinks(seen, seen[n].ino) = Cardinality(g)
    IN {g \in all : Cardinality(g) >= 2 /\ whole(g)}

ScanEnd ==
    /\ job.pc = "scan" /\ DOMAIN job.seen = Names
    /\ \E doubt \in SUBSET {g \in Groups(job.seen) : \E n, m \in g : job.seen[n].nlink # job.seen[m].nlink} :
         job' = [job EXCEPT !.pc = "clone", !.hl = HardlinkSet(Groups(job.seen) \ doubt), !.seen = <<>>]
    /\ Rest

(***************************************************************************)
(* The manifest's section on groups: a header with two counts, and a line  *)
(* for each name.  Escapes and the counts of outside names are left out.   *)
(***************************************************************************)
ManifestWrite(hl) ==
    LET gs == SetToSeq(hl.groups)
        lines(k) == LET sorted == SelectSeq(Order, LAMBDA n : n \in gs[k])
                    IN [i \in DOMAIN sorted |-> [tag |-> "hl", gid |-> k, nlink |-> Len(sorted), path |-> sorted[i]]]
    IN IF gs = <<>> THEN <<>>
       ELSE <<[tag |-> "#hl", groups |-> Len(gs), names |-> hl.names]>>
            \o FlattenSeq([k \in DOMAIN gs |-> lines(k)])

\* a plausible slip: the header is not compared
SectionUncounted(m) == LET lines == SelectSeq(m, LAMBDA l : l.tag = "hl")
                       IN [ok |-> TRUE, groups |-> {{l.path : l \in {k \in Range(lines) : k.gid = j.gid}} : j \in Range(lines)}]

\* hardlinks_manifest_read: a group is a run of lines with one number
ManifestRead(m) ==
    LET head == SelectSeq(m, LAMBDA l : l.tag = "#hl")
        lines == SelectSeq(m, LAMBDA l : l.tag = "hl")
        starts == {i \in DOMAIN lines : i = 1 \/ lines[i].gid # lines[i - 1].gid}
        run(i) == {k \in i..Len(lines) : \A j \in (i + 1)..k : j \notin starts}
    IN [ok |-> IF head = <<>> THEN lines = <<>>
               ELSE /\ Cardinality(starts) = Last(head).groups /\ Len(lines) = Last(head).names
                    /\ \A i \in starts : Cardinality(run(i)) >= 2 /\ Cardinality(run(i)) = lines[i].nlink
                    /\ Cardinality({l.path : l \in Range(lines)}) = Len(lines),
        groups |-> {{lines[k].path : k \in run(i)} : i \in starts}]

(***************************************************************************)
(* A fork reads the manifest; the groups must be as many as the row says   *)
(* and those of the snapshot's tree, which never changes.                  *)
(***************************************************************************)
WholeIn(t, g) ==
    \E i \in {t.at[n] : n \in g} :
        /\ i # <<>>
        /\ \A n \in g : t.at[n] = i
        /\ Cardinality({n \in Names : t.at[n] = i}) + Cardinality({x \in t.temps : x.ino = i}) = Cardinality(g)
VerifyGroups(t, groups) == \A g \in groups : WholeIn(t, g)

\* the row's hl_groups is the number of snap.groups; none: nothing is read
Accepts(m, kind) ==
    /\ ManifestRead(m).ok /\ Cardinality(ManifestRead(m).groups) = Cardinality(snap.groups)
    /\ kind = "fork" => VerifyGroups(snap.tree, ManifestRead(m).groups)

ReadManifest ==
    /\ job.pc = "read"
    /\ IF snap.groups = {} THEN job' = [job EXCEPT !.pc = "clone"]
       ELSE IF Accepts(snap.manifest, job.kind)
       THEN job' = [job EXCEPT !.pc = "clone", !.hl = HardlinkSet(ManifestRead(snap.manifest).groups)]
       ELSE job' = [job EXCEPT !.pc = "failed"]
    /\ Rest

\* fs_clone_tree: each name becomes a file of its own; the marker is removed
CloneEntry(n) ==
    /\ job.pc = "clone" /\ n \notin DOMAIN job.copied
    /\ LET from == IF job.kind = "fork" THEN snap.tree ELSE src
           i == from.at[n]
           c == IF i = <<>> THEN "none" ELSE from.data[i]
           own == <<"clone", n>>
       IN job' = [job EXCEPT !.copied = @ @@ (n :> c),
                             !.tree.at[n] = IF i = <<>> \/ n \in Excluded THEN <<>> ELSE own,
                             !.tree.data = IF i = <<>> \/ n \in Excluded THEN @ ELSE @ @@ (own :> c)]
    /\ Rest

CloneEnd ==
    /\ job.pc = "clone" /\ DOMAIN job.copied = Names
    /\ job' = [job EXCEPT !.pc = "replay", !.todo = job.hl.groups]
    /\ Rest

(***************************************************************************)
(* hardlinks_restore: each worker takes groups until there are none.       *)
(***************************************************************************)
Active(w) == job.pc = "replay" /\ worker[w].pc # "idle"
Now(w, f) == worker' = [worker EXCEPT ![w] = f]
Same == UNCHANGED <<src, snap, out, edits, jobs>>

StillLinked(g) ==
    \E i \in {src.at[n] : n \in g} : i # <<>> /\ (\A n \in g : src.at[n] = i) /\ Nlink(src, i) >= Cardinality(g)

\* the first name that is there is the one the others are linked to
TakeGroup(w) ==
    /\ job.pc = "replay" /\ worker[w].pc = "idle"
    /\ \E g \in job.todo :
         LET there == g \cap Here(job.tree)
             asks == job.kind \in {"snapshot", "live"}
         IN IF (asks /\ ~StillLinked(g)) \/ there = {}
            THEN /\ job' = [job EXCEPT !.todo = @ \ {g}, !.broken = @ \cup {g}]
                 /\ UNCHANGED worker
            ELSE LET b == First(there) IN
                 /\ job' = [job EXCEPT !.todo = @ \ {g}]
                 /\ Now(w, [Resting EXCEPT !.pc = "next", !.group = g, !.base = job.tree.at[b],
                                           !.left = {n \in g : Before(b, n)},
                                           !.whole = \A n \in g \ {b} : Before(b, n)])
    /\ UNCHANGED <<mutex, faults>> /\ Same

\* a plausible slip: a member is linked whatever it holds
AlikeAlways(i, b) == TRUE

\* the member is a copy of the base: the same size and time
Alike(i, b) == job.tree.data[i] = job.tree.data[b]

NextMember(w) ==
    /\ Active(w) /\ worker[w].pc = "next"
    /\ IF worker[w].left = {}
       THEN /\ Now(w, Resting)
            /\ job' = [job EXCEPT !.broken = IF worker[w].whole THEN @ ELSE @ \cup {worker[w].group}]
       ELSE LET n == First(worker[w].left)
                i == job.tree.at[n]
                rest == [worker[w] EXCEPT !.left = @ \ {n}]
            IN /\ UNCHANGED job
               /\ IF i = worker[w].base THEN Now(w, rest)
                  ELSE IF i = <<>> \/ ~Alike(i, worker[w].base) THEN Now(w, [rest EXCEPT !.whole = FALSE])
                  ELSE Now(w, [rest EXCEPT !.pc = "link", !.name = n])
    /\ UNCHANGED <<mutex, faults>> /\ Same

Dir(w) == DirOf(worker[w].name)
Writable(w) == job.tree.mode[Dir(w)] = "w"
Temp(w) == [dir |-> Dir(w), ino |-> worker[w].base, by |-> w]

\* the member is done with: what was lent is given back first
Leave(w) == IF worker[w].lent = "no" THEN "next" ELSE "unlend"

GiveUp(w, t) ==
    /\ job' = [job EXCEPT !.tree = t, !.err = TRUE]
    /\ Now(w, [worker[w] EXCEPT !.pc = Leave(w), !.whole = FALSE, !.temp = FALSE])

\* a call is refused by the directory's mode, or fails for another reason
Refused(w) == ~Writable(w)
Faulty(w) == faults < MaxFaults

\* relink_at: a link under a fresh name
Link(w) ==
    /\ Active(w) /\ worker[w].pc = "link"
    /\ \/ /\ Writable(w)
          /\ job' = [job EXCEPT !.tree.temps = @ \cup {Temp(w)}]
          /\ Now(w, [worker[w] EXCEPT !.pc = "rename"])
          /\ UNCHANGED faults
       \/ /\ Refused(w)
          /\ IF worker[w].lent = "no"
             THEN Now(w, [worker[w] EXCEPT !.pc = "lend"]) /\ UNCHANGED job
             ELSE GiveUp(w, job.tree)
          /\ UNCHANGED faults
       \/ Faulty(w) /\ faults' = faults + 1 /\ GiveUp(w, job.tree)
    /\ UNCHANGED mutex /\ Same

\* then renamed over the member
Rename(w) ==
    /\ Active(w) /\ worker[w].pc = "rename"
    /\ \/ /\ Writable(w)
          /\ job' = [job EXCEPT !.tree.at[worker[w].name] = worker[w].base,
                                !.tree.temps = @ \ {Temp(w)}]
          /\ Now(w, [worker[w] EXCEPT !.pc = Leave(w)])
          /\ UNCHANGED faults
       \/ /\ Refused(w)
          /\ Now(w, [worker[w] EXCEPT !.pc = "unlink"])
          /\ UNCHANGED <<job, faults>>
       \/ /\ Faulty(w) /\ faults' = faults + 1
          /\ GiveUp(w, IF Writable(w) THEN [job.tree EXCEPT !.temps = @ \ {Temp(w)}] ELSE job.tree)
    /\ UNCHANGED mutex /\ Same

\* the name to clean up may be refused as well: it is left for the second try
UnlinkTemp(w) ==
    /\ Active(w) /\ worker[w].pc = "unlink"
    /\ LET gone == Writable(w)
           t == IF gone THEN [job.tree EXCEPT !.temps = @ \ {Temp(w)}] ELSE job.tree
       IN IF worker[w].lent = "no"
          THEN /\ job' = [job EXCEPT !.tree = t]
               /\ Now(w, [worker[w] EXCEPT !.pc = "lend", !.temp = ~gone])
          ELSE GiveUp(w, t)
    /\ UNCHANGED <<mutex, faults>> /\ Same

\* a plausible slip: a worker lends without the mutex
MutexIgnored(w) == TRUE

MutexFree(w) == mutex = "free"

\* LendStack::lend
Lent(w) == [job.tree EXCEPT !.mode[Dir(w)] = "w"]

\* relink_under_lend: write permission for a moment, one worker at a time
LendDir(w) ==
    /\ Active(w) /\ worker[w].pc = "lend"
    /\ MutexFree(w)
    /\ \/ /\ mutex' = w
          /\ job' = [job EXCEPT !.tree = [Lent(w) EXCEPT !.temps = IF worker[w].temp THEN @ \ {Temp(w)} ELSE @]]
          /\ Now(w, [worker[w] EXCEPT !.pc = "link", !.temp = FALSE, !.lent = job.tree.mode[Dir(w)]])
          /\ UNCHANGED faults
       \/ /\ Faulty(w) /\ faults' = faults + 1
          /\ job' = [job EXCEPT !.err = TRUE]
          /\ Now(w, [worker[w] EXCEPT !.pc = "next", !.whole = FALSE, !.temp = FALSE])
          /\ UNCHANGED mutex
    /\ Same

\* ~LendStack, in every way out
Unlend(w) ==
    /\ Active(w) /\ worker[w].pc = "unlend"
    /\ job' = [job EXCEPT !.tree.mode[Dir(w)] = worker[w].lent]
    /\ Now(w, [worker[w] EXCEPT !.pc = "next", !.lent = "no"])
    /\ mutex' = "free"
    /\ UNCHANGED faults /\ Same

(***************************************************************************)
(* The end of the replay.  An error unwinds the whole job; a snapshot      *)
(* drops the groups that its tree does not have.                           *)
(***************************************************************************)
\* a plausible slip: the manifest says what the source had
DropBrokenNot(hl, broken) == hl

\* a plausible slip: the names are not counted anew
DropBrokenCount(hl, broken) == [hl EXCEPT !.groups = @ \ broken]

\* hl_drop_broken
DropBroken(hl, broken) == HardlinkSet(hl.groups \ broken)

ReplayEnd ==
    /\ job.pc = "replay" /\ job.todo = {} /\ \A w \in Workers : worker[w].pc = "idle"
    /\ job' = IF job.err THEN [job EXCEPT !.pc = "failed"]
              ELSE IF job.kind = "snapshot"
              THEN [job EXCEPT !.pc = "import", !.hl = DropBroken(@, job.broken)]
              ELSE [job EXCEPT !.pc = "publish"]
    /\ Rest

\* hl_drop_changed: every member is there and is one file
Unchanged(t, g) == \E i \in {t.at[n] : n \in g} : i # <<>> /\ \A n \in g : t.at[n] = i

\* git_import may reset files to HEAD, by replacing them
Import ==
    /\ job.pc = "import"
    /\ \E committed \in {FALSE, Rewrites # {}} :
       \E reset \in SUBSET (IF committed THEN Rewrites \cap Here(job.tree) ELSE {}) :
         LET t == [job.tree EXCEPT
                     !.at = [n \in Names |-> IF n \in reset THEN <<"git", n>> ELSE @[n]],
                     !.data = @ @@ [i \in {<<"git", n>> : n \in reset} |-> "head"]]
         IN job' = [job EXCEPT !.pc = "publish", !.tree = t, !.quiet = @ /\ reset = {},
                               !.copied = [n \in Names |-> IF n \in reset THEN "head" ELSE @[n]],
                               !.hl = IF committed THEN DropBroken(@, {g \in @.groups : ~Unchanged(t, g)}) ELSE @]
    /\ Rest

Publish ==
    /\ job.pc = "publish"
    /\ LET made == [here |-> TRUE, tree |-> job.tree, groups |-> job.hl.groups, copied |-> job.copied,
                    manifest |-> IF job.kind = "snapshot" THEN ManifestWrite(job.hl) ELSE <<>>,
                    source |-> IF job.kind = "fork" THEN snap.tree ELSE src, quiet |-> job.quiet]
       IN IF job.kind = "snapshot" THEN snap' = made /\ UNCHANGED out
          ELSE out' = [made EXCEPT !.quiet = job.kind = "fork"] /\ UNCHANGED snap
    /\ job' = NoJob
    /\ UNCHANGED <<src, worker, mutex, edits, faults, jobs>>

Abandon ==
    /\ job.pc = "failed"
    /\ job' = NoJob
    /\ Rest

Next ==
    \/ \E n \in Names : \/ \E c \in Contents : ReplaceFile(n, c)
                        \/ \E m \in Names : LinkName(n, m)
                        \/ Unlink(n) \/ ScanEntry(n) \/ CloneEntry(n)
    \/ \E k \in {"snapshot", "fork", "live"} : Begin(k)
    \/ ScanEnd \/ ReadManifest \/ CloneEnd \/ ReplayEnd \/ Import \/ Publish \/ Abandon
    \/ \E w \in Workers : \/ TakeGroup(w) \/ NextMember(w) \/ Link(w) \/ Rename(w)
                          \/ UnlinkTemp(w) \/ LendDir(w) \/ Unlend(w)

Spec == Init /\ [][Next]_vars

-----------------------------------------------------------------------------
(* A published snapshot has the groups its manifest names, so a fork of it *)
(* is never refused as dirty, and the fork has them too: whatever happened *)
(* to the source between the scan, the clone and the replay                *)
(* (hl_drop_broken, hl_drop_changed, hardlinks_verify_groups).             *)
SnapshotsForkable ==
    /\ VerifyGroups(snap.tree, snap.groups)
    /\ Accepts(snap.manifest, "fork") /\ ManifestRead(snap.manifest).groups = snap.groups
    /\ out.quiet => VerifyGroups(out.tree, out.groups)

\* What may have happened to a manifest: lines are lost, or a line names
\* another group or another name; two lines have their names exchanged.
Entries(m) == {i \in DOMAIN m : m[i].tag = "hl"}
Damaged(m) ==
    LET numbered == [i \in DOMAIN m |-> <<i, m[i]>>]
        keep(S) == SelectSeq(numbered, LAMBDA l : l[1] \in S)
    IN {[i \in DOMAIN keep(S) |-> keep(S)[i][2]] : S \in SUBSET DOMAIN m}
       \cup {[m EXCEPT ![i].gid = m[k].gid] : i, k \in Entries(m)}
       \cup {[m EXCEPT ![i].path = m[k].path] : i, k \in Entries(m)}
Exchanged(m) == {[m EXCEPT ![i].path = m[k].path, ![k].path = m[i].path] : i, k \in Entries(m)}

(* A fork from a snapshot whose manifest was damaged after it was published   *)
(* is refused or has all the groups all the same.  What changes a count or    *)
(* repeats a name is found by reading alone (hardlinks_manifest_read); names  *)
(* exchanged between groups, by the snapshot's tree (hardlinks_verify_groups). *)
DamageRefused ==
    \A m \in Damaged(snap.manifest) \cup Exchanged(snap.manifest) :
        /\ snap.groups # {}
        /\ Accepts(m, IF m \in Damaged(snap.manifest) THEN "live" ELSE "fork")
        => ManifestRead(m).groups = snap.groups

(* Relinking never changes what a name holds: each file of a published     *)
(* tree is the one that was cloned under its name (restore_group).         *)
ContentKept ==
    \A p \in {snap, out} : \A n \in Here(p.tree) : p.tree.data[p.tree.at[n]] = p.copied[n]

(* A snapshot of a tree nobody edits meanwhile has exactly the source's    *)
(* hard links among the names that are its files, for the inodes with no   *)
(* name elsewhere (hardlinks_scan, its treatment of the marker).           *)
LinksPreserved ==
    snap.here /\ snap.quiet =>
        \A n, m \in Here(snap.source) \cap Inner :
            (snap.tree.at[n] = snap.tree.at[m])
                <=> (n = m \/ (snap.source.at[n] = snap.source.at[m] /\ snap.source.at[n] \notin snap.source.outside))

(* A published tree holds no temporary name, and every directory that was  *)
(* lent write permission has its mode again, however the workers           *)
(* interleave and whatever fails (LendStack, Relender).                    *)
Tidy ==
    \A p \in {snap, out} : p.here => p.tree.temps = {} /\ p.tree.mode = NoTree.mode

(* Published trees: their groups verify, every name holds what was cloned     *)
(* under it, and links of an undisturbed source are exactly those of the copy. *)
LinksFaithful == SnapshotsForkable /\ DamageRefused /\ ContentKept /\ LinksPreserved
=============================================================================
