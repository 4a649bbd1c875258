------------------------------ MODULE TreeWalk ------------------------------
(***************************************************************************)
(* The parallel tree walk of platform_posix.cpp and the removals built on  *)
(* it and beside it.  Workers share a stack of directories under a mutex   *)
(* and a condition variable; the last one to find it empty ends the walk.  *)
(* Directories may come before what they hold or after it.  A removal may  *)
(* meet directories without the bits it needs, failing calls, entries that *)
(* readdir does not return, and a deadline.                                *)
(***************************************************************************)
EXTENDS Naturals, FiniteSets, Sequences, Functions

CONSTANTS
    Nodes, Root,
    Parent,      \* the directory of each node but the root
    Dirs,
    Pruned,      \* nodes that are not part of a walk
    Plain,       \* directories whose mode has all bits; the others may lack them
    Sealed,      \* those of the others that cannot even be opened
    Want,        \* threads asked for
    Kinds,       \* what this instance runs: "pre", "post", "parallel", "serial", "fd"
    Timed,       \* whether a removal has a deadline
    MaxFaults,   \* bound on failing calls
    MaxSlips,    \* bound on entries readdir does not return
    RootSlips    \* whether they may be entries of the root of a removal by descriptor

\* The nodes of a subtree: what every set holds that has its top and the entries of every directory it has.
Closed(S) == \A n \in Nodes \ {Root} : Parent[n] \in S => n \in S
Subtree == [t \in Nodes |-> {n \in Nodes : \A S \in SUBSET Nodes : t \in S /\ Closed(S) => n \in S}]
Below(t) == Subtree[t]

ASSUME TreeAssumption ==
    /\ Root \in Dirs /\ Dirs \subseteq Nodes /\ Parent \in [Nodes \ {Root} -> Dirs] /\ Below(Root) = Nodes
    /\ Pruned \subseteq Nodes \ {Root}
    /\ Want \in Nat \ {0}
    /\ Kinds \subseteq {"pre", "post", "parallel", "serial", "fd"}

VARIABLES
    kind,
    present,   \* nodes that exist
    bits,      \* directories that have all mode bits by now
    stack, dirs, idle, threads, done, err,   \* Walk
    worker,    \* each thread: where it is, its directory, what is left of it, the directories found
    main,      \* the caller: where it is, threads tried and started, the root of a serial removal
    seen,      \* nodes in the order of their callbacks
    count,     \* *entries
    tries,     \* directories that rm_fd_walk has started a second time
    late,      \* whether the deadline has passed
    result,    \* what the caller got
    faults, slips

walk == <<stack, dirs, idle, threads, done, err>>
vars == <<kind, present, bits, walk, worker, main, seen, count, tries, late, result, faults, slips>>

Threads == 1..Want
Ok == 0
Canceled == 1
Failed == 2
NotEmpty == 3
Children(d) == {n \in present \ {Root} : Parent[n] = d}
Off == [pc |-> "off", job |-> Root, left |-> {}, subs |-> <<>>]
Removing == kind \in {"parallel", "serial", "fd"}
Post == kind \in {"post", "parallel"}

Init ==
    /\ kind \in Kinds
    /\ present = Nodes
    /\ bits \in {b \in SUBSET Dirs : Plain \subseteq b}
    /\ stack = <<>> /\ dirs = <<>> /\ idle = 0 /\ threads = Want /\ done = FALSE /\ err = Ok
    /\ worker = [t \in Threads |-> Off]
    /\ main = [pc |-> "begin", tried |-> 0, started |-> 0, top |-> Root, skipped |-> {}]
    /\ seen = <<>>
    /\ count = 0
    /\ tries = {}
    /\ late = FALSE
    /\ result = [over |-> FALSE, rc |-> Ok, partial |-> FALSE]
    /\ faults = 0 /\ slips = 0

Fault == faults < MaxFaults /\ faults' = faults + 1

\* The call returns. A removal that ran out of time reports that it is not finished, and no error.
Return(rc) ==
    /\ main' = [main EXCEPT !.pc = "over"]
    /\ result' = [over |-> TRUE, rc |-> IF rc = Canceled THEN Ok ELSE rc, partial |-> rc = Canceled]

-----------------------------------------------------------------------------
(* fs_walk_tree_ex                                                          *)

\* The root is reported first, or noted as the first directory; it is the first job. A removal opens a root it cannot enter.
Begin ==
    /\ main.pc = "begin" /\ kind \in {"pre", "post", "parallel"}
    /\ seen' = IF Post THEN seen ELSE <<Root>>
    /\ dirs' = IF Post THEN <<Root>> ELSE <<>>
    /\ stack' = <<Root>>
    /\ bits' = IF kind = "parallel" THEN bits \union {Root} ELSE bits
    /\ main' = [main EXCEPT !.pc = IF Want = 1 THEN "alone" ELSE "spawn"]
    /\ UNCHANGED <<kind, present, idle, threads, done, err, worker, count, tries, late, result, faults, slips>>

\* threads_start: some of the threads may not start.
Spawn ==
    /\ main.pc = "spawn" /\ main.tried < Want
    /\ \/ /\ main' = [main EXCEPT !.tried = @ + 1, !.started = @ + 1]
          /\ worker' = [worker EXCEPT ![main.started + 1].pc = "top"]
          /\ UNCHANGED faults
       \/ /\ Fault
          /\ main' = [main EXCEPT !.tried = @ + 1]
          /\ UNCHANGED worker
    /\ UNCHANGED <<kind, present, bits, walk, seen, count, tries, late, result, slips>>

\* Everybody who waits is woken.
Broadcast(ws) == [t \in Threads |-> IF ws[t].pc = "wait" THEN [ws[t] EXCEPT !.pc = "woken"] ELSE ws[t]]

\* A plausible slip: the workers go on waiting for threads that never started.
CorrectedNot == threads
\* Fewer threads than were asked for.
Corrected == main.started
Correct ==
    /\ main.pc = "spawn" /\ main.tried = Want /\ main.started > 0
    /\ main' = [main EXCEPT !.pc = "join"]
    /\ IF main.started = Want THEN UNCHANGED <<threads, worker>>
       ELSE threads' = Corrected /\ worker' = Broadcast(worker)
    /\ UNCHANGED <<kind, present, bits, stack, dirs, idle, done, err, seen, count, tries, late, result, faults, slips>>

\* With one thread, or none that started, the caller does the work.
Alone ==
    /\ main.pc = "alone" \/ (main.pc = "spawn" /\ main.tried = Want /\ main.started = 0)
    /\ threads' = 1
    /\ worker' = [worker EXCEPT ![1].pc = "top"]
    /\ main' = [main EXCEPT !.pc = "join", !.started = 1]
    /\ UNCHANGED <<kind, present, bits, stack, dirs, idle, done, err, seen, count, tries, late, result, faults, slips>>

-----------------------------------------------------------------------------
(* walk_worker                                                              *)

\* The walk ends when every thread is idle.
LastOne(n) == n = threads

\* Under the mutex: wait while there is nothing to do, end the walk as the last one, leave, or take a directory.
\* A worker that comes from a directory leaves after an error of any other.
Top(t) ==
    LET w == worker[t]
        n == IF w.pc = "woken" THEN idle - 1 ELSE idle
    IN  /\ w.pc \in {"top", "woken", "after"}
        /\ IF w.pc = "after" /\ done /\ err # Ok
           THEN worker' = [worker EXCEPT ![t].pc = "exit"] /\ idle' = n /\ UNCHANGED <<stack, done>>
           ELSE IF stack # <<>>
           THEN /\ worker' = [worker EXCEPT ![t].pc = "open", ![t].job = stack[Len(stack)]]
                /\ stack' = SubSeq(stack, 1, Len(stack) - 1)
                /\ idle' = n /\ UNCHANGED done
           ELSE IF done
           THEN worker' = [worker EXCEPT ![t].pc = "exit"] /\ idle' = n /\ UNCHANGED <<stack, done>>
           ELSE IF LastOne(n + 1)
           THEN /\ done' = TRUE /\ idle' = n
                /\ worker' = Broadcast([worker EXCEPT ![t].pc = "exit"])
                /\ UNCHANGED stack
           ELSE worker' = [worker EXCEPT ![t].pc = "wait"] /\ idle' = n + 1 /\ UNCHANGED <<stack, done>>
        /\ UNCHANGED <<kind, present, bits, dirs, threads, err, main, seen, count, tries, late, result, faults, slips>>

\* pthread_cond_wait may return for no reason.
Spurious(t) ==
    /\ worker[t].pc = "wait"
    /\ worker' = [worker EXCEPT ![t].pc = "woken"]
    /\ UNCHANGED <<kind, present, bits, walk, main, seen, count, tries, late, result, faults, slips>>

\* walk_dir opens its directory, which needs bits the directory may not have.
OpenDir(t) ==
    LET d == worker[t].job
    IN  /\ worker[t].pc = "open"
        /\ worker' = [worker EXCEPT ![t].pc = IF d \in Sealed \ bits THEN "failed" ELSE "read",
                                    ![t].left = Children(d), ![t].subs = <<>>]
        /\ UNCHANGED <<kind, present, bits, walk, main, seen, count, tries, late, result, faults, slips>>

\* rm_entry of a file: nothing after the deadline; a directory that denies the unlink is given the bits.
RemoveFile(n) ==
    /\ present' = present \ {n}
    /\ bits' = bits \union {Parent[n]}
    /\ count' = count + 1

\* walk_one: a pruned name is passed over, a directory is noted and, when directories come first, reported; the
\* rest is reported. A removal's callback gives up at the deadline or at an error.
Entry(t) ==
    \E n \in worker[t].left :
        LET report == n \notin Pruned /\ (n \in Dirs => ~Post)
            rest == [worker EXCEPT ![t].left = @ \ {n}]
        IN  /\ worker[t].pc = "read"
            /\ IF kind = "parallel" /\ report /\ late
               THEN worker' = [worker EXCEPT ![t].pc = "canceled"] /\ UNCHANGED <<seen, present, bits, count>>
               ELSE /\ worker' = IF n \in Dirs \ Pruned THEN [rest EXCEPT ![t].subs = Append(@, n)] ELSE rest
                    /\ seen' = IF report /\ ~Removing THEN Append(seen, n) ELSE seen
                    /\ IF report /\ kind = "parallel" THEN RemoveFile(n) ELSE UNCHANGED <<present, bits, count>>
            /\ UNCHANGED <<kind, walk, main, tries, late, result, faults, slips>>

\* An entry that readdir does not return while others are removed.
Slip(t) ==
    /\ worker[t].pc = "read" /\ slips < MaxSlips /\ kind = "parallel"
    /\ \E n \in worker[t].left : worker' = [worker EXCEPT ![t].left = @ \ {n}]
    /\ slips' = slips + 1
    /\ UNCHANGED <<kind, present, bits, walk, main, seen, count, tries, late, result, faults>>

\* readdir, fstatat or the callback fails.
ReadFails(t) ==
    /\ worker[t].pc = "read" /\ Fault
    /\ worker' = [worker EXCEPT ![t].pc = "failed"]
    /\ UNCHANGED <<kind, present, bits, walk, main, seen, count, tries, late, result, slips>>

\* The directories found become jobs, and are noted in the order of their discovery.
Push(t) ==
    LET w == worker[t]
        next == [worker EXCEPT ![t].pc = "after"]
    IN  /\ w.pc = "read" /\ w.left = {}
        /\ stack' = stack \o w.subs
        /\ dirs' = IF Post THEN dirs \o w.subs ELSE dirs
        /\ worker' = IF w.subs = <<>> THEN next ELSE Broadcast(next)
        /\ UNCHANGED <<kind, present, bits, idle, threads, done, err, main, seen, count, tries, late, result, faults, slips>>

\* The first error ends the walk for everybody.
Fail(t) ==
    LET next == [worker EXCEPT ![t].pc = "exit"]
    IN  /\ worker[t].pc \in {"failed", "canceled"}
        /\ err' = IF err # Ok THEN err ELSE IF worker[t].pc = "failed" THEN Failed ELSE Canceled
        /\ done' = TRUE
        /\ worker' = IF err = Ok THEN Broadcast(next) ELSE next
        /\ UNCHANGED <<kind, present, bits, stack, dirs, idle, threads, main, seen, count, tries, late, result, faults, slips>>

\* The caller joins the threads that were started.
Join ==
    /\ main.pc = "join" /\ \A t \in 1..main.started : worker[t].pc = "exit"
    /\ main' = [main EXCEPT !.pc = IF err # Ok THEN "walked" ELSE IF Post THEN "tail" ELSE "walked"]
    /\ UNCHANGED <<kind, present, bits, walk, worker, seen, count, tries, late, result, faults, slips>>

-----------------------------------------------------------------------------
(* The directories at the end, and rm_entry for them                        *)

\* A plausible slip: the directories are replayed in the order in which they were found.
NextDirFirst == dirs[1]
\* Deepest first: the last one found.
NextDir == dirs[Len(dirs)]
Others == SubSeq(dirs, 1, Len(dirs) - 1)

\* rmdir needs the bits of the directory above, which only the removal of a file in it has given.
Denied(d) == d # Root /\ Parent[d] \notin bits

\* rm_entry of a directory: nothing after the deadline; a denied one gets bits of its own, which do not help; one that is
\* not empty is left to rm_rec.
RemoveDir(d) ==
    IF late THEN err' = Canceled /\ main' = [main EXCEPT !.pc = "walked"] /\ UNCHANGED <<dirs, present, bits, count>>
    ELSE IF Denied(d)
    THEN /\ err' = Failed /\ bits' = bits \union {d} /\ main' = [main EXCEPT !.pc = "walked"]
         /\ UNCHANGED <<dirs, present, count>>
    ELSE IF Children(d) # {}
    THEN main' = [main EXCEPT !.pc = "recover", !.top = d] /\ UNCHANGED <<dirs, present, bits, count, err>>
    ELSE /\ present' = present \ {d} /\ dirs' = Others
         /\ count' = IF d = Root THEN count ELSE count + 1
         /\ UNCHANGED <<bits, main, err>>

TailDir ==
    /\ main.pc = "tail" /\ dirs # <<>>
    /\ LET d == NextDir
       IN  IF Removing THEN RemoveDir(d) /\ UNCHANGED seen
           ELSE seen' = Append(seen, d) /\ dirs' = Others /\ UNCHANGED <<present, bits, count, main, err>>
    /\ UNCHANGED <<kind, stack, idle, threads, done, worker, tries, late, result, faults, slips>>

\* The lstat or the removal of a directory fails.
TailFails ==
    /\ main.pc = "tail" /\ dirs # <<>> /\ Fault
    /\ err' = Failed
    /\ main' = [main EXCEPT !.pc = "walked"]
    /\ UNCHANGED <<kind, present, bits, stack, dirs, idle, threads, done, worker, seen, count, tries, late, result, slips>>

TailDone ==
    /\ main.pc = "tail" /\ dirs = <<>>
    /\ main' = [main EXCEPT !.pc = "walked"]
    /\ UNCHANGED <<kind, present, bits, walk, worker, seen, count, tries, late, result, faults, slips>>

\* The walk is over; fs_remove_tree_parallel goes on with fs_remove_tree after an error that is not the deadline.
Walked ==
    /\ main.pc = "walked"
    /\ IF kind = "parallel" /\ err \notin {Ok, Canceled}
       THEN main' = [main EXCEPT !.pc = "unprotect", !.top = Root] /\ UNCHANGED result
       ELSE Return(err)
    /\ UNCHANGED <<kind, present, bits, walk, worker, seen, count, tries, late, faults, slips>>

-----------------------------------------------------------------------------
(* fs_remove_tree and rm_rec                                                *)

\* The tree is unprotected first, which the deadline may end; a root that is gone needs nothing.
Unprotect ==
    /\ main.pc = "unprotect" \/ (main.pc = "begin" /\ kind = "serial")
    /\ IF Root \notin present THEN Return(Ok)
       ELSE IF late THEN Return(Canceled)
       ELSE main' = [main EXCEPT !.pc = "rec"] /\ UNCHANGED result
    /\ UNCHANGED <<kind, present, bits, walk, worker, seen, count, tries, late, faults, slips>>

\* A plausible slip: the directory the removal started at counts as well.
CountedTop(n) == count + 1
\* Every entry below the directory counts once.
Counted(n) == IF n = main.top THEN count ELSE count + 1

\* rm_rec removes some entry whose own entries are gone; it gives itself the bits on the way. The deadline is not looked
\* at again before a directory that was emptied goes. It works for the whole tree, or for a directory that rm_entry
\* found not empty.
RecStep ==
    /\ main.pc \in {"rec", "recover"}
    /\ \E n \in Below(main.top) \intersect present :
           /\ Children(n) = {} /\ (late => n \in Dirs)
           /\ present' = present \ {n}
           /\ count' = Counted(n)
    /\ UNCHANGED <<kind, bits, walk, worker, main, seen, tries, late, result, faults, slips>>

\* It is done, out of time, or a call of it fails.
RecDone ==
    /\ main.pc \in {"rec", "recover"} /\ main.top \notin present
    /\ IF main.pc = "rec" THEN Return(Ok) /\ UNCHANGED <<dirs, count>>
       ELSE /\ main' = [main EXCEPT !.pc = "tail"]
            /\ dirs' = Others
            /\ count' = IF main.top = Root THEN count ELSE count + 1
            /\ UNCHANGED result
    /\ UNCHANGED <<kind, present, bits, stack, idle, threads, done, err, worker, seen, tries, late, faults, slips>>
RecStops ==
    /\ main.pc \in {"rec", "recover"} /\ main.top \in present
    /\ \E rc \in {Canceled, Failed} :
           /\ IF rc = Canceled THEN late /\ UNCHANGED faults ELSE Fault
           /\ IF main.pc = "rec" THEN Return(rc) /\ UNCHANGED err
              ELSE err' = rc /\ main' = [main EXCEPT !.pc = "walked"] /\ UNCHANGED result
    /\ UNCHANGED <<kind, present, bits, stack, dirs, idle, threads, done, worker, seen, count, tries, late, slips>>

-----------------------------------------------------------------------------
(* fs_remove_tree_fd and rm_fd_walk                                         *)

FdBegin ==
    /\ main.pc = "begin" /\ kind = "fd"
    /\ main' = [main EXCEPT !.pc = "fd"]
    /\ bits' = bits \union {Root}
    /\ UNCHANGED <<kind, present, walk, worker, seen, count, tries, late, result, faults, slips>>

\* The directory's stream ended before it returned this entry.
Skipped(n) == n \in main.skipped

\* The bits given on the way: the entry's directory, and the entry itself if it is one that has to be opened.
FdGiven(n) == bits \union {Parent[n]} \union ({n} \intersect Dirs)

\* An entry is removed through the descriptor of its directory once what the directory's stream returned is gone; bits
\* are given where they are denied.
FdStep ==
    /\ main.pc = "fd"
    /\ \E n \in present \ {Root} :
           /\ late => n \in Dirs
           /\ ~ \E a \in Nodes : n \in Below(a) /\ Skipped(a)
           /\ Children(n) = {}
           /\ present' = present \ {n}
           /\ bits' = FdGiven(n)
           /\ count' = count + 1
    /\ UNCHANGED <<kind, walk, worker, main, seen, tries, late, result, faults, slips>>

\* readdir ends early, for an error that is not told from the end.
FdSlip ==
    /\ main.pc = "fd" /\ slips < MaxSlips
    /\ \E n \in present \ (IF RootSlips THEN {Root} ELSE {Root} \union Children(Root)) : main' = [main EXCEPT !.skipped = @ \union {n}]
    /\ slips' = slips + 1
    /\ UNCHANGED <<kind, present, bits, walk, worker, seen, count, tries, late, result, faults>>

\* A directory that is not empty afterwards is walked a second time, and no third.
FdAgain ==
    /\ main.pc = "fd" /\ ~late
    /\ \E d \in present \ {Root} :
           /\ Children(d) # {} /\ \A n \in Children(d) : Skipped(n)
           /\ IF d \in tries THEN Return(NotEmpty) /\ UNCHANGED tries
              ELSE /\ main' = [main EXCEPT !.skipped = @ \ Children(d)]
                   /\ tries' = tries \union {d}
                   /\ UNCHANGED result
    /\ UNCHANGED <<kind, present, bits, walk, worker, seen, count, late, faults, slips>>

FdEnds ==
    /\ main.pc = "fd"
    /\ \E rc \in {Ok, Canceled, Failed} :
           /\ rc = Ok => \A n \in Children(Root) : Skipped(n)
           /\ rc # Ok => Children(Root) # {}
           /\ rc = Canceled => late
           /\ IF rc = Failed THEN Fault ELSE UNCHANGED faults
           /\ Return(rc)
    /\ UNCHANGED <<kind, present, bits, walk, worker, seen, count, tries, late, slips>>

-----------------------------------------------------------------------------

Deadline ==
    /\ Timed /\ Removing /\ ~late /\ main.pc # "over"
    /\ late' = TRUE
    /\ UNCHANGED <<kind, present, bits, walk, worker, main, seen, count, tries, result, faults, slips>>

Over == main.pc = "over" /\ UNCHANGED vars

Work(t) == Top(t) \/ OpenDir(t) \/ Entry(t) \/ Push(t) \/ Fail(t)
Caller ==
    \/ Begin \/ Spawn \/ Correct \/ Alone \/ Join \/ TailDir \/ TailDone \/ Walked \/ Unprotect
    \/ RecStep \/ RecDone \/ RecStops \/ FdBegin \/ FdStep \/ FdAgain \/ FdEnds

Next ==
    \/ \E t \in Threads : Work(t) \/ Spurious(t) \/ Slip(t) \/ ReadFails(t)
    \/ Caller \/ TailFails \/ FdSlip \/ Deadline \/ Over

Spec == Init /\ [][Next]_vars

-----------------------------------------------------------------------------
(* What the walks promise                                                   *)

Reported(n) == {i \in DOMAIN seen : seen[i] = n}
InWalk == {n \in Nodes : ~ \E p \in Pruned : n \in Below(p)}

\* fs_walk_tree_ex: nothing is reported twice; a walk that returns no error has reported every entry that is not pruned,
\* whichever threads started, waited and woke; directories come before, or after, everything in them; and no thread is
\* left when it returns.
WalkExact ==
    /\ \A n \in Nodes : Cardinality(Reported(n)) <= 1
    /\ ~Removing =>
           \A i, j \in DOMAIN seen : seen[j] # seen[i] /\ seen[j] \in Below(seen[i]) =>
               IF Post THEN j < i ELSE i < j
    /\ result.over /\ ~Removing => /\ result.rc = Ok => Range(seen) = InWalk
                                   /\ \A t \in Threads : worker[t].pc \in {"off", "exit"}

\* fs_remove_tree_parallel, fs_remove_tree, fs_remove_tree_fd: a removal that reports neither an error nor that it is not
\* finished has left nothing; one that is not finished has left the tree to come back to; and what it counted is
\* what it removed below the root, whichever parts were done by workers, at the end, or by the fallback.
RemovalTrue ==
    result.over /\ Removing =>
        /\ result.rc = Ok /\ ~result.partial =>
               IF kind = "fd" THEN present = {Root} ELSE present = {}
        /\ result.partial => Root \in present
        /\ count = Cardinality((Nodes \ {Root}) \ present)

Returned == main.pc = "over"
=============================================================================
