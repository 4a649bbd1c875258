---------------------------- MODULE TreeWalkInv -----------------------------
(***************************************************************************)
(* The inductive invariant of fs_walk_tree_ex: what the threads and the    *)
(* caller know of each other, which nodes of the tree are known, which     *)
(* directories are still to be read and by whom, and in which order the    *)
(* nodes are reported.  Below it, what a step does to the tree.            *)
(***************************************************************************)
EXTENDS TreeWalk

Walking == kind \in {"pre", "post"}

Worker == [pc : {"off", "top", "woken", "after", "wait", "open", "read", "failed", "exit"}, job : Dirs,
           left : SUBSET Nodes, subs : Seq(Dirs)]
Main == [pc : {"begin", "alone", "spawn", "join", "tail", "walked", "over"}, tried : 0..Want, started : 0..Want,
         top : Nodes, skipped : SUBSET Nodes]

Shape ==
    /\ present = Nodes
    /\ stack \in Seq(Dirs) /\ dirs \in Seq(Dirs) /\ seen \in Seq(Nodes)
    /\ idle \in Nat /\ threads \in 1..Want /\ done \in BOOLEAN /\ err \in {Ok, Failed}
    /\ worker \in [Threads -> Worker]
    /\ main \in Main

-----------------------------------------------------------------------------
(* The threads. *)

Idlers == {t \in Threads : worker[t].pc \in {"wait", "woken"}}
Busy(t) == worker[t].pc \in {"open", "read", "failed"}
Ended == {"tail", "walked", "over"}

\* The threads that have started are the first ones, no more of them than the
\* walk counts on; the idle ones are counted; and the walk is done without an
\* error only when nothing is left to do and nobody does anything.
Team ==
    /\ \A t \in Threads : worker[t].pc = "off" <=> t > main.started
    /\ main.started <= threads
    /\ main.pc \in {"begin", "alone"} => main.started = 0
    /\ main.pc \in {"begin", "alone", "spawn"} => threads = Want
    /\ main.pc = "spawn" => main.started <= main.tried
    /\ main.pc = "join" => main.started > 0
    /\ idle = Cardinality(Idlers)
    /\ \A t \in Threads : worker[t].pc = "exit" => done
    /\ done /\ err = Ok => stack = <<>> /\ \A t \in Threads : ~Busy(t)
    /\ main.pc \in Ended => \A t \in Threads : worker[t].pc \in {"off", "exit"}
    /\ main.pc = "tail" => err = Ok /\ done /\ kind = "post"
    /\ main.pc = "begin" => ~done /\ stack = <<>> /\ dirs = <<>> /\ seen = <<>>

-----------------------------------------------------------------------------
(* The tree. *)

Holding(t) == worker[t].pc \in {"read", "failed"}

\* Directories that a thread has found and not handed over; all nodes that are
\* reported, or noted to be.
Found == {x \in Nodes : \E t \in Threads : Holding(t) /\ x \in Range(worker[t].subs)}
Known == Range(seen) \cup Range(dirs) \cup Found
Listed == IF kind = "post" THEN Range(dirs) ELSE Range(seen)
Kids(d) == {n \in Nodes \ {Root} : Parent[n] = d}

\* A directory that is still to be read, or being read, is in one place.
Unique ==
    /\ IsInjective(stack) /\ Range(stack) \subseteq Listed
    /\ \A t \in Threads : Busy(t) => worker[t].job \in Listed \ Range(stack)
    /\ \A t, u \in Threads : Busy(t) /\ Busy(u) /\ t # u => worker[t].job # worker[u].job
    /\ \A t \in Threads : Holding(t) =>
           /\ IsInjective(worker[t].subs)
           /\ \A x \in Range(worker[t].subs) :
                  /\ x \in Kids(worker[t].job) \ (Pruned \cup Range(stack))
                  /\ \A u \in Threads : Busy(u) => worker[u].job # x

\* What is to be read holds nothing known; of a directory that is being read,
\* the entries left are not known and the others are.
Fresh ==
    /\ \A d \in Range(stack) \cup Found : Kids(d) \cap Known = {}
    /\ \A t \in Threads : worker[t].pc = "open" => Kids(worker[t].job) \cap Known = {}
    /\ \A t \in Threads : worker[t].pc = "read" =>
           /\ worker[t].left \subseteq Kids(worker[t].job) \ Known
           /\ Kids(worker[t].job) \subseteq worker[t].left \cup Known \cup Pruned

\* Without an error, what a known directory holds is known unless the directory
\* is still to be read.
Token(d) == d \in Range(stack) \cup Found \/ \E t \in Threads : Busy(t) /\ worker[t].job = d
Complete ==
    /\ err = Ok => \A d \in Known \cap Dirs : Token(d) \/ Kids(d) \subseteq Known \cup Pruned
    /\ main.pc # "begin" => Root \in Known

\* Known are entries of the walk with the directories above them.
Sound ==
    /\ Known \subseteq InWalk
    /\ \A n \in Known \ {Root} : Parent[n] \in Known

Order ==
    /\ IsInjective(seen)
    /\ kind = "pre" => /\ dirs = <<>> /\ Found \subseteq Range(seen)
                       /\ \A j \in DOMAIN seen : seen[j] # Root => \E i \in 1..(j - 1) : seen[i] = Parent[seen[j]]
    /\ kind = "post" => /\ IsInjective(dirs)
                        /\ Range(dirs) \cap Range(seen) = {} /\ Found \cap (Range(dirs) \cup Range(seen)) = {}
                        /\ \A j \in DOMAIN dirs : dirs[j] # Root => \E i \in 1..(j - 1) : dirs[i] = Parent[dirs[j]]
                        /\ \A i \in DOMAIN seen : \A n \in Kids(seen[i]) \cap Known :
                               \E j \in 1..(i - 1) : seen[j] = n

Tree == Unique /\ Fresh /\ Complete /\ Sound /\ Order

\* What the caller is told.
Told ==
    /\ main.pc = "walked" /\ err = Ok => Range(seen) = InWalk
    /\ result.over => main.pc = "over" /\ (result.rc = Ok => Range(seen) = InWalk)

\* The inductive invariant.
Good == Shape /\ Team /\ Tree /\ Told
IInv ==
    /\ kind \in {"pre", "post", "parallel", "serial", "fd"}
    /\ Walking => Good
    /\ ~Walking => seen = <<>>

-----------------------------------------------------------------------------
(* What the steps do to the tree. *)

\* A thread at work is not touched, and none starts to work.
Still(t) == Busy(t) \/ Busy(t)' => worker'[t] = worker[t]

\* The tree is left alone.
Quiet ==
    /\ UNCHANGED <<kind, stack, dirs, seen>> /\ \A t \in Threads : Still(t)
    /\ err' = Ok => err = Ok
    /\ main'.pc # "begin" => main.pc # "begin"

\* The caller puts the root on the stack; no thread has started.
Starts ==
    /\ stack' = <<Root>>
    /\ seen' = IF kind = "post" THEN <<>> ELSE <<Root>>
    /\ dirs' = IF kind = "post" THEN <<Root>> ELSE <<>>
    /\ kind' = kind
    /\ \A t \in Threads : worker'[t].pc = "off"

\* A thread takes the last directory of the stack.
Takes(t, d) ==
    /\ ~Busy(t) /\ stack # <<>> /\ d = stack[Len(stack)]
    /\ worker'[t].pc = "open" /\ worker'[t].job = d
    /\ \A u \in Threads : u # t => worker'[u] = worker[u]
    /\ stack' = SubSeq(stack, 1, Len(stack) - 1)
    /\ UNCHANGED <<kind, dirs, seen, err, main>>

\* The directory is opened, or cannot be read to the end.
Opens(t) ==
    /\ Busy(t) /\ worker'[t].pc \in {"read", "failed"} /\ worker'[t].job = worker[t].job
    /\ \/ worker[t].pc = "open" /\ worker'[t].subs = <<>>
       \/ worker[t].pc = "read" /\ worker'[t].subs = worker[t].subs
    /\ worker'[t].pc = "read" => worker[t].pc = "open" /\ worker'[t].left = Kids(worker[t].job)
    /\ \A u \in Threads : u # t => worker'[u] = worker[u]
    /\ UNCHANGED <<kind, stack, dirs, seen, err, main>>

\* walk_one: one entry of the directory that is being read, which becomes known unless it is pruned.
Enters(t, n) ==
    /\ n \in worker[t].left /\ worker[t].pc = "read"
    /\ worker'[t].pc = "read" /\ worker'[t].job = worker[t].job /\ worker'[t].left = worker[t].left \ {n}
    /\ worker'[t].subs = IF n \in Dirs \ Pruned THEN Append(worker[t].subs, n) ELSE worker[t].subs
    /\ seen' = IF n \notin Pruned /\ (n \in Dirs => kind = "pre") THEN Append(seen, n) ELSE seen
    /\ \A u \in Threads : u # t => worker'[u] = worker[u]
    /\ UNCHANGED <<kind, stack, dirs, err, main>>

\* A thread is done with its directory, or gives it up.
Ends(t) == Holding(t) /\ ~Busy(t)' /\ \A u \in Threads : u # t => Still(u)

\* The directories found are handed over.
Pushes(t, s, d) ==
    /\ Ends(t) /\ worker[t].pc = "read" /\ worker[t].left = {} /\ s = worker[t].subs /\ d = worker[t].job
    /\ stack' = stack \o s
    /\ dirs' = IF kind = "post" THEN dirs \o s ELSE dirs
    /\ UNCHANGED <<kind, seen, err, main>>

\* The directories that a failing thread has found are forgotten.
GivesUp(t, s, d) ==
    /\ Ends(t) /\ s = worker[t].subs /\ d = worker[t].job
    /\ err' # Ok
    /\ UNCHANGED <<kind, stack, dirs, seen, main>>

\* The last directory noted is reported: what it holds has been.
Reports(d) ==
    /\ main.pc = "tail" /\ dirs # <<>> /\ d = dirs[Len(dirs)]
    /\ seen' = Append(seen, d) /\ dirs' = SubSeq(dirs, 1, Len(dirs) - 1)
    /\ UNCHANGED <<kind, stack, err, worker, main>>

TreeStep ==
    \/ Quiet \/ Starts \/ Reports(dirs[Len(dirs)])
    \/ \E t \in Threads : \/ Takes(t, stack[Len(stack)]) \/ Opens(t) \/ \E n : Enters(t, n)
                          \/ Pushes(t, worker[t].subs, worker[t].job)
                          \/ GivesUp(t, worker[t].subs, worker[t].job)
=============================================================================
