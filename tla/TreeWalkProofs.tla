--------------------------- MODULE TreeWalkProofs ---------------------------
(***************************************************************************)
(* fs_walk_tree_ex for any tree, any pruned names and any number of        *)
(* threads, of which any may fail to start and any call may fail: nothing  *)
(* is reported twice, directories come before or after what they hold, and *)
(* a walk without an error reports every entry.                            *)
(***************************************************************************)
EXTENDS TreeWalkKnown, FiniteSetTheorems

-----------------------------------------------------------------------------
(* The steps keep what the invariant says of the threads and the caller:    *)
(* who has started, who is idle, and that the walk is over only when nobody *)
(* has anything to do.                                                      *)

(* Types. *)

Pcs == {"off", "top", "woken", "after", "wait", "open", "read", "failed", "exit"}

\* One thread moves.
LEMMA Moved ==
    ASSUME NEW ws \in [Threads -> Worker], NEW t \in Threads, NEW p \in Pcs
    PROVE  /\ [ws EXCEPT ![t].pc = p] \in [Threads -> Worker]
           /\ \A u \in Threads : u # t => [ws EXCEPT ![t].pc = p][u] = ws[u]
           /\ [ws EXCEPT ![t].pc = p][t].pc = p
           /\ [ws EXCEPT ![t].pc = p][t].job = ws[t].job
           /\ [ws EXCEPT ![t].pc = p][t].left = ws[t].left
           /\ [ws EXCEPT ![t].pc = p][t].subs = ws[t].subs
  BY Zenon DEF Worker, Pcs

\* The waiting threads move.
LEMMA Woken ==
    ASSUME NEW ws \in [Threads -> Worker]
    PROVE  /\ Broadcast(ws) \in [Threads -> Worker]
           /\ \A u \in Threads : ws[u].pc # "wait" => Broadcast(ws)[u] = ws[u]
           /\ \A u \in Threads : ws[u].pc = "wait" => Broadcast(ws)[u].pc = "woken"
  BY Zenon DEF Worker, Broadcast

\* The last element is taken off.
LEMMA Popped ==
    ASSUME NEW S, NEW s \in Seq(S), s # <<>>
    PROVE  SubSeq(s, 1, Len(s) - 1) \in Seq(S) /\ s[Len(s)] \in S
  <1>1. Len(s) \in Nat \ {0} /\ Len(s) - 1 \in Nat /\ Len(s) = (Len(s) - 1) + 1
    OBVIOUS
  <1>2. PICK n \in Nat : n = Len(s) - 1 /\ Len(s) = n + 1
    BY <1>1, Zenon
  <1>3. SubSeq(s, 1, n) \in Seq(S) /\ s[n + 1] \in S
    BY <1>2
  <1> QED BY <1>2, <1>3, Zenon

LEMMA IdlersFinite == IsFiniteSet(Idlers) /\ Cardinality(Idlers) \in Nat
  <1>1. IsFiniteSet(1..Want)
    BY TreeAssumption, FS_Interval
  <1>2. Idlers \subseteq 1..Want
    BY Zenon DEF Idlers, Threads
  <1> QED BY <1>1, <1>2, FS_Subset, FS_CardinalityType, Zenon

-----------------------------------------------------------------------------
(* The caller. *)

\* The caller starts with the root.
LEMMA BeginTeam ==
    ASSUME Walking, Good, Begin
    PROVE  Shape' /\ Team' /\ Told' /\ Starts
  <1>0. Root \in Dirs /\ Root \in Nodes /\ Want \in Nat \ {0}
    BY TreeAssumption, Zenon
  <1>1. /\ main.pc = "begin" /\ stack = <<>> /\ dirs = <<>> /\ seen = <<>> /\ ~done /\ threads = Want /\ main.started = 0
        /\ UNCHANGED <<kind, present, idle, threads, done, err, worker, result>>
        /\ stack' = <<Root>>
        /\ seen' = (IF kind = "post" THEN <<>> ELSE <<Root>>) /\ dirs' = (IF kind = "post" THEN <<Root>> ELSE <<>>)
        /\ main' = [main EXCEPT !.pc = IF Want = 1 THEN "alone" ELSE "spawn"]
    BY Zenon DEF Begin, Good, Team, Walking, Post
  <1>2. main' \in Main /\ main'.pc \in {"alone", "spawn"} /\ main'.started = 0
    <2>1. PICK p \in {"alone", "spawn"} : p = IF Want = 1 THEN "alone" ELSE "spawn"
      BY Zenon
    <2> QED BY <1>1, <2>1, Zenon DEF Good, Shape, Main
  <1>3. \A t \in Threads : worker[t].pc = "off"
    BY <1>1, <1>0 DEF Good, Team, Threads
  <1>4. Shape'
    BY <1>0, <1>1, <1>2 DEF Good, Shape
  <1>5. Team'
    <2>1. main'.started <= main'.tried
      BY <1>1, <1>2 DEF Main
    <2> QED BY <1>1, <1>2, <1>3, <2>1, Zenon DEF Good, Team, Idlers, Busy, Ended
  <1>6. Starts
    BY <1>1, <1>2, <1>3, Zenon DEF Starts
  <1>7. Told'
    BY <1>1, <1>2, Zenon DEF Good, Told
  <1> QED BY <1>4, <1>5, <1>6, <1>7, Zenon

LEMMA SpawnTeam ==
    ASSUME Walking, Good, Spawn
    PROVE  Shape' /\ Team' /\ Told' /\ Quiet
  <1>0. Want \in Nat \ {0} /\ Threads = 1..Want
    BY TreeAssumption, Zenon DEF Threads
  <1>1. /\ main.pc = "spawn" /\ main.tried < Want /\ threads = Want /\ main.started <= main.tried
        /\ main.tried \in Nat /\ main.started \in Nat
        /\ UNCHANGED <<kind, present, stack, dirs, idle, threads, done, err, seen, result>>
    BY <1>0 DEF Spawn, Good, Team, walk, Shape, Main
  <1>2. PICK d \in {0, 1} : /\ main' = [main EXCEPT !.tried = @ + 1, !.started = @ + d]
                            /\ worker' = IF d = 1 THEN [worker EXCEPT ![main.started + 1].pc = "top"] ELSE worker
    <2>1. CASE /\ main' = [main EXCEPT !.tried = @ + 1, !.started = @ + 1]
               /\ worker' = [worker EXCEPT ![main.started + 1].pc = "top"]
      BY <2>1, Zenon
    <2>2. CASE main' = [main EXCEPT !.tried = @ + 1] /\ UNCHANGED worker
      <3>1. main.started + 0 = main.started
        BY <1>1
      <3>2. [main EXCEPT !.tried = @ + 1, !.started = @] = [main EXCEPT !.tried = @ + 1]
        BY Zenon DEF Good, Shape, Main
      <3>3. main' = [main EXCEPT !.tried = @ + 1, !.started = @ + 0]
        BY <2>2, <3>1, <3>2, Zenon
      <3> QED BY <3>3, <2>2
    <2> QED BY <2>1, <2>2, Zenon DEF Spawn
  <1>3. main' \in Main /\ main'.pc = "spawn" /\ main'.tried = main.tried + 1 /\ main'.started = main.started + d
    <2>1. PICK n \in 0..Want : n = main.tried + 1
      BY <1>0, <1>1
    <2>2. PICK k \in 0..Want : k = main.started + d
      BY <1>0, <1>1
    <2> QED BY <1>1, <1>2, <2>1, <2>2, Zenon DEF Good, Shape, Main
  <1>4. /\ worker' \in [Threads -> Worker]
        /\ \A u \in Threads : u # main.started + 1 \/ d = 0 => worker'[u] = worker[u]
        /\ d = 1 => main.started + 1 \in Threads /\ worker'[main.started + 1].pc = "top"
    <2>1. main.started + 1 \in Threads
      BY <1>0, <1>1
    <2>2. "top" \in Pcs /\ worker \in [Threads -> Worker]
      BY Zenon DEF Pcs, Good, Shape
    <2> QED BY <1>2, <2>1, <2>2, Moved
  <1>5. d = 1 => worker[main.started + 1].pc = "off"
    BY <1>1, <1>4 DEF Good, Team
  <1>6. \A u \in Threads : /\ worker'[u].pc = worker[u].pc \/ (worker'[u].pc = "top" /\ worker[u].pc = "off")
                           /\ Still(u)
    BY <1>4, <1>5, Zenon DEF Still, Busy
  <1>7. Shape'
    BY <1>1, <1>3, <1>4, Zenon DEF Good, Shape
  <1>8. Team'
    <2>1. Idlers' = Idlers
      BY <1>6, Zenon DEF Idlers
    <2>2. \A u \in Threads : worker'[u].pc = "off" <=> u > main'.started
      <3> TAKE u \in Threads
      <3>1. worker[u].pc = "off" <=> u > main.started
        BY Zenon DEF Good, Team
      <3> QED BY <1>0, <1>1, <1>3, <1>4, <3>1
    <2>3. main'.started <= threads' /\ main'.started <= main'.tried
      <3>1. d = 0 \/ d = 1
        BY Zenon
      <3>2. main.started + d <= Want /\ main.started + d <= main.tried + 1
        BY <1>0, <1>1, <3>1
      <3> QED BY <1>1, <1>3, <3>2, Zenon
    <2>4. \A u \in Threads : (worker'[u].pc = "exit" => worker[u].pc = "exit") /\ (Busy(u)' => Busy(u))
      BY <1>6, Zenon DEF Busy
    <2> QED BY <1>1, <1>3, <2>1, <2>2, <2>3, <2>4, Zenon DEF Good, Team, Ended
  <1>9. Quiet
    BY <1>1, <1>3, <1>6, Zenon DEF Quiet
  <1>10. Told'
    BY <1>1, <1>3, Zenon DEF Good, Told
  <1> QED BY <1>7, <1>8, <1>9, <1>10, Zenon

LEMMA CorrectTeam ==
    ASSUME Walking, Good, Correct
    PROVE  Shape' /\ Team' /\ Told' /\ Quiet
  <1>0. Want \in Nat \ {0} /\ Threads = 1..Want
    BY TreeAssumption DEF Threads
  <1>1. /\ main.pc = "spawn" /\ threads = Want /\ main.started \in Nat /\ main.started <= Want /\ main.started > 0
        /\ main' = [main EXCEPT !.pc = "join"]
        /\ UNCHANGED <<kind, present, stack, dirs, idle, done, err, seen, result>>
    BY <1>0 DEF Correct, Good, Team, Shape, Main
  <1>2. main' \in Main /\ main'.pc = "join" /\ main'.started = main.started
    BY <1>1, Zenon DEF Good, Shape, Main
  <1>3. threads' = main.started
    BY <1>1, Zenon DEF Correct, Corrected
  <1>4. /\ worker' \in [Threads -> Worker]
        /\ \A u \in Threads : \/ worker'[u] = worker[u]
                              \/ worker[u].pc = "wait" /\ worker'[u].pc = "woken"
    BY Woken DEF Correct, Good, Shape
  <1>5. \A u \in Threads : Still(u)
    BY <1>4, Zenon DEF Still, Busy
  <1>6. Shape'
    BY <1>0, <1>1, <1>2, <1>3, <1>4 DEF Good, Shape
  <1>7. Team'
    <2>1. Idlers' = Idlers
      BY <1>4, Zenon DEF Idlers
    <2>2. \A u \in Threads : /\ worker'[u].pc = "exit" <=> worker[u].pc = "exit"
                             /\ worker'[u].pc = "off" <=> worker[u].pc = "off"
                             /\ Busy(u)' <=> Busy(u)
      BY <1>4, Zenon DEF Busy
    <2>3. main'.started <= threads'
      BY <1>1, <1>2, <1>3
    <2> QED BY <1>1, <1>2, <2>1, <2>2, <2>3, Zenon DEF Good, Team, Ended
  <1>8. Quiet
    BY <1>1, <1>2, <1>5, Zenon DEF Quiet
  <1>9. Told'
    BY <1>1, <1>2, Zenon DEF Good, Told
  <1> QED BY <1>6, <1>7, <1>8, <1>9

LEMMA AloneTeam ==
    ASSUME Walking, Good, Alone
    PROVE  Shape' /\ Team' /\ Told' /\ Quiet
  <1>0. Want \in Nat \ {0} /\ Threads = 1..Want /\ 1 \in Threads
    BY TreeAssumption DEF Threads
  <1>1. /\ main.pc \in {"alone", "spawn"} /\ main.started = 0 /\ threads' = 1
        /\ main' = [main EXCEPT !.pc = "join", !.started = 1]
        /\ worker' = [worker EXCEPT ![1].pc = "top"]
        /\ UNCHANGED <<kind, present, stack, dirs, idle, done, err, seen, result>>
    BY Zenon DEF Alone, Good, Team
  <1>2. main' \in Main /\ main'.pc = "join" /\ main'.started = 1
    <2>1. PICK n \in 0..Want : n = 1
      BY <1>0
    <2> QED BY <1>1, <2>1, Zenon DEF Good, Shape, Main
  <1>3. \A u \in Threads : worker[u].pc = "off"
    BY <1>0, <1>1 DEF Good, Team
  <1>4. /\ worker' \in [Threads -> Worker] /\ worker'[1].pc = "top"
        /\ \A u \in Threads : u # 1 => worker'[u].pc = "off"
    <2>1. "top" \in Pcs /\ worker \in [Threads -> Worker]
      BY Zenon DEF Pcs, Good, Shape
    <2> QED BY <1>0, <1>1, <1>3, <2>1, Moved
  <1>5. \A u \in Threads : Still(u) /\ worker'[u].pc \in {"off", "top"}
    BY <1>3, <1>4, Zenon DEF Still, Busy
  <1>6. Shape'
    BY <1>0, <1>1, <1>2, <1>4, Zenon DEF Good, Shape
  <1>7. Team'
    <2>1. Idlers' = Idlers
      BY <1>3, <1>5, Zenon DEF Idlers
    <2>2. \A u \in Threads : worker'[u].pc = "off" <=> u > main'.started
      BY <1>0, <1>2, <1>4
    <2>3. \A u \in Threads : ~Busy(u)' /\ worker'[u].pc # "exit"
      BY <1>5, Zenon DEF Busy
    <2> QED BY <1>1, <1>2, <2>1, <2>2, <2>3 DEF Good, Team, Ended
  <1>8. Quiet
    BY <1>1, <1>2, <1>5, Zenon DEF Quiet
  <1>9. Told'
    BY <1>1, <1>2, Zenon DEF Good, Told
  <1> QED BY <1>6, <1>7, <1>8, <1>9

\* The caller moves on: nothing else changes.
LEMMA MovesOn ==
    ASSUME Good, NEW p \in Ended, main.pc # "begin", main' = [main EXCEPT !.pc = p],
           err' = err \/ err' = Failed, p = "tail" => err' = Ok /\ done /\ kind = "post",
           \A t \in Threads : worker[t].pc \in {"off", "exit"},
           UNCHANGED <<kind, present, stack, dirs, idle, threads, done, worker, seen>>
    PROVE  Shape' /\ Team' /\ Quiet /\ main'.pc = p
  <1>1. main' \in Main /\ main'.pc = p /\ main'.started = main.started
    BY Zenon DEF Good, Shape, Main, Ended
  <1>2. Shape'
    BY <1>1, Zenon DEF Good, Shape
  <1>3. err' = Ok => err = Ok
    BY DEF Ok, Failed
  <1>4. Team'
    BY <1>1, <1>3, Zenon DEF Good, Team, Ended, Idlers, Busy
  <1>5. Quiet
    BY <1>3, Zenon DEF Quiet, Still
  <1> QED BY <1>1, <1>2, <1>4, <1>5, Zenon

LEMMA JoinTeam ==
    ASSUME Walking, Good, Join
    PROVE  Shape' /\ Team' /\ Quiet
  <1>0. Want \in Nat \ {0} /\ Threads = 1..Want
    BY TreeAssumption DEF Threads
  <1> DEFINE p == IF err # Ok THEN "walked" ELSE IF Post THEN "tail" ELSE "walked"
  <1>1. /\ main.pc = "join" /\ main.started > 0 /\ main.started \in 1..Want /\ \A t \in 1..main.started : worker[t].pc = "exit"
        /\ main' = [main EXCEPT !.pc = p]
        /\ UNCHANGED <<kind, present, stack, dirs, idle, threads, done, err, worker, seen, result>>
    BY <1>0 DEF Join, Good, Team, Shape, Main, walk
  <1>2. \A t \in Threads : worker[t].pc \in {"off", "exit"}
    BY <1>0, <1>1 DEF Good, Team
  <1>3. done
    <2>1. 1 \in Threads /\ worker[1].pc = "exit"
      BY <1>0, <1>1
    <2> QED BY <2>1, Zenon DEF Good, Team
  <1>4. p \in Ended /\ (p = "tail" => err = Ok /\ kind = "post")
    BY Zenon DEF Ended, Post, Walking
  <1> HIDE DEF p
  <1> QED BY <1>1, <1>2, <1>3, <1>4, MovesOn, Zenon

LEMMA TailDoneTeam ==
    ASSUME Walking, Good, TailDone
    PROVE  Shape' /\ Team' /\ Quiet
  <1>1. /\ main.pc = "tail" /\ err = Ok /\ done /\ dirs = <<>> /\ "walked" \in Ended
        /\ main' = [main EXCEPT !.pc = "walked"]
        /\ \A t \in Threads : worker[t].pc \in {"off", "exit"}
        /\ UNCHANGED <<kind, present, stack, dirs, idle, threads, done, err, worker, seen, result>>
    BY Zenon DEF TailDone, Good, Team, walk, Ended
  <1> QED BY <1>1, MovesOn, Zenon

LEMMA TailFailsTeam ==
    ASSUME Walking, Good, TailFails
    PROVE  Shape' /\ Team' /\ Told' /\ Quiet
  <1>1. /\ main.pc = "tail" /\ err' = Failed /\ "walked" \in Ended
        /\ main' = [main EXCEPT !.pc = "walked"]
        /\ \A t \in Threads : worker[t].pc \in {"off", "exit"}
        /\ UNCHANGED <<kind, present, stack, dirs, idle, threads, done, worker, seen, result>>
    BY Zenon DEF TailFails, Good, Team, Ended
  <1>2. Shape' /\ Team' /\ Quiet /\ main'.pc = "walked"
    BY <1>1, MovesOn, Zenon
  <1> QED BY <1>1, <1>2 DEF Good, Told, Ok, Failed

LEMMA WalkedTeam ==
    ASSUME Walking, Good, Walked
    PROVE  Shape' /\ Team' /\ Told' /\ Quiet
  <1>1. /\ main.pc = "walked" /\ "over" \in Ended
        /\ main' = [main EXCEPT !.pc = "over"]
        /\ result' = [over |-> TRUE, rc |-> IF err = Canceled THEN Ok ELSE err, partial |-> err = Canceled]
        /\ \A t \in Threads : worker[t].pc \in {"off", "exit"}
        /\ UNCHANGED <<kind, present, stack, dirs, idle, threads, done, err, worker, seen>>
    BY Zenon DEF Walked, Return, Good, Team, Ended, walk, Walking
  <1>2. Shape' /\ Team' /\ Quiet /\ main'.pc = "over"
    BY <1>1, MovesOn, Zenon
  <1>3. result'.rc = err
    BY <1>1 DEF Good, Shape, Ok, Failed, Canceled
  <1> QED BY <1>1, <1>2, <1>3, Zenon DEF Good, Told

LEMMA TailDirTeam ==
    ASSUME Walking, Good, TailDir
    PROVE  Shape' /\ Team' /\ Told' /\ Reports(dirs[Len(dirs)])
  <1>1. /\ main.pc = "tail" /\ dirs # <<>> /\ seen' = Append(seen, dirs[Len(dirs)]) /\ dirs' = SubSeq(dirs, 1, Len(dirs) - 1)
        /\ UNCHANGED <<kind, present, stack, idle, threads, done, err, worker, main, result>>
    BY Zenon DEF TailDir, NextDir, Others, Walking, Removing
  <1>2. dirs' \in Seq(Dirs) /\ seen' \in Seq(Nodes)
    <2>1. dirs \in Seq(Dirs) /\ seen \in Seq(Nodes)
      BY Zenon DEF Good, Shape
    <2>2. dirs' \in Seq(Dirs) /\ dirs[Len(dirs)] \in Nodes
      BY <1>1, <2>1, Popped, TreeAssumption, Zenon
    <2> QED BY <1>1, <2>1, <2>2
  <1>3. Shape'
    BY <1>1, <1>2, Zenon DEF Good, Shape
  <1>4. Team'
    BY <1>1, Zenon DEF Good, Team, Idlers, Busy
  <1>5. Told'
    BY <1>1, Zenon DEF Good, Told
  <1>6. Reports(dirs[Len(dirs)])
    BY <1>1, Zenon DEF Reports
  <1> QED BY <1>3, <1>4, <1>5, <1>6, Zenon

-----------------------------------------------------------------------------
(* The threads. *)

\* While a thread works the caller waits, and what it will say is open.
LEMMA AtWork ==
    ASSUME Good, NEW t \in Threads, worker[t].pc \notin {"off", "exit"}
    PROVE  /\ main.pc \in {"spawn", "join"} /\ main.started > 0 /\ t <= main.started
           /\ UNCHANGED <<main, result>> => Told'
  <1>0. t \in Nat /\ main.started \in Nat /\ main \in Main
    BY TreeAssumption DEF Good, Shape, Main, Threads
  <1>1. main.pc \notin Ended /\ t <= main.started /\ main.started > 0
    BY <1>0, TreeAssumption DEF Good, Team, Threads
  <1>2. main.pc \in {"spawn", "join"}
    BY <1>0, <1>1 DEF Good, Team, Main, Ended
  <1>3. UNCHANGED <<main, result>> => Told'
    BY <1>2, Zenon DEF Good, Told
  <1> QED BY <1>1, <1>2, <1>3, Zenon

LEMMA TeamKept ==
    ASSUME Good, NEW t \in Threads, worker[t].pc \notin {"off", "exit"}, UNCHANGED <<main, threads>>,
           \A u \in Threads : worker'[u].pc = "off" <=> worker[u].pc = "off",
           \A u \in Threads : worker'[u].pc = "exit" => done',
           idle' = Cardinality(Idlers'),
           done' /\ err' = Ok => stack' = <<>> /\ \A u \in Threads : ~Busy(u)'
    PROVE  Team'
  <1>1. main.pc \in {"spawn", "join"} /\ main.started > 0
    BY AtWork, Zenon
  <1> QED BY <1>1, Zenon DEF Good, Team, Ended

\* The idle threads without one: what a thread that comes to the top counts.
LEMMA IdleOthers ==
    ASSUME Good, NEW t \in Threads, worker[t].pc # "wait"
    PROVE  (IF worker[t].pc = "woken" THEN idle - 1 ELSE idle) = Cardinality(Idlers \ {t})
  <1>1. t \in Idlers <=> worker[t].pc = "woken"
    BY Zenon DEF Idlers
  <1>2. idle = Cardinality(Idlers)
    BY Zenon DEF Good, Team
  <1> QED BY <1>1, <1>2, IdlersFinite, FS_RemoveElement, Zenon

LEMMA SpuriousTeam ==
    ASSUME Walking, Good, NEW t \in Threads, Spurious(t)
    PROVE  Shape' /\ Team' /\ Told' /\ Quiet
  <1>1. /\ worker[t].pc = "wait" /\ worker' = [worker EXCEPT ![t].pc = "woken"]
        /\ UNCHANGED <<kind, present, stack, dirs, idle, threads, done, err, main, seen, result>>
    BY Zenon DEF Spurious, walk
  <1>2. /\ worker' \in [Threads -> Worker]
        /\ \A u \in Threads : u # t => worker'[u] = worker[u]
        /\ worker'[t].pc = "woken"
    <2>1. "woken" \in Pcs /\ worker \in [Threads -> Worker]
      BY Zenon DEF Pcs, Good, Shape
    <2> QED BY <1>1, <2>1, Moved
  <1>3. Shape'
    BY <1>1, <1>2, Zenon DEF Good, Shape
  <1>4. Team'
    <2>1. Idlers' = Idlers
      BY <1>1, <1>2, Zenon DEF Idlers
    <2>2. \A u \in Threads : /\ worker'[u].pc = "off" <=> worker[u].pc = "off"
                             /\ worker'[u].pc = "exit" <=> worker[u].pc = "exit"
                             /\ Busy(u)' <=> Busy(u)
      BY <1>1, <1>2, Zenon DEF Busy
    <2>3. idle' = Cardinality(Idlers')
      BY <1>1, <2>1, Zenon DEF Good, Team
    <2>4. /\ \A u \in Threads : worker'[u].pc = "exit" => done'
          /\ done' /\ err' = Ok => stack' = <<>> /\ \A u \in Threads : ~Busy(u)'
      BY <1>1, <2>2, Zenon DEF Good, Team
    <2> QED BY <1>1, <2>2, <2>3, <2>4, TeamKept, Zenon
  <1>5. Quiet
    <2>1. \A u \in Threads : Still(u)
      BY <1>1, <1>2, Zenon DEF Still, Busy
    <2> QED BY <1>1, <2>1, Zenon DEF Quiet
  <1>6. Told'
    BY <1>1, AtWork, Zenon
  <1> QED BY <1>3, <1>4, <1>5, <1>6, Zenon

\* The last one: all threads that have started are idle but this one.
LEMMA LastAlone ==
    ASSUME Good, NEW t \in Threads, worker[t].pc \in {"top", "woken", "after"},
           Cardinality(Idlers \ {t}) + 1 = threads
    PROVE  \A u \in Threads : ~Busy(u)
  <1>0. Want \in Nat \ {0} /\ Threads = 1..Want /\ main.started \in 0..Want /\ threads \in 1..Want
    BY TreeAssumption, Zenon DEF Threads, Good, Shape, Main
  <1> DEFINE A == 1..main.started
  <1> DEFINE B == Idlers \ {t}
  <1>1. IsFiniteSet(A) /\ Cardinality(A) = main.started
    <2>1. PICK n \in Nat : n = main.started
      BY <1>0
    <2>2. IsFiniteSet(1..n) /\ Cardinality(1..n) = IF 1 > n THEN 0 ELSE n - 1 + 1
      BY FS_Interval
    <2>3. (IF 1 > n THEN 0 ELSE n - 1 + 1) = n
      OBVIOUS
    <2> QED BY <2>1, <2>2, <2>3, Zenon
  <1>2. t \in A
    <2>1. t <= main.started
      BY AtWork, Zenon
    <2> QED BY <1>0, <2>1
  <1>3. IsFiniteSet(A \ {t}) /\ Cardinality(A \ {t}) = main.started - 1
    <2> HIDE DEF A
    <2> QED BY <1>1, <1>2, FS_RemoveElement, Zenon
  <1>4. \A u \in Threads : u \in A <=> worker[u].pc # "off"
    BY <1>0 DEF Good, Team
  <1>5. B \subseteq A \ {t}
    <2>1. ASSUME NEW u \in B PROVE u \in A \ {t}
      <3>1. u \in Threads /\ u # t /\ worker[u].pc # "off"
        BY Zenon DEF Idlers
      <3> QED BY <1>4, <3>1, Zenon
    <2> QED BY <2>1, Zenon
  <1>6. Cardinality(B) <= main.started - 1 /\ main.started <= threads /\ Cardinality(B) \in Nat
    <2>1. main.started <= threads
      BY Zenon DEF Good, Team
    <2>2. IsFiniteSet(B) /\ Cardinality(B) \in Nat /\ Cardinality(B) <= Cardinality(A \ {t})
      <3> HIDE DEF A, B
      <3> QED BY <1>3, <1>5, FS_Subset, FS_CardinalityType, Zenon
    <2> QED BY <1>3, <2>1, <2>2, Zenon
  <1>7. Cardinality(B) = Cardinality(A \ {t})
    BY <1>0, <1>3, <1>6
  <1>8. B = A \ {t}
    <2> HIDE DEF A, B
    <2> QED BY <1>3, <1>5, <1>7, FS_Subset, Zenon
  <1>9. ASSUME NEW u \in Threads PROVE ~Busy(u)
    <2>1. CASE u = t
      BY <2>1, Zenon DEF Busy
    <2>2. CASE u # t /\ u \in A
      <3>1. u \in Idlers
        BY <1>8, <2>2, Zenon
      <3> QED BY <3>1, Zenon DEF Idlers, Busy
    <2>3. CASE u \notin A
      BY <1>4, <2>3, Zenon DEF Busy
    <2> QED BY <2>1, <2>2, <2>3, Zenon
  <1> QED BY <1>9, Zenon

\* A thread comes to the top and finds nothing to take.
LEMMA TopIdle ==
    ASSUME Walking, Good, NEW t \in Threads, worker[t].pc \in {"top", "woken", "after"},
           NEW p \in {"exit", "wait"},
           worker' = [worker EXCEPT ![t].pc = p] \/ worker' = Broadcast([worker EXCEPT ![t].pc = p]),
           idle' = IF p = "wait" THEN Cardinality(Idlers \ {t}) + 1 ELSE Cardinality(Idlers \ {t}),
           worker' # [worker EXCEPT ![t].pc = p] => p = "exit",
           p = "exit" => done',
           done' \in BOOLEAN, done => done',
           done' /\ ~done => stack = <<>> /\ \A u \in Threads : ~Busy(u),
           UNCHANGED <<kind, present, stack, dirs, threads, err, main, seen, result>>
    PROVE  Shape' /\ Team' /\ Told' /\ Quiet
  <1> DEFINE ws == [worker EXCEPT ![t].pc = p]
  <1>1. /\ ws \in [Threads -> Worker]
        /\ \A u \in Threads : u # t => ws[u] = worker[u]
        /\ ws[t].pc = p
    <2>1. p \in Pcs /\ worker \in [Threads -> Worker]
      BY Zenon DEF Pcs, Good, Shape
    <2> QED BY <2>1, Moved
  <1>2. worker' = ws \/ (worker' = Broadcast(ws) /\ p = "exit")
    BY Zenon
  <1> HIDE DEF ws
  <1>3. /\ worker' \in [Threads -> Worker]
        /\ worker'[t].pc = p
        /\ \A u \in Threads : u # t => \/ worker'[u] = worker[u]
                                       \/ worker[u].pc = "wait" /\ worker'[u].pc = "woken"
    <2>1. CASE worker' = ws
      BY <1>1, <2>1, Zenon
    <2>2. CASE worker' = Broadcast(ws) /\ p = "exit"
      BY <1>1, <2>2, Woken
    <2> QED BY <1>2, <2>1, <2>2, Zenon
  <1>4. Cardinality(Idlers \ {t}) \in Nat /\ IsFiniteSet(Idlers \ {t})
    BY IdlersFinite, FS_RemoveElement, FS_CardinalityType, Zenon
  <1>5. Shape'
    BY <1>3, <1>4 DEF Good, Shape
  <1>6. Team'
    <2>1. idle' = Cardinality(Idlers')
      <3>1. CASE p = "exit"
        <4>1. Idlers' = Idlers \ {t}
          BY <1>3, <3>1, Zenon DEF Idlers
        <4> QED BY <3>1, <4>1, Zenon
      <3>2. CASE p = "wait"
        <4>1. Idlers' = (Idlers \ {t}) \cup {t}
          BY <1>3, <3>2, Zenon DEF Idlers
        <4>2. Cardinality((Idlers \ {t}) \cup {t}) = Cardinality(Idlers \ {t}) + 1
          BY <1>4, FS_AddElement, Zenon
        <4> QED BY <3>2, <4>1, <4>2, Zenon
      <3> QED BY <3>1, <3>2, Zenon
    <2>2. \A u \in Threads : /\ worker'[u].pc = "off" <=> worker[u].pc = "off"
                             /\ worker'[u].pc = "exit" => worker[u].pc = "exit" \/ p = "exit"
                             /\ Busy(u)' <=> Busy(u)
      BY <1>3, Zenon DEF Busy
    <2>3. /\ \A u \in Threads : worker'[u].pc = "exit" => done'
          /\ done' /\ err' = Ok => stack' = <<>> /\ \A u \in Threads : ~Busy(u)'
      BY <2>2, Zenon DEF Good, Team
    <2> QED BY <2>1, <2>2, <2>3, TeamKept, Zenon
  <1>7. Quiet
    <2>1. \A u \in Threads : Still(u)
      BY <1>3, Zenon DEF Still, Busy
    <2> QED BY <2>1, Zenon DEF Quiet
  <1>8. Told'
    BY AtWork, Zenon
  <1> QED BY <1>5, <1>6, <1>7, <1>8, Zenon

LEMMA TakeTeam ==
    ASSUME Walking, Good, NEW t \in Threads, worker[t].pc \in {"top", "woken", "after"}, stack # <<>>,
           worker' = [worker EXCEPT ![t].pc = "open", ![t].job = stack[Len(stack)]],
           stack' = SubSeq(stack, 1, Len(stack) - 1),
           idle' = Cardinality(Idlers \ {t}),
           UNCHANGED <<kind, present, dirs, threads, done, err, main, seen, result>>
    PROVE  Shape' /\ Team' /\ Told' /\ Takes(t, stack[Len(stack)])
  <1>1. PICK d \in Dirs : d = stack[Len(stack)]
    BY Popped, Zenon DEF Good, Shape
  <1>2. stack' \in Seq(Dirs)
    BY Popped, Zenon DEF Good, Shape
  <1>3. worker' = [worker EXCEPT ![t] = [worker[t] EXCEPT !.pc = "open", !.job = d]]
    BY <1>1, Zenon DEF Good, Shape
  <1>4. /\ worker' \in [Threads -> Worker]
        /\ worker'[t].pc = "open" /\ worker'[t].job = d
        /\ \A u \in Threads : u # t => worker'[u] = worker[u]
    <2>1. worker \in [Threads -> Worker] /\ worker[t] \in Worker
      BY Zenon DEF Good, Shape
    <2>2. [worker[t] EXCEPT !.pc = "open", !.job = d] \in Worker
      BY <2>1, Zenon DEF Worker
    <2>3. [worker[t] EXCEPT !.pc = "open", !.job = d].pc = "open" /\ [worker[t] EXCEPT !.pc = "open", !.job = d].job = d
      BY <2>1, Zenon DEF Worker
    <2> QED BY <1>3, <2>1, <2>2, <2>3, Zenon
  <1>5. Cardinality(Idlers \ {t}) \in Nat
    BY IdlersFinite, FS_RemoveElement, FS_CardinalityType, Zenon
  <1>6. Shape'
    BY <1>2, <1>4, <1>5, Zenon DEF Good, Shape
  <1>7. Team'
    <2>1. Idlers' = Idlers \ {t}
      BY <1>4, Zenon DEF Idlers
    <2>2. \A u \in Threads : /\ worker'[u].pc = "off" <=> worker[u].pc = "off"
                             /\ worker'[u].pc = "exit" <=> worker[u].pc = "exit"
      BY <1>4, Zenon
    <2>3. ~(done /\ err = Ok)
      BY Zenon DEF Good, Team
    <2>4. \A u \in Threads : worker'[u].pc = "exit" => done'
      BY <2>2, Zenon DEF Good, Team
    <2> QED BY <2>1, <2>2, <2>3, <2>4, TeamKept, Zenon
  <1>8. Takes(t, stack[Len(stack)])
    BY <1>1, <1>4, Zenon DEF Takes, Busy
  <1>9. Told'
    BY AtWork, Zenon
  <1> QED BY <1>6, <1>7, <1>8, <1>9, Zenon

LEMMA TopTeam ==
    ASSUME Walking, Good, NEW t \in Threads, Top(t)
    PROVE  Shape' /\ Team' /\ Told' /\ (Quiet \/ Takes(t, stack[Len(stack)]))
  <1>1. PICK n : n = IF worker[t].pc = "woken" THEN idle - 1 ELSE idle
    BY Zenon
  <1>2. /\ worker[t].pc \in {"top", "woken", "after"}
        /\ UNCHANGED <<kind, present, dirs, threads, err, main, seen, result>>
    BY Zenon DEF Top
  <1>3. n = Cardinality(Idlers \ {t})
    BY <1>1, <1>2, IdleOthers, Zenon
  <1>4. done \in BOOLEAN
    BY Zenon DEF Good, Shape
  <1>5. \/ done /\ worker' = [worker EXCEPT ![t].pc = "exit"] /\ idle' = n /\ UNCHANGED <<stack, done>>
        \/ /\ stack # <<>>
           /\ worker' = [worker EXCEPT ![t].pc = "open", ![t].job = stack[Len(stack)]]
           /\ stack' = SubSeq(stack, 1, Len(stack) - 1)
           /\ idle' = n /\ UNCHANGED done
        \/ /\ stack = <<>> /\ n + 1 = threads /\ done' = TRUE /\ idle' = n
           /\ worker' = Broadcast([worker EXCEPT ![t].pc = "exit"]) /\ UNCHANGED stack
        \/ worker' = [worker EXCEPT ![t].pc = "wait"] /\ idle' = n + 1 /\ UNCHANGED <<stack, done>>
    BY <1>1, Zenon DEF Top, LastOne
  <1>6. CASE done /\ worker' = [worker EXCEPT ![t].pc = "exit"] /\ idle' = n /\ UNCHANGED <<stack, done>>
    BY <1>2, <1>3, <1>4, <1>6, TopIdle, Zenon
  <1>7. CASE /\ stack # <<>>
             /\ worker' = [worker EXCEPT ![t].pc = "open", ![t].job = stack[Len(stack)]]
             /\ stack' = SubSeq(stack, 1, Len(stack) - 1)
             /\ idle' = n /\ UNCHANGED done
    BY <1>2, <1>3, <1>7, TakeTeam, Zenon
  <1>8. CASE /\ stack = <<>> /\ n + 1 = threads /\ done' = TRUE /\ idle' = n
             /\ worker' = Broadcast([worker EXCEPT ![t].pc = "exit"]) /\ UNCHANGED stack
    <2>1. \A u \in Threads : ~Busy(u)
      BY <1>2, <1>3, <1>8, LastAlone, Zenon
    <2> QED BY <1>2, <1>3, <1>4, <1>8, <2>1, TopIdle, Zenon
  <1>9. CASE worker' = [worker EXCEPT ![t].pc = "wait"] /\ idle' = n + 1 /\ UNCHANGED <<stack, done>>
    BY <1>2, <1>3, <1>4, <1>9, TopIdle, Zenon
  <1> QED BY <1>5, <1>6, <1>7, <1>8, <1>9, Zenon

\* A thread goes on with its directory.
LEMMA BusyTeam ==
    ASSUME Good, NEW t \in Threads, Busy(t), Busy(t)',
           \A u \in Threads : u # t => worker'[u] = worker[u],
           UNCHANGED <<idle, threads, done, err, main, result>>
    PROVE  Team' /\ Told' /\ main.pc # "begin"
  <1>1. worker[t].pc \notin {"off", "exit", "wait", "woken"} /\ worker'[t].pc \notin {"off", "exit", "wait", "woken"}
    BY Zenon DEF Busy
  <1>2. Idlers' = Idlers
    BY <1>1, Zenon DEF Idlers
  <1>3. ~(done /\ err = Ok)
    BY Zenon DEF Good, Team
  <1>4. idle' = Cardinality(Idlers')
    BY <1>2, Zenon DEF Good, Team
  <1>5. \A u \in Threads : worker'[u].pc = "exit" => done'
    BY <1>1, Zenon DEF Good, Team
  <1>6. \A u \in Threads : worker'[u].pc = "off" <=> worker[u].pc = "off"
    BY <1>1, Zenon
  <1> QED BY <1>1, <1>3, <1>4, <1>5, <1>6, TeamKept, AtWork, Zenon

LEMMA OpenDirTeam ==
    ASSUME Walking, Good, NEW t \in Threads, OpenDir(t)
    PROVE  Shape' /\ Team' /\ Told' /\ Opens(t)
  <1>1. PICK d \in Dirs : d = worker[t].job
    BY Zenon DEF Good, Shape, Worker
  <1>2. PICK p \in {"read", "failed"} : p = IF d \in Sealed \ bits THEN "failed" ELSE "read"
    BY Zenon
  <1>3. PICK k \in SUBSET Nodes : k = Kids(d) /\ k = Children(d)
    BY Zenon DEF Good, Shape, Kids, Children
  <1>4. /\ worker[t].pc = "open"
        /\ worker' = [worker EXCEPT ![t].pc = p, ![t].left = k, ![t].subs = <<>>]
        /\ UNCHANGED <<kind, present, stack, dirs, idle, threads, done, err, main, seen, result>>
    BY <1>1, <1>2, <1>3, Zenon DEF OpenDir, walk
  <1>5. worker' = [worker EXCEPT ![t] = [worker[t] EXCEPT !.pc = p, !.left = k, !.subs = <<>>]]
    BY <1>4, Zenon DEF Good, Shape
  <1>6. /\ worker' \in [Threads -> Worker]
        /\ worker'[t].pc = p /\ worker'[t].job = worker[t].job /\ worker'[t].left = k /\ worker'[t].subs = <<>>
        /\ \A u \in Threads : u # t => worker'[u] = worker[u]
    <2>0. PICK e \in Seq(Dirs) : e = <<>>
      <3>1. <<>> \in Seq(Dirs)
        BY SMT
      <3> QED BY <3>1, Zenon
    <2> DEFINE w == [worker[t] EXCEPT !.pc = p, !.left = k, !.subs = e]
    <2>1. worker \in [Threads -> Worker] /\ worker[t] \in Worker
      BY Zenon DEF Good, Shape
    <2>2. w \in Worker
      BY <2>1, Zenon DEF Worker
    <2>3. w.pc = p /\ w.job = worker[t].job /\ w.left = k /\ w.subs = e
      BY <2>1, Zenon DEF Worker
    <2> HIDE DEF w
    <2>4. worker' = [worker EXCEPT ![t] = w]
      BY <1>5, <2>0, Zenon DEF w
    <2> QED BY <2>0, <2>1, <2>2, <2>3, <2>4, Zenon
  <1>7. Busy(t) /\ Busy(t)'
    BY <1>4, <1>6, Zenon DEF Busy
  <1>8. Shape'
    BY <1>4, <1>6, Zenon DEF Good, Shape
  <1>9. Team' /\ Told'
    BY <1>4, <1>6, <1>7, BusyTeam, Zenon
  <1>10. Opens(t)
    BY <1>1, <1>3, <1>4, <1>6, <1>7, Zenon DEF Opens
  <1> QED BY <1>8, <1>9, <1>10, Zenon

LEMMA ReadFailsTeam ==
    ASSUME Walking, Good, NEW t \in Threads, ReadFails(t)
    PROVE  Shape' /\ Team' /\ Told' /\ Opens(t)
  <1>1. /\ worker[t].pc = "read" /\ worker' = [worker EXCEPT ![t].pc = "failed"]
        /\ UNCHANGED <<kind, present, stack, dirs, idle, threads, done, err, main, seen, result>>
    BY Zenon DEF ReadFails, walk
  <1>2. /\ worker' \in [Threads -> Worker]
        /\ worker'[t].pc = "failed" /\ worker'[t].job = worker[t].job /\ worker'[t].subs = worker[t].subs
        /\ \A u \in Threads : u # t => worker'[u] = worker[u]
    <2>1. "failed" \in Pcs /\ worker \in [Threads -> Worker]
      BY Zenon DEF Pcs, Good, Shape
    <2> QED BY <1>1, <2>1, Moved
  <1>3. Busy(t) /\ Busy(t)'
    BY <1>1, <1>2, Zenon DEF Busy
  <1>4. Shape'
    BY <1>1, <1>2, Zenon DEF Good, Shape
  <1>5. Team' /\ Told'
    BY <1>1, <1>2, <1>3, BusyTeam, Zenon
  <1>6. Opens(t)
    BY <1>1, <1>2, <1>3, Zenon DEF Opens
  <1> QED BY <1>4, <1>5, <1>6, Zenon

LEMMA EntryTeam ==
    ASSUME Walking, Good, NEW t \in Threads, Entry(t)
    PROVE  Shape' /\ Team' /\ Told' /\ (\E n : Enters(t, n))
  <1>1. PICK n \in worker[t].left :
            /\ worker[t].pc = "read"
            /\ worker' = IF n \in Dirs \ Pruned
                         THEN [[worker EXCEPT ![t].left = @ \ {n}] EXCEPT ![t].subs = Append(@, n)]
                         ELSE [worker EXCEPT ![t].left = @ \ {n}]
            /\ seen' = IF n \notin Pruned /\ (n \in Dirs => kind = "pre") THEN Append(seen, n) ELSE seen
            /\ UNCHANGED <<kind, present, stack, dirs, idle, threads, done, err, main, result>>
    BY Zenon DEF Entry, Walking, Removing, Post, walk
  <1>2. worker \in [Threads -> Worker] /\ worker[t] \in Worker /\ n \in Nodes
    BY Zenon DEF Good, Shape, Worker
  <1>3. PICK l \in SUBSET Nodes : l = worker[t].left \ {n}
    BY <1>2, Zenon DEF Worker
  <1>4. PICK s \in Seq(Dirs) : s = IF n \in Dirs \ Pruned THEN Append(worker[t].subs, n) ELSE worker[t].subs
    <2>1. worker[t].subs \in Seq(Dirs)
      BY <1>2, Zenon DEF Worker
    <2>2. ASSUME NEW q \in Seq(Dirs), n \in Dirs PROVE Append(q, n) \in Seq(Dirs)
      BY <2>2, SMT
    <2> QED BY <2>1, <2>2, Zenon
  <1>5. worker' = [worker EXCEPT ![t] = [worker[t] EXCEPT !.left = l, !.subs = s]]
    <2>1. CASE n \in Dirs \ Pruned
      BY <1>1, <1>2, <1>3, <1>4, <2>1, Zenon DEF Worker
    <2>2. CASE n \notin Dirs \ Pruned
      <3>1. worker' = [worker EXCEPT ![t] = [worker[t] EXCEPT !.left = l]] /\ s = worker[t].subs
        BY <1>1, <1>2, <1>3, <1>4, <2>2, Zenon
      <3>2. [worker[t] EXCEPT !.left = l, !.subs = s] = [worker[t] EXCEPT !.left = l]
        BY <1>2, <3>1, Zenon DEF Worker
      <3> QED BY <3>1, <3>2, Zenon
    <2> QED BY <2>1, <2>2, Zenon
  <1>6. /\ worker' \in [Threads -> Worker]
        /\ worker'[t].pc = "read" /\ worker'[t].job = worker[t].job /\ worker'[t].left = l /\ worker'[t].subs = s
        /\ \A u \in Threads : u # t => worker'[u] = worker[u]
    <2> DEFINE w == [worker[t] EXCEPT !.left = l, !.subs = s]
    <2>1. w \in Worker /\ w.pc = worker[t].pc /\ w.job = worker[t].job /\ w.left = l /\ w.subs = s
      BY <1>2, Zenon DEF Worker
    <2>2. worker' = [worker EXCEPT ![t] = w]
      BY <1>5, Zenon
    <2> HIDE DEF w
    <2> QED BY <1>1, <1>2, <2>1, <2>2, Zenon
  <1>7. Busy(t) /\ Busy(t)'
    BY <1>1, <1>6, Zenon DEF Busy
  <1>8. Shape'
    <2>1. seen' \in Seq(Nodes)
      BY <1>1, <1>2 DEF Good, Shape
    <2> QED BY <1>1, <1>6, <2>1, Zenon DEF Good, Shape
  <1>9. Team' /\ Told'
    BY <1>1, <1>6, <1>7, BusyTeam, Zenon
  <1>10. Enters(t, n)
    BY <1>1, <1>3, <1>4, <1>6, Zenon DEF Enters
  <1> QED BY <1>8, <1>9, <1>10, Zenon

LEMMA PushTeam ==
    ASSUME Walking, Good, NEW t \in Threads, Push(t)
    PROVE  Shape' /\ Team' /\ Told' /\ Pushes(t, worker[t].subs, worker[t].job)
  <1> DEFINE ws == [worker EXCEPT ![t].pc = "after"]
  <1>1. /\ worker[t].pc = "read" /\ worker[t].left = {}
        /\ stack' = stack \o worker[t].subs
        /\ dirs' = IF kind = "post" THEN dirs \o worker[t].subs ELSE dirs
        /\ worker' = ws \/ worker' = Broadcast(ws)
        /\ UNCHANGED <<kind, present, idle, threads, done, err, main, seen, result>>
    BY Zenon DEF Push, Post, Walking
  <1>2. /\ ws \in [Threads -> Worker] /\ ws[t].pc = "after"
        /\ \A u \in Threads : u # t => ws[u] = worker[u]
    <2>1. "after" \in Pcs /\ worker \in [Threads -> Worker]
      BY Zenon DEF Pcs, Good, Shape
    <2> QED BY <2>1, Moved
  <1> HIDE DEF ws
  <1>3. /\ worker' \in [Threads -> Worker] /\ worker'[t].pc = "after"
        /\ \A u \in Threads : u # t => \/ worker'[u] = worker[u]
                                       \/ worker[u].pc = "wait" /\ worker'[u].pc = "woken"
    <2>1. CASE worker' = ws
      BY <1>2, <2>1, Zenon
    <2>2. CASE worker' = Broadcast(ws)
      BY <1>2, <2>2, Woken
    <2> QED BY <1>1, <2>1, <2>2, Zenon
  <1>4. \A u \in Threads : u # t => Still(u)
    BY <1>3, Zenon DEF Still, Busy
  <1>5. Busy(t) /\ ~Busy(t)'
    BY <1>1, <1>3, Zenon DEF Busy
  <1>6. Shape'
    <2>1. worker[t].subs \in Seq(Dirs) /\ stack \in Seq(Dirs) /\ dirs \in Seq(Dirs)
      BY Zenon DEF Good, Shape, Worker
    <2>2. stack' \in Seq(Dirs) /\ dirs' \in Seq(Dirs)
      BY <1>1, <2>1
    <2> QED BY <1>1, <1>3, <2>2, Zenon DEF Good, Shape
  <1>7. Team'
    <2>1. Idlers' = Idlers
      BY <1>1, <1>3, Zenon DEF Idlers
    <2>2. \A u \in Threads : /\ worker'[u].pc = "off" <=> worker[u].pc = "off"
                             /\ worker'[u].pc = "exit" <=> worker[u].pc = "exit"
      BY <1>1, <1>3, Zenon
    <2>3. ~(done /\ err = Ok)
      BY <1>5, Zenon DEF Good, Team
    <2>4. idle' = Cardinality(Idlers') /\ \A u \in Threads : worker'[u].pc = "exit" => done'
      BY <1>1, <2>1, <2>2, Zenon DEF Good, Team
    <2> QED BY <1>1, <2>2, <2>3, <2>4, TeamKept, Zenon
  <1>8. Pushes(t, worker[t].subs, worker[t].job)
    BY <1>1, <1>4, <1>5, Zenon DEF Pushes, Ends, Holding
  <1>9. Told'
    BY <1>1, AtWork, Zenon
  <1> QED BY <1>6, <1>7, <1>8, <1>9, Zenon

LEMMA FailTeam ==
    ASSUME Walking, Good, NEW t \in Threads, Fail(t)
    PROVE  Shape' /\ Team' /\ Told' /\ GivesUp(t, worker[t].subs, worker[t].job)
  <1> DEFINE ws == [worker EXCEPT ![t].pc = "exit"]
  <1>0. worker \in [Threads -> Worker] /\ err \in {Ok, Failed} /\ worker[t] \in Worker
    BY Zenon DEF Good, Shape
  <1>1. /\ worker[t].pc = "failed" /\ err' = Failed /\ done' = TRUE
        /\ worker' = ws \/ worker' = Broadcast(ws)
        /\ UNCHANGED <<kind, present, stack, dirs, idle, threads, main, seen, result>>
    <2>1. worker[t].pc = "failed"
      BY <1>0, Zenon DEF Fail, Worker
    <2> QED BY <1>0, <2>1, Zenon DEF Fail, Ok, Failed
  <1>2. /\ ws \in [Threads -> Worker] /\ ws[t].pc = "exit"
        /\ \A u \in Threads : u # t => ws[u] = worker[u]
    <2>1. "exit" \in Pcs
      BY Zenon DEF Pcs
    <2> QED BY <1>0, <2>1, Moved
  <1> HIDE DEF ws
  <1>3. /\ worker' \in [Threads -> Worker] /\ worker'[t].pc = "exit"
        /\ \A u \in Threads : u # t => \/ worker'[u] = worker[u]
                                       \/ worker[u].pc = "wait" /\ worker'[u].pc = "woken"
    <2>1. CASE worker' = ws
      BY <1>2, <2>1, Zenon
    <2>2. CASE worker' = Broadcast(ws)
      BY <1>2, <2>2, Woken
    <2> QED BY <1>1, <2>1, <2>2, Zenon
  <1>4. \A u \in Threads : u # t => Still(u)
    BY <1>3, Zenon DEF Still, Busy
  <1>5. ~Busy(t)' /\ err' # Ok
    BY <1>1, <1>3 DEF Busy, Ok, Failed
  <1>6. Shape'
    BY <1>1, <1>3, Zenon DEF Good, Shape
  <1>7. Team'
    <2>1. Idlers' = Idlers
      BY <1>1, <1>3, Zenon DEF Idlers
    <2>2. \A u \in Threads : worker'[u].pc = "off" <=> worker[u].pc = "off"
      BY <1>1, <1>3, Zenon
    <2>3. idle' = Cardinality(Idlers')
      BY <1>1, <2>1, Zenon DEF Good, Team
    <2> QED BY <1>1, <1>5, <2>2, <2>3, TeamKept, Zenon
  <1>8. GivesUp(t, worker[t].subs, worker[t].job)
    BY <1>1, <1>4, <1>5, Zenon DEF GivesUp, Ends, Holding
  <1>9. Told'
    BY <1>1, AtWork, Zenon
  <1> QED BY <1>6, <1>7, <1>8, <1>9

-----------------------------------------------------------------------------
(* All steps. *)

LEMMA InitIInv == Init => IInv
  <1> SUFFICES ASSUME Init PROVE IInv
    BY Zenon
  <1>0. Root \in Dirs /\ Root \in Nodes /\ Want \in Nat \ {0} /\ Threads = 1..Want
    BY TreeAssumption, Zenon DEF Threads
  <1>1. kind \in {"pre", "post", "parallel", "serial", "fd"} /\ seen = <<>>
    BY TreeAssumption, Zenon DEF Init
  <1>2. /\ present = Nodes /\ stack = <<>> /\ dirs = <<>> /\ idle = 0 /\ threads = Want /\ ~done /\ err = Ok
        /\ worker = [t \in Threads |-> Off] /\ result.over = FALSE
        /\ main = [pc |-> "begin", tried |-> 0, started |-> 0, top |-> Root, skipped |-> {}]
    BY Zenon DEF Init
  <1>3. Off \in Worker /\ Off.pc = "off"
    <2>1. <<>> \in Seq(Dirs)
      OBVIOUS
    <2> QED BY <1>0, <2>1, Zenon DEF Off, Worker
  <1>4. main \in Main /\ main.pc = "begin" /\ main.started = 0
    BY <1>0, <1>2 DEF Main
  <1>5. \A t \in Threads : worker[t].pc = "off" /\ ~Busy(t) /\ ~Holding(t)
    BY <1>2, <1>3, Zenon DEF Busy, Holding
  <1>6. Shape
    <2>1. worker \in [Threads -> Worker]
      BY <1>2, <1>3, Zenon
    <2>2. stack \in Seq(Dirs) /\ dirs \in Seq(Dirs) /\ seen \in Seq(Nodes)
      BY <1>1, <1>2
    <2>3. done \in BOOLEAN
      BY Zenon DEF Init
    <2> QED BY <1>0, <1>2, <1>4, <2>1, <2>2, <2>3 DEF Shape
  <1>7. Team
    <2>1. Idlers = {} /\ Cardinality({}) = 0
      BY <1>5, FS_EmptySet, Zenon DEF Idlers
    <2>2. \A t \in Threads : t > main.started
      BY <1>0, <1>4
    <2>3. main.started <= threads
      BY <1>0, <1>2, <1>4
    <2> QED BY <1>1, <1>2, <1>4, <1>5, <2>1, <2>2, <2>3 DEF Team, Ended
  <1>8. Found = {} /\ Known = {} /\ Range(stack) = {} /\ Range(seen) = {} /\ Range(dirs) = {}
    BY <1>1, <1>2, <1>5 DEF Found, Known, Range
  <1>9. IsInjective(stack) /\ IsInjective(seen) /\ IsInjective(dirs) /\ DOMAIN seen = {} /\ DOMAIN dirs = {}
    BY <1>1, <1>2 DEF IsInjective
  <1>10. Unique /\ Complete /\ Sound
    BY <1>4, <1>5, <1>8, <1>9, Zenon DEF Unique, Complete, Sound
  <1>11. Fresh
    BY <1>5, <1>8, Zenon DEF Fresh
  <1>12. Order
    BY <1>2, <1>8, <1>9, Zenon DEF Order
  <1>13. Told
    BY <1>2, <1>4, Zenon DEF Told
  <1> QED BY <1>1, <1>6, <1>7, <1>10, <1>11, <1>12, <1>13, Zenon DEF IInv, Good, Tree

\* Every step keeps the kind of the call; a removal has no callbacks.
LEMMA StepKinds ==
    ASSUME [Next]_vars
    PROVE  kind' = kind /\ (kind \in {"parallel", "serial", "fd"} => seen' = seen)
  <1>1. ASSUME NEW t \in Threads, Work(t) \/ Spurious(t) \/ Slip(t) \/ ReadFails(t)
        PROVE  kind' = kind /\ (Removing => seen' = seen)
    <2>1. CASE Entry(t)
      <3>1. kind' = kind
        BY <2>1, Zenon DEF Entry
      <3>2. ASSUME Removing PROVE seen' = seen
        BY <2>1, <3>2, Zenon DEF Entry
      <3> QED BY <3>1, <3>2, Zenon
    <2>2. CASE Top(t) \/ OpenDir(t)
      BY <2>2, Zenon DEF Top, OpenDir
    <2>3. CASE Push(t) \/ Fail(t)
      BY <2>3, Zenon DEF Push, Fail
    <2>4. CASE Spurious(t) \/ Slip(t) \/ ReadFails(t)
      BY <2>4, Zenon DEF Spurious, Slip, ReadFails
    <2> QED BY <1>1, <2>1, <2>2, <2>3, <2>4, Zenon DEF Work
  <1>2. ASSUME Caller PROVE kind' = kind /\ (kind \in {"parallel", "serial", "fd"} => seen' = seen)
    <2>1. CASE Begin
      BY <2>1, Zenon DEF Begin, Post
    <2>2. CASE TailDir
      <3>1. kind' = kind
        BY <2>2, Zenon DEF TailDir
      <3>2. ASSUME Removing PROVE seen' = seen
        BY <2>2, <3>2, Zenon DEF TailDir
      <3> QED BY <3>1, <3>2, Zenon DEF Removing
    <2>3. CASE Spawn \/ Correct \/ Alone \/ Join
      BY <2>3, Zenon DEF Spawn, Correct, Alone, Join
    <2>4. CASE TailDone \/ Walked \/ Unprotect \/ RecStep
      BY <2>4, Zenon DEF TailDone, Walked, Unprotect, RecStep
    <2>5. CASE RecDone \/ RecStops
      BY <2>5, Zenon DEF RecDone, RecStops
    <2>6. CASE FdBegin \/ FdStep \/ FdAgain \/ FdEnds
      BY <2>6, Zenon DEF FdBegin, FdStep, FdAgain, FdEnds
    <2> QED BY <1>2, <2>1, <2>2, <2>3, <2>4, <2>5, <2>6, Zenon DEF Caller
  <1>3. CASE TailFails \/ FdSlip \/ Deadline
    BY <1>3, Zenon DEF TailFails, FdSlip, Deadline
  <1>4. CASE UNCHANGED vars
    BY <1>4, Zenon DEF vars
  <1> QED BY <1>1, <1>2, <1>3, <1>4, Zenon DEF Next, Over, Removing

\* What a step of a walk does to the tree; what the caller is told is left open where it returns.
LEMMA StepTeam ==
    ASSUME Walking, Good, [Next]_vars
    PROVE  Shape' /\ Team' /\ TreeStep /\ (Told' \/ Join \/ TailDone)
  <1>0. main \in Main /\ ~Removing /\ kind \in {"pre", "post"}
    BY Zenon DEF Good, Shape, Walking, Removing
  <1>1. ASSUME NEW t \in Threads, Work(t) \/ Spurious(t) \/ Slip(t) \/ ReadFails(t)
        PROVE  Shape' /\ Team' /\ Told' /\ TreeStep
    <2>1. CASE Top(t)
      BY <2>1, TopTeam, Zenon DEF TreeStep
    <2>2. CASE OpenDir(t)
      BY <2>2, OpenDirTeam, Zenon DEF TreeStep
    <2>3. CASE ReadFails(t)
      BY <2>3, ReadFailsTeam, Zenon DEF TreeStep
    <2>4. CASE Entry(t)
      BY <2>4, EntryTeam, Zenon DEF TreeStep
    <2>5. CASE Push(t)
      BY <2>5, PushTeam, Zenon DEF TreeStep
    <2>6. CASE Fail(t)
      BY <2>6, FailTeam, Zenon DEF TreeStep
    <2>7. CASE Spurious(t)
      BY <2>7, SpuriousTeam, Zenon DEF TreeStep
    <2>8. CASE Slip(t)
      BY <1>0, <2>8, Zenon DEF Slip
    <2> QED BY <1>1, <2>1, <2>2, <2>3, <2>4, <2>5, <2>6, <2>7, <2>8 DEF Work
  <1>2. ASSUME Caller PROVE Shape' /\ Team' /\ TreeStep /\ (Told' \/ Join \/ TailDone)
    <2>1. ~Unprotect /\ ~RecStep /\ ~RecDone /\ ~RecStops /\ ~FdBegin /\ ~FdStep /\ ~FdAgain /\ ~FdEnds
      BY <1>0, Zenon DEF Main, Unprotect, RecStep, RecDone, RecStops, FdBegin, FdStep, FdAgain, FdEnds
    <2>2. CASE Begin
      BY <2>2, BeginTeam, Zenon DEF TreeStep
    <2>3. CASE Spawn \/ Correct \/ Alone \/ Walked
      BY <2>3, SpawnTeam, CorrectTeam, AloneTeam, WalkedTeam, Zenon DEF TreeStep
    <2>4. CASE Join \/ TailDone
      BY <2>4, JoinTeam, TailDoneTeam, Zenon DEF TreeStep
    <2>5. CASE TailDir
      BY <2>5, TailDirTeam, Zenon DEF TreeStep
    <2> QED BY <1>2, <2>1, <2>2, <2>3, <2>4, <2>5, Zenon DEF Caller
  <1>3. CASE TailFails
    BY <1>3, TailFailsTeam, Zenon DEF TreeStep
  <1>4. CASE FdSlip \/ Deadline
    BY <1>0, <1>4, Zenon DEF FdSlip, Deadline, Main
  <1>5. CASE UNCHANGED vars
    <2>1. UNCHANGED <<kind, present, stack, dirs, idle, threads, done, err, worker, main, seen, result>>
      BY <1>5, Zenon DEF vars, walk
    <2>2. Shape'
      BY <2>1, Zenon DEF Good, Shape
    <2>3. Team' /\ Told'
      BY <2>1, Zenon DEF Good, Team, Told, Idlers, Busy
    <2>4. Quiet
      BY <2>1, Zenon DEF Quiet, Still
    <2> QED BY <2>2, <2>3, <2>4, Zenon DEF TreeStep
  <1> QED BY <1>1, <1>2, <1>3, <1>4, <1>5, Zenon DEF Next, Over

-----------------------------------------------------------------------------
(* What the invariant says of the callbacks. *)

\* Directories come first when each directory comes before its entries.
LEMMA AboveFirst ==
    ASSUME NEW s \in Seq(Nodes), NEW a \in Nodes,
           \A j \in DOMAIN s : s[j] # Root => \E i \in 1..(j - 1) : s[i] = Parent[s[j]]
    PROVE  \A j \in DOMAIN s : s[j] # a /\ s[j] \in Below(a) => \E i \in 1..(j - 1) : s[i] = a
  <1> DEFINE S == {m \in Nodes : m \in Below(a) => \A j \in DOMAIN s : s[j] = m /\ m # a => \E i \in 1..(j - 1) : s[i] = a}
  <1>1. DOMAIN s = 1..Len(s) /\ Len(s) \in Nat /\ \A j \in 1..Len(s) : s[j] \in Nodes
    OBVIOUS
  <1>2. Root \in S
    BY BelowFacts, TreeAssumption, Zenon
  <1>3. ASSUME NEW m \in Nodes \ {Root}, Parent[m] \in S PROVE m \in S
    <2> SUFFICES ASSUME m \in Below(a), m # a, NEW j \in DOMAIN s, s[j] = m
                 PROVE  \E i \in 1..(j - 1) : s[i] = a
      BY Zenon
    <2>1. PICK k \in 1..(j - 1) : s[k] = Parent[m]
      BY Zenon
    <2>2. k \in DOMAIN s /\ j \in Nat /\ k \in Nat /\ k < j
      BY <1>1
    <2>3. Parent[m] \in Below(a)
      BY BelowFacts, Zenon
    <2>4. CASE Parent[m] = a
      BY <2>1, <2>4, Zenon
    <2>5. CASE Parent[m] # a
      <3>1. PICK i \in 1..(k - 1) : s[i] = a
        BY <1>3, <2>1, <2>2, <2>3, <2>5
      <3>2. i \in 1..(j - 1)
        BY <2>2
      <3> QED BY <3>1, <3>2, Zenon
    <2> QED BY <2>4, <2>5, Zenon
  <1>4. S = Nodes
    BY <1>2, <1>3, TreeInduction, Zenon DEF Closed
  <1> QED BY <1>1, <1>4

\* Directories come last when each comes after all known entries of it.
LEMMA AboveLast ==
    ASSUME NEW s \in Seq(Nodes), NEW K, NEW i \in DOMAIN s, K \subseteq Nodes,
           \A n \in K \ {Root} : Parent[n] \in K,
           \A k \in DOMAIN s : \A n \in Kids(s[k]) \cap K : \E j \in 1..(k - 1) : s[j] = n
    PROVE  \A n \in K : n \in Below(s[i]) => \E j \in 1..i : s[j] = n
  <1> DEFINE S == {n \in Nodes : n \in Below(s[i]) /\ n \in K => \E j \in 1..i : s[j] = n}
  <1>1. DOMAIN s = 1..Len(s) /\ Len(s) \in Nat /\ s[i] \in Nodes /\ i \in 1..i
    OBVIOUS
  <1>2. ASSUME NEW n \in Nodes, n = Root \/ Parent[n] \in S PROVE n \in S
    <2> SUFFICES ASSUME n \in Below(s[i]), n \in K PROVE \E j \in 1..i : s[j] = n
      BY Zenon
    <2>1. CASE n = s[i]
      BY <1>1, <2>1
    <2>2. CASE n # s[i]
      <3>1. n # Root /\ Parent[n] \in Below(s[i]) /\ Parent[n] \in K
        BY <1>1, <2>2, BelowFacts
      <3>2. PICK k \in 1..i : s[k] = Parent[n]
        BY <1>2, <3>1
      <3>3. n \in Kids(s[k]) \cap K /\ k \in DOMAIN s
        BY <1>1, <3>1, <3>2 DEF Kids
      <3>4. PICK j \in 1..(k - 1) : s[j] = n
        BY <3>3, Zenon
      <3>5. j \in 1..i
        BY <1>1
      <3> QED BY <3>4, <3>5
    <2> QED BY <2>1, <2>2, Zenon
  <1>3. Root \in S /\ Closed(S)
    BY <1>2, TreeAssumption DEF Closed
  <1>4. S = Nodes
    BY <1>3, TreeInduction
  <1> QED BY <1>4, Zenon

LEMMA Once ==
    ASSUME NEW s, NEW S, s \in Seq(S), IsInjective(s)
    PROVE  \A n : Cardinality({i \in DOMAIN s : s[i] = n}) <= 1
  <1> TAKE n
  <1> DEFINE R == {i \in DOMAIN s : s[i] = n}
  <1>1. CASE R = {}
    BY <1>1, FS_EmptySet
  <1>2. CASE R # {}
    <2>1. PICK k : k \in R
      BY <1>2, Zenon
    <2>2. R = {k}
      BY <2>1, Zenon DEF IsInjective
    <2>3. Cardinality(R) = 1
      BY <2>2, FS_Singleton, Zenon
    <2> QED BY <2>3
  <1> QED BY <1>1, <1>2, Zenon

LEMMA Exact ==
    ASSUME IInv
    PROVE  WalkExact
  <1>1. CASE ~Walking
    <2>1. seen = <<>> /\ Removing
      BY <1>1, Zenon DEF IInv, Walking, Removing
    <2>2. seen \in Seq({}) /\ IsInjective(seen)
      BY <2>1 DEF IsInjective
    <2>3. \A n \in Nodes : Cardinality(Reported(n)) <= 1
      BY <2>2, Once, Zenon DEF Reported
    <2> QED BY <2>1, <2>3, Zenon DEF WalkExact
  <1>2. CASE Walking
    <2> USE <1>2
    <2>1. Shape /\ Team /\ Sound /\ Order /\ Told /\ ~Removing
      BY Zenon DEF IInv, Walking, Removing, Good, Tree
    <2>2. seen \in Seq(Nodes) /\ DOMAIN seen = 1..Len(seen) /\ Len(seen) \in Nat /\ IsInjective(seen)
      BY <2>1 DEF Shape, Order
    <2>3. \A n \in Nodes : Cardinality(Reported(n)) <= 1
      BY <2>2, Once, Zenon DEF Reported
    <2>4. ASSUME NEW i \in DOMAIN seen, NEW j \in DOMAIN seen, seen[j] # seen[i], seen[j] \in Below(seen[i])
          PROVE  IF Post THEN j < i ELSE i < j
      <3>0. seen[i] \in Nodes /\ seen[j] \in Nodes /\ i \in Nat /\ j \in Nat
        BY <2>2
      <3>1. CASE kind = "pre"
        <4>0. \A k \in DOMAIN seen : seen[k] # Root => \E m \in 1..(k - 1) : seen[m] = Parent[seen[k]]
          BY <2>1, <3>1, Zenon DEF Order
        <4>1. PICK k \in 1..(j - 1) : seen[k] = seen[i]
          BY <2>2, <2>4, <3>0, <4>0, AboveFirst, Zenon
        <4>2. k \in DOMAIN seen /\ k < j
          BY <2>2
        <4>3. k = i
          BY <2>2, <4>1, <4>2, Zenon DEF IsInjective
        <4> QED BY <3>1, <4>2, <4>3, Zenon DEF Post
      <3>2. CASE kind = "post"
        <4>1. seen[j] \in Known /\ Known \subseteq Nodes /\ \A n \in Known \ {Root} : Parent[n] \in Known
          BY <2>1, InWalkFacts DEF Sound, Known, Range
        <4>2. \A k \in DOMAIN seen : \A n \in Kids(seen[k]) \cap Known : \E m \in 1..(k - 1) : seen[m] = n
          BY <2>1, <3>2, Zenon DEF Order
        <4>3. PICK m \in 1..i : seen[m] = seen[j]
          <5> HIDE DEF Known
          <5> QED BY <2>2, <2>4, <4>1, <4>2, AboveLast
        <4>4. m \in DOMAIN seen /\ m <= i
          BY <2>2
        <4>5. m = j
          BY <2>2, <4>3, <4>4, Zenon DEF IsInjective
        <4>6. j # i
          BY <2>4, Zenon
        <4> QED BY <3>0, <3>2, <4>4, <4>5, <4>6 DEF Post
      <3> QED BY <3>1, <3>2, Zenon DEF Walking
    <2>5. ASSUME result.over PROVE /\ result.rc = Ok => Range(seen) = InWalk
                                   /\ \A t \in Threads : worker[t].pc \in {"off", "exit"}
      BY <2>1, <2>5 DEF Told, Team, Ended
    <2> QED BY <2>3, <2>4, <2>5, Zenon DEF WalkExact
  <1> QED BY <1>1, <1>2, Zenon

-----------------------------------------------------------------------------
(* What the caller is told when the threads have left. *)

LEMMA JoinTold ==
    ASSUME Walking, Good, Join
    PROVE  Told'
  <1>1. /\ main.pc = "join" /\ main.started > 0 /\ \A t \in 1..main.started : worker[t].pc = "exit"
        /\ main' = [main EXCEPT !.pc = IF err # Ok THEN "walked" ELSE IF Post THEN "tail" ELSE "walked"]
        /\ UNCHANGED <<err, seen, result>>
    BY Zenon DEF Join, Good, Team, walk
  <1>2. done
    <2>1. Want \in Nat \ {0} /\ Threads = 1..Want /\ main.started \in 0..Want
      BY TreeAssumption, Zenon DEF Threads, Good, Shape, Main
    <2>2. 1 \in Threads /\ worker[1].pc = "exit"
      BY <1>1, <2>1
    <2> QED BY <2>2, Zenon DEF Good, Team
  <1>3. ASSUME err = Ok, ~Post PROVE Range(seen) = InWalk
    <2>1. kind = "pre"
      BY <1>3 DEF Post, Walking
    <2>2. dirs = <<>>
      BY <2>1 DEF Good, Tree, Order
    <2>3. Range(seen) \cup Range(dirs) = InWalk
      BY <1>1, <1>2, <1>3, NothingLeft
    <2> QED BY <2>2, <2>3 DEF Range
  <1>4. main'.pc = IF err # Ok THEN "walked" ELSE IF Post THEN "tail" ELSE "walked"
    BY <1>1 DEF Good, Shape, Main
  <1> QED BY <1>1, <1>3, <1>4 DEF Good, Told

LEMMA TailDoneTold ==
    ASSUME Walking, Good, TailDone
    PROVE  Told'
  <1>1. main.pc = "tail" /\ err = Ok /\ done /\ dirs = <<>> /\ UNCHANGED <<seen, result>>
    BY Zenon DEF TailDone, Good, Team, walk
  <1>2. Range(seen) = InWalk
    BY <1>1, NothingLeft DEF Range
  <1> QED BY <1>1, <1>2 DEF Good, Told

-----------------------------------------------------------------------------

LEMMA NextIInv == IInv /\ [Next]_vars => IInv'
  <1> SUFFICES ASSUME IInv, [Next]_vars PROVE IInv'
    BY Zenon
  <1>1. kind' = kind
    BY StepKinds, Zenon
  <1>2. CASE ~Walking
    <2>1. seen = <<>> /\ kind \in {"parallel", "serial", "fd"}
      BY <1>2, Zenon DEF IInv, Walking
    <2>2. seen' = seen
      BY <2>1, StepKinds, Zenon
    <2> QED BY <1>1, <1>2, <2>1, <2>2, Zenon DEF IInv, Walking
  <1>3. CASE Walking
    <2>1. Good
      BY <1>3, Zenon DEF IInv
    <2>2. Shape' /\ Team' /\ TreeStep /\ (Told' \/ Join \/ TailDone)
      BY <1>3, <2>1, StepTeam
    <2>3. Tree'
      BY <1>3, <2>1, <2>2, StepTree
    <2>4. Told'
      BY <1>3, <2>1, <2>2, JoinTold, TailDoneTold
    <2>5. Good'
      BY <2>2, <2>3, <2>4 DEF Good
    <2> QED BY <1>1, <1>3, <2>5 DEF IInv, Walking
  <1> QED BY <1>2, <1>3, Zenon

\* fs_walk_tree_ex in platform_posix.cpp, for every tree, pruned set and thread count: nothing is reported twice, a
\* directory comes before (or after) everything in it, a walk that returns no error has reported all that is not pruned,
\* and no thread is left when it returns, whichever threads start, wait, wake for no reason or fail.
THEOREM AlwaysExact == Spec => []WalkExact
  <1>1. IInv => WalkExact
    BY Exact, Zenon
  <1> QED BY InitIInv, NextIInv, <1>1, PTL DEF Spec
=============================================================================
