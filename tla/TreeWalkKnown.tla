--------------------------- MODULE TreeWalkKnown ----------------------------
(***************************************************************************)
(* The steps of fs_walk_tree_ex keep what its invariant says of the tree.  *)
(***************************************************************************)
EXTENDS TreeWalkInv, TLAPS

-----------------------------------------------------------------------------
(* Sequences without repetitions. *)

LEMMA Appended ==
    ASSUME NEW S, NEW s \in Seq(S), NEW e \in S
    PROVE  /\ Append(s, e) \in Seq(S)
           /\ DOMAIN Append(s, e) = 1..(Len(s) + 1)
           /\ \A i \in 1..Len(s) : Append(s, e)[i] = s[i]
           /\ Append(s, e)[Len(s) + 1] = e
           /\ Range(Append(s, e)) = Range(s) \cup {e}
           /\ IsInjective(s) /\ e \notin Range(s) => IsInjective(Append(s, e))
  <1>1. /\ Append(s, e) \in Seq(S) /\ Len(Append(s, e)) = Len(s) + 1 /\ Len(s) \in Nat
        /\ \A i \in 1..Len(s) : Append(s, e)[i] = s[i]
        /\ Append(s, e)[Len(s) + 1] = e
    OBVIOUS
  <1>2. DOMAIN Append(s, e) = 1..(Len(s) + 1) /\ DOMAIN s = 1..Len(s)
    BY <1>1
  <1>3. Range(Append(s, e)) = Range(s) \cup {e}
    BY <1>1, <1>2 DEF Range
  <1>4. ASSUME IsInjective(s), e \notin Range(s) PROVE IsInjective(Append(s, e))
    <2> SUFFICES ASSUME NEW i \in 1..(Len(s) + 1), NEW j \in 1..(Len(s) + 1), Append(s, e)[i] = Append(s, e)[j]
                 PROVE  i = j
      BY <1>2, Zenon DEF IsInjective
    <2>1. \A k \in 1..Len(s) : s[k] # e
      BY <1>2, <1>4, Zenon DEF Range
    <2>2. CASE i = Len(s) + 1 \/ j = Len(s) + 1
      BY <1>1, <2>1, <2>2
    <2>3. CASE i \in 1..Len(s) /\ j \in 1..Len(s)
      BY <1>1, <1>2, <1>4, <2>3, Zenon DEF IsInjective
    <2> QED BY <1>1, <2>2, <2>3
  <1> QED BY <1>1, <1>2, <1>3, <1>4, Zenon

LEMMA Joined ==
    ASSUME NEW S, NEW s \in Seq(S), NEW u \in Seq(S)
    PROVE  /\ s \o u \in Seq(S)
           /\ DOMAIN (s \o u) = 1..(Len(s) + Len(u)) /\ Len(s) \in Nat /\ Len(u) \in Nat
           /\ \A i \in 1..Len(s) : (s \o u)[i] = s[i]
           /\ \A i \in 1..Len(u) : (s \o u)[Len(s) + i] = u[i]
           /\ Range(s \o u) = Range(s) \cup Range(u)
           /\ IsInjective(s) /\ IsInjective(u) /\ Range(s) \cap Range(u) = {} => IsInjective(s \o u)
  <1>1. /\ s \o u \in Seq(S) /\ Len(s \o u) = Len(s) + Len(u)
        /\ \A i \in 1..(Len(s) + Len(u)) : (s \o u)[i] = IF i <= Len(s) THEN s[i] ELSE u[i - Len(s)]
    OBVIOUS
  <1>2. /\ DOMAIN (s \o u) = 1..(Len(s) + Len(u)) /\ DOMAIN s = 1..Len(s) /\ DOMAIN u = 1..Len(u)
        /\ Len(s) \in Nat /\ Len(u) \in Nat
    BY <1>1
  <1>3. /\ \A i \in 1..Len(s) : (s \o u)[i] = s[i]
        /\ \A i \in 1..Len(u) : (s \o u)[Len(s) + i] = u[i]
    BY <1>1, <1>2
  <1>4. \A i \in 1..(Len(s) + Len(u)) : \/ i \in 1..Len(s)
                                        \/ \E k \in 1..Len(u) : i = Len(s) + k
    <2> SUFFICES ASSUME NEW i \in 1..(Len(s) + Len(u)), i \notin 1..Len(s) PROVE \E k \in 1..Len(u) : i = Len(s) + k
      BY Zenon
    <2>1. i - Len(s) \in 1..Len(u) /\ i = Len(s) + (i - Len(s))
      BY <1>2
    <2> QED BY <2>1, Zenon
  <1>5. Range(s \o u) = Range(s) \cup Range(u)
    <2>1. ASSUME NEW x \in Range(s \o u) PROVE x \in Range(s) \cup Range(u)
      <3>1. PICK i \in 1..(Len(s) + Len(u)) : x = (s \o u)[i]
        BY <1>2, Zenon DEF Range
      <3>2. CASE i \in 1..Len(s)
        BY <1>2, <1>3, <3>1, <3>2, Zenon DEF Range
      <3>3. ASSUME NEW k \in 1..Len(u), i = Len(s) + k PROVE x \in Range(u)
        BY <1>2, <1>3, <3>1, <3>3, Zenon DEF Range
      <3> QED BY <1>4, <3>2, <3>3, Zenon
    <2>2. ASSUME NEW x \in Range(s) PROVE x \in Range(s \o u)
      <3>1. PICK i \in 1..Len(s) : x = s[i]
        BY <1>2, Zenon DEF Range
      <3>2. i \in DOMAIN (s \o u) /\ (s \o u)[i] = x
        BY <1>2, <1>3, <3>1
      <3> QED BY <3>2, Zenon DEF Range
    <2>3. ASSUME NEW x \in Range(u) PROVE x \in Range(s \o u)
      <3>1. PICK i \in 1..Len(u) : x = u[i]
        BY <1>2, Zenon DEF Range
      <3>2. Len(s) + i \in DOMAIN (s \o u) /\ (s \o u)[Len(s) + i] = x
        BY <1>2, <1>3, <3>1
      <3> QED BY <3>2, Zenon DEF Range
    <2> QED BY <2>1, <2>2, <2>3, Zenon
  <1>6. ASSUME IsInjective(s), IsInjective(u), Range(s) \cap Range(u) = {} PROVE IsInjective(s \o u)
    <2> SUFFICES ASSUME NEW i \in 1..(Len(s) + Len(u)), NEW j \in 1..(Len(s) + Len(u)), (s \o u)[i] = (s \o u)[j]
                 PROVE  i = j
      BY <1>2, Zenon DEF IsInjective
    <2>1. \A a \in 1..Len(s), b \in 1..Len(u) : s[a] # u[b]
      BY <1>2, <1>6, Zenon DEF Range
    <2>2. CASE i \in 1..Len(s) /\ j \in 1..Len(s)
      BY <1>2, <1>3, <1>6, <2>2, Zenon DEF IsInjective
    <2>3. CASE i \notin 1..Len(s) /\ j \notin 1..Len(s)
      <3>1. PICK a \in 1..Len(u) : i = Len(s) + a
        BY <1>4, <2>3, Zenon
      <3>2. PICK b \in 1..Len(u) : j = Len(s) + b
        BY <1>4, <2>3, Zenon
      <3>3. u[a] = u[b]
        BY <1>3, <3>1, <3>2, Zenon
      <3> QED BY <1>2, <1>6, <3>1, <3>2, <3>3, Zenon DEF IsInjective
    <2>4. CASE i \in 1..Len(s) /\ j \notin 1..Len(s)
      BY <1>3, <1>4, <2>1, <2>4
    <2>5. CASE i \notin 1..Len(s) /\ j \in 1..Len(s)
      BY <1>3, <1>4, <2>1, <2>5
    <2> QED BY <2>2, <2>3, <2>4, <2>5, Zenon
  <1> QED BY <1>1, <1>2, <1>3, <1>5, <1>6, Zenon

\* The last element is taken off.
LEMMA Shortened ==
    ASSUME NEW S, NEW s \in Seq(S), s # <<>>
    PROVE  /\ SubSeq(s, 1, Len(s) - 1) \in Seq(S)
           /\ Len(s) \in Nat \ {0} /\ s[Len(s)] \in S
           /\ DOMAIN SubSeq(s, 1, Len(s) - 1) = 1..(Len(s) - 1)
           /\ \A i \in 1..(Len(s) - 1) : SubSeq(s, 1, Len(s) - 1)[i] = s[i]
           /\ Range(s) = Range(SubSeq(s, 1, Len(s) - 1)) \cup {s[Len(s)]}
           /\ IsInjective(s) => /\ IsInjective(SubSeq(s, 1, Len(s) - 1))
                                /\ s[Len(s)] \notin Range(SubSeq(s, 1, Len(s) - 1))
  <1>1. Len(s) \in Nat \ {0} /\ DOMAIN s = 1..Len(s) /\ \A i \in 1..Len(s) : s[i] \in S
    OBVIOUS
  <1>2. PICK n \in Nat : n = Len(s) - 1 /\ Len(s) = n + 1
    <2>1. Len(s) - 1 \in Nat /\ Len(s) = (Len(s) - 1) + 1
      BY <1>1
    <2> QED BY <2>1, Zenon
  <1>3. PICK u : u = SubSeq(s, 1, n)
    BY Zenon
  <1>4. u \in Seq(S)
    BY <1>2, <1>3
  <1>5. Len(u) = n /\ DOMAIN u = 1..n
    BY <1>2, <1>3
  <1>6. \A i \in 1..n : u[i] = s[i]
    BY <1>2, <1>3
  <1>7. Range(s) = Range(u) \cup {s[n + 1]}
    BY <1>1, <1>2, <1>5, <1>6 DEF Range
  <1>8. ASSUME IsInjective(s) PROVE IsInjective(u) /\ s[n + 1] \notin Range(u)
    BY <1>1, <1>2, <1>5, <1>6, <1>8 DEF IsInjective, Range
  <1>9. SubSeq(s, 1, Len(s) - 1) = u
    BY <1>2, <1>3, Zenon
  <1>10. s[Len(s)] \in S
    BY <1>1
  <1> QED BY <1>1, <1>2, <1>4, <1>5, <1>6, <1>7, <1>8, <1>9, <1>10, Zenon

-----------------------------------------------------------------------------
(* Subtrees. *)

LEMMA TreeInduction ==
    ASSUME NEW S, S \subseteq Nodes, Root \in S, Closed(S)
    PROVE  S = Nodes
  BY TreeAssumption, Zenon DEF Below, Subtree

LEMMA BelowFacts ==
    ASSUME NEW a \in Nodes
    PROVE  /\ Below(a) \subseteq Nodes
           /\ a \in Below(a)
           /\ \A n \in Nodes \ {Root} : Parent[n] \in Below(a) => n \in Below(a)
           /\ \A n \in Below(a) : n # a => n # Root /\ Parent[n] \in Below(a)
  <1>1. Below(a) \subseteq Nodes /\ a \in Below(a)
    BY Zenon DEF Below, Subtree
  <1>2. \A n \in Nodes \ {Root} : Parent[n] \in Below(a) => n \in Below(a)
    BY Zenon DEF Below, Subtree, Closed
  <1>3. ASSUME NEW n \in Below(a), n # a PROVE n # Root /\ Parent[n] \in Below(a)
    <2> DEFINE S == {m \in Nodes : m = a \/ (m # Root /\ Parent[m] \in Below(a))}
    <2>1. \A m \in S : m \in Below(a)
      BY <1>1, <1>2, Zenon
    <2>2. a \in S /\ S \in SUBSET Nodes /\ Closed(S)
      BY <2>1, Zenon DEF Closed
    <2>3. n \in S
      BY <2>2, <1>3, Zenon DEF Below, Subtree
    <2> QED BY <2>3, <1>3, Zenon
  <1> QED BY <1>1, <1>2, <1>3, Zenon

\* The entries of a directory of the walk are of the walk unless they are pruned.
LEMMA InWalkFacts ==
    /\ Root \in InWalk
    /\ \A n \in Nodes \ {Root} : n \in InWalk <=> Parent[n] \in InWalk /\ n \notin Pruned
    /\ \A n \in InWalk : n \in Nodes /\ n \notin Pruned
  <1>1. Root \in Nodes /\ Parent \in [Nodes \ {Root} -> Nodes] /\ Pruned \subseteq Nodes \ {Root}
    BY TreeAssumption, Zenon
  <1>2. Root \in InWalk
    BY <1>1, BelowFacts, Zenon DEF InWalk
  <1>3. \A n \in Nodes \ {Root} : n \in InWalk <=> Parent[n] \in InWalk /\ n \notin Pruned
    <2> TAKE n \in Nodes \ {Root}
    <2>0. Parent[n] \in Nodes
      BY <1>1, Zenon
    <2>1. ASSUME n \in InWalk PROVE Parent[n] \in InWalk /\ n \notin Pruned
      <3>1. n \notin Pruned
        BY <2>1, BelowFacts, Zenon DEF InWalk
      <3>2. \A p \in Pruned : Parent[n] \notin Below(p)
        BY <1>1, <2>1, BelowFacts, Zenon DEF InWalk
      <3> QED BY <2>0, <3>1, <3>2, Zenon DEF InWalk
    <2>2. ASSUME Parent[n] \in InWalk, n \notin Pruned PROVE n \in InWalk
      BY <1>1, <2>2, BelowFacts, Zenon DEF InWalk
    <2> QED BY <2>1, <2>2, Zenon
  <1>4. \A n \in InWalk : n \in Nodes /\ n \notin Pruned
    BY BelowFacts, Zenon DEF InWalk
  <1> QED BY <1>2, <1>3, <1>4, Zenon

\* Without an error and with nothing to do, everything in the walk is known.
LEMMA AllKnown ==
    ASSUME Shape, Complete, Sound, err = Ok, main.pc # "begin", \A d \in Dirs : ~Token(d)
    PROVE  Known = InWalk
  <1> DEFINE S == {n \in Nodes : n \in InWalk => n \in Known}
  <1>1. Root \in S
    BY TreeAssumption, Zenon DEF Complete
  <1>2. ASSUME NEW n \in Nodes \ {Root}, Parent[n] \in S PROVE n \in S
    <2> SUFFICES ASSUME n \in InWalk PROVE n \in Known
      BY Zenon
    <2>1. Parent[n] \in Dirs /\ Parent[n] \in Known /\ n \notin Pruned
      BY <1>2, InWalkFacts, TreeAssumption, Zenon
    <2>2. n \in Kids(Parent[n])
      BY Zenon DEF Kids
    <2> QED BY <2>1, <2>2, Zenon DEF Complete
  <1>3. S = Nodes
    BY <1>1, <1>2, TreeInduction, Zenon DEF Closed
  <1> QED BY <1>3, InWalkFacts, Zenon DEF Sound

\* All threads have left: nothing is left to do unless there was an error.
LEMMA NothingLeft ==
    ASSUME Good, done, err = Ok
    PROVE  /\ \A d \in Dirs : ~Token(d)
           /\ Found = {}
           /\ main.pc # "begin" => Range(seen) \cup Range(dirs) = InWalk
  <1>1. stack = <<>> /\ \A t \in Threads : ~Busy(t)
    BY Zenon DEF Good, Team
  <1>2. Found = {}
    BY <1>1, Zenon DEF Found, Holding, Busy
  <1>3. \A d \in Dirs : ~Token(d)
    BY <1>1, <1>2 DEF Token, Range
  <1>4. main.pc # "begin" => Known = InWalk
    BY <1>3, AllKnown, Zenon DEF Good, Tree
  <1> QED BY <1>2, <1>3, <1>4, Zenon DEF Known

-----------------------------------------------------------------------------
(* Steps that leave the tree alone. *)

LEMMA StillFacts ==
    ASSUME \A t \in Threads : Still(t)
    PROVE  /\ \A t \in Threads : Busy(t)' <=> Busy(t)
           /\ \A t \in Threads : Holding(t)' <=> Holding(t)
           /\ \A t \in Threads : Busy(t) => worker'[t] = worker[t]
           /\ Found' = Found
  <1>1. \A t \in Threads : Busy(t)' <=> Busy(t)
    BY Zenon DEF Still, Busy
  <1>2. \A t \in Threads : Holding(t)' <=> Holding(t)
    BY Zenon DEF Still, Busy, Holding
  <1>3. \A t \in Threads : Busy(t) => worker'[t] = worker[t]
    BY Zenon DEF Still
  <1>4. \A t \in Threads : Holding(t) => worker'[t] = worker[t]
    BY <1>3, Zenon DEF Holding, Busy
  <1>5. Found' = Found
    BY <1>2, <1>4, Zenon DEF Found
  <1> QED BY <1>1, <1>2, <1>3, <1>5, Zenon

LEMMA Frame ==
    ASSUME Tree, Quiet
    PROVE  Tree'
  <1>0. /\ UNCHANGED <<kind, stack, dirs, seen>> /\ \A t \in Threads : Still(t)
        /\ err' = Ok => err = Ok
        /\ main'.pc # "begin" => main.pc # "begin"
    BY Zenon DEF Quiet
  <1>1. /\ \A t \in Threads : Busy(t)' <=> Busy(t)
        /\ \A t \in Threads : Holding(t)' <=> Holding(t)
        /\ \A t \in Threads : Busy(t) => worker'[t] = worker[t]
        /\ Found' = Found
    BY <1>0, StillFacts, Zenon
  <1>2. Known' = Known /\ Listed' = Listed
    BY <1>0, <1>1, Zenon DEF Known, Listed
  <1>3. \A t \in Threads : Holding(t) => Busy(t)
    BY Zenon DEF Holding, Busy
  <1>4. Unique'
    BY <1>0, <1>1, <1>2, <1>3, Zenon DEF Tree, Unique
  <1>5. Fresh'
    <2>1. \A t \in Threads : (worker'[t].pc = "open" \/ worker'[t].pc = "read") => Busy(t)'
      BY Zenon DEF Busy
    <2>2. \A t \in Threads : (worker'[t].pc = "open" \/ worker'[t].pc = "read") => worker'[t] = worker[t]
      BY <1>0, <1>1, <2>1, Zenon
    <2> QED BY <1>0, <1>1, <1>2, <2>2, Zenon DEF Tree, Fresh
  <1>6. \A d : Token(d)' <=> Token(d)
    BY <1>0, <1>1, Zenon DEF Token
  <1>7. Complete'
    BY <1>0, <1>2, <1>6, Zenon DEF Tree, Complete
  <1>8. Sound'
    BY <1>0, <1>2, Zenon DEF Tree, Sound
  <1>9. Order'
    BY <1>0, <1>1, <1>2 DEF Tree, Order
  <1> QED BY <1>4, <1>5, <1>7, <1>8, <1>9, Zenon DEF Tree

-----------------------------------------------------------------------------
(* Steps of the threads, and of the caller at the end. *)

\* The caller starts with the root.
LEMMA BeginTree ==
    ASSUME Walking, Starts
    PROVE  Tree'
  <1>1. stack' = <<Root>> /\ kind' = kind /\ \A t \in Threads : worker'[t].pc = "off"
    BY Zenon DEF Starts
  <1>2. /\ kind = "pre" => seen' = <<Root>> /\ dirs' = <<>>
        /\ kind = "post" => seen' = <<>> /\ dirs' = <<Root>>
    BY Zenon DEF Starts
  <1>3. \A t \in Threads : ~Busy(t)' /\ ~Holding(t)'
    BY <1>1, Zenon DEF Busy, Holding
  <1>4. /\ Range(<<Root>>) = {Root} /\ Range(<<>>) = {}
        /\ IsInjective(<<Root>>) /\ IsInjective(<<>>)
    BY DEF Range, IsInjective
  <1>5. Found' = {}
    BY <1>3, Zenon DEF Found
  <1>6. Known' = {Root} /\ Listed' = {Root}
    BY <1>1, <1>2, <1>4, <1>5, Zenon DEF Known, Listed, Walking
  <1>7. Unique'
    BY <1>1, <1>3, <1>4, <1>6, Zenon DEF Unique
  <1>8. Fresh'
    <2>1. Root \notin Kids(Root)
      BY Zenon DEF Kids
    <2>2. \A t \in Threads : worker'[t].pc # "open" /\ worker'[t].pc # "read"
      BY <1>1, Zenon
    <2> QED BY <1>1, <1>4, <1>5, <1>6, <2>1, <2>2, Zenon DEF Fresh
  <1>9. Complete' /\ Sound'
    BY <1>1, <1>4, <1>6, InWalkFacts, Zenon DEF Complete, Sound, Token
  <1>10. CASE kind = "pre"
    <2>1. Order'
      BY <1>1, <1>2, <1>4, <1>5, <1>10 DEF Order
    <2> QED BY <1>7, <1>8, <1>9, <2>1, Zenon DEF Tree
  <1>11. CASE kind = "post"
    <2>1. Order'
      BY <1>1, <1>2, <1>4, <1>5, <1>11 DEF Order
    <2> QED BY <1>7, <1>8, <1>9, <2>1 DEF Tree
  <1> QED BY <1>10, <1>11, Zenon DEF Walking

\* What a thread that has taken a directory finds.
Taken(t, d) ==
    /\ Range(stack) = Range(stack') \cup {d} /\ IsInjective(stack') /\ d \notin Range(stack')
    /\ Busy(t)' /\ ~Holding(t)' /\ ~Holding(t) /\ worker'[t].job = d
    /\ \A u \in Threads : u # t => (Busy(u)' <=> Busy(u)) /\ (Holding(u)' <=> Holding(u)) /\ worker'[u] = worker[u]
    /\ Found' = Found /\ Known' = Known /\ Listed' = Listed

\* A thread takes the last directory of the stack.
LEMMA TakeFacts ==
    ASSUME Good, NEW t \in Threads, NEW d, Takes(t, d)
    PROVE  Taken(t, d)
  <1>1. stack \in Seq(Dirs) /\ IsInjective(stack)
    BY Zenon DEF Good, Shape, Tree, Unique
  <1>2. Range(stack) = Range(stack') \cup {d} /\ IsInjective(stack') /\ d \notin Range(stack')
    BY <1>1, Shortened DEF Takes
  <1>3. /\ Busy(t)' /\ ~Holding(t)' /\ ~Holding(t) /\ worker'[t].job = d
        /\ \A u \in Threads : u # t => (Busy(u)' <=> Busy(u)) /\ (Holding(u)' <=> Holding(u)) /\ worker'[u] = worker[u]
    BY Zenon DEF Busy, Holding, Takes
  <1>4. Found' = Found
    BY <1>3, Zenon DEF Found
  <1>5. Known' = Known /\ Listed' = Listed
    BY <1>4, Zenon DEF Known, Listed, Takes
  <1> QED BY <1>2, <1>3, <1>4, <1>5, Zenon DEF Taken

LEMMA TakeUnique ==
    ASSUME Good, NEW t \in Threads, NEW d, Takes(t, d)
    PROVE  Unique'
  <1>1. Taken(t, d)
    BY TakeFacts, Zenon
  <1>2. Unique
    BY Zenon DEF Good, Tree
  <1>3. Range(stack') \subseteq Listed'
    BY <1>1, <1>2, Zenon DEF Unique, Taken
  <1>4. \A u \in Threads : Busy(u)' => worker'[u].job \in Listed' \ Range(stack')
    BY <1>1, <1>2, Zenon DEF Unique, Taken
  <1>5. \A u \in Threads : u # t /\ Busy(u)' => worker'[u].job # d
    BY <1>1, <1>2, Zenon DEF Unique, Taken
  <1>6. \A u, v \in Threads : Busy(u)' /\ Busy(v)' /\ u # v => worker'[u].job # worker'[v].job
    BY <1>1, <1>2, <1>5 DEF Unique, Taken
  <1>7. ASSUME NEW u \in Threads, Holding(u)'
        PROVE  /\ IsInjective(worker'[u].subs)
               /\ \A x \in Range(worker'[u].subs) :
                      /\ x \in Kids(worker'[u].job) \ (Pruned \cup Range(stack'))
                      /\ \A v \in Threads : Busy(v)' => worker'[v].job # x
    <2>1. u # t /\ Holding(u) /\ worker'[u] = worker[u]
      BY <1>1, <1>7, Zenon DEF Taken
    <2>2. /\ IsInjective(worker[u].subs)
          /\ \A x \in Range(worker[u].subs) :
                 /\ x \in Kids(worker[u].job) \ (Pruned \cup Range(stack))
                 /\ \A v \in Threads : Busy(v) => worker[v].job # x
      BY <1>2, <2>1, Zenon DEF Unique
    <2>3. ASSUME NEW x \in Range(worker[u].subs), NEW v \in Threads, Busy(v)' PROVE worker'[v].job # x
      <3>1. CASE v = t
        BY <1>1, <2>2, <3>1, Zenon DEF Taken
      <3>2. CASE v # t
        BY <1>1, <2>2, <2>3, <3>2, Zenon DEF Taken
      <3> QED BY <3>1, <3>2, Zenon
    <2> QED BY <1>1, <2>1, <2>2, <2>3, Zenon DEF Taken
  <1> QED BY <1>1, <1>3, <1>4, <1>6, <1>7, Zenon DEF Unique, Taken

LEMMA TakeTree ==
    ASSUME Good, NEW t \in Threads, NEW d, Takes(t, d)
    PROVE  Tree'
  <1>1. Taken(t, d)
    BY TakeFacts
  <1>2. Fresh /\ Complete /\ Sound /\ Order /\ ~Busy(t) /\ worker'[t].pc = "open" /\ UNCHANGED <<kind, dirs, seen, err, main>>
    BY Zenon DEF Good, Tree, Takes
  <1>3. Fresh'
    <2>1. \A e \in Range(stack') \cup Found' : Kids(e) \cap Known' = {}
      BY <1>1, <1>2, Zenon DEF Fresh, Taken
    <2>2. Kids(d) \cap Known = {}
      BY <1>1, <1>2, Zenon DEF Fresh, Taken
    <2>3. \A u \in Threads : worker'[u].pc = "open" => Kids(worker'[u].job) \cap Known' = {}
      BY <1>1, <1>2, <2>2, Zenon DEF Fresh, Taken
    <2>4. \A u \in Threads : worker'[u].pc = "read" => u # t /\ worker'[u] = worker[u]
      BY <1>1, <1>2, Zenon DEF Taken
    <2> QED BY <1>1, <1>2, <2>1, <2>3, <2>4, Zenon DEF Fresh, Taken
  <1>4. \A e : Token(e) => Token(e)'
    <2> TAKE e
    <2>1. CASE e = d
      BY <1>1, <2>1, Zenon DEF Token, Taken
    <2>2. CASE e \in Range(stack') \cup Found
      BY <1>1, <2>2, Zenon DEF Token, Taken
    <2>3. ASSUME NEW u \in Threads, Busy(u), worker[u].job = e PROVE Token(e)'
      <3>1. u # t /\ Busy(u)' /\ worker'[u].job = e
        BY <1>1, <1>2, <2>3, Zenon DEF Taken
      <3> QED BY <3>1, Zenon DEF Token
    <2> QED BY <1>1, <2>1, <2>2, <2>3, Zenon DEF Token, Taken
  <1>5. Complete' /\ Sound'
    BY <1>1, <1>2, <1>4, Zenon DEF Complete, Sound, Taken
  <1>6. Order'
    BY <1>1, <1>2 DEF Order, Taken
  <1> QED BY <1>3, <1>5, <1>6, TakeUnique, Zenon DEF Tree

\* The directory is opened, or cannot be read to the end.
LEMMA ReadTree ==
    ASSUME Good, NEW t \in Threads, Opens(t)
    PROVE  Tree'
  <1>1. /\ \A u \in Threads : Busy(u)' <=> Busy(u)
        /\ \A u \in Threads : worker'[u].job = worker[u].job
        /\ \A u \in Threads : Holding(u)' => (Holding(u) /\ worker'[u].subs = worker[u].subs) \/ worker'[u].subs = <<>>
        /\ \A u \in Threads : Holding(u) => Holding(u)' /\ worker'[u].subs = worker[u].subs
    BY Zenon DEF Busy, Holding, Opens
  <1>2. Unique /\ Fresh /\ Complete /\ Sound /\ Order /\ UNCHANGED <<kind, stack, dirs, seen, err, main>>
    BY Zenon DEF Good, Tree, Opens
  <1>3. Range(<<>>) = {} /\ IsInjective(<<>>)
    BY DEF Range, IsInjective
  <1>4. Found' = Found
    BY <1>1, <1>3, Zenon DEF Found
  <1>5. Known' = Known /\ Listed' = Listed
    BY <1>2, <1>4, Zenon DEF Known, Listed
  <1>6. Unique'
    <2>1. ASSUME NEW u \in Threads, Holding(u)'
          PROVE  /\ IsInjective(worker'[u].subs)
                 /\ \A x \in Range(worker'[u].subs) :
                        /\ x \in Kids(worker[u].job) \ (Pruned \cup Range(stack))
                        /\ \A v \in Threads : Busy(v) => worker[v].job # x
      <3>1. CASE Holding(u) /\ worker'[u].subs = worker[u].subs
        BY <1>2, <3>1, Zenon DEF Unique
      <3>2. CASE worker'[u].subs = <<>>
        BY <1>3, <3>2, Zenon
      <3> QED BY <1>1, <2>1, <3>1, <3>2, Zenon
    <2> QED BY <1>1, <1>2, <1>5, <2>1 DEF Unique
  <1>7. Fresh'
    <2>1. \A u \in Threads : worker'[u].pc = "open" => worker'[u] = worker[u]
      BY Zenon DEF Opens
    <2>2. \A u \in Threads : worker'[u].pc = "read" =>
              worker'[u] = worker[u] \/ (worker[u].pc = "open" /\ worker'[u].left = Kids(worker'[u].job))
      BY Zenon DEF Opens
    <2> QED BY <1>1, <1>2, <1>4, <1>5, <2>1, <2>2 DEF Fresh
  <1>8. \A e : Token(e)' <=> Token(e)
    BY <1>1, <1>2, <1>4, Zenon DEF Token
  <1>9. Complete' /\ Sound'
    BY <1>2, <1>5, <1>8, Zenon DEF Complete, Sound
  <1>10. Order'
    BY <1>2, <1>4, <1>5 DEF Order
  <1> QED BY <1>6, <1>7, <1>9, <1>10, Zenon DEF Tree

\* An entry that is read for the first time, and the directory it is in.
NewEntry(t, n) ==
    /\ n \in Kids(worker[t].job) /\ n \notin Known /\ n # Root /\ n \in Nodes /\ Parent[n] = worker[t].job
    /\ Listed \subseteq Known /\ Range(stack) \subseteq Known
    /\ worker[t].job \in Listed /\ worker[t].job \notin Range(stack) /\ worker[t].job \notin Found
    /\ \A u \in Threads : Busy(u) => worker[u].job \in Known
    /\ \A u \in Threads : u # t /\ Busy(u) => worker[u].job # worker[t].job
    /\ n \notin Kids(n) /\ Kids(n) \cap Known = {}
    /\ \A e : e # worker[t].job => n \notin Kids(e)

\* The entry is new; nobody else has to do with it or with its directory.
LEMMA EntryNew ==
    ASSUME Good, NEW t \in Threads, NEW n, Enters(t, n)
    PROVE  NewEntry(t, n)
  <1>1. Unique /\ Fresh /\ Sound /\ Busy(t)
    BY Zenon DEF Good, Tree, Enters, Busy
  <1>2. n \in Kids(worker[t].job) /\ n \notin Known
    BY <1>1, Zenon DEF Fresh, Enters
  <1>3. n # Root /\ n \in Nodes /\ Parent[n] = worker[t].job
    BY <1>2, Zenon DEF Kids
  <1>4. Listed \subseteq Known
    BY Zenon DEF Listed, Known
  <1>5. worker[t].job \notin Found
    BY <1>1, Zenon DEF Found, Unique
  <1>6. /\ Range(stack) \subseteq Known /\ worker[t].job \in Listed /\ worker[t].job \notin Range(stack)
        /\ \A u \in Threads : Busy(u) => worker[u].job \in Known
        /\ \A u \in Threads : u # t /\ Busy(u) => worker[u].job # worker[t].job
    BY <1>1, <1>4, Zenon DEF Unique
  <1>7. n \notin Kids(n) /\ \A e : e # worker[t].job => n \notin Kids(e)
    BY <1>2, <1>3, <1>4, <1>6, Zenon DEF Kids
  <1>8. \A m \in Kids(n) : m \notin Known
    BY <1>1, <1>2, Zenon DEF Kids, Sound
  <1> QED BY <1>2, <1>3, <1>4, <1>5, <1>6, <1>7, <1>8, Zenon DEF NewEntry

\* Where the entry goes: what is found, reported and known with it.
AddsFound(n) == IF n \in Dirs \ Pruned THEN {n} ELSE {}
AddsSeen(n) == IF n \notin Pruned /\ (n \in Dirs => kind = "pre") THEN {n} ELSE {}
AddsKnown(n) == IF n \in Pruned THEN {} ELSE {n}

LEMMA AddsFacts ==
    ASSUME Walking, NEW n
    PROVE  /\ AddsFound(n) \subseteq {n} /\ AddsSeen(n) \subseteq {n} /\ AddsKnown(n) \subseteq {n}
           /\ AddsFound(n) \cup AddsSeen(n) = AddsKnown(n)
           /\ n \in AddsKnown(n) <=> n \notin Pruned
           /\ n \in AddsFound(n) <=> n \in Dirs \ Pruned
           /\ kind = "pre" => AddsFound(n) \subseteq AddsSeen(n)
           /\ kind = "post" => AddsFound(n) \cap AddsSeen(n) = {}
  BY Zenon DEF AddsFound, AddsSeen, AddsKnown, Walking

\* The state with the entry added.
Added(t, n) ==
    /\ \A u \in Threads : (Busy(u)' <=> Busy(u)) /\ (Holding(u)' <=> Holding(u)) /\ worker'[u].job = worker[u].job
    /\ Range(worker'[t].subs) = Range(worker[t].subs) \cup AddsFound(n) /\ IsInjective(worker'[t].subs)
    /\ Range(seen') = Range(seen) \cup AddsSeen(n) /\ IsInjective(seen')
    /\ Found' = Found \cup AddsFound(n)
    /\ Known' = Known \cup AddsKnown(n)
    /\ Listed \subseteq Listed'

LEMMA EntryAdds ==
    ASSUME Walking, Good, NEW t \in Threads, NEW n, Enters(t, n)
    PROVE  Added(t, n)
  <1>1. /\ \A u \in Threads : (Busy(u)' <=> Busy(u)) /\ (Holding(u)' <=> Holding(u)) /\ worker'[u].job = worker[u].job
        /\ \A u \in Threads : u # t => worker'[u] = worker[u]
        /\ Holding(t)
    BY Zenon DEF Enters, Busy, Holding
  <1>2. n \notin Known /\ n \in Nodes
    BY EntryNew, Zenon DEF NewEntry
  <1>3. seen \in Seq(Nodes) /\ worker[t].subs \in Seq(Dirs) /\ IsInjective(seen) /\ IsInjective(worker[t].subs)
    BY <1>1, Zenon DEF Good, Shape, Worker, Tree, Order, Unique
  <1>4. Range(worker[t].subs) \subseteq Found
    BY <1>1, <1>3, TreeAssumption DEF Found, Range
  <1>5. n \notin Range(worker[t].subs) /\ n \notin Range(seen)
    BY <1>2, <1>4, Zenon DEF Known
  <1>6. Range(worker'[t].subs) = Range(worker[t].subs) \cup AddsFound(n) /\ IsInjective(worker'[t].subs)
    BY <1>3, <1>5, Appended DEF Enters, AddsFound
  <1>7. Range(seen') = Range(seen) \cup AddsSeen(n) /\ IsInjective(seen')
    BY <1>2, <1>3, <1>5, Appended DEF Enters, AddsSeen
  <1>8. Found' = Found \cup AddsFound(n)
    <2>1. ASSUME NEW x \in Found' PROVE x \in Found \cup AddsFound(n)
      <3>1. PICK u \in Threads : Holding(u)' /\ x \in Range(worker'[u].subs) /\ x \in Nodes
        BY Zenon DEF Found
      <3> QED BY <1>1, <1>4, <1>6, <3>1, Zenon DEF Found
    <2>2. ASSUME NEW x \in Found PROVE x \in Found'
      BY <1>1, <1>6, Zenon DEF Found
    <2>3. ASSUME NEW x \in AddsFound(n) PROVE x \in Found'
      <3>1. x \in Nodes /\ x \in Range(worker'[t].subs) /\ Holding(t)'
        BY <1>1, <1>2, <1>6, AddsFacts
      <3> QED BY <3>1, Zenon DEF Found
    <2> QED BY <2>1, <2>2, <2>3, Zenon
  <1>9. Known' = Known \cup AddsKnown(n)
    BY <1>7, <1>8, AddsFacts, Zenon DEF Known, Enters
  <1>10. Listed \subseteq Listed'
    BY <1>7, Zenon DEF Listed, Enters
  <1> QED BY <1>1, <1>6, <1>7, <1>8, <1>9, <1>10, Zenon DEF Added

LEMMA EntryUnique ==
    ASSUME Walking, Good, NEW t \in Threads, NEW n, Enters(t, n)
    PROVE  Unique'
  <1>1. Added(t, n)
    BY EntryAdds, Zenon
  <1>2. Unique /\ stack' = stack /\ \A u \in Threads : u # t => worker'[u] = worker[u]
    BY Zenon DEF Good, Tree, Enters
  <1>3. ASSUME NEW u \in Threads, Holding(u)'
        PROVE  /\ IsInjective(worker'[u].subs)
               /\ \A x \in Range(worker'[u].subs) :
                      /\ x \in Kids(worker[u].job) \ (Pruned \cup Range(stack))
                      /\ \A v \in Threads : Busy(v) => worker[v].job # x
    <2>1. /\ IsInjective(worker[u].subs)
          /\ \A x \in Range(worker[u].subs) :
                 /\ x \in Kids(worker[u].job) \ (Pruned \cup Range(stack))
                 /\ \A v \in Threads : Busy(v) => worker[v].job # x
      BY <1>1, <1>2, <1>3, Zenon DEF Unique, Added
    <2>2. CASE u # t
      BY <1>2, <2>1, <2>2, Zenon
    <2>3. CASE u = t
      <3>1. \A x \in AddsFound(n) : x = n /\ x \notin Pruned
        BY Zenon DEF AddsFound
      <3>2. n \in Kids(worker[t].job) /\ n \notin Range(stack) /\ \A v \in Threads : Busy(v) => worker[v].job # n
        BY EntryNew DEF NewEntry
      <3> QED BY <1>1, <2>1, <2>3, <3>1, <3>2, Zenon DEF Added
    <2> QED BY <2>2, <2>3, Zenon
  <1> QED BY <1>1, <1>2, <1>3 DEF Unique, Added

LEMMA EntryFresh ==
    ASSUME Walking, Good, NEW t \in Threads, NEW n, Enters(t, n)
    PROVE  Fresh'
  <1>1. Added(t, n)
    BY EntryAdds
  <1>2. Fresh /\ stack' = stack /\ worker'[t].left = worker[t].left \ {n} /\ worker'[t].job = worker[t].job
        /\ worker[t].pc = "read" /\ worker'[t].pc = "read" /\ \A u \in Threads : u # t => worker'[u] = worker[u]
    BY Zenon DEF Good, Tree, Enters
  <1>3. AddsFound(n) \subseteq {n} /\ AddsKnown(n) \subseteq {n} /\ n \in Known' \cup Pruned
    BY <1>1, AddsFacts, Zenon DEF Added
  <1>4. /\ worker[t].job \notin Range(stack) \cup Found
        /\ \A u \in Threads : u # t /\ Busy(u) => worker[u].job # worker[t].job
        /\ Kids(n) \cap Known' = {}
        /\ \A e : e # worker[t].job => Kids(e) \cap Known' = Kids(e) \cap Known
    BY <1>1, <1>3, EntryNew DEF Added, NewEntry
  <1>5. \A e \in Range(stack') \cup Found' : Kids(e) \cap Known' = {}
    BY <1>1, <1>2, <1>3, <1>4, Zenon DEF Fresh, Added
  <1>6. ASSUME NEW u \in Threads, worker'[u].pc = "open" PROVE Kids(worker'[u].job) \cap Known' = {}
    <2>1. u # t /\ worker'[u] = worker[u] /\ Busy(u)
      BY <1>2, <1>6, Zenon DEF Busy
    <2> QED BY <1>2, <1>4, <1>6, <2>1, Zenon DEF Fresh
  <1>7. ASSUME NEW u \in Threads, worker'[u].pc = "read"
        PROVE  /\ worker'[u].left \subseteq Kids(worker'[u].job) \ Known'
               /\ Kids(worker'[u].job) \subseteq worker'[u].left \cup Known' \cup Pruned
    <2>1. worker[u].pc = "read" /\ worker'[u].job = worker[u].job /\ Busy(u)
      BY <1>2, <1>7, Zenon DEF Busy
    <2>2. /\ worker[u].left \subseteq Kids(worker[u].job) \ Known
          /\ Kids(worker[u].job) \subseteq worker[u].left \cup Known \cup Pruned
      BY <1>2, <2>1, Zenon DEF Fresh
    <2>3. CASE u = t
      BY <1>1, <1>2, <1>3, <2>2, <2>3, Zenon DEF Added
    <2>4. CASE u # t
      BY <1>1, <1>2, <1>4, <2>1, <2>2, <2>4 DEF Added
    <2> QED BY <2>3, <2>4, Zenon
  <1> QED BY <1>5, <1>6, <1>7, Zenon DEF Fresh

LEMMA EntrySound ==
    ASSUME Walking, Good, NEW t \in Threads, NEW n, Enters(t, n)
    PROVE  Complete' /\ Sound'
  <1>1. Added(t, n)
    BY EntryAdds
  <1>2. Complete /\ Sound /\ UNCHANGED <<stack, err, main>>
    BY Zenon DEF Good, Tree, Enters
  <1>3. n \notin Known /\ n \in Nodes \ {Root} /\ Parent[n] \in Known
    BY EntryNew, Zenon DEF NewEntry
  <1>4. /\ AddsKnown(n) \subseteq {n}
        /\ n \in AddsKnown(n) <=> n \notin Pruned
        /\ n \in AddsFound(n) <=> n \in Dirs \ Pruned
    BY AddsFacts, Zenon
  <1>5. \A e : Token(e) => Token(e)'
    BY <1>1, <1>2, Zenon DEF Token, Added
  <1>6. n \in Known' /\ n \in Dirs => Token(n)'
    BY <1>1, <1>3, <1>4, Zenon DEF Token, Added
  <1>7. Complete'
    BY <1>1, <1>2, <1>4, <1>5, <1>6, Zenon DEF Complete, Added
  <1>8. n \notin Pruned => n \in InWalk
    BY <1>2, <1>3, InWalkFacts, Zenon DEF Sound
  <1>9. Sound'
    BY <1>1, <1>2, <1>3, <1>4, <1>8, Zenon DEF Sound, Added
  <1> QED BY <1>7, <1>9, Zenon

\* The callbacks before this one, and this one.
LEMMA EntrySeen ==
    ASSUME Walking, Good, NEW t \in Threads, NEW n, Enters(t, n)
    PROVE  /\ DOMAIN seen = 1..Len(seen) /\ Len(seen) \in Nat
           /\ \A i \in DOMAIN seen : i \in DOMAIN seen' /\ seen'[i] = seen[i]
           /\ \A i \in DOMAIN seen' : i \in DOMAIN seen \/ (i = Len(seen) + 1 /\ seen'[i] = n)
  <1>1. seen \in Seq(Nodes) /\ n \in Nodes
    BY EntryNew, Zenon DEF NewEntry, Good, Shape
  <1> QED BY <1>1, Appended DEF Enters

LEMMA EntryPre ==
    ASSUME Walking, Good, NEW t \in Threads, NEW n, Enters(t, n), kind = "pre"
    PROVE  \A j \in DOMAIN seen' : seen'[j] # Root => \E i \in 1..(j - 1) : seen'[i] = Parent[seen'[j]]
  <1> SUFFICES ASSUME NEW j \in DOMAIN seen', seen'[j] # Root PROVE \E i \in 1..(j - 1) : seen'[i] = Parent[seen'[j]]
    BY Zenon
  <1>1. /\ DOMAIN seen = 1..Len(seen) /\ Len(seen) \in Nat
        /\ \A i \in DOMAIN seen : i \in DOMAIN seen' /\ seen'[i] = seen[i]
        /\ j \in DOMAIN seen \/ (j = Len(seen) + 1 /\ seen'[j] = n)
    BY EntrySeen, Zenon
  <1>2. CASE j \in DOMAIN seen
    <2>1. PICK i \in 1..(j - 1) : seen[i] = Parent[seen[j]]
      BY <1>1, <1>2, Zenon DEF Good, Tree, Order
    <2>2. i \in DOMAIN seen
      BY <1>1, <1>2
    <2> QED BY <1>1, <1>2, <2>1, <2>2, Zenon
  <1>3. CASE j = Len(seen) + 1 /\ seen'[j] = n
    <2>1. Parent[n] \in Range(seen)
      BY EntryNew, Zenon DEF NewEntry, Listed
    <2>2. PICK i \in DOMAIN seen : seen[i] = Parent[n]
      BY <2>1, Zenon DEF Range
    <2>3. i \in 1..(j - 1) /\ seen'[i] = Parent[n]
      BY <1>1, <1>3, <2>2
    <2> QED BY <1>3, <2>3, Zenon
  <1> QED BY <1>1, <1>2, <1>3, Zenon

LEMMA EntryPost ==
    ASSUME Walking, Good, NEW t \in Threads, NEW n, Enters(t, n), kind = "post"
    PROVE  \A i \in DOMAIN seen' : \A m \in Kids(seen'[i]) \cap Known' : \E j \in 1..(i - 1) : seen'[j] = m
  <1> SUFFICES ASSUME NEW i \in DOMAIN seen', NEW m \in Kids(seen'[i]) \cap Known' PROVE \E j \in 1..(i - 1) : seen'[j] = m
    BY Zenon
  <1>1. /\ DOMAIN seen = 1..Len(seen) /\ Len(seen) \in Nat
        /\ \A k \in DOMAIN seen : k \in DOMAIN seen' /\ seen'[k] = seen[k]
        /\ i \in DOMAIN seen \/ (i = Len(seen) + 1 /\ seen'[i] = n)
    BY EntrySeen, Zenon
  <1>2. Known' = Known \cup AddsKnown(n) /\ AddsKnown(n) \subseteq {n}
    BY EntryAdds, AddsFacts, Zenon DEF Added
  <1>3. CASE i \in DOMAIN seen
    <2>1. seen[i] \in Range(seen)
      BY <1>3, Zenon DEF Range
    <2>2. worker[t].job \in Range(dirs) /\ Range(dirs) \cap Range(seen) = {}
      BY EntryNew, Zenon DEF NewEntry, Listed, Good, Tree, Order
    <2>3. m # n
      BY <1>1, <1>3, <2>1, <2>2, EntryNew DEF NewEntry
    <2>4. m \in Kids(seen[i]) \cap Known
      BY <1>1, <1>2, <1>3, <2>3, Zenon
    <2>5. PICK j \in 1..(i - 1) : seen[j] = m
      BY <1>3, <2>4, Zenon DEF Good, Tree, Order
    <2>6. j \in DOMAIN seen
      BY <1>1, <1>3
    <2> QED BY <1>1, <2>5, <2>6, Zenon
  <1>4. CASE seen'[i] = n
    BY <1>2, <1>4, EntryNew DEF NewEntry
  <1> QED BY <1>1, <1>3, <1>4, Zenon

LEMMA EntryTree ==
    ASSUME Walking, Good, NEW t \in Threads, NEW n, Enters(t, n)
    PROVE  Tree'
  <1>1. Unique' /\ Fresh' /\ Complete' /\ Sound'
    BY EntryUnique, EntryFresh, EntrySound, Zenon
  <1>2. Added(t, n)
    BY EntryAdds
  <1>3. Order /\ UNCHANGED <<kind, dirs>>
    BY Zenon DEF Good, Tree, Enters
  <1>4. CASE kind = "pre"
    <2>1. AddsFound(n) \subseteq AddsSeen(n)
      BY <1>4, AddsFacts, Zenon
    <2>2. dirs' = <<>> /\ Found' \subseteq Range(seen')
      BY <1>2, <1>3, <1>4, <2>1, Zenon DEF Order, Added
    <2>3. \A j \in DOMAIN seen' : seen'[j] # Root => \E i \in 1..(j - 1) : seen'[i] = Parent[seen'[j]]
      BY <1>4, EntryPre, Zenon
    <2> QED BY <1>1, <1>2, <1>3, <1>4, <2>2, <2>3, Zenon DEF Tree, Order, Added
  <1>5. CASE kind = "post"
    <2>1. AddsFound(n) \cap AddsSeen(n) = {} /\ AddsFound(n) \subseteq {n} /\ AddsSeen(n) \subseteq {n}
      BY <1>5, AddsFacts, Zenon
    <2>2. n \notin Range(seen) /\ n \notin Range(dirs) /\ n \notin Found
      BY EntryNew, Zenon DEF NewEntry, Known
    <2>3. Range(dirs) \cap Range(seen) = {} /\ Found \cap (Range(dirs) \cup Range(seen)) = {}
      BY <1>3, <1>5, Zenon DEF Order
    <2>4. Range(dirs') \cap Range(seen') = {} /\ Found' \cap (Range(dirs') \cup Range(seen')) = {}
      BY <1>2, <1>3, <2>1, <2>2, <2>3 DEF Added
    <2>5. \A i \in DOMAIN seen' : \A m \in Kids(seen'[i]) \cap Known' : \E j \in 1..(i - 1) : seen'[j] = m
      BY <1>5, EntryPost, Zenon
    <2>6. /\ IsInjective(dirs')
          /\ \A j \in DOMAIN dirs' : dirs'[j] # Root => \E i \in 1..(j - 1) : dirs'[i] = Parent[dirs'[j]]
      BY <1>3, <1>5, Zenon DEF Order
    <2>7. Order'
      BY <1>2, <1>3, <1>5, <2>4, <2>5, <2>6, Zenon DEF Order, Added
    <2> QED BY <1>1, <2>7, Zenon DEF Tree
  <1> QED BY <1>4, <1>5, Zenon DEF Walking

\* The other threads and what they have found, once this one has left its directory.
Gone(t) ==
    /\ \A u \in Threads : Busy(u)' => u # t /\ Busy(u) /\ worker'[u] = worker[u]
    /\ \A u \in Threads : Holding(u)' => u # t /\ Holding(u) /\ worker'[u] = worker[u]
    /\ \A u \in Threads : u # t /\ Busy(u) => Busy(u)' /\ worker'[u] = worker[u]
    /\ Found' = Found \ Range(worker[t].subs)
    /\ \A u \in Threads : u # t /\ Busy(u) => worker[u].job # worker[t].job
    /\ \A x \in Range(worker[t].subs) : x \in Found /\ Parent[x] = worker[t].job /\ x # Root
    /\ \A x \in Found : x # Root

\* A thread is done with its directory, or gives it up.
LEMMA Leaves ==
    ASSUME Good, NEW t \in Threads, Ends(t)
    PROVE  Gone(t)
  <1>0. Unique /\ Holding(t) /\ \A u \in Threads : Holding(u) => Busy(u)
    BY Zenon DEF Good, Tree, Holding, Busy, Ends
  <1>1. \A u \in Threads : u # t => (Busy(u)' <=> Busy(u)) /\ (Holding(u)' <=> Holding(u)) /\ (Busy(u) => worker'[u] = worker[u])
    BY Zenon DEF Still, Busy, Holding, Ends
  <1>2. ~Busy(t)' /\ ~Holding(t)'
    BY Zenon DEF Busy, Holding, Ends
  <1>3. \A u \in Threads : Holding(u)' => u # t /\ Holding(u) /\ worker'[u] = worker[u]
    BY <1>0, <1>1, <1>2, Zenon
  <1>4. \A u \in Threads : u # t /\ Busy(u) => worker[u].job # worker[t].job
    BY <1>0, Zenon DEF Unique
  <1>5. \A u \in Threads : Holding(u) => \A x \in Range(worker[u].subs) : x \in Kids(worker[u].job)
    BY <1>0, Zenon DEF Unique
  <1>6. \A x \in Range(worker[t].subs) : x \in Found /\ Parent[x] = worker[t].job /\ x # Root
    BY <1>0, <1>5, Zenon DEF Kids, Found
  <1>7. \A x \in Found : x # Root
    BY <1>5, Zenon DEF Kids, Found
  <1>8. Found' = Found \ Range(worker[t].subs)
    <2>1. ASSUME NEW x \in Found' PROVE x \in Found \ Range(worker[t].subs)
      <3>1. PICK u \in Threads : Holding(u)' /\ x \in Range(worker'[u].subs) /\ x \in Nodes
        BY Zenon DEF Found
      <3>2. u # t /\ Holding(u) /\ x \in Range(worker[u].subs)
        BY <1>3, <3>1, Zenon
      <3>3. Parent[x] = worker[u].job /\ worker[u].job # worker[t].job
        BY <1>0, <1>4, <1>5, <3>2, Zenon DEF Kids
      <3> QED BY <1>6, <3>1, <3>2, <3>3, Zenon DEF Found
    <2>2. ASSUME NEW x \in Found, x \notin Range(worker[t].subs) PROVE x \in Found'
      <3>1. PICK u \in Threads : Holding(u) /\ x \in Range(worker[u].subs) /\ x \in Nodes
        BY Zenon DEF Found
      <3>2. u # t /\ Holding(u)' /\ x \in Range(worker'[u].subs)
        BY <1>0, <1>1, <2>2, <3>1, Zenon
      <3> QED BY <3>1, <3>2, Zenon DEF Found
    <2> QED BY <2>1, <2>2, Zenon
  <1> QED BY <1>1, <1>2, <1>3, <1>4, <1>6, <1>7, <1>8, Zenon DEF Gone

\* The state with the directories handed over.
Pushed(t, s, d) ==
    /\ Range(stack') = Range(stack) \cup Range(s) /\ IsInjective(stack')
    /\ kind = "post" => /\ Range(dirs') = Range(dirs) \cup Range(s) /\ Range(dirs) \cap Range(s) = {}
                        /\ IsInjective(dirs')
    /\ Found' = Found \ Range(s) /\ Range(s) \subseteq Found /\ (\A x \in Range(s) : Parent[x] = d /\ x # Root)
    /\ \A x \in Range(s) : \A u \in Threads : Busy(u) => worker[u].job # x
    /\ Listed' = Listed \cup Range(s) /\ Known' = Known
    /\ Kids(d) \subseteq Known \cup Pruned

\* The directories found are handed over.
LEMMA PushFacts ==
    ASSUME Walking, Good, NEW t \in Threads, NEW s, NEW d, Pushes(t, s, d)
    PROVE  Pushed(t, s, d)
  <1>1. Unique /\ Fresh /\ Order /\ Holding(t) /\ Busy(t) /\ s = worker[t].subs /\ d = worker[t].job
    BY Zenon DEF Good, Tree, Pushes, Ends, Holding, Busy
  <1>2. stack \in Seq(Dirs) /\ dirs \in Seq(Dirs) /\ s \in Seq(Dirs)
    BY <1>1, Zenon DEF Good, Shape, Worker
  <1>3. /\ Found' = Found \ Range(s)
        /\ \A x \in Range(s) : x \in Found /\ Parent[x] = d /\ x # Root
    BY <1>1, Leaves, Zenon DEF Gone, Pushes
  <1>4. /\ IsInjective(s) /\ Range(s) \cap Range(stack) = {} /\ IsInjective(stack)
        /\ \A x \in Range(s) : \A u \in Threads : Busy(u) => worker[u].job # x
    BY <1>1, Zenon DEF Unique
  <1>5. Range(stack') = Range(stack) \cup Range(s) /\ IsInjective(stack')
    BY <1>2, <1>4, Joined DEF Pushes
  <1>6. ASSUME kind = "post"
        PROVE  Range(dirs') = Range(dirs) \cup Range(s) /\ Range(dirs) \cap Range(s) = {} /\ IsInjective(dirs')
    <2>1. IsInjective(dirs) /\ Range(dirs) \cap Range(s) = {}
      BY <1>1, <1>3, <1>6, Zenon DEF Order
    <2> QED BY <1>2, <1>4, <1>6, <2>1, Joined DEF Pushes
  <1>7. CASE kind = "pre"
    <2>1. dirs' = dirs /\ UNCHANGED <<kind, seen>> /\ Found \subseteq Range(seen)
      BY <1>1, <1>7, Zenon DEF Pushes, Order
    <2>2. Listed' = Listed \cup Range(s) /\ Known' = Known
      BY <1>3, <1>7, <2>1, Zenon DEF Listed, Known
    <2> QED BY <1>1, <1>3, <1>4, <1>5, <1>7, <2>2, Zenon DEF Fresh, Pushes, Pushed
  <1>8. CASE kind = "post"
    <2>1. UNCHANGED <<kind, seen>>
      BY Zenon DEF Pushes
    <2>2. Listed' = Listed \cup Range(s) /\ Known' = Known
      BY <1>3, <1>6, <1>8, <2>1, Zenon DEF Listed, Known
    <2> QED BY <1>1, <1>3, <1>4, <1>5, <1>6, <1>8, <2>2, Zenon DEF Fresh, Pushes, Pushed
  <1> QED BY <1>7, <1>8, Zenon DEF Walking

LEMMA PushUnique ==
    ASSUME Walking, Good, NEW t \in Threads, NEW s, NEW d, Pushes(t, s, d)
    PROVE  Unique'
  <1>1. Pushed(t, s, d)
    BY PushFacts, Zenon
  <1>2. /\ \A u \in Threads : Busy(u)' => u # t /\ Busy(u) /\ worker'[u] = worker[u]
        /\ \A u \in Threads : Holding(u)' => u # t /\ Holding(u) /\ worker'[u] = worker[u]
        /\ \A u \in Threads : u # t /\ Busy(u) => worker[u].job # d
    BY Leaves, Zenon DEF Gone, Pushes
  <1>3. Unique
    BY Zenon DEF Good, Tree
  <1>4. Range(stack') \subseteq Listed'
    BY <1>1, <1>3, Zenon DEF Unique, Pushed
  <1>5. \A u \in Threads : Busy(u)' => worker'[u].job \in Listed' \ Range(stack')
    BY <1>1, <1>2, <1>3, Zenon DEF Unique, Pushed
  <1>6. \A u, v \in Threads : Busy(u)' /\ Busy(v)' /\ u # v => worker'[u].job # worker'[v].job
    BY <1>2, <1>3, Zenon DEF Unique
  <1>7. ASSUME NEW u \in Threads, Holding(u)'
        PROVE  /\ IsInjective(worker'[u].subs)
               /\ \A x \in Range(worker'[u].subs) :
                      /\ x \in Kids(worker'[u].job) \ (Pruned \cup Range(stack'))
                      /\ \A v \in Threads : Busy(v)' => worker'[v].job # x
    <2>1. u # t /\ Holding(u) /\ worker'[u] = worker[u]
      BY <1>2, <1>7, Zenon
    <2>2. worker[u].job # d
      BY <1>2, <2>1, Zenon DEF Holding, Busy
    <2>3. /\ IsInjective(worker[u].subs)
          /\ \A x \in Range(worker[u].subs) :
                 /\ x \in Kids(worker[u].job) \ (Pruned \cup Range(stack))
                 /\ \A v \in Threads : Busy(v) => worker[v].job # x
      BY <1>3, <2>1, Zenon DEF Unique
    <2>4. \A x \in Range(worker[u].subs) : x \notin Range(s)
      BY <1>1, <2>2, <2>3, Zenon DEF Kids, Pushed
    <2> QED BY <1>1, <1>2, <2>1, <2>3, <2>4, Zenon DEF Pushed
  <1> QED BY <1>1, <1>4, <1>5, <1>6, <1>7, Zenon DEF Unique, Pushed

\* After the walk the directories are reported from the last to the first: one comes before what it holds.
LEMMA PushOrder ==
    ASSUME Good, NEW t \in Threads, NEW s, NEW d, Pushes(t, s, d), kind = "post", \A x \in Range(s) : Parent[x] = d
    PROVE  \A j \in DOMAIN dirs' : dirs'[j] # Root => \E i \in 1..(j - 1) : dirs'[i] = Parent[dirs'[j]]
  <1> SUFFICES ASSUME NEW j \in DOMAIN dirs', dirs'[j] # Root PROVE \E i \in 1..(j - 1) : dirs'[i] = Parent[dirs'[j]]
    BY Zenon
  <1>1. dirs \in Seq(Dirs) /\ s \in Seq(Dirs)
    BY Zenon DEF Good, Shape, Worker, Pushes
  <1>2. d \in Range(dirs)
    BY Zenon DEF Good, Tree, Unique, Listed, Pushes, Ends, Holding, Busy
  <1>3. /\ DOMAIN dirs' = 1..(Len(dirs) + Len(s)) /\ DOMAIN dirs = 1..Len(dirs) /\ DOMAIN s = 1..Len(s)
        /\ Len(dirs) \in Nat /\ Len(s) \in Nat
        /\ \A i \in 1..Len(dirs) : dirs'[i] = dirs[i]
        /\ \A i \in 1..Len(s) : dirs'[Len(dirs) + i] = s[i]
    BY <1>1, Joined DEF Pushes
  <1>4. CASE j \in 1..Len(dirs)
    <2>1. PICK i \in 1..(j - 1) : dirs[i] = Parent[dirs[j]]
      BY <1>3, <1>4, Zenon DEF Good, Tree, Order
    <2>2. i \in 1..Len(dirs)
      BY <1>3, <1>4
    <2> QED BY <1>3, <1>4, <2>1, <2>2, Zenon
  <1>5. CASE j \notin 1..Len(dirs)
    <2>1. PICK k \in 1..Len(s) : j = Len(dirs) + k
      <3>1. j - Len(dirs) \in 1..Len(s) /\ j = Len(dirs) + (j - Len(dirs))
        BY <1>3, <1>5
      <3> QED BY <3>1, Zenon
    <2>2. dirs'[j] = s[k] /\ s[k] \in Range(s)
      BY <1>3, <2>1, Zenon DEF Range
    <2>3. PICK i \in 1..Len(dirs) : dirs[i] = d
      BY <1>2, <1>3, Zenon DEF Range
    <2>4. i \in 1..(j - 1) /\ dirs'[i] = d
      BY <1>3, <2>1, <2>3
    <2> QED BY <2>2, <2>4, Zenon
  <1> QED BY <1>4, <1>5, Zenon

LEMMA PushTree ==
    ASSUME Walking, Good, NEW t \in Threads, NEW s, NEW d, Pushes(t, s, d)
    PROVE  Tree'
  <1>1. Pushed(t, s, d)
    BY PushFacts
  <1>2. /\ \A u \in Threads : Busy(u)' => u # t /\ Busy(u) /\ worker'[u] = worker[u]
        /\ \A u \in Threads : u # t /\ Busy(u) => Busy(u)' /\ worker'[u] = worker[u]
    BY Leaves, Zenon DEF Gone, Pushes
  <1>3. Fresh /\ Complete /\ Sound /\ Order /\ d = worker[t].job /\ UNCHANGED <<kind, seen, err, main>>
    BY Zenon DEF Good, Tree, Pushes
  <1>4. Fresh'
    <2>1. \A e \in Range(stack') \cup Found' : Kids(e) \cap Known' = {}
      BY <1>1, <1>3, Zenon DEF Fresh, Pushed
    <2>2. \A u \in Threads : worker'[u].pc \in {"open", "read"} => worker'[u] = worker[u]
      BY <1>2, Zenon DEF Busy
    <2> QED BY <1>1, <1>3, <2>1, <2>2, Zenon DEF Fresh, Pushed
  <1>5. Complete' /\ Sound'
    <2>1. ASSUME NEW e, e # d, Token(e) PROVE Token(e)'
      <3>1. CASE e \in Range(stack) \cup Found
        BY <1>1, <3>1, Zenon DEF Token, Pushed
      <3>2. ASSUME NEW u \in Threads, Busy(u), worker[u].job = e PROVE Token(e)'
        <4>1. Busy(u)' /\ worker'[u].job = e
          BY <1>2, <1>3, <2>1, <3>2, Zenon
        <4> QED BY <4>1, Zenon DEF Token
      <3> QED BY <2>1, <3>1, <3>2, Zenon DEF Token
    <2> QED BY <1>1, <1>3, <2>1, Zenon DEF Complete, Sound, Pushed
  <1>6. CASE kind = "pre"
    <2>1. dirs' = dirs
      BY <1>6, Zenon DEF Pushes
    <2>2. Order'
      BY <1>1, <1>3, <1>6, <2>1 DEF Order, Pushed
    <2> QED BY <1>4, <1>5, <2>2, PushUnique, Zenon DEF Tree
  <1>7. CASE kind = "post"
    <2>1. Range(dirs') \cap Range(seen') = {} /\ Found' \cap (Range(dirs') \cup Range(seen')) = {}
      BY <1>1, <1>3, <1>7, Zenon DEF Order, Pushed
    <2>2. \A j \in DOMAIN dirs' : dirs'[j] # Root => \E i \in 1..(j - 1) : dirs'[i] = Parent[dirs'[j]]
      BY <1>1, <1>7, PushOrder, Zenon DEF Pushed
    <2>3. Order'
      BY <1>1, <1>3, <1>7, <2>1, <2>2 DEF Order, Pushed
    <2> QED BY <1>4, <1>5, <2>3, PushUnique DEF Tree
  <1> QED BY <1>6, <1>7, Zenon DEF Walking

\* The directories that a failing thread has found are forgotten.
LEMMA FailTree ==
    ASSUME Good, NEW t \in Threads, NEW s, NEW d, GivesUp(t, s, d)
    PROVE  Tree'
  <1>1. Unique /\ Fresh /\ Complete /\ Sound /\ Order /\ err' # Ok /\ UNCHANGED <<kind, stack, dirs, seen, main>>
    BY Zenon DEF Good, Tree, GivesUp
  <1>2. /\ \A u \in Threads : Busy(u)' => u # t /\ Busy(u) /\ worker'[u] = worker[u]
        /\ \A u \in Threads : Holding(u)' => u # t /\ Holding(u) /\ worker'[u] = worker[u]
        /\ Found' = Found \ Range(s)
        /\ \A u \in Threads : u # t /\ Busy(u) => worker[u].job # d
        /\ \A x \in Range(s) : x \in Found /\ Parent[x] = d /\ x # Root
        /\ \A x \in Found : x # Root
    BY Leaves, Zenon DEF Gone, GivesUp
  <1>3. Listed' = Listed /\ Known' \subseteq Known /\ \A x \in Known : x \in Known' \/ (x \in Range(s) /\ x \in Found)
    BY <1>1, <1>2, Zenon DEF Known, Listed
  <1>4. Unique'
    BY <1>1, <1>2, <1>3 DEF Unique
  <1>5. Fresh'
    <2>1. \A e \in Range(stack') \cup Found' : Kids(e) \cap Known' = {}
      BY <1>1, <1>2, <1>3, Zenon DEF Fresh
    <2>2. \A u \in Threads : worker'[u].pc \in {"open", "read"} => u # t /\ Busy(u) /\ worker'[u] = worker[u]
      BY <1>2, Zenon DEF Busy
    <2>3. \A u \in Threads : worker'[u].pc = "open" => Kids(worker'[u].job) \cap Known' = {}
      BY <1>1, <1>3, <2>2, Zenon DEF Fresh
    <2>4. ASSUME NEW u \in Threads, worker'[u].pc = "read"
          PROVE  /\ worker'[u].left \subseteq Kids(worker'[u].job) \ Known'
                 /\ Kids(worker'[u].job) \subseteq worker'[u].left \cup Known' \cup Pruned
      <3>1. u # t /\ Busy(u) /\ worker'[u] = worker[u]
        BY <2>2, <2>4, Zenon
      <3>2. /\ worker[u].left \subseteq Kids(worker[u].job) \ Known
            /\ Kids(worker[u].job) \subseteq worker[u].left \cup Known \cup Pruned
        BY <1>1, <2>4, <3>1, Zenon DEF Fresh
      <3>3. \A x \in Kids(worker[u].job) : x \notin Range(s)
        BY <1>2, <3>1, Zenon DEF Kids
      <3> QED BY <1>3, <3>1, <3>2, <3>3, Zenon
    <2> QED BY <2>1, <2>3, <2>4, Zenon DEF Fresh
  <1>6. Complete'
    BY <1>1, <1>2, <1>3, Zenon DEF Complete
  <1>7. Sound'
    <2>1. \A x \in Known' \ {Root} : Parent[x] \in Known'
      <3> SUFFICES ASSUME NEW x \in Known', x # Root PROVE Parent[x] \in Known'
        BY Zenon
      <3>1. x \in Known /\ x \in Nodes /\ Parent[x] \in Known
        BY <1>1, <1>3, InWalkFacts, Zenon DEF Sound
      <3>2. x \in Kids(Parent[x])
        BY <3>1, Zenon DEF Kids
      <3>3. Parent[x] \notin Found
        BY <1>1, <3>1, <3>2, Zenon DEF Fresh
      <3> QED BY <1>3, <3>1, <3>3, Zenon
    <2> QED BY <1>1, <1>3, <2>1, Zenon DEF Sound
  <1>8. Order'
    <2>1. Found' \subseteq Found
      BY <1>2, Zenon
    <2> QED BY <1>1, <1>3, <2>1 DEF Order
  <1> QED BY <1>4, <1>5, <1>6, <1>7, <1>8, Zenon DEF Tree

\* The two sequences after the last directory has been reported.
Tailed(d) ==
    /\ dirs' \in Seq(Dirs) /\ Len(dirs) \in Nat \ {0} /\ DOMAIN dirs = 1..Len(dirs)
    /\ DOMAIN dirs' = 1..(Len(dirs) - 1)
    /\ \A i \in 1..(Len(dirs) - 1) : dirs'[i] = dirs[i]
    /\ Range(dirs) = Range(dirs') \cup {d} /\ IsInjective(dirs') /\ d \notin Range(dirs') /\ IsInjective(dirs)
    /\ seen' \in Seq(Nodes) /\ DOMAIN seen' = 1..(Len(seen) + 1)
    /\ \A i \in 1..Len(seen) : seen'[i] = seen[i]
    /\ seen'[Len(seen) + 1] = d
    /\ Range(seen') = Range(seen) \cup {d} /\ IsInjective(seen')
    /\ DOMAIN seen = 1..Len(seen) /\ Len(seen) \in Nat
    /\ kind = "post"

\* The last directory noted is reported: what it holds has been.
LEMMA TailFacts ==
    ASSUME Good, NEW d, Reports(d)
    PROVE  Tailed(d)
  <1>1. kind = "post" /\ seen \in Seq(Nodes) /\ dirs \in Seq(Dirs) /\ IsInjective(seen) /\ IsInjective(dirs)
        /\ Range(dirs) \cap Range(seen) = {}
    BY Zenon DEF Good, Shape, Team, Tree, Order, Reports
  <1>2. /\ dirs' \in Seq(Dirs) /\ d \in Dirs /\ Len(dirs) \in Nat \ {0}
        /\ DOMAIN dirs' = 1..(Len(dirs) - 1)
        /\ \A i \in 1..(Len(dirs) - 1) : dirs'[i] = dirs[i]
        /\ Range(dirs) = Range(dirs') \cup {d} /\ IsInjective(dirs') /\ d \notin Range(dirs')
    BY <1>1, Shortened DEF Reports
  <1>3. d \in Nodes /\ d \notin Range(seen) /\ DOMAIN dirs = 1..Len(dirs)
    BY <1>1, <1>2, TreeAssumption
  <1>4. /\ seen' \in Seq(Nodes) /\ DOMAIN seen' = 1..(Len(seen) + 1)
        /\ \A i \in 1..Len(seen) : seen'[i] = seen[i]
        /\ seen'[Len(seen) + 1] = d
        /\ Range(seen') = Range(seen) \cup {d} /\ IsInjective(seen')
        /\ DOMAIN seen = 1..Len(seen) /\ Len(seen) \in Nat
    BY <1>1, <1>3, Appended DEF Reports
  <1> QED BY <1>1, <1>2, <1>3, <1>4, Zenon DEF Tailed

\* Nothing is left to do, so what is known stays what it is.
LEMMA TailKnown ==
    ASSUME Good, NEW d, Reports(d)
    PROVE  /\ Found = {} /\ Found' = {} /\ Known' = Known
           /\ Unique' /\ Fresh' /\ Complete' /\ Sound'
  <1>1. Range(dirs) = Range(dirs') \cup {d} /\ Range(seen') = Range(seen) \cup {d}
    BY TailFacts, Zenon DEF Tailed
  <1>2. Complete /\ Sound /\ done /\ err = Ok /\ stack' = <<>> /\ UNCHANGED <<kind, worker, err, main>>
        /\ \A t \in Threads : ~Busy(t)
    BY Zenon DEF Good, Tree, Team, Reports
  <1>3. Found = {} /\ \A e \in Dirs : ~Token(e)
    BY <1>2, NothingLeft, Zenon
  <1>4. \A t \in Threads : ~Busy(t)' /\ ~Holding(t)' /\ worker'[t].pc # "open" /\ worker'[t].pc # "read"
    BY <1>2, Zenon DEF Busy, Holding
  <1>5. Found' = {}
    BY <1>4, Zenon DEF Found
  <1>6. Known' = Known
    BY <1>1, <1>3, <1>5, Zenon DEF Known
  <1>7. Range(stack') = {} /\ IsInjective(stack')
    BY <1>2 DEF IsInjective, Range
  <1>8. Unique' /\ Fresh'
    BY <1>4, <1>5, <1>7, Zenon DEF Unique, Fresh
  <1>9. \A e \in Known \cap Dirs : Kids(e) \subseteq Known \cup Pruned
    BY <1>2, <1>3, Zenon DEF Complete
  <1>10. Complete' /\ Sound'
    BY <1>2, <1>6, <1>9, Zenon DEF Complete, Sound
  <1> QED BY <1>3, <1>5, <1>6, <1>8, <1>10, Zenon

\* What the directory holds has been reported before it.
LEMMA TailSeen ==
    ASSUME Good, NEW d, Reports(d), NEW m \in Known, m # Root, Parent[m] = d
    PROVE  m \in Range(seen)
  <1>1. /\ DOMAIN dirs = 1..Len(dirs) /\ Len(dirs) \in Nat \ {0} /\ IsInjective(dirs) /\ kind = "post"
        /\ d = dirs[Len(dirs)]
    BY TailFacts, Zenon DEF Tailed, Reports
  <1>2. m \notin Range(dirs)
    <2> SUFFICES ASSUME NEW k \in DOMAIN dirs, dirs[k] = m PROVE FALSE
      BY Zenon DEF Range
    <2>1. PICK j \in 1..(k - 1) : dirs[j] = d
      BY <1>1 DEF Good, Tree, Order
    <2>2. j \in DOMAIN dirs /\ j < Len(dirs) /\ Len(dirs) \in DOMAIN dirs
      BY <1>1
    <2>3. j = Len(dirs)
      BY <1>1, <2>1, <2>2, Zenon DEF IsInjective
    <2> QED BY <1>1, <2>2, <2>3
  <1> QED BY <1>2, TailKnown, Zenon DEF Known

LEMMA TailTree ==
    ASSUME Good, NEW d, Reports(d)
    PROVE  Tree'
  <1>1. Tailed(d)
    BY TailFacts, Zenon
  <1>2. Found' = {} /\ Known' = Known /\ kind' = kind
    BY TailKnown, Zenon DEF Reports
  <1>3. /\ Range(dirs) \cap Range(seen) = {}
        /\ \A j \in DOMAIN dirs : dirs[j] # Root => \E i \in 1..(j - 1) : dirs[i] = Parent[dirs[j]]
        /\ \A i \in DOMAIN seen : \A m \in Kids(seen[i]) \cap Known : \E j \in 1..(i - 1) : seen[j] = m
    BY <1>1, Zenon DEF Good, Tree, Order, Tailed
  <1>4. Range(dirs') \cap Range(seen') = {}
    BY <1>1, <1>3, Zenon DEF Tailed
  <1>5. ASSUME NEW j \in DOMAIN dirs', dirs'[j] # Root PROVE \E i \in 1..(j - 1) : dirs'[i] = Parent[dirs'[j]]
    <2>1. j \in 1..(Len(dirs) - 1) /\ j \in DOMAIN dirs /\ dirs'[j] = dirs[j]
      BY <1>1 DEF Tailed
    <2>2. PICK i \in 1..(j - 1) : dirs[i] = Parent[dirs[j]]
      BY <1>3, <1>5, <2>1, Zenon
    <2>3. i \in 1..(Len(dirs) - 1)
      BY <1>1, <2>1 DEF Tailed
    <2> QED BY <1>1, <2>1, <2>2, <2>3, Zenon DEF Tailed
  <1>6. ASSUME NEW i \in DOMAIN seen', NEW m \in Kids(seen'[i]) \cap Known PROVE \E j \in 1..(i - 1) : seen'[j] = m
    <2>1. CASE i \in DOMAIN seen
      <3>1. PICK j \in 1..(i - 1) : seen[j] = m
        BY <1>1, <1>3, <1>6, <2>1 DEF Tailed
      <3>2. j \in 1..Len(seen)
        BY <1>1, <2>1 DEF Tailed
      <3> QED BY <1>1, <3>1, <3>2, Zenon DEF Tailed
    <2>2. CASE i = Len(seen) + 1
      <3>1. m # Root /\ Parent[m] = d
        BY <1>1, <1>6, <2>2, Zenon DEF Kids, Tailed
      <3>2. m \in Range(seen)
        BY <3>1, TailSeen, Zenon
      <3>3. PICK j \in 1..Len(seen) : seen[j] = m
        BY <1>1, <3>2, Zenon DEF Range, Tailed
      <3>4. j \in 1..(i - 1) /\ seen'[j] = m
        BY <1>1, <2>2, <3>3 DEF Tailed
      <3> QED BY <3>4, Zenon
    <2> QED BY <1>1, <2>1, <2>2 DEF Tailed
  <1>7. Order'
    BY <1>1, <1>2, <1>4, <1>5, <1>6, Zenon DEF Order, Tailed
  <1> QED BY <1>7, TailKnown, Zenon DEF Tree

LEMMA StepTree ==
    ASSUME Walking, Good, TreeStep
    PROVE  Tree'
  <1>1. CASE Quiet
    BY <1>1, Frame, Zenon DEF Good
  <1>2. ASSUME NEW t \in Threads, Takes(t, stack[Len(stack)]) \/ Opens(t) PROVE Tree'
    BY <1>2, TakeTree, ReadTree, Zenon
  <1>3. ASSUME NEW t \in Threads, NEW n, Enters(t, n) PROVE Tree'
    BY <1>3, EntryTree, Zenon
  <1>4. ASSUME NEW t \in Threads, Pushes(t, worker[t].subs, worker[t].job) PROVE Tree'
    BY <1>4, PushTree, Zenon
  <1>5. ASSUME NEW t \in Threads, GivesUp(t, worker[t].subs, worker[t].job) PROVE Tree'
    BY <1>5, FailTree, Zenon
  <1> QED BY <1>1, <1>2, <1>3, <1>4, <1>5, BeginTree, TailTree, Zenon DEF TreeStep
=============================================================================
