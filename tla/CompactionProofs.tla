-------------------------- MODULE CompactionProofs --------------------------
(***************************************************************************)
(* The compaction service for any Worlds, keys, values, limits and client  *)
(* threads.  The invariant says of each head that it shows what was        *)
(* committed and loads; of each task that its output shows what the head   *)
(* it captured shows, and that what it staged is stored; and of the        *)
(* service that every blocked update and every overdue World is in the     *)
(* queue or in the worker's hands.                                         *)
(***************************************************************************)
EXTENDS Compaction, FiniteSetTheorems, TLAPS

-----------------------------------------------------------------------------
(* Finite sets of natural numbers: extremes, ranks and the i-th member.     *)

\* A set of numbers that is not empty has a least member.
LEMMA LeastOf ==
  ASSUME NEW S \in SUBSET Nat, S # {}
  PROVE  \E x \in S : \A y \in S : x <= y
  <1>1. PICK x \in S : \A y \in S : ~(<<y, x>> \in OpToRel(<, Nat))
    BY WFMin, NatLessThanWellFounded, Zenon
  <1>2. \A y \in S : ~(y < x)
    BY <1>1, Zenon DEF OpToRel
  <1> QED BY <1>2

\* Least is the least member.
LEMMA MinOf ==
  ASSUME NEW S \in SUBSET Nat, S # {}
  PROVE  Least(S) \in S /\ \A y \in S : Least(S) <= y
  BY LeastOf, Zenon DEF Least

\* A finite set of numbers that is not empty has a greatest member.
LEMMA GreatestOf ==
  ASSUME NEW S \in SUBSET Nat, IsFiniteSet(S), S # {}
  PROVE  \E x \in S : \A y \in S : y <= x
  <1> DEFINE Top(X) == \E x \in X : \A y \in X : y <= x
             Bad == {X \in SUBSET Nat : IsFiniteSet(X) /\ X # {} /\ ~Top(X)}
  <1> SUFFICES ASSUME Bad # {} PROVE FALSE
    BY Zenon
  <1> DEFINE Sizes == {n \in Nat : \E X \in Bad : Cardinality(X) = n}
  <1>1. \A X \in Bad : Cardinality(X) \in Sizes
    BY FS_CardinalityType, Zenon
  <1>2. PICK n \in Sizes : \A m \in Sizes : n <= m
    <2> HIDE DEF Sizes, Bad
    <2>1. Sizes \in SUBSET Nat
      BY Zenon DEF Sizes
    <2> QED BY <1>1, <2>1, LeastOf, Zenon
  <1>3. PICK X \in Bad : Cardinality(X) = n
    BY Zenon
  <1>4. PICK x \in X : TRUE
    BY Zenon
  <1>5. X \ {x} # {}
    <2> SUFFICES ASSUME X = {x} PROVE FALSE
      BY <1>4, Zenon
    <2> QED OBVIOUS
  <1>6. IsFiniteSet(X \ {x}) /\ Cardinality(X \ {x}) = n - 1 /\ n \in Nat
    BY <1>3, <1>4, FS_RemoveElement, FS_CardinalityType, Zenon
  <1>7. ~(X \ {x} \in Bad)
    <2> HIDE DEF Sizes, Bad
    <2> QED BY <1>1, <1>2, <1>6
  <1>8. PICK y \in X \ {x} : \A z \in X \ {x} : z <= y
    BY <1>5, <1>6, <1>7, Zenon
  <1>9. x \in Nat /\ y \in Nat
    BY <1>4, <1>8, Zenon
  <1>10. CASE x <= y
    BY <1>8, <1>10, <1>4, Zenon
  <1>11. CASE y <= x
    <2>1. \A z \in X : z <= x
      BY <1>8, <1>9, <1>11
    <2> QED BY <2>1, <1>4, Zenon
  <1> QED BY <1>9, <1>10, <1>11

\* A rank is at most the size of the set, and at least one for a member.
LEMMA RankType ==
  ASSUME NEW S \in SUBSET Nat, IsFiniteSet(S), NEW k
  PROVE  Rank(S, k) \in 0 .. Cardinality(S) /\ Cardinality(S) \in Nat /\ (k \in S => Rank(S, k) >= 1)
  <1> DEFINE T == {j \in S : j <= k}
  <1>1. IsFiniteSet(T) /\ Cardinality(T) <= Cardinality(S)
    BY FS_Subset, Zenon
  <1>2. Cardinality(T) \in Nat /\ Cardinality(S) \in Nat
    BY <1>1, FS_CardinalityType, Zenon
  <1>3. ASSUME k \in S PROVE Cardinality(T) # 0
    <2>1. k \in T
      BY <1>3
    <2> HIDE DEF T
    <2> QED BY <1>1, <2>1, FS_EmptySet, Zenon
  <1> HIDE DEF T
  <1>4. Cardinality(T) \in 0 .. Cardinality(S) /\ (k \in S => Cardinality(T) >= 1)
    BY <1>1, <1>2, <1>3
  <1> QED BY <1>2, <1>4, Zenon DEF Rank, T

\* A larger member has a larger rank.
LEMMA RankGrows ==
  ASSUME NEW S \in SUBSET Nat, IsFiniteSet(S), NEW j \in S, NEW k \in S, j < k
  PROVE  Rank(S, j) < Rank(S, k)
  <1> DEFINE A == {i \in S : i <= j}
             B == {i \in S : i <= k}
  <1>1. A \in SUBSET B /\ A # B
    <2>1. k \in B /\ k \notin A
      OBVIOUS
    <2>2. \A i \in S : i <= j => i <= k
      OBVIOUS
    <2>3. A \in SUBSET B
      BY <2>2, Zenon
    <2> HIDE DEF A, B
    <2> QED BY <2>1, <2>3, Zenon
  <1>2. IsFiniteSet(B)
    BY FS_Subset, Zenon
  <1>3. Cardinality(A) <= Cardinality(B) /\ Cardinality(A) # Cardinality(B)
    <2> HIDE DEF A, B
    <2> QED BY <1>1, <1>2, FS_Subset, Zenon
  <1>4. Cardinality(A) \in Nat /\ Cardinality(B) \in Nat
    <2> HIDE DEF A, B
    <2> QED BY <1>1, <1>2, FS_Subset, FS_CardinalityType, Zenon
  <1> HIDE DEF A, B
  <1>5. Cardinality(A) < Cardinality(B)
    BY <1>3, <1>4
  <1> QED BY <1>5, Zenon DEF Rank, A, B

\* Different members have different ranks.
LEMMA RankInjective ==
  ASSUME NEW S \in SUBSET Nat, IsFiniteSet(S), NEW j \in S, NEW k \in S, Rank(S, j) = Rank(S, k)
  PROVE  j = k
  <1>1. Rank(S, j) \in Nat /\ Rank(S, k) \in Nat
    BY RankType
  <1>2. ~(j < k) /\ ~(k < j)
    BY RankGrows, <1>1
  <1>3. j \in Nat /\ k \in Nat
    BY Zenon
  <1> QED BY <1>2, <1>3

\* Every rank is some member's.
LEMMA RankTaken ==
  ASSUME NEW S \in SUBSET Nat, IsFiniteSet(S), NEW r \in 1 .. Cardinality(S)
  PROVE  \E k \in S : Rank(S, k) = r
  <1>0. Cardinality(S) \in Nat
    BY FS_CardinalityType, Zenon
  <1> DEFINE T == {k \in S : Rank(S, k) >= r}
  <1>1. T # {}
    <2>1. S # {}
      BY <1>0, FS_EmptySet
    <2>2. PICK x \in S : \A y \in S : y <= x
      BY <2>1, GreatestOf, Zenon
    <2>3. {j \in S : j <= x} = S
      BY <2>2, Zenon
    <2>4. Rank(S, x) = Cardinality(S)
      BY <2>3, Zenon DEF Rank
    <2> QED BY <2>4, <1>0
  <1>2. PICK k \in T : \A y \in T : k <= y
    <2>1. T \in SUBSET Nat
      BY Zenon
    <2> HIDE DEF T
    <2> QED BY <1>1, <2>1, LeastOf, Zenon
  <1>3. SUFFICES ASSUME Rank(S, k) # r PROVE FALSE
    BY Zenon
  <1> DEFINE B == {j \in S : j <= k}
             A == B \ {k}
  <1>4. IsFiniteSet(B) /\ k \in B /\ k \in S
    BY FS_Subset
  <1>5. Rank(S, k) = Cardinality(B) /\ Cardinality(B) \in Nat
    <2>1. Rank(S, k) = Cardinality(B)
      BY Zenon DEF Rank
    <2> HIDE DEF B
    <2> QED BY <2>1, <1>4, FS_CardinalityType, Zenon
  <1>6. IsFiniteSet(A) /\ Cardinality(A) = Cardinality(B) - 1
    <2> HIDE DEF B
    <2> QED BY <1>4, FS_RemoveElement, Zenon
  <1>7. Cardinality(A) >= r
    <2>1. Rank(S, k) >= r
      BY Zenon
    <2> HIDE DEF A, B, T
    <2> QED BY <2>1, <1>3, <1>5, <1>6, <1>0
  <1>8. A # {}
    <2> HIDE DEF A
    <2> QED BY <1>6, <1>7, <1>0, FS_EmptySet
  <1>9. PICK x \in A : \A y \in A : y <= x
    <2>1. A \in SUBSET Nat
      BY Zenon
    <2> HIDE DEF A
    <2> QED BY <2>1, <1>6, <1>8, GreatestOf, Zenon
  <1>10. x \in S /\ x < k
    OBVIOUS
  <1>11. {j \in S : j <= x} = A
    <2>1. \A j \in S : j <= x => j \in A
      BY <1>10
    <2>2. \A j \in A : j \in S /\ j <= x
      BY <1>9, Zenon
    <2> HIDE DEF A
    <2> QED BY <2>1, <2>2, Zenon
  <1>12. Rank(S, x) = Cardinality(A)
    <2> HIDE DEF A
    <2> QED BY <1>11, Zenon DEF Rank
  <1>13. x \in T
    BY <1>7, <1>10, <1>12, Zenon
  <1>14. k <= x
    <2> HIDE DEF T
    <2> QED BY <1>2, <1>13, Zenon
  <1>15. k \in Nat /\ x \in Nat
    BY <1>4, <1>10, Zenon
  <1> QED BY <1>10, <1>14, <1>15

\* Nth is the member of that rank, and follows the order of the set.
LEMMA NthOf ==
  ASSUME NEW S \in SUBSET Nat, IsFiniteSet(S), NEW r \in 1 .. Cardinality(S)
  PROVE  Nth(S, r) \in S /\ Rank(S, Nth(S, r)) = r
  BY RankTaken, Zenon DEF Nth

\* The member of a rank is the one that has it.
LEMMA NthRank ==
  ASSUME NEW S \in SUBSET Nat, IsFiniteSet(S), NEW k \in S
  PROVE  Rank(S, k) \in 1 .. Cardinality(S) /\ Nth(S, Rank(S, k)) = k
  <1>1. Rank(S, k) \in 1 .. Cardinality(S)
    BY RankType
  <1>2. Nth(S, Rank(S, k)) \in S /\ Rank(S, Nth(S, Rank(S, k))) = Rank(S, k)
    BY <1>1, NthOf, Zenon
  <1>3. \A m \in S : Rank(S, m) = Rank(S, k) => m = k
    BY RankInjective, Zenon
  <1> QED BY <1>1, <1>2, <1>3, Zenon

-----------------------------------------------------------------------------
(* Runs and views.                                                          *)

Naming(h, k) == {i \in DOMAIN h : k \in DOMAIN h[i]}
Newest(h, k) == h[Least(Naming(h, k))][k]
Visible(h) == {k \in Keys : Naming(h, k) # {} /\ Newest(h, k) # Tombstone}
View(h) == [k \in Visible(h) |-> Newest(h, k)]
RunSeqs(n) == [1 .. n -> Maps]
Manifests == UNION {RunSeqs(n) : n \in 1 .. Hard}

\* What a run is: a map from some keys to values and tombstones.
LEMMA MapsAre ==
  ASSUME NEW m \in Maps
  PROVE  /\ DOMAIN m \in SUBSET Keys
         /\ m \in [DOMAIN m -> Values \cup {Tombstone}]
  BY Zenon DEF Maps

\* Every map of that kind is a run.
LEMMA MapsMade ==
  ASSUME NEW S \in SUBSET Keys, NEW m \in [S -> Values \cup {Tombstone}]
  PROVE  m \in Maps
  BY Zenon DEF Maps

\* What a view is: a map from some keys to values, and so a run too.
LEMMA CompleteAre ==
  ASSUME NEW m \in Complete
  PROVE  /\ DOMAIN m \in SUBSET Keys
         /\ m \in [DOMAIN m -> Values]
         /\ m \in Maps
  <1>1. DOMAIN m \in SUBSET Keys /\ m \in [DOMAIN m -> Values]
    BY Zenon DEF Complete
  <1>2. m \in [DOMAIN m -> Values \cup {Tombstone}]
    BY <1>1, Zenon
  <1> QED BY <1>1, <1>2, MapsMade, Zenon

\* Every map from keys to values is a view.
LEMMA CompleteMade ==
  ASSUME NEW S \in SUBSET Keys, NEW m \in [S -> Values]
  PROVE  m \in Complete
  BY Zenon DEF Complete

\* A run laid over a view gives a view: tombstones do not stay.
LEMMA OverlayComplete ==
  ASSUME NEW r \in Maps, NEW m \in Complete
  PROVE  Overlay(r, m) \in Complete
  <1> DEFINE live == ((DOMAIN m) \ DOMAIN r) \cup {k \in DOMAIN r : r[k] # Tombstone}
  <1>1. DOMAIN m \in SUBSET Keys /\ m \in [DOMAIN m -> Values]
    BY CompleteAre, Zenon
  <1>2. DOMAIN r \in SUBSET Keys /\ r \in [DOMAIN r -> Values \cup {Tombstone}]
    BY MapsAre, Zenon
  <1>3. live \in SUBSET Keys
    BY <1>1, <1>2, Zenon
  <1>4. \A k \in live : (IF k \in DOMAIN r THEN r[k] ELSE m[k]) \in Values
    BY <1>1, <1>2, Zenon
  <1>5. Overlay(r, m) \in [live -> Values]
    <2>1. Overlay(r, m) = [k \in live |-> IF k \in DOMAIN r THEN r[k] ELSE m[k]]
      BY Zenon DEF Overlay
    <2> HIDE DEF live
    <2> QED BY <2>1, <1>4, Zenon
  <1> HIDE DEF live
  <1> QED BY <1>3, <1>5, CompleteMade, Zenon

\* lookup: the newest run that names a key is the first of them.
LEMMA NewestOf ==
  ASSUME NEW n \in Nat, NEW h \in RunSeqs(n), NEW k, Naming(h, k) # {}
  PROVE  /\ Least(Naming(h, k)) \in 1 .. n
         /\ k \in DOMAIN h[Least(Naming(h, k))]
         /\ \A i \in 1 .. n : k \in DOMAIN h[i] => Least(Naming(h, k)) <= i
         /\ Newest(h, k) \in Values \cup {Tombstone}
         /\ k \in Keys
  <1>1. DOMAIN h = 1 .. n
    BY Zenon DEF RunSeqs
  <1>2. Naming(h, k) \in SUBSET Nat
    BY <1>1 DEF Naming
  <1>3. Least(Naming(h, k)) \in Naming(h, k) /\ \A i \in Naming(h, k) : Least(Naming(h, k)) <= i
    BY <1>2, MinOf, Zenon
  <1> DEFINE j == Least(Naming(h, k))
  <1>4. j \in 1 .. n /\ k \in DOMAIN h[j]
    BY <1>1, <1>3, Zenon DEF Naming
  <1>5. h[j] \in Maps
    <2> HIDE DEF j
    <2> QED BY <1>4, Zenon DEF RunSeqs
  <1>6. h[j][k] \in Values \cup {Tombstone} /\ k \in Keys
    <2> HIDE DEF j
    <2> QED BY <1>4, <1>5, MapsAre, Zenon
  <1>7. \A i \in 1 .. n : k \in DOMAIN h[i] => j <= i
    <2> HIDE DEF j
    <2>1. \A i \in Naming(h, k) : j <= i
      BY <1>3, Zenon DEF j
    <2> QED BY <2>1, <1>1, Zenon DEF Naming
  <1> QED BY <1>4, <1>6, <1>7, Zenon DEF Newest

\* A newest index is what its properties say.
LEMMA NewestAt ==
  ASSUME NEW n \in Nat, NEW h \in RunSeqs(n), NEW k, NEW j \in 1 .. n, k \in DOMAIN h[j],
         \A i \in 1 .. n : i < j => k \notin DOMAIN h[i]
  PROVE  Naming(h, k) # {} /\ Least(Naming(h, k)) = j /\ Newest(h, k) = h[j][k]
  <1>1. DOMAIN h = 1 .. n
    BY Zenon DEF RunSeqs
  <1>2. j \in Naming(h, k)
    BY <1>1, Zenon DEF Naming
  <1>3. /\ Least(Naming(h, k)) \in 1 .. n
        /\ k \in DOMAIN h[Least(Naming(h, k))]
        /\ Least(Naming(h, k)) <= j
    BY <1>2, NewestOf, Zenon
  <1>4. Least(Naming(h, k)) = j
    BY <1>3
  <1> QED BY <1>2, <1>4, Zenon DEF Newest

\* keys and lookup: the view of any runs holds values only.
LEMMA ViewComplete ==
  ASSUME NEW n \in Nat, NEW h \in RunSeqs(n)
  PROVE  View(h) \in Complete
  <1>1. Visible(h) \in SUBSET Keys
    BY Zenon DEF Visible
  <1>2. \A k \in Visible(h) : Newest(h, k) \in Values
    BY NewestOf, Zenon DEF Visible
  <1>3. View(h) \in [Visible(h) -> Values]
    BY <1>2, Zenon DEF View
  <1> QED BY <1>1, <1>3, CompleteMade, Zenon

\* The view of a head that is not flat is the view of its runs.
LEMMA ViewOfRuns ==
  ASSUME NEW h, h # Flat
  PROVE  ViewOf(h) = View(h)
  BY Zenon DEF ViewOf, View, Visible, Newest, Naming

\* A manifest is not the mark of a flat World.
LEMMA NotFlat ==
  ASSUME NEW h \in Manifests
  PROVE  h # Flat
  BY Apart, Zenon DEF Manifests, RunSeqs

\* What a manifest is: at least one run and no more than the hard limit.
LEMMA ManifestsAre ==
  ASSUME NEW h \in Manifests
  PROVE  /\ h \in RunSeqs(Len(h)) /\ Len(h) \in 1 .. Hard /\ DOMAIN h = 1 .. Len(h) /\ h \in Seq(Maps)
         /\ h # Flat /\ ViewOf(h) = View(h) /\ RunCount(h) = Len(h)
  <1>1. PICK n \in 1 .. Hard : h \in RunSeqs(n)
    BY Zenon DEF Manifests
  <1>2. n \in Nat
    BY LimitsOrdered
  <1>3. h \in Seq(Maps) /\ Len(h) = n /\ DOMAIN h = 1 .. n
    BY <1>1, <1>2 DEF RunSeqs
  <1> QED BY <1>1, <1>2, <1>3, NotFlat, ViewOfRuns, Zenon DEF RunCount

\* Every such sequence of runs is a manifest.
LEMMA ManifestsMade ==
  ASSUME NEW n \in 1 .. Hard, NEW h \in RunSeqs(n)
  PROVE  h \in Manifests
  BY Zenon DEF Manifests

-----------------------------------------------------------------------------
(* The image runs of a complete map.                                        *)

Parts(m) == (Cardinality(DOMAIN m) + PartSize - 1) \div PartSize
PartOf(m, k) == (Rank(DOMAIN m, k) + PartSize - 1) \div PartSize

\* How many parts n entries make, p to a part, rounded up.
LEMMA PartArithmetic ==
  ASSUME NEW p \in Nat \ {0}, NEW n \in Nat
  PROVE  /\ (n + p - 1) \div p \in Nat
         /\ \A r \in 1 .. n : (r + p - 1) \div p \in 1 .. (n + p - 1) \div p
         /\ \A i \in 1 .. (n + p - 1) \div p : (i - 1) * p + 1 \in 1 .. n
         /\ \A i \in Nat \ {0} : ((i - 1) * p + 1 + p - 1) \div p = i
  <1>1. (n + p - 1) \div p \in Nat
    OBVIOUS
  <1>2. ASSUME NEW r \in 1 .. n PROVE (r + p - 1) \div p \in 1 .. (n + p - 1) \div p
    OBVIOUS
  <1>3. ASSUME NEW i \in 1 .. (n + p - 1) \div p PROVE (i - 1) * p + 1 \in 1 .. n
    OBVIOUS
  <1>4. ASSUME NEW i \in Nat \ {0} PROVE ((i - 1) * p + 1 + p - 1) \div p = i
    OBVIOUS
  <1> QED BY <1>1, <1>2, <1>3, <1>4, Zenon

\* The keys of a view are finitely many numbers.
LEMMA DomainFinite ==
  ASSUME NEW m \in Complete
  PROVE  /\ DOMAIN m \in SUBSET Nat /\ IsFiniteSet(DOMAIN m) /\ Cardinality(DOMAIN m) \in Nat
         /\ PartSize \in Nat \ {0}
  <1>1. DOMAIN m \in SUBSET Keys
    BY CompleteAre, Zenon
  <1>2. IsFiniteSet(DOMAIN m)
    BY <1>1, RootIsAKey, FS_Subset, Zenon
  <1>3. PartSize \in Nat \ {0}
    BY LimitsOrdered, Zenon
  <1> QED BY <1>1, <1>2, <1>3, RootIsAKey, FS_CardinalityType, Zenon

\* Every key is in one part and every part has a key.
LEMMA PartsFilled ==
  ASSUME NEW m \in Complete
  PROVE  /\ Parts(m) \in Nat
         /\ \A k \in DOMAIN m : PartOf(m, k) \in 1 .. Parts(m)
         /\ \A i \in 1 .. Parts(m) : \E k \in DOMAIN m : PartOf(m, k) = i
  <1> DEFINE S == DOMAIN m
             n == Cardinality(S)
  <1>1. S \in SUBSET Nat /\ IsFiniteSet(S) /\ n \in Nat /\ PartSize \in Nat \ {0}
    BY DomainFinite, Zenon
  <1> HIDE DEF S, n
  <1>2. Parts(m) = (n + PartSize - 1) \div PartSize
    BY Zenon DEF Parts, S, n
  <1>3. \A k : PartOf(m, k) = (Rank(S, k) + PartSize - 1) \div PartSize
    BY Zenon DEF PartOf, S
  <1>4. ASSUME NEW k \in S PROVE PartOf(m, k) \in 1 .. Parts(m)
    <2>1. Rank(S, k) \in 1 .. n
      BY <1>1, RankType DEF n
    <2> QED BY <1>1, <1>2, <1>3, <2>1, PartArithmetic
  <1>5. ASSUME NEW i \in 1 .. Parts(m) PROVE \E k \in S : PartOf(m, k) = i
    <2> DEFINE r == (i - 1) * PartSize + 1
    <2>1. r \in 1 .. n
      BY <1>1, <1>2, PartArithmetic, Zenon
    <2>2. PICK k \in S : Rank(S, k) = r
      <3> HIDE DEF r
      <3> QED BY <1>1, <2>1, RankTaken, Zenon DEF n
    <2>3. i \in Nat \ {0}
      BY <1>1, <1>2, PartArithmetic
    <2>4. (r + PartSize - 1) \div PartSize = i
      BY <1>1, <2>3, PartArithmetic, Zenon
    <2> QED BY <1>3, <2>2, <2>4, Zenon
  <1>6. Parts(m) \in Nat
    BY <1>1, <1>2, PartArithmetic
  <1> QED BY <1>4, <1>5, <1>6, Zenon DEF S

\* compact_frozen: the image runs, with the part of each key named.
LEMMA ImageRunsAre ==
  ASSUME NEW m \in Complete
  PROVE  ImageRuns(m) = [i \in 1 .. Parts(m) |-> [k \in {j \in DOMAIN m : PartOf(m, j) = i} |-> m[k]]]
  BY Zenon DEF ImageRuns, Parts, PartOf

\* An image run holds the keys of its part, and no part is empty.
LEMMA ImageRun ==
  ASSUME NEW m \in Complete, NEW i \in 1 .. Parts(m)
  PROVE  /\ DOMAIN ImageRuns(m)[i] = {j \in DOMAIN m : PartOf(m, j) = i}
         /\ \A k \in DOMAIN m : PartOf(m, k) = i => ImageRuns(m)[i][k] = m[k]
         /\ ImageRuns(m)[i] \in Maps
  <1> DEFINE D == {j \in DOMAIN m : PartOf(m, j) = i}
  <1>1. ImageRuns(m)[i] = [k \in D |-> m[k]]
    BY ImageRunsAre, Zenon
  <1>2. D \in SUBSET Keys
    BY CompleteAre, Zenon
  <1>3. [k \in D |-> m[k]] \in [D -> Values \cup {Tombstone}]
    BY CompleteAre, Zenon
  <1>4. [k \in D |-> m[k]] \in Maps
    <2> HIDE DEF D
    <2> QED BY <1>2, <1>3, MapsMade, Zenon
  <1> QED BY <1>1, <1>4, Zenon

\* compact_frozen and plan write runs that are all different, name every key once
\* and read as the map they were made from.
LEMMA ImageRunsSound ==
  ASSUME NEW m \in Complete
  PROVE  /\ Parts(m) \in Nat
         /\ ImageRuns(m) \in RunSeqs(Parts(m))
         /\ Len(ImageRuns(m)) = Parts(m)
         /\ IsInjective(ImageRuns(m))
         /\ View(ImageRuns(m)) = m
         /\ DOMAIN m # {} => Parts(m) >= 1
  <1> DEFINE h == ImageRuns(m)
             n == Parts(m)
  <1>1. /\ n \in Nat
        /\ \A k \in DOMAIN m : PartOf(m, k) \in 1 .. n
        /\ \A i \in 1 .. n : \E k \in DOMAIN m : PartOf(m, k) = i
    BY PartsFilled, Zenon
  <1>2. DOMAIN h = 1 .. n
    BY ImageRunsAre, Zenon
  <1>3. h \in RunSeqs(n)
    <2>1. h = [i \in 1 .. n |-> h[i]]
      BY ImageRunsAre, Zenon
    <2>2. \A i \in 1 .. n : h[i] \in Maps
      BY ImageRun, Zenon
    <2> HIDE DEF h, n
    <2> QED BY <2>1, <2>2, Zenon DEF RunSeqs
  <1>4. Len(h) = n
    <2> HIDE DEF h, n
    <2> QED BY <1>1, <1>3 DEF RunSeqs
  <1>5. IsInjective(h)
    <2> SUFFICES ASSUME NEW a \in 1 .. n, NEW b \in 1 .. n, h[a] = h[b] PROVE a = b
      BY <1>2, Zenon DEF IsInjective
    <2>1. PICK k \in DOMAIN m : PartOf(m, k) = a
      BY <1>1, Zenon
    <2>2. k \in DOMAIN h[a]
      BY <2>1, ImageRun
    <2>3. k \in DOMAIN h[b]
      BY <2>2, Zenon
    <2> QED BY <2>1, <2>3, ImageRun
  <1>6. \A k \in DOMAIN m : Naming(h, k) # {} /\ Newest(h, k) = m[k] /\ m[k] # Tombstone /\ k \in Keys
    <2> SUFFICES ASSUME NEW k \in DOMAIN m
                 PROVE  Naming(h, k) # {} /\ Newest(h, k) = m[k] /\ m[k] # Tombstone /\ k \in Keys
      BY Zenon
    <2> DEFINE j == PartOf(m, k)
    <2>1. j \in 1 .. n /\ k \in DOMAIN h[j] /\ h[j][k] = m[k]
      BY <1>1, ImageRun
    <2>2. \A i \in 1 .. n : k \in DOMAIN h[i] => i = j
      BY ImageRun, Zenon
    <2>3. Naming(h, k) # {} /\ Newest(h, k) = h[j][k]
      <3>1. \A i \in 1 .. n : i < j => k \notin DOMAIN h[i]
        <4> HIDE DEF h, n, j
        <4> QED BY <2>1, <2>2, <1>1
      <3> HIDE DEF h, n, j
      <3> QED BY <1>1, <1>3, <2>1, <3>1, NewestAt
    <2>4. m[k] # Tombstone /\ k \in Keys
      BY CompleteAre, Apart, Zenon
    <2> QED BY <2>1, <2>3, <2>4, Zenon
  <1>7. \A k : Naming(h, k) # {} => k \in DOMAIN m
    <2> SUFFICES ASSUME NEW k, Naming(h, k) # {} PROVE k \in DOMAIN m
      BY Zenon
    <2>1. PICK i \in 1 .. n : k \in DOMAIN h[i]
      BY <1>2, Zenon DEF Naming
    <2> QED BY <2>1, ImageRun
  <1>8. View(h) = m
    <2> HIDE DEF h, n
    <2>1. Visible(h) = DOMAIN m
      BY <1>6, <1>7, Zenon DEF Visible
    <2>2. m = [k \in DOMAIN m |-> m[k]]
      BY CompleteAre, Zenon
    <2> QED BY <2>1, <2>2, <1>6, Zenon DEF View
  <1>9. DOMAIN m # {} => n >= 1
    <2> HIDE DEF n
    <2> QED BY <1>1
  <1> QED BY <1>1, <1>3, <1>4, <1>5, <1>8, <1>9, Zenon

-----------------------------------------------------------------------------
(* The runs laid over one another are the view.                             *)

\* What the oldest j runs of n show.
Named(h, n, j, k) == {i \in 1 .. n : i > n - j /\ k \in DOMAIN h[i]}
First(h, n, j, k) == h[Least(Named(h, n, j, k))][k]
Shown(h, n, j) == {k \in Keys : Named(h, n, j, k) # {} /\ First(h, n, j, k) # Tombstone}
Low(h, n, j) == [k \in Shown(h, n, j) |-> First(h, n, j, k)]

\* One more run decides the keys it names and leaves the others.
LEMMA NamedStep ==
  ASSUME NEW n \in Nat, NEW h \in RunSeqs(n), NEW j \in 1 .. n, NEW k
  PROVE  /\ k \in DOMAIN h[n + 1 - j] => /\ Named(h, n, j, k) # {}
                                        /\ First(h, n, j, k) = h[n + 1 - j][k]
         /\ k \notin DOMAIN h[n + 1 - j] => Named(h, n, j, k) = Named(h, n, j - 1, k)
  <1> DEFINE t == n + 1 - j
             N == Named(h, n, j, k)
  <1>1. t \in 1 .. n /\ t > n - j
    OBVIOUS
  <1>2. ASSUME k \in DOMAIN h[t] PROVE N # {} /\ First(h, n, j, k) = h[t][k]
    <2>1. t \in N
      BY <1>1, <1>2, Zenon DEF Named
    <2>2. N \in SUBSET Nat
      BY DEF Named
    <2>3. Least(N) \in N /\ Least(N) <= t
      <3> HIDE DEF N
      <3> QED BY <2>1, <2>2, MinOf, Zenon
    <2>4. \A i \in N : i \in Nat /\ i > n - j
      BY DEF Named
    <2>5. Least(N) = t
      <3> HIDE DEF N
      <3> QED BY <2>3, <2>4
    <2> QED BY <2>1, <2>5, Zenon DEF First
  <1>3. ASSUME k \notin DOMAIN h[t] PROVE N = Named(h, n, j - 1, k)
    <2>1. \A i \in 1 .. n : i > n - j /\ k \in DOMAIN h[i] <=> i > n - (j - 1) /\ k \in DOMAIN h[i]
      <3> SUFFICES ASSUME NEW i \in 1 .. n, k \in DOMAIN h[i] PROVE i > n - j <=> i > n - (j - 1)
        BY Zenon
      <3>1. i # t
        BY <1>3, Zenon
      <3> QED BY <3>1
    <2> QED BY <2>1, Zenon DEF Named
  <1> QED BY <1>2, <1>3, Zenon

\* The view of the j oldest runs is the j-th laid over the view of the others.
LEMMA LowStep ==
  ASSUME NEW n \in Nat, NEW h \in RunSeqs(n), NEW j \in 1 .. n
  PROVE  Low(h, n, j) = Overlay(h[n + 1 - j], Low(h, n, j - 1))
  <1> DEFINE r == h[n + 1 - j]
             m == Low(h, n, j - 1)
             live == ((DOMAIN m) \ DOMAIN r) \cup {k \in DOMAIN r : r[k] # Tombstone}
  <1>1. r \in Maps
    BY DEF RunSeqs
  <1>2. DOMAIN r \in SUBSET Keys
    BY <1>1, MapsAre, Zenon
  <1>3. DOMAIN m = Shown(h, n, j - 1) /\ \A k \in DOMAIN m : m[k] = First(h, n, j - 1, k)
    BY Zenon DEF Low
  <1>4. /\ \A k : k \in DOMAIN r => Named(h, n, j, k) # {} /\ First(h, n, j, k) = r[k]
        /\ \A k : k \notin DOMAIN r => Named(h, n, j, k) = Named(h, n, j - 1, k)
    BY NamedStep
  <1>5. \A k : k \notin DOMAIN r => First(h, n, j, k) = First(h, n, j - 1, k)
    BY <1>4, Zenon DEF First
  <1> HIDE DEF r, m
  <1>6. Shown(h, n, j) = live
    <2>1. ASSUME NEW k PROVE k \in Shown(h, n, j) <=> k \in live
      <3>1. CASE k \in DOMAIN r
        BY <3>1, <1>2, <1>4, Zenon DEF Shown
      <3>2. CASE k \notin DOMAIN r
        BY <3>2, <1>3, <1>4, <1>5, Zenon DEF Shown
      <3> QED BY <3>1, <3>2, Zenon
    <2> HIDE DEF live
    <2> QED BY <2>1, Zenon
  <1>7. \A k \in live : First(h, n, j, k) = IF k \in DOMAIN r THEN r[k] ELSE m[k]
    BY <1>3, <1>4, <1>5, Zenon
  <1>8. Overlay(r, m) = [k \in live |-> IF k \in DOMAIN r THEN r[k] ELSE m[k]]
    BY Zenon DEF Overlay
  <1>9. Low(h, n, j) = Overlay(r, m)
    <2> HIDE DEF live
    <2> QED BY <1>6, <1>7, <1>8, Zenon DEF Low
  <1> QED BY <1>9, Zenon DEF r, m

\* No runs show nothing, and all of them show the view.
LEMMA LowEnds ==
  ASSUME NEW n \in Nat, NEW h \in RunSeqs(n)
  PROVE  Low(h, n, 0) = [k \in {} |-> Tombstone] /\ Low(h, n, n) = View(h)
  <1>1. \A k : Named(h, n, 0, k) = {}
    BY DEF Named
  <1>2. Shown(h, n, 0) = {}
    BY <1>1, Zenon DEF Shown
  <1>3. DOMAIN h = 1 .. n
    BY Zenon DEF RunSeqs
  <1>4. \A k : Named(h, n, n, k) = Naming(h, k)
    BY <1>3 DEF Named, Naming
  <1>5. \A k : First(h, n, n, k) = Newest(h, k)
    BY <1>4, Zenon DEF First, Newest
  <1>6. Shown(h, n, n) = Visible(h)
    <2>1. \A k : k \in Shown(h, n, n) <=> k \in Visible(h)
      BY <1>4, <1>5, Zenon DEF Shown, Visible
    <2> QED BY <2>1, Zenon
  <1> QED BY <1>2, <1>5, <1>6, Zenon DEF Low, View

\* compact_frozen: laying the runs over one another from the oldest gives what a
\* lookup from the newest finds.
LEMMA LayeredIsView ==
  ASSUME NEW n \in Nat, NEW h \in RunSeqs(n)
  PROVE  Layered(h) = View(h)
  <1>1. Len(h) = n
    BY DEF RunSeqs
  <1> DEFINE Def(f) == [j \in 0 .. n |-> IF j = 0 THEN [k \in {} |-> Tombstone]
                                        ELSE Overlay(h[n + 1 - j], f[j - 1])]
             g == [j \in 0 .. n |-> Low(h, n, j)]
             f == CHOOSE f : f = Def(f)
  <1>2. g = Def(g)
    <2>1. \A j \in 0 .. n : g[j] = IF j = 0 THEN [k \in {} |-> Tombstone]
                                   ELSE Overlay(h[n + 1 - j], g[j - 1])
      <3> SUFFICES ASSUME NEW j \in 0 .. n
                   PROVE  g[j] = IF j = 0 THEN [k \in {} |-> Tombstone]
                                 ELSE Overlay(h[n + 1 - j], g[j - 1])
        BY Zenon
      <3>1. CASE j = 0
        BY <3>1, LowEnds, Zenon
      <3>2. CASE j # 0
        <4>1. j \in 1 .. n /\ j - 1 \in 0 .. n
          BY <3>2
        <4> QED BY <3>2, <4>1, LowStep, Zenon
      <3> QED BY <3>1, <3>2, Zenon
    <2> QED BY <2>1, Zenon
  <1>3. f = Def(f)
    <2> HIDE DEF g, Def
    <2> QED BY <1>2, Zenon
  <1>4. f[n] = g[n]
    <2> HIDE DEF f, g
    <2> DEFINE Bad == {j \in 0 .. n : f[j] # g[j]}
    <2> SUFFICES ASSUME Bad # {} PROVE FALSE
      OBVIOUS
    <2>1. Bad \in SUBSET Nat
      OBVIOUS
    <2>2. PICK j \in Bad : \A i \in Bad : j <= i
      <3> HIDE DEF Bad
      <3> QED BY <2>1, LeastOf, Zenon
    <2>3. f[j] = (IF j = 0 THEN [k \in {} |-> Tombstone] ELSE Overlay(h[n + 1 - j], f[j - 1]))
      BY <1>3, Zenon
    <2>4. g[j] = (IF j = 0 THEN [k \in {} |-> Tombstone] ELSE Overlay(h[n + 1 - j], g[j - 1]))
      BY <1>2, Zenon
    <2>5. j # 0
      BY <2>3, <2>4, Zenon
    <2>6. j - 1 \in 0 .. n /\ j - 1 \notin Bad
      BY <2>2, <2>5
    <2>7. f[j - 1] = g[j - 1]
      BY <2>6, Zenon
    <2> QED BY <2>3, <2>4, <2>7, Zenon
  <1>5. Layered(h) = f[n]
    BY <1>1, Zenon DEF Layered
  <1> QED BY <1>4, <1>5, LowEnds

-----------------------------------------------------------------------------
(* Heads, merges and plans.                                                 *)

Heads == {Flat} \cup Manifests
Sound(h) == RootKey \in DOMAIN ViewOf(h) /\ (h # Flat => IsInjective(h))

\* The merged runs of a head are the image runs of its view.
LEMMA HeadView ==
  ASSUME NEW h \in Heads
  PROVE  ViewOf(h) \in Complete /\ Merged(h) = ImageRuns(ViewOf(h))
  <1>1. CASE h = Flat
    <2>1. ViewOf(h) = FlatMap /\ Merged(h) = ImageRuns(FlatMap)
      BY <1>1, Zenon DEF ViewOf, Merged
    <2> QED BY <2>1, FlatHasRoot, Zenon
  <1>2. CASE h \in Manifests
    <2>1. h # Flat /\ Len(h) \in Nat /\ h \in RunSeqs(Len(h)) /\ ViewOf(h) = View(h)
      BY <1>2, ManifestsAre, LimitsOrdered
    <2>2. Layered(h) = View(h) /\ View(h) \in Complete
      BY <2>1, LayeredIsView, ViewComplete, Zenon
    <2>3. Merged(h) = ImageRuns(Layered(h))
      BY <2>1, Zenon DEF Merged
    <2> QED BY <2>1, <2>2, <2>3, Zenon
  <1> QED BY <1>1, <1>2, Zenon DEF Heads

\* A merge that fits a manifest keeps the view, and merging it again changes nothing.
LEMMA ImageSound ==
  ASSUME NEW m \in Complete, RootKey \in DOMAIN m, Len(ImageRuns(m)) <= Hard
  PROVE  /\ ImageRuns(m) \in Manifests /\ IsInjective(ImageRuns(m))
         /\ ViewOf(ImageRuns(m)) = m
         /\ Merged(ImageRuns(m)) = ImageRuns(m)
  <1> DEFINE h == ImageRuns(m)
             n == Parts(m)
  <1>1. n \in Nat /\ h \in RunSeqs(n) /\ Len(h) = n /\ IsInjective(h) /\ View(h) = m /\ n >= 1
    BY ImageRunsSound, Zenon
  <1> HIDE DEF h, n
  <1>2. n \in 1 .. Hard
    BY <1>1, LimitsOrdered DEF h
  <1>3. h \in Manifests
    BY <1>1, <1>2, ManifestsMade, Zenon
  <1>4. ViewOf(h) = m
    BY <1>1, <1>3, ManifestsAre, Zenon
  <1>5. Merged(h) = h
    BY <1>3, <1>4, HeadView, Zenon DEF Heads, h
  <1> QED BY <1>1, <1>3, <1>4, <1>5, Zenon DEF h

\* compact_frozen: the merged runs are a manifest that loads and shows the same records.
LEMMA MergedSound ==
  ASSUME NEW h \in Heads, Sound(h), Len(Merged(h)) <= Hard
  PROVE  /\ Merged(h) \in Manifests /\ Sound(Merged(h))
         /\ ViewOf(Merged(h)) = ViewOf(h)
         /\ Merged(Merged(h)) = Merged(h)
  <1>1. ViewOf(h) \in Complete /\ Merged(h) = ImageRuns(ViewOf(h)) /\ RootKey \in DOMAIN ViewOf(h)
    BY HeadView, Zenon DEF Sound
  <1>2. /\ Merged(h) \in Manifests /\ IsInjective(Merged(h))
        /\ ViewOf(Merged(h)) = ViewOf(h)
        /\ Merged(Merged(h)) = Merged(h)
    BY <1>1, ImageSound, Zenon
  <1> QED BY <1>1, <1>2, Zenon DEF Sound

\* How many runs a merge gives is a number.
LEMMA MergedLength ==
  ASSUME NEW h \in Heads
  PROVE  Len(Merged(h)) \in Nat
  BY HeadView, ImageRunsSound, Zenon

\* The runs of a head of n runs that differ from c, s of them, at the indices at names.
Kept(h, c, n, s, at) ==
           /\ at \in [1 .. s -> 1 .. n]
           /\ Without(h, c) \in RunSeqs(s)
           /\ \A i \in 1 .. s : Without(h, c)[i] = h[at[i]] /\ h[at[i]] # c
           /\ \A i, j \in 1 .. s : i < j => at[i] < at[j]
           /\ \A j \in 1 .. n : h[j] # c => \E i \in 1 .. s : at[i] = j

\* What is left of a head without one of its runs keeps its order.
LEMMA WithoutAre ==
  ASSUME NEW n \in Nat, NEW h \in RunSeqs(n), NEW c
  PROVE  \E s \in Nat : \E at : Kept(h, c, n, s, at)
  <1> DEFINE kept == {i \in DOMAIN h : h[i] # c}
             s == Cardinality(kept)
             at == [i \in 1 .. s |-> Nth(kept, i)]
  <1>1. DOMAIN h = 1 .. n
    BY Zenon DEF RunSeqs
  <1>2. kept \in SUBSET (1 .. n) /\ kept \in SUBSET Nat
    BY <1>1
  <1>3. IsFiniteSet(kept)
    <2> HIDE DEF kept
    <2>1. IsFiniteSet(1 .. n)
      BY FS_Interval
    <2> QED BY <1>2, <2>1, FS_Subset, Zenon
  <1>4. s \in Nat
    <2> HIDE DEF kept
    <2> QED BY <1>3, FS_CardinalityType, Zenon
  <1>5. \A i \in 1 .. s : at[i] \in kept /\ Rank(kept, at[i]) = i
    <2> HIDE DEF kept
    <2> QED BY <1>2, <1>3, NthOf, Zenon
  <1>6. Without(h, c) = [i \in 1 .. s |-> h[at[i]]]
    BY Zenon DEF Without
  <1>7. \A i \in 1 .. s : h[at[i]] # c /\ at[i] \in 1 .. n
    BY <1>5, <1>1, Zenon
  <1>8. \A j \in 1 .. n : h[j] # c => \E i \in 1 .. s : at[i] = j
    <2> SUFFICES ASSUME NEW j \in 1 .. n, h[j] # c PROVE \E i \in 1 .. s : at[i] = j
      BY Zenon
    <2>1. j \in kept
      BY <1>1, Zenon
    <2>2. Rank(kept, j) \in 1 .. s /\ Nth(kept, Rank(kept, j)) = j
      <3> HIDE DEF kept
      <3> QED BY <2>1, <1>2, <1>3, NthRank, Zenon
    <2> HIDE DEF kept, s
    <2> QED BY <2>2, Zenon
  <1>9. \A i, j \in 1 .. s : i < j => at[i] < at[j]
    <2> HIDE DEF kept, s, at
    <2> SUFFICES ASSUME NEW i \in 1 .. s, NEW j \in 1 .. s, i < j, ~(at[i] < at[j]) PROVE FALSE
      BY Zenon
    <2>1. at[i] \in kept /\ at[j] \in kept /\ Rank(kept, at[i]) = i /\ Rank(kept, at[j]) = j
      BY <1>5, Zenon
    <2>2. at[i] \in Nat /\ at[j] \in Nat /\ i \in Nat /\ j \in Nat
      <3>1. at[i] \in Nat /\ at[j] \in Nat
        BY <2>1, <1>2, Zenon
      <3>2. i \in Nat /\ j \in Nat
        BY <1>4
      <3> QED BY <3>1, <3>2, Zenon
    <2>3. CASE at[i] = at[j]
      BY <2>1, <2>2, <2>3
    <2>4. CASE at[j] < at[i]
      <3>1. Rank(kept, at[j]) < Rank(kept, at[i])
        BY <1>2, <1>3, <2>1, <2>4, RankGrows, Zenon
      <3> QED BY <3>1, <2>1, <2>2
    <2> QED BY <2>2, <2>3, <2>4
  <1>10. at \in [1 .. s -> 1 .. n]
    BY <1>7, Zenon
  <1> HIDE DEF kept, s, at
  <1>11. \A i \in 1 .. s : Without(h, c)[i] = h[at[i]]
    BY <1>6, Zenon
  <1>12. Without(h, c) \in RunSeqs(s)
    BY <1>6, <1>10, Zenon DEF RunSeqs
  <1>13. Kept(h, c, n, s, at)
    BY <1>7, <1>8, <1>9, <1>10, <1>11, <1>12, Zenon DEF Kept
  <1> QED BY <1>4, <1>13, Zenon

\* A view with one more change on top, told key by key.
LEMMA ViewUnder ==
  ASSUME NEW n \in Nat, NEW h \in RunSeqs(n), NEW m \in Nat, NEW p \in RunSeqs(m), NEW c \in Maps,
         \A k \in DOMAIN c : Naming(p, k) # {} /\ Newest(p, k) = c[k],
         \A k \in Keys \ DOMAIN c : /\ (Naming(p, k) # {}) <=> (Naming(h, k) # {})
                                    /\ Naming(h, k) # {} => Newest(p, k) = Newest(h, k)
  PROVE  View(p) = Overlay(c, View(h))
  <1> DEFINE live == (Visible(h) \ DOMAIN c) \cup {k \in DOMAIN c : c[k] # Tombstone}
  <1>1. DOMAIN c \in SUBSET Keys
    BY MapsAre, Zenon
  <1>2. DOMAIN View(h) = Visible(h) /\ \A k \in Visible(h) : View(h)[k] = Newest(h, k)
    BY Zenon DEF View
  <1>3. Overlay(c, View(h)) = [k \in live |-> IF k \in DOMAIN c THEN c[k] ELSE View(h)[k]]
    BY <1>2, Zenon DEF Overlay
  <1>4. \A k \in Keys : k \in Visible(p) <=> k \in live
    BY <1>1, Zenon DEF Visible
  <1>5. live \in SUBSET Keys /\ Visible(p) \in SUBSET Keys
    BY <1>1, Zenon DEF Visible
  <1>6. Visible(p) = live
    <2> HIDE DEF live
    <2> QED BY <1>4, <1>5, Zenon
  <1>7. \A k \in live : Newest(p, k) = IF k \in DOMAIN c THEN c[k] ELSE View(h)[k]
    BY <1>1, <1>2, Zenon DEF Visible
  <1> HIDE DEF live
  <1>8. View(p) = [k \in live |-> Newest(p, k)]
    BY <1>6, Zenon DEF View
  <1> QED BY <1>3, <1>7, <1>8, Zenon

\* plan: a change in front of the runs, an older equal one dropped, lays the change over the view.
LEMMA PrependView ==
  ASSUME NEW n \in Nat, NEW h \in RunSeqs(n), NEW c \in Maps
  PROVE  \E m \in Nat :
           /\ <<c>> \o Without(h, c) \in RunSeqs(m) /\ Len(<<c>> \o Without(h, c)) = m /\ m >= 1
           /\ View(<<c>> \o Without(h, c)) = Overlay(c, View(h))
           /\ IsInjective(h) => IsInjective(<<c>> \o Without(h, c))
  <1> DEFINE p == <<c>> \o Without(h, c)
  <1>0. PICK s \in Nat : \E at : Kept(h, c, n, s, at)
    BY WithoutAre, Zenon
  <1>1. PICK at : Kept(h, c, n, s, at)
    BY <1>0, Zenon
  <1>1a. at \in [1 .. s -> 1 .. n]
    BY <1>1, <1>1a, Zenon DEF Kept, Kept
  <1>2. Without(h, c) \in Seq(Maps) /\ Len(Without(h, c)) = s
    BY <1>1, <1>1a DEF Kept, RunSeqs
  <1>3. p \in Seq(Maps) /\ Len(p) = s + 1 /\ p[1] = c
    BY <1>2
  <1>4. \A i \in 1 .. s : p[i + 1] = h[at[i]]
    BY <1>1, <1>2, <1>1a DEF Kept
  <1> HIDE DEF p
  <1>5. p \in RunSeqs(s + 1) /\ s + 1 \in Nat /\ DOMAIN p = 1 .. s + 1
    BY <1>3 DEF RunSeqs
  <1>6. DOMAIN h = 1 .. n /\ DOMAIN c \in SUBSET Keys
    BY MapsAre, Zenon DEF RunSeqs
  <1>7. \A k \in DOMAIN c : Naming(p, k) # {} /\ Newest(p, k) = c[k]
    <2> SUFFICES ASSUME NEW k \in DOMAIN c PROVE Naming(p, k) # {} /\ Newest(p, k) = c[k]
      BY Zenon
    <2>1. 1 \in 1 .. s + 1 /\ k \in DOMAIN p[1] /\ \A i \in 1 .. s + 1 : i < 1 => k \notin DOMAIN p[i]
      BY <1>3
    <2> QED BY <2>1, <1>3, <1>5, NewestAt
  <1>8. ASSUME NEW k \in Keys \ DOMAIN c, Naming(h, k) # {}
        PROVE  Naming(p, k) # {} /\ Newest(p, k) = Newest(h, k)
    <2> DEFINE j == Least(Naming(h, k))
    <2>1. j \in 1 .. n /\ k \in DOMAIN h[j] /\ \A i \in 1 .. n : k \in DOMAIN h[i] => j <= i
      BY <1>8, NewestOf, Zenon
    <2>2. Newest(h, k) = h[j][k]
      BY Zenon DEF Newest
    <2> HIDE DEF j
    <2>3. PICK i \in 1 .. s : at[i] = j
      BY <1>1, <2>1, <1>8, <1>1a, Zenon DEF Kept
    <2>4. i + 1 \in 1 .. s + 1 /\ p[i + 1] = h[j]
      BY <1>4, <2>3
    <2>5. ASSUME NEW q \in 1 .. s + 1, q < i + 1 PROVE k \notin DOMAIN p[q]
      <3>1. CASE q = 1
        BY <3>1, <1>3, <1>8, Zenon
      <3>2. CASE q # 1
        <4>1. q - 1 \in 1 .. s /\ q - 1 < i /\ (q - 1) + 1 = q
          BY <2>5, <3>2
        <4>2. at[q - 1] < j /\ p[q] = h[at[q - 1]] /\ at[q - 1] \in 1 .. n
          <5>1. p[(q - 1) + 1] = h[at[q - 1]]
            BY <1>4, <4>1, Zenon
          <5>2. at[q - 1] < at[i] /\ at[q - 1] \in 1 .. n
            BY <1>1, <4>1, <1>1a, Zenon DEF Kept
          <5> QED BY <5>1, <5>2, <4>1, <2>3, Zenon
        <4> QED BY <4>2, <2>1
      <3> QED BY <3>1, <3>2, Zenon
    <2>6. k \in DOMAIN p[i + 1]
      BY <2>1, <2>4, Zenon
    <2>7. Naming(p, k) # {} /\ Newest(p, k) = p[i + 1][k]
      BY <1>5, <2>4, <2>5, <2>6, NewestAt
    <2> QED BY <2>7, <2>4, <2>2, Zenon
  <1>9. ASSUME NEW k \in Keys \ DOMAIN c, Naming(p, k) # {}
        PROVE  Naming(h, k) # {}
    <2>1. PICK q \in 1 .. s + 1 : k \in DOMAIN p[q]
      BY <1>5, <1>9, Zenon DEF Naming
    <2>2. q # 1
      BY <2>1, <1>3, <1>9, Zenon
    <2>3. q - 1 \in 1 .. s /\ (q - 1) + 1 = q
      BY <2>1, <2>2
    <2>4. p[q] = h[at[q - 1]] /\ at[q - 1] \in 1 .. n
      <3>1. p[(q - 1) + 1] = h[at[q - 1]] /\ at[q - 1] \in 1 .. n
        BY <1>4, <1>1, <2>3, <1>1a, Zenon DEF Kept
      <3> QED BY <3>1, <2>3, Zenon
    <2> QED BY <2>1, <2>4, <1>6, Zenon DEF Naming
  <1>10. View(p) = Overlay(c, View(h))
    <2>1. \A k \in Keys \ DOMAIN c : /\ (Naming(p, k) # {}) <=> (Naming(h, k) # {})
                                     /\ Naming(h, k) # {} => Newest(p, k) = Newest(h, k)
      BY <1>8, <1>9, Zenon
    <2> QED BY <2>1, <1>5, <1>7, ViewUnder, Zenon
  <1>11. ASSUME IsInjective(h) PROVE IsInjective(p)
    <2>1. \A a, b \in 1 .. n : h[a] = h[b] => a = b
      BY <1>11, <1>6, Zenon DEF IsInjective
    <2>2. ASSUME NEW a \in 1 .. s + 1, NEW b \in 1 .. s + 1, p[a] = p[b], a < b PROVE FALSE
      <3>1. b - 1 \in 1 .. s /\ (b - 1) + 1 = b
        BY <2>2
      <3>2. p[b] = h[at[b - 1]] /\ h[at[b - 1]] # c /\ at[b - 1] \in 1 .. n
        <4>1. p[(b - 1) + 1] = h[at[b - 1]] /\ h[at[b - 1]] # c /\ at[b - 1] \in 1 .. n
          BY <3>1, <1>4, <1>1, <1>1a, Zenon DEF Kept
        <4> QED BY <4>1, <3>1, Zenon
      <3>3. a # 1
        BY <3>2, <2>2, <1>3, Zenon
      <3>4. a - 1 \in 1 .. s /\ (a - 1) + 1 = a /\ a - 1 < b - 1
        BY <2>2, <3>3
      <3>5. p[a] = h[at[a - 1]] /\ at[a - 1] \in 1 .. n /\ at[a - 1] < at[b - 1]
        <4>1. p[(a - 1) + 1] = h[at[a - 1]] /\ at[a - 1] \in 1 .. n /\ at[a - 1] < at[b - 1]
          BY <3>1, <3>4, <1>4, <1>1, <1>1a, Zenon DEF Kept
        <4> QED BY <4>1, <3>4, Zenon
      <3>6. at[a - 1] = at[b - 1]
        BY <3>2, <3>5, <2>1, <2>2, Zenon
      <3> QED BY <3>5, <3>6, <3>2
    <2>3. \A a, b \in 1 .. s + 1 : p[a] = p[b] => a = b
      BY <2>2
    <2> QED BY <2>3, <1>5, Zenon DEF IsInjective
  <1>12. s + 1 \in Nat /\ s + 1 >= 1
    OBVIOUS
  <1>13. \E m \in Nat : /\ p \in RunSeqs(m) /\ Len(p) = m /\ m >= 1
                        /\ View(p) = Overlay(c, View(h))
                        /\ IsInjective(h) => IsInjective(p)
    BY <1>3, <1>5, <1>10, <1>11, <1>12, Zenon
  <1> QED BY <1>13, Zenon DEF p

\* The head already starts with the change.
LEMMA RepeatedView ==
  ASSUME NEW n \in Nat, NEW h \in RunSeqs(n), n >= 1, NEW c \in Maps, h[1] = c
  PROVE  View(h) = Overlay(c, View(h))
  <1>1. ASSUME NEW k \in DOMAIN c PROVE Naming(h, k) # {} /\ Newest(h, k) = c[k]
    <2>1. 1 \in 1 .. n /\ k \in DOMAIN h[1] /\ \A i \in 1 .. n : i < 1 => k \notin DOMAIN h[i]
      OBVIOUS
    <2> QED BY <2>1, NewestAt
  <1> QED BY <1>1, ViewUnder, Zenon

\* An update of one key is a run that does not name the root.
LEMMA ChangeIs ==
  ASSUME NEW op \in Operations
  PROVE  Change(op) \in Maps /\ RootKey \notin DOMAIN Change(op)
  <1>1. op.key \in Keys \ {RootKey} /\ op.value \in Values \cup {Tombstone}
    BY Zenon DEF Operations
  <1>2. {op.key} \in SUBSET Keys /\ Change(op) \in [{op.key} -> Values \cup {Tombstone}]
    BY <1>1, Zenon DEF Change
  <1>3. DOMAIN Change(op) = {op.key}
    BY Zenon DEF Change
  <1> QED BY <1>1, <1>2, <1>3, MapsMade, Zenon

\* A change that does not name the root leaves it in the view.
LEMMA RootStays ==
  ASSUME NEW c \in Maps, NEW m \in Complete, RootKey \notin DOMAIN c, RootKey \in DOMAIN m
  PROVE  RootKey \in DOMAIN Overlay(c, m)
  BY Zenon DEF Overlay

\* How many runs a plan gives is a number.
LEMMA PlanLength ==
  ASSUME NEW h \in Heads, NEW op \in Operations
  PROVE  Len(Plan(h, Change(op))) \in Nat
  <1> DEFINE c == Change(op)
  <1>1. c \in Maps
    BY ChangeIs, Zenon
  <1> HIDE DEF c
  <1>2. CASE h = Flat
    <2>1. Plan(h, c) = ImageRuns(Overlay(c, FlatMap)) /\ Overlay(c, FlatMap) \in Complete
      BY <1>1, <1>2, FlatHasRoot, OverlayComplete, Zenon DEF Plan
    <2> QED BY <2>1, ImageRunsSound, Zenon DEF c
  <1>3. CASE h # Flat
    <2>1. h \in Manifests
      BY <1>3, Zenon DEF Heads
    <2>2. Len(h) \in Nat /\ h \in RunSeqs(Len(h))
      BY <2>1, ManifestsAre, LimitsOrdered
    <2>3. Len(<<c>> \o Without(h, c)) \in Nat
      BY <1>1, <2>2, PrependView, Zenon
    <2>4. Plan(h, c) = h \/ Plan(h, c) = <<c>> \o Without(h, c)
      BY <1>3, Zenon DEF Plan
    <2> QED BY <2>2, <2>3, <2>4, Zenon DEF c
  <1> QED BY <1>2, <1>3, Zenon

\* The head plan makes reads as the old one with the change on top.
LEMMA PlanSound ==
  ASSUME NEW h \in Heads, Sound(h), NEW op \in Operations, Len(Plan(h, Change(op))) <= Hard
  PROVE  /\ Plan(h, Change(op)) \in Manifests /\ Sound(Plan(h, Change(op)))
         /\ ViewOf(Plan(h, Change(op))) = Overlay(Change(op), ViewOf(h))
  <1> DEFINE c == Change(op)
             p == Plan(h, c)
  <1>1. c \in Maps /\ RootKey \notin DOMAIN c
    BY ChangeIs, Zenon
  <1>2. ViewOf(h) \in Complete /\ RootKey \in DOMAIN ViewOf(h) /\ (h # Flat => IsInjective(h))
    BY HeadView, Zenon DEF Sound
  <1>3. Overlay(c, ViewOf(h)) \in Complete /\ RootKey \in DOMAIN Overlay(c, ViewOf(h))
    <2> HIDE DEF c
    <2> QED BY <1>1, <1>2, OverlayComplete, RootStays, Zenon
  <1>4. Len(p) <= Hard
    BY Zenon
  <1> HIDE DEF c, p
  <1>5. p \in Manifests /\ IsInjective(p) /\ ViewOf(p) = Overlay(c, ViewOf(h))
    <2>1. CASE h = Flat
      <3>1. p = ImageRuns(Overlay(c, FlatMap)) /\ ViewOf(h) = FlatMap
        BY <2>1, Zenon DEF p, Plan, ViewOf
      <3> QED BY <3>1, <1>3, <1>4, ImageSound, Zenon
    <2>2. CASE h # Flat
      <3>1. h \in Manifests
        BY <2>2, Zenon DEF Heads
      <3>2. Len(h) \in 1 .. Hard /\ h \in RunSeqs(Len(h)) /\ ViewOf(h) = View(h) /\ IsInjective(h)
        BY <3>1, <2>2, <1>2, ManifestsAre, Zenon
      <3>3. Len(h) \in Nat /\ Len(h) >= 1 /\ Hard \in Nat
        BY <3>2, LimitsOrdered
      <3>4. CASE h[1] = c
        <4>1. p = h
          BY <2>2, <3>4, Zenon DEF p, Plan
        <4>2. View(h) = Overlay(c, View(h))
          BY <3>2, <3>3, <3>4, <1>1, RepeatedView, Zenon
        <4> QED BY <4>1, <4>2, <3>1, <3>2, Zenon
      <3>5. CASE h[1] # c
        <4>1. p = <<c>> \o Without(h, c)
          BY <2>2, <3>5, Zenon DEF p, Plan
        <4>2. PICK m \in Nat : /\ p \in RunSeqs(m) /\ Len(p) = m /\ m >= 1
                               /\ View(p) = Overlay(c, View(h))
                               /\ IsInjective(h) => IsInjective(p)
          BY <4>1, <3>2, <3>3, <1>1, PrependView, Zenon
        <4>3. m \in 1 .. Hard
          BY <4>2, <1>4, <3>3
        <4>4. p \in Manifests
          BY <4>2, <4>3, ManifestsMade, Zenon
        <4>5. ViewOf(p) = View(p)
          BY <4>4, ManifestsAre, Zenon
        <4> QED BY <4>2, <4>4, <4>5, <3>2, Zenon
      <3> QED BY <3>4, <3>5, Zenon
    <2> QED BY <2>1, <2>2, Zenon
  <1>6. Sound(p)
    BY <1>3, <1>5, Zenon DEF Sound
  <1> QED BY <1>5, <1>6, Zenon DEF c, p

-----------------------------------------------------------------------------
(* The queue.                                                               *)

\* What two sequences hold together.
LEMMA RangeConcat ==
  ASSUME NEW S, NEW s \in Seq(S), NEW t \in Seq(S)
  PROVE  s \o t \in Seq(S) /\ Range(s \o t) = Range(s) \cup Range(t)
  <1>1. /\ s \o t \in Seq(S) /\ Len(s \o t) = Len(s) + Len(t)
        /\ DOMAIN s = 1 .. Len(s) /\ DOMAIN t = 1 .. Len(t) /\ DOMAIN (s \o t) = 1 .. Len(s) + Len(t)
        /\ Len(s) \in Nat /\ Len(t) \in Nat
    OBVIOUS
  <1>2. \A i \in 1 .. Len(s) : (s \o t)[i] = s[i]
    OBVIOUS
  <1>3. \A i \in 1 .. Len(t) : (s \o t)[Len(s) + i] = t[i]
    OBVIOUS
  <1>4. ASSUME NEW i \in 1 .. Len(s) + Len(t)
        PROVE  (s \o t)[i] \in Range(s) \cup Range(t)
    <2>1. CASE i \in 1 .. Len(s)
      BY <2>1, <1>1, <1>2, Zenon DEF Range
    <2>2. CASE ~(i \in 1 .. Len(s))
      <3>1. i - Len(s) \in 1 .. Len(t) /\ Len(s) + (i - Len(s)) = i
        BY <2>2, <1>1
      <3>2. (s \o t)[i] = t[i - Len(s)]
        BY <3>1, <1>3, Zenon
      <3> QED BY <3>1, <3>2, <1>1, Zenon DEF Range
    <2> QED BY <2>1, <2>2, Zenon
  <1>5. \A x \in Range(s \o t) : x \in Range(s) \cup Range(t)
    BY <1>1, <1>4, Zenon DEF Range
  <1>6. \A x \in Range(s) : x \in Range(s \o t)
    <2> SUFFICES ASSUME NEW i \in 1 .. Len(s) PROVE s[i] \in Range(s \o t)
      BY <1>1, Zenon DEF Range
    <2>1. i \in 1 .. Len(s) + Len(t)
      BY <1>1
    <2> QED BY <2>1, <1>1, <1>2, Zenon DEF Range
  <1>7. \A x \in Range(t) : x \in Range(s \o t)
    <2> SUFFICES ASSUME NEW i \in 1 .. Len(t) PROVE t[i] \in Range(s \o t)
      BY <1>1, Zenon DEF Range
    <2>1. Len(s) + i \in 1 .. Len(s) + Len(t)
      BY <1>1
    <2> QED BY <2>1, <1>1, <1>3, Zenon DEF Range
  <1>8. Range(s \o t) = Range(s) \cup Range(t)
    BY <1>5, <1>6, <1>7, Zenon
  <1> QED BY <1>1, <1>8, Zenon

\* Put in any order, a finite set is a sequence of its members.
LEMMA InOrderOf ==
  ASSUME NEW S, IsFiniteSet(S)
  PROVE  InAnyOrder(S) \in Seq(S) /\ Range(InAnyOrder(S)) = S
  <1> DEFINE n == Cardinality(S)
             f == InAnyOrder(S)
  <1>1. n \in Nat /\ ExistsBijection(1 .. n, S)
    BY FS_CardinalityType, Zenon
  <1>2. \E g \in [1 .. n -> S] : IsInjective(g)
    BY <1>1, Zenon DEF ExistsBijection, Bijection, Injection
  <1>3. f \in [1 .. n -> S] /\ IsInjective(f)
    BY <1>2, Zenon DEF InAnyOrder
  <1> HIDE DEF f
  <1>4. f \in Injection(1 .. n, S)
    BY <1>3, Zenon DEF Injection
  <1>5. Cardinality(1 .. n) = n
    <2> HIDE DEF n
    <2> QED BY <1>1, FS_Interval
  <1>6. f \in Surjection(1 .. n, S)
    BY <1>4, <1>5, FS_Injection, Zenon
  <1> HIDE DEF n
  <1>7. \A x \in S : \E i \in 1 .. n : f[i] = x
    BY <1>6, Zenon DEF Surjection
  <1>8. f \in Seq(S) /\ DOMAIN f = 1 .. n
    BY <1>1, <1>3
  <1>9. Range(f) = S
    BY <1>3, <1>7, <1>8, Zenon DEF Range
  <1> QED BY <1>8, <1>9, Zenon DEF f

\* Asking for Worlds adds those that are not queued.
LEMMA ScheduledIs ==
  ASSUME queue \in Seq(Worlds), NEW ws \in SUBSET Worlds
  PROVE  Scheduled(ws) \in Seq(Worlds) /\ Range(Scheduled(ws)) = Range(queue) \cup ws
  <1> DEFINE S == ws \ Range(queue)
             t == InAnyOrder(S)
  <1>1. S \in SUBSET Worlds
    BY Zenon
  <1>2. IsFiniteSet(S)
    <2> HIDE DEF S
    <2> QED BY <1>1, MainIsAWorld, FS_Subset, Zenon
  <1>3. t \in Seq(S) /\ Range(t) = S
    <2> HIDE DEF S
    <2> QED BY <1>2, InOrderOf, Zenon
  <1> HIDE DEF t
  <1>4. t \in Seq(Worlds)
    <2> HIDE DEF S
    <2> QED BY <1>1, <1>3
  <1>5. Scheduled(ws) = queue \o t
    BY Zenon DEF Scheduled, t
  <1>6. queue \o t \in Seq(Worlds) /\ Range(queue \o t) = Range(queue) \cup Range(t)
    BY <1>4, RangeConcat
  <1>7. Range(queue) \cup S = Range(queue) \cup ws
    BY Zenon
  <1> HIDE DEF S
  <1> QED BY <1>3, <1>5, <1>6, <1>7, Zenon

\* What is left of the queue when the worker takes its first World.
LEMMA TailIs ==
  ASSUME queue \in Seq(Worlds), queue # << >>
  PROVE  /\ Tail(queue) \in Seq(Worlds) /\ Head(queue) \in Worlds
         /\ Range(queue) = {Head(queue)} \cup Range(Tail(queue))
  <1>1. /\ Tail(queue) \in Seq(Worlds) /\ Head(queue) \in Worlds /\ Len(queue) \in Nat /\ Len(queue) >= 1
        /\ Len(Tail(queue)) = Len(queue) - 1 /\ Head(queue) = queue[1]
        /\ DOMAIN queue = 1 .. Len(queue) /\ DOMAIN Tail(queue) = 1 .. Len(queue) - 1
    OBVIOUS
  <1>2. \A i \in 1 .. Len(queue) - 1 : Tail(queue)[i] = queue[i + 1]
    OBVIOUS
  <1>3. ASSUME NEW i \in 1 .. Len(queue) PROVE queue[i] \in {Head(queue)} \cup Range(Tail(queue))
    <2>1. CASE i = 1
      BY <2>1, <1>1, Zenon
    <2>2. CASE i # 1
      <3>1. i - 1 \in 1 .. Len(queue) - 1 /\ (i - 1) + 1 = i
        BY <2>2, <1>1
      <3>2. queue[i] = Tail(queue)[i - 1]
        BY <3>1, <1>2, Zenon
      <3> QED BY <3>1, <3>2, <1>1, Zenon DEF Range
    <2> QED BY <2>1, <2>2, Zenon
  <1>4. \A x \in Range(queue) : x \in {Head(queue)} \cup Range(Tail(queue))
    BY <1>1, <1>3, Zenon DEF Range
  <1>5. Head(queue) \in Range(queue)
    BY <1>1 DEF Range
  <1>6. \A x \in Range(Tail(queue)) : x \in Range(queue)
    <2> SUFFICES ASSUME NEW i \in 1 .. Len(queue) - 1 PROVE Tail(queue)[i] \in Range(queue)
      BY <1>1, Zenon DEF Range
    <2>1. i + 1 \in 1 .. Len(queue) /\ Tail(queue)[i] = queue[i + 1]
      BY <1>1, <1>2
    <2> QED BY <2>1, <1>1, Zenon DEF Range
  <1>7. Range(queue) = {Head(queue)} \cup Range(Tail(queue))
    BY <1>4, <1>5, <1>6, Zenon
  <1> QED BY <1>1, <1>7, Zenon

-----------------------------------------------------------------------------
(* The inductive invariant.                                                 *)

Reqs == [world : Worlds, op : Operations, offline : BOOLEAN]
Phases == {"none", "new", "built", "stage", "publish", "installed", "stale", "failed"}
TaskSet == [phase : Phases, world : Worlds \cup {None}, head : Heads \cup {None}, fresh : BOOLEAN,
            output : {<< >>} \cup Manifests, staged : BOOLEAN]
WriterSet == [pc : {"idle", "run", "wait", "compact"}, request : Reqs \cup {None},
              before : Heads \cup {None}, failed : BOOLEAN, tries : Nat]

Shape ==
  /\ heads \in [Worlds -> Heads]
  /\ catalog \in SUBSET Maps
  /\ healthy \in BOOLEAN /\ running \in BOOLEAN /\ stop \in BOOLEAN
  /\ queue \in Seq(Worlds)
  /\ worker \in {"off", "wait", "task", "backoff", "exited"}
  /\ tasks \in [Processes -> TaskSet]
  /\ writers \in [Writers -> WriterSet]
  /\ woken \in SUBSET Processes
  /\ expected \in [Worlds -> Complete]

\* A head reads as its updates left it, and what it names is there.
GoodHead(h, e, cat) ==
  /\ Sound(h)
  /\ ViewOf(h) = e
  /\ h # Flat => Range(h) \subseteq cat

\* A candidate is the merge of the captured head; when it is about to be published
\* after a staging, all of it is in the catalog.
GoodTask(t, cat) ==
  /\ t.phase # "none" => t.world \in Worlds
  /\ t.phase \in {"built", "stage", "publish"} =>
       /\ t.head \in Heads /\ Sound(t.head)
       /\ t.output = Merged(t.head) /\ t.output \in Manifests
  /\ t.phase \in {"stage", "publish"} => t.head # t.output
  /\ t.phase = "publish" /\ t.staged => Range(t.output) \subseteq cat

\* A waiting writer was held back by a full head; if another head took its place
\* then a merge of it did, so that head does not come back as a merge.
GoodWriter(v, hs) ==
  /\ v.pc \in {"run", "wait"} => v.request \in Reqs
  /\ v.pc = "wait" =>
       /\ v.before \in Heads /\ RunCount(v.before) >= Hard
       /\ hs[v.request.world] = v.before \/ v.before # Merged(v.before)

\* A writer's World is queued, or in the hands of the worker, whose job if it has
\* installed a head leaves it full.
Served(v, hs, queued, at, t) ==
  LET world == v.request.world
  IN  v.pc = "wait" /\ ~v.failed /\ hs[world] = v.before =>
        \/ world \in queued
        \/ /\ at = "task" /\ t.world = world
           /\ t.phase = "installed" => Len(t.output) >= Hard

\* A due World is queued, or in the hands of the worker, whose job is not over.
Found(w, h, queued, at, t) ==
  /\ RunCount(h) >= Soft
  /\ h # Merged(h) /\ Len(Merged(h)) <= Hard
  => \/ w \in queued
     \/ at = "task" /\ t.world = w /\ t.phase \notin {"installed", "failed"}

HeadOK(w) == GoodHead(heads[w], expected[w], catalog)
TaskOK(p) == GoodTask(tasks[p], catalog)
WriterOK(w) == GoodWriter(writers[w], heads)
WorkerOK == worker = "task" => tasks[Worker].world \in Worlds
ServedOK(w) == Background /\ healthy => Served(writers[w], heads, Range(queue), worker, tasks[Worker])
FoundOK(w) == Background /\ healthy => Found(w, heads[w], Range(queue), worker, tasks[Worker])

IInv ==
  /\ Shape
  /\ \A w \in Worlds : HeadOK(w)
  /\ \A p \in Processes : TaskOK(p)
  /\ \A w \in Writers : WriterOK(w)
  /\ WorkerOK
  /\ \A w \in Writers : ServedOK(w)
  /\ \A w \in Worlds : FoundOK(w)

-----------------------------------------------------------------------------
(* The records of tasks and writers.                                        *)

\* The fields the invariant reads.
Alike(t, u) == t.phase = u.phase /\ t.world = u.world /\ t.head = u.head /\ t.output = u.output
               /\ t.staged = u.staged

\* A task stays good when only its freshness is lost and the catalog grows.
LEMMA AlikeTasks ==
  ASSUME NEW t, NEW u, Alike(t, u), NEW c, NEW d, c \subseteq d, GoodTask(u, c)
  PROVE  GoodTask(t, d)
  BY Zenon DEF Alike, GoodTask

\* What the worker has in hand, as the two promises read it.
LEMMA AlikeJobs ==
  ASSUME NEW t, NEW u, Alike(t, u), NEW at, NEW q, NEW r, q \subseteq r
  PROVE  /\ \A v, hs : Served(v, hs, q, at, u) => Served(v, hs, r, at, t)
         /\ \A w, h : Found(w, h, q, at, u) => Found(w, h, r, at, t)
  BY Zenon DEF Alike, Served, Found

\* The types of a task's fields.
LEMMA TaskFields ==
  ASSUME NEW t \in TaskSet
  PROVE  /\ t.phase \in Phases /\ t.world \in Worlds \cup {None} /\ t.head \in Heads \cup {None}
         /\ t.fresh \in BOOLEAN /\ t.output \in {<< >>} \cup Manifests /\ t.staged \in BOOLEAN
  BY Zenon DEF TaskSet

\* Fields of these types make a task.
LEMMA TaskMade ==
  ASSUME NEW p \in Phases, NEW w \in Worlds \cup {None}, NEW h \in Heads \cup {None}, NEW f \in BOOLEAN,
         NEW o \in {<< >>} \cup Manifests, NEW s \in BOOLEAN
  PROVE  [phase |-> p, world |-> w, head |-> h, fresh |-> f, output |-> o, staged |-> s] \in TaskSet
  BY Zenon DEF TaskSet

\* The types of a client thread's fields.
LEMMA WriterFields ==
  ASSUME NEW v \in WriterSet
  PROVE  /\ v.pc \in {"idle", "run", "wait", "compact"} /\ v.request \in Reqs \cup {None}
         /\ v.before \in Heads \cup {None} /\ v.failed \in BOOLEAN /\ v.tries \in Nat
  BY Zenon DEF WriterSet

\* Fields of these types make a client thread.
LEMMA WriterMade ==
  ASSUME NEW c \in {"idle", "run", "wait", "compact"}, NEW r \in Reqs \cup {None},
         NEW b \in Heads \cup {None}, NEW f \in BOOLEAN, NEW n \in Nat
  PROVE  [pc |-> c, request |-> r, before |-> b, failed |-> f, tries |-> n] \in WriterSet
  BY Zenon DEF WriterSet

\* The client thread that does nothing.
LEMMA Idle ==
  /\ IdleWriter \in WriterSet /\ IdleWriter.pc = "idle" /\ IdleWriter.request = None
  /\ IdleWriter.before = None /\ IdleWriter.failed = FALSE /\ IdleWriter.tries = 0
  BY Zenon DEF IdleWriter, WriterSet

\* The task that does nothing.
LEMMA NoTaskIs ==
  /\ NoTask \in TaskSet /\ NoTask.phase = "none" /\ NoTask.world = None /\ NoTask.output = << >>
  /\ NoTask.head = None /\ NoTask.fresh = TRUE /\ NoTask.staged = FALSE
  /\ \A c : GoodTask(NoTask, c)
  BY Zenon DEF NoTask, TaskSet, Phases, GoodTask

\* A task begins.
Begun(world) == [NoTask EXCEPT !.phase = "new", !.world = world]

\* A task that was just begun for a World.
LEMMA BegunIs ==
  ASSUME NEW world \in Worlds
  PROVE  /\ Begun(world) \in TaskSet /\ Begun(world).phase = "new" /\ Begun(world).world = world
         /\ \A c : GoodTask(Begun(world), c)
  <1>2. Begun(world) \in TaskSet
    BY NoTaskIs, Zenon DEF Begun, TaskSet, Phases
  <1>3. Begun(world).phase = "new" /\ Begun(world).world = world
    BY NoTaskIs, Zenon DEF Begun, TaskSet
  <1> HIDE DEF Begun
  <1>4. \A c : GoodTask(Begun(world), c)
    BY <1>3, Zenon DEF GoodTask
  <1> QED BY <1>2, <1>3, <1>4, Zenon

\* A task ends.
LEMMA OverIs ==
  ASSUME NEW t \in TaskSet, t.world \in Worlds, NEW end \in {"installed", "stale", "failed"}
  PROVE  /\ Over(t, end) \in TaskSet /\ Over(t, end).phase = end /\ Over(t, end).world = t.world
         /\ end = "installed" => Over(t, end).output = t.output
         /\ \A c : GoodTask(Over(t, end), c)
  <1>1. (IF end = "installed" THEN t.output ELSE << >>) \in {<< >>} \cup Manifests /\ t.world \in Worlds \cup {None}
    BY TaskFields, Zenon
  <1>2. Over(t, end) \in TaskSet
    BY <1>1, NoTaskIs, Zenon DEF Over, TaskSet, Phases
  <1>3. /\ Over(t, end).phase = end /\ Over(t, end).world = t.world
        /\ end = "installed" => Over(t, end).output = t.output
    BY NoTaskIs, Zenon DEF Over, TaskSet
  <1>4. \A c : GoodTask(Over(t, end), c)
    BY <1>3, Zenon DEF GoodTask
  <1> QED BY <1>2, <1>3, <1>4, Zenon

\* A transaction only takes the freshness of captures.
LEMMA FencedIs ==
  ASSUME tasks \in [Processes -> TaskSet], NEW p
  PROVE  Fenced(p) \in [Processes -> TaskSet] /\ \A q \in Processes : Alike(Fenced(p)[q], tasks[q])
  <1> SUFFICES ASSUME NEW q \in Processes
               PROVE  /\ (IF q # p /\ tasks[q].head = Flat THEN [tasks[q] EXCEPT !.fresh = FALSE]
                          ELSE tasks[q]) \in TaskSet
                      /\ Alike(IF q # p /\ tasks[q].head = Flat THEN [tasks[q] EXCEPT !.fresh = FALSE]
                               ELSE tasks[q], tasks[q])
    BY Zenon DEF Fenced
  <1>1. tasks[q] \in TaskSet
    BY Zenon
  <1>2. [tasks[q] EXCEPT !.fresh = FALSE] \in TaskSet /\ Alike([tasks[q] EXCEPT !.fresh = FALSE], tasks[q])
    BY <1>1, Zenon DEF TaskSet, Alike
  <1>3. Alike(tasks[q], tasks[q])
    BY Zenon DEF Alike
  <1> QED BY <1>1, <1>2, <1>3, Zenon

-----------------------------------------------------------------------------
(* What steps leave alone.                                                  *)

\* The worker and the client threads are different processes.
LEMMA ProcessesAre == Worker \in Processes /\ \A w \in Writers : w \in Processes /\ w # Worker
  BY Apart, Zenon DEF Processes

\* Heads that do not change stay good when the catalog only grows.
LEMMA HeadsStay ==
  ASSUME IInv, heads' = heads, expected' = expected, catalog \subseteq catalog'
  PROVE  \A w \in Worlds : HeadOK(w)'
  BY Zenon DEF IInv, HeadOK, GoodHead

\* A task that a step leaves alone, or only makes stale, stays good.
LEMMA TaskStays ==
  ASSUME IInv, NEW p \in Processes, Alike(tasks'[p], tasks[p]), catalog \subseteq catalog'
  PROVE  TaskOK(p)'
  BY AlikeTasks, Zenon DEF IInv, TaskOK

\* A client thread that a step leaves alone stays good while the heads do not change.
LEMMA WriterStays ==
  ASSUME IInv, NEW w \in Writers, writers'[w] = writers[w], heads' = heads
  PROVE  WriterOK(w)'
  BY Zenon DEF IInv, WriterOK

\* A blocked update stays served when neither it nor the worker moves and nothing leaves the queue.
LEMMA ServedStays ==
  ASSUME IInv, NEW w \in Writers, writers'[w] = writers[w], heads' = heads, worker' = worker,
         Background' /\ healthy' => Background /\ healthy,
         Range(queue) \subseteq Range(queue'), Alike(tasks'[Worker], tasks[Worker])
  PROVE  ServedOK(w)'
  BY AlikeJobs, Zenon DEF IInv, ServedOK

\* A World over the soft limit stays found when neither it nor the worker moves and nothing leaves the queue.
LEMMA FoundStays ==
  ASSUME IInv, heads' = heads, worker' = worker,
         Background' /\ healthy' => Background /\ healthy,
         Range(queue) \subseteq Range(queue'), Alike(tasks'[Worker], tasks[Worker])
  PROVE  \A w \in Worlds : FoundOK(w)'
  BY AlikeJobs, Zenon DEF IInv, FoundOK

\* A job that is not over keeps both promises.
LEMMA JobGoesOn ==
  ASSUME NEW t, NEW u, t.world = u.world, t.phase \notin {"installed", "failed"}, NEW at, NEW q
  PROVE  /\ \A v, hs : Served(v, hs, q, at, u) => Served(v, hs, q, at, t)
         /\ \A w, h : Found(w, h, q, at, u) => Found(w, h, q, at, t)
  BY Zenon DEF Served, Found

\* A task is like itself.
LEMMA AlikeSelf == \A t : Alike(t, t)
  BY Zenon DEF Alike

\* A client thread moves and changes nothing but its own records.
LEMMA ClientMoves ==
  ASSUME IInv, NEW w \in Writers, NEW v \in WriterSet, NEW t \in TaskSet,
         writers' = [writers EXCEPT ![w] = v], tasks' = [tasks EXCEPT ![w] = t],
         v = writers[w] \/ (v.pc # "wait" /\ (v.pc = "run" => v.request \in Reqs)),
         GoodTask(t, catalog), woken' \in SUBSET Processes,
         UNCHANGED <<store, healthy, queue, service>>
  PROVE  IInv'
  <1> USE DEF store, service
  <1>1. Shape /\ w \in Processes /\ w # Worker /\ Worker \in Processes
    BY ProcessesAre, Zenon DEF IInv
  <1>2. /\ tasks' \in [Processes -> TaskSet] /\ tasks'[w] = t
        /\ \A q \in Processes \ {w} : tasks'[q] = tasks[q]
    BY <1>1, Zenon DEF Shape
  <1>3. /\ writers' \in [Writers -> WriterSet] /\ writers'[w] = v
        /\ \A x \in Writers \ {w} : writers'[x] = writers[x]
    BY <1>1, Zenon DEF Shape
  <1>4. Shape'
    BY <1>1, <1>2, <1>3, Zenon DEF Shape
  <1>5. \A x \in Worlds : HeadOK(x)'
    BY HeadsStay, Zenon
  <1>6. \A p \in Processes : TaskOK(p)'
    <2> SUFFICES ASSUME NEW p \in Processes PROVE TaskOK(p)'
      BY Zenon
    <2>1. CASE p = w
      BY <2>1, <1>2, Zenon DEF TaskOK
    <2>2. CASE p # w
      BY <2>2, <1>2, TaskStays, AlikeSelf, Zenon
    <2> QED BY <2>1, <2>2, Zenon
  <1>7. \A x \in Writers : WriterOK(x)' /\ ServedOK(x)'
    <2> SUFFICES ASSUME NEW x \in Writers PROVE WriterOK(x)' /\ ServedOK(x)'
      BY Zenon
    <2>1. Alike(tasks'[Worker], tasks[Worker]) /\ (Background' <=> Background)
      BY <1>1, <1>2, AlikeSelf, Zenon DEF Background
    <2>2. CASE writers'[x] = writers[x]
      BY <2>1, <2>2, WriterStays, ServedStays, Zenon
    <2>3. CASE writers'[x] # writers[x]
      <3>1. writers'[x] = v /\ v.pc # "wait" /\ (v.pc = "run" => v.request \in Reqs)
        BY <2>3, <1>3, Zenon
      <3>2. GoodWriter(v, heads')
        BY <3>1, Zenon DEF GoodWriter
      <3>3. Served(v, heads', Range(queue'), worker', tasks'[Worker])
        BY <3>1, Zenon DEF Served
      <3> QED BY <3>1, <3>2, <3>3, Zenon DEF WriterOK, ServedOK
    <2> QED BY <2>2, <2>3, Zenon
  <1>8. WorkerOK'
    BY <1>1, <1>2, Zenon DEF WorkerOK, IInv
  <1>9. \A x \in Worlds : FoundOK(x)'
    <2>1. Alike(tasks'[Worker], tasks[Worker]) /\ (Background' <=> Background)
      BY <1>1, <1>2, AlikeSelf, Zenon DEF Background
    <2> QED BY <2>1, FoundStays, Zenon
  <1> QED BY <1>4, <1>5, <1>6, <1>7, <1>8, <1>9, Zenon DEF IInv

\* A task moves without touching a head.
LEMMA TaskMoves ==
  ASSUME IInv, NEW p \in Processes, NEW t \in TaskSet,
         tasks' \in [Processes -> TaskSet], tasks'[p] = t, t.world = tasks[p].world,
         \A q \in Processes \ {p} : Alike(tasks'[q], tasks[q]),
         GoodTask(t, catalog'), catalog \subseteq catalog', catalog' \in SUBSET Maps,
         healthy' \in BOOLEAN, healthy' => healthy,
         UNCHANGED <<heads, expected, queue, service, writers, woken>>,
         p = Worker /\ Background /\ healthy' =>
           /\ \A w \in Writers : Served(writers[w], heads, Range(queue), worker, t)
           /\ \A w \in Worlds : Found(w, heads[w], Range(queue), worker, t)
  PROVE  IInv'
  <1> USE DEF service
  <1>1. Shape /\ Worker \in Processes /\ (Background' <=> Background)
    BY ProcessesAre, Zenon DEF IInv, Background
  <1>2. Shape'
    BY <1>1, Zenon DEF Shape
  <1>3. \A x \in Worlds : HeadOK(x)'
    BY HeadsStay, Zenon
  <1>4. \A q \in Processes : TaskOK(q)'
    <2> SUFFICES ASSUME NEW q \in Processes PROVE TaskOK(q)'
      BY Zenon
    <2>1. CASE q = p
      BY <2>1, Zenon DEF TaskOK
    <2>2. CASE q # p
      BY <2>2, TaskStays, Zenon
    <2> QED BY <2>1, <2>2, Zenon
  <1>5. \A x \in Writers : WriterOK(x)'
    BY WriterStays, Zenon
  <1>6. WorkerOK'
    BY <1>1, Zenon DEF WorkerOK, IInv, Alike
  <1>7. CASE p = Worker
    BY <1>1, <1>2, <1>3, <1>4, <1>5, <1>6, <1>7, Zenon DEF IInv, ServedOK, FoundOK
  <1>8. CASE p # Worker
    <2>1. Alike(tasks'[Worker], tasks[Worker])
      BY <1>1, <1>8, Zenon
    <2>2. \A x \in Writers : ServedOK(x)'
      BY <1>1, <2>1, ServedStays, Zenon
    <2>3. \A x \in Worlds : FoundOK(x)'
      BY <1>1, <2>1, FoundStays, Zenon
    <2> QED BY <1>2, <1>3, <1>4, <1>5, <1>6, <2>2, <2>3, Zenon DEF IInv
  <1> QED BY <1>7, <1>8, Zenon

-----------------------------------------------------------------------------
(* Client threads.                                                          *)

\* A turn of update() is about a request, and its thread is not blocked.
LEMMA TurnRequest ==
  ASSUME IInv, NEW w \in Writers, NEW r, Turn(w, r)
  PROVE  r \in Reqs /\ r.world \in Worlds /\ r.op \in Operations /\ writers[w].pc # "wait"
  <1>1. r \in Reqs
    <2>1. CASE writers[w].pc = "idle" /\ r \in Requests
      BY <2>1, Zenon DEF Requests, Reqs
    <2>2. CASE writers[w].pc = "run" /\ r = writers[w].request
      BY <2>2, Zenon DEF IInv, WriterOK, GoodWriter
    <2> QED BY <2>1, <2>2, Zenon DEF Turn
  <1> QED BY <1>1, Zenon DEF Turn, Reqs

\* What a client's step may leave of its task: all of it.
LEMMA Kept1 ==
  ASSUME IInv, NEW w \in Writers
  PROVE  /\ tasks = [tasks EXCEPT ![w] = tasks[w]] /\ tasks[w] \in TaskSet /\ GoodTask(tasks[w], catalog)
         /\ writers[w] \in WriterSet /\ writers = [writers EXCEPT ![w] = writers[w]]
  <1>1. Shape /\ w \in Processes
    BY ProcessesAre, Zenon DEF IInv
  <1> QED BY <1>1, Zenon DEF IInv, TaskOK, Shape

\* update() that is refused, at the hard limit or by a failed store, keeps the invariant.
LEMMA UpdateRefusedStep ==
  ASSUME IInv, NEW w \in Writers, NEW r, UpdateRefused(w, r)
  PROVE  IInv'
  <1>1. writers' = [writers EXCEPT ![w] = IdleWriter] /\ UNCHANGED <<store, healthy, queue, service, tasks, woken>>
    BY Zenon DEF UpdateRefused
  <1>2. tasks' = [tasks EXCEPT ![w] = tasks[w]] /\ tasks[w] \in TaskSet /\ GoodTask(tasks[w], catalog)
    BY <1>1, Kept1, Zenon
  <1>3. woken' \in SUBSET Processes
    BY <1>1, Zenon DEF IInv, Shape
  <1>4. IdleWriter \in WriterSet /\ IdleWriter.pc # "wait" /\ IdleWriter.pc # "run"
    BY Idle, Zenon
  <1> QED BY <1>1, <1>2, <1>3, <1>4, ClientMoves, Zenon

\* update() that merges by itself since no worker runs keeps the invariant.
LEMMA UpdateOfflineStep ==
  ASSUME IInv, NEW w \in Writers, NEW r, UpdateOffline(w, r)
  PROVE  IInv'
  <1> DEFINE v == [IdleWriter EXCEPT !.pc = "compact", !.request = r, !.tries = 1]
             t == Begun(r.world)
  <1>1. /\ writers' = [writers EXCEPT ![w] = v] /\ tasks' = [tasks EXCEPT ![w] = t]
        /\ UNCHANGED <<store, healthy, queue, service, woken>> /\ Turn(w, r)
    BY Zenon DEF UpdateOffline, Begun
  <1>2. r \in Reqs /\ r.world \in Worlds
    BY <1>1, TurnRequest, Zenon
  <1>3. v \in WriterSet /\ v.pc = "compact"
    BY <1>2, Idle, Zenon DEF WriterSet
  <1>4. t \in TaskSet /\ GoodTask(t, catalog)
    BY <1>2, BegunIs, Zenon
  <1>5. woken' \in SUBSET Processes
    BY <1>1, Zenon DEF IInv, Shape
  <1> HIDE DEF v, t
  <1> QED BY <1>1, <1>3, <1>4, <1>5, ClientMoves, Zenon

\* A writer that is let go runs its update again or is done.
LEMMA LeaveIs ==
  ASSUME IInv, NEW w \in Writers, writers[w].pc = "wait", Leave(w)
  PROVE  \E v \in WriterSet : /\ writers' = [writers EXCEPT ![w] = v]
                              /\ v.pc # "wait" /\ (v.pc = "run" => v.request \in Reqs)
  <1>1. writers[w] \in WriterSet /\ writers[w].request \in Reqs
    BY Zenon DEF IInv, Shape, WriterOK, GoodWriter
  <1>2. CASE writers[w].failed \/ ~healthy
    <2>1. writers' = [writers EXCEPT ![w] = IdleWriter]
      BY <1>2, Zenon DEF Leave
    <2> QED BY <2>1, Idle, Zenon
  <1>3. CASE ~(writers[w].failed \/ ~healthy)
    <2> DEFINE v == [writers[w] EXCEPT !.pc = "run", !.before = None]
    <2>1. writers' = [writers EXCEPT ![w] = v]
      BY <1>3, Zenon DEF Leave
    <2>2. v \in WriterSet /\ v.pc = "run" /\ v.request = writers[w].request
      BY <1>1, Zenon DEF WriterSet
    <2> HIDE DEF v
    <2> QED BY <2>1, <2>2, <1>1, Zenon
  <1> QED BY <1>2, <1>3, Zenon

\* A blocked update() that wakes, released or not, keeps the invariant.
LEMMA WaitWakeStep ==
  ASSUME IInv, NEW w \in Writers, WaitWake(w)
  PROVE  IInv'
  <1>1. /\ writers[w].pc = "wait" /\ woken' = woken \ {w}
        /\ UNCHANGED <<store, healthy, queue, service, tasks>>
    BY Zenon DEF WaitWake
  <1>2. tasks' = [tasks EXCEPT ![w] = tasks[w]] /\ tasks[w] \in TaskSet /\ GoodTask(tasks[w], catalog)
    BY <1>1, Kept1, Zenon
  <1>3. woken' \in SUBSET Processes
    BY <1>1, Zenon DEF IInv, Shape
  <1>4. \E v \in WriterSet : /\ writers' = [writers EXCEPT ![w] = v]
                             /\ v = writers[w] \/ (v.pc # "wait" /\ (v.pc = "run" => v.request \in Reqs))
    <2>1. CASE Leave(w)
      BY <1>1, <2>1, LeaveIs, Zenon
    <2>2. CASE writers' = writers
      BY <2>2, Kept1, Zenon
    <2> QED BY <2>1, <2>2, Zenon DEF WaitWake
  <1> QED BY <1>1, <1>2, <1>3, <1>4, ClientMoves, Zenon

\* A blocked update() whose time is over keeps the invariant.
LEMMA WaitTimeoutStep ==
  ASSUME IInv, NEW w \in Writers, WaitTimeout(w)
  PROVE  IInv'
  <1>1. /\ writers[w].pc = "wait" /\ woken' = woken \ {w}
        /\ UNCHANGED <<store, healthy, queue, service, tasks>>
    BY DEF WaitTimeout
  <1>2. tasks' = [tasks EXCEPT ![w] = tasks[w]] /\ tasks[w] \in TaskSet /\ GoodTask(tasks[w], catalog)
    BY <1>1, Kept1, Zenon
  <1>3. woken' \in SUBSET Processes
    BY <1>1, Zenon DEF IInv, Shape
  <1>4. \E v \in WriterSet : /\ writers' = [writers EXCEPT ![w] = v]
                             /\ v.pc # "wait" /\ (v.pc = "run" => v.request \in Reqs)
    <2>1. CASE Leave(w)
      BY <1>1, <2>1, LeaveIs
    <2>2. CASE writers' = [writers EXCEPT ![w] = IdleWriter]
      BY <2>2, Idle, Zenon
    <2> QED BY <2>1, <2>2, Zenon DEF WaitTimeout
  <1> QED BY <1>1, <1>2, <1>3, <1>4, ClientMoves, Zenon

\* compact() of a client thread, which begins a task, keeps the invariant.
LEMMA CompactStep ==
  ASSUME IInv, NEW w \in Writers, NEW world \in Worlds, Compact(w, world)
  PROVE  IInv'
  <1> DEFINE v == [IdleWriter EXCEPT !.pc = "compact", !.tries = 1]
             t == Begun(world)
  <1>1. /\ writers' = [writers EXCEPT ![w] = v] /\ tasks' = [tasks EXCEPT ![w] = t]
        /\ UNCHANGED <<store, healthy, queue, service, woken>>
    BY Zenon DEF Compact, Begun
  <1>2. v \in WriterSet /\ v.pc = "compact"
    BY Idle, Zenon DEF WriterSet
  <1>3. t \in TaskSet /\ GoodTask(t, catalog)
    BY BegunIs, Zenon
  <1>4. woken' \in SUBSET Processes
    BY <1>1, Zenon DEF IInv, Shape
  <1> HIDE DEF v, t
  <1> QED BY <1>1, <1>2, <1>3, <1>4, ClientMoves, Zenon

\* compact() that returns or begins again after a race keeps the invariant.
LEMMA CompactReturnStep ==
  ASSUME IInv, NEW w \in Writers, CompactReturn(w)
  PROVE  IInv'
  <1> DEFINE again == tasks[w].phase = "stale" /\ writers[w].tries < MaxRetries
             goesOn == tasks[w].phase = "installed" /\ writers[w].request # None
  <1>1. /\ writers[w].pc = "compact" /\ tasks[w].phase # "none"
        /\ UNCHANGED <<store, healthy, queue, service, woken>>
    BY Zenon DEF CompactReturn
  <1>2. tasks[w] \in TaskSet /\ tasks[w].world \in Worlds /\ writers[w] \in WriterSet
    BY <1>1, Kept1, Zenon DEF GoodTask
  <1>3. woken' \in SUBSET Processes
    BY <1>1, Zenon DEF IInv, Shape
  <1>4. \E t \in TaskSet : tasks' = [tasks EXCEPT ![w] = t] /\ GoodTask(t, catalog)
    <2>1. CASE again
      <3>1. tasks' = [tasks EXCEPT ![w] = Begun(tasks[w].world)]
        BY <2>1, Zenon DEF CompactReturn, Begun
      <3> QED BY <3>1, <1>2, BegunIs, Zenon
    <2>2. CASE ~again
      <3>1. tasks' = [tasks EXCEPT ![w] = NoTask]
        BY <2>2, Zenon DEF CompactReturn
      <3> QED BY <3>1, NoTaskIs, Zenon
    <2> QED BY <2>1, <2>2, Zenon
  <1>5. \E v \in WriterSet : /\ writers' = [writers EXCEPT ![w] = v]
                             /\ v.pc # "wait" /\ (v.pc = "run" => v.request \in Reqs)
    <2>1. CASE again
      <3> DEFINE v == [writers[w] EXCEPT !.tries = writers[w].tries + 1]
      <3>1. writers' = [writers EXCEPT ![w] = v]
        BY <2>1, Zenon DEF CompactReturn
      <3>2. v \in WriterSet /\ v.pc = "compact"
        BY <1>1, <1>2 DEF WriterSet
      <3> HIDE DEF v
      <3> QED BY <3>1, <3>2, Zenon
    <2>2. CASE ~again /\ goesOn
      <3> DEFINE v == [writers[w] EXCEPT !.pc = "run", !.request.offline = TRUE, !.tries = 0]
      <3>1. writers' = [writers EXCEPT ![w] = v]
        BY <2>2, Zenon DEF CompactReturn
      <3>2. writers[w].request \in Reqs
        BY <2>2, <1>2, WriterFields, Zenon
      <3>3. [writers[w].request EXCEPT !.offline = TRUE] \in Reqs
        BY <3>2, Zenon DEF Reqs
      <3>4. v \in WriterSet /\ v.pc = "run" /\ v.request = [writers[w].request EXCEPT !.offline = TRUE]
        BY <1>2, <3>3, Zenon DEF WriterSet
      <3> HIDE DEF v
      <3> QED BY <3>1, <3>3, <3>4, Zenon
    <2>3. CASE ~again /\ ~goesOn
      <3>1. writers' = [writers EXCEPT ![w] = IdleWriter]
        BY <2>3, Zenon DEF CompactReturn
      <3> QED BY <3>1, Idle, Zenon
    <2> QED BY <2>1, <2>2, <2>3, Zenon
  <1> HIDE DEF again, goesOn
  <1> QED BY <1>1, <1>3, <1>4, <1>5, ClientMoves, Zenon

\* Backpressure: the writer's own request queues its World.
LEMMA UpdateWaitStep ==
  ASSUME IInv, NEW w \in Writers, NEW r, UpdateWait(w, r)
  PROVE  IInv'
  <1> DEFINE v == [IdleWriter EXCEPT !.pc = "wait", !.request = r, !.before = heads[r.world]]
  <1> USE DEF store, service
  <1>1. /\ Turn(w, r) /\ Full(r) /\ queue' = Scheduled({r.world})
        /\ writers' = [writers EXCEPT ![w] = v]
        /\ UNCHANGED <<store, healthy, service, tasks>>
    BY Zenon DEF UpdateWait
  <1>2. r \in Reqs /\ r.world \in Worlds
    BY <1>1, TurnRequest, Zenon
  <1>3. Shape /\ Worker \in Processes
    BY ProcessesAre, Zenon DEF IInv
  <1>4. heads[r.world] \in Heads /\ RunCount(heads[r.world]) >= Hard
    BY <1>1, <1>2, <1>3, Zenon DEF Shape, Full
  <1>5. /\ v \in WriterSet /\ v.pc = "wait" /\ v.request = r /\ v.before = heads[r.world] /\ v.failed = FALSE
    BY <1>2, <1>4, Idle, Zenon DEF WriterSet
  <1> HIDE DEF v
  <1>6. queue' \in Seq(Worlds) /\ Range(queue') = Range(queue) \cup {r.world}
    BY <1>1, <1>2, <1>3, ScheduledIs DEF Shape
  <1>7. woken' \in SUBSET Processes
    <2>1. Blocked \in SUBSET Processes
      BY ProcessesAre, Zenon DEF Blocked
    <2> QED BY <1>3, <2>1, Zenon DEF UpdateWait, Shape
  <1>8. /\ writers' \in [Writers -> WriterSet] /\ writers'[w] = v
        /\ \A x \in Writers \ {w} : writers'[x] = writers[x]
    BY <1>1, <1>3, <1>5, Zenon DEF Shape
  <1>9. Shape'
    BY <1>1, <1>3, <1>6, <1>7, <1>8, Zenon DEF Shape
  <1>10. (\A x \in Worlds : HeadOK(x)') /\ (\A p \in Processes : TaskOK(p)')
    BY <1>1, HeadsStay, TaskStays, AlikeSelf, Zenon
  <1>11. /\ Alike(tasks'[Worker], tasks[Worker]) /\ Range(queue) \subseteq Range(queue')
         /\ Background' /\ healthy' => Background /\ healthy
    BY <1>1, <1>6, AlikeSelf, Zenon DEF Background
  <1>12. WorkerOK' /\ \A x \in Worlds : FoundOK(x)'
    BY <1>1, <1>11, FoundStays, Zenon DEF WorkerOK, IInv
  <1>13. ASSUME NEW x \in Writers PROVE WriterOK(x)' /\ ServedOK(x)'
    <2>1. CASE x = w
      <3>1. GoodWriter(v, heads')
        BY <1>1, <1>2, <1>4, <1>5, Zenon DEF GoodWriter
      <3>2. Served(v, heads', Range(queue'), worker', tasks'[Worker])
        BY <1>5, <1>6, Zenon DEF Served
      <3> QED BY <2>1, <3>1, <3>2, <1>8 DEF WriterOK, ServedOK
    <2>2. CASE x # w
      BY <2>2, <1>1, <1>8, <1>11, WriterStays, ServedStays, Zenon
    <2> QED BY <2>1, <2>2, Zenon
  <1> QED BY <1>9, <1>10, <1>12, <1>13 DEF IInv

-----------------------------------------------------------------------------
(* A head changes.                                                          *)

\* The number of runs of a head.
LEMMA RunCountIs ==
  ASSUME NEW h \in Heads
  PROVE  RunCount(h) \in Nat /\ (h # Flat => h \in Manifests /\ RunCount(h) = Len(h))
  <1>1. CASE h = Flat
    BY <1>1, Zenon DEF RunCount
  <1>2. CASE h # Flat
    <2>1. h \in Manifests
      BY <1>2, Zenon DEF Heads
    <2>2. Len(h) \in 1 .. Hard /\ RunCount(h) = Len(h)
      BY <2>1, ManifestsAre, Zenon
    <2> QED BY <2>1, <2>2, <1>2, LimitsOrdered
  <1> QED BY <1>1, <1>2, Zenon

\* A new head of a World that loads and shows what was committed: every head is good after it.
LEMMA HeadChanges ==
  ASSUME IInv, NEW world \in Worlds, NEW g \in Manifests, Sound(g),
         heads' = [heads EXCEPT ![world] = g],
         expected' \in [Worlds -> Complete], expected'[world] = ViewOf(g),
         \A x \in Worlds \ {world} : expected'[x] = expected[x],
         catalog \subseteq catalog', Range(g) \subseteq catalog'
  PROVE  /\ heads' \in [Worlds -> Heads] /\ heads'[world] = g
         /\ \A x \in Worlds \ {world} : heads'[x] = heads[x]
         /\ \A x \in Worlds : HeadOK(x)'
  <1>1. /\ heads' \in [Worlds -> Heads] /\ heads'[world] = g
        /\ \A x \in Worlds \ {world} : heads'[x] = heads[x]
    BY Zenon DEF IInv, Shape, Heads
  <1>2. ASSUME NEW x \in Worlds PROVE HeadOK(x)'
    <2>1. CASE x = world
      <3>1. GoodHead(g, ViewOf(g), catalog')
        BY Zenon DEF GoodHead
      <3> QED BY <2>1, <1>1, <3>1, Zenon DEF HeadOK
    <2>2. CASE x # world
      <3>1. GoodHead(heads[x], expected[x], catalog)
        BY Zenon DEF IInv, HeadOK
      <3>2. GoodHead(heads[x], expected[x], catalog')
        BY <3>1, Zenon DEF GoodHead
      <3> QED BY <2>2, <1>1, <3>2, Zenon DEF HeadOK
    <2> QED BY <2>1, <2>2, Zenon
  <1> QED BY <1>1, <1>2, Zenon

\* The head an update makes.
LEMMA NewHeadIs ==
  ASSUME IInv, NEW w \in Writers, NEW r, Turn(w, r), ~Refused(r), ~Offline(r), ~Full(r)
  PROVE  /\ healthy /\ r.world \in Worlds /\ RunCount(heads[r.world]) < Hard
         /\ NewHead(r) \in Manifests /\ Sound(NewHead(r))
         /\ ViewOf(NewHead(r)) = Overlay(Change(r.op), expected[r.world])
         /\ Overlay(Change(r.op), expected[r.world]) \in Complete
         /\ Range(NewHead(r)) \subseteq Maps
  <1>1. r.world \in Worlds /\ r.op \in Operations
    BY TurnRequest, Zenon
  <1> DEFINE h == heads[r.world]
  <1>2. /\ h \in Heads /\ Sound(h) /\ ViewOf(h) = expected[r.world]
    BY <1>1, Zenon DEF IInv, Shape, HeadOK, GoodHead
  <1>3. healthy /\ ~(RunCount(h) >= Hard \/ Len(NewHead(r)) > Hard)
    BY Zenon DEF Refused
  <1>4. RunCount(h) < Hard
    BY <1>2, <1>3, RunCountIs, LimitsOrdered
  <1>5. NewHead(r) = Plan(h, Change(r.op))
    BY Zenon DEF NewHead
  <1> HIDE DEF h
  <1>6. Len(Plan(h, Change(r.op))) <= Hard
    <2>1. Len(Plan(h, Change(r.op))) \in Nat
      BY <1>1, <1>2, PlanLength, Zenon
    <2> QED BY <1>3, <1>5, <2>1, LimitsOrdered
  <1>7. /\ NewHead(r) \in Manifests /\ Sound(NewHead(r))
        /\ ViewOf(NewHead(r)) = Overlay(Change(r.op), ViewOf(h))
    BY <1>1, <1>2, <1>5, <1>6, PlanSound, Zenon
  <1>8. Overlay(Change(r.op), ViewOf(h)) \in Complete
    BY <1>1, <1>2, ChangeIs, HeadView, OverlayComplete, Zenon
  <1>9. Range(NewHead(r)) \subseteq Maps
    BY <1>7, ManifestsAre DEF Range
  <1> QED BY <1>1, <1>2, <1>3, <1>4, <1>7, <1>8, <1>9, Zenon DEF h

\* The blocked threads are processes.
LEMMA BlockedIs == Blocked \in SUBSET Processes
  BY ProcessesAre, Zenon DEF Blocked

\* update() that commits a plan and asks for a merge keeps the invariant.
LEMMA UpdateCommitStep ==
  ASSUME IInv, NEW w \in Writers, NEW r, UpdateCommit(w, r)
  PROVE  IInv'
  <1> DEFINE g == NewHead(r)
             world == r.world
             h == [heads EXCEPT ![world] = g]
             c == catalog \cup Range(g)
             e == [expected EXCEPT ![world] = Overlay(Change(r.op), expected[world])]
  <1> USE DEF store, service
  <1>1. /\ Turn(w, r) /\ ~Refused(r) /\ ~Offline(r) /\ ~Full(r)
        /\ tasks' = Fenced(w) /\ writers' = [writers EXCEPT ![w] = IdleWriter] /\ UNCHANGED service
    BY Zenon DEF UpdateCommit
  <1>2. \/ /\ heads' = h /\ catalog' = c /\ expected' = e /\ healthy' = healthy
           /\ queue' = (IF Background /\ Len(g) >= Soft THEN Scheduled({world}) ELSE queue)
           /\ woken' = woken \cup Blocked
        \/ /\ healthy' = FALSE /\ UNCHANGED <<queue, woken>>
           /\ (heads' = h /\ catalog' = c /\ expected' = e) \/ UNCHANGED store
    BY Zenon DEF UpdateCommit, Commits, Poisons
  <1>3. /\ world \in Worlds /\ RunCount(heads[world]) < Hard
        /\ g \in Manifests /\ Sound(g) /\ Range(g) \subseteq Maps
        /\ ViewOf(g) = Overlay(Change(r.op), expected[world])
        /\ Overlay(Change(r.op), expected[world]) \in Complete
    BY <1>1, NewHeadIs, Zenon
  <1> HIDE DEF g, world
  <1>4. Shape /\ Worker \in Processes /\ w \in Processes
    BY ProcessesAre, Zenon DEF IInv
  <1>5. tasks' \in [Processes -> TaskSet] /\ \A q \in Processes : Alike(tasks'[q], tasks[q])
    BY <1>1, <1>4, FencedIs, Zenon DEF Shape
  <1>6. /\ writers' \in [Writers -> WriterSet] /\ writers'[w] = IdleWriter
        /\ \A x \in Writers \ {w} : writers'[x] = writers[x]
    BY <1>1, <1>4, Idle, Zenon DEF Shape
  <1>7. Scheduled({world}) \in Seq(Worlds) /\ Range(Scheduled({world})) = Range(queue) \cup {world}
    BY <1>3, <1>4, ScheduledIs, Zenon DEF Shape
  <1>8. /\ queue' \in Seq(Worlds) /\ Range(queue) \subseteq Range(queue')
        /\ healthy' /\ Background /\ Len(g) >= Soft => world \in Range(queue')
        /\ woken' \in SUBSET Processes /\ healthy' \in BOOLEAN /\ (healthy' => healthy)
    <2>1. /\ queue \in Seq(Worlds) /\ woken \in SUBSET Processes /\ woken \cup Blocked \in SUBSET Processes
          /\ healthy \in BOOLEAN
      BY <1>4, BlockedIs, Zenon DEF Shape
    <2>2. \/ healthy' = healthy /\ queue' = (IF Background /\ Len(g) >= Soft THEN Scheduled({world}) ELSE queue)
          \/ healthy' = FALSE /\ queue' = queue
      BY <1>2, Zenon
    <2>3. /\ queue' \in Seq(Worlds) /\ Range(queue) \subseteq Range(queue')
          /\ healthy' /\ Background /\ Len(g) >= Soft => world \in Range(queue')
      BY <2>1, <2>2, <1>7, Zenon
    <2>4. woken' \in SUBSET Processes
      <3>1. woken' = woken \cup Blocked \/ woken' = woken
        BY <1>2, Zenon
      <3> QED BY <2>1, <3>1, Zenon
    <2>5. healthy' \in BOOLEAN /\ (healthy' => healthy)
      <3>1. CASE healthy' = healthy
        BY <2>1, <3>1, Zenon
      <3>2. CASE healthy' = FALSE
        BY <3>2, Zenon
      <3> QED BY <2>2, <3>1, <3>2, Zenon
    <2> QED BY <2>3, <2>4, <2>5, Zenon
  <1>9. Background' <=> Background
    BY <1>1, Zenon DEF Background
  <1>10. catalog \subseteq catalog' /\ catalog' \in SUBSET Maps
    BY <1>2, <1>3, <1>4 DEF Shape
  <1>11. \A p \in Processes : TaskOK(p)'
    BY <1>5, <1>10, TaskStays, Zenon
  <1>12. WorkerOK'
    BY <1>1, <1>4, <1>5, Zenon DEF WorkerOK, IInv, Alike
  <1>13. WriterOK(w)' /\ ServedOK(w)'
    <2>1. GoodWriter(IdleWriter, heads')
      BY Idle, Zenon DEF GoodWriter
    <2>2. Served(IdleWriter, heads', Range(queue'), worker', tasks'[Worker])
      BY Idle, Zenon DEF Served
    <2> QED BY <1>6, <2>1, <2>2, Zenon DEF WriterOK, ServedOK
  <1>14. CASE heads' = h /\ catalog' = c /\ expected' = e
    <2>1. /\ expected' \in [Worlds -> Complete] /\ expected'[world] = ViewOf(g)
          /\ \A x \in Worlds \ {world} : expected'[x] = expected[x]
      BY <1>3, <1>4, <1>14, Zenon DEF Shape
    <2>2. /\ heads' \in [Worlds -> Heads] /\ heads'[world] = g
          /\ \A x \in Worlds \ {world} : heads'[x] = heads[x]
          /\ \A x \in Worlds : HeadOK(x)'
      BY <1>3, <1>10, <1>14, <2>1, HeadChanges, Zenon
    <2>3. Shape'
      BY <1>1, <1>4, <1>5, <1>6, <1>8, <1>10, <2>1, <2>2 DEF Shape
    <2>4. ASSUME NEW x \in Writers \ {w} PROVE WriterOK(x)' /\ ServedOK(x)'
      <3> DEFINE v == writers[x]
                 at == v.request.world
      <3>1. writers'[x] = v /\ GoodWriter(v, heads)
        BY <1>6, Zenon DEF IInv, WriterOK
      <3> HIDE DEF v
      <3>2. CASE v.pc # "wait"
        <4>1. GoodWriter(v, heads') /\ Served(v, heads', Range(queue'), worker', tasks'[Worker])
          BY <3>1, <3>2, Zenon DEF GoodWriter, Served
        <4> QED BY <3>1, <4>1, Zenon DEF WriterOK, ServedOK
      <3>3. CASE v.pc = "wait"
        <4>1. /\ v.request \in Reqs /\ at \in Worlds /\ v.before \in Heads /\ RunCount(v.before) >= Hard
              /\ heads[at] = v.before \/ v.before # Merged(v.before)
          BY <3>1, <3>3, Zenon DEF GoodWriter, Reqs
        <4>2. CASE at = world
          <5>1. v.before # heads[world]
            BY <4>1, <1>3, RunCountIs, LimitsOrdered
          <5>2. GoodWriter(v, heads')
            BY <3>3, <4>1, <4>2, <5>1, Zenon DEF GoodWriter
          <5>3. ASSUME Background, healthy', g = v.before PROVE world \in Range(queue')
            <6>1. Len(g) >= Soft
              BY <1>3, <4>1, <5>3, ManifestsAre, LimitsOrdered
            <6> QED BY <6>1, <5>3, <1>8, Zenon
          <5>4. Background /\ healthy' => Served(v, heads', Range(queue'), worker', tasks'[Worker])
            BY <4>2, <5>3, <2>2, Zenon DEF Served
          <5> QED BY <3>1, <5>2, <5>4, <1>9, Zenon DEF WriterOK, ServedOK
        <4>3. CASE at # world
          <5>1. heads'[at] = heads[at]
            BY <4>1, <4>3, <2>2, Zenon
          <5>2. GoodWriter(v, heads')
            BY <3>3, <4>1, <5>1, Zenon DEF GoodWriter
          <5>3. Background /\ healthy' => Served(v, heads, Range(queue), worker, tasks[Worker])
            BY <1>8, Zenon DEF IInv, ServedOK, v
          <5>4. Background /\ healthy' => Served(v, heads, Range(queue'), worker, tasks'[Worker])
            BY <5>3, <1>4, <1>5, <1>8, AlikeJobs, Zenon
          <5>5. Background /\ healthy' => Served(v, heads', Range(queue'), worker, tasks'[Worker])
            BY <5>1, <5>4, Zenon DEF Served
          <5> QED BY <3>1, <5>2, <5>5, <1>1, <1>9, Zenon DEF WriterOK, ServedOK
        <4> QED BY <4>2, <4>3, Zenon
      <3> QED BY <3>2, <3>3, Zenon
    <2>5. ASSUME NEW x \in Worlds PROVE FoundOK(x)'
      <3>1. CASE x = world
        <4>1. Background /\ healthy' => Found(world, g, Range(queue'), worker', tasks'[Worker])
          BY <1>3, <1>8, ManifestsAre, Zenon DEF Found
        <4> QED BY <3>1, <4>1, <2>2, <1>9, Zenon DEF FoundOK
      <3>2. CASE x # world
        <4>1. Background /\ healthy' => Found(x, heads[x], Range(queue), worker, tasks[Worker])
          BY <1>8, Zenon DEF IInv, FoundOK
        <4>2. Background /\ healthy' => Found(x, heads[x], Range(queue'), worker, tasks'[Worker])
          BY <4>1, <1>4, <1>5, <1>8, AlikeJobs, Zenon
        <4> QED BY <3>2, <4>2, <2>2, <1>1, <1>9, Zenon DEF FoundOK
      <3> QED BY <3>1, <3>2, Zenon
    <2> QED BY <1>11, <1>12, <1>13, <2>2, <2>3, <2>4, <2>5, Zenon DEF IInv
  <1>15. CASE healthy' = FALSE /\ UNCHANGED store
    <2>1. Shape'
      BY <1>1, <1>4, <1>5, <1>6, <1>8, <1>10, <1>15 DEF Shape
    <2>2. \A x \in Worlds : HeadOK(x)'
      BY <1>15, HeadsStay, Zenon
    <2>3. \A x \in Writers \ {w} : WriterOK(x)'
      BY <1>6, <1>15, WriterStays, Zenon
    <2>4. (\A x \in Writers : ServedOK(x)') /\ (\A x \in Worlds : FoundOK(x)')
      BY <1>15, Zenon DEF ServedOK, FoundOK
    <2> QED BY <1>11, <1>12, <1>13, <2>1, <2>2, <2>3, <2>4 DEF IInv
  <1> QED BY <1>2, <1>14, <1>15, Zenon

-----------------------------------------------------------------------------
(* The compaction task.                                                     *)

\* What the invariant says of a task that is under way.
LEMMA TaskIs ==
  ASSUME IInv, NEW p \in Processes, tasks[p].phase # "none"
  PROVE  /\ tasks[p] \in TaskSet /\ tasks[p].world \in Worlds /\ GoodTask(tasks[p], catalog)
         /\ heads[tasks[p].world] \in Heads /\ Sound(heads[tasks[p].world])
  <1>1. tasks[p] \in TaskSet /\ GoodTask(tasks[p], catalog)
    BY Zenon DEF IInv, Shape, TaskOK
  <1>2. tasks[p].world \in Worlds
    BY <1>1, Zenon DEF GoodTask
  <1> QED BY <1>1, <1>2, Zenon DEF IInv, Shape, HeadOK, GoodHead

\* One task's record changes, nothing else does.
LEMMA TaskAlone ==
  ASSUME IInv, NEW p \in Processes, NEW t \in TaskSet, t.world = tasks[p].world, GoodTask(t, catalog),
         tasks' = [tasks EXCEPT ![p] = t],
         UNCHANGED <<store, healthy, queue, service, writers, woken>>,
         p = Worker /\ Background /\ healthy =>
           /\ \A w \in Writers : Served(writers[w], heads, Range(queue), worker, t)
           /\ \A w \in Worlds : Found(w, heads[w], Range(queue), worker, t)
  PROVE  IInv'
  <1>1. /\ tasks' \in [Processes -> TaskSet] /\ tasks'[p] = t
        /\ \A q \in Processes \ {p} : Alike(tasks'[q], tasks[q])
    BY AlikeSelf, Zenon DEF IInv, Shape
  <1>2. /\ heads' = heads /\ catalog' = catalog /\ expected' = expected
        /\ catalog' \in SUBSET Maps /\ healthy' \in BOOLEAN /\ healthy' = healthy
    BY Zenon DEF IInv, Shape, store
  <1> QED BY <1>1, <1>2, TaskMoves

\* A task that ends and changes nothing else keeps the invariant, whoever waits for it.
LEMMA EndAlone ==
  ASSUME IInv, NEW p \in Processes, tasks[p].phase # "none", NEW end \in {"installed", "stale", "failed"},
         Ends(p, end), UNCHANGED <<store, healthy, queue, service, writers, woken>>,
         p = Worker /\ Background /\ healthy =>
           /\ \A w \in Writers : Served(writers[w], heads, Range(queue), worker, Over(tasks[p], end))
           /\ \A w \in Worlds : Found(w, heads[w], Range(queue), worker, Over(tasks[p], end))
  PROVE  IInv'
  <1> DEFINE t == Over(tasks[p], end)
  <1>1. tasks[p] \in TaskSet /\ tasks[p].world \in Worlds
    BY TaskIs, Zenon
  <1>2. t \in TaskSet /\ t.world = tasks[p].world /\ GoodTask(t, catalog)
    BY <1>1, OverIs, Zenon
  <1>3. tasks' = [tasks EXCEPT ![p] = t]
    BY Zenon DEF Ends
  <1> HIDE DEF t
  <1>4. p = Worker /\ Background /\ healthy =>
           /\ \A w \in Writers : Served(writers[w], heads, Range(queue), worker, t)
           /\ \A w \in Worlds : Found(w, heads[w], Range(queue), worker, t)
    BY Zenon DEF t
  <1> QED BY <1>2, <1>3, <1>4, TaskAlone, Zenon

\* What the two promises say of the worker's job now.
LEMMA JobNow ==
  ASSUME IInv, Background, healthy
  PROVE  /\ \A w \in Writers : Served(writers[w], heads, Range(queue), worker, tasks[Worker])
         /\ \A w \in Worlds : Found(w, heads[w], Range(queue), worker, tasks[Worker])
  BY Zenon DEF IInv, ServedOK, FoundOK

\* A task that goes stale, or ends on a poisoned journal.
LEMMA StaleAlone ==
  ASSUME IInv, NEW p \in Processes, tasks[p].phase # "none", NEW end \in {"stale", "failed"},
         end = "stale" \/ ~healthy,
         Ends(p, end), UNCHANGED <<store, healthy, queue, service, writers, woken>>
  PROVE  IInv'
  <1>1. ASSUME p = Worker, Background, healthy
        PROVE  /\ \A w \in Writers : Served(writers[w], heads, Range(queue), worker, Over(tasks[p], end))
               /\ \A w \in Worlds : Found(w, heads[w], Range(queue), worker, Over(tasks[p], end))
    <2>1. tasks[p] \in TaskSet /\ tasks[p].world \in Worlds
      BY TaskIs, Zenon
    <2>2. Over(tasks[p], end).world = tasks[p].world /\ Over(tasks[p], end).phase \notin {"installed", "failed"}
      BY <1>1, <2>1, OverIs
    <2> QED BY <1>1, <2>2, JobNow, JobGoesOn, Zenon
  <1> QED BY <1>1, EndAlone, Zenon

\* prepare(), which captures the head and merges it, keeps the invariant.
LEMMA PrepareStep ==
  ASSUME IInv, NEW p \in Processes, Prepare(p)
  PROVE  IInv'
  <1> DEFINE world == tasks[p].world
             head == heads[world]
             output == Merged(head)
             t == [tasks[p] EXCEPT !.phase = "built", !.head = head, !.output = output]
  <1>1. tasks[p].phase = "new" /\ UNCHANGED <<store, healthy, queue, service, writers, woken>>
    BY Zenon DEF Prepare
  <1>2. tasks[p] \in TaskSet /\ world \in Worlds /\ head \in Heads /\ Sound(head) /\ GoodTask(tasks[p], catalog)
    BY <1>1, TaskIs, Zenon
  <1>3. Len(output) \in Nat /\ Hard \in Nat
    BY <1>2, MergedLength, LimitsOrdered, Zenon
  <1>4. CASE ~healthy
    <2>1. Ends(p, "failed")
      BY <1>4, Zenon DEF Prepare
    <2> QED BY <1>1, <1>4, <2>1, StaleAlone, Zenon
  <1>5. CASE Len(output) > Hard
    <2>1. Ends(p, "failed")
      BY <1>5, Zenon DEF Prepare
    <2>2. ASSUME p = Worker, Background, healthy
          PROVE  /\ \A w \in Writers : Served(writers[w], heads, Range(queue), worker, Over(tasks[p], "failed"))
                 /\ \A w \in Worlds : Found(w, heads[w], Range(queue), worker, Over(tasks[p], "failed"))
      <3> DEFINE o == Over(tasks[p], "failed")
      <3>1. o.world = world /\ o.phase = "failed"
        BY <1>2, OverIs, Zenon
      <3>2. /\ \A w \in Writers : Served(writers[w], heads, Range(queue), worker, tasks[p])
            /\ \A w \in Worlds : Found(w, heads[w], Range(queue), worker, tasks[p])
        BY <2>2, JobNow, Zenon
      <3> HIDE DEF o
      <3>3. \A w \in Writers : Served(writers[w], heads, Range(queue), worker, o)
        BY <3>1, <3>2, Zenon DEF Served
      <3>4. \A w \in Worlds : Found(w, heads[w], Range(queue), worker, o)
        BY <3>1, <3>2, <1>3, <1>5 DEF Found
      <3> QED BY <3>3, <3>4, Zenon DEF o
    <2> QED BY <1>1, <2>1, <2>2, EndAlone, Zenon
  <1>6. CASE healthy /\ ~(Len(output) > Hard)
    <2>1. tasks' = [tasks EXCEPT ![p] = t]
      BY <1>6, Zenon DEF Prepare
    <2>2. Len(output) <= Hard
      BY <1>3, <1>6
    <2>3. output \in Manifests
      BY <1>2, <2>2, MergedSound
    <2> HIDE DEF head, output, world
    <2>4. t \in TaskSet
      BY <1>2, <2>3, Zenon DEF TaskSet, Phases
    <2>5. t.phase = "built" /\ t.world = world /\ t.head = head /\ t.output = output
      BY <1>2, Zenon DEF TaskSet, world
    <2> HIDE DEF t
    <2>6. GoodTask(t, catalog)
      BY <1>2, <2>3, <2>5 DEF GoodTask, output
    <2>7. ASSUME p = Worker, Background, healthy
          PROVE  /\ \A w \in Writers : Served(writers[w], heads, Range(queue), worker, t)
                 /\ \A w \in Worlds : Found(w, heads[w], Range(queue), worker, t)
      BY <2>5, <2>7, JobNow, JobGoesOn, Zenon DEF world
    <2>8. t.world = tasks[p].world
      BY <2>5, Zenon DEF world
    <2> QED BY <1>1, <2>1, <2>4, <2>6, <2>7, <2>8, TaskAlone, Zenon
  <1> QED BY <1>4, <1>5, <1>6, Zenon

\* The check under the mutex that a captured head is still the head keeps the invariant.
LEMMA InstallCheckStep ==
  ASSUME IInv, NEW p \in Processes, InstallCheck(p)
  PROVE  IInv'
  <1> DEFINE world == tasks[p].world
             head == tasks[p].head
             output == tasks[p].output
  <1>1. tasks[p].phase = "built" /\ UNCHANGED <<store, healthy, queue, service, writers, woken>>
    BY Zenon DEF InstallCheck
  <1>2. tasks[p] \in TaskSet /\ world \in Worlds /\ GoodTask(tasks[p], catalog)
    BY <1>1, TaskIs, Zenon
  <1>3. head \in Heads /\ Sound(head) /\ output = Merged(head) /\ output \in Manifests
    BY <1>1, <1>2, Zenon DEF GoodTask
  <1>4. CASE ~healthy
    <2>1. Ends(p, "failed")
      BY <1>4, Zenon DEF InstallCheck
    <2> QED BY <1>1, <1>4, <2>1, StaleAlone, Zenon
  <1>5. CASE healthy /\ ~Matches(p)
    <2>1. Ends(p, "stale")
      BY <1>5, Zenon DEF InstallCheck
    <2> QED BY <1>1, <2>1, StaleAlone, Zenon
  <1>6. CASE healthy /\ Matches(p) /\ head = output
    <2>1. Ends(p, "installed")
      BY <1>6, Zenon DEF InstallCheck
    <2>2. heads[world] = output
      BY <1>6, Zenon DEF Matches
    <2>3. ASSUME p = Worker, Background, healthy
          PROVE  /\ \A w \in Writers : Served(writers[w], heads, Range(queue), worker, Over(tasks[p], "installed"))
                 /\ \A w \in Worlds : Found(w, heads[w], Range(queue), worker, Over(tasks[p], "installed"))
      <3> DEFINE o == Over(tasks[p], "installed")
      <3>1. o.world = world /\ o.phase = "installed" /\ o.output = output
        BY <1>2, OverIs, Zenon
      <3>2. /\ \A w \in Writers : Served(writers[w], heads, Range(queue), worker, tasks[p])
            /\ \A w \in Worlds : Found(w, heads[w], Range(queue), worker, tasks[p])
        BY <2>3, JobNow, Zenon
      <3> HIDE DEF o
      <3>3. ASSUME NEW w \in Writers PROVE Served(writers[w], heads, Range(queue), worker, o)
        <4> DEFINE v == writers[w]
        <4>1. Served(v, heads, Range(queue), worker, tasks[p]) /\ GoodWriter(v, heads)
          BY <3>2, Zenon DEF IInv, WriterOK
        <4>2. ASSUME v.pc = "wait", v.before = output PROVE Len(output) >= Hard
          <5>1. RunCount(output) >= Hard
            BY <4>1, <4>2, Zenon DEF GoodWriter
          <5> QED BY <5>1, <1>3, ManifestsAre, Zenon
        <4> HIDE DEF v
        <4>3. Served(v, heads, Range(queue), worker, o)
          BY <4>1, <4>2, <3>1, <2>2, Zenon DEF Served
        <4> QED BY <4>3, Zenon DEF v
      <3>4. \A w \in Worlds : Found(w, heads[w], Range(queue), worker, o)
        BY <3>1, <3>2, <2>2, <1>3, <1>6, Zenon DEF Found
      <3> QED BY <3>3, <3>4, Zenon DEF o
    <2> QED BY <1>1, <2>1, <2>3, EndAlone, Zenon
  <1>7. CASE healthy /\ Matches(p) /\ head # output
    <2> DEFINE staged == Len(output) > StageLimit
               t == [tasks[p] EXCEPT !.staged = staged, !.phase = IF staged THEN "stage" ELSE "publish"]
    <2>1. tasks' = [tasks EXCEPT ![p] = t]
      BY <1>7, Zenon DEF InstallCheck
    <2>2. staged \in BOOLEAN
      OBVIOUS
    <2> HIDE DEF staged
    <2>3. t \in TaskSet
      BY <1>2, <2>2, Zenon DEF TaskSet, Phases
    <2>4. /\ t.world = world /\ t.head = head /\ t.output = output
          /\ (t.phase = "stage" /\ staged) \/ (t.phase = "publish" /\ ~staged)
          /\ t.staged = staged
      BY <1>2, <2>2, Zenon DEF TaskSet
    <2> HIDE DEF t
    <2>5. GoodTask(t, catalog)
      BY <1>2, <1>3, <1>7, <2>4 DEF GoodTask
    <2>6. ASSUME p = Worker, Background, healthy
          PROVE  /\ \A w \in Writers : Served(writers[w], heads, Range(queue), worker, t)
                 /\ \A w \in Worlds : Found(w, heads[w], Range(queue), worker, t)
      BY <2>4, <2>6, JobNow, JobGoesOn, Zenon
    <2> QED BY <1>1, <2>1, <2>3, <2>4, <2>5, <2>6, TaskAlone, Zenon
  <1> QED BY <1>4, <1>5, <1>6, <1>7, Zenon

\* What a transaction of a task does to the tasks.
LEMMA MovedIs ==
  ASSUME IInv, NEW p \in Processes, tasks[p].phase # "none", NEW end \in {"installed", "failed"}
  PROVE  /\ Fenced(p) \in [Processes -> TaskSet] /\ Fenced(p)[p] = tasks[p]
         /\ \A q \in Processes : Alike(Fenced(p)[q], tasks[q])
         /\ [Fenced(p) EXCEPT ![p] = Over(@, end)] \in [Processes -> TaskSet]
         /\ [Fenced(p) EXCEPT ![p] = Over(@, end)][p] = Over(tasks[p], end)
         /\ \A q \in Processes \ {p} : Alike([Fenced(p) EXCEPT ![p] = Over(@, end)][q], tasks[q])
  <1>1. Fenced(p) \in [Processes -> TaskSet] /\ \A q \in Processes : Alike(Fenced(p)[q], tasks[q])
    BY FencedIs, Zenon DEF IInv, Shape
  <1>2. Fenced(p)[p] = tasks[p]
    BY Zenon DEF Fenced
  <1>3. Over(tasks[p], end) \in TaskSet
    BY TaskIs, OverIs, Zenon
  <1> QED BY <1>1, <1>2, <1>3, Zenon

\* stage_next(), which stores the next runs of the output, keeps the invariant.
LEMMA StageNextStep ==
  ASSUME IInv, NEW p \in Processes, StageNext(p)
  PROVE  IInv'
  <1> DEFINE batch == {i \in Missing(p) : Rank(Missing(p), i) <= StageLimit}
             c == catalog \cup {tasks[p].output[i] : i \in batch}
  <1> USE DEF store
  <1>1. tasks[p].phase = "stage" /\ UNCHANGED <<queue, service, writers, woken>>
    BY Zenon DEF StageNext
  <1>2. tasks[p] \in TaskSet /\ tasks[p].world \in Worlds /\ GoodTask(tasks[p], catalog)
    BY <1>1, TaskIs, Zenon
  <1>3. CASE ~healthy
    <2>1. Ends(p, "failed") /\ UNCHANGED <<store, healthy>>
      BY <1>3, Zenon DEF StageNext
    <2> QED BY <1>1, <1>3, <2>1, StaleAlone, Zenon
  <1>4. CASE healthy /\ ~Matches(p)
    <2>1. Ends(p, "stale") /\ UNCHANGED <<store, healthy>>
      BY <1>4, Zenon DEF StageNext
    <2> QED BY <1>1, <2>1, StaleAlone, Zenon
  <1>5. CASE healthy /\ Matches(p) /\ Ready(p)
    <2> DEFINE t == [tasks[p] EXCEPT !.phase = "publish"]
    <2>1. tasks' = [tasks EXCEPT ![p] = t] /\ UNCHANGED <<store, healthy>>
      BY <1>5, Zenon DEF StageNext
    <2>2. t \in TaskSet
      BY <1>2, Zenon DEF TaskSet, Phases
    <2>3. /\ t.world = tasks[p].world /\ t.head = tasks[p].head /\ t.output = tasks[p].output
          /\ t.phase = "publish"
      BY <1>2, Zenon DEF TaskSet
    <2> HIDE DEF t
    <2>4. Range(tasks[p].output) \subseteq catalog
      BY <1>5, Zenon DEF Ready, Missing, Range
    <2>5. GoodTask(t, catalog)
      BY <1>1, <1>2, <2>3, <2>4, Zenon DEF GoodTask
    <2>6. ASSUME p = Worker, Background, healthy
          PROVE  /\ \A w \in Writers : Served(writers[w], heads, Range(queue), worker, t)
                 /\ \A w \in Worlds : Found(w, heads[w], Range(queue), worker, t)
      BY <2>3, <2>6, JobNow, JobGoesOn, Zenon
    <2> QED BY <1>1, <2>1, <2>2, <2>3, <2>5, <2>6, TaskAlone, Zenon
  <1>6. CASE healthy /\ Matches(p) /\ ~Ready(p)
    <2>1. \/ Commits(heads, c, expected) /\ tasks' = Fenced(p)
          \/ Poisons(heads, c, expected) /\ tasks' = [Fenced(p) EXCEPT ![p] = Over(@, "failed")]
      BY <1>6, Zenon DEF StageNext
    <2>2. c \in SUBSET Maps /\ catalog \in SUBSET Maps
      <3>1. tasks[p].output \in Manifests
        BY <1>1, <1>2, Zenon DEF GoodTask
      <3>2. \A i \in DOMAIN tasks[p].output : tasks[p].output[i] \in Maps
        BY <3>1, ManifestsAre
      <3>3. catalog \in SUBSET Maps
        BY Zenon DEF IInv, Shape
      <3> QED BY <3>2, <3>3, Zenon DEF Missing
    <2> HIDE DEF c
    <2>3. heads' = heads /\ expected' = expected /\ (catalog' = c \/ catalog' = catalog)
      BY <2>1, Zenon DEF Commits, Poisons
    <2>4. catalog \subseteq catalog' /\ catalog' \in SUBSET Maps
      BY <2>2, <2>3, Zenon DEF c
    <2>5. CASE Commits(heads, c, expected) /\ tasks' = Fenced(p)
      <3>1. healthy' = healthy /\ healthy' \in BOOLEAN
        BY <2>5, Zenon DEF Commits, IInv, Shape
      <3>2. /\ tasks' \in [Processes -> TaskSet] /\ tasks'[p] = tasks[p]
            /\ \A q \in Processes \ {p} : Alike(tasks'[q], tasks[q])
        BY <1>1, <2>5, MovedIs, Zenon
      <3>3. GoodTask(tasks[p], catalog')
        BY <1>2, <2>4, AlikeSelf, AlikeTasks, Zenon
      <3>4. ASSUME p = Worker, Background, healthy'
            PROVE  /\ \A w \in Writers : Served(writers[w], heads, Range(queue), worker, tasks[p])
                   /\ \A w \in Worlds : Found(w, heads[w], Range(queue), worker, tasks[p])
        BY <3>1, <3>4, JobNow, Zenon
      <3> QED BY <1>1, <1>2, <2>3, <2>4, <3>1, <3>2, <3>3, <3>4, TaskMoves, Zenon
    <2>6. CASE Poisons(heads, c, expected) /\ tasks' = [Fenced(p) EXCEPT ![p] = Over(@, "failed")]
      <3> DEFINE t == Over(tasks[p], "failed")
      <3>1. healthy' = FALSE
        BY <2>6, Zenon DEF Poisons
      <3>2. /\ tasks' \in [Processes -> TaskSet] /\ tasks'[p] = t
            /\ \A q \in Processes \ {p} : Alike(tasks'[q], tasks[q])
        BY <1>1, <2>6, MovedIs, Zenon
      <3>3. t \in TaskSet /\ t.world = tasks[p].world /\ GoodTask(t, catalog')
        BY <1>2, OverIs, Zenon
      <3> HIDE DEF t
      <3> QED BY <1>1, <2>3, <2>4, <3>1, <3>2, <3>3, TaskMoves, Zenon
    <2> QED BY <2>1, <2>5, <2>6, Zenon
  <1> QED BY <1>3, <1>4, <1>5, <1>6, Zenon

\* The head is switched to the merge, or may have been when the write failed.
LEMMA HeadSwitched ==
  ASSUME IInv, NEW p \in Processes, tasks[p].phase = "publish", Matches(p),
         tasks[p].staged => Ready(p), NEW end \in {"installed", "failed"},
         heads' = [heads EXCEPT ![tasks[p].world] = tasks[p].output], expected' = expected,
         catalog' = (IF tasks[p].staged THEN catalog ELSE catalog \cup Range(tasks[p].output)),
         tasks' = [Fenced(p) EXCEPT ![p] = Over(@, end)],
         healthy' \in BOOLEAN, healthy' => healthy, woken' \in SUBSET Processes,
         UNCHANGED <<queue, service, writers>>
  PROVE  IInv'
  <1> DEFINE world == tasks[p].world
             head == tasks[p].head
             output == tasks[p].output
  <1> USE DEF service
  <1>1. world \in Worlds /\ GoodTask(tasks[p], catalog) /\ tasks[p] \in TaskSet
    BY TaskIs, Zenon
  <1>2. /\ head \in Heads /\ Sound(head) /\ output = Merged(head) /\ output \in Manifests /\ head # output
        /\ heads[world] = head
    BY <1>1, Zenon DEF GoodTask, Matches
  <1>3. Len(output) <= Hard
    BY <1>2, ManifestsAre, LimitsOrdered
  <1>4. Sound(output) /\ ViewOf(output) = ViewOf(head) /\ Merged(output) = output
    BY <1>2, <1>3, MergedSound, Zenon
  <1>5. Range(output) \subseteq Maps
    BY <1>2, ManifestsAre DEF Range
  <1>6. tasks[p].staged => Range(output) \subseteq catalog
    BY Zenon DEF Ready, Missing, Range
  <1>7. Shape /\ Worker \in Processes /\ (Background' <=> Background)
    BY ProcessesAre, Zenon DEF IInv, Background
  <1> HIDE DEF world, head, output
  <1>8. heads' = [heads EXCEPT ![world] = output]
    BY Zenon DEF world, output
  <1>9. catalog \subseteq catalog' /\ catalog' \in SUBSET Maps /\ Range(output) \subseteq catalog'
    <2>1. catalog' = (IF tasks[p].staged THEN catalog ELSE catalog \cup Range(output))
      BY Zenon DEF output
    <2>2. catalog \in SUBSET Maps
      BY <1>7, Zenon DEF Shape
    <2>3. CASE tasks[p].staged
      BY <2>1, <2>2, <2>3, <1>6, Zenon
    <2>4. CASE ~tasks[p].staged
      BY <2>1, <2>2, <2>4, <1>5, Zenon
    <2> QED BY <2>3, <2>4, Zenon
  <1>10. /\ expected' \in [Worlds -> Complete] /\ expected'[world] = ViewOf(output)
         /\ \A x \in Worlds \ {world} : expected'[x] = expected[x]
    <2>1. ViewOf(heads[world]) = expected[world]
      BY <1>1, Zenon DEF IInv, HeadOK, GoodHead
    <2> QED BY <2>1, <1>2, <1>4, <1>7, Zenon DEF Shape
  <1>11. /\ heads' \in [Worlds -> Heads] /\ heads'[world] = output
         /\ \A x \in Worlds \ {world} : heads'[x] = heads[x]
         /\ \A x \in Worlds : HeadOK(x)'
    BY <1>1, <1>2, <1>4, <1>8, <1>9, <1>10, HeadChanges, Zenon
  <1>12. /\ tasks' \in [Processes -> TaskSet] /\ tasks'[p] = Over(tasks[p], end)
         /\ \A q \in Processes \ {p} : Alike(tasks'[q], tasks[q])
    BY MovedIs, Zenon
  <1>13. Over(tasks[p], end).world = world /\ GoodTask(Over(tasks[p], end), catalog')
    BY <1>1, OverIs DEF world
  <1>14. \A q \in Processes : TaskOK(q)'
    <2> SUFFICES ASSUME NEW q \in Processes PROVE TaskOK(q)'
      BY Zenon
    <2>1. CASE q = p
      BY <2>1, <1>12, <1>13, Zenon DEF TaskOK
    <2>2. CASE q # p
      BY <2>2, <1>9, <1>12, TaskStays, Zenon
    <2> QED BY <2>1, <2>2, Zenon
  <1>15. Shape'
    BY <1>7, <1>9, <1>10, <1>11, <1>12, Zenon DEF Shape
  <1>16. WorkerOK'
    <2>1. tasks'[Worker].world = tasks[Worker].world
      BY <1>7, <1>12, <1>13, Zenon DEF Alike, world
    <2> QED BY <2>1, Zenon DEF WorkerOK, IInv
  \* The promises about other Worlds do not rest on this task.
  <1>17. ASSUME Background, healthy'
         PROVE  /\ \A v : v.request.world # world /\ Served(v, heads, Range(queue), worker, tasks[Worker])
                          => Served(v, heads, Range(queue), worker, tasks'[Worker])
                /\ \A x, h : x # world /\ Found(x, h, Range(queue), worker, tasks[Worker])
                             => Found(x, h, Range(queue), worker, tasks'[Worker])
    <2>1. CASE p = Worker
      <3>1. tasks[Worker].world = world
        BY <2>1, Zenon DEF world
      <3> QED BY <3>1, Zenon DEF Served, Found
    <2>2. CASE p # Worker
      <3>1. Alike(tasks'[Worker], tasks[Worker])
        BY <2>2, <1>7, <1>12, Zenon
      <3> QED BY <3>1, AlikeJobs, Zenon
    <2> QED BY <2>1, <2>2, Zenon
  <1>18. ASSUME NEW x \in Writers PROVE WriterOK(x)' /\ ServedOK(x)'
    <2> DEFINE v == writers[x]
               at == v.request.world
    <2>1. writers'[x] = v /\ GoodWriter(v, heads)
      BY Zenon DEF IInv, WriterOK
    <2>2. Background /\ healthy' => Served(v, heads, Range(queue), worker, tasks[Worker])
      BY JobNow, Zenon
    <2> HIDE DEF v
    <2>3. CASE v.pc # "wait"
      <3>1. GoodWriter(v, heads') /\ Served(v, heads', Range(queue'), worker', tasks'[Worker])
        BY <2>1, <2>3, Zenon DEF GoodWriter, Served
      <3> QED BY <2>1, <3>1, Zenon DEF WriterOK, ServedOK
    <2>4. CASE v.pc = "wait"
      <3>1. /\ v.request \in Reqs /\ at \in Worlds /\ v.before \in Heads /\ RunCount(v.before) >= Hard
            /\ heads[at] = v.before \/ v.before # Merged(v.before)
        BY <2>1, <2>4, Zenon DEF GoodWriter, Reqs
      <3>2. CASE at = world
        <4>1. v.before # Merged(v.before)
          BY <3>1, <3>2, <1>2, Zenon
        <4>2. v.before # output
          BY <4>1, <1>4, Zenon
        <4>3. GoodWriter(v, heads') /\ Served(v, heads', Range(queue'), worker', tasks'[Worker])
          BY <2>4, <3>1, <3>2, <4>1, <4>2, <1>11, Zenon DEF GoodWriter, Served
        <4> QED BY <2>1, <4>3, Zenon DEF WriterOK, ServedOK
      <3>3. CASE at # world
        <4>1. heads'[at] = heads[at]
          BY <3>1, <3>3, <1>11, Zenon
        <4>2. GoodWriter(v, heads')
          BY <2>4, <3>1, <4>1, Zenon DEF GoodWriter
        <4>3. Background /\ healthy' => Served(v, heads, Range(queue), worker, tasks'[Worker])
          BY <2>2, <3>3, <1>17, Zenon
        <4>4. Background /\ healthy' => Served(v, heads', Range(queue), worker, tasks'[Worker])
          BY <4>1, <4>3, Zenon DEF Served
        <4> QED BY <2>1, <4>2, <4>4, <1>7, Zenon DEF WriterOK, ServedOK
      <3> QED BY <3>2, <3>3, Zenon
    <2> QED BY <2>3, <2>4, Zenon
  <1>19. ASSUME NEW x \in Worlds PROVE FoundOK(x)'
    <2>1. CASE x = world
      <3>1. Found(world, output, Range(queue'), worker', tasks'[Worker])
        BY <1>4, Zenon DEF Found
      <3> QED BY <2>1, <3>1, <1>11, Zenon DEF FoundOK
    <2>2. CASE x # world
      <3>1. Background /\ healthy' => Found(x, heads[x], Range(queue), worker, tasks[Worker])
        BY JobNow, Zenon
      <3>2. Background /\ healthy' => Found(x, heads[x], Range(queue), worker, tasks'[Worker])
        BY <2>2, <3>1, <1>17, Zenon
      <3> QED BY <2>2, <3>2, <1>7, <1>11, Zenon DEF FoundOK
    <2> QED BY <2>1, <2>2, Zenon
  <1> QED BY <1>11, <1>14, <1>15, <1>16, <1>18, <1>19, Zenon DEF IInv

\* publish(), which switches the World to the merged runs, keeps the invariant.
LEMMA PublishStep ==
  ASSUME IInv, NEW p \in Processes, Publish(p)
  PROVE  IInv'
  <1> DEFINE world == tasks[p].world
             output == tasks[p].output
             h == [heads EXCEPT ![world] = output]
             c == IF tasks[p].staged THEN catalog ELSE catalog \cup Range(output)
  <1> USE DEF store
  <1>1. tasks[p].phase = "publish" /\ UNCHANGED <<queue, service, writers>>
    BY Zenon DEF Publish
  <1>2. tasks[p] \in TaskSet /\ tasks[p].world \in Worlds /\ GoodTask(tasks[p], catalog)
    BY <1>1, TaskIs, Zenon
  <1>3. tasks[p].staged => Ready(p)
    BY <1>1, <1>2, Zenon DEF GoodTask, Ready, Missing, Range
  <1>4. CASE ~healthy
    <2>1. Ends(p, "failed") /\ UNCHANGED <<store, healthy, woken>>
      BY <1>4, Zenon DEF Publish
    <2> QED BY <1>1, <1>4, <2>1, StaleAlone, Zenon
  <1>5. CASE healthy /\ ~Matches(p)
    <2>1. Ends(p, "stale") /\ UNCHANGED <<store, healthy, woken>>
      BY <1>5, Zenon DEF Publish
    <2> QED BY <1>1, <2>1, StaleAlone, Zenon
  <1>6. CASE healthy /\ Matches(p)
    <2>1. \/ /\ Commits(h, c, expected) /\ woken' = woken \cup Blocked
             /\ tasks' = [Fenced(p) EXCEPT ![p] = Over(@, "installed")]
          \/ /\ Poisons(h, c, expected) /\ woken' = woken
             /\ tasks' = [Fenced(p) EXCEPT ![p] = Over(@, "failed")]
      BY <1>3, <1>6, Zenon DEF Publish
    <2>2. woken \in SUBSET Processes /\ healthy \in BOOLEAN /\ catalog \in SUBSET Maps
      BY Zenon DEF IInv, Shape
    <2>3. CASE /\ Commits(h, c, expected) /\ woken' = woken \cup Blocked
               /\ tasks' = [Fenced(p) EXCEPT ![p] = Over(@, "installed")]
      <3>1. heads' = h /\ catalog' = c /\ expected' = expected /\ healthy' = healthy
        BY <2>3, Zenon DEF Commits
      <3>2. woken' \in SUBSET Processes /\ healthy' \in BOOLEAN
        BY <2>2, <2>3, <3>1, BlockedIs, Zenon
      <3> QED BY <1>1, <1>3, <1>6, <2>3, <3>1, <3>2, HeadSwitched, Zenon
    <2>4. CASE /\ Poisons(h, c, expected) /\ woken' = woken
               /\ tasks' = [Fenced(p) EXCEPT ![p] = Over(@, "failed")]
      <3>1. healthy' = FALSE /\ woken' \in SUBSET Processes
        BY <2>2, <2>4, Zenon DEF Poisons
      <3>2. CASE heads' = h /\ catalog' = c /\ expected' = expected
        BY <1>1, <1>3, <1>6, <2>4, <3>1, <3>2, HeadSwitched, Zenon
      <3>3. CASE UNCHANGED store
        <4> DEFINE t == Over(tasks[p], "failed")
        <4>1. /\ tasks' \in [Processes -> TaskSet] /\ tasks'[p] = t
              /\ \A q \in Processes \ {p} : Alike(tasks'[q], tasks[q])
          BY <1>1, <2>4, MovedIs, Zenon
        <4>2. t \in TaskSet /\ t.world = tasks[p].world /\ GoodTask(t, catalog')
          BY <1>2, OverIs, Zenon
        <4> HIDE DEF t
        <4> QED BY <1>1, <2>2, <2>4, <3>1, <3>3, <4>1, <4>2, TaskMoves, Zenon
      <3> QED BY <2>4, <3>2, <3>3, Zenon DEF Poisons
    <2> QED BY <2>1, <2>3, <2>4, Zenon
  <1> QED BY <1>4, <1>5, <1>6, Zenon

-----------------------------------------------------------------------------
(* The worker and the rest of the process.                                  *)

\* Steps that keep the store, the tasks and the writers.
LEMMA ServiceMoves ==
  ASSUME IInv, UNCHANGED <<store, healthy, tasks, writers>>,
         running' \in BOOLEAN, stop' \in BOOLEAN, queue' \in Seq(Worlds),
         worker' \in {"off", "wait", "task", "backoff", "exited"}, woken' \in SUBSET Processes,
         worker' = "task" => worker = "task",
         Background' /\ healthy =>
           /\ \A w \in Writers : Served(writers[w], heads, Range(queue'), worker', tasks[Worker])
           /\ \A w \in Worlds : Found(w, heads[w], Range(queue'), worker', tasks[Worker])
  PROVE  IInv'
  <1> USE DEF store
  <1>1. Shape'
    BY Zenon DEF IInv, Shape
  <1>2. (\A x \in Worlds : HeadOK(x)') /\ (\A p \in Processes : TaskOK(p)') /\ (\A w \in Writers : WriterOK(w)')
    BY HeadsStay, TaskStays, WriterStays, AlikeSelf, Zenon
  <1>3. WorkerOK'
    BY Zenon DEF IInv, WorkerOK
  <1>4. (\A w \in Writers : ServedOK(w)') /\ (\A w \in Worlds : FoundOK(w)')
    BY Zenon DEF ServedOK, FoundOK
  <1> QED BY <1>1, <1>2, <1>3, <1>4, Zenon DEF IInv

\* start_compaction(), which finds the Worlds that are due, keeps the invariant.
LEMMA StartCompactionStep ==
  ASSUME IInv, StartCompaction
  PROVE  IInv'
  <1>1. /\ running' = TRUE /\ stop' = FALSE /\ worker' = "wait" /\ queue' = Scheduled(Due)
        /\ woken' = woken \cup Blocked \cup {Worker} /\ UNCHANGED <<store, healthy, tasks, writers>>
    BY Zenon DEF StartCompaction
  <1>2. queue' \in Seq(Worlds) /\ Range(queue') = Range(queue) \cup Due
    BY <1>1, ScheduledIs, Zenon DEF IInv, Shape, Due
  <1>3. woken' \in SUBSET Processes
    BY <1>1, BlockedIs, ProcessesAre, Zenon DEF IInv, Shape
  <1>4. ASSUME NEW w \in Writers PROVE Served(writers[w], heads, Range(queue'), worker', tasks[Worker])
    <2> DEFINE v == writers[w]
               world == v.request.world
    <2>1. GoodWriter(v, heads)
      BY Zenon DEF IInv, WriterOK
    <2> HIDE DEF v
    <2>2. ASSUME v.pc = "wait", heads[world] = v.before PROVE world \in Due
      <3>1. v.request \in Reqs /\ v.before \in Heads /\ RunCount(v.before) >= Hard
        BY <2>1, <2>2, Zenon DEF GoodWriter
      <3>2. world \in Worlds
        BY <3>1, Zenon DEF Reqs
      <3>3. RunCount(heads[world]) >= Soft
        BY <2>2, <3>1, RunCountIs, LimitsOrdered
      <3> QED BY <3>2, <3>3, Zenon DEF Due
    <2>3. Served(v, heads, Range(queue'), worker', tasks[Worker])
      BY <1>2, <2>2, Zenon DEF Served
    <2> QED BY <2>3, Zenon DEF v
  <1>5. \A w \in Worlds : Found(w, heads[w], Range(queue'), worker', tasks[Worker])
    BY <1>2, Zenon DEF Found, Due
  <1> QED BY <1>1, <1>2, <1>3, <1>4, <1>5, ServiceMoves, Zenon

\* The request that the worker stop keeps the invariant.
LEMMA StopRequestStep ==
  ASSUME IInv, StopRequest
  PROVE  IInv'
  <1>1. /\ stop' = TRUE /\ woken' = woken \cup Blocked
        /\ UNCHANGED <<store, healthy, running, queue, worker, tasks, writers>>
    BY Zenon DEF StopRequest
  <1>2. /\ running' \in BOOLEAN /\ queue' \in Seq(Worlds) /\ woken' \in SUBSET Processes
        /\ worker' \in {"off", "wait", "task", "backoff", "exited"} /\ ~Background'
    BY <1>1, BlockedIs, Zenon DEF IInv, Shape, Background
  <1> QED BY <1>1, <1>2, ServiceMoves, Zenon

\* The end of the worker thread keeps the invariant.
LEMMA StopJoinedStep ==
  ASSUME IInv, StopJoined
  PROVE  IInv'
  <1>1. /\ running' = FALSE /\ worker' = "off" /\ queue' = << >> /\ woken' = woken \cup Blocked
        /\ UNCHANGED <<store, healthy, stop, tasks, writers>>
    BY Zenon DEF StopJoined
  <1>2. /\ stop' \in BOOLEAN /\ queue' \in Seq(Worlds) /\ woken' \in SUBSET Processes /\ ~Background'
    BY <1>1, BlockedIs DEF IInv, Shape, Background
  <1> QED BY <1>1, <1>2, ServiceMoves, Zenon

\* The end of the worker's pause keeps the invariant.
LEMMA WorkerBackoffStep ==
  ASSUME IInv, WorkerBackoff
  PROVE  IInv'
  <1>1. /\ worker = "backoff" /\ worker' = "wait" /\ woken' = woken \cup {Worker}
        /\ UNCHANGED <<store, healthy, queue, running, stop, tasks, writers>>
    BY Zenon DEF WorkerBackoff
  <1>2. /\ running' \in BOOLEAN /\ stop' \in BOOLEAN /\ queue' \in Seq(Worlds) /\ woken' \in SUBSET Processes
    BY <1>1, ProcessesAre, Zenon DEF IInv, Shape
  <1>3. Background' <=> Background
    BY <1>1, Zenon DEF Background
  <1>4. ASSUME Background', healthy
        PROVE  /\ \A w \in Writers : Served(writers[w], heads, Range(queue'), worker', tasks[Worker])
               /\ \A w \in Worlds : Found(w, heads[w], Range(queue'), worker', tasks[Worker])
    <2>1. /\ \A w \in Writers : Served(writers[w], heads, Range(queue), worker, tasks[Worker])
          /\ \A w \in Worlds : Found(w, heads[w], Range(queue), worker, tasks[Worker])
      BY <1>3, <1>4, JobNow, Zenon
    <2> QED BY <1>1, <2>1, Zenon DEF Served, Found
  <1> QED BY <1>1, <1>2, <1>4, ServiceMoves

\* A transaction of another kind, which fences flat captures, keeps the invariant.
LEMMA OtherTransactStep ==
  ASSUME IInv, OtherTransact
  PROVE  IInv'
  <1> USE DEF store, service
  <1>1. tasks' = Fenced(None) /\ UNCHANGED <<store, healthy, queue, service, writers, woken>>
    BY Zenon DEF OtherTransact
  <1>2. tasks' \in [Processes -> TaskSet] /\ \A q \in Processes : Alike(tasks'[q], tasks[q])
    BY <1>1, FencedIs, Zenon DEF IInv, Shape
  <1>3. Shape' /\ Worker \in Processes /\ (Background' <=> Background)
    BY <1>1, <1>2, ProcessesAre, Zenon DEF IInv, Shape, Background
  <1>4. (\A x \in Worlds : HeadOK(x)') /\ (\A p \in Processes : TaskOK(p)')
    BY <1>1, <1>2, HeadsStay, TaskStays, Zenon
  <1>5. \A w \in Writers : WriterOK(w)' /\ ServedOK(w)'
    BY <1>1, <1>2, <1>3, WriterStays, ServedStays, Zenon
  <1>6. \A w \in Worlds : FoundOK(w)'
    BY <1>1, <1>2, <1>3, FoundStays, Zenon
  <1>7. WorkerOK'
    BY <1>1, <1>2, <1>3, Zenon DEF IInv, WorkerOK, Alike
  <1> QED BY <1>3, <1>4, <1>5, <1>6, <1>7, Zenon DEF IInv

\* Everything is idle after a restart and at first.
LEMMA RestartStep ==
  ASSUME IInv, Restart
  PROVE  IInv'
  <1> USE DEF store
  <1>1. /\ UNCHANGED store /\ healthy' = TRUE /\ running' = FALSE /\ stop' = FALSE /\ queue' = << >>
        /\ worker' = "off" /\ tasks' = [p \in Processes |-> NoTask]
        /\ writers' = [w \in Writers |-> IdleWriter] /\ woken' = {}
    BY Zenon DEF Restart, Volatile
  <1>2. Shape' /\ ~Background'
    <2>1. tasks' \in [Processes -> TaskSet] /\ writers' \in [Writers -> WriterSet]
      BY <1>1, NoTaskIs, Idle
    <2>2. queue' \in Seq(Worlds) /\ woken' \in SUBSET Processes /\ healthy' \in BOOLEAN
      BY <1>1
    <2> QED BY <1>1, <2>1, <2>2, Zenon DEF IInv, Shape, Background
  <1>3. \A x \in Worlds : HeadOK(x)'
    BY <1>1, HeadsStay, Zenon
  <1>4. \A p \in Processes : TaskOK(p)'
    BY <1>1, NoTaskIs, Zenon DEF TaskOK
  <1>5. \A w \in Writers : WriterOK(w)'
    <2>1. GoodWriter(IdleWriter, heads')
      BY Idle, Zenon DEF GoodWriter
    <2> QED BY <1>1, <2>1, Zenon DEF WriterOK
  <1>6. WorkerOK' /\ (\A w \in Writers : ServedOK(w)') /\ (\A w \in Worlds : FoundOK(w)')
    BY <1>1, <1>2, Zenon DEF WorkerOK, ServedOK, FoundOK
  <1> QED BY <1>2, <1>3, <1>4, <1>5, <1>6, Zenon DEF IInv

\* The worker that takes a World from the queue keeps the invariant.
LEMMA WorkerWakeStep ==
  ASSUME IInv, WorkerWake
  PROVE  IInv'
  <1>1. /\ worker = "wait" /\ woken' = woken \ {Worker}
        /\ UNCHANGED <<store, healthy, running, stop, writers>>
    BY Zenon DEF WorkerWake
  <1>2. /\ running' \in BOOLEAN /\ stop' \in BOOLEAN /\ woken' \in SUBSET Processes /\ queue \in Seq(Worlds)
        /\ Shape /\ Worker \in Processes /\ (Background' <=> Background)
    BY <1>1, ProcessesAre, Zenon DEF IInv, Shape, Background
  <1>3. ASSUME Background, healthy
        PROVE  /\ \A w \in Writers : Served(writers[w], heads, Range(queue), worker, tasks[Worker])
               /\ \A w \in Worlds : Found(w, heads[w], Range(queue), worker, tasks[Worker])
    BY <1>3, JobNow, Zenon
  <1>4. CASE stop
    <2>1. worker' = "exited" /\ UNCHANGED <<queue, tasks>>
      BY <1>4, Zenon DEF WorkerWake
    <2>2. ~Background'
      BY <1>4, <1>2, Zenon DEF Background
    <2> QED BY <1>1, <1>2, <2>1, <2>2, ServiceMoves, Zenon
  <1>5. CASE ~stop /\ queue = << >>
    <2>1. UNCHANGED <<worker, queue, tasks>>
      BY <1>5, Zenon DEF WorkerWake
    <2>2. worker' \in {"off", "wait", "task", "backoff", "exited"} /\ worker' = worker /\ queue' = queue
      BY <1>1, <2>1, Zenon
    <2> QED BY <1>1, <1>2, <1>3, <2>1, <2>2, ServiceMoves, Zenon
  <1>6. CASE ~stop /\ queue # << >>
    <2> DEFINE world == Head(queue)
               t == Begun(world)
    <2> USE DEF store
    <2>1. worker' = "task" /\ queue' = Tail(queue) /\ tasks' = [tasks EXCEPT ![Worker] = t]
      BY <1>6, Zenon DEF WorkerWake, Begun
    <2>2. queue' \in Seq(Worlds) /\ world \in Worlds /\ Range(queue) = {world} \cup Range(queue')
      BY <1>2, <1>6, <2>1, TailIs, Zenon
    <2>3. t \in TaskSet /\ t.phase = "new" /\ t.world = world /\ GoodTask(t, catalog)
      BY <2>2, BegunIs, Zenon
    <2> HIDE DEF world, t
    <2>4. /\ tasks' \in [Processes -> TaskSet] /\ tasks'[Worker] = t
          /\ \A p \in Processes \ {Worker} : tasks'[p] = tasks[p]
      BY <1>2, <2>1, <2>3, Zenon DEF Shape
    <2>5. Shape'
      BY <1>1, <1>2, <2>1, <2>2, <2>4, Zenon DEF Shape
    <2>6. \A x \in Worlds : HeadOK(x)'
      BY <1>1, HeadsStay, Zenon
    <2>7. \A p \in Processes : TaskOK(p)'
      <3> SUFFICES ASSUME NEW p \in Processes PROVE TaskOK(p)'
        BY Zenon
      <3>1. CASE p = Worker
        BY <3>1, <2>3, <2>4, <1>1, Zenon DEF TaskOK
      <3>2. CASE p # Worker
        BY <3>2, <2>4, <1>1, TaskStays, AlikeSelf, Zenon
      <3> QED BY <3>1, <3>2, Zenon
    <2>8. \A w \in Writers : WriterOK(w)'
      BY <1>1, WriterStays, Zenon
    <2>9. WorkerOK'
      BY <2>2, <2>3, <2>4, Zenon DEF WorkerOK
    <2>10. ASSUME Background, healthy
           PROVE  /\ \A w \in Writers : Served(writers[w], heads, Range(queue'), "task", t)
                  /\ \A w \in Worlds : Found(w, heads[w], Range(queue'), "task", t)
      BY <1>1, <1>3, <2>2, <2>3, <2>10, Zenon DEF Served, Found
    <2>11. (\A w \in Writers : ServedOK(w)') /\ (\A w \in Worlds : FoundOK(w)')
      BY <1>1, <1>2, <2>1, <2>4, <2>10, Zenon DEF ServedOK, FoundOK
    <2> QED BY <2>5, <2>6, <2>7, <2>8, <2>9, <2>11, Zenon DEF IInv
  <1> QED BY <1>4, <1>5, <1>6, Zenon

\* A failed job tells its waiters, a stale one is queued again.
LEMMA WorkerFinishStep ==
  ASSUME IInv, WorkerFinish
  PROVE  IInv'
  <1> DEFINE task == tasks[Worker]
             told(w) == JobFailed(task) /\ writers[w].pc = "wait" /\ writers[w].request.world = task.world
  <1> USE DEF store
  <1>1. /\ worker = "task" /\ task.phase \in {"installed", "stale", "failed"}
        /\ writers' = [w \in Writers |-> IF told(w) THEN [writers[w] EXCEPT !.failed = TRUE] ELSE writers[w]]
        /\ queue' = Requeue(task) /\ tasks' = [tasks EXCEPT ![Worker] = NoTask]
        /\ worker' \in {"backoff", "wait"}
        /\ woken' = woken \cup Blocked \cup (IF worker' = "wait" THEN {Worker} ELSE {})
        /\ UNCHANGED <<store, healthy, running, stop>>
    BY Zenon DEF WorkerFinish
  <1>2. Shape /\ Worker \in Processes /\ (Background' <=> Background) /\ task.world \in Worlds
    BY <1>1, ProcessesAre, Zenon DEF IInv, Background, WorkerOK
  <1>3. woken' \in SUBSET Processes
    <2>1. woken \in SUBSET Processes /\ Blocked \in SUBSET Processes
      BY <1>2, BlockedIs, Zenon DEF Shape
    <2> QED BY <1>1, <1>2, <2>1, Zenon
  <1>4. /\ queue' \in Seq(Worlds) /\ Range(queue) \subseteq Range(queue')
        /\ Background /\ task.phase = "stale" => task.world \in Range(queue')
    <2>1. queue \in Seq(Worlds)
      BY <1>2, Zenon DEF Shape
    <2>2. Scheduled({task.world}) \in Seq(Worlds) /\ Range(Scheduled({task.world})) = Range(queue) \cup {task.world}
      BY <1>2, <2>1, ScheduledIs
    <2> QED BY <1>1, <2>1, <2>2, Zenon DEF Requeue
  <1>5. /\ tasks' \in [Processes -> TaskSet] /\ tasks'[Worker] = NoTask
        /\ \A p \in Processes \ {Worker} : tasks'[p] = tasks[p]
    BY <1>1, <1>2, NoTaskIs, Zenon DEF Shape
  <1> HIDE DEF task
  <1>6. ASSUME NEW w \in Writers
        PROVE  /\ writers'[w] \in WriterSet
               /\ writers'[w].pc = writers[w].pc /\ writers'[w].request = writers[w].request
               /\ writers'[w].before = writers[w].before
               /\ told(w) => writers'[w].failed = TRUE
               /\ ~told(w) => writers'[w].failed = writers[w].failed
    <2>1. writers[w] \in WriterSet /\ writers'[w] = IF told(w) THEN [writers[w] EXCEPT !.failed = TRUE] ELSE writers[w]
      BY <1>1, <1>2, Zenon DEF Shape
    <2> HIDE DEF told
    <2>2. CASE told(w)
      BY <2>1, <2>2, Zenon DEF WriterSet
    <2>3. CASE ~told(w)
      BY <2>1, <2>3, Zenon
    <2> QED BY <2>2, <2>3, Zenon
  <1>7. writers' \in [Writers -> WriterSet]
    <2> HIDE DEF told
    <2>1. \A w \in Writers : writers'[w] \in WriterSet
      BY <1>6, Zenon
    <2>2. writers' = [w \in Writers |-> writers'[w]]
      BY <1>1, Zenon
    <2> QED BY <2>1, <2>2
  <1>8. Shape'
    BY <1>1, <1>2, <1>3, <1>4, <1>5, <1>7 DEF Shape
  <1>9. \A x \in Worlds : HeadOK(x)'
    BY <1>1, HeadsStay
  <1>10. \A p \in Processes : TaskOK(p)'
    <2> SUFFICES ASSUME NEW p \in Processes PROVE TaskOK(p)'
      BY Zenon
    <2>1. CASE p = Worker
      BY <2>1, <1>5, NoTaskIs, Zenon DEF TaskOK
    <2>2. CASE p # Worker
      BY <2>2, <1>5, <1>1, TaskStays, AlikeSelf, Zenon
    <2> QED BY <2>1, <2>2, Zenon
  <1>11. WorkerOK'
    BY <1>1, Zenon DEF WorkerOK
  <1>12. ASSUME NEW w \in Writers PROVE WriterOK(w)' /\ ServedOK(w)'
    <2>1. GoodWriter(writers[w], heads)
      BY Zenon DEF IInv, WriterOK
    <2>2. GoodWriter(writers'[w], heads')
      <3> HIDE DEF told
      <3> QED BY <1>1, <1>6, <2>1, Zenon DEF GoodWriter
    <2>3. ASSUME Background, healthy PROVE Served(writers'[w], heads, Range(queue'), worker', NoTask)
      <3>1. Served(writers[w], heads, Range(queue), worker, task)
        BY <2>3, JobNow, Zenon DEF task
      <3>2. JobFailed(task) \/ task.phase = "stale" \/ (task.phase = "installed" /\ ~(Len(task.output) >= Hard))
        BY <1>1, Zenon DEF JobFailed
      <3>3. CASE told(w)
        <4> HIDE DEF told
        <4>1. writers'[w].failed
          BY <3>3, <1>6, Zenon
        <4> QED BY <4>1, Zenon DEF Served
      <3>4. CASE ~told(w)
        <4>1. writers'[w].failed = writers[w].failed
          <5> HIDE DEF told
          <5> QED BY <3>4, <1>6, Zenon
        <4>2. writers'[w].pc = writers[w].pc /\ writers'[w].request = writers[w].request /\ writers'[w].before = writers[w].before
          <5> HIDE DEF told
          <5> QED BY <1>6, Zenon
        <4>3. ASSUME writers[w].pc = "wait", writers[w].request.world = task.world,
                     task.phase = "installed" => Len(task.output) >= Hard
              PROVE  writers[w].request.world \in Range(queue')
          <5>1. ~JobFailed(task)
            BY <3>4, <4>3, Zenon
          <5>2. task.phase = "stale"
            BY <3>2, <4>3, <5>1, Zenon
          <5> QED BY <5>2, <4>3, <2>3, <1>4
        <4> HIDE DEF told
        <4> QED BY <3>1, <4>1, <4>2, <4>3, <1>4 DEF Served
      <3> QED BY <3>3, <3>4, Zenon
    <2> HIDE DEF told
    <2> QED BY <1>1, <1>2, <1>5, <2>2, <2>3, Zenon DEF WriterOK, ServedOK
  <1>13. ASSUME NEW x \in Worlds PROVE FoundOK(x)'
    <2> HIDE DEF told
    <2>1. ASSUME Background, healthy PROVE Found(x, heads[x], Range(queue'), worker', NoTask)
      <3>1. Found(x, heads[x], Range(queue), worker, task)
        BY <2>1, JobNow, Zenon DEF task
      <3> QED BY <3>1, <1>1, <1>4, <2>1, Zenon DEF Found
    <2> QED BY <1>1, <1>2, <1>5, <2>1, Zenon DEF FoundOK
  <1> HIDE DEF told
  <1> QED BY <1>8, <1>9, <1>10, <1>11, <1>12, <1>13, Zenon DEF IInv

-----------------------------------------------------------------------------
(* The theorems.                                                            *)

\* A container that was just opened satisfies the invariant.
LEMMA InitIInv == Init => IInv
  <1> SUFFICES ASSUME Init PROVE IInv
    BY Zenon
  <1>1. /\ heads = [w \in Worlds |-> IF w = Main THEN Flat ELSE ImageRuns(FlatMap)]
        /\ catalog = (IF Worlds = {Main} THEN {} ELSE Range(ImageRuns(FlatMap)))
        /\ healthy = TRUE /\ running = FALSE /\ stop = FALSE /\ queue = << >> /\ worker = "off"
        /\ tasks = [p \in Processes |-> NoTask] /\ writers = [w \in Writers |-> IdleWriter] /\ woken = {}
        /\ expected = [w \in Worlds |-> FlatMap]
    BY Zenon DEF Init
  <1>2. FlatMap \in Complete /\ ViewOf(Flat) = FlatMap /\ Sound(Flat) /\ Flat \in Heads
    BY FlatHasRoot, Zenon DEF ViewOf, Sound, Heads
  <1>3. ASSUME Worlds # {Main}
        PROVE  /\ ImageRuns(FlatMap) \in Manifests /\ Sound(ImageRuns(FlatMap))
               /\ ViewOf(ImageRuns(FlatMap)) = FlatMap /\ Range(ImageRuns(FlatMap)) \subseteq Maps
    <2> DEFINE g == ImageRuns(FlatMap)
    <2>1. Len(g) <= Hard /\ RootKey \in DOMAIN FlatMap
      BY <1>3, ForksFit, FlatHasRoot, Zenon
    <2>2. g \in Manifests /\ IsInjective(g) /\ ViewOf(g) = FlatMap
      BY <1>2, <2>1, ImageSound, Zenon
    <2>3. Range(g) \subseteq Maps
      BY <2>2, ManifestsAre DEF Range
    <2> QED BY <2>1, <2>2, <2>3, Zenon DEF Sound
  <1>4. ASSUME NEW w \in Worlds, w # Main PROVE Worlds # {Main}
    BY <1>4, Zenon
  <1>5. heads \in [Worlds -> Heads] /\ expected \in [Worlds -> Complete]
    BY <1>1, <1>2, <1>3, <1>4, Zenon DEF Heads
  <1>6. catalog \in SUBSET Maps
    BY <1>1, <1>3, Zenon
  <1>7. tasks \in [Processes -> TaskSet] /\ writers \in [Writers -> WriterSet]
    BY <1>1, NoTaskIs, Idle, Zenon
  <1>8. queue \in Seq(Worlds) /\ woken \in SUBSET Processes /\ healthy \in BOOLEAN
    BY <1>1
  <1>9. Shape
    BY <1>1, <1>5, <1>6, <1>7, <1>8, Zenon DEF Shape
  <1>10. ASSUME NEW w \in Worlds PROVE HeadOK(w)
    <2>1. CASE w = Main
      <3>1. GoodHead(Flat, FlatMap, catalog)
        BY <1>2, Zenon DEF GoodHead
      <3> QED BY <2>1, <3>1, <1>1 DEF HeadOK
    <2>2. CASE w # Main
      <3>1. GoodHead(ImageRuns(FlatMap), FlatMap, catalog)
        BY <2>2, <1>1, <1>3, <1>4, Zenon DEF GoodHead
      <3> QED BY <2>2, <3>1, <1>1, Zenon DEF HeadOK
    <2> QED BY <2>1, <2>2, Zenon
  <1>11. \A p \in Processes : TaskOK(p)
    BY <1>1, NoTaskIs, Zenon DEF TaskOK
  <1>12. \A w \in Writers : WriterOK(w)
    <2>1. GoodWriter(IdleWriter, heads)
      BY Idle, Zenon DEF GoodWriter
    <2> QED BY <1>1, <2>1, Zenon DEF WriterOK
  <1>13. WorkerOK /\ (\A w \in Writers : ServedOK(w)) /\ (\A w \in Worlds : FoundOK(w))
    BY <1>1, Zenon DEF WorkerOK, ServedOK, FoundOK, Background
  <1> QED BY <1>9, <1>10, <1>11, <1>12, <1>13, Zenon DEF IInv

\* Every way through update() keeps the invariant.
LEMMA UpdateStep ==
  ASSUME IInv, NEW w \in Writers, NEW r, Update(w, r)
  PROVE  IInv'
  BY UpdateRefusedStep, UpdateOfflineStep, UpdateWaitStep, UpdateCommitStep, Zenon DEF Update

\* A step that changes nothing keeps the invariant.
LEMMA StutterStep ==
  ASSUME IInv, UNCHANGED vars
  PROVE  IInv'
  BY Zenon DEF IInv, vars, Shape, HeadOK, TaskOK, WriterOK, WorkerOK, ServedOK, FoundOK, Background

\* Every step keeps the invariant.
LEMMA NextIInv == IInv /\ [Next]_vars => IInv'
  <1> SUFFICES ASSUME IInv, [Next]_vars PROVE IInv'
    BY Zenon
  <1>1. CASE \E w \in Writers, r \in Requests : writers[w].pc = "idle" /\ Update(w, r)
    BY <1>1, UpdateStep, Zenon
  <1>2. CASE \E w \in Writers, world \in Worlds : Compact(w, world)
    BY <1>2, CompactStep, Zenon
  <1>3. CASE \E w \in Writers : WriterStep(w) \/ WaitTimeout(w)
    BY <1>3, UpdateStep, WaitWakeStep, CompactReturnStep, WaitTimeoutStep, Zenon DEF WriterStep
  <1>4. CASE \E p \in Processes : TaskStep(p)
    BY <1>4, PrepareStep, InstallCheckStep, StageNextStep, PublishStep, Zenon DEF TaskStep
  <1>5. CASE WorkerStep
    BY <1>5, WorkerWakeStep, WorkerFinishStep, WorkerBackoffStep, Zenon DEF WorkerStep
  <1>6. CASE StartCompaction \/ StopRequest \/ StopJoined \/ OtherTransact \/ Restart
    BY <1>6, StartCompactionStep, StopRequestStep, StopJoinedStep, OtherTransactStep, RestartStep, Zenon
  <1>7. CASE UNCHANGED vars
    BY <1>7, StutterStep, Zenon
  <1> QED BY <1>1, <1>2, <1>3, <1>4, <1>5, <1>6, <1>7, Zenon DEF Next

\* The invariant gives the types.
LEMMA IInvTypes == IInv => TypeOK
  <1> SUFFICES ASSUME IInv PROVE TypeOK
    BY Zenon
  <1>1. Shape
    BY Zenon DEF IInv
  <1>2. ASSUME NEW w \in Worlds, heads[w] # Flat PROVE Range(heads[w]) \subseteq Maps /\ Len(heads[w]) <= Hard
    <2>1. heads[w] \in Manifests
      BY <1>1, <1>2, Zenon DEF Shape, Heads
    <2> QED BY <2>1, ManifestsAre, LimitsOrdered DEF Range
  <1>3. ASSUME NEW p \in Processes PROVE tasks[p].phase \in Phases /\ Len(tasks[p].output) <= Hard
    <2>1. tasks[p].phase \in Phases /\ tasks[p].output \in {<< >>} \cup Manifests
      BY <1>1, TaskFields, Zenon DEF Shape
    <2>2. CASE tasks[p].output = << >>
      BY <2>1, <2>2, LimitsOrdered
    <2>3. CASE tasks[p].output \in Manifests
      BY <2>1, <2>3, ManifestsAre, LimitsOrdered
    <2> QED BY <2>1, <2>2, <2>3, Zenon
  <1>4. \A w \in Writers : writers[w].pc \in {"idle", "run", "wait", "compact"}
    BY <1>1, WriterFields, Zenon DEF Shape
  <1>5. Range(queue) \subseteq Worlds
    BY <1>1 DEF Shape, Range
  <1>6. {healthy, running, stop} \subseteq BOOLEAN
    BY <1>1, Zenon DEF Shape
  <1>7. DOMAIN heads = Worlds /\ catalog \subseteq Maps /\ woken \subseteq Processes
    BY <1>1, Zenon DEF Shape
  <1>8. worker \in {"off", "wait", "task", "backoff", "exited"}
    BY <1>1, Zenon DEF Shape
  <1> QED BY <1>2, <1>3, <1>4, <1>5, <1>6, <1>7, <1>8, Zenon DEF TypeOK, Phases

\* The invariant says where the merge that a blocked update waits for is, and where an overdue World is.
LEMMA IInvWork == IInv => WaiterServed /\ BacklogFound
  <1> SUFFICES ASSUME IInv PROVE WaiterServed /\ BacklogFound
    BY Zenon
  <1>1. WaiterServed
    <2> SUFFICES ASSUME NEW w \in Writers, writers[w].pc = "wait", Background, ~Released(w)
                 PROVE  \/ writers[w].request.world \in Range(queue)
                        \/ worker = "task" /\ tasks[Worker].world = writers[w].request.world
      BY Zenon DEF WaiterServed
    <2>1. ~writers[w].failed /\ healthy /\ heads[writers[w].request.world] = writers[w].before
      BY Zenon DEF Released
    <2>2. Served(writers[w], heads, Range(queue), worker, tasks[Worker])
      BY <2>1, JobNow, Zenon
    <2> QED BY <2>1, <2>2, Zenon DEF Served
  <1>2. BacklogFound
    <2> SUFFICES ASSUME NEW w \in Worlds, Background, healthy, RunCount(heads[w]) >= Soft,
                        heads[w] # Merged(heads[w]), Len(Merged(heads[w])) <= Hard
                 PROVE  w \in Range(queue) \/ (worker = "task" /\ tasks[Worker].world = w)
      BY Zenon DEF BacklogFound
    <2>1. Found(w, heads[w], Range(queue), worker, tasks[Worker])
      BY JobNow, Zenon
    <2> QED BY <2>1, Zenon DEF Found
  <1> QED BY <1>1, <1>2, Zenon

\* The invariant says what every World reads as, and that its manifest loads.
LEMMA IInvIntact == IInv => WorldsIntact
  <1> SUFFICES ASSUME IInv PROVE WorldsIntact
    BY Zenon
  <1>1. \A w \in Worlds : Sound(heads[w]) /\ ViewOf(heads[w]) = expected[w] /\ (heads[w] # Flat => Range(heads[w]) \subseteq catalog)
    BY Zenon DEF IInv, HeadOK, GoodHead
  <1>2. ViewsExact
    BY <1>1, Zenon DEF ViewsExact
  <1>3. ManifestsLoadable
    BY <1>1, Zenon DEF ManifestsLoadable, Sound
  <1> QED BY <1>2, <1>3, Zenon DEF WorldsIntact

\* The invariant holds in every state of the compaction service (maintenance.cpp, compaction.cpp).
THEOREM Inductive == Spec => []IInv
  <1> QED BY InitIInv, NextIInv, PTL DEF Spec

\* update, schedule_compaction_locked and the worker, for any Worlds, keys, limits and client threads: whoever
\* is blocked at the hard limit waits for a World that is queued or being merged, and while the worker runs no
\* World over the soft limit that a merge would shorten is forgotten.
THEOREM AlwaysWorkFound == Spec => []WorkFound
  <1>1. IInv => WorkFound
    BY IInvTypes, IInvWork, Zenon DEF WorkFound
  <1> QED BY <1>1, Inductive, PTL

\* plan, compact_frozen and install, for any Worlds, keys, values and limits: whatever merges, races and
\* restarts come between them, a World reads as its committed updates left it, and its manifest loads: it names
\* stored runs, none of them twice, and the root is among the records they show.
THEOREM AlwaysIntact == Spec => []WorldsIntact
  BY IInvIntact, Inductive, PTL
=============================================================================
