----------------------------- MODULE TreapMap -----------------------------
(* MetadataTree driven by every sequence of small batches, beside the map   *)
(* the tree stands for.                                                     *)
EXTENDS MetadataTree, TLC

CONSTANTS Values, MaxBatch

VARIABLES root, map

vars == <<root, map>>

Init ==
    /\ root = Nil
    /\ map = [k \in Keys |-> None]

Batch(changes) ==
    /\ root' = ApplyAll(root, changes).root
    /\ map' = changes @@ map

Next ==
    \E keys \in SUBSET Keys :
       /\ Cardinality(keys) \in 1..MaxBatch
       /\ \E changes \in [keys -> Values \cup {None}] : Batch(changes)

Spec == Init /\ [][Next]_vars

Bound == {k \in Keys : map[k] # None}
Sorted(keys) == SetToSortSeq(keys, <)

\* lookup(), contains() and keys() answer as the map does, after any sequence
\* of insertions, overwrites, deletions and rotations.
TreeMatchesMap ==
    /\ \A k \in Keys : Lookup(root, k) = map[k]
    /\ \A lower, upper \in Keys :
          InOrder(root, lower, upper) = Sorted({k \in Bound : lower <= k /\ k < upper})

RECURSIVE Canonical(_)
Canonical(keys) ==
    IF keys = {} THEN Nil
    ELSE LET top == CHOOSE k \in keys : \A j \in keys \ {k} :
                        Higher(TreeNode(k, map[k], Nil, Nil), TreeNode(j, map[j], Nil, Nil))
         IN  TreeNode(top, map[top], Canonical({k \in keys : k < top}), Canonical({k \in keys : k > top}))

\* The tree, and with it the manifest's identity, depends on the map alone and
\* not on the edits that led to it; it is ordered by key and by priority, as
\* entries() demands.
CanonicalShape == root = Canonical(Bound)

RECURSIVE PagesAfter(_, _, _)
PagesAfter(after, upper, limit) ==
    LET page == Page(root, after, upper, limit + 1)
    IN  IF Len(page) <= limit THEN page
        ELSE SubSeq(page, 1, limit) \o PagesAfter(page[limit], upper, limit)

\* read_directory(): page after page, a cursor lists every key of a prefix
\* exactly once and in order, whatever the page size.
PagesComplete ==
    \A lower, upper \in Keys, limit \in 1..3 :
       PagesAfter(lower - 1, upper, limit) = Sorted({k \in Bound : lower <= k /\ k < upper})

\* The treap is the map: lookups, ranges and pages answer as the map would, and
\* equal maps have equal roots (MetadataTree::update, get, page).
TreapExact == TreeMatchesMap /\ CanonicalShape /\ PagesComplete
=============================================================================
