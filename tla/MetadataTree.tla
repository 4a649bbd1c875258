--------------------------- MODULE MetadataTree ----------------------------
(***************************************************************************)
(* The copy-on-write treap of daemon/metadata_tree.cpp.  A node's identity *)
(* is its content, so a node is its record, its children included.  Keys   *)
(* are numbers in the order of the key strings, a prefix is the interval   *)
(* of keys that start with it.                                             *)
(***************************************************************************)
EXTENDS Integers, Sequences, FiniteSets, SequencesExt

CONSTANTS Keys,       \* a set of numbers
          Priority,   \* Keys -> Nat: the order of the SHA-256 priorities
          None,       \* no value
          Nil,        \* the zero id
          MaxHeight   \* 256

MetadataTreeAssumption ==
    /\ Keys \subseteq Nat
    /\ Priority \in [Keys -> Nat]
    /\ MaxHeight \in Nat

TreeNode(k, v, l, r) == [key |-> k, value |-> v, left |-> l, right |-> r]

Higher(a, b) ==
    IF Priority[a.key] = Priority[b.key] THEN a.key > b.key ELSE Priority[a.key] > Priority[b.key]

\* An edit: the root and the nodes make() made on the way (pending_).
Edit(root, made) == [root |-> root, made |-> made]

\* MUTANT: a deletion keeps the children of one side only.
MergeLoses(l, r) == Edit(IF l = Nil THEN r ELSE l, {})

RECURSIVE Merge(_, _)
Merge(l, r) ==
    IF l = Nil \/ r = Nil THEN Edit(IF l = Nil THEN r ELSE l, {})
    ELSE IF Higher(l, r)
    THEN LET e == Merge(l.right, r)
             n == [l EXCEPT !.right = e.root]
         IN  Edit(n, e.made \cup {n})
    ELSE LET e == Merge(l, r.left)
             n == [r EXCEPT !.left = e.root]
         IN  Edit(n, e.made \cup {n})

RECURSIVE Lookup(_, _)
Lookup(n, k) ==
    IF n = Nil THEN None
    ELSE IF k = n.key THEN n.value
    ELSE Lookup(IF k < n.key THEN n.left ELSE n.right, k)

\* MUTANT: a left child is never rotated up.
AttachPlain(n, e) ==
    LET m == [n EXCEPT !.left = e.root]
    IN  Edit(m, e.made \cup {m})

\* The way back up: a child of higher priority is rotated over its parent.
AttachLeft(n, e) ==
    LET m == [n EXCEPT !.left = e.root]
        low == [n EXCEPT !.left = e.root.right]
        top == [e.root EXCEPT !.right = low]
    IN  IF e.root # Nil /\ Higher(e.root, n) THEN Edit(top, e.made \cup {low, top})
        ELSE Edit(m, e.made \cup {m})

AttachRight(n, e) ==
    LET m == [n EXCEPT !.right = e.root]
        low == [n EXCEPT !.right = e.root.left]
        top == [e.root EXCEPT !.left = low]
    IN  IF e.root # Nil /\ Higher(e.root, n) THEN Edit(top, e.made \cup {low, top})
        ELSE Edit(m, e.made \cup {m})

RECURSIVE SetBelow(_, _, _)
SetBelow(n, k, v) ==
    LET changed == [n EXCEPT !.value = v]
        leaf == TreeNode(k, v, Nil, Nil)
    IN  IF n = Nil THEN Edit(leaf, {leaf})
        ELSE IF k = n.key
        THEN IF v = None THEN Merge(n.left, n.right) ELSE Edit(changed, {changed})
        ELSE IF k < n.key THEN AttachLeft(n, SetBelow(n.left, k, v))
        ELSE AttachRight(n, SetBelow(n.right, k, v))

\* set(): an equal value and the deletion of an absent key change nothing.
Set(root, k, v) == IF Lookup(root, k) = v THEN Edit(root, {}) ELSE SetBelow(root, k, v)

RECURSIVE Height(_)
Height(n) ==
    IF n = Nil THEN 0
    ELSE LET l == Height(n.left)
             r == Height(n.right)
         IN  1 + IF l > r THEN l ELSE r

\* apply(): the changes, a partial function on Keys, in key order.
ApplyAll(root, changes) ==
    LET order == SetToSortSeq(DOMAIN changes, <)
        E[i \in 0..Len(order)] ==
            IF i = 0 THEN Edit(root, {})
            ELSE LET e == Set(E[i - 1].root, order[i], changes[order[i]])
                 IN  Edit(e.root, E[i - 1].made \cup e.made)
    IN  E[Len(order)]

\* collect(): the made nodes of the tree, reached through made nodes only.
RECURSIVE Stored(_, _)
Stored(n, made) ==
    IF n = Nil \/ n \notin made THEN {}
    ELSE {n} \cup Stored(n.left, made) \cup Stored(n.right, made)

RECURSIVE Nodes(_)
Nodes(n) == IF n = Nil THEN {} ELSE {n} \cup Nodes(n.left) \cup Nodes(n.right)

\* keys() and entries() in key order: the keys from lower up to upper.
RECURSIVE InOrder(_, _, _)
InOrder(n, lower, upper) ==
    IF n = Nil THEN <<>>
    ELSE (IF n.key >= lower THEN InOrder(n.left, lower, upper) ELSE <<>>)
         \o (IF n.key >= lower /\ n.key < upper THEN <<n.key>> ELSE <<>>)
         \o (IF n.key < upper THEN InOrder(n.right, lower, upper) ELSE <<>>)

\* MUTANT: the next page begins with the key the last one ended with.
AfterInclusive(k, after) == k >= after

Beyond(k, after) == k > after

\* page(): at most limit keys of the prefix, those beyond the cursor.  The
\* cursor starts just below the prefix's keys.
RECURSIVE PageFrom(_, _, _, _, _)
PageFrom(n, after, upper, limit, result) ==
    IF n = Nil \/ Len(result) = limit THEN result
    ELSE LET l == IF n.key > after THEN PageFrom(n.left, after, upper, limit, result) ELSE result
             m == IF Len(l) < limit /\ n.key < upper /\ Beyond(n.key, after) THEN Append(l, n.key) ELSE l
         IN  IF Len(m) < limit /\ n.key < upper THEN PageFrom(n.right, after, upper, limit, m) ELSE m

Page(n, after, upper, limit) == PageFrom(n, after, upper, limit, <<>>)

=============================================================================
