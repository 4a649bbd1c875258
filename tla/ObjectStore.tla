---------------------------- MODULE ObjectStore ----------------------------
(***************************************************************************)
(* What a repository store promises the layers above it: immutable,        *)
(* content-addressed objects, named roots that point at objects, and one   *)
(* sequence number.  A transaction changes any number of roots in one      *)
(* indivisible step and moves the sequence by one; a collection drops      *)
(* objects no remaining root names.  LevelStore and Journal implement it.  *)
(***************************************************************************)
EXTENDS Naturals, FiniteSets

CONSTANTS Keys,      \* root names
          Objects,   \* object identities (SHA-256 of the content)
          None       \* "this root does not exist"

VARIABLES roots,     \* Keys -> Objects \cup {None}
          objects,   \* the stored objects
          sequence   \* number of committed transactions

vars == <<roots, objects, sequence>>

Root == Objects \cup {None}
Named(r) == {r[k] : k \in Keys} \ {None}

TypeOK ==
    /\ roots \in [Keys -> Root]
    /\ objects \in SUBSET Objects
    /\ sequence \in Nat

Init ==
    /\ roots = [k \in Keys |-> None]
    /\ objects = {}
    /\ sequence = 0

\* A committed batch.  Objects only arrive, each because some root names it.
Transact ==
    /\ roots' \in [Keys -> Root]
    /\ objects' \in SUBSET Objects
    /\ objects \subseteq objects'
    /\ Named(roots') \subseteq objects'
    /\ objects' \ objects \subseteq Named(roots')
    /\ sequence' = sequence + 1

\* A collection.  Roots only go, and what the remaining ones name survives.
Collect ==
    /\ roots' \in [Keys -> Root]
    /\ \A k \in Keys : roots'[k] \in {roots[k], None}
    /\ objects' \in SUBSET objects
    /\ Named(roots') \subseteq objects'
    /\ sequence' = sequence + 1

Next == Transact \/ Collect

Spec == Init /\ [][Next]_vars

=============================================================================
