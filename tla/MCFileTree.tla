---------------------------- MODULE MCFileTree -----------------------------
(* FileTree with few inodes and names. *)
EXTENDS FileTree, TLC

ASSUME Instance == FileTreeAssumption

MCNames == {"a", "b"}
MCTargets == {<<"/", "a">>, <<"..", "b">>}
MCContents == {<<>>, <<Zero>>}
Symmetry == Permutations(Inodes) \cup Permutations(Handles)

=============================================================================
