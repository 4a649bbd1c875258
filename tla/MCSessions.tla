----------------------------- MODULE MCSessions -----------------------------
(* Sessions with interchangeable tokens. *)
EXTENDS Sessions, TLC

Names == Permutations(Tokens) \cup Permutations(Handles)

=============================================================================
