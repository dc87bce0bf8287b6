---------------------------- MODULE MCComments ----------------------------
(* Instance of Comments for TLC: one comment that is there already. *)
EXTENDS Comments, TLC

CONSTANTS u1, u2, b1, root

\* The comment of one reader.
OneRoot ==
  root :> [parent |-> None, author |-> u1, board |-> b1, text |-> None, deleted |-> FALSE]

RequestSymmetry == Permutations(Requests)
=============================================================================
