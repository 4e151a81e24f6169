------------------------------ MODULE MCFastPath ------------------------------
(* Model-checking instances of FastPath: the nodes are interchangeable. *)
EXTENDS FastPath, TLC

NodeSymmetry == Permutations(Node)
=============================================================================
