--------------------------- MODULE MCApprovalQueue ---------------------------
(* ApprovalQueue on a small instance.                                      *)
EXTENDS ApprovalQueue, TLC

Symmetry == Permutations(Operators)
=============================================================================
