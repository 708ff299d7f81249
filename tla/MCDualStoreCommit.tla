-------------------------- MODULE MCDualStoreCommit --------------------------
(* DualStoreCommit on small instances.                                     *)
EXTENDS DualStoreCommit, TLC

\* Workers, entities and groups are interchangeable.
Symmetry ==
    Permutations(Workers) \cup Permutations(Entities) \cup Permutations(Groups)
=============================================================================
