------------------------- MODULE MCLockedStateChange -------------------------
(* LockedStateChange on small instances.                                   *)
EXTENDS LockedStateChange, TLC

\* Sections, entities, tokens and groups are interchangeable.
Symmetry ==
    Permutations(Sections) \cup Permutations(Entities)
        \cup Permutations(Tokens) \cup Permutations(Groups)
=============================================================================
