---------------------------- MODULE MCEntityLock ----------------------------
(* EntityLock on small instances.                                          *)
EXTENDS EntityLock, TLC

\* Sections, entities and tokens are interchangeable (safety runs only).
Symmetry ==
    Permutations(Sections) \cup Permutations(Entities) \cup Permutations(Tokens)
=============================================================================
