--------------------------- MODULE ProjectionLeads ---------------------------
(***************************************************************************)
(* What examples/concurrency/dual_store_commit.py promises of its two      *)
(* stores: the projection may run ahead of the authoritative store, and    *)
(* the authoritative store moves only to where the projection already is.  *)
(* "Truth ahead of projection" is then not reachable.                      *)
(***************************************************************************)
CONSTANTS Entities, Groups

VARIABLES
    truth,       \* the authoritative store
    projection   \* the store of the external daemon

Init ==
    /\ truth \in [Entities -> Groups]
    /\ projection = truth

WriteProjection(e, g) ==
    /\ projection' = [projection EXCEPT ![e] = g]
    /\ UNCHANGED truth

CommitTruth(e) ==
    /\ truth' = [truth EXCEPT ![e] = projection[e]]
    /\ UNCHANGED projection

Next ==
    \E e \in Entities :
        \/ \E g \in Groups : WriteProjection(e, g)
        \/ CommitTruth(e)

Spec == Init /\ [][Next]_<<truth, projection>>
=============================================================================
