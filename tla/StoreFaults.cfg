SPECIFICATION Spec
CONSTANTS
    Workers = {w1, w2}
    Entities = {e1, e2}
    Groups = {g1, g2}
    Offline = Offline
    Faults = {"crash", "auth_race"}
INVARIANTS
    TypeOK
    SuccessMeansStoresAgree
    RefusedNotCommitted
    SuccessAuditPersisted
    RowMatchesAnswer
    FalseFailureIsComplete
PROPERTIES
    CommitFollowsProjection
