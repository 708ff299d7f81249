SPECIFICATION Spec
CONSTANTS
    Asked = {restart, disable, unlisted}
    Allowlist = {restart, disable}
    Reversible = {restart}
    Operators = {o1, o2}
    Nobody = Nobody
    max_pending = 2
    max_per_hour = 2
    Hour = 2
    Lag = 1
    MaxTime = 3
    MaxProposals = 3
SYMMETRY Symmetry
INVARIANTS
    TypeOK
    RollingRate
    AuditReconstructs
    HaltIsEarned
PROPERTIES
    DecisionsStand
CHECK_DEADLOCK FALSE
