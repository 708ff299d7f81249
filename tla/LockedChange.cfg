SPECIFICATION Spec
CONSTANTS
    Sections = {s1, s2}
    Entities = {e1}
    Tokens = {t1, t2, t3}
    NoToken = NoToken
    Lease = 2
    Wait = 1
    HeldWarning = 0
    MaxDelay = 1
    MaxBody = 1
    HookOutcomes = {"returns", "raises"}
    Groups = {g1, g2}
    Offline = Offline
    Faults = {"crash"}
SYMMETRY Symmetry
INVARIANTS
    TypeOK
    LeaseHonoured
    OverlapMeansOverrun
    OverrunReported
PROPERTIES
    StoreUnlessOverrun
