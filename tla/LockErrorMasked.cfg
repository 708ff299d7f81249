SPECIFICATION Spec
CONSTANTS
    Sections = {s1, s2}
    Entities = {e1}
    Tokens = {t1, t2, t3}
    NoToken = NoToken
    Lease = 4
    Wait = 2
    HeldWarning = 1
    MaxDelay = 1
    MaxBody = 2
    HookOutcomes = {"raises"}
INVARIANTS
    BodyErrorSurvives
