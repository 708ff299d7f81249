SPECIFICATION FairSpec
CONSTANTS
    Handlers = {h1, h2}
    Txns = {known, unknown, garbled}
    Known = {known}
    Parseable = {known, unknown}
    MaxFaults = 1
INVARIANTS
    TypeOK
    QueuedAtMostOnce
    AckMeansRecorded
    AnswersAreBacked
    StrandedByFaults
PROPERTIES
    PaidIsAcknowledged
