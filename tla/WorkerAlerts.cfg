SPECIFICATION FairSpec
CONSTANTS
    Jobs = {j1}
    Runs = {r1, r2}
    MaxLeft = 1
    StaleAfter = 1
    ForStalled = 1
    ForNever = 2
    ForFrozen = 1
    ForAbsent = 1
    Cap = 3
INVARIANTS
    TypeOK
    StatusIsRecorded
    BrokenJobIsSeen
PROPERTIES
    RowsStand
    FrozenRowIsSeen
    BlindnessIsSeen
    DroppedJobIsSeen
