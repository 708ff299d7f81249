SPECIFICATION EitherSpec
CHECK_DEADLOCK FALSE
CONSTANTS
    Tools <- MCTools
    Queries <- MCQueries
    Mutating <- MCMutating
    schema_token_budget = 22
    Words <- MCWords
    CiteLength = 1
    TruncationHints = {"limit"}
    RefusalHints = {"cannot"}
    Blank = " "
    Cases <- MCCases
    Texts <- MCTexts
    MaxWords = 4
    MaxQuestions = 2
    MaxCalls = 2
    minor_unit_digits = 2
    Precision = 4
    Characters <- MCCharacters
    MaxLength = 6
    Paths = {"a.py", "b.py", "tests/c.py"}
    InScope = {"a.py", "b.py"}
    Lines <- MCLines
    MaxLines = 4
INVARIANTS
    TypeOK
    BudgetHeld
    ReachedIsRecorded
    RatesTellFlaws
    MisreadByRoundingOnly
    DisplayNotMisread
    VerdictIsWarranted
