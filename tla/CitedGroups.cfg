SPECIFICATION Spec
CHECK_DEADLOCK FALSE
CONSTANTS
    Tools <- MCTools
    Queries <- MCQueries
    Mutating <- MCMutating
    schema_token_budget = 22
    Words <- MCWords
    CiteLength = 1
    TruncationHints = {"limit"}
    RefusalHints = {"cannot"}
    Blank = " "
    Cases <- MCCases
    Texts <- MCTexts
    MaxWords = 3
    MaxQuestions = 1
    MaxCalls = 2
INVARIANTS
    FullRateIsComplete
