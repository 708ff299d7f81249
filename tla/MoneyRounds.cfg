SPECIFICATION InputSpec
CHECK_DEADLOCK FALSE
CONSTANTS
    minor_unit_digits = 2
    Precision = 4
    Characters <- MCCharacters
    MaxLength = 6
    Paths = {"a.py", "b.py", "tests/c.py"}
    InScope = {"a.py", "b.py"}
    Lines <- MCLines
    MaxLines = 1
INVARIANTS
    ParsedIsSent
