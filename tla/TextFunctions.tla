---------------------------- MODULE TextFunctions ----------------------------
(***************************************************************************)
(* The inputs of the two components that only read text: an amount typed   *)
(* character by character (MoneyParsing), or source files written line by  *)
(* line, of which some cannot be read (ConventionGuards).  Every state is  *)
(* an input; the properties relate the code's answer to a reference.       *)
(***************************************************************************)
EXTENDS MoneyParsing, ConventionGuards

CONSTANTS
    Characters, MaxLength,  \* of amounts
    Paths, InScope,         \* in_scope, and ending in .py
    Lines, MaxLines         \* of all files together

\* A line has no line end within.
ASSUME LinesArePlain == Lines \subseteq Seq(STRING \ {"newline"})

VARIABLES
    raw,         \* the amount
    content,     \* of each file
    unreadable   \* files that open() fails for

inputVars == <<raw, content, unreadable>>

InputInit ==
    /\ raw = <<>>
    /\ content = [p \in Paths |-> <<>>]
    /\ unreadable = {}

Type(c) ==
    /\ content = [p \in Paths |-> <<>>] /\ unreadable = {}
    /\ Len(raw) < MaxLength
    /\ raw' = Append(raw, c)
    /\ UNCHANGED <<content, unreadable>>

Write(p, line) ==
    /\ raw = <<>> /\ unreadable = {}
    /\ MapThenSumSet(LAMBDA q : Len(content[q]), Paths) < MaxLines
    /\ content' = [content EXCEPT ![p] = Append(@, line)]
    /\ UNCHANGED <<raw, unreadable>>

Lock(p) ==
    /\ raw = <<>> /\ unreadable = {}
    /\ unreadable' = {p}
    /\ UNCHANGED <<raw, content>>

InputNext ==
    \/ \E c \in Characters : Type(c)
    \/ \E p \in Paths : Lock(p) \/ \E line \in Lines : Write(p, line)

InputSpec == InputInit /\ [][InputNext]_inputVars

-----------------------------------------------------------------------------
(* Properties.                                                             *)

\* An amount is accepted exactly if it is well formed, and is the money that was
\* sent as long as the decimal context holds its digits; what is credited otherwise
\* is off by half a place of that context at most (money.py:26-30, 62-66, 92-105).
MisreadByRoundingOnly == ParsesAsSent(raw)

\* The claim of money.py:102-104, that what is not exact in minor units is refused,
\* and of the types "string -> Decimal -> integer" in
\* docs/02-billing-and-payments.md:24-26: an amount that is accepted is the money
\* that was sent.
ParsedIsSent == parse_minor_units(raw) # Rejected => parse_minor_units(raw) = Sent(raw)

\* MoneyParsing: the display of an accepted amount is not read as another.
DisplayNotMisread ==
    parse_minor_units(raw) # Rejected => ReadsAsItself(parse_minor_units(raw))

\* ConventionGuards: findings and exit code are what the files deserve.
VerdictIsWarranted == VerdictStands(content, InScope, unreadable)
=============================================================================
