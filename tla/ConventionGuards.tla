--------------------------- MODULE ConventionGuards ---------------------------
(***************************************************************************)
(* examples/guards/convention_guards.py: check_file and main.              *)
(*                                                                         *)
(* A line is a sequence of words: the two triple quotes, "#", the waiver,  *)
(* what each rule looks for, "pass" and anything else.                     *)
(***************************************************************************)
EXTENDS Integers, Sequences, FiniteSets

DQ == "three double quotes"
SQ == "three single quotes"
ALLOW == "guard-ok"

\* What NAIVE_TIME, MONEY_FLOAT or INT_OF_FLOAT, and BARE_PASS match.
Rules == {"naive-datetime", "money-float", "swallowed-except"}

Has(line, word) == \E k \in DOMAIN line : line[k] = word

quotes(line) == Cardinality({k \in DOMAIN line : line[k] \in {DQ, SQ}})

\* The flag at line i: an odd count of quotes turns it.
in_docstring(lines, i) ==
    Cardinality({j \in 1..(i - 1) : quotes(lines[j]) % 2 = 1}) % 2 = 1

\* Faulty Skipped: a docstring of one line is no docstring.
SkippedOddOnly(lines, i) == in_docstring(lines, i) \/ quotes(lines[i]) % 2 = 1

\* Lines that are taken for a docstring or a part of one.
Skipped(lines, i) == in_docstring(lines, i) \/ quotes(lines[i]) > 0

Waived(line) == (line # <<>> /\ Head(line) = "#") \/ Has(line, ALLOW)

\* The rule's pattern matches; a handler counts with a lone `pass` on the next line.
Matches(lines, i, rule) ==
    /\ Has(lines[i], rule)
    /\ rule = "swallowed-except" => i < Len(lines) /\ lines[i + 1] = <<"pass">>

\* The findings, as <<line_no, rule>>.
check_file(lines) ==
    {f \in (DOMAIN lines) \X Rules :
        ~Skipped(lines, f[1]) /\ ~Waived(lines[f[1]]) /\ Matches(lines, f[1], f[2])}

\* The exit code for the files of argv, of which those in scope are read.
main(content, scope, unreadable) ==
    IF scope \cap unreadable # {} THEN 2
    ELSE IF \A p \in scope : check_file(content[p]) = {} THEN 0 ELSE 1

-----------------------------------------------------------------------------
(* Reference: what a lexer makes of the words.                             *)

\* The lexer is in code, in a comment, or in a string of one of the two quotes.
Lex(mode, word) ==
    IF mode = "comment" THEN (IF word = "newline" THEN "code" ELSE "comment")
    ELSE IF mode = "code"
         THEN (IF word = "#" THEN "comment" ELSE IF word \in {DQ, SQ} THEN word ELSE "code")
    ELSE IF word = mode THEN "code" ELSE mode

\* The modes at the words of a line that starts in this one, and after the last.
Modes(start, line) ==
    LET mode[k \in 1..(Len(line) + 1)] ==
          IF k = 1 THEN start ELSE Lex(mode[k - 1], line[k - 1])
    IN  mode

\* The mode in which line i starts.
StartMode(lines, i) ==
    LET start[j \in 1..(Len(lines) + 1)] ==
          IF j = 1 THEN "code"
          ELSE Lex(Modes(start[j - 1], lines[j - 1])[Len(lines[j - 1]) + 1], "newline")
    IN  start[i]

\* The mode at word k of line i.
ModeAt(lines, i, k) == Modes(StartMode(lines, i), lines[i])[k]

\* One kind of triple quote, none of it in a comment, and nothing on its lines
\* that a rule looks for outside of the string.
Disciplined(lines) ==
    /\ \A q, r \in {DQ, SQ} : (\E i, j \in DOMAIN lines : Has(lines[i], q) /\ Has(lines[j], r)) => q = r
    /\ \A i \in DOMAIN lines : \A k \in DOMAIN lines[i] :
          quotes(lines[i]) > 0 =>
             /\ lines[i][k] \in {DQ, SQ} => ModeAt(lines, i, k) # "comment"
             /\ lines[i][k] \in Rules => ModeAt(lines, i, k) \in {DQ, SQ}

\* What a file should be reported for: it is no string, and the line is neither
\* waived nor a comment as a whole.
Live(lines) ==
    {f \in (DOMAIN lines) \X Rules :
        /\ \E k \in DOMAIN lines[f[1]] :
              lines[f[1]][k] = f[2] /\ ModeAt(lines, f[1], k) \in {"code", "comment"}
        /\ Head(lines[f[1]]) # "#" /\ ~Has(lines[f[1]], ALLOW)
        /\ f[2] = "swallowed-except" => f[1] + 1 \in DOMAIN lines /\ lines[f[1] + 1] = <<"pass">>}

\* In files of the usual style the counting of quotes finds what a lexer would, in
\* code and not in prose, and the exit code is 0 only if every file in scope was
\* read and is clean (convention_guards.py:8-12, 39-48, 93-104, 132-153).
VerdictStands(content, scope, unreadable) ==
    LET usual == {p \in DOMAIN content : Disciplined(content[p])}
        code == main(content, scope, unreadable)
    IN  /\ \A p \in usual : check_file(content[p]) = Live(content[p])
        /\ scope \subseteq usual =>
              /\ code = 0 => \A p \in scope : p \notin unreadable /\ Live(content[p]) = {}
              /\ code = 1 => scope \cap unreadable = {} /\ \E p \in scope : Live(content[p]) # {}
              /\ code = 2 => scope \cap unreadable # {}
=============================================================================
