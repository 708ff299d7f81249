----------------------------- MODULE EvalHarness -----------------------------
(***************************************************************************)
(* examples/ai/eval_harness.py: score_case and score_suite.                *)
(*                                                                         *)
(* A text, a query and a group are sequences of words.  The two patterns   *)
(* of hints are sets of words; letter case is left out, and so are empty   *)
(* queries and groups.  A rate is in percent.                              *)
(***************************************************************************)
EXTENDS Naturals, Sequences, FiniteSetsExt

CONSTANTS
    Words,             \* of texts, queries and groups
    CiteLength,        \* the 24 characters of a query that count as citing it
    TruncationHints,
    RefusalHints,
    Blank              \* what a citation is replaced by: no word

ASSUME HarnessConstants ==
    /\ Blank \notin Words
    /\ CiteLength \in Nat \ {0}

Dimension == {"grounding", "completeness", "calibration", "refusal"}

\* part in s
Occurs(part, s) ==
    \E i \in 1..(Len(s) + 1 - Len(part)) : SubSeq(s, i, i + Len(part) - 1) = part

Hinted(hints, text) == \E i \in DOMAIN text : text[i] \in hints

\* s.replace(query, " "), from left to right.  A citation leaves as many blanks as
\* it has words, which nothing tells from one: no query or group holds a blank.
Replaced(s, query) ==
    LET taken[i \in 1..(Len(s) + 1 - Len(query))] ==
          /\ SubSeq(s, i, i + Len(query) - 1) = query
          /\ \A k \in 1..(i - 1) : taken[k] => k + Len(query) <= i
    IN  [i \in DOMAIN s |->
            IF \E k \in DOMAIN taken : taken[k] /\ k <= i /\ i < k + Len(query)
            THEN Blank ELSE s[i]]

\* Faulty prose: the answer with its citations.
WholeText(text, tool_calls) == text

\* The answer without the queries it cites in full, taken out call by call.
prose(text, tool_calls) ==
    LET after[n \in 0..Len(tool_calls)] ==
          IF n = 0 THEN text ELSE Replaced(after[n - 1], tool_calls[n][2])
    IN  after[Len(tool_calls)]

cited(text, tool_calls) ==
    \E i \in DOMAIN tool_calls :
        LET query == tool_calls[i][2] IN
        Occurs(SubSeq(query, 1, Min({CiteLength, Len(query)})), text)

\* Faulty score_case: a refusal is scored as one and as nothing else.
ScoreRefusalOnly(case, text, tool_calls) ==
    IF case.expect_refusal
    THEN [refusal |-> Hinted(RefusalHints, text) /\ tool_calls = <<>>]
    ELSE [grounding |-> tool_calls # <<>> /\ cited(text, tool_calls),
          completeness |-> \A g \in case.expected_groups : Occurs(g, prose(text, tool_calls)),
          calibration |-> case.result_truncated => Hinted(TruncationHints, text)]

\* The scores of EvalReport; REFUSAL is a key only where a refusal is expected.
score_case(case, text, tool_calls) ==
    IF case.expect_refusal
    THEN [refusal |-> Hinted(RefusalHints, text) /\ tool_calls = <<>>,
          grounding |-> TRUE, completeness |-> TRUE, calibration |-> TRUE]
    ELSE [grounding |-> tool_calls # <<>> /\ cited(text, tool_calls),
          completeness |-> \A g \in case.expected_groups : Occurs(g, prose(text, tool_calls)),
          calibration |-> case.result_truncated => Hinted(TruncationHints, text)]

\* The rates of score_suite.
rates(reports) ==
    [d \in Dimension |->
        LET relevant == {i \in DOMAIN reports : d \in DOMAIN reports[i]} IN
        IF relevant = {} THEN 0
        ELSE (100 * Cardinality({i \in relevant : reports[i][d]})) \div Cardinality(relevant)]
=============================================================================
