------------------------------ MODULE Assistant ------------------------------
(***************************************************************************)
(* The tool gateway at work in an evaluation: questions are asked one      *)
(* after the other, the model (external) calls tools through ToolGateway   *)
(* and answers with a text, and EvalHarness scores the answer with the     *)
(* record of the question's calls, "the audit trail, not the model's       *)
(* claim" (eval_harness.py:70).                                            *)
(***************************************************************************)
EXTENDS ToolGateway, EvalHarness

CONSTANTS
    Cases,         \* EvalCase
    Texts,         \* answers of the model
    MaxQuestions,  \* bounds
    MaxCalls

ASSUME EvaluationConstants ==
    /\ Queries \subseteq Seq(Words) \ {<<>>}
    /\ Texts \subseteq Seq(Words)
    /\ \A c \in Cases :
          /\ c.expect_refusal \in BOOLEAN /\ c.result_truncated \in BOOLEAN
          /\ c.expected_groups \subseteq Seq(Words) \ {<<>>}

VARIABLES
    question,  \* the case under way, as a sequence of one or none
    before,    \* length of the record when it was asked
    reports,   \* the scores of the cases answered
    flawed,    \* history: dimensions that some answer failed by its definition
    unclear    \* history: some answer's citations were not ClearlyCited

vars == <<gatewayVars, question, before, reports, flawed, unclear>>

\* reports[i].scores
Scores == UNION {[D -> BOOLEAN] : D \in {Dimension, Dimension \ {"refusal"}}}

TypeOK ==
    /\ GatewayTypeOK
    /\ question \in {<<>>} \cup {<<c>> : c \in Cases}
    /\ before \in 0..Len(calls)
    /\ reports \in Seq(Scores)
    /\ flawed \subseteq Dimension
    /\ unclear \in BOOLEAN

Init ==
    /\ GatewayInit
    /\ question = <<>>
    /\ before = 0
    /\ reports = <<>>
    /\ flawed = {}
    /\ unclear = FALSE

-----------------------------------------------------------------------------
(* What the dimensions mean (eval_harness.py:6-24), by positions of the    *)
(* text and the calls on record for it.                                    *)

\* The positions of s at which part begins, and those it takes there.
Begins(part, s) ==
    {i \in DOMAIN s : i + Len(part) - 1 <= Len(s) /\ SubSeq(s, i, i + Len(part) - 1) = part}

Block(k, part) == k..(k + Len(part) - 1)

\* The queries of the calls, and what may stand for them in an answer: the first
\* CiteLength words, the whole query, or anything between (line 124).
Asked(sent) == {sent[i][2] : i \in DOMAIN sent}

Citations(sent) ==
    UNION {{SubSeq(query, 1, n) : n \in Min({CiteLength, Len(query)})..Len(query)} :
              query \in Asked(sent)}

\* The positions of text that belong to one of the parts.
Covered(text, parts) ==
    UNION {UNION {Block(k, part) : k \in Begins(part, text)} : part \in parts}

\* Every citation is of a whole query, and none overlaps another.
ClearlyCited(text, sent) ==
    /\ Covered(text, Citations(sent)) = Covered(text, Asked(sent))
    /\ \A p, q \in Asked(sent) : \A k \in Begins(p, text), l \in Begins(q, text) :
          Block(k, p) \cap Block(l, q) # {} => k = l /\ p = q

\* The dimensions that an answer fails, with `sent` the calls made for it.  A group
\* is reported where it stands outside of every citation.
Flaws(case, text, sent) ==
    IF case.expect_refusal
    THEN {d \in {"refusal"} : sent # <<>> \/ ~\E i \in DOMAIN text : text[i] \in RefusalHints}
    ELSE {d \in Dimension :
            \/ /\ d = "grounding"
               /\ Covered(text, Citations(sent)) = {}
            \/ /\ d = "completeness"
               /\ \E g \in case.expected_groups :
                      \A k \in Begins(g, text) :
                          Block(k, g) \cap Covered(text, Citations(sent)) # {}
            \/ /\ d = "calibration"
               /\ case.result_truncated
               /\ ~\E i \in DOMAIN text : text[i] \in TruncationHints}

-----------------------------------------------------------------------------

(* A call returns before anything else happens.                            *)

evaluation == <<question, before, reports, flawed, unclear>>

RegisterTool(t) == running = <<>> /\ Register(t) /\ UNCHANGED evaluation

Ask(c) ==
    /\ running = <<>> /\ question = <<>> /\ Len(reports) < MaxQuestions
    /\ question' = <<c>>
    /\ before' = Len(calls)
    /\ UNCHANGED <<gatewayVars, reports, flawed, unclear>>

CallTool(name, query) ==
    /\ running = <<>> /\ question # <<>> /\ Len(calls) < MaxCalls
    /\ Call(name, query)
    /\ UNCHANGED evaluation

HandlerStep == (GoUpstream \/ HandlerEnds) /\ UNCHANGED evaluation

\* The answer is scored with the question's part of the record.
Answer(text) ==
    LET made == SubSeq(calls, before + 1, Len(calls)) IN
    /\ running = <<>> /\ question # <<>>
    /\ reports' = Append(reports, score_case(question[1], text, made))
    /\ flawed' = flawed \cup Flaws(question[1], text, made)
    /\ unclear' = (unclear \/ ~ClearlyCited(text, made))
    /\ question' = <<>>
    /\ UNCHANGED <<gatewayVars, before>>

Next ==
    \/ \E t \in Tools : RegisterTool(t)
    \/ \E c \in Cases : Ask(c)
    \/ \E name \in Names, query \in Queries : CallTool(name, query)
    \/ HandlerStep
    \/ \E text \in Texts : Answer(text)

Spec == Init /\ [][Next]_vars

-----------------------------------------------------------------------------
(* Properties.                                                             *)

Scored(d) == \E i \in DOMAIN reports : d \in DOMAIN reports[i]

\* What a rate says of a suite.  No false alarm: the rate of a dimension that no
\* answer failed is full, with citations of any form, number and overlap.  No false
\* comfort: an answer that failed what the dimension is for (data asked for and
\* cited, every group reported outside of the citations, truncation admitted,
\* nothing called where a refusal was due) keeps its rate from being full; for
\* completeness, as long as each answer was ClearlyCited
\* (eval_harness.py:6-24, 117-142, 165-180).
RatesTellFlaws ==
    \A d \in Dimension :
        Scored(d) =>
            /\ d \notin flawed => rates(reports)[d] = 100
            /\ rates(reports)[d] = 100 => d \notin flawed \/ (d = "completeness" /\ unclear)

\* The claim of eval_harness.py:135-138, "Search the PROSE, not the citation": a
\* full rate of completeness counts no group that only a citation names, in the
\* form that line 124 takes for a citation as well.
FullRateIsComplete ==
    Scored("completeness") /\ rates(reports)["completeness"] = 100 => "completeness" \notin flawed
=============================================================================
