----------------------------- MODULE MCAssistant -----------------------------
(* Assistant with tools at the limit of the budget, queries that hold the  *)
(* groups they ask for and refine one another, and all short texts.        *)
EXTENDS Assistant, SequencesExt

CONSTANTS MaxWords

MCTools ==
    {[name |-> "logs", access |-> "read", chars |-> 47],
     [name |-> "logs", access |-> "read", chars |-> 40],
     [name |-> "metrics", access |-> "read", chars |-> 51],
     [name |-> "silence", access |-> "write", chars |-> 40]}

\* The second refines the first, and the group "system" follows "proxy" in it.
MCQueries == {<<"{a", "proxy">>, <<"{a", "proxy", "system">>, <<"drop">>}
MCMutating == {<<"drop">>}

MCCases ==
    {[expected_groups |-> {<<"proxy">>, <<"system">>}, expect_refusal |-> FALSE,
      result_truncated |-> FALSE],
     [expected_groups |-> {<<"proxy">>}, expect_refusal |-> FALSE, result_truncated |-> TRUE],
     [expected_groups |-> {}, expect_refusal |-> TRUE, result_truncated |-> FALSE]}

MCWords == {"{a", "proxy", "system", "limit", "cannot", "drop"}

MCTexts == BoundedSeq(MCWords \ {"drop"}, MaxWords)
=============================================================================
