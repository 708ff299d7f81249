--------------------------- MODULE MCTextFunctions ---------------------------
(* TextFunctions on short amounts and short files.                         *)
EXTENDS TextFunctions

MCCharacters == {"0", "5", "9", ".", ",", " "}

MCLines ==
    {<<"naive-datetime">>, <<"money-float", ALLOW>>, <<"#", "naive-datetime">>,
     <<"swallowed-except">>, <<"pass">>, <<DQ>>, <<DQ, "money-float", DQ>>,
     <<"#", DQ>>, <<SQ>>}
=============================================================================
