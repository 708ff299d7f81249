------------------------------- MODULE MCTexts -------------------------------
(* What only reads texts, in one state space: either an evaluation of the  *)
(* assistant, or an input of TextFunctions.  They share nothing.           *)
EXTENDS MCAssistant, MCTextFunctions

EitherInit == Init /\ InputInit

EitherNext ==
    \/ InputInit /\ Next /\ UNCHANGED inputVars
    \/ Init /\ InputNext /\ UNCHANGED vars

EitherSpec == EitherInit /\ [][EitherNext]_<<vars, inputVars>>
=============================================================================
