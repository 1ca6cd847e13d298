--------------------------- MODULE MCDecisionDesk ---------------------------
(* DecisionDesk for TLC: two prompts in flight, a list of one entry.       *)
EXTENDS DecisionDesk
=============================================================================
