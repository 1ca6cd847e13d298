-------------------------- MODULE MCAssistantApply --------------------------
(* AssistantApply for TLC: a subject with a rule, a message of one or two  *)
(* actions, two requests that apply it, one that reverts it.               *)
EXTENDS AssistantApply, TLC

MCFirst == <<CHOOSE s \in Subjects : TRUE>>
MCProposals == {<<"create_rule", "update_subject">>, <<"delete_rule", "delete_subject">>,
                <<"update_rule", "create_rule">>, <<"update_rule">>, <<"move_subject">>}
Symmetry == Permutations(Applies)
=============================================================================
