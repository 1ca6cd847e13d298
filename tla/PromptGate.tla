----------------------------- MODULE PromptGate -----------------------------
(***************************************************************************)
(* What the desktop proxy and the extension promise about a prompt they    *)
(* have in their hands, whatever windows, timers and listeners do:         *)
(*                                                                         *)
(*   - a prompt gets at most one verdict, and a verdict is final;          *)
(*   - the rule that matched it is found once and never revised;           *)
(*   - a prompt matched by a `block` rule is sent only if the user allowed *)
(*     it, or the check failed or did not answer in time (the excuses).    *)
(*                                                                         *)
(* DecisionGate shows how proxy.ts keeps it, SendPath how the extension's  *)
(* interceptor and content script do.                                      *)
(***************************************************************************)
CONSTANT Requests

VARIABLES verdict,   \* Requests -> what became of the prompt
          rule,      \* Requests -> strongest rule action that matched it
          excused    \* prompts the user allowed, or whose check failed

gateVars == <<verdict, rule, excused>>

Verdicts == {"open", "sent", "refused", "lost"}
Rules    == {"unknown", "log", "warn", "block"}

Init == /\ verdict = [r \in Requests |-> "open"]
        /\ rule    = [r \in Requests |-> "unknown"]
        /\ excused = {}

\* A verdict is final, a classification too, and so is an excuse.
Final(r) == /\ verdict[r] # "open" => verdict'[r] = verdict[r]
            /\ rule[r] # "unknown" => rule'[r] = rule[r]
            /\ r \in excused => r \in excused'

\* A prompt that leaves for the AI site is harmless, warned about, or excused.
MaySend(r) == verdict'[r] = "sent" /\ verdict[r] # "sent" =>
                 rule'[r] # "block" \/ r \in excused'

\* A prompt that has its verdict gets no excuse afterwards.
NoLateExcuse(r) == r \in excused' \ excused => verdict[r] = "open"

Next == /\ verdict' \in [Requests -> Verdicts]
        /\ rule'    \in [Requests -> Rules]
        /\ excused' \subseteq Requests
        /\ \A r \in Requests : Final(r) /\ MaySend(r) /\ NoLateExcuse(r)

Spec == Init /\ [][Next]_gateVars
=============================================================================
