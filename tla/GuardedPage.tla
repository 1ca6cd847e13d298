---------------------------- MODULE GuardedPage -----------------------------
(***************************************************************************)
(* A page of SendPath whose verdicts are those of the engine of Findings:  *)
(* the content script asks the service worker to DETECT, which runs the    *)
(* engine with the cached policy (service-worker.ts).  The policy stays    *)
(* the same while the page is open, and of a text it is given what the     *)
(* rules match in it.                                                      *)
(***************************************************************************)
EXTENDS SendPath, Findings

CONSTANTS Doc,      \* the policy's rules
          Content   \* [Texts -> what the rules match there, and the text's signals]

\* The service worker's answer about a text.
Detect(t) == DetectPrompt(Doc, FALSE, Content[t]).highestAction

ASSUME PageAssumption ==
  /\ Doc \in Docs
  /\ Content \in [Texts -> TextsFor(Doc)]
  /\ Verdict = [t \in Texts |-> Detect(t)]

-----------------------------------------------------------------------------
(* What the engine promises (Findings).  It is about no state: TLC need    *)
(* not look at it in every one.                                            *)
VerdictHolds == presses = 0 => VerdictIsStrongest

(* A rule that blocks matches in the text. *)
Blocking(t) ==
  LET found == AllFindings(Doc, Content[t])
  IN t # NoText /\ \E k \in DOMAIN found : found[k].action = "block"

(* A request in whose text a rule that blocks has matched, whatever other  *)
(* rules matched beside it, is not let go on an answer, unless detection   *)
(* failed or the warning of a score rule took the block's place.           *)
BlockingRuleHolds ==
  \A r \in Requests :
    req[r].via = "decision" /\ Blocking(req[r].text)
      => bridge[r] = "failed" \/ Overruled(AllFindings(Doc, Content[req[r].text]))
=============================================================================
