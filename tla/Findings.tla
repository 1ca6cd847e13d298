------------------------------ MODULE Findings ------------------------------
(***************************************************************************)
(* How the verdict on a text comes about: the published rules become the   *)
(* engine's (policy/bridge.ts), each of them reports spans of the text,    *)
(* findings on one span are merged into one, and the strongest action of   *)
(* those that are left is the verdict (detection/engine.ts).  Pure         *)
(* functions.  What a pattern, a dictionary or the entropy heuristic       *)
(* matches is given with the text, and so are the signals of a score rule. *)
(***************************************************************************)
EXTENDS Naturals, Sequences, SequencesExt, FiniteSetsExt

CONSTANTS Spans,      \* parts of a text, [startOffset, endOffset)
          WholeText,  \* the span of all of it
          SignalSets, \* bound: the signals that texts show
          MaxRules    \* bound: rules of a policy

ASSUME FindingsAssumption ==
  /\ WholeText \in Spans /\ MaxRules \in Nat
  /\ \A s \in SignalSets : s \subseteq {"long_text", "legal_terms_whereas",
       "numbered_paragraphs", "long_avg_sentence", "formal_heading", "block_quote"}

Severities == <<"low", "medium", "high", "critical">>
ActionOrder == <<"log", "warn", "require_confirmation", "block">>
Rank(order, x) == CHOOSE i \in DOMAIN order : order[i] = x
MaxAction(a, b) == IF Rank(ActionOrder, a) >= Rank(ActionOrder, b) THEN a ELSE b

-----------------------------------------------------------------------------
(* Rules. *)

PublishedRules == [kind : {"keyword", "pattern", "entropy", "score"},
                   action : {"warn", "block"}]

ToSeverity(action) == IF action = "block" THEN "high" ELSE "medium"

BridgeRule(rule) ==
  [kind |-> IF rule.kind = "keyword" THEN "dictionary" ELSE rule.kind,
   severity |-> ToSeverity(rule.action), action |-> rule.action]

Points == [paste_detected |-> 20, long_text |-> 20, legal_terms_whereas |-> 25,
           numbered_paragraphs |-> 15, long_avg_sentence |-> 10,
           formal_heading |-> 10, block_quote |-> 10]
WarnThreshold == 40
ConfirmThreshold == 70

Finding(rule, action, span) ==
  [severity |-> rule.severity, action |-> action, span |-> span,
   isEntropy |-> rule.kind = "entropy"]

Score(signals) == MapThenSumSet(LAMBDA s : Points[s], signals \cup {"paste_detected"})

(* runScoreRule: nothing unless the prompt was pasted, never for a file;   *)
(* below the upper threshold a rule that blocks only warns, with the       *)
(* severity of one that blocks.                                            *)
RunScoreRule(rule, text) ==
  IF ~text.pasted \/ text.isFile \/ Score(text.signals) < WarnThreshold THEN <<>>
  ELSE <<Finding(rule, IF Score(text.signals) >= ConfirmThreshold THEN rule.action ELSE "warn",
                 WholeText)>>

(* runRule: `text.hits' has the spans that each rule matches, in order.    *)
RunRule(doc, i, text) ==
  LET rule == BridgeRule(doc[i]) IN
  IF rule.kind = "score" THEN RunScoreRule(rule, text)
  ELSE [k \in DOMAIN text.hits[i] |-> Finding(rule, rule.action, text.hits[i][k])]

-----------------------------------------------------------------------------
(* The merge. *)

KeepAnyCandidate(candidate, current) == TRUE   \* mutant: severities are not compared

KeepCandidate(candidate, current) ==
  LET new == Rank(Severities, candidate.severity)
      old == Rank(Severities, current.severity)
  IN new > old \/ (new = old /\ (candidate.isEntropy => current.isEntropy))

MergeOne(best, candidate) ==
  IF \A k \in DOMAIN best : best[k].span # candidate.span THEN Append(best, candidate)
  ELSE [k \in DOMAIN best |->
          IF best[k].span = candidate.span /\ KeepCandidate(candidate, best[k])
            THEN candidate ELSE best[k]]

DedupeIdenticalSpanFindings(kinded) == FoldLeft(MergeOne, <<>>, kinded)

AllFindings(doc, text) == FlattenSeq([i \in DOMAIN doc |-> RunRule(doc, i, text)])

(* Of a site that the user has switched off nothing is looked at.          *)
DetectPrompt(doc, disabled, text) ==
  LET findings == IF disabled THEN <<>>
                  ELSE DedupeIdenticalSpanFindings(AllFindings(doc, text))
  IN [findings |-> findings,
      highestAction |-> FoldLeft(LAMBDA a, f : MaxAction(a, f.action), "log", findings)]

-----------------------------------------------------------------------------
(* What the engine promises. *)

Docs == UNION {[1..n -> PublishedRules] : n \in 0..MaxRules}

HitLists == {<<>>} \cup {<<s>> : s \in Spans}   \* bound: one match for each rule

TextsFor(doc) == [hits : [DOMAIN doc -> HitLists], signals : SignalSets,
                  pasted : BOOLEAN, isFile : BOOLEAN]

\* What the comment of the merge says is kept of a span (engine.ts:151-166): of its most
\* severe findings the last structural one, or the last one if only the heuristic has found
\* it.
MostSpecific(found, span) ==
  LET Here == {k \in DOMAIN found : found[k].span = span}
      Top == {k \in Here : \A j \in Here : Rank(Severities, found[j].severity)
                                             <= Rank(Severities, found[k].severity)}
      Structural == {k \in Top : ~found[k].isEntropy}
  IN found[Max(IF Structural = {} THEN Top ELSE Structural)]

KeepsMostSpecific(found, kept) ==
  /\ {kept[k].span : k \in DOMAIN kept} = {found[k].span : k \in DOMAIN found}
  /\ \A i, j \in DOMAIN kept : kept[i].span = kept[j].span => i = j
  /\ \A k \in DOMAIN kept : kept[k] = MostSpecific(found, kept[k].span)

\* A score rule that blocks reached only the lower threshold: its warning has the severity of
\* a block, and takes the place of one on the span of the whole text that an earlier rule, or
\* the heuristic wherever it is listed, has found.
Overruled(found) ==
  \E j, k \in DOMAIN found :
    /\ j < k \/ found[j].isEntropy
    /\ found[j].span = WholeText /\ found[j].action = "block"
    /\ found[k].span = WholeText /\ found[k].action = "warn" /\ found[k].severity = "high"

\* Whatever the rules of a policy, their order and what they match, the merge keeps the most
\* specific finding of every span, and the verdict is the strongest action of all findings,
\* those merged away included, unless the unconfirmed warning of a score rule that blocks took
\* the place of a block (detection/engine.ts:167-187, policy/bridge.ts:10-12).
VerdictIsStrongest ==
  \A doc \in Docs : \A text \in TextsFor(doc) :
    LET found == AllFindings(doc, text)
        result == DetectPrompt(doc, FALSE, text)
    IN /\ KeepsMostSpecific(found, result.findings)
       /\ \/ \A k \in DOMAIN found : MaxAction(result.highestAction, found[k].action)
                                       = result.highestAction
          \/ Overruled(found)
=============================================================================
