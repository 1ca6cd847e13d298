------------------------- MODULE DecisionDeskProofs -------------------------
(***************************************************************************)
(* Proofs about DecisionGate and about DecisionDesk, which composes it     *)
(* with the windows, for any set of requests and any length of the         *)
(* activity list: what the gate promises, that the prompt last shown       *)
(* reaches the page, that a notice is true, and that the list has an       *)
(* outcome for what was settled.                                           *)
(*                                                                         *)
(* The argument.  Every step of the desk is a step of the gate, or leaves  *)
(* it alone, and the gate never takes a verdict back (Keeps).  So what a   *)
(* message, a notice or an entry of the list says of a request that has    *)
(* ended stays true while it travels.  The prompt is not lost because of   *)
(* two prompts on their way to the page the one last shown is last, and    *)
(* nothing is on its way to a page that has not said it is ready.          *)
(***************************************************************************)
EXTENDS DecisionDesk, TLAPS

-----------------------------------------------------------------------------
(* The gate: its types, that a held request is always timed, that a block  *)
(* rule is waved through only with consent or after a failed hold, that    *)
(* the user's answer is final, and that it implements PromptGate.          *)

LEMMA InitIInv == Init => IInv
BY DEF Init, IInv, TypeOK, HeldIsTimed, Undecided, BlockDefault, BlockNeedsConsent,
       AnswerWins, Phases, Ended, Actions, FailModes, Choices, Settlers

LEMMA StepIInv == IInv /\ [Next]_vars => IInv'
<1> SUFFICES ASSUME IInv, [Next]_vars PROVE IInv'
  OBVIOUS
<1> USE DEF IInv, TypeOK, HeldIsTimed, Undecided, BlockDefault, BlockNeedsConsent,
            AnswerWins, Phases, Ended, Actions, FailModes, Choices, Settlers,
            scanVars, heldVars, End, Alive, PhaseOf
<1>1. ASSUME NEW p \in FailModes, SetPolicy(p) PROVE IInv'
  BY <1>1 DEF SetPolicy
<1>2. ASSUME NEW r \in Requests, Connect(r) PROVE IInv'
  BY <1>2 DEF Connect
<1>3. ASSUME NEW r \in Requests, BlindSend(r) PROVE IInv'
  BY <1>3 DEF BlindSend
<1>4. ASSUME NEW r \in Requests, Inspect(r) PROVE IInv'
  BY <1>4 DEF Inspect
<1>5. ASSUME NEW r \in Requests, PassUninspected(r) PROVE IInv'
  BY <1>5 DEF PassUninspected
<1>6. ASSUME NEW r \in Requests, ScanClean(r) PROVE IInv'
  BY <1>6 DEF ScanClean
<1>7. ASSUME NEW r \in Requests, ScanFails(r) PROVE IInv'
  BY <1>7 DEF ScanFails
<1>8. ASSUME NEW r \in Requests, NEW a \in {"warn", "block"}, Hold(r, a) PROVE IInv'
  BY <1>8 DEF Hold, HoldAction, DecideOnTimeout
<1>9. ASSUME NEW r \in Requests, NEW a \in {"warn", "block"}, HoldThrows(r, a) PROVE IInv'
  BY <1>9 DEF HoldThrows, HoldAction, DecideOnTimeout
<1>10. ASSUME NEW r \in Requests, NEW c \in Choices, NEW ok \in BOOLEAN,
              ResolveDecision(r, c, ok) PROVE IInv'
  BY <1>10 DEF ResolveDecision, Settle, Crashing
<1>11. ASSUME NEW r \in Requests, ResolveLeaked(r) PROVE IInv'
  BY <1>11 DEF ResolveLeaked, Crashing
<1>12. ASSUME NEW r \in Requests, NEW ok \in BOOLEAN, TimeoutFires(r, ok) PROVE IInv'
  BY <1>12 DEF TimeoutFires, Settle, Crashing
<1>13. ASSUME Stop PROVE IInv'
  BY <1>13 DEF Stop, StopSettles
<1>14. ASSUME Exit PROVE IInv'
  BY <1>14 DEF Exit
<1>16. ASSUME ListenerThrows PROVE IInv'
  BY <1>16 DEF ListenerThrows, Crashing
<1>15. ASSUME UNCHANGED vars PROVE IInv'
  BY <1>15 DEF vars
<1> QED
  BY <1>1, <1>2, <1>3, <1>4, <1>5, <1>6, <1>7, <1>8, <1>9, <1>10, <1>11, <1>12,
     <1>13, <1>14, <1>15, <1>16 DEF Next, Scan

(***************************************************************************)
(* The inductive invariant of the gate holds in every behaviour.           *)
(***************************************************************************)
THEOREM GateInductive == Spec => []IInv
<1>1. Init => IInv
  BY InitIInv
<1>2. IInv /\ [Next]_vars => IInv'
  BY StepIInv
<1> QED
  BY <1>1, <1>2, PTL DEF Spec

(***************************************************************************)
(* The variables of the gate keep their types, for any set of requests.    *)
(***************************************************************************)
THEOREM GateTypes == Spec => []TypeOK
<1>1. IInv => TypeOK
  BY DEF IInv
<1> QED
  BY <1>1, GateInductive, PTL

(***************************************************************************)
(* A held request always has its map entry and its running timer, so it    *)
(* never waits for the user alone (awaitDecision).                         *)
(***************************************************************************)
THEOREM GateHeldIsTimed == Spec => []HeldIsTimed
<1>1. IInv => HeldIsTimed
  BY DEF IInv
<1> QED
  BY <1>1, GateInductive, PTL

(***************************************************************************)
(* A prompt matched by a block rule is sent only with the user's consent   *)
(* or when a listener threw while it was being held.                       *)
(***************************************************************************)
THEOREM GateBlockNeedsConsent == Spec => []BlockNeedsConsent
<1>1. IInv => BlockNeedsConsent
  BY DEF IInv
<1> QED
  BY <1>1, GateInductive, PTL

(***************************************************************************)
(* Once the user's answer settled a request nothing overrides it.          *)
(***************************************************************************)
THEOREM GateAnswerWins == Spec => []AnswerWins
<1>1. IInv => AnswerWins
  BY DEF IInv
<1> QED
  BY <1>1, GateInductive, PTL

-----------------------------------------------------------------------------
(***************************************************************************)
(* The refinement.  Each step of the gate leaves every prompt that has a   *)
(* verdict, a classification or an excuse as it was (Final), gives an      *)
(* excuse only together with the verdict it excuses (NoLateExcuse), and    *)
(* sends a prompt only if it may be sent (MaySend).                        *)
(***************************************************************************)
LEMMA InitRefines == Init => Gate!Init
BY DEF Init, Gate!Init, Ended

LEMMA StepRefines == IInv /\ [Next]_vars => [Gate!Next]_(Gate!gateVars)
<1> SUFFICES ASSUME IInv, [Next]_vars PROVE Gate!Next \/ UNCHANGED Gate!gateVars
  OBVIOUS
<1>0. IInv'
  BY StepIInv
<1> USE DEF Gate!Next, Gate!Final, Gate!MaySend, Gate!NoLateExcuse, Gate!Verdicts,
            Gate!Rules, IInv, TypeOK, HeldIsTimed, Undecided, BlockDefault,
            Phases, Ended, Actions, Choices, Settlers, Verdict,
            scanVars, heldVars, End, Alive, PhaseOf
<1>1. ASSUME NEW p \in FailModes, SetPolicy(p) PROVE UNCHANGED Gate!gateVars
  BY <1>1 DEF SetPolicy, Gate!gateVars
<1>2. ASSUME NEW r \in Requests, Connect(r) PROVE Gate!Next
  BY <1>0, <1>2 DEF Connect
<1>3. ASSUME NEW r \in Requests, BlindSend(r) PROVE Gate!Next
  BY <1>0, <1>3 DEF BlindSend
<1>4. ASSUME NEW r \in Requests, Inspect(r) PROVE Gate!Next
  BY <1>0, <1>4 DEF Inspect
<1>5. ASSUME NEW r \in Requests, PassUninspected(r) PROVE Gate!Next
  BY <1>0, <1>5 DEF PassUninspected
<1>6. ASSUME NEW r \in Requests, ScanClean(r) PROVE Gate!Next
  BY <1>0, <1>6 DEF ScanClean
<1>7. ASSUME NEW r \in Requests, ScanFails(r) PROVE Gate!Next
  BY <1>0, <1>7 DEF ScanFails
<1>8. ASSUME NEW r \in Requests, NEW a \in {"warn", "block"}, Hold(r, a) PROVE Gate!Next
  BY <1>0, <1>8 DEF Hold, HoldAction
<1>9. ASSUME NEW r \in Requests, NEW a \in {"warn", "block"}, HoldThrows(r, a) PROVE Gate!Next
  BY <1>0, <1>9 DEF HoldThrows, HoldAction
<1>10. ASSUME NEW r \in Requests, NEW c \in Choices, NEW ok \in BOOLEAN,
              ResolveDecision(r, c, ok) PROVE Gate!Next
  BY <1>0, <1>10 DEF ResolveDecision, Settle, Crashing
<1>11. ASSUME NEW r \in Requests, ResolveLeaked(r) PROVE UNCHANGED Gate!gateVars
  BY <1>11 DEF ResolveLeaked, Crashing, Gate!gateVars
<1>12. ASSUME NEW r \in Requests, NEW ok \in BOOLEAN, TimeoutFires(r, ok) PROVE Gate!Next
  BY <1>0, <1>12 DEF TimeoutFires, Settle, Crashing
<1>13. ASSUME Stop PROVE Gate!Next
  BY <1>0, <1>13 DEF Stop, StopSettles
<1>14. ASSUME Exit PROVE Gate!Next
  BY <1>0, <1>14 DEF Exit
<1>16. ASSUME ListenerThrows PROVE UNCHANGED Gate!gateVars
  BY <1>16 DEF ListenerThrows, Crashing, Gate!gateVars
<1>15. ASSUME UNCHANGED vars PROVE UNCHANGED Gate!gateVars
  BY <1>15 DEF vars, Gate!gateVars
<1> QED
  BY <1>1, <1>2, <1>3, <1>4, <1>5, <1>6, <1>7, <1>8, <1>9, <1>10, <1>11, <1>12,
     <1>13, <1>14, <1>15, <1>16 DEF Next, Scan

(***************************************************************************)
(* The request path of proxy.ts implements PromptGate: verdicts, rule and  *)
(* excuse of every prompt are final, and no block-rule prompt is sent      *)
(* without an excuse.                                                      *)
(***************************************************************************)
THEOREM GateImplementsPromptGate == Spec => GateSpec
<1>1. Init => Gate!Init
  BY InitRefines
<1>2. IInv /\ [Next]_vars => [Gate!Next]_(Gate!gateVars)
  BY StepRefines
<1> QED
  BY <1>1, <1>2, GateInductive, PTL DEF Spec, GateSpec, Gate!Spec

-----------------------------------------------------------------------------
(* The desk.                                                               *)

Asked == Ended \cup {"held"}
Messages == [type : {"required", "timeout"}, req : Requests, allowed : BOOLEAN]
Answers == [req : Requests, choice : Choices]
Entries == [req : Requests,
            outcome : {"none", "allowed", "blocked", "timeout-allowed", "timeout-blocked"}]

DeskTypes ==
  /\ tray \in BOOLEAN /\ win \in {"none", "loading", "ready"} /\ visible \in BOOLEAN
  /\ lastEvent \in Requests \cup {None} /\ prompt \in Requests \cup {None}
  /\ notice \in [req : Requests \cup {None}, allowed : BOOLEAN]
  /\ inbox \in Seq(Messages)
  /\ outbox \in Seq(Answers)
  /\ hideTimers \subseteq Requests
  /\ activity \in Seq(Entries)
  /\ Len(activity) <= MaxEntries

\* What the windows know of was held once.
AskedWasHeld ==
  /\ lastEvent # None => phase[lastEvent] \in Asked
  /\ prompt # None => phase[prompt] \in Asked
  /\ \A i \in DOMAIN inbox : phase[inbox[i].req] \in Asked
  /\ \A i \in DOMAIN outbox : phase[outbox[i].req] \in Asked

\* What a message says became of a request is what became of it.
MessagesTrue ==
  \A i \in DOMAIN inbox : inbox[i].type = "timeout" =>
    phase[inbox[i].req] = IF inbox[i].allowed THEN "forwarded" ELSE "blocked"

\* Of the prompts on their way to the page the one last shown is the last.
LastIsLast ==
  \A i \in DOMAIN inbox : inbox[i].type = "required" /\ inbox[i].req # lastEvent =>
    \E j \in DOMAIN inbox : j > i /\ inbox[j] = Required(lastEvent)

Window == /\ win # "none" => lastEvent # None
          /\ win # "ready" => inbox = <<>>
          /\ notice # NoNotice => notice.req # None

PageInv == /\ Window /\ AskedWasHeld /\ MessagesTrue /\ LastIsLast
           /\ NoticeIsTrue /\ LastPromptReachesPage

DeskInv == IInv /\ DeskTypes /\ PageInv /\ OutcomeIffSettled

-----------------------------------------------------------------------------
(* Sequences.                                                              *)

LEMMA Appending ==
  ASSUME NEW S, NEW s \in Seq(S), NEW e \in S
  PROVE  /\ Append(s, e) \in Seq(S)
         /\ DOMAIN Append(s, e) = 1..(Len(s) + 1)
         /\ \A i \in DOMAIN s : i \in DOMAIN Append(s, e) /\ Append(s, e)[i] = s[i] /\ i < Len(s) + 1
         /\ Append(s, e)[Len(s) + 1] = e
         /\ Len(s) + 1 \in DOMAIN Append(s, e)
         /\ \A i \in DOMAIN Append(s, e) : i \in DOMAIN s \/ i = Len(s) + 1
OBVIOUS

LEMMA TakingHead ==
  ASSUME NEW S, NEW s \in Seq(S), s # <<>>
  PROVE  /\ Tail(s) \in Seq(S) /\ Head(s) \in S
         /\ 1 \in DOMAIN s /\ Head(s) = s[1]
         /\ \A i \in DOMAIN Tail(s) : i + 1 \in DOMAIN s /\ Tail(s)[i] = s[i + 1]
         /\ \A i \in DOMAIN s : i = 1 \/ (i - 1 \in DOMAIN Tail(s) /\ Tail(s)[i - 1] = s[i])
OBVIOUS

LEMMA Pushing ==
  ASSUME NEW S, NEW s \in Seq(S), NEW e \in S
  PROVE  /\ <<e>> \o s \in Seq(S)
         /\ \A i \in DOMAIN (<<e>> \o s) :
              \/ (<<e>> \o s)[i] = e
              \/ i - 1 \in DOMAIN s /\ (<<e>> \o s)[i] = s[i - 1]
OBVIOUS

LEMMA Capping ==
  ASSUME NEW S, NEW s \in Seq(S)
  PROVE  /\ Newest(s) \in Seq(S)
         /\ Len(Newest(s)) <= MaxEntries
         /\ \A i \in DOMAIN Newest(s) : i \in DOMAIN s /\ Newest(s)[i] = s[i]
<1> DEFINE n == IF Len(s) < MaxEntries THEN Len(s) ELSE MaxEntries
<1>1. MaxEntries \in Nat /\ Len(s) \in Nat
  BY DeskAssumption
<1>2. n \in Nat /\ n <= Len(s) /\ n <= MaxEntries
  BY <1>1
<1>3. Newest(s) = SubSeq(s, 1, n)
  BY DEF Newest
<1> HIDE DEF n
<1> QED
  BY <1>2, <1>3

-----------------------------------------------------------------------------
(* What the gate does for the desk.                                        *)

Keeps == \A r \in Requests :
  /\ phase[r] \in Ended => phase'[r] = phase[r] /\ settledBy'[r] = settledBy[r]
  /\ phase[r] \in Asked => phase'[r] \in Asked

LEMMA GateKeeps == IInv /\ [Next]_vars => Keeps
<1> SUFFICES ASSUME IInv, [Next]_vars PROVE Keeps
  OBVIOUS
<1> USE DEF IInv, TypeOK, HeldIsTimed, Keeps, Asked, Phases, Ended, Choices, Settlers,
            scanVars, heldVars, End, PhaseOf
<1>1. ASSUME NEW p \in FailModes, SetPolicy(p) PROVE Keeps
  BY <1>1 DEF SetPolicy
<1>2. ASSUME NEW r \in Requests,
             Connect(r) \/ BlindSend(r) \/ Inspect(r) \/ PassUninspected(r) PROVE Keeps
  BY <1>2 DEF Connect, BlindSend, Inspect, PassUninspected
<1>3. ASSUME NEW r \in Requests, ScanClean(r) \/ ScanFails(r) PROVE Keeps
  BY <1>3 DEF ScanClean, ScanFails
<1>4. ASSUME NEW r \in Requests, NEW a \in {"warn", "block"}, Hold(r, a) \/ HoldThrows(r, a)
      PROVE Keeps
  BY <1>4 DEF Hold, HoldThrows, HoldAction
<1>5. ASSUME NEW r \in Requests, NEW c \in Choices, NEW ok \in BOOLEAN,
             ResolveDecision(r, c, ok) PROVE Keeps
  BY <1>5 DEF ResolveDecision, Settle
<1>6. ASSUME NEW r \in Requests, ResolveLeaked(r) \/ ListenerThrows \/ UNCHANGED vars PROVE Keeps
  BY <1>6 DEF ResolveLeaked, ListenerThrows, vars
<1>7. ASSUME NEW r \in Requests, NEW ok \in BOOLEAN, TimeoutFires(r, ok) PROVE Keeps
  BY <1>7 DEF TimeoutFires, Settle
<1>8. ASSUME Stop PROVE Keeps
  BY <1>8 DEF Stop, StopSettles
<1>9. ASSUME Exit PROVE Keeps
  BY <1>9 DEF Exit
<1>10. ASSUME ListenerThrows \/ UNCHANGED vars PROVE Keeps
  BY <1>10 DEF ListenerThrows, vars
<1> QED
  BY <1>1, <1>2, <1>3, <1>4, <1>5, <1>6, <1>7, <1>8, <1>9, <1>10 DEF Next, Scan

LEMMA HoldSteps ==
  ASSUME NEW r \in Requests, NEW a \in {"warn", "block"}, DeskHold(r, a)
  PROVE  Next
BY DEF DeskHold, Next, Scan

LEMMA TimeoutSteps ==
  ASSUME NEW r \in Requests, DeskTimeout(r)
  PROVE  Next
<1>1. TimeoutFires(r, TRUE) \/ TimeoutFires(r, FALSE)
  BY DEF DeskTimeout, TimeoutFires
<1> QED
  BY <1>1 DEF Next

\* The answer the page gave first reaches the gate, or finds nothing to decide.
LEMMA DecisionSteps ==
  ASSUME DeskTypes, OnDecision
  PROVE  [Next]_vars
<1> DEFINE m == Head(outbox)
<1>1. m.req \in Requests /\ m.choice \in Choices
  <2>1. m \in Answers
    BY TakingHead DEF DeskTypes, OnDecision
  <2> QED
    BY <2>1 DEF Answers
<1>2. CASE ResolveDecision(m.req, m.choice, TrayUsable)
  <2>1. \/ ResolveDecision(m.req, m.choice, TRUE) 
        \/ ResolveDecision(m.req, m.choice, FALSE)
    BY <1>2 DEF ResolveDecision
  <2> QED
    BY <1>1, <2>1 DEF Next
<1>3. CASE UNCHANGED vars \/ ListenerThrows
  BY <1>3 DEF Next
<1>4. CASE ResolveLeaked(m.req)
  BY <1>1, <1>4 DEF Next
<1> QED
  BY <1>2, <1>3, <1>4 DEF OnDecision

\* The steps of the gate that no listener hears.
Unheard == GateOnly \/ \E r \in Requests : ScanUnheard(r)

\* A step of the desk is a step of the gate, or leaves the gate alone.
LEMMA DeskStepsGate == DeskTypes /\ [DeskNext]_allVars => [Next]_vars
<1> SUFFICES ASSUME DeskTypes, [DeskNext]_allVars PROVE [Next]_vars
  OBVIOUS
<1>1. CASE Unheard
  BY <1>1 DEF Unheard, ScanUnheard, GateOnly, Next, Scan
<1>2. CASE DeskExit
  BY <1>2 DEF DeskExit, Next
<1>3. CASE \E r \in Requests : \/ \E a \in {"warn", "block"} : DeskHold(r, a)
                               \/ DeskTimeout(r)
  BY <1>3, HoldSteps, TimeoutSteps
<1>4. CASE OnDecision
  BY <1>4, DecisionSteps
<1>5. CASE \/ RendererReady \/ RendererReceives \/ CloseDecisionWindow \/ CloseTray
           \/ (\E c \in Choices : UserResponds(c))
           \/ (\E r \in Requests : HideTimerFires(r))
           \/ UNCHANGED allVars
  BY <1>5 DEF RendererReady, RendererReceives, CloseDecisionWindow, CloseTray, UserResponds,
              HideTimerFires, allVars, vars
<1> QED
  BY <1>1, <1>2, <1>3, <1>4, <1>5 DEF DeskNext, DeskScan, Unheard

-----------------------------------------------------------------------------
(* Types.                                                                  *)

LEMMA Nothing ==
  /\ \A S : <<>> \in Seq(S)
  /\ Len(<<>>) = 0 /\ DOMAIN <<>> = {}
  /\ NoNotice \in [req : Requests \cup {None}, allowed : BOOLEAN]
<1>1. NoNotice \in [req : Requests \cup {None}, allowed : BOOLEAN]
  BY DEF NoNotice
<1>2. (\A S : <<>> \in Seq(S)) /\ Len(<<>>) = 0 /\ DOMAIN <<>> = {}
  OBVIOUS
<1> QED
  BY <1>1, <1>2

LEMMA TypesInit == DeskInit => DeskTypes
<1> SUFFICES ASSUME DeskInit PROVE DeskTypes
  OBVIOUS
<1>1. Len(activity) <= MaxEntries
  BY Nothing, DeskAssumption DEF DeskInit
<1>2. inbox \in Seq(Messages) /\ outbox \in Seq(Answers) /\ activity \in Seq(Entries)
  BY Nothing DEF DeskInit
<1> QED
  BY <1>1, <1>2, Nothing DEF DeskInit, DeskTypes

\* The list of activities: a new entry in front, or an outcome written.
LEMMA RecordTypes ==
  ASSUME activity \in Seq(Entries), NEW r \in Requests, RecordActivity(r)
  PROVE  activity' \in Seq(Entries) /\ Len(activity') <= MaxEntries
<1> DEFINE e == [req |-> r, outcome |-> "none"]
<1>1. e \in Entries
  BY DEF Entries
<1>2. <<e>> \o activity \in Seq(Entries)
  BY <1>1, Pushing
<1> HIDE DEF e
<1>3. Newest(<<e>> \o activity) \in Seq(Entries) /\ Len(Newest(<<e>> \o activity)) <= MaxEntries
  BY <1>2, Capping
<1> QED
  BY <1>3 DEF RecordActivity, e

LEMMA OutcomeTypes ==
  ASSUME activity \in Seq(Entries), Len(activity) <= MaxEntries, NEW r \in Requests,
         NEW o \in {"allowed", "blocked", "timeout-allowed", "timeout-blocked"},
         SetActivityOutcome(r, o)
  PROVE  activity' \in Seq(Entries) /\ Len(activity') <= MaxEntries
<1>1. \A i \in DOMAIN activity : activity[i] \in Entries
  OBVIOUS
<1>2. \A i \in DOMAIN activity : activity'[i] \in Entries
  BY <1>1 DEF SetActivityOutcome, Entries
<1>3. /\ activity' = [i \in 1..Len(activity) |-> activity'[i]]
      /\ Len(activity) \in Nat /\ DOMAIN activity = 1..Len(activity)
  BY DEF SetActivityOutcome
<1>4. activity' \in Seq(Entries)
  BY <1>2, <1>3
<1>5. Len(activity') = Len(activity)
  BY <1>3, <1>4
<1> QED
  BY <1>4, <1>5

\* A message added to the inbox.
LEMMA TellTypes ==
  ASSUME inbox \in Seq(Messages), NEW ty \in {"required", "timeout"}, NEW r \in Requests,
         NEW b \in BOOLEAN
  PROVE  Append(inbox, [type |-> ty, req |-> r, allowed |-> b]) \in Seq(Messages)
<1>1. [type |-> ty, req |-> r, allowed |-> b] \in Messages
  BY DEF Messages
<1> QED
  BY <1>1, Appending

LEMMA ShowTypes ==
  ASSUME DeskTypes, NEW r \in Requests, NEW a \in {"warn", "block"}, DeskHold(r, a)
  PROVE  DeskTypes'
<1>1. activity' \in Seq(Entries) /\ Len(activity') <= MaxEntries
  BY RecordTypes DEF DeskTypes, DeskHold
<1>2. inbox' \in Seq(Messages)
  <2>1. Append(inbox, Required(r)) \in Seq(Messages)
    BY TellTypes DEF DeskTypes, Required
  <2> QED
    BY <2>1 DEF DeskTypes, DeskHold, ShowDecisionWindow
<1> QED
  BY <1>1, <1>2 DEF DeskTypes, DeskHold, ShowDecisionWindow

LEMMA TimeoutTypes ==
  ASSUME DeskTypes, NEW r \in Requests, DeskTimeout(r)
  PROVE  DeskTypes'
<1> DEFINE allowed == onTimeout[r] = "allow"
<1>1. activity' \in Seq(Entries) /\ Len(activity') <= MaxEntries
  BY OutcomeTypes DEF DeskTypes, DeskTimeout
<1>2. inbox' \in Seq(Messages)
  <2>1. Append(inbox, [type |-> "timeout", req |-> r, allowed |-> allowed]) \in Seq(Messages)
    <3>1. allowed \in BOOLEAN
      OBVIOUS
    <3> HIDE DEF allowed
    <3> QED
      BY <3>1, TellTypes DEF DeskTypes
  <2> QED
    BY <2>1 DEF DeskTypes, DeskTimeout, ShowDecisionTimeout, pageVars
<1> QED
  BY <1>1, <1>2 DEF DeskTypes, DeskTimeout, ShowDecisionTimeout, windowVars, pageVars

LEMMA TypesStep == DeskTypes /\ Window /\ [DeskNext]_allVars => DeskTypes'
<1> SUFFICES ASSUME DeskTypes, Window, [DeskNext]_allVars PROVE DeskTypes'
  OBVIOUS
<1>1. CASE Unheard \/ UNCHANGED allVars \/ CloseTray \/ (\E r \in Requests : HideTimerFires(r))
  BY <1>1 DEF DeskTypes, Unheard, ScanUnheard, GateOnly, CloseTray, HideTimerFires, allVars, deskVars, windowVars, pageVars
<1>2. CASE DeskExit \/ CloseDecisionWindow
  <2>1. inbox' \in Seq(Messages) /\ outbox' \in Seq(Answers)
    BY <1>2, Nothing DEF DeskTypes, DeskExit, CloseDecisionWindow
  <2> QED
    BY <1>2, <2>1, Nothing DEF DeskTypes, DeskExit, CloseDecisionWindow
<1>3. CASE \E r \in Requests : \/ \E a \in {"warn", "block"} : DeskHold(r, a)
                               \/ DeskTimeout(r)
  BY <1>3, ShowTypes, TimeoutTypes
<1>4. CASE RendererReady
  <2>1. lastEvent \in Requests
    BY <1>4 DEF RendererReady, Window, DeskTypes
  <2>2. Append(inbox, Required(lastEvent)) \in Seq(Messages)
    BY <2>1, TellTypes DEF DeskTypes, Required
  <2> QED
    BY <1>4, <2>2 DEF DeskTypes, RendererReady
<1>5. CASE RendererReceives
  <2>1. Tail(inbox) \in Seq(Messages) /\ Head(inbox) \in Messages
    BY <1>5, TakingHead DEF DeskTypes, RendererReceives
  <2>2. /\ prompt' \in Requests \cup {None}
        /\ notice' \in [req : Requests \cup {None}, allowed : BOOLEAN]
    BY <1>5, <2>1, Nothing DEF DeskTypes, RendererReceives, Messages
  <2> QED
    BY <1>5, <2>1, <2>2 DEF DeskTypes, RendererReceives, windowVars
<1>6. ASSUME NEW c \in Choices, UserResponds(c) PROVE DeskTypes'
  <2>1. [req |-> prompt, choice |-> c] \in Answers
    BY <1>6 DEF UserResponds, DeskTypes, Answers
  <2>2. Append(outbox, [req |-> prompt, choice |-> c]) \in Seq(Answers)
    BY <2>1, Appending DEF DeskTypes
  <2> QED
    BY <1>6, <2>2 DEF DeskTypes, UserResponds, windowVars
<1>7. CASE OnDecision
  <2>1. Tail(outbox) \in Seq(Answers) /\ Head(outbox) \in Answers
    BY <1>7, TakingHead DEF DeskTypes, OnDecision
  <2>2. Head(outbox).req \in Requests
    BY <2>1 DEF Answers
  <2>3. activity' \in Seq(Entries) /\ Len(activity') <= MaxEntries
    BY <1>7, <2>2, OutcomeTypes DEF DeskTypes, OnDecision
  <2> QED
    BY <1>7, <2>1, <2>3 DEF DeskTypes, OnDecision, pageVars
<1> QED
  BY <1>1, <1>2, <1>3, <1>4, <1>5, <1>6, <1>7 DEF DeskNext, DeskScan, Unheard

-----------------------------------------------------------------------------
(* The page.  Its steps fall in groups by what they change; the facts each *)
(* group is used with are its hypotheses.                                  *)

LEMMA PageInit == DeskInit => PageInv
<1> SUFFICES ASSUME DeskInit PROVE PageInv
  OBVIOUS
<1>1. DOMAIN inbox = {} /\ DOMAIN outbox = {}
  BY Nothing DEF DeskInit
<1> QED
  BY <1>1 DEF DeskInit, PageInv, Window, AskedWasHeld, MessagesTrue, LastIsLast,
              NoticeIsTrue, LastPromptReachesPage

\* A request that is held now and of which the windows know was held before.
LEMMA WasHeld ==
  ASSUME Keeps, NEW r \in Requests, phase[r] \in Asked, phase'[r] = "held"
  PROVE  phase[r] = "held"
BY DEF Keeps, Asked, Ended

\* What is true of a notice, or of a message, stays true.
LEMMA NoticeStays ==
  ASSUME Keeps, DeskTypes, Window, NoticeIsTrue, notice' = notice
  PROVE  NoticeIsTrue'
<1> SUFFICES ASSUME notice # NoNotice
             PROVE phase'[notice.req] = IF notice.allowed THEN "forwarded" ELSE "blocked"
  BY DEF NoticeIsTrue
<1>1. phase[notice.req] = IF notice.allowed THEN "forwarded" ELSE "blocked"
  BY DEF NoticeIsTrue
<1>2. notice.req \in Requests
  BY DEF DeskTypes, Window
<1>3. phase[notice.req] \in Ended
  BY <1>1 DEF Ended
<1> QED
  BY <1>1, <1>2, <1>3 DEF Keeps

LEMMA MessagesStay ==
  ASSUME Keeps, DeskTypes, AskedWasHeld, MessagesTrue, NEW i \in DOMAIN inbox
  PROVE  /\ phase'[inbox[i].req] \in Asked
         /\ inbox[i].type = "timeout" =>
              phase'[inbox[i].req] = IF inbox[i].allowed THEN "forwarded" ELSE "blocked"
<1>1. inbox[i] \in Messages
  BY DEF DeskTypes
<1>2. inbox[i].req \in Requests
  BY <1>1 DEF Messages
<1>3. phase'[inbox[i].req] \in Asked
  BY <1>2 DEF Keeps, AskedWasHeld
<1>4. ASSUME inbox[i].type = "timeout"
      PROVE  phase'[inbox[i].req] = IF inbox[i].allowed THEN "forwarded" ELSE "blocked"
  <2>1. phase[inbox[i].req] = IF inbox[i].allowed THEN "forwarded" ELSE "blocked"
    BY <1>4 DEF MessagesTrue
  <2>2. phase[inbox[i].req] \in Ended
    BY <2>1 DEF Ended
  <2> QED
    BY <1>2, <2>1, <2>2 DEF Keeps
<1> QED
  BY <1>3, <1>4

LEMMA AnswersStay ==
  ASSUME Keeps, DeskTypes, AskedWasHeld
  PROVE  /\ \A i \in DOMAIN outbox : outbox[i].req \in Requests /\ phase'[outbox[i].req] \in Asked
         /\ lastEvent # None => phase'[lastEvent] \in Asked
         /\ prompt # None => phase'[prompt] \in Asked
<1>1. ASSUME NEW i \in DOMAIN outbox
      PROVE  outbox[i].req \in Requests /\ phase'[outbox[i].req] \in Asked
  <2>1. outbox[i] \in Answers
    BY DEF DeskTypes
  <2>2. outbox[i].req \in Requests
    BY <2>1 DEF Answers
  <2> QED
    BY <2>2 DEF Keeps, AskedWasHeld
<1> QED
  BY <1>1 DEF Keeps, AskedWasHeld, DeskTypes

\* The gate's own steps, the tray, and a hidden window: no message and no page changes.
LEMMA PageQuiet ==
  ASSUME Keeps, DeskTypes, PageInv,
         UNCHANGED <<win, lastEvent, prompt, notice, inbox, outbox>>
  PROVE  PageInv'
<1> USE DEF PageInv
<1>1. Window' /\ LastIsLast'
  BY DEF Window, LastIsLast
<1>2. AskedWasHeld' /\ MessagesTrue'
  BY MessagesStay, AnswersStay DEF AskedWasHeld, MessagesTrue
<1>3. NoticeIsTrue'
  BY NoticeStays
<1>4. LastPromptReachesPage'
  <2> SUFFICES ASSUME win = "ready", lastEvent # None, phase'[lastEvent] = "held"
               PROVE (prompt = lastEvent \/ Asking(lastEvent) \/ Answered(lastEvent))'
    BY DEF LastPromptReachesPage
  <2>1. phase[lastEvent] = "held"
    BY WasHeld DEF AskedWasHeld, DeskTypes
  <2> QED
    BY <2>1 DEF LastPromptReachesPage, Asking, Answered
<1> QED
  BY <1>1, <1>2, <1>3, <1>4

\* A window or the process ends: nothing is on its way any more.
LEMMA PageGone ==
  ASSUME Keeps, DeskTypes, PageInv,
         win' = "none", prompt' = None, notice' = NoNotice, inbox' = <<>>,
         lastEvent' = lastEvent, outbox' = <<>> \/ outbox' = outbox
  PROVE  PageInv'
<1> USE DEF PageInv
<1>0. DOMAIN inbox' = {}
  BY Nothing
<1>1. Window'
  BY DEF Window
<1>2. AskedWasHeld'
  <2>1. \A i \in DOMAIN outbox' : phase'[outbox'[i].req] \in Asked
    BY Nothing, AnswersStay
  <2> QED
    BY <1>0, <2>1, AnswersStay DEF AskedWasHeld
<1> QED
  BY <1>0, <1>1, <1>2 DEF MessagesTrue, LastIsLast, NoticeIsTrue, LastPromptReachesPage

\* The order of the prompts, and what is true of the messages, when one more is posted:
\* a prompt for the request now shown, or a word on how a request ended.
LEMMA OneMore ==
  ASSUME Keeps, DeskTypes, AskedWasHeld, MessagesTrue, NEW m \in Messages,
         inbox' = Append(inbox, m), phase'[m.req] \in Asked,
         m.type = "timeout" => phase'[m.req] = IF m.allowed THEN "forwarded" ELSE "blocked"
  PROVE  /\ MessagesTrue'
         /\ \A i \in DOMAIN inbox' : phase'[inbox'[i].req] \in Asked
<1>1. /\ \A i \in DOMAIN inbox : inbox'[i] = inbox[i]
      /\ \A i \in DOMAIN inbox' : i \in DOMAIN inbox \/ inbox'[i] = m
  BY Appending DEF DeskTypes
<1> QED
  BY <1>1, MessagesStay DEF MessagesTrue

\* A request is held: the windows show it, and a page that is up is told last of all.
LEMMA PageHold ==
  ASSUME Keeps, DeskTypes, PageInv, NEW r \in Requests, phase'[r] \in Asked,
         ShowDecisionWindow(r), outbox' = outbox
  PROVE  PageInv'
<1> USE DEF PageInv
<1>n. r # None
  BY DeskAssumption
<1>r. Required(r) \in Messages /\ Required(r).req = r /\ Required(r).type = "required"
  BY DEF Required, Messages
<1>s. notice' = notice /\ prompt' = prompt /\ lastEvent' = r
  BY DEF ShowDecisionWindow
<1>3. NoticeIsTrue'
  BY <1>s, NoticeStays
<1>4. CASE win = "ready"
  <2>0. win' = "ready" /\ inbox' = Append(inbox, Required(r))
    BY <1>4 DEF ShowDecisionWindow
  <2>1. Window'
    BY <1>n, <1>s, <2>0 DEF Window
  <2>2. MessagesTrue' /\ \A i \in DOMAIN inbox' : phase'[inbox'[i].req] \in Asked
    BY <1>r, <2>0, OneMore
  <2>3. AskedWasHeld'
    BY <1>s, <2>2, AnswersStay DEF AskedWasHeld
  <2>4. \E j \in DOMAIN inbox' : /\ inbox'[j] = Required(r)
                                 /\ \A i \in DOMAIN inbox' : i = j \/ j > i
    <3>1. /\ Len(inbox) + 1 \in DOMAIN inbox' /\ inbox'[Len(inbox) + 1] = Required(r)
          /\ \A i \in DOMAIN inbox' : i \in DOMAIN inbox \/ i = Len(inbox) + 1
          /\ \A i \in DOMAIN inbox : i < Len(inbox) + 1
      BY <1>r, <2>0, Appending DEF DeskTypes
    <3>2. Len(inbox) \in Nat /\ DOMAIN inbox = 1..Len(inbox)
      BY DEF DeskTypes
    <3> QED
      BY <3>1, <3>2
  <2>5. Required(lastEvent)' = Required(r)
    BY <1>s DEF Required
  <2>6. LastIsLast'
    BY <1>r, <1>s, <2>4, <2>5 DEF LastIsLast
  <2>7. LastPromptReachesPage'
    BY <1>s, <2>4, <2>5 DEF LastPromptReachesPage, Asking
  <2> QED
    BY <1>3, <2>1, <2>2, <2>3, <2>6, <2>7
<1>5. CASE win # "ready"
  <2>0. win' # "ready" /\ inbox' = <<>>
    BY <1>5 DEF ShowDecisionWindow, Window
  <2>1. DOMAIN inbox' = {}
    BY <2>0, Nothing
  <2>2. Window'
    BY <1>n, <1>s, <2>0 DEF Window
  <2>3. AskedWasHeld'
    BY <1>s, <2>1, AnswersStay DEF AskedWasHeld
  <2> QED
    BY <1>3, <2>0, <2>1, <2>2, <2>3 DEF MessagesTrue, LastIsLast, LastPromptReachesPage
<1> QED
  BY <1>4, <1>5

\* The timer settled a request: the page is told, if it shows that request.
LEMMA PageTimeout ==
  ASSUME Keeps, DeskTypes, PageInv, NEW r \in Requests, NEW b \in BOOLEAN,
         phase'[r] = IF b THEN "forwarded" ELSE "blocked",
         ShowDecisionTimeout(r, b), outbox' = outbox
  PROVE  PageInv'
<1> USE DEF PageInv
<1> DEFINE m == [type |-> "timeout", req |-> r, allowed |-> b]
<1>s. UNCHANGED <<win, lastEvent, prompt, notice>>
  BY DEF ShowDecisionTimeout, windowVars, pageVars
<1>m. m \in Messages /\ m.type = "timeout" /\ m.req = r /\ m.allowed = b
  BY DEF Messages
<1>p. phase'[r] \in Asked
  BY DEF Asked, Ended
<1>1. CASE inbox' = inbox
  BY <1>1, <1>s, PageQuiet
<1>2. CASE win = "ready" /\ inbox' = Append(inbox, m)
  <2> HIDE DEF m
  <2>1. Window'
    BY <1>s, <1>2 DEF Window
  <2>2. MessagesTrue' /\ \A i \in DOMAIN inbox' : phase'[inbox'[i].req] \in Asked
    BY <1>m, <1>p, <1>2, OneMore
  <2>3. AskedWasHeld'
    BY <1>s, <2>2, AnswersStay DEF AskedWasHeld
  <2>4. /\ \A i \in DOMAIN inbox : i \in DOMAIN inbox' /\ inbox'[i] = inbox[i]
        /\ \A i \in DOMAIN inbox' : i \in DOMAIN inbox \/ inbox'[i] = m
    BY <1>m, <1>2, Appending DEF DeskTypes
  <2>5. Required(lastEvent)' = Required(lastEvent)
    BY <1>s DEF Required
  <2>6. LastIsLast'
    BY <1>s, <1>m, <2>4, <2>5 DEF LastIsLast
  <2>7. NoticeIsTrue'
    BY <1>s, NoticeStays
  <2>8. LastPromptReachesPage'
    <3> SUFFICES ASSUME lastEvent # None, phase'[lastEvent] = "held"
                 PROVE (prompt = lastEvent \/ Asking(lastEvent) \/ Answered(lastEvent))'
      BY <1>s DEF LastPromptReachesPage
    <3>1. phase[lastEvent] = "held"
      BY WasHeld DEF AskedWasHeld, DeskTypes
    <3>2. prompt = lastEvent \/ Asking(lastEvent) \/ Answered(lastEvent)
      BY <1>2, <3>1 DEF LastPromptReachesPage
    <3>3. Asking(lastEvent) => Asking(lastEvent)'
      BY <2>4, <2>5 DEF Asking
    <3> QED
      BY <1>s, <3>2, <3>3 DEF Answered
  <2> QED
    BY <2>1, <2>2, <2>3, <2>6, <2>7, <2>8
<1> QED
  BY <1>1, <1>2 DEF ShowDecisionTimeout, pageVars

\* The page says it is ready and is told what the window was shown for.
LEMMA PageReady ==
  ASSUME Keeps, DeskTypes, PageInv, RendererReady
  PROVE  PageInv'
<1>1. lastEvent \in Requests /\ inbox = <<>>
  BY DEF RendererReady, PageInv, Window, DeskTypes
<1>2. UNCHANGED <<lastEvent, prompt, notice, outbox>> /\ win' = "ready"
  BY DEF RendererReady
<1>3. Required(lastEvent) \in Messages /\ Required(lastEvent).req = lastEvent
      /\ Required(lastEvent).type = "required" /\ Required(lastEvent)' = Required(lastEvent)
  BY <1>1, <1>2 DEF Required, Messages
<1>4. inbox' = Append(inbox, Required(lastEvent))
  BY DEF RendererReady
<1>5. phase'[lastEvent] \in Asked
  BY <1>1, DeskAssumption, AnswersStay DEF PageInv
<1>6. MessagesTrue' /\ \A i \in DOMAIN inbox' : phase'[inbox'[i].req] \in Asked
  BY <1>3, <1>4, <1>5, OneMore DEF PageInv
<1>7. AskedWasHeld'
  BY <1>2, <1>6, AnswersStay DEF AskedWasHeld, PageInv
<1>8. 1 \in DOMAIN inbox' /\ \A i \in DOMAIN inbox' : inbox'[i] = Required(lastEvent)
  <2>1. inbox' = <<Required(lastEvent)>>
    BY <1>1, <1>4
  <2> QED
    BY <2>1
<1>9. LastIsLast' /\ LastPromptReachesPage'
  BY <1>2, <1>3, <1>8 DEF LastIsLast, LastPromptReachesPage, Asking
<1>10. NoticeIsTrue' /\ Window'
  BY <1>1, <1>2, NoticeStays, DeskAssumption DEF PageInv, Window
<1> QED
  BY <1>6, <1>7, <1>9, <1>10 DEF PageInv

\* The page takes a message: of two prompts the one last shown comes last.
LEMMA PageReceives ==
  ASSUME Keeps, DeskTypes, PageInv, RendererReceives
  PROVE  PageInv'
<1> USE DEF PageInv
<1> DEFINE m == Head(inbox)
<1>s. UNCHANGED <<win, lastEvent, outbox>> /\ inbox' = Tail(inbox)
  BY DEF RendererReceives, windowVars
<1>h. /\ 1 \in DOMAIN inbox /\ m = inbox[1] /\ m \in Messages
      /\ \A i \in DOMAIN inbox' : i + 1 \in DOMAIN inbox /\ inbox'[i] = inbox[i + 1]
      /\ \A i \in DOMAIN inbox : i = 1 \/ (i - 1 \in DOMAIN inbox' /\ inbox'[i - 1] = inbox[i])
  BY <1>s, TakingHead DEF RendererReceives, DeskTypes
<1>d. DOMAIN inbox \subseteq Nat /\ DOMAIN inbox' \subseteq Nat
  BY <1>s, TakingHead DEF DeskTypes, RendererReceives
<1>w. win = "ready"
  BY DEF RendererReceives, Window
<1> HIDE DEF m
<1>r. m.req \in Requests /\ phase'[m.req] \in Asked
  BY <1>h, MessagesStay DEF Messages
<1>c. \/ m.type = "required" /\ prompt' = m.req /\ notice' = NoNotice
      \/ m.type = "timeout" /\ prompt' = prompt
         /\ notice' = [req |-> m.req, allowed |-> m.allowed]
  BY DEF RendererReceives, m
<1>1. Window'
  BY <1>s, <1>w, <1>c, <1>r, DeskAssumption DEF Window
<1>2. MessagesTrue' /\ \A i \in DOMAIN inbox' : phase'[inbox'[i].req] \in Asked
  BY <1>h, MessagesStay DEF MessagesTrue
<1>3. AskedWasHeld'
  BY <1>s, <1>c, <1>r, <1>2, AnswersStay DEF AskedWasHeld
<1>4. NoticeIsTrue'
  <2>1. CASE m.type = "required" /\ notice' = NoNotice
    BY <2>1 DEF NoticeIsTrue
  <2>2. CASE m.type = "timeout" /\ notice' = [req |-> m.req, allowed |-> m.allowed]
    <3>1. phase'[m.req] = IF m.allowed THEN "forwarded" ELSE "blocked"
      BY <1>h, <2>2, MessagesStay
    <3>2. notice'.req = m.req /\ notice'.allowed = m.allowed
      BY <2>2
    <3> QED
      BY <3>1, <3>2 DEF NoticeIsTrue
  <2> QED
    BY <1>c, <2>1, <2>2
<1>q. Required(lastEvent)' = Required(lastEvent)
  BY <1>s DEF Required
<1>5. LastIsLast'
  <2> SUFFICES ASSUME NEW i \in DOMAIN inbox', inbox'[i].type = "required",
                      inbox'[i].req # lastEvent
               PROVE  \E j \in DOMAIN inbox' : j > i /\ inbox'[j] = Required(lastEvent)
    BY <1>s, <1>q DEF LastIsLast
  <2>1. PICK k \in DOMAIN inbox : k > i + 1 /\ inbox[k] = Required(lastEvent)
    BY <1>h DEF LastIsLast
  <2>2. i \in Nat /\ k \in Nat
    BY <1>d
  <2>3. i >= 1
    BY <1>s, TakingHead DEF DeskTypes, RendererReceives
  <2>4. k # 1 /\ k - 1 > i
    BY <2>1, <2>2, <2>3
  <2> QED
    BY <1>h, <2>1, <2>4
<1>6. LastPromptReachesPage'
  <2> SUFFICES ASSUME lastEvent # None, phase'[lastEvent] = "held"
               PROVE (prompt = lastEvent \/ Asking(lastEvent) \/ Answered(lastEvent))'
    BY <1>s DEF LastPromptReachesPage
  <2>1. phase[lastEvent] = "held"
    BY WasHeld DEF AskedWasHeld, DeskTypes
  <2>2. prompt = lastEvent \/ Asking(lastEvent) \/ Answered(lastEvent)
    BY <1>w, <2>1 DEF LastPromptReachesPage
  <2>3. ASSUME NEW k \in DOMAIN inbox, k # 1, inbox[k] = Required(lastEvent)
        PROVE  Asking(lastEvent)'
    BY <1>h, <1>q, <2>3 DEF Asking
  <2>4. CASE Answered(lastEvent)
    BY <1>s, <2>4 DEF Answered
  <2>5. CASE m.type = "required" /\ prompt' = m.req
    <3>1. CASE m.req = lastEvent
      BY <1>s, <2>5, <3>1
    <3>2. CASE m.req # lastEvent
      <4>1. PICK k \in DOMAIN inbox : k > 1 /\ inbox[k] = Required(lastEvent)
        BY <1>h, <2>5, <3>2 DEF LastIsLast
      <4> QED
        BY <2>3, <4>1
    <3> QED
      BY <3>1, <3>2
  <2>6. CASE m.type = "timeout" /\ prompt' = prompt
    <3>1. CASE prompt = lastEvent
      BY <1>s, <2>6, <3>1
    <3>2. CASE Asking(lastEvent)
      <4>1. PICK k \in DOMAIN inbox : inbox[k] = Required(lastEvent)
        BY <3>2 DEF Asking
      <4>2. k # 1
        BY <1>h, <2>6, <4>1 DEF Required
      <4> QED
        BY <2>3, <4>1, <4>2
    <3> QED
      BY <2>2, <2>4, <3>1, <3>2
  <2> QED
    BY <1>c, <2>5, <2>6
<1> QED
  BY <1>1, <1>2, <1>3, <1>4, <1>5, <1>6

\* The user answers the prompt on the page.
LEMMA PageResponds ==
  ASSUME Keeps, DeskTypes, PageInv, NEW c \in Choices, UserResponds(c)
  PROVE  PageInv'
<1> USE DEF PageInv
<1> DEFINE m == [req |-> prompt, choice |-> c]
<1>s. UNCHANGED <<win, lastEvent, notice, inbox>> /\ prompt' = None
      /\ outbox' = Append(outbox, m) /\ prompt # None
  BY DEF UserResponds, windowVars
<1>m. m \in Answers /\ m.req = prompt
  BY <1>s DEF Answers, DeskTypes
<1> HIDE DEF m
<1>h. /\ \A i \in DOMAIN outbox : i \in DOMAIN outbox' /\ outbox'[i] = outbox[i]
      /\ \A i \in DOMAIN outbox' : i \in DOMAIN outbox \/ outbox'[i] = m
      /\ Len(outbox) + 1 \in DOMAIN outbox' /\ outbox'[Len(outbox) + 1] = m
  BY <1>s, <1>m, Appending DEF DeskTypes
<1>1. Window' /\ LastIsLast'
  BY <1>s DEF Window, LastIsLast, Required
<1>2. AskedWasHeld' /\ MessagesTrue'
  BY <1>s, <1>m, <1>h, MessagesStay, AnswersStay DEF AskedWasHeld, MessagesTrue
<1>3. NoticeIsTrue'
  BY <1>s, NoticeStays
<1>4. LastPromptReachesPage'
  <2> SUFFICES ASSUME win = "ready", lastEvent # None, phase'[lastEvent] = "held"
               PROVE (prompt = lastEvent \/ Asking(lastEvent) \/ Answered(lastEvent))'
    BY <1>s DEF LastPromptReachesPage
  <2>1. phase[lastEvent] = "held"
    BY WasHeld DEF AskedWasHeld, DeskTypes
  <2>2. CASE prompt = lastEvent
    BY <1>s, <1>m, <1>h, <2>2 DEF Answered
  <2>3. CASE Answered(lastEvent)
    BY <1>s, <1>h, <2>3 DEF Answered
  <2>4. CASE Asking(lastEvent)
    BY <1>s, <2>4 DEF Asking, Required
  <2> QED
    BY <2>1, <2>2, <2>3, <2>4 DEF LastPromptReachesPage
<1> QED
  BY <1>1, <1>2, <1>3, <1>4

\* The answer reaches the gate: its request is not held afterwards.
LEMMA PageDecides ==
  ASSUME IInv, Keeps, DeskTypes, PageInv, OnDecision
  PROVE  PageInv'
<1> USE DEF PageInv
<1> DEFINE m == Head(outbox)
<1>s. UNCHANGED <<win, lastEvent, prompt, notice, inbox>> /\ outbox' = Tail(outbox)
  BY DEF OnDecision, pageVars
<1>h. /\ 1 \in DOMAIN outbox /\ m = outbox[1] /\ m \in Answers
      /\ \A i \in DOMAIN outbox' : i + 1 \in DOMAIN outbox /\ outbox'[i] = outbox[i + 1]
      /\ \A i \in DOMAIN outbox : i = 1 \/ (i - 1 \in DOMAIN outbox' /\ outbox'[i - 1] = outbox[i])
  BY <1>s, TakingHead DEF OnDecision, DeskTypes
<1>r. m.req \in Requests /\ m.choice \in Choices
  BY <1>h DEF Answers
<1>e. phase'[m.req] # "held"
  <2>1. CASE ResolveDecision(m.req, m.choice, TrayUsable)
    BY <1>r, <2>1 DEF ResolveDecision, Settle, End, PhaseOf, IInv, TypeOK
  <2>2. CASE m.req \notin pending /\ (UNCHANGED vars \/ ListenerThrows)
    BY <1>r, <2>2 DEF IInv, HeldIsTimed, ListenerThrows, vars
  <2>3. CASE ResolveLeaked(m.req)
    BY <1>r, <2>3 DEF IInv, HeldIsTimed, ResolveLeaked
  <2> QED
    BY <2>1, <2>2, <2>3 DEF OnDecision
<1> HIDE DEF m
<1>1. Window' /\ LastIsLast'
  BY <1>s DEF Window, LastIsLast, Required
<1>2. AskedWasHeld' /\ MessagesTrue'
  BY <1>s, <1>h, MessagesStay, AnswersStay DEF AskedWasHeld, MessagesTrue
<1>3. NoticeIsTrue'
  BY <1>s, NoticeStays
<1>4. LastPromptReachesPage'
  <2> SUFFICES ASSUME win = "ready", lastEvent # None, phase'[lastEvent] = "held"
               PROVE (prompt = lastEvent \/ Asking(lastEvent) \/ Answered(lastEvent))'
    BY <1>s DEF LastPromptReachesPage
  <2>1. phase[lastEvent] = "held"
    BY WasHeld DEF AskedWasHeld, DeskTypes
  <2>2. CASE prompt = lastEvent
    BY <1>s, <2>2
  <2>3. CASE Answered(lastEvent)
    <3>1. PICK k \in DOMAIN outbox : outbox[k].req = lastEvent
      BY <2>3 DEF Answered
    <3>2. k # 1
      BY <1>h, <1>e, <3>1
    <3> QED
      BY <1>s, <1>h, <3>1, <3>2 DEF Answered
  <2>4. CASE Asking(lastEvent)
    BY <1>s, <2>4 DEF Asking, Required
  <2> QED
    BY <2>1, <2>2, <2>3, <2>4 DEF LastPromptReachesPage
<1> QED
  BY <1>1, <1>2, <1>3, <1>4

LEMMA PageStep == DeskInv /\ [DeskNext]_allVars => PageInv'
<1> SUFFICES ASSUME DeskInv, [DeskNext]_allVars PROVE PageInv'
  OBVIOUS
<1>k. Keeps
  BY GateKeeps, DeskStepsGate DEF DeskInv
<1> USE <1>k DEF DeskInv
<1>1. CASE Unheard \/ UNCHANGED allVars \/ CloseTray \/ (\E r \in Requests : HideTimerFires(r))
  <2>1. UNCHANGED <<win, lastEvent, prompt, notice, inbox, outbox>>
    BY <1>1 DEF Unheard, ScanUnheard, GateOnly, CloseTray, HideTimerFires, allVars, deskVars, windowVars, pageVars
  <2> QED
    BY <2>1, PageQuiet
<1>2. CASE DeskExit \/ CloseDecisionWindow
  <2>1. /\ win' = "none" /\ prompt' = None /\ notice' = NoNotice /\ inbox' = <<>>
        /\ lastEvent' = lastEvent /\ (outbox' = <<>> \/ outbox' = outbox)
    BY <1>2 DEF DeskExit, CloseDecisionWindow
  <2> QED
    BY <2>1, PageGone
<1>3. ASSUME NEW r \in Requests, NEW a \in {"warn", "block"}, DeskHold(r, a) PROVE PageInv'
  <2>1. phase'[r] \in Asked
    BY <1>3 DEF DeskHold, Hold, HoldThrows, HoldAction, End, Asked, Ended, IInv, TypeOK
  <2> QED
    BY <1>3, <2>1, PageHold DEF DeskHold
<1>4. ASSUME NEW r \in Requests, DeskTimeout(r) PROVE PageInv'
  <2> DEFINE b == onTimeout[r] = "allow"
  <2>1. b \in BOOLEAN /\ phase'[r] = IF b THEN "forwarded" ELSE "blocked"
    BY <1>4 DEF DeskTimeout, TimeoutFires, Settle, End, PhaseOf, IInv, TypeOK
  <2>2. ShowDecisionTimeout(r, b) /\ outbox' = outbox
    BY <1>4 DEF DeskTimeout
  <2> HIDE DEF b
  <2> QED
    BY <2>1, <2>2, PageTimeout
<1>5. CASE RendererReady
  BY <1>5, PageReady
<1>6. CASE RendererReceives
  BY <1>6, PageReceives
<1>7. CASE \E c \in Choices : UserResponds(c)
  BY <1>7, PageResponds
<1>8. CASE OnDecision
  BY <1>8, PageDecides
<1> QED
  BY <1>1, <1>2, <1>3, <1>4, <1>5, <1>6, <1>7, <1>8 DEF DeskNext, DeskScan, Unheard

-----------------------------------------------------------------------------
(* The list of activities.                                                 *)

\* Nobody's request but those of D is settled by the user or the timer.
SettlesOnly(D) == \A q \in Requests \ D :
  settledBy'[q] \in {"user", "timeout"} => settledBy[q] \in {"user", "timeout"}

LEMMA Listed ==
  ASSUME DeskTypes, NEW i \in DOMAIN activity
  PROVE  activity[i] \in Entries /\ activity[i].req \in Requests
<1>1. activity[i] \in Entries
  BY DEF DeskTypes
<1> QED
  BY <1>1 DEF Entries

LEMMA ListQuiet ==
  ASSUME Keeps, DeskTypes, OutcomeIffSettled, activity' = activity, SettlesOnly({})
  PROVE  OutcomeIffSettled'
<1>1. ASSUME NEW i \in DOMAIN activity
      PROVE  /\ activity[i].outcome # "none" => phase'[activity[i].req] \in Ended
             /\ settledBy'[activity[i].req] \in {"user", "timeout"} => activity[i].outcome # "none"
  <2>1. activity[i].req \in Requests
    BY Listed
  <2> QED
    BY <2>1 DEF Keeps, SettlesOnly, OutcomeIffSettled
<1> QED
  BY <1>1 DEF OutcomeIffSettled

\* An outcome is written when its request has ended.
LEMMA ListSettled ==
  ASSUME Keeps, DeskTypes, OutcomeIffSettled, NEW r \in Requests, NEW o, o # "none",
         SetActivityOutcome(r, o), phase'[r] \in Ended, SettlesOnly({r})
  PROVE  OutcomeIffSettled'
<1>1. ASSUME NEW i \in DOMAIN activity
      PROVE  /\ activity'[i].outcome # "none" => phase'[activity'[i].req] \in Ended
             /\ settledBy'[activity'[i].req] \in {"user", "timeout"} => activity'[i].outcome # "none"
  <2>1. activity[i].req \in Requests /\ activity[i] \in Entries
    BY Listed
  <2>2. CASE activity[i].req = r
    <3>1. activity'[i].req = r /\ activity'[i].outcome = o
      BY <2>1, <2>2 DEF SetActivityOutcome, Entries
    <3> QED
      BY <3>1
  <2>3. CASE activity[i].req # r
    <3>1. activity'[i] = activity[i]
      BY <2>3 DEF SetActivityOutcome
    <3> QED
      BY <2>1, <2>3, <3>1 DEF Keeps, SettlesOnly, OutcomeIffSettled
  <2> QED
    BY <2>2, <2>3
<1>2. DOMAIN activity' = DOMAIN activity
  BY DEF SetActivityOutcome
<1> QED
  BY <1>1, <1>2 DEF OutcomeIffSettled

\* A request that is held, or whose hold failed, is put in front.
LEMMA ListRecord ==
  ASSUME Keeps, DeskTypes, OutcomeIffSettled, NEW r \in Requests,
         RecordActivity(r), SettlesOnly({}), settledBy'[r] \notin {"user", "timeout"}
  PROVE  OutcomeIffSettled'
<1> DEFINE e == [req |-> r, outcome |-> "none"]
           long == <<e>> \o activity
<1>1. e \in Entries /\ e.req = r /\ e.outcome = "none"
  BY DEF Entries
<1>2. activity' = Newest(long)
  BY DEF RecordActivity
<1> HIDE DEF e
<1>3. /\ long \in Seq(Entries)
      /\ \A i \in DOMAIN long : long[i] = e \/ (i - 1 \in DOMAIN activity /\ long[i] = activity[i - 1])
  BY <1>1, Pushing DEF DeskTypes
<1> HIDE DEF long
<1>4. \A i \in DOMAIN activity' : i \in DOMAIN long /\ activity'[i] = long[i]
  BY <1>2, <1>3, Capping
<1>5. ASSUME NEW i \in DOMAIN activity'
      PROVE  /\ activity'[i].outcome # "none" => phase'[activity'[i].req] \in Ended
             /\ settledBy'[activity'[i].req] \in {"user", "timeout"} => activity'[i].outcome # "none"
  <2>1. activity'[i] = e \/ \E k \in DOMAIN activity : activity'[i] = activity[k]
    BY <1>3, <1>4
  <2>2. CASE activity'[i] = e
    BY <1>1, <2>2
  <2>3. ASSUME NEW k \in DOMAIN activity, activity'[i] = activity[k]
        PROVE  /\ activity'[i].outcome # "none" => phase'[activity'[i].req] \in Ended
               /\ settledBy'[activity'[i].req] \in {"user", "timeout"} => activity'[i].outcome # "none"
    <3>1. activity[k].req \in Requests
      BY Listed
    <3> QED
      BY <2>3, <3>1 DEF Keeps, SettlesOnly, OutcomeIffSettled
  <2> QED
    BY <2>1, <2>2, <2>3
<1> QED
  BY <1>5 DEF OutcomeIffSettled

LEMMA UnheardSettles == IInv /\ Unheard => SettlesOnly({})
<1> SUFFICES ASSUME IInv, Unheard PROVE SettlesOnly({})
  OBVIOUS
<1> USE DEF IInv, TypeOK, SettlesOnly, End, scanVars, heldVars
<1>1. ASSUME NEW p \in FailModes, SetPolicy(p) PROVE SettlesOnly({})
  BY <1>1 DEF SetPolicy
<1>2. ASSUME NEW r \in Requests, Connect(r) \/ BlindSend(r) \/ Inspect(r) \/ PassUninspected(r)
      PROVE SettlesOnly({})
  BY <1>2 DEF Connect, BlindSend, Inspect, PassUninspected
<1>3. ASSUME NEW r \in Requests, ScanClean(r) \/ ScanFails(r) PROVE SettlesOnly({})
  BY <1>3 DEF ScanClean, ScanFails
<1>4. ASSUME Stop PROVE SettlesOnly({})
  BY <1>4 DEF Stop, StopSettles
<1> QED
  BY <1>1, <1>2, <1>3, <1>4 DEF Unheard, ScanUnheard, GateOnly

LEMMA ListStep == DeskInv /\ [DeskNext]_allVars => OutcomeIffSettled'
<1> SUFFICES ASSUME DeskInv, [DeskNext]_allVars PROVE OutcomeIffSettled'
  OBVIOUS
<1>k. Keeps
  BY GateKeeps, DeskStepsGate DEF DeskInv
<1> USE <1>k DEF DeskInv
<1>1. CASE Unheard
  BY <1>1, UnheardSettles, ListQuiet DEF Unheard, ScanUnheard, GateOnly, deskVars
<1>2. CASE DeskExit
  <2>1. SettlesOnly({})
    BY <1>2 DEF DeskExit, Exit, SettlesOnly, IInv, TypeOK
  <2> QED
    BY <1>2, <2>1, ListQuiet DEF DeskExit
<1>3. CASE \/ RendererReady \/ RendererReceives \/ CloseDecisionWindow \/ CloseTray
           \/ (\E c \in Choices : UserResponds(c))
           \/ (\E r \in Requests : HideTimerFires(r))
           \/ UNCHANGED allVars
  <2>1. activity' = activity /\ settledBy' = settledBy
    BY <1>3 DEF RendererReady, RendererReceives, CloseDecisionWindow, CloseTray, UserResponds,
                HideTimerFires, allVars, deskVars, vars
  <2> QED
    BY <2>1, ListQuiet DEF SettlesOnly
<1>4. ASSUME NEW r \in Requests, NEW a \in {"warn", "block"}, DeskHold(r, a)
      PROVE OutcomeIffSettled'
  <2>1. phase[r] = "scanning" /\ settledBy[r] = "nobody"
    BY <1>4 DEF DeskHold, Hold, HoldThrows, HoldAction, IInv, Undecided, Ended
  <2>2. SettlesOnly({}) /\ settledBy'[r] \notin {"user", "timeout"}
    BY <1>4, <2>1 DEF DeskHold, Hold, HoldThrows, End, SettlesOnly, IInv, TypeOK
  <2> QED
    BY <1>4, <2>2, ListRecord DEF DeskHold
<1>5. ASSUME NEW r \in Requests, DeskTimeout(r) PROVE OutcomeIffSettled'
  <2>1. SettlesOnly({r}) /\ phase'[r] \in Ended
    BY <1>5 DEF DeskTimeout, TimeoutFires, Settle, End, PhaseOf, Ended, SettlesOnly, IInv, TypeOK
  <2> QED
    BY <1>5, <2>1, ListSettled DEF DeskTimeout
<1>6. CASE OnDecision
  <2> DEFINE m == Head(outbox)
  <2>h. 1 \in DOMAIN outbox /\ m = outbox[1] /\ m \in Answers
    BY <1>6, TakingHead DEF OnDecision, DeskTypes
  <2>r. m.req \in Requests /\ m.choice \in Choices /\ phase[m.req] \in Asked
    BY <2>h DEF Answers, PageInv, AskedWasHeld
  <2>1. CASE ResolveLeaked(m.req) /\ activity' = activity
    <3>1. SettlesOnly({})
      BY <2>1 DEF ResolveLeaked, SettlesOnly
    <3> QED
      BY <2>1, <3>1, ListQuiet
  <2>2. CASE \/ ResolveDecision(m.req, m.choice, TrayUsable)
             \/ m.req \notin pending /\ (UNCHANGED vars \/ ListenerThrows)
    <3>1. SettlesOnly({m.req}) /\ phase'[m.req] \in Ended
      <4>1. CASE ResolveDecision(m.req, m.choice, TrayUsable)
        BY <2>r, <4>1 DEF ResolveDecision, Settle, End, PhaseOf, Ended, SettlesOnly, IInv, TypeOK
      <4>2. CASE m.req \notin pending /\ (UNCHANGED vars \/ ListenerThrows)
        BY <2>r, <4>2 DEF ListenerThrows, vars, SettlesOnly, IInv, HeldIsTimed, Asked
      <4> QED
        BY <2>2, <4>1, <4>2
    <3>2. CASE SetActivityOutcome(m.req, IF m.choice = "allow" THEN "allowed" ELSE "blocked")
      BY <2>r, <3>1, <3>2, ListSettled
    <3>3. CASE ResolveLeaked(m.req) /\ activity' = activity
      BY <2>1, <3>3
    <3> QED
      BY <1>6, <3>2, <3>3 DEF OnDecision
  <2> QED
    BY <1>6, <2>1, <2>2 DEF OnDecision
<1> QED
  BY <1>1, <1>2, <1>3, <1>4, <1>5, <1>6 DEF DeskNext, DeskScan, Unheard

-----------------------------------------------------------------------------
LEMMA DeskInitial == DeskInit => DeskInv
<1> SUFFICES ASSUME DeskInit PROVE DeskInv
  OBVIOUS
<1>1. IInv
  BY InitIInv DEF DeskInit
<1>2. OutcomeIffSettled
  BY Nothing DEF DeskInit, OutcomeIffSettled
<1> QED
  BY <1>1, <1>2, TypesInit, PageInit DEF DeskInv

LEMMA DeskStep == DeskInv /\ [DeskNext]_allVars => DeskInv'
<1> SUFFICES ASSUME DeskInv, [DeskNext]_allVars PROVE DeskInv'
  OBVIOUS
<1>1. IInv'
  BY DeskStepsGate, StepIInv DEF DeskInv
<1>2. DeskTypes'
  BY TypesStep DEF DeskInv, PageInv
<1> QED
  BY <1>1, <1>2, PageStep, ListStep DEF DeskInv

(***************************************************************************)
(* The gate keeps its invariant under its windows, the windows and queues  *)
(* their types, and the three properties below hold, in every behaviour.   *)
(***************************************************************************)
THEOREM DeskInductive == DeskSpec => []DeskInv
<1> QED
  BY DeskInitial, DeskStep, PTL DEF DeskSpec

(***************************************************************************)
(* Without its windows the desk is the gate: whatever the listeners of     *)
(* main.ts, the queues and the pages do, the request path of proxy.ts      *)
(* takes the steps it would take alone, or none.                           *)
(***************************************************************************)
THEOREM DeskRunsGate == DeskSpec => Init /\ [][Next]_vars
<1>1. DeskInit => Init
  BY DEF DeskInit
<1>2. DeskInv /\ [DeskNext]_allVars => [Next]_vars
  BY DeskStepsGate DEF DeskInv
<1> QED
  BY <1>1, <1>2, DeskInductive, PTL DEF DeskSpec

(***************************************************************************)
(* The request path under its windows still implements PromptGate: no      *)
(* window, queue or timer lets a prompt go that may not, or revises what   *)
(* became of one.                                                          *)
(***************************************************************************)
THEOREM DeskImplementsPromptGate == DeskSpec => GateSpec
<1>1. DeskInit => Gate!Init
  BY InitRefines DEF DeskInit
<1>2. DeskInv /\ [DeskNext]_allVars => [Gate!Next]_(Gate!gateVars)
  BY DeskStepsGate, StepRefines DEF DeskInv
<1> QED
  BY <1>1, <1>2, DeskInductive, PTL DEF DeskSpec, GateSpec, Gate!Spec

(***************************************************************************)
(* Under the windows too a prompt of a block rule is sent only with the    *)
(* user's consent or after a hold whose listener threw.                    *)
(***************************************************************************)
THEOREM DeskBlockNeedsConsent == DeskSpec => []BlockNeedsConsent
<1>1. DeskInv => BlockNeedsConsent
  BY DEF DeskInv, IInv
<1> QED
  BY <1>1, DeskInductive, PTL

(***************************************************************************)
(* The variables of the desk keep their types and the list is capped, for  *)
(* any set of requests and any MaxEntries.                                 *)
(***************************************************************************)
THEOREM DeskTypesHold == DeskSpec => []DeskTypeOK
<1>1. DeskInv => DeskTypeOK
  BY DEF DeskInv, IInv, DeskTypes, DeskTypeOK, Messages, Answers, Entries
<1> QED
  BY <1>1, DeskInductive, PTL

(***************************************************************************)
(* The prompt last shown reaches a page that is up (the ready handshake).  *)
(***************************************************************************)
THEOREM DeskPromptReaches == DeskSpec => []LastPromptReachesPage
<1>1. DeskInv => LastPromptReachesPage
  BY DEF DeskInv, PageInv
<1> QED
  BY <1>1, DeskInductive, PTL

(***************************************************************************)
(* A notice says what became of its request, however late it arrives.      *)
(***************************************************************************)
THEOREM DeskNoticeTrue == DeskSpec => []NoticeIsTrue
<1>1. DeskInv => NoticeIsTrue
  BY DEF DeskInv, PageInv
<1> QED
  BY <1>1, DeskInductive, PTL

(***************************************************************************)
(* An entry of the list has an outcome only if its request ended, and has  *)
(* one if the user or the timer ended it.                                  *)
(***************************************************************************)
THEOREM DeskOutcomes == DeskSpec => []OutcomeIffSettled
<1>1. DeskInv => OutcomeIffSettled
  BY DEF DeskInv
<1> QED
  BY <1>1, DeskInductive, PTL
=============================================================================
