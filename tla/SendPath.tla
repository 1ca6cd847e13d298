------------------------------ MODULE SendPath ------------------------------
(***************************************************************************)
(* One monitored page of the Chrome extension.  The interceptor in the     *)
(* page's world (fetch-interceptor.ts) holds outgoing requests and asks    *)
(* the content script (content-script.ts) with window messages; the site   *)
(* adapters hold the send button and Enter; both ask the service worker    *)
(* to DETECT and share one warning modal (overlay-root.tsx).               *)
(*                                                                         *)
(* A text is a model value with the rules' verdict on it and the details   *)
(* they matched.  The site's own code is external: it may send the         *)
(* composer's text when its button is clicked and anything else at any     *)
(* time.  Toasts, banners, the status chip and the degraded-enforcement    *)
(* reports are left out, and so is the time before the content script is   *)
(* there, when every intercepted request times out.                        *)
(***************************************************************************)
EXTENDS Naturals, Sequences, FiniteSets

CONSTANTS Texts,       \* what a composer or a request can carry
          MaxRequests, \* bound: requests the site makes
          MaxIntents,  \* bound: presses of Enter or of the send button
          Verdict,     \* [Texts -> result.highestAction]
          Matched,     \* [Texts -> SUBSET details], the findings' matchedText
          Redacted     \* [Texts -> Texts], redactPrompt

Requests == 1..MaxRequests
NoText == "none"
Nobody == 0            \* no request
Intent == MaxRequests + 1   \* the adapter's handler, among those a modal can be for

ASSUME SendAssumption ==
  /\ NoText \notin Texts
  /\ MaxRequests \in Nat /\ MaxIntents \in Nat
  /\ Verdict \in [Texts -> {"log", "warn", "block"}]
  /\ Redacted \in [Texts -> Texts]

VARIABLES
  composer,  \* the text in the site's composer
  wire,      \* window messages posted and not delivered, in order
  approved,  \* interceptor: nextFetchApproved
  req,       \* interceptor: [Requests -> [pc, text, via]]
  bridge,    \* content script: [Requests -> where its intercept listener is]
  intent,    \* content script: the send-intent handler, [pc, text]
  presses,   \* presses so far
  modal,     \* whose warning modal is rendered
  granted    \* history: approvals posted

vars == <<composer, wire, approved, req, bridge, intent, presses,
          modal, granted>>

Kinds == {"prompt", "file", "other"}   \* of a request the site calls fetch or XHR
                                       \* with; other: extractPromptFromRequest
                                       \* finds no prompt in it
Unused == [pc |-> "unused", text |-> NoText, via |-> "none"]

Idle == [pc |-> "idle", text |-> NoText]

Post(msg) == wire' = Append(wire, msg)
Flagged(t) == t # NoText /\ Verdict[t] \in {"warn", "block"}
isRedacted(current, t) ==
  current = NoText \/ Matched[current] \cap Matched[t] = {}

-----------------------------------------------------------------------------
(* The site. *)

(* The user or the site edits the composer, unless a modal has the focus;  *)
(* no edit after the last press is of interest.                            *)
Edit == /\ modal = Nobody
        /\ presses < MaxIntents \/ intent # Idle
        /\ composer' \in Texts \ {composer}
        /\ UNCHANGED <<wire, approved, req, bridge, intent, presses,
                       modal, granted>>

Queue(r, t, k) ==
  /\ req[r] = Unused /\ \A p \in 1..(r - 1) : req[p] # Unused
  /\ req' = [req EXCEPT ![r] = [pc |-> k, text |-> t, via |-> "none"]]

(* A request of the site that no press the adapter hooks caused: a prompt, *)
(* a file or traffic with neither.                                         *)
SiteSends(r) ==
  /\ \/ \E t \in Texts, k \in {"prompt", "file"} : Queue(r, t, k)
     \/ Queue(r, NoText, "other")
  /\ UNCHANGED <<composer, wire, approved, bridge, intent, presses,
                 modal, granted>>

(* The re-fired click: the site takes the composer's text, if its button   *)
(* was found and works.                                                    *)
Click ==
  \/ /\ composer # NoText
     /\ \E r \in Requests, k \in {"prompt", "other"} : Queue(r, composer, k)
     /\ composer' = NoText
  \/ UNCHANGED <<req, composer>>

-----------------------------------------------------------------------------
(* The interceptor. *)

Leave(r, how) == req' = [req EXCEPT ![r].pc = "sent", ![r].via = how]

Ask(r) == /\ req' = [req EXCEPT ![r].pc = "asked"]
          /\ Post([type |-> "intercept", id |-> r, proceed |-> FALSE])

FetchKeepsApproval(r) ==                         \* mutant: the flag is not cleared
  /\ req[r].pc \in Kinds
  /\ approved /\ Leave(r, "approval")
  /\ UNCHANGED <<composer, wire, approved, bridge, intent, presses, modal, granted>>

(* mykkaFetch and MykkaXHR.send take the approval, if there is one,        *)
(* whatever they are called with; else what they recognise is asked about. *)
FetchOverride(r) ==
  /\ req[r].pc \in Kinds
  /\ \/ /\ approved
        /\ approved' = FALSE
        /\ Leave(r, "approval")
        /\ UNCHANGED wire
     \/ /\ ~approved
        /\ UNCHANGED approved
        /\ \/ req[r].pc = "prompt" /\ Ask(r)
           \/ /\ req[r].pc \in {"prompt", "file"}
              /\ req' = [req EXCEPT ![r].pc = "reading"]
              /\ UNCHANGED wire
           \/ req[r].pc = "other" /\ Leave(r, "unseen") /\ UNCHANGED wire
  /\ UNCHANGED <<composer, bridge, intent, presses, modal, granted>>

(* The body is read: the first file inspectFormData can extract, or the    *)
(* clone of a Request, is asked about.                                     *)
BodyRead(r) ==
  /\ req[r].pc = "reading"
  /\ Ask(r) \/ (Leave(r, "unseen") /\ UNCHANGED wire)
  /\ UNCHANGED <<composer, approved, bridge, intent, presses, modal,
                 granted>>

TimeoutUncleared(r) ==                  \* mutant: pending does not clear the timer
  /\ req[r].pc \in {"asked", "held"}
  /\ Leave(r, "timeout")
  /\ UNCHANGED <<composer, wire, approved, bridge, intent, presses, modal, granted>>

(* DECISION_TIMEOUT_MS without a word: the request fails open. *)
Timeout(r) ==
  /\ req[r].pc = "asked"
  /\ Leave(r, "timeout")
  /\ UNCHANGED <<composer, wire, approved, bridge, intent, presses, modal,
                 granted>>

-----------------------------------------------------------------------------
(* Window messages. *)

(* A request that no longer waits has removed its listener; a request held *)
(* by MSG_DECISION_PENDING has cleared its timer.                          *)
HearPending(r) ==
  req' = IF req[r].pc = "asked" THEN [req EXCEPT ![r].pc = "held"] ELSE req

HearDecisionLate(r, proceed) ==            \* mutant: an answer that comes late is heard
  req' = IF proceed THEN [req EXCEPT ![r].pc = "sent", ![r].via = "decision"]
         ELSE [req EXCEPT ![r].pc = "aborted"]

HearDecisionOpen(r, proceed) ==            \* mutant: data.proceed is not looked at
  req' = IF req[r].pc \notin {"asked", "held"} THEN req
         ELSE [req EXCEPT ![r].pc = "sent", ![r].via = "decision"]

HearDecision(r, proceed) ==
  req' = IF req[r].pc \notin {"asked", "held"} THEN req
         ELSE IF proceed
              THEN [req EXCEPT ![r].pc = "sent", ![r].via = "decision"]
              ELSE [req EXCEPT ![r].pc = "aborted"]

Deliver ==
  LET m == Head(wire) IN
  /\ wire # <<>>
  /\ wire' = Tail(wire)
  /\ \/ m.type = "unlock" /\ approved' = TRUE /\ UNCHANGED <<req, bridge>>
     \/ /\ m.type = "intercept"
        /\ bridge' = [bridge EXCEPT ![m.id] = "detect"]
        /\ UNCHANGED <<approved, req>>
     \/ m.type = "pending" /\ HearPending(m.id) /\ UNCHANGED <<approved, bridge>>
     \/ /\ m.type = "decision" /\ HearDecision(m.id, m.proceed)
        /\ UNCHANGED <<approved, bridge>>
  /\ UNCHANGED <<composer, intent, presses, modal, granted>>

-----------------------------------------------------------------------------
(* The content script's bridge for intercepted requests. *)

Decide(r, proceed) == Post([type |-> "decision", id |-> r, proceed |-> proceed])

(* DETECT is answered, or rejects or returns null: then the bridge reports *)
(* degraded enforcement and fails open.                                    *)
BridgeDetect(r) ==
  /\ bridge[r] = "detect"
  /\ \/ Decide(r, TRUE) /\ bridge' = [bridge EXCEPT ![r] = "failed"]
     \/ /\ ~Flagged(req[r].text)
        /\ Decide(r, TRUE) /\ bridge' = [bridge EXCEPT ![r] = "clean"]
     \/ /\ Flagged(req[r].text)
        /\ Post([type |-> "pending", id |-> r, proceed |-> FALSE])
        /\ bridge' = [bridge EXCEPT ![r] = "prepare"]
  /\ UNCHANGED <<composer, approved, req, intent, presses, modal,
                 granted>>

(* getReporting and applyTheme end; the modal replaces one that is up. *)
BridgeShow(r) ==
  /\ bridge[r] = "prepare"
  /\ bridge' = [bridge EXCEPT ![r] = "modal"]
  /\ modal' = r
  /\ UNCHANGED <<composer, wire, approved, req, intent, presses,
                 granted>>

BridgeAnswer(r) ==
  /\ modal = r
  /\ modal' = Nobody
  /\ \/ bridge' = [bridge EXCEPT ![r] = "refused"]
     \/ /\ Verdict[req[r].text] # "block"
        /\ bridge' = [bridge EXCEPT ![r] = "waved"]
  /\ UNCHANGED <<composer, wire, approved, req, intent, presses,
                 granted>>

DecideIfWaved(r) ==                            \* mutant: a refusal is not answered
  /\ bridge[r] \in {"refused", "waved"}
  /\ bridge' = [bridge EXCEPT ![r] = IF @ = "waved" THEN "wavedDone" ELSE "refusedDone"]
  /\ IF bridge[r] = "waved" THEN Decide(r, TRUE) ELSE UNCHANGED wire
  /\ UNCHANGED <<composer, approved, req, intent, presses, modal, granted>>

(* The outcome is audited, then posted. *)
BridgeDecide(r) ==
  /\ bridge[r] \in {"refused", "waved"}
  /\ bridge' = [bridge EXCEPT ![r] = IF @ = "waved" THEN "wavedDone" ELSE "refusedDone"]
  /\ Decide(r, bridge[r] = "waved")
  /\ UNCHANGED <<composer, approved, req, intent, presses, modal,
                 granted>>

-----------------------------------------------------------------------------
(* The adapters' hook and the send-intent handler.  The four adapters hook *)
(* in the same way; intent.pc # "idle" is their processing flag.           *)

Step(pc) == intent' = [intent EXCEPT !.pc = pc]
Keep == UNCHANGED <<approved, bridge>>

(* proceed without an approval: no composer found, an empty composer, or   *)
(* a DETECT that failed.                                                   *)
ProceedUnchecked == intent' = Idle /\ Click /\ UNCHANGED <<wire, granted>>

(* proceed after MSG_UNLOCK_FETCH.  The click follows in a microtask, the  *)
(* message in a task.                                                      *)
Proceed == /\ intent' = Idle
           /\ Click
           /\ Post([type |-> "unlock", id |-> Nobody, proceed |-> TRUE])
           /\ granted' = granted + 1

PressSend ==
  /\ intent = Idle /\ presses < MaxIntents
  /\ presses' = presses + 1
  /\ \/ /\ composer # NoText
        /\ intent' = [pc |-> "detect", text |-> composer]
        /\ UNCHANGED <<wire, req, composer, granted>>
     \/ ProceedUnchecked
  /\ Keep /\ UNCHANGED modal

IntentDetect ==
  /\ intent.pc = "detect"
  /\ \/ ProceedUnchecked
     \/ /\ ~Flagged(intent.text) /\ Step("log")
        /\ UNCHANGED <<wire, req, composer, granted>>
     \/ /\ Flagged(intent.text) /\ Step("prepare")
        /\ UNCHANGED <<wire, req, composer, granted>>
  /\ Keep /\ UNCHANGED <<modal, presses>>

IntentShow ==
  /\ intent.pc = "prepare"
  /\ Step("modal")
  /\ modal' = Intent
  /\ Keep /\ UNCHANGED <<wire, req, composer, granted, presses>>

(* Edit; Remove details & send, which a block offers; It's fine, send it,  *)
(* which a warning offers.  Writing the composer may not stick.            *)
IntentAnswer ==
  /\ modal = Intent
  /\ modal' = Nobody
  /\ \/ intent' = Idle /\ UNCHANGED composer
     \/ /\ Verdict[intent.text] = "block"
        /\ Step("settle")
        /\ composer' \in {composer, Redacted[intent.text]}
     \/ Verdict[intent.text] = "warn" /\ Step("anyway") /\ UNCHANGED composer
  /\ Keep /\ UNCHANGED <<wire, req, granted, presses>>

(* After COMPOSER_SETTLE_MS the composer is read again. *)
IntentSettle ==
  /\ intent.pc = "settle"
  /\ IF isRedacted(composer, intent.text) THEN Step("redacted") ELSE intent' = Idle
  /\ Keep /\ UNCHANGED <<wire, req, composer, granted, presses, modal>>

(* The audit row of a send that goes on is written; then it goes on. *)
IntentProceed ==
  /\ intent.pc \in {"log", "anyway", "redacted"}
  /\ Proceed
  /\ Keep /\ UNCHANGED <<presses, modal>>

-----------------------------------------------------------------------------
Init == /\ composer = NoText /\ wire = <<>> /\ approved = FALSE
        /\ req = [r \in Requests |-> Unused]
        /\ bridge = [r \in Requests |-> "none"]
        /\ intent = Idle /\ presses = 0 /\ modal = Nobody
        /\ granted = 0

Interceptor(r) == FetchOverride(r) \/ BodyRead(r) \/ Timeout(r)
Bridge(r) == BridgeDetect(r) \/ BridgeShow(r) \/ BridgeAnswer(r) \/ BridgeDecide(r)
Handler == IntentDetect \/ IntentShow \/ IntentAnswer \/ IntentSettle \/ IntentProceed

Next == \/ Edit \/ Deliver \/ PressSend \/ Handler
        \/ \E r \in Requests : SiteSends(r) \/ Interceptor(r) \/ Bridge(r)

(* As long as a message can be delivered, a timer is due, an awaited call  *)
(* can end or a modal is up, one of these happens; of the user it asks     *)
(* only to answer a modal that stays up.  The site need do nothing more.   *)
Fairness ==
  WF_vars(Deliver \/ Handler \/ \E r \in Requests : Interceptor(r) \/ Bridge(r))

Spec == Init /\ [][Next]_vars /\ Fairness

-----------------------------------------------------------------------------
(* Every variable has its type. *)
SendTypeOK ==
  /\ approved \in BOOLEAN
  /\ composer \in Texts \cup {NoText}
  /\ wire \in Seq([type : {"unlock"}, id : {Nobody}, proceed : BOOLEAN]
              \cup [type : {"intercept", "pending", "decision"}, id : Requests,
                    proceed : BOOLEAN])
  /\ req \in [Requests -> [pc : Kinds \cup {"unused", "reading", "asked", "held",
                                          "sent", "aborted"},
                           text : Texts \cup {NoText},
                           via : {"none", "approval", "unseen", "timeout", "decision"}]]
  /\ bridge \in [Requests -> {"none", "detect", "prepare", "modal", "refused", "waved",
                              "clean", "failed", "wavedDone", "refusedDone"}]
  /\ intent \in [pc : {"idle", "detect", "log", "prepare", "modal", "settle",
                       "redacted", "anyway"},
                 text : Texts \cup {NoText}]
  /\ presses \in 0..MaxIntents
  /\ modal \in Requests \cup {Nobody, Intent}
  /\ granted \in 0..MaxIntents

(* An approval lets one request through: those that left on one never      *)
(* outnumber the approvals the content script posted, whatever the order   *)
(* in which clicks, requests and messages arrive.                          *)
OneRequestPerApproval ==
  Cardinality({r \in Requests : req[r].via = "approval"})
    + (IF approved THEN 1 ELSE 0)
    + Cardinality({i \in DOMAIN wire : wire[i].type = "unlock"}) <= granted

(* A flagged request that the interceptor let go on an answer was waved by *)
(* its user in its own modal, or detection failed after all: no other      *)
(* modal's answer, and none of a block, releases it.                       *)
FlaggedReleasedByItsUser ==
  \A r \in Requests :
    req[r].via = "decision" /\ Flagged(req[r].text)
      => \/ bridge[r] = "wavedDone" /\ Verdict[req[r].text] = "warn"
         \/ bridge[r] = "failed"

(* Once the interceptor has heard that a modal is coming it waits for it:  *)
(* no timer and no failure lets the request go unless the user waves it.   *)
HeldForTheUser ==
  [][\A r \in Requests :
       req[r].pc = "held" /\ req'[r].pc = "sent" => bridge[r] = "wavedDone"]_vars

(* A waiter whose modal was replaced by another one. *)
Replaced(w) == /\ modal # w
               /\ IF w = Intent THEN intent.pc = "modal" ELSE bridge[w] = "modal"

(* A request that is being asked about is sent or aborted in the end, and  *)
(* the adapter takes the next press in the end, unless another modal       *)
(* replaced theirs.                                                        *)
AnsweredUnlessReplaced ==
  /\ \A r \in Requests :
       req[r].pc = "asked" ~> (req[r].pc \in {"sent", "aborted"} \/ Replaced(r))
  /\ intent # Idle ~> (intent = Idle \/ Replaced(Intent))

-----------------------------------------------------------------------------
(* The extension keeps the promise of PromptGate too: what became of a     *)
(* request and what detection found in it are final, and one in which a    *)
(* block was found is sent only if no modal was announced for five         *)
(* seconds (fetch-interceptor.ts, DECISION_TIMEOUT_MS).                    *)

Detected(r) == bridge[r] \notin {"none", "detect", "failed"}

Gate == INSTANCE PromptGate WITH
  verdict <- [r \in Requests |-> IF req[r].pc = "sent" THEN "sent"
                                 ELSE IF req[r].pc = "aborted" THEN "refused" ELSE "open"],
  rule    <- [r \in Requests |-> IF ~Detected(r) THEN "unknown"
                                 ELSE IF Flagged(req[r].text) THEN Verdict[req[r].text]
                                 ELSE "log"],
  excused <- {r \in Requests : req[r].via = "timeout"}

GateSpec == Gate!Spec
=============================================================================
