---------------------------- MODULE DecisionDesk ----------------------------
(***************************************************************************)
(* The request path of the desktop proxy (DecisionGate) together with what *)
(* its events drive: the one decision window and its page                  *)
(* (decision-window.ts, renderer/decision-ui), the tray's activity list    *)
(* (activity-log.ts) and the listeners of main.ts.  Listeners run inside   *)
(* the emit, so a hold or a timeout is one step of gate and desk.  Between *)
(* the main process and the page there is an IPC queue each way.           *)
(***************************************************************************)
EXTENDS DecisionGate, Sequences

CONSTANTS None,        \* no request
          MaxEntries   \* MAX_ENTRIES of the activity list, 20 in the code

ASSUME DeskAssumption == None \notin Requests /\ MaxEntries \in Nat \ {0}

VARIABLES
  tray,        \* the tray window is there; once closed it is not made again
  win,         \* decision window: "none", "loading", "ready" (rendererReady)
  visible,     \* it is shown
  lastEvent,   \* the request it was last shown for
  prompt,      \* page: the request asked about
  notice,      \* page: timedOut, what it was told of a request
  inbox,       \* messages to the page
  outbox,      \* answers of the page
  hideTimers,  \* requests whose 4 s timer runs
  activity     \* the list, newest first

windowVars == <<win, visible, lastEvent>>
pageVars == <<prompt, notice, inbox>>
deskVars == <<tray, windowVars, pageVars, outbox, hideTimers, activity>>
allVars == <<vars, deskVars>>

NoNotice == [req |-> None, allowed |-> FALSE]

DeskInit ==
  /\ Init
  /\ tray = TRUE /\ win = "none" /\ visible = FALSE /\ lastEvent = None
  /\ prompt = None /\ notice = NoNotice /\ inbox = <<>> /\ outbox = <<>>
  /\ hideTimers = {} /\ activity = <<>>

-----------------------------------------------------------------------------
(* The activity list; one finding stands for a request's findings. *)

Newest(list) == SubSeq(list, 1, IF Len(list) < MaxEntries THEN Len(list) ELSE MaxEntries)

RecordActivity(r) == activity' = Newest(<<[req |-> r, outcome |-> "none"]>> \o activity)

SetActivityOutcome(r, o) ==
  activity' = [i \in DOMAIN activity |->
                 IF activity[i].req = r THEN [activity[i] EXCEPT !.outcome = o] ELSE activity[i]]

(* pushActivityUpdate throws on a tray window that was destroyed. *)
TrayUsable == tray

-----------------------------------------------------------------------------
(* Listeners of the proxy's events. *)

Required(r) == [type |-> "required", req |-> r, allowed |-> FALSE]

(* A missing window is made; a page that is there is told at once. *)
ShowDecisionWindow(r) ==
  /\ lastEvent' = r /\ visible' = TRUE
  /\ win' = IF win = "none" THEN "loading" ELSE win
  /\ inbox' = IF win = "ready" THEN Append(inbox, Required(r)) ELSE inbox
  /\ UNCHANGED <<prompt, notice>>

DeskHold(r, a) ==
  /\ IF TrayUsable THEN Hold(r, a) ELSE HoldThrows(r, a)
  /\ ShowDecisionWindow(r)
  /\ RecordActivity(r)
  /\ UNCHANGED <<tray, outbox, hideTimers>>

ShowNoticeForever(r, allowed) ==                  \* mutant: no hide timer
  /\ IF win = "ready" /\ lastEvent = r
     THEN inbox' = Append(inbox, [type |-> "timeout", req |-> r, allowed |-> allowed])
     ELSE UNCHANGED inbox
  /\ UNCHANGED <<windowVars, prompt, notice, hideTimers>>

ShowNoticeByMode(r, allowed) ==                   \* mutant: the mode now in force
  IF win # "none" /\ lastEvent = r
  THEN /\ inbox' = IF win = "ready"
                   THEN Append(inbox, [type |-> "timeout", req |-> r, allowed |-> FailOpen])
                   ELSE inbox
       /\ hideTimers' = hideTimers \cup {r}
       /\ UNCHANGED <<windowVars, prompt, notice>>
  ELSE UNCHANGED <<windowVars, pageVars, hideTimers>>

(* Only the request the window shows is announced; a page that is still    *)
(* loading has no listener.                                                *)
ShowDecisionTimeout(r, allowed) ==
  IF win # "none" /\ lastEvent = r
  THEN /\ inbox' = IF win = "ready"
                   THEN Append(inbox, [type |-> "timeout", req |-> r, allowed |-> allowed])
                   ELSE inbox
       /\ hideTimers' = hideTimers \cup {r}
       /\ UNCHANGED <<windowVars, prompt, notice>>
  ELSE UNCHANGED <<windowVars, pageVars, hideTimers>>

DeskTimeoutUnrecorded(r) ==                       \* mutant: no outcome
  /\ TimeoutFires(r, TrayUsable)
  /\ ShowDecisionTimeout(r, onTimeout[r] = "allow")
  /\ UNCHANGED <<tray, outbox, activity>>

DeskTimeout(r) ==
  /\ TimeoutFires(r, TrayUsable)
  /\ ShowDecisionTimeout(r, onTimeout[r] = "allow")
  /\ SetActivityOutcome(r, IF onTimeout[r] = "allow" THEN "timeout-allowed" ELSE "timeout-blocked")
  /\ UNCHANGED <<tray, outbox>>

-----------------------------------------------------------------------------
(* The page. *)

ReadyWithoutReplay ==                             \* mutant: no replay
  /\ Alive /\ win = "loading"
  /\ win' = "ready"
  /\ UNCHANGED <<vars, tray, visible, lastEvent, pageVars, outbox, hideTimers, activity>>

(* The page has mounted and says decision:ready: the last event is pushed  *)
(* again.                                                                  *)
RendererReady ==
  /\ Alive /\ win = "loading"
  /\ win' = "ready"
  /\ inbox' = Append(inbox, Required(lastEvent))
  /\ UNCHANGED <<vars, tray, visible, lastEvent, prompt, notice, outbox, hideTimers, activity>>

RendererReceives ==
  /\ inbox # <<>>
  /\ inbox' = Tail(inbox)
  /\ LET m == Head(inbox) IN
       \/ m.type = "required" /\ prompt' = m.req /\ notice' = NoNotice
       \/ m.type = "timeout" /\ notice' = [req |-> m.req, allowed |-> m.allowed]
          /\ UNCHANGED prompt
  /\ UNCHANGED <<vars, tray, windowVars, outbox, hideTimers, activity>>

(* Block, Allow anyway or Always allow, unless the page shows the notice. *)
UserResponds(choice) ==
  /\ visible /\ prompt # None /\ notice.req # prompt
  /\ outbox' = Append(outbox, [req |-> prompt, choice |-> choice])
  /\ prompt' = None
  /\ UNCHANGED <<vars, tray, windowVars, notice, inbox, hideTimers, activity>>

(* The IPC handler: the gate gets the answer, then the window is hidden    *)
(* and the outcome recorded, whether or not the gate still waited; the     *)
(* push to a destroyed tray window throws at the end, an entry leaked by a *)
(* failed hold at the start.                                               *)
OnDecision ==
  /\ Alive /\ outbox # <<>>
  /\ outbox' = Tail(outbox)
  /\ LET m == Head(outbox) IN
       \/ /\ \/ ResolveDecision(m.req, m.choice, TrayUsable)
             \/ m.req \notin pending /\ (IF TrayUsable THEN UNCHANGED vars ELSE ListenerThrows)
          /\ visible' = FALSE
          /\ SetActivityOutcome(m.req, IF m.choice = "allow" THEN "allowed" ELSE "blocked")
       \/ ResolveLeaked(m.req) /\ UNCHANGED <<visible, activity>>
  /\ UNCHANGED <<tray, win, lastEvent, pageVars, hideTimers>>

HideTimerFires(r) ==
  /\ Alive /\ r \in hideTimers
  /\ hideTimers' = hideTimers \ {r}
  /\ visible' = (visible /\ lastEvent # r)
  /\ UNCHANGED <<vars, tray, win, lastEvent, pageVars, outbox, activity>>

(* The user closes a window; with the page go the messages to it. *)
CloseDecisionWindow ==
  /\ Alive /\ win # "none"
  /\ win' = "none" /\ visible' = FALSE
  /\ prompt' = None /\ notice' = NoNotice /\ inbox' = <<>>
  /\ UNCHANGED <<vars, tray, lastEvent, outbox, hideTimers, activity>>

CloseTray ==
  /\ Alive /\ tray
  /\ tray' = FALSE
  /\ UNCHANGED <<vars, windowVars, pageVars, outbox, hideTimers, activity>>

(* Steps of the gate that no listener hears. *)
GateOnly ==
  /\ \/ \E p \in FailModes : SetPolicy(p)
     \/ \E r \in Requests : Connect(r) \/ BlindSend(r) \/ Inspect(r) \/ PassUninspected(r)
     \/ Stop
  /\ UNCHANGED deskVars

ScanUnheard(r) == (ScanClean(r) \/ ScanFails(r)) /\ UNCHANGED deskVars

DeskScan(r) ==
  \/ ScanUnheard(r)
  \/ \E a \in {"warn", "block"} : DeskHold(r, a)

(* The windows end with the process. *)
DeskExit ==
  /\ Exit
  /\ win' = "none" /\ visible' = FALSE
  /\ prompt' = None /\ notice' = NoNotice /\ inbox' = <<>> /\ outbox' = <<>>
  /\ hideTimers' = {}
  /\ UNCHANGED <<tray, lastEvent, activity>>

DeskNext ==
  \/ GateOnly \/ DeskExit
  \/ \E r \in Requests : DeskScan(r) \/ DeskTimeout(r) \/ HideTimerFires(r)
  \/ RendererReady \/ RendererReceives \/ OnDecision
  \/ \E c \in Choices : UserResponds(c)
  \/ CloseDecisionWindow \/ CloseTray

(* The event loop runs scans, delivers messages, fires timers and loads    *)
(* windows.                                                                *)
DeskFairness ==
  /\ WF_allVars(RendererReady) /\ WF_allVars(RendererReceives) /\ WF_allVars(OnDecision)
  /\ \A r \in Requests : /\ WF_allVars(HideTimerFires(r)) /\ WF_allVars(DeskTimeout(r))
                         /\ WF_allVars(DeskScan(r))

DeskSpec == DeskInit /\ [][DeskNext]_allVars /\ DeskFairness

-----------------------------------------------------------------------------
(* Every variable has its type; the list is capped. *)
DeskTypeOK ==
  /\ TypeOK
  /\ tray \in BOOLEAN /\ win \in {"none", "loading", "ready"} /\ visible \in BOOLEAN
  /\ lastEvent \in Requests \cup {None} /\ prompt \in Requests \cup {None}
  /\ notice \in [req : Requests \cup {None}, allowed : BOOLEAN]
  /\ inbox \in Seq([type : {"required", "timeout"}, req : Requests, allowed : BOOLEAN])
  /\ outbox \in Seq([req : Requests, choice : Choices])
  /\ hideTimers \subseteq Requests
  /\ activity \in Seq([req : Requests,
                       outcome : {"none", "allowed", "blocked", "timeout-allowed",
                                  "timeout-blocked"}])
  /\ Len(activity) <= MaxEntries

Asking(r) == \E i \in DOMAIN inbox : inbox[i] = Required(r)
Answered(r) == \E i \in DOMAIN outbox : outbox[i].req = r

(* The prompt last shown is not lost: while its request is held, a page    *)
(* that is up asks about it, will be told to, or has been answered         *)
(* (decision-window.ts: the ready handshake).                              *)
LastPromptReachesPage ==
  win = "ready" /\ lastEvent # None /\ phase[lastEvent] = "held"
    => prompt = lastEvent \/ Asking(lastEvent) \/ Answered(lastEvent)

(* What the page says became of a prompt nobody answered is what became of *)
(* it, whatever the fail mode is by then (decision:timeout).               *)
NoticeIsTrue ==
  notice # NoNotice
    => phase[notice.req] = IF notice.allowed THEN "forwarded" ELSE "blocked"

(* An entry of the list has an outcome only when its request ended, and    *)
(* has one when the user or the timer ended it.                            *)
OutcomeIffSettled ==
  \A i \in DOMAIN activity :
    LET e == activity[i] IN
      /\ e.outcome # "none" => phase[e.req] \in Ended
      /\ settledBy[e.req] \in {"user", "timeout"} => e.outcome # "none"

(* A notice leaves the screen without the user's help.                     *)
NoticeGoesAway ==
  \A r \in Requests :
    visible /\ prompt = r /\ notice.req = r ~> ~(visible /\ prompt = r /\ notice.req = r)
=============================================================================
