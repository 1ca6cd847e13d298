---------------------------- MODULE DecisionGate ----------------------------
(***************************************************************************)
(* The request path of the desktop proxy (pretzel-desktop/electron/        *)
(* proxy.ts): a browser opens a tunnel to a monitored AI site, a prompt is *)
(* POSTed through it, the body is scanned with the organisation's policy   *)
(* and, when a warn or block rule matches, the request is HELD: an entry   *)
(* in the `pending` map, a 30 s timer, and an event to the listeners that  *)
(* show the prompt.  The first of the user's answer, the timer, and the    *)
(* shutdown of the proxy settles it.                                       *)
(*                                                                         *)
(* Each request stands for one prompt on a connection of its own.  The     *)
(* listeners (windows, notifications, tray) are not here: an emit either   *)
(* returns or throws (`ok`).  DecisionDesk models them and composes them   *)
(* with this module.                                                       *)
(***************************************************************************)
EXTENDS Naturals, FiniteSets

CONSTANT Requests          \* prompts the browser sends in this run

VARIABLES
  proc,        \* the Electron main process: "up", "stopping", "exiting", "dead"
  policy,      \* failMode of the installed policy, "none" when there is none
  phase,       \* Requests -> how far the request is
  action,      \* Requests -> highestAction the scan found
  onTimeout,   \* Requests -> what an unanswered prompt gets, fixed at hold time
  pending,     \* keys of the `pending` map
  timer,       \* requests whose decision timer is armed
  answer,      \* Requests -> the user's answer that settled the request
  settledBy    \* Requests -> what settled the request

vars == <<proc, policy, phase, action, onTimeout, pending, timer, answer, settledBy>>
scanVars == <<action, onTimeout>>
heldVars == <<pending, timer, answer>>

Phases     == {"idle", "blind", "tunnel", "scanning", "held",
               "forwarded", "blocked", "dropped"}
Ended      == {"forwarded", "blocked", "dropped"}
Actions    == {"none", "log", "warn", "block"}
FailModes  == {"none", "open", "closed"}
Choices    == {"allow", "block"}
Settlers   == {"nobody", "unscanned", "scan", "user", "timeout", "stop", "error", "death"}

TypeOK ==
  /\ proc \in {"up", "stopping", "exiting", "dead"}
  /\ policy \in FailModes
  /\ phase \in [Requests -> Phases]
  /\ action \in [Requests -> Actions]
  /\ onTimeout \in [Requests -> Choices]
  /\ pending \subseteq Requests
  /\ timer \subseteq Requests
  /\ answer \in [Requests -> Choices \cup {"none"}]
  /\ settledBy \in [Requests -> Settlers]

Init ==
  /\ proc = "up"
  /\ policy = "none"
  /\ phase = [r \in Requests |-> "idle"]
  /\ action = [r \in Requests |-> "none"]
  /\ onTimeout = [r \in Requests |-> "block"]
  /\ pending = {}
  /\ timer = {}
  /\ answer = [r \in Requests |-> "none"]
  /\ settledBy = [r \in Requests |-> "nobody"]

-----------------------------------------------------------------------------
(***************************************************************************)
(* failOpen and decideOnTimeout.  Without a policy the fail mode is open.  *)
(***************************************************************************)
FailOpen == policy # "closed"

DecideOnTimeoutByMode(a) == IF FailOpen THEN "allow" ELSE "block"   \* mutant: block rules too

DecideOnTimeout(a) == IF a # "block" /\ FailOpen THEN "allow" ELSE "block"

PhaseOf(choice) == IF choice = "allow" THEN "forwarded" ELSE "blocked"

\* The request is over: `p` is what the browser sees, `by` who decided.
End(r, p, by) == /\ phase' = [phase EXCEPT ![r] = p]
                 /\ settledBy' = [settledBy EXCEPT ![r] = by]

Alive == proc # "dead"

\* An uncaught exception ends the process a moment later; a server that
\* stopped stays so.
Crashing == IF proc = "stopping" THEN proc ELSE "exiting"

(***************************************************************************)
(* setPolicy: a sync installs a policy, a sign-out removes it.             *)
(***************************************************************************)
SetPolicy(p) ==
  /\ Alive
  /\ p # policy
  /\ policy' = p
  /\ UNCHANGED <<proc, phase, settledBy, scanVars, heldVars>>

(***************************************************************************)
(* handleConnect: without a policy the CONNECT is tunnelled blindly, and   *)
(* stays so for the life of the connection.                                *)
(***************************************************************************)
Connect(r) ==
  /\ proc \in {"up", "exiting"}
  /\ phase[r] = "idle"
  /\ phase' = [phase EXCEPT ![r] = IF policy = "none" THEN "blind" ELSE "tunnel"]
  /\ UNCHANGED <<proc, policy, settledBy, scanVars, heldVars>>

BlindSend(r) ==
  /\ Alive
  /\ phase[r] = "blind"
  /\ End(r, "forwarded", "unscanned")
  /\ UNCHANGED <<proc, policy, scanVars, heldVars>>

(***************************************************************************)
(* handleInterceptedRequest: the body is buffered and, unless it is empty, *)
(* larger than MAX_INSPECT_BYTES, on a noise path, not a mutating method   *)
(* or there is no policy by now, handed to the scan.                       *)
(***************************************************************************)
Inspect(r) ==
  /\ Alive
  /\ phase[r] = "tunnel"
  /\ policy # "none"
  /\ phase' = [phase EXCEPT ![r] = "scanning"]
  /\ UNCHANGED <<proc, policy, settledBy, scanVars, heldVars>>

PassUninspected(r) ==
  /\ Alive
  /\ phase[r] = "tunnel"
  /\ End(r, "forwarded", "unscanned")
  /\ UNCHANGED <<proc, policy, scanVars, heldVars>>

ScanClean(r) ==
  /\ Alive
  /\ phase[r] = "scanning"
  /\ End(r, "forwarded", "scan")
  /\ action' = [action EXCEPT ![r] = "log"]
  /\ UNCHANGED <<proc, policy, onTimeout, heldVars>>

\* evaluateRequest throws: the fail mode in force now decides.
ScanFails(r) ==
  /\ Alive
  /\ phase[r] = "scanning"
  /\ End(r, IF FailOpen THEN "forwarded" ELSE "blocked", "error")
  /\ UNCHANGED <<proc, policy, scanVars, heldVars>>

(***************************************************************************)
(* awaitDecision: the entry goes into the map, the listeners run, then the *)
(* timer is armed.  A listener that throws leaves the entry in the map     *)
(* without a timer; the exception reaches the catch of                     *)
(* handleInterceptedRequest, which treats it as a failed scan.             *)
(***************************************************************************)
HoldAction(r, a) ==
  /\ Alive
  /\ phase[r] = "scanning"
  /\ action' = [action EXCEPT ![r] = a]
  /\ onTimeout' = [onTimeout EXCEPT ![r] = DecideOnTimeout(a)]
  /\ pending' = pending \cup {r}

HoldUntimed(r, a) ==                                    \* mutant: no timer
  /\ HoldAction(r, a)
  /\ UNCHANGED timer
  /\ phase' = [phase EXCEPT ![r] = "held"]
  /\ UNCHANGED <<proc, policy, answer, settledBy>>

Hold(r, a) ==
  /\ HoldAction(r, a)
  /\ timer' = timer \cup {r}
  /\ phase' = [phase EXCEPT ![r] = "held"]
  /\ UNCHANGED <<proc, policy, answer, settledBy>>

HoldThrows(r, a) ==
  /\ HoldAction(r, a)
  /\ End(r, IF FailOpen THEN "forwarded" ELSE "blocked", "error")
  /\ UNCHANGED <<proc, policy, timer, answer>>

-----------------------------------------------------------------------------
(***************************************************************************)
(* resolveDecision from the UI; `ok` says whether the handler then         *)
(* returns.  A request no longer in the map is a no-op (no action here).   *)
(* An entry leaked by HoldThrows throws in settle (its timer was never     *)
(* initialised): uncaughtException restores the OS proxy and exits the     *)
(* process a moment later.                                                 *)
(***************************************************************************)
Settle(r, choice, by) ==
  /\ pending' = pending \ {r}
  /\ timer' = timer \ {r}
  /\ End(r, PhaseOf(choice), by)

ResolveDecision(r, choice, ok) ==
  /\ Alive
  /\ r \in pending \cap timer
  /\ Settle(r, choice, "user")
  /\ answer' = [answer EXCEPT ![r] = choice]
  /\ proc' = IF ok THEN proc ELSE Crashing
  /\ UNCHANGED <<policy, scanVars>>

ResolveLeaked(r) ==
  /\ Alive
  /\ r \in pending \ timer
  /\ pending' = pending \ {r}
  /\ proc' = Crashing
  /\ UNCHANGED <<policy, phase, settledBy, scanVars, timer, answer>>

\* The rest of the UI's answer throws, and there was nothing to resolve.
ListenerThrows ==
  /\ Alive
  /\ proc' = Crashing
  /\ UNCHANGED <<policy, phase, settledBy, scanVars, heldVars>>

\* The decision timer fires; `ok` says whether the decision-timeout listeners return.
TimeoutFires(r, ok) ==
  /\ Alive
  /\ r \in timer
  /\ Settle(r, onTimeout[r], "timeout")
  /\ proc' = IF ok THEN proc ELSE Crashing
  /\ UNCHANGED <<policy, scanVars, answer>>

(***************************************************************************)
(* stop, from before-quit: every entry gets its default (the timeout       *)
(* choice).  A leaked entry throws, so only the entries held before it     *)
(* (some set D) are settled, and the rejected promise ends the process.    *)
(***************************************************************************)
StopSettles(D) ==
  /\ pending' = pending \ D
  /\ timer' = timer \ D
  /\ phase' = [r \in Requests |-> IF r \in D THEN PhaseOf(onTimeout[r]) ELSE phase[r]]
  /\ settledBy' = [r \in Requests |-> IF r \in D THEN "stop" ELSE settledBy[r]]
  /\ UNCHANGED <<policy, scanVars, answer>>

Stop ==
  /\ proc \in {"up", "exiting"}
  /\ \/ /\ pending \subseteq timer
        /\ StopSettles(pending)
        /\ proc' = "stopping"
     \/ \E D \in SUBSET (pending \cap timer) :
           /\ ~ (pending \subseteq timer)
           /\ StopSettles(D)
           /\ proc' = "exiting"

\* The process ends: after a quit or a crash handler, or killed at any time.
\* Every connection it still holds is cut.
Exit ==
  /\ Alive
  /\ proc' = "dead"
  /\ policy' = "none"
  /\ pending' = {} /\ timer' = {}
  /\ phase' = [r \in Requests |-> IF phase[r] \in Ended \cup {"idle"}
                                  THEN phase[r] ELSE "dropped"]
  /\ settledBy' = [r \in Requests |-> IF phase[r] \in Ended \cup {"idle"}
                                      THEN settledBy[r] ELSE "death"]
  /\ UNCHANGED <<scanVars, answer>>

-----------------------------------------------------------------------------
Scan(r) == \/ ScanClean(r)
           \/ ScanFails(r)
           \/ \E a \in {"warn", "block"} : Hold(r, a) \/ HoldThrows(r, a)

Next == \/ \E p \in FailModes : SetPolicy(p)
        \/ \E r \in Requests :
              \/ Connect(r) \/ BlindSend(r) \/ Inspect(r) \/ PassUninspected(r)
              \/ Scan(r)
              \/ \E c \in Choices, ok \in BOOLEAN : ResolveDecision(r, c, ok)
              \/ ResolveLeaked(r)
              \/ \E ok \in BOOLEAN : TimeoutFires(r, ok)
        \/ ListenerThrows
        \/ Stop
        \/ Exit

(***************************************************************************)
(* Node runs every scan to its end and fires every armed timer; nothing    *)
(* obliges the user to answer, or the process to be stopped.               *)
(***************************************************************************)
Fairness == \A r \in Requests : /\ WF_vars(Scan(r))
                                /\ WF_vars(\E ok \in BOOLEAN : TimeoutFires(r, ok))

Spec == Init /\ [][Next]_vars /\ Fairness

-----------------------------------------------------------------------------
(***************************************************************************)
(* A held request can always be settled without the user: it is in the map *)
(* and its timer runs, for as long as it is held (proxy.ts awaitDecision). *)
(***************************************************************************)
HeldIsTimed == timer = {r \in Requests : phase[r] = "held"} /\ timer \subseteq pending

(***************************************************************************)
(* A prompt a block rule matched reaches the AI site only if the user      *)
(* allowed it (the prompt's "Always allow this rule") or a listener threw  *)
(* while it was being held (proxy.ts decideOnTimeout, stop, awaitDecision).*)
(***************************************************************************)
BlockNeedsConsent ==
  \A r \in Requests : phase[r] = "forwarded" /\ action[r] = "block"
                         => answer[r] = "allow" \/ settledBy[r] = "error"

(***************************************************************************)
(* The user's word is final: a request the user answered ended the way the *)
(* answer said, neither the timer nor a shutdown overrides it (settle).    *)
(***************************************************************************)
AnswerWins ==
  \A r \in Requests : answer[r] # "none" =>
     settledBy[r] = "user" /\ phase[r] = PhaseOf(answer[r])

\* Nothing is decided about a request before it ends.
Undecided ==
  /\ \A r \in Requests : phase[r] \notin Ended => settledBy[r] = "nobody" /\ answer[r] = "none"
  /\ \A r \in Requests : phase[r] \in {"idle", "blind", "tunnel", "scanning"} => action[r] = "none"

\* A held block rule has the default its timer and a shutdown rely on.
BlockDefault == \A r \in timer : action[r] = "block" => onTimeout[r] = "block"

(***************************************************************************)
(* The inductive invariant: the properties above and what keeps them, that *)
(* nothing is decided before a request ends and that a held block rule     *)
(* carries the default `block` its timer and a shutdown apply.             *)
(***************************************************************************)
IInv == /\ TypeOK
        /\ HeldIsTimed
        /\ Undecided
        /\ BlockDefault
        /\ BlockNeedsConsent
        /\ AnswerWins

(***************************************************************************)
(* Every prompt handed to the scan ends: forwarded, refused, or cut with   *)
(* the process, whether or not anybody answers (the 30 s decision timer).  *)
(***************************************************************************)
ScannedRequestEnds ==
  \A r \in Requests : phase[r] \in {"scanning", "held"} ~> phase[r] \in Ended

(***************************************************************************)
(* proxy.ts implements the promise of PromptGate.                          *)
(***************************************************************************)
Verdict == [p \in Ended |-> IF p = "forwarded" THEN "sent"
                           ELSE IF p = "blocked" THEN "refused" ELSE "lost"]

Gate == INSTANCE PromptGate WITH
  verdict <- [r \in Requests |-> IF phase[r] \notin Ended THEN "open" ELSE Verdict[phase[r]]],
  rule    <- [r \in Requests |-> IF action[r] = "none" THEN "unknown" ELSE action[r]],
  excused <- {r \in Requests : answer[r] = "allow" \/ settledBy[r] = "error"}

GateSpec == Gate!Spec

(***************************************************************************)
(* What the comment of decideOnTimeout says of block rules ("must never be *)
(* waved through by walking away, whatever the failMode"): a prompt a      *)
(* block rule matched is sent only when the user allowed it.               *)
(***************************************************************************)
BlockNeverWavedThrough ==
  \A r \in Requests : phase[r] = "forwarded" /\ action[r] = "block" => answer[r] = "allow"
=============================================================================
