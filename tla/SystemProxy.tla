---------------------------- MODULE SystemProxy -----------------------------
(***************************************************************************)
(* The operating system's proxy setting as the desktop app switches it to  *)
(* itself and back (system-proxy.ts, main.ts), and the two helpers outside *)
(* the app that put a user back online when it is gone: the sentinel of    *)
(* each run (proxy-sentinel.ts) and the scheduled watchdog                 *)
(* (proxy-watchdog.ts).                                                    *)
(*                                                                         *)
(* A setting is a mode and the host of the http entry; the https entry     *)
(* follows it.  macOS has one setting per network service, the others have *)
(* one.  The app's port is the only one on its host.                       *)
(***************************************************************************)
EXTENDS Naturals

CONSTANTS Services,  \* macOS network services
          Watched,   \* the first of them, or the only setting elsewhere
          MaxRuns,   \* bound: launches of the app
          MaxEdits   \* bound: changes of the setting by the user

ASSUME ProxyAssumption ==
  Watched \in Services /\ MaxRuns \in Nat /\ MaxEdits \in Nat

VARIABLES
  platform,   \* process.platform
  os,         \* [Slots -> Settings]
  app,        \* "off", "up" or "stopping"
  run,        \* launches so far; the PID of the current or last one
  boot,       \* how far startProxy is
  listening,  \* the port is served
  saved,      \* system-proxy.ts: saved, and whether it is set
  holds,
  before,     \* history: what activateSystemProxy found
  ending,     \* history: how the last run that held settings let go of them
  sentinels,  \* runs whose sentinel is waiting
  lost,       \* history: runs that ended with no sentinel to notice
  watchdog,   \* the scheduled task is installed
  edits       \* changes by the user so far

appVars == <<app, run, boot, listening>>
ownVars == <<saved, holds, before, ending>>
helperVars == <<sentinels, lost, watchdog>>
vars == <<platform, os, appVars, ownVars, helperVars, edits>>

Modes == IF platform = "linux" THEN {"none", "manual", "auto"} ELSE {"none", "manual"}
Settings == [mode : Modes, host : {"none", "user", "ours"}]
Slots == IF platform = "darwin" THEN Services ELSE {Watched}

Off == [mode |-> "none", host |-> "none"]
Ours == [mode |-> "manual", host |-> "ours"]

(* Where the traffic of a setting goes. *)
Effective(c) == IF c.mode = "manual" THEN c.host ELSE c.mode

(* What the user is owed after a clean end: never our dead port. *)
Owed(c) == IF Effective(c) = "ours" THEN "none" ELSE Effective(c)

(* Two settings of Linux that a restore does not bring back: a manual      *)
(* proxy without an http host, into which our host is left, and automatic  *)
(* configuration over a leftover host of ours, which the crash guard takes *)
(* for our own setting.                                                    *)
Recoverable(c) ==
  platform = "linux" => /\ ~(c.mode = "manual" /\ c.host = "none")
                        /\ ~(c.mode = "auto" /\ c.host = "ours")

Init == /\ platform \in {"win32", "darwin", "linux"}
        /\ os \in [Slots -> {Off, [mode |-> "manual", host |-> "user"]}]
        /\ app = "off" /\ run = 0 /\ boot = "failed" /\ listening = FALSE
        /\ saved = [s \in Slots |-> Off] /\ holds = FALSE
        /\ before = [s \in Slots |-> Off] /\ ending = "none"
        /\ sentinels = {} /\ lost = {} /\ watchdog = FALSE /\ edits = 0

-----------------------------------------------------------------------------
(* The user changes mode or host by hand; nobody chooses our port. *)
UserChoices(c) ==
  {d \in Settings : Effective(d) # "ours" /\ d.host \in {c.host, "user"}}

UserSets(s) ==
  /\ edits < MaxEdits
  /\ edits' = edits + 1
  /\ \E c \in UserChoices(os[s]) : os' = [os EXCEPT ![s] = c]
  /\ UNCHANGED <<platform, appVars, ownVars, helperVars>>

-----------------------------------------------------------------------------
(* activateSystemProxy and restoreSystemProxy. *)

RememberAsFound(c) == c          \* mutant: no crash-recovery guard

(* A setting that names our host is the trace of a crash, not a choice. *)
Remember(c) == IF c.host = "ours" THEN Off ELSE c

(* What a restore of `was` makes of the setting `now`: macOS switches an   *)
(* empty entry off and leaves its host, gsettings keeps the host when none *)
(* is remembered, Windows writes or deletes both values.                   *)
Restored(now, was) ==
  IF platform = "linux"
  THEN [mode |-> was.mode, host |-> IF was.host = "none" THEN now.host ELSE was.host]
  ELSE IF platform = "win32" \/ (was.mode = "manual" /\ was.host # "none")
       THEN was
       ELSE [now EXCEPT !.mode = "none"]

(* A no-op when nothing is held. *)
Restore ==
  \/ /\ holds
     /\ os' = [s \in Slots |-> Restored(os[s], saved[s])]
     /\ holds' = FALSE /\ ending' = "restored"
     /\ UNCHANGED <<saved, before>>
  \/ ~holds /\ UNCHANGED <<os, ownVars>>

-----------------------------------------------------------------------------
(* A run of the app. *)

Launch ==
  /\ app = "off" /\ run < MaxRuns
  /\ app' = "up" /\ run' = run + 1 /\ boot' = "starting"
  /\ UNCHANGED <<platform, os, listening, ownVars, helperVars, edits>>

(* ensureCA or proxy.start rejects, or macOS cannot list its services:     *)
(* the app runs on without the proxy.                                      *)
StartFails ==
  /\ app # "off" /\ boot = "starting"
  /\ boot' = "failed"
  /\ listening' = FALSE \/ (platform = "darwin" /\ listening' = TRUE)
  /\ UNCHANGED <<platform, os, app, run, ownVars, helperVars, edits>>

Remembering ==
  /\ saved' = [s \in Slots |-> Remember(os[s])]
  /\ holds' = TRUE
  /\ before' = os
  /\ UNCHANGED ending

(* The proxy listens, then the OS is pointed at it.  macOS skips a service *)
(* that refuses.  A quit that began meanwhile does not stop this.          *)
Activate ==
  /\ app # "off" /\ boot = "starting"
  /\ Remembering
  /\ \E skipped \in IF platform = "darwin" THEN SUBSET Slots ELSE {{}} :
       os' = [s \in Slots |-> IF s \in skipped THEN os[s] ELSE Ours]
  /\ boot' = "activated" /\ listening' = TRUE
  /\ UNCHANGED <<platform, app, run, helperVars, edits>>

(* A reg or gsettings command throws: the mode may be written, or all of   *)
(* it, and startProxy rejects before it spawns the helpers.                *)
ActivateFails ==
  /\ app # "off" /\ boot = "starting" /\ platform # "darwin"
  /\ Remembering
  /\ os' \in {os, [s \in Slots |-> [os[s] EXCEPT !.mode = "manual"]],
              [s \in Slots |-> Ours]}
  /\ boot' = "failed" /\ listening' = TRUE
  /\ UNCHANGED <<platform, app, run, helperVars, edits>>

(* The rest of startProxy, in the same turn of the event loop; a spawn or  *)
(* an install that fails is logged.  Linux has no watchdog.                *)
SpawnHelpers ==
  /\ app # "off" /\ boot = "activated"
  /\ boot' = "done"
  /\ sentinels' \in {sentinels, sentinels \cup {run}}
  /\ watchdog' \in {watchdog, platform # "linux"}
  /\ UNCHANGED <<platform, os, app, run, listening, ownVars, lost, edits>>

(* before-quit, or the handlers of an uncaught exception and an unhandled  *)
(* rejection, which flush reports before they exit.                        *)
StopRun ==
  /\ app = "up" /\ boot # "activated"
  /\ app' = "stopping"
  /\ listening' \in {listening, FALSE}
  /\ Restore
  /\ UNCHANGED <<platform, run, boot, helperVars, edits>>

ProcessGone ==
  /\ app' = "off" /\ listening' = FALSE /\ boot' = "failed"
  /\ UNCHANGED <<platform, run, watchdog, edits>>

Unwatched == IF run \in sentinels THEN {} ELSE {run}

ExitUnrestored ==                     \* mutant: no restore at exit
  /\ app # "off" /\ boot # "activated"
  /\ ProcessGone
  /\ holds' = FALSE /\ UNCHANGED <<os, saved, before, ending>>
  /\ lost' = lost \cup Unwatched /\ UNCHANGED sentinels

(* A signal, or the end of a quit: the exit handler restores once more. *)
Exit ==
  /\ app # "off" /\ boot # "activated"
  /\ Restore
  /\ ProcessGone
  /\ lost' = lost \cup Unwatched /\ UNCHANGED sentinels

(* Nothing of ours runs. *)
Killed == /\ ending' = IF holds THEN "killed" ELSE ending
          /\ holds' = FALSE
          /\ UNCHANGED <<os, saved, before>>

Kill ==
  /\ app # "off"
  /\ Killed
  /\ ProcessGone
  /\ lost' = lost \cup Unwatched /\ UNCHANGED sentinels

(* The sentinels go with the machine. *)
PowerLoss ==
  /\ app # "off"
  /\ Killed
  /\ ProcessGone
  /\ lost' = lost \cup sentinels \cup {run} /\ sentinels' = {}

-----------------------------------------------------------------------------
(* The helpers. *)

LooksOursAnyHost(c) == c.mode = "manual"       \* mutant: any host

(* The Windows script looks at the mode and the host, the others at the    *)
(* host.                                                                   *)
LooksOurs(c) == c.host = "ours" /\ (platform = "win32" => c.mode = "manual")

SwitchedOff(c) == IF platform = "win32" THEN Off ELSE [c EXCEPT !.mode = "none"]

SentinelFiresForOldRuns(p) ==                  \* mutant: waits for a later run
  /\ p # run
  /\ os' = [s \in Slots |-> IF LooksOurs(os[s]) THEN SwitchedOff(os[s]) ELSE os[s]]
  /\ sentinels' = sentinels \ {p}
  /\ UNCHANGED <<platform, appVars, ownVars, lost, watchdog, edits>>

(* The PID is gone: whatever looks like ours is switched off, once. *)
SentinelFires(p) ==
  /\ p # run \/ app = "off"
  /\ os' = [s \in Slots |-> IF LooksOurs(os[s]) THEN SwitchedOff(os[s]) ELSE os[s]]
  /\ sentinels' = sentinels \ {p}
  /\ UNCHANGED <<platform, appVars, ownVars, lost, watchdog, edits>>

(* The macOS script looks at the first service.  The Windows script reads  *)
(* a path without the drive's colon, where there is nothing.               *)
WatchdogSees(s) == platform = "darwin" /\ s = Watched /\ os[s].host = "ours"

NobodyListens == ~listening

WatchdogTick ==
  /\ watchdog /\ NobodyListens
  /\ WatchdogSees(Watched)
  /\ os' = [s \in Slots |-> IF WatchdogSees(s) THEN SwitchedOff(os[s]) ELSE os[s]]
  /\ UNCHANGED <<platform, appVars, ownVars, helperVars, edits>>

-----------------------------------------------------------------------------
Next == \/ \E s \in Slots : UserSets(s)
        \/ Launch \/ StartFails \/ Activate \/ ActivateFails \/ SpawnHelpers
        \/ StopRun \/ Exit \/ Kill \/ PowerLoss
        \/ \E p \in sentinels : SentinelFires(p)
        \/ WatchdogTick

(* The helpers run outside the app and keep polling. *)
Fairness == /\ \A p \in 1..MaxRuns : WF_vars(p \in sentinels /\ SentinelFires(p))
            /\ WF_vars(WatchdogTick)

Spec == Init /\ [][Next]_vars /\ Fairness

-----------------------------------------------------------------------------
(* Every variable has its type. *)
TypeOK ==
  /\ platform \in {"win32", "darwin", "linux"}
  /\ os \in [Slots -> Settings]
  /\ app \in {"off", "up", "stopping"} /\ run \in Nat
  /\ boot \in {"starting", "activated", "done", "failed"}
  /\ listening \in BOOLEAN
  /\ saved \in [Slots -> Settings] /\ holds \in BOOLEAN
  /\ before \in [Slots -> Settings] /\ ending \in {"none", "restored", "killed"}
  /\ sentinels \subseteq 0..run /\ lost \subseteq 0..run
  /\ watchdog \in BOOLEAN /\ edits \in Nat

(* What is held in memory is what was found, apart from ours; a process    *)
(* that is gone holds nothing.                                             *)
HeldIsFound ==
  /\ holds => \A s \in Slots : saved[s] = Remember(before[s])
  /\ app = "off" => ~holds

(* On Windows and macOS a setting that points at our port while nobody     *)
(* holds the user's own is the trace of a kill or a power loss             *)
(* (system-proxy.ts restores on every other end of a run).                 *)
NoProxyAfterCleanExit ==
  platform # "linux" /\ ~holds /\ (\E s \in Slots : Effective(os[s]) = "ours")
    => ending = "killed"

(* A clean end sends each service's traffic where it went before the app   *)
(* switched it over (restoreSystemProxy: "to what they were before").      *)
RestoreReturnsSettings ==
  [][holds /\ ~holds' /\ ending' = "restored" =>
       \A s \in Slots : Recoverable(before[s]) => Effective(os'[s]) = Owed(before[s])]_vars

HelperStep == (\E p \in sentinels : SentinelFires(p)) \/ WatchdogTick

(* A helper diverts only traffic that goes to our port (proxy-sentinel.ts: *)
(* "if it's still pointed at our (now-dead) port").  The Linux sentinel    *)
(* looks at the host only and switches automatic configuration off too.    *)
RescueOnlyOurs ==
  [][HelperStep /\ platform # "linux" => \A s \in Slots :
       Effective(os'[s]) # Effective(os[s]) => Effective(os[s]) = "ours"]_vars

Stranded(s) == s \in Slots /\ app = "off" /\ Effective(os[s]) = "ours"

(* The sentinel of a dead run puts a stranded user back online, unless the *)
(* run had none or the machine went down with it.                          *)
SentinelRescues ==
  \A s \in Services : Stranded(s) /\ run \notin lost ~> ~Stranded(s)

=============================================================================
