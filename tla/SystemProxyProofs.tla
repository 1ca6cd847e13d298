------------------------- MODULE SystemProxyProofs --------------------------
(***************************************************************************)
(* Proofs about HostSetup, for any number of services, launches, kills,    *)
(* power losses, edits and lost files: it implements SystemProxy, whose    *)
(* types it keeps on every platform; a clean end gives back what was       *)
(* found; on Windows and macOS only a kill leaves the OS pointing at our   *)
(* port and no helper diverts other traffic; and the authority that is     *)
(* kept and trusted is one.                                                *)
(***************************************************************************)
EXTENDS HostSetup, TLAPS

USE DEF Modes, Settings, Off, Ours, appVars, ownVars, helperVars

LEMMA RestoredType ==
  ASSUME NEW now \in Settings, NEW was \in Settings
  PROVE  Restored(now, was) \in Settings
BY DEF Restored

LEMMA RememberType ==
  ASSUME NEW c \in Settings
  PROVE  Remember(c) \in Settings /\ Remember(c).host # "ours"
BY DEF Remember

\* A restore from a remembered setting sends the traffic where it is owed.
LEMMA RestoredIsOwed ==
  ASSUME platform \in {"win32", "darwin", "linux"}, NEW now \in Settings,
         NEW c \in Settings, Recoverable(c)
  PROVE  Effective(Restored(now, Remember(c))) = Owed(c)
BY DEF Restored, Remember, Effective, Owed, Recoverable

LEMMA OwedIsNotOurs ==
  ASSUME NEW c \in Settings
  PROVE  Owed(c) # "ours"
BY DEF Owed, Effective

\* Neither a user's choice nor a helper points the OS at our port.
LEMMA ChoiceIsNotOurs ==
  ASSUME NEW c \in Settings, NEW d \in UserChoices(c)
  PROVE  d \in Settings /\ Effective(d) # "ours"
BY DEF UserChoices, Effective

LEMMA SwitchedOffIsOff ==
  ASSUME NEW c \in Settings
  PROVE  SwitchedOff(c) \in Settings /\ Effective(SwitchedOff(c)) = "none"
BY DEF SwitchedOff, Effective

-----------------------------------------------------------------------------
\* A step of the host is a step of the proxy's or leaves the proxy alone.
LEMMA HostStep == [HostNext]_allVars => [Next]_vars
BY DEF HostNext, allVars, diskVars, Loads, SavesCert, StoresKey, Activates, Hardens, PromptAnswered,
       Launches, Ends, AppSteps, Loses, Aside, SentinelActs, Next

(***************************************************************************)
(* With the authority and the hardening around it, the app switches the    *)
(* proxy as SystemProxy has it.                                            *)
(***************************************************************************)
THEOREM HostImplementsProxy == HostSpec => Init /\ [][Next]_vars
<1>1. HostInit => Init
  BY DEF HostInit
<1> QED
  BY <1>1, HostStep, PTL DEF HostSpec

-----------------------------------------------------------------------------
LEMMA PlatformStays == [Next]_vars => platform' = platform
BY DEF Next, vars, UserSets, Launch, StartFails, Activate, ActivateFails, Remembering,
       SpawnHelpers, StopRun, Exit, Kill, PowerLoss, Killed, ProcessGone, Restore, SentinelFires,
       WatchdogTick

LEMMA TypeInit == Init => TypeOK
<1> SUFFICES ASSUME Init PROVE TypeOK
  OBVIOUS
<1>1. Off \in Settings /\ [mode |-> "manual", host |-> "user"] \in Settings
  OBVIOUS
<1>2. os \in [Slots -> Settings]
  BY <1>1 DEF Init
<1> QED
  BY <1>1, <1>2 DEF Init, TypeOK

\* What a restore writes.
LEMMA RestoreType ==
  ASSUME TypeOK, Restore
  PROVE  /\ os' \in [Slots -> Settings] /\ saved' \in [Slots -> Settings]
         /\ holds' \in BOOLEAN /\ before' \in [Slots -> Settings]
         /\ ending' \in {"none", "restored", "killed"}
<1>1. CASE holds
  <2>1. os' = [s \in Slots |-> Restored(os[s], saved[s])]
    BY <1>1 DEF Restore
  <2>2. \A s \in Slots : os[s] \in Settings /\ saved[s] \in Settings
    BY DEF TypeOK
  <2>3. os' \in [Slots -> Settings]
    BY <2>1, <2>2, RestoredType
  <2> QED
    BY <1>1, <2>3 DEF Restore, TypeOK
<1>2. CASE ~holds
  BY <1>2 DEF Restore, TypeOK
<1> QED
  BY <1>1, <1>2

LEMMA TypeStep == TypeOK /\ [Next]_vars => TypeOK'
<1> SUFFICES ASSUME TypeOK, [Next]_vars PROVE TypeOK'
  OBVIOUS
<1>p. platform' = platform /\ Slots' = Slots /\ Settings' = Settings
  BY PlatformStays DEF Slots
<1>m. Off \in Settings /\ Ours \in Settings
      /\ \A c \in Settings : [c EXCEPT !.mode = "manual"] \in Settings
  OBVIOUS
<1> HIDE DEF Settings, Modes, Off, Ours
<1> USE <1>p DEF TypeOK, ProcessGone
<1>1. ASSUME NEW s \in Slots, UserSets(s) PROVE TypeOK'
  <2>1. PICK c \in UserChoices(os[s]) : os' = [os EXCEPT ![s] = c]
    BY <1>1 DEF UserSets
  <2>2. c \in Settings
    BY ChoiceIsNotOurs
  <2>3. os' \in [Slots -> Settings]
    BY <2>1, <2>2
  <2> QED
    BY <1>1, <2>3 DEF UserSets
<1>2. ASSUME Launch PROVE TypeOK'
  <2>1. run' \in Nat /\ sentinels' \subseteq 0..run' /\ lost' \subseteq 0..run'
    BY <1>2 DEF Launch
  <2> QED
    BY <1>2, <2>1 DEF Launch
<1>3. ASSUME StartFails PROVE TypeOK'
  BY <1>3 DEF StartFails
<1>4. ASSUME Activate PROVE TypeOK'
  BY <1>4, <1>m, RememberType DEF Activate, Remembering
<1>5. ASSUME ActivateFails PROVE TypeOK'
  <2>1. os' \in [Slots -> Settings]
    BY <1>5, <1>m DEF ActivateFails
  <2> QED
    BY <1>5, <2>1, RememberType DEF ActivateFails, Remembering
<1>6. ASSUME SpawnHelpers PROVE TypeOK'
  <2>1. run' \in Nat /\ sentinels' \subseteq 0..run'
    BY <1>6 DEF SpawnHelpers
  <2> QED
    BY <1>6, <2>1 DEF SpawnHelpers
<1>8. ASSUME StopRun PROVE TypeOK'
  <2>1. Restore
    BY <1>8 DEF StopRun
  <2> QED
    BY <1>8, <2>1, RestoreType DEF StopRun
<1>9. ASSUME Exit PROVE TypeOK'
  <2>1. Restore
    BY <1>9 DEF Exit
  <2>2. lost \cup Unwatched \subseteq 0..run
    BY DEF Unwatched
  <2> QED
    BY <1>9, <2>1, <2>2, RestoreType DEF Exit
<1>10. ASSUME Kill \/ PowerLoss PROVE TypeOK'
  <2>1. lost \cup Unwatched \subseteq 0..run /\ lost \cup sentinels \cup {run} \subseteq 0..run
    BY DEF Unwatched
  <2> QED
    BY <1>10, <2>1 DEF Kill, PowerLoss, Killed
<1>11. ASSUME NEW p \in sentinels, SentinelFires(p) PROVE TypeOK'
  BY <1>11, SwitchedOffIsOff DEF SentinelFires
<1>12. ASSUME WatchdogTick PROVE TypeOK'
  BY <1>12, SwitchedOffIsOff DEF WatchdogTick
<1>13. ASSUME UNCHANGED vars PROVE TypeOK'
  BY <1>13 DEF vars
<1> QED
  BY <1>1, <1>2, <1>3, <1>4, <1>5, <1>6, <1>8, <1>9, <1>10, <1>11, <1>12, <1>13 DEF Next

(***************************************************************************)
(* The variables keep their types; in particular a sentinel only ever      *)
(* watches a run that was started.                                         *)
(***************************************************************************)
THEOREM ProxyTypes == HostSpec => []TypeOK
<1>1. Init => TypeOK
  BY TypeInit
<1> QED
  BY <1>1, TypeStep, HostImplementsProxy, PTL

-----------------------------------------------------------------------------
(***************************************************************************)
(* The inductive invariant: a run that is over holds nothing, what is held *)
(* is what was found apart from ours, and nothing unheld is ours unless    *)
(* the last run that held it was killed.                                   *)
(***************************************************************************)
PInv == TypeOK /\ HeldIsFound /\ NoProxyAfterCleanExit

\* What a restore leaves, when something is held.
LEMMA RestoreGivesBack ==
  ASSUME PInv, holds, Restore, platform' = platform
  PROVE  \A s \in Slots : Recoverable(before[s]) => Effective(os'[s]) = Owed(before[s])
<1> SUFFICES ASSUME NEW s \in Slots, Recoverable(before[s])
             PROVE  Effective(os'[s]) = Owed(before[s])
  OBVIOUS
<1>1. os'[s] = Restored(os[s], Remember(before[s]))
  BY DEF Restore, PInv, HeldIsFound
<1>2. os[s] \in Settings /\ before[s] \in Settings
  BY DEF PInv, TypeOK
<1>3. platform \in {"win32", "darwin", "linux"}
  BY DEF PInv, TypeOK
<1> QED
  BY <1>1, <1>2, <1>3, RestoredIsOwed

LEMMA PInvStep == PInv /\ [Next]_vars => PInv'
<1> SUFFICES ASSUME PInv, [Next]_vars PROVE PInv'
  OBVIOUS
<1>0. TypeOK /\ TypeOK'
  BY TypeStep DEF PInv
<1> SUFFICES HeldIsFound' /\ NoProxyAfterCleanExit'
  BY <1>0 DEF PInv
<1>a. HeldIsFound /\ NoProxyAfterCleanExit
  BY DEF PInv
<1>p. platform' = platform /\ Slots' = Slots
  BY PlatformStays DEF Slots
<1>b. ASSUME Restore PROVE NoProxyAfterCleanExit' /\ ~holds'
  <2>1. ~holds'
    BY <1>b DEF Restore
  <2>2. CASE holds
    <3>1. \A s \in Slots : before[s] \in Settings
      BY <1>0 DEF TypeOK
    <3>2. platform # "linux" => \A s \in Slots : Recoverable(before[s])
      BY DEF Recoverable
    <3>3. platform # "linux" => \A s \in Slots : Effective(os'[s]) # "ours"
      BY <1>b, <1>p, <2>2, <3>1, <3>2, RestoreGivesBack, OwedIsNotOurs
    <3> QED
      BY <1>p, <2>1, <3>3 DEF NoProxyAfterCleanExit
  <2>3. CASE ~holds
    BY <1>a, <1>b, <1>p, <2>3 DEF Restore, NoProxyAfterCleanExit
  <2> QED
    BY <2>1, <2>2, <2>3
<1>1. ASSUME NEW s \in Slots, UserSets(s) PROVE HeldIsFound' /\ NoProxyAfterCleanExit'
  <2>1. PICK c \in UserChoices(os[s]) : os' = [os EXCEPT ![s] = c]
    BY <1>1 DEF UserSets
  <2>2. Effective(c) # "ours"
    BY <1>0, ChoiceIsNotOurs DEF TypeOK
  <2>3. \A t \in Slots : os'[t] = IF t = s THEN c ELSE os[t]
    BY <1>0, <2>1 DEF TypeOK
  <2> QED
    BY <1>1, <1>a, <1>p, <2>2, <2>3 DEF UserSets, HeldIsFound, NoProxyAfterCleanExit
<1>2. ASSUME Launch PROVE HeldIsFound' /\ NoProxyAfterCleanExit'
  BY <1>2, <1>a, <1>p DEF Launch, HeldIsFound, NoProxyAfterCleanExit
<1>3. ASSUME StartFails \/ SpawnHelpers
      PROVE  HeldIsFound' /\ NoProxyAfterCleanExit'
  BY <1>3, <1>a, <1>p DEF StartFails, SpawnHelpers, HeldIsFound, NoProxyAfterCleanExit
<1>4. ASSUME Activate \/ ActivateFails PROVE HeldIsFound' /\ NoProxyAfterCleanExit'
  BY <1>4, <1>a, <1>p DEF Activate, ActivateFails, Remembering, HeldIsFound, NoProxyAfterCleanExit
<1>5. ASSUME StopRun PROVE HeldIsFound' /\ NoProxyAfterCleanExit'
  BY <1>5, <1>a, <1>p, <1>b DEF StopRun, HeldIsFound
<1>6. ASSUME Exit PROVE HeldIsFound' /\ NoProxyAfterCleanExit'
  BY <1>6, <1>b, <1>p DEF Exit, ProcessGone, HeldIsFound
<1>7. ASSUME Kill \/ PowerLoss PROVE HeldIsFound' /\ NoProxyAfterCleanExit'
  BY <1>7, <1>a, <1>p DEF Kill, PowerLoss, Killed, ProcessGone, HeldIsFound, NoProxyAfterCleanExit
<1>8. ASSUME (\E p \in sentinels : SentinelFires(p)) \/ WatchdogTick
      PROVE  HeldIsFound' /\ NoProxyAfterCleanExit'
  <2>1. \A s \in Slots : os'[s] \in {os[s], SwitchedOff(os[s])}
    BY <1>8 DEF SentinelFires, WatchdogTick
  <2>2. \A s \in Slots : Effective(SwitchedOff(os[s])) = "none"
    BY <1>0, SwitchedOffIsOff DEF TypeOK
  <2>3. UNCHANGED <<app, holds, listening, boot, saved, before, ending>>
    BY <1>8 DEF SentinelFires, WatchdogTick
  <2> QED
    BY <1>a, <1>p, <2>1, <2>2, <2>3 DEF HeldIsFound, NoProxyAfterCleanExit
<1>9. ASSUME UNCHANGED vars PROVE HeldIsFound' /\ NoProxyAfterCleanExit'
  BY <1>9, <1>a, <1>p DEF vars, HeldIsFound, NoProxyAfterCleanExit
<1> QED
  BY <1>1, <1>2, <1>3, <1>4, <1>5, <1>6, <1>7, <1>8, <1>9 DEF Next

LEMMA PInvInit == Init => PInv
<1> SUFFICES ASSUME Init PROVE PInv
  OBVIOUS
<1>1. TypeOK
  BY TypeInit
<1> QED
  BY <1>1 DEF Init, PInv, HeldIsFound, NoProxyAfterCleanExit, Effective

(***************************************************************************)
(* On Windows and macOS only a kill or a power loss can leave the OS       *)
(* pointing at our port with nobody holding the user's own settings.       *)
(***************************************************************************)
THEOREM ProxyOnlyKillStrands == HostSpec => []NoProxyAfterCleanExit
<1>1. PInv => NoProxyAfterCleanExit
  BY DEF PInv
<1> QED
  BY <1>1, PInvInit, PInvStep, HostImplementsProxy, PTL

(***************************************************************************)
(* A clean end of the app sends every service's traffic where it went      *)
(* before the app was started, two settings on Linux apart.                *)
(***************************************************************************)
THEOREM ProxyRestores == HostSpec => RestoreReturnsSettings
<1> DEFINE A == holds /\ ~holds' /\ ending' = "restored" =>
                  \A s \in Slots : Recoverable(before[s]) => Effective(os'[s]) = Owed(before[s])
<1>1. PInv /\ [Next]_vars => [A]_vars
  <2> SUFFICES ASSUME PInv, Next, holds, ~holds', ending' = "restored"
               PROVE  \A s \in Slots : Recoverable(before[s]) => Effective(os'[s]) = Owed(before[s])
    OBVIOUS
  <2>0. platform' = platform
    BY PlatformStays
  <2>1. Restore
    BY DEF Next, UserSets, Launch, StartFails, Activate, ActivateFails, Remembering,
           SpawnHelpers, StopRun, Exit, Kill, PowerLoss, Killed, ProcessGone, Restore, SentinelFires,
           WatchdogTick
  <2> QED
    BY <2>0, <2>1, RestoreGivesBack
<1> QED
  BY <1>1, PInvInit, PInvStep, HostImplementsProxy, PTL DEF RestoreReturnsSettings

\* Off Linux a mode is off or manual, so what looks like ours goes to our port or nowhere.
LEMMA HelpersSeeOurs ==
  ASSUME TypeOK, platform # "linux", NEW s \in Slots, LooksOurs(os[s]) \/ WatchdogSees(s)
  PROVE  Effective(os[s]) \in {"ours", "none"}
<1>1. os[s] \in Settings
  BY DEF TypeOK
<1>2. os[s].mode \in {"none", "manual"} /\ os[s].host = "ours"
  BY <1>1 DEF LooksOurs, WatchdogSees
<1> QED
  BY <1>2 DEF Effective

(***************************************************************************)
(* On Windows and macOS neither the sentinel of any run nor the watchdog   *)
(* diverts traffic that does not go to our port, whatever the user has set *)
(* since and whichever run is up.                                          *)
(***************************************************************************)
THEOREM ProxyRescuesOnlyOurs == HostSpec => RescueOnlyOurs
<1> DEFINE A == HelperStep /\ platform # "linux" => \A s \in Slots :
                  Effective(os'[s]) # Effective(os[s]) => Effective(os[s]) = "ours"
<1>1. TypeOK => [A]_vars
  <2> SUFFICES ASSUME TypeOK, HelperStep, platform # "linux", NEW s \in Slots,
                      Effective(os'[s]) # Effective(os[s])
               PROVE  Effective(os[s]) = "ours"
    OBVIOUS
  <2>1. \/ os'[s] = os[s]
        \/ os'[s] = SwitchedOff(os[s]) /\ (LooksOurs(os[s]) \/ WatchdogSees(s))
    BY DEF HelperStep, SentinelFires, WatchdogTick
  <2>2. /\ os'[s] = SwitchedOff(os[s])
        /\ Effective(os[s]) \in {"ours", "none"}
    BY <2>1, HelpersSeeOurs
  <2>3. Effective(os'[s]) = "none"
    BY <2>2, SwitchedOffIsOff DEF TypeOK
  <2> QED
    BY <2>2, <2>3
<1> QED
  BY <1>1, ProxyTypes, PTL DEF RescueOnlyOurs

-----------------------------------------------------------------------------
(***************************************************************************)
(* The inductive invariant of the authority, as long as nothing is lost:   *)
(* whenever there is a key, key and certificate are of one run; only what  *)
(* has a key is trusted; and ensureCA writes only when there is no key.    *)
(***************************************************************************)
CAInv ==
  /\ run \in Nat /\ (app # "off" => run # 0) /\ losses \in Nat
  /\ boot = "activated" => setup = "ready"
  /\ losses = 0 =>
       /\ key # 0 => key = cert
       /\ store # 0 => store = cert /\ key # 0
       /\ setup = "saved" => key = 0 /\ cert = run
       /\ setup \in {"ready", "asking"} => key # 0

LEMMA CAInvInit == HostInit => CAInv
BY DEF HostInit, Init, CAInv

LEMMA RunSteps ==
  ASSUME Next, run \in Nat, app # "off" => run # 0
  PROVE  /\ run' \in Nat /\ (app' # "off" => run' # 0)
         /\ Launch \/ run' = run
<1>1. CASE Launch
  BY <1>1 DEF Launch
<1>2. CASE \/ StartFails \/ Activate \/ ActivateFails \/ SpawnHelpers \/ StopRun
           \/ \E s \in Slots : UserSets(s)
           \/ \E p \in sentinels : SentinelFires(p)
           \/ WatchdogTick
  <2>1. run' = run /\ (app = "off" => app' = "off")
    BY <1>2 DEF UserSets, StartFails, Activate, ActivateFails, SpawnHelpers, StopRun, SentinelFires,
                WatchdogTick
  <2> QED
    BY <2>1
<1>3. CASE Exit \/ Kill \/ PowerLoss
  BY <1>3 DEF Exit, Kill, PowerLoss, ProcessGone
<1> QED
  BY <1>1, <1>2, <1>3 DEF Next

LEMMA CAInvStep == CAInv /\ [HostNext]_allVars => CAInv'
<1> SUFFICES ASSUME CAInv, [HostNext]_allVars PROVE CAInv'
  OBVIOUS
<1> USE DEF CAInv, diskVars
<1>0. UNCHANGED vars => UNCHANGED <<run, app, boot>>
  BY DEF vars
<1>1. ASSUME Loads PROVE CAInv'
  BY <1>1, <1>0 DEF Loads, Starting
<1>2. ASSUME SavesCert PROVE CAInv'
  BY <1>2, <1>0 DEF SavesCert, Starting
<1>3. ASSUME StoresKey PROVE CAInv'
  BY <1>3, <1>0 DEF StoresKey, Starting
<1>4. ASSUME Activates \/ AppSteps PROVE CAInv'
  <2>1. Next /\ ~Launch
    BY <1>4 DEF Activates, AppSteps, Next, Launch, Activate, ActivateFails, StartFails, StopRun
  <2>2. setup = "ready" \/ boot' = "failed" \/ boot' = boot
    BY <1>4 DEF Activates, AppSteps, StartFails, StopRun
  <2>3. UNCHANGED <<key, cert, store, losses, setup>>
    BY <1>4 DEF Activates, AppSteps
  <2>4. run' = run /\ (app' # "off" => run' # 0)
    BY <2>1, RunSteps
  <2> QED
    BY <2>2, <2>3, <2>4
<1>5. ASSUME Hardens PROVE CAInv'
  <2>1. Next /\ setup = "ready" => run' = run
    BY <1>5 DEF Hardens, Next, SpawnHelpers
  <2> QED
    BY <1>5, <2>1 DEF Hardens, SpawnHelpers
<1>6. ASSUME PromptAnswered PROVE CAInv'
  BY <1>6, <1>0 DEF PromptAnswered
<1>7. ASSUME Launches \/ Ends PROVE CAInv'
  <2>1. Next
    BY <1>7 DEF Launches, Ends, Next
  <2>2. boot' # "activated"
    BY <1>7 DEF Launches, Ends, Launch, Kill, PowerLoss, Exit, ProcessGone
  <2>3. UNCHANGED <<key, cert, store, losses>> /\ setup' = "none"
    BY <1>7 DEF Launches, Ends
  <2>4. run' \in Nat /\ (app' # "off" => run' # 0)
    BY <2>1, RunSteps
  <2> QED
    BY <2>2, <2>3, <2>4
<1>8. ASSUME Loses PROVE CAInv'
  BY <1>8, <1>0 DEF Loses
<1>9. ASSUME NEW s \in Slots, Aside(UserSets(s)) PROVE CAInv'
  BY <1>9 DEF Aside, UserSets, appVars
<1>10. ASSUME NEW p \in sentinels, SentinelActs(p) PROVE CAInv'
  BY <1>10 DEF SentinelActs, Aside, SentinelFires, appVars
<1>11. ASSUME Aside(WatchdogTick) PROVE CAInv'
  BY <1>11 DEF Aside, WatchdogTick, appVars
<1>12. ASSUME UNCHANGED allVars PROVE CAInv'
  BY <1>12, <1>0 DEF allVars
<1> QED
  BY <1>1, <1>2, <1>3, <1>4, <1>5, <1>6, <1>7, <1>8, <1>9, <1>10, <1>11, <1>12 DEF HostNext

(***************************************************************************)
(* Whatever ends a run, and between which of its writes, the key, the      *)
(* certificate and the trusted authority are of one run, while none of     *)
(* them is lost outside the app.                                           *)
(***************************************************************************)
THEOREM AuthorityIsWhole == HostSpec => []CAIsWhole
<1>1. CAInv => CAIsWhole
  BY DEF CAInv, CAIsWhole
<1> QED
  BY <1>1, CAInvInit, CAInvStep, PTL DEF HostSpec
=============================================================================
