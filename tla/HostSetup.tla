----------------------------- MODULE HostSetup -----------------------------
(***************************************************************************)
(* What surrounds the switch of the OS proxy when the desktop app starts:  *)
(* before it the app loads or makes its certificate authority (ensureCA),  *)
(* a certificate file and a key in the OS keychain; after it the OS is to  *)
(* trust the certificate (ensureHostHardening), for which it asks the user *)
(* to elevate.  The elevated command is run by execSync or execFileSync:   *)
(* until the prompt is answered nothing else of the app runs, the proxy    *)
(* neither.                                                                *)
(*                                                                         *)
(* An authority is named by the run that made it, 0 is none.  The rule     *)
(* against QUIC is no state here, and a trust store can be read.           *)
(***************************************************************************)
EXTENDS SystemProxy

CONSTANT MaxLosses   \* bound: files or keys lost

ASSUME HostAssumption == MaxLosses \in Nat

VARIABLES
  key,     \* in the keychain: the private key of which authority
  cert,    \* pretzel-ca.crt: of which authority
  store,   \* the authority in the OS's trust store, found there by its common name
  setup,   \* how far ensureCA and ensureHostHardening are
  losses   \* so far

diskVars == <<key, cert, store, losses>>
allVars == <<vars, diskVars, setup>>

Foreign == MaxRuns + 1   \* an authority of another program that shares the keychain entry

HostInit ==
  /\ Init
  /\ key = 0 /\ cert = 0 /\ store = 0 /\ setup = "none" /\ losses = 0

-----------------------------------------------------------------------------
(* ensureCA. *)

Starting(at) == app # "off" /\ boot = "starting" /\ setup = at

Loads ==
  /\ Starting("none") /\ key # 0 /\ cert # 0
  /\ setup' = "ready"
  /\ UNCHANGED <<vars, diskVars>>

\* mutant: a certificate file that is there is kept.
SavesMissingCert ==
  /\ Starting("none") /\ (key = 0 \/ cert = 0)
  /\ cert' = IF cert = 0 THEN run ELSE cert
  /\ setup' = "saved"
  /\ UNCHANGED <<vars, key, store, losses>>

\* A new authority: first the file ...
SavesCert ==
  /\ Starting("none") /\ (key = 0 \/ cert = 0)
  /\ cert' = run /\ setup' = "saved"
  /\ UNCHANGED <<vars, key, store, losses>>

\* ... then the key.
StoresKey ==
  /\ Starting("saved")
  /\ key' = run /\ setup' = "ready"
  /\ UNCHANGED <<vars, cert, store, losses>>

\* Then the proxy starts with it.
Activates == setup = "ready" /\ (Activate \/ ActivateFails) /\ UNCHANGED <<diskVars, setup>>

-----------------------------------------------------------------------------
(* ensureHostHardening, in the turn in which the helpers are spawned. *)

\* The prompt comes when no authority of our name is trusted, or when the rule against QUIC,
\* which Linux does not have, is not found.
MayAsk == {store = 0} \cup (IF platform = "linux" THEN {} ELSE {TRUE})

Hardens ==
  /\ SpawnHelpers
  /\ \E asks \in MayAsk : setup' = IF asks THEN "asking" ELSE "ready"
  /\ UNCHANGED diskVars

\* Declined, failed half way, or done.
PromptAnswered ==
  /\ setup = "asking" /\ setup' = "ready"
  /\ store' \in {store, IF store = 0 THEN cert ELSE store}
  /\ UNCHANGED <<vars, key, cert, losses>>

-----------------------------------------------------------------------------
(* The rest of the app's life, and what happens around it. *)

Launches == Launch /\ setup' = "none" /\ UNCHANGED diskVars
\* A prompt that outlives its app is not followed.
Ends == (Kill \/ PowerLoss \/ (setup # "asking" /\ Exit)) /\ setup' = "none" /\ UNCHANGED diskVars
AppSteps == (StartFails \/ (setup # "asking" /\ StopRun)) /\ UNCHANGED <<diskVars, setup>>

\* The app's data is deleted, or the keychain entry is deleted or overwritten.
Loses ==
  /\ app = "off" /\ losses < MaxLosses
  /\ losses' = losses + 1
  /\ \/ cert # 0 /\ cert' = 0 /\ UNCHANGED key
     \/ key' \in {0, Foreign} \ {key} /\ UNCHANGED cert
  /\ UNCHANGED <<vars, store, setup>>

Aside(A) == A /\ UNCHANGED <<diskVars, setup>>
SentinelActs(p) == Aside(p \in sentinels /\ SentinelFires(p))

HostNext ==
  \/ Loads \/ SavesCert \/ StoresKey \/ Activates \/ Hardens \/ PromptAnswered
  \/ Launches \/ Ends \/ AppSteps \/ Loses
  \/ \E s \in Slots : Aside(UserSets(s))
  \/ \E p \in sentinels : SentinelActs(p)
  \/ Aside(WatchdogTick)

HostFairness ==
  (\A p \in 1..MaxRuns : WF_allVars(SentinelActs(p))) /\ WF_allVars(Aside(WatchdogTick))

HostSpec == HostInit /\ [][HostNext]_allVars /\ HostFairness

-----------------------------------------------------------------------------
(* Properties.                                                             *)

\* Whatever ends a run, and between which of the writes, the key that is kept is that of the
\* certificate that is kept, and so is the authority that is trusted, as long as neither file
\* nor key is lost: Loads and the check by name never look whether they fit (main.ts:95-98,
\* ca.ts:123-147).
CAIsWhole ==
  losses = 0 => /\ key # 0 => key = cert
                /\ store # 0 => store = cert
=============================================================================
