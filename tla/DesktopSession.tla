--------------------------- MODULE DesktopSession ---------------------------
(***************************************************************************)
(* Who is signed in on a desktop, and which policy it enforces: the        *)
(* credentials (auth.ts), the background policy sync with its retries      *)
(* (policy-sync.ts), the session refresh (session.ts), the sign-in         *)
(* reminder (nag.ts), and the handlers of main.ts that change them all.    *)
(*                                                                         *)
(* Every `await` is a point where another handler may run.  A handler      *)
(* between two awaits is one action; its `pc` names the await it is at.    *)
(* The keychain and the auth-state file survive a restart, nothing else    *)
(* does.  Account rows, status texts and notifications are left out.       *)
(***************************************************************************)
EXTENDS Naturals

CONSTANTS Workers,       \* bound: syncs and session refreshes in flight at once
          MaxTokens,     \* bound: sign-ins, each of which is issued a token
          MaxVersion,    \* bound: versions of the policy the server goes through
          MaxRestarts    \* bound: restarts of the app

ASSUME SessionAssumption == /\ MaxTokens \in Nat
                            /\ MaxVersion \in Nat \ {0}
                            /\ MaxRestarts \in Nat

VARIABLES
  issued,          \* server: number of device tokens issued; a token is its number
  valid,           \* server: tokens neither expired nor revoked
  version,         \* server: what /v1/policy answers, rules and exceptions
  token,           \* keychain: the stored token, 0 when none
  authenticated,   \* auth-state.json
  policy,          \* lastKnownPolicy and the proxy's: token it was fetched with, version
  retry,           \* policy-sync.ts retryTimer is armed
  sessionLost,     \* main.ts sessionLost
  nag,             \* nag.ts nagTimer is set
  worker,          \* Workers -> the sync or refresh in flight
  out,             \* the sign-out in progress
  in,              \* the await the sign-in in progress is at
  restarts         \* counts restarts

serverVars == <<issued, valid, version>>
credVars == <<token, authenticated>>
syncVars == <<policy, retry>>
vars == <<serverVars, credVars, syncVars, sessionLost, nag, worker, out, in, restarts>>

Tokens   == 0 .. MaxTokens
Versions == 0 .. MaxVersion
NoPolicy == [tok |-> 0, ver |-> 0]
Idle     == [pc |-> "idle", kind |-> "none", tok |-> 0, ver |-> 0]
Rest     == [pc |-> "idle", tok |-> 0]

TypeOK ==
  /\ issued \in Tokens /\ valid \subseteq 1 .. issued /\ version \in Versions \ {0}
  /\ token \in 0 .. issued
  /\ authenticated \in BOOLEAN
  /\ policy \in [tok : 0 .. issued, ver : 0 .. version]
  /\ retry \in BOOLEAN
  /\ sessionLost \in BOOLEAN
  /\ nag \in BOOLEAN
  /\ worker \in [Workers -> [pc : {"idle", "asked", "accepted", "refused", "forget",
                                   "forgot", "lost", "lostForgot"},
                             kind : {"none", "policy", "session"},
                             tok : 0 .. issued, ver : 0 .. version]]
  /\ out \in [pc : {"idle", "report", "forget", "forgot"}, tok : 0 .. issued]
  /\ in \in {"idle", "store", "stored"}
  /\ restarts \in 0 .. MaxRestarts

Init ==
  /\ issued = 0 /\ valid = {} /\ version = 1
  /\ token = 0 /\ authenticated = FALSE
  /\ policy = NoPolicy /\ retry = FALSE
  /\ sessionLost = FALSE
  /\ nag = TRUE
  /\ worker = [k \in Workers |-> Idle] /\ out = Rest /\ in = "idle"
  /\ restarts = 0

-----------------------------------------------------------------------------
(***************************************************************************)
(* The server: a token expires or an admin revokes it; the organisation's  *)
(* rules or this member's exceptions change.                               *)
(***************************************************************************)
Revoke(t) ==
  /\ t \in valid
  /\ valid' = valid \ {t}
  /\ UNCHANGED <<issued, version, credVars, syncVars, sessionLost, nag, worker,
                 out, in, restarts>>

PolicyChanges ==
  /\ version < MaxVersion
  /\ version' = version + 1
  /\ UNCHANGED <<issued, valid, credVars, syncVars, sessionLost, nag, worker,
                 out, in, restarts>>

-----------------------------------------------------------------------------
(***************************************************************************)
(* nag.ts.  The tick of the interval changes nothing: it would stop an     *)
(* interval that is running beside an authenticated user, and both         *)
(* handlers that authenticate or start the interval leave no such state.   *)
(***************************************************************************)
StartNagging == nag' = IF authenticated' THEN nag ELSE TRUE

StopNagging == nag' = FALSE

\* resetPolicySync and proxy.setPolicy(null).
ForgetPolicy == policy' = NoPolicy /\ retry' = FALSE

At(k, pc) == worker[k].pc = pc
Goto(k, pc) == worker' = [worker EXCEPT ![k] = [Idle EXCEPT !.pc = pc]]
Done(k) == worker' = [worker EXCEPT ![k] = Idle]

-----------------------------------------------------------------------------
(***************************************************************************)
(* doSync and refreshSession up to their request: the tick, a retry, a     *)
(* resume, an always-allow and a sign-in all start one.  Without a token   *)
(* they return at once.                                                    *)
(***************************************************************************)
Ask(k, kind) ==
  /\ At(k, "idle")
  /\ token # 0
  /\ worker' = [worker EXCEPT ![k] = [Idle EXCEPT !.pc = "asked", !.kind = kind, !.tok = token]]

StartSync(k) ==
  /\ Ask(k, "policy")
  /\ UNCHANGED <<serverVars, credVars, syncVars, sessionLost, nag, out, in, restarts>>

StartRefresh(k) ==
  /\ authenticated
  /\ Ask(k, "session")
  /\ UNCHANGED <<serverVars, credVars, syncVars, sessionLost, nag, out, in, restarts>>

RetryFires(k) ==
  /\ retry
  /\ retry' = FALSE
  /\ IF token = 0 THEN UNCHANGED worker ELSE Ask(k, "policy")
  /\ UNCHANGED <<serverVars, credVars, policy, sessionLost, nag, out, in, restarts>>

(***************************************************************************)
(* The server's verdict on the token, and its policy of that moment, set   *)
(* out on their way back.  An answer that changes nothing whenever it is   *)
(* handled (a failure, a session that is still good) is sent and handled   *)
(* in one step.                                                            *)
(***************************************************************************)
ServerAccepts(k) ==
  /\ At(k, "asked") /\ worker[k].kind = "policy"
  /\ worker[k].tok \in valid
  /\ worker' = [worker EXCEPT ![k].pc = "accepted", ![k].ver = version]
  /\ UNCHANGED <<serverVars, credVars, syncVars, sessionLost, nag, out, in, restarts>>

ServerRefuses(k) ==
  /\ At(k, "asked")
  /\ worker[k].tok \notin valid
  /\ worker' = [worker EXCEPT ![k].pc = "refused", ![k].tok = 0]
  /\ UNCHANGED <<serverVars, credVars, syncVars, sessionLost, nag, out, in, restarts>>

-----------------------------------------------------------------------------
(***************************************************************************)
(* doSync on its answer.                                                   *)
(***************************************************************************)
SyncKeepsPolicy(k) ==                                   \* mutant: first policy wins
  /\ At(k, "accepted")
  /\ policy' = IF policy = NoPolicy THEN [tok |-> worker[k].tok, ver |-> worker[k].ver]
                                    ELSE policy
  /\ retry' = FALSE
  /\ Done(k)
  /\ UNCHANGED <<serverVars, credVars, sessionLost, nag, out, in, restarts>>

SyncOk(k) ==
  /\ At(k, "accepted")
  /\ policy' = [tok |-> worker[k].tok, ver |-> worker[k].ver]
  /\ retry' = FALSE
  /\ Done(k)
  /\ UNCHANGED <<serverVars, credVars, sessionLost, nag, out, in, restarts>>

\* A network error, a timeout, a 5xx (retried soon while no policy is loaded), or a
\* policy the client cannot read (not retried).
SyncFails(k) ==
  /\ At(k, "asked") /\ worker[k].kind = "policy"
  /\ UNCHANGED retry \/ (policy = NoPolicy /\ retry' = TRUE)
  /\ Done(k)
  /\ UNCHANGED <<serverVars, credVars, policy, sessionLost, nag, out, in, restarts>>

Sync401Ignored(k) ==                                    \* mutant: a 401 like any other 4xx
  /\ At(k, "refused") /\ worker[k].kind = "policy"
  /\ Done(k)
  /\ UNCHANGED <<serverVars, credVars, syncVars, sessionLost, nag, out, in, restarts>>

SyncUnauthorized(k) ==
  /\ At(k, "refused") /\ worker[k].kind = "policy"
  /\ retry' = FALSE
  /\ Goto(k, "forget")
  /\ UNCHANGED <<serverVars, credVars, policy, sessionLost, nag, out, in, restarts>>

\* refreshSession on an answer that leaves the session as it is, or on none.
RefreshDone(k) ==
  /\ At(k, "asked") /\ worker[k].kind = "session"
  /\ Done(k)
  /\ UNCHANGED <<serverVars, credVars, syncVars, sessionLost, nag, out, in, restarts>>

-----------------------------------------------------------------------------
(***************************************************************************)
(* clearCredentials deletes the token, then writes auth-state.json; doSync *)
(* goes on with onUnauthorized, that is handleSessionLost, which clears    *)
(* once more, forgets the policy and starts the reminder.                  *)
(***************************************************************************)
LoseSession(k) ==
  IF sessionLost THEN Done(k) /\ UNCHANGED sessionLost
                 ELSE Goto(k, "lost") /\ sessionLost' = TRUE

DeleteToken(k) ==
  /\ \/ At(k, "forget") /\ Goto(k, "forgot")
     \/ At(k, "lost") /\ Goto(k, "lostForgot")
  /\ token' = 0
  /\ UNCHANGED <<serverVars, authenticated, syncVars, sessionLost, nag, out, in, restarts>>

SyncForgot(k) ==
  /\ At(k, "forgot")
  /\ authenticated' = FALSE
  /\ LoseSession(k)
  /\ UNCHANGED <<serverVars, token, syncVars, nag, out, in, restarts>>

RefreshUnauthorized(k) ==
  /\ At(k, "refused") /\ worker[k].kind = "session"
  /\ LoseSession(k)
  /\ UNCHANGED <<serverVars, credVars, syncVars, nag, out, in, restarts>>

SessionLostEnds(k) ==
  /\ At(k, "lostForgot")
  /\ authenticated' = FALSE
  /\ ForgetPolicy
  /\ StartNagging
  /\ Done(k)
  /\ UNCHANGED <<serverVars, token, sessionLost, out, in, restarts>>

-----------------------------------------------------------------------------
(***************************************************************************)
(* handleSignOut: tell the server, which revokes the token, or fail to;    *)
(* then clear the credentials and forget the policy.                       *)
(***************************************************************************)
StartSignOut ==
  /\ out.pc = "idle" /\ authenticated
  /\ out' = [pc |-> IF token = 0 THEN "forget" ELSE "report", tok |-> token]
  /\ UNCHANGED <<serverVars, credVars, syncVars, sessionLost, nag, worker, in, restarts>>

ReportSignOut ==
  /\ out.pc = "report"
  /\ valid' \in {valid, valid \ {out.tok}}
  /\ out' = [pc |-> "forget", tok |-> 0]
  /\ UNCHANGED <<issued, version, credVars, syncVars, sessionLost, nag, worker, in, restarts>>

SignOutDeletes ==
  /\ out.pc = "forget"
  /\ token' = 0
  /\ out' = [out EXCEPT !.pc = "forgot"]
  /\ UNCHANGED <<serverVars, authenticated, syncVars, sessionLost, nag, worker, in, restarts>>

SignOutEnds ==
  /\ out.pc = "forgot"
  /\ authenticated' = FALSE
  /\ sessionLost' = FALSE
  /\ ForgetPolicy
  /\ StartNagging
  /\ out' = Rest
  /\ UNCHANGED <<serverVars, token, worker, in, restarts>>

(***************************************************************************)
(* handleSignIn from the exchange of the code on; the tray offers it to a  *)
(* device that is signed in too, when its token is about to expire.  The   *)
(* sync it triggers is one of those StartSync stands for.                  *)
(***************************************************************************)
StartSignIn ==
  /\ in = "idle" /\ issued < MaxTokens
  /\ issued' = issued + 1
  /\ valid' = valid \cup {issued + 1}
  /\ in' = "store"
  /\ UNCHANGED <<version, credVars, syncVars, sessionLost, nag, worker, out, restarts>>

StoreToken ==
  /\ in = "store"
  /\ token' = issued
  /\ in' = "stored"
  /\ UNCHANGED <<serverVars, authenticated, syncVars, sessionLost, nag, worker, out, restarts>>

SignInStaysLost ==                                      \* mutant: sessionLost not reset
  /\ in = "stored"
  /\ authenticated' = TRUE
  /\ StopNagging
  /\ in' = "idle"
  /\ UNCHANGED <<serverVars, token, syncVars, sessionLost, worker, out, restarts>>

SignInEnds ==
  /\ in = "stored"
  /\ authenticated' = TRUE
  /\ StopNagging
  /\ sessionLost' = FALSE
  /\ in' = "idle"
  /\ UNCHANGED <<serverVars, token, syncVars, worker, out, restarts>>

(***************************************************************************)
(* The app ends, at any await, and starts again: whenReady reads the       *)
(* auth-state file and reminds a device that is not signed in.             *)
(***************************************************************************)
Restart ==
  /\ restarts < MaxRestarts
  /\ restarts' = restarts + 1
  /\ policy' = NoPolicy /\ retry' = FALSE /\ sessionLost' = FALSE
  /\ nag' = ~authenticated
  /\ worker' = [k \in Workers |-> Idle] /\ out' = Rest /\ in' = "idle"
  /\ UNCHANGED <<serverVars, credVars>>

-----------------------------------------------------------------------------
Decides(k) == ServerAccepts(k) \/ ServerRefuses(k)

Handles(k) == \/ SyncFails(k) \/ RefreshDone(k) \/ SyncOk(k) \/ SyncUnauthorized(k)
              \/ RefreshUnauthorized(k) \/ DeleteToken(k) \/ SyncForgot(k)
              \/ SessionLostEnds(k)

SignsOut == ReportSignOut \/ SignOutDeletes \/ SignOutEnds

SignsIn == StoreToken \/ SignInEnds

Next ==
  \/ \E t \in 1 .. MaxTokens : Revoke(t)
  \/ PolicyChanges
  \/ \E k \in Workers : \/ StartSync(k) \/ StartRefresh(k) \/ RetryFires(k)
                        \/ Decides(k) \/ Handles(k)
  \/ StartSignOut \/ SignsOut
  \/ StartSignIn \/ SignsIn
  \/ Restart

(***************************************************************************)
(* The two-minute tick keeps starting syncs, requests are answered or time *)
(* out, the network is not down forever, and handlers run to their end.    *)
(* Nobody has to sign in or out.                                           *)
(***************************************************************************)
Fairness ==
  /\ SF_vars(\E k \in Workers : StartSync(k))
  /\ SF_vars(\E k \in Workers : Decides(k))
  /\ \A k \in Workers : WF_vars(Decides(k) \/ Handles(k))
  /\ WF_vars(SignsOut) /\ WF_vars(SignsIn)

Spec == Init /\ [][Next]_vars /\ Fairness

-----------------------------------------------------------------------------
(***************************************************************************)
(* Quick retries are for a device with no policy at all: the timer is      *)
(* never armed beside a loaded policy (scheduleRetryIfNoPolicy, and the    *)
(* cancelRetry of a sync that succeeds while a retry is waiting).          *)
(***************************************************************************)
RetryMeansNoPolicy == retry => policy = NoPolicy

(***************************************************************************)
(* A device that is signed out is being reminded, whichever of sign-out,   *)
(* expiry, refresh and restart signed it out and in whatever order, unless *)
(* the handler that will start the reminder is still under way.            *)
(***************************************************************************)
Losing == \E k \in Workers : worker[k].pc \in {"lost", "lostForgot"}

SignedOutIsNagged == ~authenticated => nag \/ Losing

\* A session that is lost has its reminder, or a handler that will start it; and a
\* reminder is never left running beside an authenticated user.
LostIsNagged == sessionLost => nag \/ Losing
NagStops == nag => ~authenticated

IInv == TypeOK /\ RetryMeansNoPolicy /\ SignedOutIsNagged /\ LostIsNagged /\ NagStops

(***************************************************************************)
(* A token the server no longer accepts does not stay in the keychain: the *)
(* 401 of a sync or a refresh clears it.                                   *)
(***************************************************************************)
DeadTokenIsForgotten == token \in (1 .. issued) \ valid ~> token \notin (1 .. issued) \ valid

(***************************************************************************)
(* A device with a good token gets the current policy again and again,     *)
(* although syncs overlap and an older answer may be applied after a newer *)
(* one (doSync has no order).                                              *)
(***************************************************************************)
PolicyCatchesUp == []<>(token \notin valid \/ policy = [tok |-> token, ver |-> version])

(***************************************************************************)
(* main.ts on handleSignOut: it "forgets the credentials and policy        *)
(* locally".  Nothing in flight, signed out, no token: no policy.          *)
(***************************************************************************)
SignedOutEnforcesNothing ==
  ~authenticated /\ token = 0 /\ out = Rest /\ in = "idle"
    /\ (\A k \in Workers : At(k, "idle")) => policy = NoPolicy
=============================================================================
