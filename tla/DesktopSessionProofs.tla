------------------------ MODULE DesktopSessionProofs ------------------------
(***************************************************************************)
(* Proofs about DesktopSession, for any number of requests in flight,      *)
(* sign-ins, policy versions and restarts: its types, that quick retries   *)
(* stop once a policy is loaded, and that a device that is signed out is   *)
(* being reminded.  TLC has checked each part of IInv.                     *)
(***************************************************************************)
EXTENDS DesktopSession, TLAPS

USE DEF serverVars, credVars, syncVars, NoPolicy, Idle, Rest

\* What a worker can hold while the server has issued i tokens and is at version v.
Holds(i, v) == [pc : {"idle", "asked", "accepted", "refused", "forget",
                      "forgot", "lost", "lostForgot"},
                kind : {"none", "policy", "session"}, tok : 0 .. i, ver : 0 .. v]

LEMMA Upto == ASSUME NEW n \in Nat PROVE 0 .. n \subseteq 0 .. (n + 1)
OBVIOUS

LEMMA TypeInit == Init => TypeOK
<1> SUFFICES ASSUME Init PROVE TypeOK
  OBVIOUS
<1>1. 0 \in Tokens /\ 1 \in Versions \ {0} /\ 0 \in 0 .. MaxRestarts /\ 0 \in 0 .. 0 /\ 0 \in 0 .. 1
  BY SessionAssumption DEF SessionAssumption, Tokens, Versions
<1>2. worker \in [Workers -> Holds(0, 1)]
  BY <1>1 DEF Init, Holds
<1>3. issued \in Tokens /\ valid \subseteq 1 .. issued /\ version \in Versions \ {0}
  BY <1>1 DEF Init
<1>4. policy \in [tok : 0 .. issued, ver : 0 .. version]
  BY <1>1 DEF Init
<1>5. /\ token \in 0 .. issued /\ authenticated \in BOOLEAN /\ retry \in BOOLEAN
      /\ sessionLost \in BOOLEAN /\ nag \in BOOLEAN
      /\ in \in {"idle", "store", "stored"} /\ restarts \in 0 .. MaxRestarts
  BY <1>1 DEF Init
<1>6. out \in [pc : {"idle", "report", "forget", "forgot"}, tok : 0 .. issued]
  BY <1>1 DEF Init
<1> QED
  BY <1>2, <1>3, <1>4, <1>5, <1>6 DEF Init, TypeOK, Holds

(***************************************************************************)
(* Every handler keeps the types: what it stores it has read from the      *)
(* server's counters, which only grow.                                     *)
(***************************************************************************)
LEMMA TypeStep == TypeOK /\ [Next]_vars => TypeOK'
<1> SUFFICES ASSUME TypeOK, [Next]_vars PROVE TypeOK'
  OBVIOUS
<1>n. /\ issued \in Nat /\ version \in Nat \ {0} /\ restarts \in Nat
      /\ 0 \in 0 .. issued /\ 0 \in 0 .. version /\ version \in 0 .. version
      /\ issued \in 0 .. issued
  BY SessionAssumption DEF SessionAssumption, TypeOK, Tokens, Versions
<1>i. /\ Idle \in Holds(issued, version)
      /\ \A pc \in {"forget", "forgot", "lost", "lostForgot"} :
            [Idle EXCEPT !.pc = pc] \in Holds(issued, version)
  BY <1>n DEF Holds
<1>w. worker \in [Workers -> Holds(issued, version)]
  BY DEF TypeOK, Holds
<1> HIDE DEF Idle
<1>1. ASSUME NEW t \in 1 .. MaxTokens, Revoke(t) PROVE TypeOK'
  BY <1>1 DEF TypeOK, Revoke
<1>2. ASSUME PolicyChanges PROVE TypeOK'
  <2>1. version + 1 \in Versions \ {0}
    BY <1>2, <1>n, SessionAssumption DEF PolicyChanges, SessionAssumption, Versions
  <2>2. 0 .. version \subseteq 0 .. (version + 1)
    BY <1>n, Upto
  <2>3. worker \in [Workers -> Holds(issued, version + 1)]
    BY <1>w, <2>2 DEF Holds
  <2>4. policy \in [tok : 0 .. issued, ver : 0 .. (version + 1)]
    BY <2>2 DEF TypeOK
  <2> QED
    BY <1>2, <2>1, <2>3, <2>4 DEF TypeOK, PolicyChanges, Holds
<1>3. ASSUME NEW k \in Workers,
             StartSync(k) \/ StartRefresh(k) \/ RetryFires(k) PROVE TypeOK'
  <2>1. \A kind \in {"policy", "session"} :
          [Idle EXCEPT !.pc = "asked", !.kind = kind, !.tok = token] \in Holds(issued, version)
    BY <1>n DEF Holds, TypeOK, Idle
  <2>2. worker' \in [Workers -> Holds(issued, version)]
    BY <1>3, <1>w, <2>1 DEF StartSync, StartRefresh, RetryFires, Ask
  <2> QED
    BY <1>3, <2>2 DEF TypeOK, StartSync, StartRefresh, RetryFires, Holds
<1>4. ASSUME NEW k \in Workers, Decides(k) PROVE TypeOK'
  <2>1. worker[k] \in Holds(issued, version)
    BY <1>w
  <2>2. /\ [worker[k] EXCEPT !.pc = "accepted", !.ver = version] \in Holds(issued, version)
        /\ [worker[k] EXCEPT !.pc = "refused", !.tok = 0] \in Holds(issued, version)
    BY <1>n, <2>1 DEF Holds
  <2>3. worker' \in [Workers -> Holds(issued, version)]
    BY <1>4, <1>w, <2>2 DEF Decides, ServerAccepts, ServerRefuses
  <2> QED
    BY <1>4, <2>3 DEF TypeOK, Decides, ServerAccepts, ServerRefuses, Holds
<1>5. ASSUME NEW k \in Workers, Handles(k) PROVE TypeOK'
  <2>1. worker' \in [Workers -> Holds(issued, version)]
    BY <1>5, <1>w, <1>i DEF Handles, SyncOk, SyncFails, SyncUnauthorized, RefreshDone,
       RefreshUnauthorized, DeleteToken, SyncForgot, SessionLostEnds, LoseSession, Goto, Done
  <2>2. [tok |-> worker[k].tok, ver |-> worker[k].ver] \in [tok : 0 .. issued, ver : 0 .. version]
    BY <1>w DEF Holds
  <2>3. NoPolicy \in [tok : 0 .. issued, ver : 0 .. version]
    BY <1>n
  <2> HIDE DEF NoPolicy
  <2>4. policy' \in [tok : 0 .. issued, ver : 0 .. version]
    BY <1>5, <2>2, <2>3 DEF TypeOK, Handles, SyncOk, SyncFails, SyncUnauthorized, RefreshDone,
       RefreshUnauthorized, DeleteToken, SyncForgot, SessionLostEnds, ForgetPolicy
  <2>5. /\ retry' \in BOOLEAN /\ nag' \in BOOLEAN /\ sessionLost' \in BOOLEAN
        /\ authenticated' \in BOOLEAN /\ token' \in 0 .. issued
    BY <1>5, <1>n DEF TypeOK, Handles, SyncOk, SyncFails, SyncUnauthorized, RefreshDone,
       RefreshUnauthorized, DeleteToken, SyncForgot, SessionLostEnds, ForgetPolicy,
       StartNagging, LoseSession
  <2>6. UNCHANGED <<issued, valid, version, out, in, restarts>>
    BY <1>5 DEF Handles, SyncOk, SyncFails, SyncUnauthorized, RefreshDone,
       RefreshUnauthorized, DeleteToken, SyncForgot, SessionLostEnds
  <2> QED
    BY <2>1, <2>4, <2>5, <2>6 DEF TypeOK, Holds
<1>6. ASSUME StartSignOut \/ SignsOut PROVE TypeOK'
  <2>1. out' \in [pc : {"idle", "report", "forget", "forgot"}, tok : 0 .. issued]
    BY <1>6, <1>n DEF TypeOK, StartSignOut, SignsOut, ReportSignOut, SignOutDeletes, SignOutEnds
  <2>2. policy' \in [tok : 0 .. issued, ver : 0 .. version]
    BY <1>6, <1>n DEF TypeOK, StartSignOut, SignsOut, ReportSignOut, SignOutDeletes,
       SignOutEnds, ForgetPolicy
  <2> QED
    BY <1>6, <1>n, <2>1, <2>2 DEF TypeOK, StartSignOut, SignsOut, ReportSignOut,
       SignOutDeletes, SignOutEnds, ForgetPolicy, StartNagging
<1>7. ASSUME StartSignIn PROVE TypeOK'
  <2>1. issued + 1 \in Tokens /\ valid \cup {issued + 1} \subseteq 1 .. (issued + 1)
    BY <1>7, <1>n, SessionAssumption DEF TypeOK, StartSignIn, SessionAssumption, Tokens
  <2>2. 0 .. issued \subseteq 0 .. (issued + 1)
    BY <1>n, Upto
  <2>3. worker \in [Workers -> Holds(issued + 1, version)]
    BY <1>w, <2>2 DEF Holds
  <2>4. /\ policy \in [tok : 0 .. (issued + 1), ver : 0 .. version]
        /\ out \in [pc : {"idle", "report", "forget", "forgot"}, tok : 0 .. (issued + 1)]
        /\ token \in 0 .. (issued + 1)
    BY <2>2 DEF TypeOK
  <2> QED
    BY <1>7, <2>1, <2>3, <2>4 DEF TypeOK, StartSignIn, Holds
<1>8. ASSUME SignsIn PROVE TypeOK'
  BY <1>8, <1>n DEF TypeOK, SignsIn, StoreToken, SignInEnds, StopNagging
<1>9. ASSUME Restart PROVE TypeOK'
  <2>1. restarts + 1 \in 0 .. MaxRestarts
    BY <1>9, <1>n, SessionAssumption DEF Restart, SessionAssumption
  <2>2. worker' \in [Workers -> Holds(issued, version)]
    BY <1>9, <1>i DEF Restart
  <2>3. policy' \in [tok : 0 .. issued, ver : 0 .. version]
        /\ out' \in [pc : {"idle", "report", "forget", "forgot"}, tok : 0 .. issued]
    BY <1>9, <1>n DEF Restart
  <2> QED
    BY <1>9, <2>1, <2>2, <2>3 DEF TypeOK, Restart, Holds
<1>10. ASSUME UNCHANGED vars PROVE TypeOK'
  BY <1>10 DEF TypeOK, vars
<1> QED
  BY <1>1, <1>2, <1>3, <1>4, <1>5, <1>6, <1>7, <1>8, <1>9, <1>10 DEF Next

-----------------------------------------------------------------------------
(***************************************************************************)
(* The device's session stays typed whatever the order of its handlers.    *)
(***************************************************************************)
THEOREM SessionTypes == Spec => []TypeOK
<1> QED
  BY TypeInit, TypeStep, PTL DEF Spec

(***************************************************************************)
(* A worker that is losing the session goes on doing so while others move. *)
(***************************************************************************)
LEMMA OthersKeepLosing ==
  ASSUME TypeOK, NEW k \in Workers, NEW w,
         worker' = [worker EXCEPT ![k] = w],
         worker[k].pc \notin {"lost", "lostForgot"} \/ w.pc \in {"lost", "lostForgot"}
  PROVE  /\ Losing => Losing'
         /\ w.pc \in {"lost", "lostForgot"} => Losing'
BY DEF TypeOK, Losing

LEMMA SessionInvStep == IInv /\ [Next]_vars => IInv'
<1> SUFFICES ASSUME IInv, [Next]_vars PROVE IInv'
  OBVIOUS
<1>t. TypeOK /\ TypeOK'
  BY TypeStep DEF IInv
<1>v. RetryMeansNoPolicy /\ SignedOutIsNagged /\ LostIsNagged /\ NagStops
  BY DEF IInv
<1> SUFFICES RetryMeansNoPolicy' /\ SignedOutIsNagged' /\ LostIsNagged' /\ NagStops'
  BY <1>t DEF IInv
<1>b. /\ authenticated \in BOOLEAN /\ nag \in BOOLEAN /\ retry \in BOOLEAN
      /\ sessionLost \in BOOLEAN
  BY <1>t DEF TypeOK
<1> USE <1>t, <1>v, <1>b DEF RetryMeansNoPolicy, SignedOutIsNagged, LostIsNagged, NagStops
<1> HIDE DEF NoPolicy, IInv
<1>1. ASSUME \/ \E t \in 1 .. MaxTokens : Revoke(t)
             \/ PolicyChanges \/ StartSignOut \/ StartSignIn \/ UNCHANGED vars
      PROVE  RetryMeansNoPolicy' /\ SignedOutIsNagged' /\ LostIsNagged' /\ NagStops'
  BY <1>1 DEF Revoke, PolicyChanges, StartSignOut, StartSignIn, vars, Losing
<1>2. ASSUME NEW k \in Workers, StartSync(k) \/ StartRefresh(k) \/ RetryFires(k) \/ Decides(k)
      PROVE  RetryMeansNoPolicy' /\ SignedOutIsNagged' /\ LostIsNagged' /\ NagStops'
  <2>1. worker' = worker \/ \E w : /\ worker' = [worker EXCEPT ![k] = w]
                                   /\ worker[k].pc \notin {"lost", "lostForgot"}
    BY <1>2 DEF StartSync, StartRefresh, RetryFires, Decides, ServerAccepts, ServerRefuses,
       Ask, At
  <2>2. Losing => Losing'
    BY <2>1, OthersKeepLosing DEF Losing
  <2> QED
    BY <1>2, <2>2 DEF StartSync, StartRefresh, RetryFires, Decides, ServerAccepts,
       ServerRefuses
<1>3. ASSUME NEW k \in Workers,
             SyncOk(k) \/ SyncFails(k) \/ RefreshDone(k)
      PROVE  RetryMeansNoPolicy' /\ SignedOutIsNagged' /\ LostIsNagged' /\ NagStops'
  <2>1. Losing => Losing'
    BY <1>3, OthersKeepLosing DEF SyncOk, SyncFails, RefreshDone, At, Done
  <2> QED
    BY <1>3, <2>1 DEF SyncOk, SyncFails, RefreshDone
<1>4. ASSUME NEW k \in Workers, SyncUnauthorized(k) \/ DeleteToken(k)
      PROVE  RetryMeansNoPolicy' /\ SignedOutIsNagged' /\ LostIsNagged' /\ NagStops'
  <2>1. Losing => Losing'
    BY <1>4, OthersKeepLosing DEF SyncUnauthorized, DeleteToken, At, Goto
  <2> QED
    BY <1>4, <2>1 DEF SyncUnauthorized, DeleteToken
<1>5. ASSUME NEW k \in Workers, SyncForgot(k) \/ RefreshUnauthorized(k)
      PROVE  RetryMeansNoPolicy' /\ SignedOutIsNagged' /\ LostIsNagged' /\ NagStops'
  <2>1. worker[k].pc \notin {"lost", "lostForgot"} /\ LoseSession(k)
    BY <1>5 DEF SyncForgot, RefreshUnauthorized, At
  <2>2. CASE sessionLost
    <3>1. (Losing => Losing') /\ sessionLost'
      BY <2>1, <2>2, OthersKeepLosing DEF LoseSession, Done
    <3> QED
      BY <1>5, <2>2, <3>1 DEF SyncForgot, RefreshUnauthorized
  <2>3. CASE ~sessionLost
    <3>1. /\ worker' = [worker EXCEPT ![k] = [Idle EXCEPT !.pc = "lost"]]
          /\ [Idle EXCEPT !.pc = "lost"].pc = "lost"
      BY <2>1, <2>3 DEF LoseSession, Goto
    <3>2. Losing'
      BY <3>1, OthersKeepLosing
    <3> QED
      BY <1>5, <3>2 DEF SyncForgot, RefreshUnauthorized
  <2> QED
    BY <2>2, <2>3
<1>6. ASSUME NEW k \in Workers, SessionLostEnds(k)
      PROVE  RetryMeansNoPolicy' /\ SignedOutIsNagged' /\ LostIsNagged' /\ NagStops'
  BY <1>6 DEF SessionLostEnds, ForgetPolicy, StartNagging
<1>7. ASSUME SignsOut
      PROVE  RetryMeansNoPolicy' /\ SignedOutIsNagged' /\ LostIsNagged' /\ NagStops'
  <2>1. CASE ReportSignOut \/ SignOutDeletes
    BY <2>1 DEF ReportSignOut, SignOutDeletes, Losing
  <2>2. CASE SignOutEnds
    BY <2>2 DEF SignOutEnds, ForgetPolicy, StartNagging
  <2> QED
    BY <1>7, <2>1, <2>2 DEF SignsOut
<1>8. ASSUME SignsIn
      PROVE  RetryMeansNoPolicy' /\ SignedOutIsNagged' /\ LostIsNagged' /\ NagStops'
  BY <1>8 DEF SignsIn, StoreToken, SignInEnds, StopNagging, Losing
<1>9. ASSUME Restart
      PROVE  RetryMeansNoPolicy' /\ SignedOutIsNagged' /\ LostIsNagged' /\ NagStops'
  BY <1>9 DEF Restart
<1>10. ASSUME NEW k \in Workers, Handles(k)
       PROVE  RetryMeansNoPolicy' /\ SignedOutIsNagged' /\ LostIsNagged' /\ NagStops'
  BY <1>3, <1>4, <1>5, <1>6, <1>10 DEF Handles
<1> QED
  BY <1>1, <1>2, <1>7, <1>8, <1>9, <1>10 DEF Next

LEMMA SessionInv == Spec => []IInv
<1>1. Init => IInv
  BY TypeInit DEF Init, IInv, RetryMeansNoPolicy, SignedOutIsNagged, LostIsNagged, NagStops
<1> QED
  BY <1>1, SessionInvStep, PTL DEF Spec

(***************************************************************************)
(* No quick retry is waiting beside a loaded policy.                       *)
(***************************************************************************)
THEOREM SessionRetries == Spec => []RetryMeansNoPolicy
<1>1. IInv => RetryMeansNoPolicy
  BY DEF IInv
<1> QED
  BY <1>1, SessionInv, PTL

(***************************************************************************)
(* Whatever signed a device out, its user is being reminded or is about to *)
(* be, with any number of syncs and refreshes racing the sign-out.         *)
(***************************************************************************)
THEOREM SessionReminds == Spec => []SignedOutIsNagged
<1>1. IInv => SignedOutIsNagged
  BY DEF IInv
<1> QED
  BY <1>1, SessionInv, PTL

=============================================================================
