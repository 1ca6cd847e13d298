----------------------- MODULE ExtensionPolicyProofs ------------------------
(***************************************************************************)
(* Proofs about ExtensionPolicy, for any number of organisations, syncs in *)
(* flight and publishes: its types, that a cached document is never older  *)
(* than its label, and that an extension with nothing to fetch has the     *)
(* latest policy unless one of the named troubles happened.                *)
(***************************************************************************)
EXTENDS ExtensionPolicy, TLAPS

USE DEF backendVars, storageVars, NoPolicy, Idle, Accounts, Phases

Local == [pc : Phases, ts : Nat, org : Accounts, label : Nat, ver : Nat]

LEMMA TypeInit == Init => TypeOK
<1> SUFFICES ASSUME Init PROVE TypeOK
  OBVIOUS
<1>1. Idle \in Local /\ NoPolicy \in [org : Accounts, ver : Nat, label : Nat]
  BY DEF Local
<1>2. sync \in [Syncs -> Local]
  BY <1>1 DEF Init
<1>3. version \in [Orgs -> Nat \ {0}] /\ at \in [Orgs -> Nat] /\ \A o \in Orgs : at[o] <= now
  BY DEF Init
<1> QED
  BY <1>1, <1>2, <1>3 DEF Init, TypeOK, Local

(***************************************************************************)
(* Every step of a sync keeps its local state a local state.               *)
(***************************************************************************)
LEMMA SyncTypes ==
  ASSUME TypeOK, Published, NEW k \in Syncs, CheckAsks(k) \/ SyncNow(k) \/ SyncStep(k)
  PROVE  sync' \in [Syncs -> Local]
<1>1. sync \in [Syncs -> Local] /\ sync[k] \in Local /\ Idle \in Local
  BY DEF TypeOK, Local
<1>2. ASSUME NEW ts \in Nat PROVE Ending(ts) \in Local
  BY DEF Ending, Local
<1>3. CASE CheckAsks(k) \/ SyncNow(k)
  <2>1. CheckAsks(k) => at[account] \in Nat
    BY DEF CheckAsks, TypeOK
  <2>2. \A ts \in Nat : [Idle EXCEPT !.pc = "compare", !.ts = ts] \in Local
    BY DEF Local
  <2>3. [Idle EXCEPT !.pc = "sync"] \in Local
    BY DEF Local
  <2> QED
    BY <1>1, <1>3, <2>1, <2>2, <2>3 DEF CheckAsks, SyncNow
<1>4. CASE CheckCompares(k)
  BY <1>1, <1>4 DEF CheckCompares, Stops, Goto, Local
<1>5. CASE AsksVersion(k)
  BY <1>1, <1>5 DEF AsksVersion, TypeOK, Local
<1>6. CASE ComparesVersion(k) \/ Stores(k) \/ Fails(k)
  <2>1. Ending(sync[k].ts) \in Local /\ [sync[k] EXCEPT !.pc = "fetch"] \in Local
    BY <1>1, <1>2 DEF Local
  <2> QED
    BY <1>1, <1>6, <2>1 DEF ComparesVersion, Stores, Fails, Returns, Goto
<1>7. CASE GetsPolicy(k)
  <2>1. version[sync[k].org] \in Nat
    BY <1>7 DEF GetsPolicy, TypeOK, Published, At, Asked
  <2>2. [sync[k] EXCEPT !.pc = "store", !.ver = version[sync[k].org]] \in Local
    BY <1>1, <2>1 DEF Local
  <2> QED
    BY <1>1, <1>7, <2>2 DEF GetsPolicy
<1>8. CASE CheckEnds(k)
  BY <1>1, <1>8 DEF CheckEnds, Stops
<1> QED
  BY <1>3, <1>4, <1>5, <1>6, <1>7, <1>8 DEF SyncStep

LEMMA TypeStep == TypeOK /\ Published /\ [Next]_vars => TypeOK'
<1> SUFFICES ASSUME TypeOK, Published, [Next]_vars PROVE TypeOK'
  OBVIOUS
<1>l. sync \in [Syncs -> Local] /\ Idle \in Local
  BY DEF TypeOK, Local
<1>1. ASSUME NEW o \in Orgs, Publish(o) PROVE TypeOK'
  <2>1. /\ now' = now + 1 /\ now' \in Nat
        /\ at' = [at EXCEPT ![o] = now + 1] /\ version' = [version EXCEPT ![o] = version[o] + 1]
    BY <1>1 DEF Publish, TypeOK
  <2>2. at' \in [Orgs -> Nat] /\ version' \in [Orgs -> Nat \ {0}]
    BY <2>1 DEF TypeOK
  <2>3. \A p \in Orgs : at'[p] <= now'
    BY <2>1 DEF TypeOK
  <2> QED
    BY <1>1, <2>1, <2>2, <2>3 DEF Publish, TypeOK
<1>2. ASSUME NEW o \in Accounts, SwitchAccount(o) PROVE TypeOK'
  BY <1>2 DEF SwitchAccount, TypeOK
<1>3. ASSUME NEW k \in Syncs, CheckAsks(k) \/ SyncNow(k) \/ SyncStep(k) PROVE TypeOK'
  <2>1. sync' \in [Syncs -> Local]
    BY <1>3, SyncTypes
  <2>2. sync[k] \in Local
    BY <1>l
  <2>3. held' \in [org : Accounts, ver : Nat, label : Nat] /\ syncedAt' \in Nat
    BY <1>3, <2>2 DEF TypeOK, Local, CheckAsks, SyncNow, SyncStep, CheckCompares, AsksVersion,
       ComparesVersion, GetsPolicy, Stores, Fails, CheckEnds
  <2>4. trouble' \in BOOLEAN
    BY <1>3 DEF TypeOK, CheckAsks, SyncNow, SyncStep, CheckCompares, AsksVersion,
       ComparesVersion, GetsPolicy, Stores, Fails, CheckEnds
  <2>5. UNCHANGED <<version, at, now, account>>
    BY <1>3 DEF CheckAsks, SyncNow, SyncStep, CheckCompares, AsksVersion,
       ComparesVersion, GetsPolicy, Stores, Fails, CheckEnds
  <2> QED
    BY <2>1, <2>3, <2>4, <2>5 DEF TypeOK, Local
<1>4. ASSUME WorkerDies PROVE TypeOK'
  BY <1>4, <1>l DEF WorkerDies, TypeOK, Local
<1>5. ASSUME UNCHANGED vars PROVE TypeOK'
  BY <1>5 DEF vars, TypeOK
<1> QED
  BY <1>1, <1>2, <1>3, <1>4, <1>5 DEF Next

(***************************************************************************)
(* What is stored and what is in flight has been published.                *)
(***************************************************************************)
\* Published, for one sync.
Fit(k) == /\ sync[k].ts <= now
          /\ At(k, "end") => sync[k].ts # 0
          /\ sync[k].pc \in Asked => /\ sync[k].org \in Orgs /\ sync[k].label >= 1
                                     /\ sync[k].label <= version[sync[k].org]
          /\ At(k, "store") => /\ sync[k].label <= sync[k].ver
                               /\ sync[k].ver <= version[sync[k].org]

LEMMA PublishedStep == TypeOK /\ Published /\ [Next]_vars => Published'
<1> SUFFICES ASSUME TypeOK, Published, [Next]_vars PROVE Published'
  OBVIOUS
<1>l. sync \in [Syncs -> Local]
  BY DEF TypeOK, Local
<1>f. \A k \in Syncs : Fit(k)
  BY DEF Published, Fit
<1>1. ASSUME NEW o \in Orgs, Publish(o) PROVE Published'
  <2>1. /\ now' = now + 1 /\ at' = [at EXCEPT ![o] = now + 1]
        /\ version' = [version EXCEPT ![o] = version[o] + 1]
        /\ sync' = sync /\ held' = held /\ syncedAt' = syncedAt
    BY <1>1 DEF Publish
  <2>2. \A p \in Orgs : at'[p] >= 1 /\ version'[p] >= version[p] /\ version'[p] \in Nat
    BY <2>1 DEF TypeOK, Published
  <2>3. \A k \in Syncs : Fit(k)'
    <3> SUFFICES ASSUME NEW k \in Syncs PROVE Fit(k)'
      OBVIOUS
    <3>1. sync[k] \in Local /\ Fit(k)
      BY <1>l, <1>f
    <3>2. sync[k].org \in Orgs => version[sync[k].org] \in Nat
      BY DEF TypeOK
    <3> QED
      BY <2>1, <2>2, <3>1, <3>2 DEF Fit, At, Asked, Local, TypeOK
  <2>4. NeverLabelledNewer' /\ syncedAt' <= now'
    BY <2>1 DEF TypeOK, Published, NeverLabelledNewer
  <2>5. held.org \in Orgs => held.ver <= version'[held.org]
    BY <2>2 DEF TypeOK, Published
  <2> QED
    BY <2>1, <2>2, <2>3, <2>4, <2>5 DEF Published, Fit
<1>2. ASSUME NEW o \in Accounts, SwitchAccount(o) PROVE Published'
  BY <1>2 DEF SwitchAccount, Published, NeverLabelledNewer, At
<1>3. ASSUME NEW k \in Syncs, CheckAsks(k) \/ SyncNow(k) \/ SyncStep(k) PROVE Published'
  <2>1. UNCHANGED <<version, at, now>>
    BY <1>3 DEF CheckAsks, SyncNow, SyncStep, CheckCompares, AsksVersion,
       ComparesVersion, GetsPolicy, Stores, Fails, CheckEnds
  <2>2. sync[k] \in Local /\ Fit(k) /\ now \in Nat
    BY <1>l, <1>f DEF TypeOK
  <2>3. /\ syncedAt' <= now /\ held'.label <= held'.ver
        /\ held'.org \in Orgs => held'.ver <= version[held'.org]
        /\ held'.org = NoOrg => held' = NoPolicy
    BY <1>3, <2>2, ExtensionAssumption DEF ExtensionAssumption, TypeOK, Published, Local, Fit,
       NeverLabelledNewer, At, Asked, CheckAsks,
       SyncNow, SyncStep, CheckCompares, AsksVersion, ComparesVersion, GetsPolicy, Stores,
       Fails, CheckEnds
  <2>4. \A j \in Syncs : j # k => sync'[j] = sync[j]
    BY <1>3, <1>l DEF CheckAsks, SyncNow, SyncStep, CheckCompares, AsksVersion,
       ComparesVersion, GetsPolicy, Stores, Fails, CheckEnds, Stops, Goto, Returns
  <2>5. Fit(k)'
    <3>1. CASE CheckAsks(k) \/ SyncNow(k)
      <4>1. CheckAsks(k) => at[account] <= now /\ at[account] \in Nat
        BY DEF CheckAsks, TypeOK
      <4>2. /\ CheckAsks(k) => sync'[k].ts = at[account] /\ sync'[k].pc = "compare"
            /\ SyncNow(k) => sync'[k].ts = 0 /\ sync'[k].pc = "sync"
        BY <1>l DEF CheckAsks, SyncNow
      <4> QED
        BY <2>1, <2>2, <3>1, <4>1, <4>2 DEF Fit, At, Asked
    <3>2. CASE CheckCompares(k) \/ CheckEnds(k)
      BY <1>l, <2>1, <2>2, <3>2 DEF CheckCompares, CheckEnds, Stops, Goto, Fit, At, Asked, Local
    <3>3. CASE AsksVersion(k)
      <4>1. account \in Orgs /\ version[account] \in Nat \ {0}
        BY <3>3 DEF AsksVersion, TypeOK
      <4>2. sync'[k] = [sync[k] EXCEPT !.pc = "versioned", !.org = account,
                                       !.label = version[account]]
        BY <1>l, <3>3 DEF AsksVersion
      <4> QED
        BY <2>1, <2>2, <4>1, <4>2 DEF Fit, At, Asked, Local
    <3>4. CASE ComparesVersion(k) \/ Stores(k) \/ Fails(k)
      <4>1. sync'[k] = Ending(sync[k].ts) \/ (At(k, "versioned") /\ sync'[k] = [sync[k] EXCEPT !.pc = "fetch"])
        BY <1>l, <3>4 DEF ComparesVersion, Stores, Fails, Returns, Goto
      <4> QED
        <5>1. CASE sync'[k] = Ending(sync[k].ts)
          <6>1. /\ sync'[k].ts = sync[k].ts
                /\ sync'[k].pc \in {"idle", "end"} /\ (sync'[k].pc = "end" => sync[k].ts # 0)
            BY <2>2, <5>1 DEF Ending, Local
          <6> QED
            BY <2>1, <2>2, <6>1 DEF Fit, At, Asked
        <5>2. CASE At(k, "versioned") /\ sync'[k] = [sync[k] EXCEPT !.pc = "fetch"]
          BY <2>1, <2>2, <5>2 DEF Fit, At, Asked, Local
        <5> QED
          BY <4>1, <5>1, <5>2
    <3>5. CASE GetsPolicy(k)
      <4>1. /\ sync'[k] = [sync[k] EXCEPT !.pc = "store", !.ver = version[sync[k].org]]
            /\ sync[k].pc = "fetch"
        BY <1>l, <3>5 DEF GetsPolicy, At
      <4>2. sync[k].org \in Orgs /\ version[sync[k].org] \in Nat
        BY <2>2, <4>1 DEF Fit, Asked, TypeOK
      <4> QED
        BY <2>1, <2>2, <4>1, <4>2 DEF Fit, At, Asked, Local
    <3> QED
      BY <1>3, <3>1, <3>2, <3>3, <3>4, <3>5 DEF SyncStep
  <2>6. \A j \in Syncs : Fit(j)'
    BY <1>f, <2>1, <2>4, <2>5 DEF Fit, At
  <2> QED
    BY <2>1, <2>3, <2>6 DEF Published, Fit, NeverLabelledNewer
<1>4. ASSUME WorkerDies PROVE Published'
  <2>1. \A k \in Syncs : sync'[k] = Idle
    BY <1>4 DEF WorkerDies
  <2>2. UNCHANGED <<version, at, now, held, syncedAt>> /\ now \in Nat
    BY <1>4 DEF WorkerDies, TypeOK
  <2>3. \A k \in Syncs : Fit(k)'
    BY <2>1, <2>2 DEF Fit, At, Asked
  <2> QED
    BY <2>2, <2>3 DEF Published, Fit, NeverLabelledNewer
<1>5. ASSUME UNCHANGED vars PROVE Published'
  BY <1>5 DEF vars, Published, NeverLabelledNewer, At
<1> QED
  BY <1>1, <1>2, <1>3, <1>4, <1>5 DEF Next

(***************************************************************************)
(* Calm after a step that leaves all syncs but k idle.                     *)
(***************************************************************************)
LEMMA CalmOfOne ==
  ASSUME NEW k \in Syncs,
         \A j \in Syncs : j # k => sync'[j].pc = "idle",
         (held = NoPolicy \/ held.org = account)',
         sync'[k].pc \in Asked => sync'[k].org = account',
         At(k, "end")' => account' # NoOrg /\ held'.org = account',
         ~At(k, "end")' => (BelievesCurrent => Current)',
         Right(k)'
  PROVE  Calm'
<1> HIDE DEF NoPolicy
<1>1. \A j \in Syncs : j # k => sync'[j].pc \notin Asked /\ ~At(j, "end")' /\ ~At(j, "store")'
  BY DEF At, Asked
<1>2. \A j \in Syncs : Right(j)'
  BY <1>1 DEF Right
<1>3. \A j, i \in Syncs : ~At(j, "idle")' /\ ~At(i, "idle")' => j = i
  BY DEF At
<1> QED
  BY <1>1, <1>2, <1>3 DEF Calm

\* A step of a sync that leaves trouble behind leaves it alone, or starts with no sync.
LEMMA StepsAlone ==
  ASSUME TypeOK, ~trouble => Calm, ~trouble', NEW k \in Syncs,
         CheckAsks(k) \/ SyncNow(k) \/ SyncStep(k)
  PROVE  /\ ~trouble /\ Calm
         /\ UNCHANGED <<version, at, now, account>>
         /\ \A j \in Syncs : j # k => sync'[j].pc = "idle"
<1>0. \/ trouble' = trouble \/ trouble' = (trouble \/ ~Quiet)
      \/ trouble' = (trouble \/ (sync[k].ts = 0 /\ sync[k].ver < version[sync[k].org]))
      \/ trouble' = (trouble \/ sync[k].ts # 0)
  BY DEF CheckAsks, SyncNow, SyncStep, CheckCompares, AsksVersion, ComparesVersion,
     GetsPolicy, Stores, Fails, CheckEnds
<1>1. ~trouble /\ Calm
  BY <1>0 DEF TypeOK
<1>2. UNCHANGED <<version, at, now, account>>
  BY DEF CheckAsks, SyncNow, SyncStep, CheckCompares, AsksVersion, ComparesVersion,
     GetsPolicy, Stores, Fails, CheckEnds
<1>3. \A j \in Syncs : j # k => sync'[j] = sync[j]
  BY DEF TypeOK, CheckAsks, SyncNow, SyncStep, CheckCompares, AsksVersion, ComparesVersion,
     GetsPolicy, Stores, Fails, CheckEnds, Stops, Goto, Returns
<1>4. \A j \in Syncs : j # k => sync[j].pc = "idle"
  <2>1. CASE CheckAsks(k) \/ SyncNow(k)
    BY <2>1, <1>1 DEF CheckAsks, SyncNow, Quiet, At
  <2>2. CASE SyncStep(k)
    <3>1. ~At(k, "idle")
      BY <2>2 DEF SyncStep, CheckCompares, AsksVersion, ComparesVersion,
         GetsPolicy, Stores, Fails, CheckEnds, At
    <3> QED
      BY <1>1, <3>1 DEF Calm, At
  <2> QED
    BY <2>1, <2>2
<1> QED
  BY <1>1, <1>2, <1>3, <1>4

(***************************************************************************)
(* Outside trouble each step of a sync preserves Calm.                     *)
(***************************************************************************)
LEMMA SyncCalm ==
  ASSUME TypeOK, Published, ~trouble => Calm, ~trouble', NEW k \in Syncs,
         CheckAsks(k) \/ SyncNow(k) \/ SyncStep(k)
  PROVE  Calm'
<1>a. /\ ~trouble /\ Calm
      /\ UNCHANGED <<version, at, now, account>>
      /\ \A j \in Syncs : j # k => sync'[j].pc = "idle"
  BY StepsAlone
<1>l. sync \in [Syncs -> Local] /\ sync[k] \in Local
  BY DEF TypeOK, Local
<1>c. /\ held = NoPolicy \/ held.org = account
      /\ sync[k].pc \in Asked => sync[k].org = account
      /\ At(k, "end") => account # NoOrg /\ held.org = account
      /\ (\A j \in Syncs : ~At(j, "end")) => (BelievesCurrent => Current)
      /\ Right(k)
  BY <1>a DEF Calm
<1>e. ~At(k, "end") => \A j \in Syncs : ~At(j, "end")
  BY <1>a, <1>l, StepsAlone DEF Calm, At, CheckAsks, SyncNow, SyncStep, CheckCompares, AsksVersion,
     ComparesVersion, GetsPolicy, Stores, Fails, CheckEnds, Quiet
<1>n. /\ account \in Orgs => /\ version[account] \in Nat /\ at[account] \in Nat
                             /\ at[account] >= 1
      /\ now \in Nat /\ syncedAt \in Nat /\ account \in Accounts /\ (account # NoOrg <=> account \in Orgs)
  BY ExtensionAssumption DEF ExtensionAssumption, TypeOK, Published
<1> HIDE DEF NoPolicy
\* Storage is as it was and the sync has not reached its end.
<1>1. ASSUME UNCHANGED <<held, syncedAt>>, ~At(k, "end"), ~At(k, "end")',
             sync'[k].pc \in Asked => sync'[k].org = account, Right(k)'
      PROVE  Calm'
  BY <1>a, <1>c, <1>e, <1>1, CalmOfOne DEF BelievesCurrent, Current
<1>2. ASSUME CheckAsks(k) PROVE Calm'
  BY <1>2, <1>1, <1>l DEF CheckAsks, At, Asked, Right
<1>3. ASSUME SyncNow(k) PROVE Calm'
  BY <1>3, <1>1, <1>l DEF SyncNow, At, Asked, Right
<1>4. ASSUME CheckCompares(k) PROVE Calm'
  <2>1. /\ UNCHANGED <<held, syncedAt>> /\ At(k, "compare")
        /\ sync'[k] = Idle \/ sync'[k] = [sync[k] EXCEPT !.pc = "sync"]
    BY <1>4, <1>l DEF CheckCompares, Stops, Goto
  <2>2. sync'[k].pc \notin Asked /\ ~At(k, "end")' /\ ~At(k, "store")' /\ ~At(k, "end")
    BY <2>1, <1>l DEF At, Asked, Local
  <2> QED
    BY <1>1, <2>1, <2>2 DEF Right
<1>5. ASSUME AsksVersion(k) PROVE Calm'
  <2>1. /\ UNCHANGED <<held, syncedAt>> /\ At(k, "sync")
        /\ sync'[k] = [sync[k] EXCEPT !.pc = "versioned", !.org = account,
                                      !.label = version[account]]
    BY <1>5, <1>l DEF AsksVersion
  <2>2. /\ sync'[k].pc = "versioned" /\ sync'[k].org = account
        /\ sync'[k].label = version[account]
    BY <2>1, <1>l DEF Local
  <2> QED
    BY <1>a, <1>1, <2>1, <2>2 DEF At, Right
<1>6. ASSUME GetsPolicy(k) PROVE Calm'
  <2>1. /\ UNCHANGED <<held, syncedAt>> /\ sync[k].pc = "fetch"
        /\ sync'[k] = [sync[k] EXCEPT !.pc = "store", !.ver = version[sync[k].org]]
    BY <1>6, <1>l DEF GetsPolicy, At
  <2>2. /\ sync'[k].pc = "store" /\ sync'[k].org = account /\ sync'[k].ts = sync[k].ts
        /\ sync'[k].label = sync[k].label /\ sync'[k].ver = version[account]
    BY <2>1, <1>c, <1>l DEF Local, Asked
  <2> QED
    BY <1>a, <1>c, <1>1, <2>1, <2>2 DEF At, Right, Asked
\* Storage is as it was and the sync, which ran for no check or for one that has its
\* policy, ends.
<1>7. ASSUME Returns(k), UNCHANGED <<held, syncedAt>>, ~At(k, "end"),
             sync[k].ts # 0 => account # NoOrg /\ held.org = account,
             sync[k].ts # 0 /\ sync[k].ts >= at[account] => Current
      PROVE  Calm'
  <2>1. sync'[k] = Ending(sync[k].ts)
    BY <1>7, <1>l DEF Returns
  <2>2. CASE sync[k].ts = 0
    <3>1. sync'[k] = Idle
      BY <2>1, <2>2 DEF Ending
    <3> QED
      BY <1>1, <1>7, <3>1 DEF At, Asked, Right
  <2>3. CASE sync[k].ts # 0
    <3>1. sync'[k].pc = "end" /\ sync'[k].ts = sync[k].ts
      BY <2>1, <2>3 DEF Ending
    <3>2. At(k, "end")' /\ sync'[k].pc \notin Asked /\ ~At(k, "store")'
      BY <3>1 DEF At, Asked
    <3>3. Right(k)'
      BY <1>a, <1>7, <2>3, <3>1, <3>2 DEF Right, Current
    <3> QED
      BY <1>a, <1>c, <1>7, <2>3, <3>2, <3>3, CalmOfOne
  <2> QED
    BY <2>2, <2>3
<1>8. ASSUME ComparesVersion(k) PROVE Calm'
  <2>1. /\ UNCHANGED <<held, syncedAt>> /\ sync[k].pc = "versioned" /\ sync[k].org = account
        /\ account \in Orgs /\ sync[k].label >= 1
    BY <1>8, <1>c DEF ComparesVersion, At, Asked, Published
  <2>2. CASE held.label # sync[k].label
    <3>1. sync'[k] = [sync[k] EXCEPT !.pc = "fetch"]
      BY <1>8, <1>l, <2>2 DEF ComparesVersion, Goto
    <3>2. /\ sync'[k].pc = "fetch" /\ sync'[k].org = sync[k].org
          /\ sync'[k].ts = sync[k].ts /\ sync'[k].label = sync[k].label
      BY <1>l, <3>1 DEF Local
    <3> QED
      BY <1>a, <1>c, <1>1, <2>1, <3>2 DEF At, Asked, Right
  <2>3. CASE held.label = sync[k].label
    <3>1. held # NoPolicy /\ held.org = account
      BY <1>c, <2>1, <2>3 DEF NoPolicy
    <3>2. held.label <= held.ver /\ held.ver <= version[account] /\ held.ver \in Nat /\ held.label \in Nat
      BY <2>1, <3>1 DEF Published, NeverLabelledNewer, TypeOK
    <3>3. sync[k].ts # 0 /\ sync[k].ts >= at[account] => sync[k].label = version[account]
      BY <1>c, <2>1 DEF Right, Asked
    <3>4. sync[k].ts # 0 /\ sync[k].ts >= at[account] => Current
      BY <1>n, <2>1, <2>3, <3>1, <3>2, <3>3 DEF Current
    <3>5. Returns(k) /\ ~At(k, "end")
      BY <1>8, <2>1, <2>3 DEF ComparesVersion, At
    <3> QED
      BY <1>7, <1>n, <2>1, <3>1, <3>4, <3>5
  <2> QED
    BY <2>2, <2>3
<1>9. ASSUME Stores(k) PROVE Calm'
  <2>1. sync[k].pc = "store" /\ sync[k].org = account /\ account \in Orgs /\ ~At(k, "end")
    BY <1>9, <1>c DEF Stores, At, Asked, Published
  <2>2. /\ held'.org = account /\ held'.ver = sync[k].ver /\ syncedAt' = now
        /\ sync'[k] = Ending(sync[k].ts)
    BY <1>9, <1>l, <2>1 DEF Stores, Returns
  <2>3. sync[k].ver <= version[account] /\ sync[k].ver \in Nat /\ version[account] \in Nat
    BY <1>l, <1>n, <2>1 DEF Published, At, Local
  <2>4. CASE sync[k].ts = 0
    <3>1. ~(sync[k].ver < version[account])
      BY <1>9, <2>1, <2>4 DEF Stores
    <3>2. Current'
      BY <1>a, <1>n, <2>1, <2>2, <2>3, <3>1 DEF Current
    <3>3. sync'[k] = Idle
      BY <2>2, <2>4 DEF Ending
    <3> QED
      BY <1>a, <2>2, <3>2, <3>3, CalmOfOne DEF At, Asked, Right
  <2>5. CASE sync[k].ts # 0
    <3>1. sync'[k].pc = "end" /\ sync'[k].ts = sync[k].ts
      BY <2>2, <2>5 DEF Ending
    <3>2. At(k, "end")' /\ sync'[k].pc \notin Asked /\ ~At(k, "store")'
      BY <3>1 DEF At, Asked
    <3>3. sync[k].ts >= at[account] => sync[k].ver = version[account]
      BY <1>c, <2>1, <2>5 DEF Right, At
    <3>4. Right(k)'
      BY <1>a, <1>n, <2>1, <2>2, <3>1, <3>2, <3>3 DEF Right, Current
    <3> QED
      BY <1>a, <1>n, <2>1, <2>2, <3>2, <3>4, CalmOfOne
  <2> QED
    BY <2>4, <2>5
<1>10. ASSUME Fails(k) PROVE Calm'
  <2>1. ~At(k, "end") /\ UNCHANGED <<held, syncedAt>> /\ Returns(k) /\ sync[k].ts = 0
    BY <1>10 DEF Fails, At
  <2> QED
    BY <1>7, <2>1
<1>11. ASSUME CheckEnds(k) PROVE Calm'
  <2>1. /\ At(k, "end") /\ account # NoOrg /\ held.org = account /\ account \in Orgs
        /\ held' = held /\ syncedAt' = sync[k].ts /\ sync'[k] = Idle /\ sync[k].ts # 0
    BY <1>11, <1>c, <1>l, <1>n DEF CheckEnds, Stops, Published
  <2>2. (BelievesCurrent => Current)'
    BY <1>a, <1>c, <2>1 DEF Right, Current, BelievesCurrent
  <2> QED
    BY <1>a, <2>1, <2>2, CalmOfOne DEF At, Asked, Right
<1> QED
  BY <1>2, <1>3, <1>4, <1>5, <1>6, <1>8, <1>9, <1>10, <1>11 DEF SyncStep

\* Calm with no sync in flight.
LEMMA CalmWhenQuiet ==
  ASSUME Quiet', (held = NoPolicy \/ held.org = account)', (BelievesCurrent => Current)'
  PROVE  Calm'
<1> HIDE DEF NoPolicy
<1>1. \A k \in Syncs : sync'[k].pc = "idle"
  BY DEF Quiet, At
<1>2. \A k \in Syncs : sync'[k].pc \notin Asked /\ ~At(k, "end")' /\ ~At(k, "store")'
  BY <1>1 DEF Asked, At
<1>3. \A k \in Syncs : Right(k)'
  BY <1>2 DEF Right
<1> QED
  BY <1>1, <1>2, <1>3 DEF Calm, At

LEMMA CalmStep ==
  ASSUME TypeOK, Published, ~trouble => Calm, [Next]_vars, ~trouble'
  PROVE  Calm'
<1>n. /\ now \in Nat /\ syncedAt \in Nat /\ syncedAt <= now /\ account \in Accounts
      /\ \A p \in Orgs : at[p] \in Nat /\ at[p] >= 1 /\ version[p] \in Nat
      /\ NoOrg \notin Orgs
  BY ExtensionAssumption DEF ExtensionAssumption, TypeOK, Published
<1> HIDE DEF NoPolicy
<1>1. ASSUME NEW o \in Orgs, Publish(o) PROVE Calm'
  <2>1. /\ at' = [at EXCEPT ![o] = now + 1] /\ version' = [version EXCEPT ![o] = version[o] + 1]
        /\ account' = account /\ held' = held /\ syncedAt' = syncedAt /\ sync' = sync
    BY <1>1 DEF Publish
  <2>2. at'[o] = now + 1
    BY <2>1 DEF TypeOK
  <2>3. \A p \in Orgs : p # o => at'[p] = at[p] /\ version'[p] = version[p]
    BY <2>1 DEF TypeOK
  <2>4. CASE trouble
    <3>1. Quiet /\ o = account /\ held.org \in {o, NoOrg}
      BY <1>1, <2>4 DEF Publish
    <3>2. ~BelievesCurrent'
      BY <1>n, <2>1, <2>2, <3>1 DEF BelievesCurrent
    <3>3. (held = NoPolicy \/ held.org = account)'
      BY <2>1, <3>1 DEF Published
    <3> QED
      BY <2>1, <3>1, <3>2, <3>3, CalmWhenQuiet DEF Quiet, At
  <2>5. CASE ~trouble
    <3>1. Calm
      BY <2>5
    <3>2. (BelievesCurrent' => o # account) /\ (account # o => (Current' <=> Current))
      BY <1>n, <2>1, <2>2, <2>3 DEF BelievesCurrent, Current
    <3>3. BelievesCurrent' => BelievesCurrent
      BY <1>n, <2>1, <2>3, <3>2 DEF BelievesCurrent
    <3>4. ASSUME NEW k \in Syncs PROVE Right(k)'
      <4>1. sync[k].ts \in Nat /\ sync[k].ts <= now
        BY DEF TypeOK, Published
      <4>2. CASE o = account
        BY <1>n, <2>1, <2>2, <4>1, <4>2 DEF Right
      <4>3. CASE o # account
        <5>1. account \in Orgs => at'[account] = at[account] /\ version'[account] = version[account]
          BY <2>3, <4>3
        <5>2. Right(k)
          BY <3>1 DEF Calm
        <5> QED
          BY <2>1, <3>2, <4>3, <5>1, <5>2 DEF Right, At
      <4> QED
        BY <4>2, <4>3
    <3> QED
      BY <2>1, <3>1, <3>2, <3>3, <3>4 DEF Calm, At
  <2> QED
    BY <2>4, <2>5
<1>2. ASSUME NEW o \in Accounts, SwitchAccount(o) PROVE Calm'
  <2>1. /\ ~trouble /\ Quiet /\ held = NoPolicy /\ syncedAt = 0
        /\ UNCHANGED <<at, held, syncedAt, sync>> /\ account' \in Accounts
    BY <1>2 DEF SwitchAccount, TypeOK
  <2>2. ~BelievesCurrent'
    BY <1>n, <2>1 DEF BelievesCurrent
  <2> QED
    BY <2>1, <2>2, CalmWhenQuiet DEF Quiet, At, NoPolicy
<1>3. ASSUME NEW k \in Syncs, CheckAsks(k) \/ SyncNow(k) \/ SyncStep(k) PROVE Calm'
  BY <1>3, SyncCalm
<1>4. ASSUME WorkerDies PROVE Calm'
  <2>1. /\ ~trouble /\ Calm /\ UNCHANGED <<version, at, account, held, syncedAt>>
        /\ \A k \in Syncs : sync'[k].pc = "idle"
    BY <1>4 DEF WorkerDies, TypeOK
  <2>2. (BelievesCurrent => Current)'
    <3>1. CASE \E k \in Syncs : At(k, "end")
      <4>1. account \in Orgs /\ held.org = account
        BY <1>n, <2>1, <3>1 DEF Calm
      <4>2. ~(held.ver < version[account])
        BY <1>4, <1>n, <2>1, <3>1, <4>1 DEF WorkerDies
      <4>3. held.ver <= version[account] /\ held.ver \in Nat
        BY <4>1 DEF Published, TypeOK
      <4> QED
        BY <1>n, <2>1, <4>1, <4>2, <4>3 DEF Current
    <3>2. CASE ~\E k \in Syncs : At(k, "end")
      BY <2>1, <3>2 DEF Calm, BelievesCurrent, Current
    <3> QED
      BY <3>1, <3>2
  <2> QED
    BY <2>1, <2>2, CalmWhenQuiet DEF Calm, Quiet, At
<1>5. ASSUME UNCHANGED vars PROVE Calm'
  BY <1>5 DEF vars, Calm, At, BelievesCurrent, Current, Right
<1> QED
  BY <1>1, <1>2, <1>3, <1>4, <1>5 DEF Next

LEMMA InvInit == Init => IInv
<1> SUFFICES ASSUME Init PROVE IInv
  OBVIOUS
<1>1. \A k \in Syncs : sync[k] = Idle
  BY DEF Init
<1>2. Published
  BY <1>1, ExtensionAssumption DEF Init, Published, At, Asked, NeverLabelledNewer, ExtensionAssumption
<1>3. ~BelievesCurrent
  BY ExtensionAssumption DEF Init, BelievesCurrent, ExtensionAssumption
<1>4. Calm
  BY <1>1, <1>3 DEF Init, Calm, At, Asked, Right
<1> QED
  BY <1>2, <1>4, TypeInit DEF IInv

LEMMA InvHolds == Spec => []IInv
<1>1. IInv /\ [Next]_vars => IInv'
  BY TypeStep, PublishedStep, CalmStep DEF IInv
<1> QED
  BY InvInit, <1>1, PTL DEF Spec

(***************************************************************************)
(* Types, for every value of the constants.                                *)
(***************************************************************************)
THEOREM ExtensionTypes == Spec => []TypeOK
<1>1. IInv => TypeOK
  BY DEF IInv
<1> QED
  BY <1>1, InvHolds, PTL

(***************************************************************************)
(* sync.ts asks for the version first and the document second, so the      *)
(* document it stores is never older than its label.                       *)
(***************************************************************************)
THEOREM ExtensionLabels == Spec => []NeverLabelledNewer
<1>1. IInv => NeverLabelledNewer
  BY DEF IInv, Published
<1> QED
  BY <1>1, InvHolds, PTL

(***************************************************************************)
(* An extension with nothing to fetch has the latest policy of its account *)
(* unless one of the named troubles happened since the last publish.       *)
(***************************************************************************)
THEOREM ExtensionMisses == Spec => []MissesOnlyInTrouble
<1>1. IInv => MissesOnlyInTrouble
  BY DEF IInv, Calm, MissesOnlyInTrouble, Quiet, At
<1> QED
  BY <1>1, InvHolds, PTL
=============================================================================
