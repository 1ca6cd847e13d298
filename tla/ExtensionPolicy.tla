-------------------------- MODULE ExtensionPolicy ---------------------------
(***************************************************************************)
(* How a policy published by an organisation reaches the cache of one      *)
(* Chrome extension.  An alarm starts an update check (update-check.ts):   *)
(* ask when the policy last changed, compare with syncedAt, sync, write    *)
(* the remote time to syncedAt.  A sync (sync.ts) is also run directly on  *)
(* installation: ask the version, compare with the cached one, get the     *)
(* document, store.  Each await is a step of its own, several syncs can be *)
(* in flight, requests fail and Chrome ends the service worker.            *)
(*                                                                         *)
(* A document is its organisation and its version.  Time is counted in     *)
(* publishes: now is the time of the latest one of any organisation.       *)
(***************************************************************************)
EXTENDS Naturals, FiniteSets

CONSTANTS Orgs,        \* organisations the user can be signed in to
          Syncs,       \* checks and direct syncs that can be in flight
          MaxVersion   \* bound: [Orgs -> the last version published]

NoOrg == "none"        \* no token

ASSUME ExtensionAssumption == NoOrg \notin Orgs /\ MaxVersion \in [Orgs -> Nat]

VARIABLES
  version,   \* backend: [Orgs -> version of the latest policy]
  at,        \* backend: [Orgs -> when it was published]
  now,       \* the time, in publishes
  account,   \* whose token and tenant the requests carry
  held,      \* storage: policyDoc (org, ver) and cachedPolicyVersion (label)
  syncedAt,  \* storage: syncedAt
  sync,      \* worker: [Syncs -> where it is and what it was told]
  trouble    \* history: one of the situations in which an update can be missed

backendVars == <<version, at, now>>
storageVars == <<held, syncedAt>>
vars == <<version, at, now, account, held, syncedAt, sync, trouble>>

Accounts == Orgs \cup {NoOrg}
NoPolicy == [org |-> NoOrg, ver |-> 0, label |-> 0]

\* pc: which await of checkForUpdates or syncPolicy has last returned; ts: the remote
\* time of a check, 0 for a direct sync; label, ver: the version asked and received.
Idle == [pc |-> "idle", ts |-> 0, org |-> NoOrg, label |-> 0, ver |-> 0]
Phases == {"idle", "compare", "sync", "versioned", "fetch", "store", "end"}
Asked == {"versioned", "fetch", "store"}

At(k, pc) == sync[k].pc = pc
Quiet == \A k \in Syncs : At(k, "idle")
Goto(k, pc) == sync' = [sync EXCEPT ![k].pc = pc]
Stops(k) == sync' = [sync EXCEPT ![k] = Idle]

\* syncPolicy returns, for whatever reason: a check goes on to write its remote time.
Ending(ts) == IF ts = 0 THEN Idle ELSE [Idle EXCEPT !.pc = "end", !.ts = ts]
Returns(k) == sync' = [sync EXCEPT ![k] = Ending(sync[k].ts)]

\* The newest policy of the account's organisation is in the cache; the next check
\* will find nothing newer.
Current == account \in Orgs /\ held.org = account /\ held.ver = version[account]
BelievesCurrent == account \in Orgs /\ at[account] <= syncedAt

Init ==
  /\ version = [o \in Orgs |-> 1]
  /\ at = [o \in Orgs |-> 1]
  /\ now = 1
  /\ account = NoOrg
  /\ held = NoPolicy
  /\ syncedAt = 0
  /\ sync = [k \in Syncs |-> Idle]
  /\ trouble = FALSE

-----------------------------------------------------------------------------
(* The world around the extension.                                         *)

\* publishPolicy.  A publish for the account ends the trouble when nothing is in flight
\* and no other organisation's policy is cached: it will be fetched.
Publish(o) ==
  /\ version[o] < MaxVersion[o]
  /\ version' = [version EXCEPT ![o] = @ + 1]
  /\ now' = now + 1
  /\ at' = [at EXCEPT ![o] = now + 1]
  /\ trouble' = (trouble /\ ~(Quiet /\ o = account /\ held.org \in {o, NoOrg}))
  /\ UNCHANGED <<account, storageVars, sync>>

\* The token or the selected tenant changes; nothing that was cached is dropped.
SwitchAccount(o) ==
  /\ account # o
  /\ account' = o
  /\ trouble' = (trouble \/ ~Quiet \/ held # NoPolicy \/ syncedAt # 0)
  /\ UNCHANGED <<backendVars, storageVars, sync>>

-----------------------------------------------------------------------------
(* The service worker.                                                     *)

\* The alarm's check has been told when the policy last changed.
CheckAsks(k) ==
  /\ At(k, "idle") /\ account # NoOrg
  /\ sync' = [sync EXCEPT ![k] = [Idle EXCEPT !.pc = "compare", !.ts = at[account]]]
  /\ trouble' = (trouble \/ ~Quiet)
  /\ UNCHANGED <<backendVars, account, storageVars>>

\* onInstalled syncs without a check.
SyncNow(k) ==
  /\ At(k, "idle")
  /\ sync' = [sync EXCEPT ![k] = [Idle EXCEPT !.pc = "sync"]]
  /\ trouble' = (trouble \/ ~Quiet)
  /\ UNCHANGED <<backendVars, account, storageVars>>

\* mutant: an update is looked for only when none has been fetched.
CheckOnlyFirst(k) ==
  /\ At(k, "compare")
  /\ IF syncedAt # 0 THEN Stops(k) ELSE Goto(k, "sync")
  /\ UNCHANGED <<backendVars, account, storageVars, trouble>>

CheckCompares(k) ==
  /\ At(k, "compare")
  /\ IF sync[k].ts <= syncedAt THEN Stops(k) ELSE Goto(k, "sync")
  /\ UNCHANGED <<backendVars, account, storageVars, trouble>>

AsksVersion(k) ==
  /\ At(k, "sync") /\ account \in Orgs
  /\ sync' = [sync EXCEPT ![k] = [sync[k] EXCEPT !.pc = "versioned", !.org = account,
                                                 !.label = version[account]]]
  /\ UNCHANGED <<backendVars, account, storageVars, trouble>>

ComparesVersion(k) ==
  /\ At(k, "versioned")
  /\ IF held.label = sync[k].label THEN Returns(k) ELSE Goto(k, "fetch")
  /\ UNCHANGED <<backendVars, account, storageVars, trouble>>

\* The document, of the organisation whose headers the sync was started with.
GetsPolicy(k) ==
  /\ At(k, "fetch")
  /\ sync' = [sync EXCEPT ![k] = [sync[k] EXCEPT !.pc = "store",
                                                 !.ver = version[sync[k].org]]]
  /\ UNCHANGED <<backendVars, account, storageVars, trouble>>

\* mutant: the document is labelled with the newest version there is.
StoresLatestLabel(k) ==
  /\ At(k, "store")
  /\ held' = [org |-> sync[k].org, ver |-> sync[k].ver, label |-> version[sync[k].org]]
  /\ syncedAt' = now
  /\ Returns(k)
  /\ trouble' = (trouble \/ (sync[k].ts = 0 /\ sync[k].ver < version[sync[k].org]))
  /\ UNCHANGED <<backendVars, account>>

\* Trouble: a direct sync stores, with the present time, what a publish has overtaken.
Stores(k) ==
  /\ At(k, "store")
  /\ held' = [org |-> sync[k].org, ver |-> sync[k].ver, label |-> sync[k].label]
  /\ syncedAt' = now
  /\ Returns(k)
  /\ trouble' = (trouble \/ (sync[k].ts = 0 /\ sync[k].ver < version[sync[k].org]))
  /\ UNCHANGED <<backendVars, account>>

\* No token, a refused or failed request, a document that does not parse: syncPolicy
\* swallows it.  Trouble: a check then still marks the update as seen.
Fails(k) ==
  /\ sync[k].pc \in {"sync", "fetch", "store"}
  /\ Returns(k)
  /\ trouble' = (trouble \/ sync[k].ts # 0)
  /\ UNCHANGED <<backendVars, account, storageVars>>

\* mutant: the check marks the time at which it ends.
CheckEndsNow(k) ==
  /\ At(k, "end")
  /\ syncedAt' = now
  /\ Stops(k)
  /\ UNCHANGED <<backendVars, account, held, trouble>>

CheckEnds(k) ==
  /\ At(k, "end")
  /\ syncedAt' = sync[k].ts
  /\ Stops(k)
  /\ UNCHANGED <<backendVars, account, held, trouble>>

\* Trouble: the check's own time has not replaced the time of its store, and a publish
\* has overtaken what it stored.
WorkerDies ==
  /\ ~Quiet
  /\ sync' = [k \in Syncs |-> Idle]
  /\ trouble' = (trouble \/ /\ \E k \in Syncs : At(k, "end")
                            /\ account \in Orgs /\ held.ver < version[account])
  /\ UNCHANGED <<backendVars, account, storageVars>>

SyncStep(k) ==
  \/ CheckCompares(k) \/ AsksVersion(k) \/ ComparesVersion(k) \/ GetsPolicy(k)
  \/ Stores(k) \/ Fails(k) \/ CheckEnds(k)

Next ==
  \/ \E o \in Orgs : Publish(o)
  \/ \E o \in Accounts : SwitchAccount(o)
  \/ \E k \in Syncs : CheckAsks(k) \/ SyncNow(k) \/ SyncStep(k)
  \/ WorkerDies

\* The alarm keeps firing, and of the attempts that fail or die at an await one gets
\* past it.
Fairness ==
  /\ SF_vars(\E k \in Syncs : CheckAsks(k))
  /\ SF_vars(\E k \in Syncs : CheckCompares(k))
  /\ SF_vars(\E k \in Syncs : AsksVersion(k))
  /\ SF_vars(\E k \in Syncs : ComparesVersion(k))
  /\ SF_vars(\E k \in Syncs : GetsPolicy(k))
  /\ SF_vars(\E k \in Syncs : Stores(k))
  /\ WF_vars(\E k \in Syncs : CheckEnds(k))

Spec == Init /\ [][Next]_vars /\ Fairness

-----------------------------------------------------------------------------
(* Properties.                                                             *)

\* Types; no policy is dated later than the time.
TypeOK ==
  /\ version \in [Orgs -> Nat \ {0}]
  /\ at \in [Orgs -> Nat]
  /\ \A o \in Orgs : at[o] <= now
  /\ now \in Nat
  /\ account \in Accounts
  /\ held \in [org : Accounts, ver : Nat, label : Nat]
  /\ syncedAt \in Nat
  /\ sync \in [Syncs -> [pc : Phases, ts : Nat, org : Accounts, label : Nat, ver : Nat]]
  /\ trouble \in BOOLEAN

\* A document is never cached under a newer version than its own, although version and
\* document are two requests (sync.ts:26-38): a later sync would take it for current.
NeverLabelledNewer == held.label <= held.ver

\* With nothing in flight, an extension whose syncedAt tells it that it has the latest
\* policy (update-check.ts:13) has it, unless trouble happened: a check whose sync failed,
\* overlapping syncs, a change of account, an overtaken direct sync, a death at the end
\* of a check.
MissesOnlyInTrouble == Quiet /\ ~trouble /\ BelievesCurrent => Current

\* An extension that is signed in keeps becoming current as long as no trouble happens,
\* from the alarm alone and however often the worker is ended (service-worker.ts:23-30).
UpdatesArrive == []<>(Current \/ trouble \/ account = NoOrg)

-----------------------------------------------------------------------------
(* The invariant the proofs rest on.                                       *)

\* What is stored and what is in flight has been published.
Published ==
  /\ NeverLabelledNewer
  /\ syncedAt <= now
  /\ \A o \in Orgs : at[o] >= 1
  /\ held.org \in Orgs => held.ver <= version[held.org]
  /\ held.org = NoOrg => held = NoPolicy
  /\ \A k \in Syncs :
       /\ sync[k].ts <= now
       /\ At(k, "end") => sync[k].ts # 0
       /\ sync[k].pc \in Asked => /\ sync[k].org \in Orgs /\ sync[k].label >= 1
                                  /\ sync[k].label <= version[sync[k].org]
       /\ At(k, "store") => /\ sync[k].label <= sync[k].ver
                            /\ sync[k].ver <= version[sync[k].org]

\* A check that will leave the update marked as seen has been told the newest.
Right(k) ==
  sync[k].ts # 0 /\ account \in Orgs /\ sync[k].ts >= at[account] =>
    /\ sync[k].pc \in Asked => sync[k].label = version[account]
    /\ At(k, "store") => sync[k].ver = version[account]
    /\ At(k, "end") => Current

Calm ==
  /\ held = NoPolicy \/ held.org = account
  /\ \A k, j \in Syncs : ~At(k, "idle") /\ ~At(j, "idle") => k = j
  /\ \A k \in Syncs : /\ sync[k].pc \in Asked => sync[k].org = account
                      /\ At(k, "end") => account # NoOrg /\ held.org = account
                      /\ Right(k)
  /\ (\A k \in Syncs : ~At(k, "end")) => (BelievesCurrent => Current)

IInv == TypeOK /\ Published /\ (~trouble => Calm)
=============================================================================
