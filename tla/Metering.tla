------------------------------ MODULE Metering ------------------------------
(***************************************************************************)
(* What a plan limits, and what a subscription pays for.  The extension    *)
(* reports every prompt that it looks at as a scan; the backend counts the *)
(* month's scans and refuses those over the plan's limit, upon which the   *)
(* extension sets a flag and reports no more.  The payment provider        *)
(* reports on a subscription by webhook, at least once and in any order;   *)
(* requests for the policy are judged by a row of the tenant that may come *)
(* from a cache.                                                           *)
(*                                                                         *)
(* One subscription and one installation of the extension that is signed   *)
(* in.  Time passes in ticks; names, seats, tokens and mail are left out,  *)
(* and so is the plan, which no request changes once the tenant exists.    *)
(***************************************************************************)
EXTENDS Naturals, Sequences, FiniteSets

CONSTANTS Prompts,     \* that the extension looks at
          Deliveries,  \* of the webhook
          Reads,       \* requests for the policy, from whatever client
          Limit,       \* monthlyScans of the plan
          TTL,         \* of a cached row, the 30 s
          Grace,       \* gracePeriodDays
          MaxInputs,   \* bound: prompts, deliveries and reads together
          MaxTime      \* bound: ticks

ASSUME MeteringAssumption ==
  /\ IsFiniteSet(Prompts) /\ IsFiniteSet(Deliveries)
  /\ Limit \in Nat \ {0} /\ TTL \in Nat \ {0} /\ Grace \in Nat
  /\ MaxInputs \in Nat /\ MaxTime \in Nat

VARIABLES
  now,
  scanLimitReached, \* in the extension's storage
  prompt,    \* [Prompts -> where the prompt's scan is]
  scans,     \* rows of table scans since the month began
  turned,    \* a new month has begun
  tenants,   \* rows of table tenants with the subscription's id
  delivery,  \* [Deliveries -> [pc, type, row]]
  cache,     \* _tenantCache for the first of them: [expiresAt, row], and
             \* history: when the row was read
  read,      \* [Reads -> [pc, row, at]]
  lastGood,  \* history: when the row last entitled to the policy, before its present state
  peak       \* history: requests between a check and their insert, at most at once

scanVars == <<scanLimitReached, prompt, scans, turned>>
subVars == <<tenants, delivery>>
readVars == <<cache, read>>
vars == <<now, scanVars, subVars, readVars, lastGood, peak>>

Types == {"ACTIVATED", "COMPLETED", "CANCELLED", "FAILED"}
NoRow == [status |-> "none", graceEndsAt |-> 0]
NoDelivery == [pc |-> "none", type |-> "ACTIVATED", row |-> 0]
NoRead == [pc |-> "none", row |-> NoRow, at |-> 0]

Init ==
  /\ now = 0
  /\ scanLimitReached = FALSE /\ prompt = [p \in Prompts |-> "none"]
  /\ scans = 0 /\ turned = FALSE
  /\ tenants = <<>> /\ delivery = [d \in Deliveries |-> NoDelivery]
  /\ cache = [expiresAt |-> 0, row |-> NoRow, at |-> 0]
  /\ read = [r \in Reads |-> NoRead]
  /\ lastGood = 0 /\ peak = [scans |-> 1, activations |-> 1]

MayStart ==
  Cardinality({p \in Prompts : prompt[p] # "none"})
    + Cardinality({d \in Deliveries : delivery[d] # NoDelivery})
    + Cardinality({r \in Reads : read[r] # NoRead}) < MaxInputs

Higher(a, b) == IF a > b THEN a ELSE b

-----------------------------------------------------------------------------
(* Scans. *)

At(p, pc) == prompt[p] = pc
Goes(p, pc) == prompt' = [prompt EXCEPT ![p] = pc]
Counted == {p \in Prompts : prompt[p] = "counted"}

\* mutant: the extension asks whether the limit is reached only to tell the user.
DetectsAlways(p) ==
  /\ At(p, "none") /\ MayStart
  /\ Goes(p, "told")
  /\ UNCHANGED <<now, scanLimitReached, scans, turned, subVars, readVars, lastGood, peak>>

\* DETECT, which reads the flag ...
Detects(p) ==
  /\ At(p, "none") /\ MayStart
  /\ Goes(p, IF scanLimitReached THEN "ended" ELSE "told")
  /\ UNCHANGED <<now, scanLimitReached, scans, turned, subVars, readVars, lastGood, peak>>

\* ... and dispatchScan.
Dispatches(p) ==
  /\ At(p, "told") /\ Goes(p, "posted")
  /\ UNCHANGED <<now, scanLimitReached, scans, turned, subVars, readVars, lastGood, peak>>

\* mutant: the limit is off by one.
CountsOver(p) ==
  /\ At(p, "posted")
  /\ Goes(p, IF scans > Limit THEN "refused" ELSE "counted")
  /\ peak' = [peak EXCEPT !.scans = Higher(@, Cardinality({q \in Prompts : prompt'[q] = "counted"}))]
  /\ UNCHANGED <<now, scanLimitReached, scans, turned, subVars, readVars, lastGood>>

\* recordScan: the month's rows are counted ...
Counts(p) ==
  /\ At(p, "posted")
  /\ Goes(p, IF scans >= Limit THEN "refused" ELSE "counted")
  /\ peak' = [peak EXCEPT !.scans = Higher(@, Cardinality({q \in Prompts : prompt'[q] = "counted"}))]
  /\ UNCHANGED <<now, scanLimitReached, scans, turned, subVars, readVars, lastGood>>

\* ... and the row is inserted.
InsertsScan(p) ==
  /\ At(p, "counted") /\ Goes(p, "recorded")
  /\ scans' = scans + 1
  /\ UNCHANGED <<now, scanLimitReached, turned, subVars, readVars, lastGood, peak>>

\* 402 sets the flag, 200 clears it.
Hears(p) ==
  /\ prompt[p] \in {"refused", "recorded"} /\ Goes(p, "ended")
  /\ scanLimitReached' = At(p, "refused")
  /\ UNCHANGED <<now, scans, turned, subVars, readVars, lastGood, peak>>

\* No token any more, a worker stopped, a failing query, an answer lost: the flag stays.
Drops(p) ==
  /\ prompt[p] \in {"told", "posted", "counted", "refused", "recorded"} /\ Goes(p, "ended")
  /\ UNCHANGED <<now, scanLimitReached, scans, turned, subVars, readVars, lastGood, peak>>

\* countMonthlyScans counts from the first of the month; bound: one month turns.
MonthTurns ==
  /\ ~turned /\ turned' = TRUE /\ scans' = 0
  /\ UNCHANGED <<now, scanLimitReached, prompt, subVars, readVars, lastGood, peak>>

-----------------------------------------------------------------------------
(* The subscription. *)

\* requireActiveSubscription.
Entitles(row) ==
  /\ row.status \in {"active", "past_due"}
  /\ row.status = "past_due" => row.graceEndsAt >= now

LastGood == IF tenants # <<>> /\ Entitles(tenants[1]) THEN now ELSE lastGood

Receives(d, type) ==
  /\ delivery[d] = NoDelivery /\ MayStart
  /\ delivery' = [delivery EXCEPT ![d] = [pc |-> "look", type |-> type, row |-> 0]]
  /\ UNCHANGED <<now, scanVars, tenants, readVars, lastGood, peak>>

Activating(d) == delivery[d].pc = "insert"
Done(d) == delivery' = [delivery EXCEPT ![d].pc = "done"]

\* tenantIdBySubId, any of the rows if there are several.  Without one there is something to
\* do for an activation only, and with one for the others only.
FindsTenant(d) ==
  /\ delivery[d].pc = "look"
  /\ \/ /\ tenants = <<>> /\ delivery[d].type = "ACTIVATED"
        /\ delivery' = [delivery EXCEPT ![d].pc = "insert"]
     \/ /\ ~(tenants = <<>> <=> delivery[d].type = "ACTIVATED")
        /\ Done(d)
     \/ /\ tenants # <<>> /\ delivery[d].type # "ACTIVATED"
        /\ \E i \in DOMAIN tenants :
             delivery' = [delivery EXCEPT ![d].pc = "update", ![d].row = i]
  /\ peak' = [peak EXCEPT !.activations =
                Higher(@, Cardinality({e \in Deliveries : delivery'[e].pc = "insert"}))]
  /\ UNCHANGED <<now, scanVars, tenants, readVars, lastGood>>

\* activateTenant's insert; nothing makes externalSubId unique (schema.ts:35).
InsertsTenant(d) ==
  /\ Activating(d)
  /\ tenants' = Append(tenants, [status |-> "active", graceEndsAt |-> 0])
  /\ Done(d)
  /\ UNCHANGED <<now, scanVars, readVars, lastGood, peak>>

After(type) ==
  IF type = "FAILED" THEN [status |-> "past_due", graceEndsAt |-> now + Grace]
  ELSE [status |-> IF type = "COMPLETED" THEN "active" ELSE "cancelled", graceEndsAt |-> 0]

\* updateSubscriptionStatus; the cached row stays.
Updates(d) ==
  /\ delivery[d].pc = "update"
  /\ tenants' = [tenants EXCEPT ![delivery[d].row] = After(delivery[d].type)]
  /\ Done(d)
  /\ lastGood' = LastGood
  /\ UNCHANGED <<now, scanVars, readVars, peak>>

\* A query fails; the provider delivers the event again, which is another delivery.
DeliveryFails(d) ==
  /\ delivery[d].pc \in {"look", "insert", "update"} /\ Done(d)
  /\ UNCHANGED <<now, scanVars, tenants, readVars, lastGood, peak>>

-----------------------------------------------------------------------------
(* Reading the policy. *)

Judged(r, row, at) ==
  read' = [read EXCEPT ![r] = [pc |-> IF Entitles(row) THEN "served" ELSE "refused",
                               row |-> row, at |-> at]]

\* mutant: entries are never over.
HitsOld(r) ==
  /\ read[r] = NoRead /\ MayStart /\ cache.row # NoRow
  /\ Judged(r, cache.row, cache.at)
  /\ UNCHANGED <<now, scanVars, subVars, cache, lastGood, peak>>

\* getTenantCached has an entry that is not over ...
Hits(r) ==
  /\ read[r] = NoRead /\ MayStart /\ cache.expiresAt > now
  /\ Judged(r, cache.row, cache.at)
  /\ UNCHANGED <<now, scanVars, subVars, cache, lastGood, peak>>

\* ... or selects the row ...
Misses(r) ==
  /\ read[r] = NoRead /\ MayStart /\ cache.expiresAt <= now
  /\ tenants # <<>>
  /\ read' = [read EXCEPT ![r] = [pc |-> "selected", row |-> tenants[1], at |-> now]]
  /\ UNCHANGED <<now, scanVars, subVars, cache, lastGood, peak>>

\* ... and caches what it got, which another request may have replaced by a newer row.
Caches(r) ==
  /\ read[r].pc = "selected"
  /\ cache' = [expiresAt |-> now + TTL, row |-> read[r].row, at |-> read[r].at]
  /\ Judged(r, read[r].row, read[r].at)
  /\ UNCHANGED <<now, scanVars, subVars, lastGood, peak>>

\* PATCH /tenant, or a step of the wizard: the entry is dropped, whatever is being selected.
Invalidates ==
  /\ cache.expiresAt > now /\ cache' = [cache EXCEPT !.expiresAt = 0]
  /\ UNCHANGED <<now, scanVars, subVars, read, lastGood, peak>>

\* A select takes a tick at most.
Tick ==
  /\ now < MaxTime /\ \A r \in Reads : read[r].pc = "selected" => read[r].at = now
  /\ now' = now + 1 /\ lastGood' = LastGood
  /\ UNCHANGED <<scanVars, subVars, readVars, peak>>

Next ==
  \/ \E p \in Prompts : \/ Detects(p) \/ Dispatches(p) \/ Counts(p) \/ InsertsScan(p)
                        \/ Hears(p) \/ Drops(p)
  \/ MonthTurns
  \/ \E d \in Deliveries : \/ \E type \in Types : Receives(d, type)
                           \/ FindsTenant(d) \/ InsertsTenant(d) \/ Updates(d)
                           \/ DeliveryFails(d)
  \/ \E r \in Reads : Hits(r) \/ Misses(r) \/ Caches(r)
  \/ Invalidates
  \/ Tick

Spec == Init /\ [][Next]_vars

-----------------------------------------------------------------------------
(* Properties.                                                             *)

\* A check and the insert it allows are two queries: the month's scans exceed the limit, and
\* the rows of one subscription exceed one, by no more than the requests that were between the
\* two at once (scans/service.ts:106-111, billing/service.ts:34-61).
ChecksHoldUpToOverlap ==
  /\ scans <= Limit - 1 + peak.scans
  /\ Len(tenants) <= peak.activations

\* Once a scan was refused and none is on its way, the extension never reports a scan again,
\* whatever month it is: the flag stops the scans whose success would clear it
\* (service-worker.ts:94-95, scans/dispatch.ts:19-24).
Muted == scanLimitReached /\ \A p \in Prompts : prompt[p] \in {"none", "ended"}
RefusalIsForever == [][Muted => Muted']_vars

\* Who is served the policy was entitled to it no longer ago than a cache entry lives, also
\* when a request caches what it selected before the subscription ended
\* (auth/middleware.ts:18-23, 273-281).
CutOffWithinTTL ==
  [][\A r \in Reads : read[r].pc # "served" /\ read'[r].pc = "served"
       => now <= LastGood + TTL]_vars

-----------------------------------------------------------------------------
(* The inductive invariant behind them. *)

Rows == [status : {"active", "past_due", "cancelled"}, graceEndsAt : Nat]

MeteringTypeOK ==
  /\ now \in Nat /\ lastGood \in 0..now /\ scanLimitReached \in BOOLEAN
  /\ prompt \in [Prompts -> {"none", "told", "posted", "counted", "refused", "recorded", "ended"}]
  /\ scans \in Nat /\ turned \in BOOLEAN
  /\ tenants \in Seq(Rows)
  /\ delivery \in [Deliveries -> [pc : {"none", "look", "insert", "update", "done"},
                                  type : Types, row : Nat]]
  /\ \A d \in Deliveries : delivery[d].pc = "update" => delivery[d].row \in DOMAIN tenants
  /\ cache \in [expiresAt : Nat, row : Rows \cup {NoRow}, at : Nat]
  /\ read \in [Reads -> [pc : {"none", "selected", "served", "refused"},
                         row : Rows \cup {NoRow}, at : Nat]]
  /\ peak \in [scans : Nat, activations : Nat]

\* Who is between a check and the insert has its place already.
PlacesAreKept ==
  /\ scans + Cardinality(Counted) <= Limit - 1 + peak.scans
  /\ Len(tenants) + Cardinality({d \in Deliveries : Activating(d)}) <= peak.activations

\* A copy of the row that still entitles was read no later than the row last did.
Good(row, at) == Entitles(row) => at <= LastGood

CopiesAreRecent ==
  /\ cache.expiresAt > now => cache.expiresAt <= cache.at + 1 + TTL /\ Good(cache.row, cache.at)
  /\ \A r \in Reads : read[r].pc = "selected"
       => now <= read[r].at + 1 /\ Good(read[r].row, read[r].at)

MeteringInv == MeteringTypeOK /\ PlacesAreKept /\ CopiesAreRecent
=============================================================================
