----------------------------- MODULE Membership -----------------------------
(***************************************************************************)
(* How people become members of an organisation.  Administrators add rows  *)
(* by email, with or without an account behind it; the identity provider   *)
(* reports a new account some time after the sign-up; the account's first  *)
(* request, when it is earlier, provisions the user itself; and the        *)
(* console gives who belongs nowhere an organisation of its own.  Each of  *)
(* them links the rows waiting for the email, in separate queries, and     *)
(* nothing locks.                                                          *)
(*                                                                         *)
(* A row is "pending" while its userId is null.  One email is one person;  *)
(* names, roles, divisions, teams and the organisation's plan stay as they *)
(* are and are left out.                                                   *)
(***************************************************************************)
EXTENDS Naturals, FiniteSets

CONSTANTS People,       \* email addresses
          SignUps,      \* those that may get an account
          Adds,         \* requests of administrators, side by side
          Requests,     \* where an account's requests come from, one at a time each:
          Pages,        \* pages of the console, and devices
          MaxSeats,     \* of the organisation's plan
          MaxAdds,      \* bound: requests of administrators
          MaxAccounts,  \* bound: accounts that one email gets
          MaxFails      \* bound: queries that fail

ASSUME MembershipAssumption ==
  /\ SignUps \subseteq People /\ Pages \subseteq Requests
  /\ IsFiniteSet(People) /\ IsFiniteSet(Adds) /\ IsFiniteSet(Pages)
  /\ MaxSeats \in Nat \ {0} /\ MaxAdds \in Nat /\ MaxAccounts \in Nat /\ MaxFails \in Nat

VARIABLES
  live,      \* people whose account exists
  accounts,  \* accounts that an email has had
  user,      \* table users: "none", "current" with the account's id, "other" without it
  member,    \* table members of the organisation: "none", "pending", "linked"
  own,       \* how many organisations of their own people have
  hook,      \* user.created: what the webhook does for an email
  add,       \* [Adds -> [pc, who, user: the email has a user row, late: since the seats
             \* were counted another has inserted, or none were]]
  req,       \* [Requests -> [pc, who]]
  adds, fails, \* so far
  uncounted, \* history: rows inserted by late adds
  missed     \* history: who got a user row between an add's look for it and its insert

bounds == <<adds, fails>>
membershipVars == <<live, accounts, user, member, own, hook, add, req, bounds, uncounted, missed>>

NoAdd == [pc |-> "idle", who |-> {}, user |-> FALSE, late |-> FALSE]
NoRequest == [pc |-> "idle", who |-> {}]

MembershipInit ==
  /\ live = {} /\ accounts = [p \in People |-> 0]
  /\ user = [p \in People |-> "none"]
  /\ member = [p \in People |-> "none"]
  /\ own = [p \in People |-> 0]
  /\ hook = [p \in People |-> "none"]
  /\ add = [a \in Adds |-> NoAdd] /\ req = [r \in Requests |-> NoRequest]
  /\ adds = 0 /\ fails = 0 /\ uncounted = {} /\ missed = {}

Rows == {p \in People : member[p] # "none"}
Enrolled(p) == member[p] = "linked" \/ own[p] > 0

\* createUser: inserts, or finds the row with the email.
CreatesUser(p) ==
  user' = [user EXCEPT ![p] = IF @ = "none" THEN "current" ELSE @]

\* mutant: all that waits for the email is linked only if the user row is new.
ClaimsIfCurrent(p) ==
  /\ member' = [member EXCEPT ![p] = IF @ = "pending" /\ user[p] = "current" THEN "linked" ELSE @]
  /\ missed' = missed \ {p}

\* claimPendingMembers.
Claims(p) ==
  /\ member' = [member EXCEPT ![p] = IF @ = "pending" THEN "linked" ELSE @]
  /\ missed' = missed \ {p}

-----------------------------------------------------------------------------
(* Accounts: a person signs up at the identity provider, and may delete    *)
(* the account (user.deleted nulls the row's clerkId, nullifyClerkId) and  *)
(* sign up anew.                                                           *)

SignsUp(p) ==
  /\ p \in SignUps \ live /\ accounts[p] < MaxAccounts
  /\ hook[p] = "none"   \* the event of an earlier account has been handled
  /\ live' = live \cup {p} /\ accounts' = [accounts EXCEPT ![p] = @ + 1]
  /\ hook' = [hook EXCEPT ![p] = "due"]
  /\ UNCHANGED <<user, member, own, add, req, bounds, uncounted, missed>>

DeletesAccount(p) ==
  /\ p \in live /\ accounts[p] < MaxAccounts
  /\ \A r \in Requests : req[r].who # {p}
  /\ live' = live \ {p}
  /\ user' = [user EXCEPT ![p] = IF @ = "none" THEN @ ELSE "other"]
  /\ UNCHANGED <<accounts, member, own, hook, add, req, bounds, uncounted, missed>>

-----------------------------------------------------------------------------
(* The webhook of a new account: delivered late, and again after an error. *)

Hook(p, from, to) == hook[p] = from /\ hook' = [hook EXCEPT ![p] = to]

HookCreates(p) ==
  /\ Hook(p, "due", "check") /\ CreatesUser(p)
  /\ UNCHANGED <<live, accounts, member, own, add, req, bounds, uncounted, missed>>

\* Nothing more is done for who is enrolled.
HookChecks(p) ==
  /\ Hook(p, "check", IF Enrolled(p) THEN "none" ELSE "claim")
  /\ UNCHANGED <<live, accounts, user, member, own, add, req, bounds, uncounted, missed>>

\* It looks for rows that wait and claims them; with none the claim changes nothing.
HookClaims(p) ==
  /\ Hook(p, "claim", "none") /\ Claims(p)
  /\ UNCHANGED <<live, accounts, user, own, add, req, bounds, uncounted>>

\* mutant: an event that failed is acknowledged.
HookGivesUp(p) ==
  /\ hook[p] # "none" /\ fails < MaxFails
  /\ hook' = [hook EXCEPT ![p] = "none"]
  /\ fails' = fails + 1
  /\ UNCHANGED <<live, accounts, user, member, own, add, req, adds, uncounted, missed>>

HookFails(p) ==
  /\ hook[p] # "none" /\ fails < MaxFails
  /\ hook' = [hook EXCEPT ![p] = "due"]
  /\ fails' = fails + 1
  /\ UNCHANGED <<live, accounts, user, member, own, add, req, adds, uncounted, missed>>

-----------------------------------------------------------------------------
(* Requests of an account: the console's page, or a device.                *)

Who(r) == CHOOSE p \in People : req[r].who = {p}
Req(r, from, to) ==
  /\ req[r].pc = from
  /\ req' = [req EXCEPT ![r] = IF to = "idle" THEN NoRequest ELSE [@ EXCEPT !.pc = to]]

\* A device asks only who it is; the console goes on to see where it belongs.
After(r) == IF r \in Pages THEN "existing" ELSE "idle"

\* getOrProvisionUserByClerkId, of a verified token.
Starts(r, p) ==
  /\ req[r].pc = "idle" /\ p \in live
  /\ user[p] # "current" \/ r \in Pages
  /\ req' = [req EXCEPT ![r] = [pc |-> IF user[p] = "current" THEN "existing" ELSE "create",
                                who |-> {p}]]
  /\ UNCHANGED <<live, accounts, user, member, own, hook, add, bounds, uncounted, missed>>

\* provisionUserFromClerk: the row, whether anything is linked to it, what waits for it.
Provisions(r) ==
  /\ Req(r, "create", "check") /\ CreatesUser(Who(r))
  /\ UNCHANGED <<live, accounts, member, own, hook, add, bounds, uncounted, missed>>

SeesEnrolled(r) ==
  /\ Req(r, "check", IF Enrolled(Who(r)) THEN After(r) ELSE "claim")
  /\ UNCHANGED <<live, accounts, user, member, own, hook, add, bounds, uncounted, missed>>

ClaimsFirst(r) ==
  /\ Req(r, "claim", After(r)) /\ Claims(Who(r))
  /\ UNCHANGED <<live, accounts, user, own, hook, add, bounds, uncounted>>

\* mutant: whether there is a membership by now is not asked again.
SelfServesBlindly(r) ==
  /\ Req(r, "existing", "pending")
  /\ UNCHANGED <<live, accounts, user, member, own, hook, add, bounds, uncounted, missed>>

\* selfServeProvisionOrg: an organisation, a row that waits, or one of its own.
SelfServes(r) ==
  /\ Req(r, "existing", IF Enrolled(Who(r)) THEN "idle" ELSE "pending")
  /\ UNCHANGED <<live, accounts, user, member, own, hook, add, bounds, uncounted, missed>>

LooksForPending(r) ==
  /\ Req(r, "pending", IF member[Who(r)] = "pending" THEN "claimOwn" ELSE "found")
  /\ UNCHANGED <<live, accounts, user, member, own, hook, add, bounds, uncounted, missed>>

ClaimsPending(r) ==
  /\ Req(r, "claimOwn", "idle") /\ Claims(Who(r))
  /\ UNCHANGED <<live, accounts, user, own, hook, add, bounds, uncounted>>

\* The tenant, its one member and its first policy.
Founds(r) ==
  /\ Req(r, "found", "idle")
  /\ own' = [own EXCEPT ![Who(r)] = @ + 1]
  /\ UNCHANGED <<live, accounts, user, member, hook, add, bounds, uncounted, missed>>

\* A query fails, or the backend goes down with the request.
RequestFails(r) ==
  /\ req[r].pc # "idle" /\ fails < MaxFails
  /\ req' = [req EXCEPT ![r] = NoRequest]
  /\ fails' = fails + 1
  /\ UNCHANGED <<live, accounts, user, member, own, hook, add, adds, uncounted, missed>>

-----------------------------------------------------------------------------
(* Requests of administrators.                                             *)

Email(a) == CHOOSE p \in People : add[a].who = {p}

\* mutant: the seats are not counted.
CountsNothing(a, p) ==
  /\ add[a].pc = "idle" /\ adds < MaxAdds
  /\ add' = [add EXCEPT ![a] = [pc |-> "look", who |-> {p}, user |-> FALSE, late |-> FALSE]]
  /\ adds' = adds + 1
  /\ UNCHANGED <<live, accounts, user, member, own, hook, req, fails, uncounted, missed>>

\* createMember: the seats are counted ...
Counts(a, p) ==
  /\ add[a].pc = "idle" /\ adds < MaxAdds
  /\ Cardinality(Rows) < MaxSeats
  /\ add' = [add EXCEPT ![a] = [pc |-> "look", who |-> {p}, user |-> FALSE, late |-> FALSE]]
  /\ adds' = adds + 1
  /\ UNCHANGED <<live, accounts, user, member, own, hook, req, fails, uncounted, missed>>

\* importMembers counts none.
Imports(a, p) ==
  /\ add[a].pc = "idle" /\ adds < MaxAdds
  /\ add' = [add EXCEPT ![a] = [pc |-> "look", who |-> {p}, user |-> FALSE, late |-> TRUE]]
  /\ adds' = adds + 1
  /\ UNCHANGED <<live, accounts, user, member, own, hook, req, fails, uncounted, missed>>

\* ... the email's user row is looked up ...
LooksUp(a) ==
  /\ add[a].pc = "look"
  /\ add' = [add EXCEPT ![a].pc = "insert", ![a].user = user[Email(a)] # "none"]
  /\ UNCHANGED <<live, accounts, user, member, own, hook, req, bounds, uncounted, missed>>

\* ... and the row is inserted, unless the organisation has one for the email: createMember
\* fails on it, importMembers skips it.
InsertsMember(a) ==
  /\ add[a].pc = "insert"
  /\ LET p == Email(a)
         new == member[p] = "none"
     IN /\ member' = [member EXCEPT ![p] =
                        IF ~new THEN @ ELSE IF add[a].user THEN "linked" ELSE "pending"]
        /\ uncounted' = IF new /\ add[a].late THEN uncounted \cup {p} ELSE uncounted
        /\ missed' = IF new /\ ~add[a].user /\ user[p] # "none" THEN missed \cup {p} ELSE missed
        /\ add' = [b \in Adds |-> IF b = a THEN NoAdd
                                 ELSE IF new /\ add[b].pc # "idle" THEN [add[b] EXCEPT !.late = TRUE]
                                 ELSE add[b]]
  /\ UNCHANGED <<live, accounts, user, own, hook, req, bounds>>

\* deleteMember, of a member that no device token, code or exception refers to.
DeletesMember(p) ==
  /\ member[p] # "none" /\ adds < MaxAdds
  /\ member' = [member EXCEPT ![p] = "none"]
  /\ missed' = missed \ {p} /\ uncounted' = uncounted \ {p}
  /\ adds' = adds + 1
  /\ UNCHANGED <<live, accounts, user, own, hook, add, req, fails>>

-----------------------------------------------------------------------------
HookStep(p) == HookCreates(p) \/ HookChecks(p) \/ HookClaims(p)

RequestStep(r) ==
  \/ Provisions(r) \/ SeesEnrolled(r) \/ ClaimsFirst(r)
  \/ SelfServes(r) \/ LooksForPending(r) \/ ClaimsPending(r) \/ Founds(r)

MembershipNext ==
  \/ \E p \in People :
       \/ SignsUp(p) \/ DeletesAccount(p) \/ HookStep(p) \/ HookFails(p) \/ DeletesMember(p)
       \/ \E a \in Adds : Counts(a, p) \/ Imports(a, p)
       \/ \E r \in Requests : Starts(r, p)
  \/ \E r \in Requests : RequestStep(r) \/ RequestFails(r)
  \/ \E a \in Adds : LooksUp(a) \/ InsertsMember(a)

\* Events are delivered until they are acknowledged, a request that was let in is answered,
\* and people come back to the console.
MembershipFairness ==
  /\ \A p \in SignUps : /\ WF_membershipVars(HookStep(p))
                        /\ WF_membershipVars(\E r \in Pages : Starts(r, p))
  /\ \A r \in Requests : WF_membershipVars(RequestStep(r))
  /\ WF_membershipVars(\E a \in Adds : LooksUp(a) \/ InsertsMember(a))

MembershipSpec == MembershipInit /\ [][MembershipNext]_membershipVars /\ MembershipFairness

-----------------------------------------------------------------------------
(* Properties.                                                             *)

\* Nobody has more organisations of their own than pages that asked side by side: a page
\* asks again only after it was answered, and finds what the earlier call founded, an
\* earlier row of the email or an earlier membership (me/service.ts:21-33).
OneOrganisationPerPage ==
  \A p \in People : own[p] <= Cardinality(Pages)

\* The seats are counted before the insert and without a lock: every row beyond the plan
\* was imported, or added by a request in whose course another one added a row
\* (members/service.ts:72-98).
OverrunIsAccountedFor == Cardinality(Rows \ uncounted) <= MaxSeats

\* A row waits for a user that exists only when the user appeared between the add's look
\* for it and its insert, or while somebody is at work to link it
\* (members/service.ts:89-97, users/service.ts:44-48, webhooks/clerk.ts:53-72).
WaitingIsAccountedFor ==
  \A p \in People : member[p] = "pending" /\ user[p] # "none" =>
    p \in missed \/ hook[p] # "none"

\* Who has an account and comes back to the console belongs somewhere in the end, and to
\* the organisation that added the email unless the two crossed, whether the event, a device
\* or the console is first and whatever fails in between
\* (users/jit.ts:33-60, webhooks/clerk.ts:39-72, me/service.ts:21-64).
AccountsAreEnrolled ==
  \A p \in SignUps : <>[](p \in live) =>
    []<>(Enrolled(p) /\ (member[p] # "pending" \/ p \in missed))
=============================================================================
