----------------------------- MODULE Publishing -----------------------------
(***************************************************************************)
(* The policy of one organisation, from the tables its administrators edit *)
(* (the draft) over the published snapshots to what one member's client    *)
(* holds.  Publishing compiles the draft with separate queries, then reads *)
(* the highest version, then inserts the next; requests run side by side   *)
(* and nothing locks.  A member's GET /policy reads the latest snapshot    *)
(* and then what changes it for that member:                               *)
(* fail mode, team and the rules the member always allows.                 *)
(*                                                                         *)
(* A rule is its action and detects by its key; texts, destinations and    *)
(* site selectors are left out, and of the scopes global and team remain.  *)
(***************************************************************************)
EXTENDS Naturals, Sequences, FiniteSets

CONSTANTS Subjects, Rules, Keys, Jobs,
          SubjectOf,   \* [Rules -> Subjects]
          KeyOf,       \* [Rules -> Keys], detectionKey
          OfTeam,      \* subjects that apply to the team only
          Listing,     \* how the queries, which have no ORDER BY, list the rules
          FirstDraft,  \* [Rules -> actions] of the first draft
          MaxEdits,    \* bound: changes by administrators and by the member
          MaxVersion   \* bound: versions published

VARIABLES
  rule,      \* table rules: "none" no row, "off" inactive, else its action
  subject,   \* table subjects: [Subjects -> active]
  failMode,  \* tenants.failMode
  policies,  \* table policies: the snapshot of each version
  muted,     \* table member_rule_exceptions of the member
  ownMode,   \* members.failMode, "none" when the tenant's holds
  inTeam,    \* table member_teams
  job,       \* publish and rollback requests: [Jobs -> [pc, doc, next]]
  ask,       \* the member's GET /policy: [ver, doc]
  client,    \* what the member's client holds: [ver, rules, mode]
  edits,     \* changes so far
  fresh,     \* history: jobs during which the draft did not change
  lastFresh, \* history: so for the job that published the latest version, and since
  aside      \* history: the member's own tables changed since its client asked

draftVars == <<rule, subject, failMode>>
ownVars == <<muted, ownMode, inTeam>>
memberVars == <<ask, client, aside>>
vars == <<draftVars, policies, ownVars, job, memberVars, edits, fresh, lastFresh>>

Actions == {"warn", "block"}
FailModes == {"open", "closed"}

\* Rules are listed subject by subject.
Orders ==
  {o \in [1..Cardinality(Rules) -> Rules] :
     /\ \A i, j \in DOMAIN o : o[i] = o[j] => i = j
     /\ \A i, j, k \in DOMAIN o :
          i < j /\ j < k /\ SubjectOf[o[i]] = SubjectOf[o[k]] => SubjectOf[o[j]] = SubjectOf[o[i]]}

ASSUME PublishingAssumption ==
  /\ IsFiniteSet(Rules)
  /\ SubjectOf \in [Rules -> Subjects] /\ KeyOf \in [Rules -> Keys]
  /\ OfTeam \subseteq Subjects
  /\ Listing \in Orders
  /\ FirstDraft \in [Rules -> {"none", "off", "warn", "block"}]
  /\ MaxEdits \in Nat /\ MaxVersion \in Nat \ {0}

NoRules == [r \in Rules |-> "none"]
Snapshot == [subjects : SUBSET Subjects, rules : [Rules -> Actions \cup {"none"}],
             failMode : FailModes]

\* publishInitialPolicy.
Initial == [subjects |-> {}, rules |-> NoRules, failMode |-> "open"]

ActiveRules == [r \in Rules |-> IF rule[r] \in Actions THEN rule[r] ELSE "none"]
ActiveSubjects == {s \in Subjects : subject[s]}

\* compilePolicy groups the rules by subject; those of a subject not listed are dropped.
Grouped(doc) ==
  [doc EXCEPT !.rules = [r \in Rules |-> IF SubjectOf[r] \in doc.subjects
                                         THEN doc.rules[r] ELSE "none"]]

Draft == Grouped([Initial EXCEPT !.subjects = ActiveSubjects, !.rules = ActiveRules,
                                 !.failMode = failMode])
Latest == policies[Len(policies)]

Tables == {"subjects", "rules", "failMode"}
Resting == [pc |-> "idle", todo |-> {}, doc |-> Initial, next |-> 0]
NoAsk == [ver |-> 0, doc |-> Initial]

Init ==
  /\ rule = FirstDraft /\ subject = [s \in Subjects |-> TRUE] /\ failMode = "open"
  /\ policies = <<Initial>>
  /\ muted = {} /\ ownMode = "none" /\ inTeam = FALSE
  /\ job = [j \in Jobs |-> Resting]
  /\ ask = NoAsk /\ client = [ver |-> 0, rules |-> {}, mode |-> "open"]
  /\ edits = 0 /\ fresh = {} /\ lastFresh = FALSE /\ aside = FALSE

-----------------------------------------------------------------------------
(* The administrators' edits of the draft.                                 *)

Edits ==
  /\ edits < MaxEdits /\ edits' = edits + 1
  /\ fresh' = {} /\ lastFresh' = FALSE
  /\ UNCHANGED <<policies, ownVars, job, memberVars>>

\* createRule needs its subject's row; updateRule also switches a rule off and on.
EditRule(r, a) ==
  /\ rule[r] # a /\ a # "none"
  /\ rule' = [rule EXCEPT ![r] = a]
  /\ UNCHANGED <<subject, failMode>> /\ Edits

\* deleteRule fails on a rule that an exception refers to.
DeleteRule(r) ==
  /\ rule[r] # "none" /\ r \notin muted
  /\ rule' = [rule EXCEPT ![r] = "none"]
  /\ UNCHANGED <<subject, failMode>> /\ Edits

\* updateSubject switches it off and on.
EditSubject(s) ==
  /\ subject' = [subject EXCEPT ![s] = ~@]
  /\ UNCHANGED <<rule, failMode>> /\ Edits

EditFailMode ==
  /\ failMode' = IF failMode = "open" THEN "closed" ELSE "open"
  /\ UNCHANGED <<rule, subject>> /\ Edits

-----------------------------------------------------------------------------
(* POST /policy/publish and POST /policy/rollback/:version.                *)

At(j, pc) == job[j].pc = pc

StartPublish(j) ==
  /\ At(j, "idle") /\ Len(policies) < MaxVersion
  /\ job' = [job EXCEPT ![j] = [Resting EXCEPT !.pc = "compile", !.todo = Tables]]
  /\ fresh' = fresh \cup {j}
  /\ UNCHANGED <<draftVars, policies, ownVars, memberVars, edits, lastFresh>>

\* mutant: the tenant's fail mode is left at its default.
ReadsWithoutMode(j, t) ==
  /\ At(j, "compile") /\ t \in job[j].todo
  /\ LET doc == [job[j].doc EXCEPT
                   !.subjects = IF t = "subjects" THEN ActiveSubjects ELSE @,
                   !.rules = IF t = "rules" THEN ActiveRules ELSE @]
         todo == job[j].todo \ {t}
     IN job' = [job EXCEPT ![j] =
                  IF todo = {} THEN [pc |-> "number", todo |-> {}, doc |-> Grouped(doc), next |-> 0]
                  ELSE [pc |-> "compile", todo |-> todo, doc |-> doc, next |-> 0]]
  /\ UNCHANGED <<draftVars, policies, ownVars, memberVars, edits, fresh, lastFresh>>

\* One of the queries that compilePolicy runs at once has been answered; after the last
\* the snapshot is put together.
Reads(j, t) ==
  /\ At(j, "compile") /\ t \in job[j].todo
  /\ LET doc == [job[j].doc EXCEPT
                   !.subjects = IF t = "subjects" THEN ActiveSubjects ELSE @,
                   !.rules = IF t = "rules" THEN ActiveRules ELSE @,
                   !.failMode = IF t = "failMode" THEN failMode ELSE @]
         todo == job[j].todo \ {t}
     IN job' = [job EXCEPT ![j] =
                  IF todo = {} THEN [pc |-> "number", todo |-> {}, doc |-> Grouped(doc), next |-> 0]
                  ELSE [pc |-> "compile", todo |-> todo, doc |-> doc, next |-> 0]]
  /\ UNCHANGED <<draftVars, policies, ownVars, memberVars, edits, fresh, lastFresh>>

\* rollback has read the snapshot of version v.
StartRollback(j, v) ==
  /\ At(j, "idle") /\ Len(policies) < MaxVersion
  /\ job' = [job EXCEPT ![j] = [Resting EXCEPT !.pc = "number", !.doc = policies[v]]]
  /\ fresh' = fresh \ {j}
  /\ UNCHANGED <<draftVars, policies, ownVars, memberVars, edits, lastFresh>>

\* publishPolicy: the highest version so far ...
Numbers(j) ==
  /\ At(j, "number")
  /\ job' = [job EXCEPT ![j].pc = "insert", ![j].next = Len(policies) + 1]
  /\ UNCHANGED <<draftVars, policies, ownVars, memberVars, edits, fresh, lastFresh>>

Ends(j) == job' = [job EXCEPT ![j] = Resting] /\ fresh' = fresh \ {j}

\* ... and the insert, which the unique index on the version refuses when another request
\* was first.
Inserts(j) ==
  /\ At(j, "insert") /\ job[j].next = Len(policies) + 1
  /\ Len(policies) < MaxVersion
  /\ policies' = Append(policies, job[j].doc)
  /\ lastFresh' = (j \in fresh)
  /\ Ends(j)
  /\ UNCHANGED <<draftVars, ownVars, memberVars, edits>>

InsertRefused(j) ==
  /\ At(j, "insert") /\ job[j].next \in DOMAIN policies
  /\ Ends(j)
  /\ UNCHANGED <<draftVars, policies, ownVars, memberVars, edits, lastFresh>>

\* A query fails, or the server goes down with its requests.
JobFails(j) ==
  /\ ~At(j, "idle")
  /\ Ends(j)
  /\ UNCHANGED <<draftVars, policies, ownVars, memberVars, edits, lastFresh>>

-----------------------------------------------------------------------------
(* What is the member's: its exceptions, fail mode and team.               *)

OwnChange ==
  /\ aside' = TRUE
  /\ UNCHANGED <<draftVars, policies, job, ask, client, fresh, lastFresh>>

OwnEdits == edits < MaxEdits /\ edits' = edits + 1 /\ OwnChange

\* POST /policy/exceptions: a rule the client knows, with its row still there.
AddException(r) ==
  /\ r \in {e.rule : e \in client.rules} /\ rule[r] # "none" /\ r \notin muted
  /\ muted' = muted \cup {r}
  /\ UNCHANGED <<ownMode, inTeam>> /\ OwnEdits

\* DELETE /policy/exceptions; no more are removed than MaxEdits lets be added.
RemoveException(r) ==
  /\ r \in muted
  /\ muted' = muted \ {r}
  /\ UNCHANGED <<ownMode, inTeam, edits>> /\ OwnChange

\* updateMember, assignTeam, removeTeam.
SetOwnMode(mode) ==
  /\ ownMode # mode /\ ownMode' = mode
  /\ UNCHANGED <<muted, inTeam>> /\ OwnEdits

MoveTeam ==
  /\ inTeam' = ~inTeam
  /\ UNCHANGED <<muted, ownMode>> /\ OwnEdits

-----------------------------------------------------------------------------
(* resolveMemberPolicy.                                                    *)

Priority(r) == IF SubjectOf[r] \in OfTeam THEN 1 ELSE 0
Applies(r, team) == SubjectOf[r] \in OfTeam => team

\* The loop over the rules: the one kept for a key after the first n.
\* mutant: a later rule of the same scope replaces the one kept.
KeptLast(order, doc, team, key) ==
  LET kept[n \in 0..Cardinality(Rules)] ==
        IF n = 0 THEN {} ELSE
        LET r == order[n]
            was == kept[n - 1]
        IN IF /\ doc.rules[r] \in Actions /\ KeyOf[r] = key /\ Applies(r, team)
              /\ \A k \in was : Priority(r) >= Priority(k)
           THEN {r} ELSE was
  IN kept[Cardinality(Rules)]

Kept(order, doc, team, key) ==
  LET kept[n \in 0..Cardinality(Rules)] ==
        IF n = 0 THEN {} ELSE
        LET r == order[n]
            was == kept[n - 1]
        IN IF /\ doc.rules[r] \in Actions /\ KeyOf[r] = key /\ Applies(r, team)
              /\ \A k \in was : \/ Priority(r) > Priority(k)
                                \/ Priority(r) = Priority(k) /\ doc.rules[r] = "block"
           THEN {r} ELSE was
  IN kept[Cardinality(Rules)]

\* Exceptions are taken out of what the loop has kept.
Resolved(doc, team, mutes) ==
  {[rule |-> r, action |-> doc.rules[r]] :
     r \in UNION {Kept(Listing, doc, team, key) : key \in Keys} \ mutes}

OwnMode(doc) == IF ownMode = "none" THEN doc.failMode ELSE ownMode

\* mutant: the client asks only for a version it does not hold.
AsksIfNew ==
  /\ ask = NoAsk /\ client.ver # Len(policies)
  /\ ask' = [ver |-> Len(policies), doc |-> Latest]
  /\ aside' = FALSE
  /\ UNCHANGED <<draftVars, policies, ownVars, job, client, edits, fresh, lastFresh>>

\* GET /policy has read the latest snapshot.
MemberAsks ==
  /\ ask = NoAsk
  /\ ask' = [ver |-> Len(policies), doc |-> Latest]
  /\ aside' = FALSE
  /\ UNCHANGED <<draftVars, policies, ownVars, job, client, edits, fresh, lastFresh>>

\* mutant: the answer carries the newest version there is by then.
AnswersNewest ==
  /\ ask # NoAsk
  /\ client' = [ver |-> Len(policies), rules |-> Resolved(ask.doc, inTeam, muted),
                mode |-> OwnMode(ask.doc)]
  /\ ask' = NoAsk
  /\ UNCHANGED <<draftVars, policies, ownVars, job, aside, edits, fresh, lastFresh>>

\* The member's row, teams and exceptions are read and the answer replaces what the client
\* holds.  They are three queries; what changes between them sets aside.
MemberGets ==
  /\ ask # NoAsk
  /\ client' = [ver |-> ask.ver, rules |-> Resolved(ask.doc, inTeam, muted),
                mode |-> OwnMode(ask.doc)]
  /\ ask' = NoAsk
  /\ UNCHANGED <<draftVars, policies, ownVars, job, aside, edits, fresh, lastFresh>>

JobStep(j) ==
  \/ StartPublish(j) \/ Numbers(j) \/ Inserts(j) \/ InsertRefused(j) \/ JobFails(j)
  \/ \E t \in Tables : Reads(j, t)
  \/ \E v \in DOMAIN policies : StartRollback(j, v)

Next ==
  \/ \E r \in Rules : \/ \E a \in {"off"} \cup Actions : EditRule(r, a)
                      \/ DeleteRule(r) \/ AddException(r) \/ RemoveException(r)
  \/ \E s \in Subjects : EditSubject(s)
  \/ EditFailMode \/ MoveTeam
  \/ \E mode \in {"none"} \cup FailModes : SetOwnMode(mode)
  \/ \E j \in Jobs : JobStep(j)
  \/ MemberAsks \/ MemberGets

\* Clients poll, and a request that was let in is answered.
Fairness ==
  WF_vars(MemberAsks) /\ WF_vars(MemberGets)

Spec == Init /\ [][Next]_vars /\ Fairness

-----------------------------------------------------------------------------
(* GET /policy/draft: what diffPolicy lists.  Rules of a subject that was  *)
(* added or removed are covered by its line.                               *)

\* mutant: a rule that is gone is not compared.
ChangesOfKept(prev, next) ==
  {<<"subject", s>> : s \in (prev.subjects \cup next.subjects)
                            \ (prev.subjects \cap next.subjects)}
  \cup {<<"rule", r>> : r \in {q \in Rules : /\ SubjectOf[q] \in prev.subjects \cap next.subjects
                                             /\ next.rules[q] # "none"
                                             /\ prev.rules[q] # next.rules[q]}}
  \cup (IF prev.failMode = next.failMode THEN {} ELSE {<<"failMode">>})

Changes(prev, next) ==
  {<<"subject", s>> : s \in (prev.subjects \cup next.subjects)
                            \ (prev.subjects \cap next.subjects)}
  \cup {<<"rule", r>> : r \in {q \in Rules : /\ SubjectOf[q] \in prev.subjects \cap next.subjects
                                             /\ prev.rules[q] # next.rules[q]}}
  \cup (IF prev.failMode = next.failMode THEN {} ELSE {<<"failMode">>})

-----------------------------------------------------------------------------
(* Properties.                                                             *)

\* A publish during which nobody edited puts the draft in force, although its tables are
\* read one by one and other publishes and rollbacks run beside it; and as long as nobody
\* edits or publishes again the console lists no change (router.ts:93-113).
FreshPublishIsDraft == lastFresh => Changes(Latest, Draft) = {}

\* When the console lists no change, publishing would change no member's rules
\* (diff.ts:3-8).
NoChangeNoEffect ==
  Changes(Latest, Draft) = {} => Latest.rules = Draft.rules /\ Latest.failMode = Draft.failMode

\* Of the rules that detect the same thing the member gets one of the narrowest scope, and
\* one that blocks if any of that scope does, in whatever order they are listed
\* (resolver.ts:91-109).
StrictestOfScope ==
  \A order \in Orders, team \in BOOLEAN, key \in Keys :
    LET apt == {r \in Rules : Latest.rules[r] \in Actions /\ KeyOf[r] = key /\ Applies(r, team)}
        top == {r \in apt : \A q \in apt : Priority(q) <= Priority(r)}
    IN \/ apt = {} /\ Kept(order, Latest, team, key) = {}
       \/ \E r \in top : /\ Kept(order, Latest, team, key) = {r}
                         /\ (\E q \in top : Latest.rules[q] = "block") => Latest.rules[r] = "block"

\* A client that holds the latest version holds the latest policy as it is resolved for
\* its member, unless the member's own tables have changed since it asked
\* (router.ts:25-47).
ClientHasItsPolicy ==
  ask = NoAsk /\ client.ver = Len(policies) /\ ~aside =>
    /\ client.rules = Resolved(Latest, inTeam, muted)
    /\ client.mode = OwnMode(Latest)

\* Once nobody changes anything a client that keeps asking for the policy gets the latest
\* version and what the member's exceptions, fail mode and team make of it, which none of
\* them gives a new version (service.ts:25-31).
ClientConverges ==
  <>[](/\ client.ver = Len(policies)
       /\ client.rules = Resolved(Latest, inTeam, muted)
       /\ client.mode = OwnMode(Latest))
=============================================================================
