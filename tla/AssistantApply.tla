--------------------------- MODULE AssistantApply ---------------------------
(***************************************************************************)
(* The assistant's proposals.  A chat reads the subjects and rules and     *)
(* stores a message with actions; an administrator applies it: a version   *)
(* of each subject it affects is stored, the actions run one by one, the   *)
(* message is marked.  A revert puts back every version stored for the     *)
(* message.  Every query is a step of its own; only the restoring of one   *)
(* subject is a transaction.                                               *)
(*                                                                         *)
(* A subject is its row's text, its scope (division and team, which a      *)
(* version holds and a revert does not read) and its rules.  A text stands *)
(* for the columns of a row or a rule and is named for who wrote it.       *)
(* Actions on divisions, teams and members have no part in versions and    *)
(* are left out, as is the daily limit of prompts.                         *)
(***************************************************************************)
EXTENDS Naturals, Sequences, FiniteSets

CONSTANTS Subjects,    \* ids of subjects
          First,       \* the rules at first: a sequence of their subjects
          Messages,    \* of the assistant
          Applies,     \* requests to apply a message
          Reverts,     \* requests to revert one
          Proposals,   \* bound: the operations of a message in order, a set of sequences
          MaxEdits,    \* bound: edits by administrators
          MaxFails     \* bound: requests and actions that fail

OnSubjects == {"create_rule", "update_subject", "move_subject", "delete_subject"}
OnRules == {"update_rule", "switch_rule", "delete_rule"}

Nobody == "nobody"   \* no message

ASSUME AssistantAssumption ==
  /\ IsFiniteSet(Subjects) /\ First \in Seq(Subjects) /\ Nobody \notin Messages
  /\ Applies \cap Reverts = {}
  /\ Proposals \subseteq Seq(OnSubjects \cup OnRules)
  /\ MaxEdits \in Nat /\ MaxFails \in Nat

VARIABLES
  subject,   \* [Subjects -> [live: it exists, row: its text, scope, rules]]
  ids,       \* ids of rules given so far
  versions,  \* table subject_versions; clean: before the message changed the subject
  msg,       \* table chat_messages; seen: what the chat that is under way has read
  req,       \* [Requests -> [pc, msg, next: action, todo: versions to put back]]
  snap,      \* [Requests -> [Subjects -> snapshotSubject, at work for the request]]
  edits, fails, \* so far
  changed,   \* history: [Messages -> subjects that its actions changed]
  before,    \* history: [Messages -> [Subjects -> what they were before the first change]]
  crossed    \* history: <<m, s>> where s was written between m's snapshot and first change

tables == <<subject, ids, versions>>
bounds == <<edits, fails>>
history == <<changed, before, crossed>>
assistantVars == <<tables, msg, req, snap, bounds, history>>

Requests == Applies \cup Reverts
NoTask == [pc |-> "none", msg |-> Nobody, row |-> "old", rules |-> {}, version |-> 0,
           clean |-> FALSE]
Task(m) == [NoTask EXCEPT !.pc = "row", !.msg = m]
NoRequest == [pc |-> "idle", msg |-> Nobody, next |-> 1, todo |-> {}]
Live == {s \in Subjects : subject[s].live}

\* What of a subject a revert is about: its row, and how many active rules of each text.
Content(x) ==
  [row |-> x.row,
   rules |-> [t \in {r.text : r \in {q \in x.rules : q.active}} |->
                Cardinality({r \in x.rules : r.active /\ r.text = t})]]

AssistantInit ==
  /\ subject = [s \in Subjects |->
       [live |-> TRUE, row |-> "old", scope |-> "old",
        rules |-> {[id |-> i, text |-> "old", active |-> TRUE] :
                     i \in {j \in DOMAIN First : First[j] = s}}]]
  /\ ids = Len(First) /\ versions = {}
  /\ msg = [m \in Messages |-> [is |-> "none", seen |-> {}, actions |-> <<>>, applied |-> FALSE]]
  /\ req = [q \in Requests |-> NoRequest]
  /\ snap = [q \in Requests |-> [s \in Subjects |-> NoTask]]
  /\ edits = 0 /\ fails = 0
  /\ changed = [m \in Messages |-> {}]
  /\ before = [m \in Messages |-> [s \in Subjects |-> {}]]
  /\ crossed = {}

-----------------------------------------------------------------------------
(* Actions, and what they do to the tables.                                *)

RulesOf(S) == UNION {subject[s].rules : s \in S}

Ops == [op : OnSubjects, on : Live] \cup [op : OnRules, on : {r.id : r \in RulesOf(Live)}]

\* The subjects whose rows or rules an action is for: those it names, or whose rule it names.
On(a) ==
  IF a.op \in OnSubjects THEN {a.on} \cap Live
  ELSE {s \in Live : \E r \in subject[s].rules : r.id = a.on}

\* Foreign keys: a rule needs its subject, a subject with rules stays.
Refused(a) ==
  \/ a.op = "create_rule" /\ On(a) = {}
  \/ a.op = "delete_subject" /\ RulesOf(On(a)) # {}

\* What one query leaves of a subject; who: the text it writes.
Written(a, x, who) ==
  CASE a.op = "create_rule" ->
         [x EXCEPT !.rules = @ \cup {[id |-> ids + 1, text |-> who, active |-> TRUE]}]
    [] a.op = "update_rule" ->
         [x EXCEPT !.rules = {IF r.id = a.on THEN [r EXCEPT !.text = who] ELSE r : r \in @}]
    [] a.op = "switch_rule" ->
         [x EXCEPT !.rules = {IF r.id = a.on THEN [r EXCEPT !.active = ~@] ELSE r : r \in @}]
    [] a.op = "delete_rule" -> [x EXCEPT !.rules = {r \in @ : r.id # a.on}]
    [] a.op = "update_subject" -> [x EXCEPT !.row = who]
    [] a.op = "move_subject" -> [x EXCEPT !.scope = who]
    [] a.op = "delete_subject" -> [x EXCEPT !.live = FALSE]

\* A query of the services of rules and subjects.  The versions of a subject go with it.
Does(a, who) ==
  /\ subject' = [s \in Subjects |-> IF s \in On(a) THEN Written(a, subject[s], who) ELSE subject[s]]
  /\ ids' = IF a.op = "create_rule" THEN ids + 1 ELSE ids
  /\ versions' = IF a.op = "delete_subject" THEN {v \in versions : v.subject \notin On(a)}
                 ELSE versions

\* History: m has a version of s, or is making one, and has not changed s yet; a write of
\* another to a subject in S crosses that.
Waits(m, s) ==
  /\ s \notin changed[m]
  /\ \/ \E v \in versions : v.msg = m /\ v.subject = s
     \/ \E q \in Applies : snap[q][s].msg = m
Crosses(S, who) ==
  crossed' = crossed \cup {p \in (Messages \ {who}) \X S : Waits(p[1], p[2])}

-----------------------------------------------------------------------------
(* Chats, and the administrators' own edits.                               *)

\* sendMessage: what there is goes into the prompt ...
Asks(m) ==
  /\ msg[m].is = "none"
  /\ msg' = [msg EXCEPT ![m].is = "asked", ![m].seen =
               {o \in Ops : \A r \in RulesOf(On(o)) : r.id = o.on => r.active}]
  /\ UNCHANGED <<tables, req, snap, bounds, history>>

\* ... and the answer is stored.
Answers(m) ==
  /\ msg[m].is = "asked"
  /\ \E ops \in Proposals : \E actions \in [DOMAIN ops -> msg[m].seen] :
       /\ \A i \in DOMAIN ops : actions[i].op = ops[i]
       /\ msg' = [msg EXCEPT ![m] = [@ EXCEPT !.is = "stored", !.seen = {}, !.actions = actions]]
  /\ UNCHANGED <<tables, req, snap, bounds, history>>

Edits(a) ==
  /\ edits < MaxEdits /\ edits' = edits + 1
  /\ ~Refused(a) /\ Does(a, "edit") /\ Crosses(On(a), Nobody)
  /\ UNCHANGED <<msg, req, snap, fails, changed, before>>

-----------------------------------------------------------------------------
(* snapshotSubject, of request q and subject s: of the message, or of a    *)
(* rollback.                                                               *)

Ends(q) == req' = [req EXCEPT ![q] = [NoRequest EXCEPT !.pc = "ended"]]

Snap(q, s, from, to) ==
  /\ snap[q][s].pc = from
  /\ snap' = [snap EXCEPT ![q][s] = IF to = "none" THEN NoTask ELSE [@ EXCEPT !.pc = to]]

ReadsRow(q, s) ==
  /\ snap[q][s].pc = "row"
  /\ snap' = [snap EXCEPT ![q][s] = IF s \in Live
                                    THEN [@ EXCEPT !.pc = "rules", !.row = subject[s].row]
                                    ELSE NoTask]
  /\ UNCHANGED <<tables, msg, req, bounds, history>>

\* listRules: the active ones.
ReadsRules(q, s) ==
  /\ snap[q][s].pc = "rules"
  /\ snap' = [snap EXCEPT ![q][s] = [@ EXCEPT !.pc = "version",
       !.rules = {r \in subject[s].rules : r.active},
       !.clean = snap[q][s].msg # Nobody /\ s \notin changed[snap[q][s].msg]]]
  /\ UNCHANGED <<tables, msg, req, bounds, history>>

Of(s) == {v \in versions : v.subject = s}

ReadsVersion(q, s) ==
  /\ snap[q][s].pc = "version"
  /\ snap' = [snap EXCEPT ![q][s] = [@ EXCEPT !.pc = "insert", !.version = Cardinality(Of(s)) + 1]]
  /\ UNCHANGED <<tables, msg, req, bounds, history>>

Version(q, s) ==
  [subject |-> s, version |-> snap[q][s].version, row |-> snap[q][s].row,
   rules |-> snap[q][s].rules, msg |-> snap[q][s].msg,
   clean |-> snap[q][s].clean]

Inserts(q, s) ==
  /\ s \in Live /\ \A v \in Of(s) : v.version # snap[q][s].version
  /\ Snap(q, s, "insert", "none")
  /\ versions' = versions \cup {Version(q, s)}
  /\ UNCHANGED <<subject, ids, msg, req, bounds, history>>

\* Another has inserted the number, or the subject is gone: the request fails; its other
\* snapshots go on.
Collides(q, s) ==
  /\ ~(s \in Live /\ \A v \in Of(s) : v.version # snap[q][s].version)
  /\ Snap(q, s, "insert", "none")
  /\ Ends(q)
  /\ UNCHANGED <<tables, msg, bounds, history>>

SnapStep(q, s) ==
  \/ ReadsRow(q, s) \/ ReadsRules(q, s) \/ ReadsVersion(q, s) \/ Inserts(q, s) \/ Collides(q, s)

-----------------------------------------------------------------------------
(* POST /assistant/apply.                                                  *)

Actions(q) == msg[req[q].msg].actions
Stored(q) == \A s \in Subjects : snap[q][s].pc = "none"

StartsApply(q, m) ==
  /\ req[q].pc = "idle" /\ msg[m].is = "stored" /\ ~msg[m].applied
  /\ req' = [req EXCEPT ![q].pc = "resolve", ![q].msg = m]
  /\ UNCHANGED <<tables, msg, snap, bounds, history>>

\* mutant: rules are not looked up.
ResolvesNamed(q) ==
  /\ req[q].pc = "resolve"
  /\ LET affected == {Actions(q)[i].on : i \in DOMAIN Actions(q)}
     IN snap' = [snap EXCEPT ![q] = [s \in Subjects |->
                   IF s \in affected THEN Task(req[q].msg) ELSE NoTask]]
  /\ req' = [req EXCEPT ![q].pc = "snap"]
  /\ UNCHANGED <<tables, msg, bounds, history>>

\* resolveAffectedSubjectIds: named, or with a rule that is.
Resolves(q) ==
  /\ req[q].pc = "resolve"
  /\ LET affected == UNION {On(Actions(q)[i]) : i \in DOMAIN Actions(q)}
     IN snap' = [snap EXCEPT ![q] = [s \in Subjects |->
                   IF s \in affected THEN Task(req[q].msg) ELSE NoTask]]
  /\ req' = [req EXCEPT ![q].pc = "snap"]
  /\ UNCHANGED <<tables, msg, bounds, history>>

\* executeActions, the next one: an error is noted and the rest runs.
Executes(q) ==
  /\ req[q].pc = "snap" /\ Stored(q) /\ req[q].next \in DOMAIN Actions(q)
  /\ LET m == req[q].msg
         a == Actions(q)[req[q].next]
         on == On(a)
     IN \/ Refused(a) /\ UNCHANGED <<tables, changed, before, crossed, fails>>
        \/ /\ ~Refused(a) /\ Does(a, m) /\ Crosses(on, m)
           /\ changed' = [changed EXCEPT ![m] = @ \cup on]
           /\ before' = [before EXCEPT ![m] = [s \in Subjects |->
                           IF s \in on \ changed[m] THEN Content(subject[s]) ELSE @[s]]]
           /\ UNCHANGED fails
        \/ /\ fails < MaxFails /\ fails' = fails + 1
           /\ UNCHANGED <<tables, changed, before, crossed>>
  /\ req' = [req EXCEPT ![q].next = @ + 1]
  /\ UNCHANGED <<msg, snap, edits>>

Marks(q) ==
  /\ req[q].pc = "snap" /\ Stored(q) /\ req[q].next = Len(Actions(q)) + 1
  /\ msg' = [msg EXCEPT ![req[q].msg].applied = TRUE]
  /\ Ends(q)
  /\ UNCHANGED <<tables, snap, bounds, history>>

-----------------------------------------------------------------------------
(* POST /assistant/messages/:messageId/revert.                             *)

StartsRevert(q, m) ==
  /\ req[q].pc = "idle"
  /\ LET todo == {v \in versions : v.msg = m}
     IN /\ todo # {}
        /\ req' = [req EXCEPT ![q] = [@ EXCEPT !.pc = "restore", !.msg = m, !.todo = todo]]
  /\ UNCHANGED <<tables, msg, snap, bounds, history>>

\* The version's rules, with new ids.
Fresh(rules) == {[r EXCEPT !.id = ids + Cardinality({q \in rules : q.id <= r.id})] : r \in rules}

\* mutant: the rules are not deleted first.
RestoresMore(q, v) ==
  /\ req[q].pc = "restore" /\ Stored(q) /\ v \in req[q].todo
  /\ v.subject \in Live \/ v.rules = {}
  /\ subject' = [subject EXCEPT ![v.subject] =
       IF @.live THEN [@ EXCEPT !.row = v.row, !.rules = @ \cup Fresh(v.rules)] ELSE @]
  /\ ids' = ids + Cardinality(v.rules)
  /\ Crosses({v.subject}, Nobody)
  /\ req' = [req EXCEPT ![q].todo = @ \ {v}]
  /\ snap' = [snap EXCEPT ![q][v.subject] = Task(Nobody)]
  /\ UNCHANGED <<versions, msg, bounds, changed, before>>

\* revertSubjectToSnapshot, in a transaction, of a version that is left, in no set order;
\* then a snapshot of the rollback.
Restores(q, v) ==
  /\ req[q].pc = "restore" /\ Stored(q) /\ v \in req[q].todo
  /\ v.subject \in Live \/ v.rules = {}
  /\ subject' = [subject EXCEPT ![v.subject] =
       IF @.live THEN [@ EXCEPT !.row = v.row, !.rules = Fresh(v.rules)] ELSE @]
  /\ ids' = ids + Cardinality(v.rules)
  /\ Crosses({v.subject}, Nobody)
  /\ req' = [req EXCEPT ![q].todo = @ \ {v}]
  /\ snap' = [snap EXCEPT ![q][v.subject] = Task(Nobody)]
  /\ UNCHANGED <<versions, msg, bounds, changed, before>>

\* The rules of a subject that is gone cannot be put back.
CannotRestore(q, v) ==
  /\ req[q].pc = "restore" /\ Stored(q) /\ v \in req[q].todo
  /\ v.subject \notin Live /\ v.rules # {}
  /\ Ends(q)
  /\ UNCHANGED <<tables, msg, snap, bounds, history>>

\* A query fails, or the backend goes down, between any two steps.
RequestFails(q) ==
  /\ req[q].pc \in {"resolve", "snap", "restore"} /\ fails < MaxFails
  /\ Ends(q) /\ snap' = [snap EXCEPT ![q] = [s \in Subjects |-> NoTask]]
  /\ fails' = fails + 1
  /\ UNCHANGED <<tables, msg, edits, history>>

-----------------------------------------------------------------------------
AssistantNext ==
  \/ \E m \in Messages :
       \/ Asks(m) \/ Answers(m)
       \/ \E q \in Applies : StartsApply(q, m)
       \/ \E q \in Reverts : StartsRevert(q, m)
  \/ \E a \in Ops : Edits(a)
  \/ \E q \in Requests : RequestFails(q) \/ \E s \in Subjects : SnapStep(q, s)
  \/ \E q \in Applies : Resolves(q) \/ Executes(q) \/ Marks(q)
  \/ \E q \in Reverts : \E v \in req[q].todo : Restores(q, v) \/ CannotRestore(q, v)

AssistantSpec == AssistantInit /\ [][AssistantNext]_assistantVars

-----------------------------------------------------------------------------
(* Properties.                                                             *)

\* What a message changed can be put back: of every subject that it changed a version is
\* stored for it, and the first of them shows the subject before any of its changes,
\* whichever requests applied it and wherever they failed (assistant/router.ts:92-103).
RevertibleToBefore ==
  \A m \in Messages : \A s \in changed[m] \cap Live :
    \E v \in Of(s) : /\ v.msg = m /\ v.clean
                     /\ \A w \in Of(s) : w.msg = m => v.version <= w.version

\* Where one version of a subject was stored for a message, and nobody else wrote the subject
\* while that version was made and until the message did, a revert gives the subject the row
\* and the active rules of before the message, whatever was written since, by whichever requests
\* (subjects/service.ts:38-66, subjects/snapshot.ts:17-61).
RevertRestores ==
  [][\A q \in Reverts : \A v \in req[q].todo : Restores(q, v) =>
       LET m == v.msg  s == v.subject
       IN {w \in Of(s) : w.msg = m} = {v} /\ s \in changed[m] /\ <<m, s>> \notin crossed =>
            Content(subject'[s]) = before[m][s]]_assistantVars
=============================================================================
