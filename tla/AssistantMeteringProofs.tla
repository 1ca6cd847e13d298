---------------------- MODULE AssistantMeteringProofs -----------------------
(***************************************************************************)
(* Proofs about two parts of the backend: AssistantApply, for any number   *)
(* of subjects, rules, messages, edits and requests, and Metering, for any *)
(* number of prompts, deliveries and requests and any limit, grace period  *)
(* and life of a cache entry.                                              *)
(*                                                                         *)
(* The arguments.  A subject's versions are numbered without a gap, so a   *)
(* version that shows a message's own change has one below it that does    *)
(* not (VersionsInOrder), and an action runs only when each subject that   *)
(* it is for has a version or the request has one in hand (SnapsFirst).    *)
(* Until a message changes a subject, what is stored of it for the message *)
(* is the subject, unless another write crosses; so it is what the subject *)
(* was before the change (RestoreInv), and a revert gives back as many     *)
(* rules of each text because new ids keep them apart (FreshIsOneToOne).   *)
(* Who passed a check of the meter and has not inserted yet holds a place  *)
(* that is counted beside the rows (PlacesAreKept); a copy of the tenant's *)
(* row that still entitles was read when the row itself entitled, and is   *)
(* not older than a cache entry may be (CopiesAreRecent).                  *)
(***************************************************************************)
EXTENDS AssistantApply, Metering, FiniteSetTheorems, FunctionTheorems, WellFoundedInduction,
        TLAPS

-----------------------------------------------------------------------------
(* The assistant: what holds throughout.                                   *)

Texts == {"old", "edit"} \cup Messages
RuleRows == [id : Nat, text : Texts, active : BOOLEAN]
RuleSets == {R \in SUBSET RuleRows : IsFiniteSet(R)}
SubjectRows == [live : BOOLEAN, row : Texts, scope : Texts, rules : RuleSets]
ForMessage == Messages \cup {Nobody}
VersionRows == [subject : Subjects, version : Nat, row : Texts, rules : RuleSets,
                msg : ForMessage, clean : BOOLEAN]
Tasks == [pc : {"none", "row", "rules", "version", "insert"}, msg : ForMessage, row : Texts,
          rules : RuleSets, version : Nat, clean : BOOLEAN]
AllOps == [op : OnSubjects, on : Subjects] \cup [op : OnRules, on : Nat]
Chats == [is : {"none", "asked", "stored"}, seen : SUBSET AllOps, actions : Seq(AllOps),
          applied : BOOLEAN]
RequestRows == [pc : {"idle", "resolve", "snap", "restore", "ended"}, msg : ForMessage,
                next : Nat, todo : SUBSET VersionRows]

TableTypes ==
  /\ subject \in [Subjects -> SubjectRows]
  /\ ids \in Nat
  /\ versions \in SUBSET VersionRows /\ IsFiniteSet(versions)

WorkTypes ==
  /\ msg \in [Messages -> Chats]
  /\ req \in [Requests -> RequestRows]
  /\ snap \in [Requests -> [Subjects -> Tasks]]
  /\ changed \in [Messages -> SUBSET Subjects]

ShownClean(m, s) == \E v \in Of(s) : v.msg = m /\ v.clean
CleanBelow(m, s, n) == \E v \in Of(s) : v.msg = m /\ v.clean /\ v.version < n

\* An id was given before a rule or an action has it.
RulesGiven == \A s \in Subjects : \A r \in subject[s].rules : r.id <= ids
Given(a) == a.op \in OnRules => a.on <= ids
ActionsGiven ==
  \A m \in Messages : /\ \A a \in msg[m].seen : Given(a)
                      /\ \A i \in DOMAIN msg[m].actions : Given(msg[m].actions[i])

\* A subject that is there has its versions numbered without a gap; a version that may show a
\* message's own changes comes after one that does not.
InOrder(v) ==
  /\ v.subject \in Live
  /\ v.version \in 1..Cardinality(Of(v.subject))
  /\ v.msg \in Messages /\ ~v.clean => CleanBelow(v.msg, v.subject, v.version)
VersionsInOrder == \A v \in versions : InOrder(v)

\* The same of a version that is being made.
WillBeInOrder(t, s) ==
  /\ t.pc = "insert" => t.version \in 1..(Cardinality(Of(s)) + 1)
  /\ t.msg \in Messages /\ ~t.clean =>
       /\ t.pc = "version" => s \in changed[t.msg]
       /\ t.pc = "insert" => CleanBelow(t.msg, s, t.version)
TasksInOrder == \A q \in Requests : \A s \in Live : WillBeInOrder(snap[q][s], s)

\* What a message changed was stored before.
ChangedIsShown == \A m \in Messages : \A s \in changed[m] \cap Live : ShownClean(m, s)

\* An apply that has looked its subjects up has stored, or is storing, each of them.
Storing(q, s) == snap[q][s].pc # "none" /\ snap[q][s].msg = req[q].msg
SnapsFirst(q) ==
  /\ req[q].pc \in {"resolve", "snap"} => req[q].msg \in Messages /\ msg[req[q].msg].is = "stored"
  /\ req[q].pc = "snap" =>
       \A i \in DOMAIN Actions(q) : \A s \in On(Actions(q)[i]) :
         ShownClean(req[q].msg, s) \/ Storing(q, s)

TablesInv == TableTypes /\ RulesGiven /\ VersionsInOrder
AssistantInv ==
  /\ TablesInv /\ WorkTypes /\ ActionsGiven /\ TasksInOrder /\ ChangedIsShown
  /\ \A q \in Requests : SnapsFirst(q)

-----------------------------------------------------------------------------
(* What versions show, for RevertRestores.                                 *)

\* While a message has not changed a subject and nobody crosses, what is stored of the subject
\* is the subject; afterwards, what was stored clean is the subject of before.
Shows(u, m, s) ==
  /\ s \notin changed[m] => u.rules = {r \in subject[s].rules : r.active}
  /\ s \in changed[m] /\ u.clean => Content(u) = before[m][s]
ShowsRow(u, m, s) == s \notin changed[m] => u.row = subject[s].row
TaskShows(t, m, s) ==
  /\ t.pc \in {"rules", "version", "insert"} => ShowsRow(t, m, s)
  /\ t.pc \in {"version", "insert"} => Shows(t, m, s)
ShownOf(m, s) ==
  /\ \A v \in Of(s) : v.msg = m => ShowsRow(v, m, s) /\ Shows(v, m, s)
  /\ \A q \in Requests : snap[q][s].msg = m => TaskShows(snap[q][s], m, s)

\* Only applies store versions for messages, and only those are put back.
ForMessages ==
  /\ \A q \in Requests : \A s \in Subjects : snap[q][s].msg \in Messages => q \in Applies
  /\ \A q \in Requests : \A v \in req[q].todo : v.msg \in Messages

RestoreInv ==
  /\ ForMessages /\ DOMAIN before = Messages
  /\ \A m \in Messages : \A s \in Live : <<m, s>> \notin crossed => ShownOf(m, s)
LEMMA LeastElement ==
  ASSUME NEW T, T \subseteq Nat, T # {}
  PROVE  \E n \in T : \A m \in T : n <= m
<1>1. PICK n \in T : \A m \in T : ~(<<m, n>> \in OpToRel(<, Nat))
  BY NatLessThanWellFounded, WFMin
<1>2. ASSUME NEW m \in T PROVE n <= m
  <2>1. CASE m < n
    <3>1. <<m, n>> \in Nat \X Nat /\ <<m, n>>[1] < <<m, n>>[2]
      BY <2>1
    <3>2. <<m, n>> \in OpToRel(<, Nat)
      BY <3>1 DEF OpToRel
    <3> QED
      BY <1>1, <3>2
  <2> QED
    BY <2>1
<1> QED
  BY <1>1, <1>2

-----------------------------------------------------------------------------
(* Writing a subject.                                                      *)

LEMMA RuleSetsMake ==
  /\ {} \in RuleSets
  /\ \A R \in RuleSets : \A S \in SUBSET R : S \in RuleSets
  /\ \A R \in RuleSets : \A r \in RuleRows : R \cup {r} \in RuleSets
<1>1. {} \in RuleSets
  BY FS_EmptySet DEF RuleSets
<1>2. ASSUME NEW R \in RuleSets, NEW S \in SUBSET R PROVE S \in RuleSets
  BY <1>2, FS_Subset DEF RuleSets
<1>3. ASSUME NEW R \in RuleSets, NEW r \in RuleRows PROVE R \cup {r} \in RuleSets
  BY <1>3, FS_AddElement DEF RuleSets
<1> QED
  BY <1>1, <1>2, <1>3

LEMMA RuleSetsImage ==
  ASSUME NEW R \in RuleSets, NEW f \in [R -> RuleRows]
  PROVE  {f[r] : r \in R} \in RuleSets
<1>1. IsFiniteSet(R)
  BY DEF RuleSets
<1> DEFINE T == {f[r] : r \in R}
<1>2. f \in Surjection(R, T)
  BY DEF Surjection
<1>3. IsFiniteSet(T)
  <2> HIDE DEF T
  <2> QED
    BY <1>1, <1>2, FS_Surjection
<1> QED
  BY <1>3 DEF RuleSets

\* The rules after a write have the ids of before, but for one that is created.
IdsOf(R) == {r.id : r \in R}

LEMMA SubjectFields ==
  ASSUME NEW x \in SubjectRows
  PROVE  /\ x.live \in BOOLEAN /\ x.row \in Texts /\ x.scope \in Texts /\ x.rules \in RuleSets
         /\ \A r \in x.rules : r \in RuleRows /\ r.id \in Nat
BY DEF SubjectRows, RuleSets, RuleRows

LEMMA WithRules ==
  ASSUME NEW x \in SubjectRows, NEW R \in RuleSets
  PROVE  /\ [x EXCEPT !.rules = R] \in SubjectRows
         /\ [x EXCEPT !.rules = R].rules = R /\ [x EXCEPT !.rules = R].live = x.live
BY DEF SubjectRows

LEMMA WrittenSubject ==
  ASSUME NEW a, a.op \in OnSubjects \cup OnRules, NEW x \in SubjectRows, NEW who \in Texts,
         ids \in Nat
  PROVE  /\ Written(a, x, who) \in SubjectRows
         /\ Written(a, x, who).live = (x.live /\ a.op # "delete_subject")
         /\ IdsOf(Written(a, x, who).rules) \subseteq
              IdsOf(x.rules) \cup (IF a.op = "create_rule" THEN {ids + 1} ELSE {})
<1>x. /\ x.live \in BOOLEAN /\ x.row \in Texts /\ x.scope \in Texts /\ x.rules \in RuleSets
      /\ \A r \in x.rules : r \in RuleRows /\ r.id \in Nat
  BY SubjectFields
<1>1. CASE a.op = "create_rule"
  <2> DEFINE n == [id |-> ids + 1, text |-> who, active |-> TRUE]
             R == x.rules \cup {n}
  <2>1. n \in RuleRows /\ n.id = ids + 1
    BY DEF RuleRows
  <2>2. R \in RuleSets
    BY <1>x, <2>1, RuleSetsMake
  <2>3. IdsOf(R) = IdsOf(x.rules) \cup {ids + 1}
    BY <2>1 DEF IdsOf
  <2>4. Written(a, x, who) = [x EXCEPT !.rules = R]
    BY <1>1 DEF Written
  <2> HIDE DEF R
  <2> QED
    BY <1>1, <1>x, <2>2, <2>3, <2>4, WithRules
<1>2. CASE a.op = "update_rule"
  <2> DEFINE f == [r \in x.rules |-> IF r.id = a.on THEN [r EXCEPT !.text = who] ELSE r]
             R == {f[r] : r \in x.rules}
  <2>1. \A r \in x.rules : f[r] \in RuleRows /\ f[r].id = r.id
    BY <1>x DEF RuleRows
  <2>2. f \in [x.rules -> RuleRows]
    BY <2>1
  <2>4. Written(a, x, who) = [x EXCEPT !.rules = R]
    <3>1. R = {IF r.id = a.on THEN [r EXCEPT !.text = who] ELSE r : r \in x.rules}
      OBVIOUS
    <3> QED
      BY <1>2, <3>1 DEF Written
  <2> HIDE DEF f
  <2>3. R \in RuleSets /\ IdsOf(R) = IdsOf(x.rules)
    BY <1>x, <2>1, <2>2, RuleSetsImage DEF IdsOf
  <2> HIDE DEF R
  <2> QED
    BY <1>2, <1>x, <2>3, <2>4, WithRules
<1>3. CASE a.op = "switch_rule"
  <2> DEFINE f == [r \in x.rules |-> IF r.id = a.on THEN [r EXCEPT !.active = ~@] ELSE r]
             R == {f[r] : r \in x.rules}
  <2>1. \A r \in x.rules : f[r] \in RuleRows /\ f[r].id = r.id
    BY <1>x DEF RuleRows
  <2>2. f \in [x.rules -> RuleRows]
    BY <2>1
  <2>4. Written(a, x, who) = [x EXCEPT !.rules = R]
    <3>1. R = {IF r.id = a.on THEN [r EXCEPT !.active = ~@] ELSE r : r \in x.rules}
      OBVIOUS
    <3> QED
      BY <1>3, <3>1 DEF Written
  <2> HIDE DEF f
  <2>3. R \in RuleSets /\ IdsOf(R) = IdsOf(x.rules)
    BY <1>x, <2>1, <2>2, RuleSetsImage DEF IdsOf
  <2> HIDE DEF R
  <2> QED
    BY <1>3, <1>x, <2>3, <2>4, WithRules
<1>4. CASE a.op = "delete_rule"
  <2> DEFINE R == {r \in x.rules : r.id # a.on}
  <2>1. R \in RuleSets /\ IdsOf(R) \subseteq IdsOf(x.rules)
    BY <1>x, RuleSetsMake DEF IdsOf
  <2>2. Written(a, x, who) = [x EXCEPT !.rules = R]
    BY <1>4 DEF Written
  <2> HIDE DEF R
  <2> QED
    BY <1>4, <1>x, <2>1, <2>2, WithRules
<1>5. CASE a.op \in {"update_subject", "move_subject", "delete_subject"}
  <2>1. \/ /\ a.op # "delete_subject"
           /\ Written(a, x, who) \in {[x EXCEPT !.row = who], [x EXCEPT !.scope = who]}
        \/ a.op = "delete_subject" /\ Written(a, x, who) = [x EXCEPT !.live = FALSE]
    BY <1>5 DEF Written
  <2>2. /\ [x EXCEPT !.row = who] \in SubjectRows /\ [x EXCEPT !.row = who].live = x.live
        /\ [x EXCEPT !.row = who].rules = x.rules
        /\ [x EXCEPT !.scope = who] \in SubjectRows /\ [x EXCEPT !.scope = who].live = x.live
        /\ [x EXCEPT !.scope = who].rules = x.rules
        /\ [x EXCEPT !.live = FALSE] \in SubjectRows /\ [x EXCEPT !.live = FALSE].live = FALSE
        /\ [x EXCEPT !.live = FALSE].rules = x.rules
    BY DEF SubjectRows
  <2> QED
    BY <1>5, <1>x, <2>1, <2>2
<1> QED
  BY <1>1, <1>2, <1>3, <1>4, <1>5 DEF OnSubjects, OnRules

\* The rules of a version get new ids.
LEMMA FreshRules ==
  ASSUME NEW R \in RuleSets, ids \in Nat
  PROVE  /\ Fresh(R) \in RuleSets /\ Cardinality(R) \in Nat
         /\ \A i \in IdsOf(Fresh(R)) : i \in Nat /\ i > ids /\ i <= ids + Cardinality(R)
<1> DEFINE rank(r) == Cardinality({q \in R : q.id <= r.id})
           f == [r \in R |-> [r EXCEPT !.id = ids + rank(r)]]
<1>1. IsFiniteSet(R) /\ Cardinality(R) \in Nat /\ \A r \in R : r \in RuleRows /\ r.id \in Nat
  BY FS_CardinalityType DEF RuleSets, RuleRows
<1>2. ASSUME NEW r \in R PROVE rank(r) \in 1..Cardinality(R)
  <2> DEFINE Q == {q \in R : q.id <= r.id}
  <2>1. IsFiniteSet(Q) /\ Cardinality(Q) \in Nat /\ Cardinality(Q) <= Cardinality(R) /\ Q # {}
    <3>1. Q \in SUBSET R /\ r \in Q
      BY <1>1
    <3> HIDE DEF Q
    <3> QED
      BY <1>1, <3>1, FS_Subset, FS_CardinalityType
  <2> HIDE DEF Q
  <2>2. Cardinality(Q) # 0
    BY <2>1, FS_EmptySet
  <2>3. Cardinality(Q) \in 1..Cardinality(R)
    BY <1>1, <2>1, <2>2
  <2> QED
    BY <2>3 DEF Q
<1> HIDE DEF rank
<1>3. \A r \in R : f[r] \in RuleRows /\ f[r].id = ids + rank(r)
  <2> SUFFICES ASSUME NEW r \in R
               PROVE  [r EXCEPT !.id = ids + rank(r)] \in RuleRows
                      /\ [r EXCEPT !.id = ids + rank(r)].id = ids + rank(r)
    OBVIOUS
  <2>1. r \in RuleRows /\ ids + rank(r) \in Nat
    BY <1>1, <1>2
  <2> QED
    BY <2>1 DEF RuleRows
<1>4. Fresh(R) = {f[r] : r \in R}
  BY DEF Fresh, rank
<1>5. f \in [R -> RuleRows]
  BY <1>3
<1> HIDE DEF f
<1>6. Fresh(R) \in RuleSets
  BY <1>4, <1>5, RuleSetsImage
<1>7. ASSUME NEW r \in R PROVE f[r].id \in Nat /\ f[r].id > ids /\ f[r].id <= ids + Cardinality(R)
  BY <1>1, <1>2, <1>3
<1>8. \A i \in IdsOf(Fresh(R)) : \E r \in R : i = f[r].id
  BY <1>4 DEF IdsOf
<1> QED
  BY <1>1, <1>6, <1>7, <1>8

-----------------------------------------------------------------------------
(* What every step leaves of the tables.                                   *)

Keeps ==
  /\ TableTypes' /\ RulesGiven' /\ ids' >= ids
  /\ \A s \in Live' : s \in Live /\ Of(s) \subseteq Of(s)'
  /\ \A s \in Subjects : \A i \in IdsOf(subject'[s].rules) :
       i <= ids => i \in IdsOf(subject[s].rules)
  /\ \A v \in versions' : InOrder(v)' \/ (v \in versions /\ v.subject \in Live')

LEMMA TablesStay == TablesInv /\ UNCHANGED tables => Keeps
<1> SUFFICES ASSUME TablesInv, UNCHANGED tables PROVE Keeps
  OBVIOUS
<1>1. UNCHANGED <<subject, ids, versions>> /\ ids \in Nat
  BY DEF tables, TablesInv, TableTypes
<1>2. Live' = Live /\ \A s : Of(s)' = Of(s)
  BY <1>1 DEF Live, Of
<1>3. TableTypes' /\ RulesGiven' /\ ids' >= ids
  BY <1>1 DEF TablesInv, TableTypes, RulesGiven
<1>4. \A v \in versions' : v \in versions /\ v.subject \in Live'
  BY <1>1, <1>2 DEF TablesInv, VersionsInOrder, InOrder
<1> QED
  BY <1>1, <1>2, <1>3, <1>4 DEF Keeps

LEMMA SubjectOf ==
  ASSUME TablesInv, NEW s \in Subjects
  PROVE  /\ subject[s] \in SubjectRows
         /\ subject[s].rules \in RuleSets /\ subject[s].row \in Texts
         /\ subject[s].live \in BOOLEAN
         /\ \A i \in IdsOf(subject[s].rules) : i \in Nat /\ i <= ids
<1>1. subject[s] \in SubjectRows
  BY DEF TablesInv, TableTypes
<1>2. \A r \in subject[s].rules : r.id \in Nat /\ r.id <= ids
  BY <1>1, SubjectFields DEF TablesInv, RulesGiven
<1> QED
  BY <1>1, <1>2, SubjectFields DEF IdsOf

LEMMA DoesKeeps ==
  ASSUME TablesInv, NEW a, a.op \in OnSubjects \cup OnRules, NEW who \in Texts, Does(a, who)
  PROVE  Keeps
<1>0. ids \in Nat /\ versions \in SUBSET VersionRows /\ IsFiniteSet(versions)
  BY DEF TablesInv, TableTypes
<1>1. ids' \in Nat /\ ids' >= ids /\ (a.op = "create_rule" => ids' = ids + 1)
  BY <1>0 DEF Does
<1>2. ASSUME NEW s \in Subjects
      PROVE  /\ subject'[s] \in SubjectRows
             /\ subject'[s].live = (subject[s].live /\ ~(s \in On(a) /\ a.op = "delete_subject"))
             /\ IdsOf(subject'[s].rules) \subseteq
                  IdsOf(subject[s].rules) \cup (IF a.op = "create_rule" THEN {ids + 1} ELSE {})
  <2>1. subject'[s] = IF s \in On(a) THEN Written(a, subject[s], who) ELSE subject[s]
    BY DEF Does
  <2>2. subject[s] \in SubjectRows /\ subject[s].live \in BOOLEAN
    BY SubjectOf
  <2>3. CASE s \in On(a)
    <3>1. PICK y : y = Written(a, subject[s], who)
      OBVIOUS
    <3>2. /\ y \in SubjectRows
          /\ y.live = (subject[s].live /\ a.op # "delete_subject")
          /\ IdsOf(y.rules) \subseteq
               IdsOf(subject[s].rules) \cup (IF a.op = "create_rule" THEN {ids + 1} ELSE {})
      BY <1>0, <2>2, <3>1, WrittenSubject
    <3>3. subject'[s] = y
      BY <2>1, <2>3, <3>1
    <3> QED
      BY <2>3, <3>2, <3>3
  <2>4. CASE s \notin On(a)
    BY <2>1, <2>2, <2>4
  <2> QED
    BY <2>3, <2>4
<1>3. subject' \in [Subjects -> SubjectRows]
  BY <1>2 DEF Does
<1>4. versions' \in SUBSET versions /\ IsFiniteSet(versions')
  <2>1. versions' \in SUBSET versions
    BY DEF Does
  <2> QED
    BY <1>0, <2>1, FS_Subset
<1>5. ASSUME NEW s \in Subjects, NEW i \in IdsOf(subject'[s].rules)
      PROVE  i \in Nat /\ i <= ids' /\ (i <= ids => i \in IdsOf(subject[s].rules))
  <2>1. CASE i \in IdsOf(subject[s].rules)
    BY <1>0, <1>1, <2>1, SubjectOf
  <2>2. CASE a.op = "create_rule" /\ i = ids + 1
    BY <1>0, <1>1, <2>2
  <2> QED
    BY <1>2, <2>1, <2>2
<1>6. RulesGiven'
  BY <1>5 DEF RulesGiven, IdsOf
<1>7. ASSUME NEW s \in Live' PROVE s \in Live /\ Of(s) \subseteq Of(s)'
  <2>1. s \in Subjects /\ subject'[s].live
    BY DEF Live
  <2>2. subject[s].live /\ ~(s \in On(a) /\ a.op = "delete_subject")
    BY <1>2, <2>1
  <2> QED
    BY <2>1, <2>2 DEF Live, Of, Does
<1>8. ASSUME NEW v \in versions' PROVE v \in versions /\ v.subject \in Live'
  <2>1. v \in versions /\ v.subject \in Live
    BY <1>4 DEF TablesInv, VersionsInOrder, InOrder
  <2>2. v.subject \in Subjects /\ subject[v.subject].live
    BY <2>1 DEF Live
  <2>3. ~(v.subject \in On(a) /\ a.op = "delete_subject")
    BY DEF Does
  <2>4. subject'[v.subject].live
    BY <1>2, <2>2, <2>3
  <2> QED
    BY <2>1, <2>2, <2>4 DEF Live
<1>9. TableTypes'
  BY <1>0, <1>1, <1>3, <1>4 DEF TableTypes
<1> QED
  BY <1>1, <1>5, <1>6, <1>7, <1>8, <1>9 DEF Keeps

LEMMA RestoresKeeps ==
  ASSUME TablesInv, NEW v \in VersionRows, UNCHANGED versions, ids' = ids + Cardinality(v.rules),
         subject' = [subject EXCEPT ![v.subject] =
           IF @.live THEN [@ EXCEPT !.row = v.row, !.rules = Fresh(v.rules)] ELSE @]
  PROVE  Keeps
<1> DEFINE x == subject[v.subject]
           y == [x EXCEPT !.row = v.row, !.rules = Fresh(v.rules)]
<1>0. /\ ids \in Nat /\ versions \in SUBSET VersionRows /\ IsFiniteSet(versions)
      /\ subject \in [Subjects -> SubjectRows]
  BY DEF TablesInv, TableTypes
<1>1. v.subject \in Subjects /\ v.rules \in RuleSets /\ v.row \in Texts
  BY DEF VersionRows
<1>2. /\ Fresh(v.rules) \in RuleSets /\ Cardinality(v.rules) \in Nat
      /\ \A i \in IdsOf(Fresh(v.rules)) : i \in Nat /\ i > ids /\ i <= ids + Cardinality(v.rules)
  BY <1>0, <1>1, FreshRules
<1>3. ids' \in Nat /\ ids' >= ids
  BY <1>0, <1>2
<1>4. y \in SubjectRows /\ y.live = x.live /\ y.rules = Fresh(v.rules)
  <2>1. x \in SubjectRows
    BY <1>0, <1>1
  <2> HIDE DEF x
  <2> QED
    BY <1>1, <1>2, <2>1 DEF SubjectRows
<1>5. ASSUME NEW s \in Subjects
      PROVE  /\ subject'[s] \in SubjectRows /\ subject'[s].live = subject[s].live
             /\ \/ subject'[s].rules = subject[s].rules
                \/ subject'[s].rules = Fresh(v.rules)
  <2>1. (subject'[s] = y /\ s = v.subject) \/ subject'[s] = subject[s]
    BY <1>0
  <2> HIDE DEF y
  <2> QED
    BY <1>0, <1>4, <2>1
<1>6. subject' \in [Subjects -> SubjectRows]
  BY <1>0, <1>5
<1>7. ASSUME NEW s \in Subjects, NEW i \in IdsOf(subject'[s].rules)
      PROVE  i \in Nat /\ i <= ids' /\ (i <= ids => i \in IdsOf(subject[s].rules))
  <2>1. CASE i \in IdsOf(subject[s].rules)
    <3>1. i \in Nat /\ i <= ids
      BY <2>1, SubjectOf
    <3> QED
      BY <1>0, <1>3, <2>1, <3>1
  <2>2. CASE i \in IdsOf(Fresh(v.rules))
    <3>1. i \in Nat /\ i > ids /\ i <= ids + Cardinality(v.rules)
      BY <1>2, <2>2
    <3>2. Cardinality(v.rules) \in Nat
      BY <1>2
    <3> QED
      BY <1>0, <3>1, <3>2
  <2> QED
    BY <1>5, <2>1, <2>2
<1>8. Live' = Live
  BY <1>5 DEF Live
<1>9. TableTypes' /\ RulesGiven'
  BY <1>0, <1>3, <1>6, <1>7 DEF TableTypes, RulesGiven, IdsOf
<1> QED
  BY <1>3, <1>7, <1>8, <1>9 DEF Keeps, Of, TablesInv, VersionsInOrder, InOrder

-----------------------------------------------------------------------------
(* What of the invariant follows from that.                                *)

LEMMA OfIsFinite ==
  ASSUME TableTypes, NEW s
  PROVE  IsFiniteSet(Of(s)) /\ Cardinality(Of(s)) \in Nat
<1>1. Of(s) \in SUBSET versions /\ IsFiniteSet(versions)
  BY DEF Of, TableTypes
<1> QED
  BY <1>1, FS_Subset, FS_CardinalityType

LEMMA MoreVersions ==
  ASSUME TableTypes, Keeps, NEW s \in Live'
  PROVE  /\ Cardinality(Of(s)) <= Cardinality(Of(s)')
         /\ Cardinality(Of(s)) \in Nat /\ Cardinality(Of(s)') \in Nat
<1>1. IsFiniteSet(Of(s)) /\ Cardinality(Of(s)) \in Nat
  BY OfIsFinite
<1>2. IsFiniteSet(Of(s)') /\ Cardinality(Of(s)') \in Nat
  <2>1. Of(s)' \in SUBSET versions' /\ IsFiniteSet(versions')
    BY DEF Of, Keeps, TableTypes
  <2> QED
    BY <2>1, FS_Subset, FS_CardinalityType
<1>3. Of(s) \in SUBSET Of(s)'
  BY DEF Keeps
<1> QED
  BY <1>1, <1>2, <1>3, FS_Subset

LEMMA KeptShown ==
  ASSUME Keeps, NEW s \in Live', NEW m
  PROVE  /\ ShownClean(m, s) => ShownClean(m, s)'
         /\ \A n : CleanBelow(m, s, n) => CleanBelow(m, s, n)'
BY DEF Keeps, ShownClean, CleanBelow

LEMMA KeptTables ==
  ASSUME TablesInv, Keeps
  PROVE  TablesInv'
<1> SUFFICES ASSUME NEW v \in versions', v \in versions, v.subject \in Live'
             PROVE  InOrder(v)'
  BY DEF Keeps, TablesInv, VersionsInOrder
<1>1. InOrder(v) /\ TableTypes
  BY DEF TablesInv, VersionsInOrder
<1>2. PICK s \in Live' : s = v.subject
  OBVIOUS
<1>3. v.version \in 1..Cardinality(Of(s)')
  BY <1>1, <1>2, MoreVersions DEF InOrder
<1>4. v.msg \in Messages /\ ~v.clean => CleanBelow(v.msg, s, v.version)'
  BY <1>1, <1>2, KeptShown DEF InOrder
<1> QED
  BY <1>2, <1>3, <1>4 DEF InOrder

LEMMA KeptTask ==
  ASSUME TablesInv, Keeps, NEW s \in Live', NEW t \in Tasks, WillBeInOrder(t, s),
         \A m \in Messages : changed[m] \subseteq changed'[m]
  PROVE  WillBeInOrder(t, s)'
<1>1. t.pc = "insert" => t.version \in 1..(Cardinality(Of(s)') + 1)
  BY MoreVersions DEF WillBeInOrder, TablesInv
<1> QED
  BY <1>1, KeptShown DEF WillBeInOrder

\* A rule whose id was given is no other subject's later, and no subject comes back.
LEMMA KeptOn ==
  ASSUME TablesInv, Keeps, NEW a, a.op \in OnSubjects \cup OnRules, Given(a)
  PROVE  On(a)' \subseteq On(a) /\ On(a)' \subseteq Live'
<1> SUFFICES ASSUME NEW s \in On(a)' PROVE s \in On(a) /\ s \in Live'
  OBVIOUS
<1>1. s \in Live' /\ s \in Live /\ s \in Subjects
  BY DEF On, Keeps, Live
<1>2. CASE a.op \in OnSubjects
  BY <1>1, <1>2 DEF On
<1>3. CASE a.op \notin OnSubjects
  <2>1. PICK r \in subject'[s].rules : r.id = a.on
    BY <1>3 DEF On
  <2>2. a.on \in IdsOf(subject'[s].rules)
    BY <2>1 DEF IdsOf
  <2>3. a.op \in OnRules => a.on \in IdsOf(subject[s].rules)
    BY <1>1, <2>2 DEF Keeps, Given
  <2> QED
    BY <1>1, <1>3, <2>3 DEF On, IdsOf
<1> QED
  BY <1>2, <1>3

LEMMA ActionType ==
  ASSUME AssistantInv, NEW q \in Requests, req[q].pc \in {"resolve", "snap"},
         NEW i \in DOMAIN Actions(q)
  PROVE  /\ req[q].msg \in Messages /\ Actions(q) = msg[req[q].msg].actions
         /\ Actions(q) \in Seq(AllOps) /\ Actions(q)[i] \in AllOps
         /\ Actions(q)[i].op \in OnSubjects \cup OnRules
<1>1. PICK m \in Messages : m = req[q].msg
  BY DEF AssistantInv, SnapsFirst
<1>2. msg[m] \in Chats
  BY DEF AssistantInv, WorkTypes
<1>3. msg[m].actions \in Seq(AllOps)
  BY <1>2 DEF Chats
<1>4. Actions(q) = msg[m].actions
  BY <1>1 DEF Actions
<1>5. Actions(q)[i] \in AllOps
  BY <1>3, <1>4
<1> QED
  BY <1>1, <1>3, <1>4, <1>5 DEF AllOps

\* The messages stay what they are once stored.
ChatsStay == \A m \in Messages : msg[m].is = "stored" =>
               msg'[m].is = "stored" /\ msg'[m].actions = msg[m].actions

LEMMA KeptRequest ==
  ASSUME AssistantInv, Keeps, NEW q \in Requests, ChatsStay,
         req'[q].pc = req[q].pc, req'[q].msg = req[q].msg,
         \A s \in Live' : Storing(q, s) => Storing(q, s)' \/ ShownClean(req[q].msg, s)'
  PROVE  SnapsFirst(q)'
<1>1. SnapsFirst(q) /\ TablesInv
  BY DEF AssistantInv
<1>2. req'[q].pc \in {"resolve", "snap"} =>
        /\ req'[q].msg \in Messages /\ msg[req[q].msg].is = "stored"
        /\ msg'[req'[q].msg].is = "stored" /\ Actions(q)' = Actions(q)
  BY <1>1 DEF SnapsFirst, ChatsStay, Actions
<1>3. ASSUME req'[q].pc = "snap", NEW i \in DOMAIN Actions(q)', NEW s \in On(Actions(q)[i])'
      PROVE  ShownClean(req[q].msg, s)' \/ Storing(q, s)'
  <2>1. PICK a : a = Actions(q)[i] /\ a = Actions(q)'[i] /\ i \in DOMAIN Actions(q)
    BY <1>2, <1>3
  <2>2. Given(a)
    BY <1>2, <1>3, <2>1 DEF AssistantInv, ActionsGiven, Actions
  <2>a. a.op \in OnSubjects \cup OnRules
    BY <1>2, <1>3, <2>1, ActionType
  <2>3. s \in On(a) /\ s \in Live'
    BY <1>1, <1>3, <2>a, <2>1, <2>2, KeptOn
  <2>4. ShownClean(req[q].msg, s) \/ Storing(q, s)
    BY <1>1, <1>3, <2>1, <2>3 DEF SnapsFirst
  <2>5. PICK m : m = req[q].msg /\ m = req'[q].msg
    OBVIOUS
  <2>6. ShownClean(m, s) => ShownClean(m, s)'
    BY <2>3, KeptShown
  <2> QED
    BY <2>3, <2>4, <2>5, <2>6
<1> QED
  BY <1>2, <1>3 DEF SnapsFirst

\* A step, by what it changes beside the tables.
LEMMA StepKeeps ==
  ASSUME AssistantInv, Keeps, WorkTypes', ActionsGiven',
         \A m \in Messages : changed[m] \subseteq changed'[m],
         \A m \in Messages : \A s \in changed'[m] \cap Live' :
           s \in changed[m] \/ ShownClean(m, s)',
         \A q \in Requests : \A s \in Live' :
           snap'[q][s] = snap[q][s] \/ WillBeInOrder(snap[q][s], s)',
         \A q \in Requests : SnapsFirst(q)'
  PROVE  AssistantInv'
<1>0. TablesInv /\ WorkTypes
  BY DEF AssistantInv
<1>1. TablesInv'
  BY <1>0, KeptTables
<1>2. ChangedIsShown'
  <2> SUFFICES ASSUME NEW m \in Messages, NEW s \in changed'[m] \cap Live'
               PROVE  ShownClean(m, s)'
    BY DEF ChangedIsShown
  <2>1. CASE s \in changed[m]
    <3>1. s \in Live
      BY DEF Keeps
    <3>2. ShownClean(m, s)
      BY <2>1, <3>1 DEF AssistantInv, ChangedIsShown
    <3> QED
      BY <3>2, KeptShown
  <2> QED
    BY <2>1
<1>3. TasksInOrder'
  <2> SUFFICES ASSUME NEW q \in Requests, NEW s \in Live' PROVE WillBeInOrder(snap[q][s], s)'
    BY DEF TasksInOrder
  <2>1. CASE snap'[q][s] = snap[q][s]
    <3>1. PICK t : t = snap[q][s] /\ t = snap'[q][s]
      BY <2>1
    <3>2. s \in Live /\ s \in Subjects
      BY DEF Keeps, Live
    <3>3. t \in Tasks
      BY <1>0, <3>1, <3>2 DEF WorkTypes
    <3>4. WillBeInOrder(t, s)
      BY <3>1, <3>2 DEF AssistantInv, TasksInOrder
    <3>5. WillBeInOrder(t, s)'
      BY <1>0, <3>3, <3>4, KeptTask
    <3> QED
      BY <3>1, <3>5
  <2> QED
    BY <2>1
<1> QED
  BY <1>1, <1>2, <1>3 DEF AssistantInv

-----------------------------------------------------------------------------
(* The steps of chats and administrators.                                  *)

LEMMA ChatFields ==
  ASSUME WorkTypes, NEW m \in Messages
  PROVE  /\ msg[m] \in Chats /\ msg[m].seen \in SUBSET AllOps /\ msg[m].actions \in Seq(AllOps)
         /\ \A i \in DOMAIN msg[m].actions : msg[m].actions[i] \in AllOps
<1>1. msg[m] \in Chats
  BY DEF WorkTypes
<1>2. msg[m].actions \in Seq(AllOps) /\ msg[m].seen \in SUBSET AllOps
  BY <1>1 DEF Chats
<1> QED
  BY <1>1, <1>2

LEMMA GivenStays ==
  ASSUME TablesInv, Keeps, NEW a \in AllOps, Given(a)
  PROVE  Given(a)'
<1>1. ids \in Nat /\ ids' \in Nat /\ ids' >= ids
  BY DEF TablesInv, TableTypes, Keeps
<1>2. a.op \in OnRules => a.on \in Nat
  BY DEF AllOps, OnSubjects, OnRules
<1> QED
  BY <1>1, <1>2 DEF Given

LEMMA ActionsStay ==
  ASSUME AssistantInv, Keeps,
         \A m \in Messages : msg'[m].seen = msg[m].seen /\ msg'[m].actions = msg[m].actions
  PROVE  ActionsGiven'
<1> SUFFICES ASSUME NEW m \in Messages
             PROVE  /\ \A a \in msg[m].seen : Given(a)'
                    /\ \A i \in DOMAIN msg[m].actions : Given(msg[m].actions[i])'
  BY DEF ActionsGiven
<1>1. \A a \in AllOps : Given(a) => Given(a)'
  BY GivenStays DEF AssistantInv
<1>2. ASSUME NEW i \in DOMAIN msg[m].actions PROVE Given(msg[m].actions[i])'
  <2>1. PICK a \in AllOps : a = msg[m].actions[i] /\ a = msg'[m].actions[i]
    BY ChatFields DEF AssistantInv
  <2>2. Given(a)
    BY <2>1 DEF AssistantInv, ActionsGiven
  <2> QED
    BY <1>1, <2>1, <2>2 DEF Given
<1> QED
  BY <1>1, <1>2, ChatFields DEF AssistantInv, ActionsGiven

\* Requests that are left alone.
LEMMA RequestsStay ==
  ASSUME AssistantInv, Keeps, ChatsStay, NEW q \in Requests, req'[q] = req[q], snap'[q] = snap[q]
  PROVE  SnapsFirst(q)'
<1>1. \A s \in Live' : Storing(q, s) => Storing(q, s)'
  BY DEF Storing
<1> QED
  BY <1>1, KeptRequest

LEMMA AsksKeeps == ASSUME AssistantInv, NEW m \in Messages, Asks(m) PROVE AssistantInv'
<1>0. TablesInv /\ WorkTypes /\ UNCHANGED <<tables, req, snap, changed>>
  BY DEF AssistantInv, Asks, history
<1>1. Keeps
  BY <1>0, TablesStay
<1> DEFINE new == {o \in Ops : \A r \in RulesOf(On(o)) : r.id = o.on => r.active}
<1>2. \A a \in new : a \in AllOps /\ Given(a)
  <2> SUFFICES ASSUME NEW a \in Ops PROVE a \in AllOps /\ Given(a)
    OBVIOUS
  <2>1. CASE a \in [op : OnSubjects, on : Live]
    BY <2>1 DEF AllOps, Given, Live, OnSubjects, OnRules
  <2>2. CASE a \in [op : OnRules, on : {r.id : r \in RulesOf(Live)}]
    <3>1. PICK s \in Live : a.on \in IdsOf(subject[s].rules)
      BY <2>2 DEF RulesOf, IdsOf
    <3>2. a.on \in Nat /\ a.on <= ids
      BY <1>0, <3>1, SubjectOf DEF Live
    <3> QED
      BY <2>2, <3>2 DEF AllOps, Given
  <2> QED
    BY <2>1, <2>2 DEF Ops
<1>3. msg' = [msg EXCEPT ![m].is = "asked", ![m].seen = new] /\ msg[m].is = "none"
  BY DEF Asks
<1> HIDE DEF new
<1>4. /\ msg' \in [Messages -> Chats]
      /\ msg'[m].seen = new /\ msg'[m].actions = msg[m].actions
      /\ \A n \in Messages \ {m} : msg'[n] = msg[n]
  <2>1. msg[m] \in Chats /\ new \in SUBSET AllOps
    BY <1>0, <1>2, ChatFields
  <2>2. PICK c : c = [msg[m] EXCEPT !.is = "asked", !.seen = new]
    OBVIOUS
  <2>3. c \in Chats /\ c.seen = new /\ c.actions = msg[m].actions
    BY <2>1, <2>2 DEF Chats
  <2>4. msg' = [msg EXCEPT ![m] = c] /\ msg \in [Messages -> Chats]
    BY <1>0, <1>3, <2>2 DEF WorkTypes
  <2> QED
    BY <2>3, <2>4
<1>5. ChatsStay /\ WorkTypes'
  BY <1>0, <1>3, <1>4 DEF ChatsStay, WorkTypes
<1>6. ids' = ids
  BY <1>0 DEF tables
<1>7. ActionsGiven'
  BY <1>2, <1>4, <1>6 DEF AssistantInv, ActionsGiven, Given
<1>8. \A q \in Requests : SnapsFirst(q)'
  BY <1>0, <1>1, <1>5, RequestsStay
<1> QED
  BY <1>0, <1>1, <1>5, <1>7, <1>8, StepKeeps

LEMMA AnswersKeeps == ASSUME AssistantInv, NEW m \in Messages, Answers(m) PROVE AssistantInv'
<1>0. TablesInv /\ WorkTypes /\ UNCHANGED <<tables, req, snap, changed>>
  BY DEF AssistantInv, Answers, history
<1>1. Keeps
  BY <1>0, TablesStay
<1>a. PICK ops \in Proposals : \E actions \in [DOMAIN ops -> msg[m].seen] :
        msg' = [msg EXCEPT ![m] = [@ EXCEPT !.is = "stored", !.seen = {}, !.actions = actions]]
  BY DEF Answers
<1>2. PICK actions \in [DOMAIN ops -> msg[m].seen] :
        msg' = [msg EXCEPT ![m] = [@ EXCEPT !.is = "stored", !.seen = {}, !.actions = actions]]
  BY <1>a
<1>3. actions \in Seq(AllOps) /\ \A i \in DOMAIN actions : Given(actions[i])
  <2>1. ops \in Seq(OnSubjects \cup OnRules)
    BY AssistantAssumption
  <2>2. DOMAIN ops = 1..Len(ops) /\ Len(ops) \in Nat
    BY <2>1
  <2>3. msg[m].seen \in SUBSET AllOps
    BY <1>0, ChatFields
  <2>4. actions \in [1..Len(ops) -> AllOps]
    BY <2>2, <2>3
  <2>5. actions \in Seq(AllOps)
    BY <2>2, <2>4
  <2>6. \A i \in DOMAIN actions : actions[i] \in msg[m].seen
    OBVIOUS
  <2> QED
    BY <2>5, <2>6 DEF AssistantInv, ActionsGiven
<1>4. /\ msg' \in [Messages -> Chats]
      /\ msg'[m].seen = {} /\ msg'[m].actions = actions
      /\ \A n \in Messages \ {m} : msg'[n] = msg[n]
  <2>1. msg[m] \in Chats
    BY <1>0, ChatFields
  <2>2. PICK c : c = [msg[m] EXCEPT !.is = "stored", !.seen = {}, !.actions = actions]
    OBVIOUS
  <2>3. c \in Chats /\ c.seen = {} /\ c.actions = actions
    BY <1>3, <2>1, <2>2 DEF Chats
  <2>4. msg' = [msg EXCEPT ![m] = c] /\ msg \in [Messages -> Chats]
    BY <1>0, <1>2, <2>2 DEF WorkTypes
  <2> QED
    BY <2>3, <2>4
<1>5. ChatsStay /\ WorkTypes'
  BY <1>0, <1>4 DEF ChatsStay, WorkTypes, Answers
<1>6. ids' = ids
  BY <1>0 DEF tables
<1>7. ActionsGiven'
  BY <1>3, <1>4, <1>6 DEF AssistantInv, ActionsGiven, Given
<1>8. \A q \in Requests : SnapsFirst(q)'
  BY <1>0, <1>1, <1>5, RequestsStay
<1> QED
  BY <1>0, <1>1, <1>5, <1>7, <1>8, StepKeeps

LEMMA OpsType ==
  ASSUME NEW a \in Ops
  PROVE  a.op \in OnSubjects \cup OnRules
BY DEF Ops

LEMMA EditsKeeps == ASSUME AssistantInv, NEW a \in Ops, Edits(a) PROVE AssistantInv'
<1>0. TablesInv /\ WorkTypes /\ UNCHANGED <<msg, req, snap, changed>> /\ Does(a, "edit")
  BY DEF AssistantInv, Edits
<1>1. Keeps
  BY <1>0, OpsType, DoesKeeps DEF Texts
<1>2. ChatsStay /\ WorkTypes' /\ ActionsGiven'
  BY <1>0, <1>1, ActionsStay DEF ChatsStay, WorkTypes
<1>3. \A q \in Requests : SnapsFirst(q)'
  BY <1>0, <1>1, <1>2, RequestsStay
<1> QED
  BY <1>0, <1>1, <1>2, <1>3, StepKeeps

-----------------------------------------------------------------------------
(* The steps of requests.                                                  *)

LEMMA TaskFields ==
  ASSUME WorkTypes, NEW q \in Requests, NEW s \in Subjects
  PROVE  /\ snap[q][s] \in Tasks /\ snap[q] \in [Subjects -> Tasks]
         /\ snap[q][s].msg \in ForMessage /\ snap[q][s].row \in Texts
         /\ snap[q][s].rules \in RuleSets /\ snap[q][s].version \in Nat
         /\ snap[q][s].clean \in BOOLEAN
<1>1. snap[q] \in [Subjects -> Tasks]
  BY DEF WorkTypes
<1>2. snap[q][s] \in Tasks
  BY <1>1
<1> QED
  BY <1>1, <1>2 DEF Tasks

LEMMA RequestFields ==
  ASSUME WorkTypes, NEW q \in Requests
  PROVE  /\ req[q] \in RequestRows /\ req[q].msg \in ForMessage /\ req[q].next \in Nat
         /\ req[q].todo \in SUBSET VersionRows
<1>1. req[q] \in RequestRows
  BY DEF WorkTypes
<1> QED
  BY <1>1 DEF RequestRows

LEMMA NoTaskFields ==
  /\ NoTask \in Tasks /\ NoTask.pc = "none" /\ NoTask.msg = Nobody /\ NoTask.clean = FALSE
  /\ \A m \in ForMessage : /\ Task(m) \in Tasks /\ Task(m).pc = "row" /\ Task(m).msg = m
                           /\ Task(m).clean = FALSE
<1>1. "old" \in Texts /\ {} \in RuleSets /\ Nobody \in ForMessage /\ 0 \in Nat
  BY RuleSetsMake DEF Texts, ForMessage
<1> QED
  BY <1>1 DEF Tasks, Task, NoTask

LEMMA FreshTask ==
  ASSUME NEW s, NEW m \in ForMessage
  PROVE  WillBeInOrder(NoTask, s)' /\ WillBeInOrder(Task(m), s)'
BY NoTaskFields DEF WillBeInOrder

\* One request goes on; the others are left alone.
LEMMA OneRequest ==
  ASSUME AssistantInv, Keeps, WorkTypes', ActionsGiven', ChatsStay, NEW q \in Requests,
         \A p \in Requests \ {q} : req'[p] = req[p] /\ snap'[p] = snap[p],
         \A m \in Messages : changed[m] \subseteq changed'[m],
         \A m \in Messages : \A s \in changed'[m] \cap Live' :
           s \in changed[m] \/ ShownClean(m, s)',
         \A s \in Live' : snap'[q][s] = snap[q][s] \/ WillBeInOrder(snap[q][s], s)',
         SnapsFirst(q)'
  PROVE  AssistantInv'
<1>1. \A p \in Requests : SnapsFirst(p)'
  BY RequestsStay
<1> QED
  BY <1>1, StepKeeps

\* One snapshot goes on.
LEMMA SnapMoves ==
  ASSUME AssistantInv, Keeps, NEW q \in Requests, NEW s \in Subjects, NEW t \in Tasks,
         snap' = [snap EXCEPT ![q][s] = t], UNCHANGED <<msg, req, changed>>,
         s \in Live' => WillBeInOrder(t, s)',
         s \in Live' =>
           \/ t.pc # "none" /\ t.msg = snap[q][s].msg
           \/ \A m \in Messages : snap[q][s].msg = m => ShownClean(m, s)'
  PROVE  AssistantInv'
<1>0. WorkTypes
  BY DEF AssistantInv
<1>1. /\ snap' \in [Requests -> [Subjects -> Tasks]] /\ snap'[q][s] = t
      /\ \A p \in Requests \ {q} : snap'[p] = snap[p]
      /\ \A x \in Subjects \ {s} : snap'[q][x] = snap[q][x]
  BY <1>0, TaskFields DEF WorkTypes
<1>2. WorkTypes' /\ ChatsStay
  BY <1>0, <1>1 DEF WorkTypes, ChatsStay
<1>3. ActionsGiven'
  BY ActionsStay
<1>4. ASSUME NEW x \in Live' PROVE snap'[q][x] = snap[q][x] \/ WillBeInOrder(snap[q][x], x)'
  <2>1. CASE x = s
    BY <1>1, <2>1 DEF WillBeInOrder
  <2>2. CASE x # s
    BY <1>1, <2>2 DEF Live
  <2> QED
    BY <2>1, <2>2
<1>5. ASSUME NEW x \in Live', Storing(q, x), req[q].pc = "snap"
      PROVE  Storing(q, x)' \/ ShownClean(req[q].msg, x)'
  <2>1. CASE x # s
    BY <1>1, <1>5, <2>1 DEF Storing, Live
  <2>2. CASE x = s
    <3>1. PICK m \in Messages : m = req[q].msg
      BY <1>5 DEF AssistantInv, SnapsFirst
    <3>2. snap[q][s].msg = m
      BY <1>5, <2>2, <3>1 DEF Storing
    <3>3. CASE t.pc # "none" /\ t.msg = snap[q][s].msg
      BY <1>1, <2>2, <3>1, <3>2, <3>3 DEF Storing
    <3>4. CASE ShownClean(m, s)'
      <4>1. ShownClean(req[q].msg, x)'
        BY <2>2, <3>1, <3>4 DEF ShownClean
      <4> QED
        BY <4>1
    <3> QED
      BY <1>5, <2>2, <3>2, <3>3, <3>4
  <2> QED
    BY <2>1, <2>2
<1>6. SnapsFirst(q)'
  <2>1. CASE req[q].pc = "snap"
    BY <1>2, <1>5, <2>1, KeptRequest
  <2>2. CASE req[q].pc # "snap"
    BY <2>2 DEF AssistantInv, SnapsFirst
  <2> QED
    BY <2>1, <2>2
<1> QED
  BY <1>1, <1>2, <1>3, <1>4, <1>6, OneRequest

\* A task with some of its fields written.
LEMMA TaskRow ==
  ASSUME NEW t \in Tasks, NEW x \in Texts, NEW u, u = [t EXCEPT !.pc = "rules", !.row = x]
  PROVE  u \in Tasks /\ u.pc = "rules" /\ u.msg = t.msg
BY DEF Tasks

LEMMA ReadsKeeps ==
  ASSUME AssistantInv, NEW q \in Requests, NEW s \in Subjects,
         ReadsRow(q, s) \/ ReadsRules(q, s) \/ ReadsVersion(q, s)
  PROVE  AssistantInv'
<1>0. /\ TablesInv /\ WorkTypes /\ UNCHANGED <<tables, msg, req, changed>>
      /\ snap[q][s] \in Tasks
  BY TaskFields DEF AssistantInv, ReadsRow, ReadsRules, ReadsVersion, history
<1>1. Keeps
  BY <1>0, TablesStay
<1>t. UNCHANGED <<subject, ids, versions>>
  BY <1>0 DEF tables
<1>2. Live' = Live /\ Of(s)' = Of(s)
  BY <1>t DEF Live, Of
<1>3. PICK t \in Tasks : t = snap[q][s]
  BY <1>0
<1>4. ASSUME NEW u \in Tasks, snap' = [snap EXCEPT ![q][s] = u],
             s \in Live => WillBeInOrder(u, s)' /\ u.pc # "none" /\ u.msg = t.msg
      PROVE  AssistantInv'
  BY <1>0, <1>1, <1>2, <1>3, <1>4, SnapMoves
<1>5. CASE ReadsRow(q, s)
  <2>1. CASE s \in Live
    <3>1. PICK u : u = [t EXCEPT !.pc = "rules", !.row = subject[s].row]
      OBVIOUS
    <3>2. u \in Tasks /\ u.pc = "rules" /\ u.msg = t.msg
      BY <1>0, <3>1, SubjectOf, TaskRow
    <3>3. snap' = [snap EXCEPT ![q][s] = u]
      BY <1>3, <1>5, <2>1, <3>1 DEF ReadsRow
    <3> QED
      BY <1>4, <3>2, <3>3 DEF WillBeInOrder
  <2>2. CASE s \notin Live
    BY <1>4, <1>5, <2>2, NoTaskFields DEF ReadsRow
  <2> QED
    BY <2>1, <2>2
<1>6. CASE ReadsRules(q, s)
  <2>1. PICK c \in BOOLEAN : c <=> t.msg # Nobody /\ s \notin changed[t.msg]
    OBVIOUS
  <2>2. PICK R \in RuleSets : R = {r \in subject[s].rules : r.active}
    BY <1>0, SubjectOf, RuleSetsMake
  <2>3. PICK u : u = [t EXCEPT !.pc = "version", !.rules = R, !.clean = c]
    OBVIOUS
  <2>4. u \in Tasks /\ u.pc = "version" /\ u.msg = t.msg /\ u.clean = c
    BY <2>3 DEF Tasks
  <2>5. c = (t.msg # Nobody /\ s \notin changed[t.msg])
    BY <2>1
  <2>6. snap' = [snap EXCEPT ![q][s] = u]
    BY <1>3, <1>6, <2>2, <2>3, <2>5 DEF ReadsRules
  <2>7. WillBeInOrder(u, s)'
    BY <1>0, <2>1, <2>4, AssistantAssumption DEF WillBeInOrder
  <2> QED
    BY <1>4, <2>4, <2>6, <2>7
<1>7. CASE ReadsVersion(q, s)
  <2>1. PICK n \in Nat : n = Cardinality(Of(s)) + 1
    BY <1>0, OfIsFinite DEF TablesInv
  <2>2. PICK u : u = [t EXCEPT !.pc = "insert", !.version = n]
    OBVIOUS
  <2>3. u \in Tasks /\ u.pc = "insert" /\ u.msg = t.msg /\ u.clean = t.clean /\ u.version = n
    BY <2>2 DEF Tasks
  <2>4. snap' = [snap EXCEPT ![q][s] = u] /\ t.pc = "version"
    BY <1>3, <1>7, <2>1, <2>2 DEF ReadsVersion
  <2>5. ASSUME s \in Live, t.msg \in Messages, ~t.clean PROVE CleanBelow(t.msg, s, n)'
    <3>1. s \in changed[t.msg]
      BY <1>3, <2>4, <2>5 DEF AssistantInv, TasksInOrder, WillBeInOrder
    <3>2. PICK v \in Of(s) : v.msg = t.msg /\ v.clean
      BY <2>5, <3>1 DEF AssistantInv, ChangedIsShown, ShownClean
    <3>3. v.version \in 1..Cardinality(Of(s)) /\ Cardinality(Of(s)) \in Nat
      BY <1>0, OfIsFinite DEF TablesInv, VersionsInOrder, InOrder, Of
    <3>4. v.version < n
      BY <2>1, <3>3
    <3> QED
      BY <1>2, <3>2, <3>4 DEF CleanBelow
  <2>6. n \in 1..(Cardinality(Of(s)') + 1)
    BY <1>0, <1>2, <2>1, OfIsFinite DEF TablesInv
  <2>7. s \in Live => WillBeInOrder(u, s)'
    BY <2>3, <2>5, <2>6 DEF WillBeInOrder
  <2> QED
    BY <1>4, <2>3, <2>4, <2>7
<1> QED
  BY <1>5, <1>6, <1>7

LEMMA InsertsKeeps ==
  ASSUME AssistantInv, NEW q \in Requests, NEW s \in Subjects, Inserts(q, s)
  PROVE  AssistantInv'
<1>0. /\ TablesInv /\ WorkTypes /\ UNCHANGED <<subject, ids, msg, req, changed>>
      /\ s \in Live
  BY DEF AssistantInv, Inserts, history
<1>1. PICK t \in Tasks : t = snap[q][s]
  BY <1>0, TaskFields
<1>2. t.pc = "insert" /\ snap' = [snap EXCEPT ![q][s] = NoTask]
  BY <1>1 DEF Inserts, Snap
<1>3. PICK w : w = Version(q, s)
  OBVIOUS
<1>4. /\ w.subject = s /\ w.version = t.version /\ w.msg = t.msg /\ w.clean = t.clean
      /\ w \in VersionRows
  <2>1. /\ w = [subject |-> s, version |-> t.version, row |-> t.row, rules |-> t.rules,
                msg |-> t.msg, clean |-> t.clean]
    BY <1>1, <1>3 DEF Version
  <2>2. /\ t.version \in Nat /\ t.row \in Texts /\ t.rules \in RuleSets
        /\ t.msg \in ForMessage /\ t.clean \in BOOLEAN
    BY DEF Tasks
  <2> QED
    BY <2>1, <2>2 DEF VersionRows
<1>5. versions' = versions \cup {w} /\ w \notin Of(s)
  BY <1>1, <1>3, <1>4 DEF Inserts
<1>6. Live' = Live
  BY <1>0 DEF Live
<1>7. Of(s)' = Of(s) \cup {w} /\ \A x : Of(x) \subseteq Of(x)'
  BY <1>4, <1>5 DEF Of
<1>8. /\ Cardinality(Of(s)') = Cardinality(Of(s)) + 1 /\ Cardinality(Of(s)) \in Nat
  BY <1>0, <1>5, <1>7, OfIsFinite, FS_AddElement DEF TablesInv
<1>9. WillBeInOrder(t, s)
  BY <1>0, <1>1 DEF AssistantInv, TasksInOrder
<1>10. t.msg \in Messages /\ ~t.clean => CleanBelow(t.msg, s, t.version)'
  BY <1>2, <1>7, <1>9 DEF WillBeInOrder, CleanBelow
<1>11. InOrder(w)'
  <2>1. t.version \in 1..Cardinality(Of(s)')
    BY <1>2, <1>8, <1>9 DEF WillBeInOrder
  <2> QED
    BY <1>0, <1>4, <1>6, <1>10, <2>1 DEF InOrder
<1>12. TableTypes' /\ RulesGiven'
  <2>1. IsFiniteSet(versions) /\ versions \in SUBSET VersionRows
    BY <1>0 DEF TablesInv, TableTypes
  <2>2. IsFiniteSet(versions')
    BY <1>5, <2>1, FS_AddElement
  <2> QED
    BY <1>0, <1>4, <1>5, <2>1, <2>2 DEF TablesInv, TableTypes, RulesGiven
<1>13. Keeps
  <2>1. \A v \in versions' : InOrder(v)' \/ (v \in versions /\ v.subject \in Live')
    BY <1>0, <1>5, <1>6, <1>11 DEF TablesInv, VersionsInOrder, InOrder
  <2>2. ids' >= ids
    BY <1>0 DEF TablesInv, TableTypes
  <2> QED
    BY <1>0, <1>6, <1>7, <1>12, <2>1, <2>2 DEF Keeps
<1>14. ASSUME NEW m \in Messages, snap[q][s].msg = m PROVE ShownClean(m, s)'
  <2>1. CASE t.clean
    BY <1>1, <1>4, <1>7, <1>14, <2>1 DEF ShownClean
  <2>2. CASE ~t.clean
    BY <1>1, <1>10, <1>14, <2>2 DEF ShownClean, CleanBelow
  <2> QED
    BY <2>1, <2>2
<1>15. WillBeInOrder(NoTask, s)'
  BY FreshTask DEF ForMessage
<1> QED
  BY <1>0, <1>2, <1>13, <1>14, <1>15, NoTaskFields, SnapMoves

\* A request that ends.
LEMMA EndsFields ==
  ASSUME WorkTypes, NEW q \in Requests, Ends(q)
  PROVE  /\ req' \in [Requests -> RequestRows] /\ req'[q].pc = "ended"
         /\ \A p \in Requests \ {q} : req'[p] = req[p]
         /\ SnapsFirst(q)'
<1>1. PICK e : e = [NoRequest EXCEPT !.pc = "ended"]
  OBVIOUS
<1>2. e \in RequestRows /\ e.pc = "ended"
  BY <1>1 DEF RequestRows, NoRequest, ForMessage
<1>3. req' = [req EXCEPT ![q] = e]
  BY <1>1 DEF Ends
<1>4. req' \in [Requests -> RequestRows] /\ req'[q] = e
      /\ \A p \in Requests \ {q} : req'[p] = req[p]
  BY <1>2, <1>3 DEF WorkTypes
<1> QED
  BY <1>2, <1>4 DEF SnapsFirst

LEMMA EndKeeps ==
  ASSUME AssistantInv, NEW q \in Requests, NEW s \in Subjects, Collides(q, s)
  PROVE  AssistantInv'
<1>0. /\ TablesInv /\ WorkTypes /\ UNCHANGED <<tables, msg, changed>>
      /\ snap' = [snap EXCEPT ![q][s] = NoTask] /\ Ends(q)
  BY DEF AssistantInv, Collides, Snap, history
<1>1. Keeps
  BY <1>0, TablesStay
<1>2. /\ snap' \in [Requests -> [Subjects -> Tasks]] /\ snap'[q][s] = NoTask
      /\ \A p \in Requests \ {q} : snap'[p] = snap[p]
      /\ \A x \in Subjects \ {s} : snap'[q][x] = snap[q][x]
  BY <1>0, TaskFields, NoTaskFields DEF WorkTypes
<1>3. /\ req' \in [Requests -> RequestRows] /\ \A p \in Requests \ {q} : req'[p] = req[p]
      /\ SnapsFirst(q)'
  BY <1>0, EndsFields
<1>4. WorkTypes' /\ ChatsStay /\ ActionsGiven'
  BY <1>0, <1>1, <1>2, <1>3, ActionsStay DEF WorkTypes, ChatsStay
<1>5. ASSUME NEW x \in Live' PROVE snap'[q][x] = snap[q][x] \/ WillBeInOrder(snap[q][x], x)'
  <2>1. x = s => WillBeInOrder(snap[q][x], x)'
    BY <1>2, NoTaskFields DEF WillBeInOrder
  <2> QED
    BY <1>2, <2>1 DEF Live
<1> QED
  BY <1>0, <1>1, <1>2, <1>3, <1>4, <1>5, OneRequest

\* A request that takes its message up, or fails.
LEMMA StartsKeep ==
  ASSUME AssistantInv, NEW q \in Requests, NEW m \in Messages,
         StartsApply(q, m) \/ StartsRevert(q, m)
  PROVE  AssistantInv'
<1>0. TablesInv /\ WorkTypes /\ UNCHANGED <<tables, msg, snap, changed>> /\ req[q] \in RequestRows
  BY RequestFields DEF AssistantInv, StartsApply, StartsRevert, history
<1>1. Keeps
  BY <1>0, TablesStay
<1>2. PICK R : /\ req' = [req EXCEPT ![q] = R] /\ R \in RequestRows
               /\ R.pc = "restore" \/ (R.pc = "resolve" /\ R.msg = m /\ msg[m].is = "stored")
  <2>1. CASE StartsApply(q, m)
    <3>1. PICK R : R = [req[q] EXCEPT !.pc = "resolve", !.msg = m]
      OBVIOUS
    <3>2. R \in RequestRows /\ R.pc = "resolve" /\ R.msg = m
      BY <1>0, <3>1 DEF RequestRows, ForMessage
    <3> QED
      BY <2>1, <3>1, <3>2 DEF StartsApply
  <2>2. CASE StartsRevert(q, m)
    <3>1. PICK T \in SUBSET VersionRows : T = {v \in versions : v.msg = m}
      BY <1>0 DEF TablesInv, TableTypes
    <3>2. PICK R : R = [req[q] EXCEPT !.pc = "restore", !.msg = m, !.todo = T]
      OBVIOUS
    <3>3. R \in RequestRows /\ R.pc = "restore"
      BY <1>0, <3>2 DEF RequestRows, ForMessage
    <3>4. req' = [req EXCEPT ![q] = R]
      BY <2>2, <3>1, <3>2 DEF StartsRevert
    <3> QED
      BY <3>3, <3>4
  <2> QED
    BY <2>1, <2>2
<1>3. /\ req' \in [Requests -> RequestRows] /\ req'[q] = R
      /\ \A p \in Requests \ {q} : req'[p] = req[p]
  BY <1>0, <1>2 DEF WorkTypes
<1>4. WorkTypes' /\ ChatsStay /\ ActionsGiven'
  BY <1>0, <1>1, <1>3, ActionsStay DEF WorkTypes, ChatsStay
<1>5. SnapsFirst(q)'
  BY <1>0, <1>2, <1>3 DEF SnapsFirst
<1> QED
  BY <1>0, <1>1, <1>3, <1>4, <1>5, OneRequest

LEMMA FailsKeep ==
  ASSUME AssistantInv, NEW q \in Requests, RequestFails(q)
  PROVE  AssistantInv'
<1>0. /\ TablesInv /\ WorkTypes /\ UNCHANGED <<tables, msg, changed>>
      /\ snap' = [snap EXCEPT ![q] = [s \in Subjects |-> NoTask]] /\ Ends(q)
  BY DEF AssistantInv, RequestFails, history
<1>1. Keeps
  BY <1>0, TablesStay
<1>2. /\ snap' \in [Requests -> [Subjects -> Tasks]]
      /\ \A s \in Subjects : snap'[q][s] = NoTask
      /\ \A p \in Requests \ {q} : snap'[p] = snap[p]
  BY <1>0, NoTaskFields DEF WorkTypes
<1>3. /\ req' \in [Requests -> RequestRows] /\ \A p \in Requests \ {q} : req'[p] = req[p]
      /\ SnapsFirst(q)'
  BY <1>0, EndsFields
<1>4. WorkTypes' /\ ChatsStay /\ ActionsGiven'
  BY <1>0, <1>1, <1>2, <1>3, ActionsStay DEF WorkTypes, ChatsStay
<1>5. ASSUME NEW x \in Live' PROVE WillBeInOrder(snap[q][x], x)'
  BY <1>2, NoTaskFields DEF WillBeInOrder, Live
<1> QED
  BY <1>0, <1>1, <1>2, <1>3, <1>4, <1>5, OneRequest

\* The message is marked, or a revert gives up.
LEMMA MarksKeeps ==
  ASSUME AssistantInv, NEW q \in Requests,
         Marks(q) \/ \E v \in req[q].todo : CannotRestore(q, v)
  PROVE  AssistantInv'
<1>0. TablesInv /\ WorkTypes /\ UNCHANGED <<tables, snap, changed>> /\ Ends(q)
  BY DEF AssistantInv, Marks, CannotRestore, history
<1>1. Keeps
  BY <1>0, TablesStay
<1>2. /\ msg' \in [Messages -> Chats]
      /\ \A m \in Messages : /\ msg'[m].is = msg[m].is /\ msg'[m].seen = msg[m].seen
                             /\ msg'[m].actions = msg[m].actions
  <2>1. CASE msg' = msg
    BY <1>0, <2>1 DEF WorkTypes
  <2>2. CASE Marks(q)
    <3>1. PICK m \in Messages : m = req[q].msg
      BY <2>2 DEF Marks, AssistantInv, SnapsFirst
    <3>2. PICK c : c = [msg[m] EXCEPT !.applied = TRUE]
      OBVIOUS
    <3>3. c \in Chats /\ c.is = msg[m].is /\ c.seen = msg[m].seen /\ c.actions = msg[m].actions
      BY <1>0, <3>2, ChatFields DEF Chats
    <3>4. msg' = [msg EXCEPT ![m] = c] /\ msg \in [Messages -> Chats]
      BY <1>0, <2>2, <3>1, <3>2 DEF Marks, WorkTypes
    <3> QED
      BY <3>3, <3>4
  <2> QED
    BY <2>1, <2>2 DEF CannotRestore
<1>3. /\ req' \in [Requests -> RequestRows] /\ \A p \in Requests \ {q} : req'[p] = req[p]
      /\ SnapsFirst(q)'
  BY <1>0, EndsFields
<1>4. WorkTypes' /\ ChatsStay /\ ActionsGiven'
  BY <1>0, <1>1, <1>2, <1>3, ActionsStay DEF WorkTypes, ChatsStay
<1> QED
  BY <1>0, <1>1, <1>3, <1>4, OneRequest

\* resolveAffectedSubjectIds: a snapshot starts of every subject an action is for.
LEMMA ResolvesKeeps ==
  ASSUME AssistantInv, NEW q \in Requests, Resolves(q)
  PROVE  AssistantInv'
<1>0. TablesInv /\ WorkTypes /\ UNCHANGED <<tables, msg, changed>> /\ req[q] \in RequestRows
  BY RequestFields DEF AssistantInv, Resolves, history
<1>1. Keeps
  BY <1>0, TablesStay
<1>2. PICK m \in Messages : m = req[q].msg /\ msg[m].is = "stored"
  BY DEF Resolves, AssistantInv, SnapsFirst
<1>3. PICK A : A = UNION {On(Actions(q)[i]) : i \in DOMAIN Actions(q)}
  OBVIOUS
<1>4. snap' = [snap EXCEPT ![q] = [s \in Subjects |-> IF s \in A THEN Task(m) ELSE NoTask]]
  BY <1>2, <1>3 DEF Resolves
<1>5. Task(m) \in Tasks /\ NoTask \in Tasks /\ Task(m).pc = "row" /\ Task(m).msg = m
  BY NoTaskFields DEF ForMessage
<1>6. /\ snap' \in [Requests -> [Subjects -> Tasks]]
      /\ \A s \in Subjects : snap'[q][s] = IF s \in A THEN Task(m) ELSE NoTask
      /\ \A p \in Requests \ {q} : snap'[p] = snap[p]
  BY <1>0, <1>4, <1>5 DEF WorkTypes
<1>7. PICK R : R = [req[q] EXCEPT !.pc = "snap"]
  OBVIOUS
<1>8. R \in RequestRows /\ R.msg = m
  BY <1>0, <1>2, <1>7 DEF RequestRows
<1>9. req' = [req EXCEPT ![q] = R]
  BY <1>7 DEF Resolves
<1>10. /\ req' \in [Requests -> RequestRows] /\ req'[q] = R
       /\ \A p \in Requests \ {q} : req'[p] = req[p]
  BY <1>0, <1>8, <1>9 DEF WorkTypes
<1>11. WorkTypes' /\ ChatsStay /\ ActionsGiven'
  BY <1>0, <1>1, <1>6, <1>10, ActionsStay DEF WorkTypes, ChatsStay
<1>12. ASSUME NEW x \in Live' PROVE WillBeInOrder(snap[q][x], x)'
  <2>1. x \in Subjects
    BY DEF Live
  <2>2. snap'[q][x] = Task(m) \/ snap'[q][x] = NoTask
    BY <1>6, <2>1
  <2>3. m \in ForMessage
    BY DEF ForMessage
  <2> QED
    BY <2>2, <2>3, NoTaskFields DEF WillBeInOrder
<1>13. SnapsFirst(q)'
  <2>1. subject' = subject /\ Live' = Live
    BY <1>0 DEF tables, Live
  <2>2. Actions(q)' = Actions(q)
    BY <1>0, <1>2, <1>8, <1>10 DEF Actions
  <2>3. ASSUME NEW i \in DOMAIN Actions(q), NEW s \in On(Actions(q)[i])' PROVE Storing(q, s)'
    <3>1. PICK a : a = Actions(q)[i] /\ a = Actions(q)'[i]
      BY <2>2
    <3>2. s \in On(a)
      BY <2>1, <2>3, <3>1 DEF On
    <3>a. On(a) \subseteq A
      BY <1>3, <3>1
    <3>b. On(a) \subseteq Subjects
      BY DEF On, Live
    <3>3. s \in A /\ s \in Subjects
      BY <3>2, <3>a, <3>b
    <3>4. snap'[q][s] = Task(m)
      BY <1>6, <3>3
    <3> QED
      BY <1>5, <1>8, <1>10, <3>4 DEF Storing
  <2> QED
    BY <1>0, <1>2, <1>8, <1>10, <2>2, <2>3 DEF SnapsFirst
<1> QED
  BY <1>0, <1>1, <1>6, <1>10, <1>11, <1>12, <1>13, OneRequest

\* What an action is for was stored when it runs.
LEMMA StoredFirst ==
  ASSUME AssistantInv, NEW q \in Requests, req[q].pc = "snap", Stored(q),
         NEW i \in DOMAIN Actions(q), NEW s \in On(Actions(q)[i])
  PROVE  ShownClean(req[q].msg, s)
<1>1. ShownClean(req[q].msg, s) \/ Storing(q, s)
  BY DEF AssistantInv, SnapsFirst
<1>2. PICK a : a = Actions(q)[i]
  OBVIOUS
<1>3. s \in Subjects
  BY <1>2 DEF On, Live
<1> QED
  BY <1>1, <1>3 DEF Stored, Storing

LEMMA ExecutesKeeps ==
  ASSUME AssistantInv, NEW q \in Requests, Executes(q)
  PROVE  AssistantInv'
<1>0. /\ TablesInv /\ WorkTypes /\ UNCHANGED <<msg, snap>> /\ req[q] \in RequestRows
      /\ req[q].pc = "snap" /\ Stored(q) /\ req[q].next \in DOMAIN Actions(q)
  BY RequestFields DEF AssistantInv, Executes
<1>1. PICK m \in Messages : m = req[q].msg
  BY <1>0 DEF AssistantInv, SnapsFirst
<1>2. PICK a : a = Actions(q)[req[q].next] /\ a.op \in OnSubjects \cup OnRules
  BY <1>0, ActionType
<1>3. /\ \A s \in On(a) : ShownClean(m, s)
      /\ On(a) \subseteq Subjects
  <2>1. ASSUME NEW s \in On(a) PROVE ShownClean(m, s)
    <3>1. ShownClean(req[q].msg, s)
      BY <1>0, <1>2, StoredFirst
    <3> QED
      BY <1>1, <3>1
  <2> QED
    BY <2>1 DEF On, Live
<1>4. \/ UNCHANGED <<tables, changed>>
      \/ Does(a, m) /\ changed' = [changed EXCEPT ![m] = @ \cup On(a)]
  <2>1. CASE Refused(a)
    BY <1>1, <1>2, <2>1 DEF Executes
  <2>2. CASE ~Refused(a)
    BY <1>1, <1>2, <2>2 DEF Executes
  <2> QED
    BY <2>1, <2>2
<1>5. Keeps
  BY <1>0, <1>2, <1>4, TablesStay, DoesKeeps DEF Texts
<1>6. PICK R : R = [req[q] EXCEPT !.next = @ + 1]
  OBVIOUS
<1>7. R \in RequestRows /\ R.pc = req[q].pc /\ R.msg = req[q].msg
  BY <1>0, <1>6 DEF RequestRows
<1>8. req' = [req EXCEPT ![q] = R]
  BY <1>6 DEF Executes
<1>9. /\ req' \in [Requests -> RequestRows] /\ req'[q] = R
      /\ \A p \in Requests \ {q} : req'[p] = req[p]
  BY <1>0, <1>7, <1>8 DEF WorkTypes
<1>10. /\ changed' \in [Messages -> SUBSET Subjects]
       /\ \A n \in Messages : changed[n] \subseteq changed'[n]
       /\ \A n \in Messages : \A s \in changed'[n] : s \in changed[n] \/ (n = m /\ s \in On(a))
  <2>1. changed \in [Messages -> SUBSET Subjects]
    BY <1>0 DEF WorkTypes
  <2> QED
    BY <1>3, <1>4, <2>1
<1>11. WorkTypes' /\ ChatsStay /\ ActionsGiven'
  BY <1>0, <1>5, <1>9, <1>10, ActionsStay DEF WorkTypes, ChatsStay
<1>12. \A n \in Messages : \A s \in changed'[n] \cap Live' :
         s \in changed[n] \/ ShownClean(n, s)'
  BY <1>3, <1>5, <1>10, KeptShown
<1>13. SnapsFirst(q)'
  <2>1. \A s \in Live' : Storing(q, s) => Storing(q, s)'
    BY <1>0, <1>7, <1>9 DEF Storing
  <2> QED
    BY <1>5, <1>7, <1>9, <1>11, <2>1, KeptRequest
<1> QED
  BY <1>0, <1>5, <1>9, <1>10, <1>11, <1>12, <1>13, OneRequest

LEMMA RestoresInv ==
  ASSUME AssistantInv, NEW q \in Requests, NEW v \in req[q].todo, Restores(q, v)
  PROVE  AssistantInv'
<1>0. /\ TablesInv /\ WorkTypes /\ UNCHANGED <<versions, msg, changed>> /\ req[q] \in RequestRows
      /\ v \in VersionRows /\ v.subject \in Subjects
  <2>1. v \in VersionRows
    BY RequestFields DEF AssistantInv
  <2> QED
    BY <2>1, RequestFields DEF AssistantInv, Restores, VersionRows
<1>1. Keeps
  <2>1. /\ ids' = ids + Cardinality(v.rules)
        /\ subject' = [subject EXCEPT ![v.subject] =
             IF @.live THEN [@ EXCEPT !.row = v.row, !.rules = Fresh(v.rules)] ELSE @]
    BY DEF Restores
  <2> QED
    BY <1>0, <2>1, RestoresKeeps
<1>2. PICK t : t = Task(Nobody)
  OBVIOUS
<1>3. t \in Tasks /\ \A s : WillBeInOrder(Task(Nobody), s)'
  BY <1>2, NoTaskFields, FreshTask DEF ForMessage
<1>4. /\ snap' \in [Requests -> [Subjects -> Tasks]] /\ snap'[q][v.subject] = Task(Nobody)
      /\ \A p \in Requests \ {q} : snap'[p] = snap[p]
      /\ \A x \in Subjects \ {v.subject} : snap'[q][x] = snap[q][x]
  <2>1. snap' = [snap EXCEPT ![q][v.subject] = t]
    BY <1>2 DEF Restores
  <2> QED
    BY <1>0, <1>2, <1>3, <2>1, TaskFields DEF WorkTypes
<1>5. PICK R : R = [req[q] EXCEPT !.todo = @ \ {v}]
  OBVIOUS
<1>6. R \in RequestRows /\ R.pc = "restore"
  BY <1>0, <1>5 DEF RequestRows, Restores
<1>7. /\ req' \in [Requests -> RequestRows] /\ req'[q] = R
      /\ \A p \in Requests \ {q} : req'[p] = req[p]
  <2>1. req' = [req EXCEPT ![q] = R]
    BY <1>5 DEF Restores
  <2> QED
    BY <1>0, <1>6, <2>1 DEF WorkTypes
<1>8. WorkTypes' /\ ChatsStay /\ ActionsGiven'
  BY <1>0, <1>1, <1>4, <1>7, ActionsStay DEF WorkTypes, ChatsStay
<1>9. SnapsFirst(q)'
  BY <1>6, <1>7 DEF SnapsFirst
<1>10. ASSUME NEW x \in Live' PROVE snap'[q][x] = snap[q][x] \/ WillBeInOrder(snap[q][x], x)'
  <2>1. x = v.subject => WillBeInOrder(snap[q][x], x)'
    BY <1>3, <1>4 DEF WillBeInOrder
  <2> QED
    BY <1>4, <2>1 DEF Live
<1> QED
  BY <1>0, <1>1, <1>4, <1>7, <1>8, <1>9, <1>10, OneRequest

LEMMA AssistantStarts == AssistantInit => AssistantInv
<1> SUFFICES ASSUME AssistantInit PROVE AssistantInv
  OBVIOUS
<1>1. DOMAIN First = 1..Len(First) /\ Len(First) \in Nat /\ ids = Len(First)
  BY AssistantAssumption DEF AssistantInit
<1>2. ASSUME NEW s \in Subjects
      PROVE  subject[s] \in SubjectRows /\ \A r \in subject[s].rules : r.id <= ids
  <2> DEFINE D == {j \in DOMAIN First : First[j] = s}
             f == [i \in D |-> [id |-> i, text |-> "old", active |-> TRUE]]
             R == {f[i] : i \in D}
  <2>1. IsFiniteSet(D)
    <3>1. D \in SUBSET (1..Len(First)) /\ IsFiniteSet(1..Len(First))
      BY <1>1, FS_Interval
    <3> HIDE DEF D
    <3> QED
      BY <3>1, FS_Subset
  <2>2. \A i \in D : f[i] \in RuleRows /\ f[i].id = i /\ i <= ids
    BY <1>1 DEF RuleRows, Texts
  <2>3. subject[s] = [live |-> TRUE, row |-> "old", scope |-> "old", rules |-> R]
    BY DEF AssistantInit
  <2>4. f \in Surjection(D, R)
    BY DEF Surjection
  <2> HIDE DEF f, D
  <2>5. IsFiniteSet(R)
    <3> HIDE DEF R
    <3> QED
      BY <2>1, <2>4, FS_Surjection
  <2>6. R \in RuleSets /\ \A r \in R : r.id <= ids
    BY <2>2, <2>5 DEF RuleSets
  <2> HIDE DEF R
  <2> QED
    BY <2>3, <2>6 DEF SubjectRows, Texts
<1>3. TablesInv
  <2>1. subject \in [Subjects -> SubjectRows]
    BY <1>2 DEF AssistantInit
  <2>2. versions = {} /\ IsFiniteSet({})
    BY FS_EmptySet DEF AssistantInit
  <2> QED
    BY <1>1, <1>2, <2>1, <2>2 DEF TablesInv, TableTypes, RulesGiven, VersionsInOrder
<1>4. WorkTypes
  <2>1. NoRequest \in RequestRows
    BY DEF NoRequest, RequestRows, ForMessage
  <2>2. [is |-> "none", seen |-> {}, actions |-> <<>>, applied |-> FALSE] \in Chats
    BY DEF Chats
  <2> QED
    BY <2>1, <2>2, NoTaskFields DEF AssistantInit, WorkTypes
<1>5. ActionsGiven /\ ChangedIsShown /\ \A q \in Requests : SnapsFirst(q)
  BY DEF AssistantInit, ActionsGiven, ChangedIsShown, SnapsFirst, NoRequest
<1>6. TasksInOrder
  BY NoTaskFields DEF AssistantInit, TasksInOrder, WillBeInOrder, Live
<1> QED
  BY <1>3, <1>4, <1>5, <1>6 DEF AssistantInv

LEMMA AssistantStep == AssistantInv /\ [AssistantNext]_assistantVars => AssistantInv'
<1> SUFFICES ASSUME AssistantInv, [AssistantNext]_assistantVars PROVE AssistantInv'
  OBVIOUS
<1>1. CASE UNCHANGED assistantVars
  <2>1. TablesInv /\ WorkTypes /\ UNCHANGED <<tables, msg, req, snap, changed>>
    BY <1>1 DEF AssistantInv, assistantVars, history
  <2>2. Keeps
    BY <2>1, TablesStay
  <2>3. WorkTypes' /\ ChatsStay /\ ActionsGiven'
    BY <2>1, <2>2, ActionsStay DEF WorkTypes, ChatsStay
  <2>4. \A q \in Requests : SnapsFirst(q)'
    BY <2>1, <2>2, <2>3, RequestsStay
  <2> QED
    BY <2>1, <2>2, <2>3, <2>4, StepKeeps
<1>2. ASSUME NEW q \in Requests, NEW s \in Subjects, SnapStep(q, s) PROVE AssistantInv'
  BY <1>2, ReadsKeeps, InsertsKeeps, EndKeeps DEF SnapStep
<1>3. Applies \subseteq Requests /\ Reverts \subseteq Requests
  BY DEF Requests
<1>4. ASSUME NEW q \in Applies, Resolves(q) \/ Executes(q) \/ Marks(q) PROVE AssistantInv'
  BY <1>3, <1>4, ResolvesKeeps, ExecutesKeeps, MarksKeeps
<1>5. ASSUME NEW q \in Reverts, NEW v \in req[q].todo, Restores(q, v) \/ CannotRestore(q, v)
      PROVE  AssistantInv'
  BY <1>3, <1>5, RestoresInv, MarksKeeps
<1>6. ASSUME NEW m \in Messages, NEW q \in Requests, StartsApply(q, m) \/ StartsRevert(q, m)
      PROVE  AssistantInv'
  BY <1>6, StartsKeep
<1> QED
  BY <1>1, <1>2, <1>3, <1>4, <1>5, <1>6, AsksKeeps, AnswersKeeps, EditsKeeps, FailsKeep
     DEF AssistantNext

(* The assistant's invariant: versions are stored in order, and what a     *)
(* message changed has a version of before.                                *)
THEOREM AssistantInvHolds == AssistantSpec => []AssistantInv
  BY AssistantStarts, AssistantStep, PTL DEF AssistantSpec

(* What a message changed can be put back: of every subject that it        *)
(* changed and that is there a version was stored before the change, and   *)
(* the first of the message's versions is such a one                       *)
(* (assistant/router.ts:92-103).                                           *)
THEOREM AssistantRevertible == AssistantSpec => []RevertibleToBefore
<1>1. AssistantInv => RevertibleToBefore
  <2> SUFFICES ASSUME AssistantInv, NEW m \in Messages, NEW s \in changed[m] \cap Live
               PROVE  \E v \in Of(s) : /\ v.msg = m /\ v.clean
                                       /\ \A w \in Of(s) : w.msg = m => v.version <= w.version
    BY DEF RevertibleToBefore
  <2> DEFINE V == {v \in Of(s) : v.msg = m /\ v.clean}
             T == {v.version : v \in V}
  <2>1. \A v \in Of(s) : InOrder(v) /\ v.version \in Nat /\ v.subject = s
    <3>1. \A v \in Of(s) : v \in versions /\ v.subject = s /\ v \in VersionRows
      BY DEF AssistantInv, TablesInv, TableTypes, Of
    <3> QED
      BY <3>1 DEF AssistantInv, TablesInv, VersionsInOrder, VersionRows
  <2>2. T # {} /\ T \subseteq Nat
    BY <2>1 DEF AssistantInv, ChangedIsShown, ShownClean
  <2>3. PICK n \in T : \A k \in T : n <= k
    <3> HIDE DEF T
    <3> QED
      BY <2>2, LeastElement
  <2>4. PICK v \in V : v.version = n
    OBVIOUS
  <2>5. ASSUME NEW w \in Of(s), w.msg = m PROVE v.version <= w.version
    <3>1. CASE w.clean
      BY <2>3, <2>4, <2>5, <3>1
    <3>2. CASE ~w.clean
      <4>1. PICK u \in Of(s) : u.msg = m /\ u.clean /\ u.version < w.version
        BY <2>1, <2>5, <3>2 DEF InOrder, CleanBelow
      <4>2. n <= u.version
        BY <2>3, <4>1
      <4> QED
        BY <2>1, <2>2, <2>4, <4>1, <4>2
    <3> QED
      BY <3>1, <3>2
  <2> QED
    BY <2>4, <2>5
<1> QED
  BY <1>1, AssistantInvHolds, PTL

-----------------------------------------------------------------------------
(* What a revert puts back has the content of the version.                 *)

LEMMA FreshIsOneToOne ==
  ASSUME NEW R \in RuleSets, ids \in Nat
  PROVE  \E f \in Bijection(R, Fresh(R)) :
           \A r \in R : f[r].text = r.text /\ f[r].active = r.active
<1> DEFINE below(r) == {q \in R : q.id <= r.id}
           rank(r) == Cardinality(below(r))
           f == [r \in R |-> [r EXCEPT !.id = ids + rank(r)]]
<1>1. IsFiniteSet(R) /\ \A r \in R : r \in RuleRows /\ r.id \in Nat
  BY DEF RuleSets, RuleRows
<1>2. ASSUME NEW r \in R PROVE IsFiniteSet(below(r)) /\ rank(r) \in Nat
  <2>1. below(r) \in SUBSET R
    OBVIOUS
  <2> QED
    BY <1>1, <2>1, FS_Subset, FS_CardinalityType
<1>3. ASSUME NEW r \in R, NEW p \in R, r.id < p.id PROVE rank(r) < rank(p)
  <2>1. below(r) \in SUBSET (below(p) \ {p}) /\ p \in below(p)
    BY <1>1, <1>3
  <2>2. /\ IsFiniteSet(below(p) \ {p})
        /\ Cardinality(below(p) \ {p}) = rank(p) - 1
    <3> HIDE DEF below
    <3> QED
      BY <1>2, <2>1, FS_RemoveElement DEF rank
  <2>3. rank(r) <= Cardinality(below(p) \ {p})
    <3> HIDE DEF below
    <3> QED
      BY <2>1, <2>2, FS_Subset DEF rank
  <2>4. rank(r) \in Nat /\ rank(p) \in Nat
    BY <1>2
  <2> HIDE DEF rank, below
  <2> QED
    BY <2>2, <2>3, <2>4
<1> HIDE DEF rank
<1>4. ASSUME NEW r \in R
      PROVE  /\ f[r].id = ids + rank(r) /\ f[r].text = r.text /\ f[r].active = r.active
  BY <1>1 DEF RuleRows
<1>a. Fresh(R) = {f[r] : r \in R} /\ DOMAIN f = R
  BY DEF Fresh, rank
<1> HIDE DEF f, below
<1>5. ASSUME NEW r \in R, NEW p \in R, f[r] = f[p] PROVE r = p
  <2>1. r.text = p.text /\ r.active = p.active /\ ids + rank(r) = ids + rank(p)
    BY <1>4, <1>5
  <2>2. rank(r) = rank(p)
    BY <1>2, <2>1
  <2>3. ~(r.id < p.id) /\ ~(p.id < r.id)
    BY <1>2, <1>3, <2>2
  <2>4. r.id = p.id
    BY <1>1, <2>3
  <2> QED
    BY <1>1, <2>1, <2>4 DEF RuleRows
<1>6. f \in [R -> Fresh(R)] /\ \A t \in Fresh(R) : \E r \in R : f[r] = t
  <2>1. \A r \in R : f[r] \in Fresh(R)
    BY <1>a
  <2>2. f = [r \in R |-> f[r]]
    BY DEF f
  <2> QED
    BY <1>a, <2>1, <2>2
<1>7. f \in Bijection(R, Fresh(R))
  BY <1>5, <1>6 DEF Bijection, Injection, Surjection, IsInjective
<1> QED
  BY <1>4, <1>7

LEMMA SameContent ==
  ASSUME NEW x, NEW y, x.row = y.row, IsFiniteSet(x.rules),
         NEW f \in Bijection(x.rules, y.rules),
         \A r \in x.rules : f[r].text = r.text /\ f[r].active = r.active
  PROVE  Content(y) = Content(x)
<1> DEFINE on(z) == {q \in z.rules : q.active}
           with(z, t) == {r \in z.rules : r.active /\ r.text = t}
           texts(z) == {r.text : r \in on(z)}
<1>1. /\ f \in [x.rules -> y.rules]
      /\ \A r, p \in x.rules : f[r] = f[p] => r = p
      /\ \A t \in y.rules : \E r \in x.rules : f[r] = t
  BY DEF Bijection, Injection, Surjection, IsInjective
<1>2. texts(x) = texts(y)
  BY <1>1
<1>3. ASSUME NEW t PROVE Cardinality(with(x, t)) = Cardinality(with(y, t))
  <2> DEFINE S == with(x, t)
             T == with(y, t)
             g == [r \in S |-> f[r]]
  <2>1. g \in [S -> T] /\ \A r, p \in S : g[r] = g[p] => r = p
    BY <1>1
  <2>2. \A u \in T : \E r \in S : g[r] = u
    BY <1>1
  <2>3. S \in SUBSET x.rules
    OBVIOUS
  <2> HIDE DEF S, T, g
  <2>4. g \in Bijection(S, T)
    BY <2>1, <2>2 DEF Bijection, Injection, Surjection, IsInjective
  <2>5. Cardinality(T) = Cardinality(S)
    BY <2>3, <2>4, FS_Subset, FS_Bijection DEF ExistsBijection
  <2> QED
    BY <2>5 DEF S, T
<1>4. /\ Content(x) = [row |-> x.row, rules |-> [t \in texts(x) |-> Cardinality(with(x, t))]]
      /\ Content(y) = [row |-> y.row, rules |-> [t \in texts(y) |-> Cardinality(with(y, t))]]
  BY DEF Content
<1> HIDE DEF texts, with, on
<1>5. [t \in texts(x) |-> Cardinality(with(x, t))] = [t \in texts(y) |-> Cardinality(with(y, t))]
  BY <1>2, <1>3
<1> QED
  BY <1>4, <1>5

LEMMA ActiveContent ==
  ASSUME NEW u, NEW x, u.row = x.row, u.rules = {r \in x.rules : r.active}
  PROVE  Content(u) = Content(x)
<1>1. {q \in u.rules : q.active} = {q \in x.rules : q.active}
  OBVIOUS
<1>2. \A t : {r \in u.rules : r.active /\ r.text = t} = {r \in x.rules : r.active /\ r.text = t}
  OBVIOUS
<1> QED
  BY <1>1, <1>2 DEF Content

-----------------------------------------------------------------------------
(* What every step leaves of what versions show.                           *)

\* Nobody changes the subject, and what is stored of it goes on as it should.
LEMMA PairStays ==
  ASSUME NEW m \in Messages, NEW s \in Subjects, ShownOf(m, s),
         subject'[s] = subject[s], s \in changed'[m] <=> s \in changed[m],
         before'[m][s] = before[m][s],
         \A v \in Of(s)' : v.msg = m => v \in Of(s) \/ (ShowsRow(v, m, s) /\ Shows(v, m, s)),
         \A q \in Requests : snap'[q][s].msg = m =>
           snap'[q][s] = snap[q][s] \/ TaskShows(snap'[q][s], m, s)
  PROVE  ShownOf(m, s)'
<1>1. ASSUME NEW u PROVE /\ ShowsRow(u, m, s) => ShowsRow(u, m, s)'
                         /\ Shows(u, m, s) => Shows(u, m, s)'
                         /\ TaskShows(u, m, s) => TaskShows(u, m, s)'
  BY DEF ShowsRow, Shows, TaskShows, Content
<1>2. \A v \in Of(s)' : v.msg = m => ShowsRow(v, m, s)' /\ Shows(v, m, s)'
  BY <1>1 DEF ShownOf
<1>3. ASSUME NEW q \in Requests, snap'[q][s].msg = m PROVE TaskShows(snap[q][s], m, s)'
  <2>1. PICK u : u = snap'[q][s]
    OBVIOUS
  <2>2. TaskShows(u, m, s)
    BY <1>3, <2>1 DEF ShownOf
  <2>3. TaskShows(u, m, s)'
    BY <1>1, <2>2
  <2> QED
    BY <2>1, <2>3 DEF TaskShows, ShowsRow, Shows
<1> QED
  BY <1>2, <1>3 DEF ShownOf

\* Another writes the subject, and nothing is waiting for the message.
LEMMA PairCrossed ==
  ASSUME ForMessages, NEW m \in Messages, NEW s \in Subjects, ShownOf(m, s), ~Waits(m, s),
         changed'[m] = changed[m], before'[m][s] = before[m][s], Of(s)' \subseteq Of(s),
         \A q \in Requests : snap'[q][s].msg = m => snap'[q][s] = snap[q][s]
  PROVE  ShownOf(m, s)'
<1>1. CASE s \in changed[m]
  <2>1. ASSUME NEW u PROVE /\ ShowsRow(u, m, s)'
                           /\ Shows(u, m, s) => Shows(u, m, s)'
                           /\ TaskShows(u, m, s) => TaskShows(u, m, s)'
    BY <1>1 DEF ShowsRow, Shows, TaskShows, Content
  <2>2. ASSUME NEW q \in Requests, snap'[q][s].msg = m PROVE TaskShows(snap[q][s], m, s)'
    <3>1. PICK u : u = snap'[q][s] /\ u = snap[q][s]
      BY <2>2
    <3>2. TaskShows(u, m, s)'
      BY <2>1, <2>2, <3>1 DEF ShownOf
    <3> QED
      BY <3>1, <3>2 DEF TaskShows, ShowsRow, Shows
  <2> QED
    BY <2>1, <2>2 DEF ShownOf
<1>2. CASE s \notin changed[m]
  <2>1. \A v \in Of(s) : v.msg # m
    BY <1>2 DEF Waits, Of
  <2>2. \A q \in Requests : snap[q][s].msg # m
    BY <1>2 DEF Waits, ForMessages
  <2>3. \A q \in Requests : snap'[q][s].msg # m
    BY <2>2
  <2> QED
    BY <2>1, <2>3 DEF ShownOf
<1> QED
  BY <1>1, <1>2

\* The message's own change.
LEMMA PairChanges ==
  ASSUME NEW m \in Messages, NEW s \in Subjects, ShownOf(m, s), s \in changed'[m],
         before'[m][s] = (IF s \in changed[m] THEN before[m][s] ELSE Content(subject[s])),
         Of(s)' \subseteq Of(s), \A q \in Requests : snap'[q][s] = snap[q][s]
  PROVE  ShownOf(m, s)'
<1>1. ASSUME NEW u, ShowsRow(u, m, s), Shows(u, m, s) PROVE ShowsRow(u, m, s)' /\ Shows(u, m, s)'
  <2>1. CASE s \in changed[m]
    BY <1>1, <2>1 DEF ShowsRow, Shows, Content
  <2>2. CASE s \notin changed[m]
    <3>1. Content(u) = Content(subject[s])
      BY <1>1, <2>2, ActiveContent DEF ShowsRow, Shows
    <3>2. before'[m][s] = Content(u)
      BY <2>2, <3>1
    <3>3. Content(u)' = Content(u)
      BY DEF Content
    <3> QED
      BY <3>2, <3>3 DEF ShowsRow, Shows
  <2> QED
    BY <2>1, <2>2
<1>2. ASSUME NEW q \in Requests, snap'[q][s].msg = m PROVE TaskShows(snap[q][s], m, s)'
  <2>1. PICK u : u = snap'[q][s] /\ u = snap[q][s]
    OBVIOUS
  <2>2. TaskShows(u, m, s)
    BY <1>2, <2>1 DEF ShownOf
  <2>3. ShowsRow(u, m, s)'
    BY DEF ShowsRow
  <2>4. u.pc \in {"version", "insert"} => Shows(u, m, s)'
    BY <1>1, <2>2 DEF TaskShows
  <2> QED
    BY <2>1, <2>3, <2>4 DEF TaskShows, ShowsRow, Shows
<1> QED
  BY <1>1, <1>2 DEF ShownOf

\* A step that writes no subject.
LEMMA QuietKeeps ==
  ASSUME RestoreInv, UNCHANGED <<subject, changed, before, crossed>>, ForMessages',
         \A m \in Messages : \A s \in Live : ShownOf(m, s) =>
           /\ \A v \in Of(s)' : v.msg = m => v \in Of(s) \/ (ShowsRow(v, m, s) /\ Shows(v, m, s))
           /\ \A q \in Requests : snap'[q][s].msg = m =>
                snap'[q][s] = snap[q][s] \/ TaskShows(snap'[q][s], m, s)
  PROVE  RestoreInv'
<1>1. Live' = Live /\ Live \subseteq Subjects
  BY DEF Live
<1>2. ASSUME NEW m \in Messages, NEW s \in Live, <<m, s>> \notin crossed PROVE ShownOf(m, s)'
  <2>1. ShownOf(m, s)
    BY <1>2 DEF RestoreInv
  <2> QED
    BY <1>1, <2>1, PairStays
<1> QED
  BY <1>1, <1>2 DEF RestoreInv

\* A step that writes the subjects in S.
LEMMA WriteKeeps ==
  ASSUME RestoreInv, ForMessages', NEW S, NEW who, Crosses(S, who), Live' \subseteq Live,
         DOMAIN before' = Messages,
         \A s \in Subjects \ S : subject'[s] = subject[s],
         \A s \in Subjects : Of(s)' \subseteq Of(s),
         \A m \in Messages \ {who} : changed'[m] = changed[m] /\ before'[m] = before[m],
         who \in Messages => \A s \in Subjects :
           /\ s \in changed'[who] <=> s \in changed[who] \cup S
           /\ before'[who][s] = IF s \in S \ changed[who] THEN Content(subject[s])
                                ELSE before[who][s],
         \A q \in Requests : \A s \in Subjects :
           snap'[q][s] = snap[q][s] \/ (who \notin Messages /\ snap'[q][s].msg \notin Messages)
  PROVE  RestoreInv'
<1>1. ASSUME NEW m \in Messages, NEW s \in Live', <<m, s>> \notin crossed' PROVE ShownOf(m, s)'
  <2>1. s \in Live /\ s \in Subjects /\ <<m, s>> \notin crossed
    BY <1>1 DEF Live, Crosses
  <2>2. ShownOf(m, s) /\ ForMessages
    BY <2>1 DEF RestoreInv
  <2>3. \A q \in Requests : snap'[q][s].msg = m => snap'[q][s] = snap[q][s]
    BY <2>1
  <2>4. CASE m # who
    <3>1. changed'[m] = changed[m] /\ before'[m][s] = before[m][s]
      BY <2>4
    <3>2. CASE s \in S
      <4>1. ~Waits(m, s)
        <5>1. PICK p : p = <<m, s>>
          OBVIOUS
        <5>2. p \in (Messages \ {who}) \X S /\ p[1] = m /\ p[2] = s
          BY <2>4, <3>2, <5>1
        <5> QED
          BY <1>1, <5>1, <5>2 DEF Crosses
      <4> QED
        BY <2>1, <2>2, <2>3, <3>1, <4>1, PairCrossed
    <3>3. CASE s \notin S
      BY <2>1, <2>2, <2>3, <3>1, <3>3, PairStays
    <3> QED
      BY <3>2, <3>3
  <2>5. CASE m = who
    <3>1. \A q \in Requests : snap'[q][s] = snap[q][s]
      BY <2>1, <2>5
    <3>2. CASE s \in S
      BY <2>1, <2>2, <2>5, <3>1, <3>2, PairChanges
    <3>3. CASE s \notin S
      <4>1. /\ s \in changed'[m] <=> s \in changed[m]
            /\ before'[m][s] = before[m][s] /\ subject'[s] = subject[s]
        BY <2>1, <2>5, <3>3
      <4> QED
        BY <2>1, <2>2, <3>1, <4>1, PairStays
    <3> QED
      BY <3>2, <3>3
  <2> QED
    BY <2>4, <2>5
<1> QED
  BY <1>1 DEF RestoreInv

-----------------------------------------------------------------------------
(* The steps.                                                              *)

\* Tasks that go on keep their message, and only those of messages are put back.
LEMMA StillForMessages ==
  ASSUME RestoreInv,
         \A q \in Requests : \A s \in Subjects :
           \/ snap'[q][s].msg = snap[q][s].msg
           \/ snap'[q][s].msg \in Messages => q \in Applies,
         \A q \in Requests : \A v \in req'[q].todo : v \in req[q].todo \/ v.msg \in Messages
  PROVE  ForMessages'
BY DEF RestoreInv, ForMessages

LEMMA OneRequestMoves ==
  ASSUME WorkTypes, RestoreInv, NEW q \in Requests, NEW R, req' = [req EXCEPT ![q] = R],
         \A v \in R.todo : v \in req[q].todo \/ v.msg \in Messages
  PROVE  \A p \in Requests : \A v \in req'[p].todo : v \in req[p].todo \/ v.msg \in Messages
<1>1. req'[q] = R /\ \A p \in Requests \ {q} : req'[p] = req[p]
  BY DEF WorkTypes
<1> QED
  BY <1>1

LEMMA EndsRestore ==
  ASSUME WorkTypes, RestoreInv, NEW q \in Requests, Ends(q)
  PROVE  \A p \in Requests : \A v \in req'[p].todo : v \in req[p].todo \/ v.msg \in Messages
<1>1. PICK R : R = [NoRequest EXCEPT !.pc = "ended"]
  OBVIOUS
<1>2. R.todo = {} /\ req' = [req EXCEPT ![q] = R]
  BY <1>1 DEF Ends, NoRequest
<1> QED
  BY <1>2, OneRequestMoves

\* No task has read anything by the step.
LEMMA NothingRead ==
  ASSUME WorkTypes, RestoreInv, UNCHANGED <<subject, versions, changed, before, crossed>>,
         \A q \in Requests : \A s \in Subjects :
           \/ snap'[q][s] = snap[q][s]
           \/ /\ snap'[q][s].pc \in {"none", "row"}
              /\ snap'[q][s].msg \in Messages => q \in Applies,
         \A q \in Requests : \A v \in req'[q].todo : v \in req[q].todo \/ v.msg \in Messages
  PROVE  RestoreInv'
<1>1. ForMessages'
  BY StillForMessages
<1>2. \A s : Of(s)' = Of(s)
  BY DEF Of
<1>3. ASSUME NEW q \in Requests, NEW s \in Subjects, NEW m,
             snap'[q][s].pc \in {"none", "row"}
      PROVE  TaskShows(snap'[q][s], m, s)
  BY <1>3 DEF TaskShows
<1> QED
  BY <1>1, <1>2, <1>3, QuietKeeps DEF Live

LEMMA ChatsRestore ==
  ASSUME AssistantInv, RestoreInv, NEW m \in Messages,
         Asks(m) \/ Answers(m) \/ \E q \in Requests : StartsApply(q, m) \/ StartsRevert(q, m)
  PROVE  RestoreInv'
<1>1. UNCHANGED <<subject, versions, changed, before, crossed, snap>> /\ WorkTypes
  BY DEF Asks, Answers, StartsApply, StartsRevert, tables, history, AssistantInv
<1>2. \A p \in Requests : \A v \in req'[p].todo : v \in req[p].todo \/ v.msg \in Messages
  <2>1. CASE Asks(m) \/ Answers(m)
    BY <2>1 DEF Asks, Answers
  <2>2. ASSUME NEW q \in Requests, StartsApply(q, m)
        PROVE  \A p \in Requests : \A v \in req'[p].todo : v \in req[p].todo \/ v.msg \in Messages
    <3>1. PICK R : R = [req[q] EXCEPT !.pc = "resolve", !.msg = m]
      OBVIOUS
    <3>2. R.todo = req[q].todo
      BY <1>1, <3>1, RequestFields DEF RequestRows
    <3>3. req' = [req EXCEPT ![q] = R]
      BY <2>2, <3>1 DEF StartsApply
    <3> QED
      BY <1>1, <3>2, <3>3, OneRequestMoves
  <2>3. ASSUME NEW q \in Requests, StartsRevert(q, m)
        PROVE  \A p \in Requests : \A v \in req'[p].todo : v \in req[p].todo \/ v.msg \in Messages
    <3>1. PICK T : T = {v \in versions : v.msg = m}
      OBVIOUS
    <3>2. PICK R : R = [req[q] EXCEPT !.pc = "restore", !.msg = m, !.todo = T]
      OBVIOUS
    <3>3. \A v \in R.todo : v.msg \in Messages
      BY <1>1, <3>1, <3>2, RequestFields DEF RequestRows
    <3>4. req' = [req EXCEPT ![q] = R]
      BY <2>3, <3>1, <3>2 DEF StartsRevert
    <3> QED
      BY <1>1, <3>3, <3>4, OneRequestMoves
  <2> QED
    BY <2>1, <2>2, <2>3
<1> QED
  BY <1>1, <1>2, NothingRead

\* One snapshot goes on.
LEMMA OneTaskMoves ==
  ASSUME WorkTypes, RestoreInv, NEW q \in Requests, NEW s \in Subjects, NEW u,
         snap' = [snap EXCEPT ![q][s] = u], u.msg = snap[q][s].msg \/ u.msg \notin Messages,
         UNCHANGED <<subject, changed, before, crossed>>,
         \A p \in Requests : \A v \in req'[p].todo : v \in req[p].todo \/ v.msg \in Messages,
         \A x \in Subjects : \A v \in Of(x)' :
           v \in Of(x) \/ (x = s /\ v.row = snap[q][s].row /\ v.rules = snap[q][s].rules
                           /\ v.clean = snap[q][s].clean /\ v.msg = snap[q][s].msg
                           /\ snap[q][s].pc = "insert"),
         \A m \in Messages : /\ s \in Live /\ u.msg = m /\ snap[q][s].msg = m
                             /\ TaskShows(snap[q][s], m, s)
                             => TaskShows(u, m, s)
  PROVE  RestoreInv'
<1>1. /\ snap'[q][s] = u
      /\ \A p \in Requests : \A x \in Subjects : p # q \/ x # s => snap'[p][x] = snap[p][x]
  BY TaskFields DEF WorkTypes
<1>2. ForMessages'
  <2>1. \A p \in Requests : \A x \in Subjects :
          \/ snap'[p][x].msg = snap[p][x].msg
          \/ snap'[p][x].msg \in Messages => p \in Applies
    BY <1>1
  <2> QED
    BY <2>1, StillForMessages
<1>3. ASSUME NEW m \in Messages, NEW x \in Live, ShownOf(m, x), NEW v \in Of(x)', v.msg = m
      PROVE  v \in Of(x) \/ (ShowsRow(v, m, x) /\ Shows(v, m, x))
  <2>1. ASSUME v \notin Of(x) PROVE ShowsRow(v, m, x) /\ Shows(v, m, x)
    <3>1. PICK t : t = snap[q][s]
      OBVIOUS
    <3>2. /\ x = s /\ v.row = t.row /\ v.rules = t.rules /\ v.clean = t.clean
          /\ v.msg = t.msg /\ t.pc = "insert"
      BY <1>3, <2>1, <3>1 DEF Live
    <3>3. ShowsRow(t, m, s) /\ Shows(t, m, s)
      BY <1>3, <3>1, <3>2 DEF ShownOf, TaskShows
    <3>4. Content(v) = Content(t)
      BY <3>2 DEF Content
    <3> QED
      BY <3>2, <3>3, <3>4 DEF ShowsRow, Shows
  <2> QED
    BY <2>1
<1>4. ASSUME NEW m \in Messages, NEW x \in Live, ShownOf(m, x), NEW p \in Requests,
             snap'[p][x].msg = m
      PROVE  snap'[p][x] = snap[p][x] \/ TaskShows(snap'[p][x], m, x)
  <2>1. CASE p = q /\ x = s
    <3>1. u.msg = m /\ snap[q][s].msg = m
      BY <1>1, <1>4, <2>1
    <3>2. TaskShows(snap[q][s], m, s)
      BY <1>4, <2>1, <3>1 DEF ShownOf
    <3>3. TaskShows(u, m, s)
      BY <1>4, <2>1, <3>1, <3>2
    <3> QED
      BY <1>1, <2>1, <3>3
  <2>2. CASE ~(p = q /\ x = s)
    BY <1>1, <2>2 DEF Live
  <2> QED
    BY <2>1, <2>2
<1> QED
  BY <1>2, <1>3, <1>4, QuietKeeps

LEMMA SnapRestore ==
  ASSUME AssistantInv, RestoreInv, NEW q \in Requests, NEW s \in Subjects, SnapStep(q, s)
  PROVE  RestoreInv'
<1>0. WorkTypes /\ UNCHANGED <<subject, changed, before, crossed>>
  BY DEF AssistantInv, SnapStep, ReadsRow, ReadsRules, ReadsVersion, Inserts, Collides,
         tables, history
<1>1. PICK t \in Tasks : t = snap[q][s]
  BY <1>0, TaskFields
<1>2. NoTask.msg = Nobody /\ NoTask.pc = "none" /\ Nobody \notin Messages
  BY NoTaskFields, AssistantAssumption
<1>3. ASSUME UNCHANGED <<versions, req>>, NEW u, snap' = [snap EXCEPT ![q][s] = u],
             u.msg = t.msg \/ u = NoTask,
             \A m \in Messages : s \in Live /\ TaskShows(t, m, s) /\ t.msg = m =>
               TaskShows(u, m, s)
      PROVE  RestoreInv'
  <2>1. \A x : Of(x)' = Of(x)
    BY <1>3 DEF Of
  <2> QED
    BY <1>0, <1>1, <1>2, <1>3, <2>1, OneTaskMoves
<1>4. CASE ReadsRow(q, s)
  <2>1. UNCHANGED <<versions, req>>
    BY <1>4 DEF ReadsRow, tables
  <2>2. CASE s \in Live
    <3>1. PICK u : u = [t EXCEPT !.pc = "rules", !.row = subject[s].row]
      OBVIOUS
    <3>2. u.msg = t.msg /\ u.pc = "rules" /\ u.row = subject[s].row
      BY <3>1 DEF Tasks
    <3>3. snap' = [snap EXCEPT ![q][s] = u]
      BY <1>1, <1>4, <2>2, <3>1 DEF ReadsRow
    <3>4. \A m : TaskShows(u, m, s)
      BY <3>2 DEF TaskShows, ShowsRow
    <3> QED
      BY <1>3, <2>1, <3>2, <3>3, <3>4
  <2>3. CASE s \notin Live
    BY <1>3, <1>4, <2>1, <2>3 DEF ReadsRow
  <2> QED
    BY <2>2, <2>3
<1>5. CASE ReadsRules(q, s)
  <2>1. UNCHANGED <<versions, req>>
    BY <1>5 DEF ReadsRules, tables
  <2>2. PICK R : R = {r \in subject[s].rules : r.active}
    OBVIOUS
  <2>3. PICK c : c = (snap[q][s].msg # Nobody /\ s \notin changed[snap[q][s].msg])
    OBVIOUS
  <2>4. PICK u : u = [t EXCEPT !.pc = "version", !.rules = R, !.clean = c]
    OBVIOUS
  <2>5. u.msg = t.msg /\ u.pc = "version" /\ u.row = t.row /\ u.rules = R /\ u.clean = c
    BY <2>4 DEF Tasks
  <2>6. snap' = [snap EXCEPT ![q][s] = u] /\ t.pc = "rules"
    BY <1>1, <1>5, <2>2, <2>3, <2>4 DEF ReadsRules
  <2>7. ASSUME NEW m \in Messages, TaskShows(t, m, s), t.msg = m PROVE TaskShows(u, m, s)
    <3>1. ShowsRow(u, m, s)
      BY <2>5, <2>6, <2>7 DEF TaskShows, ShowsRow
    <3>2. Shows(u, m, s)
      <4>1. c => s \notin changed[m]
        BY <1>1, <2>3, <2>7
      <4> QED
        BY <2>2, <2>5, <4>1 DEF Shows
    <3> QED
      BY <3>1, <3>2 DEF TaskShows
  <2> QED
    BY <1>3, <2>1, <2>5, <2>6, <2>7
<1>6. CASE ReadsVersion(q, s)
  <2>1. UNCHANGED <<versions, req>>
    BY <1>6 DEF ReadsVersion, tables
  <2>2. PICK n : n = Cardinality(Of(s)) + 1
    OBVIOUS
  <2>3. PICK u : u = [t EXCEPT !.pc = "insert", !.version = n]
    OBVIOUS
  <2>4. /\ u.msg = t.msg /\ u.row = t.row /\ u.rules = t.rules /\ u.clean = t.clean
        /\ u.pc = "insert"
    BY <2>3 DEF Tasks
  <2>5. snap' = [snap EXCEPT ![q][s] = u] /\ t.pc = "version"
    BY <1>1, <1>6, <2>2, <2>3 DEF ReadsVersion
  <2>6. Content(u) = Content(t)
    BY <2>4 DEF Content
  <2>7. \A m \in Messages : TaskShows(t, m, s) => TaskShows(u, m, s)
    BY <2>4, <2>5, <2>6 DEF TaskShows, Shows, ShowsRow
  <2> QED
    BY <1>3, <2>1, <2>4, <2>5, <2>7
<1>7. CASE Inserts(q, s)
  <2>1. PICK u : u = NoTask
    OBVIOUS
  <2>2. u.msg \notin Messages /\ snap' = [snap EXCEPT ![q][s] = u] /\ req' = req /\ t.pc = "insert"
    BY <1>1, <1>2, <1>7, <2>1 DEF Inserts, Snap
  <2>3. PICK w : w = Version(q, s)
    OBVIOUS
  <2>4. /\ versions' = versions \cup {w} /\ w.row = t.row /\ w.rules = t.rules
        /\ w.clean = t.clean /\ w.msg = t.msg /\ w.subject = s
    BY <1>1, <1>7, <2>3 DEF Inserts, Version
  <2>5. ASSUME NEW x \in Subjects, NEW v \in Of(x)', v \notin Of(x)
        PROVE  /\ x = s /\ v.row = snap[q][s].row /\ v.rules = snap[q][s].rules
               /\ v.clean = snap[q][s].clean /\ v.msg = snap[q][s].msg
               /\ snap[q][s].pc = "insert"
    <3>1. x = s /\ v = w
      BY <2>4, <2>5 DEF Of
    <3> QED
      BY <1>1, <2>2, <2>4, <3>1
  <2>6. \A p \in Requests : \A v \in req'[p].todo : v \in req[p].todo \/ v.msg \in Messages
    BY <2>2
  <2>7. \A m \in Messages : /\ s \in Live /\ u.msg = m /\ snap[q][s].msg = m
                            /\ TaskShows(snap[q][s], m, s)
                            => TaskShows(u, m, s)
    BY <2>2
  <2>8. u.msg = snap[q][s].msg \/ u.msg \notin Messages
    BY <2>2
  <2> QED
    <3>1. \A x \in Subjects : \A v \in Of(x)' :
            v \in Of(x) \/ (x = s /\ v.row = snap[q][s].row /\ v.rules = snap[q][s].rules
                            /\ v.clean = snap[q][s].clean /\ v.msg = snap[q][s].msg
                            /\ snap[q][s].pc = "insert")
      BY <2>5
    <3>2. snap' = [snap EXCEPT ![q][s] = u]
      BY <2>2
    <3> QED
      BY <1>0, <2>6, <2>7, <2>8, <3>1, <3>2, OneTaskMoves
<1>8. CASE Collides(q, s)
  <2>1. PICK u : u = NoTask
    OBVIOUS
  <2>2. /\ u.msg \notin Messages /\ snap' = [snap EXCEPT ![q][s] = u]
        /\ UNCHANGED versions /\ Ends(q)
    BY <1>2, <1>8, <2>1 DEF Collides, Snap, tables
  <2>3. \A x : Of(x)' = Of(x)
    BY <2>2 DEF Of
  <2>4. \A p \in Requests : \A v \in req'[p].todo : v \in req[p].todo \/ v.msg \in Messages
    BY <1>0, <2>2, EndsRestore
  <2>5. \A m \in Messages : /\ s \in Live /\ u.msg = m /\ snap[q][s].msg = m
                            /\ TaskShows(snap[q][s], m, s)
                            => TaskShows(u, m, s)
    BY <2>2
  <2>6. u.msg = snap[q][s].msg \/ u.msg \notin Messages
    BY <2>2
  <2> QED
    BY <1>0, <2>2, <2>3, <2>4, <2>5, <2>6, OneTaskMoves
<1> QED
  BY <1>4, <1>5, <1>6, <1>7, <1>8 DEF SnapStep

LEMMA ResolvesRestore ==
  ASSUME AssistantInv, RestoreInv, NEW q \in Applies, Resolves(q)
  PROVE  RestoreInv'
<1>0. /\ WorkTypes /\ UNCHANGED <<subject, versions, changed, before, crossed>>
      /\ q \in Requests
  BY DEF AssistantInv, Resolves, tables, history, Requests
<1>1. PICK t : t = Task(req[q].msg)
  OBVIOUS
<1>2. t.pc = "row" /\ NoTask.pc = "none" /\ NoTask.msg \notin Messages
  BY <1>0, <1>1, RequestFields, NoTaskFields, AssistantAssumption
<1>3. PICK A : A = UNION {On(Actions(q)[i]) : i \in DOMAIN Actions(q)}
  OBVIOUS
<1>4. snap' = [snap EXCEPT ![q] = [s \in Subjects |-> IF s \in A THEN t ELSE NoTask]]
  BY <1>1, <1>3 DEF Resolves
<1>5. \A p \in Requests : \A s \in Subjects :
        \/ snap'[p][s] = snap[p][s]
        \/ /\ snap'[p][s].pc \in {"none", "row"}
           /\ snap'[p][s].msg \in Messages => p \in Applies
  <2>1. \A p \in Requests \ {q} : snap'[p] = snap[p]
    BY <1>0, <1>4 DEF WorkTypes
  <2>2. \A s \in Subjects : snap'[q][s] = t \/ snap'[q][s] = NoTask
    BY <1>0, <1>4 DEF WorkTypes
  <2> QED
    BY <1>2, <2>1, <2>2
<1>6. PICK R : R = [req[q] EXCEPT !.pc = "snap"]
  OBVIOUS
<1>7. R.todo = req[q].todo
  BY <1>0, <1>6, RequestFields DEF RequestRows
<1>8. req' = [req EXCEPT ![q] = R]
  BY <1>6 DEF Resolves
<1>9. \A p \in Requests : \A v \in req'[p].todo : v \in req[p].todo \/ v.msg \in Messages
  BY <1>0, <1>7, <1>8, OneRequestMoves
<1> QED
  BY <1>0, <1>5, <1>9, NothingRead

LEMMA EndRestore ==
  ASSUME AssistantInv, RestoreInv, NEW q \in Requests,
         Marks(q) \/ RequestFails(q) \/ \E v \in req[q].todo : CannotRestore(q, v)
  PROVE  RestoreInv'
<1>0. WorkTypes /\ UNCHANGED <<subject, versions, changed, before, crossed>> /\ Ends(q)
  BY DEF AssistantInv, Marks, RequestFails, CannotRestore, tables, history
<1>1. \A p \in Requests : \A s \in Subjects :
        \/ snap'[p][s] = snap[p][s]
        \/ snap'[p][s].pc \in {"none", "row"} /\ snap'[p][s].msg \notin Messages
  <2>1. CASE snap' = snap
    BY <2>1
  <2>2. CASE RequestFails(q)
    <3>1. /\ \A p \in Requests \ {q} : snap'[p] = snap[p]
          /\ \A s \in Subjects : snap'[q][s] = NoTask
      BY <1>0, <2>2 DEF WorkTypes, RequestFails
    <3> QED
      BY <3>1, NoTaskFields, AssistantAssumption
  <2> QED
    BY <2>1, <2>2 DEF Marks, CannotRestore
<1>2. \A p \in Requests : \A v \in req'[p].todo : v \in req[p].todo \/ v.msg \in Messages
  BY <1>0, EndsRestore
<1> QED
  BY <1>0, <1>1, <1>2, NothingRead

LEMMA EditsRestore ==
  ASSUME AssistantInv, RestoreInv, NEW a \in Ops, Edits(a)
  PROVE  RestoreInv'
<1>0. /\ TablesInv /\ UNCHANGED <<req, snap, changed, before>> /\ Does(a, "edit")
      /\ Crosses(On(a), Nobody)
  BY DEF AssistantInv, Edits
<1>1. Keeps
  BY <1>0, OpsType, DoesKeeps DEF Texts
<1>2. /\ Live' \subseteq Live
      /\ \A s \in Subjects \ On(a) : subject'[s] = subject[s]
      /\ \A s \in Subjects : Of(s)' \subseteq Of(s)
  BY <1>0, <1>1 DEF Keeps, Does, Of
<1>3. ForMessages' /\ DOMAIN before' = Messages
  BY <1>0 DEF RestoreInv, ForMessages
<1> QED
  BY <1>0, <1>2, <1>3, AssistantAssumption, WriteKeeps

LEMMA ExecutesRestore ==
  ASSUME AssistantInv, RestoreInv, NEW q \in Requests, Executes(q)
  PROVE  RestoreInv'
<1>0. /\ TablesInv /\ WorkTypes /\ UNCHANGED <<msg, snap>> /\ req[q] \in RequestRows
      /\ req[q].pc = "snap" /\ req[q].next \in DOMAIN Actions(q)
  BY RequestFields DEF AssistantInv, Executes
<1>1. PICK m \in Messages : m = req[q].msg
  BY <1>0 DEF AssistantInv, SnapsFirst
<1>2. PICK a : a = Actions(q)[req[q].next] /\ a.op \in OnSubjects \cup OnRules
  BY <1>0, ActionType
<1>3. PICK R : R = [req[q] EXCEPT !.next = @ + 1]
  OBVIOUS
<1>4. R.todo = req[q].todo
  BY <1>0, <1>3 DEF RequestRows
<1>5. req' = [req EXCEPT ![q] = R]
  BY <1>3 DEF Executes
<1>6. \A p \in Requests : \A v \in req'[p].todo : v \in req[p].todo \/ v.msg \in Messages
  BY <1>0, <1>4, <1>5, OneRequestMoves
<1>7. CASE UNCHANGED <<tables, changed, before, crossed>>
  BY <1>0, <1>6, <1>7, NothingRead DEF tables
<1>8. CASE /\ Does(a, m) /\ Crosses(On(a), m)
           /\ changed' = [changed EXCEPT ![m] = @ \cup On(a)]
           /\ before' = [before EXCEPT ![m] = [s \in Subjects |->
                           IF s \in On(a) \ changed[m] THEN Content(subject[s]) ELSE @[s]]]
  <2>1. Keeps
    BY <1>0, <1>2, <1>8, DoesKeeps DEF Texts
  <2>2. /\ Live' \subseteq Live
        /\ \A s \in Subjects \ On(a) : subject'[s] = subject[s]
        /\ \A s \in Subjects : Of(s)' \subseteq Of(s)
    BY <1>8, <2>1 DEF Keeps, Does, Of
  <2>3. ForMessages'
    BY <1>0, <1>6, StillForMessages
  <2>4. DOMAIN before' = Messages /\ DOMAIN before = Messages
    BY <1>8 DEF RestoreInv
  <2>5. /\ changed'[m] = changed[m] \cup On(a)
        /\ \A n \in Messages \ {m} : changed'[n] = changed[n]
    BY <1>0, <1>8 DEF WorkTypes
  <2>6. \A n \in Messages \ {m} : before'[n] = before[n]
    BY <1>8, <2>4
  <2>7. \A s \in Subjects : before'[m][s] = IF s \in On(a) \ changed[m] THEN Content(subject[s])
                                            ELSE before[m][s]
    BY <1>8, <2>4
  <2> QED
    BY <1>0, <1>8, <2>2, <2>3, <2>4, <2>5, <2>6, <2>7, WriteKeeps
<1>9. \/ UNCHANGED <<tables, changed, before, crossed>>
      \/ /\ Does(a, m) /\ Crosses(On(a), m)
         /\ changed' = [changed EXCEPT ![m] = @ \cup On(a)]
         /\ before' = [before EXCEPT ![m] = [s \in Subjects |->
                         IF s \in On(a) \ changed[m] THEN Content(subject[s]) ELSE @[s]]]
  BY <1>1, <1>2 DEF Executes
<1> QED
  BY <1>7, <1>8, <1>9

LEMMA RestoresRestore ==
  ASSUME AssistantInv, RestoreInv, NEW q \in Requests, NEW v \in req[q].todo, Restores(q, v)
  PROVE  RestoreInv'
<1>0. /\ TablesInv /\ WorkTypes /\ UNCHANGED <<versions, changed, before>>
      /\ req[q] \in RequestRows
      /\ v \in VersionRows /\ v.subject \in Subjects /\ Crosses({v.subject}, Nobody)
  <2>1. v \in VersionRows
    BY RequestFields DEF AssistantInv
  <2> QED
    BY <2>1, RequestFields DEF AssistantInv, Restores, VersionRows
<1>1. /\ ids' = ids + Cardinality(v.rules)
      /\ subject' = [subject EXCEPT ![v.subject] =
           IF @.live THEN [@ EXCEPT !.row = v.row, !.rules = Fresh(v.rules)] ELSE @]
  BY DEF Restores
<1>2. Keeps
  BY <1>0, <1>1, RestoresKeeps
<1>3. /\ Live' \subseteq Live
      /\ \A s \in Subjects \ {v.subject} : subject'[s] = subject[s]
      /\ \A s \in Subjects : Of(s)' \subseteq Of(s)
  BY <1>0, <1>1, <1>2 DEF Keeps, Of, TablesInv, TableTypes
<1>4. PICK t : t = Task(Nobody)
  OBVIOUS
<1>5. t.msg \notin Messages /\ snap' = [snap EXCEPT ![q][v.subject] = t]
  BY <1>4, NoTaskFields, AssistantAssumption DEF ForMessage, Restores
<1>6. \A p \in Requests : \A s \in Subjects :
        snap'[p][s] = snap[p][s] \/ snap'[p][s].msg \notin Messages
  BY <1>0, <1>5, TaskFields DEF WorkTypes
<1>7. PICK R : R = [req[q] EXCEPT !.todo = @ \ {v}]
  OBVIOUS
<1>8. R.todo \subseteq req[q].todo
  BY <1>0, <1>7 DEF RequestRows
<1>9. req' = [req EXCEPT ![q] = R]
  BY <1>7 DEF Restores
<1>10. ForMessages'
  <2>1. \A p \in Requests : \A w \in req'[p].todo : w \in req[p].todo \/ w.msg \in Messages
    BY <1>0, <1>8, <1>9, OneRequestMoves
  <2>2. \A p \in Requests : \A s \in Subjects :
          \/ snap'[p][s].msg = snap[p][s].msg
          \/ snap'[p][s].msg \in Messages => p \in Applies
    BY <1>6
  <2> QED
    BY <2>1, <2>2, StillForMessages
<1>11. DOMAIN before' = Messages
  BY <1>0 DEF RestoreInv
<1> QED
  BY <1>0, <1>3, <1>6, <1>10, <1>11, AssistantAssumption, WriteKeeps

LEMMA RestoreStarts == AssistantInit => RestoreInv
<1> SUFFICES ASSUME AssistantInit PROVE RestoreInv
  OBVIOUS
<1>1. /\ \A q \in Requests : req[q].todo = {}
      /\ \A q \in Requests : \A s \in Subjects : snap[q][s] = NoTask
      /\ versions = {} /\ DOMAIN before = Messages
  BY DEF AssistantInit, NoRequest
<1>2. \A m \in Messages : NoTask.msg # m
  BY NoTaskFields, AssistantAssumption
<1> QED
  BY <1>1, <1>2 DEF RestoreInv, ForMessages, ShownOf, Of, Live

LEMMA RestoreStep == AssistantInv /\ RestoreInv /\ [AssistantNext]_assistantVars => RestoreInv'
<1> SUFFICES ASSUME AssistantInv, RestoreInv, [AssistantNext]_assistantVars PROVE RestoreInv'
  OBVIOUS
<1>1. CASE UNCHANGED assistantVars
  <2>1. WorkTypes /\ UNCHANGED <<subject, versions, changed, before, crossed, snap, req>>
    BY <1>1 DEF AssistantInv, assistantVars, history, tables
  <2> QED
    BY <2>1, NothingRead
<1>2. Applies \subseteq Requests /\ Reverts \subseteq Requests
  BY DEF Requests
<1>3. ASSUME NEW m \in Messages,
             \/ Asks(m) \/ Answers(m)
             \/ \E q \in Applies : StartsApply(q, m)
             \/ \E q \in Reverts : StartsRevert(q, m)
      PROVE  RestoreInv'
  BY <1>2, <1>3, ChatsRestore
<1>4. ASSUME NEW q \in Applies, Resolves(q) \/ Executes(q) \/ Marks(q) PROVE RestoreInv'
  BY <1>2, <1>4, ResolvesRestore, ExecutesRestore, EndRestore
<1>5. ASSUME NEW q \in Reverts, NEW v \in req[q].todo, Restores(q, v) \/ CannotRestore(q, v)
      PROVE  RestoreInv'
  BY <1>2, <1>5, RestoresRestore, EndRestore
<1> QED
  BY <1>1, <1>3, <1>4, <1>5, EditsRestore, EndRestore, SnapRestore DEF AssistantNext

(* What a version shows is the subject while the message has not changed   *)
(* it, and afterwards, stored clean, the subject of before.                *)
THEOREM RestoreInvHolds == AssistantSpec => []RestoreInv
  BY AssistantInvHolds, RestoreStarts, RestoreStep, PTL DEF AssistantSpec

LEMMA RestoreOne ==
  ASSUME AssistantInv, RestoreInv, NEW q \in Reverts, NEW v \in req[q].todo, Restores(q, v),
         {w \in Of(v.subject) : w.msg = v.msg} = {v}, v.subject \in changed[v.msg],
         <<v.msg, v.subject>> \notin crossed
  PROVE  Content(subject'[v.subject]) = before[v.msg][v.subject]
<1> DEFINE m == v.msg
           s == v.subject
<1>1. TablesInv /\ WorkTypes /\ q \in Requests /\ m \in Messages
  BY DEF AssistantInv, RestoreInv, ForMessages, Requests
<1>2. v \in Of(s) /\ v \in versions /\ v \in VersionRows
  BY <1>1 DEF Of, TablesInv, TableTypes
<1>3. s \in Live /\ s \in Subjects /\ subject[s].live
  BY <1>1, <1>2 DEF TablesInv, VersionsInOrder, InOrder, Live
<1>4. v.clean
  BY <1>1, <1>3 DEF AssistantInv, ChangedIsShown, ShownClean
<1>5. Content(v) = before[m][s]
  BY <1>1, <1>2, <1>3, <1>4 DEF RestoreInv, ShownOf, Shows
<1>6. subject[s] \in SubjectRows /\ subject \in [Subjects -> SubjectRows] /\ ids \in Nat
      /\ v.rules \in RuleSets
  BY <1>1, <1>2, <1>3 DEF TablesInv, TableTypes, VersionRows
<1>7. PICK y : y = [subject[s] EXCEPT !.row = v.row, !.rules = Fresh(v.rules)]
  OBVIOUS
<1>8. subject'[s] = y /\ y.row = v.row /\ y.rules = Fresh(v.rules)
  BY <1>3, <1>6, <1>7 DEF Restores, SubjectRows
<1>9. Content(y) = Content(v)
  <2>1. PICK f \in Bijection(v.rules, y.rules) :
          \A r \in v.rules : f[r].text = r.text /\ f[r].active = r.active
    BY <1>6, <1>8, FreshIsOneToOne
  <2> QED
    BY <1>6, <1>8, <2>1, SameContent DEF RuleSets
<1> QED
  BY <1>5, <1>8, <1>9

(* Where one version of a subject was stored for a message, and nobody     *)
(* else wrote the subject meanwhile, a revert gives the subject the row    *)
(* and the active rules of before the message (subjects/service.ts:38-66). *)
THEOREM AssistantRestores == AssistantSpec => RevertRestores
<1>1. AssistantInv /\ RestoreInv /\ [AssistantNext]_assistantVars =>
        [\A q \in Reverts : \A v \in req[q].todo : Restores(q, v) =>
           LET m == v.msg  s == v.subject
           IN {w \in Of(s) : w.msg = m} = {v} /\ s \in changed[m] /\ <<m, s>> \notin crossed =>
                Content(subject'[s]) = before[m][s]]_assistantVars
  BY RestoreOne
<1> QED
  BY <1>1, AssistantInvHolds, RestoreInvHolds, PTL DEF AssistantSpec, RevertRestores

-----------------------------------------------------------------------------
(* Metering.                                                               *)

USE MeteringAssumption

Parts == (SUBSET Prompts) \cup SUBSET Deliveries
Pending == {d \in Deliveries : Activating(d)}

LEMMA Finite == \A S \in Parts :
                  IsFiniteSet(S) /\ Cardinality(S) \in Nat
<1>1. \A S \in SUBSET Prompts : IsFiniteSet(S) BY FS_Subset
<1>2. \A S \in SUBSET Deliveries : IsFiniteSet(S) BY FS_Subset
<1> QED BY <1>1, <1>2, FS_CardinalityType DEF Parts

LEMMA OneLess ==
  ASSUME NEW S \in Parts, NEW x \in S
  PROVE  Cardinality(S \ {x}) = Cardinality(S) - 1
<1>1. IsFiniteSet(S) BY Finite
<1> QED BY <1>1, FS_RemoveElement

LEMMA Fewer ==
  ASSUME NEW S \in Parts, NEW T \in SUBSET S
  PROVE  Cardinality(T) <= Cardinality(S)
<1>1. IsFiniteSet(S) BY Finite
<1> QED BY <1>1, FS_Subset

-----------------------------------------------------------------------------
(* Types. *)

LEMMA Judges ==
  ASSUME MeteringTypeOK, NEW r \in Reads, NEW row \in Rows \cup {NoRow}, NEW at \in Nat,
         Judged(r, row, at)
  PROVE  read' \in [Reads -> [pc : {"none", "selected", "served", "refused"},
                              row : Rows \cup {NoRow}, at : Nat]]
BY DEF Judged, MeteringTypeOK

LEMMA LastGoodType == MeteringTypeOK => LastGood \in 0..now
BY DEF LastGood, MeteringTypeOK

LEMMA ScanTypes ==
  ASSUME MeteringTypeOK, NEW p \in Prompts,
         Detects(p) \/ Dispatches(p) \/ Counts(p) \/ InsertsScan(p) \/ Hears(p) \/ Drops(p)
  PROVE  MeteringTypeOK'
<1>1. peak' \in [scans : Nat, activations : Nat]
  <2>1. CASE Counts(p)
    <3>1. {q \in Prompts : prompt'[q] = "counted"} \in SUBSET Prompts OBVIOUS
    <3> DEFINE n == Cardinality({q \in Prompts : prompt'[q] = "counted"})
    <3>2. n \in Nat BY <3>1, Finite DEF Parts
    <3> HIDE DEF n
    <3>3. peak' = [peak EXCEPT !.scans = Higher(peak.scans, n)] BY <2>1 DEF Counts, n
    <3>4. Higher(peak.scans, n) \in Nat BY <3>2 DEF MeteringTypeOK, Higher
    <3> QED BY <3>3, <3>4 DEF MeteringTypeOK
  <2>2. CASE ~Counts(p)
    BY <2>2 DEF MeteringTypeOK, Detects, Dispatches, InsertsScan, Hears, Drops
  <2> QED BY <2>1, <2>2
<1>2. UNCHANGED <<now, turned, subVars, readVars, lastGood>>
  BY DEF Detects, Dispatches, Counts, InsertsScan, Hears, Drops
<1>3. scanLimitReached' \in BOOLEAN /\ scans' \in Nat
  <2>1. scanLimitReached \in BOOLEAN /\ scans \in Nat BY DEF MeteringTypeOK
  <2>2. CASE Hears(p)
    <3>1. At(p, "refused") \in BOOLEAN BY DEF At
    <3> QED BY <2>1, <2>2, <3>1 DEF Hears
  <2>3. CASE InsertsScan(p) BY <2>1, <2>3 DEF InsertsScan
  <2>4. CASE Detects(p) \/ Dispatches(p) \/ Counts(p) \/ Drops(p)
    BY <2>1, <2>4 DEF Detects, Dispatches, Counts, Drops
  <2> QED BY <2>2, <2>3, <2>4
<1>4. \E pc \in {"told", "posted", "counted", "refused", "recorded", "ended"} : Goes(p, pc)
  BY DEF Detects, Dispatches, Counts, InsertsScan, Hears, Drops
<1>5. prompt' \in [Prompts -> {"none", "told", "posted", "counted", "refused", "recorded",
                             "ended"}]
  BY <1>4 DEF MeteringTypeOK, Goes
<1> QED BY <1>1, <1>2, <1>3, <1>5 DEF MeteringTypeOK, subVars, readVars

LEMMA DeliveryTypes ==
  ASSUME MeteringTypeOK, NEW d \in Deliveries,
         \/ \E type \in Types : Receives(d, type)
         \/ FindsTenant(d) \/ InsertsTenant(d) \/ Updates(d) \/ DeliveryFails(d)
  PROVE  MeteringTypeOK'
<1> DEFINE Dels == [pc : {"none", "look", "insert", "update", "done"},
                    type : Types, row : Nat]
<1>d. delivery \in [Deliveries -> Dels] BY DEF MeteringTypeOK
<1>1. CASE \E type \in Types : Receives(d, type)
  <2> PICK type \in Types : Receives(d, type) BY <1>1
  <2>1. [pc |-> "look", type |-> type, row |-> 0] \in Dels OBVIOUS
  <2> QED BY <1>d, <2>1 DEF MeteringTypeOK, Receives, scanVars, readVars
<1>2. CASE FindsTenant(d)
  <2>1. {e \in Deliveries : delivery'[e].pc = "insert"} \in SUBSET Deliveries OBVIOUS
  <2> DEFINE n == Cardinality({e \in Deliveries : delivery'[e].pc = "insert"})
  <2>2. n \in Nat BY <2>1, Finite DEF Parts
  <2> HIDE DEF n
  <2>3. peak' = [peak EXCEPT !.activations = Higher(peak.activations, n)]
    BY <1>2 DEF FindsTenant, n
  <2>4. Higher(peak.activations, n) \in Nat BY <2>2 DEF MeteringTypeOK, Higher
  <2>5. peak' \in [scans : Nat, activations : Nat] BY <2>3, <2>4 DEF MeteringTypeOK
  <2>6. /\ delivery' \in [Deliveries -> Dels]
        /\ \A e \in Deliveries : delivery'[e].pc = "update" => delivery'[e].row \in DOMAIN tenants
    <3>1. CASE delivery' = [delivery EXCEPT ![d].pc = "insert"]
      BY <1>d, <3>1 DEF MeteringTypeOK
    <3>2. CASE Done(d)
      BY <1>d, <3>2 DEF MeteringTypeOK, Done
    <3>3. CASE \E i \in DOMAIN tenants :
                 delivery' = [delivery EXCEPT ![d].pc = "update", ![d].row = i]
      <4> PICK i \in DOMAIN tenants :
                 delivery' = [delivery EXCEPT ![d].pc = "update", ![d].row = i] BY <3>3
      <4>1. i \in Nat BY DEF MeteringTypeOK
      <4> QED BY <1>d, <4>1 DEF MeteringTypeOK
    <3> QED BY <1>2, <3>1, <3>2, <3>3 DEF FindsTenant
  <2> QED BY <1>2, <2>5, <2>6 DEF MeteringTypeOK, FindsTenant, scanVars, readVars
<1>3. CASE InsertsTenant(d)
  <2>1. [status |-> "active", graceEndsAt |-> 0] \in Rows BY DEF Rows
  <2>2. tenants' \in Seq(Rows) /\ DOMAIN tenants \subseteq DOMAIN tenants'
    BY <1>3, <2>1 DEF InsertsTenant, MeteringTypeOK
  <2>3. /\ delivery' \in [Deliveries -> Dels]
        /\ \A e \in Deliveries : delivery'[e].pc = "update"
             => delivery[e].pc = "update" /\ delivery'[e].row = delivery[e].row
    BY <1>d, <1>3 DEF InsertsTenant, Done
  <2> QED BY <1>3, <2>2, <2>3 DEF MeteringTypeOK, InsertsTenant, scanVars, readVars
<1>4. CASE Updates(d)
  <2>1. After(delivery[d].type) \in Rows BY DEF After, Rows, MeteringTypeOK
  <2> DEFINE new == After(delivery[d].type)
  <2> HIDE DEF new
  <2>2. tenants' = [tenants EXCEPT ![delivery[d].row] = new] BY <1>4 DEF Updates, new
  <2>3. new \in Rows /\ delivery[d].row \in DOMAIN tenants
    BY <1>4, <2>1 DEF Updates, MeteringTypeOK, new
  <2>6. tenants' \in Seq(Rows) /\ DOMAIN tenants' = DOMAIN tenants
    BY <2>2, <2>3 DEF MeteringTypeOK
  <2>4. /\ delivery' \in [Deliveries -> Dels]
        /\ \A e \in Deliveries : delivery'[e].pc = "update"
             => delivery[e].pc = "update" /\ delivery'[e].row = delivery[e].row
    BY <1>d, <1>4 DEF Updates, Done
  <2>5. lastGood' \in 0..now BY <1>4, LastGoodType DEF Updates
  <2> QED BY <1>4, <2>4, <2>5, <2>6 DEF MeteringTypeOK, Updates, scanVars, readVars
<1>5. CASE DeliveryFails(d)
  <2>1. /\ delivery' \in [Deliveries -> Dels]
        /\ \A e \in Deliveries : delivery'[e].pc = "update"
             => delivery[e].pc = "update" /\ delivery'[e].row = delivery[e].row
    BY <1>d, <1>5 DEF DeliveryFails, Done
  <2> QED BY <1>5, <2>1 DEF MeteringTypeOK, DeliveryFails, scanVars, readVars
<1> QED BY <1>1, <1>2, <1>3, <1>4, <1>5

LEMMA ReadTypes ==
  ASSUME MeteringTypeOK, NEW r \in Reads, Hits(r) \/ Misses(r) \/ Caches(r)
  PROVE  MeteringTypeOK'
<1>1. CASE Hits(r)
  <2>1. cache.row \in Rows \cup {NoRow} /\ cache.at \in Nat BY DEF MeteringTypeOK
  <2>2. read' \in [Reads -> [pc : {"none", "selected", "served", "refused"},
                             row : Rows \cup {NoRow}, at : Nat]]
    BY <1>1, <2>1, Judges DEF Hits
  <2> QED BY <1>1, <2>2 DEF MeteringTypeOK, Hits, scanVars, subVars
<1>2. CASE Misses(r)
  <2>1. tenants[1] \in Rows BY <1>2 DEF Misses, MeteringTypeOK
  <2> QED BY <1>2, <2>1 DEF MeteringTypeOK, Misses, scanVars, subVars
<1>3. CASE Caches(r)
  <2>1. read[r].row \in Rows \cup {NoRow} /\ read[r].at \in Nat BY DEF MeteringTypeOK
  <2>2. read' \in [Reads -> [pc : {"none", "selected", "served", "refused"},
                             row : Rows \cup {NoRow}, at : Nat]]
    BY <1>3, <2>1, Judges DEF Caches
  <2>3. cache' \in [expiresAt : Nat, row : Rows \cup {NoRow}, at : Nat]
    BY <1>3, <2>1 DEF Caches, MeteringTypeOK
  <2> QED BY <1>3, <2>2, <2>3 DEF MeteringTypeOK, Caches, scanVars, subVars
<1> QED BY <1>1, <1>2, <1>3

LEMMA OtherTypes ==
  ASSUME MeteringTypeOK, MonthTurns \/ Invalidates \/ Tick
  PROVE  MeteringTypeOK'
<1>1. CASE MonthTurns
  BY <1>1 DEF MeteringTypeOK, MonthTurns, subVars, readVars
<1>2. CASE Invalidates
  BY <1>2 DEF MeteringTypeOK, Invalidates, scanVars, subVars
<1>3. CASE Tick
  <2>1. now' \in Nat /\ lastGood' \in 0..now' BY <1>3, LastGoodType DEF Tick, MeteringTypeOK
  <2> QED BY <1>3, <2>1 DEF MeteringTypeOK, Tick, scanVars, subVars, readVars
<1> QED BY <1>1, <1>2, <1>3

LEMMA NextTypes == MeteringTypeOK /\ [Next]_vars => MeteringTypeOK'
<1> SUFFICES ASSUME MeteringTypeOK, [Next]_vars PROVE MeteringTypeOK' OBVIOUS
<1>1. CASE \E p \in Prompts : \/ Detects(p) \/ Dispatches(p) \/ Counts(p) \/ InsertsScan(p)
                              \/ Hears(p) \/ Drops(p)
  BY <1>1, ScanTypes
<1>2. CASE \E d \in Deliveries : \/ \E type \in Types : Receives(d, type)
                                 \/ FindsTenant(d) \/ InsertsTenant(d) \/ Updates(d)
                                 \/ DeliveryFails(d)
  BY <1>2, DeliveryTypes
<1>3. CASE \E r \in Reads : Hits(r) \/ Misses(r) \/ Caches(r)
  BY <1>3, ReadTypes
<1>4. CASE MonthTurns \/ Invalidates \/ Tick
  BY <1>4, OtherTypes
<1>5. CASE UNCHANGED vars
  BY <1>5 DEF MeteringTypeOK, vars, scanVars, subVars, readVars
<1> QED BY <1>1, <1>2, <1>3, <1>4, <1>5 DEF Next

LEMMA InitTypes == Init => MeteringTypeOK
<1> SUFFICES ASSUME Init PROVE MeteringTypeOK OBVIOUS
<1>1. now = 0 /\ lastGood = 0 /\ now \in Nat /\ lastGood \in 0..now BY DEF Init
<1>2. tenants \in Seq(Rows) BY DEF Init
<1>3. scanLimitReached \in BOOLEAN /\ scans \in Nat /\ turned \in BOOLEAN BY DEF Init
<1>4. prompt \in [Prompts -> {"none", "told", "posted", "counted", "refused", "recorded",
                            "ended"}] BY DEF Init
<1>5. /\ delivery \in [Deliveries -> [pc : {"none", "look", "insert", "update", "done"},
                                     type : Types, row : Nat]]
      /\ \A d \in Deliveries : delivery[d].pc # "update"
  BY DEF Init, NoDelivery, Types
<1>6. cache \in [expiresAt : Nat, row : Rows \cup {NoRow}, at : Nat]
  <2> NoRow \in Rows \cup {NoRow} OBVIOUS
  <2> HIDE DEF NoRow
  <2> QED BY DEF Init
<1>7. read \in [Reads -> [pc : {"none", "selected", "served", "refused"},
                         row : Rows \cup {NoRow}, at : Nat]]
  <2>1. NoRow \in Rows \cup {NoRow} OBVIOUS
  <2> QED BY <2>1 DEF Init, NoRead
<1>8. peak \in [scans : Nat, activations : Nat] BY DEF Init
<1> QED BY <1>1, <1>2, <1>3, <1>4, <1>5, <1>6, <1>7, <1>8 DEF MeteringTypeOK

-----------------------------------------------------------------------------
(* Places. *)

\* An action of scans that inserts nothing and lets nobody through keeps the places.
LEMMA ScansLeave ==
  ASSUME MeteringTypeOK, PlacesAreKept, Counted' \subseteq Counted, scans' \in Nat,
         scans' <= scans, UNCHANGED <<peak, tenants, delivery>>
  PROVE  PlacesAreKept'
<1>1. Counted \in Parts BY DEF Counted, Parts
<1>2. Cardinality(Counted') <= Cardinality(Counted) BY <1>1, Fewer
<1>3. Cardinality(Counted) \in Nat /\ Cardinality(Counted') \in Nat
  BY <1>1, Finite DEF Parts, Counted
<1>4. Pending \in Parts BY DEF Pending, Parts
<1>5. Cardinality(Pending) \in Nat BY <1>4, Finite
<1>6. scans + Cardinality(Counted) <= Limit - 1 + peak.scans
  BY DEF PlacesAreKept
<1>7. scans' + Cardinality(Counted') <= Limit - 1 + peak'.scans
  BY <1>2, <1>3, <1>6 DEF MeteringTypeOK
<1>8. Len(tenants') + Cardinality(Pending') <= peak'.activations
  BY DEF PlacesAreKept, Pending, Activating
<1> QED BY <1>7, <1>8 DEF PlacesAreKept, Pending, Activating

LEMMA ScanPlaces ==
  ASSUME MeteringTypeOK, PlacesAreKept, MeteringTypeOK', NEW p \in Prompts,
         Detects(p) \/ Dispatches(p) \/ Counts(p) \/ InsertsScan(p) \/ Hears(p) \/ Drops(p)
  PROVE  PlacesAreKept'
<1>1. Counted \in Parts /\ Counted' \in Parts BY DEF Counted, Parts
<1>2. Cardinality(Counted) \in Nat /\ Cardinality(Counted') \in Nat BY <1>1, Finite
<1>3. CASE Detects(p) \/ Dispatches(p) \/ Hears(p) \/ Drops(p)
  <2>1. Counted' \subseteq Counted
    BY <1>3 DEF Counted, Detects, Dispatches, Hears, Drops, At, Goes, MeteringTypeOK
  <2>2. UNCHANGED <<scans, peak, tenants, delivery>>
    BY <1>3 DEF Detects, Dispatches, Hears, Drops, subVars
  <2> QED BY <2>1, <2>2, ScansLeave DEF MeteringTypeOK
<1>4. CASE Counts(p) /\ scans >= Limit
  <2>1. Counted' \subseteq Counted
    BY <1>4 DEF Counted, Counts, At, Goes, MeteringTypeOK
  <2>2. Cardinality(Counted') <= Cardinality(Counted) BY <1>1, <2>1, Fewer
  <2>3. peak'.scans >= peak.scans /\ peak'.activations = peak.activations
    <3>1. peak' = [peak EXCEPT !.scans = Higher(peak.scans, Cardinality(Counted'))]
      BY <1>4 DEF Counts, Counted
    <3>2. Higher(peak.scans, Cardinality(Counted')) >= peak.scans
      BY <1>2 DEF Higher, MeteringTypeOK
    <3> QED BY <3>1, <3>2 DEF MeteringTypeOK
  <2>4. UNCHANGED <<scans, tenants, delivery>> BY <1>4 DEF Counts, subVars
  <2>5. scans' + Cardinality(Counted') <= Limit - 1 + peak'.scans
    BY <1>2, <2>2, <2>3, <2>4 DEF PlacesAreKept, MeteringTypeOK
  <2> QED BY <2>3, <2>4, <2>5 DEF PlacesAreKept, Activating
<1>5. CASE Counts(p) /\ ~(scans >= Limit)
  <2>1. peak'.scans = Higher(peak.scans, Cardinality(Counted'))
        /\ peak'.activations = peak.activations
    BY <1>5 DEF Counts, Counted, MeteringTypeOK
  <2>2. UNCHANGED <<scans, tenants, delivery>> BY <1>5 DEF Counts, subVars
  <2>3. scans' <= Limit - 1 BY <1>5, <2>2 DEF MeteringTypeOK
  <2>4. Cardinality(Counted') <= peak'.scans BY <1>2, <2>1 DEF Higher, MeteringTypeOK
  <2>5. scans' + Cardinality(Counted') <= Limit - 1 + peak'.scans
    BY <1>2, <2>3, <2>4 DEF MeteringTypeOK
  <2> QED BY <2>1, <2>2, <2>5 DEF PlacesAreKept, Activating
<1>6. CASE InsertsScan(p)
  <2>1. p \in Counted /\ Counted' = Counted \ {p}
    BY <1>6 DEF Counted, InsertsScan, At, Goes, MeteringTypeOK
  <2>2. Cardinality(Counted') = Cardinality(Counted) - 1 BY <1>1, <2>1, OneLess
  <2>3. scans' = scans + 1 /\ UNCHANGED <<peak, tenants, delivery>>
    BY <1>6 DEF InsertsScan, subVars
  <2>4. scans' + Cardinality(Counted') <= Limit - 1 + peak'.scans
    BY <1>2, <2>2, <2>3 DEF PlacesAreKept, MeteringTypeOK
  <2> QED BY <2>3, <2>4 DEF PlacesAreKept, Activating
<1> QED BY <1>3, <1>4, <1>5, <1>6

LEMMA DeliveryPlaces ==
  ASSUME MeteringTypeOK, PlacesAreKept, MeteringTypeOK', NEW d \in Deliveries,
         \/ \E type \in Types : Receives(d, type)
         \/ FindsTenant(d) \/ InsertsTenant(d) \/ Updates(d) \/ DeliveryFails(d)
  PROVE  PlacesAreKept'
<1>1. Pending \in Parts /\ Pending' \in Parts BY DEF Pending, Parts
<1>2. Cardinality(Pending) \in Nat /\ Cardinality(Pending') \in Nat BY <1>1, Finite
<1>3. UNCHANGED <<prompt, scans>>
  BY DEF Receives, FindsTenant, InsertsTenant, Updates, DeliveryFails, scanVars
<1>4. Counted' = Counted BY <1>3 DEF Counted
<1> SUFFICES peak'.scans = peak.scans
             /\ Len(tenants') + Cardinality(Pending') <= peak'.activations
  BY <1>3, <1>4 DEF PlacesAreKept, Pending
<1>5. CASE FindsTenant(d) /\ tenants = <<>>
  <2>1. peak'.activations = Higher(peak.activations, Cardinality(Pending'))
        /\ peak'.scans = peak.scans
    BY <1>5 DEF FindsTenant, Pending, Activating, MeteringTypeOK
  <2>2. Cardinality(Pending') <= peak'.activations
    BY <1>2, <2>1 DEF Higher, MeteringTypeOK
  <2>3. Len(tenants') = 0 BY <1>5 DEF FindsTenant
  <2> QED BY <1>2, <2>1, <2>2, <2>3 DEF MeteringTypeOK
<1>6. CASE FindsTenant(d) /\ tenants # <<>>
  <2>1. Pending' \subseteq Pending
    <3>1. /\ delivery'[d].pc # "insert"
          /\ \A e \in Deliveries : e # d => delivery'[e] = delivery[e]
      <4>1. CASE Done(d) BY <4>1 DEF Done, MeteringTypeOK
      <4>2. CASE \E i \in DOMAIN tenants :
                   delivery' = [delivery EXCEPT ![d].pc = "update", ![d].row = i]
        BY <4>2 DEF MeteringTypeOK
      <4> QED BY <1>6, <4>1, <4>2 DEF FindsTenant
    <3> QED BY <3>1 DEF Pending, Activating
  <2>2. Cardinality(Pending') <= Cardinality(Pending) BY <1>1, <2>1, Fewer
  <2>3. peak'.activations >= peak.activations /\ peak'.scans = peak.scans
    <3>1. peak' = [peak EXCEPT !.activations = Higher(peak.activations, Cardinality(Pending'))]
      BY <1>6 DEF FindsTenant, Pending, Activating
    <3>2. Higher(peak.activations, Cardinality(Pending')) >= peak.activations
      BY <1>2 DEF Higher, MeteringTypeOK
    <3> QED BY <3>1, <3>2 DEF MeteringTypeOK
  <2>4. tenants' = tenants /\ Len(tenants) \in Nat BY <1>6 DEF FindsTenant, MeteringTypeOK
  <2> QED BY <1>2, <2>2, <2>3, <2>4 DEF PlacesAreKept, MeteringTypeOK, Pending
<1>7. CASE InsertsTenant(d)
  <2>1. d \in Pending /\ Pending' = Pending \ {d}
    BY <1>7 DEF Pending, InsertsTenant, Activating, Done, MeteringTypeOK
  <2>2. Cardinality(Pending') = Cardinality(Pending) - 1 BY <1>1, <2>1, OneLess
  <2>3. peak' = peak /\ Len(tenants') = Len(tenants) + 1
    BY <1>7 DEF InsertsTenant, MeteringTypeOK
  <2>4. Len(tenants) \in Nat BY DEF MeteringTypeOK
  <2> QED BY <1>2, <2>2, <2>3, <2>4 DEF PlacesAreKept, MeteringTypeOK, Pending
<1>8. CASE (\E type \in Types : Receives(d, type)) \/ Updates(d) \/ DeliveryFails(d)
  <2>1. Pending' \subseteq Pending
    <3>1. /\ delivery'[d].pc # "insert"
          /\ \A e \in Deliveries : e # d => delivery'[e] = delivery[e]
      <4>1. CASE Done(d) BY <4>1 DEF Done, MeteringTypeOK
      <4>2. CASE \E type \in Types : Receives(d, type)
        BY <4>2 DEF Receives, MeteringTypeOK
      <4> QED BY <1>8, <4>1, <4>2 DEF Updates, DeliveryFails
    <3> QED BY <3>1 DEF Pending, Activating
  <2>2. Cardinality(Pending') <= Cardinality(Pending) BY <1>1, <2>1, Fewer
  <2>3. peak' = peak BY <1>8 DEF Receives, Updates, DeliveryFails
  <2>4. Len(tenants') = Len(tenants) /\ Len(tenants) \in Nat
    <3>1. CASE Updates(d)
      <4> PICK new : tenants' = [tenants EXCEPT ![delivery[d].row] = new]
        BY <3>1 DEF Updates
      <4> QED BY DEF MeteringTypeOK
    <3>2. CASE (\E type \in Types : Receives(d, type)) \/ DeliveryFails(d)
      BY <3>2 DEF Receives, DeliveryFails, MeteringTypeOK
    <3> QED BY <1>8, <3>1, <3>2
  <2> QED BY <1>2, <2>2, <2>3, <2>4 DEF PlacesAreKept, MeteringTypeOK, Pending
<1> QED BY <1>5, <1>6, <1>7, <1>8

LEMMA NextPlaces == MeteringTypeOK /\ PlacesAreKept /\ [Next]_vars => PlacesAreKept'
<1> SUFFICES ASSUME MeteringTypeOK, PlacesAreKept, [Next]_vars PROVE PlacesAreKept'
  OBVIOUS
<1>t. MeteringTypeOK' BY NextTypes
<1>1. CASE \E p \in Prompts : \/ Detects(p) \/ Dispatches(p) \/ Counts(p) \/ InsertsScan(p)
                              \/ Hears(p) \/ Drops(p)
  BY <1>1, <1>t, ScanPlaces
<1>2. CASE \E d \in Deliveries : \/ \E type \in Types : Receives(d, type)
                                 \/ FindsTenant(d) \/ InsertsTenant(d) \/ Updates(d)
                                 \/ DeliveryFails(d)
  BY <1>2, <1>t, DeliveryPlaces
<1>3. CASE \/ \E r \in Reads : Hits(r) \/ Misses(r) \/ Caches(r)
           \/ MonthTurns \/ Invalidates \/ Tick \/ UNCHANGED vars
  <2>1. UNCHANGED <<prompt, peak, tenants, delivery>> /\ (scans' = scans \/ scans' = 0)
    BY <1>3 DEF Hits, Misses, Caches, MonthTurns, Invalidates, Tick, vars, scanVars, subVars
  <2>2. Counted' = Counted BY <2>1 DEF Counted
  <2> QED BY <2>1, <2>2, ScansLeave DEF MeteringTypeOK
<1> QED BY <1>1, <1>2, <1>3 DEF Next

LEMMA InitPlaces == Init => PlacesAreKept
<1> SUFFICES ASSUME Init PROVE PlacesAreKept OBVIOUS
<1>1. Counted = {} /\ {d \in Deliveries : Activating(d)} = {}
  BY DEF Init, Counted, Activating, NoDelivery
<1>2. Cardinality({}) = 0 BY FS_EmptySet
<1>3. scans = 0 /\ peak.scans = 1 /\ peak.activations = 1 /\ Len(tenants) = 0 BY DEF Init
<1>4. scans + 0 <= Limit - 1 + peak.scans /\ Len(tenants) + 0 <= peak.activations BY <1>3
<1> QED BY <1>1, <1>2, <1>4 DEF PlacesAreKept

-----------------------------------------------------------------------------
(* Copies. *)

LEMMA LastGoodGrows ==
  ASSUME MeteringTypeOK, MeteringTypeOK', [Next]_vars
  PROVE  now' \in {now, now + 1} /\ LastGood <= LastGood'
<1>0. LastGood \in 0..now /\ now \in Nat BY LastGoodType DEF MeteringTypeOK
<1>1. CASE UNCHANGED <<now, tenants, lastGood>>
  BY <1>0, <1>1 DEF LastGood, Entitles
<1>2. CASE \E d \in Deliveries : InsertsTenant(d)
  <2>1. now' = now /\ lastGood' = lastGood BY <1>2 DEF InsertsTenant
  <2>2. CASE tenants = <<>>
    <3>1. LastGood = lastGood BY <2>2 DEF LastGood
    <3>2. LastGood' \in {now, lastGood} BY <2>1 DEF LastGood
    <3> QED BY <2>1, <3>1, <3>2 DEF MeteringTypeOK
  <2>3. CASE tenants # <<>>
    <3>1. tenants' # <<>> /\ tenants'[1] = tenants[1]
      BY <1>2, <2>3 DEF InsertsTenant, MeteringTypeOK
    <3>2. LastGood' = LastGood BY <2>1, <2>3, <3>1 DEF LastGood, Entitles
    <3> QED BY <1>0, <2>1, <3>2
  <2> QED BY <2>2, <2>3
<1>3. CASE Tick \/ \E d \in Deliveries : Updates(d)
  <2>1. now' \in {now, now + 1} /\ lastGood' = LastGood BY <1>3 DEF Tick, Updates
  <2>2. LastGood' \in {now', lastGood'} BY DEF LastGood
  <2> QED BY <1>0, <2>1, <2>2
<1>4. \/ UNCHANGED <<now, tenants, lastGood>>
      \/ \E d \in Deliveries : InsertsTenant(d)
      \/ Tick \/ \E d \in Deliveries : Updates(d)
  <2>1. ASSUME NEW p \in Prompts,
               Detects(p) \/ Dispatches(p) \/ Counts(p) \/ InsertsScan(p) \/ Hears(p) \/ Drops(p)
        PROVE  UNCHANGED <<now, tenants, lastGood>>
    BY <2>1 DEF Detects, Dispatches, Counts, InsertsScan, Hears, Drops, subVars
  <2>2. ASSUME NEW d \in Deliveries,
               (\E type \in Types : Receives(d, type)) \/ FindsTenant(d) \/ DeliveryFails(d)
        PROVE  UNCHANGED <<now, tenants, lastGood>>
    BY <2>2 DEF Receives, FindsTenant, DeliveryFails
  <2>3. ASSUME NEW r \in Reads, Hits(r) \/ Misses(r) \/ Caches(r)
        PROVE  UNCHANGED <<now, tenants, lastGood>>
    BY <2>3 DEF Hits, Misses, Caches, subVars
  <2>4. CASE MonthTurns \/ Invalidates \/ UNCHANGED vars
    BY <2>4 DEF MonthTurns, Invalidates, vars, subVars
  <2> QED BY <2>1, <2>2, <2>3, <2>4 DEF Next
<1> QED BY <1>1, <1>2, <1>3, <1>4

\* A copy stays as good as it is: what entitles later entitles now.
LEMMA GoodStays ==
  ASSUME MeteringTypeOK, MeteringTypeOK', [Next]_vars,
         NEW row \in Rows \cup {NoRow}, NEW at \in Nat, Good(row, at)
  PROVE  Good(row, at)'
<1>1. now' \in {now, now + 1} /\ LastGood <= LastGood' BY LastGoodGrows
<1>2. LastGood \in 0..now /\ now \in Nat BY LastGoodType DEF MeteringTypeOK
<1>3. LastGood' \in 0..now' /\ now' \in Nat
  <2>1. LastGood' \in {now', lastGood'} BY DEF LastGood
  <2> QED BY <2>1 DEF MeteringTypeOK
<1>4. row.graceEndsAt \in Nat BY DEF Rows, NoRow
<1>5. Entitles(row)' => Entitles(row) BY <1>1, <1>2, <1>4 DEF Entitles
<1> QED BY <1>1, <1>2, <1>3, <1>5 DEF Good

\* Reads that a step leaves selected are as recent as they were, if no time passes.
LEMMA ReadsKept ==
  ASSUME MeteringTypeOK, MeteringTypeOK', CopiesAreRecent, [Next]_vars, now' = now,
         NEW r \in Reads, read'[r] = read[r], read[r].pc = "selected"
  PROVE  now' <= read'[r].at + 1 /\ Good(read[r].row, read[r].at)'
<1>1. now <= read[r].at + 1 /\ Good(read[r].row, read[r].at) BY DEF CopiesAreRecent
<1>2. PICK row \in Rows \cup {NoRow}, at \in Nat : row = read[r].row /\ at = read[r].at
  BY DEF MeteringTypeOK
<1>3. Good(row, at) BY <1>1, <1>2
<1>4. Good(row, at)' BY <1>3, GoodStays
<1>5. row = read'[r].row /\ at = read'[r].at BY <1>2
<1> QED BY <1>1, <1>4, <1>5 DEF Good, Entitles

LEMMA CacheKept ==
  ASSUME MeteringTypeOK, MeteringTypeOK', CopiesAreRecent, [Next]_vars,
         cache' = cache, cache'.expiresAt > now'
  PROVE  cache'.expiresAt <= cache'.at + 1 + TTL /\ Good(cache.row, cache.at)'
<1>1. now' \in {now, now + 1} /\ now \in Nat BY LastGoodGrows DEF MeteringTypeOK
<1>2. cache.expiresAt > now BY <1>1 DEF MeteringTypeOK
<1>3. cache.expiresAt <= cache.at + 1 + TTL /\ Good(cache.row, cache.at)
  BY <1>2 DEF CopiesAreRecent
<1>4. PICK row \in Rows \cup {NoRow}, at \in Nat : row = cache.row /\ at = cache.at
  BY DEF MeteringTypeOK
<1>5. Good(row, at) BY <1>3, <1>4
<1>6. Good(row, at)' BY <1>5, GoodStays
<1>7. row = cache'.row /\ at = cache'.at BY <1>4
<1> QED BY <1>3, <1>6, <1>7 DEF Good, Entitles

\* Steps that serve nobody and select nothing.
LEMMA StepsLeave ==
  ASSUME MeteringTypeOK, MeteringTypeOK', CopiesAreRecent, [Next]_vars,
         UNCHANGED <<now, cache, read>>
  PROVE  CopiesAreRecent'
<1>1. cache'.expiresAt > now' =>
        cache'.expiresAt <= cache'.at + 1 + TTL /\ Good(cache.row, cache.at)'
  BY CacheKept
<1>2. ASSUME NEW r \in Reads, read'[r].pc = "selected"
      PROVE  now' <= read'[r].at + 1 /\ Good(read[r].row, read[r].at)'
  BY <1>2, ReadsKept
<1> QED BY <1>1, <1>2 DEF CopiesAreRecent

LEMMA NextCopies == MeteringTypeOK /\ CopiesAreRecent /\ [Next]_vars => CopiesAreRecent'
<1> SUFFICES ASSUME MeteringTypeOK, CopiesAreRecent, [Next]_vars PROVE CopiesAreRecent'
  OBVIOUS
<1>t. MeteringTypeOK' BY NextTypes
<1>1. CASE \E r \in Reads : Hits(r)
  <2> PICK r \in Reads : Hits(r) BY <1>1
  <2>1. now' = now /\ cache' = cache BY DEF Hits
  <2>2. cache'.expiresAt > now' =>
          cache'.expiresAt <= cache'.at + 1 + TTL /\ Good(cache.row, cache.at)'
    BY <1>t, <2>1, CacheKept
  <2>3. read'[r].pc # "selected" /\ \A q \in Reads : q # r => read'[q] = read[q]
    BY DEF Hits, Judged, MeteringTypeOK
  <2>4. ASSUME NEW q \in Reads, read'[q].pc = "selected"
        PROVE  now' <= read'[q].at + 1 /\ Good(read[q].row, read[q].at)'
    <3>1. read'[q] = read[q] BY <2>3, <2>4
    <3> QED BY <1>t, <2>1, <2>4, <3>1, ReadsKept
  <2> QED BY <2>2, <2>4 DEF CopiesAreRecent
<1>2. CASE \E r \in Reads : Misses(r)
  <2> PICK r \in Reads : Misses(r) BY <1>2
  <2>1. now' = now /\ cache' = cache BY DEF Misses
  <2>2. cache'.expiresAt > now' =>
          cache'.expiresAt <= cache'.at + 1 + TTL /\ Good(cache.row, cache.at)'
    BY <1>t, <2>1, CacheKept
  <2>3. /\ read'[r].row = tenants[1] /\ read'[r].at = now
        /\ \A q \in Reads : q # r => read'[q] = read[q]
    BY DEF Misses, MeteringTypeOK
  <2>4. ASSUME NEW q \in Reads, read'[q].pc = "selected", q # r
        PROVE  now' <= read'[q].at + 1 /\ Good(read[q].row, read[q].at)'
    <3>1. read'[q] = read[q] BY <2>3, <2>4
    <3> QED BY <1>t, <2>1, <2>4, <3>1, ReadsKept
  <2>5. now' <= read'[r].at + 1 /\ Good(read[r].row, read[r].at)'
    <3>1. tenants # <<>> BY DEF Misses
    <3>2. tenants' = tenants BY DEF Misses, subVars
    <3>3. Entitles(tenants[1])' => LastGood' = now' BY <3>1, <3>2 DEF LastGood
    <3>4. now \in Nat BY DEF MeteringTypeOK
    <3>5. Good(read[r].row, read[r].at)'
      BY <2>1, <2>3, <3>2, <3>3, <3>4 DEF Good, Entitles
    <3> QED BY <2>1, <2>3, <3>4, <3>5
  <2> QED BY <2>2, <2>4, <2>5 DEF CopiesAreRecent
<1>3. CASE \E r \in Reads : Caches(r)
  <2> PICK r \in Reads : Caches(r) BY <1>3
  <2>1. now' = now /\ read[r].pc = "selected" BY DEF Caches
  <2>2. cache' = [expiresAt |-> now + TTL, row |-> read[r].row, at |-> read[r].at]
    BY DEF Caches
  <2>3. now <= read[r].at + 1 /\ Good(read[r].row, read[r].at) BY <2>1 DEF CopiesAreRecent
  <2>4. PICK row \in Rows \cup {NoRow}, at \in Nat : row = read[r].row /\ at = read[r].at
    BY DEF MeteringTypeOK
  <2>5. Good(row, at) BY <2>3, <2>4
  <2>6. Good(row, at)' BY <1>t, <2>5, GoodStays
  <2>7. cache'.expiresAt <= cache'.at + 1 + TTL BY <2>2, <2>3, <2>4 DEF MeteringTypeOK
  <2>8. Good(cache.row, cache.at)' BY <2>2, <2>4, <2>6 DEF Good, Entitles
  <2>9. read'[r].pc # "selected" /\ \A q \in Reads : q # r => read'[q] = read[q]
    BY DEF Caches, Judged, MeteringTypeOK
  <2>10. ASSUME NEW q \in Reads, read'[q].pc = "selected"
         PROVE  now' <= read'[q].at + 1 /\ Good(read[q].row, read[q].at)'
    <3>1. read'[q] = read[q] BY <2>9, <2>10
    <3> QED BY <1>t, <2>1, <2>10, <3>1, ReadsKept
  <2> QED BY <2>7, <2>8, <2>10 DEF CopiesAreRecent
<1>4. CASE Invalidates
  <2>1. now' = now /\ read' = read /\ cache'.expiresAt = 0
    BY <1>4 DEF Invalidates, MeteringTypeOK
  <2>2. ~(cache'.expiresAt > now') BY <1>t, <2>1 DEF MeteringTypeOK
  <2>3. ASSUME NEW q \in Reads, read'[q].pc = "selected"
        PROVE  now' <= read'[q].at + 1 /\ Good(read[q].row, read[q].at)'
    BY <1>t, <2>1, <2>3, ReadsKept
  <2> QED BY <2>2, <2>3 DEF CopiesAreRecent
<1>5. CASE Tick
  <2>1. now' = now + 1 /\ cache' = cache /\ read' = read BY <1>5 DEF Tick, readVars
  <2>2. cache'.expiresAt > now' =>
          cache'.expiresAt <= cache'.at + 1 + TTL /\ Good(cache.row, cache.at)'
    BY <1>t, <2>1, CacheKept
  <2>3. ASSUME NEW q \in Reads, read'[q].pc = "selected"
        PROVE  now' <= read'[q].at + 1 /\ Good(read[q].row, read[q].at)'
    <3>1. read[q].at = now /\ Good(read[q].row, read[q].at)
      BY <1>5, <2>1, <2>3 DEF Tick, CopiesAreRecent
    <3>2. PICK row \in Rows \cup {NoRow}, at \in Nat : row = read[q].row /\ at = read[q].at
      BY DEF MeteringTypeOK
    <3>3. Good(row, at) BY <3>1, <3>2
    <3>4. Good(row, at)' BY <1>t, <3>3, GoodStays
    <3>5. Good(read[q].row, read[q].at)' BY <2>1, <3>2, <3>4 DEF Good, Entitles
    <3> QED BY <2>1, <3>1, <3>5 DEF MeteringTypeOK
  <2> QED BY <2>2, <2>3 DEF CopiesAreRecent
<1>6. CASE UNCHANGED <<now, cache, read>>
  BY <1>t, <1>6, StepsLeave
<1>7. \/ \E r \in Reads : Hits(r) \/ Misses(r) \/ Caches(r)
      \/ Invalidates \/ Tick \/ UNCHANGED <<now, cache, read>>
  <2>1. ASSUME NEW p \in Prompts,
               Detects(p) \/ Dispatches(p) \/ Counts(p) \/ InsertsScan(p) \/ Hears(p) \/ Drops(p)
        PROVE  UNCHANGED <<now, cache, read>>
    BY <2>1 DEF Detects, Dispatches, Counts, InsertsScan, Hears, Drops, readVars
  <2>2. ASSUME NEW d \in Deliveries,
               \/ \E type \in Types : Receives(d, type)
               \/ FindsTenant(d) \/ InsertsTenant(d) \/ Updates(d) \/ DeliveryFails(d)
        PROVE  UNCHANGED <<now, cache, read>>
    BY <2>2 DEF Receives, FindsTenant, InsertsTenant, Updates, DeliveryFails, readVars
  <2>3. CASE MonthTurns \/ UNCHANGED vars BY <2>3 DEF MonthTurns, vars, readVars
  <2> QED BY <2>1, <2>2, <2>3 DEF Next
<1> QED BY <1>1, <1>2, <1>3, <1>4, <1>5, <1>6, <1>7

-----------------------------------------------------------------------------
(* The theorems. *)

\* The inductive invariant holds: types, places and the age of copies.
THEOREM MeteringInductive == Spec => []MeteringInv
<1>1. Init => MeteringInv
  <2> SUFFICES ASSUME Init PROVE MeteringInv OBVIOUS
  <2>1. MeteringTypeOK /\ PlacesAreKept BY InitTypes, InitPlaces
  <2>2. ~(cache.expiresAt > now) /\ \A r \in Reads : read[r].pc # "selected"
    BY DEF Init, NoRead
  <2> QED BY <2>1, <2>2 DEF MeteringInv, CopiesAreRecent
<1>2. MeteringInv /\ [Next]_vars => MeteringInv'
  BY NextTypes, NextPlaces, NextCopies DEF MeteringInv
<1> QED BY <1>1, <1>2, PTL DEF Spec

\* The month's scans exceed the limit, and the rows of a subscription one, by no more than the
\* requests that were between a check and its insert at once (recordScan, activateTenant).
THEOREM MeteringChecks == Spec => []ChecksHoldUpToOverlap
<1>1. MeteringInv => ChecksHoldUpToOverlap
  <2> SUFFICES ASSUME MeteringInv PROVE ChecksHoldUpToOverlap OBVIOUS
  <2>1. Counted \in Parts /\ Pending \in Parts BY DEF Counted, Pending, Parts
  <2>2. Cardinality(Counted) \in Nat /\ Cardinality(Pending) \in Nat BY <2>1, Finite
  <2>3. Len(tenants) \in Nat BY DEF MeteringInv, MeteringTypeOK
  <2>4. scans <= Limit - 1 + peak.scans
    BY <2>2 DEF MeteringInv, MeteringTypeOK, PlacesAreKept
  <2>5. Len(tenants) <= peak.activations
    BY <2>2, <2>3 DEF MeteringInv, MeteringTypeOK, PlacesAreKept, Pending
  <2> QED BY <2>4, <2>5 DEF ChecksHoldUpToOverlap
<1> QED BY <1>1, MeteringInductive, PTL

\* Once refused, with no scan on its way, the extension reports no scan again (DETECT, which
\* reads the flag that only the answer to a scan clears).
THEOREM MeteringRefusal == Spec => RefusalIsForever
<1>1. MeteringInv /\ [Next]_vars => [Muted => Muted']_vars
  <2> SUFFICES ASSUME MeteringTypeOK, [Next]_vars, Muted PROVE Muted'
    BY DEF MeteringInv
  <2>1. ASSUME NEW p \in Prompts,
               Detects(p) \/ Dispatches(p) \/ Counts(p) \/ InsertsScan(p) \/ Hears(p) \/ Drops(p)
        PROVE  Muted'
    <3>1. prompt[p] \in {"none", "ended"} /\ scanLimitReached = TRUE
      BY DEF Muted, MeteringTypeOK
    <3>2. Detects(p)
      BY <2>1, <3>1 DEF Detects, Dispatches, Counts, InsertsScan, Hears, Drops, At
    <3>3. scanLimitReached' = TRUE /\ prompt' = [prompt EXCEPT ![p] = "ended"]
      BY <3>1, <3>2 DEF Detects, Goes
    <3> QED BY <3>3 DEF Muted, MeteringTypeOK
  <2>2. CASE UNCHANGED <<scanLimitReached, prompt>> BY <2>2 DEF Muted
  <2>3. ASSUME NEW d \in Deliveries,
               \/ \E type \in Types : Receives(d, type)
               \/ FindsTenant(d) \/ InsertsTenant(d) \/ Updates(d) \/ DeliveryFails(d)
        PROVE  UNCHANGED <<scanLimitReached, prompt>>
    BY <2>3 DEF Receives, FindsTenant, InsertsTenant, Updates, DeliveryFails, scanVars
  <2>4. ASSUME NEW r \in Reads, Hits(r) \/ Misses(r) \/ Caches(r)
        PROVE  UNCHANGED <<scanLimitReached, prompt>>
    BY <2>4 DEF Hits, Misses, Caches, scanVars
  <2>5. CASE MonthTurns \/ Invalidates \/ Tick \/ UNCHANGED vars
    BY <2>2, <2>5 DEF MonthTurns, Invalidates, Tick, vars, scanVars
  <2> QED BY <2>1, <2>2, <2>3, <2>4, <2>5 DEF Next
<1> QED BY <1>1, MeteringInductive, PTL DEF Spec, RefusalIsForever

\* Who is served the policy was entitled to it no longer ago than a cache entry lives
\* (getTenantCached, requireActiveSubscription).
THEOREM MeteringCutOff == Spec => CutOffWithinTTL
<1> DEFINE Step == \A r \in Reads : read[r].pc # "served" /\ read'[r].pc = "served"
                     => now <= LastGood + TTL
<1>1. MeteringInv /\ [Next]_vars => [Step]_vars
  <2> SUFFICES ASSUME MeteringTypeOK, CopiesAreRecent, [Next]_vars, NEW r \in Reads,
                      read[r].pc # "served", read'[r].pc = "served"
               PROVE  now <= LastGood + TTL
    BY DEF MeteringInv
  <2>t. LastGood \in 0..now /\ now \in Nat BY LastGoodType DEF MeteringTypeOK
  <2>1. CASE Hits(r)
    <3>1. Entitles(cache.row) /\ cache.expiresAt > now
      BY <2>1 DEF Hits, Judged, MeteringTypeOK
    <3>2. cache.expiresAt <= cache.at + 1 + TTL /\ cache.at <= LastGood
      BY <3>1 DEF CopiesAreRecent, Good
    <3> QED BY <2>t, <3>1, <3>2 DEF MeteringTypeOK
  <2>2. CASE Caches(r)
    <3>1. Entitles(read[r].row) /\ read[r].pc = "selected"
      BY <2>2 DEF Caches, Judged, MeteringTypeOK
    <3>2. now <= read[r].at + 1 /\ read[r].at <= LastGood
      BY <3>1 DEF CopiesAreRecent, Good
    <3> QED BY <2>t, <3>1, <3>2 DEF MeteringTypeOK
  <2>3. Hits(r) \/ Caches(r)
    <3>1. ASSUME NEW q \in Reads, Hits(q) \/ Misses(q) \/ Caches(q) PROVE q = r /\ ~Misses(q)
      BY <3>1 DEF Hits, Misses, Caches, Judged, MeteringTypeOK
    <3>2. read' # read OBVIOUS
    <3>3. ASSUME NEW p \in Prompts,
                 Detects(p) \/ Dispatches(p) \/ Counts(p) \/ InsertsScan(p) \/ Hears(p) \/ Drops(p)
          PROVE  read' = read
      BY <3>3 DEF Detects, Dispatches, Counts, InsertsScan, Hears, Drops, readVars
    <3>4. ASSUME NEW d \in Deliveries,
                 \/ \E type \in Types : Receives(d, type)
                 \/ FindsTenant(d) \/ InsertsTenant(d) \/ Updates(d) \/ DeliveryFails(d)
          PROVE  read' = read
      BY <3>4 DEF Receives, FindsTenant, InsertsTenant, Updates, DeliveryFails, readVars
    <3>5. MonthTurns \/ Invalidates \/ Tick \/ UNCHANGED vars => read' = read
      BY DEF MonthTurns, Invalidates, Tick, vars, readVars
    <3> QED BY <3>1, <3>2, <3>3, <3>4, <3>5 DEF Next
  <2> QED BY <2>1, <2>2, <2>3
<1> QED BY <1>1, MeteringInductive, PTL DEF Spec, CutOffWithinTTL
=============================================================================
