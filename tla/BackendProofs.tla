--------------------------- MODULE BackendProofs ----------------------------
(***************************************************************************)
(* Proofs about the backend's tables: Publishing, for any number of rules, *)
(* subjects, keys, requests and versions, and Membership, for any number   *)
(* of people, pages and requests.                                          *)
(*                                                                         *)
(* The arguments.  The loop of resolveMemberPolicy keeps the best of the   *)
(* rules it has seen, by induction over the list; induction is stated with *)
(* a set of numbers, whose complement would have a least element.  A job   *)
(* during which nobody edits has read only what the draft still says, so   *)
(* what it inserts is the draft.  What a client holds was resolved from a  *)
(* version, and versions never change.                                     *)
(* A page that may still found an organisation is counted with those       *)
(* founded (RoomToFound); an add that is not late has its seat free        *)
(* (SeatIsFree); and a row that waits unmissed has an event ahead, because *)
(* an account without a user row has one due (RowOrEvent).                 *)
(***************************************************************************)
EXTENDS Publishing, Membership, WellFoundedInduction, FiniteSetTheorems, FunctionTheorems, TLAPS

-----------------------------------------------------------------------------
(* Induction, stated with sets.                                            *)

LEMMA LeastElement ==
  ASSUME NEW T, T \subseteq Nat, T # {}
  PROVE  \E n \in T : \A m \in T : n <= m
<1>1. PICK n \in T : \A m \in T : ~(<<m, n>> \in OpToRel(<, Nat))
  BY NatLessThanWellFounded, WFMin
<1>2. ASSUME NEW m \in T PROVE n <= m
  <2>1. CASE m < n
    <3>1. <<m, n>> \in Nat \X Nat /\ <<m, n>>[1] < <<m, n>>[2]
      BY <2>1
    <3>2. <<m, n>> \in OpToRel(<, Nat)
      BY <3>1 DEF OpToRel
    <3> QED
      BY <1>1, <3>2
  <2> QED
    BY <2>1
<1> QED
  BY <1>1, <1>2

LEMMA SetInduction ==
  ASSUME NEW T, 0 \in T, \A n \in T \cap Nat : n + 1 \in T
  PROVE  Nat \subseteq T
<1> DEFINE U == Nat \ T
<1>1. CASE U # {}
  <2>1. PICK n \in U : \A m \in U : n <= m
    BY <1>1, LeastElement
  <2>2. n # 0 /\ n - 1 \in Nat /\ n - 1 \notin U
    BY <2>1
  <2>3. n - 1 \in T \cap Nat /\ (n - 1) + 1 = n
    BY <2>2
  <2> QED
    BY <2>1, <2>3
<1> QED
  BY <1>1

-----------------------------------------------------------------------------
(* The loop of resolveMemberPolicy.                                        *)

Size == Cardinality(Rules)

\* Its body: what is kept after the first n rules, of what was kept after one less.
KeepsNext(order, doc, team, key, was, r) ==
  IF /\ doc.rules[r] \in Actions /\ KeyOf[r] = key /\ Applies(r, team)
     /\ \A k \in was : \/ Priority(r) > Priority(k)
                       \/ Priority(r) = Priority(k) /\ doc.rules[r] = "block"
  THEN {r} ELSE was

Keeping(order, doc, team, key, kept, n) ==
  IF n = 0 THEN {} ELSE KeepsNext(order, doc, team, key, kept[n - 1], order[n])

LEMMA SizeType == Size \in Nat
BY PublishingAssumption, FS_CardinalityType DEF Size

\* There is such a loop.
LEMMA LoopExists ==
  ASSUME NEW order, NEW doc, NEW team, NEW key
  PROVE  \E kept : kept = [n \in 0..Size |-> Keeping(order, doc, team, key, kept, n)]
<1> DEFINE Runs(m, f) == \A n \in 0..m : f[n] = Keeping(order, doc, team, key, f, n)
           T == {m \in Nat : \E f : f = [n \in 0..m |-> f[n]] /\ Runs(m, f)}
<1>1. 0 \in T
  <2> DEFINE f == [n \in 0..0 |-> {}]
  <2>1. f = [n \in 0..0 |-> f[n]] /\ Runs(0, f)
    BY DEF Keeping
  <2> QED
    BY <2>1
<1>2. ASSUME NEW m \in T \cap Nat PROVE m + 1 \in T
  <2>1. PICK f : f = [n \in 0..m |-> f[n]] /\ Runs(m, f)
    OBVIOUS
  <2> DEFINE g == [n \in 0..(m + 1) |->
                     IF n = m + 1 THEN Keeping(order, doc, team, key, f, m + 1) ELSE f[n]]
  <2>2. \A n \in 0..m : g[n] = f[n]
    OBVIOUS
  <2>3. ASSUME NEW n \in 0..(m + 1) PROVE g[n] = Keeping(order, doc, team, key, g, n)
    <3>1. n # 0 => n - 1 \in 0..m /\ g[n - 1] = f[n - 1]
      BY <2>2
    <3>2. Keeping(order, doc, team, key, g, n) = Keeping(order, doc, team, key, f, n)
      BY <3>1 DEF Keeping
    <3>3. CASE n = m + 1
      BY <3>2, <3>3
    <3>4. CASE n # m + 1
      <4>1. n \in 0..m
        BY <3>4
      <4> QED
        BY <2>1, <2>2, <3>2, <4>1
    <3> QED
      BY <3>3, <3>4
  <2>4. g = [n \in 0..(m + 1) |-> g[n]]
    OBVIOUS
  <2> HIDE DEF g
  <2>5. Runs(m + 1, g)
    BY <2>3
  <2> QED
    BY <2>4, <2>5
<1>3. Size \in T
  <2> HIDE DEF T
  <2>1. Nat \subseteq T
    BY <1>1, <1>2, SetInduction
  <2> QED
    BY <2>1, SizeType
<1>4. PICK f : f = [n \in 0..Size |-> f[n]] /\ Runs(Size, f)
  BY <1>3
<1>5. f = [n \in 0..Size |-> Keeping(order, doc, team, key, f, n)]
  <2>1. \A n \in 0..Size : f[n] = Keeping(order, doc, team, key, f, n)
    BY <1>4
  <2>2. [n \in 0..Size |-> f[n]] = [n \in 0..Size |-> Keeping(order, doc, team, key, f, n)]
    BY <2>1
  <2> QED
    BY <1>4, <2>2
<1> QED
  BY <1>5

\* So that Kept is where it ends.
LEMMA KeptIsLoop ==
  ASSUME NEW order, NEW doc, NEW team, NEW key
  PROVE  \E kept : /\ kept = [n \in 0..Size |-> Keeping(order, doc, team, key, kept, n)]
                   /\ Kept(order, doc, team, key) = kept[Size]
<1> DEFINE Is(kept) == kept = [n \in 0..Size |-> Keeping(order, doc, team, key, kept, n)]
           loop == CHOOSE kept : Is(kept)
<1>1. Is(loop)
  <2>1. \E kept : Is(kept)
    BY LoopExists
  <2> HIDE DEF Is
  <2> QED
    BY <2>1, Zenon
<1>2. Kept(order, doc, team, key) = loop[Size]
  BY DEF Kept, Keeping, KeepsNext, Size
<1> QED
  BY <1>1, <1>2


\* Which rules of a document are eligible, and what the best of some is.
Eligible(doc, team, key, r) == doc.rules[r] \in Actions /\ KeyOf[r] = key /\ Applies(r, team)

Best(kept, apt, doc) ==
  \/ apt = {} /\ kept = {}
  \/ \E r \in apt : /\ kept = {r}
                    /\ \A q \in apt : Priority(q) <= Priority(r)
                    /\ \A q \in apt : Priority(q) = Priority(r) /\ doc.rules[q] = "block"
                                        => doc.rules[r] = "block"

LEMMA PriorityType == \A r : Priority(r) \in {0, 1}
BY DEF Priority

LEMMA KeepsBest ==
  ASSUME NEW order, NEW doc, NEW team, NEW key, NEW was, NEW apt, NEW r, Best(was, apt, doc)
  PROVE  Best(KeepsNext(order, doc, team, key, was, r),
              IF Eligible(doc, team, key, r) THEN apt \cup {r} ELSE apt, doc)
<1>1. CASE ~Eligible(doc, team, key, r)
  BY <1>1 DEF Eligible, KeepsNext
<1>2. CASE Eligible(doc, team, key, r) /\ apt = {}
  BY <1>2, PriorityType DEF Eligible, KeepsNext, Best
<1>3. CASE Eligible(doc, team, key, r) /\ apt # {}
  <2>1. PICK k \in apt : /\ was = {k}
                         /\ \A q \in apt : Priority(q) <= Priority(k)
                         /\ \A q \in apt : Priority(q) = Priority(k) /\ doc.rules[q] = "block"
                                             => doc.rules[k] = "block"
    BY <1>3 DEF Best
  <2>2. CASE Priority(r) > Priority(k) \/ (Priority(r) = Priority(k) /\ doc.rules[r] = "block")
    <3>1. KeepsNext(order, doc, team, key, was, r) = {r}
      BY <1>3, <2>1, <2>2 DEF Eligible, KeepsNext
    <3>2. \A q \in apt \cup {r} : Priority(q) <= Priority(r)
      BY <2>1, <2>2, PriorityType
    <3>3. \A q \in apt \cup {r} : Priority(q) = Priority(r) /\ doc.rules[q] = "block"
                                    => doc.rules[r] = "block"
      BY <2>1, <2>2, PriorityType
    <3> QED
      BY <1>3, <3>1, <3>2, <3>3 DEF Best
  <2>3. CASE ~(Priority(r) > Priority(k)) /\ ~(Priority(r) = Priority(k) /\ doc.rules[r] = "block")
    <3>1. KeepsNext(order, doc, team, key, was, r) = {k}
      BY <2>1, <2>3 DEF KeepsNext
    <3>2. \A q \in apt \cup {r} : Priority(q) <= Priority(k)
      BY <2>1, <2>3, PriorityType
    <3>3. \A q \in apt \cup {r} : Priority(q) = Priority(k) /\ doc.rules[q] = "block"
                                    => doc.rules[k] = "block"
      BY <2>1, <2>3
    <3> QED
      BY <1>3, <3>1, <3>2, <3>3 DEF Best
  <2> QED
    BY <2>2, <2>3
<1> QED
  BY <1>1, <1>2, <1>3

\* The loop ends with the best of the rules it has gone through ...
LEMMA KeptIsBestSeen ==
  ASSUME NEW order, NEW doc, NEW team, NEW key
  PROVE  Best(Kept(order, doc, team, key),
              {r \in {order[i] : i \in 1..Size} : Eligible(doc, team, key, r)}, doc)
<1>1. PICK kept : /\ kept = [n \in 0..Size |-> Keeping(order, doc, team, key, kept, n)]
                  /\ Kept(order, doc, team, key) = kept[Size]
  BY KeptIsLoop
<1> DEFINE Seen(n) == {r \in {order[i] : i \in 1..n} : Eligible(doc, team, key, r)}
           T == {n \in Nat : n <= Size => Best(kept[n], Seen(n), doc)}
<1>2. \A n \in 0..Size : kept[n] = Keeping(order, doc, team, key, kept, n)
  BY <1>1
<1>3. 0 \in T
  <2>1. kept[0] = {}
    BY <1>2, SizeType DEF Keeping
  <2>2. Seen(0) = {}
    OBVIOUS
  <2>3. Best(kept[0], Seen(0), doc)
    BY <2>1, <2>2 DEF Best
  <2> QED
    BY <2>3
<1>4. ASSUME NEW n \in T \cap Nat PROVE n + 1 \in T
  <2>1. SUFFICES ASSUME n + 1 <= Size PROVE Best(kept[n + 1], Seen(n + 1), doc)
    OBVIOUS
  <2> DEFINE r == order[n + 1]
  <2>2. Best(kept[n], Seen(n), doc)
    BY <2>1, SizeType
  <2>3. kept[n + 1] = KeepsNext(order, doc, team, key, kept[n], r)
    <3>1. n + 1 \in 0..Size /\ n + 1 # 0 /\ (n + 1) - 1 = n
      BY <2>1, SizeType
    <3> QED
      BY <1>2, <3>1 DEF Keeping
  <2>4. Seen(n + 1) = IF Eligible(doc, team, key, r) THEN Seen(n) \cup {r} ELSE Seen(n)
    <3>1. 1..(n + 1) = 1..n \cup {n + 1}
      OBVIOUS
    <3> QED
      BY <3>1
  <2> HIDE DEF Seen, r
  <2>5. Best(KeepsNext(order, doc, team, key, kept[n], r),
             IF Eligible(doc, team, key, r) THEN Seen(n) \cup {r} ELSE Seen(n), doc)
    BY <2>2, KeepsBest
  <2> QED
    BY <2>3, <2>4, <2>5
<1>5. Best(kept[Size], Seen(Size), doc)
  <2> HIDE DEF T
  <2>1. Nat \subseteq T
    BY <1>3, <1>4, SetInduction
  <2>2. Size \in T
    BY <2>1, SizeType
  <2> QED
    BY <2>2, SizeType DEF T
<1> QED
  BY <1>1, <1>5

\* ... which are all, however they are listed.
LEMMA OrdersListAll ==
  ASSUME NEW order \in Orders
  PROVE  {order[i] : i \in 1..Size} = Rules
<1>1. order \in Injection(1..Size, Rules)
  <2>1. order \in [1..Size -> Rules] /\ DOMAIN order = 1..Size
    BY DEF Orders, Size
  <2>2. \A i, j \in DOMAIN order : order[i] = order[j] => i = j
    BY DEF Orders
  <2>3. IsInjective(order)
    BY <2>2 DEF IsInjective
  <2> QED
    BY <2>1, <2>3 DEF Injection
<1>2. Cardinality(1..Size) = Size
  BY SizeType, FS_Interval
<1>3. order \in Surjection(1..Size, Rules)
  BY <1>1, <1>2, FS_Injection, PublishingAssumption DEF Size
<1>4. \A r \in Rules : \E i \in 1..Size : order[i] = r
  BY <1>3 DEF Surjection
<1>5. \A i \in 1..Size : order[i] \in Rules
  BY <1>1 DEF Injection
<1> QED
  BY <1>4, <1>5

LEMMA KeptIsBest ==
  ASSUME NEW order \in Orders, NEW doc, NEW team, NEW key
  PROVE  Best(Kept(order, doc, team, key), {r \in Rules : Eligible(doc, team, key, r)}, doc)
<1>1. Best(Kept(order, doc, team, key),
           {r \in {order[i] : i \in 1..Size} : Eligible(doc, team, key, r)}, doc)
  BY KeptIsBestSeen
<1> QED
  BY <1>1, OrdersListAll

\* Of the rules that detect the same thing, the strictest of the narrowest scope.
LEMMA Strictest == StrictestOfScope
<1> SUFFICES ASSUME NEW order \in Orders, NEW team \in BOOLEAN, NEW key \in Keys
             PROVE  LET apt == {r \in Rules : Latest.rules[r] \in Actions /\ KeyOf[r] = key
                                              /\ Applies(r, team)}
                        top == {r \in apt : \A q \in apt : Priority(q) <= Priority(r)}
                    IN \/ apt = {} /\ Kept(order, Latest, team, key) = {}
                       \/ \E r \in top : /\ Kept(order, Latest, team, key) = {r}
                                         /\ (\E q \in top : Latest.rules[q] = "block")
                                              => Latest.rules[r] = "block"
  BY DEF StrictestOfScope
<1> DEFINE apt == {r \in Rules : Latest.rules[r] \in Actions /\ KeyOf[r] = key /\ Applies(r, team)}
           top == {r \in apt : \A q \in apt : Priority(q) <= Priority(r)}
<1>1. apt = {r \in Rules : Eligible(Latest, team, key, r)}
  BY DEF Eligible
<1>2. Best(Kept(order, Latest, team, key), apt, Latest)
  BY <1>1, KeptIsBest
<1>3. CASE apt = {}
  BY <1>2, <1>3 DEF Best
<1>4. CASE apt # {}
  <2>1. PICK r \in apt : /\ Kept(order, Latest, team, key) = {r}
                         /\ \A q \in apt : Priority(q) <= Priority(r)
                         /\ \A q \in apt : Priority(q) = Priority(r) /\ Latest.rules[q] = "block"
                                             => Latest.rules[r] = "block"
    BY <1>2, <1>4 DEF Best
  <2>2. r \in top
    BY <2>1
  <2>3. \A q \in top : Priority(q) = Priority(r)
    BY <2>1, PriorityType
  <2> QED
    BY <2>1, <2>2, <2>3
<1> QED
  BY <1>3, <1>4

-----------------------------------------------------------------------------
(* Types.                                                                  *)

PubTypeOK ==
  /\ rule \in [Rules -> {"none", "off"} \cup Actions]
  /\ subject \in [Subjects -> BOOLEAN] /\ failMode \in FailModes
  /\ policies \in Seq(Snapshot) /\ Len(policies) > 0
  /\ muted \subseteq Rules /\ ownMode \in {"none"} \cup FailModes /\ inTeam \in BOOLEAN
  /\ job \in [Jobs -> [pc : {"idle", "compile", "number", "insert"}, todo : SUBSET Tables,
                       doc : Snapshot, next : Nat]]
  /\ ask \in [ver : 0..Len(policies), doc : Snapshot]
  /\ client \in [ver : 0..Len(policies), rules : SUBSET [rule : Rules, action : Actions],
                 mode : FailModes]
  /\ edits \in Nat /\ fresh \subseteq Jobs /\ lastFresh \in BOOLEAN /\ aside \in BOOLEAN

LEMMA InitialType == Initial \in Snapshot /\ Resting \in [pc : {"idle"}, todo : SUBSET Tables,
                                                         doc : Snapshot, next : Nat]
BY DEF Initial, NoRules, Snapshot, FailModes, Resting

LEMMA GroupedType ==
  ASSUME NEW d \in Snapshot
  PROVE  /\ Grouped(d) \in Snapshot
         /\ Grouped(d).subjects = d.subjects /\ Grouped(d).failMode = d.failMode
         /\ \A r \in Rules : Grouped(d).rules[r] = IF SubjectOf[r] \in d.subjects
                                                   THEN d.rules[r] ELSE "none"
<1> DEFINE R == [r \in Rules |-> IF SubjectOf[r] \in d.subjects THEN d.rules[r] ELSE "none"]
<1>1. R \in [Rules -> Actions \cup {"none"}]
  BY DEF Snapshot
<1>2. Grouped(d) = [d EXCEPT !.rules = R]
  BY DEF Grouped
<1> HIDE DEF R
<1>3. Grouped(d) \in Snapshot /\ Grouped(d).subjects = d.subjects
      /\ Grouped(d).failMode = d.failMode /\ Grouped(d).rules = R
  BY <1>1, <1>2 DEF Snapshot
<1> QED
  BY <1>3 DEF R

LEMMA ActiveTypes ==
  /\ ActiveRules \in [Rules -> Actions \cup {"none"}]
  /\ ActiveSubjects \in SUBSET Subjects
BY DEF ActiveRules, ActiveSubjects

\* The document of a job after one more of its queries.
ReadInto(d, t) ==
  [d EXCEPT !.subjects = IF t = "subjects" THEN ActiveSubjects ELSE @,
            !.rules = IF t = "rules" THEN ActiveRules ELSE @,
            !.failMode = IF t = "failMode" THEN failMode ELSE @]

LEMMA ReadIntoType ==
  ASSUME NEW d \in Snapshot, NEW t, failMode \in FailModes
  PROVE  /\ ReadInto(d, t) \in Snapshot
         /\ ReadInto(d, t).subjects = IF t = "subjects" THEN ActiveSubjects ELSE d.subjects
         /\ ReadInto(d, t).rules = IF t = "rules" THEN ActiveRules ELSE d.rules
         /\ ReadInto(d, t).failMode = IF t = "failMode" THEN failMode ELSE d.failMode
BY ActiveTypes DEF ReadInto, Snapshot

LEMMA DraftIs ==
  ASSUME failMode \in FailModes
  PROVE  /\ Draft \in Snapshot
         /\ \A d \in Snapshot : /\ d.subjects = ActiveSubjects /\ d.rules = ActiveRules
                                /\ d.failMode = failMode
                                => Grouped(d) = Draft
<1> DEFINE e == [Initial EXCEPT !.subjects = ActiveSubjects, !.rules = ActiveRules,
                                !.failMode = failMode]
<1>1. /\ e \in Snapshot /\ e.subjects = ActiveSubjects /\ e.rules = ActiveRules
      /\ e.failMode = failMode
  BY InitialType, ActiveTypes DEF Snapshot
<1>3. Draft = Grouped(e)
  BY DEF Draft
<1>4. ASSUME NEW d \in Snapshot, d.subjects = ActiveSubjects, d.rules = ActiveRules,
             d.failMode = failMode
      PROVE  d = e
  BY <1>1, <1>4 DEF Snapshot
<1> HIDE DEF e
<1> QED
  BY <1>1, <1>3, <1>4, GroupedType

LEMMA ResolvedType ==
  ASSUME NEW d \in Snapshot, NEW team, NEW mutes
  PROVE  Resolved(d, team, mutes) \subseteq [rule : Rules, action : Actions]
<1> SUFFICES ASSUME NEW key \in Keys, NEW r \in Kept(Listing, d, team, key)
             PROVE  r \in Rules /\ d.rules[r] \in Actions
  BY DEF Resolved
<1>1. Best(Kept(Listing, d, team, key), {q \in Rules : Eligible(d, team, key, q)}, d)
  BY KeptIsBest, PublishingAssumption
<1>2. r \in {q \in Rules : Eligible(d, team, key, q)}
  BY <1>1 DEF Best
<1> QED
  BY <1>2 DEF Eligible

LEMMA OwnModeType ==
  ASSUME PubTypeOK, NEW d \in Snapshot
  PROVE  OwnMode(d) \in FailModes
BY DEF OwnMode, PubTypeOK, Snapshot

LEMMA PubTypeInit == Init => PubTypeOK
<1> SUFFICES ASSUME Init PROVE PubTypeOK
  OBVIOUS
<1>1. policies \in Seq(Snapshot) /\ Len(policies) = 1
  BY InitialType DEF Init
<1>2. rule \in [Rules -> {"none", "off"} \cup Actions]
  BY PublishingAssumption DEF Init, Actions
<1>3. job \in [Jobs -> [pc : {"idle", "compile", "number", "insert"}, todo : SUBSET Tables,
                        doc : Snapshot, next : Nat]]
  BY InitialType DEF Init, Resting
<1>4. ask \in [ver : 0..Len(policies), doc : Snapshot]
  BY InitialType, <1>1 DEF Init, NoAsk
<1>5. client \in [ver : 0..Len(policies), rules : SUBSET [rule : Rules, action : Actions],
                  mode : FailModes]
  BY <1>1 DEF Init, FailModes
<1>6. subject \in [Subjects -> BOOLEAN] /\ failMode \in FailModes
  BY DEF Init, FailModes
<1>7. Len(policies) > 0
  BY <1>1
<1>8. /\ muted \subseteq Rules /\ ownMode \in {"none"} \cup FailModes /\ inTeam \in BOOLEAN
      /\ edits \in Nat /\ fresh \subseteq Jobs /\ lastFresh \in BOOLEAN /\ aside \in BOOLEAN
  BY DEF Init
<1> QED
  BY <1>1, <1>2, <1>3, <1>4, <1>5, <1>6, <1>7, <1>8 DEF PubTypeOK

LEMMA LatestType ==
  ASSUME PubTypeOK
  PROVE  Latest \in Snapshot /\ Len(policies) \in Nat
         /\ \A v \in DOMAIN policies : policies[v] \in Snapshot
BY DEF PubTypeOK, Latest

JobRecord == [pc : {"idle", "compile", "number", "insert"}, todo : SUBSET Tables,
              doc : Snapshot, next : Nat]

\* What a job does to itself keeps the type of its record.
LEMMA JobTypes ==
  ASSUME PubTypeOK, NEW j \in Jobs, JobStep(j)
  PROVE  job' \in [Jobs -> JobRecord]
<1>0. job \in [Jobs -> JobRecord] /\ job[j] \in JobRecord /\ Resting \in JobRecord
  BY InitialType DEF PubTypeOK, JobRecord, Resting
<1>1. CASE StartPublish(j)
  <2>1. [Resting EXCEPT !.pc = "compile", !.todo = Tables] \in JobRecord
    BY InitialType DEF JobRecord, Resting
  <2> QED
    BY <1>0, <1>1, <2>1 DEF StartPublish
<1>2. CASE Numbers(j)
  <2> DEFINE n == Len(policies) + 1
  <2>0. n \in Nat
    BY LatestType
  <2> HIDE DEF n
  <2>1. [job[j] EXCEPT !.pc = "insert", !.next = n] \in JobRecord
    BY <1>0, <2>0 DEF JobRecord
  <2>2. job' = [job EXCEPT ![j] = [job[j] EXCEPT !.pc = "insert", !.next = n]]
    BY <1>0, <1>2 DEF Numbers, n
  <2> QED
    BY <1>0, <2>1, <2>2
<1>3. CASE Inserts(j) \/ InsertRefused(j) \/ JobFails(j)
  BY <1>0, <1>3 DEF Inserts, InsertRefused, JobFails, Ends
<1>4. ASSUME NEW t \in Tables, Reads(j, t) PROVE job' \in [Jobs -> JobRecord]
  <2> DEFINE d == ReadInto(job[j].doc, t)
             todo == job[j].todo \ {t}
  <2>1. d \in Snapshot /\ Grouped(d) \in Snapshot
    BY <1>0, ReadIntoType, GroupedType DEF JobRecord, PubTypeOK
  <2>2. todo \in SUBSET Tables
    BY <1>0 DEF JobRecord
  <2>3. job' = [job EXCEPT ![j] =
                  IF todo = {} THEN [pc |-> "number", todo |-> {}, doc |-> Grouped(d), next |-> 0]
                  ELSE [pc |-> "compile", todo |-> todo, doc |-> d, next |-> 0]]
    BY <1>4 DEF Reads, ReadInto
  <2> HIDE DEF d, todo
  <2> QED
    BY <1>0, <2>1, <2>2, <2>3 DEF JobRecord
<1>5. ASSUME NEW v \in DOMAIN policies, StartRollback(j, v) PROVE job' \in [Jobs -> JobRecord]
  <2>1. [Resting EXCEPT !.pc = "number", !.doc = policies[v]] \in JobRecord
    BY InitialType, LatestType DEF JobRecord, Resting
  <2> QED
    BY <1>0, <1>5, <2>1 DEF StartRollback
<1> QED
  BY <1>1, <1>2, <1>3, <1>4, <1>5 DEF JobStep

\* What it does to everything else.
LEMMA JobEffects ==
  ASSUME PubTypeOK, NEW j \in Jobs, JobStep(j)
  PROVE  /\ UNCHANGED <<draftVars, ownVars, memberVars, edits>>
         /\ fresh' \subseteq fresh \cup {j}
         /\ \/ /\ At(j, "insert") /\ policies' = Append(policies, job[j].doc)
               /\ lastFresh' = (j \in fresh)
            \/ UNCHANGED <<policies, lastFresh>>
         /\ \A k \in Jobs \ {j} : job'[k] = job[k]
<1>0. job \in [Jobs -> JobRecord]
  BY DEF PubTypeOK, JobRecord
<1> QED
  BY <1>0 DEF JobStep, StartPublish, Numbers, Inserts, InsertRefused, JobFails, Ends, Reads,
              StartRollback

\* What an administrator's edit leaves alone.
LEMMA EditsTypes ==
  ASSUME PubTypeOK, Edits
  PROVE  /\ policies' \in Seq(Snapshot) /\ Len(policies') > 0
         /\ muted' \subseteq Rules /\ ownMode' \in {"none"} \cup FailModes /\ inTeam' \in BOOLEAN
         /\ job' \in [Jobs -> JobRecord]
         /\ ask' \in [ver : 0..Len(policies'), doc : Snapshot]
         /\ client' \in [ver : 0..Len(policies'), mode : FailModes,
                         rules : SUBSET [rule : Rules, action : Actions]]
         /\ edits' \in Nat /\ fresh' \subseteq Jobs /\ lastFresh' \in BOOLEAN
         /\ aside' \in BOOLEAN
<1>1. UNCHANGED <<policies, muted, ownMode, inTeam, job, ask, client, aside>>
  BY DEF Edits, ownVars, memberVars
<1>2. edits' \in Nat
  BY DEF Edits, PubTypeOK
<1>3. fresh' \subseteq Jobs /\ lastFresh' \in BOOLEAN
  BY DEF Edits
<1> QED
  BY <1>1, <1>2, <1>3 DEF PubTypeOK, JobRecord

\* What a change of the member's own leaves alone.
LEMMA OwnTypes ==
  ASSUME PubTypeOK, OwnChange, edits' = edits \/ edits' = edits + 1
  PROVE  /\ rule' \in [Rules -> {"none", "off"} \cup Actions]
         /\ subject' \in [Subjects -> BOOLEAN] /\ failMode' \in FailModes
         /\ policies' \in Seq(Snapshot) /\ Len(policies') > 0
         /\ job' \in [Jobs -> JobRecord]
         /\ ask' \in [ver : 0..Len(policies'), doc : Snapshot]
         /\ client' \in [ver : 0..Len(policies'), mode : FailModes,
                         rules : SUBSET [rule : Rules, action : Actions]]
         /\ edits' \in Nat /\ fresh' \subseteq Jobs /\ lastFresh' \in BOOLEAN
         /\ aside' \in BOOLEAN
<1>1. UNCHANGED <<rule, subject, failMode, policies, job, ask, client, fresh, lastFresh>>
  BY DEF OwnChange, draftVars
<1>2. edits' \in Nat /\ aside' \in BOOLEAN
  BY DEF OwnChange, PubTypeOK
<1> QED
  BY <1>1, <1>2 DEF PubTypeOK, JobRecord

LEMMA PubTypeStep == PubTypeOK /\ [Next]_vars => PubTypeOK'
<1> SUFFICES ASSUME PubTypeOK, [Next]_vars PROVE PubTypeOK'
  OBVIOUS
<1> USE DEF draftVars, ownVars, memberVars
<1>1. ASSUME NEW r \in Rules, NEW a \in {"off"} \cup Actions, EditRule(r, a) PROVE PubTypeOK'
  <2>1. /\ rule' \in [Rules -> {"none", "off"} \cup Actions]
        /\ subject' \in [Subjects -> BOOLEAN] /\ failMode' \in FailModes
    BY <1>1 DEF EditRule, PubTypeOK
  <2> QED
    BY <1>1, <2>1, EditsTypes DEF EditRule, PubTypeOK, JobRecord
<1>2. ASSUME NEW r \in Rules, DeleteRule(r) PROVE PubTypeOK'
  <2>1. /\ rule' \in [Rules -> {"none", "off"} \cup Actions]
        /\ subject' \in [Subjects -> BOOLEAN] /\ failMode' \in FailModes
    BY <1>2 DEF DeleteRule, PubTypeOK
  <2> QED
    BY <1>2, <2>1, EditsTypes DEF DeleteRule, PubTypeOK, JobRecord
<1>3. ASSUME NEW r \in Rules, AddException(r) \/ RemoveException(r) PROVE PubTypeOK'
  <2>1. muted' \subseteq Rules /\ ownMode' \in {"none"} \cup FailModes /\ inTeam' \in BOOLEAN
    BY <1>3 DEF AddException, RemoveException, PubTypeOK
  <2>2. OwnChange /\ (edits' = edits \/ edits' = edits + 1)
    BY <1>3 DEF AddException, RemoveException, OwnEdits
  <2> QED
    BY <2>1, <2>2, OwnTypes DEF PubTypeOK, JobRecord
<1>4. ASSUME NEW s \in Subjects, EditSubject(s) PROVE PubTypeOK'
  <2>1. subject' \in [Subjects -> BOOLEAN]
    BY <1>4 DEF EditSubject, PubTypeOK
  <2>2. rule' \in [Rules -> {"none", "off"} \cup Actions] /\ failMode' \in FailModes
    BY <1>4 DEF EditSubject, PubTypeOK
  <2> QED
    BY <1>4, <2>1, <2>2, EditsTypes DEF EditSubject, PubTypeOK, JobRecord
<1>5. CASE EditFailMode
  <2>1. /\ rule' \in [Rules -> {"none", "off"} \cup Actions]
        /\ subject' \in [Subjects -> BOOLEAN] /\ failMode' \in FailModes
    BY <1>5 DEF EditFailMode, PubTypeOK, FailModes
  <2> QED
    BY <1>5, <2>1, EditsTypes DEF EditFailMode, PubTypeOK, JobRecord
<1>6. CASE MoveTeam
  BY <1>6 DEF MoveTeam, OwnEdits, OwnChange, PubTypeOK
<1>7. ASSUME NEW mode \in {"none"} \cup FailModes, SetOwnMode(mode) PROVE PubTypeOK'
  BY <1>7 DEF SetOwnMode, OwnEdits, OwnChange, PubTypeOK
<1>8. ASSUME NEW j \in Jobs, JobStep(j) PROVE PubTypeOK'
  <2>1. job' \in [Jobs -> JobRecord]
    BY <1>8, JobTypes
  <2>2. job[j].doc \in Snapshot
    BY DEF PubTypeOK
  <2>3. /\ policies' \in Seq(Snapshot) /\ Len(policies') \in Nat /\ Len(policies') > 0
        /\ Len(policies) \in Nat /\ Len(policies') >= Len(policies)
    <3>1. CASE policies' = Append(policies, job[j].doc)
      BY <2>2, <3>1 DEF PubTypeOK
    <3>2. CASE policies' = policies
      BY <3>2 DEF PubTypeOK
    <3> QED
      BY <1>8, <3>1, <3>2, JobEffects
  <2>7. lastFresh' \in BOOLEAN
    <3>1. CASE lastFresh' = (j \in fresh)
      <4>1. (j \in fresh) \in BOOLEAN
        OBVIOUS
      <4> QED
        BY <3>1, <4>1
    <3>2. CASE lastFresh' = lastFresh
      BY <3>2 DEF PubTypeOK
    <3> QED
      BY <1>8, <3>1, <3>2, JobEffects
  <2>8. fresh' \subseteq Jobs
    BY <1>8, JobEffects DEF PubTypeOK
  <2>4. 0..Len(policies) \subseteq 0..Len(policies')
    BY <2>3
  <2>5. ask' = ask /\ client' = client
    BY <1>8, JobEffects
  <2>6. ask' \in [ver : 0..Len(policies'), doc : Snapshot]
        /\ client' \in [ver : 0..Len(policies'), rules : SUBSET [rule : Rules, action : Actions],
                        mode : FailModes]
    BY <2>4, <2>5 DEF PubTypeOK
  <2> QED
    BY <1>8, <2>1, <2>3, <2>6, <2>7, <2>8, JobEffects DEF PubTypeOK, JobRecord
<1>9. CASE MemberAsks
  <2>1. ask' \in [ver : 0..Len(policies), doc : Snapshot]
    BY <1>9, LatestType DEF MemberAsks
  <2> QED
    BY <1>9, <2>1 DEF MemberAsks, PubTypeOK
<1>10. CASE MemberGets
  <2>1. ask.ver \in 0..Len(policies) /\ ask.doc \in Snapshot
    BY DEF PubTypeOK
  <2>2. client' \in [ver : 0..Len(policies), rules : SUBSET [rule : Rules, action : Actions],
                     mode : FailModes]
    BY <1>10, <2>1, ResolvedType, OwnModeType DEF MemberGets
  <2>3. ask' \in [ver : 0..Len(policies), doc : Snapshot]
    BY <1>10, LatestType, InitialType DEF MemberGets, NoAsk
  <2> QED
    BY <1>10, <2>2, <2>3 DEF MemberGets, PubTypeOK
<1>11. CASE UNCHANGED vars
  BY <1>11 DEF vars, PubTypeOK
<1> QED
  BY <1>1, <1>2, <1>3, <1>4, <1>5, <1>6, <1>7, <1>8, <1>9, <1>10, <1>11 DEF Next
-----------------------------------------------------------------------------
(* The inductive invariant.                                                *)

\* A job during which nobody edited has read what the draft still says.
FreshJob(j) ==
  /\ At(j, "compile") =>
       /\ "subjects" \notin job[j].todo => job[j].doc.subjects = ActiveSubjects
       /\ "rules" \notin job[j].todo => job[j].doc.rules = ActiveRules
       /\ "failMode" \notin job[j].todo => job[j].doc.failMode = failMode
  /\ job[j].pc \in {"number", "insert"} => job[j].doc = Draft
  /\ ~At(j, "idle")

\* Nothing published has a rule of a subject it leaves out.
IsGrouped(d) == \A r \in Rules : SubjectOf[r] \notin d.subjects => d.rules[r] = "none"

\* What the member's client has asked for, or holds, is a version that was published.
AskedIsVersion == ask # NoAsk => ask.ver \in DOMAIN policies /\ ask.doc = policies[ask.ver]

HeldIsResolved ==
  ask = NoAsk /\ client.ver > 0 /\ ~aside =>
    /\ client.rules = Resolved(policies[client.ver], inTeam, muted)
    /\ client.mode = OwnMode(policies[client.ver])

PubInv ==
  /\ PubTypeOK
  /\ \A j \in fresh : FreshJob(j)
  /\ lastFresh => Latest = Draft
  /\ \A v \in DOMAIN policies : IsGrouped(policies[v])
  /\ \A j \in Jobs : job[j].pc \in {"number", "insert"} => IsGrouped(job[j].doc)
  /\ AskedIsVersion
  /\ HeldIsResolved

LEMMA NextKinds ==
  ASSUME [Next]_vars
  PROVE  \/ Edits \/ OwnChange \/ MemberAsks \/ MemberGets \/ UNCHANGED vars
         \/ \E j \in Jobs : JobStep(j)
BY DEF Next, EditRule, DeleteRule, AddException, RemoveException, EditSubject, EditFailMode,
       MoveTeam, SetOwnMode, OwnEdits

LEMMA DraftStays ==
  ASSUME UNCHANGED draftVars
  PROVE  Draft' = Draft /\ ActiveRules' = ActiveRules /\ ActiveSubjects' = ActiveSubjects
BY DEF draftVars, Draft, ActiveRules, ActiveSubjects

\* Outside the edits the draft stays, and outside the jobs they and the versions do.
LEMMA Bystanders ==
  ASSUME OwnChange \/ MemberAsks \/ MemberGets \/ UNCHANGED vars
  PROVE  UNCHANGED <<draftVars, job, fresh, policies, lastFresh>>
BY DEF OwnChange, MemberAsks, MemberGets, vars, memberVars

LEMMA GroupedIsGrouped ==
  ASSUME NEW d \in Snapshot
  PROVE  IsGrouped(Grouped(d))
BY GroupedType DEF IsGrouped

LEMMA ReadsStep ==
  ASSUME PubTypeOK, NEW j \in Jobs, NEW t \in Tables, Reads(j, t)
  PROVE  LET d == ReadInto(job[j].doc, t)
         IN /\ d \in Snapshot /\ At(j, "compile") /\ UNCHANGED <<draftVars, policies, fresh>>
            /\ \/ job[j].todo \ {t} = {} /\ job'[j].pc = "number" /\ job'[j].doc = Grouped(d)
               \/ /\ job'[j].pc = "compile" /\ job'[j].doc = d
                  /\ job'[j].todo = job[j].todo \ {t}
<1> DEFINE d == ReadInto(job[j].doc, t)
           todo == job[j].todo \ {t}
<1>1. job \in [Jobs -> JobRecord] /\ d \in Snapshot
  BY ReadIntoType DEF PubTypeOK, JobRecord
<1>2. job' = [job EXCEPT ![j] =
                IF todo = {} THEN [pc |-> "number", todo |-> {}, doc |-> Grouped(d), next |-> 0]
                ELSE [pc |-> "compile", todo |-> todo, doc |-> d, next |-> 0]]
  BY DEF Reads, ReadInto
<1>3. At(j, "compile") /\ UNCHANGED <<draftVars, policies, fresh>>
  BY DEF Reads
<1> HIDE DEF d
<1>4. \/ todo = {} /\ job'[j].pc = "number" /\ job'[j].doc = Grouped(d)
      \/ job'[j].pc = "compile" /\ job'[j].doc = d /\ job'[j].todo = todo
  BY <1>1, <1>2
<1> QED
  BY <1>1, <1>3, <1>4 DEF d

LEMMA FreshJobStep ==
  ASSUME PubInv, NEW j \in Jobs, JobStep(j), j \in fresh'
  PROVE  FreshJob(j)'
<1>0. PubTypeOK /\ failMode \in FailModes /\ job \in [Jobs -> JobRecord]
  BY DEF PubInv, PubTypeOK, JobRecord
<1>1. CASE StartPublish(j)
  <2>1. job'[j] = [Resting EXCEPT !.pc = "compile", !.todo = Tables]
    BY <1>0, <1>1 DEF StartPublish
  <2>2. job'[j].pc = "compile" /\ job'[j].todo = Tables
    BY <2>1 DEF Resting
  <2> QED
    BY <2>2 DEF FreshJob, At, Tables
<1>2. CASE Numbers(j)
  <2>1. j \in fresh /\ At(j, "number") /\ UNCHANGED draftVars
    BY <1>2 DEF Numbers
  <2>2. job'[j].pc = "insert" /\ job'[j].doc = job[j].doc
    BY <1>0, <1>2 DEF Numbers, JobRecord
  <2>3. job[j].doc = Draft
    BY <2>1 DEF PubInv, FreshJob, At
  <2> QED
    BY <2>1, <2>2, <2>3, DraftStays DEF FreshJob, At
<1>3. CASE Inserts(j) \/ InsertRefused(j) \/ JobFails(j)
  BY <1>3 DEF Inserts, InsertRefused, JobFails, Ends
<1>4. ASSUME NEW t \in Tables, Reads(j, t) PROVE FreshJob(j)'
  <2> DEFINE d == ReadInto(job[j].doc, t)
  <2>1. /\ d \in Snapshot /\ At(j, "compile") /\ UNCHANGED <<draftVars, policies, fresh>>
        /\ \/ job[j].todo \ {t} = {} /\ job'[j].pc = "number" /\ job'[j].doc = Grouped(d)
           \/ /\ job'[j].pc = "compile" /\ job'[j].doc = d
              /\ job'[j].todo = job[j].todo \ {t}
    BY <1>0, <1>4, ReadsStep
  <2>2. job[j].doc \in Snapshot
    BY DEF PubInv, PubTypeOK
  <2>3. /\ "subjects" \notin job[j].todo \ {t} => d.subjects = ActiveSubjects
        /\ "rules" \notin job[j].todo \ {t} => d.rules = ActiveRules
        /\ "failMode" \notin job[j].todo \ {t} => d.failMode = failMode
    <3>1. FreshJob(j) /\ At(j, "compile")
      BY <2>1 DEF PubInv
    <3> QED
      BY <1>0, <2>2, <3>1, ReadIntoType DEF FreshJob
  <2>4. /\ Draft' = Draft /\ ActiveRules' = ActiveRules /\ ActiveSubjects' = ActiveSubjects
        /\ failMode' = failMode
    BY <2>1, DraftStays DEF draftVars
  <2> HIDE DEF d
  <2>5. CASE job[j].todo \ {t} = {} /\ job'[j].pc = "number" /\ job'[j].doc = Grouped(d)
    <3>1. Grouped(d) = Draft
      BY <1>0, <2>1, <2>3, <2>5, DraftIs
    <3> QED
      BY <2>4, <2>5, <3>1 DEF FreshJob, At
  <2>6. CASE job'[j].pc = "compile" /\ job'[j].doc = d /\ job'[j].todo = job[j].todo \ {t}
    BY <2>3, <2>4, <2>6 DEF FreshJob, At
  <2> QED
    BY <2>1, <2>5, <2>6
<1>5. ASSUME NEW v \in DOMAIN policies, StartRollback(j, v) PROVE FreshJob(j)'
  BY <1>5 DEF StartRollback
<1> QED
  BY <1>1, <1>2, <1>3, <1>4, <1>5 DEF JobStep

LEMMA FreshStep ==
  ASSUME PubInv, [Next]_vars
  PROVE  \A j \in fresh' : FreshJob(j)'
<1>1. CASE Edits
  BY <1>1 DEF Edits
<1>2. CASE OwnChange \/ MemberAsks \/ MemberGets \/ UNCHANGED vars
  <2>1. UNCHANGED <<draftVars, job, fresh>>
    BY <1>2, Bystanders
  <2> QED
    BY <2>1, DraftStays DEF PubInv, FreshJob, At, draftVars
<1>3. ASSUME NEW j \in Jobs, JobStep(j) PROVE \A k \in fresh' : FreshJob(k)'
  <2> SUFFICES ASSUME NEW k \in fresh', k # j PROVE FreshJob(k)'
    <3>1. j \in fresh' => FreshJob(j)'
      BY <1>3, FreshJobStep
    <3> QED
      BY <3>1
  <2>1. k \in fresh /\ k \in Jobs /\ job'[k] = job[k] /\ UNCHANGED draftVars
    BY <1>3, JobEffects DEF PubInv, PubTypeOK
  <2> QED
    BY <2>1, DraftStays DEF PubInv, FreshJob, At, draftVars
<1> QED
  BY <1>1, <1>2, <1>3, NextKinds

LEMMA GroupedStep ==
  ASSUME PubInv, [Next]_vars
  PROVE  /\ (\A v \in DOMAIN policies : IsGrouped(policies[v]))'
         /\ (\A j \in Jobs : job[j].pc \in {"number", "insert"} => IsGrouped(job[j].doc))'
<1>1. CASE Edits
  BY <1>1 DEF Edits, PubInv, IsGrouped
<1>2. CASE OwnChange \/ MemberAsks \/ MemberGets \/ UNCHANGED vars
  <2>1. UNCHANGED <<job, policies>>
    BY <1>2, Bystanders
  <2> QED
    BY <2>1 DEF PubInv, IsGrouped
<1>3. ASSUME NEW j \in Jobs, JobStep(j)
      PROVE  /\ (\A v \in DOMAIN policies : IsGrouped(policies[v]))'
             /\ (\A k \in Jobs : job[k].pc \in {"number", "insert"} => IsGrouped(job[k].doc))'
  <2>0. /\ PubTypeOK /\ job \in [Jobs -> JobRecord] /\ job[j].doc \in Snapshot
        /\ policies \in Seq(Snapshot)
    BY DEF PubInv, PubTypeOK, JobRecord
  <2>1. ASSUME NEW v \in DOMAIN policies' PROVE IsGrouped(policies'[v])
    <3>1. CASE At(j, "insert") /\ policies' = Append(policies, job[j].doc)
      <4>1. IsGrouped(job[j].doc)
        BY <3>1 DEF PubInv, At
      <4>2. CASE v \in DOMAIN policies
        <5>1. policies'[v] = policies[v]
          BY <2>0, <3>1, <4>2
        <5> QED
          BY <4>2, <5>1 DEF PubInv
      <4>3. CASE v \notin DOMAIN policies
        <5>1. DOMAIN policies' = 1..(Len(policies) + 1) /\ DOMAIN policies = 1..Len(policies)
              /\ Len(policies) \in Nat
          BY <2>0, <3>1
        <5>2. v = Len(policies) + 1
          BY <4>3, <5>1
        <5>3. policies'[v] = job[j].doc
          BY <2>0, <3>1, <5>2
        <5> QED
          BY <4>1, <5>3
      <4> QED
        BY <4>2, <4>3
    <3>2. CASE UNCHANGED policies
      BY <3>2 DEF PubInv
    <3> QED
      BY <1>3, <2>0, <3>1, <3>2, JobEffects
  <2>2. job'[j].pc \in {"number", "insert"} => IsGrouped(job'[j].doc)
    <3>1. CASE StartPublish(j)
      <4>1. job'[j] = [Resting EXCEPT !.pc = "compile", !.todo = Tables]
        BY <2>0, <3>1 DEF StartPublish
      <4> QED
        BY <4>1 DEF Resting
    <3>2. CASE Numbers(j)
      <4>1. At(j, "number") /\ job'[j].doc = job[j].doc
        BY <2>0, <3>2 DEF Numbers, JobRecord
      <4> QED
        BY <4>1 DEF PubInv, At
    <3>3. CASE Inserts(j) \/ InsertRefused(j) \/ JobFails(j)
      <4>1. job'[j] = Resting
        BY <2>0, <3>3 DEF Inserts, InsertRefused, JobFails, Ends
      <4> QED
        BY <4>1 DEF Resting
    <3>4. ASSUME NEW t \in Tables, Reads(j, t)
          PROVE  job'[j].pc \in {"number", "insert"} => IsGrouped(job'[j].doc)
      BY <2>0, <3>4, ReadsStep, GroupedIsGrouped
    <3>5. ASSUME NEW v \in DOMAIN policies, StartRollback(j, v) PROVE IsGrouped(job'[j].doc)
      <4>1. job'[j] = [Resting EXCEPT !.pc = "number", !.doc = policies[v]]
        BY <2>0, <3>5 DEF StartRollback
      <4>2. job'[j].doc = policies[v]
        BY <4>1 DEF Resting
      <4> QED
        BY <4>2 DEF PubInv
    <3> QED
      BY <1>3, <3>1, <3>2, <3>3, <3>4, <3>5 DEF JobStep
  <2>3. \A k \in Jobs \ {j} : job'[k] = job[k]
    BY <1>3, <2>0, JobEffects
  <2>4. ASSUME NEW k \in Jobs PROVE job'[k].pc \in {"number", "insert"} => IsGrouped(job'[k].doc)
    BY <2>2, <2>3 DEF PubInv
  <2>5. \A d : IsGrouped(d)' = IsGrouped(d)
    BY DEF IsGrouped
  <2> QED
    BY <2>1, <2>4 DEF IsGrouped
<1> QED
  BY <1>1, <1>2, <1>3, NextKinds

LEMMA LatestStep ==
  ASSUME PubInv, [Next]_vars, lastFresh'
  PROVE  Latest' = Draft'
<1>1. CASE Edits
  BY <1>1 DEF Edits
<1>2. CASE OwnChange \/ MemberAsks \/ MemberGets \/ UNCHANGED vars
  <2>1. UNCHANGED <<draftVars, policies, lastFresh>>
    BY <1>2, Bystanders
  <2> QED
    BY <2>1, DraftStays DEF PubInv, Latest
<1>3. ASSUME NEW j \in Jobs, JobStep(j) PROVE Latest' = Draft'
  <2>0. PubTypeOK /\ job[j].doc \in Snapshot /\ policies \in Seq(Snapshot)
    BY DEF PubInv, PubTypeOK
  <2>1. Draft' = Draft
    BY <1>3, <2>0, JobEffects, DraftStays
  <2>2. CASE UNCHANGED <<policies, lastFresh>>
    BY <2>1, <2>2 DEF PubInv, Latest
  <2>3. CASE /\ At(j, "insert") /\ policies' = Append(policies, job[j].doc)
             /\ lastFresh' = (j \in fresh)
    <3>1. Latest' = job[j].doc
      BY <2>0, <2>3 DEF Latest
    <3>2. job[j].doc = Draft
      BY <2>3 DEF PubInv, FreshJob, At
    <3> QED
      BY <2>1, <3>1, <3>2
  <2> QED
    BY <1>3, <2>0, <2>2, <2>3, JobEffects
<1> QED
  BY <1>1, <1>2, <1>3, NextKinds

\* A version stays what it was when it was published.
LEMMA VersionsStay ==
  ASSUME PubTypeOK, [Next]_vars
  PROVE  \A v \in DOMAIN policies : v \in DOMAIN policies' /\ policies'[v] = policies[v]
<1>1. CASE Edits
  BY <1>1 DEF Edits
<1>2. CASE OwnChange \/ MemberAsks \/ MemberGets \/ UNCHANGED vars
  BY <1>2, Bystanders
<1>3. ASSUME NEW j \in Jobs, JobStep(j)
      PROVE  \A v \in DOMAIN policies : v \in DOMAIN policies' /\ policies'[v] = policies[v]
  <2>1. policies \in Seq(Snapshot) /\ job[j].doc \in Snapshot
    BY DEF PubTypeOK
  <2>2. CASE policies' = Append(policies, job[j].doc)
    BY <2>1, <2>2
  <2> QED
    BY <1>3, <2>2, JobEffects
<1> QED
  BY <1>1, <1>2, <1>3, NextKinds

LEMMA ClientStep ==
  ASSUME PubInv, [Next]_vars
  PROVE  AskedIsVersion' /\ HeldIsResolved'
<1>0. PubTypeOK /\ Len(policies) \in Nat /\ Len(policies) > 0
  BY LatestType DEF PubInv, PubTypeOK
<1>1. \A v \in DOMAIN policies : v \in DOMAIN policies' /\ policies'[v] = policies[v]
  BY <1>0, VersionsStay
<1>2. client.ver > 0 => client.ver \in DOMAIN policies
  <2>1. client.ver \in 0..Len(policies) /\ DOMAIN policies = 1..Len(policies)
    BY <1>0 DEF PubTypeOK
  <2> QED
    BY <1>0, <2>1
<1>3. CASE UNCHANGED <<ask, client, muted, ownMode, inTeam, aside>>
  <2>1. AskedIsVersion'
    BY <1>1, <1>3 DEF PubInv, AskedIsVersion, NoAsk, Initial, NoRules
  <2>2. ASSUME ask' = NoAsk, client'.ver > 0, ~aside'
        PROVE  /\ client'.rules = Resolved(policies'[client'.ver], inTeam', muted')
               /\ client'.mode = OwnMode(policies[client.ver])'
    <3>1. /\ client.rules = Resolved(policies[client.ver], inTeam, muted)
          /\ client.mode = OwnMode(policies[client.ver])
      BY <1>3, <2>2 DEF PubInv, HeldIsResolved
    <3>2. client.ver \in DOMAIN policies
      BY <1>2, <1>3, <2>2
    <3>3. policies'[client'.ver] = policies[client.ver]
      BY <1>1, <1>3, <3>2
    <3> QED
      BY <1>3, <3>1, <3>3 DEF OwnMode
  <2> QED
    BY <2>1, <2>2 DEF HeldIsResolved
<1>4. CASE OwnChange
  BY <1>1, <1>4 DEF OwnChange, HeldIsResolved, PubInv, AskedIsVersion, NoAsk, Initial, NoRules
<1>5. CASE MemberAsks
  <2>1. ask'.ver = Len(policies) /\ ask'.doc = policies[Len(policies)] /\ policies' = policies
    BY <1>5 DEF MemberAsks, Latest
  <2>2. ask' # NoAsk
    BY <1>0, <2>1 DEF NoAsk
  <2>3. Len(policies) \in DOMAIN policies
    BY <1>0 DEF PubTypeOK
  <2> QED
    BY <2>1, <2>2, <2>3 DEF AskedIsVersion, HeldIsResolved, NoAsk
<1>6. CASE MemberGets
  <2>1. /\ ask.ver \in DOMAIN policies /\ ask.doc = policies[ask.ver]
        /\ UNCHANGED <<policies, muted, ownMode, inTeam>> /\ ask' = NoAsk
    BY <1>6 DEF MemberGets, PubInv, AskedIsVersion, ownVars
  <2>2. /\ client'.ver = ask.ver /\ client'.rules = Resolved(ask.doc, inTeam, muted)
        /\ client'.mode = OwnMode(ask.doc)
    BY <1>6 DEF MemberGets
  <2>3. AskedIsVersion'
    BY <2>1 DEF AskedIsVersion, NoAsk, Initial, NoRules
  <2> QED
    BY <2>1, <2>2, <2>3 DEF HeldIsResolved, OwnMode
<1> QED
  <2>1. Edits \/ (\E j \in Jobs : JobStep(j)) \/ UNCHANGED vars
          => UNCHANGED <<ask, client, muted, ownMode, inTeam, aside>>
    BY <1>0, JobEffects DEF Edits, vars, ownVars, memberVars
  <2> QED
    BY <1>3, <1>4, <1>5, <1>6, <2>1, NextKinds

-----------------------------------------------------------------------------
(* The theorems.                                                           *)

\* Every variable of Publishing keeps its type, and there is always a version in force.
THEOREM PublishingTypes == Spec => []PubTypeOK
<1>1. Init => PubTypeOK
  BY PubTypeInit
<1>2. PubTypeOK /\ [Next]_vars => PubTypeOK'
  BY PubTypeStep
<1> QED
  BY <1>1, <1>2, PTL DEF Spec

LEMMA PubInvInit == Init => PubInv
<1> SUFFICES ASSUME Init PROVE PubInv
  OBVIOUS
<1>1. PubTypeOK
  BY PubTypeInit
<1>2. fresh = {} /\ ~lastFresh /\ ask = NoAsk /\ client.ver = 0 /\ \A j \in Jobs : At(j, "idle")
  BY DEF Init, At, Resting
<1>3. \A v \in DOMAIN policies : IsGrouped(policies[v])
  BY DEF Init, IsGrouped, Initial, NoRules
<1> QED
  BY <1>1, <1>2, <1>3 DEF PubInv, At, AskedIsVersion, HeldIsResolved

LEMMA PubInvStep == PubInv /\ [Next]_vars => PubInv'
<1> SUFFICES ASSUME PubInv, [Next]_vars PROVE PubInv'
  OBVIOUS
<1>1. PubTypeOK'
  BY PubTypeStep DEF PubInv
<1>2. (\A j \in fresh : FreshJob(j))'
  BY FreshStep
<1>3. (lastFresh => Latest = Draft)'
  BY LatestStep
<1> QED
  BY <1>1, <1>2, <1>3, GroupedStep, ClientStep DEF PubInv

LEMMA PublishingInv == Spec => []PubInv
BY PubInvInit, PubInvStep, PTL DEF Spec

\* Between a snapshot and itself nothing is listed.
LEMMA NoChanges == ASSUME NEW d PROVE Changes(d, d) = {}
BY DEF Changes

\* A publish during which nobody edited the draft put just that draft in force, however its
\* queries and those of the requests beside it interleave, and the console lists no change
\* until somebody edits or publishes (router.ts:93-113).
THEOREM PublishedIsDraft == Spec => []FreshPublishIsDraft
<1>1. PubInv => FreshPublishIsDraft
  BY NoChanges DEF PubInv, FreshPublishIsDraft
<1> QED
  BY <1>1, PublishingInv, PTL

\* An empty list of changes means that a publish would change nothing for anybody
\* (diff.ts:3-8): no snapshot has rules of a subject it leaves out.
THEOREM NoSilentChange == Spec => []NoChangeNoEffect
<1>1. PubInv => NoChangeNoEffect
  <2> SUFFICES ASSUME PubInv, Changes(Latest, Draft) = {}
               PROVE  Latest.rules = Draft.rules /\ Latest.failMode = Draft.failMode
    BY DEF NoChangeNoEffect
  <2>1. Latest \in Snapshot /\ Draft \in Snapshot
    BY LatestType, DraftIs DEF PubInv, PubTypeOK
  <2>2. Latest.rules \in [Rules -> Actions \cup {"none"}]
        /\ Draft.rules \in [Rules -> Actions \cup {"none"}]
        /\ Latest.subjects \subseteq Subjects /\ Draft.subjects \subseteq Subjects
    BY <2>1 DEF Snapshot
  <2>3. IsGrouped(Latest) /\ IsGrouped(Draft)
    <3>1. Len(policies) \in DOMAIN policies
      BY DEF PubInv, PubTypeOK
    <3>2. [Initial EXCEPT !.subjects = ActiveSubjects, !.rules = ActiveRules,
                          !.failMode = failMode] \in Snapshot
      BY InitialType, ActiveTypes DEF Snapshot, PubInv, PubTypeOK
    <3> QED
      BY <3>1, <3>2, GroupedIsGrouped DEF PubInv, Latest, Draft
  <2>4. Latest.subjects = Draft.subjects /\ Latest.failMode = Draft.failMode
    <3> DEFINE P == Latest.subjects
               D == Draft.subjects
    <3>1. \A s \in (P \cup D) \ (P \cap D) : <<"subject", s>> \in Changes(Latest, Draft)
      BY DEF Changes
    <3>2. \A s : s \in P <=> s \in D
      BY <3>1
    <3>3. Latest.failMode # Draft.failMode => <<"failMode">> \in Changes(Latest, Draft)
      BY DEF Changes
    <3> QED
      BY <3>2, <3>3
  <2>5. ASSUME NEW r \in Rules PROVE Latest.rules[r] = Draft.rules[r]
    <3>1. CASE SubjectOf[r] \in Latest.subjects
      <4>1. Latest.rules[r] # Draft.rules[r] => <<"rule", r>> \in Changes(Latest, Draft)
        BY <2>4, <3>1 DEF Changes
      <4> QED
        BY <4>1
    <3>2. CASE SubjectOf[r] \notin Latest.subjects
      BY <2>3, <2>4, <3>2 DEF IsGrouped
    <3> QED
      BY <3>1, <3>2
  <2> QED
    BY <2>2, <2>4, <2>5
<1> QED
  BY <1>1, PublishingInv, PTL

\* The loop of resolveMemberPolicy keeps the strictest rule of the narrowest scope, for any
\* number of rules and in whatever order the queries list them (resolver.ts:91-109).
THEOREM StrictestWins == Spec => []StrictestOfScope
BY Strictest, PTL

\* What a client holds is the version it asked for as it is resolved for its member
\* (router.ts:25-47), although versions are published between its question and the answer.
THEOREM ClientResolved == Spec => []ClientHasItsPolicy
<1>1. PubInv => ClientHasItsPolicy
  <2> SUFFICES ASSUME PubInv, ask = NoAsk, client.ver = Len(policies), ~aside
               PROVE  /\ client.rules = Resolved(Latest, inTeam, muted)
                      /\ client.mode = OwnMode(Latest)
    BY DEF ClientHasItsPolicy
  <2>1. client.ver > 0
    BY DEF PubInv, PubTypeOK
  <2> QED
    BY <2>1 DEF PubInv, HeldIsResolved, Latest
<1> QED
  BY <1>1, PublishingInv, PTL

-----------------------------------------------------------------------------
-----------------------------------------------------------------------------
(* Membership: the parts of its inductive invariant.                       *)

MemberTypes ==
  /\ live \subseteq SignUps /\ accounts \in [People -> Nat]
  /\ user \in [People -> {"none", "current", "other"}]
  /\ member \in [People -> {"none", "pending", "linked"}]
  /\ own \in [People -> Nat]
  /\ hook \in [People -> {"none", "due", "check", "claim"}]
  /\ add \in [Adds -> [pc : {"idle", "look", "insert"}, who : SUBSET People,
                       user : BOOLEAN, late : BOOLEAN]]
  /\ req \in [Requests -> [pc : {"idle", "create", "check", "claim", "existing", "pending",
                                 "claimOwn", "found"}, who : SUBSET People]]
  /\ adds \in Nat /\ fails \in Nat /\ uncounted \subseteq People /\ missed \subseteq People

\* A request is of one person, who is there as long as it runs; an add is for one email.
Addressed ==
  /\ \A r \in Requests : req[r].pc # "idle" => \E p \in live : req[r].who = {p}
  /\ \A r \in Requests : req[r].pc = "idle" => req[r].who = {}
  /\ \A a \in Adds : add[a].pc # "idle" => \E p \in People : add[a].who = {p}

\* Only the console's pages get past the provisioning ...
PagesOnly ==
  \A r \in Requests :
    req[r].pc \in {"existing", "pending", "claimOwn", "found"} => r \in Pages

\* ... and those that have found no membership may still found an organisation each.
Founding(p) == {r \in Pages : req[r].who = {p} /\ req[r].pc \in {"pending", "claimOwn", "found"}}
RoomToFound == \A p \in People : own[p] + Cardinality(Founding(p)) <= Cardinality(Pages)

\* While an add is not late the seat it counted is free.
SeatIsFree ==
  \A a \in Adds : add[a].pc # "idle" /\ ~add[a].late => Cardinality(Rows) < MaxSeats

\* The row of an account is there, or the event that inserts it is due; whoever goes on
\* from there has seen it.
RowOrEvent ==
  /\ \A p \in live : user[p] = "none" => hook[p] = "due"
  /\ \A p \in People : hook[p] \in {"check", "claim"} \/ own[p] > 0 => user[p] # "none"
  /\ \A r \in Requests, p \in People :
       req[r].who = {p} /\ req[r].pc # "create" => user[p] # "none"

\* A row that no add has missed waits only as long as the event will still claim it: its
\* person has no organisation and founds none.
WaitsForEvent ==
  \A p \in People : member[p] = "pending" /\ user[p] # "none" /\ p \notin missed =>
    /\ hook[p] # "none" /\ own[p] = 0
    /\ \A r \in Requests : req[r].who = {p} => req[r].pc # "found"

MemberInv ==
  /\ MemberTypes /\ Addressed /\ PagesOnly /\ RoomToFound
  /\ SeatIsFree /\ OverrunIsAccountedFor /\ RowOrEvent /\ WaitsForEvent

-----------------------------------------------------------------------------
(* The handlers' helpers.                                                  *)

AddRecord == [pc : {"idle", "look", "insert"}, who : SUBSET People, user : BOOLEAN, late : BOOLEAN]
ReqPcs == {"idle", "create", "check", "claim", "existing", "pending", "claimOwn", "found"}
ReqRecord == [pc : ReqPcs, who : SUBSET People]

LEMMA WhoIs ==
  ASSUME MemberTypes, Addressed, NEW r \in Requests, req[r].pc # "idle"
  PROVE  Who(r) \in live /\ Who(r) \in People /\ req[r].who = {Who(r)}
<1>1. PICK p \in live : req[r].who = {p}
  BY DEF Addressed
<1>2. p \in People
  BY <1>1, MembershipAssumption DEF MemberTypes
<1>3. Who(r) \in People /\ req[r].who = {Who(r)}
  BY <1>1, <1>2 DEF Who
<1> QED
  BY <1>1, <1>3

LEMMA EmailIs ==
  ASSUME Addressed, NEW a \in Adds, add[a].pc # "idle"
  PROVE  Email(a) \in People /\ add[a].who = {Email(a)}
BY DEF Addressed, Email

LEMMA ReqEffect ==
  ASSUME MemberTypes, NEW r \in Requests, NEW from, NEW to \in ReqPcs, Req(r, from, to)
  PROVE  /\ req[r].pc = from
         /\ req' \in [Requests -> ReqRecord]
         /\ \A q \in Requests \ {r} : req'[q] = req[q]
         /\ to = "idle" => req'[r] = NoRequest
         /\ to # "idle" => req'[r].pc = to /\ req'[r].who = req[r].who
<1> DEFINE m == IF to = "idle" THEN NoRequest ELSE [req[r] EXCEPT !.pc = to]
<1>1. req \in [Requests -> ReqRecord]
  BY DEF MemberTypes, ReqRecord, ReqPcs
<1>2. req' = [req EXCEPT ![r] = m] /\ req[r].pc = from
  BY <1>1 DEF Req
<1>3. NoRequest \in ReqRecord
  BY DEF NoRequest, ReqRecord, ReqPcs
<1>4. m \in ReqRecord /\ (to # "idle" => m.pc = to /\ m.who = req[r].who)
      /\ (to = "idle" => m = NoRequest)
  BY <1>1, <1>3 DEF ReqRecord
<1> HIDE DEF m
<1> QED
  BY <1>1, <1>2, <1>4

LEMMA AfterType == ASSUME NEW r PROVE After(r) \in {"existing", "idle"}
BY DEF After

-----------------------------------------------------------------------------
(* Types.                                                                  *)

LEMMA MemberTypeInit == MembershipInit => MemberTypes
BY DEF MembershipInit, MemberTypes, NoAdd, NoRequest

LEMMA RequestTypes ==
  ASSUME MemberTypes, Addressed, NEW r \in Requests, RequestStep(r)
  PROVE  /\ req' \in [Requests -> ReqRecord]
         /\ user' \in [People -> {"none", "current", "other"}]
         /\ member' \in [People -> {"none", "pending", "linked"}]
         /\ own' \in [People -> Nat] /\ missed' \subseteq People
         /\ UNCHANGED <<live, accounts, hook, add, bounds, uncounted>>
<1>0. /\ user \in [People -> {"none", "current", "other"}]
      /\ member \in [People -> {"none", "pending", "linked"}]
      /\ own \in [People -> Nat] /\ missed \subseteq People
  BY DEF MemberTypes
<1>1. CASE Provisions(r)
  <2>1. req' \in [Requests -> ReqRecord]
    BY <1>1, ReqEffect DEF Provisions, ReqPcs
  <2> QED
    BY <1>0, <1>1, <2>1 DEF Provisions, CreatesUser
<1>2. CASE SeesEnrolled(r)
  <2>1. req' \in [Requests -> ReqRecord]
    BY <1>2, ReqEffect, AfterType DEF SeesEnrolled, ReqPcs
  <2> QED
    BY <1>0, <1>2, <2>1 DEF SeesEnrolled
<1>3. CASE ClaimsFirst(r)
  <2>1. req' \in [Requests -> ReqRecord]
    BY <1>3, ReqEffect, AfterType DEF ClaimsFirst, ReqPcs
  <2> QED
    BY <1>0, <1>3, <2>1 DEF ClaimsFirst, Claims
<1>4. CASE SelfServes(r)
  <2>1. req' \in [Requests -> ReqRecord]
    BY <1>4, ReqEffect DEF SelfServes, ReqPcs
  <2> QED
    BY <1>0, <1>4, <2>1 DEF SelfServes
<1>5. CASE LooksForPending(r)
  <2>1. req' \in [Requests -> ReqRecord]
    BY <1>5, ReqEffect DEF LooksForPending, ReqPcs
  <2> QED
    BY <1>0, <1>5, <2>1 DEF LooksForPending
<1>6. CASE ClaimsPending(r)
  <2>1. req' \in [Requests -> ReqRecord]
    BY <1>6, ReqEffect DEF ClaimsPending, ReqPcs
  <2> QED
    BY <1>0, <1>6, <2>1 DEF ClaimsPending, Claims
<1>7. CASE Founds(r)
  <2>1. req' \in [Requests -> ReqRecord]
    BY <1>7, ReqEffect DEF Founds, ReqPcs
  <2>2. own' \in [People -> Nat]
    <3>1. own[Who(r)] + 1 \in Nat /\ own' = [own EXCEPT ![Who(r)] = own[Who(r)] + 1]
      BY <1>0, <1>7, WhoIs DEF Founds, Req
    <3> QED
      BY <1>0, <3>1
  <2> QED
    BY <1>0, <1>7, <2>1, <2>2 DEF Founds
<1> QED
  BY <1>1, <1>2, <1>3, <1>4, <1>5, <1>6, <1>7 DEF RequestStep

LEMMA MemberTypeStep ==
  ASSUME MemberTypes, Addressed, [MembershipNext]_membershipVars
  PROVE  MemberTypes'
<1> USE DEF bounds
<1>0. /\ add \in [Adds -> AddRecord] /\ NoAdd \in AddRecord
      /\ req \in [Requests -> ReqRecord] /\ NoRequest \in ReqRecord
  BY DEF MemberTypes, AddRecord, ReqRecord, ReqPcs, NoAdd, NoRequest
<1>1. ASSUME NEW p \in People, SignsUp(p) PROVE MemberTypes'
  BY <1>1 DEF SignsUp, MemberTypes
<1>2. ASSUME NEW p \in People, DeletesAccount(p) PROVE MemberTypes'
  BY <1>2 DEF DeletesAccount, MemberTypes
<1>3. ASSUME NEW p \in People, HookStep(p) PROVE MemberTypes'
  <2>1. CASE HookCreates(p)
    BY <2>1 DEF HookCreates, Hook, CreatesUser, MemberTypes
  <2>2. CASE HookChecks(p)
    BY <2>2 DEF HookChecks, Hook, MemberTypes
  <2>3. CASE HookClaims(p)
    BY <2>3 DEF HookClaims, Hook, Claims, MemberTypes
  <2> QED
    BY <1>3, <2>1, <2>2, <2>3 DEF HookStep
<1>4. ASSUME NEW p \in People, HookFails(p) PROVE MemberTypes'
  BY <1>4 DEF HookFails, MemberTypes
<1>5. ASSUME NEW p \in People, DeletesMember(p) PROVE MemberTypes'
  BY <1>5 DEF DeletesMember, MemberTypes
<1>6. ASSUME NEW p \in People, NEW a \in Adds, Counts(a, p) \/ Imports(a, p) PROVE MemberTypes'
  <2>1. add' \in [Adds -> AddRecord]
    <3>1. PICK late \in BOOLEAN :
            add' = [add EXCEPT ![a] = [pc |-> "look", who |-> {p}, user |-> FALSE, late |-> late]]
      BY <1>6 DEF Counts, Imports
    <3> DEFINE m == [pc |-> "look", who |-> {p}, user |-> FALSE, late |-> late]
    <3>2. m \in AddRecord
      BY DEF AddRecord
    <3> HIDE DEF m
    <3>3. add' = [add EXCEPT ![a] = m]
      BY <3>1 DEF m
    <3> QED
      BY <1>0, <3>2, <3>3
  <2> QED
    BY <1>6, <2>1 DEF Counts, Imports, MemberTypes, AddRecord
<1>7. ASSUME NEW p \in People, NEW r \in Requests, Starts(r, p) PROVE MemberTypes'
  <2>1. req' \in [Requests -> ReqRecord]
    BY <1>0, <1>7 DEF Starts, ReqRecord, ReqPcs
  <2> QED
    BY <1>7, <2>1 DEF Starts, MemberTypes, ReqRecord, ReqPcs
<1>8. ASSUME NEW r \in Requests, RequestStep(r) PROVE MemberTypes'
  BY <1>8, RequestTypes DEF MemberTypes, ReqRecord, ReqPcs
<1>9. ASSUME NEW r \in Requests, RequestFails(r) PROVE MemberTypes'
  <2>1. req' \in [Requests -> ReqRecord]
    BY <1>0, <1>9 DEF RequestFails
  <2> QED
    BY <1>9, <2>1 DEF RequestFails, MemberTypes, ReqRecord, ReqPcs
<1>10. ASSUME NEW a \in Adds, LooksUp(a) PROVE MemberTypes'
  <2> DEFINE u == user[Email(a)] # "none"
  <2>1. add' = [add EXCEPT ![a] = [add[a] EXCEPT !.pc = "insert", !.user = u]]
    BY <1>0, <1>10 DEF LooksUp
  <2>2. u \in BOOLEAN
    OBVIOUS
  <2> HIDE DEF u
  <2>3. add' \in [Adds -> AddRecord]
    BY <1>0, <2>1, <2>2 DEF AddRecord
  <2> QED
    BY <1>10, <2>3 DEF LooksUp, MemberTypes, AddRecord
<1>11. ASSUME NEW a \in Adds, InsertsMember(a) PROVE MemberTypes'
  <2>1. Email(a) \in People
    BY <1>11, EmailIs DEF InsertsMember
  <2>2. add' \in [Adds -> AddRecord]
    BY <1>0, <1>11 DEF InsertsMember, AddRecord
  <2>3. /\ member' \in [People -> {"none", "pending", "linked"}]
        /\ uncounted' \subseteq People /\ missed' \subseteq People
    BY <1>11, <2>1 DEF InsertsMember, MemberTypes
  <2> QED
    BY <1>11, <2>2, <2>3 DEF InsertsMember, MemberTypes, AddRecord
<1>12. CASE UNCHANGED membershipVars
  BY <1>12 DEF membershipVars, MemberTypes
<1> QED
  BY <1>1, <1>2, <1>3, <1>4, <1>5, <1>6, <1>7, <1>8, <1>9, <1>10, <1>11, <1>12
     DEF MembershipNext

-----------------------------------------------------------------------------
(* Whose the requests are, and how far they get.                           *)

\* From where to where a request's next query takes it.
LEMMA RequestMoves ==
  ASSUME NEW r \in Requests, RequestStep(r)
  PROVE  \E from \in ReqPcs \ {"idle"}, to \in ReqPcs \ {"create"} :
           /\ Req(r, from, to)
           /\ to = "existing" => r \in Pages
           /\ to = "pending" => from = "existing"
           /\ to \in {"claimOwn", "found"} => from = "pending"
<1>1. CASE Provisions(r)
  BY <1>1 DEF Provisions, ReqPcs
<1>2. CASE SeesEnrolled(r)
  <2> DEFINE to == IF Enrolled(Who(r)) THEN After(r) ELSE "claim"
  <2>1. Req(r, "check", to) /\ to \in {"existing", "idle", "claim"}
        /\ (to = "existing" => r \in Pages)
    BY <1>2 DEF SeesEnrolled, After
  <2> HIDE DEF to
  <2> QED
    BY <2>1 DEF ReqPcs
<1>3. CASE ClaimsFirst(r)
  <2> DEFINE to == After(r)
  <2>1. Req(r, "claim", to) /\ to \in {"existing", "idle"} /\ (to = "existing" => r \in Pages)
    BY <1>3 DEF ClaimsFirst, After
  <2> HIDE DEF to
  <2> QED
    BY <2>1 DEF ReqPcs
<1>4. CASE SelfServes(r)
  <2> DEFINE to == IF Enrolled(Who(r)) THEN "idle" ELSE "pending"
  <2>1. Req(r, "existing", to) /\ to \in {"idle", "pending"}
    BY <1>4 DEF SelfServes
  <2> HIDE DEF to
  <2> QED
    BY <2>1 DEF ReqPcs
<1>5. CASE LooksForPending(r)
  <2> DEFINE to == IF member[Who(r)] = "pending" THEN "claimOwn" ELSE "found"
  <2>1. Req(r, "pending", to) /\ to \in {"claimOwn", "found"}
    BY <1>5 DEF LooksForPending
  <2> HIDE DEF to
  <2> QED
    BY <2>1 DEF ReqPcs
<1>6. CASE ClaimsPending(r)
  BY <1>6 DEF ClaimsPending, ReqPcs
<1>7. CASE Founds(r)
  BY <1>7 DEF Founds, ReqPcs
<1> QED
  BY <1>1, <1>2, <1>3, <1>4, <1>5, <1>6, <1>7 DEF RequestStep

LEMMA StartEffect ==
  ASSUME MemberTypes, NEW r \in Requests, NEW p \in People, Starts(r, p)
  PROVE  /\ req[r].pc = "idle" /\ p \in live /\ req'[r].who = {p}
         /\ \A q \in Requests \ {r} : req'[q] = req[q]
         /\ req'[r].pc \in {"existing", "create"}
         /\ req'[r].pc = "existing" => user[p] = "current" /\ r \in Pages
<1> DEFINE pc == IF user[p] = "current" THEN "existing" ELSE "create"
<1>1. req' = [req EXCEPT ![r] = [pc |-> pc, who |-> {p}]] /\ req[r].pc = "idle" /\ p \in live
      /\ (user[p] # "current" \/ r \in Pages)
  BY DEF Starts
<1>2. req \in [Requests -> ReqRecord]
  BY DEF MemberTypes, ReqRecord, ReqPcs
<1> QED
  BY <1>1, <1>2

LEMMA FailEffect ==
  ASSUME MemberTypes, NEW r \in Requests, RequestFails(r)
  PROVE  /\ req'[r] = NoRequest /\ \A q \in Requests \ {r} : req'[q] = req[q]
         /\ UNCHANGED <<live, accounts, user, member, own, hook, add, uncounted, missed>>
<1>1. req \in [Requests -> ReqRecord]
  BY DEF MemberTypes, ReqRecord, ReqPcs
<1> QED
  BY <1>1 DEF RequestFails

\* Every other step leaves the requests alone.
LEMMA RequestsStay ==
  ASSUME [MembershipNext]_membershipVars
  PROVE  \/ UNCHANGED req
         \/ \E r \in Requests : \/ RequestStep(r) \/ RequestFails(r)
                                \/ \E p \in People : Starts(r, p)
BY DEF MembershipNext, membershipVars, SignsUp, DeletesAccount, HookStep, HookCreates, HookChecks,
       HookClaims, HookFails, DeletesMember, Counts, Imports, LooksUp, InsertsMember

LEMMA RequestsAddressed ==
  ASSUME MemberTypes, Addressed, [MembershipNext]_membershipVars
  PROVE  \A r \in Requests : /\ req'[r].pc # "idle" => \E p \in live' : req'[r].who = {p}
                             /\ req'[r].pc = "idle" => req'[r].who = {}
<1>1. ASSUME NEW p \in People, DeletesAccount(p)
      PROVE  \A r \in Requests : /\ req'[r].pc # "idle" => \E q \in live' : req'[r].who = {q}
                                 /\ req'[r].pc = "idle" => req'[r].who = {}
  BY <1>1 DEF DeletesAccount, Addressed
<1>2. (\A p \in People : ~DeletesAccount(p)) => live \subseteq live'
  BY RequestTypes DEF MembershipNext, membershipVars, SignsUp, HookStep, HookCreates, HookChecks,
     HookClaims, HookFails, DeletesMember, Counts, Imports, LooksUp, InsertsMember, Starts,
     RequestFails
<1>3. ASSUME NEW r \in Requests, RequestStep(r)
      PROVE  \A q \in Requests : /\ req'[q].pc # "idle" => \E p \in live' : req'[q].who = {p}
                                 /\ req'[q].pc = "idle" => req'[q].who = {}
  <2>1. PICK from \in ReqPcs \ {"idle"}, to \in ReqPcs : Req(r, from, to)
    BY <1>3, RequestMoves
  <2>2. live' = live /\ req[r].pc # "idle"
    BY <1>3, <2>1, RequestTypes, ReqEffect
  <2>3. \/ req'[r] = NoRequest
        \/ req'[r].pc # "idle" /\ req'[r].who = req[r].who
    BY <2>1, ReqEffect
  <2>4. \A q \in Requests \ {r} : req'[q] = req[q]
    BY <2>1, ReqEffect
  <2> QED
    BY <2>2, <2>3, <2>4 DEF Addressed, NoRequest
<1>4. ASSUME NEW r \in Requests, RequestFails(r)
      PROVE  \A q \in Requests : /\ req'[q].pc # "idle" => \E p \in live' : req'[q].who = {p}
                                 /\ req'[q].pc = "idle" => req'[q].who = {}
  BY <1>4, FailEffect DEF Addressed, NoRequest
<1>5. ASSUME NEW r \in Requests, NEW p \in People, Starts(r, p)
      PROVE  \A q \in Requests : /\ req'[q].pc # "idle" => \E o \in live' : req'[q].who = {o}
                                 /\ req'[q].pc = "idle" => req'[q].who = {}
  <2>1. live' = live
    BY <1>5 DEF Starts
  <2> QED
    BY <1>5, <2>1, StartEffect DEF Addressed
<1>6. CASE UNCHANGED req /\ \A p \in People : ~DeletesAccount(p)
  BY <1>2, <1>6 DEF Addressed
<1> QED
  BY <1>1, <1>3, <1>4, <1>5, <1>6, RequestsStay

LEMMA AddsAddressed ==
  ASSUME MemberTypes, Addressed, [MembershipNext]_membershipVars
  PROVE  \A a \in Adds : add'[a].pc # "idle" => \E p \in People : add'[a].who = {p}
<1>0. add \in [Adds -> AddRecord]
  BY DEF MemberTypes, AddRecord
<1>1. ASSUME NEW p \in People, NEW a \in Adds, Counts(a, p) \/ Imports(a, p)
      PROVE  \A b \in Adds : add'[b].pc # "idle" => \E q \in People : add'[b].who = {q}
  BY <1>0, <1>1 DEF Counts, Imports, Addressed
<1>2. ASSUME NEW a \in Adds, LooksUp(a)
      PROVE  \A b \in Adds : add'[b].pc # "idle" => \E q \in People : add'[b].who = {q}
  <2>1. \A b \in Adds : add'[b].who = add[b].who /\ (add'[b].pc # "idle" => add[b].pc # "idle")
    BY <1>0, <1>2 DEF LooksUp, AddRecord
  <2> QED
    BY <2>1 DEF Addressed
<1>3. ASSUME NEW a \in Adds, InsertsMember(a)
      PROVE  \A b \in Adds : add'[b].pc # "idle" => \E q \in People : add'[b].who = {q}
  <2>1. \A b \in Adds : \/ add'[b] = NoAdd
                        \/ add'[b].who = add[b].who /\ add'[b].pc = add[b].pc
    BY <1>0, <1>3 DEF InsertsMember, AddRecord
  <2> QED
    BY <2>1 DEF Addressed, NoAdd
<1>4. CASE UNCHANGED add
  BY <1>4 DEF Addressed
<1> QED
  BY <1>1, <1>2, <1>3, <1>4, RequestTypes DEF MembershipNext, membershipVars, SignsUp,
     DeletesAccount, HookStep, HookCreates, HookChecks, HookClaims, HookFails, DeletesMember,
     Starts, RequestFails

LEMMA AddressedStep ==
  ASSUME MemberTypes, Addressed, [MembershipNext]_membershipVars
  PROVE  Addressed'
BY RequestsAddressed, AddsAddressed DEF Addressed

LEMMA PagesStep ==
  ASSUME MemberTypes, Addressed, PagesOnly, [MembershipNext]_membershipVars
  PROVE  PagesOnly'
<1>1. ASSUME NEW r \in Requests, RequestStep(r) PROVE PagesOnly'
  <2>1. PICK from \in ReqPcs \ {"idle"}, to \in ReqPcs \ {"create"} :
          /\ Req(r, from, to)
          /\ to = "existing" => r \in Pages
          /\ to = "pending" => from = "existing"
          /\ to \in {"claimOwn", "found"} => from = "pending"
    BY <1>1, RequestMoves
  <2>2. /\ req[r].pc = from
        /\ req'[r] = NoRequest \/ req'[r].pc = to
        /\ \A q \in Requests \ {r} : req'[q] = req[q]
    BY <2>1, ReqEffect
  <2> QED
    BY <2>1, <2>2 DEF PagesOnly, NoRequest
<1>2. ASSUME NEW r \in Requests, RequestFails(r) PROVE PagesOnly'
  BY <1>2, FailEffect DEF PagesOnly, NoRequest
<1>3. ASSUME NEW r \in Requests, NEW p \in People, Starts(r, p) PROVE PagesOnly'
  BY <1>3, StartEffect DEF PagesOnly
<1>4. CASE UNCHANGED req
  BY <1>4 DEF PagesOnly
<1> QED
  BY <1>1, <1>2, <1>3, <1>4, RequestsStay

-----------------------------------------------------------------------------
(* Organisations of one's own.                                             *)

LEMMA FoundingFinite ==
  ASSUME NEW p
  PROVE  /\ IsFiniteSet(Founding(p)) /\ Cardinality(Founding(p)) \in Nat
         /\ Cardinality(Founding(p)) <= Cardinality(Pages) /\ Cardinality(Pages) \in Nat
<1>1. Founding(p) \subseteq Pages /\ IsFiniteSet(Pages)
  BY MembershipAssumption DEF Founding
<1> QED
  BY <1>1, FS_Subset, FS_CardinalityType

\* As many found as before, or fewer.
LEMMA FewerFounding ==
  ASSUME MemberTypes, RoomToFound, NEW p \in People, Founding(p)' \subseteq Founding(p),
         own'[p] = own[p]
  PROVE  own'[p] + Cardinality(Founding(p)') <= Cardinality(Pages)
<1>1. /\ IsFiniteSet(Founding(p)) /\ Cardinality(Founding(p)) \in Nat
      /\ Cardinality(Pages) \in Nat
  BY FoundingFinite
<1>2. Cardinality(Founding(p)') <= Cardinality(Founding(p)) /\ Cardinality(Founding(p)') \in Nat
  BY <1>1, FS_Subset, FS_CardinalityType
<1>3. own[p] \in Nat /\ own[p] + Cardinality(Founding(p)) <= Cardinality(Pages)
  BY DEF MemberTypes, RoomToFound
<1> QED
  BY <1>1, <1>2, <1>3

LEMMA RoomStep ==
  ASSUME MemberTypes, Addressed, PagesOnly, RoomToFound, [MembershipNext]_membershipVars
  PROVE  RoomToFound'
<1>0. \A p \in People : own[p] \in Nat
  BY DEF MemberTypes
<1>1. ASSUME NEW r \in Requests, RequestStep(r), ~Founds(r) PROVE RoomToFound'
  <2>0. own' = own
    BY <1>1 DEF RequestStep, Provisions, SeesEnrolled, ClaimsFirst, SelfServes, LooksForPending,
                ClaimsPending
  <2>1. PICK from \in ReqPcs \ {"idle"}, to \in ReqPcs \ {"create"} :
          /\ Req(r, from, to)
          /\ to = "existing" => r \in Pages
          /\ to = "pending" => from = "existing"
          /\ to \in {"claimOwn", "found"} => from = "pending"
    BY <1>1, RequestMoves
  <2>2. /\ req[r].pc = from
        /\ \/ req'[r] = NoRequest
           \/ req'[r].pc = to /\ req'[r].who = req[r].who
        /\ \A q \in Requests \ {r} : req'[q] = req[q]
    BY <2>1, ReqEffect
  <2>3. \A q \in Pages : q \in Requests
    BY MembershipAssumption
  <2>4. ASSUME NEW p \in People, to # "pending" \/ req[r].who # {p}
        PROVE  own'[p] + Cardinality(Founding(p)') <= Cardinality(Pages)
    <3>1. Founding(p)' \subseteq Founding(p)
      BY <2>1, <2>2, <2>3, <2>4 DEF Founding, NoRequest
    <3> QED
      BY <2>0, <3>1, FewerFounding
  <2>5. ASSUME NEW p \in People, to = "pending", req[r].who = {p}
        PROVE  own'[p] + Cardinality(Founding(p)') <= Cardinality(Pages)
    <3>1. SelfServes(r) /\ Who(r) = p
      <4>1. Who(r) = p
        BY <2>2, <2>5, WhoIs
      <4>2. from = "existing" /\ req[r].pc = "existing"
        BY <2>1, <2>2, <2>5
      <4> QED
        BY <1>1, <4>1, <4>2 DEF RequestStep, Provisions, SeesEnrolled, ClaimsFirst, SelfServes,
           LooksForPending, ClaimsPending, Req
    <3>2. ~Enrolled(p)
      <4>1. Enrolled(p) => req'[r] = NoRequest
        BY <3>1, ReqEffect DEF SelfServes, ReqPcs
      <4>2. req'[r].pc = "pending"
        BY <2>1, <2>5, ReqEffect
      <4> QED
        BY <4>1, <4>2 DEF NoRequest
    <3>3. own'[p] = 0
      BY <1>0, <2>0, <3>2 DEF Enrolled
    <3>4. Founding(p)' \subseteq Pages /\ IsFiniteSet(Pages)
      BY MembershipAssumption DEF Founding
    <3>5. Cardinality(Founding(p)') <= Cardinality(Pages) /\ Cardinality(Founding(p)') \in Nat
      BY <3>4, FS_Subset, FS_CardinalityType
    <3> QED
      BY <3>3, <3>5
  <2> QED
    BY <2>4, <2>5 DEF RoomToFound
<1>2. ASSUME NEW r \in Requests, Founds(r) PROVE RoomToFound'
  <2>1. /\ req[r].pc = "found" /\ req'[r] = NoRequest
        /\ \A q \in Requests \ {r} : req'[q] = req[q]
    BY <1>2, ReqEffect DEF Founds, ReqPcs
  <2>2. PICK o \in People : o = Who(r) /\ req[r].who = {o} /\ r \in Pages
    BY <2>1, WhoIs DEF PagesOnly
  <2>3. own' = [own EXCEPT ![o] = own[o] + 1]
    BY <1>2, <2>2 DEF Founds
  <2>4. \A q \in Pages : q \in Requests
    BY MembershipAssumption
  <2>5. \A p \in People : Founding(p)' \subseteq Founding(p)
    BY <2>1, <2>4 DEF Founding, NoRequest
  <2>6. ASSUME NEW p \in People \ {o}
        PROVE  own'[p] + Cardinality(Founding(p)') <= Cardinality(Pages)
    <3>1. own'[p] = own[p]
      BY <2>2, <2>3 DEF MemberTypes
    <3> QED
      BY <2>5, <3>1, FewerFounding
  <2>7. own'[o] + Cardinality(Founding(o)') <= Cardinality(Pages)
    <3>1. r \in Founding(o) /\ Founding(o)' = Founding(o) \ {r}
      <4>1. r \in Founding(o)
        BY <2>1, <2>2 DEF Founding
      <4>2. r \notin Founding(o)'
        BY <2>1 DEF Founding, NoRequest
      <4>3. \A q \in Pages \ {r} : q \in Founding(o)' <=> q \in Founding(o)
        BY <2>1, <2>4 DEF Founding
      <4>4. Founding(o) \subseteq Pages /\ Founding(o)' \subseteq Pages
        BY DEF Founding
      <4> QED
        BY <4>1, <4>2, <4>3, <4>4
    <3>2. Cardinality(Founding(o)') = Cardinality(Founding(o)) - 1
      BY <3>1, FoundingFinite, FS_RemoveElement
    <3>3. own'[o] = own[o] + 1 /\ own[o] \in Nat
      BY <1>0, <2>2, <2>3 DEF MemberTypes
    <3>4. own[o] + Cardinality(Founding(o)) <= Cardinality(Pages)
      BY <2>2 DEF RoomToFound
    <3> QED
      BY <3>2, <3>3, <3>4, FoundingFinite
  <2> QED
    BY <2>6, <2>7 DEF RoomToFound
<1>3. ASSUME NEW r \in Requests, RequestFails(r) PROVE RoomToFound'
  <2>1. own' = own
    BY <1>3, FailEffect
  <2>2. \A p \in People : Founding(p)' \subseteq Founding(p)
    BY <1>3, FailEffect, MembershipAssumption DEF Founding, NoRequest
  <2> QED
    BY <2>1, <2>2, FewerFounding DEF RoomToFound
<1>4. ASSUME NEW r \in Requests, NEW p \in People, Starts(r, p) PROVE RoomToFound'
  <2>1. own' = own
    BY <1>4 DEF Starts
  <2>2. \A q \in People : Founding(q)' \subseteq Founding(q)
    BY <1>4, StartEffect, MembershipAssumption DEF Founding
  <2> QED
    BY <2>1, <2>2, FewerFounding DEF RoomToFound
<1>5. CASE UNCHANGED <<req, own>>
  BY <1>5 DEF RoomToFound, Founding
<1>6. UNCHANGED req => UNCHANGED <<req, own>> \/ \E r \in Requests : RequestStep(r)
  BY DEF MembershipNext, membershipVars, SignsUp, DeletesAccount, HookStep, HookCreates, HookChecks,
     HookClaims, HookFails, DeletesMember, Counts, Imports, LooksUp, InsertsMember, Starts,
     RequestFails
<1> QED
  BY <1>1, <1>2, <1>3, <1>4, <1>5, <1>6, RequestsStay

-----------------------------------------------------------------------------
(* Seats.                                                                  *)

LEMMA RowsFinite ==
  ASSUME NEW S, S \subseteq People
  PROVE  IsFiniteSet(S) /\ Cardinality(S) \in Nat
         /\ \A T : T \subseteq S => Cardinality(T) <= Cardinality(S) /\ Cardinality(T) \in Nat
<1>1. IsFiniteSet(People)
  BY MembershipAssumption
<1>2. IsFiniteSet(S)
  BY <1>1, FS_Subset
<1> QED
  BY <1>2, FS_Subset, FS_CardinalityType

LEMMA ClaimsRows ==
  ASSUME MemberTypes, NEW p \in People, Claims(p)
  PROVE  Rows' = Rows
BY DEF MemberTypes, Claims, Rows

\* Only the adds and deletions change who has a row.
LEMMA RowsStay ==
  ASSUME MemberTypes, Addressed, [MembershipNext]_membershipVars
  PROVE  \/ Rows' = Rows /\ UNCHANGED <<add, uncounted>>
         \/ \E a \in Adds : \/ LooksUp(a) \/ InsertsMember(a)
                            \/ \E p \in People : Counts(a, p) \/ Imports(a, p)
         \/ \E p \in People : DeletesMember(p)
<1>1. UNCHANGED member => Rows' = Rows
  BY DEF Rows
<1>2. ASSUME NEW r \in Requests, RequestStep(r) PROVE Rows' = Rows /\ UNCHANGED <<add, uncounted>>
  <2>1. UNCHANGED <<add, uncounted>>
    BY <1>2, RequestTypes
  <2>2. CASE ClaimsFirst(r)
    <3>1. Claims(Who(r)) /\ Who(r) \in People
      BY <2>2, WhoIs DEF ClaimsFirst, Req
    <3> QED
      BY <2>1, <3>1, ClaimsRows
  <2>3. CASE ClaimsPending(r)
    <3>1. Claims(Who(r)) /\ Who(r) \in People
      BY <2>3, WhoIs DEF ClaimsPending, Req
    <3> QED
      BY <2>1, <3>1, ClaimsRows
  <2>4. CASE ~ClaimsFirst(r) /\ ~ClaimsPending(r)
    BY <1>1, <1>2, <2>1, <2>4 DEF RequestStep, Provisions, SeesEnrolled, SelfServes,
       LooksForPending, Founds
  <2> QED
    BY <2>2, <2>3, <2>4
<1>3. ASSUME NEW p \in People, HookStep(p) \/ HookFails(p)
      PROVE  Rows' = Rows /\ UNCHANGED <<add, uncounted>>
  <2>1. CASE HookClaims(p)
    BY <2>1, ClaimsRows DEF HookClaims
  <2>2. CASE ~HookClaims(p)
    BY <1>1, <1>3, <2>2 DEF HookStep, HookCreates, HookChecks, HookFails
  <2> QED
    BY <2>1, <2>2
<1>4. ASSUME NEW p \in People,
             SignsUp(p) \/ DeletesAccount(p) \/ \E r \in Requests : Starts(r, p)
      PROVE  Rows' = Rows /\ UNCHANGED <<add, uncounted>>
  BY <1>1, <1>4 DEF SignsUp, DeletesAccount, Starts
<1>5. ASSUME NEW r \in Requests, RequestFails(r) PROVE Rows' = Rows /\ UNCHANGED <<add, uncounted>>
  BY <1>1, <1>5 DEF RequestFails
<1>6. CASE UNCHANGED membershipVars
  BY <1>1, <1>6 DEF membershipVars
<1> QED
  BY <1>2, <1>3, <1>4, <1>5, <1>6 DEF MembershipNext

LEMMA SeatsStep ==
  ASSUME MemberTypes, Addressed, SeatIsFree, OverrunIsAccountedFor, [MembershipNext]_membershipVars
  PROVE  SeatIsFree' /\ OverrunIsAccountedFor'
<1>0. /\ add \in [Adds -> AddRecord] /\ MaxSeats \in Nat
      /\ member \in [People -> {"none", "pending", "linked"}]
      /\ Rows \subseteq People /\ Rows' \subseteq People
  BY MembershipAssumption DEF MemberTypes, AddRecord, Rows
<1>1. CASE Rows' = Rows /\ UNCHANGED <<add, uncounted>>
  BY <1>1 DEF SeatIsFree, OverrunIsAccountedFor
<1>2. ASSUME NEW a \in Adds, LooksUp(a) PROVE SeatIsFree' /\ OverrunIsAccountedFor'
  <2>1. Rows' = Rows /\ uncounted' = uncounted
    BY <1>2 DEF LooksUp, Rows
  <2>2. \A b \in Adds : add'[b].late = add[b].late /\ (add'[b].pc # "idle" => add[b].pc # "idle")
    BY <1>0, <1>2 DEF LooksUp, AddRecord
  <2> QED
    BY <2>1, <2>2 DEF SeatIsFree, OverrunIsAccountedFor
<1>3. ASSUME NEW a \in Adds, NEW p \in People, Counts(a, p)
      PROVE  SeatIsFree' /\ OverrunIsAccountedFor'
  <2>1. Rows' = Rows /\ uncounted' = uncounted /\ Cardinality(Rows) < MaxSeats
    BY <1>3 DEF Counts, Rows
  <2> QED
    BY <2>1 DEF SeatIsFree, OverrunIsAccountedFor
<1>4. ASSUME NEW a \in Adds, NEW p \in People, Imports(a, p)
      PROVE  SeatIsFree' /\ OverrunIsAccountedFor'
  <2>1. Rows' = Rows /\ uncounted' = uncounted
    BY <1>4 DEF Imports, Rows
  <2>2. add'[a].late /\ \A b \in Adds \ {a} : add'[b] = add[b]
    BY <1>0, <1>4 DEF Imports
  <2> QED
    BY <2>1, <2>2 DEF SeatIsFree, OverrunIsAccountedFor
<1>5. ASSUME NEW p \in People, DeletesMember(p) PROVE SeatIsFree' /\ OverrunIsAccountedFor'
  <2>1. add' = add /\ Rows' = Rows \ {p} /\ uncounted' = uncounted \ {p}
    BY <1>0, <1>5 DEF DeletesMember, Rows
  <2>2. Cardinality(Rows') <= Cardinality(Rows) /\ Cardinality(Rows) \in Nat
        /\ Cardinality(Rows') \in Nat
    BY <1>0, <2>1, RowsFinite
  <2>3. /\ Cardinality(Rows' \ uncounted') <= Cardinality(Rows \ uncounted)
        /\ Cardinality(Rows' \ uncounted') \in Nat /\ Cardinality(Rows \ uncounted) \in Nat
    <3>1. Rows' \ uncounted' \subseteq Rows \ uncounted /\ Rows \ uncounted \subseteq People
      BY <1>0, <2>1
    <3> QED
      BY <3>1, RowsFinite
  <2>4. SeatIsFree'
    BY <1>0, <2>1, <2>2 DEF SeatIsFree
  <2>5. OverrunIsAccountedFor'
    BY <1>0, <2>3 DEF OverrunIsAccountedFor
  <2> QED
    BY <2>4, <2>5
<1>6. ASSUME NEW a \in Adds, InsertsMember(a) PROVE SeatIsFree' /\ OverrunIsAccountedFor'
  <2>1. PICK p \in People : p = Email(a) /\ add[a].pc = "insert"
    BY <1>6, EmailIs DEF InsertsMember
  <2>2. CASE member[p] # "none"
    <3>1. Rows' = Rows /\ uncounted' = uncounted
      BY <1>0, <1>6, <2>1, <2>2 DEF InsertsMember, Rows
    <3>2. \A b \in Adds : add'[b] = IF b = a THEN NoAdd ELSE add[b]
      BY <1>0, <1>6, <2>1, <2>2 DEF InsertsMember
    <3> QED
      BY <3>1, <3>2 DEF SeatIsFree, OverrunIsAccountedFor, NoAdd
  <2>3. CASE member[p] = "none"
    <3>1. Rows' = Rows \cup {p} /\ p \notin Rows
      BY <1>0, <1>6, <2>1, <2>3 DEF InsertsMember, Rows
    <3>2. uncounted' = IF add[a].late THEN uncounted \cup {p} ELSE uncounted
      BY <1>6, <2>1, <2>3 DEF InsertsMember
    <3>3. \A b \in Adds : add'[b].pc = "idle" \/ add'[b].late
      <4>1. \A b \in Adds : add'[b] = IF b = a THEN NoAdd
                                      ELSE IF add[b].pc # "idle" THEN [add[b] EXCEPT !.late = TRUE]
                                      ELSE add[b]
        BY <1>6, <2>1, <2>3 DEF InsertsMember
      <4>2. \A m \in AddRecord : [m EXCEPT !.late = TRUE].late
        BY DEF AddRecord
      <4>3. NoAdd.pc = "idle"
        BY DEF NoAdd
      <4> TAKE b \in Adds
      <4>4. CASE b = a
        BY <4>1, <4>3, <4>4
      <4>5. CASE b # a /\ add[b].pc = "idle"
        BY <4>1, <4>5
      <4>6. CASE b # a /\ add[b].pc # "idle"
        BY <1>0, <4>1, <4>2, <4>6
      <4> QED
        BY <4>4, <4>5, <4>6
    <3>4. SeatIsFree'
      BY <3>3 DEF SeatIsFree
    <3>5. CASE add[a].late
      <4>1. Rows' \ uncounted' \subseteq Rows \ uncounted /\ Rows \ uncounted \subseteq People
        BY <1>0, <3>1, <3>2, <3>5
      <4>2. /\ Cardinality(Rows' \ uncounted') <= Cardinality(Rows \ uncounted)
            /\ Cardinality(Rows' \ uncounted') \in Nat /\ Cardinality(Rows \ uncounted) \in Nat
        BY <4>1, RowsFinite
      <4> QED
        BY <1>0, <3>4, <4>2 DEF OverrunIsAccountedFor
    <3>6. CASE ~add[a].late
      <4>1. Cardinality(Rows) < MaxSeats
        BY <2>1, <3>6 DEF SeatIsFree
      <4>2. Cardinality(Rows') = Cardinality(Rows) + 1 /\ Cardinality(Rows) \in Nat
        BY <1>0, <3>1, RowsFinite, FS_AddElement
      <4>3. /\ Cardinality(Rows' \ uncounted') <= Cardinality(Rows')
            /\ Cardinality(Rows' \ uncounted') \in Nat
        <5>1. Rows' \ uncounted' \subseteq Rows'
          OBVIOUS
        <5> QED
          BY <1>0, <5>1, RowsFinite
      <4> QED
        BY <1>0, <3>4, <4>1, <4>2, <4>3 DEF OverrunIsAccountedFor
    <3> QED
      BY <3>5, <3>6
  <2> QED
    BY <2>2, <2>3
<1> QED
  BY <1>1, <1>2, <1>3, <1>4, <1>5, <1>6, RowsStay

-----------------------------------------------------------------------------
(* The row of an account, and who waits to be linked.                      *)

HasRow(p) == user[p] # "none"

LEMMA CreatesEffect ==
  ASSUME MemberTypes, NEW p \in People, CreatesUser(p)
  PROVE  HasRow(p)' /\ \A q \in People \ {p} : user'[q] = user[q]
BY DEF MemberTypes, CreatesUser, HasRow

LEMMA HookEffect ==
  ASSUME MemberTypes, NEW p \in People, NEW from, NEW to, Hook(p, from, to)
  PROVE  hook[p] = from /\ hook'[p] = to /\ \A q \in People \ {p} : hook'[q] = hook[q]
BY DEF MemberTypes, Hook

LEMMA ClaimsEffect ==
  ASSUME MemberTypes, NEW p \in People, Claims(p)
  PROVE  /\ member'[p] # "pending" /\ missed' = missed \ {p}
         /\ \A q \in People \ {p} : member'[q] = member[q]
BY DEF MemberTypes, Claims

\* Whoever is with a request past its provisioning has a row.
LEMMA RequestHasRow ==
  ASSUME MemberTypes, Addressed, RowOrEvent, NEW r \in Requests,
         req[r].pc \notin {"idle", "create"}
  PROVE  HasRow(Who(r))
BY WhoIs DEF RowOrEvent, HasRow

\* A step of one person's webhook, request or account, for everybody's row.
LEMMA RowsKept ==
  ASSUME MemberTypes, Addressed, [MembershipNext]_membershipVars, NEW p \in People, HasRow(p)
  PROVE  HasRow(p)'
<1>0. user \in [People -> {"none", "current", "other"}]
  BY DEF MemberTypes
<1>1. ASSUME NEW q \in People, CreatesUser(q) PROVE HasRow(p)'
  BY <1>1, CreatesEffect DEF HasRow
<1>2. ASSUME NEW r \in Requests, Provisions(r) PROVE HasRow(p)'
  <2>1. CreatesUser(Who(r)) /\ Who(r) \in People
    BY <1>2, WhoIs DEF Provisions, Req
  <2> QED
    BY <1>1, <2>1
<1>3. ASSUME NEW q \in People, DeletesAccount(q) PROVE HasRow(p)'
  BY <1>0, <1>3 DEF DeletesAccount, HasRow
<1>4. CASE UNCHANGED user
  BY <1>4 DEF HasRow
<1> QED
  BY <1>1, <1>2, <1>3, <1>4 DEF MembershipNext, membershipVars, SignsUp, HookStep, HookCreates,
     HookChecks, HookClaims, HookFails, DeletesMember, Counts, Imports, LooksUp, InsertsMember,
     Starts, RequestFails, RequestStep, SeesEnrolled, ClaimsFirst, SelfServes, LooksForPending,
     ClaimsPending, Founds

LEMMA EventDueStep ==
  ASSUME MemberTypes, Addressed, RowOrEvent, [MembershipNext]_membershipVars
  PROVE  \A p \in live' : user'[p] = "none" => hook'[p] = "due"
<1> SUFFICES ASSUME NEW p \in live', ~HasRow(p)' PROVE hook'[p] = "due"
  BY DEF HasRow
<1>0. live \subseteq People /\ hook \in [People -> {"none", "due", "check", "claim"}]
  BY MembershipAssumption DEF MemberTypes
<1>1. ASSUME NEW q \in People, SignsUp(q) PROVE hook'[p] = "due"
  <2>1. CASE p = q
    BY <1>0, <1>1, <2>1 DEF SignsUp
  <2>2. CASE p # q
    BY <1>0, <1>1, <2>2 DEF SignsUp, RowOrEvent, HasRow
  <2> QED
    BY <2>1, <2>2
<1>2. ASSUME p \in live PROVE hook'[p] = "due"
  <2>1. p \in People /\ hook[p] = "due" /\ ~HasRow(p)
    BY <1>0, <1>2, RowsKept DEF RowOrEvent, HasRow
  <2>2. ASSUME NEW q \in People, HookCreates(q) PROVE hook'[p] = "due"
    <3>1. p # q
      BY <2>2, CreatesEffect DEF HookCreates
    <3> QED
      BY <2>1, <2>2, <3>1, HookEffect DEF HookCreates
  <2>3. ASSUME NEW q \in People, HookChecks(q) \/ HookClaims(q) PROVE hook'[p] = "due"
    <3>1. hook[q] # "due" /\ hook'[p] = IF p = q THEN hook'[p] ELSE hook[p]
      BY <1>0, <2>1, <2>3, HookEffect DEF HookChecks, HookClaims
    <3> QED
      BY <2>1, <3>1
  <2>4. ASSUME NEW q \in People, HookFails(q) PROVE hook'[p] = "due"
    BY <1>0, <2>1, <2>4 DEF HookFails
  <2>5. CASE UNCHANGED hook
    BY <2>1, <2>5
  <2> QED
    BY <1>1, <2>2, <2>3, <2>4, <2>5, RequestTypes DEF MembershipNext, membershipVars,
       DeletesAccount, HookStep, DeletesMember, Counts, Imports, LooksUp, InsertsMember,
       Starts, RequestFails
<1>3. (\A q \in People : ~SignsUp(q)) => live' \subseteq live
  BY RequestTypes DEF MembershipNext, membershipVars, DeletesAccount, HookStep, HookCreates,
     HookChecks, HookClaims, HookFails, DeletesMember, Counts, Imports, LooksUp, InsertsMember,
     Starts, RequestFails
<1> QED
  BY <1>1, <1>2, <1>3

LEMMA SeenRowStep ==
  ASSUME MemberTypes, Addressed, RowOrEvent, [MembershipNext]_membershipVars
  PROVE  \A p \in People : hook'[p] \in {"check", "claim"} \/ own'[p] > 0 => user'[p] # "none"
<1> SUFFICES ASSUME NEW p \in People, hook'[p] \in {"check", "claim"} \/ own'[p] > 0
             PROVE  HasRow(p)'
  BY DEF HasRow
<1>0. hook \in [People -> {"none", "due", "check", "claim"}] /\ own \in [People -> Nat]
  BY DEF MemberTypes
<1>1. HasRow(p) => HasRow(p)'
  BY RowsKept
<1>2. CASE hook[p] \in {"check", "claim"} \/ own[p] > 0
  BY <1>1, <1>2 DEF RowOrEvent, HasRow
<1>3. ASSUME NEW q \in People, HookCreates(q) PROVE HasRow(p)'
  <2>1. CASE p = q
    BY <1>3, <2>1, CreatesEffect DEF HookCreates
  <2>2. CASE p # q
    BY <1>2, <1>3, <2>2, HookEffect DEF HookCreates
  <2> QED
    BY <2>1, <2>2
<1>4. ASSUME NEW q \in People, HookChecks(q) \/ HookClaims(q) PROVE HasRow(p)'
  <2>1. hook[q] \in {"check", "claim"} /\ (p # q => hook'[p] = hook[p]) /\ own' = own
    BY <1>4, HookEffect DEF HookChecks, HookClaims
  <2> QED
    BY <1>2, <2>1
<1>5. ASSUME NEW q \in People, HookFails(q) \/ SignsUp(q) PROVE HasRow(p)'
  <2>1. own' = own /\ hook' = [hook EXCEPT ![q] = "due"]
    BY <1>5 DEF HookFails, SignsUp
  <2> QED
    BY <1>0, <1>2, <2>1
<1>6. ASSUME NEW r \in Requests, Founds(r) PROVE HasRow(p)'
  <2>1. PICK o \in People : o = Who(r) /\ req[r].pc = "found"
    BY <1>6, WhoIs DEF Founds, Req
  <2>2. HasRow(o) /\ hook' = hook /\ own' = [own EXCEPT ![o] = own[o] + 1]
    BY <1>6, <2>1, RequestHasRow DEF Founds
  <2> QED
    BY <1>0, <1>1, <1>2, <2>2
<1>7. CASE UNCHANGED <<hook, own>>
  BY <1>2, <1>7
<1> QED
  BY <1>3, <1>4, <1>5, <1>6, <1>7 DEF MembershipNext, membershipVars, DeletesAccount, HookStep,
     DeletesMember, Counts, Imports, LooksUp, InsertsMember, Starts, RequestFails, RequestStep,
     Provisions, SeesEnrolled, ClaimsFirst, SelfServes, LooksForPending, ClaimsPending

LEMMA SeenByRequestStep ==
  ASSUME MemberTypes, Addressed, RowOrEvent, [MembershipNext]_membershipVars
  PROVE  \A r \in Requests, p \in People :
           req'[r].who = {p} /\ req'[r].pc # "create" => user'[p] # "none"
<1> SUFFICES ASSUME NEW q \in Requests, NEW p \in People, req'[q].who = {p}, req'[q].pc # "create"
             PROVE  HasRow(p)'
  BY DEF HasRow
<1>1. HasRow(p) => HasRow(p)'
  BY RowsKept
<1>2. CASE req'[q] = req[q]
  BY <1>1, <1>2 DEF RowOrEvent, HasRow
<1>3. ASSUME NEW r \in Requests, RequestStep(r) PROVE HasRow(p)'
  <2>1. PICK from \in ReqPcs \ {"idle"}, to \in ReqPcs \ {"create"} : Req(r, from, to)
    BY <1>3, RequestMoves
  <2>2. CASE q # r
    BY <1>2, <2>1, <2>2, ReqEffect
  <2>3. CASE q = r
    <3>1. req[r].who = {p} /\ req[r].pc = from
      <4>1. \/ req'[r] = NoRequest
            \/ req'[r].who = req[r].who
        BY <2>1, ReqEffect
      <4> QED
        BY <2>1, <2>3, <4>1, ReqEffect DEF NoRequest
    <3>2. CASE from # "create"
      BY <1>1, <3>1, <3>2 DEF RowOrEvent, HasRow
    <3>3. CASE from = "create"
      <4>1. Provisions(r)
        BY <1>3, <3>1, <3>3 DEF RequestStep, SeesEnrolled, ClaimsFirst, SelfServes,
           LooksForPending, ClaimsPending, Founds, Req
      <4>2. Who(r) = p
        BY <2>1, <3>1, WhoIs
      <4> QED
        BY <4>1, <4>2, CreatesEffect DEF Provisions
    <3> QED
      BY <3>2, <3>3
  <2> QED
    BY <2>2, <2>3
<1>4. ASSUME NEW r \in Requests, RequestFails(r) PROVE HasRow(p)'
  BY <1>2, <1>4, FailEffect DEF NoRequest
<1>5. ASSUME NEW r \in Requests, NEW o \in People, Starts(r, o) PROVE HasRow(p)'
  <2>1. CASE q = r
    BY <1>1, <1>5, <2>1, StartEffect DEF HasRow
  <2>2. CASE q # r
    BY <1>2, <1>5, <2>2, StartEffect
  <2> QED
    BY <2>1, <2>2
<1> QED
  BY <1>2, <1>3, <1>4, <1>5, RequestsStay

LEMMA RowOrEventStep ==
  ASSUME MemberTypes, Addressed, RowOrEvent, [MembershipNext]_membershipVars
  PROVE  RowOrEvent'
BY EventDueStep, SeenRowStep, SeenByRequestStep DEF RowOrEvent

\* A row that waits unmissed, and what has to come for it.
Waits(p) == member[p] = "pending" /\ HasRow(p) /\ p \notin missed
ClaimAhead(p) ==
  /\ hook[p] # "none" /\ own[p] = 0
  /\ \A r \in Requests : req[r].who = {p} => req[r].pc # "found"

LEMMA HookWaits ==
  ASSUME MemberTypes, RowOrEvent, WaitsForEvent, NEW q \in People, HookStep(q) \/ HookFails(q),
         NEW p \in People, Waits(p)'
  PROVE  ClaimAhead(p)'
<1>0. UNCHANGED <<own, req>> /\ own \in [People -> Nat]
  BY DEF HookStep, HookCreates, HookChecks, HookClaims, HookFails, MemberTypes
<1>1. CASE HookCreates(q)
  <2>0. /\ UNCHANGED <<member, missed>> /\ hook'[q] = "check" /\ CreatesUser(q)
        /\ p # q => hook'[p] = hook[p]
    BY <1>1, HookEffect DEF HookCreates
  <2>1. CASE HasRow(p)
    BY <1>0, <2>0, <2>1 DEF Waits, ClaimAhead, WaitsForEvent, HasRow
  <2>2. CASE ~HasRow(p)
    <3>1. p = q
      BY <2>0, <2>2, CreatesEffect DEF Waits, HasRow
    <3>2. own[p] = 0 /\ \A r \in Requests : req[r].who = {p} => req[r].pc # "found"
      BY <1>0, <2>2 DEF RowOrEvent, HasRow
    <3> QED
      BY <1>0, <2>0, <3>1, <3>2 DEF ClaimAhead
  <2> QED
    BY <2>1, <2>2
<1>2. CASE HookChecks(q)
  <2>1. ClaimAhead(p) /\ UNCHANGED <<user, member, missed>>
    BY <1>2 DEF HookChecks, Waits, ClaimAhead, WaitsForEvent, HasRow
  <2>2. CASE p # q
    BY <1>0, <1>2, <2>1, <2>2, HookEffect DEF HookChecks, ClaimAhead
  <2>3. CASE p = q
    <3>1. ~Enrolled(p)
      BY <2>1 DEF Waits, ClaimAhead, Enrolled
    <3>2. Hook(p, "check", "claim")
      BY <1>2, <2>3, <3>1 DEF HookChecks
    <3>3. hook'[p] = "claim"
      BY <3>2, HookEffect
    <3> QED
      BY <1>0, <2>1, <3>3 DEF ClaimAhead
  <2> QED
    BY <2>2, <2>3
<1>3. CASE HookClaims(q)
  <2>1. p # q
    BY <1>3, ClaimsEffect DEF HookClaims, Waits
  <2>2. Waits(p) /\ hook'[p] = hook[p]
    BY <1>3, <2>1, ClaimsEffect, HookEffect DEF HookClaims, Waits, HasRow
  <2> QED
    BY <1>0, <2>2 DEF Waits, ClaimAhead, WaitsForEvent, HasRow
<1>4. CASE HookFails(q)
  <2>1. ClaimAhead(p)
    BY <1>4 DEF HookFails, Waits, ClaimAhead, WaitsForEvent, HasRow
  <2>2. hook'[p] # "none"
    BY <1>4, <2>1 DEF HookFails, ClaimAhead, MemberTypes
  <2> QED
    BY <1>0, <2>1, <2>2 DEF ClaimAhead
<1> QED
  BY <1>1, <1>2, <1>3, <1>4 DEF HookStep

LEMMA RequestWaits ==
  ASSUME MemberTypes, Addressed, RowOrEvent, WaitsForEvent, NEW r \in Requests, RequestStep(r),
         NEW p \in People, Waits(p)'
  PROVE  ClaimAhead(p)'
<1>0. /\ hook' = hook /\ own \in [People -> Nat] /\ Who(r) \in live /\ Who(r) \in People
      /\ req[r].who = {Who(r)} /\ req[r].pc # "idle"
  <2>1. req[r].pc # "idle"
    BY RequestMoves, ReqEffect
  <2> QED
    BY <2>1, RequestTypes, WhoIs DEF MemberTypes
<1>1. PICK from \in ReqPcs \ {"idle"}, to \in ReqPcs \ {"create"} : Req(r, from, to)
  BY RequestMoves
<1>2. \A q \in Requests \ {r} : req'[q] = req[q]
  BY <1>1, ReqEffect
<1>3. ASSUME ClaimAhead(p), own'[p] = own[p], req'[r].pc # "found" PROVE ClaimAhead(p)'
  BY <1>0, <1>2, <1>3 DEF ClaimAhead
<1>4. Waits(p) => ClaimAhead(p)
  BY DEF Waits, ClaimAhead, WaitsForEvent, HasRow
<1>5. CASE Provisions(r)
  <2>0. /\ UNCHANGED <<own, member, missed>> /\ CreatesUser(Who(r)) /\ req'[r].pc # "found"
    BY <1>5, ReqEffect DEF Provisions, ReqPcs
  <2>1. CASE HasRow(p)
    BY <1>3, <1>4, <2>0, <2>1 DEF Waits
  <2>2. CASE ~HasRow(p)
    <3>1. p = Who(r)
      BY <1>0, <2>0, <2>2, CreatesEffect DEF Waits, HasRow
    <3>2. /\ own[p] = 0 /\ hook[p] = "due"
          /\ \A q \in Requests : req[q].who = {p} => req[q].pc # "found"
      BY <1>0, <2>2, <3>1 DEF RowOrEvent, HasRow
    <3> QED
      BY <1>3, <2>0, <3>2 DEF ClaimAhead
  <2> QED
    BY <2>1, <2>2
<1>6. CASE ClaimsFirst(r) \/ ClaimsPending(r)
  <2>1. Claims(Who(r)) /\ UNCHANGED <<own, user>>
    BY <1>6 DEF ClaimsFirst, ClaimsPending
  <2>2. req'[r].pc # "found"
    <3>1. CASE ClaimsFirst(r)
      <4> DEFINE go == After(r)
      <4>1. Req(r, "claim", go) /\ go \in {"existing", "idle"}
        BY <3>1, AfterType DEF ClaimsFirst
      <4> HIDE DEF go
      <4>2. go \in ReqPcs
        BY <4>1 DEF ReqPcs
      <4>3. req'[r] = NoRequest \/ req'[r].pc = go
        BY <4>1, <4>2, ReqEffect
      <4> QED
        BY <4>1, <4>3 DEF NoRequest
    <3>2. CASE ClaimsPending(r)
      BY <3>2, ReqEffect DEF ClaimsPending, ReqPcs, NoRequest
    <3> QED
      BY <1>6, <3>1, <3>2
  <2>3. p # Who(r)
    BY <1>0, <2>1, ClaimsEffect DEF Waits
  <2>4. Waits(p)
    BY <1>0, <2>1, <2>3, ClaimsEffect DEF Waits, HasRow
  <2> QED
    BY <1>3, <1>4, <2>1, <2>2, <2>4
<1>7. CASE SeesEnrolled(r) \/ SelfServes(r)
  <2>1. UNCHANGED <<own, user, member, missed>>
    BY <1>7 DEF SeesEnrolled, SelfServes
  <2>2. req[r].pc \in {"check", "existing"}
    BY <1>7 DEF SeesEnrolled, SelfServes, Req
  <2>3. req'[r].pc # "found"
    <3>1. PICK from1 \in ReqPcs \ {"idle"}, to1 \in ReqPcs \ {"create"} :
            /\ Req(r, from1, to1)
            /\ to1 \in {"claimOwn", "found"} => from1 = "pending"
      BY RequestMoves
    <3> QED
      BY <2>2, <3>1, ReqEffect DEF NoRequest
  <2> QED
    BY <1>3, <1>4, <2>1, <2>3 DEF Waits, HasRow
<1>8. CASE LooksForPending(r)
  <2>1. UNCHANGED <<own, user, member, missed>>
    BY <1>8 DEF LooksForPending
  <2>2. ClaimAhead(p)
    BY <1>4, <2>1 DEF Waits, HasRow
  <2>3. CASE p # Who(r)
    <3>1. req'[r].who # {p}
      BY <1>0, <1>1, <2>3, ReqEffect DEF NoRequest
    <3> QED
      BY <1>0, <1>2, <2>1, <2>2, <3>1 DEF ClaimAhead
  <2>4. CASE p = Who(r)
    <3>1. Req(r, "pending", "claimOwn")
      BY <1>8, <2>1, <2>4 DEF LooksForPending, Waits
    <3>2. req'[r].pc # "found"
      BY <3>1, ReqEffect DEF ReqPcs
    <3> QED
      BY <1>3, <2>1, <2>2, <3>2
  <2> QED
    BY <2>3, <2>4
<1>9. CASE Founds(r)
  <2>1. UNCHANGED <<user, member, missed>>
    BY <1>9 DEF Founds
  <2>2. ClaimAhead(p)
    BY <1>4, <2>1 DEF Waits, HasRow
  <2>3. req[r].pc = "found" /\ req'[r] = NoRequest
    BY <1>9, ReqEffect DEF Founds, ReqPcs
  <2>4. p # Who(r)
    BY <1>0, <2>2, <2>3 DEF ClaimAhead
  <2>5. own'[p] = own[p]
    BY <1>0, <1>9, <2>4 DEF Founds
  <2> QED
    BY <1>3, <2>2, <2>3, <2>5 DEF NoRequest
<1> QED
  BY <1>5, <1>6, <1>7, <1>8, <1>9 DEF RequestStep

LEMMA WaitsStep ==
  ASSUME MemberTypes, Addressed, RowOrEvent, WaitsForEvent, [MembershipNext]_membershipVars
  PROVE  WaitsForEvent'
<1> SUFFICES ASSUME NEW p \in People, Waits(p)' PROVE ClaimAhead(p)'
  BY DEF WaitsForEvent, Waits, ClaimAhead, HasRow
<1>0. Waits(p) => ClaimAhead(p)
  BY DEF Waits, ClaimAhead, WaitsForEvent, HasRow
<1>1. ASSUME NEW q \in People, HookStep(q) \/ HookFails(q) PROVE ClaimAhead(p)'
  BY <1>1, HookWaits
<1>2. ASSUME NEW r \in Requests, RequestStep(r) PROVE ClaimAhead(p)'
  BY <1>2, RequestWaits
<1>3. ASSUME NEW q \in People, SignsUp(q) PROVE ClaimAhead(p)'
  <2>1. Waits(p) /\ UNCHANGED <<own, req>> /\ hook' = [hook EXCEPT ![q] = "due"]
    BY <1>3 DEF SignsUp, Waits, HasRow
  <2> QED
    BY <1>0, <2>1 DEF ClaimAhead, MemberTypes
<1>4. ASSUME NEW q \in People, DeletesAccount(q) PROVE ClaimAhead(p)'
  <2>1. UNCHANGED <<own, req, hook, member, missed>>
        /\ user' = [user EXCEPT ![q] = IF @ = "none" THEN @ ELSE "other"]
    BY <1>4 DEF DeletesAccount
  <2>2. Waits(p)
    BY <2>1 DEF Waits, HasRow, MemberTypes
  <2> QED
    BY <1>0, <2>1, <2>2 DEF ClaimAhead
<1>5. ASSUME NEW q \in People, DeletesMember(q) PROVE ClaimAhead(p)'
  <2>1. UNCHANGED <<own, req, hook, user>> /\ member' = [member EXCEPT ![q] = "none"]
        /\ missed' = missed \ {q}
    BY <1>5 DEF DeletesMember
  <2>2. p # q
    BY <2>1 DEF Waits, MemberTypes
  <2>3. Waits(p)
    BY <2>1, <2>2 DEF Waits, HasRow, MemberTypes
  <2> QED
    BY <1>0, <2>1, <2>3 DEF ClaimAhead
<1>6. ASSUME NEW a \in Adds, InsertsMember(a) PROVE ClaimAhead(p)'
  <2>1. PICK o \in People : o = Email(a) /\ add[a].pc = "insert"
    BY <1>6, EmailIs DEF InsertsMember
  <2>2. /\ UNCHANGED <<own, req, hook, user>>
        /\ member' = [member EXCEPT ![o] = IF member[o] # "none" THEN @
                                           ELSE IF add[a].user THEN "linked" ELSE "pending"]
        /\ missed' = IF member[o] = "none" /\ ~add[a].user /\ user[o] # "none"
                     THEN missed \cup {o} ELSE missed
    BY <1>6, <2>1 DEF InsertsMember
  <2>3. Waits(p)
    <3>1. CASE p # o
      BY <2>2, <3>1 DEF Waits, HasRow, MemberTypes
    <3>2. CASE p = o /\ member[o] # "none"
      BY <2>2, <3>2 DEF Waits, HasRow, MemberTypes
    <3>3. CASE p = o /\ member[o] = "none"
      <4>1. ~add[a].user /\ user[o] # "none"
        BY <2>2, <3>3 DEF Waits, HasRow, MemberTypes
      <4> QED
        BY <2>2, <3>3, <4>1 DEF Waits
    <3> QED
      BY <3>1, <3>2, <3>3
  <2> QED
    BY <1>0, <2>2, <2>3 DEF ClaimAhead
<1>7. ASSUME NEW r \in Requests, RequestFails(r) PROVE ClaimAhead(p)'
  <2>1. Waits(p) /\ UNCHANGED <<own, hook>>
    BY <1>7, FailEffect DEF Waits, HasRow
  <2> QED
    BY <1>0, <1>7, <2>1, FailEffect DEF ClaimAhead, NoRequest
<1>8. ASSUME NEW r \in Requests, NEW o \in People, Starts(r, o) PROVE ClaimAhead(p)'
  <2>1. Waits(p) /\ UNCHANGED <<own, hook>>
    BY <1>8 DEF Starts, Waits, HasRow
  <2> QED
    BY <1>0, <1>8, <2>1, StartEffect DEF ClaimAhead
<1>9. CASE UNCHANGED <<user, member, own, hook, req, missed>>
  BY <1>0, <1>9 DEF Waits, ClaimAhead, HasRow
<1> QED
  BY <1>1, <1>2, <1>3, <1>4, <1>5, <1>6, <1>7, <1>8, <1>9 DEF MembershipNext, membershipVars,
     Counts, Imports, LooksUp

-----------------------------------------------------------------------------
(* The theorems.                                                           *)

LEMMA MemberInvInit == MembershipInit => MemberInv
<1> SUFFICES ASSUME MembershipInit PROVE MemberInv
  OBVIOUS
<1>1. MemberTypes
  BY MemberTypeInit
<1>2. /\ \A r \in Requests : req[r].pc = "idle" /\ req[r].who = {}
      /\ \A a \in Adds : add[a].pc = "idle"
      /\ \A p \in People : /\ user[p] = "none" /\ member[p] = "none" /\ own[p] = 0
                          /\ hook[p] = "none"
      /\ live = {}
  BY DEF MembershipInit, NoAdd, NoRequest
<1>5. Addressed /\ PagesOnly /\ SeatIsFree
  BY <1>2 DEF Addressed, PagesOnly, SeatIsFree
<1>6. RowOrEvent
  BY <1>2 DEF RowOrEvent
<1>7. WaitsForEvent
  BY <1>2 DEF WaitsForEvent
<1>3. RoomToFound
  <2> SUFFICES ASSUME NEW p \in People
               PROVE  own[p] + Cardinality(Founding(p)) <= Cardinality(Pages)
    BY DEF RoomToFound
  <2>1. own[p] = 0
    BY DEF MembershipInit
  <2> QED
    BY <2>1, FoundingFinite
<1>4. OverrunIsAccountedFor
  <2>1. Rows \ uncounted = {}
    BY DEF MembershipInit, Rows
  <2>2. Cardinality({}) = 0
    BY FS_EmptySet
  <2> QED
    BY <2>1, <2>2, MembershipAssumption DEF OverrunIsAccountedFor
<1> QED
  BY <1>1, <1>3, <1>4, <1>5, <1>6, <1>7 DEF MemberInv

LEMMA MemberInvStep == MemberInv /\ [MembershipNext]_membershipVars => MemberInv'
BY MemberTypeStep, AddressedStep, PagesStep, RoomStep, SeatsStep, RowOrEventStep, WaitsStep
   DEF MemberInv

\* The tables, the webhooks and the requests keep their types, and every request is of one
\* person who is there.
THEOREM MembershipInv == MembershipSpec => []MemberInv
BY MemberInvInit, MemberInvStep, PTL DEF MembershipSpec

\* However many pages ask at once, and whatever else creates or claims rows, nobody gets more
\* organisations than pages that asked (me/service.ts:21-33).
THEOREM OrganisationsBounded == MembershipSpec => []OneOrganisationPerPage
<1>1. MemberInv => OneOrganisationPerPage
  <2> SUFFICES ASSUME MemberInv, NEW p \in People PROVE own[p] <= Cardinality(Pages)
    BY DEF OneOrganisationPerPage
  <2>1. own[p] \in Nat /\ own[p] + Cardinality(Founding(p)) <= Cardinality(Pages)
    BY DEF MemberInv, MemberTypes, RoomToFound
  <2> QED
    BY <2>1, FoundingFinite
<1> QED
  BY <1>1, MembershipInv, PTL

\* Rows beyond the plan's seats are imported ones, or of adds in whose course another one
\* inserted, for any number of adds side by side (members/service.ts:72-98).
THEOREM OverrunExplained == MembershipSpec => []OverrunIsAccountedFor
<1>1. MemberInv => OverrunIsAccountedFor
  BY DEF MemberInv
<1> QED
  BY <1>1, MembershipInv, PTL

\* A row waits for somebody who has a user row only when the two crossed, or while the
\* account's event has still to be handled (members/service.ts:89-97,
\* webhooks/clerk.ts:53-72).
THEOREM WaitingExplained == MembershipSpec => []WaitingIsAccountedFor
<1>1. MemberInv => WaitingIsAccountedFor
  BY DEF MemberInv, WaitsForEvent, WaitingIsAccountedFor
<1> QED
  BY <1>1, MembershipInv, PTL
=============================================================================
