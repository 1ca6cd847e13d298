--------------------------- MODULE SendPathProofs ---------------------------
(***************************************************************************)
(* Proofs about SendPath and GuardedPage, for any number of requests and   *)
(* presses and any texts, policies and matches: the types of the page,     *)
(* that a flagged request is released only by its own user's wave, that a  *)
(* held request waits for it, that an approval lets one request through,   *)
(* that the engine's verdict is the strongest action it found, and that    *)
(* the page implements PromptGate.                                         *)
(*                                                                         *)
(* The argument.  The interceptor asks about a request once, so its        *)
(* listener in the bridge starts once and goes through its states without  *)
(* coming back; what a message on its way to the interceptor says is       *)
(* therefore still so when it arrives.  The engine's loops are followed    *)
(* turn by turn: after n findings the merge has kept of each span the      *)
(* finding that beats the others there (Kept).                             *)
(***************************************************************************)
EXTENDS GuardedPage, FiniteSetTheorems, WellFoundedInduction, TLAPS

NotAsked == Kinds \cup {"unused", "reading"}
PCs == NotAsked \cup {"asked", "held", "sent", "aborted"}
Vias == {"none", "approval", "unseen", "timeout", "decision"}
\* A modal is coming, is there, or was answered.
Bridged == {"prepare", "modal", "refused", "waved", "wavedDone", "refusedDone"}
\* The bridge has said that the request may go.
Released == {"failed", "clean", "wavedDone"}
BridgeStates == {"none", "detect", "failed", "clean"} \cup Bridged
IntentStates == {"idle", "detect", "log", "prepare", "modal", "settle", "redacted", "anyway"}
AnyText == Texts \cup {NoText}
Reqs == [pc : PCs, text : AnyText, via : Vias]
Unlocks == [type : {"unlock"}, id : {Nobody}, proceed : BOOLEAN]
Asks == [type : {"intercept", "pending", "decision"}, id : Requests, proceed : BOOLEAN]
Messages == Unlocks \cup Asks

PageTypes ==
  /\ approved \in BOOLEAN
  /\ composer \in AnyText
  /\ wire \in Seq(Messages)
  /\ req \in [Requests -> Reqs]
  /\ bridge \in [Requests -> BridgeStates]
  /\ modal \in Requests \cup {Nobody, Intent}

IntentTypes ==
  /\ intent \in [pc : IntentStates, text : AnyText]
  /\ presses \in 0..MaxIntents
  /\ granted \in 0..MaxIntents
  /\ intent.pc = "idle" => intent = Idle /\ granted <= presses
  /\ intent.pc # "idle" => intent.text \in Texts /\ granted < presses
  /\ modal = Intent => intent.pc = "modal"

\* How far the listener of a request is, and what that says of the request.
Stage(r) ==
  /\ bridge[r] # "none" => req[r].pc \notin NotAsked
  /\ bridge[r] \in Bridged => Flagged(req[r].text)
  /\ bridge[r] = "clean" => ~Flagged(req[r].text)
  /\ bridge[r] \in {"waved", "wavedDone"} => Verdict[req[r].text] # "block"
  /\ req[r].pc = "held" => bridge[r] \in Bridged
  /\ req[r].via = "decision" => bridge[r] \in Released
  /\ modal = r => bridge[r] = "modal"

BridgeInv == \A r \in Requests : Stage(r)

\* What a message says is so; a request is asked about once.
MessageTrue(m) ==
  /\ m.type = "intercept" => bridge[m.id] = "none" /\ req[m.id].pc \notin NotAsked
  /\ m.type = "pending" => bridge[m.id] \in Bridged
  /\ m.type = "decision" /\ m.proceed => bridge[m.id] \in Released

Once == \A i, j \in DOMAIN wire :
  wire[i].type = "intercept" /\ wire[j].type = "intercept" /\ wire[i].id = wire[j].id => i = j

WireInv == Once /\ \A i \in DOMAIN wire : MessageTrue(wire[i])

PathInv == PageTypes /\ BridgeInv /\ WireInv

SendInv == PathInv /\ IntentTypes

-----------------------------------------------------------------------------
(* Sequences and records.                                                  *)

LEMMA Appending ==
  ASSUME NEW S, NEW s \in Seq(S), NEW e \in S
  PROVE  /\ Append(s, e) \in Seq(S)
         /\ \A i \in DOMAIN s : i \in DOMAIN Append(s, e) /\ Append(s, e)[i] = s[i] /\ i # Len(s) + 1
         /\ Append(s, e)[Len(s) + 1] = e
         /\ \A i \in DOMAIN Append(s, e) : i \in DOMAIN s \/ i = Len(s) + 1
OBVIOUS

LEMMA TakingHead ==
  ASSUME NEW S, NEW s \in Seq(S), s # <<>>
  PROVE  /\ Tail(s) \in Seq(S) /\ Head(s) \in S
         /\ 1 \in DOMAIN s /\ Head(s) = s[1]
         /\ \A i \in DOMAIN Tail(s) : i \in Nat /\ i >= 1 /\ i + 1 \in DOMAIN s /\ Tail(s)[i] = s[i + 1]
OBVIOUS

LEMMA Distinct ==
  /\ Nobody \notin Requests /\ Intent \notin Requests /\ Intent # Nobody
  /\ \A r \in Requests : r # Nobody /\ r # Intent
BY SendAssumption DEF Nobody, Requests, Intent

\* One request's record.
LEMMA OneReq ==
  ASSUME req \in [Requests -> Reqs], NEW r \in Requests
  PROVE  /\ req[r] \in Reqs
         /\ req[r].pc \in PCs /\ req[r].text \in AnyText /\ req[r].via \in Vias
<1>1. req[r] \in Reqs
  OBVIOUS
<1> QED
  BY <1>1 DEF Reqs

LEMMA NewPc ==
  ASSUME req \in [Requests -> Reqs], NEW r \in Requests, NEW p \in PCs,
         req' = [req EXCEPT ![r].pc = p]
  PROVE  /\ req' \in [Requests -> Reqs]
         /\ req'[r].pc = p /\ req'[r].text = req[r].text /\ req'[r].via = req[r].via
         /\ \A q \in Requests \ {r} : req'[q] = req[q]
<1>1. [req[r] EXCEPT !.pc = p] \in Reqs
  BY OneReq DEF Reqs
<1>2. req'[r] = [req[r] EXCEPT !.pc = p]
  OBVIOUS
<1>3. req[r] \in Reqs
  OBVIOUS
<1>4. req'[r].pc = p /\ req'[r].text = req[r].text /\ req'[r].via = req[r].via
  BY <1>2, <1>3 DEF Reqs
<1> QED
  BY <1>1, <1>2, <1>4

LEMMA NewVia ==
  ASSUME req \in [Requests -> Reqs], NEW r \in Requests, NEW p \in PCs, NEW v \in Vias,
         req' = [req EXCEPT ![r].pc = p, ![r].via = v]
  PROVE  /\ req' \in [Requests -> Reqs]
         /\ req'[r].pc = p /\ req'[r].text = req[r].text /\ req'[r].via = v
         /\ \A q \in Requests \ {r} : req'[q] = req[q]
<1>1. [req[r] EXCEPT !.pc = p, !.via = v] \in Reqs
  BY OneReq DEF Reqs
<1>2. req'[r] = [req[r] EXCEPT !.pc = p, !.via = v]
  OBVIOUS
<1>3. req[r] \in Reqs
  OBVIOUS
<1>4. req'[r].pc = p /\ req'[r].text = req[r].text /\ req'[r].via = v
  BY <1>2, <1>3 DEF Reqs
<1> QED
  BY <1>1, <1>2, <1>4

\* A message that was posted.
LEMMA Posted ==
  ASSUME wire \in Seq(Messages), NEW m \in Messages, Post(m)
  PROVE  /\ wire' \in Seq(Messages)
         /\ \A i \in DOMAIN wire : i \in DOMAIN wire' /\ wire'[i] = wire[i] /\ i # Len(wire) + 1
         /\ wire'[Len(wire) + 1] = m
         /\ \A i \in DOMAIN wire' : i \in DOMAIN wire \/ i = Len(wire) + 1
BY Appending DEF Post

LEMMA AskIsMessage ==
  ASSUME NEW ty \in {"intercept", "pending", "decision"}, NEW r \in Requests, NEW b \in BOOLEAN
  PROVE  [type |-> ty, id |-> r, proceed |-> b] \in Messages
BY DEF Messages, Asks

LEMMA UnlockIsMessage == [type |-> "unlock", id |-> Nobody, proceed |-> TRUE] \in Messages
BY DEF Messages, Unlocks

-----------------------------------------------------------------------------
(* A step concerns one request r: what the messages and the other requests *)
(* need of it.                                                             *)

Concerns(r) ==
  /\ \A q \in Requests \ {r} : req'[q] = req[q] /\ bridge'[q] = bridge[q]
  /\ modal' \in {modal, r, Nobody, Intent}
  /\ bridge[r] \in Bridged => bridge'[r] \in Bridged
  /\ bridge[r] \in Released => bridge'[r] \in Released
  /\ req[r].pc \notin NotAsked => req'[r].pc \notin NotAsked

LEMMA OthersStay ==
  ASSUME BridgeInv, NEW r \in Requests, Concerns(r), Stage(r)'
  PROVE  BridgeInv'
<1> SUFFICES ASSUME NEW q \in Requests, q # r PROVE Stage(q)'
  BY DEF BridgeInv
<1>1. req'[q] = req[q] /\ bridge'[q] = bridge[q] /\ (modal' = q => modal = q)
  BY Distinct DEF Concerns
<1>2. Stage(q)
  BY DEF BridgeInv
<1> QED
  BY <1>1, <1>2 DEF Stage

LEMMA MessageStays ==
  ASSUME NEW m \in Messages, MessageTrue(m), NEW r \in Requests, Concerns(r),
         m.type = "intercept" /\ m.id = r => bridge'[r] = bridge[r]
  PROVE  MessageTrue(m)'
<1>1. CASE m \in Unlocks
  BY <1>1 DEF Unlocks, MessageTrue
<1>2. CASE m \in Asks
  <2>1. m.id \in Requests
    BY <1>2 DEF Asks
  <2> QED
    BY <2>1 DEF MessageTrue, Concerns
<1> QED
  BY <1>1, <1>2 DEF Messages

\* Nothing is posted: what is on its way is what was, from the place after k on.
LEMMA WireShifts ==
  ASSUME wire \in Seq(Messages), WireInv, NEW r \in Requests, Concerns(r), NEW k \in {0, 1},
         \A i \in DOMAIN wire' : i \in Nat /\ i + k \in DOMAIN wire /\ wire'[i] = wire[i + k],
         bridge'[r] = bridge[r] \/
           \A i \in DOMAIN wire' : ~(wire'[i].type = "intercept" /\ wire'[i].id = r)
  PROVE  WireInv'
<1>1. ASSUME NEW i \in DOMAIN wire' PROVE MessageTrue(wire[i])'
  <2>1. wire'[i] \in Messages /\ MessageTrue(wire'[i])
    BY DEF WireInv
  <2> QED
    BY <2>1, MessageStays DEF MessageTrue
<1>2. Once'
  <2> SUFFICES ASSUME NEW i \in DOMAIN wire', NEW j \in DOMAIN wire',
                      wire'[i].type = "intercept", wire'[j].type = "intercept",
                      wire'[i].id = wire'[j].id
               PROVE  i = j
    BY DEF Once
  <2>1. i + k = j + k
    BY DEF WireInv, Once
  <2> QED
    BY <2>1
<1> QED
  BY <1>1, <1>2 DEF WireInv

\* A message that is not an intercept is posted, and is true.
LEMMA WireGrows ==
  ASSUME wire \in Seq(Messages), WireInv, NEW r \in Requests, Concerns(r),
         NEW m \in Messages, Post(m), m.type # "intercept", MessageTrue(m)',
         bridge'[r] = bridge[r] \/
           \A i \in DOMAIN wire : ~(wire[i].type = "intercept" /\ wire[i].id = r)
  PROVE  WireInv'
<1>2. \A i \in DOMAIN wire' : (i \in DOMAIN wire /\ wire'[i] = wire[i]) \/ wire'[i] = m
  BY Posted
<1>3. Once'
  BY <1>2 DEF WireInv, Once
<1>4. ASSUME NEW i \in DOMAIN wire' PROVE MessageTrue(wire[i])'
  <2>1. CASE wire'[i] = m
    BY <2>1 DEF MessageTrue
  <2>2. CASE i \in DOMAIN wire /\ wire'[i] = wire[i]
    <3>1. wire'[i] \in Messages /\ MessageTrue(wire'[i])
      BY <2>2 DEF WireInv
    <3>2. wire'[i].type = "intercept" /\ wire'[i].id = r => bridge'[r] = bridge[r]
      BY <2>2
    <3> QED
      BY <3>1, <3>2, MessageStays DEF MessageTrue
  <2> QED
    BY <1>2, <2>1, <2>2
<1> QED
  BY <1>3, <1>4 DEF WireInv

-----------------------------------------------------------------------------
(* The steps, by what they change of the requests, the bridge and the wire *)

\* The composer, the approval, a press and its own modal.
LEMMA StepAside ==
  ASSUME PathInv, UNCHANGED <<wire, req, bridge>>, approved' \in BOOLEAN,
         composer' \in AnyText, modal' \in {modal, Nobody, Intent}
  PROVE  PathInv'
<1>1. PageTypes'
  BY DEF PathInv, PageTypes
<1>2. BridgeInv'
  BY Distinct DEF PathInv, BridgeInv, Stage
<1>3. WireInv'
  BY DEF PathInv, WireInv, Once, MessageTrue
<1> QED
  BY <1>1, <1>2, <1>3 DEF PathInv

\* The site calls fetch; an approval may be posted in the same step.
LEMMA QueueConcerns ==
  ASSUME PathInv, NEW r \in Requests, NEW t \in AnyText, NEW k \in Kinds, Queue(r, t, k),
         bridge' = bridge, modal' = modal
  PROVE  req' \in [Requests -> Reqs] /\ Concerns(r) /\ Stage(r)'
<1> DEFINE new == [pc |-> k, text |-> t, via |-> "none"]
<1>1. new \in Reqs /\ new.pc = k /\ new.via = "none" /\ k \in NotAsked /\ k # "held"
  BY DEF Reqs, PCs, NotAsked, Kinds, Vias
<1>2. req' = [req EXCEPT ![r] = new] /\ req[r] = Unused
  BY DEF Queue
<1> HIDE DEF new
<1>3. req' \in [Requests -> Reqs] /\ req'[r] = new /\ \A q \in Requests \ {r} : req'[q] = req[q]
  BY <1>1, <1>2 DEF PathInv, PageTypes
<1>4. req[r].pc \in NotAsked
  BY <1>2 DEF Unused, NotAsked
<1>5. bridge[r] = "none" /\ modal # r
  BY <1>4 DEF PathInv, BridgeInv, Stage
<1>6. Concerns(r)
  BY <1>3, <1>4 DEF Concerns
<1>7. Stage(r)'
  BY <1>1, <1>3, <1>5 DEF Stage, Bridged
<1> QED
  BY <1>3, <1>6, <1>7

LEMMA StepQueues ==
  ASSUME PathInv, NEW r \in Requests, NEW t \in AnyText, NEW k \in Kinds, Queue(r, t, k),
         bridge' = bridge, modal' = modal, approved' = approved, composer' \in AnyText,
         wire' = wire \/ Post([type |-> "unlock", id |-> Nobody, proceed |-> TRUE])
  PROVE  PathInv'
<1> DEFINE m == [type |-> "unlock", id |-> Nobody, proceed |-> TRUE]
<1>1. req' \in [Requests -> Reqs] /\ Concerns(r) /\ Stage(r)'
  BY QueueConcerns
<1>2. m \in Messages /\ m.type = "unlock"
  BY UnlockIsMessage
<1> HIDE DEF m
<1>3. BridgeInv'
  BY <1>1, OthersStay DEF PathInv
<1>4. CASE wire' = wire
  <2>1. \A i \in DOMAIN wire' : i \in Nat /\ i + 0 \in DOMAIN wire /\ wire'[i] = wire[i + 0]
    BY <1>4 DEF PathInv, PageTypes
  <2>2. WireInv'
    BY <1>1, <2>1, WireShifts DEF PathInv, PageTypes
  <2> QED
    BY <1>1, <1>3, <1>4, <2>2 DEF PathInv, PageTypes
<1>5. CASE Post(m)
  <2>1. wire' \in Seq(Messages)
    BY <1>2, <1>5, Posted DEF PathInv, PageTypes
  <2>2. MessageTrue(m)'
    BY <1>2 DEF MessageTrue
  <2>3. WireInv'
    BY <1>1, <1>2, <1>5, <2>2, WireGrows DEF PathInv, PageTypes
  <2> QED
    BY <1>1, <1>3, <2>1, <2>3 DEF PathInv, PageTypes
<1> QED
  BY <1>4, <1>5 DEF m

\* A proceed without a request: the approval alone is posted.
LEMMA StepUnlocks ==
  ASSUME PathInv, UNCHANGED <<req, bridge, modal, approved>>, composer' \in AnyText,
         Post([type |-> "unlock", id |-> Nobody, proceed |-> TRUE])
  PROVE  PathInv'
<1> DEFINE m == [type |-> "unlock", id |-> Nobody, proceed |-> TRUE]
<1>1. m \in Messages /\ m.type = "unlock"
  BY UnlockIsMessage
<1>2. Post(m)
  OBVIOUS
<1> HIDE DEF m
<1>3. /\ wire' \in Seq(Messages)
      /\ \A i \in DOMAIN wire' : (i \in DOMAIN wire /\ wire'[i] = wire[i]) \/ wire'[i] = m
  BY <1>1, <1>2, Posted DEF PathInv, PageTypes
<1>4. Once'
  BY <1>1, <1>3 DEF PathInv, WireInv, Once
<1>5. ASSUME NEW i \in DOMAIN wire' PROVE MessageTrue(wire[i])'
  BY <1>1, <1>3 DEF PathInv, WireInv, MessageTrue
<1>6. BridgeInv'
  BY DEF PathInv, BridgeInv, Stage
<1> QED
  BY <1>3, <1>4, <1>5, <1>6 DEF PathInv, PageTypes, WireInv

\* A request is let go, refused or kept waiting by the interceptor.
LEMMA StepWaits ==
  ASSUME PathInv, NEW r \in Requests, UNCHANGED <<bridge, modal, composer>>,
         approved' \in BOOLEAN, req' \in [Requests -> Reqs],
         \A q \in Requests \ {r} : req'[q] = req[q],
         req'[r].text = req[r].text, req'[r].pc \notin NotAsked \/ req'[r] = req[r],
         req'[r].pc = "held" => bridge[r] \in Bridged,
         req'[r].via = "decision" => bridge[r] \in Released,
         NEW k \in {0, 1}, wire' \in Seq(Messages),
         \A i \in DOMAIN wire' : i \in Nat /\ i + k \in DOMAIN wire /\ wire'[i] = wire[i + k]
  PROVE  PathInv'
<1>1. Concerns(r)
  BY DEF Concerns
<1>2. Stage(r)'
  BY DEF PathInv, BridgeInv, Stage
<1>3. BridgeInv'
  BY <1>1, <1>2, OthersStay DEF PathInv
<1>4. WireInv'
  BY <1>1, WireShifts DEF PathInv, PageTypes
<1> QED
  BY <1>3, <1>4 DEF PathInv, PageTypes

\* A request is asked about, for the first and only time.
LEMMA StepAsks ==
  ASSUME PathInv, NEW r \in Requests, req[r].pc \in NotAsked, Ask(r),
         UNCHANGED <<bridge, modal, composer, approved>>
  PROVE  PathInv'
<1> DEFINE m == [type |-> "intercept", id |-> r, proceed |-> FALSE]
<1>1. m \in Messages /\ m.type = "intercept" /\ m.id = r
  BY AskIsMessage
<1>2. Post(m) /\ req' = [req EXCEPT ![r].pc = "asked"]
  BY DEF Ask
<1> HIDE DEF m
<1>3. /\ req' \in [Requests -> Reqs]
      /\ req'[r].pc = "asked" /\ req'[r].text = req[r].text /\ req'[r].via = req[r].via
      /\ \A q \in Requests \ {r} : req'[q] = req[q]
  BY <1>2, NewPc DEF PathInv, PageTypes, PCs
<1>4. bridge[r] = "none"
  BY DEF PathInv, BridgeInv, Stage
<1>5. "asked" \notin NotAsked
  BY DEF NotAsked, Kinds
<1>6. Concerns(r)
  BY <1>3, <1>5 DEF Concerns
<1>7. Stage(r)'
  BY <1>3, <1>4, <1>5 DEF PathInv, BridgeInv, Stage, Bridged
<1>8. BridgeInv'
  BY <1>6, <1>7, OthersStay DEF PathInv
<1>9. /\ wire' \in Seq(Messages)
      /\ \A i \in DOMAIN wire : i \in DOMAIN wire' /\ wire'[i] = wire[i]
      /\ \A i \in DOMAIN wire' : i \in DOMAIN wire \/ i = Len(wire) + 1
      /\ wire'[Len(wire) + 1] = m
  BY <1>1, <1>2, Posted DEF PathInv, PageTypes
<1>10. \A i \in DOMAIN wire : ~(wire[i].type = "intercept" /\ wire[i].id = r)
  BY DEF PathInv, WireInv, MessageTrue
<1>11. Once'
  BY <1>1, <1>9, <1>10 DEF PathInv, WireInv, Once
<1>12. ASSUME NEW i \in DOMAIN wire' PROVE MessageTrue(wire[i])'
  <2>1. CASE i \in DOMAIN wire
    <3>1. wire[i] \in Messages /\ MessageTrue(wire[i]) /\ wire'[i] = wire[i]
      BY <1>9, <2>1 DEF PathInv, PageTypes, WireInv
    <3> QED
      BY <1>6, <2>1, <3>1, MessageStays DEF MessageTrue
  <2>2. CASE i = Len(wire) + 1
    BY <1>1, <1>3, <1>4, <1>5, <1>9, <2>2 DEF MessageTrue
  <2> QED
    BY <1>9, <2>1, <2>2
<1> QED
  BY <1>3, <1>8, <1>9, <1>11, <1>12 DEF PathInv, PageTypes, WireInv

\* The listener of a request goes on; it tells the interceptor, or not.
LEMMA StepBridges ==
  ASSUME PathInv, NEW r \in Requests, NEW b \in BridgeStates, UNCHANGED <<req, composer, approved>>,
         bridge' = [bridge EXCEPT ![r] = b], modal' \in {modal, r, Nobody, Intent},
         bridge[r] \notin Released, bridge[r] # "none", Stage(r)',
         bridge[r] \in Bridged => b \in Bridged,
         \/ wire' = wire
         \/ \E m \in Messages : m.type # "intercept" /\ Post(m) /\ MessageTrue(m)'
  PROVE  PathInv'
<1>1. bridge' \in [Requests -> BridgeStates] /\ bridge'[r] = b
      /\ \A q \in Requests \ {r} : bridge'[q] = bridge[q]
  BY DEF PathInv, PageTypes
<1>2. Concerns(r)
  BY <1>1 DEF Concerns
<1>3. BridgeInv'
  BY <1>2, OthersStay DEF PathInv
<1>4. \A i \in DOMAIN wire : ~(wire[i].type = "intercept" /\ wire[i].id = r)
  BY DEF PathInv, WireInv, MessageTrue
<1>5. modal' \in Requests \cup {Nobody, Intent}
  BY DEF PathInv, PageTypes
<1>6. CASE wire' = wire
  <2>1. \A i \in DOMAIN wire' : i \in Nat /\ i + 0 \in DOMAIN wire /\ wire'[i] = wire[i + 0]
    BY <1>6 DEF PathInv, PageTypes
  <2>2. \A i \in DOMAIN wire' : ~(wire'[i].type = "intercept" /\ wire'[i].id = r)
    BY <1>4, <1>6
  <2>3. WireInv'
    BY <1>2, <2>1, <2>2, WireShifts DEF PathInv, PageTypes
  <2> QED
    BY <1>1, <1>3, <1>5, <1>6, <2>3 DEF PathInv, PageTypes
<1>7. ASSUME NEW m \in Messages, m.type # "intercept", Post(m), MessageTrue(m)'
      PROVE  PathInv'
  <2>1. wire' \in Seq(Messages)
    BY <1>7, Posted DEF PathInv, PageTypes
  <2>2. WireInv'
    BY <1>2, <1>4, <1>7, WireGrows DEF PathInv, PageTypes
  <2> QED
    BY <1>1, <1>3, <1>5, <2>1, <2>2 DEF PathInv, PageTypes
<1> QED
  BY <1>6, <1>7

\* The listener of an intercepted request starts: it is the only one.
LEMMA StepStarts ==
  ASSUME PathInv, wire # <<>>, wire' = Tail(wire), Head(wire).type = "intercept",
         bridge' = [bridge EXCEPT ![Head(wire).id] = "detect"],
         UNCHANGED <<req, composer, approved, modal>>
  PROVE  PathInv'
<1>1. PICK m \in Messages : m = Head(wire)
  BY TakingHead DEF PathInv, PageTypes
<1>2. PICK r \in Requests : r = m.id
  BY <1>1 DEF Messages, Asks, Unlocks
<1>3. /\ wire' \in Seq(Messages) /\ 1 \in DOMAIN wire /\ m = wire[1] /\ m.type = "intercept"
      /\ \A i \in DOMAIN wire' : i \in Nat /\ i >= 1 /\ i + 1 \in DOMAIN wire /\ wire'[i] = wire[i + 1]
  BY <1>1, TakingHead DEF PathInv, PageTypes
<1>4. bridge[r] = "none" /\ req[r].pc \notin NotAsked
  BY <1>2, <1>3 DEF PathInv, WireInv, MessageTrue
<1>5. \A i \in DOMAIN wire' : ~(wire'[i].type = "intercept" /\ wire'[i].id = r)
  <2> SUFFICES ASSUME NEW i \in DOMAIN wire', wire'[i].type = "intercept", wire'[i].id = r
               PROVE  FALSE
    OBVIOUS
  <2>1. i + 1 = 1
    BY <1>2, <1>3 DEF PathInv, WireInv, Once
  <2> QED
    BY <1>3, <2>1
<1>6. /\ bridge' \in [Requests -> BridgeStates] /\ bridge'[r] = "detect"
      /\ \A q \in Requests \ {r} : bridge'[q] = bridge[q]
  BY <1>1, <1>2 DEF PathInv, PageTypes, BridgeStates
<1>7. Concerns(r)
  BY <1>4, <1>6 DEF Concerns, Bridged, Released
<1>8. Stage(r)'
  BY <1>4, <1>6 DEF PathInv, BridgeInv, Stage, Bridged, Released
<1>9. BridgeInv'
  BY <1>7, <1>8, OthersStay DEF PathInv
<1>10. WireInv'
  BY <1>3, <1>5, <1>7, WireShifts DEF PathInv, PageTypes
<1> QED
  BY <1>3, <1>6, <1>9, <1>10 DEF PathInv, PageTypes

-----------------------------------------------------------------------------
(* The actions.                                                            *)

LEMMA EditPath == PathInv /\ Edit => PathInv'
<1> SUFFICES ASSUME PathInv, Edit PROVE PathInv'
  OBVIOUS
<1>1. UNCHANGED <<wire, req, bridge>> /\ approved' \in BOOLEAN /\ composer' \in AnyText
      /\ modal' = modal
  BY DEF Edit, PathInv, PageTypes, AnyText
<1> QED
  BY <1>1, StepAside

LEMMA SitePath == ASSUME PathInv, NEW r \in Requests, SiteSends(r) PROVE PathInv'
<1>1. /\ composer' \in AnyText /\ approved' = approved
      /\ wire' = wire /\ bridge' = bridge /\ modal' = modal
  BY DEF SiteSends, PathInv, PageTypes
<1>2. ASSUME NEW t \in AnyText, NEW k \in Kinds, Queue(r, t, k) PROVE PathInv'
  BY <1>1, <1>2, StepQueues
<1>3. CASE Queue(r, NoText, "other")
  BY <1>2, <1>3 DEF AnyText, Kinds
<1>4. CASE \E t \in Texts, k \in {"prompt", "file"} : Queue(r, t, k)
  BY <1>2, <1>4 DEF AnyText, Kinds
<1> QED
  BY <1>3, <1>4 DEF SiteSends

\* The re-fired click, with or without an approval before it.
LEMMA ClickPath ==
  ASSUME PathInv, Click, UNCHANGED <<bridge, modal, approved>>,
         wire' = wire \/ Post([type |-> "unlock", id |-> Nobody, proceed |-> TRUE])
  PROVE  PathInv'
<1>1. ASSUME NEW r \in Requests, NEW k \in {"prompt", "other"}, Queue(r, composer, k),
             composer' = NoText PROVE PathInv'
  <2>1. k \in Kinds /\ composer \in AnyText /\ composer' \in AnyText
    BY <1>1 DEF Kinds, PathInv, PageTypes, AnyText
  <2> QED
    BY <1>1, <2>1, StepQueues
<1>2. CASE UNCHANGED <<req, composer>>
  <2>1. composer' \in AnyText /\ approved' \in BOOLEAN
    BY <1>2 DEF PathInv, PageTypes
  <2> QED
    BY <1>2, <2>1, StepUnlocks, StepAside
<1> QED
  BY <1>1, <1>2 DEF Click

LEMMA OverridePath == ASSUME PathInv, NEW r \in Requests, FetchOverride(r) PROVE PathInv'
<1> USE DEF PathInv, PageTypes
<1>t. "sent" \in PCs \ NotAsked /\ "reading" \in PCs /\ Kinds \subseteq NotAsked
      /\ {"approval", "unseen"} \subseteq Vias
  BY DEF PCs, NotAsked, Kinds, Vias
<1>s. wire' = wire => /\ wire' \in Seq(Messages)
                      /\ \A i \in DOMAIN wire' : i \in Nat /\ i + 0 \in DOMAIN wire
                                                /\ wire'[i] = wire[i + 0]
  OBVIOUS
<1>1. ASSUME NEW v \in {"approval", "unseen"}, Leave(r, v), wire' = wire, approved' \in BOOLEAN
      PROVE  PathInv'
  <2>1. req' = [req EXCEPT ![r].pc = "sent", ![r].via = v]
    BY <1>1 DEF Leave
  <2>2. /\ req' \in [Requests -> Reqs]
        /\ req'[r].pc = "sent" /\ req'[r].text = req[r].text /\ req'[r].via = v
        /\ \A q \in Requests \ {r} : req'[q] = req[q]
    <3>1. v \in Vias /\ "sent" \in PCs
      BY <1>t
    <3> QED
      BY <2>1, <3>1, NewVia
  <2>3. UNCHANGED <<bridge, modal, composer>>
    BY DEF FetchOverride
  <2>4. /\ wire' \in Seq(Messages)
        /\ \A i \in DOMAIN wire' : i \in Nat /\ i + 0 \in DOMAIN wire
                                  /\ wire'[i] = wire[i + 0]
    BY <1>s, <1>1
  <2>5. v # "decision" /\ req'[r].pc \notin NotAsked /\ req'[r].pc # "held"
    BY <1>t, <2>2
  <2> QED
    BY <1>1, <2>2, <2>3, <2>4, <2>5, StepWaits
<1>2. CASE Ask(r) /\ approved' = approved
  BY <1>t, <1>2, StepAsks DEF FetchOverride
<1>3. CASE req' = [req EXCEPT ![r].pc = "reading"] /\ wire' = wire /\ approved' = approved
  <2>1. /\ req' \in [Requests -> Reqs]
        /\ req'[r].pc = "reading" /\ req'[r].text = req[r].text /\ req'[r].via = req[r].via
        /\ \A q \in Requests \ {r} : req'[q] = req[q]
    BY <1>t, <1>3, NewPc
  <2>2. req[r].pc \in NotAsked
    BY <1>t DEF FetchOverride
  <2>3. Concerns(r)
    BY <1>3, <2>1, <2>2 DEF FetchOverride, Concerns
  <2>4. Stage(r)'
    BY <2>1, <2>2 DEF FetchOverride, BridgeInv, Stage, NotAsked, Bridged
  <2>5. BridgeInv'
    BY <2>3, <2>4, OthersStay
  <2>6. WireInv'
    BY <1>s, <1>3, <2>3, WireShifts DEF FetchOverride
  <2> QED
    BY <1>3, <2>1, <2>5, <2>6 DEF FetchOverride
<1> QED
  BY <1>1, <1>2, <1>3 DEF FetchOverride

LEMMA ReadPath == ASSUME PathInv, NEW r \in Requests, BodyRead(r) \/ Timeout(r) PROVE PathInv'
<1> USE DEF PathInv, PageTypes
<1>t. "sent" \in PCs \ NotAsked /\ {"timeout", "unseen"} \subseteq Vias
  BY DEF PCs, NotAsked, Kinds, Vias
<1>1. ASSUME NEW v \in {"timeout", "unseen"}, Leave(r, v), wire' = wire PROVE PathInv'
  <2>1. req' = [req EXCEPT ![r].pc = "sent", ![r].via = v]
    BY <1>1 DEF Leave
  <2>2. /\ req' \in [Requests -> Reqs]
        /\ req'[r].pc = "sent" /\ req'[r].text = req[r].text /\ req'[r].via = v
        /\ \A q \in Requests \ {r} : req'[q] = req[q]
    BY <1>t, <2>1, NewVia
  <2>3. wire' \in Seq(Messages) /\ \A i \in DOMAIN wire' : i \in Nat /\ i + 0 \in DOMAIN wire
                                                          /\ wire'[i] = wire[i + 0]
    BY <1>1
  <2> QED
    BY <1>t, <1>1, <2>2, <2>3, StepWaits DEF BodyRead, Timeout
<1>2. CASE BodyRead(r) /\ Ask(r)
  BY <1>2, StepAsks DEF BodyRead, NotAsked
<1> QED
  BY <1>1, <1>2 DEF BodyRead, Timeout

\* The head of the wire is heard by the interceptor.
LEMMA HeardPath ==
  ASSUME PathInv, wire # <<>>, wire' = Tail(wire), UNCHANGED <<bridge, modal, composer>>,
         approved' = approved,
         NEW m \in Asks, m = Head(wire),
         \/ m.type = "pending" /\ HearPending(m.id)
         \/ m.type = "decision" /\ HearDecision(m.id, m.proceed)
  PROVE  PathInv'
<1>1. PICK r \in Requests : r = m.id
  BY DEF Asks
<1>2. /\ wire' \in Seq(Messages) /\ 1 \in DOMAIN wire /\ m = wire[1]
      /\ \A i \in DOMAIN wire' : i \in Nat /\ i + 1 \in DOMAIN wire /\ wire'[i] = wire[i + 1]
  BY TakingHead DEF PathInv, PageTypes
<1>3. MessageTrue(m)
  BY <1>2 DEF PathInv, WireInv
<1>4. req \in [Requests -> Reqs]
  BY DEF PathInv, PageTypes
<1>t. {"sent", "held", "aborted"} \subseteq PCs \ NotAsked /\ "decision" \in Vias
      /\ "asked" \notin NotAsked
  BY DEF PCs, NotAsked, Kinds, Vias
<1>5. approved' \in BOOLEAN /\ Stage(r)
  BY DEF PathInv, PageTypes, BridgeInv
<1>6. CASE req' = req
  BY <1>2, <1>4, <1>5, <1>6, StepWaits DEF Stage
<1>7. CASE m.type = "pending" /\ req' = [req EXCEPT ![r].pc = "held"]
  <2>1. /\ req' \in [Requests -> Reqs]
        /\ req'[r].pc = "held" /\ req'[r].text = req[r].text /\ req'[r].via = req[r].via
        /\ \A q \in Requests \ {r} : req'[q] = req[q]
    BY <1>t, <1>4, <1>7, NewPc
  <2>2. bridge[r] \in Bridged
    BY <1>1, <1>3, <1>7 DEF MessageTrue
  <2> QED
    BY <1>t, <1>2, <1>5, <2>1, <2>2, StepWaits DEF Stage
<1>8. CASE m.type = "decision" /\ m.proceed
           /\ req' = [req EXCEPT ![r].pc = "sent", ![r].via = "decision"]
  <2>1. /\ req' \in [Requests -> Reqs]
        /\ req'[r].pc = "sent" /\ req'[r].text = req[r].text /\ req'[r].via = "decision"
        /\ \A q \in Requests \ {r} : req'[q] = req[q]
    BY <1>t, <1>4, <1>8, NewVia
  <2>2. bridge[r] \in Released
    BY <1>1, <1>3, <1>8 DEF MessageTrue
  <2> QED
    BY <1>t, <1>2, <1>5, <2>1, <2>2, StepWaits
<1>9. CASE req' = [req EXCEPT ![r].pc = "aborted"]
  <2>1. /\ req' \in [Requests -> Reqs]
        /\ req'[r].pc = "aborted" /\ req'[r].text = req[r].text /\ req'[r].via = req[r].via
        /\ \A q \in Requests \ {r} : req'[q] = req[q]
    BY <1>t, <1>4, <1>9, NewPc
  <2> QED
    BY <1>t, <1>2, <1>5, <2>1, StepWaits DEF Stage
<1> QED
  BY <1>1, <1>6, <1>7, <1>8, <1>9 DEF HearPending, HearDecision

LEMMA DeliverPath == ASSUME PathInv, Deliver PROVE PathInv'
<1>1. wire # <<>> /\ wire' = Tail(wire) /\ UNCHANGED <<composer, modal>>
  BY DEF Deliver
<1>2. PICK m \in Messages : m = Head(wire)
  BY <1>1, TakingHead DEF PathInv, PageTypes
<1>3. /\ wire' \in Seq(Messages)
      /\ \A i \in DOMAIN wire' : i \in Nat /\ i + 1 \in DOMAIN wire /\ wire'[i] = wire[i + 1]
  BY <1>1, TakingHead DEF PathInv, PageTypes
<1>4. CASE approved' = TRUE /\ UNCHANGED <<req, bridge>>
  <2>1. approved' \in BOOLEAN /\ BridgeInv'
    BY <1>1, <1>4 DEF PathInv, BridgeInv, Stage
  <2>2. ASSUME NEW i \in DOMAIN wire' PROVE MessageTrue(wire[i])'
    BY <1>3, <1>4 DEF PathInv, WireInv, MessageTrue
  <2>3. Once'
    <3> SUFFICES ASSUME NEW i \in DOMAIN wire', NEW j \in DOMAIN wire',
                        wire'[i].type = "intercept", wire'[j].type = "intercept",
                        wire'[i].id = wire'[j].id
                 PROVE  i = j
      BY DEF Once
    <3>1. i + 1 = j + 1
      BY <1>3 DEF PathInv, WireInv, Once
    <3> QED
      BY <1>3, <3>1
  <2> QED
    BY <1>1, <1>3, <1>4, <2>1, <2>2, <2>3 DEF PathInv, PageTypes, WireInv
<1>5. CASE /\ m.type = "intercept" /\ bridge' = [bridge EXCEPT ![m.id] = "detect"]
           /\ UNCHANGED <<approved, req>>
  BY <1>1, <1>2, <1>5, StepStarts
<1>6. CASE /\ UNCHANGED <<approved, bridge>>
           /\ \/ m.type = "pending" /\ HearPending(m.id)
              \/ m.type = "decision" /\ HearDecision(m.id, m.proceed)
  <2>1. m \in Asks
    BY <1>6 DEF Messages, Unlocks
  <2> QED
    BY <1>1, <1>2, <1>6, <2>1, HeardPath
<1> QED
  BY <1>2, <1>4, <1>5, <1>6 DEF Deliver

LEMMA DetectPath == ASSUME PathInv, NEW r \in Requests, BridgeDetect(r) PROVE PathInv'
<1>1. UNCHANGED <<req, composer, approved, modal>> /\ bridge[r] = "detect" /\ Stage(r)
  BY DEF BridgeDetect, PathInv, BridgeInv
<1>2. bridge \in [Requests -> BridgeStates]
  BY DEF PathInv, PageTypes
<1>3. ASSUME NEW ty \in {"pending", "decision"}, NEW p \in BOOLEAN,
             NEW b \in {"failed", "clean", "prepare"},
             Post([type |-> ty, id |-> r, proceed |-> p]),
             bridge' = [bridge EXCEPT ![r] = b],
             b = "clean" => ~Flagged(req[r].text), b = "prepare" => Flagged(req[r].text),
             ty = "pending" => b = "prepare", ty = "decision" => b \in {"failed", "clean"}
      PROVE  PathInv'
  <2> DEFINE m == [type |-> ty, id |-> r, proceed |-> p]
  <2>1. m \in Messages /\ m.type = ty /\ m.id = r /\ Post(m)
    BY <1>3, AskIsMessage
  <2> HIDE DEF m
  <2>2. bridge'[r] = b /\ b \in BridgeStates
    BY <1>2, <1>3 DEF BridgeStates, Bridged
  <2>3. MessageTrue(m)'
    BY <1>3, <2>1, <2>2 DEF MessageTrue, Bridged, Released
  <2>4. Stage(r)'
    BY <1>1, <1>3, <2>2 DEF Stage, Bridged, Released
  <2>5. bridge[r] \notin Released /\ bridge[r] # "none" /\ bridge[r] \notin Bridged
    BY <1>1 DEF Bridged, Released
  <2>6. m.type # "intercept"
    BY <1>3, <2>1
  <2> QED
    BY <1>1, <1>3, <2>1, <2>2, <2>3, <2>4, <2>5, <2>6, StepBridges
<1> QED
  BY <1>3 DEF BridgeDetect, Decide

LEMMA ShowPath == ASSUME PathInv, NEW r \in Requests, BridgeShow(r) PROVE PathInv'
<1>1. UNCHANGED <<req, composer, approved, wire>> /\ bridge[r] = "prepare" /\ Stage(r)
      /\ modal' = r /\ bridge' = [bridge EXCEPT ![r] = "modal"]
  BY DEF BridgeShow, PathInv, BridgeInv
<1>2. "modal" \in BridgeStates /\ bridge'[r] = "modal"
  BY <1>1 DEF PathInv, PageTypes, BridgeStates, Bridged
<1>3. Stage(r)'
  BY <1>1, <1>2 DEF Stage, Bridged, Released
<1>4. bridge[r] \notin Released /\ bridge[r] # "none" /\ "modal" \in Bridged
  BY <1>1 DEF Bridged, Released
<1> QED
  BY <1>1, <1>2, <1>3, <1>4, StepBridges

LEMMA AnswerPath == ASSUME PathInv, NEW r \in Requests, BridgeAnswer(r) PROVE PathInv'
<1>1. UNCHANGED <<req, composer, approved, wire>> /\ modal = r /\ modal' = Nobody /\ Stage(r)
  BY DEF BridgeAnswer, PathInv, BridgeInv
<1>2. bridge[r] = "modal" /\ r # Nobody
  BY <1>1, Distinct DEF Stage
<1>3. ASSUME NEW b \in {"refused", "waved"}, bridge' = [bridge EXCEPT ![r] = b],
             b = "waved" => Verdict[req[r].text] # "block"
      PROVE  PathInv'
  <2>1. b \in BridgeStates /\ bridge'[r] = b /\ b \in Bridged
    BY <1>3 DEF PathInv, PageTypes, BridgeStates, Bridged
  <2>2. Stage(r)'
    BY <1>1, <1>2, <1>3, <2>1 DEF Stage, Bridged, Released
  <2>3. bridge[r] \notin Released /\ bridge[r] # "none"
    BY <1>2 DEF Released
  <2> QED
    BY <1>1, <1>3, <2>1, <2>2, <2>3, StepBridges
<1> QED
  BY <1>3 DEF BridgeAnswer

LEMMA DecidePath == ASSUME PathInv, NEW r \in Requests, BridgeDecide(r) PROVE PathInv'
<1>1. UNCHANGED <<req, composer, approved, modal>> /\ bridge[r] \in {"refused", "waved"} /\ Stage(r)
  BY DEF BridgeDecide, PathInv, BridgeInv
<1>2. PICK b \in {"wavedDone", "refusedDone"} :
        /\ bridge' = [bridge EXCEPT ![r] = b]
        /\ bridge[r] = "waved" <=> b = "wavedDone"
  BY <1>1 DEF BridgeDecide
<1>3. PICK m \in Messages : /\ Post(m) /\ m.type = "decision" /\ m.id = r
                            /\ m.proceed <=> bridge[r] = "waved"
  BY <1>1, AskIsMessage DEF BridgeDecide, Decide
<1>4. b \in BridgeStates /\ b \in Bridged /\ bridge'[r] = b
  BY <1>2 DEF PathInv, PageTypes, BridgeStates, Bridged
<1>5. MessageTrue(m)'
  BY <1>2, <1>3, <1>4 DEF MessageTrue, Released
<1>6. Stage(r)'
  BY <1>1, <1>2, <1>4 DEF Stage, Bridged, Released
<1>7. bridge[r] \notin Released /\ bridge[r] # "none" /\ m.type # "intercept"
  BY <1>1, <1>3 DEF Released
<1> QED
  BY <1>1, <1>2, <1>3, <1>4, <1>5, <1>6, <1>7, StepBridges

\* A press goes through; the approval is posted or not.
LEMMA HandlerPath == ASSUME PathInv, IntentTypes, PressSend \/ Handler PROVE PathInv'
<1> DEFINE Aside == /\ UNCHANGED <<wire, req, bridge, approved>> /\ composer' \in AnyText
                    /\ modal' \in {modal, Nobody, Intent}
           Clicked == /\ Click /\ UNCHANGED <<bridge, modal, approved>>
                      /\ \/ wire' = wire
                         \/ Post([type |-> "unlock", id |-> Nobody, proceed |-> TRUE])
<1>1. Aside => PathInv'
  BY StepAside DEF PathInv, PageTypes
<1>2. Clicked => PathInv'
  BY ClickPath
<1>3. composer \in AnyText /\ Texts \subseteq AnyText
  BY DEF PathInv, PageTypes, AnyText
<1>4. PressSend => Aside \/ Clicked
  BY <1>3 DEF PressSend, ProceedUnchecked, Keep
<1>5. IntentDetect => Aside \/ Clicked
  BY <1>3 DEF IntentDetect, ProceedUnchecked, Keep
<1>6. IntentShow => Aside
  BY <1>3 DEF IntentShow, Keep
<1>7. IntentAnswer => Aside
  <2> SUFFICES ASSUME IntentAnswer PROVE Aside
    OBVIOUS
  <2>1. intent.text \in Texts
    BY Distinct DEF IntentAnswer, IntentTypes
  <2>2. Redacted[intent.text] \in Texts
    BY <2>1, SendAssumption
  <2> QED
    BY <1>3, <2>2 DEF IntentAnswer, Keep
<1>8. IntentSettle => Aside
  BY <1>3 DEF IntentSettle, Keep
<1>9. IntentProceed => Clicked
  BY DEF IntentProceed, Proceed, Keep
<1> HIDE DEF Aside, Clicked
<1> QED
  BY <1>1, <1>2, <1>4, <1>5, <1>6, <1>7, <1>8, <1>9 DEF Handler

LEMMA PathStep == ASSUME SendInv, [Next]_vars PROVE PathInv'
<1> USE DEF SendInv
<1>1. CASE UNCHANGED vars
  BY <1>1 DEF vars, PathInv, PageTypes, BridgeInv, Stage, WireInv, Once, MessageTrue
<1>2. CASE Edit
  BY <1>2, EditPath
<1>3. CASE Deliver
  BY <1>3, DeliverPath
<1>4. CASE PressSend \/ Handler
  BY <1>4, HandlerPath
<1>5. ASSUME NEW r \in Requests, SiteSends(r) PROVE PathInv'
  BY <1>5, SitePath
<1>6. ASSUME NEW r \in Requests, Interceptor(r) PROVE PathInv'
  BY <1>6, OverridePath, ReadPath DEF Interceptor
<1>7. ASSUME NEW r \in Requests, Bridge(r) PROVE PathInv'
  BY <1>7, DetectPath, ShowPath, AnswerPath, DecidePath DEF Bridge
<1> QED
  BY <1>1, <1>2, <1>3, <1>4, <1>5, <1>6, <1>7 DEF Next

-----------------------------------------------------------------------------
(* The presses.                                                            *)

LEMMA NewStage ==
  ASSUME IntentTypes, NEW p \in IntentStates \ {"idle"}, Step(p), intent.pc # "idle",
         UNCHANGED <<presses, granted>>, modal' = Intent => p = "modal"
  PROVE  IntentTypes'
<1>1. intent' = [intent EXCEPT !.pc = p] /\ intent \in [pc : IntentStates, text : AnyText]
  BY DEF Step, IntentTypes
<1>2. intent' \in [pc : IntentStates, text : AnyText] /\ intent'.pc = p /\ intent'.text = intent.text
  BY <1>1
<1> QED
  BY <1>2 DEF IntentTypes

LEMMA Ends ==
  ASSUME IntentTypes, intent' = Idle, modal' # Intent, presses' \in 0..MaxIntents,
         granted' \in 0..MaxIntents, granted' <= presses'
  PROVE  IntentTypes'
<1>1. Idle \in [pc : IntentStates, text : AnyText] /\ Idle.pc = "idle"
  BY DEF Idle, IntentStates, AnyText
<1> QED
  BY <1>1 DEF IntentTypes

LEMMA Counts ==
  ASSUME IntentTypes
  PROVE  /\ MaxIntents \in Nat /\ presses \in 0..MaxIntents /\ granted \in 0..MaxIntents
         /\ granted <= presses
         /\ intent.pc # "idle" => granted + 1 <= presses
BY SendAssumption DEF IntentTypes

LEMMA PressIntent == ASSUME SendInv, PressSend PROVE IntentTypes'
<1>1. intent.pc = "idle" /\ modal' # Intent /\ presses' = presses + 1 /\ presses < MaxIntents
  BY DEF PressSend, Idle, Keep, SendInv, IntentTypes
<1>2. presses' \in 0..MaxIntents /\ granted < presses' /\ granted \in 0..MaxIntents
  BY <1>1, Counts DEF SendInv
<1>3. CASE intent' = Idle /\ granted' = granted
  BY <1>1, <1>2, <1>3, Ends DEF SendInv
<1>4. CASE composer # NoText /\ intent' = [pc |-> "detect", text |-> composer] /\ granted' = granted
  <2>1. composer \in Texts
    BY <1>4 DEF SendInv, PathInv, PageTypes, AnyText
  <2>2. /\ intent' \in [pc : IntentStates, text : AnyText]
        /\ intent'.pc = "detect" /\ intent'.text \in Texts
    BY <1>4, <2>1 DEF IntentStates, AnyText
  <2> QED
    BY <1>1, <1>2, <1>4, <2>2 DEF IntentTypes
<1> QED
  BY <1>3, <1>4 DEF PressSend, ProceedUnchecked

LEMMA HandlerIntent == ASSUME SendInv, Handler PROVE IntentTypes'
<1>1. ASSUME NEW p \in {"log", "prepare", "settle", "redacted", "anyway"}, Step(p),
             intent.pc # "idle", UNCHANGED <<presses, granted>>, modal' # Intent
      PROVE  IntentTypes'
  BY <1>1, NewStage DEF IntentStates, SendInv
<1>2. ASSUME intent' = Idle, modal' # Intent, UNCHANGED <<presses, granted>>
      PROVE  IntentTypes'
  BY <1>2, Counts, Ends DEF SendInv
<1>3. modal = Intent => intent.pc = "modal"
  BY DEF SendInv, IntentTypes
<1>4. CASE IntentDetect
  BY <1>1, <1>2, <1>3, <1>4 DEF IntentDetect, ProceedUnchecked, Keep
<1>5. CASE IntentShow
  BY <1>5, NewStage DEF IntentShow, IntentStates, Keep, SendInv
<1>6. CASE IntentAnswer
  BY <1>1, <1>2, <1>3, <1>6, Distinct DEF IntentAnswer, Keep
<1>7. CASE IntentSettle
  BY <1>1, <1>2, <1>3, <1>7 DEF IntentSettle, Keep
<1>8. CASE IntentProceed
  <2>1. granted' = granted + 1 /\ presses' = presses /\ intent' = Idle /\ modal' # Intent
        /\ intent.pc # "idle"
    BY <1>3, <1>8 DEF IntentProceed, Proceed, Keep
  <2>2. granted' \in 0..MaxIntents /\ granted' <= presses' /\ presses' \in 0..MaxIntents
    BY <2>1, Counts DEF SendInv
  <2> QED
    BY <2>1, <2>2, Ends DEF SendInv
<1> QED
  BY <1>4, <1>5, <1>6, <1>7, <1>8 DEF Handler

LEMMA OtherIntent ==
  ASSUME IntentTypes, UNCHANGED <<intent, presses, granted>>, modal' = Intent => modal = Intent
  PROVE  IntentTypes'
BY DEF IntentTypes

LEMMA IntentStep == ASSUME SendInv, [Next]_vars PROVE IntentTypes'
<1>1. CASE UNCHANGED vars
  BY <1>1, OtherIntent DEF vars, SendInv
<1>2. CASE Edit \/ Deliver
  BY <1>2, OtherIntent DEF Edit, Deliver, SendInv
<1>3. CASE PressSend
  BY <1>3, PressIntent
<1>4. CASE Handler
  BY <1>4, HandlerIntent
<1>5. ASSUME NEW r \in Requests, SiteSends(r) \/ Interceptor(r) PROVE IntentTypes'
  BY <1>5, OtherIntent DEF SiteSends, Interceptor, FetchOverride, BodyRead, Timeout, SendInv
<1>6. ASSUME NEW r \in Requests, Bridge(r) PROVE IntentTypes'
  BY <1>6, OtherIntent, Distinct
     DEF Bridge, BridgeDetect, BridgeShow, BridgeAnswer, BridgeDecide, SendInv
<1> QED
  BY <1>1, <1>2, <1>3, <1>4, <1>5, <1>6 DEF Next

-----------------------------------------------------------------------------
LEMMA SendStarts == ASSUME Init PROVE SendInv
<1>1. Unused \in Reqs /\ Unused.pc = "unused" /\ Unused.via = "none" /\ "unused" \in NotAsked
  BY DEF Unused, Reqs, PCs, NotAsked, Kinds, Vias, AnyText
<1>2. PageTypes
  <2>1. wire \in Seq(Messages) /\ modal \in Requests \cup {Nobody, Intent}
    BY DEF Init
  <2>2. approved \in BOOLEAN /\ composer \in AnyText /\ bridge \in [Requests -> BridgeStates]
    BY DEF Init, AnyText, BridgeStates
  <2>3. req \in [Requests -> Reqs]
    BY <1>1 DEF Init
  <2> QED
    BY <2>1, <2>2, <2>3 DEF PageTypes
<1>3. BridgeInv
  BY <1>1, Distinct DEF Init, BridgeInv, Stage, Bridged
<1>4. WireInv
  BY DEF Init, WireInv, Once
<1>5. Idle \in [pc : IntentStates, text : AnyText] /\ Idle.pc = "idle"
  BY DEF Idle, IntentStates, AnyText
<1>6. IntentTypes
  BY <1>5, Distinct, SendAssumption DEF Init, IntentTypes
<1> QED
  BY <1>2, <1>3, <1>4, <1>6 DEF SendInv, PathInv

LEMMA SendStep == ASSUME SendInv, [Next]_vars PROVE SendInv'
BY PathStep, IntentStep DEF SendInv

(* The page's invariant: a request is asked about once, its listener goes  *)
(* through its states once, and what a message says is so on arrival.      *)
THEOREM SendInductive == Spec => []SendInv
<1>1. Init => SendInv
  BY SendStarts
<1>2. SendInv /\ [Next]_vars => SendInv'
  BY SendStep
<1> QED
  BY <1>1, <1>2, PTL DEF Spec

(* Every variable has its type, whatever the texts and however many        *)
(* requests and presses there are.                                         *)
THEOREM SendTypesHold == Spec => []SendTypeOK
<1>1. SendInv => SendTypeOK
  <2> SUFFICES ASSUME SendInv PROVE SendTypeOK
    OBVIOUS
  <2>1. wire \in Seq(Unlocks \cup Asks) /\ req \in [Requests -> Reqs]
    BY DEF SendInv, PathInv, PageTypes, Messages
  <2> QED
    BY <2>1 DEF SendInv, PathInv, PageTypes, IntentTypes, SendTypeOK, Unlocks, Asks, Reqs,
                PCs, NotAsked, Vias, BridgeStates, Bridged, IntentStates, AnyText
<1> QED
  BY <1>1, SendInductive, PTL

(* A flagged request that left on an answer was waved in its own modal,    *)
(* and not blocked, or its detection failed (content-script.ts).           *)
THEOREM SendReleased == Spec => []FlaggedReleasedByItsUser
<1>1. SendInv => FlaggedReleasedByItsUser
  <2> SUFFICES ASSUME SendInv, NEW r \in Requests,
                      req[r].via = "decision", Flagged(req[r].text)
               PROVE  \/ bridge[r] = "wavedDone" /\ Verdict[req[r].text] = "warn"
                      \/ bridge[r] = "failed"
    BY DEF FlaggedReleasedByItsUser
  <2>1. Stage(r)
    BY DEF SendInv, PathInv, BridgeInv
  <2> QED
    BY <2>1 DEF Stage, Released, Flagged
<1> QED
  BY <1>1, SendInductive, PTL

(* A held request is let go by its user's wave only, and no timer          *)
(* (fetch-interceptor.ts) or failure does it.                              *)
THEOREM SendHeld == Spec => HeldForTheUser
<1> DEFINE Held == \A r \in Requests :
                     req[r].pc = "held" /\ req'[r].pc = "sent" => bridge[r] = "wavedDone"
<1>1. SendInv /\ [Next]_vars => [Held]_vars
  <2> SUFFICES ASSUME SendInv, [Next]_vars, NEW r \in Requests,
                      req[r].pc = "held", req'[r].pc = "sent"
               PROVE  bridge[r] = "wavedDone"
    OBVIOUS
  <2>1. req \in [Requests -> Reqs] /\ Stage(r)
    BY DEF SendInv, PathInv, PageTypes, BridgeInv
  <2>2. CASE UNCHANGED req
    BY <2>2
  <2>3. CASE Deliver /\ ~UNCHANGED req
    <3>1. PICK m \in Messages : m = Head(wire) /\ MessageTrue(m)
      BY <2>3, TakingHead DEF Deliver, SendInv, PathInv, PageTypes, WireInv
    <3>2. \/ m.type = "pending" /\ HearPending(m.id)
          \/ m.type = "decision" /\ HearDecision(m.id, m.proceed)
      BY <2>3, <3>1 DEF Deliver
    <3>3. m.id \in Requests
      BY <3>1, <3>2 DEF Messages, Asks, Unlocks
    <3>4. m.type = "decision" /\ m.id = r /\ m.proceed
      <4>1. m.id = r
        BY <2>1, <3>2, <3>3 DEF HearPending, HearDecision
      <4>2. req' # req /\ req[r].pc # "asked"
        BY <2>1
      <4>3. m.type = "decision" /\ HearDecision(r, m.proceed)
        BY <3>2, <4>1, <4>2 DEF HearPending
      <4>4. CASE ~m.proceed
        <5>1. req' = [req EXCEPT ![r].pc = "aborted"]
          BY <4>2, <4>3, <4>4 DEF HearDecision
        <5>2. req'[r].pc = "aborted"
          BY <2>1, <5>1, NewPc DEF PCs
        <5> QED
          BY <5>2
      <4> QED
        BY <4>1, <4>3, <4>4
    <3> QED
      BY <2>1, <3>1, <3>4 DEF MessageTrue, Stage, Bridged, Released
  <2>4. ASSUME NEW q \in Requests, req[q].pc # "held", NEW new, req' = [req EXCEPT ![q] = new]
        PROVE  FALSE
    BY <2>1, <2>4
  <2>5. ASSUME NEW q \in Requests, NEW t, NEW k, Queue(q, t, k) PROVE FALSE
    <3>1. req[q].pc # "held"
      BY <2>5 DEF Queue, Unused
    <3> QED
      BY <2>4, <2>5, <3>1 DEF Queue
  <2>6. CASE Click
    BY <2>2, <2>5, <2>6 DEF Click
  <2>7. ASSUME NEW q \in Requests, req[q].pc # "held", (\E v : Leave(q, v)) \/ Ask(q) PROVE FALSE
    BY <2>1, <2>7 DEF Leave, Ask
  <2>8. ASSUME NEW q \in Requests, Interceptor(q) PROVE FALSE
    <3>1. req[q].pc # "held"
      BY <2>8 DEF Interceptor, FetchOverride, BodyRead, Timeout, Kinds
    <3>2. CASE req' = [req EXCEPT ![q].pc = "reading"]
      BY <2>1, <3>1, <3>2
    <3> QED
      BY <2>7, <2>8, <3>1, <3>2 DEF Interceptor, FetchOverride, BodyRead, Timeout
  <2>9. CASE Edit \/ UNCHANGED vars \/ \E q \in Requests : Bridge(q)
    BY <2>2, <2>9 DEF Edit, vars, Bridge, BridgeDetect, BridgeShow, BridgeAnswer, BridgeDecide
  <2>10. CASE PressSend \/ Handler
    BY <2>2, <2>6, <2>10 DEF PressSend, Handler, IntentDetect, IntentShow, IntentAnswer,
       IntentSettle, IntentProceed, Proceed, ProceedUnchecked
  <2>11. ASSUME NEW q \in Requests, SiteSends(q) PROVE FALSE
    BY <2>5, <2>11 DEF SiteSends
  <2>12. CASE \E q \in Requests : SiteSends(q) \/ Interceptor(q) \/ Bridge(q)
    BY <2>8, <2>9, <2>11, <2>12
  <2>13. CASE Deliver
    BY <2>2, <2>3, <2>13
  <2> QED
    BY <2>9, <2>10, <2>12, <2>13 DEF Next
<1> QED
  BY <1>1, SendInductive, PTL DEF Spec, HeldForTheUser

-----------------------------------------------------------------------------
(* Approvals: taken by a request, waiting in the interceptor's flag, or on *)
(* their way.                                                              *)

Taken == {r \in Requests : req[r].via = "approval"}
OnTheWay == {i \in DOMAIN wire : wire[i].type = "unlock"}
Waiting == IF approved THEN 1 ELSE 0

LEMMA ApprovalsFinite ==
  ASSUME wire \in Seq(Messages)
  PROVE  /\ IsFiniteSet(Taken) /\ Cardinality(Taken) \in Nat
         /\ IsFiniteSet(OnTheWay) /\ Cardinality(OnTheWay) \in Nat
<1>1. IsFiniteSet(Requests)
  BY SendAssumption, FS_Interval DEF Requests
<1>2. IsFiniteSet(DOMAIN wire)
  <2>1. DOMAIN wire = 1..Len(wire) /\ Len(wire) \in Nat
    OBVIOUS
  <2> QED
    BY <2>1, FS_Interval
<1>3. Taken \in SUBSET Requests /\ OnTheWay \in SUBSET DOMAIN wire
  BY DEF Taken, OnTheWay
<1>4. IsFiniteSet(Taken) /\ IsFiniteSet(OnTheWay)
  BY <1>1, <1>2, <1>3, FS_Subset
<1> QED
  BY <1>4, FS_CardinalityType

\* No request leaves on an approval.
NoneTaken == \A q \in Requests : req'[q].via = "approval" => req[q].via = "approval"

LEMMA TakenStays ==
  ASSUME wire \in Seq(Messages), NoneTaken
  PROVE  Cardinality(Taken') <= Cardinality(Taken) /\ Cardinality(Taken') \in Nat
<1>1. Taken' \in SUBSET Taken
  BY DEF Taken, NoneTaken
<1> QED
  BY <1>1, ApprovalsFinite, FS_Subset, FS_CardinalityType

\* One more place, when an approval is posted, or none.
LEMMA PostedOnTheWay ==
  ASSUME wire \in Seq(Messages), NEW m \in Messages, Post(m)
  PROVE  Cardinality(OnTheWay') = Cardinality(OnTheWay) + (IF m.type = "unlock" THEN 1 ELSE 0)
<1> DEFINE n == Len(wire) + 1
<1>1. /\ \A i \in DOMAIN wire : i \in DOMAIN wire' /\ wire'[i] = wire[i] /\ i # n
      /\ wire'[n] = m /\ n \in DOMAIN wire'
      /\ \A i \in DOMAIN wire' : i \in DOMAIN wire \/ i = n
  <2>1. n \in DOMAIN wire'
    BY DEF Post
  <2> QED
    BY <2>1, Posted
<1> HIDE DEF n
<1>2. CASE m.type = "unlock"
  <2>1. OnTheWay' = OnTheWay \cup {n} /\ n \notin OnTheWay
    BY <1>1, <1>2 DEF OnTheWay
  <2> QED
    BY <1>2, <2>1, ApprovalsFinite, FS_AddElement
<1>3. CASE m.type # "unlock"
  <2>1. OnTheWay' = OnTheWay
    BY <1>1, <1>3 DEF OnTheWay
  <2> QED
    BY <1>3, <2>1, ApprovalsFinite
<1> QED
  BY <1>2, <1>3

\* The others are one place further on when the head is delivered.
LEMMA DeliveredOnTheWay ==
  ASSUME wire \in Seq(Messages), wire # <<>>, wire' = Tail(wire)
  PROVE  /\ Cardinality(OnTheWay') \in Nat
         /\ Cardinality(OnTheWay') + (IF Head(wire).type = "unlock" THEN 1 ELSE 0)
              <= Cardinality(OnTheWay)
<1>1. /\ wire' \in Seq(Messages) /\ 1 \in DOMAIN wire /\ Head(wire) = wire[1]
      /\ \A i \in DOMAIN wire' : i \in Nat /\ i >= 1 /\ i + 1 \in DOMAIN wire
                                 /\ wire'[i] = wire[i + 1]
  BY TakingHead
<1> DEFINE f == [i \in OnTheWay' |-> i + 1]
<1>2. \A i \in OnTheWay' : i \in Nat /\ i + 1 \in OnTheWay /\ i + 1 # 1
  BY <1>1 DEF OnTheWay
<1>3. f \in Injection(OnTheWay', OnTheWay \ {1})
  <2>1. f \in [OnTheWay' -> OnTheWay \ {1}]
    BY <1>2
  <2>2. \A i, j \in OnTheWay' : f[i] = f[j] => i = j
    BY <1>2
  <2>3. DOMAIN f = OnTheWay'
    OBVIOUS
  <2> HIDE DEF f
  <2> QED
    BY <2>1, <2>2, <2>3 DEF Injection, IsInjective
<1> HIDE DEF f
<1>4. /\ IsFiniteSet(OnTheWay \ {1})
      /\ Cardinality(OnTheWay \ {1}) = IF 1 \in OnTheWay THEN Cardinality(OnTheWay) - 1
                                       ELSE Cardinality(OnTheWay)
  BY ApprovalsFinite, FS_RemoveElement
<1>5. Cardinality(OnTheWay') <= Cardinality(OnTheWay \ {1}) /\ Cardinality(OnTheWay') \in Nat
  BY <1>3, <1>4, FS_Injection, FS_CardinalityType
<1>6. Head(wire).type = "unlock" <=> 1 \in OnTheWay
  BY <1>1 DEF OnTheWay
<1> QED
  BY <1>4, <1>5, <1>6, ApprovalsFinite

LEMMA LeaveVia ==
  ASSUME req \in [Requests -> Reqs], NEW r \in Requests, NEW v \in Vias, Leave(r, v)
  PROVE  req'[r].via = v /\ \A q \in Requests \ {r} : req'[q] = req[q]
<1>1. "sent" \in PCs
  BY DEF PCs
<1>2. req' = [req EXCEPT ![r].pc = "sent", ![r].via = v]
  BY DEF Leave
<1>3. /\ req' \in [Requests -> Reqs]
      /\ req'[r].pc = "sent" /\ req'[r].text = req[r].text /\ req'[r].via = v
      /\ \A q \in Requests \ {r} : req'[q] = req[q]
  BY <1>1, <1>2, NewVia
<1> QED
  BY <1>3

LEMMA PcNoneTaken ==
  ASSUME req \in [Requests -> Reqs], NEW r \in Requests, NEW p \in PCs,
         req' = [req EXCEPT ![r].pc = p]
  PROVE  NoneTaken
BY NewPc DEF NoneTaken

LEMMA QueueNoneTaken ==
  ASSUME req \in [Requests -> Reqs], NEW r \in Requests, NEW t, NEW k, Queue(r, t, k)
  PROVE  NoneTaken
BY DEF Queue, NoneTaken

LEMMA ClickNoneTaken ==
  ASSUME req \in [Requests -> Reqs], Click
  PROVE  NoneTaken
BY QueueNoneTaken DEF Click, NoneTaken

LEMMA AskIntercept ==
  ASSUME NEW r \in Requests, Ask(r)
  PROVE  \E m \in Messages : Post(m) /\ m.type # "unlock"
<1> DEFINE m == [type |-> "intercept", id |-> r, proceed |-> FALSE]
<1>1. m \in Messages /\ m.type = "intercept"
  BY AskIsMessage
<1>2. Post(m)
  BY DEF Ask
<1> HIDE DEF m
<1> QED
  BY <1>1, <1>2

\* A step that takes no approval and posts none.
LEMMA NoApproval ==
  ASSUME wire \in Seq(Messages), granted \in Nat, OneRequestPerApproval, NoneTaken,
         UNCHANGED <<approved, granted>>,
         wire' = wire \/ \E m \in Messages : Post(m) /\ m.type # "unlock"
  PROVE  OneRequestPerApproval'
<1>1. Cardinality(OnTheWay') = Cardinality(OnTheWay)
  <2>1. CASE wire' = wire
    BY <2>1 DEF OnTheWay
  <2>2. ASSUME NEW m \in Messages, Post(m), m.type # "unlock"
        PROVE  Cardinality(OnTheWay') = Cardinality(OnTheWay)
    BY <2>2, PostedOnTheWay, ApprovalsFinite
  <2> QED
    BY <2>1, <2>2
<1>2. Waiting' = Waiting /\ Waiting \in Nat
  BY DEF Waiting
<1>3. Cardinality(Taken') <= Cardinality(Taken) /\ Cardinality(Taken') \in Nat
  BY TakenStays
<1>4. Cardinality(Taken) + Waiting + Cardinality(OnTheWay) <= granted
  BY DEF OneRequestPerApproval, Taken, Waiting, OnTheWay
<1>5. granted' = granted
  OBVIOUS
<1>6. Cardinality(Taken') + Waiting' + Cardinality(OnTheWay') <= granted'
  BY <1>1, <1>2, <1>3, <1>4, <1>5, ApprovalsFinite
<1> QED
  BY <1>6 DEF OneRequestPerApproval, Taken, Waiting, OnTheWay

\* The three sums of the property, by name.
LEMMA ApprovalsSum ==
  /\ OneRequestPerApproval <=> Cardinality(Taken) + Waiting + Cardinality(OnTheWay) <= granted
  /\ OneRequestPerApproval' <=>
       Cardinality(Taken') + Waiting' + Cardinality(OnTheWay') <= granted'
BY DEF OneRequestPerApproval, Taken, Waiting, OnTheWay

\* A click, with the approval that was posted for it or without one.
LEMMA ClickApproval ==
  ASSUME PathInv, IntentTypes, OneRequestPerApproval, Click, approved' = approved,
         \/ UNCHANGED <<wire, granted>>
         \/ /\ Post([type |-> "unlock", id |-> Nobody, proceed |-> TRUE])
            /\ granted' = granted + 1
  PROVE  OneRequestPerApproval'
<1> DEFINE m == [type |-> "unlock", id |-> Nobody, proceed |-> TRUE]
<1>1. wire \in Seq(Messages) /\ req \in [Requests -> Reqs] /\ granted \in Nat
  BY SendAssumption DEF PathInv, PageTypes, IntentTypes
<1>2. NoneTaken
  BY <1>1, ClickNoneTaken
<1>3. CASE UNCHANGED <<wire, granted>>
  BY <1>1, <1>2, <1>3, NoApproval
<1>4. m \in Messages /\ m.type = "unlock"
  BY UnlockIsMessage
<1>5. CASE Post(m) /\ granted' = granted + 1
  <2> HIDE DEF m
  <2>1. Cardinality(OnTheWay') = Cardinality(OnTheWay) + 1
    BY <1>1, <1>4, <1>5, PostedOnTheWay
  <2>2. Cardinality(Taken') <= Cardinality(Taken) /\ Cardinality(Taken') \in Nat
    BY <1>1, <1>2, TakenStays
  <2>3. Waiting' = Waiting /\ Waiting \in Nat
    BY DEF Waiting
  <2>4. Cardinality(Taken') + Waiting' + Cardinality(OnTheWay') <= granted'
    BY <1>1, <1>5, <2>1, <2>2, <2>3, ApprovalsFinite, ApprovalsSum
  <2> QED
    BY <2>4, ApprovalsSum
<1> QED
  BY <1>3, <1>5

\* A request takes the approval that waits, and no other can take it.
LEMMA TakingApproval ==
  ASSUME PathInv, IntentTypes, OneRequestPerApproval, NEW r \in Requests, Leave(r, "approval"),
         approved, approved' = FALSE, UNCHANGED <<wire, granted>>
  PROVE  OneRequestPerApproval'
<1>1. wire \in Seq(Messages) /\ req \in [Requests -> Reqs] /\ granted \in Nat
  BY SendAssumption DEF PathInv, PageTypes, IntentTypes
<1>2. \A q \in Requests \ {r} : req'[q] = req[q]
  BY <1>1, LeaveVia DEF Vias
<1>3. Taken' \in SUBSET (Taken \cup {r})
  BY <1>2 DEF Taken
<1>4. /\ IsFiniteSet(Taken \cup {r}) /\ Cardinality(Taken \cup {r}) <= Cardinality(Taken) + 1
      /\ Cardinality(Taken \cup {r}) \in Nat
  <2>1. IsFiniteSet(Taken) /\ Cardinality(Taken) \in Nat
    BY <1>1, ApprovalsFinite
  <2>2. /\ IsFiniteSet(Taken \cup {r})
        /\ Cardinality(Taken \cup {r}) = IF r \in Taken THEN Cardinality(Taken)
                                         ELSE Cardinality(Taken) + 1
    BY <2>1, FS_AddElement
  <2> QED
    BY <2>1, <2>2
<1>5. Cardinality(Taken') <= Cardinality(Taken \cup {r}) /\ Cardinality(Taken') \in Nat
  BY <1>3, <1>4, FS_Subset, FS_CardinalityType
<1>6. Waiting = 1 /\ Waiting' = 0 /\ OnTheWay' = OnTheWay
  BY DEF Waiting, OnTheWay
<1>7. Cardinality(Taken') + Waiting' + Cardinality(OnTheWay') <= granted'
  BY <1>1, <1>4, <1>5, <1>6, ApprovalsFinite, ApprovalsSum
<1> QED
  BY <1>7, ApprovalsSum

LEMMA OverrideApproval ==
  ASSUME PathInv, IntentTypes, OneRequestPerApproval, NEW r \in Requests, FetchOverride(r)
  PROVE  OneRequestPerApproval'
<1>1. wire \in Seq(Messages) /\ req \in [Requests -> Reqs] /\ granted \in Nat /\ granted' = granted
  BY SendAssumption DEF PathInv, PageTypes, IntentTypes, FetchOverride
<1>2. CASE approved /\ approved' = FALSE /\ Leave(r, "approval") /\ UNCHANGED wire
  BY <1>1, <1>2, TakingApproval
<1>3. CASE Ask(r) /\ approved' = approved
  <2>1. NoneTaken
    BY <1>1, <1>3, PcNoneTaken DEF Ask, PCs
  <2> QED
    BY <1>1, <1>3, <2>1, AskIntercept, NoApproval
<1>4. CASE req' = [req EXCEPT ![r].pc = "reading"] /\ UNCHANGED <<approved, wire>>
  <2>1. NoneTaken
    BY <1>1, <1>4, PcNoneTaken DEF PCs, NotAsked
  <2> QED
    BY <1>1, <1>4, <2>1, NoApproval
<1>5. CASE Leave(r, "unseen") /\ UNCHANGED <<approved, wire>>
  <2>1. NoneTaken
    BY <1>1, <1>5, LeaveVia DEF NoneTaken, Vias
  <2> QED
    BY <1>1, <1>5, <2>1, NoApproval
<1> QED
  BY <1>2, <1>3, <1>4, <1>5 DEF FetchOverride

LEMMA ReadApproval ==
  ASSUME PathInv, IntentTypes, OneRequestPerApproval, NEW r \in Requests,
         BodyRead(r) \/ Timeout(r)
  PROVE  OneRequestPerApproval'
<1>1. /\ wire \in Seq(Messages) /\ req \in [Requests -> Reqs] /\ granted \in Nat
      /\ UNCHANGED <<approved, granted>>
  BY SendAssumption DEF PathInv, PageTypes, IntentTypes, BodyRead, Timeout
<1>2. CASE Ask(r)
  <2>1. NoneTaken
    BY <1>1, <1>2, PcNoneTaken DEF Ask, PCs
  <2> QED
    BY <1>1, <1>2, <2>1, AskIntercept, NoApproval
<1>3. ASSUME NEW v \in {"unseen", "timeout"}, Leave(r, v), wire' = wire
      PROVE  OneRequestPerApproval'
  <2>1. NoneTaken
    BY <1>1, <1>3, LeaveVia DEF NoneTaken, Vias
  <2> QED
    BY <1>1, <1>3, <2>1, NoApproval
<1> QED
  BY <1>2, <1>3 DEF BodyRead, Timeout

\* The approval arrives: it waits instead of being on its way.
LEMMA ArrivingApproval ==
  ASSUME PathInv, IntentTypes, OneRequestPerApproval, Deliver
  PROVE  OneRequestPerApproval'
<1>1. /\ wire \in Seq(Messages) /\ req \in [Requests -> Reqs] /\ granted \in Nat
      /\ granted' = granted /\ wire # <<>> /\ wire' = Tail(wire)
  BY SendAssumption DEF PathInv, PageTypes, IntentTypes, Deliver
<1>2. PICK m \in Messages : m = Head(wire)
  BY <1>1, TakingHead
<1>3. /\ Cardinality(OnTheWay') \in Nat
      /\ Cardinality(OnTheWay') + (IF m.type = "unlock" THEN 1 ELSE 0) <= Cardinality(OnTheWay)
  BY <1>1, <1>2, DeliveredOnTheWay
<1>4. Waiting \in Nat /\ Waiting' \in Nat
  BY DEF Waiting
<1>5. CASE m.type = "unlock" /\ req' = req
  <2>1. NoneTaken
    BY <1>5 DEF NoneTaken
  <2>2. Cardinality(Taken') <= Cardinality(Taken) /\ Cardinality(Taken') \in Nat
    BY <1>1, <2>1, TakenStays
  <2>3. Waiting' <= Waiting + 1
    BY DEF Waiting
  <2>4. Cardinality(Taken') + Waiting' + Cardinality(OnTheWay') <= granted'
    BY <1>1, <1>3, <1>4, <1>5, <2>2, <2>3, ApprovalsFinite, ApprovalsSum
  <2> QED
    BY <2>4, ApprovalsSum
<1>6. ASSUME NoneTaken, approved' = approved PROVE OneRequestPerApproval'
  <2>1. Cardinality(Taken') <= Cardinality(Taken) /\ Cardinality(Taken') \in Nat
    BY <1>1, <1>6, TakenStays
  <2>2. Waiting' = Waiting
    BY <1>6 DEF Waiting
  <2>3. Cardinality(OnTheWay') <= Cardinality(OnTheWay)
    BY <1>1, <1>3, ApprovalsFinite
  <2>4. Cardinality(Taken') + Waiting' + Cardinality(OnTheWay') <= granted'
    BY <1>1, <1>3, <1>4, <2>1, <2>2, <2>3, ApprovalsFinite, ApprovalsSum
  <2> QED
    BY <2>4, ApprovalsSum
<1>7. CASE m.type = "intercept" /\ UNCHANGED <<approved, req>>
  <2>1. NoneTaken
    BY <1>7 DEF NoneTaken
  <2> QED
    BY <1>6, <1>7, <2>1
<1>8. CASE /\ approved' = approved
           /\ \/ m.type = "pending" /\ HearPending(m.id)
              \/ m.type = "decision" /\ HearDecision(m.id, m.proceed)
  <2>1. PICK r \in Requests : r = m.id
    BY <1>8 DEF Messages, Unlocks, Asks
  <2>2. req' = req => NoneTaken
    BY DEF NoneTaken
  <2>3. ASSUME NEW p \in {"held", "aborted"}, req' = [req EXCEPT ![r].pc = p] PROVE NoneTaken
    <3>1. p \in PCs
      BY DEF PCs
    <3> QED
      BY <1>1, <2>3, <3>1, PcNoneTaken
  <2>4. ASSUME Leave(r, "decision") PROVE NoneTaken
    <3>1. req'[r].via # "approval" /\ \A q \in Requests \ {r} : req'[q] = req[q]
      BY <1>1, <2>4, LeaveVia DEF Vias
    <3> QED
      BY <3>1 DEF NoneTaken
  <2>5. \/ req' = req
        \/ req' = [req EXCEPT ![r].pc = "held"]
        \/ Leave(r, "decision")
        \/ req' = [req EXCEPT ![r].pc = "aborted"]
    BY <1>8, <2>1 DEF HearPending, HearDecision, Leave
  <2>6. NoneTaken
    BY <2>2, <2>3, <2>4, <2>5
  <2> QED
    BY <1>6, <1>8, <2>6
<1> QED
  BY <1>2, <1>5, <1>7, <1>8 DEF Deliver

\* The bridge posts no approval.
LEMMA BridgeApproval ==
  ASSUME PathInv, IntentTypes, OneRequestPerApproval, NEW r \in Requests, Bridge(r)
  PROVE  OneRequestPerApproval'
<1>1. /\ wire \in Seq(Messages) /\ granted \in Nat
      /\ UNCHANGED <<approved, granted, req>>
  <2>1. wire \in Seq(Messages) /\ granted \in Nat
    BY SendAssumption DEF PathInv, PageTypes, IntentTypes
  <2>2. UNCHANGED <<approved, granted, req>>
    BY DEF Bridge, BridgeDetect, BridgeShow, BridgeAnswer, BridgeDecide
  <2> QED
    BY <2>1, <2>2
<1>2. NoneTaken
  BY <1>1 DEF NoneTaken
<1>3. ASSUME NEW ty \in {"pending", "decision"}, NEW p \in BOOLEAN,
             Post([type |-> ty, id |-> r, proceed |-> p])
      PROVE  \E m \in Messages : Post(m) /\ m.type # "unlock"
  <2> DEFINE m == [type |-> ty, id |-> r, proceed |-> p]
  <2>1. m \in Messages /\ m.type # "unlock"
    BY AskIsMessage
  <2>2. Post(m)
    BY <1>3
  <2> HIDE DEF m
  <2> QED
    BY <2>1, <2>2
<1>4. wire' = wire \/ \E m \in Messages : Post(m) /\ m.type # "unlock"
  <2>1. CASE BridgeDetect(r)
    BY <1>3, <2>1 DEF BridgeDetect, Decide
  <2>2. CASE BridgeDecide(r)
    <3>1. (bridge[r] = "waved") \in BOOLEAN
      OBVIOUS
    <3> QED
      BY <1>3, <2>2, <3>1 DEF BridgeDecide, Decide
  <2> QED
    BY <2>1, <2>2 DEF Bridge, BridgeShow, BridgeAnswer
<1> QED
  BY <1>1, <1>2, <1>4, NoApproval

LEMMA ApprovalStep ==
  ASSUME SendInv, OneRequestPerApproval, [Next]_vars
  PROVE  OneRequestPerApproval'
<1> USE DEF SendInv
<1>1. wire \in Seq(Messages) /\ req \in [Requests -> Reqs] /\ granted \in Nat
  BY SendAssumption DEF PathInv, PageTypes, IntentTypes
<1>2. CASE UNCHANGED <<wire, approved, req, granted>>
  <2>1. NoneTaken
    BY <1>2 DEF NoneTaken
  <2> QED
    BY <1>1, <1>2, <2>1, NoApproval
<1>3. ASSUME NEW r \in Requests, SiteSends(r) PROVE OneRequestPerApproval'
  <2>1. NoneTaken
    BY <1>1, <1>3, QueueNoneTaken DEF SiteSends
  <2> QED
    BY <1>1, <1>3, <2>1, NoApproval DEF SiteSends
<1>4. CASE PressSend \/ IntentDetect
  <2>1. Click \/ UNCHANGED <<wire, req, granted>>
    BY <1>4 DEF PressSend, IntentDetect, ProceedUnchecked
  <2>2. UNCHANGED <<approved, wire, granted>>
    BY <1>4 DEF PressSend, IntentDetect, ProceedUnchecked, Keep
  <2> QED
    BY <1>2, <2>1, <2>2, ClickApproval
<1>5. CASE IntentProceed
  BY <1>5, ClickApproval DEF IntentProceed, Proceed, Keep
<1>6. CASE IntentShow \/ IntentAnswer \/ IntentSettle
  BY <1>2, <1>6 DEF IntentShow, IntentAnswer, IntentSettle, Keep
<1>7. CASE Edit
  BY <1>2, <1>7 DEF Edit
<1>8. ASSUME NEW r \in Requests, Interceptor(r) PROVE OneRequestPerApproval'
  BY <1>8, OverrideApproval, ReadApproval DEF Interceptor
<1> QED
  BY <1>2, <1>3, <1>4, <1>5, <1>6, <1>7, <1>8, ArrivingApproval, BridgeApproval
     DEF Next, Handler, vars

(* An approval that the content script posts lets one request through at   *)
(* most: nextFetchApproved is cleared by the request that takes it, and a  *)
(* flag that is set again while it is set loses one.                       *)
THEOREM SendApprovals == Spec => []OneRequestPerApproval
<1>1. Init => OneRequestPerApproval
  <2> SUFFICES ASSUME Init PROVE OneRequestPerApproval
    OBVIOUS
  <2>1. Taken = {} /\ OnTheWay = {} /\ Waiting = 0 /\ granted = 0
    BY DEF Init, Unused, Taken, OnTheWay, Waiting
  <2> QED
    BY <2>1, FS_EmptySet, ApprovalsSum
<1> QED
  BY <1>1, ApprovalStep, SendInductive, PTL DEF Spec

-----------------------------------------------------------------------------
(* Induction, stated with sets.                                            *)

LEMMA LeastElement ==
  ASSUME NEW T, T \subseteq Nat, T # {}
  PROVE  \E n \in T : \A m \in T : n <= m
<1>1. PICK n \in T : \A m \in T : ~(<<m, n>> \in OpToRel(<, Nat))
  BY NatLessThanWellFounded, WFMin
<1>2. ASSUME NEW m \in T PROVE n <= m
  <2>1. CASE m < n
    <3>1. <<m, n>> \in Nat \X Nat /\ <<m, n>>[1] < <<m, n>>[2]
      BY <2>1
    <3>2. <<m, n>> \in OpToRel(<, Nat)
      BY <3>1 DEF OpToRel
    <3> QED
      BY <1>1, <3>2
  <2> QED
    BY <2>1
<1> QED
  BY <1>1, <1>2

LEMMA SetInduction ==
  ASSUME NEW T, 0 \in T, \A n \in T \cap Nat : n + 1 \in T
  PROVE  Nat \subseteq T
<1> DEFINE U == Nat \ T
<1>1. CASE U # {}
  <2>1. PICK n \in U : \A m \in U : n <= m
    BY <1>1, LeastElement
  <2>2. n # 0 /\ n - 1 \in Nat /\ n - 1 \notin U
    BY <2>1
  <2>3. n - 1 \in T \cap Nat /\ (n - 1) + 1 = n
    BY <2>2
  <2> QED
    BY <2>1, <2>3
<1> QED
  BY <1>1

-----------------------------------------------------------------------------
(* The engine's verdict.                                                   *)

\* Its two loops over findings, the merge and the choice of the action.
Start(loop) == IF loop = "merge" THEN <<>> ELSE "log"
Turn(loop, was, f) == IF loop = "merge" THEN MergeOne(was, f) ELSE MaxAction(was, f.action)
Folding(loop, fs, at, s) ==
  IF s = {} THEN Start(loop) ELSE Turn(loop, at[s \ {Max(s)}], fs[Max(s)])

LEMMA MaxIs ==
  ASSUME NEW s, s \subseteq Nat, NEW m \in s, \A i \in s : i <= m
  PROVE  Max(s) = m
<1>1. \A i \in s : m >= i
  OBVIOUS
<1>2. \A x \in s : (\A y \in s : x >= y) => x = m
  OBVIOUS
<1> QED
  BY <1>1, <1>2 DEF Max

\* There is a function that a fold chooses.
LEMMA FoldExists ==
  ASSUME NEW loop, NEW fs, NEW n \in Nat
  PROVE  \E at : at = [s \in SUBSET (1..n) |-> Folding(loop, fs, at, s)]
<1> DEFINE Folds(m, f) == \A s \in SUBSET (1..m) : f[s] = Folding(loop, fs, f, s)
           T == {m \in Nat : \E f : f = [s \in SUBSET (1..m) |-> f[s]] /\ Folds(m, f)}
<1>1. 0 \in T
  <2> DEFINE f == [s \in SUBSET (1..0) |-> Start(loop)]
  <2>1. \A s \in SUBSET (1..0) : s = {}
    OBVIOUS
  <2>2. Folds(0, f)
    BY <2>1 DEF Folding
  <2>3. f = [s \in SUBSET (1..0) |-> f[s]]
    OBVIOUS
  <2> QED
    BY <2>2, <2>3
<1>2. ASSUME NEW m \in T \cap Nat PROVE m + 1 \in T
  <2>1. PICK f : f = [s \in SUBSET (1..m) |-> f[s]] /\ Folds(m, f)
    OBVIOUS
  <2> DEFINE g == [s \in SUBSET (1..(m + 1)) |->
                     IF s \in SUBSET (1..m) THEN f[s] ELSE Folding(loop, fs, f, s)]
  <2>2. \A s \in SUBSET (1..m) : s \in SUBSET (1..(m + 1)) /\ g[s] = f[s]
    OBVIOUS
  <2>3. ASSUME NEW s \in SUBSET (1..(m + 1)) PROVE g[s] = Folding(loop, fs, g, s)
    <3>1. CASE s \in SUBSET (1..m)
      <4>1. s # {} => s \ {Max(s)} \in SUBSET (1..m)
        BY <3>1
      <4>2. s # {} => g[s \ {Max(s)}] = f[s \ {Max(s)}]
        BY <4>1, <2>2
      <4>3. Folding(loop, fs, g, s) = Folding(loop, fs, f, s)
        BY <4>2 DEF Folding
      <4> QED
        BY <2>1, <2>2, <3>1, <4>3
    <3>2. CASE s \notin SUBSET (1..m)
      <4>1. m + 1 \in s
        BY <3>2
      <4>2. Max(s) = m + 1
        BY <4>1, MaxIs
      <4>3. s \ {Max(s)} \in SUBSET (1..m)
        BY <4>2
      <4>4. g[s \ {Max(s)}] = f[s \ {Max(s)}]
        BY <4>3, <2>2
      <4>5. Folding(loop, fs, g, s) = Folding(loop, fs, f, s)
        BY <4>4 DEF Folding
      <4> QED
        BY <3>2, <4>5
    <3> QED
      BY <3>1, <3>2
  <2>4. g = [s \in SUBSET (1..(m + 1)) |-> g[s]]
    OBVIOUS
  <2> HIDE DEF g
  <2>5. Folds(m + 1, g)
    BY <2>3
  <2>6. \E h : h = [s \in SUBSET (1..(m + 1)) |-> h[s]] /\ Folds(m + 1, h)
    <3> HIDE DEF Folds
    <3> QED
      BY <2>4, <2>5, Zenon
  <2>7. m + 1 \in Nat
    OBVIOUS
  <2> HIDE DEF Folds
  <2> QED
    BY <2>6, <2>7
<1>3. n \in T
  <2> HIDE DEF T
  <2> QED
    BY <1>1, <1>2, SetInduction
<1>4. PICK f : f = [s \in SUBSET (1..n) |-> f[s]] /\ Folds(n, f)
  BY <1>3
<1>5. f = [s \in SUBSET (1..n) |-> Folding(loop, fs, f, s)]
  <2>1. [s \in SUBSET (1..n) |-> f[s]] = [s \in SUBSET (1..n) |-> Folding(loop, fs, f, s)]
    BY <1>4
  <2> QED
    BY <1>4, <2>1
<1> QED
  BY <1>5

\* It goes through the findings in order.
Result(loop, fs) ==
  IF loop = "merge" THEN DedupeIdenticalSpanFindings(fs)
  ELSE FoldLeft(LAMBDA a, f : MaxAction(a, f.action), "log", fs)

LEMMA FoldRuns ==
  ASSUME NEW loop \in {"merge", "action"}, NEW fs, NEW n \in Nat, DOMAIN fs = 1..n
  PROVE  \E run : /\ run[0] = Start(loop)
                  /\ \A k \in 1..n : run[k] = Turn(loop, run[k - 1], fs[k])
                  /\ Result(loop, fs) = run[n]
<1> DEFINE Is(at) == at = [s \in SUBSET (1..n) |-> Folding(loop, fs, at, s)]
           at == CHOOSE f : Is(f)
<1>1. Is(at)
  <2>1. \E f : Is(f)
    BY FoldExists
  <2> HIDE DEF Is
  <2> QED
    BY <2>1, Zenon
<1>2. Result(loop, fs) = at[1..n]
  <2>1. CASE loop = "merge"
    BY <2>1 DEF Result, DedupeIdenticalSpanFindings, FoldLeft, MapThenFoldSet, Folding, Start, Turn
  <2>2. CASE loop = "action"
    BY <2>2 DEF Result, FoldLeft, MapThenFoldSet, Folding, Start, Turn
  <2> QED
    BY <2>1, <2>2
<1> HIDE DEF at
<1> DEFINE run == [k \in 0..n |-> at[1..k]]
<1>3. \A s \in SUBSET (1..n) : at[s] = Folding(loop, fs, at, s)
  BY <1>1
<1>4. run[0] = Start(loop)
  <2>1. 1..0 = {} /\ 1..0 \in SUBSET (1..n)
    OBVIOUS
  <2>2. at[1..0] = Start(loop)
    BY <1>3, <2>1 DEF Folding
  <2> QED
    BY <2>2
<1>5. ASSUME NEW k \in 1..n PROVE run[k] = Turn(loop, run[k - 1], fs[k])
  <2>1. 1..k \in SUBSET (1..n) /\ k \in 1..k /\ 1..k # {} /\ k - 1 \in 0..n
    OBVIOUS
  <2>2. Max(1..k) = k
    <3>1. 1..k \subseteq Nat /\ \A i \in 1..k : i <= k
      OBVIOUS
    <3> QED
      BY <2>1, <3>1, MaxIs
  <2>3. (1..k) \ {k} = 1..(k - 1)
    OBVIOUS
  <2>4. at[1..k] = Turn(loop, at[1..(k - 1)], fs[k])
    BY <1>3, <2>1, <2>2, <2>3 DEF Folding
  <2> QED
    BY <2>1, <2>4
<1>6. Result(loop, fs) = run[n]
  BY <1>2
<1> HIDE DEF run
<1> QED
  BY <1>4, <1>5, <1>6

\* What a rule of a policy can report.
Reported ==
  {f \in [severity : {"medium", "high"}, action : {"warn", "block"}, span : Spans,
          isEntropy : BOOLEAN] :
     /\ f.action = "block" => f.severity = "high"
     /\ f.action = "warn" /\ f.severity = "high" => f.span = WholeText /\ ~f.isEntropy}

LEMMA FindingType ==
  ASSUME NEW r \in PublishedRules, NEW span \in Spans
  PROVE  /\ Finding(BridgeRule(r), BridgeRule(r).action, span) \in Reported
         /\ r.kind = "score" => Finding(BridgeRule(r), "warn", WholeText) \in Reported
BY FindingsAssumption DEF PublishedRules, BridgeRule, Finding, ToSeverity, Reported

LEMMA RunRuleType ==
  ASSUME NEW doc \in Docs, NEW text \in TextsFor(doc), NEW i \in DOMAIN doc
  PROVE  RunRule(doc, i, text) \in Seq(Reported)
<1>1. doc[i] \in PublishedRules
  BY DEF Docs
<1>2. text.hits[i] \in HitLists
  BY DEF TextsFor
<1>3. BridgeRule(doc[i]).kind = "score" => doc[i].kind = "score"
  BY <1>1 DEF BridgeRule, PublishedRules
<1>4. CASE BridgeRule(doc[i]).kind = "score"
  <2>1. RunRule(doc, i, text) = RunScoreRule(BridgeRule(doc[i]), text)
    BY <1>4 DEF RunRule
  <2>2. WholeText \in Spans
    BY FindingsAssumption
  <2>3. /\ Finding(BridgeRule(doc[i]), BridgeRule(doc[i]).action, WholeText) \in Reported
        /\ Finding(BridgeRule(doc[i]), "warn", WholeText) \in Reported
    BY <1>1, <1>3, <1>4, <2>2, FindingType
  <2>4. \/ RunRule(doc, i, text) = <<>>
        \/ RunRule(doc, i, text) = <<Finding(BridgeRule(doc[i]), BridgeRule(doc[i]).action, WholeText)>>
        \/ RunRule(doc, i, text) = <<Finding(BridgeRule(doc[i]), "warn", WholeText)>>
    BY <2>1 DEF RunScoreRule
  <2>5. <<>> \in Seq(Reported) /\ \A f \in Reported : <<f>> \in Seq(Reported)
    OBVIOUS
  <2> HIDE DEF Reported
  <2> QED
    BY <2>3, <2>4, <2>5
<1>5. CASE BridgeRule(doc[i]).kind # "score"
  <2>1. RunRule(doc, i, text)
          = [k \in DOMAIN text.hits[i] |->
               Finding(BridgeRule(doc[i]), BridgeRule(doc[i]).action, text.hits[i][k])]
    BY <1>5 DEF RunRule
  <2>2. \E n \in Nat : DOMAIN text.hits[i] = 1..n /\ \A k \in 1..n : text.hits[i][k] \in Spans
    <3>1. CASE text.hits[i] = <<>>
      <4>1. 0 \in Nat /\ DOMAIN text.hits[i] = 1..0 /\ \A k \in 1..0 : text.hits[i][k] \in Spans
        BY <3>1
      <4> QED
        BY <4>1
    <3>2. CASE \E s \in Spans : text.hits[i] = <<s>>
      <4>1. 1 \in Nat /\ DOMAIN text.hits[i] = 1..1 /\ \A k \in 1..1 : text.hits[i][k] \in Spans
        BY <3>2
      <4> QED
        BY <4>1
    <3> QED
      BY <1>2, <3>1, <3>2 DEF HitLists
  <2>3. PICK n \in Nat : DOMAIN text.hits[i] = 1..n /\ \A k \in 1..n : text.hits[i][k] \in Spans
    BY <2>2
  <2>4. \A k \in 1..n : Finding(BridgeRule(doc[i]), BridgeRule(doc[i]).action, text.hits[i][k])
                          \in Reported
    BY <1>1, <2>3, FindingType
  <2> QED
    BY <2>1, <2>3, <2>4
<1> QED
  BY <1>4, <1>5

\* The lists of all rules, one after the other.
LEMMA FlattenType ==
  ASSUME NEW F, NEW n \in Nat, NEW lists, lists = [i \in 1..n |-> lists[i]],
         \A i \in 1..n : lists[i] \in Seq(F)
  PROVE  FlattenSeq(lists) \in Seq(F)
<1> DEFINE Next1(f, i) == IF i = 1 THEN lists[i] ELSE f[i - 1] \o lists[i]
           Runs(m, f) == \A i \in 1..m : f[i] = Next1(f, i)
           T == {m \in Nat : \E f : f = [i \in 1..m |-> f[i]] /\ Runs(m, f)}
<1>1. 0 \in T
  <2>1. Runs(0, [i \in 1..0 |-> <<>>])
    OBVIOUS
  <2> QED
    BY <2>1
<1>2. ASSUME NEW m \in T \cap Nat PROVE m + 1 \in T
  <2>1. PICK f : f = [i \in 1..m |-> f[i]] /\ Runs(m, f)
    OBVIOUS
  <2> DEFINE g == [i \in 1..(m + 1) |-> IF i = m + 1 THEN Next1(f, m + 1) ELSE f[i]]
  <2>2. \A i \in 1..m : g[i] = f[i]
    OBVIOUS
  <2>3. ASSUME NEW i \in 1..(m + 1) PROVE g[i] = Next1(g, i)
    <3>1. i # 1 => i - 1 \in 1..m /\ g[i - 1] = f[i - 1]
      BY <2>2
    <3>2. Next1(g, i) = Next1(f, i)
      BY <3>1
    <3>3. CASE i = m + 1
      BY <3>2, <3>3
    <3>4. CASE i # m + 1
      <4>1. i \in 1..m
        BY <3>4
      <4> QED
        BY <2>1, <2>2, <3>2, <4>1
    <3> QED
      BY <3>3, <3>4
  <2>4. g = [i \in 1..(m + 1) |-> g[i]]
    OBVIOUS
  <2> HIDE DEF g
  <2>5. Runs(m + 1, g)
    BY <2>3
  <2>6. \E h : h = [i \in 1..(m + 1) |-> h[i]] /\ Runs(m + 1, h)
    <3> HIDE DEF Runs
    <3> QED
      BY <2>4, <2>5, Zenon
  <2>7. m + 1 \in Nat
    OBVIOUS
  <2> HIDE DEF Runs
  <2> QED
    BY <2>6, <2>7
<1>3. \E f : f = [i \in 1..n |-> f[i]] /\ Runs(n, f)
  <2>1. n \in T
    <3> HIDE DEF T
    <3> QED
      BY <1>1, <1>2, SetInduction
  <2> QED
    BY <2>1
<1> DEFINE Is(f) == f = [i \in 1..Len(lists) |-> Next1(f, i)]
           flat == CHOOSE f : Is(f)
<1>4. Len(lists) = n
  OBVIOUS
<1>5. Is(flat)
  <2>1. PICK f : f = [i \in 1..n |-> f[i]] /\ Runs(n, f)
    BY <1>3
  <2>2. [i \in 1..n |-> f[i]] = [i \in 1..n |-> Next1(f, i)]
    BY <2>1
  <2>3. Is(f)
    BY <2>1, <2>2, <1>4
  <2> HIDE DEF Is
  <2> QED
    BY <2>3, Zenon
<1>6. CASE n = 0
  <2>1. FlattenSeq(lists) = lists
    BY <1>4, <1>6 DEF FlattenSeq
  <2>2. lists = <<>>
    BY <1>4, <1>6
  <2>3. <<>> \in Seq(F)
    OBVIOUS
  <2> QED
    BY <2>1, <2>2, <2>3
<1>7. CASE n # 0
  <2>1. FlattenSeq(lists) = flat[Len(lists)]
    BY <1>4, <1>7 DEF FlattenSeq
  <2>2. \A i \in 1..n : flat[i] = Next1(flat, i)
    BY <1>4, <1>5
  <2> HIDE DEF flat
  <2> DEFINE U == {i \in Nat : i + 1 <= n => flat[i + 1] \in Seq(F)}
  <2>3. 0 \in U
    BY <2>2
  <2>4. ASSUME NEW i \in U \cap Nat PROVE i + 1 \in U
    <3> SUFFICES ASSUME i + 2 <= n PROVE flat[i + 2] \in Seq(F)
      OBVIOUS
    <3>1. flat[i + 2] = flat[i + 1] \o lists[i + 2]
      <4>1. i + 2 \in 1..n /\ i + 2 # 1 /\ (i + 2) - 1 = i + 1
        OBVIOUS
      <4> QED
        BY <2>2, <4>1
    <3>2. flat[i + 1] \in Seq(F) /\ lists[i + 2] \in Seq(F)
      OBVIOUS
    <3> QED
      BY <3>1, <3>2
  <2>5. n - 1 \in U
    <3> HIDE DEF U
    <3> QED
      BY <1>7, <2>3, <2>4, SetInduction
  <2> QED
    BY <1>4, <1>7, <2>1, <2>5
<1> QED
  BY <1>6, <1>7

LEMMA AllFindingsType ==
  ASSUME NEW doc \in Docs, NEW text \in TextsFor(doc)
  PROVE  AllFindings(doc, text) \in Seq(Reported)
<1> DEFINE lists == [i \in DOMAIN doc |-> RunRule(doc, i, text)]
<1>1. PICK n \in 0..MaxRules : DOMAIN doc = 1..n
  BY DEF Docs
<1>2. n \in Nat
  BY FindingsAssumption
<1>3. \A i \in 1..n : lists[i] \in Seq(Reported)
  BY <1>1, RunRuleType
<1>4. lists = [i \in 1..n |-> lists[i]]
  BY <1>1
<1>5. AllFindings(doc, text) = FlattenSeq(lists)
  BY DEF AllFindings
<1> HIDE DEF lists
<1> QED
  BY <1>2, <1>3, <1>4, <1>5, FlattenType

LEMMA Ranks ==
  /\ Rank(Severities, "medium") = 2 /\ Rank(Severities, "high") = 3
  /\ Rank(ActionOrder, "log") = 1 /\ Rank(ActionOrder, "warn") = 2
  /\ Rank(ActionOrder, "block") = 4
<1>1. ASSUME NEW order, NEW i \in DOMAIN order, \A j \in DOMAIN order : order[j] = order[i] => j = i
      PROVE  Rank(order, order[i]) = i
  BY <1>1 DEF Rank
<1>2. DOMAIN Severities = 1..4 /\ DOMAIN ActionOrder = 1..4
  BY DEF Severities, ActionOrder
<1>3. /\ Severities[1] = "low" /\ Severities[2] = "medium"
      /\ Severities[3] = "high" /\ Severities[4] = "critical"
      /\ ActionOrder[1] = "log" /\ ActionOrder[2] = "warn"
      /\ ActionOrder[3] = "require_confirmation" /\ ActionOrder[4] = "block"
  BY DEF Severities, ActionOrder
<1>4. \A j \in 1..4 : j = 1 \/ j = 2 \/ j = 3 \/ j = 4
  OBVIOUS
<1>5. /\ \A j \in 1..4 : Severities[j] = "medium" => j = 2
      /\ \A j \in 1..4 : Severities[j] = "high" => j = 3
      /\ \A j \in 1..4 : ActionOrder[j] = "log" => j = 1
      /\ \A j \in 1..4 : ActionOrder[j] = "warn" => j = 2
      /\ \A j \in 1..4 : ActionOrder[j] = "block" => j = 4
  BY <1>3, <1>4
<1>6. Rank(Severities, Severities[2]) = 2
  BY <1>1, <1>2, <1>3, <1>5
<1>7. Rank(Severities, Severities[3]) = 3
  BY <1>1, <1>2, <1>3, <1>5
<1>8. Rank(ActionOrder, ActionOrder[1]) = 1
  BY <1>1, <1>2, <1>3, <1>5
<1>9. Rank(ActionOrder, ActionOrder[2]) = 2
  BY <1>1, <1>2, <1>3, <1>5
<1>10. Rank(ActionOrder, ActionOrder[4]) = 4
  BY <1>1, <1>2, <1>3, <1>5
<1> QED
  BY <1>3, <1>6, <1>7, <1>8, <1>9, <1>10

LEMMA SeverityRank == \A f \in Reported : Rank(Severities, f.severity) \in {2, 3}
BY Ranks DEF Reported

-----------------------------------------------------------------------------
(* The merge.                                                              *)

\* The finding at j is to be kept rather than the one at i, which is on the same span.
Beats(found, j, i) ==
  \/ Rank(Severities, found[j].severity) > Rank(Severities, found[i].severity)
  \/ /\ Rank(Severities, found[j].severity) = Rank(Severities, found[i].severity)
     /\ found[j].isEntropy => found[i].isEntropy
     /\ found[j].isEntropy = found[i].isEntropy => i <= j

\* The finding at j is the one to be kept of those up to n.
Stands(found, n, j) == \A i \in 1..n : found[i].span = found[j].span => Beats(found, j, i)

\* What has been kept of those up to n.
Kept(found, n, kept) ==
  /\ kept \in Seq(Reported)
  /\ \A i \in 1..n : \E k \in 1..Len(kept) : kept[k].span = found[i].span
  /\ \A i, k \in 1..Len(kept) : kept[i].span = kept[k].span => i = k
  /\ \A k \in 1..Len(kept) : \E j \in 1..n : kept[k] = found[j] /\ Stands(found, n, j)

LEMMA BeatsNext ==
  ASSUME NEW found \in Seq(Reported), NEW n \in Nat, n + 1 \in 1..Len(found),
         NEW j \in 1..n, Stands(found, n, j), found[n + 1].span = found[j].span
  PROVE  IF KeepCandidate(found[n + 1], found[j])
           THEN Stands(found, n + 1, n + 1) ELSE Stands(found, n + 1, j)
<1>1. \A i \in 1..(n + 1) : /\ found[i] \in Reported /\ found[i].isEntropy \in BOOLEAN
                            /\ Rank(Severities, found[i].severity) \in {2, 3}
  <2>1. \A i \in 1..(n + 1) : found[i] \in Reported
    OBVIOUS
  <2> QED
    BY <2>1, SeverityRank DEF Reported
<1>2. \A i \in 1..n : found[i].span = found[j].span => Beats(found, j, i)
  BY DEF Stands
<1>3. \A i \in 1..(n + 1) : i = n + 1 \/ i \in 1..n
  OBVIOUS
<1> DEFINE rank(i) == Rank(Severities, found[i].severity)
           weak(i) == found[i].isEntropy
<1>4. CASE KeepCandidate(found[n + 1], found[j])
  <2>1. rank(n + 1) > rank(j) \/ (rank(n + 1) = rank(j) /\ (weak(n + 1) => weak(j)))
    BY <1>4 DEF KeepCandidate
  <2>2. ASSUME NEW i \in 1..n, found[i].span = found[j].span PROVE Beats(found, n + 1, i)
    <3>1. \/ rank(j) > rank(i)
          \/ rank(j) = rank(i) /\ (weak(j) => weak(i))
      BY <1>2, <2>2 DEF Beats
    <3>2. rank(i) \in Nat /\ rank(j) \in Nat /\ rank(n + 1) \in Nat /\ i <= n + 1
      BY <1>1
    <3>3. rank(n + 1) > rank(i) \/ (rank(n + 1) = rank(i) /\ (weak(n + 1) => weak(i)))
      <4> HIDE DEF rank, weak
      <4> QED
        BY <2>1, <3>1, <3>2
    <3> QED
      BY <3>2, <3>3 DEF Beats
  <2>3. Beats(found, n + 1, n + 1)
    BY <1>1 DEF Beats
  <2> QED
    BY <1>3, <1>4, <2>2, <2>3 DEF Stands
<1>5. CASE ~KeepCandidate(found[n + 1], found[j])
  <2>1. ~(rank(n + 1) > rank(j)) /\ ~(rank(n + 1) = rank(j) /\ (weak(n + 1) => weak(j)))
    BY <1>5 DEF KeepCandidate
  <2>2. rank(j) \in {2, 3} /\ rank(n + 1) \in {2, 3} /\ n + 1 \in 1..(n + 1)
    BY <1>1
  <2>3. rank(j) > rank(n + 1) \/ (rank(j) = rank(n + 1) /\ weak(n + 1) /\ ~weak(j))
    <3> HIDE DEF rank, weak
    <3> QED
      BY <2>1, <2>2
  <2>4. Beats(found, j, n + 1)
    BY <2>3 DEF Beats
  <2> QED
    BY <1>2, <1>3, <1>5, <2>4 DEF Stands
<1> QED
  BY <1>4, <1>5

LEMMA StandsMore ==
  ASSUME NEW found, NEW n \in Nat, NEW j, Stands(found, n, j), found[n + 1].span # found[j].span
  PROVE  Stands(found, n + 1, j)
<1>1. \A i \in 1..(n + 1) : i = n + 1 \/ i \in 1..n
  OBVIOUS
<1> QED
  BY <1>1 DEF Stands

LEMMA MergeKeeps ==
  ASSUME NEW found \in Seq(Reported), NEW n \in Nat, n + 1 \in 1..Len(found),
         NEW kept, Kept(found, n, kept)
  PROVE  Kept(found, n + 1, MergeOne(kept, found[n + 1]))
<1> DEFINE f == found[n + 1]
           more == MergeOne(kept, f)
<1>1. /\ kept \in Seq(Reported) /\ f \in Reported /\ DOMAIN kept = 1..Len(kept) /\ Len(kept) \in Nat
      /\ \A k \in 1..Len(kept) : kept[k] \in Reported
  BY DEF Kept
<1>2. \A i \in 1..n : \E k \in 1..Len(kept) : kept[k].span = found[i].span
  BY DEF Kept
<1>3. \A i, k \in 1..Len(kept) : kept[i].span = kept[k].span => i = k
  BY DEF Kept
<1>4. \A k \in 1..Len(kept) : \E j \in 1..n : kept[k] = found[j] /\ Stands(found, n, j)
  BY DEF Kept
<1>5. \A i \in 1..(n + 1) : i = n + 1 \/ i \in 1..n
  OBVIOUS
<1>6. 1..n \subseteq 1..(n + 1) /\ n + 1 \in 1..(n + 1)
  OBVIOUS
<1>7. CASE \A k \in 1..Len(kept) : kept[k].span # f.span
  <2>1. more = Append(kept, f)
    BY <1>1, <1>7 DEF MergeOne
  <2>2. /\ more \in Seq(Reported) /\ Len(more) = Len(kept) + 1 /\ more[Len(kept) + 1] = f
        /\ \A k \in 1..Len(kept) : more[k] = kept[k]
    BY <1>1, <2>1
  <2>3. \A k \in 1..Len(more) : k \in 1..Len(kept) \/ k = Len(kept) + 1
    BY <1>1, <2>2
  <2>4. 1..Len(kept) \subseteq 1..Len(more) /\ Len(kept) + 1 \in 1..Len(more)
    BY <1>1, <2>2
  <2> HIDE DEF more
  <2>5. ASSUME NEW i \in 1..(n + 1) PROVE \E k \in 1..Len(more) : more[k].span = found[i].span
    BY <1>2, <1>5, <2>2, <2>4
  <2>6. ASSUME NEW i \in 1..Len(more), NEW k \in 1..Len(more), more[i].span = more[k].span
        PROVE  i = k
    BY <1>3, <1>7, <2>2, <2>3, <2>6
  <2>7. ASSUME NEW k \in 1..Len(more)
        PROVE  \E j \in 1..(n + 1) : more[k] = found[j] /\ Stands(found, n + 1, j)
    <3>1. CASE k \in 1..Len(kept)
      <4>1. PICK j \in 1..n : kept[k] = found[j] /\ Stands(found, n, j)
        BY <1>4, <3>1
      <4>2. Stands(found, n + 1, j)
        BY <1>7, <3>1, <4>1, StandsMore
      <4> QED
        BY <1>6, <2>2, <3>1, <4>1, <4>2
    <3>2. CASE k = Len(kept) + 1
      <4>1. ASSUME NEW i \in 1..n PROVE found[i].span # f.span
        BY <1>2, <1>7
      <4>2. f.isEntropy \in BOOLEAN
        BY <1>1 DEF Reported
      <4>3. Beats(found, n + 1, n + 1)
        BY <4>2 DEF Beats
      <4>4. Stands(found, n + 1, n + 1)
        BY <1>5, <4>1, <4>3 DEF Stands
      <4> QED
        BY <1>6, <2>2, <3>2, <4>4
    <3> QED
      BY <2>3, <3>1, <3>2
  <2>8. \A i, k \in 1..Len(more) : more[i].span = more[k].span => i = k
    BY <2>6
  <2>9. Kept(found, n + 1, more)
    <3> HIDE DEF f
    <3> QED
      BY <2>2, <2>5, <2>7, <2>8, Zenon DEF Kept
  <2> QED
    BY <2>9 DEF more
<1>8. CASE ~\A k \in 1..Len(kept) : kept[k].span # f.span
  <2>1. PICK h \in 1..Len(kept) : kept[h].span = f.span
    BY <1>8
  <2>2. more = [k \in 1..Len(kept) |-> IF kept[k].span = f.span /\ KeepCandidate(f, kept[k])
                                         THEN f ELSE kept[k]]
    BY <1>1, <2>1 DEF MergeOne
  <2>3. /\ more \in Seq(Reported) /\ Len(more) = Len(kept)
        /\ \A k \in 1..Len(kept) : more[k] = IF kept[k].span = f.span /\ KeepCandidate(f, kept[k])
                                               THEN f ELSE kept[k]
    <3>1. \A k \in 1..Len(kept) : (IF kept[k].span = f.span /\ KeepCandidate(f, kept[k])
                                     THEN f ELSE kept[k]) \in Reported
      BY <1>1
    <3> HIDE DEF f
    <3> QED
      BY <1>1, <2>2, <3>1
  <2>4. \A k \in 1..Len(kept) : more[k].span = kept[k].span
    BY <2>3
  <2> HIDE DEF more
  <2>5. ASSUME NEW i \in 1..(n + 1) PROVE \E k \in 1..Len(more) : more[k].span = found[i].span
    BY <1>2, <1>5, <2>1, <2>3, <2>4
  <2>6. ASSUME NEW i \in 1..Len(more), NEW k \in 1..Len(more), more[i].span = more[k].span
        PROVE  i = k
    BY <1>3, <2>3, <2>4, <2>6
  <2>7. ASSUME NEW k \in 1..Len(more)
        PROVE  \E j \in 1..(n + 1) : more[k] = found[j] /\ Stands(found, n + 1, j)
    <3>1. PICK j \in 1..n : kept[k] = found[j] /\ Stands(found, n, j)
      BY <1>4, <2>3
    <3>2. CASE kept[k].span # f.span
      <4>1. Stands(found, n + 1, j)
        BY <3>1, <3>2, StandsMore
      <4> QED
        BY <1>6, <2>3, <3>1, <3>2, <4>1
    <3>3. CASE kept[k].span = f.span
      <4>1. IF KeepCandidate(f, found[j])
              THEN Stands(found, n + 1, n + 1) ELSE Stands(found, n + 1, j)
        BY <3>1, <3>3, BeatsNext
      <4>2. more[k] = IF KeepCandidate(f, found[j]) THEN f ELSE found[j]
        BY <2>3, <3>1, <3>3
      <4> QED
        BY <1>6, <4>1, <4>2
    <3> QED
      BY <3>2, <3>3
  <2>8. \A i, k \in 1..Len(more) : more[i].span = more[k].span => i = k
    BY <2>6
  <2>9. Kept(found, n + 1, more)
    <3> HIDE DEF f
    <3> QED
      BY <2>3, <2>5, <2>7, <2>8, Zenon DEF Kept
  <2> QED
    BY <2>9 DEF more
<1> QED
  BY <1>7, <1>8

LEMMA MergeKept ==
  ASSUME NEW found \in Seq(Reported)
  PROVE  Kept(found, Len(found), DedupeIdenticalSpanFindings(found))
<1> DEFINE n == Len(found)
<1>1. n \in Nat /\ DOMAIN found = 1..n
  OBVIOUS
<1>2. PICK run : /\ run[0] = <<>>
                 /\ \A k \in 1..n : run[k] = MergeOne(run[k - 1], found[k])
                 /\ DedupeIdenticalSpanFindings(found) = run[n]
  <2>1. PICK run : /\ run[0] = Start("merge")
                   /\ \A k \in 1..n : run[k] = Turn("merge", run[k - 1], found[k])
                   /\ Result("merge", found) = run[n]
    <3> HIDE DEF n
    <3> QED
      BY <1>1, FoldRuns
  <2> QED
    BY <2>1 DEF Start, Turn, Result
<1> DEFINE T == {k \in Nat : k <= n => Kept(found, k, run[k])}
<1>3. 0 \in T
  <2>1. Kept(found, 0, <<>>)
    BY DEF Kept
  <2> QED
    BY <1>2, <2>1
<1>4. ASSUME NEW k \in T \cap Nat PROVE k + 1 \in T
  <2> SUFFICES ASSUME k + 1 <= n PROVE Kept(found, k + 1, run[k + 1])
    OBVIOUS
  <2>1. k + 1 \in 1..n /\ (k + 1) - 1 = k /\ Kept(found, k, run[k])
    BY <1>1
  <2>2. run[k + 1] = MergeOne(run[k], found[k + 1])
    BY <1>2, <2>1
  <2> QED
    BY <2>1, <2>2, MergeKeeps
<1>5. n \in T
  <2> HIDE DEF T
  <2> QED
    BY <1>1, <1>3, <1>4, SetInduction
<1> QED
  BY <1>1, <1>2, <1>5

LEMMA MostSpecificIs ==
  ASSUME NEW found \in Seq(Reported), NEW j \in 1..Len(found), Stands(found, Len(found), j)
  PROVE  MostSpecific(found, found[j].span) = found[j]
<1> DEFINE Here == {k \in DOMAIN found : found[k].span = found[j].span}
           Top == {k \in Here : \A i \in Here : Rank(Severities, found[i].severity)
                                                  <= Rank(Severities, found[k].severity)}
           Structural == {k \in Top : ~found[k].isEntropy}
           S == IF Structural = {} THEN Top ELSE Structural
<1>1. DOMAIN found = 1..Len(found) /\ Len(found) \in Nat
  OBVIOUS
<1>2. \A i \in 1..Len(found) : /\ found[i].isEntropy \in BOOLEAN
                               /\ Rank(Severities, found[i].severity) \in {2, 3}
  <2>1. \A i \in 1..Len(found) : found[i] \in Reported
    OBVIOUS
  <2> QED
    BY <2>1, SeverityRank DEF Reported
<1>3. \A i \in Here : i \in 1..Len(found) /\ Beats(found, j, i)
  BY <1>1 DEF Stands
<1>4. j \in Top
  BY <1>1, <1>2, <1>3 DEF Beats
<1>5. \A i \in Top : Rank(Severities, found[i].severity) = Rank(Severities, found[j].severity)
  <2>1. \A i \in Top : /\ Rank(Severities, found[i].severity) <= Rank(Severities, found[j].severity)
                       /\ Rank(Severities, found[j].severity) <= Rank(Severities, found[i].severity)
                       /\ i \in 1..Len(found)
    BY <1>1, <1>4
  <2> QED
    BY <1>2, <2>1
<1>6. \A i \in Top : /\ found[j].isEntropy => found[i].isEntropy
                     /\ found[j].isEntropy = found[i].isEntropy => i <= j
  <2>1. \A i \in Top : Beats(found, j, i)
    BY <1>3
  <2>2. \A i \in Top : ~(Rank(Severities, found[j].severity) > Rank(Severities, found[i].severity))
    BY <1>2, <1>1, <1>5
  <2> QED
    BY <2>1, <2>2 DEF Beats
<1>7. j \in S /\ S \subseteq Top
  BY <1>4, <1>6
<1>8. \A i \in S : found[i].isEntropy = found[j].isEntropy
  <2>1. \A i \in Top : found[i].isEntropy \in BOOLEAN
    BY <1>1, <1>2
  <2>2. CASE Structural = {}
    BY <1>4, <2>1, <2>2
  <2>3. CASE Structural # {}
    BY <1>7, <2>1, <2>3
  <2> QED
    BY <2>2, <2>3
<1>9. S \subseteq Nat /\ \A i \in S : i <= j
  <2>1. Top \subseteq 1..Len(found)
    BY <1>1
  <2> HIDE DEF Top, S
  <2> QED
    BY <1>1, <1>6, <1>7, <1>8, <2>1
<1>10. Max(S) = j
  <2> HIDE DEF S
  <2> QED
    BY <1>7, <1>9, MaxIs
<1>11. MostSpecific(found, found[j].span) = found[Max(S)]
  BY DEF MostSpecific
<1> QED
  BY <1>10, <1>11

LEMMA MergeIsMostSpecific ==
  ASSUME NEW found \in Seq(Reported)
  PROVE  KeepsMostSpecific(found, DedupeIdenticalSpanFindings(found))
<1> DEFINE kept == DedupeIdenticalSpanFindings(found)
           n == Len(found)
<1>1. Kept(found, n, kept)
  BY MergeKept
<1> HIDE DEF kept
<1>2. DOMAIN found = 1..n /\ DOMAIN kept = 1..Len(kept)
  BY <1>1 DEF Kept
<1>3. \A k \in 1..Len(kept) : \E j \in 1..n : kept[k] = found[j] /\ Stands(found, n, j)
  BY <1>1 DEF Kept
<1>4. \A i \in 1..n : \E k \in 1..Len(kept) : kept[k].span = found[i].span
  BY <1>1 DEF Kept
<1>5. {kept[k].span : k \in DOMAIN kept} = {found[k].span : k \in DOMAIN found}
  <2>1. ASSUME NEW k \in 1..Len(kept) PROVE \E j \in 1..n : kept[k].span = found[j].span
    BY <1>3
  <2>2. ASSUME NEW j \in 1..n PROVE \E k \in 1..Len(kept) : kept[k].span = found[j].span
    BY <1>4
  <2>3. {kept[k].span : k \in 1..Len(kept)} \subseteq {found[k].span : k \in 1..n}
    BY <2>1
  <2>4. {found[k].span : k \in 1..n} \subseteq {kept[k].span : k \in 1..Len(kept)}
    BY <2>2
  <2> QED
    BY <1>2, <2>3, <2>4
<1>6. \A i, k \in DOMAIN kept : kept[i].span = kept[k].span => i = k
  BY <1>1, <1>2 DEF Kept
<1>7. ASSUME NEW k \in DOMAIN kept PROVE kept[k] = MostSpecific(found, kept[k].span)
  <2>1. PICK j \in 1..n : kept[k] = found[j] /\ Stands(found, n, j)
    BY <1>2, <1>3
  <2> QED
    BY <2>1, MostSpecificIs
<1> QED
  BY <1>5, <1>6, <1>7 DEF KeepsMostSpecific, kept

-----------------------------------------------------------------------------
(* The action.                                                             *)

Verdicts == {"log", "warn", "block"}
Weight(a) == Rank(ActionOrder, a)

LEMMA Heavier ==
  ASSUME NEW a \in Verdicts, NEW b \in Verdicts
  PROVE  /\ MaxAction(a, b) \in Verdicts
         /\ Weight(MaxAction(a, b)) >= Weight(a) /\ Weight(MaxAction(a, b)) >= Weight(b)
         /\ Weight(a) >= Weight(b) => MaxAction(a, b) = a
         /\ Weight(a) \in {1, 2, 4} /\ Weight(b) \in {1, 2, 4}
<1>1. Weight(a) \in {1, 2, 4} /\ Weight(b) \in {1, 2, 4}
  BY Ranks DEF Weight, Verdicts
<1> QED
  BY <1>1 DEF MaxAction, Weight

LEMMA ActionIsStrongest ==
  ASSUME NEW kept \in Seq(Reported)
  PROVE  /\ Result("action", kept) \in Verdicts
         /\ \A k \in 1..Len(kept) : Weight(Result("action", kept)) >= Weight(kept[k].action)
<1> DEFINE n == Len(kept)
<1>1. n \in Nat /\ DOMAIN kept = 1..n
  OBVIOUS
<1>2. PICK run : /\ run[0] = "log"
                 /\ \A k \in 1..n : run[k] = MaxAction(run[k - 1], kept[k].action)
                 /\ Result("action", kept) = run[n]
  <2>1. PICK run : /\ run[0] = Start("action")
                   /\ \A k \in 1..n : run[k] = Turn("action", run[k - 1], kept[k])
                   /\ Result("action", kept) = run[n]
    <3> HIDE DEF n
    <3> QED
      BY <1>1, FoldRuns
  <2> QED
    BY <2>1 DEF Start, Turn
<1> DEFINE Strongest(k) == /\ run[k] \in Verdicts
                           /\ \A i \in 1..k : Weight(run[k]) >= Weight(kept[i].action)
           T == {k \in Nat : k <= n => Strongest(k)}
<1>3. 0 \in T
  BY <1>2 DEF Verdicts
<1>4. ASSUME NEW k \in T \cap Nat PROVE k + 1 \in T
  <2> SUFFICES ASSUME k + 1 <= n PROVE Strongest(k + 1)
    OBVIOUS
  <2>1. k + 1 \in 1..n /\ (k + 1) - 1 = k /\ Strongest(k)
    BY <1>1
  <2>2. run[k + 1] = MaxAction(run[k], kept[k + 1].action)
    BY <1>2, <2>1
  <2>3. \A i \in 1..n : kept[i].action \in Verdicts
    <3>1. \A i \in 1..n : kept[i] \in Reported
      BY <1>1
    <3> QED
      BY <3>1 DEF Reported, Verdicts
  <2>4. /\ run[k + 1] \in Verdicts /\ Weight(run[k + 1]) >= Weight(run[k])
        /\ Weight(run[k + 1]) >= Weight(kept[k + 1].action)
    BY <2>1, <2>2, <2>3, Heavier
  <2>5. ASSUME NEW i \in 1..(k + 1) PROVE Weight(run[k + 1]) >= Weight(kept[i].action)
    <3>1. CASE i = k + 1
      BY <2>4, <3>1
    <3>2. CASE i # k + 1
      <4>1. i \in 1..k /\ i \in 1..n
        BY <2>1, <3>2
      <4>2. Weight(run[k]) >= Weight(kept[i].action)
        BY <2>1, <4>1
      <4>3. /\ Weight(run[k]) \in Nat /\ Weight(run[k + 1]) \in Nat
            /\ Weight(kept[i].action) \in Nat
        BY <2>1, <2>3, <2>4, <4>1, Heavier
      <4> QED
        BY <2>4, <4>2, <4>3
    <3> QED
      BY <3>1, <3>2
  <2> QED
    BY <2>4, <2>5
<1>5. n \in T
  <2> HIDE DEF T
  <2> QED
    BY <1>1, <1>3, <1>4, SetInduction
<1> QED
  BY <1>1, <1>2, <1>5

\* A block that the merge does not let decide has given way to a warning that stands higher.
LEMMA BlockGivesWay ==
  ASSUME NEW found \in Seq(Reported), NEW k \in 1..Len(found), NEW j \in 1..Len(found),
         found[k].action = "block", found[j].action # "block",
         found[j].span = found[k].span, Stands(found, Len(found), j)
  PROVE  Overruled(found)
<1>1. /\ found[k] \in Reported /\ found[j] \in Reported /\ DOMAIN found = 1..Len(found)
      /\ Len(found) \in Nat
  OBVIOUS
<1>2. found[k].severity = "high" /\ found[j].action = "warn" /\ found[j].severity \in {"medium", "high"}
  BY <1>1 DEF Reported
<1>3. Beats(found, j, k)
  BY DEF Stands
<1>4. found[j].severity = "high"
  BY <1>2, <1>3, Ranks DEF Beats
<1>5. found[j].span = WholeText /\ ~found[j].isEntropy
  BY <1>1, <1>2, <1>4 DEF Reported
<1>6. k < j \/ found[k].isEntropy
  <2>1. ~(Rank(Severities, found[j].severity) > Rank(Severities, found[k].severity))
    BY <1>2, <1>4, Ranks
  <2>2. found[j].isEntropy = found[k].isEntropy => k <= j
    BY <1>3, <2>1 DEF Beats
  <2>3. found[k].isEntropy \in BOOLEAN /\ found[j].isEntropy \in BOOLEAN
    BY <1>1 DEF Reported
  <2>4. k # j
    OBVIOUS
  <2> QED
    BY <1>5, <2>2, <2>3, <2>4
<1> QED
  BY <1>1, <1>2, <1>4, <1>5, <1>6 DEF Overruled

LEMMA StrongestVerdict == VerdictIsStrongest
<1> SUFFICES ASSUME NEW doc \in Docs, NEW text \in TextsFor(doc)
             PROVE  LET found == AllFindings(doc, text)
                        result == DetectPrompt(doc, FALSE, text)
                    IN /\ KeepsMostSpecific(found, result.findings)
                       /\ \/ \A k \in DOMAIN found :
                                MaxAction(result.highestAction, found[k].action)
                                  = result.highestAction
                          \/ Overruled(found)
  BY DEF VerdictIsStrongest
<1> DEFINE found == AllFindings(doc, text)
           kept == DedupeIdenticalSpanFindings(found)
           result == DetectPrompt(doc, FALSE, text)
           verdict == Result("action", kept)
<1>1. found \in Seq(Reported)
  BY AllFindingsType
<1>2. result.findings = kept /\ result.highestAction = verdict
  BY DEF DetectPrompt, Result
<1> HIDE DEF found, result
<1>3. KeepsMostSpecific(found, kept)
  BY <1>1, MergeIsMostSpecific
<1>4. Kept(found, Len(found), kept)
  BY <1>1, MergeKept
<1> HIDE DEF kept
<1>5. /\ kept \in Seq(Reported) /\ DOMAIN found = 1..Len(found)
      /\ \A i \in 1..Len(found) : found[i] \in Reported
      /\ \A i \in 1..Len(kept) : kept[i] \in Reported
  BY <1>1, <1>4 DEF Kept
<1>6. verdict \in Verdicts /\ \A k \in 1..Len(kept) : Weight(verdict) >= Weight(kept[k].action)
  BY <1>5, ActionIsStrongest
<1> HIDE DEF verdict
<1>7. ASSUME ~Overruled(found), NEW k \in 1..Len(found)
      PROVE  MaxAction(verdict, found[k].action) = verdict
  <2>1. PICK h \in 1..Len(kept) : kept[h].span = found[k].span
    BY <1>4 DEF Kept
  <2>2. PICK j \in 1..Len(found) : kept[h] = found[j] /\ Stands(found, Len(found), j)
    BY <1>4 DEF Kept
  <2>3. found[k].action = "block" => found[j].action = "block"
    BY <1>1, <1>7, <2>1, <2>2, BlockGivesWay
  <2>4. found[k].action \in {"warn", "block"} /\ found[j].action \in {"warn", "block"}
    BY <1>5 DEF Reported
  <2>5. Weight(found[j].action) >= Weight(found[k].action)
    BY <2>3, <2>4, Ranks DEF Weight
  <2>6. Weight(verdict) >= Weight(found[j].action)
    BY <1>6, <2>1, <2>2
  <2>7. /\ Weight(verdict) \in Nat /\ Weight(found[j].action) \in Nat
        /\ Weight(found[k].action) \in Nat /\ found[k].action \in Verdicts
    BY <1>6, <2>4, Heavier DEF Verdicts
  <2>8. Weight(verdict) >= Weight(found[k].action)
    BY <2>5, <2>6, <2>7
  <2> QED
    BY <1>6, <2>7, <2>8, Heavier
<1> QED
  BY <1>2, <1>3, <1>5, <1>7 DEF found, result

(* The engine's verdict is the strongest action of all it found, for any   *)
(* policy and any text, but for a block that an unconfirmed score rule     *)
(* overruled, and what it keeps of a span is the most specific finding     *)
(* there (detection/engine.ts).                                            *)
THEOREM SendVerdict == Spec => []VerdictHolds
<1>1. VerdictHolds
  BY StrongestVerdict DEF VerdictHolds
<1> QED
  BY <1>1, PTL

\* A text in which a rule that blocks has matched is one the engine blocks.
LEMMA BlockingIsBlocked ==
  ASSUME NEW t \in Texts, Blocking(t), ~Overruled(AllFindings(Doc, Content[t]))
  PROVE  Verdict[t] = "block"
<1> DEFINE found == AllFindings(Doc, Content[t])
<1>1. Doc \in Docs /\ Content[t] \in TextsFor(Doc) /\ Verdict[t] = Detect(t)
  BY PageAssumption
<1>2. /\ DetectPrompt(Doc, FALSE, Content[t]).highestAction = Verdict[t]
      /\ Verdict[t] \in Verdicts
  BY <1>1, SendAssumption DEF Detect, Verdicts
<1>3. \A k \in DOMAIN found : MaxAction(Verdict[t], found[k].action) = Verdict[t]
  BY <1>1, <1>2, StrongestVerdict DEF VerdictIsStrongest
<1>4. MaxAction(Verdict[t], "block") = Verdict[t]
  BY <1>3 DEF Blocking
<1>5. "block" \in Verdicts /\ Weight("block") = 4 /\ \A v \in Verdicts : v = "block" \/ Weight(v) <= 2
  BY Ranks DEF Verdicts, Weight
<1>6. Weight(Verdict[t]) >= Weight("block")
  BY <1>2, <1>4, <1>5, Heavier
<1> QED
  BY <1>2, <1>5, <1>6, Heavier

(* The page and the engine together: a request in whose text a rule that   *)
(* blocks has matched is let go on an answer only when detection failed or *)
(* that block was overruled (content-script.ts, detection/engine.ts).      *)
THEOREM SendBlocking == Spec => []BlockingRuleHolds
<1>1. SendInv => BlockingRuleHolds
  <2> SUFFICES ASSUME SendInv, NEW r \in Requests, req[r].via = "decision",
                      Blocking(req[r].text),
                      ~Overruled(AllFindings(Doc, Content[req[r].text]))
               PROVE  bridge[r] = "failed"
    BY DEF BlockingRuleHolds
  <2>1. Stage(r) /\ req \in [Requests -> Reqs]
    BY DEF SendInv, PathInv, BridgeInv, PageTypes
  <2>2. req[r].text \in Texts
    BY <2>1, OneReq DEF Blocking, AnyText
  <2>3. Verdict[req[r].text] = "block" /\ Flagged(req[r].text)
    BY <2>2, BlockingIsBlocked, SendAssumption DEF Flagged
  <2> QED
    BY <2>1, <2>3 DEF Stage, Released
<1> QED
  BY <1>1, SendInductive, PTL

-----------------------------------------------------------------------------
(* The refinement of PromptGate.                                           *)

Over == {"sent", "aborted"}

\* What a step does to a request and to what is known of it.
Rests(r) == req'[r] = req[r]
Comes(r) == req[r] = Unused /\ req'[r].pc \in Kinds /\ req'[r].via = "none"
Moves(r) == /\ req[r].pc \in NotAsked \ {"unused"} /\ req'[r].text = req[r].text
            /\ bridge'[r] = bridge[r]
            /\ \/ req'[r].pc \in {"asked", "reading"} /\ req'[r].via = req[r].via
               \/ req'[r].pc = "sent" /\ req'[r].via \in {"approval", "unseen"}
Tires(r) == /\ req[r].pc = "asked" /\ req'[r].text = req[r].text
            /\ req'[r].pc = "sent" /\ req'[r].via = "timeout"
Hears(r) == /\ req[r].pc \in {"asked", "held"} /\ req'[r].text = req[r].text
            /\ \/ req'[r].pc = "sent" /\ req'[r].via = "decision"
               \/ req'[r].pc \in {"aborted", "held"} /\ req'[r].via = req[r].via

Goes(r) == Rests(r) \/ Comes(r) \/ Moves(r) \/ Tires(r) \/ Hears(r)

\* What has been detected of a request stays so.
Learns(r) == Detected(r) => Detected(r)'

LEMMA QueueGoes ==
  ASSUME req \in [Requests -> Reqs], NEW q \in Requests, NEW t, NEW k \in Kinds, Queue(q, t, k)
  PROVE  \A r \in Requests : Goes(r)
<1> DEFINE new == [pc |-> k, text |-> t, via |-> "none"]
<1>1. req' = [req EXCEPT ![q] = new] /\ req[q] = Unused
  BY DEF Queue
<1>2. new.pc = k /\ new.via = "none"
  OBVIOUS
<1> HIDE DEF new
<1>3. req'[q] = new /\ \A r \in Requests \ {q} : req'[r] = req[r]
  BY <1>1
<1> QED
  BY <1>1, <1>2, <1>3 DEF Goes, Rests, Comes

LEMMA PcGoes ==
  ASSUME req \in [Requests -> Reqs], NEW q \in Requests, NEW p \in PCs,
         req' = [req EXCEPT ![q].pc = p],
         \/ req[q].pc \in NotAsked \ {"unused"} /\ p \in {"asked", "reading"} /\ bridge'[q] = bridge[q]
         \/ req[q].pc \in {"asked", "held"} /\ p \in {"aborted", "held"}
  PROVE  \A r \in Requests : Goes(r)
<1>1. /\ req'[q].pc = p /\ req'[q].text = req[q].text /\ req'[q].via = req[q].via
      /\ \A r \in Requests \ {q} : req'[r] = req[r]
  BY NewPc
<1> QED
  BY <1>1 DEF Goes, Rests, Moves, Hears

LEMMA LeaveGoes ==
  ASSUME req \in [Requests -> Reqs], NEW q \in Requests, NEW v \in Vias, Leave(q, v),
         \/ /\ req[q].pc \in NotAsked \ {"unused"} /\ v \in {"approval", "unseen"}
            /\ bridge'[q] = bridge[q]
         \/ req[q].pc = "asked" /\ v = "timeout"
         \/ req[q].pc \in {"asked", "held"} /\ v = "decision"
  PROVE  \A r \in Requests : Goes(r)
<1>1. "sent" \in PCs /\ req' = [req EXCEPT ![q].pc = "sent", ![q].via = v]
  BY DEF PCs, Leave
<1>2. /\ req'[q].pc = "sent" /\ req'[q].text = req[q].text /\ req'[q].via = v
      /\ \A r \in Requests \ {q} : req'[r] = req[r]
  BY <1>1, NewVia
<1> QED
  BY <1>2 DEF Goes, Rests, Moves, Tires, Hears

LEMMA DeliverGoes ==
  ASSUME PathInv, Deliver
  PROVE  \A r \in Requests : Goes(r) /\ Learns(r)
<1>1. req \in [Requests -> Reqs] /\ bridge \in [Requests -> BridgeStates]
  BY DEF PathInv, PageTypes
<1>2. PICK m \in Messages : m = Head(wire) /\ MessageTrue(m)
  BY TakingHead DEF Deliver, PathInv, PageTypes, WireInv
<1>3. CASE m.type = "unlock"
  BY <1>2, <1>3 DEF Deliver, Goes, Rests, Learns, Detected
<1>4. CASE m.type = "intercept"
  <2>1. m.id \in Requests /\ bridge[m.id] = "none"
    BY <1>2, <1>4 DEF Messages, Asks, Unlocks, MessageTrue
  <2>2. req' = req /\ bridge' = [bridge EXCEPT ![m.id] = "detect"]
    BY <1>2, <1>4 DEF Deliver
  <2> QED
    BY <1>1, <2>1, <2>2 DEF Goes, Rests, Learns, Detected
<1>5. CASE m.type \in {"pending", "decision"}
  <2>1. m.id \in Requests /\ bridge' = bridge
    BY <1>2, <1>5 DEF Deliver, Messages, Asks, Unlocks
  <2>2. \A r \in Requests : Learns(r)
    BY <2>1 DEF Learns, Detected
  <2>3. \/ m.type = "pending" /\ HearPending(m.id)
        \/ m.type = "decision" /\ HearDecision(m.id, m.proceed)
    BY <1>2, <1>5 DEF Deliver
  <2>4. \/ req' = req
        \/ req[m.id].pc \in {"asked", "held"} /\ \E p \in {"aborted", "held"} : req' = [req EXCEPT ![m.id].pc = p]
        \/ req[m.id].pc \in {"asked", "held"} /\ Leave(m.id, "decision")
    BY <2>3 DEF HearPending, HearDecision, Leave
  <2>5. "decision" \in Vias /\ {"aborted", "held"} \subseteq PCs
    BY DEF Vias, PCs
  <2>6. \A r \in Requests : Goes(r)
    <3>1. CASE req' = req
      BY <3>1 DEF Goes, Rests
    <3>2. ASSUME req[m.id].pc \in {"asked", "held"}, NEW p \in {"aborted", "held"},
                 req' = [req EXCEPT ![m.id].pc = p]
          PROVE  \A r \in Requests : Goes(r)
      BY <1>1, <2>1, <2>5, <3>2, PcGoes
    <3>3. CASE req[m.id].pc \in {"asked", "held"} /\ Leave(m.id, "decision")
      BY <1>1, <2>1, <2>5, <3>3, LeaveGoes
    <3> QED
      BY <2>4, <3>1, <3>2, <3>3
  <2> QED
    BY <2>2, <2>6
<1> QED
  BY <1>2, <1>3, <1>4, <1>5 DEF Messages, Asks, Unlocks

LEMMA InterceptorGoes ==
  ASSUME PathInv, NEW q \in Requests, Interceptor(q)
  PROVE  \A r \in Requests : Goes(r) /\ Learns(r)
<1>1. req \in [Requests -> Reqs] /\ bridge' = bridge
  BY DEF PathInv, PageTypes, Interceptor, FetchOverride, BodyRead, Timeout
<1>2. \A r \in Requests : Learns(r)
  BY <1>1 DEF Learns, Detected
<1>3. /\ Kinds \subseteq NotAsked \ {"unused"} /\ "reading" \in NotAsked \ {"unused"}
      /\ {"asked", "reading"} \subseteq PCs /\ {"approval", "unseen", "timeout"} \subseteq Vias
  BY DEF Kinds, NotAsked, PCs, Vias
<1>4. \/ req[q].pc \in NotAsked \ {"unused"}
            /\ (Leave(q, "approval") \/ Leave(q, "unseen") \/ Ask(q)
                  \/ req' = [req EXCEPT ![q].pc = "reading"])
      \/ req[q].pc = "asked" /\ Leave(q, "timeout")
  BY <1>3 DEF Interceptor, FetchOverride, BodyRead, Timeout
<1>5. ASSUME NEW p \in {"asked", "reading"}, req[q].pc \in NotAsked \ {"unused"},
             req' = [req EXCEPT ![q].pc = p]
      PROVE  \A r \in Requests : Goes(r)
  BY <1>1, <1>3, <1>5, PcGoes
<1>6. ASSUME NEW v \in {"approval", "unseen"}, req[q].pc \in NotAsked \ {"unused"}, Leave(q, v)
      PROVE  \A r \in Requests : Goes(r)
  BY <1>1, <1>3, <1>6, LeaveGoes
<1>7. CASE req[q].pc = "asked" /\ Leave(q, "timeout")
  BY <1>1, <1>2, <1>3, <1>7, LeaveGoes
<1> QED
  BY <1>2, <1>4, <1>5, <1>6, <1>7 DEF Ask

LEMMA BridgeGoes ==
  ASSUME PathInv, NEW q \in Requests, Bridge(q)
  PROVE  \A r \in Requests : Goes(r) /\ Learns(r)
<1>1. req' = req /\ bridge \in [Requests -> BridgeStates]
  BY DEF PathInv, PageTypes, Bridge, BridgeDetect, BridgeShow, BridgeAnswer, BridgeDecide
<1>2. \E b \in BridgeStates : bridge' = [bridge EXCEPT ![q] = b]
                              /\ (bridge[q] = "detect" \/ b \notin {"none", "detect", "failed"})
  BY <1>1 DEF Bridge, BridgeDetect, BridgeShow, BridgeAnswer, BridgeDecide, BridgeStates, Bridged
<1> QED
  BY <1>1, <1>2 DEF Goes, Rests, Learns, Detected

LEMMA ClickGoes ==
  ASSUME PathInv, Click
  PROVE  \A r \in Requests : Goes(r)
<1>1. req \in [Requests -> Reqs] /\ {"prompt", "other"} \subseteq Kinds
  BY DEF PathInv, PageTypes, Kinds
<1>2. CASE UNCHANGED req
  BY <1>2 DEF Goes, Rests
<1>3. ASSUME NEW q \in Requests, NEW k \in {"prompt", "other"}, Queue(q, composer, k)
      PROVE  \A r \in Requests : Goes(r)
  BY <1>1, <1>3, QueueGoes
<1> QED
  BY <1>2, <1>3 DEF Click

LEMMA StepGoes ==
  ASSUME PathInv, [Next]_vars, NEW r \in Requests
  PROVE  Goes(r) /\ Learns(r)
<1>1. CASE Edit \/ UNCHANGED vars
  BY <1>1 DEF Edit, vars, Goes, Rests, Learns, Detected
<1>2. CASE PressSend \/ Handler
  <2>1. bridge' = bridge /\ (UNCHANGED req \/ Click)
    BY <1>2 DEF PressSend, Handler, IntentDetect, IntentShow, IntentAnswer,
       IntentSettle, IntentProceed, Proceed, ProceedUnchecked, Keep
  <2>2. Learns(r)
    BY <2>1 DEF Learns, Detected
  <2>3. CASE UNCHANGED req
    BY <2>2, <2>3 DEF Goes, Rests
  <2> QED
    BY <2>1, <2>2, <2>3, ClickGoes
<1>3. ASSUME NEW q \in Requests, SiteSends(q) PROVE Goes(r) /\ Learns(r)
  <2>1. req \in [Requests -> Reqs] /\ bridge' = bridge
    BY <1>3 DEF PathInv, PageTypes, SiteSends
  <2>2. \E t, k : k \in Kinds /\ Queue(q, t, k)
    BY <1>3 DEF SiteSends, Kinds
  <2>3. Goes(r)
    BY <2>1, <2>2, QueueGoes
  <2> QED
    BY <2>1, <2>3 DEF Learns, Detected
<1> QED
  BY <1>1, <1>2, <1>3, DeliverGoes, InterceptorGoes, BridgeGoes DEF Next

\* How a request was let go is known of those that were sent only.
ViaOfSent == \A r \in Requests : req[r].via # "none" => req[r].pc = "sent"

LEMMA ViaOfSentHolds == Spec => []ViaOfSent
<1>1. Init => ViaOfSent
  BY DEF Init, ViaOfSent, Unused
<1>2. SendInv /\ ViaOfSent /\ [Next]_vars => ViaOfSent'
  <2> SUFFICES ASSUME SendInv, ViaOfSent, [Next]_vars, NEW r \in Requests, req'[r].via # "none"
               PROVE  req'[r].pc = "sent"
    BY DEF ViaOfSent
  <2>1. Goes(r)
    BY StepGoes DEF SendInv
  <2>2. req[r].via # "none" => req[r].pc = "sent"
    BY DEF ViaOfSent
  <2>3. "sent" \notin NotAsked
    BY DEF NotAsked, Kinds
  <2> QED
    BY <2>1, <2>2, <2>3 DEF Goes, Rests, Comes, Moves, Tires, Hears
<1> QED
  BY <1>1, <1>2, SendInductive, PTL DEF Spec

\* The abstract state of a request.
Became(r) == IF req[r].pc = "sent" THEN "sent" ELSE IF req[r].pc = "aborted" THEN "refused" ELSE "open"
Found(r) == IF ~Detected(r) THEN "unknown"
            ELSE IF Flagged(req[r].text) THEN Verdict[req[r].text] ELSE "log"

LEMMA RequestRefines ==
  ASSUME SendInv, SendInv', ViaOfSent, [Next]_vars, NEW r \in Requests
  PROVE  /\ Became(r) # "open" => Became(r)' = Became(r)
         /\ Found(r) # "unknown" => Found(r)' = Found(r)
         /\ req[r].via = "timeout" => req'[r].via = "timeout"
         /\ Became(r)' = "sent" /\ Became(r) # "sent"
              => Found(r)' # "block" \/ req'[r].via = "timeout"
         /\ req'[r].via = "timeout" /\ req[r].via # "timeout" => Became(r) = "open"
<1>1. Goes(r) /\ Learns(r)
  BY StepGoes DEF SendInv
<1>2. Stage(r) /\ Stage(r)'
  BY DEF SendInv, PathInv, BridgeInv
<1>3. /\ Over \cap NotAsked = {} /\ Over \cap {"asked", "held"} = {} /\ Unused.pc \in NotAsked
      /\ "asked" \notin NotAsked /\ "held" \notin NotAsked /\ Kinds \subseteq NotAsked
      /\ Unused.via = "none" /\ "reading" \notin Over
  BY DEF Over, NotAsked, Kinds, Unused
<1>4. req[r].pc \in Over => req'[r] = req[r]
  BY <1>1, <1>3 DEF Goes, Rests, Comes, Moves, Tires, Hears
<1>5. Became(r) # "open" => Became(r)' = Became(r)
  BY <1>4 DEF Became, Over
<1>6. Found(r) # "unknown" => Found(r)' = Found(r)
  <2>1. Detected(r) => req[r].pc \notin NotAsked
    BY <1>2 DEF Stage, Detected
  <2>2. Detected(r) => Detected(r)' /\ req'[r].text = req[r].text
    BY <1>1, <1>3, <2>1 DEF Goes, Rests, Comes, Moves, Tires, Hears, Learns
  <2> QED
    BY <2>2 DEF Found
<1>7. req[r].via = "timeout" => req'[r].via = "timeout"
  BY <1>4 DEF ViaOfSent, Over
<1>8. ASSUME req'[r].pc = "sent", req[r].pc # "sent"
      PROVE  Found(r)' # "block" \/ req'[r].via = "timeout"
  <2>1. Moves(r) \/ Tires(r) \/ Hears(r)
    BY <1>1, <1>3, <1>8 DEF Goes, Rests, Comes, Over
  <2>2. CASE Moves(r)
    <3>1. bridge[r] = "none" /\ bridge'[r] = "none"
      BY <1>2, <2>2 DEF Moves, Stage
    <3>2. ~Detected(r)'
      BY <3>1 DEF Detected
    <3> QED
      BY <3>2 DEF Found
  <2>3. CASE Tires(r)
    BY <2>3 DEF Tires
  <2>4. CASE Hears(r)
    <3>1. bridge'[r] \in Released
      BY <1>2, <1>8, <2>4 DEF Hears, Stage
    <3>2. CASE bridge'[r] = "failed"
      BY <3>2 DEF Found, Detected
    <3>3. CASE bridge'[r] = "clean"
      BY <1>2, <3>3 DEF Found, Stage
    <3>4. CASE bridge'[r] = "wavedDone"
      BY <1>2, <3>4 DEF Found, Stage
    <3> QED
      BY <3>1, <3>2, <3>3, <3>4 DEF Released
  <2> QED
    BY <2>1, <2>2, <2>3, <2>4
<1>9. req'[r].via = "timeout" /\ req[r].via # "timeout" => Became(r) = "open"
  BY <1>4 DEF Became, Over
<1> QED
  BY <1>5, <1>6, <1>7, <1>8, <1>9 DEF Became

LEMMA StepRefines ==
  SendInv /\ SendInv' /\ ViaOfSent /\ [Next]_vars => [Gate!Next]_(Gate!gateVars)
<1> SUFFICES ASSUME SendInv, SendInv', ViaOfSent, [Next]_vars PROVE Gate!Next
  OBVIOUS
<1> DEFINE v == [r \in Requests |-> Became(r)]
           u == [r \in Requests |-> Found(r)]
           e == {r \in Requests : req[r].via = "timeout"}
<1>1. v' \in [Requests -> Gate!Verdicts]
  BY DEF Became, Gate!Verdicts
<1>2. u' \in [Requests -> Gate!Rules]
  BY DEF Found, Flagged, Gate!Rules
<1>3. ASSUME NEW r \in Requests
      PROVE  /\ v[r] # "open" => v'[r] = v[r]
             /\ u[r] # "unknown" => u'[r] = u[r]
             /\ r \in e => r \in e'
             /\ v'[r] = "sent" /\ v[r] # "sent" => u'[r] # "block" \/ r \in e'
             /\ r \in e' \ e => v[r] = "open"
  BY RequestRefines
<1> QED
  BY <1>1, <1>2, <1>3 DEF Gate!Next, Gate!Final, Gate!MaySend, Gate!NoLateExcuse, Became, Found

(* The page implements PromptGate: what became of a request, and what was  *)
(* detected of it, is never revised, and one in which a block was detected *)
(* is sent only if it had tired of waiting to hear of it                   *)
(* (fetch-interceptor.ts, content-script.ts).                              *)
THEOREM SendImplementsPromptGate == Spec => GateSpec
<1>1. Init => Gate!Init
  BY DEF Init, Gate!Init, Unused, Detected
<1>2. SendInv /\ SendInv' /\ ViaOfSent /\ [Next]_vars => [Gate!Next]_(Gate!gateVars)
  BY StepRefines
<1> QED
  BY <1>1, <1>2, SendInductive, ViaOfSentHolds, PTL DEF Spec, GateSpec, Gate!Spec
=============================================================================
