-------------------------- MODULE DeviceLoginProofs --------------------------
(***************************************************************************)
(* For any number of sign-ins, ports, accounts and codes: a device is      *)
(* signed in as a member who approved that sign-in, and no code gives two  *)
(* tokens.                                                                 *)
(*                                                                         *)
(* The inductive invariant follows the challenge: a code carries who       *)
(* approved its challenge; an exchange that has passed the check holds a   *)
(* code of its own challenge; and a token is what the one exchange of its  *)
(* sign-in made of that code.                                              *)
(***************************************************************************)
EXTENDS DeviceLogin, SequenceTheorems, TLAPS

Approved ==
  \A c \in DOMAIN codes : codes[c].member \in approved[codes[c].challenge]

Unasked ==
  \A a \in Attempts : At(a, "new") \/ At(a, "wait") => exchange[a] = "none"

Fitting ==
  \A a \in Attempts : exchange[a] \in {"valid", "marked", "minted"} =>
     /\ attempt[a].code \in DOMAIN codes
     /\ Row(a).challenge = a

MadeByExchange ==
  \A t \in DOMAIN tokens :
    /\ exchange[tokens[t].for] = "minted"
    /\ tokens[t].code = attempt[tokens[t].for].code
    /\ tokens[t].member = codes[tokens[t].code].member

OnePerSignIn ==
  \A s, t \in DOMAIN tokens : tokens[s].for = tokens[t].for => s = t

OwnToken ==
  \A a \in Attempts : token[a] # 0 => tokens[token[a]].for = a

LoginInv ==
  LoginTypeOK /\ Approved /\ Unasked /\ Fitting /\ MadeByExchange /\ OnePerSignIn /\ OwnToken

-----------------------------------------------------------------------------
\* The empty tables satisfy the invariant.
LEMMA LoginInit == Init => LoginInv
  <1> SUFFICES ASSUME Init PROVE LoginInv
    OBVIOUS
  <1> USE DEF Init
  <1>1. codes \in Seq(Code) /\ tokens \in Seq([member : Members, code : Nat, for : Attempts])
    OBVIOUS
  <1>2. DOMAIN codes = {} /\ DOMAIN tokens = {}
    OBVIOUS
  <1>3. Idle \in [pc : {"new", "wait", "exchange", "done", "failed"},
                  at : Redirects \cup {None}, code : Nat]
    BY DEF Idle
  <1>4. LoginTypeOK
    BY <1>1, <1>2, <1>3 DEF LoginTypeOK, At, Idle
  <1>5. QED
    BY <1>2, <1>4 DEF LoginInv, Approved, Unasked, Fitting, MadeByExchange, OnePerSignIn,
                      OwnToken, At, Idle

Token == [member : Members, code : Nat, for : Attempts]

\* The rows of the tables are what the type invariant says.
LEMMA Rows ==
  ASSUME LoginTypeOK
  PROVE  /\ \A t \in DOMAIN tokens : tokens[t] \in Token /\ tokens[t].for \in Attempts
         /\ \A c \in DOMAIN codes : /\ codes[c] \in Code /\ codes[c].challenge \in Attempts
                                   /\ c \in Nat /\ c # 0
  <1>1. ASSUME NEW S, NEW s \in Seq(S), NEW i \in DOMAIN s
        PROVE  s[i] \in S /\ i \in Nat /\ i # 0
    OBVIOUS
  <1>2. \A t \in DOMAIN tokens : tokens[t] \in Token
    <2>1. tokens \in Seq(Token)
      BY DEF LoginTypeOK, Token
    <2>2. QED
      BY <1>1, <2>1
  <1>3. \A c \in DOMAIN codes : codes[c] \in Code /\ c \in Nat /\ c # 0
    <2>1. codes \in Seq(Code)
      BY DEF LoginTypeOK
    <2>2. QED
      BY <1>1, <2>1
  <1>4. QED
    BY <1>2, <1>3 DEF Token, Code

\* A row is added at the end.
LEMMA Added ==
  ASSUME NEW S, NEW s \in Seq(S), NEW e \in S
  PROVE  /\ Append(s, e) \in Seq(S)
         /\ Len(s) + 1 \in Nat \ {0} /\ Len(s) + 1 \notin DOMAIN s
         /\ DOMAIN Append(s, e) = DOMAIN s \cup {Len(s) + 1}
         /\ Append(s, e)[Len(s) + 1] = e
         /\ \A i \in DOMAIN s : Append(s, e)[i] = s[i]
  OBVIOUS

AttemptType == [pc : {"new", "wait", "exchange", "done", "failed"},
                at : Redirects \cup {None}, code : Nat]

\* A sign-in that begins, ends or is cancelled touches no code, exchange or token.
LEMMA ClientMoves ==
  ASSUME LoginInv,
         UNCHANGED <<codes, exchange, tokens, token, approved>>,
         attempt' \in [Attempts -> AttemptType],
         cancel' \in Attempts \cup {None},
         \A b \in Attempts :
           /\ attempt'[b].code = attempt[b].code
           /\ attempt'[b].pc \in {"new", "wait"} => attempt[b].pc \in {"new", "wait"}
           /\ attempt'[b].pc = "new" <=> attempt'[b].at = None
  PROVE  LoginInv'
  <1>1. LoginTypeOK'
    BY DEF LoginInv, LoginTypeOK, At, AttemptType
  <1>2. Approved' /\ OnePerSignIn' /\ OwnToken'
    BY DEF LoginInv, Approved, OnePerSignIn, OwnToken
  <1>3. Unasked'
    BY DEF LoginInv, Unasked, At
  <1>4. Fitting'
    BY DEF LoginInv, Fitting, Row
  <1>5. MadeByExchange'
    <2>1. \A t \in DOMAIN tokens : tokens[t].for \in Attempts
      BY Rows DEF LoginInv
    <2>2. QED
      BY <2>1 DEF LoginInv, MadeByExchange
  <1>6. QED
    BY <1>1, <1>2, <1>3, <1>4, <1>5 DEF LoginInv

\* The end of a sign-in, whatever ends it.
LEMMA FailsKeeps ==
  ASSUME LoginInv, NEW a \in Attempts, ~At(a, "new"), Fails(a),
         UNCHANGED <<codes, exchange, tokens, token, approved>>
  PROVE  LoginInv'
  <1>1. attempt \in [Attempts -> AttemptType] /\ cancel \in Attempts \cup {None}
    BY DEF LoginInv, LoginTypeOK, AttemptType
  <1>2. attempt' \in [Attempts -> AttemptType]
    BY <1>1 DEF Fails, AttemptType
  <1>3. cancel' \in Attempts \cup {None}
    BY <1>1 DEF Fails
  <1>4. ASSUME NEW b \in Attempts
        PROVE  /\ attempt'[b].code = attempt[b].code
               /\ attempt'[b].pc \in {"new", "wait"} => attempt[b].pc \in {"new", "wait"}
               /\ attempt'[b].pc = "new" <=> attempt'[b].at = None
    <2>1. attempt[b].pc = "new" <=> attempt[b].at = None
      BY DEF LoginInv, LoginTypeOK, At
    <2>2. QED
      BY <1>1, <2>1 DEF Fails, At, AttemptType
  <1>5. QED
    BY <1>2, <1>3, <1>4, ClientMoves

\* A code reaches the client that waits for one and is sent on.
LEMMA AsksKeeps ==
  ASSUME LoginInv, NEW a \in Attempts, NEW c \in DOMAIN codes, At(a, "wait"), Asks(a, c)
  PROVE  LoginInv'
  <1>1. attempt \in [Attempts -> AttemptType] /\ c \in Nat /\ c # 0
    BY DEF LoginInv, LoginTypeOK, AttemptType
  <1>2. exchange[a] = "none"
    BY DEF LoginInv, Unasked
  <1>3. /\ \A b \in Attempts \ {a} : attempt'[b] = attempt[b] /\ exchange'[b] = exchange[b]
        /\ attempt'[a] = [attempt[a] EXCEPT !.pc = "exchange", !.code = c]
        /\ exchange'[a] = "sent"
        /\ UNCHANGED <<cancel, codes, tokens, token, approved>>
    BY <1>1 DEF Asks, LoginInv, LoginTypeOK
  <1>4. /\ attempt'[a].pc = "exchange" /\ attempt'[a].code = c
        /\ attempt'[a].at = attempt[a].at /\ attempt[a].at # None
    BY <1>1, <1>3 DEF AttemptType, LoginInv, LoginTypeOK, At
  <1>5. attempt' \in [Attempts -> AttemptType]
    BY <1>1 DEF Asks, AttemptType
  <1>6. exchange' \in [Attempts -> {"none", "sent", "valid", "marked", "minted", "refused", "lost"}]
    BY DEF Asks, LoginInv, LoginTypeOK
  <1>7. LoginTypeOK'
    <2>1. \A b \in Attempts : /\ attempt'[b].code \in {0} \cup DOMAIN codes
                              /\ attempt'[b].pc = "new" <=> attempt'[b].at = None
                              /\ exchange'[b] # "none" <=> attempt'[b].code # 0
      <3>1. ASSUME NEW b \in Attempts, b # a
            PROVE  /\ attempt[b].code \in {0} \cup DOMAIN codes
                   /\ attempt[b].pc = "new" <=> attempt[b].at = None
                   /\ exchange[b] # "none" <=> attempt[b].code # 0
        BY DEF LoginInv, LoginTypeOK, At
      <3>2. QED
        BY <1>1, <1>3, <1>4, <3>1
    <2>2. QED
      BY <1>3, <1>5, <1>6, <2>1 DEF LoginInv, LoginTypeOK, At, AttemptType
  <1>8. Approved' /\ OnePerSignIn' /\ OwnToken'
    BY <1>3 DEF LoginInv, Approved, OnePerSignIn, OwnToken
  <1>9. Unasked'
    BY <1>3, <1>4 DEF LoginInv, Unasked, At
  <1>10. Fitting'
    BY <1>3 DEF LoginInv, Fitting, Row
  <1>11. MadeByExchange'
    <2>1. \A t \in DOMAIN tokens : tokens[t].for \in Attempts
      BY Rows DEF LoginInv
    <2>2. \A t \in DOMAIN tokens : tokens[t].for # a
      BY <1>2 DEF LoginInv, MadeByExchange
    <2>3. QED
      BY <1>3, <2>1, <2>2 DEF LoginInv, MadeByExchange
  <1>12. QED
    BY <1>7, <1>8, <1>9, <1>10, <1>11 DEF LoginInv

\* The answer is stored.
LEMMA StoresKeeps ==
  ASSUME LoginInv, NEW a \in Attempts, Stores(a)
  PROVE  LoginInv'
  <1>1. attempt \in [Attempts -> AttemptType]
    BY DEF LoginInv, LoginTypeOK, AttemptType
  <1>2. PICK t \in DOMAIN tokens : tokens[t].for = a /\ token' = [token EXCEPT ![a] = t]
    BY DEF Stores
  <1>3. attempt' \in [Attempts -> AttemptType]
    BY <1>1 DEF Stores, AttemptType
  <1>4. \A b \in Attempts :
           /\ attempt'[b].code = attempt[b].code /\ attempt'[b].at = attempt[b].at
           /\ attempt'[b].pc = IF b = a THEN "done" ELSE attempt[b].pc
    BY <1>1 DEF Stores, AttemptType
  <1>5. token' \in [Attempts -> Nat] /\ \A b \in Attempts : token'[b] \in {0} \cup DOMAIN tokens
    BY <1>2 DEF LoginInv, LoginTypeOK
  <1>6. LoginTypeOK'
    <2>1. attempt[a].at # None
      BY DEF Stores, LoginInv, LoginTypeOK, At
    <2>2. cancel' \in Attempts \cup {None}
      BY DEF Stores, LoginInv, LoginTypeOK
    <2>3. \A b \in Attempts : /\ attempt'[b].code \in {0} \cup DOMAIN codes
                              /\ attempt'[b].pc = "new" <=> attempt'[b].at = None
                              /\ exchange[b] # "none" <=> attempt'[b].code # 0
      BY <1>4, <2>1 DEF LoginInv, LoginTypeOK, At
    <2>4. UNCHANGED <<codes, exchange, tokens, approved>>
      BY DEF Stores
    <2>5. QED
      BY <1>3, <1>5, <2>2, <2>3, <2>4 DEF LoginInv, LoginTypeOK, At, AttemptType
  <1>7. Approved' /\ OnePerSignIn'
    BY DEF Stores, LoginInv, Approved, OnePerSignIn
  <1>8. OwnToken'
    BY <1>2 DEF Stores, LoginInv, OwnToken, LoginTypeOK
  <1>9. Unasked'
    BY <1>4 DEF Stores, LoginInv, Unasked, At
  <1>10. Fitting'
    BY <1>4 DEF Stores, LoginInv, Fitting, Row
  <1>11. MadeByExchange'
    <2>1. \A s \in DOMAIN tokens :
             /\ tokens[s].for \in Attempts
             /\ attempt'[tokens[s].for].code = attempt[tokens[s].for].code
      BY <1>4, Rows DEF LoginInv
    <2>2. UNCHANGED <<codes, exchange, tokens>>
      BY DEF Stores
    <2>3. QED
      BY <2>1, <2>2 DEF LoginInv, MadeByExchange
  <1>12. QED
    BY <1>6, <1>7, <1>8, <1>9, <1>10, <1>11 DEF LoginInv

\* A code is minted for the challenge of its page.
LEMMA ApprovesKeeps ==
  ASSUME LoginInv, NEW a \in Attempts, NEW m \in Members, NEW shown \in BOOLEAN,
         Approves(a, m, shown)
  PROVE  LoginInv'
  <1> DEFINE row == NewCode(a, m, shown)
             new == Len(codes) + 1
  <1>1. row \in Code /\ row.member = m /\ row.challenge = a
    <2>1. attempt[a].at \in Redirects
      BY DEF Approves, At, LoginInv, LoginTypeOK
    <2>2. QED
      BY <2>1 DEF NewCode, Code
  <1> HIDE DEF row
  <1>2. codes \in Seq(Code)
    BY DEF LoginInv, LoginTypeOK
  <1>3. codes' = Append(codes, row)
    BY DEF Approves, row
  <1>4. /\ codes' \in Seq(Code) /\ DOMAIN codes' = DOMAIN codes \cup {new}
        /\ codes'[new] = row /\ \A c \in DOMAIN codes : codes'[c] = codes[c]
    BY <1>1, <1>2, <1>3, Added
  <1>5. /\ approved' = [approved EXCEPT ![a] = @ \cup {m}]
        /\ UNCHANGED <<attempt, cancel, exchange, tokens, token>>
    BY DEF Approves
  <1>6. /\ approved' \in [Attempts -> SUBSET Members] /\ m \in approved'[a]
        /\ \A b \in Attempts : approved[b] \subseteq approved'[b]
    BY <1>5 DEF LoginInv, LoginTypeOK
  <1>7. LoginTypeOK'
    BY <1>4, <1>5, <1>6 DEF LoginInv, LoginTypeOK, At
  <1>8. Approved'
    BY <1>1, <1>4, <1>6, Rows DEF LoginInv, Approved
  <1>9. Unasked' /\ OnePerSignIn' /\ OwnToken'
    BY <1>5 DEF LoginInv, Unasked, OnePerSignIn, OwnToken, At
  <1>10. Fitting'
    BY <1>4, <1>5 DEF LoginInv, Fitting, Row
  <1>11. MadeByExchange'
    <2>1. \A t \in DOMAIN tokens : tokens[t].code \in DOMAIN codes
      BY Rows DEF LoginInv, MadeByExchange, Fitting
    <2>2. QED
      BY <1>4, <1>5, <2>1 DEF LoginInv, MadeByExchange
  <1>12. QED
    BY <1>7, <1>8, <1>9, <1>10, <1>11 DEF LoginInv

\* Neither the age of a code nor its use changes whose it is.
LEMMA CodeAges ==
  ASSUME LoginInv, NEW c \in DOMAIN codes,
         UNCHANGED <<attempt, cancel, tokens, token, approved>>,
         codes' \in {[codes EXCEPT ![c].expired = TRUE], [codes EXCEPT ![c].used = TRUE]},
         exchange' \in [Attempts -> {"none", "sent", "valid", "marked", "minted", "refused", "lost"}],
         \A b \in Attempts : /\ exchange'[b] = "none" <=> exchange[b] = "none"
                             /\ exchange[b] = "minted" <=> exchange'[b] = "minted"
                             /\ exchange'[b] \in {"valid", "marked", "minted"} =>
                                  exchange[b] \in {"valid", "marked", "minted"}
  PROVE  LoginInv'
  <1>1. codes \in Seq(Code)
    BY DEF LoginInv, LoginTypeOK
  <1>2. /\ [codes[c] EXCEPT !.expired = TRUE] \in Code
        /\ [codes[c] EXCEPT !.used = TRUE] \in Code
    BY Rows DEF LoginInv, Code
  <1>3. /\ codes' \in Seq(Code) /\ DOMAIN codes' = DOMAIN codes
    <2>1. ASSUME NEW S, NEW s \in Seq(S), NEW i \in DOMAIN s, NEW e \in S
          PROVE  [s EXCEPT ![i] = e] \in Seq(S) /\ DOMAIN [s EXCEPT ![i] = e] = DOMAIN s
      OBVIOUS
    <2>2. \/ codes' = [codes EXCEPT ![c] = [codes[c] EXCEPT !.expired = TRUE]]
          \/ codes' = [codes EXCEPT ![c] = [codes[c] EXCEPT !.used = TRUE]]
      OBVIOUS
    <2>3. ASSUME NEW e \in Code
          PROVE  [codes EXCEPT ![c] = e] \in Seq(Code) /\ DOMAIN [codes EXCEPT ![c] = e] = DOMAIN codes
      BY <1>1, <2>1
    <2>4. QED
      BY <1>2, <2>2, <2>3
  <1>4. \A d \in DOMAIN codes : /\ codes'[d].member = codes[d].member
                               /\ codes'[d].challenge = codes[d].challenge
    BY <1>1, Rows DEF LoginInv, Code
  <1>5. LoginTypeOK'
    BY <1>3 DEF LoginInv, LoginTypeOK, At
  <1>6. Approved'
    BY <1>3, <1>4 DEF LoginInv, Approved
  <1>7. Unasked' /\ OnePerSignIn' /\ OwnToken'
    BY DEF LoginInv, Unasked, OnePerSignIn, OwnToken, At
  <1>8. Fitting'
    BY <1>3, <1>4 DEF LoginInv, Fitting, Row
  <1>9. MadeByExchange'
    <2>1. \A t \in DOMAIN tokens : /\ tokens[t].code \in DOMAIN codes
                                  /\ tokens[t].for \in Attempts
      BY Rows DEF LoginInv, MadeByExchange, Fitting
    <2>2. QED
      BY <1>4, <2>1 DEF LoginInv, MadeByExchange
  <1>10. QED
    BY <1>5, <1>6, <1>7, <1>8, <1>9 DEF LoginInv

\* A step of an exchange that changes no table: the check, a loss.
LEMMA ExchangeMoves ==
  ASSUME LoginInv, NEW a \in Attempts, NEW to \in {"valid", "refused", "lost"},
         exchange[a] \in {"sent", "valid", "marked"},
         exchange' = [exchange EXCEPT ![a] = to],
         to = "valid" => attempt[a].code \in DOMAIN codes /\ Row(a).challenge = a,
         UNCHANGED <<attempt, cancel, codes, tokens, token, approved>>
  PROVE  LoginInv'
  <1>1. /\ exchange' \in [Attempts -> {"none", "sent", "valid", "marked", "minted", "refused", "lost"}]
        /\ exchange'[a] = to /\ \A b \in Attempts \ {a} : exchange'[b] = exchange[b]
    BY DEF LoginInv, LoginTypeOK
  <1>2. LoginTypeOK'
    <2>1. \A b \in Attempts : exchange'[b] # "none" <=> exchange[b] # "none"
      BY <1>1
    <2>2. QED
      BY <1>1, <2>1 DEF LoginInv, LoginTypeOK, At
  <1>3. Approved' /\ OnePerSignIn' /\ OwnToken'
    BY DEF LoginInv, Approved, OnePerSignIn, OwnToken
  <1>4. Unasked'
    BY <1>1 DEF LoginInv, Unasked, At
  <1>5. Fitting'
    BY <1>1 DEF LoginInv, Fitting, Row
  <1>6. MadeByExchange'
    <2>1. \A t \in DOMAIN tokens : tokens[t].for \in Attempts /\ tokens[t].for # a
      BY Rows DEF LoginInv, MadeByExchange
    <2>2. QED
      BY <1>1, <2>1 DEF LoginInv, MadeByExchange
  <1>7. QED
    BY <1>2, <1>3, <1>4, <1>5, <1>6 DEF LoginInv

\* The exchange of a code that has been marked makes its token.
LEMMA MintsKeeps ==
  ASSUME LoginInv, NEW a \in Attempts, Mints(a)
  PROVE  LoginInv'
  <1> DEFINE row == [member |-> Row(a).member, code |-> attempt[a].code, for |-> a]
             new == Len(tokens) + 1
  <1>1. /\ exchange[a] = "marked" /\ exchange' = [exchange EXCEPT ![a] = "minted"]
        /\ tokens' = Append(tokens, row)
        /\ UNCHANGED <<attempt, cancel, codes, token, approved>>
    BY DEF Mints, Reaches
  <1>2. attempt[a].code \in DOMAIN codes
    BY <1>1 DEF LoginInv, Fitting
  <1>3. row \in Token /\ tokens \in Seq(Token)
    BY <1>2, Rows DEF LoginInv, LoginTypeOK, Token, Code, Row
  <1>4. /\ row.for = a /\ row.code = attempt[a].code
        /\ row.member = codes[attempt[a].code].member
    BY DEF Row
  <1> HIDE DEF row
  <1>5. /\ tokens' \in Seq(Token) /\ DOMAIN tokens' = DOMAIN tokens \cup {new}
        /\ tokens'[new] = row /\ new \notin DOMAIN tokens
        /\ \A t \in DOMAIN tokens : tokens'[t] = tokens[t]
    BY <1>1, <1>3, Added
  <1>6. /\ exchange' \in [Attempts -> {"none", "sent", "valid", "marked", "minted", "refused", "lost"}]
        /\ exchange'[a] = "minted" /\ \A b \in Attempts \ {a} : exchange'[b] = exchange[b]
    BY <1>1 DEF LoginInv, LoginTypeOK
  <1>7. \A t \in DOMAIN tokens : tokens[t].for \in Attempts \ {a}
    BY <1>1, Rows DEF LoginInv, MadeByExchange
  <1>8. LoginTypeOK'
    <2>1. \A b \in Attempts : exchange'[b] # "none" <=> exchange[b] # "none"
      BY <1>1, <1>6
    <2>2. \A b \in Attempts : token[b] \in {0} \cup DOMAIN tokens'
      BY <1>5 DEF LoginInv, LoginTypeOK
    <2>3. QED
      BY <1>1, <1>5, <1>6, <2>1, <2>2 DEF LoginInv, LoginTypeOK, At, Token
  <1>9. Approved' /\ Unasked' /\ Fitting'
    BY <1>1, <1>6 DEF LoginInv, Approved, Unasked, Fitting, At, Row
  <1>10. MadeByExchange'
    BY <1>1, <1>4, <1>5, <1>6, <1>7 DEF LoginInv, MadeByExchange
  <1>11. OnePerSignIn'
    BY <1>4, <1>5, <1>7 DEF LoginInv, OnePerSignIn
  <1>12. OwnToken'
    BY <1>1, <1>5 DEF LoginInv, LoginTypeOK, OwnToken
  <1>13. QED
    BY <1>8, <1>9, <1>10, <1>11, <1>12 DEF LoginInv

\* Every action keeps the invariant.
LEMMA LoginStep == LoginInv /\ [Next]_vars => LoginInv'
  <1> SUFFICES ASSUME LoginInv, [Next]_vars PROVE LoginInv'
    OBVIOUS
  <1>1. /\ attempt \in [Attempts -> AttemptType] /\ cancel \in Attempts \cup {None}
        /\ exchange \in [Attempts -> {"none", "sent", "valid", "marked", "minted", "refused", "lost"}]
        /\ \A b \in Attempts : attempt[b].pc = "new" <=> attempt[b].at = None
    BY DEF LoginInv, LoginTypeOK, AttemptType, At
  <1>2. ASSUME NEW a \in Attempts, ClientStep(a) PROVE LoginInv'
    <2>1. ASSUME NEW at \in Redirects, At(a, "new"),
                 attempt' = [attempt EXCEPT ![a].pc = "wait", ![a].at = at],
                 cancel' \in {a, cancel}, UNCHANGED <<codes, exchange, tokens, token, approved>>
          PROVE  LoginInv'
      <3>1. attempt' \in [Attempts -> AttemptType]
        BY <1>1, <2>1 DEF AttemptType
      <3>2. at # None
        BY LoginAssumption DEF LoginAssumption, Redirects
      <3>3. \A b \in Attempts :
              /\ attempt'[b].code = attempt[b].code
              /\ attempt'[b].pc \in {"new", "wait"} => attempt[b].pc \in {"new", "wait"}
              /\ attempt'[b].pc = "new" <=> attempt'[b].at = None
        BY <1>1, <2>1, <3>2 DEF AttemptType, At
      <3>4. QED
        BY <1>1, <2>1, <3>1, <3>3, ClientMoves
    <2>2. CASE \E port \in Ports : Begins(a, port)
      BY <2>1, <2>2 DEF Begins, Redirects
    <2>3. CASE Launches(a)
      BY <2>1, <2>3 DEF Launches, Redirects
    <2>4. CASE TimesOut(a) \/ FlowCloses(a) \/ AnswerFails(a)
      BY <2>4, FailsKeeps DEF TimesOut, FlowCloses, AnswerFails, At
    <2>5. CASE Stores(a)
      BY <2>5, StoresKeeps
    <2>6. CASE \E c \in DOMAIN codes : ServerHears(a, c) \/ FlowReturns(a, c)
      BY <2>6, AsksKeeps DEF ServerHears, FlowReturns
    <2>7. QED
      BY <1>2, <2>2, <2>3, <2>4, <2>5, <2>6 DEF ClientStep
  <1>3. ASSUME NEW a \in Attempts, BackendStep(a) PROVE LoginInv'
    <2>1. CASE \E m \in Members, shown \in BOOLEAN : Approves(a, m, shown)
      BY <2>1, ApprovesKeeps
    <2>2. CASE Checks(a)
      <3>1. attempt[a].code \in DOMAIN codes
        BY <1>1, <2>2 DEF Checks, Reaches, LoginInv, LoginTypeOK
      <3>2. CASE Valid(a)
        BY <2>2, <3>1, <3>2, ExchangeMoves DEF Checks, Reaches, Valid
      <3>3. CASE ~Valid(a)
        BY <2>2, <3>3, ExchangeMoves DEF Checks, Reaches
      <3>4. QED
        BY <3>2, <3>3
    <2>3. CASE Marks(a)
      <3>1. attempt[a].code \in DOMAIN codes
        BY <2>3 DEF Marks, Reaches, LoginInv, Fitting
      <3>2. exchange' \in [Attempts -> {"none", "sent", "valid", "marked", "minted", "refused", "lost"}]
        BY <1>1, <2>3 DEF Marks, Reaches
      <3>3. \A b \in Attempts : /\ exchange'[b] = "none" <=> exchange[b] = "none"
                                /\ exchange[b] = "minted" <=> exchange'[b] = "minted"
                                /\ exchange'[b] \in {"valid", "marked", "minted"} =>
                                     exchange[b] \in {"valid", "marked", "minted"}
        BY <1>1, <2>3 DEF Marks, Reaches
      <3>4. QED
        BY <2>3, <3>1, <3>2, <3>3, CodeAges DEF Marks
    <2>4. CASE Mints(a)
      BY <2>4, MintsKeeps
    <2>5. CASE RequestLost(a)
      BY <2>5, ExchangeMoves DEF RequestLost
    <2>6. QED
      BY <1>3, <2>1, <2>2, <2>3, <2>4, <2>5 DEF BackendStep
  <1>4. ASSUME NEW c \in DOMAIN codes, Expires(c) PROVE LoginInv'
    BY <1>1, <1>4, CodeAges DEF Expires
  <1>5. CASE Cancels
    <2>1. cancel \in Attempts
      BY <1>1, <1>5 DEF Cancels
    <2>2. QED
      BY <1>5, <2>1, FailsKeeps DEF Cancels, At
  <1>6. CASE UNCHANGED vars
    BY <1>1, <1>6, ClientMoves DEF vars
  <1>7. QED
    BY <1>2, <1>3, <1>4, <1>5, <1>6 DEF Next

LEMMA LoginHolds == Spec => []LoginInv
  BY LoginInit, LoginStep, PTL DEF Spec

-----------------------------------------------------------------------------
\* The tables, clients and requests have their types, and a request belongs to a code
\* (desktop-auth/service.ts:66-97).
THEOREM LoginTypes == Spec => []LoginTypeOK
  <1>1. LoginInv => LoginTypeOK
    BY DEF LoginInv
  <1>2. QED
    BY <1>1, LoginHolds, PTL

\* A device is signed in as a member who approved that very sign-in, for any number of
\* sign-ins, ports and accounts (desktop-auth/service.ts:75-77, electron/auth.ts:129-148).
THEOREM LoginApproved == Spec => []SignedInByApprover
  <1>1. LoginInv => SignedInByApprover
    <2> SUFFICES ASSUME LoginInv, NEW a \in Attempts, token[a] # 0
                 PROVE  tokens[token[a]].member \in approved[a]
      BY DEF SignedInByApprover
    <2>1. token[a] \in DOMAIN tokens /\ tokens[token[a]].for = a
      BY DEF LoginInv, LoginTypeOK, OwnToken
    <2>2. /\ exchange[a] = "minted" /\ tokens[token[a]].member = Row(a).member
      BY <2>1 DEF LoginInv, MadeByExchange, Row
    <2>3. QED
      BY <2>2 DEF LoginInv, Fitting, Approved, Row
  <1>2. QED
    BY <1>1, LoginHolds, PTL

\* No code gives two tokens, however many exchanges run side by side
\* (desktop-auth/service.ts:66-91).
THEOREM LoginOnce == Spec => []OneTokenPerCode
  <1>1. LoginInv => OneTokenPerCode
    <2> SUFFICES ASSUME LoginInv, NEW s \in DOMAIN tokens, NEW t \in DOMAIN tokens,
                        tokens[s].code = tokens[t].code
                 PROVE  s = t
      BY DEF OneTokenPerCode
    <2>1. \A u \in DOMAIN tokens : /\ tokens[u].for \in Attempts
                                  /\ codes[tokens[u].code].challenge = tokens[u].for
      BY Rows DEF LoginInv, MadeByExchange, Fitting, Row
    <2>2. QED
      BY <2>1 DEF LoginInv, OnePerSignIn
  <1>2. QED
    BY <1>1, LoginHolds, PTL
=============================================================================
