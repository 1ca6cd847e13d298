----------------------------- MODULE DeviceLogin -----------------------------
(***************************************************************************)
(* Signing a device in: the app makes a verifier, sends its challenge      *)
(* through the browser to the console's page, whose user approves it; the  *)
(* backend mints a code for the challenge and redirects the browser with   *)
(* it; the app exchanges the code and its verifier for a device token.     *)
(*                                                                         *)
(* The desktop app hears the redirect on a one-shot server at a free port. *)
(* Nothing stops a second sign-in beside a first, a page outlives the      *)
(* sign-in that opened it and may be loaded again, and the free port may   *)
(* be one that an earlier sign-in had.  The extension's browser routes the *)
(* redirect to the flow that opened the page.                              *)
(***************************************************************************)
EXTENDS Naturals, Sequences

CONSTANTS Attempts,   \* sign-ins; each has a verifier of its own
          InBrowser,  \* those of the extension
          Ports,      \* free ports of 127.0.0.1
          Callback,   \* the extension's one redirect URI
          Members,    \* who may be signed in to the console
          None,
          MaxCodes    \* bound: codes minted

ASSUME LoginAssumption ==
  /\ InBrowser \subseteq Attempts
  /\ Callback \notin Ports
  /\ None \notin Attempts \cup Ports \cup Members \cup {Callback}
  /\ MaxCodes \in Nat

VARIABLES
  attempt,   \* [Attempts -> [pc, at: its redirect URI, code: 0 or the code it exchanges]]
  cancel,    \* activeCancel of the desktop app: whose cancel() it is
  codes,     \* tables of codes: [member, challenge, at, used, expired, shown]
  exchange,  \* what POST /token does for an attempt
  tokens,    \* table device_tokens: [member, code]
  token,     \* what a finished sign-in has stored: 0 or a token
  approved   \* history: who approved the challenge of an attempt

vars == <<attempt, cancel, codes, exchange, tokens, token, approved>>

Redirects == Ports \cup {Callback}
Idle == [pc |-> "new", at |-> None, code |-> 0]

Init ==
  /\ attempt = [a \in Attempts |-> Idle] /\ cancel = None
  /\ codes = <<>> /\ tokens = <<>>
  /\ exchange = [a \in Attempts |-> "none"]
  /\ token = [a \in Attempts |-> 0]
  /\ approved = [a \in Attempts |-> {}]

-----------------------------------------------------------------------------
(* The clients.                                                            *)

At(a, pc) == attempt[a].pc = pc

\* Every end of signIn() runs its finally block.
Fails(a) ==
  /\ attempt' = [attempt EXCEPT ![a].pc = "failed"]
  /\ cancel' = IF a \in InBrowser THEN cancel ELSE None

\* signIn: a server on a port that nothing listens on, and a page in the browser.
Begins(a, port) ==
  /\ a \notin InBrowser /\ At(a, "new")
  /\ \A b \in Attempts : At(b, "wait") => attempt[b].at # port
  /\ attempt' = [attempt EXCEPT ![a].pc = "wait", ![a].at = port]
  /\ cancel' = a
  /\ UNCHANGED <<codes, exchange, tokens, token, approved>>

\* signInWithDeviceAuth.
Launches(a) ==
  /\ a \in InBrowser /\ At(a, "new")
  /\ attempt' = [attempt EXCEPT ![a].pc = "wait", ![a].at = Callback]
  /\ UNCHANGED <<cancel, codes, exchange, tokens, token, approved>>

Asks(a, c) ==
  /\ attempt' = [attempt EXCEPT ![a].pc = "exchange", ![a].code = c]
  /\ exchange' = [exchange EXCEPT ![a] = "sent"]
  /\ UNCHANGED <<cancel, codes, tokens, token, approved>>

\* The browser loads a redirect, maybe once more: the first code that a listening server is
\* given closes it.  The state beside the code is not looked at.
ServerHears(a, c) ==
  /\ a \notin InBrowser /\ At(a, "wait")
  /\ codes[c].shown /\ codes[c].at = attempt[a].at
  /\ Asks(a, c)

\* The flow ends on the redirect of its own page, whose state it compares.
FlowReturns(a, c) ==
  /\ a \in InBrowser /\ At(a, "wait")
  /\ codes[c].shown /\ codes[c].challenge = a
  /\ Asks(a, c)

\* mutant: only the sign-in that cancel() belongs to times out.
TimesOutIfActive(a) ==
  /\ a \notin InBrowser /\ At(a, "wait") /\ cancel = a
  /\ Fails(a)
  /\ UNCHANGED <<codes, exchange, tokens, token, approved>>

\* 90 seconds without a code.
TimesOut(a) ==
  /\ a \notin InBrowser /\ At(a, "wait")
  /\ Fails(a)
  /\ UNCHANGED <<codes, exchange, tokens, token, approved>>

\* The user closes the extension's flow.
FlowCloses(a) ==
  /\ a \in InBrowser /\ At(a, "wait")
  /\ Fails(a)
  /\ UNCHANGED <<codes, exchange, tokens, token, approved>>

\* cancelSignIn: no effect once a code has come.
Cancels ==
  /\ cancel # None /\ At(cancel, "wait")
  /\ Fails(cancel)
  /\ UNCHANGED <<codes, exchange, tokens, token, approved>>

\* The answer of POST /token: the token is stored ...
Stores(a) ==
  /\ At(a, "exchange") /\ exchange[a] = "minted"
  /\ \E t \in DOMAIN tokens :
       /\ tokens[t].for = a
       /\ token' = [token EXCEPT ![a] = t]
  /\ attempt' = [attempt EXCEPT ![a].pc = "done"]
  /\ cancel' = IF a \in InBrowser THEN cancel ELSE None
  /\ UNCHANGED <<codes, exchange, tokens, approved>>

\* ... or it is an error, or there is none.
AnswerFails(a) ==
  /\ At(a, "exchange")
  /\ Fails(a)
  /\ UNCHANGED <<codes, exchange, tokens, token, approved>>

-----------------------------------------------------------------------------
(* The console's page and the backend.                                     *)

\* POST /authorize/complete.
NewCode(a, m, shown) ==
  [member |-> m, challenge |-> a, at |-> attempt[a].at,
   used |-> FALSE, expired |-> FALSE, shown |-> shown]

\* The page of a posts its challenge for the account m; it follows the redirect of the
\* answer unless it was closed or rendered anew meanwhile, which posts once more.
Approves(a, m, shown) ==
  /\ ~At(a, "new") /\ Len(codes) < MaxCodes
  /\ codes' = Append(codes, NewCode(a, m, shown))
  /\ approved' = [approved EXCEPT ![a] = @ \cup {m}]
  /\ UNCHANGED <<attempt, cancel, exchange, tokens, token>>

\* Five minutes pass; the age of a code that is used makes no difference.
Expires(c) ==
  /\ ~codes[c].expired /\ ~codes[c].used
  /\ codes' = [codes EXCEPT ![c].expired = TRUE]
  /\ UNCHANGED <<attempt, cancel, exchange, tokens, token, approved>>

\* The row of the code, as POST /token reads it.
Row(a) == codes[attempt[a].code]

\* mutant: the verifier is not compared.
ValidForAny(a) == ~Row(a).used /\ ~Row(a).expired /\ Row(a).at = attempt[a].at

Valid(a) ==
  /\ ~Row(a).used /\ ~Row(a).expired
  /\ Row(a).at = attempt[a].at
  /\ Row(a).challenge = a

Reaches(a, from, to) == exchange[a] = from /\ exchange' = [exchange EXCEPT ![a] = to]

\* exchangeDesktopAuthCode and exchangeExtensionAuthCode: the code is read and checked, ...
Checks(a) ==
  /\ Reaches(a, "sent", IF Valid(a) THEN "valid" ELSE "refused")
  /\ UNCHANGED <<attempt, cancel, codes, tokens, token, approved>>

\* ... marked used in a second query ...
Marks(a) ==
  /\ Reaches(a, "valid", "marked")
  /\ codes' = [codes EXCEPT ![attempt[a].code].used = TRUE]
  /\ UNCHANGED <<attempt, cancel, tokens, token, approved>>

\* ... and a token is inserted in a third.
Mints(a) ==
  /\ Reaches(a, "marked", "minted")
  /\ tokens' = Append(tokens, [member |-> Row(a).member, code |-> attempt[a].code, for |-> a])
  /\ UNCHANGED <<attempt, cancel, codes, token, approved>>

\* The request is lost on its way, a query fails, or the backend goes down.
RequestLost(a) ==
  /\ exchange[a] \in {"sent", "valid", "marked"}
  /\ exchange' = [exchange EXCEPT ![a] = "lost"]
  /\ UNCHANGED <<attempt, cancel, codes, tokens, token, approved>>

-----------------------------------------------------------------------------
ClientStep(a) ==
  \/ \E port \in Ports : Begins(a, port)
  \/ Launches(a) \/ TimesOut(a) \/ FlowCloses(a) \/ Stores(a) \/ AnswerFails(a)
  \/ \E c \in DOMAIN codes : ServerHears(a, c) \/ FlowReturns(a, c)

BackendStep(a) ==
  \/ \E m \in Members, shown \in BOOLEAN : Approves(a, m, shown)
  \/ Checks(a) \/ Marks(a) \/ Mints(a) \/ RequestLost(a)

Next ==
  \/ \E a \in Attempts : ClientStep(a) \/ BackendStep(a)
  \/ \E c \in DOMAIN codes : Expires(c)
  \/ Cancels

\* Timers fire, and a request ends with an answer or an error.
Fairness ==
  \A a \in Attempts : WF_vars(TimesOut(a)) /\ WF_vars(Stores(a) \/ AnswerFails(a))

Spec == Init /\ [][Next]_vars /\ Fairness

-----------------------------------------------------------------------------
(* Properties.                                                             *)

Code == [member : Members, challenge : Attempts, at : Redirects,
         used : BOOLEAN, expired : BOOLEAN, shown : BOOLEAN]

\* Types; a sign-in has its port once it began, and its exchange once it has a code.
LoginTypeOK ==
  /\ attempt \in [Attempts -> [pc : {"new", "wait", "exchange", "done", "failed"},
                               at : Redirects \cup {None}, code : Nat]]
  /\ \A a \in Attempts : /\ attempt[a].code \in {0} \cup DOMAIN codes
                         /\ At(a, "new") <=> attempt[a].at = None
                         /\ exchange[a] # "none" <=> attempt[a].code # 0
  /\ cancel \in Attempts \cup {None}
  /\ codes \in Seq(Code)
  /\ exchange \in [Attempts -> {"none", "sent", "valid", "marked", "minted", "refused", "lost"}]
  /\ tokens \in Seq([member : Members, code : Nat, for : Attempts])
  /\ token \in [Attempts -> Nat] /\ \A a \in Attempts : token[a] \in {0} \cup DOMAIN tokens
  /\ approved \in [Attempts -> SUBSET Members]

\* A device is signed in as a member who approved that very sign-in, although ports are
\* used again, pages are loaded late and several accounts use one browser
\* (desktop-auth/service.ts:75-77, electron/auth.ts:129-148).
SignedInByApprover ==
  \A a \in Attempts : token[a] # 0 => tokens[token[a]].member \in approved[a]

\* No code gives two tokens, although it is checked in one query and marked in another:
\* the sign-in whose verifier fits asks once
\* (desktop-auth/service.ts:66-91, schema.ts:337).
OneTokenPerCode ==
  \A s, t \in DOMAIN tokens : tokens[s].code = tokens[t].code => s = t

\* Every sign-in of the desktop app comes to an end, cancelled or not, although a second
\* one takes activeCancel over and the end of either clears it (electron/auth.ts:174-177).
SignInEnds ==
  \A a \in Attempts \ InBrowser : At(a, "wait") ~> (At(a, "done") \/ At(a, "failed"))

=============================================================================
