----------------------------- MODULE MCSendPath -----------------------------
(* GuardedPage for TLC.  Under two rules: a clean text, one with an email  *)
(* address, which is warned about, and one that is a key as a whole.       *)
EXTENDS GuardedPage, TLC

CONSTANTS clean, risky, secret

MCTexts == {clean, risky, secret}
MCSignalSets == {{}, {"long_text"}, {"long_text", "legal_terms_whereas", "block_quote"}}

MCDoc == <<[kind |-> "pattern", action |-> "warn"], [kind |-> "keyword", action |-> "block"]>>
MCText(email, key) ==
  [hits |-> <<email, key>>, signals |-> {}, pasted |-> FALSE, isFile |-> FALSE]
MCContent == clean :> MCText(<<>>, <<>>) @@ risky :> MCText(<<"a">>, <<>>)
             @@ secret :> MCText(<<"a">>, <<"all">>)

\* What the engine says of them (PageAssumption).
MCVerdict == clean :> "log" @@ risky :> "warn" @@ secret :> "block"
MCMatched == clean :> {} @@ risky :> {"email"} @@ secret :> {"key"}
MCRedacted == [t \in MCTexts |-> clean]
=============================================================================
