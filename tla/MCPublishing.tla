---------------------------- MODULE MCPublishing ----------------------------
(* Publishing for TLC: a subject of the whole organisation and one of the  *)
(* member's team; three rules of which two of one subject and one of the   *)
(* other detect the same thing.                                            *)
EXTENDS Publishing, TLC

CONSTANTS g, t, r1, r2, r3, key

MCSubjectOf == r1 :> g @@ r2 :> g @@ r3 :> t
MCKeyOf == [r \in Rules |-> key]
MCListing == <<r1, r2, r3>>
MCFirstDraft == r1 :> "block" @@ r2 :> "warn" @@ r3 :> "warn"
=============================================================================
