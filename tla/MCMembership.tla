---------------------------- MODULE MCMembership ----------------------------
(* Membership for TLC: one person who signs up, twice at most, and another *)
(* address; a plan of one seat; two administrators at once.                *)
EXTENDS Membership, TLC
=============================================================================
