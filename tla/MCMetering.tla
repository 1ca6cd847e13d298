----------------------------- MODULE MCMetering -----------------------------
(* Metering for TLC. *)
EXTENDS Metering, TLC

CONSTANTS p1, p2, p3, d1, d2, d3, r1, r2

MCPrompts == {p1, p2, p3}
MCDeliveries == {d1, d2, d3}
MCReads == {r1, r2}
MCSymmetry == Permutations(MCPrompts) \cup Permutations(MCDeliveries) \cup Permutations(MCReads)
=============================================================================
