------------------------- MODULE MCExtensionPolicy --------------------------
(* ExtensionPolicy for TLC: two organisations, one of which publishes      *)
(* twice and one never after its first policy; two syncs in flight.        *)
EXTENDS ExtensionPolicy, TLC

CONSTANTS o1, o2

MCOrgs == {o1, o2}
MCMaxVersion == o1 :> 3 @@ o2 :> 1
=============================================================================
