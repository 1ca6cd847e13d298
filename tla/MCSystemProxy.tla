--------------------------- MODULE MCSystemProxy ----------------------------
(* SystemProxy and HostSetup for TLC: two launches, two services on macOS,   *)
(* one lost file or key.                                                     *)
EXTENDS HostSetup
=============================================================================
