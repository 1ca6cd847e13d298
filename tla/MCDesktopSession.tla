-------------------------- MODULE MCDesktopSession --------------------------
(* DesktopSession for TLC: two requests in flight, two sign-ins, a policy  *)
(* that changes once and one restart.                                      *)
EXTENDS DesktopSession
=============================================================================
