---------------------------- MODULE MCDeviceLogin ----------------------------
(* DeviceLogin for TLC: two sign-ins of the desktop app and one of the     *)
(* extension, two ports, two accounts of the console.                      *)
EXTENDS DeviceLogin, TLC

CONSTANTS d1, d2, x
=============================================================================
