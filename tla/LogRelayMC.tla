----------------------------- MODULE LogRelayMC -----------------------------
(***************************************************************************)
(* Instances of LogRelay for TLC: the page of the user, the page it is     *)
(* refreshed to, and the page of an administrator.                         *)
(***************************************************************************)
EXTENDS LogRelay

CONSTANTS user, refreshed, admin
=============================================================================
