---------------------------- MODULE MCTransfer ----------------------------
(* Instances of Transfer for TLC; the .cfg file gives the constants. *)
EXTENDS Transfer

CONSTANTS c1, c2
===========================================================================
