----------------------------- MODULE MCWizard -----------------------------
(* An instance of Wizard for TLC; the .cfg file gives the constants. *)
EXTENDS Wizard

CONSTANT d1
===========================================================================
