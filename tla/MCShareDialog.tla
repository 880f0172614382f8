--------------------------- MODULE MCShareDialog ---------------------------
(* An instance of ShareDialog for TLC; the .cfg file gives the constants. *)
EXTENDS ShareDialog, TLC

CONSTANTS d1, d2, e1, r1, r2

Symmetric == Permutations({d1, d2}) \cup Permutations({r1, r2})
===========================================================================
