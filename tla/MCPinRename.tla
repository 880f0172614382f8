---------------------------- MODULE MCPinRename ----------------------------
(* Instances of PinRename for TLC; the .cfg files give the constants. *)
EXTENDS PinRename, TLC

CONSTANTS d, e, a, b

\* Folders and names are only compared for equality.
Symmetry == Permutations(Dir) \cup Permutations(Base)
============================================================================
