---------------------------- MODULE MCPinSync ----------------------------
(* Instances of PinSync for TLC; the .cfg files give the constants. *)
EXTENDS PinSync, TLC

CONSTANTS f1, f2, t1, t2

\* Files and threads are only compared for equality.
Symmetry == Permutations(File) \cup Permutations(Thread)
==========================================================================
