----------------------------- MODULE MCFsCache -----------------------------
(* Instances of FsCache for TLC; the .cfg files give the constants. *)
EXTENDS FsCache, TLC

CONSTANTS a, b, i, w1, w2

\* What lies below lies below a.
ParentOf == [p \in Inside |-> a]

\* Workers are only compared for equality.
Symmetry == Permutations(Worker)
=============================================================================
