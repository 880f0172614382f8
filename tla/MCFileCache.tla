---------------------------- MODULE MCFileCache ----------------------------
(* Instances of FileCache for TLC; the .cfg files give the constants. *)
EXTENDS FileCache, TLC

CONSTANTS f1, f2, w1, w2

\* Files and workers are only compared for equality.
Symmetry == Permutations(File) \cup Permutations(Worker)
=============================================================================
