---------------------------- MODULE MCFolderView ----------------------------
(* Instances of FolderView for TLC; the .cfg files give the constants. *)
EXTENDS FolderView, TLC

CONSTANTS a, w1

\* Nothing below the children is cached.
ParentOf == [p \in Inside |-> a]
=============================================================================
