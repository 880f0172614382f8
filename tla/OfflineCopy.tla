---------------------------- MODULE OfflineCopy ----------------------------
(***************************************************************************)
(* What keeping a Drive file available offline promises its user, without  *)
(* index, stamps, events or threads: a local copy may be edited, published *)
(* to Drive, and replaced or dropped.  What the copy holds only changes by *)
(* a save, which is a content nobody has written before, or by a           *)
(* replacement, which gives up a content that Drive never held only when   *)
(* the user asked for it.                                                  *)
(***************************************************************************)
EXTENDS Naturals

CONSTANT File   \* the remote paths

VARIABLES
    fresh,    \* the number of contents written so far; every file holds 0 at first
    drive,    \* drive[f]: the content Drive holds
    backed,   \* backed[f]: every content Drive has held
    copy,     \* copy[f]: {} or {the content of the local copy}
    asked     \* the files some forced request is out for

vars == <<fresh, drive, backed, copy, asked>>

Init ==
    /\ fresh = 0
    /\ drive = [f \in File |-> 0]
    /\ backed = [f \in File |-> {0}]
    /\ copy = [f \in File |-> {}]
    /\ asked = {}

\* Forced requests come and go.
Ask ==
    /\ asked' \in SUBSET File
    /\ UNCHANGED <<fresh, drive, backed, copy>>

\* The user saves the local copy: a content of its own.
Edit(f) ==
    /\ copy[f] # {}
    /\ fresh' = fresh + 1
    /\ copy' = [copy EXCEPT ![f] = {fresh'}]
    /\ UNCHANGED <<drive, backed, asked>>

Put(f, c) ==
    /\ drive' = [drive EXCEPT ![f] = c]
    /\ backed' = [backed EXCEPT ![f] = @ \cup {c}]

\* Another device changes the file on Drive.
ChangeElsewhere(f) ==
    /\ fresh' = fresh + 1
    /\ Put(f, fresh')
    /\ UNCHANGED <<copy, asked>>

\* The local copy becomes the file's content on Drive.
Publish(f) ==
    /\ \E c \in copy[f] : Put(f, c)
    /\ UNCHANGED <<fresh, copy, asked>>

\* The local copy is fetched, replaced by what Drive holds, or dropped: never
\* while it holds what Drive never held, unless a forced request is out for it.
Replace(f) ==
    /\ copy[f] \subseteq backed[f] \/ f \in asked
    /\ copy' \in {[copy EXCEPT ![f] = {}], [copy EXCEPT ![f] = {drive[f]}]}
    /\ asked' \in SUBSET File
    /\ UNCHANGED <<fresh, drive, backed>>

Next ==
    \/ Ask
    \/ \E f \in File :
        Edit(f) \/ ChangeElsewhere(f) \/ Publish(f) \/ Replace(f)

Spec == Init /\ [][Next]_vars
=============================================================================
