----------------------------- MODULE FolderView -----------------------------
(***************************************************************************)
(* How a folder left open in Dolphin is kept up to date: FsCache together  *)
(* with the daemon's record of which folders are open                      *)
(* (daemon/src/open_folders.rs) and the main loop's periodic revalidation  *)
(* of them (main.rs), for one folder.                                      *)
(*                                                                         *)
(* FsCache's window is one of several views of the folder; of the others   *)
(* only the number matters.  Views announce themselves with KDirNotify     *)
(* signals that a thread of the daemon reads from busctl, in order, some   *)
(* time later.                                                             *)
(***************************************************************************)
EXTENDS FsCache, Sequences

CONSTANTS
    Mishap,     \* what a run lets happen to views, see below
    MaxOthers,  \* bound: other views of the folder
    MaxCount,   \* bound: no view dies when more than that are counted
    MaxSignals  \* bound: signals not read yet

(***************************************************************************)
(*   Crash    a Dolphin dies: its view is gone without a signal            *)
(*   Expiry   an hour passes in which the folder is neither entered nor    *)
(*            served                                                       *)
(***************************************************************************)
ASSUME ViewAssumption ==
    /\ Mishap \subseteq {"Crash", "Expiry"}
    /\ MaxOthers \in Nat /\ MaxCount \in Nat
    /\ MaxSignals \in Nat \ {0}

VARIABLES
    others,   \* the other views that show the folder
    signals,  \* enteredDirectory and leftDirectory, on their way
    views,    \* the views the folder's entry counts; 0 when it has none
    old,      \* the entry was last seen an hour ago
    lapsed    \* an entry was dropped for its age (history)

folderVars == <<others, signals, views, old, lapsed>>
allVars == <<vars, folderVars>>

Signal == {"entered", "left"}

\* The views that are there, and what the entry and the signals say of them.
Shown == others + (IF view = {} THEN 0 ELSE 1)

\* The values the variables take.
ViewTypeOK ==
    /\ others \in 0 .. MaxOthers
    /\ signals \in Seq(Signal) /\ Len(signals) <= MaxSignals
    /\ views \in Nat
    /\ old \in BOOLEAN /\ lapsed \in BOOLEAN
    /\ views = 0 => old = FALSE

ViewInit ==
    /\ Init
    /\ others = 0 /\ signals = <<>>
    /\ views = 0 /\ old = FALSE /\ lapsed = FALSE

-----------------------------------------------------------------------------
(***************************************************************************)
(* Dolphin's views.                                                        *)
(***************************************************************************)

Announce(s) ==
    /\ Len(signals) < MaxSignals
    /\ signals' = Append(signals, s)
    /\ UNCHANGED <<views, old, lapsed>>

Enter == Open /\ Announce("entered") /\ UNCHANGED others

Leave == Close /\ Announce("left") /\ UNCHANGED others

EnterOther ==
    /\ others < MaxOthers
    /\ others' = others + 1
    /\ Announce("entered")
    /\ UNCHANGED vars

LeaveOther ==
    /\ others > 0
    /\ others' = others - 1
    /\ Announce("left")
    /\ UNCHANGED vars

\* A view disappears and nobody says so.
Vanish ==
    /\ "Crash" \in Mishap /\ views + Len(signals) <= MaxCount
    /\ \/ Close /\ UNCHANGED others
       \/ others > 0 /\ others' = others - 1 /\ UNCHANGED vars
    /\ UNCHANGED <<signals, views, old, lapsed>>

-----------------------------------------------------------------------------
(***************************************************************************)
(* The daemon: OpenFolders::apply, touch and current.                      *)
(***************************************************************************)

\* Mutant of ApplySignal: the first view to leave ends the entry.
ApplySignalForgetting ==
    /\ signals # <<>>
    /\ signals' = Tail(signals)
    /\ \/ Head(signals) = "entered" /\ views' = views + 1 /\ old' = FALSE
       \/ Head(signals) = "left" /\ views' = 0 /\ old' = FALSE
    /\ UNCHANGED <<vars, others, lapsed>>

\* Mutant of ApplySignal: a view that leaves is taken off whatever the count is.
ApplySignalUnguarded ==
    /\ signals # <<>>
    /\ signals' = Tail(signals)
    /\ \/ Head(signals) = "entered" /\ views' = views + 1 /\ old' = FALSE
       \/ Head(signals) = "left"
            /\ views' = views - 1 /\ old' = (old /\ views > 1)
    /\ UNCHANGED <<vars, others, lapsed>>

\* A view more counts as a sign of life; with the last one the entry goes.
ApplySignal ==
    /\ signals # <<>>
    /\ signals' = Tail(signals)
    /\ \/ Head(signals) = "entered" /\ views' = views + 1 /\ old' = FALSE
       \/ Head(signals) = "left" /\ views > 0
            /\ views' = views - 1 /\ old' = (old /\ views > 1)
       \/ Head(signals) = "left" /\ views = 0 /\ UNCHANGED <<views, old>>
    /\ UNCHANGED <<vars, others, lapsed>>

\* route_revalidate: a request from a worker is a sign of life too, even one
\* that the cooldown drops.
Touch == TakeRequest /\ old' = FALSE /\ UNCHANGED <<others, signals, views, lapsed>>

GrowOld ==
    /\ "Expiry" \in Mishap
    /\ views > 0 /\ ~old
    /\ old' = TRUE
    /\ UNCHANGED <<vars, others, signals, views, lapsed>>

\* The minute is over: an entry that is too old is dropped ...
Expire ==
    /\ old
    /\ sweep = {} /\ ~Reading("loop")
    /\ views' = 0 /\ old' = FALSE /\ lapsed' = TRUE
    /\ UNCHANGED <<vars, others, signals>>

\* ... and a folder that has an entry is revalidated.
Refresh == views > 0 /\ ~old /\ RevalidateOpen /\ UNCHANGED folderVars

-----------------------------------------------------------------------------

ViewNext ==
    \/ Enter \/ Leave \/ EnterOther \/ LeaveOther \/ Vanish
    \/ ApplySignal \/ Touch \/ GrowOld \/ Expire \/ Refresh
    \/ Elsewhere /\ UNCHANGED folderVars

ViewSpec == ViewInit /\ [][ViewNext]_allVars

\* Signals arrive, requests are taken up and every open folder has its turn
\* once a minute, sixty times before it is old; whether views come and go,
\* die or grow old is up to them.
ViewFairness ==
    /\ Fairness
    /\ WF_allVars(ApplySignal)
    /\ WF_allVars(Touch)
    /\ SF_allVars(Refresh)
    /\ WF_allVars(Expire)

ViewFairSpec == ViewSpec /\ ViewFairness

-----------------------------------------------------------------------------
(***************************************************************************)
(* Properties.                                                             *)
(***************************************************************************)

\* A folder with a view has an entry, once the signals are read, as long as
\* none was dropped for its age: "counts the views showing each folder"
\* (open_folders.rs).  Views that die only make it count too many.
OpenIsTracked ==
    ~lapsed /\ signals = <<>> => Shown <= views

\* A window left open on the folder comes to show what Drive holds: "a
\* change made elsewhere shows up within about a minute without the user
\* doing anything" (main.rs), unless the folder has expired.
ViewMatches == \A v \in view : v = drive
ViewConverges == <>[](view # {}) => <>[]ViewMatches \/ <>lapsed
=============================================================================
