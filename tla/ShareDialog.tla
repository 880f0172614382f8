---------------------------- MODULE ShareDialog ----------------------------
(***************************************************************************)
(* The dialog "Share via Proton Drive" (worker/sharedialog.cpp) for one    *)
(* item, in several windows, over the sharing calls of core/src/bridge.rs: *)
(* what a dialog shows and what its form would send, the item's sharing on *)
(* Drive, and the shared badge, which threads bring up to date behind the  *)
(* dialog through the item's row in fs_stat_cache.                         *)
(***************************************************************************)
EXTENDS Naturals

CONSTANTS
    Dialog,       \* the windows that show the item's dialog
    Email,        \* the people it can be shared with
    Role,         \* the roles a link can have, "viewer" first
    Refresh,      \* bound: the refresh_stat_cache_async threads there can be at once
    MaxCalls,     \* bound: changes of the item's sharing, ours and others'
    Environment,  \* what may happen besides the user's clicks
    None          \* nothing there

(***************************************************************************)
(* The events a run lets happen:                                           *)
(*   Others   the sharing is changed elsewhere, or the item is deleted     *)
(*   Failure  a call to the CLI or a store in the cache fails              *)
(*   Late     a call fails after it has reached Drive                      *)
(*   Quit     the process of a refresh ends before the refresh             *)
(*   Hours    links made elsewhere expire within a day                     *)
(***************************************************************************)
ASSUME ConstantsAssumption ==
    /\ Environment \subseteq {"Others", "Failure", "Late", "Quit", "Hours"}
    /\ MaxCalls \in Nat
    /\ "viewer" \in Role
    /\ None \notin {"midnight", "evening", "shared", "private"}

VARIABLES
    drive,   \* the item on Drive: whether it is there, its people, its link
    dialog,  \* dialog[d]: what d is doing, shows, and has in its form
    touched, \* touched[d]: the link's settings the user has set in d's form
             \* since it was last like the link (history)
    missed,  \* missed[d]: Drive has changed, and d was not told (history)
    thread,  \* thread[r]: a refresh, and what it has read, after which change
    cached,  \* the item's row in fs_stat_cache
    asOf,    \* the change the row was read after (history)
    shown,   \* the badge on the item's icon
    behind,  \* since Drive was last read a change of it was not followed by a
             \* refresh, a refresh was lost, or one that has read Drive earlier
             \* has replaced the row of one that has read it later (history)
    calls    \* how often the sharing has changed

vars == <<drive, dialog, touched, missed, thread, cached, asOf, shown, behind, calls>>

-----------------------------------------------------------------------------

Expiration == {None, "midnight", "evening"}
Link == [role : Role, expiration : Expiration]
ASSUME LinkAssumption == None \notin Link
Access == {"none", "pending", "member"}
Item == [there : BOOLEAN, people : [Email -> Access], link : Link \cup {None}]

\* What the date field keeps of an expiration, and sends.
Day(expiration) == IF expiration = None THEN None ELSE "midnight"

\* Mutants of Preload: the form is left as it is; it takes what there is.
PreloadNothing(form, link) == form
PreloadAlways(form, link) == link

\* reloadStatus: the form takes the link's settings; without a link it keeps
\* what it has.
Preload(form, link) ==
    IF link = None THEN form
    ELSE [role |-> link.role, expiration |-> Day(link.expiration)]

Nobody == [e \in Email |-> "none"]
Fresh == [there |-> TRUE, people |-> Nobody, link |-> None]

\* status: what a dialog shows of the item.
Status(item) == [people |-> item.people, link |-> item.link # None]
Blank == [people |-> Nobody, link |-> FALSE]

\* isShared or isSharedByUrl of the item's node.
NodeOf(item) == IF ~item.there THEN None
                ELSE IF item.people # Nobody \/ item.link # None THEN "shared" ELSE "private"

\* lookup_shared: the badge for a row of the cache, or for none.
Badge(row) == row = "shared"

NoCall == [op |-> "none", email |-> None]
CallOf(op) == [op |-> op, email |-> None]
Closed == [step |-> "closed", call |-> NoCall, view |-> Blank,
           form |-> [role |-> "viewer", expiration |-> None]]
Rest == [step |-> "idle", node |-> None, at |-> 0]

Call == [op : {"invite", "remove"}, email : Email] \cup
        [op : {"none", "setLink", "removeLink"}, email : {None}]
View == [people : [Email -> Access], link : BOOLEAN]
Form == [role : Role, expiration : {None, "midnight"}]
Window == [step : {"closed", "loading", "idle", "calling"},
           call : Call, view : View, form : Form]
Row == {None, "shared", "private"}
Thread == [step : {"idle", "stat", "store", "notify"}, node : Row, at : 0 .. MaxCalls]

TypeOK ==
    /\ drive \in Item
    /\ dialog \in [Dialog -> Window]
    /\ touched \in [Dialog -> SUBSET {"role", "expiration"}]
    /\ missed \in [Dialog -> BOOLEAN]
    /\ thread \in [Refresh -> Thread]
    /\ cached \in Row /\ asOf \in 0 .. MaxCalls
    /\ shown \in BOOLEAN /\ behind \in BOOLEAN
    /\ calls \in 0 .. MaxCalls

Init ==
    /\ drive = Fresh
    /\ dialog = [d \in Dialog |-> Closed]
    /\ touched = [d \in Dialog |-> {}]
    /\ missed = [d \in Dialog |-> FALSE]
    /\ thread = [r \in Refresh |-> Rest]
    /\ cached \in {None, "private"} /\ asOf = 0 /\ shown = FALSE
    /\ behind = FALSE /\ calls = 0

Fails == "Failure" \in Environment
At(d, step) == dialog[d].step = step
Calls(d, op) == At(d, "calling") /\ dialog[d].call.op = op
Running(r) == thread[r].step # "idle"

\* A change of the item on Drive, which the dialogs in who do not see.
Changes(item, who) ==
    /\ calls < MaxCalls
    /\ calls' = calls + 1
    /\ drive' = item
    /\ missed' = [d \in Dialog |-> d \in who \/ missed[d]]

-----------------------------------------------------------------------------
(***************************************************************************)
(* The dialog.  Its calls block the window: between a click and the answer *)
(* Drive and the other windows go on, and the user cannot click again.     *)
(***************************************************************************)

Open(d) ==
    /\ At(d, "closed")
    /\ dialog' = [dialog EXCEPT ![d] = [Closed EXCEPT !.step = "loading"]]
    /\ touched' = [touched EXCEPT ![d] = {}]
    /\ UNCHANGED <<drive, missed, thread, cached, asOf, shown, behind, calls>>

\* reloadStatus, with an answer.
Load(d) ==
    /\ At(d, "loading") /\ drive.there
    /\ dialog' = [dialog EXCEPT ![d].step = "idle", ![d].view = Status(drive),
                                ![d].form = Preload(@, drive.link)]
    /\ touched' = IF drive.link = None THEN touched ELSE [touched EXCEPT ![d] = {}]
    /\ missed' = [missed EXCEPT ![d] = FALSE]
    /\ UNCHANGED <<drive, thread, cached, asOf, shown, behind, calls>>

\* reloadStatus, with an error: the list and the link were cleared before.
LoadFails(d) ==
    /\ At(d, "loading") /\ (Fails \/ ~drive.there)
    /\ dialog' = [dialog EXCEPT ![d].step = "idle", ![d].view = Blank]
    /\ missed' = [missed EXCEPT ![d] = TRUE]
    /\ UNCHANGED <<drive, touched, thread, cached, asOf, shown, behind, calls>>

\* The user sets the link's role, or the day it expires.
Edit(d, field, value) ==
    /\ At(d, "idle")
    /\ dialog[d].form[field] # value
    /\ dialog' = [dialog EXCEPT ![d].form[field] = value]
    /\ touched' = [touched EXCEPT ![d] = @ \cup {field}]
    /\ UNCHANGED <<drive, missed, thread, cached, asOf, shown, behind, calls>>

\* A button: someone to invite, someone in the list, a link that is shown.
Click(d, call) ==
    /\ At(d, "idle")
    /\ call.op = "remove" => dialog[d].view.people[call.email] # "none"
    /\ call.op = "removeLink" => dialog[d].view.link
    /\ dialog' = [dialog EXCEPT ![d].step = "calling", ![d].call = call]
    /\ UNCHANGED <<drive, touched, missed, thread, cached, asOf, shown, behind, calls>>

\* refresh_stat_cache_async: whatever refreshes there are already.
Spawn ==
    \E r \in Refresh :
        /\ ~Running(r)
        /\ thread' = [thread EXCEPT ![r] = [Rest EXCEPT !.step = "stat"]]

Answered(d, step) == [dialog[d] EXCEPT !.step = step, !.call = NoCall]

\* The item once the CLI has done d's call: an invitation, or another role for
\* who is there; no access; a link like the form; no link.
Effect(d) ==
    LET e == dialog[d].call.email IN
    CASE Calls(d, "invite") ->
            [drive EXCEPT !.people[e] = IF @ = "none" THEN "pending" ELSE @]
      [] Calls(d, "remove") -> [drive EXCEPT !.people[e] = "none"]
      [] Calls(d, "setLink") -> [drive EXCEPT !.link = dialog[d].form]
      [] OTHER -> [drive EXCEPT !.link = None]

\* sharing_invite, and then the list anew.
Invite(d) ==
    /\ Calls(d, "invite") /\ drive.there
    /\ Changes(Effect(d), Dialog \ {d})
    /\ dialog' = [dialog EXCEPT ![d] = Answered(d, "loading")]
    /\ Spawn
    /\ UNCHANGED <<touched, cached, asOf, shown, behind>>

\* sharing_remove_member.
Remove(d) ==
    /\ Calls(d, "remove") /\ drive.there
    /\ Changes(Effect(d), Dialog \ {d})
    /\ dialog' = [dialog EXCEPT ![d] = Answered(d, "loading")]
    /\ Spawn
    /\ UNCHANGED <<touched, cached, asOf, shown, behind>>

\* sharing_set_link: the dialog shows the link it is given back.
SetLink(d) ==
    /\ Calls(d, "setLink") /\ drive.there
    /\ Changes(Effect(d), Dialog \ {d})
    /\ dialog' = [dialog EXCEPT ![d] = [Answered(d, "idle") EXCEPT !.view.link = TRUE]]
    /\ touched' = [touched EXCEPT ![d] = {}]
    /\ Spawn
    /\ UNCHANGED <<cached, asOf, shown, behind>>

\* Mutant of RemoveLink: the badge is not refreshed.
RemoveLinkQuietly(d) ==
    /\ Calls(d, "removeLink") /\ drive.there
    /\ Changes(Effect(d), Dialog \ {d})
    /\ dialog' = [dialog EXCEPT ![d] = [Answered(d, "idle") EXCEPT !.view.link = FALSE]]
    /\ UNCHANGED <<touched, thread, cached, asOf, shown, behind>>

\* Mutant of RemoveLink: the dialog goes on showing the link.
RemoveLinkBlindly(d) ==
    /\ Calls(d, "removeLink") /\ drive.there
    /\ Changes(Effect(d), Dialog \ {d})
    /\ dialog' = [dialog EXCEPT ![d] = Answered(d, "idle")]
    /\ Spawn
    /\ UNCHANGED <<touched, cached, asOf, shown, behind>>

\* sharing_remove_link.
RemoveLink(d) ==
    /\ Calls(d, "removeLink") /\ drive.there
    /\ Changes(Effect(d), Dialog \ {d})
    /\ dialog' = [dialog EXCEPT ![d] = [Answered(d, "idle") EXCEPT !.view.link = FALSE]]
    /\ Spawn
    /\ UNCHANGED <<touched, cached, asOf, shown, behind>>

\* tryOrWarn: an error ends the handler, whether or not Drive has done it.
CallFails(d) ==
    /\ At(d, "calling")
    /\ dialog' = [dialog EXCEPT ![d] = Answered(d, "idle")]
    /\ \/ /\ Fails \/ ~drive.there
          /\ UNCHANGED <<drive, missed, behind, calls>>
       \/ /\ "Late" \in Environment /\ drive.there
          /\ Changes(Effect(d), Dialog)
          /\ behind' = TRUE
    /\ UNCHANGED <<touched, thread, cached, asOf, shown>>

Close(d) ==
    /\ At(d, "idle")
    /\ dialog' = [dialog EXCEPT ![d] = Closed]
    /\ touched' = [touched EXCEPT ![d] = {}]
    /\ missed' = [missed EXCEPT ![d] = FALSE]
    /\ UNCHANGED <<drive, thread, cached, asOf, shown, behind, calls>>

DialogStep(d) ==
    \/ Open(d) \/ Load(d) \/ LoadFails(d) \/ Close(d)
    \/ \E role \in Role : Edit(d, "role", role)
    \/ \E day \in {None, "midnight"} : Edit(d, "expiration", day)
    \/ \E e \in Email : \E op \in {"invite", "remove"} : Click(d, [op |-> op, email |-> e])
    \/ \E op \in {"setLink", "removeLink"} : Click(d, CallOf(op))
    \/ Invite(d) \/ Remove(d) \/ SetLink(d) \/ RemoveLink(d) \/ CallFails(d)

-----------------------------------------------------------------------------
(***************************************************************************)
(* The badge.                                                              *)
(***************************************************************************)

\* The listing of the item's folder reads and stores its node too, and the
\* plugin is asked for the badges of what is listed.
Browse ==
    /\ Spawn
    /\ UNCHANGED <<drive, dialog, touched, missed, cached, asOf, shown, behind, calls>>

\* The item as it is on Drive; an item that is gone is known by no node.
Stat(r) ==
    /\ thread[r].step = "stat"
    /\ thread' = [thread EXCEPT ![r] = [step |-> "store", node |-> NodeOf(drive), at |-> calls]]
    /\ behind' = FALSE
    /\ UNCHANGED <<drive, dialog, touched, missed, cached, asOf, shown, calls>>

\* Any other error ends the thread; so does the end of its process.
StatFails(r) ==
    /\ \/ Fails /\ thread[r].step = "stat"
       \/ "Quit" \in Environment /\ Running(r)
    /\ thread' = [thread EXCEPT ![r] = Rest]
    /\ behind' = TRUE
    /\ UNCHANGED <<drive, dialog, touched, missed, cached, asOf, shown, calls>>

\* store_stat, or invalidate_stat; an error is ignored.
Store(r) ==
    /\ thread[r].step = "store"
    /\ \/ /\ cached' = thread[r].node /\ asOf' = thread[r].at
          /\ behind' = (behind \/ thread[r].at < asOf)
       \/ Fails /\ behind' = TRUE /\ UNCHANGED <<cached, asOf>>
    /\ thread' = [thread EXCEPT ![r] = [Rest EXCEPT !.step = "notify"]]
    /\ UNCHANGED <<drive, dialog, touched, missed, shown, calls>>

\* OverlayChanged: the overlay plugin asks lookup_shared again.
Notify(r) ==
    /\ thread[r].step = "notify"
    /\ shown' = Badge(cached)
    /\ thread' = [thread EXCEPT ![r] = Rest]
    /\ UNCHANGED <<drive, dialog, touched, missed, cached, asOf, behind, calls>>

RefreshStep(r) == Stat(r) \/ StatFails(r) \/ Store(r) \/ Notify(r)

\* An invitation is accepted, the item is shared, unshared or deleted by
\* another client.
Elsewhere ==
    /\ "Others" \in Environment /\ drive.there
    /\ \/ \E e \in Email, access \in Access :
            Changes([drive EXCEPT !.people[e] = access], Dialog)
       \/ \E role \in Role, expiration \in Expiration :
            /\ expiration = "evening" => "Hours" \in Environment
            /\ Changes([drive EXCEPT !.link = [role |-> role, expiration |-> expiration]],
                       Dialog)
       \/ Changes([drive EXCEPT !.link = None], Dialog)
       \/ Changes([Fresh EXCEPT !.there = FALSE], Dialog)
    /\ behind' = TRUE
    /\ UNCHANGED <<dialog, touched, thread, cached, asOf, shown>>

Next ==
    \/ \E d \in Dialog : DialogStep(d)
    \/ \E r \in Refresh : RefreshStep(r)
    \/ Browse
    \/ Elsewhere

Spec == Init /\ [][Next]_vars

-----------------------------------------------------------------------------
(***************************************************************************)
(* Properties.                                                             *)
(***************************************************************************)

\* A dialog that was told of every change shows the item's people and link as
\* they are on Drive, whatever it and the other windows have done before:
\* reloadStatus and the two handlers that do not call it.
DialogShowsDrive ==
    \A d \in Dialog : At(d, "idle") /\ ~missed[d] => dialog[d].view = Status(drive)

\* "Create/Update Link" changes no setting of the link the user has not set:
\* the comment in reloadStatus on "silently downgrading it the moment the
\* dialog was reopened for an unrelated change".
UpdateKeepsSettings ==
    [][\A d \in Dialog :
        Calls(d, "setLink") /\ ~At(d, "calling")' /\ ~missed[d]
            /\ drive.link # None /\ drive'.link # None
        => /\ "role" \in touched[d] \/ drive'.link.role = drive.link.role
           /\ "expiration" \in touched[d]
                \/ drive'.link.expiration = drive.link.expiration]_vars

\* When no refresh is under way the badge tells whether the item is shared,
\* however many refreshes have overlapped: the last one was "notified once the
\* cache is actually fresh" (refresh_stat_cache_async).  What it may miss are
\* the changes and losses of `behind`; among them the one that overlapping
\* refreshes bring about, of an older reading stored over a newer one.
BadgeIsCurrent ==
    (\A r \in Refresh : ~Running(r)) /\ ~behind => shown = Badge(NodeOf(drive))
=============================================================================
