------------------------ MODULE ShareDialog_proofs ------------------------
(***************************************************************************)
(* Proofs about ShareDialog for every set of windows, people and refreshes *)
(* and any number of changes.                                              *)
(***************************************************************************)
EXTENDS ShareDialog, TLAPS

USE DEF Row

-----------------------------------------------------------------------------
(***************************************************************************)
(* Types.                                                                  *)
(***************************************************************************)

LEMMA SmallTypes ==
    /\ None \in Row /\ Nobody \in [Email -> Access]
    /\ Fresh \in Item /\ [Fresh EXCEPT !.there = FALSE] \in Item
    /\ Blank \in View /\ NoCall \in Call /\ Closed \in Window
    /\ Rest \in Thread /\ [Rest EXCEPT !.step = "stat"] \in Thread
    /\ [Rest EXCEPT !.step = "notify"] \in Thread
<1>1. /\ Rest \in Thread /\ [Rest EXCEPT !.step = "stat"] \in Thread
      /\ [Rest EXCEPT !.step = "notify"] \in Thread
  <2>1. 0 \in 0 .. MaxCalls
    BY ConstantsAssumption
  <2> QED
    BY <2>1 DEF Rest, Thread
<1>2. /\ None \in Row /\ Nobody \in [Email -> Access]
      /\ Fresh \in Item /\ [Fresh EXCEPT !.there = FALSE] \in Item
      /\ Blank \in View /\ NoCall \in Call /\ Closed \in Window
  BY ConstantsAssumption DEF Nobody, Fresh, Blank, NoCall, Closed, Access, Item,
     Link, View, Call, Form, Window
<1> QED
  BY <1>1, <1>2

LEMMA ItemTypes ==
    ASSUME NEW item \in Item
    PROVE  /\ NodeOf(item) \in Row
           /\ Status(item) \in View
           /\ \A e \in Email, a \in Access : [item EXCEPT !.people[e] = a] \in Item
           /\ \A l \in Link \cup {None} : [item EXCEPT !.link = l] \in Item
           /\ \A form \in Form : Preload(form, item.link) \in Form
BY DEF NodeOf, Status, View, Item, Access, Link, Preload, Form, Day

LEMMA FormIsLink == Form \subseteq Link
BY DEF Form, Link, Expiration

\* The fields of a window that a step changes.
LEMMA WindowTypes ==
    ASSUME TypeOK, NEW d \in Dialog
    PROVE  /\ dialog[d] \in Window
           /\ dialog[d].call \in Call /\ dialog[d].view \in View /\ dialog[d].form \in Form
           /\ \A step \in {"closed", "loading", "idle", "calling"} :
                /\ Answered(d, step) \in Window
                /\ \A view \in View, form \in Form, call \in Call :
                    [step |-> step, call |-> call, view |-> view, form |-> form] \in Window
<1>1. dialog[d] \in Window
  BY DEF TypeOK
<1> QED
  BY <1>1, SmallTypes DEF Window, Answered

LEMMA EffectType ==
    ASSUME TypeOK, NEW d \in Dialog
    PROVE  Effect(d) \in Item
<1>1. drive \in Item /\ dialog[d].form \in Link
  BY WindowTypes, FormIsLink DEF TypeOK
<1>2. CASE Calls(d, "invite") \/ Calls(d, "remove")
  <2> DEFINE e == dialog[d].call.email
  <2>1. e \in Email
    BY <1>2, WindowTypes DEF Calls, Call
  <2>2. drive.people[e] \in Access /\ "pending" \in Access /\ "none" \in Access
    BY <1>1, <2>1 DEF Item, Access
  <2> QED
    BY <1>1, <1>2, <2>1, <2>2, ItemTypes DEF Effect
<1>3. CASE ~Calls(d, "invite") /\ ~Calls(d, "remove")
  BY <1>1, <1>3, ItemTypes DEF Effect
<1> QED
  BY <1>2, <1>3

LEMMA ChangesTypes ==
    ASSUME TypeOK, NEW item \in Item, NEW who, Changes(item, who)
    PROVE  drive' \in Item /\ calls' \in 0 .. MaxCalls /\ missed' \in [Dialog -> BOOLEAN]
<1>1. drive' \in Item /\ missed' \in [Dialog -> BOOLEAN]
  BY DEF Changes, TypeOK
<1>2. calls' \in 0 .. MaxCalls
  BY ConstantsAssumption DEF Changes, TypeOK
<1> QED
  BY <1>1, <1>2

LEMMA SpawnTypes ==
    ASSUME TypeOK, Spawn
    PROVE  thread' \in [Refresh -> Thread]
BY SmallTypes DEF Spawn, TypeOK

\* The four calls, with an answer.
LEMMA AnswerTypes ==
    ASSUME TypeOK, NEW d \in Dialog, Changes(Effect(d), Dialog \ {d}), Spawn,
           NEW w \in Window, dialog' = [dialog EXCEPT ![d] = w],
           touched' \in [Dialog -> SUBSET {"role", "expiration"}],
           UNCHANGED <<cached, asOf, shown, behind>>
    PROVE  TypeOK'
BY EffectType, ChangesTypes, SpawnTypes DEF TypeOK

LEMMA DialogTypes ==
    ASSUME TypeOK, NEW d \in Dialog, DialogStep(d)
    PROVE  TypeOK'
<1> DEFINE Fields == {"role", "expiration"}
<1>0. /\ \A S \in SUBSET Fields : [touched EXCEPT ![d] = S] \in [Dialog -> SUBSET Fields]
      /\ touched \in [Dialog -> SUBSET Fields]
      /\ \A b \in BOOLEAN : [missed EXCEPT ![d] = b] \in [Dialog -> BOOLEAN]
      /\ \A w \in Window : [dialog EXCEPT ![d] = w] \in [Dialog -> Window]
      /\ drive \in Item /\ Status(drive) \in View
  BY ItemTypes DEF TypeOK
<1>1. CASE Open(d)
  <2>1. [Closed EXCEPT !.step = "loading"] \in Window
    BY SmallTypes DEF Window
  <2> QED
    BY <1>0, <1>1, <2>1 DEF Open, TypeOK
<1>2. CASE Load(d)
  <2> DEFINE w == [dialog[d] EXCEPT !.step = "idle", !.view = Status(drive),
                                    !.form = Preload(@, drive.link)]
  <2>0. dialog[d] \in Window /\ Preload(dialog[d].form, drive.link) \in Form
    BY <1>0, WindowTypes, ItemTypes
  <2>1. w \in Window
    BY <1>0, <2>0 DEF Window
  <2>2. dialog' = [dialog EXCEPT ![d] = w]
    BY <1>2 DEF Load
  <2> QED
    BY <1>0, <1>2, <2>1, <2>2 DEF Load, TypeOK
<1>3. CASE LoadFails(d)
  <2> DEFINE w == [dialog[d] EXCEPT !.step = "idle", !.view = Blank]
  <2>0. dialog[d] \in Window /\ Blank \in View
    BY WindowTypes, SmallTypes
  <2>1. w \in Window
    BY <2>0 DEF Window
  <2>2. dialog' = [dialog EXCEPT ![d] = w]
    BY <1>3 DEF LoadFails
  <2> QED
    BY <1>0, <1>3, <2>1, <2>2 DEF LoadFails, TypeOK
<1>4. CASE Close(d)
  BY <1>0, <1>4, SmallTypes DEF Close, TypeOK
<1>5. ASSUME NEW role \in Role, Edit(d, "role", role)
      PROVE  TypeOK'
  <2> DEFINE w == [dialog[d] EXCEPT !.form = [@ EXCEPT !.role = role]]
  <2>1. w \in Window
    BY WindowTypes DEF Window, Form
  <2>2. dialog' = [dialog EXCEPT ![d] = w]
    BY <1>5 DEF Edit
  <2>3. touched' \in [Dialog -> SUBSET Fields]
    BY <1>0, <1>5 DEF Edit
  <2> QED
    BY <1>0, <1>5, <2>1, <2>2, <2>3 DEF Edit, TypeOK
<1>6. ASSUME NEW day \in {None, "midnight"}, Edit(d, "expiration", day)
      PROVE  TypeOK'
  <2> DEFINE w == [dialog[d] EXCEPT !.form = [@ EXCEPT !.expiration = day]]
  <2>1. w \in Window
    BY WindowTypes DEF Window, Form
  <2>2. dialog' = [dialog EXCEPT ![d] = w]
    BY <1>6 DEF Edit
  <2>3. touched' \in [Dialog -> SUBSET Fields]
    BY <1>0, <1>6 DEF Edit
  <2> QED
    BY <1>0, <1>6, <2>1, <2>2, <2>3 DEF Edit, TypeOK
<1>7. ASSUME NEW call \in Call, Click(d, call)
      PROVE  TypeOK'
  <2> DEFINE w == [dialog[d] EXCEPT !.step = "calling", !.call = call]
  <2>0. dialog[d] \in Window
    BY WindowTypes
  <2>1. w \in Window
    BY <1>7, <2>0 DEF Window
  <2>2. dialog' = [dialog EXCEPT ![d] = w]
    BY <1>7 DEF Click
  <2> QED
    BY <1>0, <1>7, <2>1, <2>2 DEF Click, TypeOK
<1>8. CASE Invite(d) \/ Remove(d)
  BY <1>0, <1>8, AnswerTypes, WindowTypes DEF Invite, Remove
<1>9. CASE SetLink(d)
  <2>0. Answered(d, "idle") \in Window
    BY WindowTypes
  <2>1. [Answered(d, "idle") EXCEPT !.view.link = TRUE] \in Window
    <3>1. [Answered(d, "idle").view EXCEPT !.link = TRUE] \in View
      BY <2>0 DEF Window, View
    <3> QED
      BY <2>0, <3>1 DEF Window
  <2> QED
    BY <1>0, <1>9, <2>1, AnswerTypes DEF SetLink
<1>10. CASE RemoveLink(d)
  <2>0. Answered(d, "idle") \in Window
    BY WindowTypes
  <2>1. [Answered(d, "idle") EXCEPT !.view.link = FALSE] \in Window
    <3>1. [Answered(d, "idle").view EXCEPT !.link = FALSE] \in View
      BY <2>0 DEF Window, View
    <3> QED
      BY <2>0, <3>1 DEF Window
  <2> QED
    BY <1>0, <1>10, <2>1, AnswerTypes DEF RemoveLink
<1>11. CASE CallFails(d)
  <2>1. Answered(d, "idle") \in Window
    BY WindowTypes
  <2>2. drive' \in Item /\ calls' \in 0 .. MaxCalls /\ missed' \in [Dialog -> BOOLEAN]
        /\ behind' \in BOOLEAN
    BY <1>0, <1>11, EffectType, ChangesTypes DEF CallFails, TypeOK
  <2> QED
    BY <1>0, <1>11, <2>1, <2>2 DEF CallFails, TypeOK
<1>12. /\ \A e \in Email : \A op \in {"invite", "remove"} : [op |-> op, email |-> e] \in Call
       /\ \A op \in {"setLink", "removeLink"} : CallOf(op) \in Call
  BY DEF Call, CallOf
<1> QED
  BY <1>1, <1>2, <1>3, <1>4, <1>5, <1>6, <1>7, <1>8, <1>9, <1>10, <1>11, <1>12
  DEF DialogStep

LEMMA RefreshTypes ==
    ASSUME TypeOK, NEW r \in Refresh, RefreshStep(r)
    PROVE  TypeOK'
<1>1. /\ thread[r] \in Thread /\ Rest \in Thread
      /\ [step |-> "store", node |-> NodeOf(drive), at |-> calls] \in Thread
      /\ [Rest EXCEPT !.step = "notify"] \in Thread
  BY SmallTypes, ItemTypes DEF TypeOK, Thread
<1>2. /\ thread[r].node \in Row /\ thread[r].at \in 0 .. MaxCalls
      /\ Badge(cached) \in BOOLEAN /\ (thread[r].at < asOf) \in BOOLEAN
  BY <1>1 DEF Badge, Thread
<1>3. thread' \in [Refresh -> Thread]
  BY <1>1 DEF TypeOK, RefreshStep, Stat, StatFails, Store, Notify
<1>4. /\ cached' \in Row /\ asOf' \in 0 .. MaxCalls
      /\ shown' \in BOOLEAN /\ behind' \in BOOLEAN
  BY <1>2 DEF TypeOK, RefreshStep, Stat, StatFails, Store, Notify
<1> QED
  BY <1>3, <1>4 DEF TypeOK, RefreshStep, Stat, StatFails, Store, Notify

LEMMA ElsewhereTypes == ASSUME TypeOK, Elsewhere PROVE TypeOK'
<1>1. drive \in Item
  BY DEF TypeOK
<1>2. PICK item \in Item : Changes(item, Dialog)
  <2>1. ASSUME NEW role \in Role, NEW expiration \in Expiration
        PROVE  [role |-> role, expiration |-> expiration] \in Link
    BY DEF Link
  <2> QED
    BY <1>1, <2>1, SmallTypes, ItemTypes DEF Elsewhere
<1>3. drive' \in Item /\ calls' \in 0 .. MaxCalls /\ missed' \in [Dialog -> BOOLEAN]
  BY <1>2, ChangesTypes
<1> QED
  BY <1>3 DEF Elsewhere, TypeOK

LEMMA NextTypes == TypeOK /\ [Next]_vars => TypeOK'
<1> SUFFICES ASSUME TypeOK, [Next]_vars PROVE TypeOK'
  OBVIOUS
<1>1. CASE Browse
  BY <1>1, SpawnTypes DEF Browse, TypeOK
<1>2. CASE UNCHANGED vars
  BY <1>2 DEF vars, TypeOK
<1> QED
  BY <1>1, <1>2, DialogTypes, RefreshTypes, ElsewhereTypes DEF Next

LEMMA InitTypes == Init => TypeOK
<1> SUFFICES ASSUME Init PROVE TypeOK
  OBVIOUS
<1>1. calls \in 0 .. MaxCalls
  BY ConstantsAssumption DEF Init
<1> QED
  BY <1>1, SmallTypes DEF Init, TypeOK

\* Every state is of the types the code has.
THEOREM Types == Spec => []TypeOK
<1> QED
  BY InitTypes, NextTypes, PTL DEF Spec

-----------------------------------------------------------------------------
(***************************************************************************)
(* What a dialog shows.  The form goes with it: a setting the user has not *)
(* touched is the link's.                                                  *)
(***************************************************************************)

FormAgrees(d) ==
    drive.link # None =>
        /\ "role" \in touched[d] \/ dialog[d].form.role = drive.link.role
        /\ "expiration" \in touched[d]
             \/ dialog[d].form.expiration = Day(drive.link.expiration)

Current(d) == dialog[d].view = Status(drive) /\ FormAgrees(d)

WindowOK(d) == (At(d, "idle") \/ At(d, "calling")) /\ ~missed[d] => Current(d)

WindowsInv == TypeOK /\ \A d \in Dialog : WindowOK(d)

\* Whatever a step of one window does to Drive, another window either has
\* nothing changed for it or has missed the change.
LEMMA OtherWindows ==
    ASSUME TypeOK, NEW d \in Dialog, DialogStep(d), NEW e \in Dialog, e # d
    PROVE  /\ dialog'[e] = dialog[e] /\ touched'[e] = touched[e]
           /\ missed'[e] \/ (drive' = drive /\ missed'[e] = missed[e])
<1>1. dialog'[e] = dialog[e]
  BY DEF TypeOK, DialogStep, Open, Load, LoadFails, Close, Edit, Click, Invite, Remove,
         SetLink, RemoveLink, CallFails
<1>2. touched'[e] = touched[e]
  BY DEF TypeOK, DialogStep, Open, Load, LoadFails, Close, Edit, Click, Invite, Remove,
         SetLink, RemoveLink, CallFails
<1>3. missed'[e] \/ (drive' = drive /\ missed'[e] = missed[e])
  BY DEF TypeOK, DialogStep, Open, Load, LoadFails, Close, Edit, Click, Invite, Remove,
         SetLink, RemoveLink, CallFails, Changes
<1> QED
  BY <1>1, <1>2, <1>3

LEMMA KeptWindow ==
    ASSUME NEW e \in Dialog, WindowOK(e), dialog'[e] = dialog[e], touched'[e] = touched[e],
           missed'[e] \/ (drive' = drive /\ missed'[e] = missed[e])
    PROVE  WindowOK(e)'
BY DEF WindowOK, Current, FormAgrees, At

\* What the link becomes is what the form holds.
LEMMA SetLinkEffect ==
    ASSUME TypeOK, NEW d \in Dialog, Calls(d, "setLink")
    PROVE  Effect(d) = [drive EXCEPT !.link = dialog[d].form]
BY DEF Effect, Calls

LEMMA RemoveLinkEffect ==
    ASSUME TypeOK, NEW d \in Dialog, Calls(d, "removeLink")
    PROVE  Effect(d) = [drive EXCEPT !.link = None]
BY DEF Effect, Calls

LEMMA OwnWindow ==
    ASSUME TypeOK, NEW d \in Dialog, DialogStep(d), WindowOK(d)
    PROVE  WindowOK(d)'
<1>0. dialog[d] \in Window /\ drive \in Item /\ dialog[d].form \in Form
  BY WindowTypes DEF TypeOK
<1>1. CASE Open(d)
  BY <1>1 DEF Open, WindowOK, At, TypeOK, Closed
<1>2. CASE Load(d)
  <2>1. /\ dialog'[d].view = Status(drive)
        /\ dialog'[d].form = Preload(dialog[d].form, drive.link)
        /\ drive' = drive
    BY <1>0, <1>2 DEF Load, TypeOK, Window
  <2>2. drive.link # None => /\ dialog'[d].form.role = drive.link.role
                             /\ dialog'[d].form.expiration = Day(drive.link.expiration)
    BY <2>1 DEF Preload
  <2> QED
    BY <2>1, <2>2 DEF WindowOK, Current, FormAgrees, Status
<1>3. CASE LoadFails(d)
  BY <1>3 DEF LoadFails, TypeOK, WindowOK
<1>4. CASE Close(d)
  BY <1>4 DEF Close, WindowOK, At, TypeOK, Closed
<1>5. ASSUME NEW role \in Role, Edit(d, "role", role)
      PROVE  WindowOK(d)'
  <2>1. /\ dialog'[d].view = dialog[d].view
        /\ dialog'[d].form.expiration = dialog[d].form.expiration
        /\ touched'[d] = touched[d] \cup {"role"}
        /\ UNCHANGED <<drive, missed>> /\ At(d, "idle")
    BY <1>0, <1>5 DEF Edit, TypeOK, Window, Form
  <2> QED
    BY <2>1 DEF WindowOK, Current, FormAgrees
<1>6. ASSUME NEW day \in {None, "midnight"}, Edit(d, "expiration", day)
      PROVE  WindowOK(d)'
  <2>1. /\ dialog'[d].view = dialog[d].view
        /\ dialog'[d].form.role = dialog[d].form.role
        /\ touched'[d] = touched[d] \cup {"expiration"}
        /\ UNCHANGED <<drive, missed>> /\ At(d, "idle")
    BY <1>0, <1>6 DEF Edit, TypeOK, Window, Form
  <2> QED
    BY <2>1 DEF WindowOK, Current, FormAgrees
<1>7. ASSUME NEW call, Click(d, call)
      PROVE  WindowOK(d)'
  <2>1. /\ dialog'[d].view = dialog[d].view
        /\ dialog'[d].form = dialog[d].form
        /\ UNCHANGED <<drive, missed, touched>> /\ At(d, "idle")
    BY <1>0, <1>7 DEF Click, TypeOK, Window
  <2> QED
    BY <2>1 DEF WindowOK, Current, FormAgrees
<1>8. CASE Invite(d) \/ Remove(d)
  <2>1. dialog' = [dialog EXCEPT ![d] = Answered(d, "loading")]
    BY <1>8 DEF Invite, Remove
  <2>2. dialog'[d].step = "loading"
    BY <1>0, <2>1 DEF Answered, TypeOK, Window
  <2> QED
    BY <2>2 DEF WindowOK, At
<1>9. CASE SetLink(d)
  <2>1. /\ drive' = [drive EXCEPT !.link = dialog[d].form]
        /\ missed'[d] = missed[d] /\ At(d, "calling")
    BY <1>9, SetLinkEffect DEF SetLink, Changes, TypeOK, Calls
  <2>2. /\ dialog'[d].view = [dialog[d].view EXCEPT !.link = TRUE]
        /\ dialog'[d].form = dialog[d].form
    BY <1>0, <1>9 DEF SetLink, Answered, TypeOK, Window
  <2>3. dialog[d].form # None
    BY <1>0, FormIsLink, LinkAssumption
  <2>4. drive'.link = dialog[d].form /\ drive'.people = drive.people
    BY <1>0, <2>1 DEF Item
  <2>5. FormAgrees(d)'
    BY <1>0, <2>2, <2>4 DEF FormAgrees, Day, Form
  <2>6. Status(drive)' = [people |-> drive.people, link |-> TRUE]
    BY <2>3, <2>4 DEF Status
  <2>7. ASSUME dialog[d].view = Status(drive)
        PROVE  dialog'[d].view = Status(drive)'
    <3>1. dialog[d].view.people = drive.people
      BY <2>7 DEF Status
    <3>2. dialog[d].view \in View
      BY WindowTypes
    <3> QED
      BY <2>2, <2>6, <3>1, <3>2 DEF View
  <2> QED
    BY <2>1, <2>5, <2>7 DEF WindowOK, Current
<1>10. CASE RemoveLink(d)
  <2>1. /\ drive' = [drive EXCEPT !.link = None]
        /\ missed'[d] = missed[d] /\ At(d, "calling")
    BY <1>10, RemoveLinkEffect DEF RemoveLink, Changes, TypeOK, Calls
  <2>2. dialog'[d].view = [dialog[d].view EXCEPT !.link = FALSE]
    BY <1>0, <1>10 DEF RemoveLink, Answered, TypeOK, Window
  <2>3. drive'.link = None /\ drive'.people = drive.people
    BY <1>0, <2>1 DEF Item
  <2>4. Status(drive)' = [people |-> drive.people, link |-> FALSE]
    BY <2>3 DEF Status
  <2>5. ASSUME dialog[d].view = Status(drive)
        PROVE  dialog'[d].view = Status(drive)'
    <3>1. dialog[d].view.people = drive.people
      BY <2>5 DEF Status
    <3>2. dialog[d].view \in View
      BY WindowTypes
    <3> QED
      BY <2>2, <2>4, <3>1, <3>2 DEF View
  <2> QED
    BY <2>1, <2>3, <2>5 DEF WindowOK, Current, FormAgrees
<1>11. CASE CallFails(d)
  <2>1. /\ dialog'[d].view = dialog[d].view
        /\ dialog'[d].form = dialog[d].form
        /\ At(d, "calling") /\ touched' = touched
    BY <1>0, <1>11 DEF CallFails, Answered, TypeOK, Window
  <2>2. missed'[d] \/ (drive' = drive /\ missed'[d] = missed[d])
    BY <1>11 DEF CallFails, Changes
  <2> QED
    BY <2>1, <2>2 DEF WindowOK, Current, FormAgrees
<1> QED
  BY <1>1, <1>2, <1>3, <1>4, <1>5, <1>6, <1>7, <1>8, <1>9, <1>10, <1>11 DEF DialogStep

LEMMA WindowsNext == WindowsInv /\ [Next]_vars => WindowsInv'
<1> SUFFICES ASSUME WindowsInv, [Next]_vars PROVE WindowsInv'
  OBVIOUS
<1>0. TypeOK /\ TypeOK'
  BY NextTypes DEF WindowsInv
<1> SUFFICES ASSUME NEW e \in Dialog PROVE WindowOK(e)'
  BY <1>0 DEF WindowsInv
<1>1. WindowOK(e)
  BY DEF WindowsInv
<1>2. ASSUME NEW d \in Dialog, DialogStep(d) PROVE WindowOK(e)'
  <2>1. CASE e = d
    BY <1>0, <1>1, <1>2, <2>1, OwnWindow
  <2>2. CASE e # d
    BY <1>0, <1>1, <1>2, <2>2, OtherWindows, KeptWindow
  <2> QED
    BY <2>1, <2>2
<1>3. ASSUME NEW r \in Refresh, RefreshStep(r) PROVE WindowOK(e)'
  BY <1>1, <1>3, KeptWindow DEF RefreshStep, Stat, StatFails, Store, Notify
<1>4. CASE Browse
  BY <1>1, <1>4, KeptWindow DEF Browse
<1>5. CASE Elsewhere
  BY <1>5 DEF Elsewhere, Changes, WindowOK
<1>6. CASE UNCHANGED vars
  BY <1>1, <1>6, KeptWindow DEF vars
<1> QED
  BY <1>2, <1>3, <1>4, <1>5, <1>6 DEF Next

LEMMA WindowsInit == Init => WindowsInv
BY InitTypes DEF Init, WindowsInv, WindowOK, At, Closed

\* A dialog that was told of every change shows the item as it is on Drive.
THEOREM ShowsDrive == Spec => []DialogShowsDrive
<1>1. WindowsInv => DialogShowsDrive
  BY DEF WindowsInv, DialogShowsDrive, WindowOK, Current
<1> QED
  BY <1>1, WindowsInit, WindowsNext, PTL DEF Spec

-----------------------------------------------------------------------------
(***************************************************************************)
(* What "Create/Update Link" changes.  A link that expires in the evening  *)
(* is one no form can hold.                                                *)
(***************************************************************************)

LinkInv == drive.link # None => drive.link.expiration \in {None, "midnight"}

LEMMA LinkNext ==
    ASSUME "Hours" \notin Environment, TypeOK, LinkInv, [Next]_vars
    PROVE  LinkInv'
<1>0. drive \in Item
  BY DEF TypeOK
<1>1. ASSUME NEW d \in Dialog, drive' = Effect(d) PROVE LinkInv'
  <2>1. dialog[d].form.expiration \in {None, "midnight"}
    BY WindowTypes DEF Form
  <2>2. drive'.link \in {drive.link, dialog[d].form, None}
    BY <1>0, <1>1 DEF Effect, Item
  <2> QED
    BY <2>1, <2>2 DEF LinkInv
<1>2. ASSUME NEW d \in Dialog, DialogStep(d) PROVE LinkInv'
  <2>1. drive' = drive \/ drive' = Effect(d)
    BY <1>2 DEF DialogStep, Open, Load, LoadFails, Close, Edit, Click, Invite, Remove,
                SetLink, RemoveLink, CallFails, Changes
  <2> QED
    BY <1>1, <1>2, <2>1 DEF LinkInv
<1>3. ASSUME NEW r \in Refresh, RefreshStep(r) PROVE LinkInv'
  BY <1>3 DEF RefreshStep, Stat, StatFails, Store, Notify, LinkInv
<1>4. CASE Browse
  BY <1>4 DEF Browse, LinkInv
<1>5. CASE Elsewhere
  <2>1. \/ drive'.link = drive.link
        \/ drive'.link = None
        \/ \E role \in Role, expiration \in Expiration :
              /\ expiration # "evening"
              /\ drive'.link = [role |-> role, expiration |-> expiration]
    BY <1>0, <1>5 DEF Elsewhere, Changes, Item, Fresh
  <2>2. CASE drive'.link = drive.link \/ drive'.link = None
    BY <2>2 DEF LinkInv
  <2>3. ASSUME NEW role \in Role, NEW expiration \in Expiration, expiration # "evening",
               drive'.link = [role |-> role, expiration |-> expiration]
        PROVE  drive'.link.expiration \in {None, "midnight"}
    BY <2>3 DEF Expiration
  <2> QED
    BY <2>1, <2>2, <2>3 DEF LinkInv
<1>6. CASE UNCHANGED vars
  BY <1>6 DEF vars, LinkInv
<1> QED
  BY <1>2, <1>3, <1>4, <1>5, <1>6 DEF Next

KeepsSettings(d) ==
    Calls(d, "setLink") /\ ~At(d, "calling")' /\ ~missed[d]
        /\ drive.link # None /\ drive'.link # None
    => /\ "role" \in touched[d] \/ drive'.link.role = drive.link.role
       /\ "expiration" \in touched[d]
            \/ drive'.link.expiration = drive.link.expiration

LEMMA SetLinkKeeps ==
    ASSUME "Hours" \notin Environment, WindowsInv, LinkInv, [Next]_vars, NEW d \in Dialog
    PROVE  KeepsSettings(d)
<1> SUFFICES ASSUME Calls(d, "setLink"), ~At(d, "calling")', ~missed[d],
                    drive.link # None, drive'.link # None
             PROVE  /\ "role" \in touched[d] \/ drive'.link.role = drive.link.role
                    /\ "expiration" \in touched[d]
                         \/ drive'.link.expiration = drive.link.expiration
  BY DEF KeepsSettings
<1>0. TypeOK /\ At(d, "calling") /\ FormAgrees(d) /\ drive \in Item
  BY DEF WindowsInv, WindowOK, Current, Calls, TypeOK
<1>1. dialog' # dialog
  BY <1>0 DEF At
<1>2. PICK e \in Dialog : DialogStep(e)
  BY <1>1 DEF Next, vars, RefreshStep, Stat, StatFails, Store, Notify, Browse, Elsewhere
<1>3. e = d
  BY <1>0, <1>2, OtherWindows DEF At
<1>4. SetLink(d) \/ CallFails(d)
  BY <1>0, <1>2, <1>3 DEF DialogStep, Open, Load, LoadFails, Close, Edit, Click, Invite,
                           Remove, RemoveLink, Calls, At
<1>5. drive' = drive \/ drive' = [drive EXCEPT !.link = dialog[d].form]
  BY <1>0, <1>4, SetLinkEffect DEF SetLink, CallFails, Changes
<1>6. drive' = drive \/ drive'.link = dialog[d].form
  BY <1>0, <1>5 DEF Item
<1>7. Day(drive.link.expiration) = drive.link.expiration
  BY DEF LinkInv, Day
<1> QED
  BY <1>0, <1>6, <1>7 DEF FormAgrees

\* As long as no link expires within a day, an update changes nothing of the
\* link the user has not set.
THEOREM KeepsLink ==
    ASSUME "Hours" \notin Environment
    PROVE  Spec => UpdateKeepsSettings
<1>1. Init => WindowsInv /\ LinkInv
  BY WindowsInit DEF Init, LinkInv, Fresh
<1>2. WindowsInv /\ LinkInv /\ [Next]_vars => (WindowsInv /\ LinkInv)'
  BY WindowsNext, LinkNext DEF WindowsInv
<1>3. WindowsInv /\ LinkInv /\ [Next]_vars =>
        [\A d \in Dialog : KeepsSettings(d)]_vars
  BY SetLinkKeeps
<1> QED
  BY <1>1, <1>2, <1>3, PTL DEF Spec, UpdateKeepsSettings, KeepsSettings

-----------------------------------------------------------------------------
(***************************************************************************)
(* The badge.  What was read after the last change is what Drive holds; it *)
(* is on its way to the row, or to the badge, or already there.            *)
(***************************************************************************)

\* What was read after the last change is right.
Readings ==
    /\ \A r \in Refresh :
        thread[r].step = "store" =>
            /\ thread[r].at <= calls
            /\ thread[r].at = calls => thread[r].node = NodeOf(drive)
    /\ asOf <= calls
    /\ asOf = calls => Badge(cached) = Badge(NodeOf(drive))

\* A refresh has yet to read, to store what is right, or to tell of it.
ToRead == \E r \in Refresh : thread[r].step = "stat"
ToStore == \E r \in Refresh : thread[r].step = "store" /\ thread[r].at = calls
Stored == asOf = calls /\ (shown = Badge(cached) \/ \E r \in Refresh : thread[r].step = "notify")

BadgeInv == TypeOK /\ Readings /\ (behind = FALSE => ToRead \/ ToStore \/ Stored)

LEMMA BadgeInit == Init => BadgeInv
<1> SUFFICES ASSUME Init PROVE BadgeInv
  OBVIOUS
<1>1. NodeOf(drive) = "private" /\ ~Badge("private") /\ ~Badge(None)
  BY ConstantsAssumption DEF Init, NodeOf, Fresh, Badge
<1>2. \A r \in Refresh : thread[r].step = "idle"
  BY DEF Init, Rest
<1>3. Badge(cached) = FALSE /\ shown = FALSE /\ asOf = calls
  BY <1>1 DEF Init, Badge
<1>4. Badge(NodeOf(drive)) = FALSE /\ calls = 0
  BY <1>1 DEF Badge, Init
<1>5. asOf <= calls
  BY <1>3, <1>4
<1>6. \A r \in Refresh : thread[r].step # "store"
  BY <1>2
<1>7. Badge(cached) = Badge(NodeOf(drive)) /\ shown = Badge(cached)
  BY <1>3, <1>4
<1>8. Readings
  BY <1>5, <1>6, <1>7 DEF Readings
<1>9. Stored
  BY <1>3, <1>7 DEF Stored
<1> QED
  BY <1>8, <1>9, InitTypes DEF BadgeInv

\* A change of Drive makes every reading an old one; a refresh follows it.
LEMMA BadgeChange ==
    ASSUME BadgeInv, TypeOK', calls' = calls + 1, UNCHANGED <<cached, asOf>>,
           Spawn \/ (UNCHANGED thread /\ behind' = TRUE)
    PROVE  BadgeInv'
<1>1. /\ asOf <= calls' /\ asOf # calls'
      /\ \A r \in Refresh : thread[r].step = "store" =>
            thread[r].at <= calls' /\ thread[r].at # calls'
  BY ConstantsAssumption DEF BadgeInv, Readings, TypeOK, Thread
<1>2. \A r \in Refresh : thread'[r] = thread[r] \/ thread'[r].step = "stat"
  BY DEF Spawn, BadgeInv, TypeOK, Rest
<1>3. Spawn => ToRead'
  BY DEF Spawn, BadgeInv, TypeOK, Rest, ToRead
<1> QED
  BY <1>1, <1>2, <1>3 DEF BadgeInv, Readings

\* A listing of the folder starts one as well.
LEMMA BadgeBrowse == ASSUME BadgeInv, TypeOK', Browse PROVE BadgeInv'
<1>1. /\ \A r \in Refresh : thread'[r] = thread[r] \/ thread'[r].step = "stat"
      /\ \E r \in Refresh : thread'[r].step = "stat"
  BY DEF Browse, Spawn, BadgeInv, TypeOK, Rest
<1> QED
  BY <1>1 DEF Browse, BadgeInv, Readings, ToRead

LEMMA BadgeStat ==
    ASSUME BadgeInv, TypeOK', NEW r \in Refresh, Stat(r)
    PROVE  BadgeInv'
<1>1. /\ thread'[r] = [step |-> "store", node |-> NodeOf(drive), at |-> calls]
      /\ \A s \in Refresh : s # r => thread'[s] = thread[s]
      /\ UNCHANGED <<drive, cached, asOf, calls>>
  BY DEF Stat, BadgeInv, TypeOK
<1>2. ToStore'
  BY <1>1 DEF ToStore
<1>3. NodeOf(drive)' = NodeOf(drive)
  BY <1>1 DEF NodeOf
<1>4. calls \in Nat
  BY ConstantsAssumption DEF BadgeInv, TypeOK
<1>5. Badge(NodeOf(drive))' = Badge(NodeOf(drive)) /\ Badge(cached)' = Badge(cached)
  BY <1>1, <1>3 DEF Badge
<1>6. Readings'
  BY <1>1, <1>3, <1>4, <1>5 DEF BadgeInv, Readings
<1> QED
  BY <1>2, <1>6 DEF BadgeInv

\* The row that is replaced is the last one read only if behind says so.
LEMMA BadgeStore ==
    ASSUME BadgeInv, TypeOK', NEW r \in Refresh, Store(r)
    PROVE  BadgeInv'
<1>0. thread[r] \in Thread /\ asOf \in 0 .. MaxCalls /\ calls \in 0 .. MaxCalls
      /\ MaxCalls \in Nat
  BY ConstantsAssumption DEF BadgeInv, TypeOK
<1>1. /\ thread[r].step = "store" /\ thread'[r].step = "notify"
      /\ \A s \in Refresh : s # r => thread'[s] = thread[s]
      /\ UNCHANGED <<drive, shown, calls>>
  BY DEF Store, BadgeInv, TypeOK, Rest
<1>2. NodeOf(drive)' = NodeOf(drive)
  BY <1>1 DEF NodeOf
<1>3. CASE UNCHANGED <<cached, asOf>> /\ behind' = TRUE
  BY <1>1, <1>2, <1>3 DEF BadgeInv, Readings
<1>4. CASE /\ cached' = thread[r].node /\ asOf' = thread[r].at
           /\ behind' = (behind \/ thread[r].at < asOf)
  <2>1. Readings'
    BY <1>1, <1>2, <1>4 DEF BadgeInv, Readings
  <2>2. CASE thread[r].at = calls
    <3>1. Stored'
      BY <1>1, <1>4, <2>2 DEF Stored
    <3> QED
      BY <2>1, <3>1 DEF BadgeInv
  <2>3. CASE thread[r].at # calls
    <3> SUFFICES ASSUME behind' = FALSE PROVE ToRead' \/ ToStore' \/ Stored'
      BY <2>1 DEF BadgeInv
    <3>1. behind = FALSE /\ ~(thread[r].at < asOf)
      BY <1>4 DEF BadgeInv, TypeOK
    <3>2. asOf <= thread[r].at /\ thread[r].at <= MaxCalls
      BY <1>0, <3>1 DEF Thread
    <3>3. CASE ToRead \/ ToStore
      BY <1>1, <2>3, <3>3 DEF ToRead, ToStore
    <3>4. CASE Stored
      <4>1. asOf = calls
        BY <3>4 DEF Stored
      <4>2. thread[r].at <= calls
        BY <1>1 DEF BadgeInv, Readings
      <4> QED
        BY <1>0, <2>3, <3>2, <4>1, <4>2 DEF Thread
    <3> QED
      BY <3>1, <3>3, <3>4 DEF BadgeInv
  <2> QED
    BY <2>2, <2>3
<1> QED
  BY <1>3, <1>4 DEF Store

LEMMA BadgeNotify ==
    ASSUME BadgeInv, TypeOK', NEW r \in Refresh, Notify(r)
    PROVE  BadgeInv'
<1>1. /\ thread[r].step = "notify" /\ thread'[r].step = "idle"
      /\ \A s \in Refresh : s # r => thread'[s] = thread[s]
      /\ UNCHANGED <<drive, cached, asOf, behind, calls>>
      /\ shown' = Badge(cached)
  BY DEF Notify, BadgeInv, TypeOK, Rest
<1>2. NodeOf(drive)' = NodeOf(drive) /\ Badge(cached)' = Badge(cached)
  BY <1>1 DEF NodeOf, Badge
<1>3. Readings'
  BY <1>1, <1>2 DEF BadgeInv, Readings, Badge
<1>4. ToRead => ToRead'
  BY <1>1 DEF ToRead
<1>5. ToStore => ToStore'
  BY <1>1 DEF ToStore
<1>6. Stored => Stored'
  BY <1>1, <1>2 DEF Stored
<1> QED
  BY <1>1, <1>3, <1>4, <1>5, <1>6 DEF BadgeInv

LEMMA BadgeLost ==
    ASSUME BadgeInv, TypeOK', NEW r \in Refresh, StatFails(r)
    PROVE  BadgeInv'
<1>1. /\ thread'[r].step = "idle" /\ behind' = TRUE
      /\ \A s \in Refresh : s # r => thread'[s] = thread[s]
      /\ UNCHANGED <<drive, cached, asOf, calls>>
  BY DEF StatFails, BadgeInv, TypeOK, Rest
<1>2. NodeOf(drive)' = NodeOf(drive)
  BY <1>1 DEF NodeOf
<1> QED
  BY <1>1, <1>2 DEF BadgeInv, Readings, Badge

LEMMA BadgeNext == BadgeInv /\ [Next]_vars => BadgeInv'
<1> SUFFICES ASSUME BadgeInv, [Next]_vars PROVE BadgeInv'
  OBVIOUS
<1>0. TypeOK'
  BY NextTypes DEF BadgeInv
<1>1. ASSUME UNCHANGED <<drive, thread, cached, asOf, shown, behind, calls>>
      PROVE  BadgeInv'
  BY <1>0, <1>1 DEF BadgeInv, Readings, ToRead, ToStore, Stored, Badge, NodeOf
<1>2. ASSUME NEW d \in Dialog, DialogStep(d) PROVE BadgeInv'
  <2>1. \/ UNCHANGED <<drive, thread, cached, asOf, shown, behind, calls>>
        \/ /\ calls' = calls + 1 /\ UNCHANGED <<cached, asOf>>
           /\ Spawn \/ (UNCHANGED thread /\ behind' = TRUE)
    BY <1>2 DEF DialogStep, Open, Load, LoadFails, Close, Edit, Click, Invite, Remove,
                SetLink, RemoveLink, CallFails, Changes
  <2> QED
    BY <1>0, <1>1, <2>1, BadgeChange
<1>3. ASSUME NEW r \in Refresh, RefreshStep(r) PROVE BadgeInv'
  BY <1>0, <1>3, BadgeStat, BadgeLost, BadgeStore, BadgeNotify DEF RefreshStep
<1>4. CASE Browse
  BY <1>0, <1>4, BadgeBrowse
<1>5. CASE Elsewhere
  <2>1. calls' = calls + 1 /\ behind' = TRUE /\ UNCHANGED <<thread, cached, asOf>>
    BY <1>5 DEF Elsewhere, Changes
  <2> QED
    BY <1>0, <2>1, BadgeChange
<1>6. CASE UNCHANGED vars
  BY <1>1, <1>6 DEF vars
<1> QED
  BY <1>2, <1>3, <1>4, <1>5, <1>6 DEF Next

\* However many refreshes and listings overlap, the badge of an item at rest
\* tells whether it is shared, unless a change was never followed by a
\* refresh, a refresh was lost, or an older reading replaced a newer one.
THEOREM BadgeCurrent == Spec => []BadgeIsCurrent
<1>1. BadgeInv => BadgeIsCurrent
  <2> SUFFICES ASSUME BadgeInv, \A r \in Refresh : ~Running(r), behind = FALSE
               PROVE  shown = Badge(NodeOf(drive))
    BY DEF BadgeIsCurrent, BadgeInv, TypeOK
  <2>1. Stored
    BY DEF BadgeInv, ToRead, ToStore, Running
  <2> QED
    BY <2>1 DEF Stored, BadgeInv, Readings, Running
<1> QED
  BY <1>1, BadgeInit, BadgeNext, PTL DEF Spec
=============================================================================
