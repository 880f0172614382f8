------------------------- MODULE FolderView_proofs -------------------------
(***************************************************************************)
(* Proofs about FolderView for any number of views and signals: what its   *)
(* variables hold, and that an open folder is tracked.                     *)
(***************************************************************************)
EXTENDS FolderView, FsCache_proofs

(***************************************************************************)
(* FolderView adds to FsCache and takes nothing away.                      *)
(***************************************************************************)

LEMMA StepIsFsStep == [ViewNext]_allVars => [Next]_vars
BY DEF ViewNext, allVars, Next, Enter, Leave, EnterOther, LeaveOther, Vanish, ApplySignal,
       Touch, GrowOld, Expire, Refresh

\* Every behaviour of FolderView is one of FsCache, whose theorems therefore
\* hold of it: counting the views only says when the main loop revalidates.
THEOREM ImplementsFsCache == ViewSpec => Spec
<1>1. ViewInit => Init
  BY DEF ViewInit
<1> QED
  BY <1>1, StepIsFsStep, PTL DEF ViewSpec, Spec

(***************************************************************************)
(* Type correctness of what FolderView adds.                               *)
(***************************************************************************)

\* A view comes or goes and says so.
LEMMA AnnounceType ==
    ASSUME ViewTypeOK, NEW s \in Signal, Announce(s)
    PROVE  /\ signals' \in Seq(Signal) /\ Len(signals') <= MaxSignals
           /\ views' \in Nat /\ old' \in BOOLEAN /\ lapsed' \in BOOLEAN
           /\ views' = 0 => old' = FALSE
<1>1. signals \in Seq(Signal) /\ Len(signals) \in Nat
  BY DEF ViewTypeOK
<1>2. signals' \in Seq(Signal) /\ Len(signals') = Len(signals) + 1
  BY <1>1 DEF Announce
<1> QED
  BY <1>1, <1>2, ViewAssumption DEF Announce, ViewTypeOK

LEMMA ApplyType ==
    ASSUME ViewTypeOK, ApplySignal
    PROVE  ViewTypeOK'
<1>1. signals \in Seq(Signal) /\ signals # <<>>
  BY DEF ApplySignal, ViewTypeOK
<1>2. signals' \in Seq(Signal) /\ Len(signals') = Len(signals) - 1
  BY <1>1 DEF ApplySignal
<1>3. Len(signals') <= MaxSignals
  BY <1>1, <1>2, ViewAssumption DEF ViewTypeOK
<1>4. views' \in Nat /\ (views' = 0 => ~(views > 1))
  BY DEF ApplySignal, ViewTypeOK
<1>5. old' \in BOOLEAN
  BY DEF ApplySignal, ViewTypeOK
<1>6. views' = 0 => old' = FALSE
  <2>1. CASE old' = FALSE
    BY <2>1
  <2>2. CASE old' = (old /\ views > 1)
    BY <1>4, <2>2
  <2>3. CASE UNCHANGED <<views, old>>
    BY <2>3 DEF ViewTypeOK
  <2> QED
    BY <2>1, <2>2, <2>3 DEF ApplySignal
<1> QED
  BY <1>2, <1>3, <1>4, <1>5, <1>6 DEF ApplySignal, ViewTypeOK

LEMMA ViewTypeNext == ViewTypeOK /\ [ViewNext]_allVars => ViewTypeOK'
<1> SUFFICES ASSUME ViewTypeOK, [ViewNext]_allVars PROVE ViewTypeOK'
  OBVIOUS
<1>a. "entered" \in Signal /\ "left" \in Signal
  BY DEF Signal
<1>1. CASE Enter \/ Leave
  BY <1>a, <1>1, AnnounceType DEF Enter, Leave, ViewTypeOK
<1>2. CASE EnterOther \/ LeaveOther
  <2>1. others' \in 0 .. MaxOthers
    BY <1>2, ViewAssumption DEF EnterOther, LeaveOther, ViewTypeOK
  <2> QED
    BY <1>a, <1>2, <2>1, AnnounceType DEF EnterOther, LeaveOther, ViewTypeOK
<1>3. CASE Vanish
  <2>1. others' \in 0 .. MaxOthers
    BY <1>3, ViewAssumption DEF Vanish, ViewTypeOK
  <2> QED
    BY <1>3, <2>1 DEF Vanish, ViewTypeOK
<1>4. CASE ApplySignal
  BY <1>4, ApplyType
<1>5. CASE Touch \/ GrowOld \/ Expire
  <2>1. UNCHANGED <<others, signals>> /\ views' \in Nat
    BY <1>5 DEF Touch, GrowOld, Expire, ViewTypeOK
  <2>2. lapsed' \in BOOLEAN /\ old' \in BOOLEAN
    BY <1>5 DEF Touch, GrowOld, Expire, ViewTypeOK
  <2>3. views' = 0 => old' = FALSE
    BY <1>5 DEF Touch, GrowOld, Expire, ViewTypeOK
  <2> QED
    BY <2>1, <2>2, <2>3 DEF ViewTypeOK
<1>6. CASE Refresh \/ (Elsewhere /\ UNCHANGED folderVars) \/ UNCHANGED allVars
  BY <1>6 DEF Refresh, folderVars, allVars, ViewTypeOK
<1> QED
  BY <1>1, <1>2, <1>3, <1>4, <1>5, <1>6 DEF ViewNext

LEMMA ViewTypeInit == ViewInit => ViewTypeOK
<1>1. <<>> \in Seq(Signal) /\ Len(<<>>) = 0
  OBVIOUS
<1>2. 0 \in 0 .. MaxOthers /\ 0 <= MaxSignals /\ 0 \in Nat
  BY ViewAssumption
<1>3. FALSE \in BOOLEAN
  OBVIOUS
<1> QED
  BY <1>1, <1>2, <1>3 DEF ViewInit, ViewTypeOK

\* The entry's count never runs below zero, and an entry without views is
\* none: OpenFolders::apply takes a view off only where there is one.
THEOREM ViewTypeCorrect == ViewSpec => []ViewTypeOK
<1>1. ViewInit => ViewTypeOK
  BY ViewTypeInit
<1>2. ViewTypeOK /\ [ViewNext]_allVars => ViewTypeOK'
  BY ViewTypeNext
<1> QED
  BY <1>1, <1>2, PTL DEF ViewSpec
(***************************************************************************)
(* Open folders are tracked.                                               *)
(***************************************************************************)

\* The count after one signal.
After(v, s) == IF s = "entered" THEN v + 1 ELSE IF v > 0 THEN v - 1 ELSE 0

\* r says what the count is after each of the signals s, beginning with v.
Reads(r, v, s) ==
    /\ r \in [0 .. Len(s) -> Nat]
    /\ r[0] = v
    /\ \A k \in 1 .. Len(s) : r[k] = After(r[k - 1], s[k])

\* Once the signals on their way are read, the entry counts every view there
\* is: what every step keeps until an entry is dropped for its age.
WillBeTracked == \E r : Reads(r, views, signals) /\ Shown <= r[Len(signals)]

TrackInv == ViewTypeOK /\ (lapsed = FALSE => WillBeTracked)

\* One signal more, read last.
LEMMA ReadsAppend ==
    ASSUME NEW s \in Seq(Signal), NEW v, NEW r, Reads(r, v, s), NEW x \in Signal
    PROVE  \E q : Reads(q, v, Append(s, x)) /\ q[Len(s) + 1] = After(r[Len(s)], x)
<1> DEFINE n == Len(s)
           q == [k \in 0 .. n + 1 |-> IF k <= n THEN r[k] ELSE After(r[n], x)]
<1>1. n \in Nat /\ Len(Append(s, x)) = n + 1
  OBVIOUS
<1>2. r[n] \in Nat /\ After(r[n], x) \in Nat
  BY <1>1 DEF Reads, After
<1>3. q \in [0 .. n + 1 -> Nat]
  BY <1>1, <1>2 DEF Reads
<1>4. q[0] = v /\ q[n + 1] = After(r[n], x)
  BY <1>1 DEF Reads
<1>5. ASSUME NEW k \in 1 .. n + 1 PROVE q[k] = After(q[k - 1], Append(s, x)[k])
  <2>1. CASE k = n + 1
    BY <1>1, <2>1
  <2>2. CASE k <= n
    <3>1. k \in 1 .. n /\ Append(s, x)[k] = s[k]
      BY <1>1, <2>2
    <3>2. q[k] = r[k] /\ q[k - 1] = r[k - 1]
      BY <1>1, <3>1
    <3> QED
      BY <3>1, <3>2 DEF Reads
  <2> QED
    BY <1>1, <2>1, <2>2
<1> HIDE DEF q
<1> QED
  BY <1>1, <1>3, <1>4, <1>5 DEF Reads

\* One signal less, the one read first.
LEMMA ReadsTail ==
    ASSUME NEW s \in Seq(Signal), s # <<>>, NEW v, NEW r, Reads(r, v, s)
    PROVE  \E q : Reads(q, After(v, Head(s)), Tail(s)) /\ q[Len(Tail(s))] = r[Len(s)]
<1> DEFINE n == Len(Tail(s))
           q == [k \in 0 .. n |-> r[k + 1]]
<1>1. n \in Nat /\ Len(s) = n + 1
  OBVIOUS
<1>2. q \in [0 .. n -> Nat]
  BY <1>1 DEF Reads
<1>3. q[0] = After(v, Head(s)) /\ q[n] = r[n + 1]
  BY <1>1 DEF Reads
<1>4. ASSUME NEW k \in 1 .. n PROVE q[k] = After(q[k - 1], Tail(s)[k])
  <2>1. k + 1 \in 1 .. Len(s) /\ Tail(s)[k] = s[k + 1]
    BY <1>1
  <2>2. q[k] = r[k + 1] /\ q[k - 1] = r[k]
    BY <1>1
  <2>3. r[k + 1] = After(r[k], s[k + 1])
    BY <2>1 DEF Reads
  <2> QED
    BY <2>1, <2>2, <2>3
<1> HIDE DEF q
<1> QED
  BY <1>1, <1>2, <1>3, <1>4 DEF Reads

\* The window stays open or closed in every other step of FsCache.
LEMMA WindowStays ==
    ASSUME Elsewhere \/ TakeRequest \/ RevalidateOpen
    PROVE  view' = {} <=> view = {}
<1>1. ASSUME NEW nodes, Show(nodes) PROVE view' = {} <=> view = {}
  BY <1>1 DEF Show
<1>2. ASSUME List PROVE view' = {} <=> view = {}
  BY <1>1, <1>2 DEF List, ListHit, ListMiss, viewVars
<1>3. ASSUME NEW x \in fills, Proceed(x) PROVE view' = {} <=> view = {}
  BY <1>1, <1>3
  DEF Proceed, Answer, StoreRead, StoreRevalidated, StoreSwept, viewVars
<1> QED
  BY <1>2, <1>3
  DEF Elsewhere, StatHit, StatMiss, MakeDir, Copy, Trash, Put, Restore, Rename, Alter,
      Complete, CoolDown, SweepStart, SweepFetch, FetchFails, RemoteChange,
      TakeRequest, RevalidateOpen, viewVars

\* A view comes or goes and says so.
LEMMA AnnounceTracks ==
    ASSUME TrackInv, NEW x \in Signal, Announce(x),
           x = "entered" => Shown' = Shown + 1,
           x = "left" => Shown > 0 /\ Shown' = Shown - 1
    PROVE  lapsed' = FALSE => WillBeTracked'
<1> SUFFICES ASSUME lapsed = FALSE PROVE WillBeTracked'
  BY DEF Announce
<1>1. PICK r : Reads(r, views, signals) /\ Shown <= r[Len(signals)]
  BY DEF TrackInv, WillBeTracked
<1>2. signals \in Seq(Signal) /\ Shown \in Nat
  BY ViewAssumption DEF TrackInv, ViewTypeOK, Shown
<1>3. PICK q : /\ Reads(q, views, Append(signals, x))
               /\ q[Len(signals) + 1] = After(r[Len(signals)], x)
  BY <1>1, <1>2, ReadsAppend
<1>4. r[Len(signals)] \in Nat
  BY <1>1, <1>2 DEF Reads
<1>5. Shown' <= After(r[Len(signals)], x)
  BY <1>1, <1>2, <1>4 DEF After, Signal
<1>6. /\ signals' = Append(signals, x) /\ views' = views
      /\ Len(signals') = Len(signals) + 1
  BY <1>2 DEF Announce
<1> QED
  BY <1>3, <1>5, <1>6 DEF WillBeTracked

LEMMA ApplyTracks ==
    ASSUME TrackInv, ApplySignal
    PROVE  lapsed' = FALSE => WillBeTracked'
<1> SUFFICES ASSUME lapsed = FALSE PROVE WillBeTracked'
  BY DEF ApplySignal
<1>1. PICK r : Reads(r, views, signals) /\ Shown <= r[Len(signals)]
  BY DEF TrackInv, WillBeTracked
<1>2. signals \in Seq(Signal) /\ signals # <<>> /\ signals' = Tail(signals)
  BY DEF TrackInv, ViewTypeOK, ApplySignal
<1>3. PICK q : /\ Reads(q, After(views, Head(signals)), Tail(signals))
               /\ q[Len(Tail(signals))] = r[Len(signals)]
  BY <1>1, <1>2, ReadsTail
<1>4. views' = After(views, Head(signals))
  BY DEF ApplySignal, After, TrackInv, ViewTypeOK
<1>5. Shown' = Shown
  BY DEF ApplySignal, vars, viewVars, Shown
<1> QED
  BY <1>1, <1>2, <1>3, <1>4, <1>5 DEF WillBeTracked

\* A step that leaves the count and the signals alone and adds no view.
LEMMA KeepTracks ==
    ASSUME TrackInv, UNCHANGED <<signals, views>>,
           Shown' \in Nat, Shown' <= Shown,
           lapsed' = FALSE => lapsed = FALSE
    PROVE  lapsed' = FALSE => WillBeTracked'
<1> SUFFICES ASSUME lapsed = FALSE PROVE WillBeTracked'
  OBVIOUS
<1>1. PICK r : Reads(r, views, signals) /\ Shown <= r[Len(signals)]
  BY DEF TrackInv, WillBeTracked
<1>2. signals \in Seq(Signal) /\ Shown \in Nat
  BY ViewAssumption DEF TrackInv, ViewTypeOK, Shown
<1>3. r[Len(signals)] \in Nat
  BY <1>1, <1>2 DEF Reads
<1> QED
  BY <1>1, <1>2, <1>3 DEF WillBeTracked

LEMMA TrackNext == TrackInv /\ [ViewNext]_allVars => TrackInv'
<1> SUFFICES ASSUME TrackInv, [ViewNext]_allVars PROVE TrackInv'
  OBVIOUS
<1>0. ViewTypeOK'
  BY ViewTypeNext DEF TrackInv
<1>a. others \in Nat /\ (lapsed = FALSE \/ lapsed = TRUE)
  BY ViewAssumption DEF TrackInv, ViewTypeOK
<1>b. Shown \in Nat
  BY <1>a DEF Shown
<1>1. CASE Enter
  <2>1. Shown' = Shown + 1
    <3>1. view = {} /\ view' # {} /\ others' = others
      BY <1>1 DEF Enter, Open
    <3> QED
      BY <1>a, <3>1 DEF Shown
  <2> QED
    BY <1>0, <1>1, <2>1, AnnounceTracks DEF Enter, TrackInv, Signal
<1>2. CASE Leave
  <2>1. Shown > 0 /\ Shown' = Shown - 1
    BY <1>2, <1>a DEF Leave, Close, Shown
  <2> QED
    BY <1>0, <1>2, <2>1, AnnounceTracks DEF Leave, TrackInv, Signal
<1>3. CASE EnterOther
  <2>1. Shown' = Shown + 1
    BY <1>3, <1>a DEF EnterOther, vars, viewVars, Shown
  <2> QED
    BY <1>0, <1>3, <2>1, AnnounceTracks DEF EnterOther, TrackInv, Signal
<1>4. CASE LeaveOther
  <2>1. Shown > 0 /\ Shown' = Shown - 1
    BY <1>4, <1>a DEF LeaveOther, vars, viewVars, Shown
  <2> QED
    BY <1>0, <1>4, <2>1, AnnounceTracks DEF LeaveOther, TrackInv, Signal
<1>5. CASE Vanish
  <2>1. Shown' \in Nat /\ Shown' <= Shown
    BY <1>5, <1>a DEF Vanish, Close, vars, viewVars, Shown
  <2> QED
    BY <1>0, <1>5, <2>1, KeepTracks DEF Vanish, TrackInv
<1>6. CASE ApplySignal
  BY <1>0, <1>6, ApplyTracks DEF TrackInv
<1>7. CASE Expire
  <2>1. lapsed' # FALSE
    BY <1>7 DEF Expire
  <2> QED
    BY <1>0, <2>1 DEF TrackInv
<1>8. CASE GrowOld
  <2>1. Shown' = Shown
    BY <1>8 DEF GrowOld, vars, viewVars, Shown
  <2>2. Shown' \in Nat /\ Shown' <= Shown
    BY <1>b, <2>1
  <2>3. lapsed' = FALSE => WillBeTracked'
    BY <1>8, <2>2, KeepTracks DEF GrowOld
  <2> QED
    BY <1>0, <2>3 DEF TrackInv
<1>9. CASE \/ Touch \/ Refresh
           \/ Elsewhere /\ UNCHANGED folderVars
           \/ UNCHANGED allVars
  <2>1. Shown' = Shown
    <3>1. view' = {} <=> view = {}
      BY <1>9, WindowStays DEF Touch, Refresh, allVars, vars, viewVars
    <3> QED
      BY <1>9, <3>1 DEF Touch, Refresh, folderVars, allVars, Shown
  <2>2. UNCHANGED <<signals, views, lapsed>>
    BY <1>9 DEF Touch, Refresh, folderVars, allVars
  <2>3. Shown' \in Nat /\ Shown' <= Shown
    BY <1>b, <2>1
  <2>4. lapsed' = FALSE => WillBeTracked'
    BY <2>2, <2>3, KeepTracks
  <2> QED
    BY <1>0, <2>4 DEF TrackInv
<1> QED
  BY <1>1, <1>2, <1>3, <1>4, <1>5, <1>6, <1>7, <1>8, <1>9 DEF ViewNext

\* However many views come, go and die, and however late their signals are
\* read, a folder with a view is tracked until its entry expires: "counts the
\* views showing each folder" (open_folders.rs).
THEOREM Tracked == ViewSpec => []OpenIsTracked
<1>1. ViewInit => TrackInv
  <2> SUFFICES ASSUME ViewInit PROVE TrackInv
    OBVIOUS
  <2>1. ViewTypeOK
    BY ViewTypeInit
  <2>2. Shown = 0 /\ views = 0 /\ signals = <<>> /\ Len(signals) = 0
    BY DEF ViewInit, Init, Shown
  <2> DEFINE r == [k \in 0 .. 0 |-> 0]
  <2>3. Reads(r, views, signals) /\ Shown <= r[Len(signals)]
    BY <2>2 DEF Reads
  <2> HIDE DEF r
  <2> QED
    BY <2>1, <2>3 DEF TrackInv, WillBeTracked
<1>2. TrackInv /\ [ViewNext]_allVars => TrackInv'
  BY TrackNext
<1>3. TrackInv => OpenIsTracked
  <2> SUFFICES ASSUME TrackInv, lapsed = FALSE, signals = <<>> PROVE Shown <= views
    BY DEF OpenIsTracked, TrackInv, ViewTypeOK
  <2>1. PICK r : Reads(r, views, signals) /\ Shown <= r[Len(signals)]
    BY DEF TrackInv, WillBeTracked
  <2>2. Len(signals) = 0
    OBVIOUS
  <2> QED
    BY <2>1, <2>2 DEF Reads
<1> QED
  BY <1>1, <1>2, <1>3, PTL DEF ViewSpec
=============================================================================
