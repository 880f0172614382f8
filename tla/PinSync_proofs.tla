--------------------------- MODULE PinSync_proofs ---------------------------
(***************************************************************************)
(* Proofs about PinSync for every set of files and threads and every bound.*)
(***************************************************************************)
EXTENDS PinSync, TLAPS

(***************************************************************************)
(* Type correctness.                                                       *)
(***************************************************************************)

LEMMA ZeroIsContent == 0 \in Content
  BY ConstantsAssumption DEF Content

LEMMA InitTypeOK == Init => TypeOK
<1> SUFFICES ASSUME Init PROVE TypeOK
  OBVIOUS
<1>1. /\ drive \in [File -> Content]
      /\ reached \in [File -> SUBSET Content]
      /\ local \in [File -> [content : Content, stamp : Stamp]]
      /\ pins \in [File -> Stamp]
  BY ZeroIsContent DEF Init, NoCopy, NoPin, Stamp
<1>2. inbox \in Seq(SUBSET File)
  BY DEF Init
<1> QED
  BY <1>1, <1>2, ZeroIsContent DEF Init, TypeOK

\* A write to the cache root keeps the disk and the watcher well typed.
LEMMA WriteCopyType ==
    ASSUME TypeOK, NEW f \in File, NEW c \in Content, WriteCopy(f, c)
    PROVE  /\ local' \in [File -> [content : Content, stamp : Stamp]]
           /\ clock' \in Nat
           /\ window' \subseteq File
<1>1. PICK s \in {clock, clock + 1} :
          /\ local' = [local EXCEPT ![f] = [content |-> c, stamp |-> s]]
          /\ clock' = s
  BY Zenon DEF WriteCopy
<1>2. window' \subseteq File
  BY DEF WriteCopy, NoteChange, TypeOK
<1>3. s \in Nat
  BY DEF TypeOK
<1> QED
  BY <1>1, <1>2, <1>3 DEF TypeOK, Stamp

LEMMA NextTypeOK == TypeOK /\ [Next]_vars => TypeOK'
<1> SUFFICES ASSUME TypeOK, [Next]_vars PROVE TypeOK'
  OBVIOUS
<1> USE ConstantsAssumption DEF TypeOK, Stamp
<1>1. ASSUME NEW f \in File, UserEdit(f) PROVE TypeOK'
  <2>1. WriteCopy(f, fresh + 1) /\ fresh + 1 \in Content
    BY <1>1 DEF UserEdit, Content
  <2>2. /\ local' \in [File -> [content : Content, stamp : Stamp]]
        /\ clock' \in Nat
        /\ window' \subseteq File
    BY <2>1, WriteCopyType
  <2> QED
    BY <1>1, <2>1, <2>2 DEF UserEdit, driveVars, loopVars
<1>2. ASSUME NEW f \in File, RemoteEdit(f) PROVE TypeOK'
  <2>1. fresh + 1 \in Content
    BY <1>2 DEF RemoteEdit, Content
  <2>2. /\ drive' \in [File -> Content]
        /\ reached' \in [File -> SUBSET Content]
    BY <1>2, <2>1 DEF RemoteEdit, SetDrive
  <2> QED
    BY <1>2, <2>1, <2>2 DEF RemoteEdit, diskVars, loopVars, queueVars
<1>3. ASSUME NEW f \in File, Touch(f) PROVE TypeOK'
  BY <1>3 DEF Touch, NoteChange, driveVars, contentVars, diskVars, loopVars
<1>4. ASSUME Expire PROVE TypeOK'
  BY <1>4 DEF Expire, driveVars, contentVars, diskVars, loopVars, queueVars
<1>5. ASSUME Login PROVE TypeOK'
  BY <1>5 DEF Login, driveVars, contentVars, diskVars, loopVars, queueVars
<1>6. ASSUME NEW t \in Thread, NEW f \in File, NEW force \in BOOLEAN,
             PinRequest(t, f, force)
      PROVE  TypeOK'
  BY <1>6 DEF PinRequest, Accept, Request, Steps, driveVars, contentVars,
              diskVars, loopVars, queueVars
<1>7. ASSUME NEW t \in Thread, NEW f \in File, NEW force \in BOOLEAN,
             UnpinRequest(t, f, force)
      PROVE  TypeOK'
  BY <1>7 DEF UnpinRequest, Accept, Request, Steps, driveVars, contentVars,
              diskVars, loopVars, queueVars
<1>8. ASSUME NEW t \in Thread, ControlStep(t) PROVE TypeOK'
  <2> PICK r \in requests :
          \/ PinDownload(r) \/ PinDownloadFails(r) \/ PinRecord(r)
          \/ UnpinRemove(r) \/ UnpinRemoveFails(r) \/ UnpinDelete(r)
    BY <1>8 DEF ControlStep
  <2>0. /\ r \in Request /\ r.file \in File
        /\ \A s \in Steps : [r EXCEPT !.step = s] \in Request
    BY DEF Request
  <2>1. CASE PinDownload(r)
    <3>1. WriteCopy(r.file, drive[r.file]) /\ drive[r.file] \in Content
      BY <2>0, <2>1 DEF PinDownload
    <3>2. /\ local' \in [File -> [content : Content, stamp : Stamp]]
          /\ clock' \in Nat
          /\ window' \subseteq File
      BY <2>0, <3>1, WriteCopyType
    <3>3. requests' \subseteq Request
      BY <2>0, <2>1 DEF PinDownload, Advance, Steps
    <3> QED
      BY <2>1, <3>2, <3>3 DEF PinDownload, driveVars, contentVars, loopVars
  <2>2. CASE PinDownloadFails(r)
    <3>1. \/ UNCHANGED <<local, clock, window>>
          \/ /\ local' = [local EXCEPT ![r.file] = NoCopy]
             /\ UNCHANGED <<clock, window>>
          \/ WriteCopy(r.file, drive[r.file])
      BY <2>2 DEF PinDownloadFails, diskVars
    <3>2. [local EXCEPT ![r.file] = NoCopy]
             \in [File -> [content : Content, stamp : Stamp]]
      <4>1. NoCopy \in [content : Content, stamp : Stamp]
        BY ZeroIsContent DEF NoCopy
      <4> QED BY <4>1
    <3>3. drive[r.file] \in Content
      BY <2>0
    <3>4. /\ local' \in [File -> [content : Content, stamp : Stamp]]
          /\ clock' \in Nat
          /\ window' \subseteq File
      BY <2>0, <3>1, <3>2, <3>3, WriteCopyType
    <3> QED
      BY <2>0, <2>2, <3>4 DEF PinDownloadFails, Finish, driveVars,
              contentVars, loopVars
  <2>3. CASE PinRecord(r)
    BY <2>0, <2>3 DEF PinRecord, Finish, driveVars, contentVars, diskVars,
              loopVars, queueVars
  <2>4. CASE UnpinRemove(r)
    BY <2>0, <2>4, ZeroIsContent DEF UnpinRemove, NoCopy, Advance, Steps,
              driveVars, contentVars, loopVars, queueVars
  <2>5. CASE UnpinDelete(r)
    BY <2>0, <2>5 DEF UnpinDelete, NoPin, Finish, driveVars, contentVars,
              diskVars, loopVars, queueVars
  <2>6. CASE UnpinRemoveFails(r)
    BY <2>0, <2>6 DEF UnpinRemoveFails, Finish, driveVars, contentVars,
              diskVars, loopVars, queueVars
  <2> QED BY <2>1, <2>2, <2>3, <2>4, <2>5, <2>6
<1>9. ASSUME StartReconcile PROVE TypeOK'
  BY <1>9 DEF StartReconcile, driveVars, contentVars, diskVars, queueVars
<1>10. ASSUME Debounce PROVE TypeOK'
  BY <1>10 DEF Debounce, driveVars, contentVars, diskVars, loopVars
<1>11. ASSUME LoopStep PROVE TypeOK'
  <2>1. CASE StartWatching
    BY <2>1 DEF StartWatching, driveVars, contentVars, diskVars, queueVars
  <2>2. CASE TakeBatch
    <3>1. Head(inbox) \in SUBSET File /\ Tail(inbox) \in Seq(SUBSET File)
      BY <2>2 DEF TakeBatch
    <3> QED
      BY <2>2, <3>1 DEF TakeBatch, driveVars, contentVars, diskVars
  <2>3. ASSUME NEW f \in File, Examine(f) PROVE TypeOK'
    <3>1. job' \subseteq Job
      BY <2>3 DEF Examine, Job
    <3>2. notified' \in BOOLEAN
      BY <2>3 DEF Examine, ReportOk
    <3> QED
      BY <2>3, <3>1, <3>2 DEF Examine, driveVars, contentVars, diskVars,
              queueVars
  <2>4. ASSUME NEW j \in job,
               Upload(j) \/ UploadSignedOut(j) \/ UploadFails(j) \/ MarkSynced(j)
        PROVE  TypeOK'
    <3>0. j \in Job /\ j.file \in File /\ [j EXCEPT !.step = "mark"] \in Job
      BY DEF Job
    <3>1. CASE Upload(j)
      BY <3>0, <3>1 DEF Upload, SetDrive, contentVars, diskVars, queueVars
    <3>2. CASE UploadSignedOut(j)
      BY <3>0, <3>2 DEF UploadSignedOut, driveVars, contentVars, diskVars,
              queueVars
    <3>3. CASE UploadFails(j)
      <4>1. drive' \in [File -> Content] /\ reached' \in [File -> SUBSET Content]
        <5>1. UNCHANGED driveVars \/ SetDrive(j.file, local[j.file].content)
          BY <3>3 DEF UploadFails
        <5>2. CASE UNCHANGED driveVars
          BY <5>2 DEF driveVars
        <5>3. CASE SetDrive(j.file, local[j.file].content)
          BY <3>0, <5>3 DEF SetDrive
        <5> QED BY <5>1, <5>2, <5>3
      <4> QED
        BY <3>3, <4>1 DEF UploadFails, contentVars, diskVars, queueVars
    <3>4. CASE MarkSynced(j)
      <4>1. notified' \in BOOLEAN
        BY <3>4 DEF MarkSynced, ReportOk
      <4>2. j.seen \in Nat
        BY DEF Job
      <4> QED
        BY <3>0, <3>4, <4>1, <4>2 DEF MarkSynced, driveVars, contentVars,
              diskVars, queueVars
    <3> QED BY <2>4, <3>1, <3>2, <3>3, <3>4
  <2> QED BY <1>11, <2>1, <2>2, <2>3, <2>4 DEF LoopStep
<1>12. ASSUME Crash PROVE TypeOK'
  <2>1. inbox' \in Seq(SUBSET File)
    BY <1>12 DEF Crash
  <2>2. /\ requests' = {} /\ todo' = {} /\ job' = {} /\ window' = {}
        /\ phase' = "down" /\ notified' = FALSE
        /\ crashes' \in Nat
        /\ UNCHANGED <<drive, reached, authored, fresh, local, clock, pins,
                       session>>
    BY <1>12 DEF Crash, driveVars, contentVars, diskVars
  <2> QED
    BY <2>1, <2>2
<1>13. CASE UNCHANGED vars
  BY <1>13 DEF vars, driveVars, contentVars, diskVars, loopVars, queueVars
<1> QED
  BY <1>1, <1>2, <1>3, <1>4, <1>5, <1>6, <1>7, <1>8, <1>9, <1>10, <1>11,
     <1>12, <1>13 DEF Next

\* Every variable of the pin index, the disk, the control threads and the
\* daemon's loop keeps its type.
THEOREM TypeCorrect == Spec => []TypeOK
  BY InitTypeOK, NextTypeOK, PTL DEF Spec

-----------------------------------------------------------------------------
(***************************************************************************)
(* The inductive invariant.                                                *)
(***************************************************************************)

LEMMA InitIInv == Init => IInv
<1> SUFFICES ASSUME Init PROVE IInv
  OBVIOUS
<1>1. TypeOK
  BY InitTypeOK
<1>2. \A f \in File : drive[f] = 0 /\ reached[f] = {0} /\ ~HasCopy(f)
  BY DEF Init, HasCopy
<1>3. /\ \A f \in File : local[f].stamp = 0 /\ pins[f] = 0
      /\ clock = 0 /\ job = {} /\ requests = {}
  BY DEF Init, NoCopy, NoPin
<1> QED
  BY <1>1, <1>2, <1>3 DEF IInv, CleanCopyIsOnDrive, StampsInOrder,
     UnpinnedIsBacked, MarkIsSafe, RequestIsSafe, Backed

\* A step that leaves disk and index alone, starts no request and no upload
\* and only adds to what Drive has held preserves the invariant.
LEMMA QuietStep ==
    ASSUME IInv, TypeOK',
           UNCHANGED <<local, clock, pins>>,
           requests' \subseteq requests,
           job' \subseteq job,
           \A f \in File : /\ drive'[f] \in reached'[f]
                           /\ reached[f] \subseteq reached'[f]
    PROVE  IInv'
<1>1. CleanCopyIsOnDrive'
  BY DEF IInv, CleanCopyIsOnDrive, HasCopy, Pinned
<1>2. StampsInOrder'
  BY DEF IInv, StampsInOrder, HasCopy
<1>3. \A f \in File : Backed(f) => Backed(f)'
  BY DEF Backed, HasCopy
<1>4. UnpinnedIsBacked'
  BY <1>3 DEF IInv, UnpinnedIsBacked, Pinned
<1>5. MarkIsSafe'
  BY <1>3 DEF IInv, TypeOK, Job, MarkIsSafe
<1>6. RequestIsSafe'
  BY <1>3 DEF IInv, TypeOK, Request, RequestIsSafe
<1> QED
  BY <1>1, <1>2, <1>4, <1>5, <1>6 DEF IInv

\* With a careful user every write gets a stamp of its own.
LEMMA WriteCopyFresh ==
    ASSUME CarefulUser, NEW f, NEW c, WriteCopy(f, c)
    PROVE  /\ local' = [local EXCEPT ![f] = [content |-> c, stamp |-> clock + 1]]
           /\ clock' = clock + 1
<1>1. "SameStamp" \notin Environment
  BY DEF CarefulUser
<1> QED
  BY <1>1, Zenon DEF WriteCopy

LEMMA UserEditIInv ==
    ASSUME CarefulUser, IInv, TypeOK', NEW f \in File, UserEdit(f)
    PROVE  IInv'
<1>1. /\ local' = [local EXCEPT ![f] = [content |-> fresh + 1, stamp |-> clock + 1]]
      /\ clock' = clock + 1
  BY WriteCopyFresh DEF UserEdit
<1>2. /\ ~Busy(f) /\ Pinned(f)
      /\ UNCHANGED <<drive, reached, pins, requests, job>>
  BY DEF UserEdit, CarefulUser, driveVars, loopVars
<1>3. /\ local'[f].stamp = clock + 1
      /\ \A g \in File \ {f} : local'[g] = local[g]
      /\ clock \in Nat /\ \A g \in File : local[g].stamp \in Nat /\ pins[g] \in Nat
  BY <1>1 DEF IInv, TypeOK, Stamp
<1>4. \A g \in File \ {f} : (HasCopy(g)' <=> HasCopy(g)) /\ (Backed(g)' <=> Backed(g))
  BY <1>2, <1>3 DEF HasCopy, Backed
<1>5. StampsInOrder'
  BY <1>1, <1>2, <1>3, <1>4 DEF IInv, StampsInOrder, TypeOK, Job, Stamp
<1>6. CleanCopyIsOnDrive'
  BY <1>2, <1>3, <1>4 DEF IInv, CleanCopyIsOnDrive, StampsInOrder, Pinned, HasCopy
<1>7. UnpinnedIsBacked'
  BY <1>2, <1>4 DEF IInv, UnpinnedIsBacked, Pinned
<1>8. MarkIsSafe'
  <2> SUFFICES ASSUME NEW j \in job, j.step = "mark",
                      local'[j.file].stamp = j.seen
               PROVE  Backed(j.file)'
    BY <1>2 DEF MarkIsSafe
  <2>1. j.file \in File /\ j.seen \in Nat /\ j.seen <= clock
    BY DEF IInv, TypeOK, Job, StampsInOrder, Stamp
  <2>2. j.file # f
    BY <1>3, <2>1
  <2> QED
    BY <1>3, <1>4, <2>1, <2>2 DEF IInv, MarkIsSafe
<1>9. RequestIsSafe'
  BY <1>2, <1>4 DEF IInv, RequestIsSafe, Busy, TypeOK, Request
<1> QED
  BY <1>2, <1>5, <1>6, <1>7, <1>8, <1>9 DEF IInv

\* What Cache::pin and Cache::unpin check lets only backed copies through.
LEMMA CleanIsBacked ==
    ASSUME IInv, NEW f \in File, ~Dirty(f)
    PROVE  Backed(f)
  BY DEF IInv, Dirty, CleanCopyIsOnDrive, UnpinnedIsBacked, Backed

LEMMA RequestIInv ==
    ASSUME IInv, TypeOK', NEW t \in Thread, NEW f \in File, NEW force \in BOOLEAN,
           PinRequest(t, f, force) \/ UnpinRequest(t, f, force)
    PROVE  IInv'
<1>1. PICK step \in Steps :
          /\ requests' = requests \cup
                {[thread |-> t, file |-> f, force |-> force, step |-> step]}
          /\ step # "record"
          /\ step = "delete" => ~(Pinned(f) /\ HasCopy(f))
  BY DEF PinRequest, UnpinRequest, Accept, Steps
<1>2. /\ UNCHANGED <<drive, reached, local, clock, pins, job>>
      /\ force \/ ~Dirty(f)
  BY DEF PinRequest, UnpinRequest, driveVars, diskVars, loopVars
<1>3. \A g \in File : Backed(g)' <=> Backed(g)
  BY <1>2 DEF Backed, HasCopy
<1>4. /\ CleanCopyIsOnDrive' /\ StampsInOrder' /\ UnpinnedIsBacked'
      /\ \A g \in File : drive'[g] \in reached'[g]
  BY <1>2 DEF IInv, CleanCopyIsOnDrive, StampsInOrder, UnpinnedIsBacked,
              Backed, HasCopy, Pinned
<1>5. MarkIsSafe'
  BY <1>2, <1>3 DEF IInv, MarkIsSafe, TypeOK, Job
<1>6. RequestIsSafe'
  <2>1. step = "delete" => Backed(f)
    BY <1>1 DEF IInv, UnpinnedIsBacked, Backed
  <2>2. ~force => Backed(f)
    BY <1>2, CleanIsBacked
  <2>3. \A r \in requests : r.file \in File
    BY DEF IInv, TypeOK, Request
  <2> QED
    BY <1>1, <1>3, <2>1, <2>2, <2>3 DEF IInv, RequestIsSafe
<1> QED
  BY <1>4, <1>5, <1>6 DEF IInv

\* What is downloaded is what Drive holds.
LEMMA DownloadStep ==
    ASSUME CarefulUser, IInv, TypeOK', NEW r \in requests,
           WriteCopy(r.file, drive[r.file]),
           UNCHANGED <<drive, reached, pins, job>>,
           \/ requests' \subseteq requests
           \/ requests' = (requests \ {r}) \cup {[r EXCEPT !.step = "record"]}
    PROVE  IInv'
<1> DEFINE f == r.file
<1>0. f \in File
  BY DEF IInv, TypeOK, Request
<1>1. /\ local' = [local EXCEPT ![f] = [content |-> drive[f], stamp |-> clock + 1]]
      /\ clock' = clock + 1
  BY WriteCopyFresh
<1>2. /\ UNCHANGED <<drive, reached, pins, job>>
      /\ \A x \in requests' : x \in requests \/ x = [r EXCEPT !.step = "record"]
  OBVIOUS
<1>3. /\ local'[f].stamp = clock + 1 /\ local'[f].content = drive[f]
      /\ \A g \in File \ {f} : local'[g] = local[g]
      /\ clock \in Nat /\ \A g \in File : local[g].stamp \in Nat /\ pins[g] \in Nat
  BY <1>0, <1>1 DEF IInv, TypeOK, Stamp
<1>4. Backed(f)' /\ \A g \in File : Backed(g) => Backed(g)'
  BY <1>0, <1>2, <1>3 DEF IInv, HasCopy, Backed
<1>5. StampsInOrder'
  BY <1>0, <1>1, <1>2, <1>3 DEF IInv, StampsInOrder, TypeOK, Job, Stamp, HasCopy
<1>6. CleanCopyIsOnDrive'
  BY <1>0, <1>2, <1>3, <1>4 DEF IInv, CleanCopyIsOnDrive, Pinned, HasCopy, Backed
<1>7. UnpinnedIsBacked'
  BY <1>2, <1>4 DEF IInv, UnpinnedIsBacked, Pinned
<1>8. MarkIsSafe'
  <2> SUFFICES ASSUME NEW j \in job, j.step = "mark",
                      local'[j.file].stamp = j.seen
               PROVE  Backed(j.file)'
    BY <1>2 DEF MarkIsSafe
  <2>1. j.file \in File
    BY DEF IInv, TypeOK, Job
  <2>2. CASE j.file = f
    BY <1>4, <2>2
  <2>3. CASE j.file # f
    BY <1>3, <1>4, <2>1, <2>3 DEF IInv, MarkIsSafe
  <2> QED BY <2>2, <2>3
<1>9. RequestIsSafe'
  BY <1>2, <1>4 DEF IInv, RequestIsSafe, TypeOK, Request
<1> QED
  BY <1>2, <1>5, <1>6, <1>7, <1>8, <1>9 DEF IInv

\* A step that removes at most the copy of f, writes no row and only moves
\* requests on preserves the invariant.
LEMMA RemovalStep ==
    ASSUME IInv, TypeOK', NEW f \in File,
           local' \in {local, [local EXCEPT ![f] = NoCopy]},
           UNCHANGED <<drive, reached, clock, pins, job>>,
           \A r \in requests' : r \in requests \/ ~HasCopy(r.file)'
    PROVE  IInv'
<1>1. \A g \in File : local'[g] = local[g] \/ local'[g] = NoCopy
  BY DEF IInv, TypeOK
<1>2. NoCopy.stamp = 0 /\ clock \in Nat
  BY DEF NoCopy, IInv, TypeOK
<1>3. \A g \in File : Backed(g) => Backed(g)'
  BY <1>1 DEF Backed, HasCopy
<1>4. StampsInOrder'
  BY <1>1, <1>2 DEF IInv, StampsInOrder, HasCopy
<1>5. CleanCopyIsOnDrive' /\ UnpinnedIsBacked'
  BY <1>1, <1>3 DEF IInv, CleanCopyIsOnDrive, UnpinnedIsBacked, HasCopy, Pinned
<1>6. MarkIsSafe'
  <2> SUFFICES ASSUME NEW j \in job, j.step = "mark",
                      local'[j.file].stamp = j.seen
               PROVE  Backed(j.file)'
    BY DEF MarkIsSafe
  <2>1. j.file \in File
    BY DEF IInv, TypeOK, Job
  <2>2. CASE local'[j.file] = NoCopy
    BY <2>2 DEF Backed, HasCopy
  <2>3. CASE local'[j.file] = local[j.file]
    BY <1>3, <2>1, <2>3 DEF IInv, MarkIsSafe
  <2> QED BY <1>1, <2>1, <2>2, <2>3
<1>7. RequestIsSafe'
  BY <1>3 DEF IInv, RequestIsSafe, TypeOK, Request, Backed, HasCopy
<1> QED
  BY <1>4, <1>5, <1>6, <1>7 DEF IInv

\* A step that only writes the row of f, and removes it only when the copy is
\* backed, preserves the invariant.
LEMMA RowStep ==
    ASSUME IInv, TypeOK', NEW f \in File, NEW s \in Nat,
           pins' = [pins EXCEPT ![f] = s],
           s <= clock,
           s = NoPin \/ s = local[f].stamp => Backed(f),
           UNCHANGED <<drive, reached, local, clock>>,
           requests' \subseteq requests, job' \subseteq job
    PROVE  IInv'
<1>1. pins'[f] = s /\ \A g \in File \ {f} : pins'[g] = pins[g]
  BY DEF IInv, TypeOK
<1>2. \A g \in File : (Backed(g)' <=> Backed(g)) /\ (HasCopy(g)' <=> HasCopy(g))
  BY DEF Backed, HasCopy
<1>3. StampsInOrder'
  BY <1>1, <1>2 DEF IInv, StampsInOrder
<1>4. CleanCopyIsOnDrive'
  <2> SUFFICES ASSUME NEW g \in File, HasCopy(g), pins'[g] = local[g].stamp,
                      pins'[g] # NoPin
               PROVE  Backed(g)
    BY <1>2 DEF CleanCopyIsOnDrive, Pinned, Backed
  <2> QED
    BY <1>1 DEF IInv, CleanCopyIsOnDrive, Pinned, Backed
<1>5. UnpinnedIsBacked'
  BY <1>1, <1>2 DEF IInv, UnpinnedIsBacked, Pinned
<1>6. MarkIsSafe' /\ RequestIsSafe'
  BY <1>2 DEF IInv, MarkIsSafe, RequestIsSafe, TypeOK, Job, Request
<1> QED
  BY <1>3, <1>4, <1>5, <1>6 DEF IInv

LEMMA ControlIInv ==
    ASSUME CarefulUser, IInv, TypeOK', NEW t \in Thread, ControlStep(t)
    PROVE  IInv'
<1> PICK r \in requests :
        \/ PinDownload(r) \/ PinDownloadFails(r) \/ PinRecord(r)
        \/ UnpinRemove(r) \/ UnpinRemoveFails(r) \/ UnpinDelete(r)
  BY DEF ControlStep
<1>0. r.file \in File
  BY DEF IInv, TypeOK, Request
<1>1. CASE PinDownload(r)
  <2>1. /\ WriteCopy(r.file, drive[r.file])
        /\ UNCHANGED <<drive, reached, pins, job>>
        /\ requests' = (requests \ {r}) \cup {[r EXCEPT !.step = "record"]}
    BY <1>1 DEF PinDownload, Advance, driveVars, loopVars
  <2> QED
    BY <2>1, DownloadStep
<1>2. CASE PinDownloadFails(r)
  <2>1. /\ \/ local' \in {local, [local EXCEPT ![r.file] = NoCopy]} /\ clock' = clock
           \/ WriteCopy(r.file, drive[r.file])
        /\ requests' \subseteq requests
        /\ UNCHANGED <<drive, reached, pins, job>>
    BY <1>2 DEF PinDownloadFails, Finish, driveVars, diskVars, loopVars
  <2>2. CASE WriteCopy(r.file, drive[r.file])
    BY <2>1, <2>2, DownloadStep
  <2>3. CASE local' \in {local, [local EXCEPT ![r.file] = NoCopy]} /\ clock' = clock
    BY <1>0, <2>1, <2>3, RemovalStep
  <2> QED BY <2>1, <2>2, <2>3
<1>3. CASE PinRecord(r)
  <2>1. /\ UNCHANGED <<drive, reached, local, clock, job>>
        /\ requests' \subseteq requests
    BY <1>3 DEF PinRecord, Finish, driveVars, diskVars, loopVars
  <2>2. CASE HasCopy(r.file)
    <3>1. pins' = [pins EXCEPT ![r.file] = local[r.file].stamp]
      BY <1>3, <2>2 DEF PinRecord
    <3>2. Backed(r.file) /\ local[r.file].stamp \in Nat /\ local[r.file].stamp <= clock
      BY <1>0, <1>3 DEF PinRecord, IInv, RequestIsSafe, StampsInOrder, TypeOK, Stamp
    <3> QED
      BY <1>0, <2>1, <3>1, <3>2, RowStep
  <2>3. CASE ~HasCopy(r.file)
    BY <1>3, <2>1, <2>3, QuietStep DEF PinRecord, IInv
  <2> QED BY <2>2, <2>3
<1>4. CASE UnpinRemove(r)
  <2>1. /\ local' = [local EXCEPT ![r.file] = NoCopy]
        /\ requests' = (requests \ {r}) \cup {[r EXCEPT !.step = "delete"]}
        /\ UNCHANGED <<drive, reached, clock, pins, job>>
    BY <1>4 DEF UnpinRemove, Advance, driveVars, loopVars
  <2>2. ~HasCopy(r.file)' /\ [r EXCEPT !.step = "delete"].file = r.file
    BY <1>0, <2>1 DEF HasCopy, IInv, TypeOK, Request
  <2> QED
    BY <1>0, <2>1, <2>2, RemovalStep
<1>5. CASE UnpinDelete(r)
  <2>1. /\ pins' = [pins EXCEPT ![r.file] = NoPin]
        /\ requests' \subseteq requests
        /\ UNCHANGED <<drive, reached, local, clock, job>>
    BY <1>5 DEF UnpinDelete, Finish, driveVars, diskVars, loopVars
  <2>2. Backed(r.file) /\ NoPin \in Nat /\ NoPin <= clock
    BY <1>5 DEF UnpinDelete, IInv, RequestIsSafe, TypeOK, NoPin
  <2> QED
    BY <1>0, <2>1, <2>2, RowStep
<1>6. CASE UnpinRemoveFails(r)
  BY <1>6, QuietStep DEF UnpinRemoveFails, Finish, IInv, driveVars, diskVars, loopVars
<1> QED BY <1>1, <1>2, <1>3, <1>4, <1>5, <1>6

LEMMA ExamineIInv ==
    ASSUME IInv, TypeOK', NEW f \in File, Examine(f)
    PROVE  IInv'
<1>1. UNCHANGED <<drive, reached, local, clock, pins, requests>>
  BY DEF Examine, driveVars, diskVars
<1>2. CASE Dirty(f)
  <2>1. job' = {[step |-> "upload", file |-> f, seen |-> local[f].stamp]}
    BY <1>2 DEF Examine
  <2>2. StampsInOrder'
    BY <1>1, <1>2, <2>1 DEF IInv, StampsInOrder, Dirty, HasCopy
  <2>3. MarkIsSafe'
    BY <2>1 DEF MarkIsSafe
  <2>4. /\ CleanCopyIsOnDrive' /\ UnpinnedIsBacked' /\ RequestIsSafe'
        /\ \A g \in File : drive'[g] \in reached'[g]
    BY <1>1 DEF IInv, CleanCopyIsOnDrive, UnpinnedIsBacked, RequestIsSafe,
                Backed, HasCopy, Pinned
  <2> QED BY <2>2, <2>3, <2>4 DEF IInv
<1>3. CASE ~Dirty(f)
  BY <1>1, <1>3, QuietStep DEF Examine, IInv
<1> QED BY <1>2, <1>3

LEMMA UploadIInv ==
    ASSUME IInv, TypeOK', NEW j \in job, Upload(j)
    PROVE  IInv'
<1> DEFINE f == j.file
<1>0. f \in File /\ [j EXCEPT !.step = "mark"].file = f
      /\ [j EXCEPT !.step = "mark"].seen = j.seen
  BY DEF IInv, TypeOK, Job
<1>1. /\ UNCHANGED <<local, clock, pins, requests>>
      /\ job' = {[j EXCEPT !.step = "mark"]}
      /\ drive' = [drive EXCEPT ![f] = local[f].content]
      /\ reached' = [reached EXCEPT ![f] = @ \cup {local[f].content}]
  BY DEF Upload, SetDrive, diskVars
<1>2. /\ \A g \in File : drive'[g] \in reached'[g] /\ reached[g] \subseteq reached'[g]
      /\ local[f].content \in reached'[f]
  BY <1>0, <1>1 DEF IInv, TypeOK
<1>3. Backed(f)' /\ \A g \in File : Backed(g) => Backed(g)'
  BY <1>1, <1>2 DEF Backed, HasCopy
<1>4. StampsInOrder'
  BY <1>0, <1>1 DEF IInv, StampsInOrder, HasCopy
<1>5. CleanCopyIsOnDrive' /\ UnpinnedIsBacked'
  BY <1>1, <1>2, <1>3 DEF IInv, CleanCopyIsOnDrive, UnpinnedIsBacked, HasCopy, Pinned
<1>6. MarkIsSafe'
  BY <1>0, <1>1, <1>3 DEF MarkIsSafe
<1>7. RequestIsSafe'
  BY <1>1, <1>3 DEF IInv, RequestIsSafe, TypeOK, Request
<1> QED
  BY <1>2, <1>4, <1>5, <1>6, <1>7 DEF IInv

LEMMA MarkSyncedIInv ==
    ASSUME IInv, TypeOK', NEW j \in job, MarkSynced(j)
    PROVE  IInv'
<1>0. j.file \in File /\ j.seen \in Nat /\ j.seen <= clock /\ j.seen # NoPin
  BY DEF IInv, TypeOK, Job, Stamp, StampsInOrder, NoPin
<1>1. UNCHANGED <<drive, reached, local, clock, requests>> /\ job' = {}
  BY DEF MarkSynced, driveVars, diskVars
<1>2. CASE Pinned(j.file)
  <2>1. pins' = [pins EXCEPT ![j.file] = j.seen]
    BY <1>2 DEF MarkSynced
  <2>2. j.seen = local[j.file].stamp => Backed(j.file)
    BY DEF MarkSynced, IInv, MarkIsSafe
  <2> QED
    BY <1>0, <1>1, <2>1, <2>2, RowStep
<1>3. CASE ~Pinned(j.file)
  BY <1>1, <1>3, QuietStep DEF MarkSynced, IInv
<1> QED BY <1>2, <1>3

LEMMA NextIInv ==
    ASSUME CarefulUser, IInv, [Next]_vars
    PROVE  IInv'
<1>0. TypeOK'
  BY NextTypeOK DEF IInv
<1>1. ASSUME NEW f \in File, UserEdit(f) PROVE IInv'
  BY <1>0, <1>1, UserEditIInv
<1>2. ASSUME NEW f \in File, RemoteEdit(f) PROVE IInv'
  <2>1. /\ UNCHANGED <<local, clock, pins, requests, job>>
        /\ drive' = [drive EXCEPT ![f] = fresh + 1]
        /\ reached' = [reached EXCEPT ![f] = @ \cup {fresh + 1}]
    BY <1>2 DEF RemoteEdit, SetDrive, diskVars, loopVars
  <2>2. \A g \in File : drive'[g] \in reached'[g] /\ reached[g] \subseteq reached'[g]
    BY <2>1 DEF IInv, TypeOK
  <2> QED
    BY <1>0, <2>1, <2>2, QuietStep
<1>3. ASSUME NEW f \in File, Touch(f) PROVE IInv'
  BY <1>0, <1>3, QuietStep DEF Touch, IInv, driveVars, diskVars, loopVars
<1>4. CASE Expire \/ Login \/ Debounce
  BY <1>0, <1>4, QuietStep DEF Expire, Login, Debounce, IInv, driveVars,
     diskVars, loopVars
<1>5. ASSUME NEW t \in Thread, NEW f \in File, NEW force \in BOOLEAN,
             PinRequest(t, f, force) \/ UnpinRequest(t, f, force)
      PROVE  IInv'
  BY <1>0, <1>5, RequestIInv
<1>6. ASSUME NEW t \in Thread, ControlStep(t) PROVE IInv'
  BY <1>0, <1>6, ControlIInv
<1>7. CASE StartReconcile \/ Crash \/ StartWatching \/ TakeBatch
  <2>1. /\ UNCHANGED <<drive, reached, local, clock, pins>>
        /\ requests' \subseteq requests /\ job' \subseteq job
    BY <1>7 DEF StartReconcile, Crash, StartWatching, TakeBatch, driveVars,
                diskVars
  <2> QED
    BY <1>0, <2>1, QuietStep DEF IInv
<1>8. ASSUME NEW f \in File, Examine(f) PROVE IInv'
  BY <1>0, <1>8, ExamineIInv
<1>9. ASSUME NEW j \in job, Upload(j) PROVE IInv'
  BY <1>0, <1>9, UploadIInv
<1>10. ASSUME NEW j \in job, UploadSignedOut(j) \/ UploadFails(j) PROVE IInv'
  <2>1. /\ UNCHANGED <<local, clock, pins, requests>>
        /\ job' = {}
        /\ \/ UNCHANGED <<drive, reached>>
           \/ SetDrive(j.file, local[j.file].content)
    BY <1>10 DEF UploadSignedOut, UploadFails, driveVars, diskVars
  <2>2. \A g \in File : drive'[g] \in reached'[g] /\ reached[g] \subseteq reached'[g]
    BY <2>1 DEF SetDrive, IInv, TypeOK
  <2> QED
    BY <1>0, <2>1, <2>2, QuietStep
<1>11. ASSUME NEW j \in job, MarkSynced(j) PROVE IInv'
  BY <1>0, <1>11, MarkSyncedIInv
<1>12. CASE UNCHANGED vars
  BY <1>0, <1>12, QuietStep DEF IInv, vars, driveVars, diskVars, loopVars
<1> QED
  BY <1>1, <1>2, <1>3, <1>4, <1>5, <1>6, <1>7, <1>8, <1>9, <1>10, <1>11,
     <1>12 DEF Next, LoopStep

THEOREM Inductive == ASSUME CarefulUser PROVE Spec => []IInv
<1>1. Init => IInv
  BY InitIInv
<1>2. IInv /\ [Next]_vars => IInv'
  BY NextIInv
<1> QED
  BY <1>1, <1>2, PTL DEF Spec

\* For any number of files, threads, edits and crashes, and with failures,
\* expiries, forced and repeated requests: a copy the index takes for clean
\* holds what Drive has held, provided no save falls into a running request
\* and no two writes share a stamp.
THEOREM CleanCopies == ASSUME CarefulUser PROVE Spec => []CleanCopyIsOnDrive
<1>1. IInv => CleanCopyIsOnDrive
  BY DEF IInv
<1> QED
  BY <1>1, Inductive, PTL

-----------------------------------------------------------------------------
(***************************************************************************)
(* Refinement of OfflineCopy.                                              *)
(***************************************************************************)


AbsCopy(f) == IF HasCopy(f) THEN {local[f].content} ELSE {}

\* A step that leaves Drive and the copies alone changes at most which forced
\* requests are out.
LEMMA AbsAsk ==
    ASSUME UNCHANGED <<fresh, drive, reached, local>>
    PROVE  Promise!Next
  BY DEF Promise!Next, Promise!Ask, HasCopy

\* The abstract copies, and how a removal and a write change them.
Copies == [f \in File |-> IF HasCopy(f) THEN {local[f].content} ELSE {}]

LEMMA AbsRemove ==
    ASSUME TypeOK, NEW f \in File, local' = [local EXCEPT ![f] = NoCopy]
    PROVE  Copies' = [Copies EXCEPT ![f] = {}]
  BY DEF TypeOK, HasCopy, Copies

LEMMA AbsWrite ==
    ASSUME TypeOK, NEW f \in File, NEW c \in Content,
           local' = [local EXCEPT ![f] = [content |-> c, stamp |-> clock + 1]]
    PROVE  Copies' = [Copies EXCEPT ![f] = {c}]
<1> DEFINE new == [content |-> c, stamp |-> clock + 1]
<1>1. new # NoCopy /\ new.content = c
  BY DEF NoCopy, TypeOK
<1>2. local'[f] = new /\ \A g \in File \ {f} : local'[g] = local[g]
  BY DEF TypeOK
<1> HIDE DEF new
<1> QED
  BY <1>1, <1>2 DEF HasCopy, Copies

LEMMA InitRefines == Init => Promise!Init
<1> SUFFICES ASSUME Init PROVE Promise!Init
  OBVIOUS
<1>1. \A f \in File : ~HasCopy(f) /\ ~Asked(f)
  BY DEF Init, HasCopy, Asked
<1> QED
  BY <1>1 DEF Init, Promise!Init

\* A request past its check may drop or replace the copy.
LEMMA AbsReplace ==
    ASSUME IInv, NEW r \in requests, r.step \in {"download", "remove"},
           UNCHANGED <<fresh, drive, reached>>,
           local' \in {[local EXCEPT ![r.file] = NoCopy],
                       [local EXCEPT ![r.file] = [content |-> drive[r.file],
                                                  stamp |-> clock + 1]]}
    PROVE  Promise!Next
<1> DEFINE f == r.file
<1>0. f \in File /\ TypeOK
  BY DEF IInv, TypeOK, Request
<1>1. Copies[f] \subseteq reached[f] \/ Asked(f)
  BY <1>0 DEF IInv, RequestIsSafe, Backed, Asked, Copies
<1>2. Copies' \in {[Copies EXCEPT ![f] = {}], [Copies EXCEPT ![f] = {drive[f]}]}
  <2>1. drive[f] \in Content
    BY <1>0 DEF TypeOK
  <2> QED
    BY <1>0, <2>1, AbsRemove, AbsWrite
<1>3. {g \in File : Asked(g)}' \in SUBSET File
  OBVIOUS
<1>4. Promise!Replace(f)
  BY <1>0, <1>1, <1>2, <1>3 DEF Promise!Replace, Copies
<1> QED
  BY <1>0, <1>4 DEF Promise!Next

LEMMA NextRefines ==
    ASSUME CarefulUser, IInv, [Next]_vars
    PROVE  Promise!Next
<1>0. TypeOK /\ TypeOK'
  BY NextTypeOK DEF IInv
<1>1. ASSUME NEW f \in File, UserEdit(f) PROVE Promise!Next
  <2>1. /\ local' = [local EXCEPT ![f] = [content |-> fresh + 1, stamp |-> clock + 1]]
        /\ UNCHANGED <<drive, reached, requests>>
        /\ fresh' = fresh + 1
        /\ fresh + 1 \in Content /\ HasCopy(f)
    BY <1>0, <1>1, WriteCopyFresh, ConstantsAssumption
       DEF UserEdit, driveVars, TypeOK, Content
  <2>3. Copies' = [Copies EXCEPT ![f] = {fresh + 1}] /\ Copies[f] # {}
    BY <1>0, <2>1, AbsWrite DEF Copies
  <2>4. {g \in File : Asked(g)}' = {g \in File : Asked(g)}
    BY <2>1 DEF Asked
  <2>5. Promise!Edit(f)
    BY <2>1, <2>3, <2>4 DEF Promise!Edit, Copies
  <2> QED
    BY <2>5 DEF Promise!Next
<1>2. ASSUME NEW f \in File, RemoteEdit(f) PROVE Promise!Next
  <2>1. /\ UNCHANGED <<local, requests>>
        /\ SetDrive(f, fresh + 1)
        /\ fresh' = fresh + 1
    BY <1>2 DEF RemoteEdit, diskVars
  <2>2. Promise!ChangeElsewhere(f)
    BY <2>1 DEF SetDrive, Promise!ChangeElsewhere, Promise!Put, HasCopy, Asked
  <2> QED
    BY <2>2 DEF Promise!Next
<1>3. ASSUME NEW j \in job, Upload(j) \/ UploadFails(j), ~UNCHANGED driveVars
      PROVE  Promise!Next
  <2>1. /\ UNCHANGED <<fresh, local, requests>>
        /\ SetDrive(j.file, local[j.file].content)
        /\ j.file \in File /\ HasCopy(j.file)
    BY <1>0, <1>3 DEF Upload, UploadFails, contentVars, diskVars, TypeOK, Job
  <2>2. Promise!Publish(j.file)
    BY <2>1 DEF SetDrive, Promise!Publish, Promise!Put, HasCopy, Asked
  <2> QED
    BY <2>1, <2>2 DEF Promise!Next
<1>4. ASSUME NEW t \in Thread, ControlStep(t) PROVE Promise!Next
  <2> PICK r \in requests :
          \/ PinDownload(r) \/ PinDownloadFails(r) \/ PinRecord(r)
          \/ UnpinRemove(r) \/ UnpinRemoveFails(r) \/ UnpinDelete(r)
    BY <1>4 DEF ControlStep
  <2>1. CASE PinDownload(r)
    BY <2>1, WriteCopyFresh, AbsReplace DEF PinDownload, driveVars, contentVars
  <2>2. CASE PinDownloadFails(r)
    BY <2>2, WriteCopyFresh, AbsReplace, AbsAsk
       DEF PinDownloadFails, driveVars, contentVars, diskVars
  <2>3. CASE UnpinRemove(r)
    BY <2>3, AbsReplace DEF UnpinRemove, driveVars, contentVars
  <2>4. CASE PinRecord(r) \/ UnpinRemoveFails(r) \/ UnpinDelete(r)
    BY <2>4, AbsAsk DEF PinRecord, UnpinRemoveFails, UnpinDelete, driveVars,
       contentVars, diskVars
  <2> QED BY <2>1, <2>2, <2>3, <2>4
<1>5. ASSUME NEW t \in Thread, NEW f \in File, NEW force \in BOOLEAN,
             PinRequest(t, f, force) \/ UnpinRequest(t, f, force)
      PROVE  Promise!Next
  BY <1>5, AbsAsk DEF PinRequest, UnpinRequest, driveVars, contentVars, diskVars
<1>6. ASSUME NEW f \in File, Touch(f) \/ Examine(f) PROVE Promise!Next
  BY <1>6, AbsAsk DEF Touch, Examine, driveVars, contentVars, diskVars
<1>7. ASSUME NEW j \in job,
             Upload(j) \/ UploadSignedOut(j) \/ UploadFails(j) \/ MarkSynced(j),
             UNCHANGED driveVars
      PROVE  Promise!Next
  BY <1>7, AbsAsk DEF Upload, UploadSignedOut, UploadFails, MarkSynced, driveVars,
     contentVars, diskVars
<1>8. CASE Expire \/ Login \/ Debounce \/ StartReconcile \/ StartWatching
           \/ TakeBatch \/ Crash \/ UNCHANGED vars
  BY <1>8, AbsAsk DEF Expire, Login, Debounce, StartReconcile, StartWatching,
     TakeBatch, Crash, vars, driveVars, contentVars, diskVars
<1>9. ASSUME NEW j \in job, UploadSignedOut(j) \/ MarkSynced(j)
      PROVE  UNCHANGED driveVars
  BY <1>9 DEF UploadSignedOut, MarkSynced
<1> QED
  BY <1>1, <1>2, <1>3, <1>4, <1>5, <1>6, <1>7, <1>8, <1>9 DEF Next, LoopStep

\* The pin index, the control threads and the daemon's loop together keep
\* what OfflineCopy promises: a copy changes by the user's saves, and by
\* downloads and removals that give up no edit Drive never held unless a
\* forced request asked for it.
THEOREM Refinement == ASSUME CarefulUser PROVE Spec => ImplementsOfflineCopy
<1>1. Init => Promise!Init
  BY InitRefines
<1>2. IInv /\ [Next]_vars => [Promise!Next]_Promise!vars
  BY NextRefines
<1>3. Spec => Promise!Spec
  BY <1>1, <1>2, Inductive, PTL DEF Spec, Promise!Spec
<1> QED
  BY <1>3 DEF ImplementsOfflineCopy

-----------------------------------------------------------------------------
\* A step of the abstract machine gives up a copy's content only for the
\* user's next save, with Drive's backing, or with consent; so does every
\* step of the daemon.
THEOREM Discards == ASSUME CarefulUser PROVE Spec => DiscardOnlyWithConsent
<1> DEFINE Kept(f) ==
        /\ HasCopy(f)
        /\ local'[f].content # local[f].content \/ local'[f] = NoCopy
        => \/ local[f].content \in reached[f]
           \/ Asked(f)
           \/ fresh' # fresh
<1>1. ASSUME IInv, Next, NEW f \in File PROVE Kept(f)
  <2>0. TypeOK
    BY <1>1 DEF IInv
  <2>1. ASSUME local' = local PROVE Kept(f)
    BY <2>1 DEF HasCopy
  <2>2. ASSUME NEW r \in requests, r.step \in {"download", "remove"},
               \A g \in File \ {r.file} : local'[g] = local[g]
        PROVE  Kept(f)
    <3>1. CASE f = r.file
      BY <1>1, <2>2, <3>1 DEF IInv, RequestIsSafe, Backed, Asked
    <3>2. CASE f # r.file
      BY <2>2, <3>2 DEF HasCopy
    <3> QED BY <3>1, <3>2
  <2>3. ASSUME NEW g \in File, UserEdit(g) PROVE Kept(f)
    BY <2>0, <2>3, ConstantsAssumption DEF UserEdit, TypeOK, Content
  <2>4. ASSUME NEW t \in Thread, ControlStep(t) PROVE Kept(f)
    <3> PICK r \in requests :
            \/ PinDownload(r) \/ PinDownloadFails(r) \/ PinRecord(r)
            \/ UnpinRemove(r) \/ UnpinRemoveFails(r) \/ UnpinDelete(r)
      BY <2>4 DEF ControlStep
    <3>0. r.file \in File
      BY <2>0 DEF TypeOK, Request
    <3>1. CASE PinDownload(r)
      <4>1. local' = [local EXCEPT ![r.file] =
                        [content |-> drive[r.file], stamp |-> clock + 1]]
        BY <3>1, WriteCopyFresh DEF PinDownload
      <4> QED
        BY <2>0, <2>2, <3>0, <3>1, <4>1 DEF PinDownload, TypeOK
    <3>2. CASE PinDownloadFails(r)
      <4>1. \/ local' = local
            \/ local' = [local EXCEPT ![r.file] = NoCopy]
            \/ local' = [local EXCEPT ![r.file] =
                           [content |-> drive[r.file], stamp |-> clock + 1]]
        BY <3>2, WriteCopyFresh DEF PinDownloadFails, diskVars
      <4> QED
        BY <2>0, <2>1, <2>2, <3>0, <3>2, <4>1 DEF PinDownloadFails, TypeOK
    <3>3. CASE UnpinRemove(r)
      BY <2>0, <2>2, <3>0, <3>3 DEF UnpinRemove, TypeOK
    <3>4. CASE PinRecord(r) \/ UnpinRemoveFails(r) \/ UnpinDelete(r)
      BY <2>1, <3>4 DEF PinRecord, UnpinRemoveFails, UnpinDelete, diskVars
    <3> QED BY <3>1, <3>2, <3>3, <3>4
  <2>5. CASE ~(\E g \in File : UserEdit(g)) /\ ~(\E t \in Thread : ControlStep(t))
    <3>1. local' = local
      BY <1>1, <2>5 DEF Next, LoopStep, RemoteEdit, Touch, Expire, Login,
         PinRequest, UnpinRequest, StartReconcile, Debounce, StartWatching,
         TakeBatch, Examine, Upload, UploadSignedOut, UploadFails, MarkSynced,
         Crash, diskVars
    <3> QED BY <2>1, <3>1
  <2> QED BY <2>3, <2>4, <2>5
<1>2. IInv /\ [Next]_vars => [\A f \in File : Kept(f)]_vars
  BY <1>1
<1> QED
  BY <1>2, Inductive, PTL DEF Spec, DiscardOnlyWithConsent
-----------------------------------------------------------------------------
(***************************************************************************)
(* What the daemon uploads.                                                *)
(***************************************************************************)

\* Nobody pins a file that has a pin, a request or an upload already.
NoRepin == "Repin" \notin Environment

Edited(f) == HasCopy(f) => local[f].content \in authored

\* A copy whose stamp is not its row's, or of which an upload is under way,
\* holds what the user wrote; and while a file is being downloaded it has no
\* row, no upload and no second download.
PublishInv ==
    /\ TypeOK
    /\ \A f \in File : Dirty(f) => Edited(f)
    /\ \A j \in job : Edited(j.file)
    /\ \A r \in requests : r.step \in {"download", "record"} =>
        /\ ~Pinned(r.file) /\ ~Uploading(r.file)
        /\ \A x \in requests :
              x.file = r.file /\ x.step \in {"download", "record"} => x = r

LEMMA InitPublish == Init => PublishInv
  BY InitTypeOK DEF Init, PublishInv, Dirty, HasCopy

\* A step that starts no request and no upload, writes no row and no copy
\* preserves the invariant.
LEMMA QuietPublish ==
    ASSUME PublishInv, TypeOK',
           UNCHANGED <<local, pins>>, authored \subseteq authored',
           requests' \subseteq requests,
           \A k \in job' : \E j \in job : k.file = j.file
    PROVE  PublishInv'
<1>1. \A f : /\ Dirty(f)' <=> Dirty(f)
             /\ Pinned(f)' <=> Pinned(f)
             /\ Edited(f) => Edited(f)'
             /\ Uploading(f)' => Uploading(f)
  BY DEF Dirty, Pinned, HasCopy, Edited, Uploading
<1> QED
  BY <1>1 DEF PublishInv

LEMMA UserEditPublish ==
    ASSUME PublishInv, TypeOK', NEW f \in File, UserEdit(f)
    PROVE  PublishInv'
<1>1. PICK s \in {clock, clock + 1} :
          local' = [local EXCEPT ![f] = [content |-> fresh + 1, stamp |-> s]]
  BY Zenon DEF UserEdit, WriteCopy
<1>2. /\ authored' = authored \cup {fresh + 1}
      /\ UNCHANGED <<pins, requests, job>>
  BY DEF UserEdit, loopVars
<1>3. Edited(f)' /\ \A g \in File \ {f} : local'[g] = local[g]
  BY <1>1, <1>2 DEF PublishInv, TypeOK, Edited
<1>4. \A g \in File \ {f} : (Dirty(g)' => Dirty(g)) /\ (Edited(g) => Edited(g)')
  BY <1>2, <1>3 DEF Dirty, HasCopy, Pinned, Edited
<1>5. \A g : (Pinned(g)' <=> Pinned(g)) /\ (Uploading(g)' <=> Uploading(g))
  BY <1>2 DEF Pinned, Uploading
<1>6. \A j \in job : Edited(j.file)'
  BY <1>3, <1>4 DEF PublishInv, TypeOK, Job
<1> QED
  BY <1>2, <1>3, <1>4, <1>5, <1>6 DEF PublishInv

LEMMA RequestPublish ==
    ASSUME NoRepin, PublishInv, TypeOK', NEW t \in Thread, NEW f \in File,
           NEW force \in BOOLEAN,
           PinRequest(t, f, force) \/ UnpinRequest(t, f, force)
    PROVE  PublishInv'
<1>1. UNCHANGED <<local, pins, authored, job>>
  BY DEF PinRequest, UnpinRequest, diskVars, contentVars, loopVars
<1>2. \A g : /\ Dirty(g)' <=> Dirty(g)
             /\ Pinned(g)' <=> Pinned(g)
             /\ Edited(g)' <=> Edited(g)
             /\ Uploading(g)' <=> Uploading(g)
  BY <1>1 DEF Dirty, Pinned, HasCopy, Edited, Uploading
<1>3. PICK step \in Steps :
          /\ requests' = requests \cup
                {[thread |-> t, file |-> f, force |-> force, step |-> step]}
          /\ step # "record"
          /\ step = "download" => ~Pinned(f) /\ ~Busy(f) /\ ~Uploading(f)
  BY DEF PinRequest, UnpinRequest, Accept, Steps, NoRepin
<1>4. /\ \A g \in File : Dirty(g)' => Edited(g)'
      /\ \A j \in job' : Edited(j.file)'
  BY <1>1, <1>2 DEF PublishInv
<1>5. ASSUME NEW r \in requests', r.step \in {"download", "record"}
      PROVE  /\ ~Pinned(r.file)' /\ ~Uploading(r.file)'
             /\ \A x \in requests' :
                   x.file = r.file /\ x.step \in {"download", "record"} => x = r
  <2> DEFINE new == [thread |-> t, file |-> f, force |-> force, step |-> step]
  <2>0. /\ requests' = requests \cup {new}
        /\ new.file = f /\ new.step = step
        /\ step = "download" => ~Pinned(f) /\ ~Busy(f) /\ ~Uploading(f)
        /\ step # "record"
    BY <1>3
  <2> HIDE DEF new
  <2>1. CASE r \in requests
    <3>1. step = "download" => r.file # f
      BY <2>0, <2>1 DEF Busy
    <3> QED
      BY <1>2, <1>5, <2>0, <2>1, <3>1 DEF PublishInv
  <2>2. CASE r = new
    BY <1>2, <1>5, <2>0, <2>2 DEF Busy
  <2> QED BY <2>0, <2>1, <2>2
<1> QED
  BY <1>4, <1>5 DEF PublishInv

\* A download or a removal of the copy of f, while no upload of f can follow.
LEMMA CopyPublish ==
    ASSUME PublishInv, TypeOK', NEW f \in File,
           \A g \in File \ {f} : local'[g] = local[g],
           ~HasCopy(f)' \/ (~Pinned(f) /\ ~Uploading(f)),
           UNCHANGED <<pins, authored, job>>
    PROVE  /\ \A g \in File : Dirty(g)' => Edited(g)'
           /\ \A j \in job' : Edited(j.file)'
<1>1. \A g \in File \ {f} : (Dirty(g)' => Dirty(g)) /\ (Edited(g) => Edited(g)')
  BY DEF Dirty, HasCopy, Pinned, Edited
<1>2. Dirty(f)' => Edited(f)'
  BY DEF Dirty, Pinned, Edited
<1>3. \A j \in job : Edited(j.file)'
  <2> SUFFICES ASSUME NEW j \in job PROVE Edited(j.file)'
    OBVIOUS
  <2>1. CASE j.file = f
    BY <2>1 DEF Edited, Uploading
  <2>2. CASE j.file # f
    BY <1>1, <2>2 DEF PublishInv, TypeOK, Job
  <2> QED BY <2>1, <2>2
<1> QED
  BY <1>1, <1>2, <1>3 DEF PublishInv

LEMMA ControlPublish ==
    ASSUME PublishInv, TypeOK', NEW t \in Thread, ControlStep(t)
    PROVE  PublishInv'
<1> PICK r \in requests :
        \/ PinDownload(r) \/ PinDownloadFails(r) \/ PinRecord(r)
        \/ UnpinRemove(r) \/ UnpinRemoveFails(r) \/ UnpinDelete(r)
  BY DEF ControlStep
<1>0. r \in Request /\ r.file \in File
  BY DEF PublishInv, TypeOK, Request
<1>1. CASE PinDownload(r)
  <2>1. /\ \A g \in File \ {r.file} : local'[g] = local[g]
        /\ UNCHANGED <<pins, authored, job>>
        /\ requests' = (requests \ {r}) \cup {[r EXCEPT !.step = "record"]}
    BY <1>0, <1>1, Zenon DEF PinDownload, WriteCopy, Advance, contentVars, loopVars,
       PublishInv, TypeOK
  <2>2. ~Pinned(r.file) /\ ~Uploading(r.file)
    BY <1>1 DEF PinDownload, PublishInv
  <2>3. \A f : (Pinned(f)' <=> Pinned(f)) /\ (Uploading(f)' <=> Uploading(f))
    BY <2>1 DEF Pinned, Uploading
  <2>4. /\ \A g \in File : Dirty(g)' => Edited(g)'
        /\ \A j \in job' : Edited(j.file)'
    BY <1>0, <2>1, <2>2, CopyPublish
  <2>5. [r EXCEPT !.step = "record"].file = r.file
    BY <1>0 DEF Request
  <2>6. ASSUME NEW x \in requests', x.step \in {"download", "record"}
        PROVE  /\ ~Pinned(x.file)' /\ ~Uploading(x.file)'
               /\ \A y \in requests' :
                     y.file = x.file /\ y.step \in {"download", "record"} => y = x
    <3>1. r.step = "download"
      BY <1>1 DEF PinDownload
    <3>2. \A y \in requests :
             y.file = r.file /\ y.step \in {"download", "record"} => y = r
      BY <3>1 DEF PublishInv
    <3> DEFINE next == [r EXCEPT !.step = "record"]
    <3>3. next.file = r.file
      BY <2>5
    <3> HIDE DEF next
    <3>4. CASE x = next
      BY <2>1, <2>2, <2>3, <3>2, <3>3, <3>4 DEF next
    <3>5. CASE x \in requests /\ x # r
      <4>1. x.file # r.file
        BY <2>6, <3>2, <3>5
      <4> QED
        BY <2>1, <2>3, <2>6, <3>3, <3>5, <4>1 DEF PublishInv, next
    <3> QED BY <2>1, <3>4, <3>5 DEF next
  <2> QED
    BY <2>4, <2>6 DEF PublishInv
<1>2. CASE PinDownloadFails(r) \/ UnpinRemove(r) \/ UnpinRemoveFails(r)
  <2>1. /\ \/ local' = local \/ local' = [local EXCEPT ![r.file] = NoCopy]
           \/ r.step = "download" /\ WriteCopy(r.file, drive[r.file])
        /\ UNCHANGED <<pins, authored, job>>
        /\ \/ requests' \subseteq requests
           \/ requests' = (requests \ {r}) \cup {[r EXCEPT !.step = "delete"]}
    BY <1>2 DEF PinDownloadFails, UnpinRemove, UnpinRemoveFails, Finish, Advance,
       diskVars, contentVars, loopVars
  <2>2. \A f : (Pinned(f)' <=> Pinned(f)) /\ (Uploading(f)' <=> Uploading(f))
    BY <2>1 DEF Pinned, Uploading
  <2>3. /\ \A g \in File : Dirty(g)' => Edited(g)'
        /\ \A j \in job' : Edited(j.file)'
    <3>1. CASE local' = local
      BY <2>1, <3>1 DEF PublishInv, Dirty, Edited, Pinned, HasCopy
    <3>2. CASE local' = [local EXCEPT ![r.file] = NoCopy]
      BY <1>0, <2>1, <3>2, CopyPublish DEF PublishInv, TypeOK, HasCopy
    <3>3. CASE r.step = "download" /\ WriteCopy(r.file, drive[r.file])
      <4>1. ~Pinned(r.file) /\ ~Uploading(r.file)
        BY <3>3 DEF PublishInv
      <4>2. \A g \in File \ {r.file} : local'[g] = local[g]
        BY <1>0, <3>3, Zenon DEF WriteCopy, PublishInv, TypeOK
      <4> QED
        BY <1>0, <2>1, <4>1, <4>2, CopyPublish
    <3> QED BY <2>1, <3>1, <3>2, <3>3
  <2>4. [r EXCEPT !.step = "delete"].step = "delete"
    BY <1>0 DEF Request
  <2> QED
    BY <2>1, <2>2, <2>3, <2>4 DEF PublishInv
<1>3. CASE PinRecord(r)
  <2>1. /\ UNCHANGED <<local, authored, job>>
        /\ requests' = requests \ {r}
        /\ \A f \in File \ {r.file} : pins'[f] = pins[f]
        /\ HasCopy(r.file) => pins'[r.file] = local[r.file].stamp
    BY <1>0, <1>3 DEF PinRecord, Finish, diskVars, contentVars, loopVars,
       PublishInv, TypeOK
  <2>2. \A f \in File : Dirty(f)' => Dirty(f)
    BY <1>0, <2>1 DEF Dirty, HasCopy, Pinned
  <2>3. \A f : (Edited(f)' <=> Edited(f)) /\ (Uploading(f)' <=> Uploading(f))
    BY <2>1 DEF Edited, HasCopy, Uploading
  <2>4. \A x \in requests' : x.step \in {"download", "record"} =>
           x.file \in File /\ x.file # r.file
    BY <1>3, <2>1 DEF PublishInv, PinRecord, TypeOK, Request
  <2> QED
    BY <2>1, <2>2, <2>3, <2>4 DEF PublishInv, Pinned
<1>4. CASE UnpinDelete(r)
  <2>1. /\ UNCHANGED <<local, authored, job>>
        /\ requests' \subseteq requests
        /\ \A f \in File : pins'[f] \in {pins[f], NoPin}
    BY <1>0, <1>4 DEF UnpinDelete, Finish, diskVars, contentVars, loopVars,
       PublishInv, TypeOK
  <2>2. \A f \in File : Dirty(f)' => Dirty(f)
    BY <2>1 DEF Dirty, HasCopy, Pinned
  <2>3. \A f : (Edited(f)' <=> Edited(f)) /\ (Uploading(f)' <=> Uploading(f))
    BY <2>1 DEF Edited, HasCopy, Uploading
  <2>4. \A x \in requests : x.file \in File
    BY DEF PublishInv, TypeOK, Request
  <2> QED
    BY <2>1, <2>2, <2>3, <2>4 DEF PublishInv, Pinned
<1> QED BY <1>1, <1>2, <1>3, <1>4

LEMMA ExaminePublish ==
    ASSUME PublishInv, TypeOK', NEW f \in File, Examine(f)
    PROVE  PublishInv'
<1>1. UNCHANGED <<local, pins, authored, requests>>
  BY DEF Examine, diskVars, contentVars
<1>2. CASE Dirty(f)
  <2>1. job' = {[step |-> "upload", file |-> f, seen |-> local[f].stamp]}
    BY <1>2 DEF Examine
  <2>2. \A g : /\ Dirty(g)' <=> Dirty(g)
               /\ Pinned(g)' <=> Pinned(g)
               /\ Edited(g)' <=> Edited(g)
    BY <1>1 DEF Dirty, Pinned, HasCopy, Edited
  <2>3. \A g : Uploading(g)' => g = f
    BY <2>1 DEF Uploading
  <2>4. Pinned(f) /\ Edited(f)
    BY <1>2 DEF PublishInv, Dirty
  <2> QED
    BY <1>1, <2>1, <2>2, <2>3, <2>4 DEF PublishInv
<1>3. CASE ~Dirty(f)
  BY <1>1, <1>3, QuietPublish DEF Examine
<1> QED BY <1>2, <1>3

LEMMA MarkSyncedPublish ==
    ASSUME PublishInv, TypeOK', NEW j \in job, MarkSynced(j)
    PROVE  PublishInv'
<1>0. j.file \in File
  BY DEF PublishInv, TypeOK, Job
<1>1. /\ UNCHANGED <<local, authored, requests>> /\ job' = {}
      /\ \A f \in File \ {j.file} : pins'[f] = pins[f]
      /\ ~Pinned(j.file) => pins' = pins
  BY <1>0 DEF MarkSynced, diskVars, contentVars, PublishInv, TypeOK
<1>2. \A f \in File : (Dirty(f)' => Dirty(f) \/ f = j.file) /\ (Edited(f)' <=> Edited(f))
  BY <1>1 DEF Dirty, HasCopy, Pinned, Edited
<1>3. \A f \in File : Pinned(f)' => Pinned(f)
  BY <1>1 DEF Pinned
<1>4. \A f : ~Uploading(f)'
  BY <1>1 DEF Uploading
<1>5. \A x \in requests : x.file \in File
  BY DEF PublishInv, TypeOK, Request
<1> QED
  BY <1>0, <1>1, <1>2, <1>3, <1>4, <1>5 DEF PublishInv

LEMMA NextPublish ==
    ASSUME NoRepin, PublishInv, [Next]_vars
    PROVE  PublishInv'
<1>0. TypeOK'
  BY NextTypeOK DEF PublishInv
<1>1. ASSUME NEW f \in File, UserEdit(f) PROVE PublishInv'
  BY <1>0, <1>1, UserEditPublish
<1>2. ASSUME NEW f \in File, RemoteEdit(f) \/ Touch(f) PROVE PublishInv'
  BY <1>0, <1>2, QuietPublish DEF RemoteEdit, Touch, diskVars, contentVars, loopVars
<1>3. CASE Expire \/ Login \/ Debounce
  BY <1>0, <1>3, QuietPublish DEF Expire, Login, Debounce, diskVars,
     contentVars, loopVars
<1>4. ASSUME NEW t \in Thread, NEW f \in File, NEW force \in BOOLEAN,
             PinRequest(t, f, force) \/ UnpinRequest(t, f, force)
      PROVE  PublishInv'
  BY <1>0, <1>4, RequestPublish
<1>5. ASSUME NEW t \in Thread, ControlStep(t) PROVE PublishInv'
  BY <1>0, <1>5, ControlPublish
<1>6. CASE StartReconcile \/ StartWatching \/ TakeBatch \/ Crash
  BY <1>0, <1>6, QuietPublish DEF StartReconcile, StartWatching, TakeBatch,
     Crash, diskVars, contentVars
<1>7. ASSUME NEW f \in File, Examine(f) PROVE PublishInv'
  BY <1>0, <1>7, ExaminePublish
<1>8. ASSUME NEW j \in job, Upload(j) \/ UploadSignedOut(j) \/ UploadFails(j)
      PROVE  PublishInv'
  <2>1. [j EXCEPT !.step = "mark"].file = j.file
    BY DEF PublishInv, TypeOK, Job
  <2> QED
    BY <1>0, <1>8, <2>1, QuietPublish DEF Upload, UploadSignedOut, UploadFails,
       diskVars, contentVars
<1>9. ASSUME NEW j \in job, MarkSynced(j) PROVE PublishInv'
  BY <1>0, <1>9, MarkSyncedPublish
<1>10. CASE UNCHANGED vars
  BY <1>0, <1>10, QuietPublish DEF vars, diskVars, contentVars, loopVars
<1> QED
  BY <1>1, <1>2, <1>3, <1>4, <1>5, <1>6, <1>7, <1>8, <1>9, <1>10
     DEF Next, LoopStep

\* The daemon writes to Drive only what the user wrote into a local copy,
\* whatever fails, crashes or is forced, and whenever the user saves, as long
\* as nobody pins a file that has a pin, a request or an upload already.
THEOREM Published == ASSUME NoRepin PROVE Spec => OnlyEditsArePublished
<1> DEFINE Written(f) == fresh' = fresh /\ drive'[f] # drive[f] => drive'[f] \in authored
<1>1. ASSUME PublishInv, Next, NEW f \in File PROVE Written(f)
  <2>1. ASSUME NEW j \in job, Upload(j) \/ UploadFails(j), ~UNCHANGED driveVars
        PROVE  Written(f)
    <3>1. /\ drive' = [drive EXCEPT ![j.file] = local[j.file].content]
          /\ HasCopy(j.file) /\ Edited(j.file)
      BY <1>1, <2>1 DEF Upload, UploadFails, SetDrive, PublishInv
    <3>2. authored' = authored
      BY <2>1 DEF Upload, UploadFails, contentVars
    <3> QED
      BY <1>1, <3>1, <3>2 DEF PublishInv, TypeOK, Edited
  <2>2. ASSUME NEW g \in File, RemoteEdit(g) PROVE Written(f)
    BY <1>1, <2>2, ConstantsAssumption DEF RemoteEdit, PublishInv, TypeOK, Content
  <2>3. ASSUME UNCHANGED driveVars PROVE Written(f)
    BY <2>3 DEF driveVars
  <2>4. CASE ~(\E j \in job : Upload(j) \/ UploadFails(j))
             /\ ~(\E g \in File : RemoteEdit(g))
    <3>1. UNCHANGED driveVars
      BY <1>1, <2>4 DEF Next, LoopStep, ControlStep, UserEdit, Touch, Expire, Login,
         PinRequest, UnpinRequest, PinDownload, PinDownloadFails, PinRecord,
         UnpinRemove, UnpinRemoveFails, UnpinDelete, StartReconcile, Debounce,
         StartWatching, TakeBatch, Examine, UploadSignedOut, MarkSynced, Crash
    <3> QED BY <2>3, <3>1
  <2> QED BY <2>1, <2>2, <2>3, <2>4
<1>2. Init => PublishInv
  BY InitPublish
<1>3. PublishInv /\ [Next]_vars => PublishInv'
  BY NextPublish
<1>4. PublishInv /\ [Next]_vars =>
        [fresh' = fresh => \A f \in File :
            drive'[f] # drive[f] => drive'[f] \in authored]_vars
  BY <1>1
<1> QED
  BY <1>2, <1>3, <1>4, PTL DEF Spec, OnlyEditsArePublished
=============================================================================
