-------------------------- MODULE PinRename_proofs --------------------------
(***************************************************************************)
(* Theorems about PinRename: the types of its variables; that the daemon   *)
(* leaves the worker's renames alone; and, by the invariant InStep, that   *)
(* rows, Drive and cache directory agree once all is handled and that an   *)
(* upload replaces its own file's last version.                            *)
(***************************************************************************)
EXTENDS PinRename, TLAPS, SequenceTheorems, WellFoundedInduction

-----------------------------------------------------------------------------
(***************************************************************************)
(* Operators.                                                              *)
(***************************************************************************)

LEMMA NotNone == None \notin Content /\ None \notin Row
BY ConstantsAssumption DEF Row

LEMMA MovedType ==
    ASSUME NEW f \in [Path -> Content \cup {None}], NEW p \in Path, NEW q \in Path
    PROVE  MovedTo(f, p, q) \in [Path -> Content \cup {None}]
BY DEF MovedTo

LEMMA RekeyedType ==
    ASSUME pins \in [Path -> Row \cup {None}],
           NEW old \in Path, NEW new \in Path, NEW to \in Path
    PROVE  Rekeyed(old, new, to) \in [Path -> Row \cup {None}]
<1>1. CASE pins[old] = None
  BY <1>1 DEF Rekeyed
<1>2. CASE pins[old] # None
  <2>1. pins[old] \in Row
    BY <1>2
  <2>2. [pins[old] EXCEPT !.local = to] \in Row
    BY <2>1 DEF Row
  <2> QED
    BY <2>2 DEF Rekeyed
<1> QED
  BY <1>1, <1>2

\* What a rename adds to the window: itself, or its end to the renames it
\* follows.
LEMMA WithRenameIs ==
    ASSUME window \in Batch, NEW ren \in Renaming
    PROVE  /\ WithRename(ren) \in Batch
           /\ \A n \in Entries(WithRename(ren).renames) :
                \/ n = ren
                \/ \E m \in Entries(window.renames) :
                    n.from = m.from /\ n.byUser \in {m.byUser, m.byUser \/ ren.byUser}
<1> DEFINE s == window.renames
           follows == {i \in DOMAIN s : s[i].to = ren.from}
           merged == [i \in DOMAIN s |->
                         IF i \in follows
                         THEN [s[i] EXCEPT !.to = ren.to, !.byUser = @ \/ ren.byUser]
                         ELSE s[i]]
           changed == IF ren.from \in window.changed
                      THEN (window.changed \ {ren.from}) \cup {ren.to} ELSE window.changed
<1>1. s \in Seq(Renaming) /\ changed \in SUBSET Path
  BY DEF Batch, Renaming
<1>2. \A i \in DOMAIN s : /\ s[i] \in Renaming
                          /\ merged[i] \in Renaming
                          /\ merged[i].from = s[i].from
                          /\ merged[i].byUser \in {s[i].byUser, s[i].byUser \/ ren.byUser}
  <2> SUFFICES ASSUME NEW i \in DOMAIN s
               PROVE  /\ s[i] \in Renaming
                      /\ merged[i] \in Renaming
                      /\ merged[i].from = s[i].from
                      /\ merged[i].byUser \in {s[i].byUser, s[i].byUser \/ ren.byUser}
    OBVIOUS
  <2>1. s[i] \in Renaming
    BY <1>1
  <2>2. CASE i \in follows
    <3>1. merged[i] = [s[i] EXCEPT !.to = ren.to, !.byUser = s[i].byUser \/ ren.byUser]
      BY <2>2
    <3> HIDE DEF merged, follows, s
    <3> QED
      BY <2>1, <3>1 DEF Renaming
  <2>3. CASE i \notin follows
    BY <2>1, <2>3
  <2> QED
    BY <2>2, <2>3
<1>3. DOMAIN s = 1 .. Len(s) /\ Len(s) \in Nat
  BY <1>1
<1>4. merged \in Seq(Renaming) /\ DOMAIN merged = DOMAIN s
  <2>1. merged \in [1 .. Len(s) -> Renaming]
    BY <1>2, <1>3
  <2> HIDE DEF merged
  <2> QED
    BY <2>1, <1>3
<1>5. /\ WithRename(ren).renames = IF follows = {} THEN Append(s, ren) ELSE merged
      /\ WithRename(ren).changed = changed
      /\ WithRename(ren) = [renames |-> IF follows = {} THEN Append(s, ren) ELSE merged,
                            changed |-> changed]
  BY DEF WithRename
<1> HIDE DEF merged, follows, s, changed
<1>6. Append(s, ren) \in Seq(Renaming)
  BY <1>1
<1>7. WithRename(ren) \in Batch
  BY <1>1, <1>4, <1>5, <1>6 DEF Batch
<1>8. ASSUME NEW n \in Entries(WithRename(ren).renames)
      PROVE  \/ n = ren
             \/ \E m \in Entries(s) :
                  n.from = m.from /\ n.byUser \in {m.byUser, m.byUser \/ ren.byUser}
  <2>1. CASE follows = {}
    <3>1. PICK i \in DOMAIN Append(s, ren) : n = Append(s, ren)[i]
      BY <1>5, <2>1 DEF Entries
    <3>2. (i \in DOMAIN s /\ n = s[i]) \/ n = ren
      BY <1>1, <1>3, <3>1
    <3>3. i \in DOMAIN s /\ n = s[i] => n \in Entries(s)
      BY DEF Entries
    <3> QED
      BY <3>2, <3>3
  <2>2. CASE follows # {}
    <3>1. PICK i \in DOMAIN s : n = merged[i]
      BY <1>4, <1>5, <2>2 DEF Entries
    <3>2. s[i] \in Entries(s)
      BY DEF Entries
    <3> QED
      BY <1>2, <3>1, <3>2
  <2> QED
    BY <2>1, <2>2
<1> QED
  BY <1>7, <1>8 DEF s

-----------------------------------------------------------------------------
(***************************************************************************)
(* Types.  The worker renames a file to a file's path or a folder to a     *)
(* folder's, and has only pins at and under the old path in hand.          *)
(***************************************************************************)

Shape(old, new) ==
    \/ old \in Path /\ new \in Path
    \/ old \in Dir /\ new \in Dir

WorkerOK(x) ==
    /\ Shape(x.old, x.new)
    /\ \A t \in x.todo \cup x.now : Under(t.remote, x.old)

TypeInv == TypeOK /\ \A x \in worker : WorkerOK(x)

LEMMA FolderIsNoPath ==
    /\ \A p \in Path : p.dir \in Dir /\ p.dir \notin Path /\ p \notin Dir
    /\ \A p \in Path, old \in Path : Under(p, old) => p = old
BY ConstantsAssumption DEF Path, Under

LEMMA ImageIs ==
    ASSUME NEW old, NEW new, Shape(old, new), NEW p \in Path, Under(p, old)
    PROVE  /\ Image(p, old, new) \in Path
           /\ Under(Image(p, old, new), new)
           /\ Image(Image(p, old, new), new, old) = p
<1>1. CASE old \in Path /\ new \in Path
  BY <1>1, FolderIsNoPath DEF Image, Under
<1>2. CASE old \in Dir /\ new \in Dir
  <2>1. p # old /\ p.dir = old /\ Image(p, old, new) = [p EXCEPT !.dir = new]
    BY <1>2, FolderIsNoPath DEF Under, Image
  <2>2. [p EXCEPT !.dir = new] \in Path /\ [p EXCEPT !.dir = new].dir = new
    BY <1>2 DEF Path
  <2>3. [[p EXCEPT !.dir = new] EXCEPT !.dir = old] = p
    BY <2>1 DEF Path
  <2> QED
    BY <1>2, <2>1, <2>2, <2>3, FolderIsNoPath DEF Under, Image
<1> QED
  BY <1>1, <1>2 DEF Shape

LEMMA InitTypes == Init => TypeInv
<1> SUFFICES ASSUME Init PROVE TypeInv
  OBVIOUS
<1>1. PICK S \in SUBSET Path :
        /\ drive = [p \in Path |-> IF p \in S THEN [of |-> p, rev |-> 0] ELSE None]
        /\ local = drive
        /\ pins = [p \in Path |-> IF p \in S THEN [local |-> p, synced |-> drive[p]] ELSE None]
  BY DEF Init
<1>2. \A p \in Path : [of |-> p, rev |-> 0] \in Content
  BY ConstantsAssumption DEF Content
<1>3. drive \in [Path -> Content \cup {None}] /\ local \in [Path -> Content \cup {None}]
  BY <1>1, <1>2
<1>4. \A p \in S : [local |-> p, synced |-> drive[p]] \in Row
  BY <1>1, <1>2 DEF Row
<1>5. pins \in [Path -> Row \cup {None}]
  BY <1>1, <1>4
<1>6. NoEvents \in Batch /\ <<>> \in Seq(Batch)
  BY DEF NoEvents, Batch
<1>7. edits \in 0 .. MaxEdits /\ renames \in 0 .. MaxRenames
  BY ConstantsAssumption DEF Init
<1> QED
  BY <1>3, <1>5, <1>6, <1>7 DEF Init, TypeInv, TypeOK, AtMostOne

\* The job in hand, by what it does.
LEMMA JobTypes ==
    ASSUME TypeOK, NEW j \in job
    PROVE  /\ job = {j} /\ j \in Job /\ j.remote \in Path
           /\ j.step \in {"upload", "mark"} =>
                j \in [step : {"upload", "mark"}, remote : Path, path : Path, seen : Content]
           /\ j.step \in {"move", "rename", "rekey", "keep"} =>
                j \in [step : {"move", "rename", "rekey", "keep"}, remote : Path,
                       ren : Renaming, at : Path]
           /\ j.step \in {"upload", "mark", "move", "rename", "rekey", "keep"}
BY DEF TypeOK, Job, AtMostOne

LEMMA BatchTypes ==
    ASSUME NEW b \in Batch
    PROVE  /\ b.renames \in Seq(Renaming) /\ b.changed \in SUBSET Path
           /\ b.renames # <<>> =>
                /\ Head(b.renames) \in Renaming
                /\ [b EXCEPT !.renames = Tail(@)] \in Batch
           /\ \A p : [b EXCEPT !.changed = @ \ {p}] \in Batch
           /\ \A p \in Path : [b EXCEPT !.changed = @ \cup {p}] \in Batch
BY DEF Batch

LEMMA UserTypes ==
    ASSUME TypeInv,
           \/ \E p \in Path : Save(p)
           \/ \E p, q \in Path : UserRename(p, q)
           \/ Debounce
    PROVE  TypeInv'
<1>0. TypeOK /\ \A x \in worker : WorkerOK(x)
  BY DEF TypeInv
<1>1. ASSUME NEW p \in Path, Save(p) PROVE TypeInv'
  <2>1. local[p] \in Content /\ edits + 1 \in 0 .. MaxEdits
    BY <1>0, <1>1, ConstantsAssumption DEF Save, TypeOK
  <2>2. [local[p] EXCEPT !.rev = edits + 1] \in Content
    BY <2>1 DEF Content
  <2>3. local' \in [Path -> Content \cup {None}]
    BY <1>0, <1>1, <2>2 DEF Save, TypeOK
  <2>4. window' \in Batch
    BY <1>0, <1>1, BatchTypes DEF Save, TypeOK
  <2> QED
    BY <1>0, <1>1, <2>1, <2>3, <2>4 DEF Save, TypeInv, TypeOK, loopVars, WorkerOK
<1>2. ASSUME NEW p \in Path, NEW q \in Path, UserRename(p, q) PROVE TypeInv'
  <2>1. local' \in [Path -> Content \cup {None}]
    BY <1>0, <1>2, MovedType DEF UserRename, TypeOK
  <2>2. window' \in Batch
    <3>1. [from |-> p, to |-> q, byUser |-> TRUE] \in Renaming
      BY DEF Renaming
    <3> QED
      BY <1>0, <1>2, <3>1, WithRenameIs DEF UserRename, TypeOK
  <2>3. renames' \in 0 .. MaxRenames
    BY <1>0, <1>2, ConstantsAssumption DEF UserRename, TypeOK
  <2> QED
    BY <1>0, <1>2, <2>1, <2>2, <2>3 DEF UserRename, TypeInv, TypeOK, loopVars, WorkerOK
<1>3. ASSUME Debounce PROVE TypeInv'
  <2>1. NoEvents \in Batch
    BY DEF NoEvents, Batch
  <2>2. inbox' \in Seq(Batch)
    BY <1>0, <1>3 DEF Debounce, TypeOK
  <2> QED
    BY <1>0, <1>3, <2>1, <2>2 DEF Debounce, TypeInv, TypeOK, boundVars, WorkerOK
<1> QED
  BY <1>1, <1>2, <1>3

\* What the main loop's own steps may do to the types.
LEMMA LoopTypesFrom ==
    ASSUME TypeInv,
           drive' \in [Path -> Content \cup {None}],
           pins' \in [Path -> Row \cup {None}],
           batch' \in Batch, inbox' \in Seq(Batch), job' \subseteq Job, AtMostOne(job'),
           failed' \in BOOLEAN,
           UNCHANGED <<local, window, worker, boundVars>>
    PROVE  TypeInv'
BY DEF TypeInv, TypeOK, WorkerOK, boundVars

LEMMA TakeTypes ==
    ASSUME TypeInv, TakeBatch \/ TakeRename \/ \E p \in Path : TakeChange(p)
    PROVE  TypeInv'
<1>0. TypeOK
  BY DEF TypeInv
<1>1. CASE TakeBatch
  <2>1. batch' \in Batch /\ inbox' \in Seq(Batch)
    BY <1>0, <1>1 DEF TakeBatch, TypeOK
  <2> QED
    BY <1>0, <1>1, <2>1, LoopTypesFrom DEF TakeBatch, TypeOK
<1>2. CASE TakeRename
  <2> DEFINE ren == Head(batch.renames)
  <2>1. ren \in Renaming /\ batch' \in Batch
    BY <1>0, <1>2, BatchTypes DEF TakeRename, TypeOK
  <2>2. \A r \in Path :
          [step |-> IF r.dir = ren.to.dir THEN "rename" ELSE "move",
           remote |-> r, ren |-> ren, at |-> r] \in Job
    BY <2>1 DEF Job
  <2>3. job' \subseteq Job /\ AtMostOne(job')
    <3>1. RemotesOf(ren.from) \subseteq Path
      BY DEF RemotesOf
    <3> HIDE DEF ren
    <3>2. \/ job' = {}
          \/ \E r \in RemotesOf(ren.from) :
               job' = {[step |-> IF r.dir = ren.to.dir THEN "rename" ELSE "move",
                        remote |-> r, ren |-> ren, at |-> r]}
      BY <1>2 DEF TakeRename, ren
    <3> QED
      BY <2>2, <3>1, <3>2 DEF AtMostOne
  <2> QED
    BY <1>0, <1>2, <2>1, <2>3, LoopTypesFrom DEF TakeRename, TypeOK
<1>3. ASSUME NEW p \in Path, TakeChange(p) PROVE TypeInv'
  <2>1. batch' \in Batch
    BY <1>0, <1>3, BatchTypes DEF TakeChange, TypeOK
  <2>2. \A r \in Path : local[p] # None =>
          [step |-> "upload", remote |-> r, path |-> p, seen |-> local[p]] \in Job
    BY <1>0 DEF TypeOK, Job
  <2>3. job' \subseteq Job /\ AtMostOne(job')
    <3>1. RemotesOf(p) \subseteq Path
      BY DEF RemotesOf
    <3>2. \/ job' = {}
          \/ local[p] # None /\ \E r \in RemotesOf(p) :
               job' = {[step |-> "upload", remote |-> r, path |-> p, seen |-> local[p]]}
      BY <1>3 DEF TakeChange
    <3> QED
      BY <2>2, <3>1, <3>2 DEF AtMostOne
  <2> QED
    BY <1>0, <1>3, <2>1, <2>3, LoopTypesFrom DEF TakeChange, TypeOK
<1> QED
  BY <1>1, <1>2, <1>3

LEMMA JobStepTypes ==
    ASSUME TypeInv, NEW j \in job,
           \/ Move(j) \/ RenameNode(j) \/ CallFails(j) \/ Rekey(j) \/ KeepRemote(j)
           \/ Upload(j) \/ UploadFails(j) \/ MarkSynced(j)
    PROVE  TypeInv'
<1>0. TypeOK /\ drive \in [Path -> Content \cup {None}] /\ local \in [Path -> Content \cup {None}]
      /\ pins \in [Path -> Row \cup {None}]
  BY DEF TypeInv, TypeOK
<1>a. j.step \in {"move", "rename", "rekey", "keep"} =>
        /\ j \in [step : {"move", "rename", "rekey", "keep"}, remote : Path,
                  ren : Renaming, at : Path]
        /\ j.ren \in Renaming /\ j.at \in Path /\ j.ren.to \in Path /\ j.ren.from \in Path
  BY <1>0, JobTypes DEF Renaming
<1>b. j.step \in {"upload", "mark"} =>
        /\ j \in [step : {"upload", "mark"}, remote : Path, path : Path, seen : Content]
        /\ j.path \in Path /\ j.seen \in Content
  BY <1>0, JobTypes
<1>c. j.remote \in Path
  BY <1>0, JobTypes
<1>d. \A p, q \in Path : [p EXCEPT !.dir = q.dir] \in Path /\ [p EXCEPT !.base = q.base] \in Path
  BY DEF Path
<1>1. CASE Move(j)
  <2> DEFINE q == [j.at EXCEPT !.dir = j.ren.to.dir]
  <2>1. j.step = "move" /\ j.at \in Path /\ q \in Path /\ j.ren.from \in Path
    BY <1>1, <1>a, <1>d DEF Move
  <2>2. drive' = MovedTo(drive, j.at, q)
    BY <1>1 DEF Move
  <2>3. drive' \in [Path -> Content \cup {None}]
    BY <1>0, <2>1, <2>2, MovedType
  <2>4. [q EXCEPT !.base = j.ren.from.base] \in Path
    BY <1>d, <2>1
  <2>5. [j EXCEPT !.step = "rekey"] \in Job
    BY <1>a, <2>1 DEF Job
  <2>6. [j EXCEPT !.step = "rename", !.at = [q EXCEPT !.base = j.ren.from.base]] \in Job
    <3> HIDE DEF q
    <3> QED
      BY <1>a, <2>1, <2>4 DEF Job
  <2>7. \/ job' = {[j EXCEPT !.step = "rekey"]}
        \/ job' = {[j EXCEPT !.step = "rename", !.at = [q EXCEPT !.base = j.ren.from.base]]}
    BY <1>1 DEF Move
  <2>8. job' \subseteq Job /\ AtMostOne(job')
    <3> HIDE DEF q
    <3> QED
      BY <2>5, <2>6, <2>7 DEF AtMostOne
  <2> QED
    BY <1>0, <1>1, <2>3, <2>8, LoopTypesFrom DEF Move, TypeOK
<1>2. CASE RenameNode(j)
  <2> DEFINE q == [j.at EXCEPT !.base = j.ren.to.base]
  <2>1. j.step = "rename" /\ j.at \in Path /\ q \in Path
    BY <1>2, <1>a, <1>d DEF RenameNode
  <2>2. drive' = MovedTo(drive, j.at, q)
    BY <1>2 DEF RenameNode
  <2>3. drive' \in [Path -> Content \cup {None}]
    BY <1>0, <2>1, <2>2, MovedType
  <2>4. [j EXCEPT !.step = "rekey"] \in Job
    BY <1>a, <2>1 DEF Job
  <2>5. job' \subseteq Job /\ AtMostOne(job')
    BY <1>2, <2>4 DEF RenameNode, AtMostOne
  <2> QED
    BY <1>0, <1>2, <2>3, <2>5, LoopTypesFrom DEF RenameNode, TypeOK
<1>3. CASE CallFails(j)
  <2>1. j.step \in {"move", "rename"}
    BY <1>3 DEF CallFails
  <2>2. [j EXCEPT !.step = "keep"] \in Job
    BY <1>a, <2>1 DEF Job
  <2>3. job' \subseteq Job /\ AtMostOne(job')
    BY <1>3, <2>2 DEF CallFails, AtMostOne
  <2> QED
    BY <1>0, <1>3, <2>3, LoopTypesFrom DEF CallFails, TypeOK
<1>4. CASE Rekey(j) \/ KeepRemote(j)
  <2>1. j.ren.to \in Path
    BY <1>4, <1>a DEF Rekey, KeepRemote
  <2>2. pins' \in [Path -> Row \cup {None}]
    BY <1>0, <1>4, <1>c, <2>1, RekeyedType DEF Rekey, KeepRemote
  <2>3. job' \subseteq Job /\ AtMostOne(job')
    BY <1>4 DEF Rekey, KeepRemote, AtMostOne
  <2> QED
    BY <1>0, <1>4, <2>2, <2>3, LoopTypesFrom DEF Rekey, KeepRemote, TypeOK
<1>5. CASE Upload(j)
  <2>1. j.step = "upload" /\ j.path \in Path /\ local[j.path] \in Content
    BY <1>0, <1>5, <1>b DEF Upload
  <2>2. drive' \in [Path -> Content \cup {None}]
    BY <1>0, <1>5, <2>1 DEF Upload
  <2>3. [j EXCEPT !.step = "mark"] \in Job
    BY <1>b, <2>1 DEF Job
  <2>4. job' \subseteq Job /\ AtMostOne(job')
    BY <1>5, <2>3 DEF Upload, AtMostOne
  <2> QED
    BY <1>0, <1>5, <2>2, <2>4, LoopTypesFrom DEF Upload, TypeOK
<1>6. CASE UploadFails(j)
  <2>1. job' \subseteq Job /\ AtMostOne(job')
    BY <1>6 DEF UploadFails, AtMostOne
  <2> QED
    BY <1>0, <1>6, <2>1, LoopTypesFrom DEF UploadFails, TypeOK
<1>7. CASE MarkSynced(j)
  <2>1. j.seen \in Content
    BY <1>7, <1>b DEF MarkSynced
  <2>2. \A row \in Row : [row EXCEPT !.synced = j.seen] \in Row
    BY <2>1 DEF Row
  <2>3. pins' \in [Path -> Row \cup {None}]
    BY <1>0, <1>7, <1>c, <2>2 DEF MarkSynced
  <2>4. job' \subseteq Job /\ AtMostOne(job')
    BY <1>7 DEF MarkSynced, AtMostOne
  <2> QED
    BY <1>0, <1>7, <2>3, <2>4, LoopTypesFrom DEF MarkSynced, TypeOK
<1> QED
  BY <1>1, <1>2, <1>3, <1>4, <1>5, <1>6, <1>7

\* What the worker's steps may do to the types.
LEMMA WorkerTypesFrom ==
    ASSUME TypeInv,
           drive' \in [Path -> Content \cup {None}],
           local' \in [Path -> Content \cup {None}],
           pins' \in [Path -> Row \cup {None}],
           window' \in Batch, worker' \subseteq Rename, AtMostOne(worker'),
           \A x \in worker' : WorkerOK(x),
           failed' \in BOOLEAN, renames' \in 0 .. MaxRenames,
           UNCHANGED <<loopVars, edits>>
    PROVE  TypeInv'
BY DEF TypeInv, TypeOK, WorkerOK, loopVars

LEMMA WorkerRenameTypes ==
    ASSUME TypeInv, NEW old, NEW new, Shape(old, new), WorkerRename(old, new)
    PROVE  TypeInv'
<1>0. TypeOK
  BY DEF TypeInv
<1> DEFINE from == {p \in Path : Under(p, old) /\ drive[p] # None}
           to == {Image(p, old, new) : p \in from}
<1>1. \A q \in to : Image(q, new, old) \in Path
  BY ImageIs
<1>2. drive' = [q \in Path |-> IF q \in to THEN drive[Image(q, new, old)]
                               ELSE IF q \in from THEN None ELSE drive[q]]
  BY DEF WorkerRename
<1>3. drive' \in [Path -> Content \cup {None}]
  <2> HIDE DEF to, from
  <2> QED
    BY <1>0, <1>1, <1>2 DEF TypeOK
<1>4. worker' = {[step |-> "select", old |-> old, new |-> new, todo |-> {}, now |-> {}]}
  BY DEF WorkerRename
<1>5. [step |-> "select", old |-> old, new |-> new, todo |-> {}, now |-> {}] \in Rename
  BY DEF Rename, Shape
<1>6. worker' \subseteq Rename /\ AtMostOne(worker') /\ \A x \in worker' : WorkerOK(x)
  BY <1>4, <1>5 DEF AtMostOne, WorkerOK
<1>7. renames' \in 0 .. MaxRenames
  BY <1>0, ConstantsAssumption DEF WorkerRename, TypeOK
<1> QED
  BY <1>0, <1>3, <1>6, <1>7, WorkerTypesFrom DEF WorkerRename, TypeOK

LEMMA HalfRenameTypes ==
    ASSUME TypeInv, NEW p \in Path, NEW q \in Path, WorkerHalfRename(p, q)
    PROVE  TypeInv'
<1>0. TypeOK /\ \A x \in worker : WorkerOK(x)
  BY DEF TypeInv
<1>1. [p EXCEPT !.dir = q.dir] \in Path
  BY DEF Path
<1>2. drive' \in [Path -> Content \cup {None}]
  BY <1>0, <1>1, MovedType DEF WorkerHalfRename, TypeOK
<1>3. renames' \in 0 .. MaxRenames
  BY <1>0, ConstantsAssumption DEF WorkerHalfRename, TypeOK
<1> QED
  BY <1>0, <1>2, <1>3, WorkerTypesFrom DEF WorkerHalfRename, TypeOK

\* The rename in hand, and the pins it has in hand.
LEMMA WorkerIs ==
    ASSUME TypeInv, NEW x \in worker
    PROVE  /\ worker = {x} /\ x \in Rename /\ WorkerOK(x) /\ Shape(x.old, x.new)
           /\ x.todo \subseteq Pin /\ x.now \subseteq Pin
           /\ \A t \in x.todo \cup x.now :
                /\ t.remote \in Path /\ t.local \in Path /\ Under(t.remote, x.old)
                /\ Image(t.remote, x.old, x.new) \in Path
                /\ Under(Image(t.remote, x.old, x.new), x.new)
<1>1. worker = {x} /\ x \in Rename /\ WorkerOK(x) /\ Shape(x.old, x.new)
  BY DEF TypeInv, TypeOK, AtMostOne, WorkerOK
<1>2. x.todo \subseteq Pin /\ x.now \subseteq Pin
  BY <1>1 DEF Rename
<1>3. ASSUME NEW t \in x.todo \cup x.now
      PROVE  /\ t.remote \in Path /\ t.local \in Path /\ Under(t.remote, x.old)
             /\ Image(t.remote, x.old, x.new) \in Path
             /\ Under(Image(t.remote, x.old, x.new), x.new)
  <2>1. t.remote \in Path /\ t.local \in Path /\ Under(t.remote, x.old)
    BY <1>1, <1>2, <1>3 DEF Pin, WorkerOK
  <2> QED
    BY <1>1, <2>1, ImageIs
<1> QED
  BY <1>1, <1>2, <1>3

\* What Continue makes of the rename in hand.
LEMMA ContinueIs ==
    ASSUME TypeInv, NEW x \in worker, NEW todo \in SUBSET Pin,
           \A t \in todo : Under(t.remote, x.old), Continue(x, todo)
    PROVE  /\ worker' \subseteq Rename /\ AtMostOne(worker')
           /\ \A y \in worker' : /\ WorkerOK(y) /\ y.old = x.old /\ y.new = x.new
                                 /\ y.todo = todo /\ y.now = {}
<1> DEFINE y == [x EXCEPT !.step = "rekey", !.todo = todo, !.now = {}]
<1>1. x \in Rename /\ Shape(x.old, x.new)
  BY WorkerIs
<1>2. y \in Rename /\ y.old = x.old /\ y.new = x.new /\ y.todo = todo /\ y.now = {}
  BY <1>1 DEF Rename
<1>3. worker' = {} \/ worker' = {y}
  BY DEF Continue
<1> HIDE DEF y
<1>4. WorkerOK(y)
  BY <1>1, <1>2 DEF WorkerOK
<1> QED
  BY <1>2, <1>3, <1>4 DEF AtMostOne

\* What WorkerRekey makes of it.
LEMMA RekeyingIs ==
    ASSUME TypeInv, NEW x \in worker, NEW t \in x.todo, WorkerRekey(x, t)
    PROVE  /\ worker' \subseteq Rename /\ AtMostOne(worker')
           /\ \A y \in worker' : /\ WorkerOK(y) /\ y.old = x.old /\ y.new = x.new
                                 /\ y.todo = x.todo \ {t} /\ y.now = {t}
<1> DEFINE y == [x EXCEPT !.step = "move", !.todo = @ \ {t}, !.now = {t}]
<1>1. x \in Rename /\ Shape(x.old, x.new) /\ t \in Pin
      /\ \A u \in x.todo : Under(u.remote, x.old)
  BY WorkerIs
<1>2. y \in Rename /\ y.old = x.old /\ y.new = x.new /\ y.todo = x.todo \ {t} /\ y.now = {t}
  BY <1>1 DEF Rename
<1>3. worker' = {} \/ worker' = {y}
  BY DEF WorkerRekey
<1> HIDE DEF y
<1>4. WorkerOK(y)
  BY <1>1, <1>2 DEF WorkerOK
<1> QED
  BY <1>2, <1>3, <1>4 DEF AtMostOne

LEMMA WorkerStepTypes == ASSUME TypeInv, WorkerStep PROVE TypeInv'
<1>0. /\ TypeOK /\ \A x \in worker : WorkerOK(x)
      /\ pins \in [Path -> Row \cup {None}] /\ local \in [Path -> Content \cup {None}]
  BY DEF TypeInv, TypeOK
<1>1. ASSUME NEW x \in worker, WorkerSelect(x) PROVE TypeInv'
  <2> DEFINE todo == {[remote |-> r, local |-> pins[r].local] :
                        r \in {p \in Path : Under(p, x.old) /\ pins[p] # None}}
  <2>1. todo \in SUBSET Pin /\ \A t \in todo : Under(t.remote, x.old)
    BY <1>0 DEF Pin, Row
  <2>2. Continue(x, todo)
    BY <1>1 DEF WorkerSelect
  <2>3. worker' \subseteq Rename /\ AtMostOne(worker') /\ \A y \in worker' : WorkerOK(y)
    <3> HIDE DEF todo
    <3> QED
      BY <2>1, <2>2, ContinueIs
  <2> QED
    BY <1>0, <1>1, <2>3, WorkerTypesFrom DEF WorkerSelect, TypeOK, boundVars
<1>2. ASSUME NEW x \in worker, NEW t \in x.todo, WorkerRekey(x, t) PROVE TypeInv'
  <2>1. pins' \in [Path -> Row \cup {None}]
    BY <1>0, <1>2, WorkerIs, RekeyedType DEF WorkerRekey
  <2> QED
    BY <1>0, <1>2, <2>1, RekeyingIs, WorkerTypesFrom DEF WorkerRekey, TypeOK, boundVars
<1>3. ASSUME NEW x \in worker, NEW t \in x.now, WorkerMove(x, t) PROVE TypeInv'
  <2> DEFINE q == Image(t.remote, x.old, x.new)
  <2>1. q \in Path /\ t.local \in Path
    BY WorkerIs
  <2>2. [from |-> t.local, to |-> q, byUser |-> FALSE] \in Renaming
    BY <2>1 DEF Renaming
  <2>3. local' \in [Path -> Content \cup {None}]
    BY <1>0, <1>3, <2>1, MovedType DEF WorkerMove
  <2>4. window' \in Batch
    BY <1>0, <1>3, <2>2, WithRenameIs DEF WorkerMove, TypeOK
  <2>5. x.todo \in SUBSET Pin /\ (\A u \in x.todo : Under(u.remote, x.old)) /\ Continue(x, x.todo)
    BY <1>3, WorkerIs DEF WorkerMove
  <2>6. worker' \subseteq Rename /\ AtMostOne(worker') /\ \A y \in worker' : WorkerOK(y)
    BY <2>5, ContinueIs
  <2> QED
    BY <1>0, <1>3, <2>3, <2>4, <2>6, WorkerTypesFrom DEF WorkerMove, TypeOK, boundVars
<1>4. ASSUME NEW x \in worker, NEW t \in x.now, WorkerMoveFails(x, t) PROVE TypeInv'
  <2>1. pins' \in [Path -> Row \cup {None}]
    BY <1>0, <1>4, WorkerIs, RekeyedType DEF WorkerMoveFails
  <2> QED
    BY <1>0, <1>4, <2>1, WorkerTypesFrom DEF WorkerMoveFails, TypeOK, boundVars, AtMostOne
<1> QED
  BY <1>1, <1>2, <1>3, <1>4 DEF WorkerStep

LEMMA NextTypes == TypeInv /\ [Next]_vars => TypeInv'
<1> SUFFICES ASSUME TypeInv, [Next]_vars PROVE TypeInv'
  OBVIOUS
<1>1. CASE \/ \E p \in Path : Save(p)
           \/ \E p, q \in Path : UserRename(p, q)
           \/ Debounce
  BY <1>1, UserTypes
<1>2. ASSUME NEW p \in Path, NEW q \in Path, WorkerRename(p, q) PROVE TypeInv'
  <2>1. Shape(p, q)
    BY DEF Shape
  <2> QED
    BY <1>2, <2>1, WorkerRenameTypes
<1>3. ASSUME NEW p \in Path, NEW q \in Path, WorkerHalfRename(p, q) PROVE TypeInv'
  BY <1>3, HalfRenameTypes
<1>4. ASSUME NEW d \in Dir, NEW e \in Dir, WorkerRename(d, e) PROVE TypeInv'
  BY <1>4, WorkerRenameTypes DEF Shape
<1>5. CASE LoopStep
  BY <1>5, TakeTypes, JobStepTypes DEF LoopStep
<1>6. CASE WorkerStep
  BY <1>6, WorkerStepTypes
<1>7. CASE UNCHANGED vars
  BY <1>7 DEF vars, loopVars, boundVars, TypeInv, TypeOK, WorkerOK
<1> QED
  BY <1>1, <1>2, <1>3, <1>4, <1>5, <1>6, <1>7 DEF Next

\* Every state is of the types the code has; the main loop has one event in
\* hand and the worker one rename.
THEOREM Types == Spec => []TypeOK
<1>1. TypeInv => TypeOK
  BY DEF TypeInv
<1> QED
  BY <1>1, InitTypes, NextTypes, PTL DEF Spec

-----------------------------------------------------------------------------
(***************************************************************************)
(* The daemon and the worker's renames.  As long as no call has failed a   *)
(* row has one path for both sides, and the renames the daemon has still   *)
(* to handle are all the user's or all the worker's; of the worker's, the  *)
(* path they start from has no row any more.                               *)
(***************************************************************************)

\* No row is known by another local path than its remote one.
Mirrored == \A p \in Path : pins[p] # None => pins[p].local = p

\* The renames in Pending are all made by the same side.
OneSide == (\A n \in Pending : n.byUser) \/ (\A n \in Pending : ~n.byUser)

\* A path the worker has renamed has no row.
Forgotten == \A n \in Pending : ~n.byUser => pins[n.from] = None

\* What the main loop has in hand of a rename is the user's.
JobsAreUsers == \A j \in job : j.step \notin {"upload", "mark"} => j.step # "keep" /\ j.ren.byUser

\* The worker takes pins away from where no event to come starts.
WorkerApart(x) ==
    /\ x.old # x.new
    /\ \A t \in x.todo \cup x.now : t.local = t.remote
    /\ \A t \in x.now : pins[t.remote] = None
    /\ \A n \in Pending : ~n.byUser /\ ~Under(n.from, x.new)

Apart ==
    /\ Mirrored /\ OneSide /\ Forgotten /\ JobsAreUsers
    /\ \A x \in worker : WorkerApart(x)

ApartInv == TypeInv /\ (~failed => Apart)

LEMMA OneOf ==
    ASSUME NEW B, NEW J, NEW n
    PROVE  n \in (UNION {Entries(b.renames) : b \in B}) \cup {j.ren : j \in J}
            <=> (\E b \in B : n \in Entries(b.renames)) \/ (\E j \in J : n = j.ren)
<1> DEFINE U == UNION {Entries(b.renames) : b \in B}
           V == {j.ren : j \in J}
<1>1. n \in V <=> \E j \in J : n = j.ren
  OBVIOUS
<1>2. n \in U <=> \E b \in B : n \in Entries(b.renames)
  OBVIOUS
<1>3. n \in U \cup V <=> n \in U \/ n \in V
  OBVIOUS
<1> HIDE DEF U, V
<1>4. n \in U \cup V
        <=> (\E b \in B : n \in Entries(b.renames)) \/ (\E j \in J : n = j.ren)
  BY <1>1, <1>2, <1>3
<1> QED
  BY <1>4 DEF U, V

LEMMA PendingIs ==
    \A n : n \in Pending <=>
        \/ n \in Entries(window.renames) \/ n \in Entries(batch.renames)
        \/ \E b \in Entries(inbox) : n \in Entries(b.renames)
        \/ \E j \in job : j.step \notin {"upload", "mark"} /\ n = j.ren
<1>1. ASSUME NEW n
      PROVE  n \in Pending <=>
                \/ \E b \in Batches : n \in Entries(b.renames)
                \/ \E j \in job : j.step \notin {"upload", "mark"} /\ n = j.ren
  <2> DEFINE J == {x \in job : x.step \notin {"upload", "mark"}}
  <2>1. Pending = (UNION {Entries(b.renames) : b \in Batches}) \cup {j.ren : j \in J}
    BY DEF Pending, Entries
  <2>2. n \in Pending
          <=> (\E b \in Batches : n \in Entries(b.renames)) \/ (\E j \in J : n = j.ren)
    <3> HIDE DEF J
    <3> QED
      BY <2>1, OneOf
  <2> QED
    BY <2>2
<1>2. Batches = {window, batch} \cup Entries(inbox)
  BY DEF Batches, Entries
<1> QED
  BY <1>1, <1>2

LEMMA PendingNew ==
    \A n : n \in Pending' <=>
        \/ n \in Entries(window'.renames) \/ n \in Entries(batch'.renames)
        \/ \E b \in Entries(inbox') : n \in Entries(b.renames)
        \/ \E j \in job' : j.step \notin {"upload", "mark"} /\ n = j.ren
<1>1. ASSUME NEW n
      PROVE  n \in Pending' <=>
                \/ \E b \in Batches' : n \in Entries(b.renames)
                \/ \E j \in job' : j.step \notin {"upload", "mark"} /\ n = j.ren
  <2> DEFINE J == {x \in job' : x.step \notin {"upload", "mark"}}
  <2>1. Pending' = (UNION {Entries(b.renames) : b \in Batches'}) \cup {j.ren : j \in J}
    BY DEF Pending, Entries
  <2>2. n \in Pending'
          <=> (\E b \in Batches' : n \in Entries(b.renames)) \/ (\E j \in J : n = j.ren)
    <3> HIDE DEF J
    <3> QED
      BY <2>1, OneOf
  <2> QED
    BY <2>2
<1>2. Batches' = {window', batch'} \cup Entries(inbox')
  BY DEF Batches, Entries
<1> QED
  BY <1>1, <1>2

LEMMA PendingTypes == TypeOK => Pending \subseteq Renaming
<1> SUFFICES ASSUME TypeOK, NEW n \in Pending PROVE n \in Renaming
  OBVIOUS
<1>1. \A b \in Batch : Entries(b.renames) \subseteq Renaming
  BY DEF Batch, Entries
<1>2. Entries(inbox) \subseteq Batch
  BY DEF TypeOK, Entries
<1>3. \A j \in job : j.step \notin {"upload", "mark"} => j.ren \in Renaming
  BY JobTypes
<1> QED
  BY <1>1, <1>2, <1>3, PendingIs DEF TypeOK

\* Fewer renames to handle, and nothing else of interest.
LEMMA FewerPending ==
    ASSUME Apart, Pending' \subseteq Pending, worker' = worker,
           \A p \in Path : pins'[p] = None <=> pins[p] = None,
           \A p \in Path : pins'[p] # None => pins'[p].local = pins[p].local,
           Pending \subseteq Renaming, \A x \in worker : x.now \subseteq Pin,
           JobsAreUsers'
    PROVE  Apart'
<1>1. \A n \in Pending : n.from \in Path
  BY DEF Renaming
<1>2. Mirrored'
  BY DEF Apart, Mirrored
<1>3. OneSide'
  BY DEF Apart, OneSide
<1>4. Forgotten'
  BY <1>1 DEF Apart, Forgotten
<1>5. \A x \in worker' : WorkerApart(x)'
  BY DEF Apart, WorkerApart, Pin
<1> QED
  BY <1>2, <1>3, <1>4, <1>5 DEF Apart

LEMMA ApartInit == Init => ApartInv
<1> SUFFICES ASSUME Init PROVE ApartInv
  OBVIOUS
<1>1. Pending = {}
  BY PendingIs DEF Init, NoEvents, Entries
<1>2. Mirrored
  BY DEF Init, Mirrored
<1> QED
  BY <1>1, <1>2, InitTypes DEF Init, ApartInv, Apart, OneSide, Forgotten, JobsAreUsers

\* Nothing new to handle, nothing of interest changed.
LEMMA SamePending ==
    ASSUME TypeOK, batch' = batch, inbox' = inbox, job' = job,
           Entries(window'.renames) \subseteq Entries(window.renames)
    PROVE  Pending' \subseteq Pending
BY PendingIs, PendingNew

\* One more rename of a side that has all of the others.
LEMMA OneMorePending ==
    ASSUME TypeOK, NEW ren \in Renaming, window' = WithRename(ren),
           batch' = batch, inbox' = inbox, job' = job,
           \A n \in Pending : n.byUser <=> ren.byUser
    PROVE  \A n \in Pending' :
              /\ n.byUser <=> ren.byUser
              /\ n.from = ren.from \/ \E m \in Pending : n.from = m.from
<1> SUFFICES ASSUME NEW n \in Pending'
             PROVE  /\ n.byUser <=> ren.byUser
                    /\ n.from = ren.from \/ \E m \in Pending : n.from = m.from
  OBVIOUS
<1>1. CASE n \in Pending
  BY <1>1
<1>2. CASE n \in Entries(WithRename(ren).renames)
  <2>1. \/ n = ren
        \/ \E m \in Entries(window.renames) :
              n.from = m.from /\ n.byUser \in {m.byUser, m.byUser \/ ren.byUser}
    BY <1>2, WithRenameIs DEF TypeOK
  <2>2. CASE n = ren
    BY <2>2
  <2>3. ASSUME NEW m \in Entries(window.renames),
               n.from = m.from, n.byUser \in {m.byUser, m.byUser \/ ren.byUser}
        PROVE  /\ n.byUser <=> ren.byUser
               /\ n.from = ren.from \/ \E o \in Pending : n.from = o.from
    <3>1. m \in Pending
      BY PendingIs
    <3>2. m.byUser \in BOOLEAN /\ ren.byUser \in BOOLEAN /\ (m.byUser <=> ren.byUser)
      BY <3>1, PendingTypes DEF Renaming
    <3> QED
      BY <2>3, <3>1, <3>2
  <2> QED
    BY <2>1, <2>2, <2>3
<1>3. n \in Entries(window'.renames) \/ n \in Pending
  BY PendingIs, PendingNew
<1> QED
  BY <1>1, <1>2, <1>3

LEMMA UserApart ==
    ASSUME "Overlap" \notin Environment, TypeInv, Apart,
           \/ \E p \in Path : Save(p)
           \/ \E p, q \in Path : UserRename(p, q)
           \/ Debounce
    PROVE  Apart'
<1>0. TypeOK /\ Pending \subseteq Renaming /\ \A x \in worker : x.now \subseteq Pin
  BY PendingTypes, WorkerIs DEF TypeInv
<1>1. ASSUME NEW p \in Path, Save(p) PROVE Apart'
  <2>1. window'.renames = window.renames
    BY <1>0, <1>1 DEF Save, TypeOK, Batch
  <2>2. Pending' \subseteq Pending
    BY <1>0, <1>1, <2>1, SamePending DEF Save, loopVars
  <2> QED
    BY <1>0, <1>1, <2>2, FewerPending DEF Save, loopVars, Apart, JobsAreUsers
<1>2. ASSUME NEW p \in Path, NEW q \in Path, UserRename(p, q) PROVE Apart'
  <2> DEFINE ren == [from |-> p, to |-> q, byUser |-> TRUE]
  <2>1. worker = {} /\ \A n \in Pending : n.byUser
    BY <1>2 DEF UserRename
  <2>2. ren \in Renaming
    BY DEF Renaming
  <2>3. \A n \in Pending' : n.byUser
    BY <1>0, <1>2, <2>1, <2>2, OneMorePending DEF UserRename, loopVars
  <2>4. pins' = pins /\ job' = job /\ worker' = {}
    BY <1>2, <2>1 DEF UserRename, loopVars
  <2> QED
    BY <2>3, <2>4 DEF Apart, Mirrored, OneSide, Forgotten, JobsAreUsers
<1>3. CASE Debounce
  <2>1. Entries(inbox') \subseteq Entries(inbox) \cup {window}
    BY <1>0, <1>3 DEF Debounce, TypeOK, Entries
  <2>2. Entries(window'.renames) = {}
    BY <1>3 DEF Debounce, NoEvents, Entries
  <2>3. batch' = batch /\ job' = job /\ pins' = pins /\ worker' = worker
    BY <1>3 DEF Debounce
  <2>4. Pending' \subseteq Pending
    BY <2>1, <2>2, <2>3, PendingIs, PendingNew
  <2> QED
    BY <1>0, <2>3, <2>4, FewerPending DEF Apart, JobsAreUsers
<1> QED
  BY <1>1, <1>2, <1>3

LEMMA TakeApart ==
    ASSUME TypeInv, Apart, TakeBatch \/ TakeRename \/ \E p \in Path : TakeChange(p)
    PROVE  Apart'
<1>0. TypeOK /\ Pending \subseteq Renaming /\ (\A x \in worker : x.now \subseteq Pin)
      /\ pins' = pins /\ worker' = worker /\ window' = window
  BY PendingTypes, WorkerIs DEF TypeInv, TakeBatch, TakeRename, TakeChange
<1>1. CASE TakeBatch
  <2>1. Head(inbox) \in Entries(inbox) /\ Entries(Tail(inbox)) \subseteq Entries(inbox)
    BY <1>0, <1>1 DEF TakeBatch, TypeOK, Entries
  <2>2. Pending' \subseteq Pending
    BY <1>0, <1>1, <2>1, PendingIs, PendingNew DEF TakeBatch
  <2> QED
    BY <1>0, <1>1, <2>2, FewerPending DEF TakeBatch, Apart, JobsAreUsers
<1>2. CASE TakeRename
  <2> DEFINE ren == Head(batch.renames)
  <2>1. batch.renames \in Seq(Renaming) /\ batch.renames # <<>>
    BY <1>0, <1>2 DEF TakeRename, TypeOK, Batch
  <2>2. ren \in Entries(batch.renames)
        /\ Entries(Tail(batch.renames)) \subseteq Entries(batch.renames)
    BY <2>1 DEF Entries
  <2>3. batch'.renames = Tail(batch.renames) /\ inbox' = inbox
    BY <1>0, <1>2 DEF TakeRename, TypeOK, Batch
  <2>4. ren \in Pending /\ ren \in Renaming
    BY <1>0, <2>2, PendingIs
  <2> HIDE DEF ren
  <2>5. \A j \in job' : /\ j.ren = ren /\ j.step \in {"move", "rename"}
                        /\ RemotesOf(ren.from) # {}
    BY <1>2 DEF TakeRename, ren
  <2>6. Pending' \subseteq Pending
    BY <1>0, <2>2, <2>3, <2>4, <2>5, PendingIs, PendingNew
  <2>7. RemotesOf(ren.from) # {} => pins[ren.from] # None
    BY DEF Apart, Mirrored, RemotesOf
  <2>8. JobsAreUsers'
    BY <2>4, <2>5, <2>7 DEF Apart, Forgotten, JobsAreUsers
  <2> QED
    BY <1>0, <2>6, <2>8, FewerPending
<1>3. ASSUME NEW p \in Path, TakeChange(p) PROVE Apart'
  <2>1. batch'.renames = batch.renames /\ inbox' = inbox
    BY <1>0, <1>3 DEF TakeChange, TypeOK, Batch
  <2>2. \A j \in job' : j.step = "upload"
    BY <1>3 DEF TakeChange
  <2>3. Pending' \subseteq Pending
    BY <1>0, <2>1, <2>2, PendingIs, PendingNew
  <2> QED
    BY <1>0, <2>2, <2>3, FewerPending DEF JobsAreUsers
<1> QED
  BY <1>1, <1>2, <1>3

LEMMA JobStepApart ==
    ASSUME TypeInv, Apart, NEW j \in job, ~failed',
           \/ Move(j) \/ RenameNode(j) \/ CallFails(j) \/ Rekey(j) \/ KeepRemote(j)
           \/ Upload(j) \/ UploadFails(j) \/ MarkSynced(j)
    PROVE  Apart'
<1>0. TypeOK /\ Pending \subseteq Renaming /\ (\A x \in worker : x.now \subseteq Pin)
      /\ window' = window /\ batch' = batch /\ inbox' = inbox /\ worker' = worker
      /\ pins \in [Path -> Row \cup {None}] /\ JobsAreUsers
  BY PendingTypes, WorkerIs DEF TypeInv, TypeOK, Apart, Move, RenameNode, CallFails, Rekey,
     KeepRemote, Upload, UploadFails, MarkSynced
<1>1. ASSUME \A k \in job' : \/ k.step \in {"upload", "mark"}
                             \/ /\ k.step \notin {"keep", "upload", "mark"} /\ k.ren = j.ren
                                /\ j.step \notin {"upload", "mark"}
      PROVE  Pending' \subseteq Pending /\ JobsAreUsers'
  BY <1>0, <1>1, PendingIs, PendingNew DEF JobsAreUsers
<1>a. j.step \notin {"upload", "mark"} =>
        /\ j \in [step : {"move", "rename", "rekey", "keep"}, remote : Path,
                  ren : Renaming, at : Path]
        /\ j.ren.to \in Path /\ j.remote \in Path
  BY <1>0, JobTypes DEF Renaming
<1>2. CASE Move(j) \/ RenameNode(j)
  <2>1. \A k \in job' : k.step \in {"rename", "rekey"} /\ k.ren = j.ren
    <3>1. \A q : /\ [j EXCEPT !.step = "rename", !.at = q].step = "rename"
                 /\ [j EXCEPT !.step = "rename", !.at = q].ren = j.ren
      BY <1>2, <1>a DEF Move, RenameNode
    <3>2. [j EXCEPT !.step = "rekey"].step = "rekey" /\ [j EXCEPT !.step = "rekey"].ren = j.ren
      BY <1>2, <1>a DEF Move, RenameNode
    <3>3. \A k \in job' : \/ k = [j EXCEPT !.step = "rekey"]
                           \/ \E q : k = [j EXCEPT !.step = "rename", !.at = q]
      BY <1>2 DEF Move, RenameNode
    <3> TAKE k \in job'
    <3>4. CASE k = [j EXCEPT !.step = "rekey"]
      BY <3>2, <3>4
    <3>5. ASSUME NEW q, k = [j EXCEPT !.step = "rename", !.at = q]
          PROVE  k.step = "rename" /\ k.ren = j.ren
      BY <3>1, <3>5
    <3> QED
      BY <3>3, <3>4, <3>5
  <2>2. pins' = pins /\ j.step \in {"move", "rename"}
    BY <1>2 DEF Move, RenameNode
  <2> QED
    BY <1>0, <1>1, <2>1, <2>2, FewerPending
<1>3. CASE Upload(j)
  <2>1. j.step = "upload"
    BY <1>3 DEF Upload
  <2>2. \A k \in job' : k.step = "mark"
    BY <1>0, <1>3, <2>1, JobTypes DEF Upload
  <2> QED
    BY <1>0, <1>1, <1>3, <2>2, FewerPending DEF Upload
<1>4. CASE MarkSynced(j)
  <2>1. job' = {} /\ j.remote \in Path
    BY <1>0, <1>4, JobTypes DEF MarkSynced
  <2>2. \A p \in Path : /\ pins'[p] = None <=> pins[p] = None
                        /\ pins'[p] # None => pins'[p].local = pins[p].local
    <3>1. CASE pins[j.remote] = None
      BY <1>4, <3>1 DEF MarkSynced
    <3>2. CASE pins[j.remote] # None
      <4>1. pins[j.remote] \in Row
        BY <1>0, <2>1, <3>2
      <4>2. /\ [pins[j.remote] EXCEPT !.synced = j.seen].local = pins[j.remote].local
            /\ [pins[j.remote] EXCEPT !.synced = j.seen] # None
        <5>1. j.seen \in Content
          BY <1>0, <1>4, JobTypes DEF MarkSynced
        <5>2. [pins[j.remote] EXCEPT !.synced = j.seen] \in Row
          BY <4>1, <5>1 DEF Row
        <5> QED
          BY <4>1, <5>2, NotNone DEF Row
      <4>3. pins' = [pins EXCEPT ![j.remote] = [pins[j.remote] EXCEPT !.synced = j.seen]]
        BY <1>4, <3>2 DEF MarkSynced
      <4> QED
        BY <1>0, <2>1, <3>2, <4>2, <4>3
    <3> QED
      BY <3>1, <3>2
  <2> QED
    BY <1>0, <1>1, <2>1, <2>2, FewerPending
<1>5. CASE Rekey(j)
  <2>1. j.step = "rekey" /\ job' = {} /\ pins' = Rekeyed(j.remote, j.ren.to, j.ren.to)
    BY <1>5 DEF Rekey
  <2>2. j.ren \in Pending /\ j.ren.byUser
    BY <1>0, <2>1, PendingIs DEF JobsAreUsers
  <2>3. (\A n \in Pending : n.byUser) /\ worker = {}
    BY <2>2 DEF Apart, OneSide, WorkerApart
  <2>4. Pending' \subseteq Pending
    BY <1>1, <2>1
  <2>5. Mirrored'
    <3>1. j.remote \in Path /\ j.ren.to \in Path
      BY <1>a, <2>1
    <3> QED
      BY <1>0, <2>1, <3>1 DEF Rekeyed, Row, Apart, Mirrored
  <2> QED
    BY <1>0, <2>1, <2>3, <2>4, <2>5 DEF Apart, OneSide, Forgotten, JobsAreUsers
<1>6. ~CallFails(j) /\ ~UploadFails(j) /\ ~KeepRemote(j)
  BY <1>0 DEF CallFails, UploadFails, KeepRemote, JobsAreUsers
<1> QED
  BY <1>2, <1>3, <1>4, <1>5, <1>6
LEMMA WorkerRenameApart ==
    ASSUME {"Overlap", "Undo"} \cap Environment = {}, TypeInv, Apart,
           NEW old, NEW new, Shape(old, new), WorkerRename(old, new)
    PROVE  Apart'
<1>0. pins' = pins /\ job' = job /\ window' = window /\ batch' = batch /\ inbox' = inbox
  BY DEF WorkerRename, loopVars
<1>1. \A n \in Pending : ~n.byUser /\ ~Under(n.from, new)
  BY DEF WorkerRename
<1>2. Pending' = Pending
  BY <1>0, PendingIs, PendingNew
<1>3. old # new
  BY DEF WorkerRename
<1>4. \A x \in worker' : x.old = old /\ x.new = new /\ x.todo = {} /\ x.now = {}
  BY DEF WorkerRename
<1>5. \A x \in worker' : WorkerApart(x)'
  BY <1>1, <1>2, <1>3, <1>4 DEF WorkerApart
<1> QED
  BY <1>0, <1>2, <1>5 DEF Apart, Mirrored, OneSide, Forgotten, JobsAreUsers

LEMMA WorkerStepApart ==
    ASSUME TypeInv, Apart, WorkerStep, ~failed'
    PROVE  Apart'
<1>0. /\ TypeOK /\ Pending \subseteq Renaming /\ pins \in [Path -> Row \cup {None}]
      /\ Mirrored /\ Forgotten /\ OneSide /\ JobsAreUsers
  BY PendingTypes DEF TypeInv, TypeOK, Apart
<1>1. ASSUME NEW x \in worker, WorkerSelect(x) PROVE Apart'
  <2> DEFINE todo == {[remote |-> r, local |-> pins[r].local] :
                        r \in {p \in Path : Under(p, x.old) /\ pins[p] # None}}
  <2>1. \A t \in todo : t.local = t.remote /\ Under(t.remote, x.old)
    BY <1>0 DEF Mirrored
  <2>2. todo \in SUBSET Pin /\ Continue(x, todo)
    BY <1>0, <1>1 DEF WorkerSelect, Pin, Row
  <2>3. pins' = pins /\ job' = job /\ window' = window /\ batch' = batch /\ inbox' = inbox
    BY <1>1 DEF WorkerSelect, loopVars
  <2>4. Pending' = Pending
    BY <2>3, PendingIs, PendingNew
  <2> HIDE DEF todo
  <2>5. \A y \in worker' : y.old = x.old /\ y.new = x.new /\ y.todo = todo /\ y.now = {}
    BY <2>1, <2>2, ContinueIs
  <2>6. \A y \in worker' : WorkerApart(y)'
    BY <2>1, <2>3, <2>4, <2>5 DEF Apart, WorkerApart
  <2> QED
    BY <1>0, <2>3, <2>4, <2>6 DEF Apart, Mirrored, OneSide, Forgotten, JobsAreUsers
<1>2. ASSUME NEW x \in worker, NEW t \in x.todo, WorkerRekey(x, t) PROVE Apart'
  <2> DEFINE q == Image(t.remote, x.old, x.new)
  <2>1. q \in Path /\ t.remote \in Path /\ Under(q, x.new) /\ WorkerApart(x)
    BY WorkerIs DEF Apart
  <2>2. t.remote # q
    BY <2>1, WorkerIs, FolderIsNoPath DEF WorkerApart, Shape, Under
  <2>3. pins' = Rekeyed(t.remote, q, q)
    BY <1>2 DEF WorkerRekey
  <2>4. job' = job /\ window' = window /\ batch' = batch /\ inbox' = inbox
    BY <1>2 DEF WorkerRekey, loopVars
  <2>5. Pending' = Pending
    BY <2>4, PendingIs, PendingNew
  <2> HIDE DEF q
  <2>6. Mirrored'
    BY <1>0, <2>1, <2>3 DEF Rekeyed, Row, Mirrored
  <2>7. \A p \in Path \ {q} : pins[p] = None => pins'[p] = None
    BY <1>0, <2>1, <2>3 DEF Rekeyed
  <2>8. Forgotten'
    <3>1. \A n \in Pending : n.from \in Path /\ n.from # q
      BY <1>0, <2>1 DEF WorkerApart, Renaming
    <3> QED
      BY <1>0, <2>5, <2>7, <3>1 DEF Forgotten
  <2>9. worker' # {} => pins'[t.remote] = None
    <3>1. pins[t.remote] = None \/ pins[q] = None \/ worker' = {}
      BY <1>2 DEF WorkerRekey, q
    <3> QED
      BY <1>0, <2>1, <2>2, <2>3, <3>1 DEF Rekeyed
  <2>10. \A y \in worker' : WorkerApart(y)'
    BY <1>2, <2>1, <2>5, <2>9, RekeyingIs DEF WorkerApart
  <2> QED
    BY <1>0, <2>4, <2>5, <2>6, <2>8, <2>10 DEF Apart, OneSide, JobsAreUsers
<1>3. ASSUME NEW x \in worker, NEW t \in x.now, WorkerMove(x, t) PROVE Apart'
  <2> DEFINE q == Image(t.remote, x.old, x.new)
             ren == [from |-> t.local, to |-> q, byUser |-> FALSE]
  <2>1. /\ q \in Path /\ t.remote \in Path /\ t.local = t.remote /\ pins[t.remote] = None
        /\ WorkerApart(x) /\ ~Under(t.remote, x.new)
    <3>1. q \in Path /\ t.remote \in Path /\ WorkerApart(x)
      BY WorkerIs DEF Apart
    <3>2. ~Under(t.remote, x.new)
      BY <3>1, WorkerIs, FolderIsNoPath DEF WorkerApart, Shape, Under
    <3> QED
      BY <3>1, <3>2 DEF WorkerApart
  <2>2. ren \in Renaming
    BY <2>1 DEF Renaming
  <2>3. pins' = pins /\ job' = job /\ batch' = batch /\ inbox' = inbox /\ Continue(x, x.todo)
    BY <1>3 DEF WorkerMove, loopVars
  <2>4. window' = window \/ window' = WithRename(ren)
    BY <1>3 DEF WorkerMove
  <2>5. \A n \in Pending' : /\ ~n.byUser
                            /\ n.from = t.remote \/ \E m \in Pending : n.from = m.from
    <3>1. \A n \in Pending : ~n.byUser /\ ~ren.byUser
      BY <2>1 DEF WorkerApart
    <3>2. CASE window' = window
      <4>1. Pending' = Pending
        BY <2>3, <3>2, PendingIs, PendingNew
      <4> QED
        BY <3>1, <4>1
    <3>3. CASE window' = WithRename(ren)
      <4>1. ren.from = t.remote /\ ~ren.byUser
        BY <2>1
      <4> HIDE DEF ren
      <4>2. \A n \in Pending : n.byUser <=> ren.byUser
        BY <3>1, <4>1
      <4>3. \A n \in Pending' :
              /\ n.byUser <=> ren.byUser
              /\ n.from = ren.from \/ \E m \in Pending : n.from = m.from
        BY <1>0, <2>2, <2>3, <3>3, <4>2, OneMorePending
      <4> QED
        BY <4>1, <4>3
    <3> QED
      BY <2>4, <3>2, <3>3
  <2>6. \A n \in Pending' : pins[n.from] = None /\ ~Under(n.from, x.new)
    BY <1>0, <2>1, <2>5 DEF Forgotten, WorkerApart
  <2>7. \A y \in worker' : y.old = x.old /\ y.new = x.new /\ y.todo = x.todo /\ y.now = {}
    BY <2>3, WorkerIs, ContinueIs
  <2>8. \A y \in worker' : WorkerApart(y)'
    BY <2>1, <2>5, <2>6, <2>7 DEF WorkerApart
  <2> QED
    BY <1>0, <2>3, <2>5, <2>6, <2>8 DEF Apart, Mirrored, OneSide, Forgotten, JobsAreUsers
<1>4. ASSUME NEW x \in worker, NEW t \in x.now, WorkerMoveFails(x, t) PROVE Apart'
  BY <1>4 DEF WorkerMoveFails
<1> QED
  BY <1>1, <1>2, <1>3, <1>4 DEF WorkerStep

LEMMA ApartNext ==
    ASSUME {"Overlap", "Undo"} \cap Environment = {}, ApartInv, [Next]_vars
    PROVE  ApartInv'
<1>1. TypeInv /\ TypeInv'
  BY NextTypes DEF ApartInv
<1> SUFFICES ASSUME ~failed' PROVE Apart'
  BY <1>1 DEF ApartInv
<1>2. CASE ~failed
  <2>0. Apart
    BY <1>2 DEF ApartInv
  <2>1. CASE \/ \E p \in Path : Save(p)
             \/ \E p, q \in Path : UserRename(p, q)
             \/ Debounce
    BY <1>1, <2>0, <2>1, UserApart
  <2>2. ASSUME NEW p \in Path, NEW q \in Path, WorkerRename(p, q) PROVE Apart'
    <3>1. Shape(p, q)
      BY DEF Shape
    <3> QED
      BY <1>1, <2>0, <2>2, <3>1, WorkerRenameApart
  <2>3. ASSUME NEW p \in Path, NEW q \in Path, WorkerHalfRename(p, q) PROVE Apart'
    BY <2>3 DEF WorkerHalfRename
  <2>4. ASSUME NEW d \in Dir, NEW e \in Dir, WorkerRename(d, e) PROVE Apart'
    <3>1. Shape(d, e)
      BY DEF Shape
    <3> QED
      BY <1>1, <2>0, <2>4, <3>1, WorkerRenameApart
  <2>5. CASE LoopStep
    BY <1>1, <2>0, <2>5, TakeApart, JobStepApart DEF LoopStep
  <2>6. CASE WorkerStep
    BY <1>1, <2>0, <2>6, WorkerStepApart
  <2>7. CASE UNCHANGED vars
    <3>1. /\ pins' = pins /\ job' = job /\ window' = window /\ batch' = batch
          /\ inbox' = inbox /\ worker' = worker
      BY <2>7 DEF vars, loopVars
    <3>2. Pending' = Pending
      BY <3>1, PendingIs, PendingNew
    <3> QED
      BY <2>0, <3>1, <3>2 DEF Apart, Mirrored, OneSide, Forgotten, JobsAreUsers, WorkerApart
  <2> QED
    BY <2>1, <2>2, <2>3, <2>4, <2>5, <2>6, <2>7 DEF Next
<1>3. CASE failed
  <2>1. failed'
    BY <1>3 DEF Next, LoopStep, WorkerStep, Save, UserRename, WorkerRename, WorkerHalfRename,
       Debounce, TakeBatch, TakeRename, TakeChange, Move, RenameNode, CallFails, Rekey,
       KeepRemote, Upload, UploadFails, MarkSynced, WorkerSelect, WorkerRekey, WorkerMove,
       WorkerMoveFails, vars
  <2> QED
    BY <2>1
<1> QED
  BY <1>1, <1>2, <1>3 DEF ApartInv, TypeInv, TypeOK

\* The daemon makes no rename on Drive for one the worker has made, as long as
\* user and worker do not rename at the same time, the worker does not rename
\* a file back before the daemon has seen the first rename, and no call has
\* failed.
THEOREM LeavesAlone ==
    ASSUME {"Overlap", "Undo"} \cap Environment = {}
    PROVE  Spec => []LeavesWorkerRenamesAlone
<1>1. ApartInv => LeavesWorkerRenamesAlone
  BY DEF ApartInv, Apart, JobsAreUsers, LeavesWorkerRenamesAlone
<1>2. ApartInv /\ [Next]_vars => ApartInv'
  BY ApartNext
<1> QED
  BY <1>1, <1>2, ApartInit, PTL DEF Spec

-----------------------------------------------------------------------------
(***************************************************************************)
(* Renames of a batch.                                                     *)
(***************************************************************************)

LEMMA ShiftedIs ==
    ASSUME NEW v \in View, NEW p \in Path, NEW q \in Path
    PROVE  /\ Shifted(v, p, q) \in View
           /\ Shifted(v, p, q)[q] = v[p]
           /\ p # q => Shifted(v, p, q)[p] = {}
           /\ \A x \in Path \ {p, q} : Shifted(v, p, q)[x] = v[x]
BY DEF View, Shifted

LEMMA LeadsNowhere ==
    ASSUME NEW v \in View, NEW w \in View
    PROVE  Leads(v, <<>>, w) <=> v = w
<1>1. Leads(v, <<>>, w) <=> \A p \in Path : w[p] = v[p]
  BY DEF Leads
<1> QED
  BY <1>1 DEF View

\* The first rename of a batch, made on its own: it finds its file, and if
\* its new path is free the others lead on from there.
LEMMA LeadsOn ==
    ASSUME NEW v \in View, NEW w \in View, NEW s \in Seq(Renaming), s # <<>>,
           Leads(v, s, w)
    PROVE  /\ v[Head(s).from] # {}
           /\ v[Head(s).to] = {} => Leads(Shifted(v, Head(s).from, Head(s).to), Tail(s), w)
<1> DEFINE p == Head(s).from
           q == Head(s).to
           t == Tail(s)
           u == Shifted(v, p, q)
<1>1. /\ 1 \in DOMAIN s /\ Head(s) = s[1] /\ p \in Path /\ q \in Path
      /\ \A i \in DOMAIN t : i + 1 \in DOMAIN s /\ t[i] = s[i + 1] /\ i + 1 # 1 /\ t[i] \in Renaming
      /\ \A i \in DOMAIN s : i # 1 => i - 1 \in DOMAIN t /\ s[i] = t[i - 1]
      /\ \A i \in DOMAIN s : s[i].from \in Path /\ s[i].to \in Path
  <2>1. Len(s) \in Nat \ {0} /\ DOMAIN s = 1 .. Len(s) /\ Head(s) = s[1]
    OBVIOUS
  <2>2. t \in Seq(Renaming) /\ Len(t) = Len(s) - 1 /\ DOMAIN t = 1 .. Len(s) - 1
    OBVIOUS
  <2>3. \A i \in 1 .. Len(s) - 1 : t[i] = s[i + 1]
    OBVIOUS
  <2>4. \A i \in DOMAIN s : s[i] \in Renaming
    OBVIOUS
  <2>5. \A i \in DOMAIN s : s[i].from \in Path /\ s[i].to \in Path
    BY <2>4 DEF Renaming
  <2> HIDE DEF t
  <2>6. \A i \in DOMAIN t : i + 1 \in DOMAIN s /\ t[i] = s[i + 1] /\ i + 1 # 1 /\ t[i] \in Renaming
    BY <2>1, <2>2, <2>3, <2>4
  <2>7. \A i \in DOMAIN s : i # 1 => i - 1 \in DOMAIN t /\ s[i] = t[i - 1]
    BY <2>1, <2>2, <2>3
  <2> QED
    BY <2>1, <2>5, <2>6, <2>7
<1>2. v[p] # {}
  BY <1>1 DEF Leads
<1>3. ASSUME v[q] = {} PROVE Leads(u, t, w)
  <2>1. /\ u[q] = v[p] /\ u[p] = {} /\ p # q
        /\ \A x \in Path \ {p, q} : u[x] = v[x]
    <3>1. p # q
      BY <1>2, <1>3
    <3> QED
      BY <1>1, <3>1, ShiftedIs
  <2> HIDE DEF u
  <2>2. \A i, j \in DOMAIN t : i # j => t[i].from # t[j].from /\ t[i].to # t[j].to
    BY <1>1 DEF Leads
  <2>3. ASSUME NEW i \in DOMAIN t PROVE t[i].from \notin {p, q} /\ t[i].to # q
    BY <1>1, <1>3 DEF Leads
  <2>4. ASSUME NEW i \in DOMAIN t
        PROVE  /\ u[t[i].from] # {} /\ w[t[i].to] = u[t[i].from]
               /\ u[t[i].to] # {} => \E j \in DOMAIN t : t[j].from = t[i].to
    <3>1. u[t[i].from] = v[t[i].from] /\ v[t[i].from] # {} /\ w[t[i].to] = v[t[i].from]
      BY <1>1, <2>1, <2>3 DEF Leads, Renaming
    <3>2. ASSUME u[t[i].to] # {} PROVE \E j \in DOMAIN t : t[j].from = t[i].to
      <4>1. t[i].to \in Path \ {p, q}
        BY <1>1, <2>1, <2>3, <3>2 DEF Renaming
      <4>2. i + 1 \in DOMAIN s /\ s[i + 1].to = t[i].to /\ v[s[i + 1].to] # {}
        BY <1>1, <2>1, <3>2, <4>1
      <4>3. PICK j \in DOMAIN s : s[j].from = t[i].to
        BY <1>1, <4>2 DEF Leads
      <4>4. j # 1
        BY <1>1, <4>1, <4>3
      <4> QED
        BY <1>1, <4>3, <4>4
    <3> QED
      BY <3>1, <3>2
  <2>5. ASSUME NEW x \in Path, \A i \in DOMAIN t : t[i].to # x
        PROVE  w[x] = IF \E i \in DOMAIN t : t[i].from = x THEN {} ELSE u[x]
    <3>1. CASE x = q
      BY <1>1, <2>1, <2>3, <3>1 DEF Leads
    <3>2. CASE x # q
      <4>1. \A i \in DOMAIN s : s[i].to # x
        BY <1>1, <2>5, <3>2
      <4>2. w[x] = IF \E i \in DOMAIN s : s[i].from = x THEN {} ELSE v[x]
        BY <4>1 DEF Leads
      <4>3. CASE x = p
        BY <1>1, <2>1, <4>2, <4>3
      <4>4. CASE x # p
        <5>1. (\E i \in DOMAIN s : s[i].from = x) <=> (\E i \in DOMAIN t : t[i].from = x)
          BY <1>1, <4>4
        <5> QED
          BY <2>1, <3>2, <4>2, <4>4, <5>1
      <4> QED
        BY <4>3, <4>4
    <3> QED
      BY <3>1, <3>2
  <2> QED
    BY <2>2, <2>4, <2>5 DEF Leads
<1> QED
  BY <1>2, <1>3

\* The debouncer's merge: the renames in the window still lead to the cache
\* directory once the file at p is at q.
LEMMA LeadsFurther ==
    ASSUME window \in Batch, NEW ren \in Renaming, NEW v \in View, NEW w \in View,
           Leads(v, window.renames, w), w[ren.from] # {}, w[ren.to] = {}
    PROVE  Leads(v, WithRename(ren).renames, Shifted(w, ren.from, ren.to))
<1> DEFINE p == ren.from
           q == ren.to
           s == window.renames
           follows == {i \in DOMAIN s : s[i].to = p}
           u == Shifted(w, p, q)
<1>1. /\ p \in Path /\ q \in Path /\ p # q
      /\ u[q] = w[p] /\ u[p] = {} /\ \A x \in Path \ {p, q} : u[x] = w[x]
  BY ShiftedIs DEF Renaming
<1>2. /\ s \in Seq(Renaming)
      /\ \A i \in DOMAIN s : s[i] \in Renaming /\ s[i].from \in Path /\ s[i].to \in Path
  <2>1. s \in Seq(Renaming)
    BY DEF Batch
  <2>2. \A i \in DOMAIN s : s[i] \in Renaming
    BY <2>1
  <2> QED
    BY <2>1, <2>2 DEF Renaming
<1>3. \A i \in DOMAIN s : s[i].to # q
  BY <1>2 DEF Leads
<1>4. v[q] # {} => \E i \in DOMAIN s : s[i].from = q
  BY <1>1, <1>3 DEF Leads
<1>5. CASE follows = {}
  <2>1. WithRename(ren).renames = Append(s, ren)
    BY <1>5 DEF WithRename
  <2> DEFINE n == Len(s) + 1
             t == Append(s, ren)
  <2>2. /\ DOMAIN t = DOMAIN s \cup {n} /\ n \notin DOMAIN s
        /\ \A i \in DOMAIN s : t[i] = s[i]
        /\ t[n] = ren
    BY <1>2
  <2>3. v[p] = w[p] /\ \A i \in DOMAIN s : s[i].from # p /\ s[i].to # p
    BY <1>1, <1>5 DEF Leads
  <2> HIDE DEF t, u, n
  <2>4. \A i, j \in DOMAIN t : i # j => t[i].from # t[j].from /\ t[i].to # t[j].to
    BY <1>3, <2>2, <2>3 DEF Leads
  <2>5. ASSUME NEW i \in DOMAIN t
        PROVE  /\ v[t[i].from] # {} /\ u[t[i].to] = v[t[i].from]
               /\ v[t[i].to] # {} => \E j \in DOMAIN t : t[j].from = t[i].to
    <3>1. CASE i = n
      BY <1>1, <1>4, <2>2, <2>3, <3>1
    <3>2. CASE i \in DOMAIN s
      <4>1. u[s[i].to] = w[s[i].to]
        BY <1>1, <1>2, <1>3, <2>3, <3>2
      <4>2. /\ v[s[i].from] # {} /\ w[s[i].to] = v[s[i].from]
            /\ v[s[i].to] # {} => \E j \in DOMAIN s : s[j].from = s[i].to
        BY <3>2 DEF Leads
      <4> QED
        BY <2>2, <3>2, <4>1, <4>2
    <3> QED
      BY <2>2, <3>1, <3>2
  <2>6. ASSUME NEW x \in Path, \A i \in DOMAIN t : t[i].to # x
        PROVE  u[x] = IF \E i \in DOMAIN t : t[i].from = x THEN {} ELSE v[x]
    <3>1. x # q /\ \A i \in DOMAIN s : s[i].to # x
      BY <2>2, <2>6
    <3>2. CASE x = p
      BY <1>1, <2>2, <3>2
    <3>3. CASE x # p
      <4>1. (\E i \in DOMAIN t : t[i].from = x) <=> (\E i \in DOMAIN s : s[i].from = x)
        BY <2>2, <3>3
      <4> QED
        BY <1>1, <3>1, <3>3, <4>1 DEF Leads
    <3> QED
      BY <3>2, <3>3
  <2>7. Leads(v, t, u)
    BY <2>4, <2>5, <2>6 DEF Leads
  <2> QED
    BY <2>1, <2>7 DEF t, u
<1>6. CASE follows # {}
  <2> DEFINE t == [i \in DOMAIN s |->
                     IF i \in follows
                     THEN [s[i] EXCEPT !.to = q, !.byUser = @ \/ ren.byUser]
                     ELSE s[i]]
  <2>1. WithRename(ren).renames = t
    BY <1>6 DEF WithRename
  <2>2. PICK k \in DOMAIN s : s[k].to = p /\ \A i \in DOMAIN s : i # k => s[i].to # p
    BY <1>6 DEF Leads
  <2>3. /\ DOMAIN t = DOMAIN s
        /\ \A i \in DOMAIN s : t[i].from = s[i].from
        /\ t[k].to = q /\ \A i \in DOMAIN s : i # k => t[i].to = s[i].to
    BY <1>2, <2>2 DEF Renaming
  <2> HIDE DEF t, u
  <2>4. \A i, j \in DOMAIN t : i # j => t[i].from # t[j].from /\ t[i].to # t[j].to
    BY <1>3, <2>2, <2>3 DEF Leads
  <2>5. ASSUME NEW i \in DOMAIN t
        PROVE  /\ v[t[i].from] # {} /\ u[t[i].to] = v[t[i].from]
               /\ v[t[i].to] # {} => \E j \in DOMAIN t : t[j].from = t[i].to
    <3>1. CASE i = k
      BY <1>1, <1>4, <2>2, <2>3, <3>1 DEF Leads
    <3>2. CASE i # k
      <4>1. u[s[i].to] = w[s[i].to]
        BY <1>1, <1>2, <1>3, <2>2, <2>3, <3>2
      <4> QED
        BY <2>3, <3>2, <4>1 DEF Leads
    <3> QED
      BY <3>1, <3>2
  <2>6. ASSUME NEW x \in Path, \A i \in DOMAIN t : t[i].to # x
        PROVE  u[x] = IF \E i \in DOMAIN t : t[i].from = x THEN {} ELSE v[x]
    <3>1. x # q
      BY <2>2, <2>3, <2>6
    <3>2. CASE x = p
      <4>1. v[p] # {} => \E j \in DOMAIN s : s[j].from = p
        BY <2>2 DEF Leads
      <4> QED
        BY <1>1, <2>3, <3>2, <4>1
    <3>3. CASE x # p
      <4>1. \A i \in DOMAIN s : s[i].to # x
        BY <2>2, <2>3, <2>6, <3>3
      <4> QED
        BY <1>1, <2>3, <3>1, <3>3, <4>1 DEF Leads
    <3> QED
      BY <3>2, <3>3
  <2>7. Leads(v, t, u)
    BY <2>4, <2>5, <2>6 DEF Leads
  <2> QED
    BY <2>1, <2>7 DEF u
<1> QED
  BY <1>5, <1>6

-----------------------------------------------------------------------------
(***************************************************************************)
(* Views.                                                                  *)
(***************************************************************************)

LEMMA FileInIs ==
    ASSUME NEW x \in Content \cup {None}
    PROVE  /\ FileIn(x) \in SUBSET Path
           /\ FileIn(x) = {} <=> x = None
           /\ x # None => FileIn(x) = {x.of}
BY DEF FileIn, Content

LEMMA Views ==
    TypeOK =>
        /\ DriveFiles \in View /\ LocalFiles \in View /\ RowFiles \in View
        /\ \A p \in Path : /\ DriveFiles[p] = {} <=> drive[p] = None
                           /\ LocalFiles[p] = {} <=> local[p] = None
                           /\ RowFiles[p] = {} <=> pins[p] = None
                           /\ drive[p] # None => DriveFiles[p] = {drive[p].of}
                           /\ local[p] # None => LocalFiles[p] = {local[p].of}
                           /\ pins[p] # None => RowFiles[p] = {pins[p].synced.of}
<1> SUFFICES ASSUME TypeOK
             PROVE  /\ DriveFiles \in View /\ LocalFiles \in View /\ RowFiles \in View
                    /\ \A p \in Path :
                        /\ DriveFiles[p] = {} <=> drive[p] = None
                        /\ LocalFiles[p] = {} <=> local[p] = None
                        /\ RowFiles[p] = {} <=> pins[p] = None
                        /\ drive[p] # None => DriveFiles[p] = {drive[p].of}
                        /\ local[p] # None => LocalFiles[p] = {local[p].of}
                        /\ pins[p] # None => RowFiles[p] = {pins[p].synced.of}
  OBVIOUS
<1>1. /\ drive \in [Path -> Content \cup {None}] /\ local \in [Path -> Content \cup {None}]
      /\ pins \in [Path -> Row \cup {None}]
  BY DEF TypeOK
<1>2. \A p \in Path : pins[p] # None => pins[p].synced.of \in Path
  BY <1>1 DEF Row, Content
<1>3. DriveFiles \in View /\ LocalFiles \in View
  BY <1>1, FileInIs DEF View, DriveFiles, LocalFiles
<1>4. RowFiles \in View
  BY <1>1, <1>2 DEF View, RowFiles
<1> QED
  BY <1>1, <1>3, <1>4, FileInIs DEF DriveFiles, LocalFiles, RowFiles

LEMMA JobKinds ==
    TypeOK =>
        /\ job = RenameJobs \cup SaveJobs
        /\ \A j \in RenameJobs :
            /\ j \in [step : {"move", "rename", "rekey", "keep"}, remote : Path,
                      ren : Renaming, at : Path]
            /\ j.step \in {"move", "rename", "rekey", "keep"}
            /\ j.remote \in Path /\ j.at \in Path /\ j.ren \in Renaming
            /\ j.ren.from \in Path /\ j.ren.to \in Path
        /\ \A j \in SaveJobs :
            /\ j \in [step : {"upload", "mark"}, remote : Path, path : Path, seen : Content]
            /\ j.step \in {"upload", "mark"}
            /\ j.remote \in Path /\ j.path \in Path /\ j.seen \in Content
        /\ \A j, k \in job : j = k
<1> SUFFICES ASSUME TypeOK
             PROVE  /\ job = RenameJobs \cup SaveJobs
                    /\ \A j \in RenameJobs :
                        /\ j \in [step : {"move", "rename", "rekey", "keep"},
                                  remote : Path, ren : Renaming, at : Path]
                        /\ j.step \in {"move", "rename", "rekey", "keep"}
                        /\ j.remote \in Path /\ j.at \in Path /\ j.ren \in Renaming
                        /\ j.ren.from \in Path /\ j.ren.to \in Path
                    /\ \A j \in SaveJobs :
                        /\ j \in [step : {"upload", "mark"}, remote : Path,
                                  path : Path, seen : Content]
                        /\ j.step \in {"upload", "mark"}
                        /\ j.remote \in Path /\ j.path \in Path /\ j.seen \in Content
                    /\ \A j, k \in job : j = k
  OBVIOUS
<1>1. job = RenameJobs \cup SaveJobs
  BY DEF RenameJobs, SaveJobs
<1>2. \A j \in RenameJobs :
         /\ j \in job
         /\ j \in [step : {"move", "rename", "rekey", "keep"}, remote : Path,
                   ren : Renaming, at : Path]
  BY DEF TypeOK, Job, RenameJobs
<1>3. \A j \in SaveJobs :
         j \in [step : {"upload", "mark"}, remote : Path, path : Path, seen : Content]
  BY DEF TypeOK, Job, SaveJobs, RenameJobs
<1>4. \A j, k \in job : j = k
  BY DEF TypeOK, AtMostOne
<1>5. \A j \in RenameJobs : j.ren.from \in Path /\ j.ren.to \in Path
  BY <1>2 DEF Renaming
<1> QED
  BY <1>1, <1>2, <1>3, <1>4, <1>5

LEMMA TargetIs ==
    TypeOK =>
        /\ RenameJobs = {} => Target = RowFiles
        /\ \A j \in RenameJobs : Target = Shifted(RowFiles, j.remote, j.ren.to)
        /\ Target \in View
<1> SUFFICES ASSUME TypeOK
             PROVE  /\ RenameJobs = {} => Target = RowFiles
                    /\ \A j \in RenameJobs : Target = Shifted(RowFiles, j.remote, j.ren.to)
                    /\ Target \in View
  OBVIOUS
<1>1. RenameJobs = {} => Target = RowFiles
  BY DEF Target
<1>2. ASSUME NEW j \in RenameJobs
      PROVE  Target = Shifted(RowFiles, j.remote, j.ren.to) /\ Target \in View
  <2>1. (CHOOSE x \in RenameJobs : TRUE) = j
    BY JobKinds
  <2>2. Target = Shifted(RowFiles, j.remote, j.ren.to)
    BY <2>1 DEF Target
  <2> QED
    BY <2>2, JobKinds, Views, ShiftedIs
<1> QED
  BY <1>1, <1>2, Views

\* While no call has failed a row's two paths are the same.
LEMMA RemotesAre ==
    TypeOK /\ Mirrored =>
        \A p \in Path : RemotesOf(p) = IF pins[p] = None THEN {} ELSE {p}
BY DEF RemotesOf, Mirrored

\* Nothing is pending: every batch is empty and no rename is in hand.
LEMMA NoneLeft ==
    TypeOK /\ Pending = {} =>
        /\ window.renames = <<>> /\ batch.renames = <<>>
        /\ \A k \in DOMAIN inbox : inbox[k].renames = <<>>
        /\ RenameJobs = {}
<1> SUFFICES ASSUME TypeOK, Pending = {}
             PROVE  /\ window.renames = <<>> /\ batch.renames = <<>>
                    /\ \A k \in DOMAIN inbox : inbox[k].renames = <<>>
                    /\ RenameJobs = {}
  OBVIOUS
<1>1. ASSUME NEW b \in Batch, Entries(b.renames) \subseteq Pending PROVE b.renames = <<>>
  <2>1. b.renames \in Seq(Renaming)
    BY DEF Batch
  <2>2. Entries(b.renames) = {}
    BY <1>1
  <2>3. DOMAIN b.renames = {}
    BY <2>2 DEF Entries
  <2>4. Len(b.renames) = 0
    <3>1. ASSUME NEW s \in Seq(Renaming), DOMAIN s = {} PROVE Len(s) = 0
      <4>1. Len(s) \in Nat /\ 1 \notin 1 .. Len(s)
        BY <3>1
      <4> QED
        BY <4>1
    <3> QED
      BY <2>1, <2>3, <3>1
  <2> QED
    BY <2>1, <2>4, EmptySeq
<1>2. window \in Batch /\ batch \in Batch /\ \A k \in DOMAIN inbox : inbox[k] \in Batch
  BY DEF TypeOK
<1>3. \A k \in DOMAIN inbox : inbox[k] \in Entries(inbox)
  BY DEF Entries
<1>4. RenameJobs = {}
  BY PendingIs DEF RenameJobs
<1>5. /\ Entries(window.renames) \subseteq Pending
      /\ Entries(batch.renames) \subseteq Pending
      /\ \A k \in DOMAIN inbox : Entries(inbox[k].renames) \subseteq Pending
  BY <1>3, PendingIs
<1> QED
  BY <1>1, <1>2, <1>4, <1>5

-----------------------------------------------------------------------------
(***************************************************************************)
(* The chain of views from the rows to the cache directory.                *)
(***************************************************************************)

\* Nothing pending: the chain is one view throughout.
LEMMA SettledChain ==
    TypeOK /\ Pending = {} /\ worker = {} /\ DaemonView /\ WorkerView => UserView
<1> SUFFICES ASSUME TypeOK, Pending = {}, worker = {}, DaemonView, WorkerView
             PROVE  \E V \in Seq(View) : Chain(V)
  BY DEF UserView
<1> DEFINE n == Len(inbox) + 1
           V == [k \in 1 .. n |-> LocalFiles]
<1>1. /\ window.renames = <<>> /\ batch.renames = <<>>
      /\ \A k \in DOMAIN inbox : inbox[k].renames = <<>>
      /\ RenameJobs = {}
  BY NoneLeft
<1>2. Target = LocalFiles /\ LocalFiles \in View
  BY <1>1, TargetIs, Views DEF DaemonView, WorkerView
<1>3. inbox \in Seq(Batch) /\ Len(inbox) \in Nat /\ DOMAIN inbox = 1 .. Len(inbox)
  BY DEF TypeOK
<1>4. /\ V \in Seq(View) /\ Len(V) = n /\ n \in Nat /\ n >= 1
      /\ DOMAIN V = 1 .. n /\ \A k \in 1 .. n : V[k] = LocalFiles
  BY <1>2, <1>3
<1> HIDE DEF V
<1>5. Leads(LocalFiles, <<>>, LocalFiles)
  BY <1>2, LeadsNowhere
<1>6. \A k \in DOMAIN inbox : k \in 1 .. n /\ k + 1 \in 1 .. n
  BY <1>3
<1> HIDE DEF n
<1>7. V[1] = LocalFiles /\ V[n] = LocalFiles
      /\ \A k \in DOMAIN inbox : V[k] = LocalFiles /\ V[k + 1] = LocalFiles
  BY <1>4, <1>6
<1>8. Chain(V)
  BY <1>1, <1>2, <1>4, <1>5, <1>7 DEF Chain, Linked, n
<1> QED
  BY <1>4, <1>8

\* Nothing pending: the chain makes the rows, Drive and the cache directory
\* the same.
LEMMA ChainEnds ==
    TypeOK /\ Pending = {} /\ worker = {} /\ DaemonView /\ UserView
        => DriveFiles = LocalFiles /\ RowFiles = LocalFiles
<1> SUFFICES ASSUME TypeOK, Pending = {}, worker = {}, DaemonView, UserView
             PROVE  DriveFiles = LocalFiles /\ RowFiles = LocalFiles
  OBVIOUS
<1>1. /\ window.renames = <<>> /\ batch.renames = <<>>
      /\ \A k \in DOMAIN inbox : inbox[k].renames = <<>>
      /\ RenameJobs = {}
  BY NoneLeft
<1>2. UserSide /\ ~Blocked
  BY <1>1 DEF UserSide, Blocked, RenameJobs
<1>3. PICK V \in Seq(View) : Chain(V)
  BY <1>2 DEF UserView
<1>4. /\ Len(V) = Len(inbox) + 1 /\ Len(inbox) \in Nat
      /\ Leads(Target, <<>>, V[1]) /\ Leads(V[Len(V)], <<>>, LocalFiles)
      /\ \A k \in DOMAIN V : V[k] = V[Len(V)]
  BY <1>1, <1>3 DEF Chain, Linked, TypeOK
<1>5. 1 \in DOMAIN V /\ Len(V) \in DOMAIN V /\ V[1] \in View /\ V[Len(V)] \in View
  BY <1>3, <1>4
<1>6. Target = V[1] /\ V[Len(V)] = LocalFiles
  BY <1>4, <1>5, LeadsNowhere, TargetIs, Views
<1> QED
  BY <1>1, <1>4, <1>5, <1>6, TargetIs DEF DaemonView

LEMMA ChainSame ==
    ASSUME NEW V, Chain(V), inbox' = inbox,
           batch'.renames = batch.renames, window'.renames = window.renames,
           Target' = Target, LocalFiles' = LocalFiles,
           \A p \in Path, k \in DOMAIN V : SentBefore(p, k)' => SentBefore(p, k)
    PROVE  Chain(V)'
BY DEF Chain, Linked

\* The first rename of the batch is taken in hand, and its path is free.
LEMMA ChainTakeRename ==
    ASSUME TypeOK, NEW V, Chain(V), batch.renames # <<>>,
           batch'.renames = Tail(batch.renames), batch'.changed = batch.changed,
           inbox' = inbox, window' = window, LocalFiles' = LocalFiles,
           SaveJobs' = {},
           Target' = Shifted(Target, Head(batch.renames).from, Head(batch.renames).to),
           Target[Head(batch.renames).to] = {}
    PROVE  Chain(V)'
<1>1. batch.renames \in Seq(Renaming) /\ V \in Seq(View) /\ V[1] \in View
  <2>1. V \in Seq(View) /\ Len(V) \in Nat /\ Len(V) >= 1
    BY DEF Chain, Linked, TypeOK
  <2> QED
    BY <2>1 DEF TypeOK, Batch
<1>2. Leads(Target', batch'.renames, V[1])
  BY <1>1, TargetIs, LeadsOn DEF Chain, Linked
<1>3. \A p \in Path, k \in DOMAIN V : SentBefore(p, k)' => SentBefore(p, k)
  BY DEF SentBefore
<1> QED
  BY <1>2, <1>3 DEF Chain, Linked

\* The user renames a file no earlier batch has a save of.
LEMMA ChainUserRename ==
    ASSUME TypeOK, NEW V, Chain(V), NEW ren \in Renaming,
           window' = WithRename(ren), batch' = batch, inbox' = inbox, job' = job,
           Target' = Target,
           LocalFiles[ren.from] # {}, LocalFiles[ren.to] = {},
           LocalFiles' = Shifted(LocalFiles, ren.from, ren.to),
           \A k : ~SentBefore(ren.from, k),
           \A p \in Path, k \in DOMAIN V : SentBefore(p, k) => LocalFiles[p] # {}
    PROVE  Chain(V)'
<1>1. V \in Seq(View) /\ V[Len(V)] \in View
  <2>1. V \in Seq(View) /\ Len(V) \in Nat /\ Len(V) >= 1
    BY DEF Chain, Linked, TypeOK
  <2> QED
    BY <2>1
<1>2. Leads(V[Len(V)], window'.renames, LocalFiles')
  BY <1>1, Views, LeadsFurther DEF Chain, Linked, TypeOK
<1>3. \A p \in Path, k \in DOMAIN V : SentBefore(p, k)' <=> SentBefore(p, k)
  BY DEF SentBefore, SaveJobs, RenameJobs
<1>4. \A p \in Path, k \in DOMAIN V : SentBefore(p, k) => LocalFiles'[p] = LocalFiles[p]
  <2>1. ren.from \in Path /\ ren.to \in Path /\ LocalFiles \in View
    BY Views DEF Renaming
  <2>2. \A x \in Path \ {ren.from, ren.to} :
          Shifted(LocalFiles, ren.from, ren.to)[x] = LocalFiles[x]
    BY <2>1 DEF View, Shifted
  <2> QED
    BY <2>2
<1> QED
  BY <1>2, <1>3, <1>4 DEF Chain, Linked

LEMMA ChainDebounce ==
    ASSUME TypeOK, TypeOK', NEW V, Chain(V), Debounce, Target' = Target
    PROVE  \E W \in Seq(View) : Chain(W)'
<1> DEFINE n == Len(inbox)
<1>0. PICK W \in Seq(View) : W = Append(V, LocalFiles)
  <2>1. V \in Seq(View) /\ LocalFiles \in View
    BY Views DEF Chain, Linked
  <2>2. Append(V, LocalFiles) \in Seq(View)
    BY <2>1
  <2> QED
    BY <2>2
<1>1. /\ inbox' = Append(inbox, window) /\ window'.renames = <<>>
      /\ batch' = batch /\ LocalFiles' = LocalFiles /\ SaveJobs' = SaveJobs
  BY DEF Debounce, NoEvents, LocalFiles, SaveJobs, RenameJobs
<1>2. /\ inbox \in Seq(Batch) /\ window \in Batch /\ n \in Nat
      /\ V \in Seq(View) /\ LocalFiles \in View /\ Len(V) = n + 1
      /\ DOMAIN inbox = 1 .. n /\ DOMAIN V = 1 .. n + 1
  BY Views DEF TypeOK, Chain, Linked
<1>3. /\ Len(inbox') = n + 1 /\ DOMAIN inbox' = 1 .. n + 1
      /\ inbox'[n + 1] = window /\ \A k \in 1 .. n : inbox'[k] = inbox[k]
  BY <1>1, <1>2
<1>4. /\ W \in Seq(View) /\ Len(W) = n + 2 /\ DOMAIN W = 1 .. n + 2
      /\ W[n + 2] = LocalFiles /\ \A k \in 1 .. n + 1 : W[k] = V[k]
  BY <1>0, <1>2
<1> HIDE DEF n
<1>5. Leads(Target', batch'.renames, W[1])
  BY <1>1, <1>2, <1>4 DEF Chain, Linked
<1>6. ASSUME NEW k \in DOMAIN inbox' PROVE Leads(W[k], inbox'[k].renames, W[k + 1])
  <2>1. CASE k \in 1 .. n
    BY <1>2, <1>3, <1>4, <2>1 DEF Chain, Linked
  <2>2. CASE k = n + 1
    BY <1>2, <1>3, <1>4, <2>2 DEF Chain, Linked
  <2> QED
    BY <1>2, <1>3, <2>1, <2>2
<1>7. Leads(W[Len(W)], window'.renames, LocalFiles')
  BY <1>1, <1>2, <1>4, LeadsNowhere
<1>8. ASSUME NEW k \in DOMAIN W
      PROVE  /\ (\A m \in DOMAIN inbox' : m >= k => inbox'[m].renames = <<>>) => W[k] = W[Len(W)]
             /\ \A p \in Path : SentBefore(p, k)' => W[k][p] = LocalFiles'[p]
  <2>1. CASE k = n + 2
    BY <1>1, <1>2, <1>4, <2>1
  <2>2. CASE k \in 1 .. n + 1
    <3>1. ASSUME \A m \in DOMAIN inbox' : m >= k => inbox'[m].renames = <<>>
          PROVE  W[k] = W[Len(W)]
      <4>1. window.renames = <<>>
        BY <1>2, <1>3, <2>2, <3>1
      <4>2. \A m \in DOMAIN inbox : m >= k => inbox[m].renames = <<>>
        BY <1>2, <1>3, <3>1
      <4>3. V[k] = V[n + 1]
        BY <1>2, <2>2, <4>2 DEF Chain, Linked
      <4>4. V[n + 1] = LocalFiles
        <5>1. Leads(V[n + 1], <<>>, LocalFiles) /\ V[n + 1] \in View
          BY <1>2, <4>1 DEF Chain, Linked
        <5> QED
          BY <1>2, <5>1, LeadsNowhere
      <4> QED
        BY <1>2, <1>4, <2>2, <4>3, <4>4
    <3>2. ASSUME NEW p \in Path, SentBefore(p, k)' PROVE W[k][p] = LocalFiles'[p]
      <4>1. SentBefore(p, k)
        <5>1. \A m \in DOMAIN inbox' : m < k => m \in DOMAIN inbox /\ inbox'[m] = inbox[m]
          BY <1>2, <1>3, <2>2
        <5> QED
          BY <1>1, <3>2, <5>1 DEF SentBefore
      <4> QED
        BY <1>1, <1>2, <1>4, <2>2, <4>1 DEF Chain, Linked
    <3> QED
      BY <3>1, <3>2
  <2> QED
    BY <1>2, <1>4, <2>1, <2>2
<1>9. Len(W) = Len(inbox') + 1
  BY <1>2, <1>3, <1>4
<1>10. Chain(W)'
  BY <1>4, <1>5, <1>6, <1>7, <1>8, <1>9 DEF Chain, Linked
<1> QED
  BY <1>4, <1>10

LEMMA ChainTakeBatch ==
    ASSUME TypeOK, TypeOK', NEW V, Chain(V), TakeBatch, Target' = Target
    PROVE  \E W \in Seq(View) : Chain(W)'
<1> DEFINE n == Len(inbox)
<1>1. /\ inbox' = Tail(inbox) /\ batch' = Head(inbox) /\ batch.renames = <<>>
      /\ window' = window /\ LocalFiles' = LocalFiles /\ SaveJobs' = {} /\ inbox # <<>>
  BY DEF TakeBatch, NoEvents, LocalFiles, SaveJobs, RenameJobs
<1>2. /\ inbox \in Seq(Batch) /\ n \in Nat \ {0}
      /\ V \in Seq(View) /\ LocalFiles \in View /\ Len(V) = n + 1
      /\ DOMAIN inbox = 1 .. n /\ DOMAIN V = 1 .. n + 1
  BY <1>1, Views DEF TypeOK, Chain, Linked
<1>0. PICK W \in Seq(View) : W = Tail(V)
  <2>1. V \in Seq(View) /\ V # <<>>
    BY <1>2
  <2>2. Tail(V) \in Seq(View)
    BY <2>1
  <2> QED
    BY <2>2
<1>3. /\ Len(inbox') = n - 1 /\ DOMAIN inbox' = 1 .. n - 1
      /\ batch' = inbox[1] /\ \A k \in 1 .. n - 1 : inbox'[k] = inbox[k + 1]
  BY <1>1, <1>2
<1>4. /\ W \in Seq(View) /\ Len(W) = n /\ DOMAIN W = 1 .. n
      /\ \A k \in 1 .. n : W[k] = V[k + 1]
  BY <1>0, <1>2
<1> HIDE DEF n
<1>5. Leads(Target', batch'.renames, W[1])
  <2>1. Leads(Target, <<>>, V[1]) /\ V[1] \in View
    BY <1>1, <1>2 DEF Chain, Linked
  <2>2. Target = V[1]
    BY <2>1, TargetIs, LeadsNowhere
  <2>3. 1 \in DOMAIN inbox /\ W[1] = V[1 + 1]
    BY <1>2, <1>4
  <2> QED
    BY <1>3, <2>2, <2>3 DEF Chain, Linked
<1>6. ASSUME NEW k \in DOMAIN inbox' PROVE Leads(W[k], inbox'[k].renames, W[k + 1])
  <2>1. /\ k + 1 \in DOMAIN inbox /\ inbox'[k] = inbox[k + 1]
        /\ W[k] = V[k + 1] /\ W[k + 1] = V[(k + 1) + 1]
    BY <1>2, <1>3, <1>4
  <2> QED
    BY <2>1 DEF Chain, Linked
<1>7. W[Len(W)] = V[Len(V)]
  BY <1>2, <1>4
<1>8. ASSUME NEW k \in DOMAIN W
      PROVE  /\ (\A m \in DOMAIN inbox' : m >= k => inbox'[m].renames = <<>>) => W[k] = W[Len(W)]
             /\ \A p \in Path : SentBefore(p, k)' => W[k][p] = LocalFiles'[p]
  <2>1. k \in Nat /\ k + 1 \in DOMAIN V /\ W[k] = V[k + 1]
    BY <1>2, <1>4
  <2>2. ASSUME \A m \in DOMAIN inbox' : m >= k => inbox'[m].renames = <<>>
        PROVE  W[k] = W[Len(W)]
    <3>1. ASSUME NEW m \in DOMAIN inbox, m >= k + 1 PROVE inbox[m].renames = <<>>
      <4>0. m \in 1 .. n /\ k \in 1 .. n /\ n \in Nat
        BY <1>2, <1>4, <3>1
      <4>1. m - 1 \in 1 .. n - 1 /\ m - 1 >= k
        BY <3>1, <4>0
      <4>2. (m - 1) + 1 = m
        BY <4>0
      <4>3. m - 1 \in DOMAIN inbox' /\ inbox'[m - 1] = inbox[(m - 1) + 1]
        BY <1>3, <4>1
      <4> QED
        BY <2>2, <4>1, <4>2, <4>3
    <3> QED
      BY <1>7, <2>1, <3>1 DEF Chain, Linked
  <2>3. ASSUME NEW p \in Path, SentBefore(p, k)' PROVE W[k][p] = LocalFiles'[p]
    <3>1. SentBefore(p, k + 1)
      <4>1. CASE p \in batch'.changed
        <5>1. 1 \in DOMAIN inbox /\ 1 < k + 1
          BY <1>2, <1>4
        <5> QED
          BY <1>3, <4>1, <5>1 DEF SentBefore
      <4>2. ASSUME NEW m \in DOMAIN inbox', m < k, p \in inbox'[m].changed
            PROVE  SentBefore(p, k + 1)
        <5>1. m + 1 \in DOMAIN inbox /\ m + 1 < k + 1 /\ inbox'[m] = inbox[m + 1]
          BY <1>2, <1>3, <2>1, <4>2
        <5> QED
          BY <4>2, <5>1 DEF SentBefore
      <4> QED
        BY <1>1, <2>3, <4>1, <4>2 DEF SentBefore
    <3> QED
      BY <1>1, <2>1, <3>1 DEF Chain, Linked
  <2> QED
    BY <2>2, <2>3
<1>9. Len(W) = Len(inbox') + 1
  BY <1>2, <1>3, <1>4
<1>10. Leads(W[Len(W)], window'.renames, LocalFiles')
  BY <1>1, <1>7 DEF Chain, Linked
<1>11. Chain(W)'
  BY <1>4, <1>5, <1>6, <1>8, <1>9, <1>10 DEF Chain, Linked
<1> QED
  BY <1>4, <1>11

LEMMA SettledChainNext ==
    (TypeOK /\ Pending = {} /\ worker = {} /\ DaemonView /\ WorkerView => UserView)'
BY SettledChain, PTL

-----------------------------------------------------------------------------
(***************************************************************************)
(* What the steps that rename nothing leave as it is.                      *)
(***************************************************************************)

LEMMA ShiftedOnce ==
    ASSUME NEW v \in View, NEW p \in Path, NEW q \in Path, Once(v)
    PROVE  Once(Shifted(v, p, q))
<1> DEFINE w == Shifted(v, p, q)
<1>1. /\ w[q] = v[p]
      /\ p # q => w[p] = {}
      /\ \A x \in Path \ {p, q} : w[x] = v[x]
  BY ShiftedIs
<1> HIDE DEF w
<1>2. \A x \in Path : w[x] # {} => x = q \/ (x # p /\ w[x] = v[x])
  BY <1>1
<1>3. Once(w)
  BY <1>1, <1>2 DEF Once
<1> QED
  BY <1>3 DEF w

LEMMA SameViews ==
    /\ drive' = drive => DriveFiles' = DriveFiles
    /\ local' = local => LocalFiles' = LocalFiles
    /\ pins' = pins => RowFiles' = RowFiles
    /\ job' = job => RenameJobs' = RenameJobs /\ SaveJobs' = SaveJobs
BY DEF DriveFiles, LocalFiles, RowFiles, RenameJobs, SaveJobs

LEMMA ViewsNext ==
    (TypeOK =>
        /\ DriveFiles \in View /\ LocalFiles \in View /\ RowFiles \in View
        /\ \A p \in Path : /\ DriveFiles[p] = {} <=> drive[p] = None
                           /\ LocalFiles[p] = {} <=> local[p] = None
                           /\ RowFiles[p] = {} <=> pins[p] = None
                           /\ drive[p] # None => DriveFiles[p] = {drive[p].of}
                           /\ local[p] # None => LocalFiles[p] = {local[p].of}
                           /\ pins[p] # None => RowFiles[p] = {pins[p].synced.of})'
BY Views, PTL

LEMMA BlockedIs ==
    TypeOK => (Blocked <=> \E j \in RenameJobs :
                  j.step \in {"move", "rename"} /\ DriveFiles[j.ren.to] # {})
<1> SUFFICES ASSUME TypeOK
             PROVE  Blocked <=> \E j \in RenameJobs :
                      j.step \in {"move", "rename"} /\ DriveFiles[j.ren.to] # {}
  OBVIOUS
<1>1. \A j \in job : j.step \in {"move", "rename"} => j \in RenameJobs
  BY DEF RenameJobs
<1>2. \A j \in RenameJobs : j \in job /\ j.ren.to \in Path
  BY JobKinds DEF RenameJobs
<1>3. \A p \in Path : DriveFiles[p] = {} <=> drive[p] = None
  BY Views
<1> QED
  BY <1>1, <1>2, <1>3 DEF Blocked

LEMMA BlockedNext ==
    (TypeOK => (Blocked <=> \E j \in RenameJobs :
                  j.step \in {"move", "rename"} /\ DriveFiles[j.ren.to] # {}))'
BY BlockedIs, PTL

LEMMA ChangePendingIs ==
    \A p : ChangePending(p) <=>
        \/ p \in window.changed \/ p \in batch.changed
        \/ \E b \in Entries(inbox) : p \in b.changed
        \/ \E j \in SaveJobs : j.path = p
BY DEF ChangePending, Batches

LEMMA ChangePendingNew ==
    \A p : ChangePending(p)' <=>
        \/ p \in window'.changed \/ p \in batch'.changed
        \/ \E b \in Entries(inbox') : p \in b.changed
        \/ \E j \in SaveJobs' : j.path = p
BY DEF ChangePending, Batches, Entries

\* The pending renames are the user's, or the worker's and none is in hand.
LEMMA Sides ==
    TypeOK /\ Apart =>
        \/ UserSide
        \/ (\A n \in Pending : ~n.byUser) /\ RenameJobs = {}
<1> SUFFICES ASSUME TypeOK, Apart, ~UserSide
             PROVE  (\A n \in Pending : ~n.byUser) /\ RenameJobs = {}
  OBVIOUS
<1>1. \A n \in Pending : ~n.byUser
  BY DEF Apart, UserSide, OneSide, WorkerApart
<1>2. \A j \in RenameJobs : j.ren \in Pending /\ j.ren.byUser
  BY PendingIs DEF RenameJobs, Apart, JobsAreUsers
<1> QED
  BY <1>1, <1>2

LEMMA UserSettles ==
    TypeOK /\ DaemonView /\ UserView /\ UserSide => WorkerView
<1> SUFFICES ASSUME TypeOK, DaemonView, UserView, UserSide, \A n \in Pending : ~n.byUser
             PROVE  DriveFiles = LocalFiles
  BY DEF WorkerView, UserSide
<1>1. Pending = {} /\ worker = {}
  BY DEF UserSide
<1> QED
  BY <1>1, ChainEnds

LEMMA UserSettlesNext ==
    (TypeOK /\ DaemonView /\ UserView /\ UserSide => WorkerView)'
BY UserSettles, PTL

\* A step that renames nothing, while the pending renames are the worker's.
LEMMA QuietWorkerSide ==
    ASSUME TypeOK, TypeOK', \A n \in Pending : ~n.byUser, DaemonView, WorkerView,
           DriveFiles' = DriveFiles, LocalFiles' = LocalFiles, RowFiles' = RowFiles,
           worker' = worker, RenameJobs = {}, RenameJobs' = {}, Pending' \subseteq Pending,
           worker # {} => \A p \in Path : ChangePending(p)' => ChangePending(p)
    PROVE  DaemonView' /\ UserView' /\ WorkerView'
<1>1. DaemonView'
  BY DEF DaemonView
<1>2. ASSUME NEW x \in worker PROVE OnTheWay(x)'
  <2>1. \A p \in Path : local'[p] # None <=> local[p] # None
    BY Views, ViewsNext
  <2>2. Moving(x)' = Moving(x) /\ Moving(x) \subseteq Path
    <3>1. CASE x.step = "select"
      BY <2>1, <3>1 DEF Moving
    <3>2. CASE x.step # "select"
      BY <1>2, <3>2 DEF Moving, TypeOK, Rename, Pin
    <3> QED
      BY <3>1, <3>2
  <2>3. OnTheWay(x)
    BY <1>2 DEF WorkerView
  <2>4. \A p \in Path : ChangePending(p)' => ChangePending(p)
    BY <1>2
  <2> QED
    BY <2>2, <2>3, <2>4 DEF OnTheWay
<1>3. WorkerView'
  <2>1. (worker = {} /\ (\A n \in Pending : ~n.byUser) => DriveFiles = LocalFiles)'
    BY DEF WorkerView
  <2> QED
    BY <1>2, <2>1 DEF WorkerView
<1>4. UserView'
  <2> SUFFICES ASSUME UserSide' PROVE UserView'
    BY DEF UserView
  <2>1. (Pending = {})' /\ (worker = {})'
    BY DEF UserSide
  <2> QED
    BY <1>1, <1>3, <2>1, SettledChainNext
<1> QED
  BY <1>1, <1>3, <1>4

\* A step that renames nothing.
LEMMA Quiet ==
    ASSUME TypeOK, TypeOK', Apart, DaemonView, UserView, WorkerView,
           DriveFiles' = DriveFiles, LocalFiles' = LocalFiles, RowFiles' = RowFiles,
           worker' = worker, RenameJobs' = RenameJobs, Pending' \subseteq Pending,
           inbox' = inbox, batch'.renames = batch.renames, window'.renames = window.renames,
           \A p \in Path, k \in 1 .. Len(inbox) + 1 : SentBefore(p, k)' => SentBefore(p, k),
           worker # {} => \A p \in Path : ChangePending(p)' => ChangePending(p)
    PROVE  DaemonView' /\ UserView' /\ WorkerView'
<1>1. CASE ~UserSide
  BY <1>1, Sides, QuietWorkerSide
<1>2. CASE UserSide
  <2>1. DaemonView'
    BY DEF DaemonView
  <2>2. UserSide'
    BY <1>2 DEF UserSide
  <2>3. UserView'
    <3> SUFFICES ASSUME ~Blocked' PROVE \E V \in Seq(View) : Chain(V)'
      BY DEF UserView
    <3>1. ~Blocked
      BY BlockedIs, BlockedNext
    <3>2. PICK V \in Seq(View) : Chain(V)
      BY <1>2, <3>1 DEF UserView
    <3>3. Target' = Target
      BY DEF Target
    <3>4. DOMAIN V = 1 .. Len(inbox) + 1
      BY <3>2 DEF Chain, Linked
    <3>5. Chain(V)'
      BY <3>2, <3>3, <3>4, ChainSame
    <3> QED
      BY <3>5
  <2> QED
    BY <2>1, <2>2, <2>3, UserSettlesNext
<1> QED
  BY <1>1, <1>2

\* Versions that are moved, and none is new.
LEMMA VersionsMove ==
    ASSUME Versions, edits' = edits,
           \A p \in Path : drive'[p] # None => \E q \in Path : drive[q] = drive'[p],
           \A p \in Path : local'[p] # None =>
                \E q \in Path : local[q] = local'[p] /\ (ChangePending(q) => ChangePending(p)'),
           \A r \in Path : pins'[r] # None =>
                \E s \in Path : pins[s] # None /\ pins[s].synced = pins'[r].synced
    PROVE  Versions'
<1>1. \A p \in Path : local'[p] # None => local'[p].rev <= edits'
  BY DEF Versions
<1>2. \A p, q \in Path : drive'[p] # None /\ local'[q] # None => Older(drive'[p], local'[q])
  BY DEF Versions
<1>3. \A r, p \in Path : pins'[r] # None /\ drive'[p] # None => Older(pins'[r].synced, drive'[p])
  BY DEF Versions
<1>4. ASSUME NEW r \in Path, NEW p \in Path, pins'[r] # None, local'[p] # None,
             pins'[r].synced.of = local'[p].of
      PROVE  \/ pins'[r].synced = local'[p]
             \/ pins'[r].synced.rev <= local'[p].rev /\ ChangePending(p)'
  <2>1. PICK s \in Path : pins[s] # None /\ pins[s].synced = pins'[r].synced
    BY <1>4
  <2>2. PICK q \in Path : local[q] = local'[p] /\ (ChangePending(q) => ChangePending(p)')
    BY <1>4
  <2> QED
    BY <1>4, <2>1, <2>2 DEF Versions
<1> QED
  BY <1>1, <1>2, <1>3, <1>4 DEF Versions, Older

-----------------------------------------------------------------------------
(***************************************************************************)
(* The user saves.                                                         *)
(***************************************************************************)

LEMMA EntriesOf ==
    ASSUME NEW S, NEW s \in Seq(S), NEW x \in S
    PROVE  /\ Entries(Append(s, x)) = Entries(s) \cup {x}
           /\ s # <<>> => /\ Head(s) \in S /\ Tail(s) \in Seq(S)
                          /\ Entries(s) = {Head(s)} \cup Entries(Tail(s))
<1>1. Len(s) \in Nat /\ DOMAIN s = 1 .. Len(s) /\ \A i \in 1 .. Len(s) : s[i] \in S
  OBVIOUS
<1>2. Entries(Append(s, x)) = Entries(s) \cup {x}
  <2> DEFINE t == Append(s, x)
             n == Len(s) + 1
  <2>1. /\ DOMAIN t = DOMAIN s \cup {n} /\ t[n] = x /\ \A i \in DOMAIN s : t[i] = s[i]
    OBVIOUS
  <2> HIDE DEF t, n
  <2>2. Entries(t) = Entries(s) \cup {x}
    BY <2>1 DEF Entries
  <2> QED
    BY <2>2 DEF t
<1>3. ASSUME s # <<>>
      PROVE  /\ Head(s) \in S /\ Tail(s) \in Seq(S)
             /\ Entries(s) = {Head(s)} \cup Entries(Tail(s))
  <2> DEFINE t == Tail(s)
  <2>1. /\ Len(s) >= 1 /\ Head(s) = s[1] /\ t \in Seq(S)
        /\ DOMAIN t = 1 .. Len(s) - 1 /\ \A i \in 1 .. Len(s) - 1 : t[i] = s[i + 1]
    BY <1>3
  <2> HIDE DEF t
  <2>2. \A i \in DOMAIN s : i = 1 \/ (i - 1 \in DOMAIN t /\ s[i] = t[i - 1])
    BY <1>1, <2>1
  <2>3. \A i \in DOMAIN t : i + 1 \in DOMAIN s /\ t[i] = s[i + 1]
    BY <1>1, <2>1
  <2>4. 1 \in DOMAIN s
    BY <1>1, <2>1
  <2>5. Entries(s) \subseteq {Head(s)} \cup Entries(t)
    BY <2>1, <2>2 DEF Entries
  <2>6. {Head(s)} \cup Entries(t) \subseteq Entries(s)
    BY <2>1, <2>3, <2>4 DEF Entries
  <2>7. Head(s) \in S
    BY <1>1, <2>1, <2>4
  <2> QED
    BY <2>1, <2>5, <2>6, <2>7 DEF t
<1> QED
  BY <1>2, <1>3

LEMMA BatchesAre ==
    /\ Batches = {window, batch} \cup Entries(inbox)
    /\ Batches' = {window', batch'} \cup Entries(inbox')
BY DEF Batches, Entries

LEMMA UnderWayIs ==
    TypeOK => \A p : SaveUnderWay(p) <=>
        \/ p \in batch.changed
        \/ \E b \in Entries(inbox) : p \in b.changed
        \/ \E j \in SaveJobs : j.path = p
<1> SUFFICES ASSUME TypeOK, NEW p
             PROVE  SaveUnderWay(p) <=>
                        \/ p \in batch.changed
                        \/ \E b \in Entries(inbox) : p \in b.changed
                        \/ \E j \in SaveJobs : j.path = p
  OBVIOUS
<1>1. \A j \in job : j \in SaveJobs <=> j.step \in {"upload", "mark"}
  BY DEF SaveJobs, RenameJobs
<1>2. SaveJobs \subseteq job
  BY DEF SaveJobs
<1> QED
  BY <1>1, <1>2 DEF SaveUnderWay, Entries

\* A step that leaves the file of the save in hand alone.
LEMMA JobViewAlone ==
    ASSUME TypeOK, JobView, SaveJobs' \subseteq SaveJobs,
           \A j \in SaveJobs :
              /\ drive'[j.path] = drive[j.path] /\ local'[j.path] = local[j.path]
              /\ pins'[j.path] = pins[j.path]
              /\ (\E b \in Batches : j.path \in b.changed)
                   => \E b \in Batches' : j.path \in b.changed
    PROVE  JobView'
<1>1. \A j \in SaveJobs : /\ DriveFiles'[j.path] = DriveFiles[j.path]
                          /\ LocalFiles'[j.path] = LocalFiles[j.path]
                          /\ RowFiles'[j.path] = RowFiles[j.path]
  BY JobKinds DEF DriveFiles, LocalFiles, RowFiles
<1>2. ASSUME NEW j \in SaveJobs'
      PROVE  /\ j.remote = j.path
             /\ DriveFiles'[j.path] = {j.seen.of}
             /\ LocalFiles'[j.path] = {j.seen.of}
             /\ RowFiles'[j.path] = {j.seen.of}
             /\ pins'[j.path].synced.rev <= j.seen.rev
             /\ j.step = "mark" => j.seen.rev <= drive'[j.path].rev
             /\ \/ j.seen = local'[j.path]
                \/ /\ j.seen.rev <= local'[j.path].rev
                   /\ \E b \in Batches' : j.path \in b.changed
  BY <1>1, <1>2 DEF JobView
<1> QED
  BY <1>2 DEF JobView

LEMMA OneCopySame ==
    ASSUME OneCopy, DriveFiles' = DriveFiles, LocalFiles' = LocalFiles, RowFiles' = RowFiles,
           \A p \in Path : ChangePending(p)' => ChangePending(p) \/ LocalFiles[p] # {}
    PROVE  OneCopy'
BY DEF OneCopy, Once

LEMMA SaveAligned ==
    ASSUME "Overlap" \notin Environment, TypeOK, TypeOK', Apart, Aligned,
           NEW p \in Path, Save(p)
    PROVE  Aligned'
<1>0. /\ drive' = drive /\ pins' = pins /\ inbox' = inbox /\ batch' = batch /\ job' = job
      /\ worker' = worker /\ worker = {} /\ edits' = edits + 1 /\ local[p] # None
      /\ local' = [local EXCEPT ![p] = [local[p] EXCEPT !.rev = edits + 1]]
      /\ window' = [window EXCEPT !.changed = @ \cup {p}]
  BY DEF Save, loopVars
<1>1. /\ local \in [Path -> Content \cup {None}] /\ local[p] \in Content
      /\ drive \in [Path -> Content \cup {None}] /\ pins \in [Path -> Row \cup {None}]
      /\ edits \in Nat /\ window \in Batch
  BY <1>0, ConstantsAssumption DEF TypeOK
<1>2. /\ local'[p].of = local[p].of /\ local'[p].rev = edits + 1 /\ local'[p] # None
      /\ \A x \in Path \ {p} : local'[x] = local[x]
  <2>1. [local[p] EXCEPT !.rev = edits + 1] \in [of : Path, rev : Nat]
    BY <1>1 DEF Content
  <2>2. local'[p] = [local[p] EXCEPT !.rev = edits + 1]
    BY <1>0, <1>1
  <2>3. /\ [local[p] EXCEPT !.rev = edits + 1].of = local[p].of
        /\ [local[p] EXCEPT !.rev = edits + 1].rev = edits + 1
    BY <1>1 DEF Content
  <2>4. local'[p] # None
    <3>1. local'[p] \in Content
      <4>1. edits + 1 \in 0 .. MaxEdits
        BY <1>0 DEF TypeOK
      <4> QED
        BY <1>1, <2>2, <4>1 DEF Content
    <3> QED
      BY <3>1, NotNone
  <2> QED
    BY <1>0, <1>1, <2>2, <2>3, <2>4
<1>3. LocalFiles' = LocalFiles
  <2>1. \A x \in Path : FileIn(local'[x]) = FileIn(local[x])
    BY <1>0, <1>2 DEF FileIn
  <2> QED
    BY <2>1 DEF LocalFiles
<1>4. DriveFiles' = DriveFiles /\ RowFiles' = RowFiles
      /\ RenameJobs' = RenameJobs /\ SaveJobs' = SaveJobs
  BY <1>0, SameViews
<1>5. window'.renames = window.renames /\ window'.changed = window.changed \cup {p}
  BY <1>0, <1>1 DEF Batch
<1>6. Pending' \subseteq Pending
  BY <1>0, <1>5, PendingIs, PendingNew
<1>7. \A x : /\ ChangePending(x) => ChangePending(x)'
             /\ ChangePending(x)' => ChangePending(x) \/ x = p
  BY <1>0, <1>4, <1>5, ChangePendingIs, ChangePendingNew
<1>8. DaemonView' /\ UserView' /\ WorkerView'
  <2>1. \A x \in Path, k \in 1 .. Len(inbox) + 1 : SentBefore(x, k)' => SentBefore(x, k)
    BY <1>0, <1>4 DEF SentBefore
  <2> QED
    BY <1>0, <1>3, <1>4, <1>5, <1>6, <2>1, Quiet DEF Aligned
<1>9. OneCopy'
  BY <1>0, <1>3, <1>4, <1>7, Views, OneCopySame DEF Aligned
<1>10. Versions'
  <2>1. /\ \A x \in Path : local[x] # None => local[x].rev \in Nat /\ local[x].rev <= edits
        /\ \A x \in Path : drive[x] # None => drive[x].rev \in Nat
        /\ \A x \in Path : pins[x] # None => pins[x].synced.rev \in Nat
    BY <1>1 DEF Aligned, Versions, Content, Row
  <2>2. \A x \in Path : local'[x] # None => local'[x].rev <= edits'
    BY <1>0, <1>1, <1>2, <2>1
  <2>3. ASSUME NEW x \in Path, NEW y \in Path, drive[x] # None, local'[y] # None
        PROVE  Older(drive[x], local'[y])
    <3>1. CASE y # p
      BY <1>2, <2>3, <3>1 DEF Aligned, Versions
    <3>2. CASE y = p
      <4>1. Older(drive[x], local[p])
        BY <1>0, <2>3 DEF Aligned, Versions
      <4> QED
        BY <1>0, <1>1, <1>2, <2>1, <2>3, <3>2, <4>1 DEF Older
    <3> QED
      BY <3>1, <3>2
  <2>4. ASSUME NEW r \in Path, NEW x \in Path, pins[r] # None, local'[x] # None,
               pins[r].synced.of = local'[x].of
        PROVE  \/ pins[r].synced = local'[x]
               \/ pins[r].synced.rev <= local'[x].rev /\ ChangePending(x)'
    <3>1. CASE x # p
      BY <1>2, <1>7, <2>4, <3>1 DEF Aligned, Versions
    <3>2. CASE x = p
      <4>1. pins[r].synced.rev <= local[p].rev
        BY <1>0, <1>1, <1>2, <2>1, <2>4, <3>2 DEF Aligned, Versions
      <4>2. ChangePending(p)'
        BY <1>5, ChangePendingNew
      <4> QED
        BY <1>0, <1>1, <1>2, <2>1, <2>4, <3>2, <4>1, <4>2
    <3> QED
      BY <3>1, <3>2
  <2>5. Versions
    BY DEF Aligned
  <2> QED
    BY <1>0, <2>2, <2>3, <2>4, <2>5 DEF Versions
<1>11. JobView'
  <2>1. ASSUME NEW j \in SaveJobs, j.path = p
        PROVE  \/ j.seen = local'[j.path]
               \/ /\ j.seen.rev <= local'[j.path].rev
                  /\ \E b \in Batches' : j.path \in b.changed
    <3>1. p \in window'.changed /\ window' \in Batches'
      BY <1>5, BatchesAre
    <3>2. j.seen.rev \in Nat /\ local[p].rev \in Nat /\ local[p].rev <= edits
      BY <1>0, <1>1, JobKinds DEF Aligned, Versions, Content
    <3>3. j.seen.rev <= local[p].rev
      BY <2>1, <3>2 DEF Aligned, JobView
    <3> QED
      BY <1>1, <1>2, <2>1, <3>1, <3>2, <3>3
  <2>2. ASSUME NEW j \in SaveJobs, NEW b \in Batches, j.path \in b.changed
        PROVE  \E c \in Batches' : j.path \in c.changed
    BY <1>0, <1>5, <2>2, BatchesAre
  <2>3. ASSUME NEW j \in SaveJobs, j.path # p
        PROVE  local'[j.path] = local[j.path]
    BY <1>2, <2>3, JobKinds
  <2>4. JobView
    BY DEF Aligned
  <2>5. ASSUME NEW j \in SaveJobs
        PROVE  \/ j.seen = local'[j.path]
               \/ /\ j.seen.rev <= local'[j.path].rev
                  /\ \E b \in Batches' : j.path \in b.changed
    <3>1. CASE j.path = p
      BY <2>1, <3>1
    <3>2. CASE j.path # p
      BY <2>2, <2>3, <2>4, <3>2 DEF JobView
    <3> QED
      BY <3>1, <3>2
  <2> QED
    BY <1>0, <1>3, <1>4, <2>4, <2>5 DEF JobView
<1> QED
  BY <1>8, <1>9, <1>10, <1>11 DEF Aligned

-----------------------------------------------------------------------------
(***************************************************************************)
(* The user renames, and the events change hands.                          *)
(***************************************************************************)

LEMMA WindowChanged ==
    ASSUME TypeOK, NEW ren \in Renaming, window' = WithRename(ren), ren.from # ren.to
    PROVE  /\ ren.from \notin window'.changed
           /\ ren.from \in window.changed => ren.to \in window'.changed
           /\ \A p : p # ren.from /\ p # ren.to => (p \in window'.changed <=> p \in window.changed)
           /\ ren.from \notin window.changed => window'.changed = window.changed
BY DEF WithRename

LEMMA DriveMoved ==
    ASSUME TypeOK, TypeOK', NEW p \in Path, NEW q \in Path, p # q,
           drive' = MovedTo(drive, p, q)
    PROVE  /\ DriveFiles' = Shifted(DriveFiles, p, q)
           /\ drive'[q] = drive[p] /\ drive'[p] = None
           /\ \A x \in Path \ {p, q} : drive'[x] = drive[x]
<1>1. /\ drive'[q] = drive[p] /\ drive'[p] = None
      /\ \A x \in Path \ {p, q} : drive'[x] = drive[x]
  BY DEF TypeOK, MovedTo
<1>2. DriveFiles \in View /\ DriveFiles' \in View
  BY Views, ViewsNext
<1>3. \A x \in Path : DriveFiles[x] = FileIn(drive[x]) /\ DriveFiles'[x] = FileIn(drive'[x])
  BY DEF DriveFiles
<1>4. /\ Shifted(DriveFiles, p, q) \in View
      /\ \A x \in Path : DriveFiles'[x] = Shifted(DriveFiles, p, q)[x]
  <2> DEFINE w == Shifted(DriveFiles, p, q)
  <2>1. /\ w \in View /\ w[q] = DriveFiles[p] /\ w[p] = {}
        /\ \A x \in Path \ {p, q} : w[x] = DriveFiles[x]
    BY <1>2, ShiftedIs
  <2> HIDE DEF w
  <2>2. FileIn(None) = {}
    BY DEF FileIn
  <2>3. \A x \in Path : DriveFiles'[x] = w[x]
    <3>1. DriveFiles'[q] = w[q] /\ DriveFiles'[p] = w[p]
      BY <1>1, <1>3, <2>1, <2>2
    <3> QED
      BY <1>1, <1>3, <2>1, <3>1
  <2> QED
    BY <2>1, <2>3 DEF w
<1>5. DriveFiles' = Shifted(DriveFiles, p, q)
  BY <1>2, <1>4 DEF View
<1> QED
  BY <1>1, <1>5

LEMMA LocalMoved ==
    ASSUME TypeOK, TypeOK', NEW p \in Path, NEW q \in Path, p # q,
           local' = MovedTo(local, p, q)
    PROVE  /\ LocalFiles' = Shifted(LocalFiles, p, q)
           /\ local'[q] = local[p] /\ local'[p] = None
           /\ \A x \in Path \ {p, q} : local'[x] = local[x]
<1>1. /\ local'[q] = local[p] /\ local'[p] = None
      /\ \A x \in Path \ {p, q} : local'[x] = local[x]
  BY DEF TypeOK, MovedTo
<1>2. LocalFiles \in View /\ LocalFiles' \in View
  BY Views, ViewsNext
<1>3. \A x \in Path : LocalFiles[x] = FileIn(local[x]) /\ LocalFiles'[x] = FileIn(local'[x])
  BY DEF LocalFiles
<1>4. /\ Shifted(LocalFiles, p, q) \in View
      /\ \A x \in Path : LocalFiles'[x] = Shifted(LocalFiles, p, q)[x]
  <2> DEFINE w == Shifted(LocalFiles, p, q)
  <2>1. /\ w \in View /\ w[q] = LocalFiles[p] /\ w[p] = {}
        /\ \A x \in Path \ {p, q} : w[x] = LocalFiles[x]
    BY <1>2, ShiftedIs
  <2> HIDE DEF w
  <2>2. FileIn(None) = {}
    BY DEF FileIn
  <2>3. \A x \in Path : LocalFiles'[x] = w[x]
    <3>1. LocalFiles'[q] = w[q] /\ LocalFiles'[p] = w[p]
      BY <1>1, <1>3, <2>1, <2>2
    <3> QED
      BY <1>1, <1>3, <2>1, <3>1
  <2> QED
    BY <2>1, <2>3 DEF w
<1>5. LocalFiles' = Shifted(LocalFiles, p, q)
  BY <1>2, <1>4 DEF View
<1> QED
  BY <1>1, <1>5

LEMMA UserRenameAligned ==
    ASSUME {"Overlap", "Lag"} \cap Environment = {}, TypeOK, TypeOK', Apart, Aligned,
           NEW p \in Path, NEW q \in Path, UserRename(p, q)
    PROVE  Aligned'
<1> DEFINE ren == [from |-> p, to |-> q, byUser |-> TRUE]
<1>0. /\ drive' = drive /\ pins' = pins /\ inbox' = inbox /\ batch' = batch /\ job' = job
      /\ worker' = worker /\ worker = {} /\ edits' = edits
      /\ local[p] # None /\ local[q] = None /\ p # q
      /\ local' = MovedTo(local, p, q) /\ window' = WithRename(ren)
      /\ \A n \in Pending : n.byUser
      /\ ~SaveUnderWay(p)
  BY DEF UserRename, loopVars
<1>1. /\ ren \in Renaming /\ ren.from = p /\ ren.to = q /\ ren.byUser
      /\ local \in [Path -> Content \cup {None}]
  BY DEF Renaming, TypeOK
<1> HIDE DEF ren
<1>2. DriveFiles' = DriveFiles /\ RowFiles' = RowFiles
      /\ RenameJobs' = RenameJobs /\ SaveJobs' = SaveJobs /\ Target' = Target
  <2>1. DriveFiles' = DriveFiles /\ RowFiles' = RowFiles
        /\ RenameJobs' = RenameJobs /\ SaveJobs' = SaveJobs
    BY <1>0, SameViews
  <2> QED
    BY <2>1 DEF Target
<1>3. /\ LocalFiles' = Shifted(LocalFiles, p, q)
      /\ local'[q] = local[p] /\ local'[p] = None
      /\ \A x \in Path \ {p, q} : local'[x] = local[x]
  BY <1>0, LocalMoved
<1>4. /\ LocalFiles \in View /\ LocalFiles[p] # {} /\ LocalFiles[q] = {}
      /\ \A x \in Path : LocalFiles'[x] = {} <=> local'[x] = None
      /\ \A x \in Path : LocalFiles[x] = {} <=> local[x] = None
  BY <1>0, Views, ViewsNext
<1>5. /\ p \notin window'.changed
      /\ p \in window.changed => q \in window'.changed
  BY <1>0, <1>1, WindowChanged
<1>6. \A x : x # p /\ x # q => (x \in window'.changed <=> x \in window.changed)
  BY <1>0, <1>1, WindowChanged
<1>7. /\ p \notin batch.changed
      /\ \A b \in Entries(inbox) : p \notin b.changed
      /\ \A j \in SaveJobs : j.path # p
  BY <1>0, UnderWayIs
<1>8. /\ \A x \in Path : ChangePending(x) => x # q
      /\ \A x \in Path : x # p /\ ChangePending(x) => ChangePending(x)'
      /\ \A x \in Path : ChangePending(x)' => x # p /\ (x = q \/ ChangePending(x))
      /\ ChangePending(p) => ChangePending(q)'
  <2>1. \A x \in Path : ChangePending(x) => x # q
    BY <1>4 DEF Aligned, OneCopy
  <2>2. \A x \in Path : x # p /\ ChangePending(x) => ChangePending(x)'
    BY <1>0, <1>2, <1>6, <2>1, ChangePendingIs, ChangePendingNew
  <2>3. \A x \in Path : ChangePending(x)' => x # p /\ (x = q \/ ChangePending(x))
    BY <1>0, <1>2, <1>5, <1>6, <1>7, ChangePendingIs, ChangePendingNew
  <2>4. ChangePending(p) => ChangePending(q)'
    BY <1>0, <1>2, <1>5, <1>7, ChangePendingIs, ChangePendingNew
  <2> QED
    BY <2>1, <2>2, <2>3, <2>4
<1>9. UserSide /\ UserSide'
  <2>1. \A n \in Pending' : n.byUser
    BY <1>0, <1>1, OneMorePending
  <2> QED
    BY <1>0, <2>1 DEF UserSide
<1>10. DaemonView'
  BY <1>0, <1>2 DEF Aligned, DaemonView
<1>11. UserView'
  <2> SUFFICES ASSUME ~Blocked' PROVE \E V \in Seq(View) : Chain(V)'
    BY DEF UserView
  <2>1. ~Blocked
    BY <1>2, BlockedIs, BlockedNext
  <2>2. PICK V \in Seq(View) : Chain(V)
    BY <1>9, <2>1 DEF Aligned, UserView
  <2>3. \A k : ~SentBefore(p, k)
    <3>1. \A m \in DOMAIN inbox : inbox[m] \in Entries(inbox)
      BY DEF Entries
    <3> QED
      BY <1>7, <3>1 DEF SentBefore
  <2>4. \A x \in Path, k \in DOMAIN V : SentBefore(x, k) => LocalFiles[x] # {}
    <3>1. \A m \in DOMAIN inbox : inbox[m] \in Entries(inbox)
      BY DEF Entries
    <3>2. \A x, k : SentBefore(x, k) => ChangePending(x)
      BY <3>1, ChangePendingIs DEF SentBefore
    <3> QED
      BY <3>2 DEF Aligned, OneCopy
  <2>5. Chain(V)'
    BY <1>0, <1>1, <1>2, <1>3, <1>4, <2>2, <2>3, <2>4, ChainUserRename
  <2> QED
    BY <2>5
<1>12. WorkerView'
  BY <1>9, <1>10, <1>11, UserSettlesNext
<1>13. OneCopy'
  <2>1. Once(DriveFiles)' /\ Once(RowFiles)'
    BY <1>2 DEF Aligned, OneCopy, Once
  <2>2. Once(LocalFiles)'
    <3>1. Once(Shifted(LocalFiles, p, q))
      BY <1>4, ShiftedOnce DEF Aligned, OneCopy
    <3> QED
      BY <1>3, <3>1 DEF Once
  <2>3. ASSUME NEW x \in Path, ChangePending(x)' PROVE LocalFiles'[x] # {}
    <3>1. CASE x = q
      BY <1>0, <1>3, <1>4, <3>1
    <3>2. CASE x # q
      <4>1. x # p /\ local[x] # None
        BY <1>4, <1>8, <2>3, <3>2 DEF Aligned, OneCopy
      <4> QED
        BY <1>3, <1>4, <3>2, <4>1
    <3> QED
      BY <3>1, <3>2
  <2> QED
    BY <2>1, <2>2, <2>3 DEF OneCopy
<1>14. Versions'
  <2>1. ASSUME NEW x \in Path, local'[x] # None
        PROVE  \E y \in Path : local[y] = local'[x] /\ (ChangePending(y) => ChangePending(x)')
    <3>1. CASE x = q
      BY <1>3, <1>8, <3>1
    <3>2. CASE x # q
      BY <1>3, <1>8, <2>1, <3>2
    <3> QED
      BY <3>1, <3>2
  <2> QED
    BY <1>0, <2>1, VersionsMove DEF Aligned
<1>15. JobView'
  <2>1. ASSUME NEW j \in SaveJobs PROVE j.path \in Path /\ j.path # p /\ j.path # q
    <3>1. j.path \in Path /\ ChangePending(j.path)
      BY JobKinds, ChangePendingIs
    <3> QED
      BY <1>7, <1>8, <3>1
  <2>2. ASSUME NEW j \in SaveJobs, NEW b \in Batches, j.path \in b.changed
        PROVE  \E c \in Batches' : j.path \in c.changed
    <3>1. CASE b = window
      BY <1>6, <2>1, <2>2, <3>1, BatchesAre
    <3>2. CASE b # window
      BY <1>0, <2>2, <3>2, BatchesAre
    <3> QED
      BY <3>1, <3>2
  <2> QED
    BY <1>0, <1>2, <1>3, <2>1, <2>2, JobViewAlone DEF Aligned
<1> QED
  BY <1>10, <1>11, <1>12, <1>13, <1>14, <1>15 DEF Aligned

\* Events change hands, and nothing else.
LEMMA HandedOnAligned ==
    ASSUME TypeOK, TypeOK', Apart, Aligned, Debounce \/ TakeBatch
    PROVE  Aligned'
<1>0. /\ drive' = drive /\ local' = local /\ pins' = pins /\ job' = job
      /\ worker' = worker /\ edits' = edits
  BY DEF Debounce, TakeBatch, boundVars
<1>1. /\ DriveFiles' = DriveFiles /\ LocalFiles' = LocalFiles /\ RowFiles' = RowFiles
      /\ RenameJobs' = RenameJobs /\ SaveJobs' = SaveJobs /\ Target' = Target
  <2>1. /\ DriveFiles' = DriveFiles /\ LocalFiles' = LocalFiles /\ RowFiles' = RowFiles
        /\ RenameJobs' = RenameJobs /\ SaveJobs' = SaveJobs
    BY <1>0, SameViews
  <2> QED
    BY <2>1 DEF Target
<1>2. \/ /\ Entries(inbox') = Entries(inbox) \cup {window} /\ batch' = batch
         /\ window' = NoEvents
      \/ /\ Entries(inbox) = Entries(inbox') \cup {batch'} /\ batch = NoEvents
         /\ window' = window
  <2>1. inbox \in Seq(Batch) /\ window \in Batch
    BY DEF TypeOK
  <2>2. CASE Debounce
    BY <2>1, <2>2, EntriesOf DEF Debounce
  <2>3. CASE TakeBatch
    BY <2>1, <2>3, EntriesOf DEF TakeBatch
  <2> QED
    BY <2>2, <2>3
<1>3. NoEvents.changed = {} /\ NoEvents.renames = <<>> /\ Entries(NoEvents.renames) = {}
  BY DEF NoEvents, Entries
<1>4. \A n : n \in Pending' <=> n \in Pending
  BY <1>0, <1>2, <1>3, PendingIs, PendingNew
<1>5. \A x : ChangePending(x)' <=> ChangePending(x)
  BY <1>1, <1>2, <1>3, ChangePendingIs, ChangePendingNew
<1>6. \A x : (\E b \in Batches : x \in b.changed) => \E b \in Batches' : x \in b.changed
  BY <1>2, <1>3, BatchesAre
<1>7. DaemonView' /\ UserView' /\ WorkerView'
  <2>1. CASE ~UserSide
    BY <1>0, <1>1, <1>4, <1>5, <2>1, Sides, QuietWorkerSide DEF Aligned
  <2>2. CASE UserSide
    <3>1. DaemonView'
      BY <1>0, <1>1 DEF Aligned, DaemonView
    <3>2. UserSide'
      BY <1>0, <1>4, <2>2 DEF UserSide
    <3>3. UserView'
      <4> SUFFICES ASSUME ~Blocked' PROVE \E V \in Seq(View) : Chain(V)'
        BY DEF UserView
      <4>1. ~Blocked
        BY <1>1, BlockedIs, BlockedNext
      <4>2. PICK V \in Seq(View) : Chain(V)
        BY <2>2, <4>1 DEF Aligned, UserView
      <4> QED
        BY <1>1, <4>2, ChainDebounce, ChainTakeBatch
    <3> QED
      BY <3>1, <3>2, <3>3, UserSettlesNext
  <2> QED
    BY <2>1, <2>2
<1>8. OneCopy'
  BY <1>1, <1>5, OneCopySame DEF Aligned
<1>9. Versions'
  BY <1>0, <1>5, VersionsMove DEF Aligned
<1>10. JobView'
  BY <1>0, <1>1, <1>6, JobViewAlone DEF Aligned
<1> QED
  BY <1>7, <1>8, <1>9, <1>10 DEF Aligned

-----------------------------------------------------------------------------
(***************************************************************************)
(* The main loop takes up a rename.                                        *)
(***************************************************************************)

LEMMA ShiftedSelf == ASSUME NEW v \in View, NEW p \in Path PROVE Shifted(v, p, p) = v
BY DEF Shifted, View

LEMMA JobKindsNext ==
    (TypeOK =>
        /\ job = RenameJobs \cup SaveJobs
        /\ \A j \in RenameJobs :
            /\ j \in [step : {"move", "rename", "rekey", "keep"}, remote : Path,
                      ren : Renaming, at : Path]
            /\ j.step \in {"move", "rename", "rekey", "keep"}
            /\ j.remote \in Path /\ j.at \in Path /\ j.ren \in Renaming
            /\ j.ren.from \in Path /\ j.ren.to \in Path
        /\ \A j \in SaveJobs :
            /\ j \in [step : {"upload", "mark"}, remote : Path, path : Path, seen : Content]
            /\ j.step \in {"upload", "mark"}
            /\ j.remote \in Path /\ j.path \in Path /\ j.seen \in Content
        /\ \A j, k \in job : j = k)'
BY JobKinds, PTL

LEMMA TargetNext ==
    (TypeOK =>
        /\ RenameJobs = {} => Target = RowFiles
        /\ \A j \in RenameJobs : Target = Shifted(RowFiles, j.remote, j.ren.to)
        /\ Target \in View)'
BY TargetIs, PTL

\* The main loop's next rename.
LEMMA TakeRenameAligned ==
    ASSUME TypeOK, TypeOK', Apart, Apart', Aligned, TakeRename
    PROVE  Aligned'
<1> DEFINE ren == Head(batch.renames)
<1>0. /\ drive' = drive /\ local' = local /\ pins' = pins /\ worker' = worker
      /\ window' = window /\ inbox' = inbox /\ edits' = edits
      /\ job = {} /\ batch.renames # <<>>
      /\ batch' = [batch EXCEPT !.renames = Tail(@)]
      /\ \/ RemotesOf(ren.from) = {} /\ job' = {}
         \/ \E r \in RemotesOf(ren.from) :
              job' = {[step |-> IF r.dir = ren.to.dir THEN "rename" ELSE "move",
                       remote |-> r, ren |-> ren, at |-> r]}
  BY DEF TakeRename, boundVars
<1>1. /\ batch.renames \in Seq(Renaming) /\ ren \in Renaming
      /\ ren.from \in Path /\ ren.to \in Path
      /\ ren \in Entries(batch.renames)
      /\ Entries(Tail(batch.renames)) \subseteq Entries(batch.renames)
      /\ batch'.renames = Tail(batch.renames) /\ batch'.changed = batch.changed
  <2>1. batch.renames \in Seq(Renaming) /\ batch \in Batch
    BY DEF TypeOK, Batch
  <2>2. /\ ren \in Renaming /\ ren \in Entries(batch.renames)
        /\ Entries(Tail(batch.renames)) \subseteq Entries(batch.renames)
    BY <1>0, <2>1, EntriesOf
  <2> HIDE DEF ren
  <2>3. ren.from \in Path /\ ren.to \in Path
    BY <2>2 DEF Renaming
  <2> QED
    BY <1>0, <2>1, <2>2, <2>3 DEF Batch
<1>2. /\ DriveFiles' = DriveFiles /\ LocalFiles' = LocalFiles /\ RowFiles' = RowFiles
      /\ RenameJobs = {} /\ SaveJobs = {}
  BY <1>0, SameViews DEF RenameJobs, SaveJobs
<1>3. ren \in Pending
  BY <1>1, PendingIs
<1>4. RemotesOf(ren.from) = IF pins[ren.from] = None THEN {} ELSE {ren.from}
  BY <1>1, RemotesAre DEF Apart
<1> HIDE DEF ren
<1>5. \A j \in job' : /\ j = [step |-> IF ren.from.dir = ren.to.dir THEN "rename" ELSE "move",
                              remote |-> ren.from, ren |-> ren, at |-> ren.from]
                      /\ job' = {j}
                      /\ j.step \in {"move", "rename"} /\ j.ren = ren
                      /\ j.remote = ren.from /\ j.at = ren.from
  BY <1>0, <1>4
<1>6. SaveJobs' = {} /\ RenameJobs' = job'
  BY <1>5 DEF SaveJobs, RenameJobs
<1>7. Pending' \subseteq Pending
  BY <1>0, <1>1, <1>3, <1>5, PendingIs, PendingNew
<1>8. \A x : ChangePending(x)' <=> ChangePending(x)
  BY <1>0, <1>1, <1>2, <1>6, ChangePendingIs, ChangePendingNew
<1>9. DaemonView' /\ UserView' /\ WorkerView'
  <2>1. CASE ~UserSide
    <3>1. \A n \in Pending : ~n.byUser
      BY <2>1, Sides
    <3>2. job' = {}
      BY <1>0, <1>3, <1>4, <3>1 DEF Apart, Forgotten
    <3> QED
      BY <1>0, <1>2, <1>6, <1>7, <1>8, <3>1, <3>2, QuietWorkerSide DEF Aligned
  <2>2. CASE UserSide
    <3>1. ~Blocked
      BY <1>0 DEF Blocked
    <3>2. PICK V \in Seq(View) : Chain(V)
      BY <2>2, <3>1 DEF Aligned, UserView
    <3>3. V[1] \in View
      <4>1. Len(V) >= 1 /\ Len(V) \in Nat
        BY <3>2 DEF Chain, Linked, TypeOK
      <4> QED
        BY <4>1
    <3>4. Target = RowFiles /\ RowFiles \in View /\ RowFiles = DriveFiles
      BY <1>2, <2>2, TargetIs, Views DEF Aligned, DaemonView, UserSide
    <3>5. RowFiles[ren.from] # {}
      <4>1. Leads(Target, batch.renames, V[1])
        BY <3>2 DEF Chain, Linked
      <4> QED
        BY <1>0, <1>1, <3>3, <3>4, <4>1, LeadsOn DEF ren
    <3>6. pins[ren.from] # None
      BY <1>1, <3>5, Views
    <3>7. PICK j \in job' : TRUE
      BY <1>0, <1>4, <3>6
    <3>8. /\ j.step \in {"move", "rename"} /\ j.ren = ren
          /\ j.remote = ren.from /\ j.at = ren.from /\ RenameJobs' = {j}
          /\ j.step = "move" => ren.from.dir # ren.to.dir
          /\ j.step = "rename" => ren.from.dir = ren.to.dir
      BY <1>5, <1>6, <3>7
    <3>9. DaemonView'
      <4>1. DriveFiles' = Shifted(RowFiles', j.remote, j.at)
        BY <1>1, <1>2, <3>4, <3>8, ShiftedSelf
      <4> QED
        BY <1>2, <3>5, <3>8, <4>1 DEF DaemonView
    <3>10. UserSide'
      BY <1>0, <1>7, <2>2 DEF UserSide
    <3>11. UserView'
      <4> SUFFICES ASSUME ~Blocked' PROVE \E W \in Seq(View) : Chain(W)'
        BY DEF UserView
      <4>1. DriveFiles'[ren.to] = {}
        BY <3>8, BlockedNext
      <4>2. Target[ren.to] = {}
        BY <1>2, <3>4, <4>1
      <4>3. Target' = Shifted(Target, ren.from, ren.to)
        BY <1>2, <3>4, <3>8, TargetNext
      <4>4. Chain(V)'
        BY <1>0, <1>1, <1>2, <1>6, <3>2, <4>2, <4>3, ChainTakeRename DEF ren
      <4> QED
        BY <4>4
    <3> QED
      BY <3>9, <3>10, <3>11, UserSettlesNext
  <2> QED
    BY <2>1, <2>2
<1>10. OneCopy'
  BY <1>2, <1>8, OneCopySame DEF Aligned
<1>11. Versions'
  BY <1>0, <1>8, VersionsMove DEF Aligned
<1>12. JobView'
  BY <1>6 DEF JobView
<1> QED
  BY <1>9, <1>10, <1>11, <1>12 DEF Aligned

\* When the main loop comes to a save, Drive and the row have its file where
\* the copy is.
LEMMA InPlace ==
    ASSUME TypeOK, Apart, Aligned, job = {}, batch.renames = <<>>,
           NEW p \in Path, p \in batch.changed
    PROVE  /\ DriveFiles[p] = LocalFiles[p] /\ RowFiles[p] = LocalFiles[p]
           /\ LocalFiles[p] # {}
<1>0. ChangePending(p) /\ RenameJobs = {} /\ SaveJobs = {}
  BY ChangePendingIs DEF RenameJobs, SaveJobs
<1>1. LocalFiles[p] # {}
  BY <1>0 DEF Aligned, OneCopy
<1>2. CASE UserSide
  <2>1. PICK V \in Seq(View) : Chain(V)
    BY <1>2 DEF Aligned, UserView, Blocked
  <2>2. V[1] \in View /\ 1 \in DOMAIN V
    <3>1. Len(V) >= 1 /\ Len(V) \in Nat
      BY <2>1 DEF Chain, Linked, TypeOK
    <3> QED
      BY <3>1
  <2>3. RowFiles = V[1]
    <3>1. Leads(RowFiles, <<>>, V[1])
      BY <1>0, <2>1, TargetIs DEF Chain, Linked
    <3> QED
      BY <2>2, <3>1, Views, LeadsNowhere
  <2>4. V[1][p] = LocalFiles[p]
    BY <2>1, <2>2 DEF Chain, Linked, SentBefore
  <2>5. RowFiles = DriveFiles
    BY <1>0, <1>2 DEF Aligned, DaemonView, UserSide
  <2> QED
    BY <1>1, <2>3, <2>4, <2>5
<1>3. CASE ~UserSide /\ worker = {}
  BY <1>0, <1>1, <1>3, Sides DEF Aligned, DaemonView, WorkerView
<1>4. ASSUME NEW x \in worker PROVE DriveFiles[p] = LocalFiles[p] /\ RowFiles[p] = LocalFiles[p]
  <2>1. OnTheWay(x)
    BY <1>4 DEF Aligned, WorkerView
  <2>2. p \notin Moving(x) /\ \A r \in Moving(x) : p # Image(r, x.old, x.new)
    BY <1>0, <1>1, <2>1 DEF OnTheWay
  <2>3. DriveFiles[p] = LocalFiles[p]
    BY <2>1, <2>2 DEF OnTheWay
  <2>4. CASE x.step # "move"
    BY <2>1, <2>3, <2>4 DEF OnTheWay
  <2>5. CASE x.step = "move"
    <3>1. PICK t \in x.now : RowFiles = Shifted(LocalFiles, t.remote, Image(t.remote, x.old, x.new))
      BY <2>1, <2>5 DEF OnTheWay
    <3>2. t.remote \in Moving(x)
      BY <2>5, <3>1 DEF Moving
    <3> QED
      BY <2>2, <2>3, <3>1, <3>2, Views DEF Shifted, View
  <2> QED
    BY <2>3, <2>4, <2>5
<1> QED
  BY <1>1, <1>2, <1>3, <1>4

-----------------------------------------------------------------------------
(***************************************************************************)
(* The main loop takes up a save, uploads it and tells the row.            *)
(***************************************************************************)

\* The main loop takes up a save.
LEMMA TakeChangeAligned ==
    ASSUME TypeOK, TypeOK', Apart, Aligned, NEW p \in Path, TakeChange(p)
    PROVE  Aligned'
<1>0. /\ drive' = drive /\ local' = local /\ pins' = pins /\ worker' = worker
      /\ window' = window /\ inbox' = inbox /\ edits' = edits
      /\ job = {} /\ batch.renames = <<>> /\ p \in batch.changed
      /\ batch' = [batch EXCEPT !.changed = @ \ {p}]
  BY DEF TakeChange, boundVars
<1>1. batch'.renames = batch.renames /\ batch'.changed = batch.changed \ {p}
  BY <1>0 DEF TypeOK, Batch
<1>2. /\ DriveFiles[p] = LocalFiles[p] /\ RowFiles[p] = LocalFiles[p]
      /\ local[p] # None /\ pins[p] # None /\ RemotesOf(p) = {p}
      /\ LocalFiles[p] = {local[p].of} /\ RowFiles[p] = {pins[p].synced.of}
  <2>1. DriveFiles[p] = LocalFiles[p] /\ RowFiles[p] = LocalFiles[p] /\ LocalFiles[p] # {}
    BY <1>0, InPlace
  <2>2. local[p] # None /\ pins[p] # None
    BY <2>1, Views
  <2> QED
    BY <2>1, <2>2, Views, RemotesAre DEF Apart
<1>3. \/ pins[p].synced = local[p] /\ job' = {}
      \/ job' = {[step |-> "upload", remote |-> p, path |-> p, seen |-> local[p]]}
  BY <1>2 DEF TakeChange
<1>4. \A j \in job' : /\ j.step = "upload" /\ j.remote = p /\ j.path = p /\ j.seen = local[p]
  BY <1>3
<1>5. /\ DriveFiles' = DriveFiles /\ LocalFiles' = LocalFiles /\ RowFiles' = RowFiles
      /\ RenameJobs = {} /\ SaveJobs = {} /\ RenameJobs' = {} /\ SaveJobs' = job'
  BY <1>0, <1>4, SameViews DEF RenameJobs, SaveJobs
<1>6. Pending' \subseteq Pending
  BY <1>0, <1>1, <1>4, PendingIs, PendingNew
<1>7. /\ \A x : ChangePending(x)' => ChangePending(x)
      /\ \A x : ChangePending(x) => ChangePending(x)' \/ (x = p /\ pins[p].synced = local[p])
  <2>1. \A x : ChangePending(x)' => ChangePending(x)
    BY <1>0, <1>1, <1>4, <1>5, ChangePendingIs, ChangePendingNew
  <2>2. \A x : x # p /\ ChangePending(x) => ChangePending(x)'
    BY <1>0, <1>1, <1>5, ChangePendingIs, ChangePendingNew
  <2>3. pins[p].synced = local[p] \/ ChangePending(p)'
    <3>1. pins[p].synced = local[p] \/ \E j \in SaveJobs' : j.path = p
      BY <1>3, <1>4, <1>5
    <3> QED
      BY <3>1, ChangePendingNew
  <2> QED
    BY <2>1, <2>2, <2>3
<1>8. DaemonView' /\ UserView' /\ WorkerView'
  <2>1. \A x \in Path, k \in 1 .. Len(inbox) + 1 : SentBefore(x, k)' => SentBefore(x, k)
    BY <1>0, <1>1, <1>4, <1>5 DEF SentBefore
  <2> QED
    BY <1>0, <1>1, <1>5, <1>6, <1>7, <2>1, Quiet DEF Aligned
<1>9. OneCopy'
  BY <1>5, <1>7, OneCopySame DEF Aligned
<1>10. Versions'
  <2>1. ASSUME NEW r \in Path, NEW x \in Path, pins[r] # None, local[x] # None,
               pins[r].synced.of = local[x].of
        PROVE  \/ pins[r].synced = local[x]
               \/ pins[r].synced.rev <= local[x].rev /\ ChangePending(x)'
    <3>1. CASE x # p \/ pins[p].synced # local[p]
      BY <1>7, <2>1, <3>1 DEF Aligned, Versions
    <3>2. CASE x = p /\ pins[p].synced = local[p]
      <4>1. RowFiles[r] = RowFiles[p] /\ RowFiles[r] # {}
        BY <1>2, <2>1, <3>2, Views
      <4>2. r = p
        BY <4>1 DEF Aligned, OneCopy, Once
      <4> QED
        BY <3>2, <4>2
    <3> QED
      BY <3>1, <3>2
  <2>2. Versions
    BY DEF Aligned
  <2> QED
    BY <1>0, <2>1, <2>2 DEF Versions
<1>11. JobView'
  <2>1. local[p].rev \in Nat
    BY <1>2 DEF TypeOK, Content
  <2>2. pins[p].synced.rev <= local[p].rev
    <3>1. pins[p].synced.of = local[p].of
      BY <1>2
    <3> QED
      BY <1>2, <2>1, <3>1 DEF Aligned, Versions
  <2> QED
    BY <1>0, <1>2, <1>4, <1>5, <2>2 DEF JobView
<1> QED
  BY <1>8, <1>9, <1>10, <1>11 DEF Aligned

\* What is known of the save in hand.
LEMMA SaveInHand ==
    ASSUME TypeOK, Aligned, NEW j \in SaveJobs
    PROVE  /\ job = {j} /\ SaveJobs = {j} /\ RenameJobs = {}
           /\ j.remote = j.path /\ j.path \in Path /\ j.seen \in Content
           /\ drive[j.path] # None /\ drive[j.path].of = j.seen.of
           /\ local[j.path] # None /\ local[j.path].of = j.seen.of
           /\ pins[j.path] # None /\ pins[j.path].synced.of = j.seen.of
           /\ drive[j.path] \in Content /\ local[j.path] \in Content /\ pins[j.path] \in Row
           /\ j.seen.rev <= local[j.path].rev /\ pins[j.path].synced.rev <= j.seen.rev
           /\ j.step = "mark" => j.seen.rev <= drive[j.path].rev
<1>1. j.path \in Path /\ j.seen \in Content /\ j.seen.rev \in Nat
  BY JobKinds DEF Content
<1>2. /\ j.remote = j.path
      /\ DriveFiles[j.path] = {j.seen.of} /\ LocalFiles[j.path] = {j.seen.of}
      /\ RowFiles[j.path] = {j.seen.of}
      /\ pins[j.path].synced.rev <= j.seen.rev
      /\ j.step = "mark" => j.seen.rev <= drive[j.path].rev
      /\ j.seen = local[j.path] \/ j.seen.rev <= local[j.path].rev
  BY DEF Aligned, JobView
<1>3. /\ drive[j.path] # None /\ drive[j.path].of = j.seen.of
      /\ local[j.path] # None /\ local[j.path].of = j.seen.of
      /\ pins[j.path] # None /\ pins[j.path].synced.of = j.seen.of
  <2>1. drive[j.path] # None /\ local[j.path] # None /\ pins[j.path] # None
    BY <1>1, <1>2, Views
  <2>2. /\ {drive[j.path].of} = {j.seen.of} /\ {local[j.path].of} = {j.seen.of}
        /\ {pins[j.path].synced.of} = {j.seen.of}
    BY <1>1, <1>2, <2>1, Views
  <2> QED
    BY <2>1, <2>2
<1>4. drive[j.path] \in Content /\ local[j.path] \in Content /\ pins[j.path] \in Row
  BY <1>1, <1>3 DEF TypeOK
<1>5. job = {j} /\ SaveJobs = {j} /\ RenameJobs = {}
  BY JobKinds DEF SaveJobs, RenameJobs
<1> QED
  BY <1>1, <1>2, <1>3, <1>4, <1>5

\* The upload.
LEMMA UploadAligned ==
    ASSUME TypeOK, TypeOK', Apart, Aligned, NEW j \in job, Upload(j)
    PROVE  Aligned'
<1> DEFINE p == j.path
           k == [j EXCEPT !.step = "mark"]
<1>0. j \in SaveJobs /\ j.step = "upload"
  BY DEF Upload, SaveJobs, RenameJobs
<1>1. /\ job = {j} /\ SaveJobs = {j} /\ RenameJobs = {}
      /\ j.remote = p /\ p \in Path /\ j.seen \in Content
      /\ drive[p] # None /\ drive[p].of = j.seen.of
      /\ local[p] # None /\ local[p].of = j.seen.of
      /\ pins[p] # None /\ pins[p].synced.of = j.seen.of
      /\ drive[p] \in Content /\ local[p] \in Content /\ pins[p] \in Row
      /\ j.seen.rev <= local[p].rev /\ pins[p].synced.rev <= j.seen.rev
  BY <1>0, SaveInHand
<1>2. k.step = "mark" /\ k.remote = p /\ k.path = p /\ k.seen = j.seen /\ job' = {k}
  BY <1>0, <1>1, JobKinds DEF Upload
<1>3. /\ local' = local /\ pins' = pins /\ window' = window /\ inbox' = inbox
      /\ batch' = batch /\ worker' = worker /\ edits' = edits
      /\ drive' = [drive EXCEPT ![p] = local[p]]
  <2>1. [p EXCEPT !.base = p.base] = p
    BY <1>1 DEF Path
  <2> QED
    BY <1>1, <2>1 DEF Upload, boundVars
<1> HIDE DEF p, k
<1>4. drive'[p] = local[p] /\ \A x \in Path \ {p} : drive'[x] = drive[x]
  BY <1>1, <1>3 DEF TypeOK
<1>5. DriveFiles' = DriveFiles
  <2>1. \A x \in Path : FileIn(drive'[x]) = FileIn(drive[x])
    BY <1>1, <1>4 DEF FileIn
  <2> QED
    BY <2>1 DEF DriveFiles
<1>6. /\ LocalFiles' = LocalFiles /\ RowFiles' = RowFiles
      /\ RenameJobs' = {} /\ SaveJobs' = {k}
  BY <1>2, <1>3, SameViews DEF RenameJobs, SaveJobs
<1>7. Pending' \subseteq Pending
  BY <1>2, <1>3, PendingIs, PendingNew
<1>8. \A x : ChangePending(x)' <=> ChangePending(x)
  BY <1>1, <1>2, <1>3, <1>6, ChangePendingIs, ChangePendingNew DEF p
<1>9. DaemonView' /\ UserView' /\ WorkerView'
  <2>1. \A x \in Path, m \in 1 .. Len(inbox) + 1 : SentBefore(x, m)' => SentBefore(x, m)
    BY <1>1, <1>2, <1>3, <1>6 DEF SentBefore, p
  <2> QED
    BY <1>1, <1>3, <1>5, <1>6, <1>7, <1>8, <2>1, Quiet DEF Aligned
<1>10. OneCopy'
  BY <1>5, <1>6, <1>8, OneCopySame DEF Aligned
<1>11. Versions'
  <2>1. Versions /\ \A x \in Content : x.rev \in Nat
    BY DEF Aligned, Content
  <2>2. ASSUME NEW y \in Path, local[y] # None PROVE Older(local[p], local[y])
    <3>1. CASE local[p].of # local[y].of
      BY <3>1 DEF Older
    <3>2. CASE local[p].of = local[y].of
      <4>1. LocalFiles[p] = LocalFiles[y] /\ LocalFiles[p] # {}
        BY <1>1, <2>2, <3>2, Views
      <4>2. p = y
        BY <1>1, <4>1 DEF Aligned, OneCopy, Once
      <4> QED
        BY <1>1, <2>1, <4>2 DEF Older
    <3> QED
      BY <3>1, <3>2
  <2>3. ASSUME NEW r \in Path, pins[r] # None PROVE Older(pins[r].synced, local[p])
    <3>1. pins[r].synced \in Content
      BY <2>3 DEF TypeOK, Row
    <3> QED
      BY <1>1, <2>1, <2>3, <3>1 DEF Older, Versions
  <2>4. \A x, y \in Path : drive'[x] # None /\ local[y] # None => Older(drive'[x], local[y])
    BY <1>4, <2>1, <2>2 DEF Versions
  <2>5. \A r, x \in Path : pins[r] # None /\ drive'[x] # None => Older(pins[r].synced, drive'[x])
    BY <1>4, <2>1, <2>3 DEF Versions
  <2>6. \A x \in Path : local[x] # None => local[x].rev <= edits
    BY <2>1 DEF Versions
  <2>7. \A r, x \in Path :
          pins[r] # None /\ local[x] # None /\ pins[r].synced.of = local[x].of =>
              \/ pins[r].synced = local[x]
              \/ pins[r].synced.rev <= local[x].rev /\ ChangePending(x)'
    BY <1>8, <2>1 DEF Versions
  <2> QED
    BY <1>3, <2>4, <2>5, <2>6, <2>7 DEF Versions
<1>12. JobView'
  <2>1. /\ DriveFiles[p] = {j.seen.of} /\ LocalFiles[p] = {j.seen.of}
        /\ RowFiles[p] = {j.seen.of}
        /\ \/ j.seen = local[p]
           \/ j.seen.rev <= local[p].rev /\ \E b \in Batches : p \in b.changed
    BY <1>0 DEF Aligned, JobView, p
  <2>2. Batches' = Batches
    BY <1>3, BatchesAre
  <2> QED
    BY <1>1, <1>2, <1>3, <1>4, <1>5, <1>6, <2>1, <2>2 DEF JobView
<1> QED
  BY <1>9, <1>10, <1>11, <1>12 DEF Aligned

\* The row learns what was uploaded.
LEMMA MarkSyncedAligned ==
    ASSUME TypeOK, TypeOK', Apart, Aligned, NEW j \in job, MarkSynced(j)
    PROVE  Aligned'
<1> DEFINE p == j.path
<1>0. j \in SaveJobs /\ j.step = "mark"
  BY DEF MarkSynced, SaveJobs, RenameJobs
<1>1. /\ job = {j} /\ SaveJobs = {j} /\ RenameJobs = {}
      /\ j.remote = p /\ p \in Path /\ j.seen \in Content
      /\ drive[p] # None /\ drive[p].of = j.seen.of
      /\ local[p] # None /\ local[p].of = j.seen.of
      /\ pins[p] # None /\ pins[p].synced.of = j.seen.of
      /\ drive[p] \in Content /\ local[p] \in Content /\ pins[p] \in Row
      /\ j.seen.rev <= local[p].rev /\ pins[p].synced.rev <= j.seen.rev
      /\ j.seen.rev <= drive[p].rev
  BY <1>0, SaveInHand
<1>2. /\ drive' = drive /\ local' = local /\ window' = window /\ inbox' = inbox
      /\ batch' = batch /\ worker' = worker /\ edits' = edits /\ job' = {}
      /\ pins' = [pins EXCEPT ![p] = [pins[p] EXCEPT !.synced = j.seen]]
  BY <1>1 DEF MarkSynced, boundVars
<1>3. j.seen = local[p] \/ \E b \in Batches : p \in b.changed
  BY <1>0 DEF Aligned, JobView
<1>a. p = j.path
  OBVIOUS
<1> HIDE DEF p
<1>4. /\ pins'[p].synced = j.seen /\ pins'[p] # None
      /\ \A x \in Path \ {p} : pins'[x] = pins[x]
  <2>1. /\ [pins[p] EXCEPT !.synced = j.seen] \in Row
        /\ [pins[p] EXCEPT !.synced = j.seen].synced = j.seen
    BY <1>1 DEF Row
  <2> QED
    BY <1>1, <1>2, <2>1, NotNone DEF TypeOK
<1>5. RowFiles' = RowFiles
  <2>1. RowFiles \in View /\ RowFiles' \in View
    BY Views, ViewsNext
  <2>2. \A x \in Path : RowFiles'[x] = RowFiles[x]
    BY <1>1, <1>4 DEF RowFiles
  <2> QED
    BY <2>1, <2>2 DEF View
<1>6. /\ DriveFiles' = DriveFiles /\ LocalFiles' = LocalFiles
      /\ RenameJobs' = {} /\ SaveJobs' = {}
  BY <1>2, SameViews DEF RenameJobs, SaveJobs
<1>7. Pending' \subseteq Pending
  BY <1>2, PendingIs, PendingNew
<1>8. /\ \A x : ChangePending(x)' => ChangePending(x)
      /\ \A x : ChangePending(x) => ChangePending(x)' \/ (x = p /\ j.seen = local[p])
  <2>1. \A x : ChangePending(x)' => ChangePending(x)
    BY <1>2, <1>6, ChangePendingIs, ChangePendingNew
  <2>2. \A x : ChangePending(x) /\ x # p => ChangePending(x)'
    BY <1>1, <1>2, <1>a, ChangePendingIs, ChangePendingNew
  <2>3. j.seen = local[p] \/ ChangePending(p)'
    BY <1>2, <1>3, ChangePendingNew, BatchesAre
  <2> QED
    BY <2>1, <2>2, <2>3
<1>9. DaemonView' /\ UserView' /\ WorkerView'
  <2>1. \A x \in Path, m \in 1 .. Len(inbox) + 1 : SentBefore(x, m)' => SentBefore(x, m)
    BY <1>2, <1>6 DEF SentBefore
  <2> QED
    BY <1>1, <1>2, <1>5, <1>6, <1>7, <1>8, <2>1, Quiet DEF Aligned
<1>10. OneCopy'
  BY <1>5, <1>6, <1>8, OneCopySame DEF Aligned
<1>11. Versions'
  <2>1. Versions /\ \A x \in Content : x.rev \in Nat
    BY DEF Aligned, Content
  <2>2. ASSUME NEW x \in Path, drive[x] # None PROVE Older(j.seen, drive[x])
    <3>1. CASE drive[x].of # j.seen.of
      BY <3>1 DEF Older
    <3>2. CASE drive[x].of = j.seen.of
      <4>1. DriveFiles[x] = DriveFiles[p] /\ DriveFiles[x] # {}
        <5>1. DriveFiles[x] = {drive[x].of} /\ DriveFiles[p] = {drive[p].of}
          BY <1>1, <2>2, Views
        <5> QED
          BY <1>1, <3>2, <5>1
      <4>2. x = p
        BY <1>1, <4>1 DEF Aligned, OneCopy, Once
      <4> QED
        BY <1>1, <4>2 DEF Older
    <3> QED
      BY <3>1, <3>2
  <2>3. \A r, x \in Path : pins'[r] # None /\ drive[x] # None => Older(pins'[r].synced, drive[x])
    BY <1>4, <2>1, <2>2 DEF Versions
  <2>4. ASSUME NEW r \in Path, NEW x \in Path, pins'[r] # None, local[x] # None,
               pins'[r].synced.of = local[x].of
        PROVE  \/ pins'[r].synced = local[x]
               \/ pins'[r].synced.rev <= local[x].rev /\ ChangePending(x)'
    <3>1. CASE r = p
      <4>1. LocalFiles[x] = LocalFiles[p] /\ LocalFiles[x] # {}
        <5>1. LocalFiles[x] = {local[x].of} /\ LocalFiles[p] = {local[p].of}
          BY <1>1, <2>4, Views
        <5> QED
          BY <1>1, <1>4, <2>4, <3>1, <5>1
      <4>2. x = p
        BY <1>1, <4>1 DEF Aligned, OneCopy, Once
      <4>3. j.seen = local[p] \/ ChangePending(p)'
        BY <1>2, <1>3, ChangePendingNew, BatchesAre
      <4> QED
        BY <1>1, <1>4, <3>1, <4>2, <4>3
    <3>2. CASE r # p
      <4>1. x # p
        <5> SUFFICES ASSUME x = p PROVE FALSE
          OBVIOUS
        <5>1. pins[r] # None /\ pins[r].synced.of = local[p].of
          BY <1>1, <1>4, <2>4, <3>2
        <5>2. RowFiles[r] = {pins[r].synced.of} /\ RowFiles[p] = {pins[p].synced.of}
          BY <1>1, <5>1, Views
        <5>3. RowFiles[r] = RowFiles[p] /\ RowFiles[r] # {}
          BY <1>1, <5>1, <5>2
        <5> QED
          BY <1>1, <3>2, <5>3 DEF Aligned, OneCopy, Once
      <4> QED
        BY <1>4, <1>8, <2>1, <2>4, <3>2, <4>1 DEF Versions
    <3> QED
      BY <3>1, <3>2
  <2> QED
    BY <1>2, <2>1, <2>3, <2>4 DEF Versions
<1>12. JobView'
  BY <1>6 DEF JobView
<1> QED
  BY <1>9, <1>10, <1>11, <1>12 DEF Aligned

-----------------------------------------------------------------------------
(***************************************************************************)
(* The main loop's rename: the CLI calls and the row.                      *)
(***************************************************************************)

LEMMA ShiftedApart ==
    ASSUME NEW v \in View, NEW p \in Path, NEW q \in Path, p # q
    PROVE  /\ Shifted(v, p, q) \in View
           /\ Shifted(v, p, q)[q] = v[p]
           /\ Shifted(v, p, q)[p] = {}
           /\ \A x \in Path \ {p, q} : Shifted(v, p, q)[x] = v[x]
BY ShiftedIs

\* A row goes where there is none.
LEMMA RowMoved ==
    ASSUME TypeOK, TypeOK', NEW p \in Path, NEW q \in Path, NEW to \in Path, p # q,
           pins[p] # None, pins[q] = None, pins' = Rekeyed(p, q, to)
    PROVE  /\ RowFiles' = Shifted(RowFiles, p, q)
           /\ \A r \in Path : pins'[r] # None =>
                \E s \in Path : pins[s] # None /\ pins[s].synced = pins'[r].synced
           /\ \A x \in Path \ {p, q} : pins'[x] = pins[x]
<1>1. pins \in [Path -> Row \cup {None}] /\ pins[p] \in Row
  BY DEF TypeOK
<1>2. /\ [pins[p] EXCEPT !.local = to].synced = pins[p].synced
      /\ [pins[p] EXCEPT !.local = to] # None
  <2>1. [pins[p] EXCEPT !.local = to] \in Row
    BY <1>1 DEF Row
  <2> QED
    BY <1>1, <2>1, NotNone DEF Row
<1>3. /\ pins'[q].synced = pins[p].synced /\ pins'[q] # None /\ pins'[p] = None
      /\ \A x \in Path \ {p, q} : pins'[x] = pins[x]
  BY <1>1, <1>2 DEF Rekeyed
<1>4. RowFiles \in View /\ RowFiles' \in View
  BY Views, ViewsNext
<1>5. /\ RowFiles'[q] = RowFiles[p] /\ RowFiles'[p] = {}
      /\ \A x \in Path \ {p, q} : RowFiles'[x] = RowFiles[x]
  BY <1>3 DEF RowFiles
<1>6. RowFiles' = Shifted(RowFiles, p, q)
  <2> DEFINE w == Shifted(RowFiles, p, q)
  <2>1. /\ w \in View /\ w[q] = RowFiles[p] /\ w[p] = {}
        /\ \A x \in Path \ {p, q} : w[x] = RowFiles[x]
    BY <1>4, ShiftedApart
  <2> HIDE DEF w
  <2>2. \A x \in Path : RowFiles'[x] = w[x]
    <3>1. RowFiles'[q] = w[q] /\ RowFiles'[p] = w[p]
      BY <1>5, <2>1
    <3> QED
      BY <1>5, <2>1, <3>1
  <2>3. RowFiles' = w
    BY <1>4, <2>1, <2>2 DEF View
  <2> QED
    BY <2>3 DEF w
<1> QED
  BY <1>1, <1>3, <1>6

\* What is known of the rename in hand.
LEMMA RenameInHand ==
    ASSUME TypeOK, Apart, Aligned, NEW j \in RenameJobs
    PROVE  /\ job = {j} /\ RenameJobs = {j} /\ SaveJobs = {}
           /\ UserSide /\ worker = {} /\ j.ren \in Pending
           /\ j \in [step : {"move", "rename", "rekey", "keep"}, remote : Path,
                     ren : Renaming, at : Path]
           /\ j.ren.from \in Path /\ j.ren.to \in Path
           /\ j.remote = j.ren.from /\ RowFiles[j.remote] # {}
           /\ DriveFiles = Shifted(RowFiles, j.remote,
                                   IF j.step = "rekey" THEN j.ren.to ELSE j.at)
           /\ j.step = "move" => j.at = j.remote /\ j.at.dir # j.ren.to.dir
           /\ j.step = "rename" =>
                /\ j.at.dir = j.ren.to.dir /\ j.at.base = j.remote.base
                /\ j.at # j.remote => RowFiles[j.at] = {}
           /\ j.step = "rekey" => RowFiles[j.ren.to] = {}
           /\ Target = Shifted(RowFiles, j.remote, j.ren.to)
<1>1. job = {j} /\ RenameJobs = {j} /\ SaveJobs = {}
  BY JobKinds DEF SaveJobs, RenameJobs
<1>2. UserSide /\ worker = {}
  BY <1>1, Sides DEF UserSide
<1>3. j.ren \in Pending
  BY PendingIs DEF RenameJobs
<1>4. /\ j \in [step : {"move", "rename", "rekey", "keep"}, remote : Path,
                ren : Renaming, at : Path]
      /\ j.ren.from \in Path /\ j.ren.to \in Path
  BY JobKinds
<1>5. Target = Shifted(RowFiles, j.remote, j.ren.to)
  BY TargetIs
<1>6. DaemonView
  BY DEF Aligned
<1> QED
  BY <1>1, <1>2, <1>3, <1>4, <1>5, <1>6 DEF DaemonView

\* A step of the rename in hand that leaves the target as it was.
LEMMA RenameStepAligned ==
    ASSUME TypeOK, TypeOK', Aligned, UserSide, SaveJobs = {}, SaveJobs' = {},
           local' = local, window' = window, inbox' = inbox, batch' = batch,
           worker' = worker, edits' = edits, Pending' \subseteq Pending,
           DaemonView', Target' = Target, ~Blocked' => ~Blocked,
           Once(DriveFiles)', Once(RowFiles)',
           \A p \in Path : drive'[p] # None => \E q \in Path : drive[q] = drive'[p],
           \A r \in Path : pins'[r] # None =>
                \E s \in Path : pins[s] # None /\ pins[s].synced = pins'[r].synced
    PROVE  Aligned'
<1>1. LocalFiles' = LocalFiles
  BY SameViews
<1>2. \A x : ChangePending(x)' <=> ChangePending(x)
  BY ChangePendingIs, ChangePendingNew
<1>3. UserSide'
  BY DEF UserSide
<1>4. UserView'
  <2> SUFFICES ASSUME ~Blocked' PROVE \E V \in Seq(View) : Chain(V)'
    BY DEF UserView
  <2>1. PICK V \in Seq(View) : Chain(V)
    BY DEF Aligned, UserView
  <2>2. \A p \in Path, k \in DOMAIN V : SentBefore(p, k)' => SentBefore(p, k)
    BY DEF SentBefore
  <2>3. Chain(V)'
    BY <1>1, <2>1, <2>2, ChainSame
  <2> QED
    BY <2>3
<1>5. WorkerView'
  BY <1>3, <1>4, UserSettlesNext
<1>6. OneCopy'
  BY <1>1, <1>2 DEF Aligned, OneCopy, Once
<1>7. Versions'
  BY <1>2, VersionsMove DEF Aligned
<1>8. JobView'
  BY DEF JobView
<1> QED
  BY <1>4, <1>5, <1>6, <1>7, <1>8 DEF Aligned

\* The first CLI call of a rename to another folder.
LEMMA MoveAligned ==
    ASSUME TypeOK, TypeOK', Apart, Aligned, NEW j \in job, Move(j)
    PROVE  Aligned'
<1> DEFINE q == [j.at EXCEPT !.dir = j.ren.to.dir]
           p == j.at
<1>0. j \in RenameJobs /\ j.step = "move"
  BY DEF Move, RenameJobs
<1>1. /\ job = {j} /\ RenameJobs = {j} /\ SaveJobs = {}
      /\ UserSide /\ worker = {} /\ j.ren \in Pending
      /\ j \in [step : {"move", "rename", "rekey", "keep"}, remote : Path,
                ren : Renaming, at : Path]
      /\ j.ren.from \in Path /\ j.ren.to \in Path
      /\ j.remote = j.ren.from /\ RowFiles[j.remote] # {}
      /\ p = j.remote /\ p.dir # j.ren.to.dir
      /\ DriveFiles = Shifted(RowFiles, j.remote, p)
      /\ Target = Shifted(RowFiles, j.remote, j.ren.to)
  BY <1>0, RenameInHand
<1>2. /\ p \in Path /\ q \in Path /\ p # q /\ q.dir = j.ren.to.dir /\ q.base = p.base
      /\ j.ren.from.base = j.ren.to.base => q = j.ren.to
      /\ j.ren.from.base # j.ren.to.base => q # j.ren.to
      /\ [q EXCEPT !.base = j.ren.from.base] = q
      /\ j.ren.to # p
  BY <1>1 DEF Path
<1>3. DriveFiles = RowFiles /\ RowFiles \in View
  BY <1>1, <1>2, Views, ShiftedSelf
<1>4. /\ drive[p] # None /\ drive[q] = None /\ drive' = MovedTo(drive, p, q)
      /\ local' = local /\ pins' = pins /\ window' = window /\ inbox' = inbox
      /\ batch' = batch /\ worker' = worker /\ edits' = edits
      /\ job' = {IF j.ren.from.base = j.ren.to.base
                 THEN [j EXCEPT !.step = "rekey"]
                 ELSE [j EXCEPT !.step = "rename", !.at = q]}
  BY <1>2 DEF Move, CanMove, boundVars
<1> HIDE DEF q, p
<1>5. /\ DriveFiles' = Shifted(DriveFiles, p, q)
      /\ drive'[q] = drive[p] /\ drive'[p] = None
      /\ \A x \in Path \ {p, q} : drive'[x] = drive[x]
  BY <1>2, <1>4, DriveMoved
<1>6. RowFiles' = RowFiles
  BY <1>4, SameViews
<1>7. PICK k \in job' :
        /\ job' = {k} /\ k.remote = j.remote /\ k.ren = j.ren
        /\ j.ren.from.base = j.ren.to.base => k.step = "rekey"
        /\ j.ren.from.base # j.ren.to.base => k.step = "rename" /\ k.at = q
  <2>1. /\ [j EXCEPT !.step = "rekey"].remote = j.remote
        /\ [j EXCEPT !.step = "rekey"].ren = j.ren
        /\ [j EXCEPT !.step = "rekey"].step = "rekey"
    BY <1>1
  <2>2. /\ [j EXCEPT !.step = "rename", !.at = q].remote = j.remote
        /\ [j EXCEPT !.step = "rename", !.at = q].ren = j.ren
        /\ [j EXCEPT !.step = "rename", !.at = q].step = "rename"
        /\ [j EXCEPT !.step = "rename", !.at = q].at = q
    BY <1>1
  <2> QED
    BY <1>4, <2>1, <2>2
<1>8. RenameJobs' = {k} /\ SaveJobs' = {}
  BY <1>7 DEF RenameJobs, SaveJobs
<1>9. DaemonView'
  <2>1. DriveFiles' = Shifted(RowFiles', k.remote, IF k.step = "rekey" THEN k.ren.to ELSE k.at)
    BY <1>1, <1>2, <1>3, <1>5, <1>6, <1>7
  <2>2. RowFiles[q] = {}
    BY <1>2, <1>3, <1>4, Views
  <2>3. k.step \in {"rename", "rekey"} /\ RowFiles'[k.remote] # {} /\ k.remote = k.ren.from
    BY <1>1, <1>6, <1>7
  <2>4. k.step = "rename" => k.at.dir = k.ren.to.dir /\ k.at.base = k.remote.base
                             /\ RowFiles'[k.at] = {}
    BY <1>1, <1>2, <1>6, <1>7, <2>2
  <2>5. k.step = "rekey" => RowFiles'[k.ren.to] = {}
    BY <1>2, <1>6, <1>7, <2>2
  <2> QED
    BY <1>8, <2>1, <2>3, <2>4, <2>5 DEF DaemonView
<1>10. Target' = Target
  BY <1>1, <1>6, <1>7, <1>8, TargetNext
<1>11. ASSUME ~Blocked' PROVE ~Blocked
  <2>1. DriveFiles[j.ren.to] = {}
    <3>1. CASE j.ren.from.base = j.ren.to.base
      BY <1>2, <1>4, <3>1, Views
    <3>2. CASE j.ren.from.base # j.ren.to.base
      <4>1. DriveFiles'[j.ren.to] = {}
        BY <1>7, <1>8, <1>11, <3>2, BlockedNext
      <4>2. drive'[j.ren.to] = drive[j.ren.to]
        BY <1>1, <1>2, <1>5, <3>2
      <4> QED
        BY <1>1, <4>1, <4>2, Views, ViewsNext
    <3> QED
      BY <3>1, <3>2
  <2> QED
    BY <1>1, <2>1, BlockedIs
<1>12. Once(DriveFiles)' /\ Once(RowFiles)'
  <2>1. Once(Shifted(DriveFiles, p, q))
    BY <1>2, <1>3, ShiftedOnce DEF Aligned, OneCopy
  <2>2. Once(DriveFiles)'
    BY <1>5, <2>1 DEF Once
  <2> QED
    BY <1>6, <2>2 DEF Aligned, OneCopy, Once
<1>13. Pending' \subseteq Pending
  BY <1>1, <1>4, <1>7, PendingIs, PendingNew
<1>14. \A x \in Path : drive'[x] # None => \E y \in Path : drive[y] = drive'[x]
  BY <1>2, <1>5
<1> QED
  BY <1>1, <1>4, <1>8, <1>9, <1>10, <1>11, <1>12, <1>13, <1>14, RenameStepAligned

\* The last CLI call: the new name.
LEMMA RenameNodeAligned ==
    ASSUME TypeOK, TypeOK', Apart, Aligned, NEW j \in job, RenameNode(j)
    PROVE  Aligned'
<1> DEFINE q == j.ren.to
           p == j.at
           r == j.remote
<1>0. j \in RenameJobs /\ j.step = "rename"
  BY DEF RenameNode, RenameJobs
<1>1. /\ job = {j} /\ RenameJobs = {j} /\ SaveJobs = {}
      /\ UserSide /\ worker = {} /\ j.ren \in Pending
      /\ j \in [step : {"move", "rename", "rekey", "keep"}, remote : Path,
                ren : Renaming, at : Path]
      /\ q \in Path /\ r = j.ren.from /\ RowFiles[r] # {}
      /\ p.dir = q.dir /\ p.base = r.base
      /\ p # r => RowFiles[p] = {}
  BY <1>0, RenameInHand
<1>a. DriveFiles = Shifted(RowFiles, r, p) /\ Target = Shifted(RowFiles, r, q)
  BY <1>0, RenameInHand
<1>2. p \in Path /\ r \in Path /\ [p EXCEPT !.base = q.base] = q
  BY <1>1 DEF Path
<1>3. /\ drive[p] # None /\ drive[q] = None /\ drive' = MovedTo(drive, p, q)
      /\ local' = local /\ pins' = pins /\ window' = window /\ inbox' = inbox
      /\ batch' = batch /\ worker' = worker /\ edits' = edits
      /\ job' = {[j EXCEPT !.step = "rekey"]}
  BY <1>2 DEF RenameNode, CanMove, boundVars
<1>4. q # p /\ q # r
  <2>1. q # p
    BY <1>3
  <2>2. p # r => p.dir # r.dir
    BY <1>1, <1>2 DEF Path
  <2> QED
    BY <1>1, <2>1, <2>2
<1> DEFINE k == [j EXCEPT !.step = "rekey"]
<1>5. k.step = "rekey" /\ k.remote = r /\ k.ren = j.ren /\ k.ren.to = q /\ job' = {k}
  BY <1>1, <1>3
<1>b. q = j.ren.to /\ r = j.remote
  OBVIOUS
<1> HIDE DEF q, p, r, k
<1>6. /\ DriveFiles' = Shifted(DriveFiles, p, q)
      /\ drive'[q] = drive[p] /\ drive'[p] = None
      /\ \A x \in Path \ {p, q} : drive'[x] = drive[x]
  BY <1>1, <1>2, <1>3, <1>4, DriveMoved
<1>7. RowFiles' = RowFiles /\ RowFiles \in View /\ DriveFiles \in View
  BY <1>3, SameViews, Views
<1>8. RenameJobs' = {k} /\ SaveJobs' = {}
  BY <1>5 DEF RenameJobs, SaveJobs
<1>9. RowFiles[q] = {}
  <2>1. DriveFiles[q] = {}
    BY <1>1, <1>3, Views
  <2>2. q \in Path /\ RowFiles \in View
    BY <1>1, <1>7
  <2>3. Shifted(RowFiles, r, p)[q] = RowFiles[q]
    BY <1>2, <1>4, <2>2 DEF Shifted, View
  <2> QED
    BY <1>a, <2>1, <2>3
<1>10. DriveFiles' = Shifted(RowFiles, r, q)
  <2>1. CASE p = r
    BY <1>2, <1>6, <1>7, <1>a, <2>1, ShiftedSelf
  <2>2. CASE p # r
    <3> DEFINE w == Shifted(RowFiles, r, q)
               u == Shifted(DriveFiles, p, q)
    <3>0. q \in Path
      BY <1>1
    <3>1. /\ w \in View /\ w[q] = RowFiles[r] /\ w[r] = {}
          /\ \A x \in Path \ {r, q} : w[x] = RowFiles[x]
      BY <1>2, <1>4, <1>7, <3>0, ShiftedApart
    <3>2. /\ u \in View /\ u[q] = DriveFiles[p] /\ u[p] = {}
          /\ \A x \in Path \ {p, q} : u[x] = DriveFiles[x]
      BY <1>2, <1>4, <1>7, <3>0, ShiftedApart
    <3>3. /\ DriveFiles[p] = RowFiles[r] /\ DriveFiles[r] = {}
          /\ \A x \in Path \ {r, p} : DriveFiles[x] = RowFiles[x]
      <4> DEFINE m == Shifted(RowFiles, r, p)
      <4>1. /\ m[p] = RowFiles[r] /\ m[r] = {}
            /\ \A x \in Path \ {r, p} : m[x] = RowFiles[x]
        BY <1>2, <1>7, <2>2, ShiftedApart
      <4> QED
        BY <1>a, <4>1
    <3> HIDE DEF w, u
    <3>4. u[q] = w[q] /\ u[p] = w[p] /\ u[r] = w[r]
      BY <1>1, <1>2, <1>4, <2>2, <3>1, <3>2, <3>3
    <3>5. \A x \in Path : u[x] = w[x]
      BY <3>1, <3>2, <3>3, <3>4
    <3>6. u = w
      BY <3>1, <3>2, <3>5 DEF View
    <3> QED
      BY <1>6, <3>6 DEF u, w
  <2> QED
    BY <2>1, <2>2
<1>11. DaemonView'
  <2>1. DriveFiles' = Shifted(RowFiles', k.remote, k.ren.to)
    BY <1>5, <1>7, <1>10
  <2>2. k.step = "rekey" /\ RowFiles'[k.remote] # {} /\ k.remote = k.ren.from
        /\ RowFiles'[k.ren.to] = {}
    BY <1>1, <1>5, <1>7, <1>9
  <2> QED
    BY <1>8, <2>1, <2>2 DEF DaemonView
<1>12. Target' = Target
  BY <1>5, <1>7, <1>8, <1>a, TargetNext
<1>13. ~Blocked
  <2>1. DriveFiles[q] = {}
    BY <1>1, <1>3, Views
  <2> QED
    BY <1>1, <1>b, <2>1, BlockedIs
<1>14. Once(DriveFiles)' /\ Once(RowFiles)'
  <2>1. Once(Shifted(DriveFiles, p, q))
    BY <1>1, <1>2, <1>7, ShiftedOnce DEF Aligned, OneCopy
  <2>2. Once(DriveFiles)'
    BY <1>6, <2>1 DEF Once
  <2> QED
    BY <1>7, <2>2 DEF Aligned, OneCopy, Once
<1>15. Pending' \subseteq Pending
  BY <1>1, <1>3, <1>5, PendingIs, PendingNew
<1>16. \A x \in Path : drive'[x] # None => \E y \in Path : drive[y] = drive'[x]
  BY <1>1, <1>2, <1>6
<1> QED
  BY <1>1, <1>3, <1>8, <1>11, <1>12, <1>13, <1>14, <1>15, <1>16, RenameStepAligned

\* The row follows.
LEMMA RekeyAligned ==
    ASSUME TypeOK, TypeOK', Apart, Aligned, NEW j \in job, Rekey(j)
    PROVE  Aligned'
<1> DEFINE q == j.ren.to
           r == j.remote
<1>0. j \in RenameJobs /\ j.step = "rekey"
  BY DEF Rekey, RenameJobs
<1>1. /\ job = {j} /\ RenameJobs = {j} /\ SaveJobs = {}
      /\ UserSide /\ worker = {}
      /\ q \in Path /\ r \in Path /\ RowFiles[r] # {} /\ RowFiles[q] = {}
  BY <1>0, RenameInHand
<1>2. DriveFiles = Shifted(RowFiles, r, q) /\ Target = Shifted(RowFiles, r, q)
  BY <1>0, RenameInHand
<1>3. /\ drive' = drive /\ pins' = Rekeyed(r, q, q) /\ job' = {}
      /\ local' = local /\ window' = window /\ inbox' = inbox
      /\ batch' = batch /\ worker' = worker /\ edits' = edits
  BY DEF Rekey, boundVars
<1> HIDE DEF q, r
<1>4. /\ r # q /\ pins[r] # None /\ pins[q] = None
  BY <1>1, Views
<1>5. /\ RowFiles' = Shifted(RowFiles, r, q)
      /\ \A x \in Path : pins'[x] # None =>
            \E s \in Path : pins[s] # None /\ pins[s].synced = pins'[x].synced
  BY <1>1, <1>3, <1>4, RowMoved
<1>6. DriveFiles' = DriveFiles /\ RenameJobs' = {} /\ SaveJobs' = {}
  BY <1>3, SameViews DEF RenameJobs, SaveJobs
<1>7. DaemonView'
  BY <1>2, <1>5, <1>6 DEF DaemonView
<1>8. Target' = Target
  BY <1>2, <1>5, <1>6, TargetNext
<1>9. ~Blocked
  BY <1>0, <1>1 DEF Blocked
<1>10. Once(DriveFiles)' /\ Once(RowFiles)'
  <2>1. Once(Shifted(RowFiles, r, q))
    BY <1>1, Views, ShiftedOnce DEF Aligned, OneCopy
  <2>2. Once(RowFiles)'
    BY <1>5, <2>1 DEF Once
  <2> QED
    BY <1>6, <2>2 DEF Aligned, OneCopy, Once
<1>11. Pending' \subseteq Pending
  BY <1>3, PendingIs, PendingNew
<1> QED
  BY <1>1, <1>3, <1>5, <1>6, <1>7, <1>8, <1>9, <1>10, <1>11, RenameStepAligned

-----------------------------------------------------------------------------
(***************************************************************************)
(* The worker renames on Drive, and asks for the rows.                     *)
(***************************************************************************)

LEMMA NoRenameJobs ==
    TypeOK /\ Apart /\ (\A n \in Pending : ~n.byUser) => RenameJobs = {}
BY PendingIs DEF RenameJobs, Apart, JobsAreUsers

\* The worker has done all it had to do, and Drive, the rows and the cache
\* directory are the same.
LEMMA WorkerDone ==
    ASSUME TypeOK', worker' = {}, RenameJobs' = {}, RowFiles' = DriveFiles',
           DriveFiles' = LocalFiles', \A n \in Pending' : ~n.byUser
    PROVE  DaemonView' /\ UserView' /\ WorkerView'
<1>1. DaemonView'
  BY DEF DaemonView
<1>2. WorkerView'
  BY DEF WorkerView
<1>3. UserView'
  <2> SUFFICES ASSUME UserSide' PROVE UserView'
    BY DEF UserView
  <2>1. (Pending = {})' /\ (worker = {})'
    BY DEF UserSide
  <2> QED
    BY <1>1, <1>2, <2>1, SettledChainNext
<1> QED
  BY <1>1, <1>2, <1>3

\* The worker is at work: only OnTheWay matters.
LEMMA WorkerGoesOn ==
    ASSUME NEW y, worker' = {y}, OnTheWay(y)'
    PROVE  DaemonView' /\ UserView' /\ WorkerView'
BY DEF DaemonView, UserView, UserSide, WorkerView

LEMMA ContinueStep ==
    ASSUME TypeInv, NEW x \in worker, NEW todo \in SUBSET Pin, Continue(x, todo)
    PROVE  /\ todo = {} => worker' = {}
           /\ todo # {} => \E y : /\ worker' = {y} /\ y.step = "rekey"
                                  /\ y.old = x.old /\ y.new = x.new
                                  /\ y.todo = todo /\ y.now = {}
<1> DEFINE y == [x EXCEPT !.step = "rekey", !.todo = todo, !.now = {}]
<1>1. x \in Rename
  BY WorkerIs
<1>2. y.step = "rekey" /\ y.old = x.old /\ y.new = x.new /\ y.todo = todo /\ y.now = {}
  BY <1>1 DEF Rename
<1>3. worker' = IF todo = {} THEN {} ELSE {y}
  BY DEF Continue
<1> HIDE DEF y
<1> QED
  BY <1>2, <1>3

\* What a file the worker still has to move looks like.
LEMMA MovingIs ==
    ASSUME TypeInv, Aligned, NEW x \in worker, NEW p \in Moving(x)
    PROVE  /\ p \in Path /\ Under(p, x.old) /\ ~ChangePending(p)
           /\ Image(p, x.old, x.new) \in Path /\ p # Image(p, x.old, x.new)
           /\ Image(Image(p, x.old, x.new), x.new, x.old) = p
           /\ LocalFiles[p] # {} /\ DriveFiles[p] = {}
           /\ LocalFiles[Image(p, x.old, x.new)] = {}
           /\ DriveFiles[Image(p, x.old, x.new)] = LocalFiles[p]
<1>1. OnTheWay(x)
  BY DEF Aligned, WorkerView
<1>2. p \in Path
  BY WorkerIs DEF Moving
<1>3. /\ Under(p, x.old) /\ ~ChangePending(p)
      /\ LocalFiles[p] # {} /\ DriveFiles[p] = {}
      /\ LocalFiles[Image(p, x.old, x.new)] = {}
      /\ DriveFiles[Image(p, x.old, x.new)] = LocalFiles[p]
  BY <1>1 DEF OnTheWay
<1>4. Image(p, x.old, x.new) \in Path /\ Image(Image(p, x.old, x.new), x.new, x.old) = p
  BY <1>2, <1>3, WorkerIs, ImageIs
<1> QED
  BY <1>2, <1>3, <1>4

LEMMA WorkerRenameAligned ==
    ASSUME {"Overlap", "Undo", "Lag"} \cap Environment = {}, TypeInv, TypeInv', Apart, Aligned,
           NEW old, NEW new, Shape(old, new), WorkerRename(old, new)
    PROVE  Aligned'
<1> DEFINE from == {p \in Path : Under(p, old) /\ drive[p] # None}
           to == {Image(p, old, new) : p \in from}
           x == [step |-> "select", old |-> old, new |-> new, todo |-> {}, now |-> {}]
<1>a. TypeOK /\ TypeOK'
  BY DEF TypeInv
<1>0. /\ local' = local /\ pins' = pins /\ window' = window /\ inbox' = inbox
      /\ batch' = batch /\ job' = job /\ edits' = edits /\ worker = {}
      /\ worker' = {x}
      /\ \A n \in Pending : ~n.byUser
      /\ \A p \in from : ~SaveUnderWay(p) /\ p \notin window.changed
      /\ \A q \in Path : Under(q, new) => drive[q] = None
  BY DEF WorkerRename, loopVars
<1>1. drive' = [q \in Path |-> IF q \in to THEN drive[Image(q, new, old)]
                               ELSE IF q \in from THEN None ELSE drive[q]]
  BY DEF WorkerRename
<1>2. /\ from \subseteq Path /\ to \subseteq Path
      /\ \A p \in from : /\ Under(p, old) /\ drive[p] # None
                         /\ Image(p, old, new) \in to
                         /\ Image(Image(p, old, new), new, old) = p
      /\ \A q \in to : /\ Image(q, new, old) \in from /\ drive[q] = None
                       /\ q = Image(Image(q, new, old), old, new)
  BY <1>0, ImageIs
<1>3. \A p : p \in from <=> p \in Path /\ Under(p, old) /\ drive[p] # None
  OBVIOUS
<1>4. x.step = "select" /\ x.old = old /\ x.new = new /\ x.todo = {} /\ x.now = {}
  OBVIOUS
<1> HIDE DEF from, to, x
<1>5. /\ \A q \in to : drive'[q] = drive[Image(q, new, old)]
      /\ \A q \in from : drive'[q] = None
      /\ \A q \in Path : q \notin to /\ q \notin from => drive'[q] = drive[q]
  BY <1>1, <1>2
<1>6. /\ LocalFiles' = LocalFiles /\ RowFiles' = RowFiles
      /\ RenameJobs' = RenameJobs /\ SaveJobs' = SaveJobs /\ RenameJobs = {}
  BY <1>0, <1>a, SameViews, NoRenameJobs
<1>7. DriveFiles = LocalFiles /\ RowFiles = LocalFiles
  BY <1>0, <1>6 DEF Aligned, DaemonView, WorkerView
<1>8. /\ \A p \in Path : DriveFiles'[p] = FileIn(drive'[p]) /\ DriveFiles[p] = FileIn(drive[p])
      /\ FileIn(None) = {}
      /\ \A p \in Path : DriveFiles[p] = {} <=> drive[p] = None
  BY <1>a, Views DEF DriveFiles, FileIn
<1>9. /\ \A q \in to : DriveFiles'[q] = DriveFiles[Image(q, new, old)]
      /\ \A q \in from : DriveFiles'[q] = {}
      /\ \A q \in Path : q \notin to /\ q \notin from => DriveFiles'[q] = DriveFiles[q]
  BY <1>2, <1>5, <1>8
<1>10. \A p : ChangePending(p)' <=> ChangePending(p)
  BY <1>0, <1>6, ChangePendingIs, ChangePendingNew
<1>11. \A p \in from : ~ChangePending(p)
  BY <1>0, <1>a, UnderWayIs, ChangePendingIs
<1>12. OnTheWay(x)'
  <2>1. Moving(x)' = from
    <3>1. \A p \in Path : local'[p] # None <=> drive[p] # None
      BY <1>0, <1>7, <1>8, <1>a, Views
    <3> QED
      BY <1>3, <1>4, <3>1 DEF Moving
  <2>2. ASSUME NEW p \in from
        PROVE  /\ Under(p, x.old) /\ ~ChangePending(p)'
               /\ LocalFiles'[p] # {} /\ DriveFiles'[p] = {}
               /\ LocalFiles'[Image(p, x.old, x.new)] = {}
               /\ DriveFiles'[Image(p, x.old, x.new)] = LocalFiles'[p]
    <3>1. Under(p, x.old) /\ ~ChangePending(p)' /\ DriveFiles'[p] = {}
      BY <1>2, <1>4, <1>9, <1>10, <1>11
    <3>2. LocalFiles'[p] # {}
      BY <1>2, <1>6, <1>7, <1>8
    <3>3. Image(p, old, new) \in to /\ Image(Image(p, old, new), new, old) = p
      BY <1>2
    <3>4. LocalFiles'[Image(p, old, new)] = {}
      BY <1>2, <1>6, <1>7, <1>8, <3>3
    <3>5. DriveFiles'[Image(p, old, new)] = LocalFiles'[p]
      BY <1>6, <1>7, <1>9, <3>3
    <3> QED
      BY <1>4, <3>1, <3>2, <3>4, <3>5
  <2>3. ASSUME NEW p \in Path, p \notin from, \A r \in from : p # Image(r, x.old, x.new)
        PROVE  LocalFiles'[p] = DriveFiles'[p]
    <3>1. p \notin to
      BY <1>2, <1>4, <2>3
    <3> QED
      BY <1>6, <1>7, <1>9, <2>3, <3>1
  <2>4. RenameJobs' = {} /\ x.now = {} /\ RowFiles' = LocalFiles' /\ x.step # "move"
    BY <1>4, <1>6, <1>7
  <2> QED
    BY <2>1, <2>2, <2>3, <2>4 DEF OnTheWay
<1>13. DaemonView' /\ UserView' /\ WorkerView'
  BY <1>0, <1>12, WorkerGoesOn
<1>14. OneCopy'
  <2>1. \A p \in Path : DriveFiles'[p] # {} =>
           \/ p \in to /\ DriveFiles'[p] = DriveFiles[Image(p, new, old)]
           \/ p \notin to /\ p \notin from /\ DriveFiles'[p] = DriveFiles[p]
    BY <1>9
  <2>2. Once(DriveFiles)
    BY DEF Aligned, OneCopy
  <2>3. ASSUME NEW p \in Path, NEW q \in Path,
               DriveFiles'[p] # {}, DriveFiles'[p] = DriveFiles'[q]
        PROVE  p = q
    <3>1. CASE p \in to /\ q \in to
      <4>1. Image(p, new, old) = Image(q, new, old)
        BY <1>2, <2>1, <2>2, <2>3, <3>1 DEF Once
      <4> QED
        BY <1>2, <3>1, <4>1
    <3>2. CASE p \in to /\ q \notin to
      <4>1. Image(p, new, old) = q
        BY <1>2, <2>1, <2>2, <2>3, <3>2 DEF Once
      <4> QED
        BY <1>2, <2>1, <2>3, <3>2, <4>1
    <3>3. CASE p \notin to /\ q \in to
      <4>1. Image(q, new, old) = p
        BY <1>2, <2>1, <2>2, <2>3, <3>3 DEF Once
      <4> QED
        BY <1>2, <2>1, <2>3, <3>3, <4>1
    <3>4. CASE p \notin to /\ q \notin to
      BY <2>1, <2>2, <2>3, <3>4 DEF Once
    <3> QED
      BY <3>1, <3>2, <3>3, <3>4
  <2>4. Once(DriveFiles)'
    BY <2>3 DEF Once
  <2> QED
    BY <1>6, <1>10, <2>4 DEF Aligned, OneCopy, Once
<1>15. Versions'
  <2>1. \A p \in Path : drive'[p] # None => \E q \in Path : drive[q] = drive'[p]
    BY <1>2, <1>5
  <2> QED
    BY <1>0, <1>10, <2>1, VersionsMove DEF Aligned
<1>16. JobView'
  <2>1. ASSUME NEW j \in SaveJobs PROVE drive'[j.path] = drive[j.path]
    <3>1. j.path \in Path /\ drive[j.path] # None
      BY <1>a, SaveInHand
    <3>2. ChangePending(j.path)
      BY ChangePendingIs
    <3> QED
      BY <1>2, <1>5, <1>11, <3>1, <3>2
  <2>2. Batches' = Batches
    BY <1>0, BatchesAre
  <2> QED
    BY <1>0, <1>6, <1>a, <2>1, <2>2, JobViewAlone DEF Aligned
<1> QED
  BY <1>13, <1>14, <1>15, <1>16 DEF Aligned

LEMMA WorkerSelectAligned ==
    ASSUME TypeInv, TypeInv', Apart, Aligned, NEW x \in worker, WorkerSelect(x)
    PROVE  Aligned'
<1> DEFINE todo == {[remote |-> r, local |-> pins[r].local] :
                       r \in {p \in Path : Under(p, x.old) /\ pins[p] # None}}
<1>a. TypeOK /\ TypeOK' /\ worker = {x} /\ OnTheWay(x)
  BY WorkerIs DEF TypeInv, Aligned, WorkerView
<1>0. /\ drive' = drive /\ local' = local /\ pins' = pins /\ window' = window
      /\ inbox' = inbox /\ batch' = batch /\ job' = job /\ edits' = edits
      /\ x.step = "select" /\ Continue(x, todo)
  BY DEF WorkerSelect, loopVars, boundVars
<1>1. todo \in SUBSET Pin
  BY <1>a DEF Pin, TypeOK, Row
<1>2. {t.remote : t \in todo} = {p \in Path : Under(p, x.old) /\ pins[p] # None}
  <2> DEFINE S == {p \in Path : Under(p, x.old) /\ pins[p] # None}
  <2> HIDE DEF S
  <2>1. todo = {[remote |-> r, local |-> pins[r].local] : r \in S}
    BY DEF S
  <2>2. \A t \in todo : t.remote \in S
    BY <2>1
  <2>3. ASSUME NEW r \in S PROVE \E t \in todo : t.remote = r
    <3>1. [remote |-> r, local |-> pins[r].local] \in todo
      BY <2>1
    <3> QED
      BY <3>1
  <2> HIDE DEF todo
  <2>4. {t.remote : t \in todo} = S
    BY <2>2, <2>3
  <2> QED
    BY <2>4 DEF S
<1> HIDE DEF todo
<1>3. /\ DriveFiles' = DriveFiles /\ LocalFiles' = LocalFiles /\ RowFiles' = RowFiles
      /\ RenameJobs' = RenameJobs /\ SaveJobs' = SaveJobs
  BY <1>0, SameViews
<1>4. RenameJobs = {} /\ RowFiles = LocalFiles
  BY <1>0, <1>a DEF OnTheWay
<1>5. {t.remote : t \in todo} = Moving(x)
  <2>1. \A p \in Path : pins[p] # None <=> local[p] # None
    BY <1>4, <1>a, Views
  <2> QED
    BY <1>0, <1>2, <2>1 DEF Moving
<1>6. \A p : ChangePending(p)' <=> ChangePending(p)
  BY <1>0, <1>3, ChangePendingIs, ChangePendingNew
<1>7. Pending' = Pending /\ \A n \in Pending : ~n.byUser
  <2>1. Pending' = Pending
    BY <1>0, PendingIs, PendingNew
  <2> QED
    BY <2>1 DEF Apart, WorkerApart
<1>8. DaemonView' /\ UserView' /\ WorkerView'
  <2>1. CASE todo = {}
    <3>1. Moving(x) = {}
      BY <1>5, <2>1
    <3>2. DriveFiles = LocalFiles
      BY <1>a, <3>1, Views DEF OnTheWay, View
    <3>3. worker' = {}
      BY <1>0, <1>1, <2>1, ContinueStep
    <3> QED
      BY <1>3, <1>4, <1>7, <1>a, <3>2, <3>3, WorkerDone
  <2>2. CASE todo # {}
    <3>1. PICK y : /\ worker' = {y} /\ y.step = "rekey" /\ y.old = x.old /\ y.new = x.new
                   /\ y.todo = todo /\ y.now = {}
      BY <1>0, <1>1, <2>2, ContinueStep
    <3>2. Moving(y)' = Moving(x)
      BY <1>5, <3>1 DEF Moving
    <3>3. OnTheWay(y)'
      BY <1>3, <1>4, <1>6, <1>a, <3>1, <3>2 DEF OnTheWay
    <3> QED
      BY <3>1, <3>3, WorkerGoesOn
  <2> QED
    BY <2>1, <2>2
<1>9. OneCopy'
  BY <1>3, <1>6, OneCopySame DEF Aligned
<1>10. Versions'
  BY <1>0, <1>6, VersionsMove DEF Aligned
<1>11. JobView'
  <2>1. Batches' = Batches
    BY <1>0, BatchesAre
  <2> QED
    BY <1>0, <1>3, <1>a, <2>1, JobViewAlone DEF Aligned
<1> QED
  BY <1>8, <1>9, <1>10, <1>11 DEF Aligned

-----------------------------------------------------------------------------
(***************************************************************************)
(* The worker moves the rows and the copies.                               *)
(***************************************************************************)

\* The worker's next file: its row goes first.
LEMMA WorkerRekeyAligned ==
    ASSUME TypeInv, TypeInv', Apart, Aligned, NEW x \in worker, NEW t \in x.todo,
           WorkerRekey(x, t)
    PROVE  Aligned'
<1> DEFINE p == t.remote
           q == Image(p, x.old, x.new)
           y == [x EXCEPT !.step = "move", !.todo = @ \ {t}, !.now = {t}]
<1>a. TypeOK /\ TypeOK' /\ worker = {x} /\ OnTheWay(x) /\ x \in Rename
  BY WorkerIs DEF TypeInv, Aligned, WorkerView
<1>0. /\ drive' = drive /\ local' = local /\ window' = window
      /\ inbox' = inbox /\ batch' = batch /\ job' = job /\ edits' = edits
      /\ x.step = "rekey" /\ pins' = Rekeyed(p, q, q)
      /\ worker' = IF pins[p] # None /\ pins[q] # None THEN {} ELSE {y}
  BY DEF WorkerRekey, loopVars, boundVars
<1>1. p \in Moving(x)
  BY <1>0 DEF Moving
<1>2. /\ p \in Path /\ q \in Path /\ p # q /\ ~ChangePending(p)
      /\ LocalFiles[p] # {} /\ LocalFiles[q] = {}
  BY <1>1, MovingIs
<1>3. RenameJobs = {} /\ RowFiles = LocalFiles
  BY <1>0, <1>a DEF OnTheWay
<1>4. /\ y.step = "move" /\ y.old = x.old /\ y.new = x.new
      /\ y.todo = x.todo \ {t} /\ y.now = {t}
  BY <1>a DEF Rename
<1>b. q = Image(t.remote, x.old, x.new) /\ p = t.remote
  OBVIOUS
<1> HIDE DEF p, q, y
<1>5. pins[p] # None /\ pins[q] = None /\ worker' = {y}
  BY <1>0, <1>2, <1>3, <1>a, Views
<1>6. /\ RowFiles' = Shifted(RowFiles, p, q)
      /\ \A r \in Path : pins'[r] # None =>
            \E s \in Path : pins[s] # None /\ pins[s].synced = pins'[r].synced
      /\ \A r \in Path \ {p, q} : pins'[r] = pins[r]
  BY <1>0, <1>2, <1>5, <1>a, RowMoved
<1>7. /\ DriveFiles' = DriveFiles /\ LocalFiles' = LocalFiles
      /\ RenameJobs' = RenameJobs /\ SaveJobs' = SaveJobs
  BY <1>0, SameViews
<1>8. \A r : ChangePending(r)' <=> ChangePending(r)
  BY <1>0, <1>7, ChangePendingIs, ChangePendingNew
<1>9. Moving(y)' = Moving(x)
  <2>1. y.todo \cup y.now = x.todo \cup x.now
    <3>1. x.now = {}
      BY <1>0, <1>a DEF OnTheWay
    <3> QED
      BY <1>4, <3>1
  <2> QED
    BY <1>0, <1>4, <2>1 DEF Moving
<1>10. OnTheWay(y)'
  <2>1. RowFiles' = Shifted(LocalFiles', t.remote, Image(t.remote, y.old, y.new))
    BY <1>3, <1>4, <1>6, <1>7, <1>b
  <2> QED
    BY <1>3, <1>4, <1>7, <1>8, <1>9, <1>a, <2>1 DEF OnTheWay
<1>11. DaemonView' /\ UserView' /\ WorkerView'
  BY <1>5, <1>10, WorkerGoesOn
<1>12. OneCopy'
  <2>1. Once(Shifted(RowFiles, p, q))
    BY <1>2, <1>a, Views, ShiftedOnce DEF Aligned, OneCopy
  <2>2. Once(RowFiles)'
    BY <1>6, <2>1 DEF Once
  <2> QED
    BY <1>7, <1>8, <2>2 DEF Aligned, OneCopy, Once
<1>13. Versions'
  BY <1>0, <1>6, <1>8, VersionsMove DEF Aligned
<1>14. JobView'
  <2>1. ASSUME NEW j \in SaveJobs PROVE pins'[j.path] = pins[j.path]
    <3>1. j.path \in Path /\ LocalFiles[j.path] # {}
      BY <1>a, SaveInHand, Views
    <3>2. ChangePending(j.path)
      BY ChangePendingIs
    <3> QED
      BY <1>2, <1>6, <3>1, <3>2
  <2>2. Batches' = Batches
    BY <1>0, BatchesAre
  <2> QED
    BY <1>0, <1>7, <1>a, <2>1, <2>2, JobViewAlone DEF Aligned
<1> QED
  BY <1>11, <1>12, <1>13, <1>14 DEF Aligned

\* ... and its local copy follows.
LEMMA WorkerMoveAligned ==
    ASSUME TypeInv, TypeInv', Apart, Aligned, NEW x \in worker, NEW t \in x.now,
           WorkerMove(x, t)
    PROVE  Aligned'
<1> DEFINE p == t.remote
           q == Image(p, x.old, x.new)
           ren == [from |-> p, to |-> q, byUser |-> FALSE]
<1>a. TypeOK /\ TypeOK' /\ worker = {x} /\ OnTheWay(x) /\ x \in Rename
      /\ x.todo \in SUBSET Pin /\ t \in Pin /\ WorkerApart(x)
  BY WorkerIs DEF TypeInv, Aligned, WorkerView, Apart
<1>0. x.step = "move" /\ t.local = p
  BY <1>a DEF WorkerMove, WorkerApart
<1>1. p \in Moving(x)
  BY <1>0 DEF Moving
<1>2. /\ p \in Path /\ q \in Path /\ p # q /\ ~ChangePending(p)
      /\ LocalFiles[p] # {} /\ LocalFiles[q] = {} /\ DriveFiles[p] = {}
      /\ DriveFiles[q] = LocalFiles[p]
  BY <1>1, MovingIs
<1>3. local[p] # None
  BY <1>2, <1>a, Views
<1>4. /\ drive' = drive /\ pins' = pins /\ inbox' = inbox /\ batch' = batch
      /\ job' = job /\ edits' = edits
      /\ local' = MovedTo(local, p, q) /\ window' = WithRename(ren)
      /\ Continue(x, x.todo)
  BY <1>0, <1>2, <1>3 DEF WorkerMove, loopVars, boundVars
<1>5. ren \in Renaming /\ ren.from = p /\ ren.to = q /\ ~ren.byUser
  BY <1>2 DEF Renaming
<1>6. /\ x.now = {t} /\ t \notin x.todo /\ RenameJobs = {}
      /\ RowFiles = Shifted(LocalFiles, p, q)
  BY <1>0, <1>a DEF OnTheWay
<1>b. q = Image(p, x.old, x.new) /\ p = t.remote
  OBVIOUS
<1> HIDE DEF p, q, ren
<1>7. /\ LocalFiles' = Shifted(LocalFiles, p, q)
      /\ local'[q] = local[p] /\ local'[p] = None
      /\ \A r \in Path \ {p, q} : local'[r] = local[r]
  BY <1>2, <1>4, <1>a, LocalMoved
<1>8. /\ LocalFiles'[q] = LocalFiles[p] /\ LocalFiles'[p] = {}
      /\ \A r \in Path \ {p, q} : LocalFiles'[r] = LocalFiles[r]
  <2>1. LocalFiles \in View
    BY <1>a, Views
  <2> DEFINE w == Shifted(LocalFiles, p, q)
  <2>2. /\ w[q] = LocalFiles[p] /\ w[p] = {}
        /\ \A r \in Path \ {p, q} : w[r] = LocalFiles[r]
    BY <1>2, <2>1, ShiftedApart
  <2> QED
    BY <1>7, <2>2
<1>9. /\ DriveFiles' = DriveFiles /\ RowFiles' = RowFiles
      /\ RenameJobs' = RenameJobs /\ SaveJobs' = SaveJobs
  BY <1>4, SameViews
<1>10. window'.changed = window.changed
  <2>1. p \notin window.changed
    BY <1>2, ChangePendingIs
  <2> QED
    BY <1>2, <1>4, <1>5, <1>a, <2>1, WindowChanged
<1>11. \A r : ChangePending(r)' <=> ChangePending(r)
  BY <1>4, <1>9, <1>10, ChangePendingIs, ChangePendingNew
<1>12. \A n \in Pending' : ~n.byUser
  <2>1. \A n \in Pending : n.byUser <=> ren.byUser
    BY <1>5, <1>a DEF WorkerApart
  <2> QED
    BY <1>4, <1>5, <1>a, <2>1, OneMorePending
<1>13. Moving(x) = {u.remote : u \in x.todo} \cup {p} /\ p \notin {u.remote : u \in x.todo}
  <2>1. Moving(x) = {u.remote : u \in x.todo \cup x.now}
    BY <1>0 DEF Moving
  <2>2. Moving(x) = {u.remote : u \in x.todo} \cup {p}
    BY <1>6, <1>b, <2>1
  <2>3. ASSUME NEW u \in x.todo, u.remote = p PROVE FALSE
    <3>1. u.local = p /\ u \in Pin
      BY <1>a, <2>3 DEF WorkerApart
    <3>2. u = t
      BY <1>0, <1>a, <1>b, <2>3, <3>1 DEF Pin
    <3> QED
      BY <1>6, <3>2
  <2> QED
    BY <2>2, <2>3
<1>14. \A r \in Path :
          r \notin Moving(x) /\ (\A s \in Moving(x) : r # Image(s, x.old, x.new))
          => LocalFiles[r] = DriveFiles[r]
  BY <1>a DEF OnTheWay
<1>15. DaemonView' /\ UserView' /\ WorkerView'
  <2>1. CASE x.todo = {}
    <3>1. worker' = {}
      BY <1>4, <1>a, <2>1, ContinueStep
    <3>2. DriveFiles' = LocalFiles'
      <4>1. \A r \in Path \ {p, q} : LocalFiles[r] = DriveFiles[r]
        BY <1>13, <1>14, <1>b, <2>1
      <4>2. \A r \in Path : DriveFiles'[r] = LocalFiles'[r]
        BY <1>2, <1>8, <1>9, <4>1
      <4> QED
        BY <1>a, <4>2, ViewsNext DEF View
    <3>3. RowFiles' = DriveFiles'
      BY <1>6, <1>7, <1>9, <3>2
    <3> QED
      BY <1>6, <1>9, <1>12, <1>a, <3>1, <3>2, <3>3, WorkerDone
  <2>2. CASE x.todo # {}
    <3>1. PICK y : /\ worker' = {y} /\ y.step = "rekey" /\ y.old = x.old /\ y.new = x.new
                   /\ y.todo = x.todo /\ y.now = {}
      BY <1>4, <1>a, <2>2, ContinueStep
    <3> DEFINE M == {u.remote : u \in x.todo}
    <3>2. Moving(y)' = M
      BY <3>1 DEF Moving
    <3> HIDE DEF M
    <3>3. ASSUME NEW r \in M
          PROVE  /\ Under(r, y.old) /\ ~ChangePending(r)'
                 /\ LocalFiles'[r] # {} /\ DriveFiles'[r] = {}
                 /\ LocalFiles'[Image(r, y.old, y.new)] = {}
                 /\ DriveFiles'[Image(r, y.old, y.new)] = LocalFiles'[r]
      <4> DEFINE s == Image(r, x.old, x.new)
      <4>1. r \in Moving(x) /\ r # p
        BY <1>13, <3>3 DEF M
      <4>2. /\ r \in Path /\ Under(r, x.old) /\ ~ChangePending(r)
            /\ s \in Path /\ Image(s, x.new, x.old) = r
            /\ LocalFiles[r] # {} /\ DriveFiles[r] = {}
            /\ LocalFiles[s] = {} /\ DriveFiles[s] = LocalFiles[r]
        BY <4>1, MovingIs
      <4>3. Image(q, x.new, x.old) = p
        BY <1>1, <1>b, MovingIs
      <4> HIDE DEF s
      <4>4. r # q /\ s # p /\ s # q
        BY <1>2, <4>1, <4>2, <4>3
      <4>5. LocalFiles'[r] = LocalFiles[r] /\ LocalFiles'[s] = LocalFiles[s]
        BY <1>8, <4>1, <4>2, <4>4
      <4>6. /\ Under(r, x.old) /\ ~ChangePending(r)'
            /\ LocalFiles'[r] # {} /\ DriveFiles'[r] = {}
            /\ LocalFiles'[s] = {} /\ DriveFiles'[s] = LocalFiles'[r]
        BY <1>9, <1>11, <4>2, <4>5
      <4> QED
        BY <3>1, <4>6 DEF s
    <3>4. ASSUME NEW r \in Path, r \notin M, \A s \in M : r # Image(s, y.old, y.new)
          PROVE  LocalFiles'[r] = DriveFiles'[r]
      <4>1. CASE r \in {p, q}
        BY <1>2, <1>8, <1>9, <4>1
      <4>2. CASE r \notin {p, q}
        <5>1. r \notin Moving(x) /\ \A s \in Moving(x) : r # Image(s, x.old, x.new)
          BY <1>13, <1>b, <3>1, <3>4, <4>2 DEF M
        <5>2. LocalFiles[r] = DriveFiles[r]
          BY <1>14, <5>1
        <5> QED
          BY <1>8, <1>9, <4>2, <5>2
      <4> QED
        BY <4>1, <4>2
    <3>5. RenameJobs' = {} /\ y.now = {} /\ RowFiles' = LocalFiles' /\ y.step # "move"
      BY <1>6, <1>7, <1>9, <3>1
    <3>6. OnTheWay(y)'
      BY <3>2, <3>3, <3>4, <3>5 DEF OnTheWay
    <3> QED
      BY <3>1, <3>6, WorkerGoesOn
  <2> QED
    BY <2>1, <2>2
<1>16. OneCopy'
  <2>1. Once(Shifted(LocalFiles, p, q))
    BY <1>2, <1>a, Views, ShiftedOnce DEF Aligned, OneCopy
  <2>2. Once(LocalFiles)'
    BY <1>7, <2>1 DEF Once
  <2>3. ASSUME NEW r \in Path, ChangePending(r)' PROVE LocalFiles'[r] # {}
    <3>1. LocalFiles[r] # {} /\ r # p
      BY <1>2, <1>11, <2>3 DEF Aligned, OneCopy
    <3> QED
      BY <1>2, <1>8, <3>1
  <2> QED
    BY <1>9, <2>2, <2>3 DEF Aligned, OneCopy, Once
<1>17. Versions'
  <2>1. ASSUME NEW r \in Path, local'[r] # None
        PROVE  \E s \in Path : local[s] = local'[r] /\ (ChangePending(s) => ChangePending(r)')
    <3>1. CASE r = q
      BY <1>2, <1>7, <3>1
    <3>2. CASE r # q
      BY <1>7, <1>11, <2>1, <3>2
    <3> QED
      BY <3>1, <3>2
  <2> QED
    BY <1>4, <2>1, VersionsMove DEF Aligned
<1>18. JobView'
  <2>1. ASSUME NEW j \in SaveJobs PROVE local'[j.path] = local[j.path]
    <3>1. j.path \in Path /\ LocalFiles[j.path] # {}
      BY <1>a, SaveInHand, Views
    <3>2. ChangePending(j.path)
      BY ChangePendingIs
    <3> QED
      BY <1>2, <1>7, <3>1, <3>2
  <2>2. ASSUME NEW j \in SaveJobs, NEW b \in Batches, j.path \in b.changed
        PROVE  \E c \in Batches' : j.path \in c.changed
    BY <1>4, <1>10, <2>2, BatchesAre
  <2> QED
    BY <1>4, <1>9, <1>a, <2>1, <2>2, JobViewAlone DEF Aligned
<1> QED
  BY <1>15, <1>16, <1>17, <1>18 DEF Aligned

-----------------------------------------------------------------------------
(***************************************************************************)
(* The inductive invariant and what follows from it.                       *)
(***************************************************************************)

\* Inductive where Environment has none of "Overlap", "Undo" and "Lag".
IInv == ApartInv /\ InStep

LEMMA SameContent ==
    ASSUME NEW c \in Content, NEW d \in Content, c.of = d.of, c.rev = d.rev
    PROVE  c = d
BY DEF Content

LEMMA InStepInit == Init => IInv
<1> SUFFICES ASSUME Init PROVE IInv
  OBVIOUS
<1>0. TypeOK /\ ApartInv
  BY ApartInit DEF ApartInv, TypeInv
<1>1. PICK S \in SUBSET Path :
        /\ drive = [p \in Path |-> IF p \in S THEN [of |-> p, rev |-> 0] ELSE None]
        /\ local = drive
        /\ pins = [p \in Path |-> IF p \in S THEN [local |-> p, synced |-> drive[p]] ELSE None]
  BY DEF Init
<1>2. /\ job = {} /\ worker = {} /\ inbox = <<>> /\ edits = 0
      /\ window = NoEvents /\ batch = NoEvents
  BY DEF Init
<1>3. /\ \A p \in Path : [of |-> p, rev |-> 0] # None
      /\ \A p \in S : [local |-> p, synced |-> drive[p]] # None
  <2>1. \A p \in Path : [of |-> p, rev |-> 0] \in Content
    BY ConstantsAssumption DEF Content
  <2>2. \A p \in S : [local |-> p, synced |-> drive[p]] \in Row
    BY <1>1, <2>1 DEF Row
  <2> QED
    BY <2>1, <2>2, NotNone
<1>4. ASSUME NEW p \in S
      PROVE  /\ drive[p] = [of |-> p, rev |-> 0]
             /\ local[p] = [of |-> p, rev |-> 0]
             /\ local[p] # None
             /\ pins[p] # None
             /\ pins[p].synced = [of |-> p, rev |-> 0]
  BY <1>1, <1>3
<1>4a. ASSUME NEW p \in Path, p \notin S
       PROVE  drive[p] = None /\ local[p] = None /\ pins[p] = None
  BY <1>1, <1>4a
<1>5. DriveFiles = LocalFiles /\ RowFiles = LocalFiles
  <2>1. DriveFiles = LocalFiles
    BY <1>1 DEF DriveFiles, LocalFiles
  <2>2. \A p \in Path : RowFiles[p] = LocalFiles[p]
    <3> SUFFICES ASSUME NEW p \in Path PROVE RowFiles[p] = LocalFiles[p]
      OBVIOUS
    <3>1. CASE p \in S
      BY <1>4, <3>1 DEF RowFiles, LocalFiles, FileIn
    <3>2. CASE p \notin S
      BY <1>4a, <3>2 DEF RowFiles, LocalFiles, FileIn
    <3> QED
      BY <3>1, <3>2
  <2> QED
    BY <1>0, <2>1, <2>2, Views DEF View
<1>6. /\ Pending = {} /\ RenameJobs = {} /\ SaveJobs = {}
      /\ \A p : ~ChangePending(p)
  <2>1. Pending = {}
    BY <1>2, PendingIs DEF NoEvents, Entries
  <2>2. RenameJobs = {} /\ SaveJobs = {}
    BY <1>2 DEF RenameJobs, SaveJobs
  <2>3. \A p : ~ChangePending(p)
    BY <1>2, <2>2, ChangePendingIs DEF NoEvents, Entries
  <2> QED
    BY <2>1, <2>2, <2>3
<1>7. DaemonView /\ WorkerView
  BY <1>2, <1>5, <1>6 DEF DaemonView, WorkerView
<1>8. UserView
  BY <1>0, <1>2, <1>6, <1>7, SettledChain
<1>9. OneCopy
  <2>1. ASSUME NEW p \in S PROVE LocalFiles[p] = {p}
    <3>1. local[p].of = p /\ local[p] # None
      <4>1. local[p] = [of |-> p, rev |-> 0] /\ local[p] # None
        BY <1>4
      <4> QED
        BY <4>1
    <3> QED
      BY <3>1 DEF LocalFiles, FileIn
  <2>2. ASSUME NEW p \in Path, p \notin S PROVE LocalFiles[p] = {}
    BY <1>4a, <2>2 DEF LocalFiles, FileIn
  <2>3. Once(LocalFiles)
    <3> SUFFICES ASSUME NEW p \in Path, NEW q \in Path,
                        LocalFiles[p] # {}, LocalFiles[p] = LocalFiles[q]
                 PROVE  p = q
      BY <1>1 DEF Once, LocalFiles
    <3>1. p \in S /\ q \in S
      BY <2>2
    <3>2. {p} = {q}
      BY <2>1, <3>1
    <3> QED
      BY <3>2
  <2> QED
    BY <1>5, <1>6, <2>3 DEF OneCopy
<1>10. Versions
  <2>1. \A p \in Path : drive[p] # None => p \in S
    BY <1>4a
  <2>2. \A p \in Path : local[p] # None => p \in S
    BY <1>4a
  <2>3. \A p \in Path : pins[p] # None => p \in S
    BY <1>4a
  <2>4. ASSUME NEW p \in S
        PROVE  /\ drive[p].rev = 0
               /\ local[p].rev = 0
               /\ local[p].of = p
               /\ pins[p].synced.rev = 0
               /\ pins[p].synced.of = p
               /\ pins[p].synced = local[p]
    <3>1. /\ drive[p] = [of |-> p, rev |-> 0]
          /\ local[p] = [of |-> p, rev |-> 0]
          /\ pins[p].synced = [of |-> p, rev |-> 0]
      BY <1>4
    <3> QED
      BY <3>1
  <2>5. \A p \in Path : local[p] # None => local[p].rev <= edits
    BY <1>2, <2>2, <2>4
  <2>6. \A p, q \in Path : drive[p] # None /\ local[q] # None => Older(drive[p], local[q])
    BY <2>1, <2>2, <2>4 DEF Older
  <2>7. ASSUME NEW r \in Path, pins[r] # None, NEW p \in Path
        PROVE  /\ drive[p] # None => Older(pins[r].synced, drive[p])
               /\ local[p] # None /\ pins[r].synced.of = local[p].of
                  => pins[r].synced = local[p]
    BY <2>1, <2>2, <2>3, <2>4, <2>7 DEF Older
  <2> QED
    BY <2>5, <2>6, <2>7 DEF Versions
<1>11. JobView
  BY <1>6 DEF JobView
<1> QED
  BY <1>0, <1>7, <1>8, <1>9, <1>10, <1>11 DEF IInv, InStep, Aligned

LEMMA InStepNext ==
    ASSUME {"Overlap", "Undo", "Lag"} \cap Environment = {}, IInv, [Next]_vars
    PROVE  IInv'
<1>1. ApartInv /\ ApartInv'
  BY ApartNext DEF IInv
<1>2. TypeInv /\ TypeInv' /\ TypeOK /\ TypeOK'
  BY <1>1 DEF ApartInv, TypeInv
<1> SUFFICES ASSUME ~failed' PROVE Aligned'
  BY <1>1 DEF IInv, InStep
<1>3. CASE failed
  <2>1. failed'
    BY <1>3 DEF Next, LoopStep, WorkerStep, Save, UserRename, WorkerRename, WorkerHalfRename,
       Debounce, TakeBatch, TakeRename, TakeChange, Move, RenameNode, CallFails, Rekey,
       KeepRemote, Upload, UploadFails, MarkSynced, WorkerSelect, WorkerRekey, WorkerMove,
       WorkerMoveFails, vars
  <2> QED
    BY <2>1
<1>4. CASE ~failed
  <2>0. Apart /\ Apart' /\ Aligned
    BY <1>1, <1>4 DEF ApartInv, IInv, InStep
  <2>1. ASSUME NEW p \in Path, Save(p) PROVE Aligned'
    BY <1>2, <2>0, <2>1, SaveAligned
  <2>2. ASSUME NEW p \in Path, NEW q \in Path, UserRename(p, q) PROVE Aligned'
    BY <1>2, <2>0, <2>2, UserRenameAligned
  <2>3. ASSUME NEW p \in Path, NEW q \in Path, WorkerRename(p, q) PROVE Aligned'
    BY <1>2, <2>0, <2>3, WorkerRenameAligned DEF Shape
  <2>4. ASSUME NEW p \in Path, NEW q \in Path, WorkerHalfRename(p, q) PROVE Aligned'
    BY <2>4 DEF WorkerHalfRename
  <2>5. ASSUME NEW d \in Dir, NEW e \in Dir, WorkerRename(d, e) PROVE Aligned'
    BY <1>2, <2>0, <2>5, WorkerRenameAligned DEF Shape
  <2>6. CASE Debounce
    BY <1>2, <2>0, <2>6, HandedOnAligned
  <2>7. CASE LoopStep
    <3>1. CASE TakeBatch
      BY <1>2, <2>0, <3>1, HandedOnAligned
    <3>2. CASE TakeRename
      BY <1>2, <2>0, <3>2, TakeRenameAligned
    <3>3. ASSUME NEW p \in Path, TakeChange(p) PROVE Aligned'
      BY <1>2, <2>0, <3>3, TakeChangeAligned
    <3>4. ASSUME NEW j \in job, Move(j) PROVE Aligned'
      BY <1>2, <2>0, <3>4, MoveAligned
    <3>5. ASSUME NEW j \in job, RenameNode(j) PROVE Aligned'
      BY <1>2, <2>0, <3>5, RenameNodeAligned
    <3>6. ASSUME NEW j \in job, Rekey(j) PROVE Aligned'
      BY <1>2, <2>0, <3>6, RekeyAligned
    <3>7. ASSUME NEW j \in job, Upload(j) PROVE Aligned'
      BY <1>2, <2>0, <3>7, UploadAligned
    <3>8. ASSUME NEW j \in job, MarkSynced(j) PROVE Aligned'
      BY <1>2, <2>0, <3>8, MarkSyncedAligned
    <3>9. ASSUME NEW j \in job, CallFails(j) \/ UploadFails(j) PROVE Aligned'
      BY <3>9 DEF CallFails, UploadFails
    <3>10. ASSUME NEW j \in job, KeepRemote(j) PROVE Aligned'
      BY <2>0, <3>10 DEF KeepRemote, Apart, JobsAreUsers
    <3> QED
      BY <2>7, <3>1, <3>2, <3>3, <3>4, <3>5, <3>6, <3>7, <3>8, <3>9, <3>10 DEF LoopStep
  <2>8. CASE WorkerStep
    <3>1. ASSUME NEW x \in worker, WorkerSelect(x) PROVE Aligned'
      BY <1>2, <2>0, <3>1, WorkerSelectAligned
    <3>2. ASSUME NEW x \in worker, NEW t \in x.todo, WorkerRekey(x, t) PROVE Aligned'
      BY <1>2, <2>0, <3>2, WorkerRekeyAligned
    <3>3. ASSUME NEW x \in worker, NEW t \in x.now, WorkerMove(x, t) PROVE Aligned'
      BY <1>2, <2>0, <3>3, WorkerMoveAligned
    <3>4. ASSUME NEW x \in worker, NEW t \in x.now, WorkerMoveFails(x, t) PROVE Aligned'
      BY <3>4 DEF WorkerMoveFails
    <3> QED
      BY <2>8, <3>1, <3>2, <3>3, <3>4 DEF WorkerStep
  <2>9. CASE UNCHANGED vars
    <3>1. /\ drive' = drive /\ local' = local /\ pins' = pins /\ window' = window
          /\ inbox' = inbox /\ batch' = batch /\ job' = job /\ worker' = worker
          /\ edits' = edits
      BY <2>9 DEF vars, loopVars, boundVars
    <3>2. /\ DriveFiles' = DriveFiles /\ LocalFiles' = LocalFiles /\ RowFiles' = RowFiles
          /\ RenameJobs' = RenameJobs /\ SaveJobs' = SaveJobs /\ Batches' = Batches
      BY <3>1, SameViews, BatchesAre
    <3>3. Pending' \subseteq Pending /\ \A p : ChangePending(p)' <=> ChangePending(p)
      BY <3>1, <3>2, PendingIs, PendingNew, ChangePendingIs, ChangePendingNew
    <3>4. \A p \in Path, k \in 1 .. Len(inbox) + 1 : SentBefore(p, k)' => SentBefore(p, k)
      BY <3>1, <3>2 DEF SentBefore
    <3>5. DaemonView' /\ UserView' /\ WorkerView'
      BY <1>2, <2>0, <3>1, <3>2, <3>3, <3>4, Quiet DEF Aligned
    <3>6. OneCopy' /\ Versions' /\ JobView'
      BY <1>2, <2>0, <3>1, <3>2, <3>3, OneCopySame, VersionsMove, JobViewAlone DEF Aligned
    <3> QED
      BY <3>5, <3>6 DEF Aligned
  <2> QED
    BY <2>1, <2>2, <2>3, <2>4, <2>5, <2>6, <2>7, <2>8, <2>9 DEF Next
<1> QED
  BY <1>3, <1>4

\* The rows, the pending renames, Drive and the cache directory tell one story
\* until a call fails, whatever the user, the worker and the daemon do, as long
\* as user and worker do not rename at the same time, the worker does not
\* rename a file back before the daemon has seen the first rename, and a file
\* is not renamed while a save of it is still to be handled.
THEOREM Inductive ==
    ASSUME {"Overlap", "Undo", "Lag"} \cap Environment = {}
    PROVE  Spec => []IInv
<1>1. IInv /\ [Next]_vars => IInv'
  BY InStepNext
<1> QED
  BY <1>1, InStepInit, PTL DEF Spec

\* With nothing to handle and no rename under way, the rows, Drive and the
\* cache directory have the same files at the same paths.
LEMMA RestIsSettled ==
    ASSUME IInv, AtRest, ~failed
    PROVE  /\ TypeOK /\ Mirrored /\ Versions
           /\ DriveFiles = LocalFiles /\ RowFiles = LocalFiles
           /\ \A p : ~ChangePending(p)
<1>1. TypeOK /\ Mirrored /\ Aligned
  BY DEF IInv, ApartInv, TypeInv, Apart, InStep
<1>2. job = {} /\ worker = {} /\ inbox = <<>> /\ window = NoEvents /\ batch = NoEvents
  BY DEF AtRest
<1>3. Pending = {}
  BY <1>2, PendingIs DEF NoEvents, Entries
<1>4. \A p : ~ChangePending(p)
  BY <1>2, ChangePendingIs DEF NoEvents, Entries, SaveJobs
<1> QED
  BY <1>1, <1>2, <1>3, <1>4, ChainEnds DEF Aligned

\* A pinned file stays pinned under its new name, at one path for Drive, the
\* row and the copy, whoever renames it and however often (handle_rename,
\* Cache::rename_tree): once all is handled, unless a call has failed.
THEOREM Mirrors ==
    ASSUME {"Overlap", "Undo", "Lag"} \cap Environment = {}
    PROVE  Spec => []MirroredAtRest
<1>1. IInv => MirroredAtRest
  <2> SUFFICES ASSUME IInv, AtRest, ~failed, NEW p \in Path, pins[p] # None
               PROVE  /\ pins[p].local = p
                      /\ local[p] # None /\ drive[p] # None
                      /\ local[p].of = drive[p].of
    BY DEF MirroredAtRest
  <2>1. TypeOK /\ Mirrored /\ DriveFiles = LocalFiles /\ RowFiles = LocalFiles
    BY RestIsSettled
  <2>2. local[p] # None /\ drive[p] # None
    BY <2>1, Views
  <2>3. {local[p].of} = {drive[p].of}
    BY <2>1, <2>2, Views
  <2> QED
    BY <2>1, <2>2, <2>3 DEF Mirrored
<1> QED
  BY <1>1, Inductive, PTL

\* ... and what was saved under the old name or the new is on Drive and known
\* to the row (upload_if_needed after handle_rename).
THEOREM Syncs ==
    ASSUME {"Overlap", "Undo", "Lag"} \cap Environment = {}
    PROVE  Spec => []SyncedAtRest
<1>1. IInv => SyncedAtRest
  <2> SUFFICES ASSUME IInv, AtRest, ~failed, NEW p \in Path, pins[p] # None, local[p] # None
               PROVE  local[p] = pins[p].synced /\ drive[p] = local[p]
    BY DEF SyncedAtRest
  <2>1. /\ TypeOK /\ Versions /\ DriveFiles = LocalFiles /\ RowFiles = LocalFiles
        /\ ~ChangePending(p)
    BY RestIsSettled
  <2>2. drive[p] # None
    BY <2>1, Views
  <2>3. {local[p].of} = {drive[p].of} /\ {local[p].of} = {pins[p].synced.of}
    BY <2>1, <2>2, Views
  <2>4. local[p].of = drive[p].of /\ local[p].of = pins[p].synced.of
    BY <2>3
  <2>5. pins[p].synced = local[p]
    BY <2>1, <2>4 DEF Versions
  <2>6. drive[p] \in Content /\ local[p] \in Content
    BY <2>1, <2>2 DEF TypeOK
  <2>7. local[p].rev <= drive[p].rev /\ drive[p].rev <= local[p].rev
    BY <2>1, <2>2, <2>4, <2>5 DEF Versions, Older
  <2>8. drive[p].rev = local[p].rev
    BY <2>6, <2>7 DEF Content
  <2>9. drive[p] = local[p]
    BY <2>4, <2>6, <2>8, SameContent
  <2> QED
    BY <2>5, <2>9
<1> QED
  BY <1>1, Inductive, PTL

\* An upload replaces its own file's last version: the daemon takes up a save
\* only where Drive and the row have the file at the copy's path, and it stays
\* there until the upload is through (upload_if_needed).
THEOREM Replaces ==
    ASSUME {"Overlap", "Undo", "Lag"} \cap Environment = {}
    PROVE  Spec => UploadsReplaceOwnFile
<1> DEFINE Replace == \A j \in job, p \in Path :
              ~failed /\ j.step = "upload" /\ drive'[p] # drive[p] /\ renames' = renames
              => drive[p] # None /\ drive[p].of = drive'[p].of
<1>1. ASSUME IInv, IInv', [Next]_vars PROVE [Replace]_vars
  <2> SUFFICES ASSUME NEW j \in job, NEW p \in Path, ~failed, j.step = "upload",
                      drive'[p] # drive[p], renames' = renames
               PROVE  drive[p] # None /\ drive[p].of = drive'[p].of
    OBVIOUS
  <2>1. TypeOK /\ Aligned /\ j \in SaveJobs
    BY <1>1 DEF IInv, ApartInv, TypeInv, InStep, SaveJobs, RenameJobs
  <2>2. renames + 1 # renames
    BY <2>1 DEF TypeOK
  <2>3. job = {j} /\ j.step # "move" /\ j.step # "rename"
    BY <2>1, SaveInHand
  <2>4. Upload(j)
    BY <1>1, <2>2, <2>3 DEF Next, LoopStep, WorkerStep, Save, UserRename, WorkerRename,
       WorkerHalfRename, Debounce, TakeBatch, TakeRename, TakeChange, Move, RenameNode,
       CallFails, Rekey, KeepRemote, Upload, UploadFails, MarkSynced, WorkerSelect,
       WorkerRekey, WorkerMove, WorkerMoveFails, vars
  <2>5. /\ j.remote = j.path /\ j.path \in Path
        /\ drive[j.path] # None /\ drive[j.path].of = j.seen.of
        /\ local[j.path].of = j.seen.of
    BY <2>1, SaveInHand
  <2>6. drive' = [drive EXCEPT ![j.path] = local[j.path]]
    <3>1. [j.path EXCEPT !.base = j.path.base] = j.path
      BY <2>5 DEF Path
    <3> QED
      BY <2>4, <2>5, <3>1 DEF Upload
  <2>7. p = j.path /\ drive'[p] = local[p]
    BY <2>1, <2>5, <2>6 DEF TypeOK
  <2> QED
    BY <2>5, <2>7
<1>2. Spec => [][Replace]_vars
  <2> HIDE DEF Replace
  <2>1. IInv /\ IInv' /\ [Next]_vars => [Replace]_vars
    BY <1>1
  <2> QED
    BY <2>1, Inductive, PTL DEF Spec
<1> QED
  BY <1>2 DEF UploadsReplaceOwnFile

-----------------------------------------------------------------------------
(***************************************************************************)
(* The sequence of views is the one computed from the rows.                *)
(***************************************************************************)

\* A set of naturals that is not empty has a least element.
LEMMA Least ==
    ASSUME NEW T, T \subseteq Nat, T # {}
    PROVE  \E x \in T : \A y \in T : x <= y
<1> DEFINE R == OpToRel(<, Nat)
<1>1. IsWellFoundedOn(OpToRel(<, Nat), Nat)
  BY NatLessThanWellFounded
<1>2. \A x, y \in Nat : x < y => <<x, y>> \in R
  BY DEF OpToRel
<1> HIDE DEF R
<1>3. PICK x \in T : \A y \in T : ~ (<<y, x>> \in R)
  BY <1>1, WFMin DEF R
<1>4. ASSUME NEW y \in T PROVE x <= y
  <2>1. x \in Nat /\ y \in Nat
    OBVIOUS
  <2>2. ~(y < x)
    BY <1>2, <1>3, <2>1
  <2> QED
    BY <2>1, <2>2
<1> QED
  BY <1>4

\* A batch's renames lead to one view.
LEMMA LeadsIs ==
    ASSUME NEW v \in View, NEW w \in View, NEW s \in Seq(Renaming), Leads(v, s, w)
    PROVE  AfterAll(v, s) = w
<1>1. ASSUME NEW p \in Path PROVE AfterAll(v, s)[p] = w[p]
  <2>1. CASE \E i \in DOMAIN s : s[i].to = p
    <3> DEFINE i == CHOOSE k \in DOMAIN s : s[k].to = p
    <3>1. i \in DOMAIN s /\ s[i].to = p
      BY <2>1
    <3>2. AfterAll(v, s)[p] = v[s[i].from]
      BY <2>1 DEF AfterAll
    <3>3. w[s[i].to] = v[s[i].from]
      BY <3>1 DEF Leads
    <3> QED
      BY <3>1, <3>2, <3>3
  <2>2. CASE \A i \in DOMAIN s : s[i].to # p
    <3>1. w[p] = IF \E i \in DOMAIN s : s[i].from = p THEN {} ELSE v[p]
      BY <2>2 DEF Leads
    <3>2. AfterAll(v, s)[p] = IF \E i \in DOMAIN s : s[i].from = p THEN {} ELSE v[p]
      BY <2>2 DEF AfterAll
    <3> QED
      BY <3>1, <3>2
  <2> QED
    BY <2>1, <2>2
<1>2. AfterAll(v, s) = [p \in Path |-> AfterAll(v, s)[p]]
  BY DEF AfterAll
<1>3. w = [p \in Path |-> w[p]]
  BY DEF View
<1> QED
  BY <1>1, <1>2, <1>3

\* There is one chain, and it is the one computed from the rows.
LEMMA TrajectoryIs == ASSUME TypeOK, NEW V, Chain(V) PROVE Trajectory = V
<1> DEFINE n == Len(inbox) + 1
           Step(f, k) == IF k = 1 THEN AfterAll(Target, batch.renames)
                         ELSE AfterAll(f[k - 1], inbox[k - 1].renames)
           T == CHOOSE f : f = [k \in 1 .. n |-> Step(f, k)]
<1>1. /\ V \in Seq(View) /\ Len(V) = n /\ n \in Nat /\ Len(inbox) \in Nat
      /\ inbox \in Seq(Batch) /\ DOMAIN inbox = 1 .. Len(inbox)
      /\ batch.renames \in Seq(Renaming) /\ Target \in View
  BY TargetIs DEF Chain, Linked, TypeOK, Batch
<1>2. DOMAIN V = 1 .. n /\ V = [k \in 1 .. n |-> V[k]] /\ \A k \in 1 .. n : V[k] \in View
  BY <1>1
<1>3. V[1] = Step(V, 1)
  BY <1>1, <1>2, LeadsIs DEF Chain, Linked
<1>4. ASSUME NEW k \in 1 .. n, k > 1 PROVE V[k] = Step(V, k)
  <2>1. k - 1 \in DOMAIN inbox /\ k - 1 \in 1 .. n /\ k - 1 + 1 = k
    BY <1>1, <1>4
  <2>2. Leads(V[k - 1], inbox[k - 1].renames, V[k])
    BY <2>1 DEF Chain, Linked
  <2>3. inbox[k - 1].renames \in Seq(Renaming)
    <3>1. inbox[k - 1] \in Batch
      BY <1>1, <2>1
    <3> QED
      BY <3>1 DEF Batch
  <2>4. AfterAll(V[k - 1], inbox[k - 1].renames) = V[k]
    BY <1>2, <2>1, <2>2, <2>3, LeadsIs
  <2> QED
    BY <1>4, <2>4
<1>5. V = [k \in 1 .. n |-> Step(V, k)]
  <2> HIDE DEF Step
  <2>1. \A k \in 1 .. n : k = 1 \/ k > 1
    BY <1>1
  <2>2. \A k \in 1 .. n : V[k] = Step(V, k)
    BY <1>3, <1>4, <2>1
  <2> QED
    BY <1>2, <2>2
<1>6. Trajectory = T
  BY DEF Trajectory
<1>7. T = [k \in 1 .. n |-> Step(T, k)]
  <2> HIDE DEF Step
  <2> QED
    BY <1>5
<1> HIDE DEF T, Step
<1>8. DOMAIN T = 1 .. n /\ T = [k \in 1 .. n |-> T[k]] /\ \A k \in 1 .. n : T[k] = Step(T, k)
  BY <1>7
<1>9. T[1] = V[1]
  <2>1. Step(T, 1) = Step(V, 1)
    BY DEF Step
  <2> QED
    BY <1>1, <1>3, <1>8, <2>1
<1>10. ASSUME NEW k \in 1 .. n, k > 1, T[k - 1] = V[k - 1] PROVE T[k] = V[k]
  <2>1. Step(T, k) = Step(V, k)
    BY <1>10 DEF Step
  <2> QED
    BY <1>4, <1>8, <1>10, <2>1
<1>11. \A k \in 1 .. n : T[k] = V[k]
  <2> DEFINE Bad == {k \in 1 .. n : T[k] # V[k]}
  <2>1. ASSUME Bad # {} PROVE FALSE
    <3>1. PICK x \in Bad : \A y \in Bad : x <= y
      <4>1. Bad \subseteq Nat
        OBVIOUS
      <4> HIDE DEF Bad
      <4> QED
        BY <2>1, <4>1, Least
    <3>2. x \in 1 .. n /\ T[x] # V[x]
      OBVIOUS
    <3>3. x > 1
      BY <1>1, <1>9, <3>2
    <3>4. x - 1 \in 1 .. n /\ x - 1 \notin Bad
      BY <1>1, <3>1, <3>2, <3>3
    <3>5. T[x - 1] = V[x - 1]
      BY <3>4
    <3> QED
      BY <1>10, <3>2, <3>3, <3>5
  <2> QED
    BY <2>1
<1> HIDE DEF n
<1> QED
  BY <1>2, <1>6, <1>8, <1>11

\* The sequence of views that leads to the cache directory is the one that the
\* pending renames make of the rows, batch by batch, in the main loop's order.
THEOREM OnTrajectory ==
    ASSUME {"Overlap", "Undo", "Lag"} \cap Environment = {}
    PROVE  Spec => []InStepOnTrajectory
<1>1. IInv => InStepOnTrajectory
  <2> SUFFICES ASSUME IInv, ~failed PROVE InStepOnTrajectory
    BY DEF InStepOnTrajectory
  <2>1. TypeOK /\ Aligned
    BY DEF IInv, ApartInv, TypeInv, InStep
  <2>2. ASSUME UserSide, ~Blocked PROVE Linked(Trajectory)
    <3>1. PICK V \in Seq(View) : Chain(V)
      BY <2>1, <2>2 DEF Aligned, UserView
    <3> QED
      BY <2>1, <3>1, TrajectoryIs DEF Chain
  <2> QED
    BY <2>1, <2>2 DEF Aligned, InStepOnTrajectory
<1> QED
  BY <1>1, Inductive, PTL
=============================================================================
