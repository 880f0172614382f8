-------------------------- MODULE FileCache_proofs --------------------------
(***************************************************************************)
(* Proofs about FileCache for every set of files and workers.              *)
(***************************************************************************)
EXTENDS FileCache, TLAPS

(***************************************************************************)
(* Type correctness.                                                       *)
(***************************************************************************)

LEMMA InitTypeOK == Init => TypeOK
<1> SUFFICES ASSUME Init PROVE TypeOK
  OBVIOUS
<1>1. 1 \in Revision /\ None \in Maybe
  BY ConstantsAssumption DEF Revision, Maybe
<1>2. \A f \in File : IdleTask(f) \in Task
  BY <1>1 DEF IdleTask, Task
<1> QED
  BY <1>1, <1>2 DEF Init, TypeOK

StepNames == {"idle"} \cup GetSteps \cup PutSteps

\* A worker's task stays well typed when its step, time or content changes.
LEMMA TaskType ==
    ASSUME TypeOK, NEW w \in Worker
    PROVE  /\ task[w] \in Task /\ FileOf(w) \in File
           /\ \A t \in Task : [task EXCEPT ![w] = t] \in [Worker -> Task]
           /\ \A s \in StepNames, m \in Maybe :
                /\ [task[w] EXCEPT !.step = s] \in Task
                /\ [task[w] EXCEPT !.step = s, !.time = m] \in Task
                /\ [task[w] EXCEPT !.step = s, !.content = m] \in Task
           /\ IdleTask(FileOf(w)) \in Task
<1>1. task[w] \in Task /\ FileOf(w) \in File
  BY DEF TypeOK, Task, FileOf
<1>2. \A t \in Task : [task EXCEPT ![w] = t] \in [Worker -> Task]
  BY DEF TypeOK
<1>3. ASSUME NEW s \in StepNames, NEW m \in Maybe
      PROVE  /\ [task[w] EXCEPT !.step = s] \in Task
             /\ [task[w] EXCEPT !.step = s, !.time = m] \in Task
             /\ [task[w] EXCEPT !.step = s, !.content = m] \in Task
  BY <1>1 DEF Task, StepNames
<1>4. IdleTask(FileOf(w)) \in Task
  BY <1>1 DEF IdleTask, Task, Maybe
<1> QED
  BY <1>1, <1>2, <1>3, <1>4

LEMMA WorkerStepType ==
    ASSUME TypeOK, NEW w \in Worker, WorkerStep(w)
    PROVE  TypeOK'
<1> USE DEF TypeOK
<1>1. /\ task[w] \in Task /\ FileOf(w) \in File
      /\ \A t \in Task : [task EXCEPT ![w] = t] \in [Worker -> Task]
      /\ \A s \in StepNames, m \in Maybe :
           /\ [task[w] EXCEPT !.step = s] \in Task
           /\ [task[w] EXCEPT !.step = s, !.time = m] \in Task
           /\ [task[w] EXCEPT !.step = s, !.content = m] \in Task
      /\ IdleTask(FileOf(w)) \in Task
  BY TaskType
<1>2. /\ task[w].time \in Maybe /\ task[w].content \in Maybe
      /\ \A g \in File : drive[g] \in Maybe
      /\ None \in Maybe
  BY <1>1 DEF Task, Maybe
<1>3. \A s \in StepNames : GoTo(w, s) => task' \in [Worker -> Task]
  BY <1>1 DEF GoTo
<1>4. Finish(w) => task' \in [Worker -> Task]
  BY <1>1 DEF Finish
<1>5. CASE Check(w)
  <2>1. task' \in [Worker -> Task]
    BY <1>3, <1>5 DEF Check, StepNames, GetSteps
  <2> QED
    BY <1>1, <1>2, <1>5, <2>1 DEF Check, RemoveCached
<1>6. CASE CheckFails(w)
  BY <1>3, <1>6 DEF CheckFails, StepNames, GetSteps, cacheVars
<1>7. CASE Drop(w)
  BY <1>1, <1>2, <1>3, <1>7 DEF Drop, SetRow, StepNames, GetSteps
<1>8. ASSUME NEW s \in StepNames, StatPath(w, s) PROVE TypeOK'
  BY <1>1, <1>2, <1>8 DEF StatPath, cacheVars
<1>9. CASE Stat(w)
  BY <1>8, <1>9 DEF Stat, StepNames, GetSteps
<1>10. CASE StatFails(w)
  BY <1>1, <1>2, <1>10 DEF StatFails, StepNames, GetSteps, cacheVars
<1>11. CASE Fetch(w)
  BY <1>1, <1>2, <1>11 DEF Fetch, StepNames, GetSteps, cacheVars
<1>12. CASE Write(w)
  <2>1. task' \in [Worker -> Task]
    BY <1>3, <1>4, <1>12 DEF Write, StepNames, GetSteps
  <2> QED
    BY <1>1, <1>2, <1>12, <2>1 DEF Write, SetDisk
<1>13. CASE TransferFails(w)
  BY <1>1, <1>2, <1>4, <1>13 DEF TransferFails
<1>14. CASE Record(w)
  BY <1>1, <1>2, <1>3, <1>14 DEF Record, SetRow, Records, StepNames, GetSteps
<1>15. CASE RecordFails(w)
  BY <1>1, <1>3, <1>15 DEF RecordFails, Misses, StepNames, GetSteps, cacheVars
<1>16. CASE Stream(w)
  BY <1>4, <1>16 DEF Stream, cacheVars
<1>17. CASE Copy(w)
  BY <1>1, <1>2, <1>3, <1>17 DEF Copy, SetDisk, StepNames, PutSteps
<1>18. CASE PutStat(w)
  BY <1>8, <1>18 DEF PutStat, StepNames, PutSteps
<1>19. CASE PutRecord(w)
  BY <1>1, <1>2, <1>4, <1>19 DEF PutRecord, SetRow, Records
<1>20. CASE PutUnrecorded(w)
  BY <1>1, <1>2, <1>4, <1>20 DEF PutUnrecorded, SetDisk, Misses
<1>21. CASE Crash(w)
  BY <1>1, <1>2, <1>4, <1>21 DEF Crash, SetDisk, Misses
<1> QED
  BY <1>5, <1>6, <1>7, <1>9, <1>10, <1>11, <1>12, <1>13, <1>14, <1>15,
     <1>16, <1>17, <1>18, <1>19, <1>20, <1>21 DEF WorkerStep

LEMMA NextTypeOK == TypeOK /\ [Next]_vars => TypeOK'
<1> SUFFICES ASSUME TypeOK, [Next]_vars PROVE TypeOK'
  OBVIOUS
<1> USE ConstantsAssumption DEF TypeOK
<1>1. ASSUME NEW w \in Worker, NEW f \in File, Get(w, f) PROVE TypeOK'
  <2>1. task' \in [Worker -> Task]
    BY <1>1 DEF Get, Begin, Task, GetSteps, Maybe
  <2> QED
    BY <1>1, <2>1 DEF Get, cacheVars
<1>2. ASSUME NEW w \in Worker, NEW f \in File, Put(w, f) PROVE TypeOK'
  <2>1. fresh + 1 \in Revision /\ drive[f] \in Maybe
    BY <1>2 DEF Put, Revision, Maybe
  <2>2. task' \in [Worker -> Task]
    BY <1>2, <2>1 DEF Put, Begin, Task, PutSteps, Maybe
  <2> QED
    BY <1>2, <2>1, <2>2 DEF Put, cacheVars
<1>3. ASSUME NEW w \in Worker, WorkerStep(w) PROVE TypeOK'
  BY <1>3, WorkerStepType
<1>4. ASSUME NEW f \in File, RemoteEdit(f) PROVE TypeOK'
  BY <1>4 DEF RemoteEdit, Revision, cacheVars
<1>5. ASSUME NEW f \in File, RefreshStat(f) PROVE TypeOK'
  BY <1>5 DEF RefreshStat, Maybe, cacheVars
<1>6. ASSUME NEW f \in File, Pin(f) PROVE TypeOK'
  BY <1>6 DEF Pin, SetDisk, Maybe
<1>7. ASSUME NEW f \in File, Unpin(f) PROVE TypeOK'
  BY <1>7 DEF Unpin, SetDisk, Maybe
<1>8. ASSUME NEW f \in File, Age(f) PROVE TypeOK'
  BY <1>8 DEF Age
<1>9. CASE SweepStart
  BY <1>9 DEF SweepStart, cacheVars
<1>10. ASSUME NEW f \in File, SweepFile(f) PROVE TypeOK'
  BY <1>10 DEF SweepFile, RemoveCached, Maybe
<1>11. ASSUME NEW f \in File, SweepRow(f) PROVE TypeOK'
  BY <1>11 DEF SweepRow, SetRow, Misses, Maybe
<1>12. CASE UNCHANGED vars
  BY <1>12 DEF vars, cacheVars
<1> QED
  BY <1>1, <1>2, <1>3, <1>4, <1>5, <1>6, <1>7, <1>8, <1>9, <1>10, <1>11,
     <1>12 DEF Next, SweepStep

\* TypeOK: in every state the index, the disk, the stat cache and the workers
\* of FileCache hold revisions somebody wrote.
THEOREM TypeCorrect == Spec => []TypeOK
<1>1. Init => TypeOK
  BY InitTypeOK
<1>2. TypeOK /\ [Next]_vars => TypeOK'
  BY NextTypeOK
<1> QED
  BY <1>1, <1>2, PTL DEF Spec

(***************************************************************************)
(* The inductive invariant, for workers that never share a file.           *)
(***************************************************************************)

LEMMA InitIInv == Init => IInv
<1> SUFFICES ASSUME Init PROVE IInv
  OBVIOUS
<1>1. TypeOK
  BY InitTypeOK
<1>2. \A w \in Worker :
         /\ task[w].step = "idle" /\ task[w].file \in File
         /\ task[w].time = 0 /\ task[w].content = 0 /\ task[w].since = 0
  BY DEF Init, IdleTask, None
<1>3. OneWorkerPerFile
  BY <1>2 DEF OneWorkerPerFile, Idle, At
<1>4. ASSUME NEW f \in File PROVE FileIsSound(f)
  <2>1. drive[f] = 1 /\ disk[f] = 0 /\ row[f] = 0 /\ stat[f] = 0 /\ fresh = 1
    BY DEF Init, None
  <2>2. 1 <= 1 /\ 0 <= 1
    OBVIOUS
  <2>3. ~CacheHit(f)
    BY <2>1 DEF CacheHit, None
  <2> QED
    BY <2>1, <2>2, <2>3, Zenon DEF FileIsSound
<1>5. \A w \in Worker : TaskIsSound(w)
  <2>1. \A f \in File : drive[f] = 1
    BY DEF Init
  <2> QED
    BY <1>2, <2>1 DEF TaskIsSound, PutSteps
<1> QED
  BY <1>1, <1>3, <1>4, <1>5 DEF IInv

\* Everything the index, the disk and the tasks hold is a natural number.
LEMMA Numbers ==
    ASSUME TypeOK
    PROVE  /\ fresh \in Nat
           /\ \A f \in File : /\ drive[f] \in Nat /\ stat[f] \in Nat
                              /\ disk[f] \in Nat /\ row[f] \in Nat
           /\ \A w \in Worker : /\ task[w].file \in File
                                /\ task[w].time \in Nat
                                /\ task[w].content \in Nat
                                /\ task[w].since \in Nat
  BY ConstantsAssumption DEF TypeOK, Task, Maybe, Revision, None

LEMMA NumbersNext ==
    ASSUME TypeOK'
    PROVE  /\ fresh' \in Nat
           /\ \A f \in File : /\ drive'[f] \in Nat /\ stat'[f] \in Nat
                              /\ disk'[f] \in Nat /\ row'[f] \in Nat
  BY ConstantsAssumption DEF TypeOK, Maybe, Revision, None

\* Nothing but f changes in the files, and Drive only moves forward.
OnlyFile(f) ==
    /\ fresh <= fresh'
    /\ \A g \in File :
        /\ drive[g] <= drive'[g]
        /\ g # f => /\ drive'[g] = drive[g] /\ stat'[g] = stat[g]
                    /\ disk'[g] = disk[g] /\ row'[g] = row[g]

\* A task is not disturbed by what happens to another file; an idle worker
\* is not disturbed at all.
LEMMA OtherTask ==
    ASSUME IInv, TypeOK', NEW f \in File, OnlyFile(f),
           NEW v \in Worker, task'[v] = task[v],
           Idle(v) \/ FileOf(v) # f
    PROVE  TaskIsSound(v)'
<1>1. /\ TypeOK /\ TaskIsSound(v)
  BY DEF IInv
<1>2. task[v].file \in File /\ drive[task[v].file] <= drive'[task[v].file]
  BY <1>1, Numbers DEF OnlyFile
<1>3. CASE Idle(v)
  BY <1>1, <1>2, <1>3, Numbers, NumbersNext
     DEF TaskIsSound, Idle, At, PutSteps
<1>4. CASE FileOf(v) # f
  BY <1>1, <1>2, <1>4, Numbers DEF TaskIsSound, OnlyFile, FileOf
<1> QED
  BY <1>3, <1>4

LEMMA OtherFile ==
    ASSUME IInv, TypeOK', NEW f \in File, OnlyFile(f),
           NEW g \in File, g # f
    PROVE  FileIsSound(g)'
  BY Numbers, NumbersNext DEF IInv, OnlyFile, FileIsSound, CacheHit

\* A step of one worker on one file keeps the invariant if it keeps that
\* worker's and that file's part of it.
LEMMA WorkerKeeps ==
    ASSUME IInv, TypeOK', NEW w \in Worker, NEW f \in File, OnlyFile(f),
           NEW t \in Task, task' = [task EXCEPT ![w] = t], t.file = f,
           \A v \in Worker \ {w} : Idle(v) \/ FileOf(v) # f,
           FileIsSound(f)', TaskIsSound(w)'
    PROVE  IInv'
<1>1. \A v \in Worker \ {w} : task'[v] = task[v]
  BY DEF IInv, TypeOK
<1>2. task'[w] = t
  BY DEF IInv, TypeOK
<1>3. \A g \in File : FileIsSound(g)'
  BY OtherFile
<1>4. \A v \in Worker : TaskIsSound(v)'
  BY <1>1, OtherTask
<1>5. OneWorkerPerFile'
  <2> SUFFICES ASSUME NEW u \in Worker, NEW v \in Worker, u # v,
                      ~Idle(u)', ~Idle(v)', FileOf(u)' = FileOf(v)'
               PROVE  FALSE
    BY DEF OneWorkerPerFile
  <2>1. CASE u # w /\ v # w
    BY <1>1, <2>1 DEF IInv, OneWorkerPerFile, Idle, At, FileOf
  <2>2. CASE u = w
    BY <1>1, <1>2, <2>2 DEF Idle, At, FileOf
  <2>3. CASE v = w
    BY <1>1, <1>2, <2>3 DEF Idle, At, FileOf
  <2> QED
    BY <2>1, <2>2, <2>3
<1> QED
  BY <1>3, <1>4, <1>5 DEF IInv

\* A step of the daemon or of another device on one file keeps the invariant
\* if it keeps that file's part and that of the worker handling it.
LEMMA WorldKeeps ==
    ASSUME IInv, TypeOK', NEW f \in File, OnlyFile(f), task' = task,
           FileIsSound(f)',
           \A w \in Worker : ~Idle(w) /\ FileOf(w) = f => TaskIsSound(w)'
    PROVE  IInv'
<1>1. \A g \in File : FileIsSound(g)'
  BY OtherFile
<1>2. \A v \in Worker : TaskIsSound(v)'
  BY OtherTask
<1>3. OneWorkerPerFile'
  BY DEF IInv, OneWorkerPerFile, Idle, At, FileOf
<1> QED
  BY <1>1, <1>2, <1>3 DEF IInv

LEMMA StartIInv ==
    ASSUME IInv, TypeOK', Exclusive, NEW w \in Worker, NEW f \in File,
           Get(w, f) \/ Put(w, f)
    PROVE  IInv'
<1>1. \A v \in Worker \ {w} : Idle(v) \/ FileOf(v) # f
  BY DEF Get, Put, MayStart, Handled, Exclusive
<1>2. TypeOK /\ FileIsSound(f)
  BY DEF IInv
<1>3. drive[f] \in Maybe /\ row[f] \in Maybe /\ None \in Maybe
  BY <1>2 DEF TypeOK, Maybe
<1>4. CASE Get(w, f)
  <2> DEFINE t == [step |-> IF PinHit(f) THEN "pinned"
                            ELSE IF CacheHit(f) THEN "check" ELSE "stat",
                   file |-> f,
                   time |-> IF CacheHit(f) THEN row[f] ELSE None,
                   content |-> None, since |-> drive[f]]
  <2>1. /\ task' = [task EXCEPT ![w] = t] /\ t \in Task /\ task'[w] = t
        /\ UNCHANGED <<drive, fresh, disk, row, stat>>
    BY <1>2, <1>3, <1>4 DEF Get, Begin, Task, GetSteps, cacheVars, TypeOK
  <2>2. OnlyFile(f) /\ FileIsSound(f)'
    BY <1>2, <2>1, Numbers DEF OnlyFile, FileIsSound, CacheHit
  <2>3. TaskIsSound(w)'
    <3>1. /\ t.file = f /\ t.since = drive[f] /\ t.content = 0
          /\ t.time \in {0, row[f]}
          /\ t.step \in {"pinned", "check", "stat"}
          /\ t.step = "check" => CacheHit(f) /\ t.time = row[f]
      BY DEF None
    <3> HIDE DEF t
    <3> QED
      BY <1>2, <2>1, <3>1, Numbers
         DEF TaskIsSound, FileIsSound, CacheHit, PutSteps
  <2> HIDE DEF t
  <2>4. t.file = f
    BY DEF t
  <2> QED
    BY <1>1, <2>1, <2>2, <2>3, <2>4, WorkerKeeps
<1>5. CASE Put(w, f)
  <2> DEFINE t == [step |-> "copy", file |-> f, time |-> None,
                   content |-> fresh + 1, since |-> drive[f]]
  <2>1. fresh + 1 \in Maybe
    BY <1>2, <1>5 DEF Put, TypeOK, Maybe, Revision
  <2>2. /\ task' = [task EXCEPT ![w] = t] /\ t \in Task /\ task'[w] = t
        /\ drive' = [drive EXCEPT ![f] = fresh + 1] /\ fresh' = fresh + 1
        /\ UNCHANGED <<disk, row, stat>>
    BY <1>2, <1>3, <1>5, <2>1 DEF Put, Begin, Task, PutSteps, cacheVars, TypeOK
  <2>3. /\ \A g \in File : drive[g] <= fresh
        /\ drive'[f] = fresh + 1
    BY <2>2 DEF IInv, FileIsSound, TypeOK
  <2>4. OnlyFile(f) /\ FileIsSound(f)'
    BY <1>2, <2>2, <2>3, Numbers DEF OnlyFile, FileIsSound, CacheHit, TypeOK
  <2>5. TaskIsSound(w)'
    BY <1>2, <2>2, <2>3, Numbers DEF TaskIsSound, PutSteps, None
  <2> QED
    BY <1>1, <2>2, <2>4, <2>5, WorkerKeeps
<1> QED
  BY <1>4, <1>5

LEMMA WorkerIInv ==
    ASSUME IInv, TypeOK', NEW w \in Worker, WorkerStep(w)
    PROVE  IInv'
<1>1. PICK t \in Task, f \in File : t = task[w] /\ f = FileOf(w) /\ t.file = f
  BY TaskType DEF IInv, FileOf
<1>2. /\ TypeOK /\ FileIsSound(f) /\ TaskIsSound(w)
      /\ \A v \in Worker \ {w} : ~Idle(w) => Idle(v) \/ FileOf(v) # f
  BY <1>1 DEF IInv, OneWorkerPerFile
<1>3. /\ \A s \in StepNames, m \in Maybe :
           /\ [t EXCEPT !.step = s] \in Task
           /\ [t EXCEPT !.step = s, !.time = m] \in Task
           /\ [t EXCEPT !.step = s, !.content = m] \in Task
      /\ IdleTask(f) \in Task
  BY <1>1, <1>2, TaskType
<1>4. /\ fresh \in Nat /\ t.time \in Nat /\ t.content \in Nat /\ t.since \in Nat
      /\ drive[f] \in Nat /\ stat[f] \in Nat /\ disk[f] \in Nat /\ row[f] \in Nat
      /\ drive[f] \in Maybe /\ stat[f] \in Maybe /\ None \in Maybe
  BY <1>1, <1>2, Numbers DEF TypeOK, Maybe
<1>5. ~Idle(w)
  BY DEF WorkerStep, Check, CheckFails, Drop, Stat, StatFails, Fetch, Write,
         TransferFails, Record, RecordFails, Stream, Copy, PutStat, PutRecord,
         PutUnrecorded, Crash, At, Idle, GetSteps, PutSteps
\* What a step must show: where it leads and what it does to its file.
<1>6. ASSUME NEW n \in Task, task' = [task EXCEPT ![w] = n], n.file = f,
             fresh' = fresh, drive' = drive,
             \A g \in File \ {f} : stat'[g] = stat[g] /\ disk'[g] = disk[g]
                                   /\ row'[g] = row[g],
             FileIsSound(f)', TaskIsSound(w)'
      PROVE  IInv'
  <2>1. OnlyFile(f)
    BY <1>2, <1>6, Numbers DEF OnlyFile
  <2> QED
    BY <1>2, <1>5, <1>6, <2>1, WorkerKeeps
\* The step's new task, seen through its fields.
<1>7. ASSUME NEW n \in Task, task' = [task EXCEPT ![w] = n]
      PROVE  task'[w] = n
  BY <1>2, <1>7 DEF TypeOK
<1>8. ASSUME NEW s \in StepNames, GoTo(w, s)
      PROVE  \E n \in Task : /\ task' = [task EXCEPT ![w] = n]
                             /\ n.step = s /\ n.file = f /\ n.time = t.time
                             /\ n.content = t.content /\ n.since = t.since
  <2>1. task' = [task EXCEPT ![w] = [t EXCEPT !.step = s]]
    BY <1>1, <1>8 DEF GoTo
  <2>2. /\ [t EXCEPT !.step = s].step = s /\ [t EXCEPT !.step = s].file = f
        /\ [t EXCEPT !.step = s].time = t.time
        /\ [t EXCEPT !.step = s].content = t.content
        /\ [t EXCEPT !.step = s].since = t.since
    BY <1>1 DEF Task
  <2>3. [t EXCEPT !.step = s] \in Task
    BY <1>3, <1>4
  <2> QED
    BY <2>1, <2>2, <2>3
<1>9. ASSUME Finish(w)
      PROVE  \E n \in Task : /\ task' = [task EXCEPT ![w] = n]
                             /\ n.step = "idle" /\ n.file = f /\ n.time = 0
                             /\ n.content = 0 /\ n.since = 0
  BY <1>1, <1>3, <1>9 DEF Finish, IdleTask, None
\* An idle worker holds nothing.
<1>idle. ASSUME NEW n \in Task, task' = [task EXCEPT ![w] = n],
              n.step = "idle", n.file = f, n.time = 0, n.content = 0,
              n.since = 0, drive' = drive
       PROVE  TaskIsSound(w)'
  <2>1. /\ task'[w].step = "idle" /\ task'[w].file = f /\ task'[w].time = 0
        /\ task'[w].content = 0 /\ task'[w].since = 0
    BY <1>7, <1>idle
  <2>2. 0 <= drive'[f]
    BY <1>4, <1>idle
  <2> QED
    BY <2>1, <2>2 DEF TaskIsSound, PutSteps
\* How a record, a file or a stat of f is replaced.
<1>10. /\ \A m \in Nat : SetDisk(f, m) =>
            disk'[f] = m /\ \A g \in File \ {f} : disk'[g] = disk[g]
       /\ \A m \in Nat : SetRow(f, m) =>
            row'[f] = m /\ \A g \in File \ {f} : row'[g] = row[g]
       /\ RemoveCached(f) =>
            /\ disk'[f] = IF CacheHit(f) THEN 0 ELSE disk[f]
            /\ \A g \in File \ {f} : disk'[g] = disk[g]
       /\ \A m \in Nat : stat' = [stat EXCEPT ![f] = m] =>
            stat'[f] = m /\ \A g \in File \ {f} : stat'[g] = stat[g]
  BY <1>2 DEF SetDisk, SetRow, RemoveCached, TypeOK, None
<1>11. CASE Check(w)
  <2>1. PICK s \in {"stream", "drop"} :
            /\ t.step = "check" /\ GoTo(w, s)
            /\ stat' = [stat EXCEPT ![f] = drive[f]]
            /\ s = "stream" => drive[f] = t.time /\ disk' = disk
            /\ s = "drop" => RemoveCached(f)
            /\ UNCHANGED <<drive, fresh, row>>
    BY <1>1, <1>11 DEF Check, At
  <2>2. PICK n \in Task : /\ task' = [task EXCEPT ![w] = n]
                          /\ n.step = s /\ n.file = f /\ n.time = t.time
                          /\ n.content = t.content /\ n.since = t.since
    BY <1>8, <2>1 DEF StepNames, GetSteps
  <2>3. /\ stat'[f] = drive[f]
        /\ \A g \in File \ {f} : stat'[g] = stat[g] /\ disk'[g] = disk[g]
        /\ disk'[f] \in {0, disk[f]}
        /\ s = "stream" => disk'[f] = disk[f]
    BY <1>4, <1>10, <2>1
  <2>4. FileIsSound(f)'
    BY <1>2, <1>4, <2>1, <2>3 DEF FileIsSound, CacheHit, None
  <2>5. TaskIsSound(w)'
    BY <1>1, <1>2, <1>4, <1>7, <2>1, <2>2, <2>3
       DEF TaskIsSound, PutSteps, None
  <2> QED
    BY <1>6, <2>1, <2>2, <2>3, <2>4, <2>5
<1>12. ASSUME NEW s \in StepNames, GoTo(w, s), UNCHANGED <<drive, fresh, disk, row, stat>>,
              \/ s = "stat"
              \/ s = "stream" /\ t.step = "record"
       PROVE  IInv'
  <2>1. PICK n \in Task : /\ task' = [task EXCEPT ![w] = n]
                          /\ n.step = s /\ n.file = f /\ n.time = t.time
                          /\ n.content = t.content /\ n.since = t.since
    BY <1>8, <1>12
  <2>2. FileIsSound(f)'
    BY <1>2, <1>12 DEF FileIsSound, CacheHit
  <2>3. TaskIsSound(w)'
    BY <1>1, <1>2, <1>7, <1>12, <2>1 DEF TaskIsSound, PutSteps
  <2> QED
    BY <1>6, <1>12, <2>1, <2>2, <2>3
<1>13. CASE CheckFails(w)
  BY <1>12, <1>13 DEF CheckFails, cacheVars, StepNames, GetSteps
<1>14. CASE RecordFails(w)
  BY <1>1, <1>12, <1>14 DEF RecordFails, At, cacheVars, StepNames, GetSteps
<1>15. CASE Drop(w)
  <2>1. /\ SetRow(f, 0) /\ GoTo(w, "stat")
        /\ UNCHANGED <<drive, fresh, disk, stat>>
    BY <1>1, <1>15 DEF Drop, None
  <2>2. PICK n \in Task : /\ task' = [task EXCEPT ![w] = n]
                          /\ n.step = "stat" /\ n.file = f /\ n.time = t.time
                          /\ n.content = t.content /\ n.since = t.since
    BY <1>8, <2>1 DEF StepNames, GetSteps
  <2>3. row'[f] = 0 /\ \A g \in File \ {f} : row'[g] = row[g]
    BY <1>10, <2>1
  <2>4. FileIsSound(f)'
    BY <1>2, <1>4, <2>1, <2>3 DEF FileIsSound, CacheHit, None
  <2>5. TaskIsSound(w)'
    BY <1>1, <1>2, <1>7, <2>1, <2>2, <2>3 DEF TaskIsSound, PutSteps
  <2> QED
    BY <1>6, <2>1, <2>2, <2>3, <2>4, <2>5
\* stat_path, for a get and for a put.
<1>16. ASSUME NEW s \in {"fetch", "putRecord"}, StatPath(w, s),
              s = "putRecord" => t.step = "putStat"
       PROVE  IInv'
  <2>1. PICK m \in Maybe :
            /\ m \in {stat[f], drive[f]}
            /\ stat' = [stat EXCEPT ![f] = m]
            /\ task' = [task EXCEPT ![w] = [t EXCEPT !.step = s, !.time = m]]
            /\ UNCHANGED <<drive, fresh, disk, row>>
    BY <1>1, <1>4, <1>16 DEF StatPath, cacheVars
  <2>2. PICK n \in Task : /\ task' = [task EXCEPT ![w] = n]
                          /\ n.step = s /\ n.file = f /\ n.time = m
                          /\ n.content = t.content /\ n.since = t.since
    <3>1. [t EXCEPT !.step = s, !.time = m] \in Task
      BY <1>3 DEF StepNames, GetSteps, PutSteps
    <3> DEFINE n == [t EXCEPT !.step = s, !.time = m]
    <3>2. /\ n.step = s /\ n.file = f /\ n.time = m
          /\ n.content = t.content /\ n.since = t.since
      BY <1>1 DEF Task
    <3> QED
      BY <2>1, <3>1, <3>2
  <2>3. /\ stat'[f] = m /\ \A g \in File \ {f} : stat'[g] = stat[g]
        /\ m <= drive[f] /\ m \in Nat
    <3>1. m \in Nat
      BY <1>4, <2>1
    <3>2. m <= drive[f]
      BY <1>2, <1>4, <2>1 DEF FileIsSound
    <3> QED
      BY <1>10, <2>1, <3>1, <3>2
  <2>4. FileIsSound(f)'
    BY <1>2, <2>1, <2>3 DEF FileIsSound, CacheHit
  <2>5. TaskIsSound(w)'
    BY <1>1, <1>2, <1>7, <1>16, <2>1, <2>2, <2>3 DEF TaskIsSound, PutSteps
  <2> QED
    BY <1>6, <2>1, <2>2, <2>3, <2>4, <2>5
<1>17. CASE Stat(w)
  BY <1>16, <1>17 DEF Stat
<1>18. CASE PutStat(w)
  BY <1>1, <1>16, <1>18 DEF PutStat, At
<1>19. CASE StatFails(w)
  <2>1. /\ task' = [task EXCEPT ![w] = [t EXCEPT !.step = "fetch", !.time = 0]]
        /\ UNCHANGED <<drive, fresh, disk, row, stat>>
    BY <1>1, <1>19 DEF StatFails, cacheVars, None
  <2>2. PICK n \in Task : /\ task' = [task EXCEPT ![w] = n]
                          /\ n.step = "fetch" /\ n.file = f /\ n.time = 0
                          /\ n.content = t.content /\ n.since = t.since
    <3>1. [t EXCEPT !.step = "fetch", !.time = 0] \in Task
      BY <1>3, <1>4 DEF StepNames, GetSteps, None
    <3> DEFINE n == [t EXCEPT !.step = "fetch", !.time = 0]
    <3>2. /\ n.step = "fetch" /\ n.file = f /\ n.time = 0
          /\ n.content = t.content /\ n.since = t.since
      BY <1>1 DEF Task
    <3> QED
      BY <2>1, <3>1, <3>2
  <2>3. FileIsSound(f)'
    BY <1>2, <2>1 DEF FileIsSound, CacheHit
  <2>4. TaskIsSound(w)'
    BY <1>1, <1>2, <1>4, <1>7, <2>1, <2>2 DEF TaskIsSound, PutSteps
  <2> QED
    BY <1>6, <2>1, <2>2, <2>3, <2>4
<1>20. CASE Fetch(w)
  <2>1. /\ task' = [task EXCEPT ![w] =
                        [t EXCEPT !.step = "write", !.content = drive[f]]]
        /\ UNCHANGED <<drive, fresh, disk, row, stat>>
    BY <1>1, <1>20 DEF Fetch, cacheVars
  <2>2. PICK n \in Task : /\ task' = [task EXCEPT ![w] = n]
                          /\ n.step = "write" /\ n.file = f /\ n.time = t.time
                          /\ n.content = drive[f] /\ n.since = t.since
    <3>1. [t EXCEPT !.step = "write", !.content = drive[f]] \in Task
      BY <1>3, <1>4 DEF StepNames, GetSteps
    <3> DEFINE n == [t EXCEPT !.step = "write", !.content = drive[f]]
    <3>2. /\ n.step = "write" /\ n.file = f /\ n.time = t.time
          /\ n.content = drive[f] /\ n.since = t.since
      BY <1>1 DEF Task
    <3> QED
      BY <2>1, <3>1, <3>2
  <2>3. FileIsSound(f)'
    BY <1>2, <2>1 DEF FileIsSound, CacheHit
  <2>4. TaskIsSound(w)'
    BY <1>1, <1>2, <1>4, <1>7, <2>1, <2>2
       DEF TaskIsSound, FileIsSound, PutSteps
  <2> QED
    BY <1>6, <2>1, <2>2, <2>3, <2>4
\* A call that ends leaves an idle worker; the file may be gone, or hold
\* what was just transferred.
<1>21. ASSUME Finish(w), UNCHANGED <<drive, fresh, row, stat>>,
              disk'[f] \in {0, disk[f]},
              \A g \in File \ {f} : disk'[g] = disk[g]
       PROVE  IInv'
  <2>1. PICK n \in Task : /\ task' = [task EXCEPT ![w] = n]
                          /\ n.step = "idle" /\ n.file = f /\ n.time = 0
                          /\ n.content = 0 /\ n.since = 0
    BY <1>9, <1>21
  <2>2. FileIsSound(f)'
    BY <1>2, <1>4, <1>21 DEF FileIsSound, CacheHit, None
  <2>3. TaskIsSound(w)'
    BY <1>4, <1>21, <2>1, <1>idle
  <2> QED
    BY <1>6, <1>21, <2>1, <2>2, <2>3
<1>22. CASE TransferFails(w)
  <2>1. /\ Finish(w) /\ UNCHANGED <<drive, fresh, row, stat>>
        /\ disk' = disk \/ SetDisk(f, 0)
    BY <1>1, <1>22 DEF TransferFails, SetDisk, None
  <2> QED
    BY <1>10, <1>21, <2>1
<1>23. CASE Stream(w)
  BY <1>21, <1>23 DEF Stream, cacheVars
<1>24. CASE PutUnrecorded(w)
  <2>1. /\ Finish(w) /\ UNCHANGED <<drive, fresh, row, stat>>
        /\ disk' = disk \/ SetDisk(f, 0)
    BY <1>1, <1>24 DEF PutUnrecorded, None
  <2> QED
    BY <1>10, <1>21, <2>1
<1>25. CASE Write(w)
  <2>1. CASE ~Cached(w)
    BY <1>21, <1>25, <2>1 DEF Write
  <2>2. CASE Cached(w)
    <3>1. /\ t.step = "write" /\ SetDisk(f, t.content) /\ GoTo(w, "record")
          /\ UNCHANGED <<drive, fresh, row, stat>>
      BY <1>1, <1>25, <2>2 DEF Write, At
    <3>2. PICK n \in Task : /\ task' = [task EXCEPT ![w] = n]
                            /\ n.step = "record" /\ n.file = f /\ n.time = t.time
                            /\ n.content = t.content /\ n.since = t.since
      BY <1>8, <3>1 DEF StepNames, GetSteps
    <3>3. disk'[f] = t.content /\ \A g \in File \ {f} : disk'[g] = disk[g]
      BY <1>4, <1>10, <3>1
    <3>4. FileIsSound(f)'
      BY <1>1, <1>2, <3>1, <3>3 DEF FileIsSound, TaskIsSound, CacheHit
    <3>5. TaskIsSound(w)'
      BY <1>1, <1>2, <1>4, <1>7, <3>1, <3>2, <3>3 DEF TaskIsSound, PutSteps
    <3> QED
      BY <1>6, <3>1, <3>2, <3>3, <3>4, <3>5
  <2> QED
    BY <2>1, <2>2
<1>26. CASE Record(w)
  <2>1. /\ t.step = "record" /\ SetRow(f, t.time) /\ GoTo(w, "stream")
        /\ UNCHANGED <<drive, fresh, disk, stat>>
    BY <1>1, <1>26 DEF Record, At
  <2>2. PICK n \in Task : /\ task' = [task EXCEPT ![w] = n]
                          /\ n.step = "stream" /\ n.file = f /\ n.time = t.time
                          /\ n.content = t.content /\ n.since = t.since
    BY <1>8, <2>1 DEF StepNames, GetSteps
  <2>3. row'[f] = t.time /\ \A g \in File \ {f} : row'[g] = row[g]
    BY <1>4, <1>10, <2>1
  <2>4. FileIsSound(f)'
    BY <1>1, <1>2, <2>1, <2>3 DEF FileIsSound, TaskIsSound, CacheHit
  <2>5. TaskIsSound(w)'
    BY <1>1, <1>2, <1>7, <2>1, <2>2, <2>3 DEF TaskIsSound, PutSteps
  <2> QED
    BY <1>6, <2>1, <2>2, <2>3, <2>4, <2>5
<1>27. CASE Copy(w)
  <2>1. /\ t.step = "copy" /\ SetDisk(f, t.content) /\ GoTo(w, "putStat")
        /\ UNCHANGED <<drive, fresh, row, stat>>
    BY <1>1, <1>27 DEF Copy, At
  <2>2. PICK n \in Task : /\ task' = [task EXCEPT ![w] = n]
                          /\ n.step = "putStat" /\ n.file = f /\ n.time = t.time
                          /\ n.content = t.content /\ n.since = t.since
    BY <1>8, <2>1 DEF StepNames, PutSteps
  <2>3. /\ disk'[f] = t.content /\ \A g \in File \ {f} : disk'[g] = disk[g]
        /\ t.content = drive[f]
    BY <1>1, <1>2, <1>4, <1>10, <2>1 DEF TaskIsSound, PutSteps
  <2>4. FileIsSound(f)'
    BY <1>2, <1>4, <2>1, <2>3 DEF FileIsSound, CacheHit
  <2>5. TaskIsSound(w)'
    BY <1>1, <1>2, <1>7, <2>1, <2>2, <2>3 DEF TaskIsSound, PutSteps
  <2> QED
    BY <1>6, <2>1, <2>2, <2>3, <2>4, <2>5
<1>28. CASE PutRecord(w)
  <2>1. /\ t.step = "putRecord" /\ SetRow(f, t.time) /\ Finish(w)
        /\ UNCHANGED <<drive, fresh, disk, stat>>
    BY <1>1, <1>28 DEF PutRecord, At
  <2>2. PICK n \in Task : /\ task' = [task EXCEPT ![w] = n]
                          /\ n.step = "idle" /\ n.file = f /\ n.time = 0
                          /\ n.content = 0 /\ n.since = 0
    BY <1>9, <2>1
  <2>3. row'[f] = t.time /\ \A g \in File \ {f} : row'[g] = row[g]
    BY <1>4, <1>10, <2>1
  <2>4. FileIsSound(f)'
    BY <1>1, <1>2, <1>4, <2>1, <2>3
       DEF FileIsSound, TaskIsSound, CacheHit, PutSteps, None
  <2>5. TaskIsSound(w)'
    BY <1>4, <2>1, <2>2, <1>idle
  <2> QED
    BY <1>6, <2>1, <2>2, <2>3, <2>4, <2>5
<1>29. CASE Crash(w)
  <2>1. /\ Finish(w) /\ UNCHANGED <<drive, fresh, row, stat>>
        /\ \/ disk' = disk \/ SetDisk(f, 0)
           \/ t.step = "write" /\ SetDisk(f, t.content)
    BY <1>1, <1>29 DEF Crash, At, None
  <2>2. CASE disk' = disk \/ SetDisk(f, 0)
    BY <1>10, <1>21, <2>1, <2>2
  <2>3. CASE t.step = "write" /\ SetDisk(f, t.content)
    <3>1. disk'[f] = t.content /\ \A g \in File \ {f} : disk'[g] = disk[g]
      BY <1>4, <1>10, <2>3
    <3>2. FileIsSound(f)'
      BY <1>1, <1>2, <2>1, <2>3, <3>1 DEF FileIsSound, TaskIsSound, CacheHit
    <3>3. PICK n \in Task : /\ task' = [task EXCEPT ![w] = n]
                            /\ n.step = "idle" /\ n.file = f /\ n.time = 0
                            /\ n.content = 0 /\ n.since = 0
      BY <1>9, <2>1
    <3>4. TaskIsSound(w)'
      BY <2>1, <3>3, <1>idle
    <3> QED
      BY <1>6, <2>1, <3>1, <3>2, <3>3, <3>4
  <2> QED
    BY <2>1, <2>2, <2>3
<1> QED
  BY <1>11, <1>13, <1>14, <1>15, <1>17, <1>18, <1>19, <1>20, <1>22, <1>23,
     <1>24, <1>25, <1>26, <1>27, <1>28, <1>29 DEF WorkerStep

\* What another device, the daemon or a pin does to a file.
LEMMA WorldIInv ==
    ASSUME IInv, TypeOK', Exclusive, NEW f \in File,
           \/ RemoteEdit(f) \/ RefreshStat(f) \/ Pin(f) \/ Unpin(f) \/ Age(f)
           \/ SweepFile(f) \/ SweepRow(f)
    PROVE  IInv'
<1>1. /\ TypeOK /\ FileIsSound(f) /\ \A w \in Worker : TaskIsSound(w)
      /\ fresh \in Nat /\ drive[f] \in Nat /\ stat[f] \in Nat
      /\ disk[f] \in Nat /\ row[f] \in Nat
      /\ \A g \in File : drive[g] <= fresh /\ drive[g] \in Nat
      /\ \A w \in Worker : /\ task[w].time \in Nat /\ task[w].content \in Nat
                           /\ task[w].since \in Nat
  BY Numbers DEF IInv, FileIsSound
\* The four things such a step may do.
<1>2. ASSUME task' = task, stat' = stat, disk' = disk, row' = row,
             fresh' = fresh + 1, drive' = [drive EXCEPT ![f] = fresh + 1],
             ~Putting(f)
      PROVE  IInv'
  <2>1. /\ drive'[f] = fresh + 1 /\ drive[f] <= fresh
        /\ \A g \in File \ {f} : drive'[g] = drive[g]
    BY <1>1, <1>2 DEF TypeOK
  <2>2. OnlyFile(f)
    BY <1>1, <1>2, <2>1 DEF OnlyFile
  <2>3. FileIsSound(f)'
    BY <1>1, <1>2, <2>1 DEF FileIsSound, CacheHit
  <2>4. ASSUME NEW w \in Worker, ~Idle(w) /\ FileOf(w) = f
        PROVE  TaskIsSound(w)'
    BY <1>1, <1>2, <2>1, <2>4 DEF TaskIsSound, FileOf, Putting
  <2> QED
    BY <1>2, <2>2, <2>3, <2>4, WorldKeeps
<1>3. ASSUME task' = task, UNCHANGED <<drive, fresh, disk, row>>,
             \A g \in File \ {f} : stat'[g] = stat[g],
             stat'[f] \in {stat[f], drive[f]}
      PROVE  IInv'
  <2>1. OnlyFile(f)
    BY <1>1, <1>3 DEF OnlyFile
  <2>2. FileIsSound(f)'
    BY <1>1, <1>3 DEF FileIsSound, CacheHit
  <2>3. \A w \in Worker : TaskIsSound(w)'
    BY <1>1, <1>3 DEF TaskIsSound
  <2> QED
    BY <1>3, <2>1, <2>2, <2>3, WorldKeeps
<1>4. ASSUME task' = task, UNCHANGED <<drive, fresh, row, stat>>,
             \A g \in File \ {f} : disk'[g] = disk[g],
             disk'[f] \in {0, disk[f], drive[f]}
      PROVE  IInv'
  <2>1. OnlyFile(f)
    BY <1>1, <1>4 DEF OnlyFile
  <2>2. FileIsSound(f)'
    BY <1>1, <1>4 DEF FileIsSound, CacheHit, None
  <2>3. ASSUME NEW w \in Worker, ~Idle(w) /\ FileOf(w) = f
        PROVE  TaskIsSound(w)'
    BY <1>1, <1>4, <2>3 DEF TaskIsSound, FileOf, None
  <2> QED
    BY <1>4, <2>1, <2>2, <2>3, WorldKeeps
<1>5. ASSUME task' = task, UNCHANGED <<drive, fresh, disk, stat>>,
             \A g \in File \ {f} : row'[g] = row[g],
             row'[f] \in {0, row[f]}
      PROVE  IInv'
  <2>1. OnlyFile(f)
    BY <1>1, <1>5 DEF OnlyFile
  <2>2. FileIsSound(f)'
    BY <1>1, <1>5 DEF FileIsSound, CacheHit, None
  <2>3. ASSUME NEW w \in Worker, ~Idle(w) /\ FileOf(w) = f
        PROVE  TaskIsSound(w)'
    BY <1>1, <1>5, <2>3 DEF TaskIsSound, FileOf
  <2> QED
    BY <1>5, <2>1, <2>2, <2>3, WorldKeeps
<1>6. CASE RemoteEdit(f)
  BY <1>2, <1>6 DEF RemoteEdit, Exclusive, cacheVars
<1>7. CASE RefreshStat(f)
  BY <1>1, <1>3, <1>7 DEF RefreshStat, cacheVars, TypeOK
<1>8. CASE Pin(f)
  BY <1>1, <1>4, <1>8 DEF Pin, SetDisk, TypeOK
<1>9. CASE Unpin(f)
  BY <1>1, <1>4, <1>9 DEF Unpin, SetDisk, TypeOK, None
<1>10. CASE Age(f)
  BY <1>5, <1>10 DEF Age
<1>11. CASE SweepFile(f)
  BY <1>1, <1>4, <1>11 DEF SweepFile, RemoveCached, TypeOK, None
<1>12. CASE SweepRow(f)
  BY <1>1, <1>5, <1>12 DEF SweepRow, SetRow, TypeOK, None
<1> QED
  BY <1>6, <1>7, <1>8, <1>9, <1>10, <1>11, <1>12

LEMMA NextIInv == Exclusive /\ IInv /\ [Next]_vars => IInv'
<1> SUFFICES ASSUME Exclusive, IInv, [Next]_vars PROVE IInv'
  OBVIOUS
<1>1. TypeOK /\ TypeOK'
  BY NextTypeOK DEF IInv
<1>2. ASSUME UNCHANGED <<drive, fresh, disk, row, stat, task>> PROVE IInv'
  BY <1>1, <1>2 DEF IInv, OneWorkerPerFile, FileIsSound, TaskIsSound,
                    CacheHit, Idle, At, FileOf
<1>3. CASE SweepStart
  BY <1>2, <1>3 DEF SweepStart, cacheVars
<1>4. CASE UNCHANGED vars
  BY <1>2, <1>4 DEF vars, cacheVars
<1>5. CASE \E w \in Worker, f \in File : Get(w, f) \/ Put(w, f)
  BY <1>1, <1>5, StartIInv
<1>6. CASE \E w \in Worker : WorkerStep(w)
  BY <1>1, <1>6, WorkerIInv
<1>7. CASE \E f \in File :
              \/ RemoteEdit(f) \/ RefreshStat(f) \/ Pin(f) \/ Unpin(f)
              \/ Age(f) \/ SweepFile(f) \/ SweepRow(f)
  BY <1>1, <1>7, WorldIInv
<1> QED
  BY <1>3, <1>4, <1>5, <1>6, <1>7 DEF Next, SweepStep

\* IInv: for any files and workers of which no two ever handle the same file
\* at once, and with no remote save during a put, the index never claims a
\* newer revision than the file it describes.
THEOREM Inductive == ASSUME Exclusive PROVE Spec => []IInv
<1>1. Init => IInv
  BY InitIInv
<1>2. IInv /\ [Next]_vars => IInv'
  BY NextIInv
<1> QED
  BY <1>1, <1>2, PTL DEF Spec

\* ServedIsCurrent: under the same conditions, whatever a get streams from
\* the cache is at least as new as what Drive had when the get came in.
THEOREM Fresh == ASSUME Exclusive PROVE Spec => []ServedIsCurrent
<1>1. IInv => ServedIsCurrent
  BY DEF IInv, ServedIsCurrent, TaskIsSound, At, FileOf
<1>2. Spec => []IInv
  BY Inductive
<1> QED
  BY <1>1, <1>2, PTL

(***************************************************************************)
(* Every copy is recorded, unless its record failed.                       *)
(***************************************************************************)

\* A copy without a record belongs to a call that is about to record it.
Recording(f) ==
    \E w \in Worker :
        FileOf(w) = f /\ task[w].step \in {"record", "putStat", "putRecord"}
Accounted(f) ==
    f \notin missed /\ disk[f] # None
        => row[f] # None \/ f \in pinned \/ Recording(f)

\* A row is dropped after its file has gone, and what is recorded is a time.
Orderly(w) ==
    /\ At(w, "drop") => \/ disk[FileOf(w)] = None
                        \/ FileOf(w) \in pinned \cup missed
    /\ task[w].step \in {"record", "putRecord"} => Cached(w)

RInv ==
    /\ IInv
    /\ \A f \in File : Accounted(f)
    /\ \A w \in Worker : Orderly(w)

\* What a step of worker w on file f leaves alone.
OnlyTask(w, f) ==
    /\ FileOf(w)' = f
    /\ \A v \in Worker \ {w} : task'[v] = task[v]
    /\ \A g \in File \ {f} :
        /\ disk'[g] = disk[g] /\ row'[g] = row[g]
        /\ g \in pinned' <=> g \in pinned
        /\ g \in missed' <=> g \in missed

LEMMA WorkerAccounts ==
    ASSUME RInv, IInv', NEW w \in Worker, NEW f \in File, OnlyTask(w, f),
           FileOf(w) = f \/ Idle(w),
           \A v \in Worker \ {w} : Idle(v) \/ FileOf(v) # f,
           Accounted(f)', Orderly(w)'
    PROVE  RInv'
<1>1. ASSUME NEW g \in File PROVE Accounted(g)'
  <2>1. CASE g = f
    BY <2>1
  <2>2. CASE g # f
    <3>1. Accounted(g)
      BY DEF RInv
    <3>2. Recording(g) => Recording(g)'
      BY <2>2 DEF Recording, OnlyTask, FileOf, Idle, At
    <3> QED
      BY <2>2, <3>1, <3>2 DEF Accounted, OnlyTask
  <2> QED
    BY <2>1, <2>2
<1>2. ASSUME NEW v \in Worker PROVE Orderly(v)'
  <2>1. CASE v = w
    BY <2>1
  <2>2. CASE v # w
    <3>1. Orderly(v) /\ FileOf(v) \in File
      BY Numbers DEF RInv, IInv, FileOf
    <3> QED
      BY <2>2, <3>1 DEF Orderly, OnlyTask, At, Idle, FileOf, Cached
  <2> QED
    BY <2>1, <2>2
<1> QED
  BY <1>1, <1>2 DEF RInv

\* A step of anybody else on file f.
LEMMA WorldAccounts ==
    ASSUME RInv, IInv', NEW f \in File, task' = task,
           \A g \in File \ {f} :
               /\ disk'[g] = disk[g] /\ row'[g] = row[g]
               /\ g \in pinned' <=> g \in pinned
               /\ g \in missed' <=> g \in missed,
           Accounted(f)',
           \A w \in Worker : At(w, "drop") /\ FileOf(w) = f
               => disk'[f] = None \/ f \in pinned' \cup missed'
    PROVE  RInv'
<1>1. ASSUME NEW g \in File PROVE Accounted(g)'
  <2>1. Accounted(g) /\ (Recording(g)' <=> Recording(g))
    BY DEF RInv, Recording, FileOf
  <2> QED
    BY <2>1 DEF Accounted
<1>2. ASSUME NEW v \in Worker PROVE Orderly(v)'
  <2>1. Orderly(v) /\ FileOf(v) \in File
    BY Numbers DEF RInv, IInv, FileOf
  <2> QED
    BY <2>1 DEF Orderly, At, FileOf, Cached
<1> QED
  BY <1>1, <1>2 DEF RInv

LEMMA StartAccounts ==
    ASSUME RInv, IInv', Exclusive, NEW w \in Worker, NEW f \in File,
           Get(w, f) \/ Put(w, f)
    PROVE  RInv'
<1>1. TypeOK /\ TypeOK' /\ Accounted(f)
  BY DEF RInv, IInv
<1>2. /\ Idle(w) /\ \A v \in Worker \ {w} : Idle(v) \/ FileOf(v) # f
      /\ disk' = disk /\ row' = row /\ pinned' = pinned /\ missed' = missed
  BY DEF Get, Put, MayStart, Handled, Exclusive, cacheVars
<1>3. /\ task'[w].file = f
      /\ task'[w].step \in {"pinned", "check", "stat", "copy"}
      /\ \A v \in Worker \ {w} : task'[v] = task[v]
  BY <1>1 DEF Get, Put, Begin, TypeOK
<1>4. OnlyTask(w, f)
  BY <1>2, <1>3 DEF OnlyTask, FileOf
<1>5. Orderly(w)'
  BY <1>3 DEF Orderly, At
<1>6. Accounted(f)'
  <2>1. ~Recording(f)
    BY <1>2 DEF Recording, Idle, At
  <2> QED
    BY <1>1, <1>2, <2>1 DEF Accounted
<1> QED
  BY <1>2, <1>4, <1>5, <1>6, WorkerAccounts

LEMMA Going ==
    ASSUME TypeOK, NEW w \in Worker, NEW step, GoTo(w, step)
    PROVE  /\ \A v \in Worker \ {w} : task'[v] = task[v]
           /\ FileOf(w)' = FileOf(w)
           /\ task'[w].step = step /\ task'[w].time = task[w].time
BY DEF TypeOK, Task, GoTo, FileOf

LEMMA Finishing ==
    ASSUME TypeOK, NEW w \in Worker, Finish(w)
    PROVE  /\ \A v \in Worker \ {w} : task'[v] = task[v]
           /\ FileOf(w)' = FileOf(w)
           /\ task'[w].step = "idle"
BY DEF TypeOK, Task, Finish, IdleTask, FileOf

LEMMA Stating ==
    ASSUME TypeOK, NEW w \in Worker, NEW step, StatPath(w, step)
    PROVE  /\ \A v \in Worker \ {w} : task'[v] = task[v]
           /\ FileOf(w)' = FileOf(w)
           /\ task'[w].step = step
<1> DEFINE time == IF stat[FileOf(w)] # None THEN stat[FileOf(w)] ELSE drive[FileOf(w)]
<1>1. task' = [task EXCEPT ![w] = [@ EXCEPT !.step = step, !.time = time]]
  BY DEF StatPath
<1> HIDE DEF time
<1> QED
  BY <1>1 DEF TypeOK, Task, FileOf

\* What a worker's step does to the tasks.
LEMMA WorkerMoves ==
    ASSUME TypeOK, NEW w \in Worker, WorkerStep(w)
    PROVE  /\ \A v \in Worker \ {w} : task'[v] = task[v]
           /\ FileOf(w)' = FileOf(w)
<1>1. CASE Check(w) \/ CheckFails(w) \/ Drop(w) \/ Record(w) \/ RecordFails(w) \/ Copy(w)
  BY <1>1, Going DEF Check, CheckFails, Drop, Record, RecordFails, Copy
<1>2. CASE Write(w)
  BY <1>2, Going, Finishing DEF Write
<1>3. CASE \/ TransferFails(w) \/ Stream(w) \/ PutRecord(w) \/ PutUnrecorded(w)
         \/ Crash(w)
  BY <1>3, Finishing DEF TransferFails, Stream, PutRecord, PutUnrecorded, Crash
<1>4. CASE Stat(w) \/ PutStat(w)
  BY <1>4, Stating DEF Stat, PutStat
<1>5. CASE StatFails(w)
  BY <1>5 DEF StatFails, FileOf, TypeOK, Task
<1>6. CASE Fetch(w)
  BY <1>6 DEF Fetch, FileOf, TypeOK, Task
<1> QED
  BY <1>1, <1>2, <1>3, <1>4, <1>5, <1>6 DEF WorkerStep

LEMMA WorkerStepAccounts ==
    ASSUME RInv, IInv', NEW w \in Worker, WorkerStep(w)
    PROVE  RInv'
<1>1. TypeOK /\ TypeOK' /\ ~Idle(w) /\ Orderly(w)
  BY DEF RInv, IInv, WorkerStep, Idle, At, Check, CheckFails, Drop, Stat,
         StatFails, Fetch, Write, TransferFails, Record, RecordFails, Stream,
         Copy, PutStat, PutRecord, PutUnrecorded, Crash, GetSteps, PutSteps
<1>2. PICK f \in File : FileOf(w) = f
  BY <1>1 DEF TypeOK, Task, FileOf
<1>3. Accounted(f) /\ \A v \in Worker \ {w} : Idle(v) \/ FileOf(v) # f
  BY <1>1, <1>2 DEF RInv, IInv, OneWorkerPerFile
<1>4. f \in DOMAIN disk /\ f \in DOMAIN row /\ drive[f] # None
  BY <1>1 DEF TypeOK, Revision, None
<1>5. /\ \A v \in Worker \ {w} : task'[v] = task[v]
      /\ task'[w].file = f /\ task[w].file = f
  BY <1>1, <1>2, WorkerMoves DEF FileOf
<1>6. OnlyTask(w, f)
  <2>1. \A g \in File \ {f} :
            /\ disk'[g] = disk[g] /\ row'[g] = row[g]
            /\ g \in missed' <=> g \in missed
    BY <1>1, <1>2, <1>4 DEF WorkerStep, Check, CheckFails, Drop, Stat, StatFails,
           StatPath, Fetch, Write, TransferFails, Record, RecordFails, Stream,
           Copy, PutStat, PutRecord, PutUnrecorded, Crash, RemoveCached, SetDisk,
           SetRow, Records, Misses, cacheVars, TypeOK
  <2>2. pinned' = pinned
    BY DEF WorkerStep, Check, CheckFails, Drop, Stat, StatFails,
           StatPath, Fetch, Write, TransferFails, Record, RecordFails, Stream,
           Copy, PutStat, PutRecord, PutUnrecorded, Crash
  <2> QED
    BY <1>5, <2>1, <2>2 DEF OnlyTask, FileOf
<1>7. Recording(f) <=> task[w].step \in {"record", "putStat", "putRecord"}
  BY <1>2, <1>3 DEF Recording, Idle, At, FileOf
<1>8. task'[w].step \in {"record", "putStat", "putRecord"} => Recording(f)'
  BY <1>5 DEF Recording, FileOf
<1>9. Accounted(f)' /\ Orderly(w)'
  <2>1. CASE Check(w)
    <3>1. \/ task'[w].step = "stream" /\ disk' = disk
          \/ task'[w].step = "drop" /\ RemoveCached(f)
      BY <1>1, <1>2, <2>1, Going DEF Check
    <3>2. row' = row /\ missed' = missed /\ pinned' = pinned /\ ~Recording(f)
      BY <1>7, <2>1 DEF Check, At
    <3>3. disk'[f] = disk[f] \/ disk'[f] = None
      BY <1>4, <3>1 DEF RemoveCached
    <3>4. task'[w].step = "drop" => disk'[f] = None \/ row[f] = None
      BY <1>4, <3>1 DEF RemoveCached, CacheHit
    <3> QED
      BY <1>3, <1>5, <3>1, <3>2, <3>3, <3>4 DEF Accounted, Orderly, At, FileOf
  <2>2. CASE CheckFails(w) \/ Stat(w) \/ StatFails(w) \/ Fetch(w) \/ Stream(w)
    <3>1. /\ disk' = disk /\ row' = row /\ missed' = missed /\ pinned' = pinned
          /\ ~Recording(f)
      BY <1>7, <2>2 DEF CheckFails, Stat, StatPath, StatFails, Fetch, Stream,
                       At, cacheVars
    <3>2. task'[w].step \in {"stat", "fetch", "write", "idle"}
      <4>1. CASE CheckFails(w) \/ Stream(w)
        BY <1>1, <4>1, Going, Finishing DEF CheckFails, Stream
      <4>2. CASE Stat(w)
        BY <1>1, <4>2, Stating DEF Stat
      <4>3. CASE StatFails(w)
        BY <1>1, <4>3 DEF StatFails, TypeOK, Task
      <4>4. CASE Fetch(w)
        BY <1>1, <4>4 DEF Fetch, TypeOK, Task
      <4> QED
        BY <2>2, <4>1, <4>2, <4>3, <4>4
    <3> QED
      BY <1>3, <3>1, <3>2 DEF Accounted, Orderly, At
  <2>3. CASE Drop(w)
    <3>1. task'[w].step = "stat"
      BY <1>1, <2>3, Going DEF Drop
    <3>2. disk' = disk /\ missed' = missed /\ pinned' = pinned /\ ~Recording(f)
      BY <1>7, <2>3 DEF Drop, At
    <3> QED
      BY <1>1, <1>3, <1>5, <2>3, <3>1, <3>2 DEF Drop, Accounted, Orderly, At, FileOf
  <2>4. CASE Write(w)
    <3>1. \/ task'[w].step = "record" /\ task'[w].time = task[w].time /\ Cached(w)
          \/ task'[w].step = "idle" /\ disk' = disk
      BY <1>1, <2>4, Going, Finishing DEF Write
    <3>2. row' = row /\ missed' = missed /\ pinned' = pinned /\ ~Recording(f)
      BY <1>7, <2>4 DEF Write, At
    <3> QED
      BY <1>3, <1>8, <3>1, <3>2 DEF Accounted, Orderly, At, Cached
  <2>5. CASE TransferFails(w)
    <3>1. task'[w].step = "idle" /\ (disk'[f] = disk[f] \/ disk'[f] = None)
      BY <1>1, <1>2, <1>4, <2>5, Finishing DEF TransferFails
    <3>2. row' = row /\ missed' = missed /\ pinned' = pinned /\ ~Recording(f)
      BY <1>7, <2>5 DEF TransferFails, At
    <3> QED
      BY <1>3, <3>1, <3>2 DEF Accounted, Orderly, At
  <2>6. CASE Record(w) \/ PutRecord(w)
    <3>1. task'[w].step \in {"stream", "idle"}
      BY <1>1, <2>6, Going, Finishing DEF Record, PutRecord
    <3>2. task[w].time # None
      BY <1>1, <2>6 DEF Record, PutRecord, Orderly, Cached, At
    <3>3. row'[f] # None
      BY <1>2, <1>4, <2>6, <3>2 DEF Record, PutRecord, SetRow
    <3> QED
      BY <3>1, <3>3 DEF Accounted, Orderly, At
  <2>7. CASE RecordFails(w) \/ PutUnrecorded(w) \/ Crash(w)
    <3>1. task'[w].step \in {"stream", "idle"}
      BY <1>1, <2>7, Going, Finishing DEF RecordFails, PutUnrecorded, Crash
    <3>2. disk'[f] # None => row'[f] # None \/ f \in pinned' \cup missed'
      BY <1>2, <2>7 DEF RecordFails, PutUnrecorded, Crash, Misses
    <3> QED
      BY <3>1, <3>2 DEF Accounted, Orderly, At
  <2>8. CASE Copy(w)
    <3>1. task'[w].step = "putStat"
      BY <1>1, <2>8, Going DEF Copy
    <3> QED
      BY <1>8, <3>1 DEF Accounted, Orderly, At
  <2>9. CASE PutStat(w)
    <3>1. task'[w].step = "putRecord" /\ task'[w].time # None
      BY <1>1, <1>2, <1>4, <2>9 DEF PutStat, StatPath, TypeOK, Task
    <3> QED
      BY <1>8, <3>1 DEF Accounted, Orderly, At, Cached
  <2> QED
    BY <2>1, <2>2, <2>3, <2>4, <2>5, <2>6, <2>7, <2>8, <2>9 DEF WorkerStep
<1> QED
  BY <1>1, <1>2, <1>3, <1>6, <1>9, WorkerAccounts DEF Idle

LEMMA NextAccounts == Exclusive /\ RInv /\ IInv' /\ [Next]_vars => RInv'
<1> SUFFICES ASSUME Exclusive, RInv, IInv', [Next]_vars PROVE RInv'
  OBVIOUS
<1>1. TypeOK /\ TypeOK'
  BY DEF RInv, IInv
<1>2. ASSUME UNCHANGED <<disk, row, missed, pinned, task>> PROVE RInv'
  BY <1>2 DEF RInv, Accounted, Recording, Orderly, At, FileOf, Cached
<1>3. CASE SweepStart \/ UNCHANGED vars
  BY <1>2, <1>3 DEF SweepStart, vars, cacheVars
<1>4. ASSUME NEW f \in File, RemoteEdit(f) \/ RefreshStat(f) \/ Age(f)
      PROVE  RInv'
  BY <1>2, <1>4 DEF RemoteEdit, RefreshStat, Age, cacheVars
<1>5. ASSUME NEW f \in File, Pin(f) \/ Unpin(f) \/ SweepFile(f) \/ SweepRow(f)
      PROVE  RInv'
  <2>1. Accounted(f) /\ \A w \in Worker : Orderly(w)
    BY DEF RInv
  <2>2. f \in DOMAIN disk /\ f \in DOMAIN row /\ task' = task
    BY <1>1, <1>5 DEF TypeOK, Pin, Unpin, SweepFile, SweepRow
  <2>3. \A g \in File \ {f} :
           /\ disk'[g] = disk[g] /\ row'[g] = row[g]
           /\ g \in pinned' <=> g \in pinned
           /\ g \in missed' <=> g \in missed
    BY <1>1, <1>5 DEF TypeOK, Pin, Unpin, SweepFile, SweepRow, SetDisk,
                      SetRow, RemoveCached, Misses
  <2>4. Recording(f)' <=> Recording(f)
    BY <2>2 DEF Recording, FileOf
  <2>5. Accounted(f)'
    BY <1>5, <2>1, <2>2, <2>4
       DEF Pin, Unpin, SweepFile, SweepRow, SetDisk, SetRow, RemoveCached,
           CacheHit, Misses, Accounted
  <2>6. \A w \in Worker : At(w, "drop") /\ FileOf(w) = f
           => disk'[f] = None \/ f \in pinned' \cup missed'
    <3>1. CASE Pin(f) \/ Unpin(f) \/ SweepFile(f)
      BY <2>1, <2>2, <3>1
         DEF Pin, Unpin, SweepFile, SetDisk, RemoveCached, Orderly
    <3>2. CASE SweepRow(f)
      BY <2>1, <2>2, <3>2 DEF SweepRow, SetRow, Misses, Orderly
    <3> QED
      BY <1>5, <3>1, <3>2
  <2> QED
    BY <2>2, <2>3, <2>5, <2>6, WorldAccounts
<1> QED
  BY <1>3, <1>4, <1>5, StartAccounts, WorkerStepAccounts DEF Next, SweepStep

\* EveryCopyIsRecorded: for any files and workers of which no two ever handle
\* the same file at once, a file is left in the cache directory without a
\* record only after its record failed, its worker died before the record, or
\* a sweep removed the record after the file was written.
THEOREM Accounts == ASSUME Exclusive PROVE Spec => []EveryCopyIsRecorded
<1>1. Init => RInv
  <2> SUFFICES ASSUME Init PROVE RInv
    OBVIOUS
  <2>1. \A f \in File : disk[f] = None
    BY DEF Init
  <2>2. \A w \in Worker : task[w].step = "idle"
    BY DEF Init, IdleTask
  <2> QED
    BY <2>1, <2>2, InitIInv DEF RInv, Accounted, Orderly, At
<1>2. RInv /\ IInv' /\ [Next]_vars => RInv'
  BY NextAccounts
<1>3. RInv => EveryCopyIsRecorded
  BY DEF RInv, Accounted, Recording, EveryCopyIsRecorded, Idle, At
<1>4. Spec => []IInv
  BY Inductive
<1> QED
  BY <1>1, <1>2, <1>3, <1>4, PTL DEF Spec
=============================================================================
