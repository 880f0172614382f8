----------------------------- MODULE FileCache -----------------------------
(***************************************************************************)
(* The cache of opened and saved files: get() and put() of                 *)
(* worker/protondriveworker.cpp, lookup_cached, store_cached and stat_path *)
(* of core/src/bridge.rs, the cached_files table of core/src/cache.rs and  *)
(* the retention sweep of daemon/src/cache_eviction.rs.                    *)
(*                                                                         *)
(* Several worker processes, the daemon's sweep and its pin requests share *)
(* one index and one directory tree without any lock; what one SQLite      *)
(* statement, one file operation or one CLI call does is one step here.    *)
(* A revision of a file is a number; its modification_time, which is what  *)
(* the index stores and compares, identifies it.                           *)
(***************************************************************************)
EXTENDS Naturals

CONSTANTS
    File,         \* the remote paths; each has one mirrored local path
    Worker,       \* the KIO worker processes
    Environment,  \* what may happen besides gets, puts and remote changes
    MaxRevisions  \* bound: revisions written by anybody

(***************************************************************************)
(* The events a run lets happen:                                           *)
(*   Cancel         the job of a running transfer is killed                *)
(*   Failure        a CLI call or an index statement fails                 *)
(*   Crash          a worker process dies                                  *)
(*   Evict          rows get old and the retention sweep removes them      *)
(*   Pin            files are pinned and unpinned                          *)
(*   Overlap        two workers handle the same file at the same time      *)
(*   EditDuringPut  another device saves the file while a put records it   *)
(***************************************************************************)
EnvironmentEvents ==
    {"Cancel", "Failure", "Crash", "Evict", "Pin", "Overlap", "EditDuringPut"}

ASSUME ConstantsAssumption ==
    /\ Environment \subseteq EnvironmentEvents
    /\ MaxRevisions \in Nat \ {0}

VARIABLES
    drive,   \* drive[f]: the current revision on Drive
    fresh,   \* the last revision given
    disk,    \* disk[f]: the revision the mirrored file holds, or None
    row,     \* row[f]: the modification time in cached_files, or None
    old,     \* the rows whose last access is past the retention
    missed,  \* copies that were never recorded, or lost their record (history)
    stat,    \* stat[f]: the modification time in fs_stat_cache, or None
    pinned,  \* the paths with a row in pins
    task,    \* task[w]: what worker w is doing
    sweep    \* the retention sweep: paths to evict, paths half evicted

cacheVars == <<disk, row, old, missed>>
vars == <<drive, fresh, cacheVars, stat, pinned, task, sweep>>

-----------------------------------------------------------------------------

None == 0
Revision == 1 .. MaxRevisions
Maybe == Revision \cup {None}

GetSteps == {"check", "drop", "stat", "fetch", "write", "record", "stream", "pinned"}
PutSteps == {"copy", "putStat", "putRecord"}

\* time: the modification time in hand; content: the revision transferred;
\* since: the revision Drive had when the call came in.
Task == [step : {"idle"} \cup GetSteps \cup PutSteps,
         file : File, time : Maybe, content : Maybe, since : Maybe]
IdleTask(f) == [step |-> "idle", file |-> f, time |-> None,
                content |-> None, since |-> None]

\* The index, the disk and the workers hold revisions somebody wrote.
TypeOK ==
    /\ drive \in [File -> Revision]
    /\ fresh \in Revision
    /\ disk \in [File -> Maybe]
    /\ row \in [File -> Maybe]
    /\ old \subseteq File
    /\ missed \subseteq File
    /\ stat \in [File -> Maybe]
    /\ pinned \subseteq File
    /\ task \in [Worker -> Task]
    /\ sweep \in [todo : SUBSET File, half : SUBSET File]

Init ==
    /\ drive = [f \in File |-> 1]
    /\ fresh = 1
    /\ disk = [f \in File |-> None]
    /\ row = [f \in File |-> None]
    /\ old = {} /\ missed = {}
    /\ stat = [f \in File |-> None]
    /\ pinned = {}
    /\ task \in [Worker -> {IdleTask(f) : f \in File}]
    /\ sweep = [todo |-> {}, half |-> {}]

At(w, step) == task[w].step = step
Idle(w) == At(w, "idle")
FileOf(w) == task[w].file
Handled(f) == \E w \in Worker : ~Idle(w) /\ FileOf(w) = f
Putting(f) == \E w \in Worker : task[w].step \in PutSteps /\ FileOf(w) = f

\* Cache::lookup and Cache::cached_file: a row counts while its file exists.
PinHit(f) == f \in pinned /\ disk[f] # None
CacheHit(f) == row[f] # None /\ disk[f] # None

GoTo(w, step) == task' = [task EXCEPT ![w] = [@ EXCEPT !.step = step]]
Begin(w, f, step, time, content) ==
    task' = [task EXCEPT ![w] = [step |-> step, file |-> f, time |-> time,
                                 content |-> content, since |-> drive[f]]]
Finish(w) == task' = [task EXCEPT ![w] = IdleTask(FileOf(w))]

SetDisk(f, r) == disk' = [disk EXCEPT ![f] = r]
SetRow(f, m) == row' = [row EXCEPT ![f] = m] /\ old' = old \ {f}
Records(f) == missed' = missed \ {f}

\* The step leaves the copy of f there without a record.
Misses(f) ==
    missed' = IF disk'[f] # None /\ row'[f] = None /\ f \notin pinned
              THEN missed \cup {f} ELSE missed

\* Cache::evict_cached_file, first half: the file goes if it is on record.
RemoveCached(f) == disk' = IF CacheHit(f) THEN [disk EXCEPT ![f] = None] ELSE disk

-----------------------------------------------------------------------------
(***************************************************************************)
(* ProtonDriveWorker::get.                                                 *)
(***************************************************************************)

MayStart(w, f) == Idle(w) /\ (Handled(f) => "Overlap" \in Environment)

\* lookup_pin, then the read of the cached_files row in lookup_cached.
Get(w, f) ==
    /\ MayStart(w, f)
    /\ Begin(w, f,
             IF PinHit(f) THEN "pinned" ELSE IF CacheHit(f) THEN "check" ELSE "stat",
             IF CacheHit(f) THEN row[f] ELSE None, None)
    /\ UNCHANGED <<drive, fresh, cacheVars, stat, pinned, sweep>>

\* Mutant of Check: the freshness check asks the stat cache first.
CheckAgainstCache(w) ==
    LET f == FileOf(w)
        now == IF stat[f] # None THEN stat[f] ELSE drive[f] IN
    /\ At(w, "check")
    /\ stat' = [stat EXCEPT ![f] = now]
    /\ IF now = task[w].time
       THEN old' = old \ {f} /\ disk' = disk /\ GoTo(w, "stream")
       ELSE RemoveCached(f) /\ old' = old /\ GoTo(w, "drop")
    /\ UNCHANGED <<drive, fresh, row, missed, pinned, sweep>>

\* lookup_cached: a live stat against the recorded time.  A match is touched
\* and served, anything else is evicted.
Check(w) ==
    LET f == FileOf(w) IN
    /\ At(w, "check")
    /\ stat' = [stat EXCEPT ![f] = drive[f]]
    /\ IF drive[f] = task[w].time
       THEN old' = old \ {f} /\ disk' = disk /\ GoTo(w, "stream")
       ELSE RemoveCached(f) /\ old' = old /\ GoTo(w, "drop")
    /\ UNCHANGED <<drive, fresh, row, missed, pinned, sweep>>

CheckFails(w) ==
    /\ At(w, "check") /\ "Failure" \in Environment
    /\ GoTo(w, "stat")
    /\ UNCHANGED <<drive, fresh, cacheVars, stat, pinned, sweep>>

\* evict_cached_file, second half: the row goes.
Drop(w) ==
    /\ At(w, "drop")
    /\ SetRow(FileOf(w), None)
    /\ GoTo(w, "stat")
    /\ UNCHANGED <<drive, fresh, disk, missed, stat, pinned, sweep>>

\* bridge.rs stat_path: a cached stat is served however old it is, a miss is
\* fetched and stored.
StatPath(w, step) ==
    LET f == FileOf(w)
        time == IF stat[f] # None THEN stat[f] ELSE drive[f] IN
    /\ stat' = [stat EXCEPT ![f] = time]
    /\ task' = [task EXCEPT ![w] = [@ EXCEPT !.step = step, !.time = time]]
    /\ UNCHANGED <<drive, fresh, cacheVars, pinned, sweep>>

Stat(w) == At(w, "stat") /\ StatPath(w, "fetch")

\* Without a modification time the download goes to a temporary directory.
StatFails(w) ==
    /\ At(w, "stat") /\ stat[FileOf(w)] = None /\ "Failure" \in Environment
    /\ task' = [task EXCEPT ![w] = [@ EXCEPT !.step = "fetch", !.time = None]]
    /\ UNCHANGED <<drive, fresh, cacheVars, stat, pinned, sweep>>

Cached(w) == task[w].time # None

\* The CLI begins to download the revision Drive has now ...
Fetch(w) ==
    /\ At(w, "fetch")
    /\ task' = [task EXCEPT ![w] = [@ EXCEPT !.step = "write", !.content = drive[FileOf(w)]]]
    /\ UNCHANGED <<drive, fresh, cacheVars, stat, pinned, sweep>>

\* ... and ends with the file in place of what was there (-f remove).
Write(w) ==
    /\ At(w, "write")
    /\ IF Cached(w)
       THEN SetDisk(FileOf(w), task[w].content) /\ GoTo(w, "record")
       ELSE Finish(w) /\ disk' = disk
    /\ UNCHANGED <<drive, fresh, row, old, missed, stat, pinned, sweep>>

\* Mutant of TransferFails: what the transfer left in place stays there.
TransferFailsUnclean(w) ==
    /\ task[w].step \in {"fetch", "write"}
    /\ {"Cancel", "Failure"} \cap Environment # {}
    /\ disk' \in {disk} \cup
           {IF Cached(w) THEN [disk EXCEPT ![FileOf(w)] = task[w].content] ELSE disk}
    /\ Finish(w)
    /\ UNCHANGED <<drive, fresh, row, old, missed, stat, pinned, sweep>>

\* The transfer fails or the job is killed: the mirrored path is removed.
TransferFails(w) ==
    /\ task[w].step \in {"fetch", "write"}
    /\ {"Cancel", "Failure"} \cap Environment # {}
    /\ disk' = IF Cached(w) THEN [disk EXCEPT ![FileOf(w)] = None] ELSE disk
    /\ Finish(w)
    /\ UNCHANGED <<drive, fresh, row, old, missed, stat, pinned, sweep>>

\* Mutant of Record: the time recorded is asked for after the download.
RecordLate(w) ==
    /\ At(w, "record")
    /\ SetRow(FileOf(w), drive[FileOf(w)])
    /\ Records(FileOf(w))
    /\ GoTo(w, "stream")
    /\ UNCHANGED <<drive, fresh, disk, stat, pinned, sweep>>

\* store_cached with the time stat_path gave before the download.
Record(w) ==
    /\ At(w, "record")
    /\ SetRow(FileOf(w), task[w].time)
    /\ Records(FileOf(w))
    /\ GoTo(w, "stream")
    /\ UNCHANGED <<drive, fresh, disk, stat, pinned, sweep>>

RecordFails(w) ==
    /\ At(w, "record") /\ "Failure" \in Environment
    /\ GoTo(w, "stream")
    /\ UNCHANGED <<drive, fresh, disk, row, old, stat, pinned, sweep>>
    /\ Misses(FileOf(w))

\* streamLocalFile: the answer is what the file holds when it is opened, or
\* ERR_CANNOT_READ.
Stream(w) ==
    /\ task[w].step \in {"stream", "pinned"}
    /\ Finish(w)
    /\ UNCHANGED <<drive, fresh, cacheVars, stat, pinned, sweep>>

-----------------------------------------------------------------------------
(***************************************************************************)
(* ProtonDriveWorker::put.                                                 *)
(***************************************************************************)

\* The upload is done; poll_transfer drops the folder's listing, not the
\* file's stat.
Put(w, f) ==
    /\ MayStart(w, f)
    /\ fresh < MaxRevisions
    /\ fresh' = fresh + 1
    /\ drive' = [drive EXCEPT ![f] = fresh + 1]
    /\ Begin(w, f, "copy", None, fresh + 1)
    /\ UNCHANGED <<cacheVars, stat, pinned, sweep>>

\* QFile::remove and QFile::copy into the cache directory.
Copy(w) ==
    /\ At(w, "copy")
    /\ SetDisk(FileOf(w), task[w].content)
    /\ GoTo(w, "putStat")
    /\ UNCHANGED <<drive, fresh, row, old, missed, stat, pinned, sweep>>

PutStat(w) == At(w, "putStat") /\ StatPath(w, "putRecord")

PutRecord(w) ==
    /\ At(w, "putRecord")
    /\ SetRow(FileOf(w), task[w].time)
    /\ Records(FileOf(w))
    /\ Finish(w)
    /\ UNCHANGED <<drive, fresh, disk, stat, pinned, sweep>>

\* Any step after the upload may fail, the copy also half-way, when the old
\* file is gone; the put has succeeded all the same.
PutUnrecorded(w) ==
    /\ task[w].step \in PutSteps /\ "Failure" \in Environment
    /\ At(w, "putStat") => stat[FileOf(w)] = None
    /\ \/ disk' = disk
       \/ At(w, "copy") /\ SetDisk(FileOf(w), None)
    /\ Finish(w)
    /\ UNCHANGED <<drive, fresh, row, old, stat, pinned, sweep>>
    /\ Misses(FileOf(w))

\* The worker process dies in the middle of a call.  The CLI is a process of
\* its own and may still put its file in place; QFile::copy has removed the old
\* file before the new one is there.
Crash(w) ==
    /\ ~Idle(w) /\ "Crash" \in Environment
    /\ \/ disk' = disk
       \/ At(w, "write") /\ Cached(w) /\ SetDisk(FileOf(w), task[w].content)
       \/ At(w, "copy") /\ SetDisk(FileOf(w), None)
    /\ Finish(w)
    /\ UNCHANGED <<drive, fresh, row, old, stat, pinned, sweep>>
    /\ Misses(FileOf(w))

-----------------------------------------------------------------------------
(***************************************************************************)
(* The daemon and the world.                                               *)
(***************************************************************************)

\* Another device saves the file.
RemoteEdit(f) ==
    /\ fresh < MaxRevisions
    /\ Putting(f) => "EditDuringPut" \in Environment
    /\ fresh' = fresh + 1
    /\ drive' = [drive EXCEPT ![f] = fresh + 1]
    /\ UNCHANGED <<cacheVars, stat, pinned, task, sweep>>

\* The daemon's revalidation or sweep stores what Drive says now.
RefreshStat(f) ==
    /\ stat' = [stat EXCEPT ![f] = drive[f]]
    /\ UNCHANGED <<drive, fresh, cacheVars, pinned, task, sweep>>

\* Cache::pin as a whole: the download and the row of pins.
Pin(f) ==
    /\ "Pin" \in Environment
    /\ f \notin pinned
    /\ SetDisk(f, drive[f])
    /\ pinned' = pinned \cup {f}
    /\ UNCHANGED <<drive, fresh, row, old, missed, stat, task, sweep>>

Unpin(f) ==
    /\ f \in pinned
    /\ SetDisk(f, None)
    /\ pinned' = pinned \ {f}
    /\ UNCHANGED <<drive, fresh, row, old, missed, stat, task, sweep>>

\* The retention passes without an access to f.
Age(f) ==
    /\ "Evict" \in Environment
    /\ row[f] # None
    /\ old' = old \cup {f}
    /\ UNCHANGED <<drive, fresh, disk, row, missed, stat, pinned, task, sweep>>

\* evict_stale: the list first, then one file after the other.
SweepStart ==
    /\ sweep.todo = {} /\ sweep.half = {} /\ old # {}
    /\ sweep' = [sweep EXCEPT !.todo = old]
    /\ UNCHANGED <<drive, fresh, cacheVars, stat, pinned, task>>

SweepFile(f) ==
    /\ f \in sweep.todo /\ sweep.half = {}
    /\ RemoveCached(f)
    /\ sweep' = [todo |-> sweep.todo \ {f}, half |-> {f}]
    /\ UNCHANGED <<drive, fresh, row, old, missed, stat, pinned, task>>

SweepRow(f) ==
    /\ f \in sweep.half
    /\ SetRow(f, None)
    /\ sweep' = [sweep EXCEPT !.half = {}]
    /\ UNCHANGED <<drive, fresh, disk, stat, pinned, task>>
    /\ Misses(f)

-----------------------------------------------------------------------------

WorkerStep(w) ==
    \/ Check(w) \/ CheckFails(w) \/ Drop(w)
    \/ Stat(w) \/ StatFails(w)
    \/ Fetch(w) \/ Write(w) \/ TransferFails(w)
    \/ Record(w) \/ RecordFails(w) \/ Stream(w)
    \/ Copy(w) \/ PutStat(w) \/ PutRecord(w) \/ PutUnrecorded(w)
    \/ Crash(w)

SweepStep == SweepStart \/ \E f \in File : SweepFile(f) \/ SweepRow(f)

Next ==
    \/ \E w \in Worker, f \in File : Get(w, f) \/ Put(w, f)
    \/ \E w \in Worker : WorkerStep(w)
    \/ \E f \in File :
        RemoteEdit(f) \/ RefreshStat(f) \/ Pin(f) \/ Unpin(f) \/ Age(f)
    \/ SweepStep

Spec == Init /\ [][Next]_vars

-----------------------------------------------------------------------------
(***************************************************************************)
(* Properties.                                                             *)
(***************************************************************************)

\* What a get is about to stream from the cache is at least as new as what
\* Drive had when the get came in: "a hit here is re-verified against the
\* remote's current modification_time before being trusted" (bridge.rs,
\* lookup_cached).
ServedIsCurrent ==
    \A w \in Worker :
        At(w, "stream") /\ disk[FileOf(w)] # None
            => disk[FileOf(w)] >= task[w].since

\* While no call is running, every file in the cache directory has a record
\* that some sweep, unpin or later get can find it by: "a file left in the
\* cache directory without a record is never evicted" (get(), #166).  What the
\* code does leave behind is in `missed`: a record that failed, a worker that
\* died before it, a sweep that met a download; a cancelled or failed transfer
\* leaves nothing.
EveryCopyIsRecorded ==
    (\A w \in Worker : Idle(w)) =>
        \A f \in File \ missed :
            disk[f] # None => row[f] # None \/ f \in pinned

\* The copy of a pinned file stays until it is unpinned: "Pinned files are
\* never auto-evicted" (cache.rs).
PinnedCopyStays ==
    [][\A f \in pinned \cap pinned' : disk[f] # None => disk'[f] # None]_vars

-----------------------------------------------------------------------------
(***************************************************************************)
(* The inductive invariant behind ServedIsCurrent, for workers that never  *)
(* handle the same file at the same time.                                  *)
(***************************************************************************)

Exclusive == Environment \cap {"Overlap", "EditDuringPut"} = {}

OneWorkerPerFile ==
    \A v, w \in Worker :
        ~Idle(v) /\ ~Idle(w) /\ FileOf(v) = FileOf(w) => v = w

\* Nothing is newer than what Drive holds, and a record never claims a newer
\* revision than its file holds: a file whose record matches Drive holds what
\* Drive holds.
FileIsSound(f) ==
    /\ drive[f] <= fresh
    /\ stat[f] <= drive[f]
    /\ disk[f] <= drive[f]
    /\ row[f] <= drive[f]
    /\ CacheHit(f) => row[f] <= disk[f]

\* What each step of a call may rely on.
TaskIsSound(w) ==
    LET t == task[w]
        f == t.file IN
    /\ t.since <= drive[f] /\ t.time <= drive[f] /\ t.content <= drive[f]
    /\ t.step = "check" /\ disk[f] # None => t.time <= disk[f]
    /\ t.step = "write" =>
        t.since <= t.content /\ t.time <= t.content /\ row[f] <= t.content
    /\ t.step = "record" /\ disk[f] # None => t.time <= disk[f]
    /\ t.step \in {"record", "stream"} /\ disk[f] # None => t.since <= disk[f]
    /\ t.step \in PutSteps => t.content = drive[f]
    /\ t.step \in PutSteps \ {"copy"} /\ disk[f] # None => disk[f] = drive[f]

\* What every step keeps.
IInv ==
    /\ TypeOK
    /\ OneWorkerPerFile
    /\ \A f \in File : FileIsSound(f)
    /\ \A w \in Worker : TaskIsSound(w)
=============================================================================
