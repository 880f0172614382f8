------------------------------ MODULE PinSync ------------------------------
(***************************************************************************)
(* Offline copies of pinned Drive files and the daemon that uploads local  *)
(* edits to them: core/src/cache.rs (pin, unpin, needs_upload,             *)
(* mark_synced), daemon/src/sync.rs (upload_if_needed, reconcile), the     *)
(* event loop of daemon/src/main.rs, daemon/src/watcher.rs and the pin     *)
(* routes of daemon/src/control.rs.                                        *)
(*                                                                         *)
(* A file stands for one remote path and the one local path that mirrors   *)
(* it under the cache root (Cache::target_dir_for); renames are not part   *)
(* of this module.  The actors are the user's editor, other devices, the   *)
(* control threads (one per pin or unpin request), the inotify debouncer   *)
(* and the daemon's main loop.  Every step of an actor that another one    *)
(* can run between is an action of its own.                                *)
(***************************************************************************)
EXTENDS Naturals, Sequences

CONSTANTS
    File,          \* the remote paths
    Thread,        \* identities of the control server's connection threads
    Environment,   \* what the world around the daemon may do, see below
    MaxEdits,      \* bound: contents written by users and other devices
    MaxStamp,      \* bound: local writes the user starts
    MaxCrashes,    \* bound: daemon crashes
    MaxBatches     \* bound: batches waiting when a spurious event occurs

(***************************************************************************)
(* The events a run lets the environment produce:                          *)
(*   Crash      the daemon dies and systemd restarts it                    *)
(*   Expiry     the Proton session expires, the user signs in again later  *)
(*   Failure    a CLI call fails for another reason (network, timeout)     *)
(*   Force      pin and unpin requests carry force=1                       *)
(*   Repin      a file is pinned again while it has a pin, or while a      *)
(*              request on it or an upload of it is under way              *)
(*   Touch      inotify reports a change that changed nothing (chmod, ...) *)
(*   EditDuringControl    the user saves while a request on the file runs  *)
(*   EditDuringReconcile  the user saves while the startup walk runs       *)
(*   SameStamp  two writes of the same size fall in the same second        *)
(***************************************************************************)
EnvironmentEvents ==
    {"Crash", "Expiry", "Failure", "Force", "Repin", "Touch",
     "EditDuringControl", "EditDuringReconcile", "SameStamp"}

ASSUME ConstantsAssumption ==
    /\ Environment \subseteq EnvironmentEvents
    /\ {MaxEdits, MaxStamp, MaxCrashes, MaxBatches} \subseteq Nat

VARIABLES
    drive,      \* drive[f]: the content Drive holds now
    reached,    \* reached[f]: every content Drive has ever held (history)
    authored,   \* the contents the user wrote into a local copy (history)
    fresh,      \* number of contents created so far
    local,      \* local[f]: the copy on disk, its content and its stamp
    clock,      \* the last stamp given to a local write
    pins,       \* pins[f]: the stamp recorded in the pin's row, or NoPin
    requests,   \* the pin and unpin requests the control threads run
    phase,      \* the main loop: "down", "reconcile" or "watching"
    todo,       \* what is left of the walk, or of the batch in hand
    job,        \* the upload under way in upload_if_needed (at most one)
    window,     \* changed paths still inside the debounce window
    inbox,      \* debounced batches not received yet
    session,    \* the CLI is signed in
    notified,   \* auth_notified of main.rs
    crashes     \* crashes so far

driveVars   == <<drive, reached>>
diskVars    == <<local, clock>>
contentVars == <<authored, fresh>>
loopVars    == <<phase, todo, job>>
queueVars   == <<window, inbox>>
vars == <<driveVars, contentVars, diskVars, pins, requests, loopVars,
          queueVars, session, notified, crashes>>

-----------------------------------------------------------------------------
(***************************************************************************)
(* Data.  A content is a number; a stamp stands for the (mtime, size) pair *)
(* that metadata_mtime_size returns and the index stores.                  *)
(***************************************************************************)

Content == 0 .. MaxEdits
Stamp == Nat

NoCopy == [content |-> 0, stamp |-> 0]
NoPin == 0

HasCopy(f) == local[f] # NoCopy
Pinned(f) == pins[f] # NoPin

\* Cache::needs_upload on the current metadata: there is a row and it
\* records another stamp.  Cache::is_dirty is the same test on a copy that
\* exists.
Dirty(f) == HasCopy(f) /\ Pinned(f) /\ pins[f] # local[f].stamp

Steps == {"download", "record", "remove", "delete"}
Request == [thread : Thread, file : File, force : BOOLEAN, step : Steps]
Job == [step : {"upload", "mark"}, file : File, seen : Stamp]

Busy(f) == \E r \in requests : r.file = f
Asked(f) == \E r \in requests : r.file = f /\ r.force
Uploading(f) == \E j \in job : j.file = f

\* What the index, the disk, Drive and the daemon's queues can hold; in
\* particular a batch is a set of known files and a job one of the two steps
\* of upload_if_needed.
TypeOK ==
    /\ drive \in [File -> Content]
    /\ reached \in [File -> SUBSET Content]
    /\ authored \subseteq Content
    /\ fresh \in Content
    /\ local \in [File -> [content : Content, stamp : Stamp]]
    /\ clock \in Nat
    /\ pins \in [File -> Stamp]
    /\ requests \subseteq Request
    /\ phase \in {"down", "reconcile", "watching"}
    /\ todo \subseteq File
    /\ job \subseteq Job
    /\ window \subseteq File
    /\ inbox \in Seq(SUBSET File)
    /\ session \in BOOLEAN
    /\ notified \in BOOLEAN
    /\ crashes \in Nat

Init ==
    /\ drive = [f \in File |-> 0]
    /\ reached = [f \in File |-> {0}]
    /\ authored = {}
    /\ fresh = 0
    /\ local = [f \in File |-> NoCopy]
    /\ clock = 0
    /\ pins = [f \in File |-> NoPin]
    /\ requests = {}
    /\ phase = "down"
    /\ todo = {}
    /\ job = {}
    /\ window = {}
    /\ inbox = <<>>
    /\ session = TRUE
    /\ notified = FALSE
    /\ crashes = 0

-----------------------------------------------------------------------------
(***************************************************************************)
(* The filesystem under the cache root.                                    *)
(***************************************************************************)

\* The watcher reports a write once main() has installed it.
NoteChange(f) ==
    window' = IF phase = "watching" THEN window \cup {f} ELSE window

\* A write gets a stamp of its own, unless it falls in the same second as
\* the last one and leaves the size as it was.
WriteCopy(f, c) ==
    /\ \E s \in {clock + 1} \cup (IF "SameStamp" \in Environment /\ clock > 0
                                  THEN {clock} ELSE {}) :
            /\ local' = [local EXCEPT ![f] = [content |-> c, stamp |-> s]]
            /\ clock' = s
    /\ NoteChange(f)

SetDrive(f, c) ==
    /\ drive' = [drive EXCEPT ![f] = c]
    /\ reached' = [reached EXCEPT ![f] = @ \cup {c}]

-----------------------------------------------------------------------------
(***************************************************************************)
(* The environment: the user's editor, other devices, the session.         *)
(***************************************************************************)

\* The user saves a pinned file's local copy.
UserEdit(f) ==
    /\ HasCopy(f) /\ Pinned(f)
    /\ fresh < MaxEdits /\ clock < MaxStamp
    /\ Busy(f) => "EditDuringControl" \in Environment
    /\ phase = "reconcile" => "EditDuringReconcile" \in Environment
    /\ WriteCopy(f, fresh + 1)
    /\ fresh' = fresh + 1
    /\ authored' = authored \cup {fresh + 1}
    /\ UNCHANGED <<driveVars, pins, requests, loopVars, inbox, session,
                   notified, crashes>>

\* Another device, or the web app, uploads a new version.
RemoteEdit(f) ==
    /\ fresh < MaxEdits
    /\ SetDrive(f, fresh + 1)
    /\ fresh' = fresh + 1
    /\ UNCHANGED <<authored, diskVars, pins, requests, loopVars, queueVars,
                   session, notified, crashes>>

\* inotify reports a change of f that changed neither content nor stamp:
\* classify() turns every EventKind::Modify into a Changed.
Touch(f) ==
    /\ "Touch" \in Environment
    /\ HasCopy(f) /\ phase = "watching"
    /\ Len(inbox) < MaxBatches
    /\ NoteChange(f)
    /\ UNCHANGED <<driveVars, contentVars, diskVars, pins, requests,
                   loopVars, inbox, session, notified, crashes>>

Expire ==
    /\ "Expiry" \in Environment
    /\ session
    /\ session' = FALSE
    /\ UNCHANGED <<driveVars, contentVars, diskVars, pins, requests,
                   loopVars, queueVars, notified, crashes>>

Login ==
    /\ ~session
    /\ session' = TRUE
    /\ UNCHANGED <<driveVars, contentVars, diskVars, pins, requests,
                   loopVars, queueVars, notified, crashes>>

-----------------------------------------------------------------------------
(***************************************************************************)
(* Control threads: route_pin / Cache::pin and route_unpin / Cache::unpin. *)
(***************************************************************************)

Advance(r, step) == requests' = (requests \ {r}) \cup {[r EXCEPT !.step = step]}
Finish(r) == requests' = requests \ {r}

\* A connection thread takes up a request; the daemon must be running.
Accept(t, f, force, step) ==
    /\ phase # "down"
    /\ \A r \in requests : r.thread # t
    /\ force => "Force" \in Environment
    /\ requests' = requests \cup
           {[thread |-> t, file |-> f, force |-> force, step |-> step]}

\* Mutant of PinRequest: the unsynced-edits refusal is missing.
PinRequestUnchecked(t, f, force) ==
    /\ session
    /\ clock < MaxStamp
    /\ Pinned(f) \/ Busy(f) \/ Uploading(f) => "Repin" \in Environment
    /\ Accept(t, f, force, "download")
    /\ UNCHANGED <<driveVars, contentVars, diskVars, pins, loopVars,
                   queueVars, session, notified, crashes>>

\* Cache::pin up to the download: stat, then the refusal of unsynced edits.
\* lookup() reports a pin only while its local file exists, which Dirty
\* includes.
PinRequest(t, f, force) ==
    /\ session
    /\ clock < MaxStamp
    /\ Pinned(f) \/ Busy(f) \/ Uploading(f) => "Repin" \in Environment
    /\ force \/ ~Dirty(f)
    /\ Accept(t, f, force, "download")
    /\ UNCHANGED <<driveVars, contentVars, diskVars, pins, loopVars,
                   queueVars, session, notified, crashes>>

\* cli::download with -f remove replaces the local file.
PinDownload(r) ==
    /\ r.step = "download"
    /\ session
    /\ WriteCopy(r.file, drive[r.file])
    /\ Advance(r, "record")
    /\ UNCHANGED <<driveVars, contentVars, pins, loopVars, inbox, session,
                   notified, crashes>>

\* The download fails; signed in, the CLI may have removed the old file
\* already, or put the new one in its place.
PinDownloadFails(r) ==
    /\ r.step = "download"
    /\ session => "Failure" \in Environment
    /\ \/ UNCHANGED <<diskVars, window>>
       \/ /\ session
          /\ local' = [local EXCEPT ![r.file] = NoCopy]
          /\ UNCHANGED <<clock, window>>
       \/ session /\ WriteCopy(r.file, drive[r.file])
    /\ Finish(r)
    /\ UNCHANGED <<driveVars, contentVars, pins, loopVars, inbox, session,
                   notified, crashes>>

\* The metadata read after the download and the upsert of the row.
PinRecord(r) ==
    /\ r.step = "record"
    /\ pins' = IF HasCopy(r.file)
               THEN [pins EXCEPT ![r.file] = local[r.file].stamp]
               ELSE pins
    /\ Finish(r)
    /\ UNCHANGED <<driveVars, contentVars, diskVars, loopVars, queueVars,
                   session, notified, crashes>>

\* Mutant of UnpinRequest: the unsynced-edits refusal is missing.
UnpinRequestUnchecked(t, f, force) ==
    /\ Accept(t, f, force,
              IF Pinned(f) /\ HasCopy(f) THEN "remove" ELSE "delete")
    /\ UNCHANGED <<driveVars, contentVars, diskVars, pins, loopVars,
                   queueVars, session, notified, crashes>>

\* Cache::unpin: the refusal of unsynced edits; without a row, or without
\* the local file, there is nothing to remove.
UnpinRequest(t, f, force) ==
    /\ force \/ ~Dirty(f)
    /\ Accept(t, f, force,
              IF Pinned(f) /\ HasCopy(f) THEN "remove" ELSE "delete")
    /\ UNCHANGED <<driveVars, contentVars, diskVars, pins, loopVars,
                   queueVars, session, notified, crashes>>

\* remove_file; the watcher ignores the Remove event.
UnpinRemove(r) ==
    /\ r.step = "remove"
    /\ local' = [local EXCEPT ![r.file] = NoCopy]
    /\ Advance(r, "delete")
    /\ UNCHANGED <<driveVars, contentVars, clock, pins, loopVars, queueVars,
                   session, notified, crashes>>

\* Any error of remove_file but NotFound ends the request; the row stays.
UnpinRemoveFails(r) ==
    /\ r.step = "remove"
    /\ "Failure" \in Environment
    /\ Finish(r)
    /\ UNCHANGED <<driveVars, contentVars, diskVars, pins, loopVars, queueVars,
                   session, notified, crashes>>

UnpinDelete(r) ==
    /\ r.step = "delete"
    /\ pins' = [pins EXCEPT ![r.file] = NoPin]
    /\ Finish(r)
    /\ UNCHANGED <<driveVars, contentVars, diskVars, loopVars, queueVars,
                   session, notified, crashes>>

ControlStep(t) ==
    \E r \in requests :
        /\ r.thread = t
        /\ \/ PinDownload(r)
           \/ PinDownloadFails(r)
           \/ PinRecord(r)
           \/ UnpinRemove(r)
           \/ UnpinRemoveFails(r)
           \/ UnpinDelete(r)

-----------------------------------------------------------------------------
(***************************************************************************)
(* The daemon: startup walk, watcher, event loop, upload_if_needed.        *)
(***************************************************************************)

\* Mutant of StartReconcile: the startup walk is missing.
StartWithoutWalk ==
    /\ phase = "down"
    /\ phase' = "reconcile"
    /\ todo' = {}
    /\ UNCHANGED <<driveVars, contentVars, diskVars, pins, requests, job,
                   queueVars, session, notified, crashes>>

\* main() starts and sync::reconcile begins to walk the cache root.
StartReconcile ==
    /\ phase = "down"
    /\ phase' = "reconcile"
    /\ todo' = File
    /\ UNCHANGED <<driveVars, contentVars, diskVars, pins, requests, job,
                   queueVars, session, notified, crashes>>

\* The walk is over (or an authentication error ended it): watch() installs
\* the watcher and the loop begins.
StartWatching ==
    /\ phase = "reconcile" /\ todo = {} /\ job = {}
    /\ phase' = "watching"
    /\ UNCHANGED <<driveVars, contentVars, diskVars, pins, requests, todo,
                   job, queueVars, session, notified, crashes>>

\* The debounce window closes and its paths are sent as one batch.
Debounce ==
    /\ window # {}
    /\ inbox' = Append(inbox, window)
    /\ window' = {}
    /\ UNCHANGED <<driveVars, contentVars, diskVars, pins, requests,
                   loopVars, session, notified, crashes>>

\* Mutant of TakeBatch: the batch is taken for a single path.
TakeBatchWhole ==
    /\ phase = "watching" /\ todo = {} /\ job = {} /\ inbox # <<>>
    /\ todo' = {Head(inbox)}
    /\ inbox' = Tail(inbox)
    /\ UNCHANGED <<driveVars, contentVars, diskVars, pins, requests, phase,
                   job, window, session, notified, crashes>>

\* events.recv_timeout returns the next batch.
TakeBatch ==
    /\ phase = "watching" /\ todo = {} /\ job = {} /\ inbox # <<>>
    /\ todo' = Head(inbox)
    /\ inbox' = Tail(inbox)
    /\ UNCHANGED <<driveVars, contentVars, diskVars, pins, requests, phase,
                   job, window, session, notified, crashes>>

\* main.rs: Ok(()) => auth_notified = false, for every event of the loop.
ReportOk == notified' = IF phase = "watching" THEN FALSE ELSE notified

\* Mutant of Examine: any pinned copy is uploaded, needs_upload is not asked.
ExamineEager(f) ==
    /\ phase # "down" /\ f \in todo /\ job = {}
    /\ todo' = todo \ {f}
    /\ IF Pinned(f) /\ HasCopy(f)
       THEN /\ job' = {[step |-> "upload", file |-> f, seen |-> local[f].stamp]}
            /\ UNCHANGED notified
       ELSE ReportOk /\ UNCHANGED job
    /\ UNCHANGED <<driveVars, contentVars, diskVars, pins, requests, phase,
                   queueVars, session, crashes>>

\* upload_if_needed up to the upload: metadata, row, needs_upload.  The
\* stamp read here is the one mark_synced records afterwards.
Examine(f) ==
    /\ phase # "down" /\ f \in todo /\ job = {}
    /\ todo' = todo \ {f}
    /\ IF Dirty(f)
       THEN /\ job' = {[step |-> "upload", file |-> f, seen |-> local[f].stamp]}
            /\ UNCHANGED notified
       ELSE ReportOk /\ UNCHANGED job
    /\ UNCHANGED <<driveVars, contentVars, diskVars, pins, requests, phase,
                   queueVars, session, crashes>>

\* cli::upload with -f replace: what the local file holds now becomes the
\* file's content on Drive.
Upload(j) ==
    /\ j.step = "upload"
    /\ session /\ HasCopy(j.file)
    /\ SetDrive(j.file, local[j.file].content)
    /\ job' = {[j EXCEPT !.step = "mark"]}
    /\ UNCHANGED <<contentVars, diskVars, pins, requests, phase, todo,
                   queueVars, session, notified, crashes>>

\* An authentication error: report_authentication_failure, and the rest of
\* the walk or of the batch is given up.
UploadSignedOut(j) ==
    /\ j.step = "upload" /\ ~session
    /\ job' = {} /\ todo' = {}
    /\ notified' = TRUE
    /\ UNCHANGED <<driveVars, contentVars, diskVars, pins, requests, phase,
                   queueVars, session, crashes>>

\* Mutant of UploadFails: a failed upload is marked as synced all the same.
UploadFailsMarked(j) ==
    /\ j.step = "upload" /\ session
    /\ HasCopy(j.file) => "Failure" \in Environment
    /\ job' = {[j EXCEPT !.step = "mark"]}
    /\ UNCHANGED <<driveVars, contentVars, diskVars, pins, requests, phase,
                   todo, queueVars, session, notified, crashes>>

\* Any other error is logged and the loop goes on with the next path.  The
\* upload may have reached Drive before the error or the timeout.
UploadFails(j) ==
    /\ j.step = "upload" /\ session
    /\ HasCopy(j.file) => "Failure" \in Environment
    /\ \/ UNCHANGED driveVars
       \/ HasCopy(j.file) /\ SetDrive(j.file, local[j.file].content)
    /\ job' = {}
    /\ UNCHANGED <<contentVars, diskVars, pins, requests, phase,
                   todo, queueVars, session, notified, crashes>>

\* Mutant of MarkSynced: the stamp is read again after the upload.
MarkSyncedLate(j) ==
    /\ j.step = "mark"
    /\ pins' = IF Pinned(j.file)
               THEN [pins EXCEPT ![j.file] = local[j.file].stamp] ELSE pins
    /\ job' = {}
    /\ ReportOk
    /\ UNCHANGED <<driveVars, contentVars, diskVars, requests, phase, todo,
                   queueVars, session, crashes>>

\* mark_synced updates the row, if it is still there.
MarkSynced(j) ==
    /\ j.step = "mark"
    /\ pins' = IF Pinned(j.file) THEN [pins EXCEPT ![j.file] = j.seen] ELSE pins
    /\ job' = {}
    /\ ReportOk
    /\ UNCHANGED <<driveVars, contentVars, diskVars, requests, phase, todo,
                   queueVars, session, crashes>>

\* The daemon dies: its threads, its queue and its loop are gone, the disk,
\* the index and Drive stay.
Crash ==
    /\ "Crash" \in Environment
    /\ phase # "down" /\ crashes < MaxCrashes
    /\ phase' = "down"
    /\ todo' = {} /\ job' = {} /\ requests' = {}
    /\ window' = {} /\ inbox' = <<>>
    /\ notified' = FALSE
    /\ crashes' = crashes + 1
    /\ UNCHANGED <<driveVars, contentVars, diskVars, pins, session>>

LoopStep ==
    \/ StartWatching
    \/ TakeBatch
    \/ \E f \in File : Examine(f)
    \/ \E j \in job :
        Upload(j) \/ UploadSignedOut(j) \/ UploadFails(j) \/ MarkSynced(j)

-----------------------------------------------------------------------------

Next ==
    \/ \E f \in File : UserEdit(f) \/ RemoteEdit(f) \/ Touch(f)
    \/ Expire
    \/ Login
    \/ \E t \in Thread, f \in File, force \in BOOLEAN :
        PinRequest(t, f, force) \/ UnpinRequest(t, f, force)
    \/ \E t \in Thread : ControlStep(t)
    \/ StartReconcile
    \/ Debounce
    \/ LoopStep
    \/ Crash

Spec == Init /\ [][Next]_vars

\* What is scheduled without the user: systemd starts the service, the
\* debouncer's timer fires, the main thread and the control threads run.
\* A call that can succeed for ever does not fail for ever.  Nothing obliges
\* the user or another device to do anything, except that an expired session
\* is renewed in the end.
Fairness ==
    /\ WF_vars(StartReconcile)
    /\ WF_vars(Debounce)
    /\ WF_vars(LoopStep)
    /\ SF_vars(\E j \in job : Upload(j))
    /\ \A t \in Thread : WF_vars(ControlStep(t))
    /\ WF_vars(Login)

FairSpec == Spec /\ Fairness

-----------------------------------------------------------------------------
(***************************************************************************)
(* Properties.                                                             *)
(***************************************************************************)

\* A copy the index takes for clean (same stamp as its row) holds a content
\* that Drive has held.  is_dirty, unpin, pin and the daemon all trust that
\* comparison, so a copy that passes it can be dropped without loss.
CleanCopyIsOnDrive ==
    \A f \in File :
        Pinned(f) /\ HasCopy(f) /\ pins[f] = local[f].stamp
            => local[f].content \in reached[f]

\* A content of the local copy that Drive never held is only removed or
\* overwritten by the user's next save, or while a request with force=1 runs
\* on the file: the discard guard of Cache::pin and Cache::unpin, across all
\* interleavings of requests, uploads and crashes.
DiscardOnlyWithConsent ==
    [][\A f \in File :
          /\ HasCopy(f)
          /\ local'[f].content # local[f].content \/ local'[f] = NoCopy
          => \/ local[f].content \in reached[f]
             \/ Asked(f)
             \/ fresh' # fresh]_vars

\* The daemon writes to Drive only what the user wrote into a local copy: a
\* content that was merely downloaded is never uploaded again, where it would
\* replace a version another device has saved meanwhile.
OnlyEditsArePublished ==
    [][fresh' = fresh => \A f \in File :
          drive'[f] # drive[f] => drive'[f] \in authored]_vars

\* An edit of a pinned copy reaches Drive, also when it is made while the
\* daemon is down: "a local edit to a pinned file's cached copy triggers an
\* upload" (docs/DESIGN.md), by the watcher or by the startup walk.
Unsynced(f) == Pinned(f) /\ HasCopy(f) /\ local[f].content \notin reached[f]
EditsReachDrive == \A f \in File : Unsynced(f) ~> ~Unsynced(f)

\* PinSync implements what OfflineCopy promises: a copy changes by the user's
\* save, or by a download or a removal that gives up nothing Drive never held
\* unless a request with force=1 runs on the file.
Promise ==
    INSTANCE OfflineCopy WITH
        backed <- reached,
        copy <- [f \in File |-> IF HasCopy(f) THEN {local[f].content} ELSE {}],
        asked <- {f \in File : Asked(f)}

ImplementsOfflineCopy == Promise!Spec

-----------------------------------------------------------------------------
(***************************************************************************)
(* The inductive invariant behind the safety properties.  It needs a user  *)
(* who does not save while a request on the file runs, and stamps that     *)
(* tell any two writes apart.                                              *)
(***************************************************************************)

CarefulUser == Environment \cap {"EditDuringControl", "SameStamp"} = {}

\* The local copy of f, if there is one, holds what Drive has held.
Backed(f) == HasCopy(f) => local[f].content \in reached[f]

\* Stamps are handed out in order, and 0 is none of them.
StampsInOrder ==
    /\ \A f \in File :
        /\ local[f].stamp <= clock /\ pins[f] <= clock
        /\ HasCopy(f) => local[f].stamp > 0
    /\ \A j \in job : 0 < j.seen /\ j.seen <= clock

\* A copy without a row is what a download or an unpin left behind.
UnpinnedIsBacked == \A f \in File : ~Pinned(f) => Backed(f)

\* If the copy still has the stamp the upload started from, what was
\* uploaded is what it holds.
MarkIsSafe ==
    \A j \in job :
        j.step = "mark" /\ local[j.file].stamp = j.seen => Backed(j.file)

\* Once its check has passed, the copy a request is about to drop, replace
\* or record stays backed until the request is over.
RequestIsSafe ==
    \A r \in requests :
        r.step \in {"record", "delete"} \/ ~r.force => Backed(r.file)

\* What every step of the daemon, of a request and of a careful user keeps.
IInv ==
    /\ TypeOK
    /\ \A f \in File : drive[f] \in reached[f]
    /\ CleanCopyIsOnDrive
    /\ StampsInOrder
    /\ UnpinnedIsBacked
    /\ MarkIsSafe
    /\ RequestIsSafe
=============================================================================
