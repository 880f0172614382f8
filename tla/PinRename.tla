----------------------------- MODULE PinRename -----------------------------
(***************************************************************************)
(* Renames of pinned files, from both sides: local renames under the cache *)
(* root, propagated to Drive by handle_rename of daemon/src/sync.rs, and   *)
(* renames in Dolphin, made on Drive by rename_or_move of                  *)
(* core/src/bridge.rs and carried over to the index and the local copies   *)
(* by Cache::rename_tree.                                                  *)
(*                                                                         *)
(* The cache directory mirrors Drive, so a pinned file has one path under  *)
(* both roots as long as nothing goes wrong.  The daemon's main loop takes *)
(* the watcher's events in order, one at a time; the worker, the user and  *)
(* the debouncer run beside it, and each CLI call, SQL statement and file  *)
(* operation is a step.  Folders exist wherever they are needed            *)
(* (ensure_remote_dir_chain, target_dir_for).                              *)
(***************************************************************************)
EXTENDS Naturals, Sequences

CONSTANTS
    Dir,          \* folders
    Base,         \* file names
    None,         \* no file, no row
    Environment,  \* what a run lets happen, see below
    MaxEdits,     \* bound: saves of pinned copies
    MaxRenames    \* bound: renames by the user and the worker

(***************************************************************************)
(*   Folder    the worker renames whole folders                            *)
(*   Lag       a file is renamed while the daemon still has a save of it   *)
(*             to handle                                                   *)
(*   Overlap   the user and the worker rename at the same time, before the *)
(*             daemon has seen the other's rename; the user saves during a *)
(*             worker's rename; the worker renames a file whose save the   *)
(*             daemon has not finished with                                *)
(*   Undo      the worker renames a file back before the daemon has seen   *)
(*             the first rename                                            *)
(*   Failure   a CLI call or a local move fails                            *)
(***************************************************************************)
EnvironmentEvents == {"Folder", "Lag", "Overlap", "Undo", "Failure"}

Path == [dir : Dir, base : Base]

\* A version of the file that was at path "of" in the beginning.
Content == [of : Path, rev : 0 .. MaxEdits]

ASSUME ConstantsAssumption ==
    /\ Environment \subseteq EnvironmentEvents
    /\ MaxEdits \in Nat /\ MaxRenames \in Nat
    /\ None \notin Content \cup [local : Path, synced : Content]
    /\ Dir \cap Path = {}

VARIABLES
    drive,    \* drive[p]: what Drive holds at p, or None
    local,    \* local[p]: what the cache directory holds at p, or None
    pins,     \* pins[p]: the row with remote path p, or None
    window,   \* events inside the debounce window
    inbox,    \* batches of events sent to the main loop
    batch,    \* what is left of the batch in hand
    job,      \* the event the main loop handles, none or one
    worker,   \* the worker's rename, none or one
    failed,   \* a call has failed (history)
    edits,    \* number of saves so far
    renames   \* number of renames so far

loopVars == <<inbox, batch, job>>
boundVars == <<edits, renames>>
vars == <<drive, local, pins, window, loopVars, worker, failed, boundVars>>

-----------------------------------------------------------------------------

Row == [local : Path, synced : Content]

\* byUser: the user made the rename (history); only the properties look at it.
Renaming == [from : Path, to : Path, byUser : BOOLEAN]
Batch == [renames : Seq(Renaming), changed : SUBSET Path]
Job == [step : {"upload", "mark"}, remote : Path, path : Path, seen : Content]
    \cup [step : {"move", "rename", "rekey", "keep"}, remote : Path, ren : Renaming,
          at : Path]
Pin == [remote : Path, local : Path]
Rename == [step : {"select", "rekey", "move"}, old : Path \cup Dir, new : Path \cup Dir,
           todo : SUBSET Pin, now : SUBSET Pin]

AtMostOne(S) == \A x, y \in S : x = y

\* The values the variables take; the main loop handles one event at a time,
\* and the worker one rename.
TypeOK ==
    /\ drive \in [Path -> Content \cup {None}]
    /\ local \in [Path -> Content \cup {None}]
    /\ pins \in [Path -> Row \cup {None}]
    /\ window \in Batch /\ batch \in Batch /\ inbox \in Seq(Batch)
    /\ job \subseteq Job /\ AtMostOne(job)
    /\ worker \subseteq Rename /\ AtMostOne(worker)
    /\ failed \in BOOLEAN
    /\ edits \in 0 .. MaxEdits /\ renames \in 0 .. MaxRenames

NoEvents == [renames |-> <<>>, changed |-> {}]

\* Some files are pinned, and all is in step.
Init ==
    /\ \E S \in SUBSET Path :
        /\ drive = [p \in Path |-> IF p \in S THEN [of |-> p, rev |-> 0] ELSE None]
        /\ local = drive
        /\ pins = [p \in Path |-> IF p \in S
                                  THEN [local |-> p, synced |-> drive[p]] ELSE None]
    /\ window = NoEvents /\ batch = NoEvents /\ inbox = <<>>
    /\ job = {} /\ worker = {}
    /\ failed = FALSE
    /\ edits = 0 /\ renames = 0

Entries(s) == {s[i] : i \in DOMAIN s}

\* Cache::lookup_by_local_path: the remote paths of the rows of a local path.
RemotesOf(p) == {r \in Path : pins[r] # None /\ pins[r].local = p}

MovedTo(f, p, q) == [[f EXCEPT ![p] = None] EXCEPT ![q] = f[p]]

\* The debouncer sends a rename before the changes of the file it renames,
\* and these under the new name; consecutive renames become one.
WithRename(ren) ==
    LET follows == {i \in DOMAIN window.renames : window.renames[i].to = ren.from} IN
    [renames |-> IF follows = {} THEN Append(window.renames, ren)
                 ELSE [i \in DOMAIN window.renames |->
                         IF i \in follows
                         THEN [window.renames[i] EXCEPT !.to = ren.to,
                                                        !.byUser = @ \/ ren.byUser]
                         ELSE window.renames[i]],
     changed |-> IF ren.from \in window.changed
                 THEN (window.changed \ {ren.from}) \cup {ren.to} ELSE window.changed]

Batches == {window, batch} \cup Entries(inbox)

\* The renames the main loop has not finished with.
Pending ==
    (UNION {Entries(b.renames) : b \in Batches})
    \cup {j.ren : j \in {x \in job : x.step \notin {"upload", "mark"}}}

\* A save of p has left the debounce window and is not on Drive yet.
SaveUnderWay(p) ==
    \/ \E b \in {batch} \cup Entries(inbox) : p \in b.changed
    \/ \E j \in job : j.step \in {"upload", "mark"} /\ j.path = p

-----------------------------------------------------------------------------
(***************************************************************************)
(* The user, in the cache directory, and the watcher.                      *)
(***************************************************************************)

Save(p) ==
    /\ local[p] # None /\ edits < MaxEdits
    /\ worker # {} => "Overlap" \in Environment
    /\ local' = [local EXCEPT ![p] = [@ EXCEPT !.rev = edits + 1]]
    /\ edits' = edits + 1
    /\ window' = [window EXCEPT !.changed = @ \cup {p}]
    /\ UNCHANGED <<drive, pins, loopVars, worker, failed, renames>>

UserRename(p, q) ==
    /\ local[p] # None /\ local[q] = None /\ renames < MaxRenames
    /\ worker # {} \/ (\E n \in Pending : ~n.byUser) => "Overlap" \in Environment
    /\ SaveUnderWay(p) => "Lag" \in Environment
    /\ local' = MovedTo(local, p, q)
    /\ window' = WithRename([from |-> p, to |-> q, byUser |-> TRUE])
    /\ renames' = renames + 1
    /\ UNCHANGED <<drive, pins, loopVars, worker, failed, edits>>

\* The debounce window closes: classify() and send.
Debounce ==
    /\ window # NoEvents
    /\ inbox' = Append(inbox, window)
    /\ window' = NoEvents
    /\ UNCHANGED <<drive, local, pins, batch, job, worker, failed, boundVars>>

-----------------------------------------------------------------------------
(***************************************************************************)
(* The daemon's main loop: handle_rename and upload_if_needed.             *)
(***************************************************************************)

TakeBatch ==
    /\ job = {} /\ batch = NoEvents /\ inbox # <<>>
    /\ batch' = Head(inbox)
    /\ inbox' = Tail(inbox)
    /\ UNCHANGED <<drive, local, pins, window, job, worker, failed, boundVars>>

\* Mutant of TakeRename: the next event is taken while one is in hand.
TakeRenameBeside ==
    LET ren == Head(batch.renames) IN
    /\ batch.renames # <<>>
    /\ batch' = [batch EXCEPT !.renames = Tail(@)]
    /\ \/ RemotesOf(ren.from) = {} /\ job' = job
       \/ \E r \in RemotesOf(ren.from) :
            job' = job \cup {[step |-> IF r.dir = ren.to.dir THEN "rename" ELSE "move",
                              remote |-> r, ren |-> ren, at |-> r]}
    /\ UNCHANGED <<drive, local, pins, window, inbox, worker, failed, boundVars>>

\* handle_rename up to its first CLI call: a local path no row knows is not
\* propagated, another folder takes a move, the same one a rename.
TakeRename ==
    LET ren == Head(batch.renames) IN
    /\ job = {} /\ batch.renames # <<>>
    /\ batch' = [batch EXCEPT !.renames = Tail(@)]
    /\ \/ RemotesOf(ren.from) = {} /\ job' = {}
       \/ \E r \in RemotesOf(ren.from) :
            job' = {[step |-> IF r.dir = ren.to.dir THEN "rename" ELSE "move",
                     remote |-> r, ren |-> ren, at |-> r]}
    /\ UNCHANGED <<drive, local, pins, window, inbox, worker, failed, boundVars>>

CanMove(p, q) == drive[p] # None /\ drive[q] = None

\* cli::move_path: into the new folder, under the name it has.
Move(j) ==
    LET q == [j.at EXCEPT !.dir = j.ren.to.dir] IN
    /\ j.step = "move" /\ CanMove(j.at, q)
    /\ drive' = MovedTo(drive, j.at, q)
    /\ job' = {IF j.ren.from.base = j.ren.to.base
               THEN [j EXCEPT !.step = "rekey"]
               ELSE [j EXCEPT !.step = "rename", !.at = [q EXCEPT !.base = j.ren.from.base]]}
    /\ UNCHANGED <<local, pins, window, inbox, batch, worker, failed, boundVars>>

\* cli::rename_path: a new name in the folder it is in.
RenameNode(j) ==
    LET q == [j.at EXCEPT !.base = j.ren.to.base] IN
    /\ j.step = "rename" /\ CanMove(j.at, q)
    /\ drive' = MovedTo(drive, j.at, q)
    /\ job' = {[j EXCEPT !.step = "rekey"]}
    /\ UNCHANGED <<local, pins, window, inbox, batch, worker, failed, boundVars>>

\* Either call fails, for a reason of its own or because of the paths.
CallFails(j) ==
    /\ \/ "Failure" \in Environment /\ j.step \in {"move", "rename"}
       \/ j.step = "move" /\ ~CanMove(j.at, [j.at EXCEPT !.dir = j.ren.to.dir])
       \/ j.step = "rename" /\ ~CanMove(j.at, [j.at EXCEPT !.base = j.ren.to.base])
    /\ job' = {[j EXCEPT !.step = "keep"]}
    /\ failed' = TRUE
    /\ UNCHANGED <<drive, local, pins, window, inbox, batch, worker, boundVars>>

\* Cache::rename, an UPDATE of the row with remote path old: no such row
\* changes nothing, a row that has the new remote path already is an error
\* and changes nothing either.
Rekeyed(old, new, to) ==
    IF pins[old] = None \/ (old # new /\ pins[new] # None) THEN pins
    ELSE [[pins EXCEPT ![old] = None] EXCEPT ![new] = [pins[old] EXCEPT !.local = to]]

\* Mutant of Rekey: the row's remote path is left as it was.
RekeyLocalOnly(j) ==
    /\ j.step = "rekey"
    /\ pins' = Rekeyed(j.remote, j.remote, j.ren.to)
    /\ job' = {}
    /\ UNCHANGED <<drive, local, window, inbox, batch, worker, failed, boundVars>>

\* Mutant of Rekey: the stamp of the copy is read again.
RekeyRefreshed(j) ==
    /\ j.step = "rekey"
    /\ pins' = [p \in Path |->
                   LET row == Rekeyed(j.remote, j.ren.to, j.ren.to)[p] IN
                   IF p = j.ren.to /\ row # None /\ local[p] # None
                   THEN [row EXCEPT !.synced = local[p]] ELSE row]
    /\ job' = {}
    /\ UNCHANGED <<drive, local, window, inbox, batch, worker, failed, boundVars>>

\* The remote rename worked: the row follows it.
Rekey(j) ==
    /\ j.step = "rekey"
    /\ pins' = Rekeyed(j.remote, j.ren.to, j.ren.to)
    /\ job' = {}
    /\ UNCHANGED <<drive, local, window, inbox, batch, worker, failed, boundVars>>

\* It did not: the row follows the local copy only.
KeepRemote(j) ==
    /\ j.step = "keep"
    /\ pins' = Rekeyed(j.remote, j.remote, j.ren.to)
    /\ job' = {}
    /\ UNCHANGED <<drive, local, window, inbox, batch, worker, failed, boundVars>>

\* Mutant: the batch's uploads do not wait for its renames.
TakeChangeFirst(p) ==
    /\ job = {} /\ p \in batch.changed
    /\ batch' = [batch EXCEPT !.changed = @ \ {p}]
    /\ \/ /\ \/ local[p] = None
             \/ RemotesOf(p) = {}
             \/ \E r \in RemotesOf(p) : pins[r].synced = local[p]
          /\ job' = {}
       \/ /\ local[p] # None
          /\ \E r \in RemotesOf(p) :
                /\ pins[r].synced # local[p]
                /\ job' = {[step |-> "upload", remote |-> r, path |-> p, seen |-> local[p]]}
    /\ UNCHANGED <<drive, local, pins, window, inbox, worker, failed, boundVars>>

\* upload_if_needed up to the upload.
TakeChange(p) ==
    /\ job = {} /\ batch.renames = <<>> /\ p \in batch.changed
    /\ batch' = [batch EXCEPT !.changed = @ \ {p}]
    /\ \/ /\ \/ local[p] = None
             \/ RemotesOf(p) = {}
             \/ \E r \in RemotesOf(p) : pins[r].synced = local[p]
          /\ job' = {}
       \/ /\ local[p] # None
          /\ \E r \in RemotesOf(p) :
                /\ pins[r].synced # local[p]
                /\ job' = {[step |-> "upload", remote |-> r, path |-> p, seen |-> local[p]]}
    /\ UNCHANGED <<drive, local, pins, window, inbox, worker, failed, boundVars>>

\* cli::upload: the local file, under its local name, into the folder of the
\* row's remote path.
Upload(j) ==
    /\ j.step = "upload" /\ local[j.path] # None
    /\ drive' = [drive EXCEPT ![[j.remote EXCEPT !.base = j.path.base]] = local[j.path]]
    /\ job' = {[j EXCEPT !.step = "mark"]}
    /\ UNCHANGED <<local, pins, window, inbox, batch, worker, failed, boundVars>>

UploadFails(j) ==
    /\ j.step = "upload"
    /\ local[j.path] = None \/ "Failure" \in Environment
    /\ job' = {}
    /\ failed' = TRUE
    /\ UNCHANGED <<drive, local, pins, window, inbox, batch, worker, boundVars>>

MarkSynced(j) ==
    /\ j.step = "mark"
    /\ pins' = IF pins[j.remote] = None THEN pins
               ELSE [pins EXCEPT ![j.remote] = [@ EXCEPT !.synced = j.seen]]
    /\ job' = {}
    /\ UNCHANGED <<drive, local, window, inbox, batch, worker, failed, boundVars>>

LoopStep ==
    \/ TakeBatch \/ TakeRename \/ \E p \in Path : TakeChange(p)
    \/ \E j \in job :
        \/ Move(j) \/ RenameNode(j) \/ CallFails(j) \/ Rekey(j) \/ KeepRemote(j)
        \/ Upload(j) \/ UploadFails(j) \/ MarkSynced(j)

-----------------------------------------------------------------------------
(***************************************************************************)
(* The worker: rename_or_move and rename_tree.                             *)
(***************************************************************************)

Under(p, old) == p = old \/ p.dir = old
Image(p, old, new) == IF p = old THEN new ELSE [p EXCEPT !.dir = new]

\* The CLI call of a rename in Dolphin, of a file or of a folder, to a path
\* nothing on Drive has.
WorkerRename(old, new) ==
    LET from == {p \in Path : Under(p, old) /\ drive[p] # None}
        to == {Image(p, old, new) : p \in from} IN
    /\ worker = {} /\ renames < MaxRenames
    /\ from # {} /\ \A q \in Path : Under(q, new) => drive[q] = None
    /\ (\E n \in Pending : n.byUser) \/ (\E p \in from : SaveUnderWay(p) \/ p \in window.changed)
         => "Overlap" \in Environment
    /\ (\E n \in Pending : Under(n.from, new)) => "Undo" \in Environment
    /\ drive' = [q \in Path |->
                    IF q \in to THEN drive[Image(q, new, old)]
                    ELSE IF q \in from THEN None ELSE drive[q]]
    /\ worker' = {[step |-> "select", old |-> old, new |-> new,
                 todo |-> {}, now |-> {}]}
    /\ renames' = renames + 1
    /\ UNCHANGED <<local, pins, window, loopVars, failed, edits>>

\* rename_or_move fails between its two CLI calls: the node is moved and not
\* renamed, and the cache is not told.
WorkerHalfRename(p, q) ==
    LET half == [p EXCEPT !.dir = q.dir] IN
    /\ "Failure" \in Environment
    /\ worker = {} /\ renames < MaxRenames
    /\ p.dir # q.dir /\ p.base # q.base /\ CanMove(p, half)
    /\ drive' = MovedTo(drive, p, half)
    /\ renames' = renames + 1
    /\ failed' = TRUE
    /\ UNCHANGED <<local, pins, window, loopVars, worker, edits>>

Continue(x, todo) ==
    worker' = IF todo = {} THEN {} ELSE {[x EXCEPT !.step = "rekey", !.todo = todo, !.now = {}]}

\* The query of the pins at and under the old path.
WorkerSelect(x) ==
    /\ x.step = "select"
    /\ Continue(x, {[remote |-> r, local |-> pins[r].local] :
                       r \in {p \in Path : Under(p, x.old) /\ pins[p] # None}})
    /\ UNCHANGED <<drive, local, pins, window, loopVars, failed, boundVars>>

\* Mutant of WorkerRekey: the row keeps its local path.
WorkerRekeyRemote(x, t) ==
    LET q == Image(t.remote, x.old, x.new) IN
    /\ x.step = "rekey"
    /\ pins' = Rekeyed(t.remote, q, t.local)
    /\ worker' = IF pins[t.remote] # None /\ pins[q] # None THEN {}
                 ELSE {[x EXCEPT !.step = "move", !.todo = @ \ {t}, !.now = {t}]}
    /\ UNCHANGED <<drive, local, window, loopVars, failed, boundVars>>

\* The row of one of them is updated, before its file is moved; a conflict
\* with another row ends rename_tree.
WorkerRekey(x, t) ==
    LET q == Image(t.remote, x.old, x.new) IN
    /\ x.step = "rekey"
    /\ pins' = Rekeyed(t.remote, q, q)
    /\ worker' = IF pins[t.remote] # None /\ pins[q] # None THEN {}
                 ELSE {[x EXCEPT !.step = "move", !.todo = @ \ {t}, !.now = {t}]}
    /\ UNCHANGED <<drive, local, window, loopVars, failed, boundVars>>

\* The local copy is moved; one that is gone is left at that.
WorkerMove(x, t) ==
    LET q == Image(t.remote, x.old, x.new) IN
    /\ x.step = "move"
    /\ IF local[t.local] # None /\ t.local # q
       THEN /\ local' = MovedTo(local, t.local, q)
            /\ window' = WithRename([from |-> t.local, to |-> q, byUser |-> FALSE])
       ELSE UNCHANGED <<local, window>>
    /\ Continue(x, x.todo)
    /\ UNCHANGED <<drive, pins, loopVars, failed, boundVars>>

\* The move fails for another reason: the row is put back and rename_tree
\* ends.
WorkerMoveFails(x, t) ==
    /\ "Failure" \in Environment
    /\ x.step = "move" /\ local[t.local] # None
    /\ pins' = Rekeyed(Image(t.remote, x.old, x.new), t.remote, t.local)
    /\ worker' = {}
    /\ failed' = TRUE
    /\ UNCHANGED <<drive, local, window, loopVars, boundVars>>

WorkerStep ==
    \E x \in worker :
        \/ WorkerSelect(x)
        \/ \E t \in x.todo : WorkerRekey(x, t)
        \/ \E t \in x.now : WorkerMove(x, t) \/ WorkerMoveFails(x, t)

-----------------------------------------------------------------------------

Next ==
    \/ \E p \in Path : Save(p)
    \/ \E p, q \in Path : UserRename(p, q) \/ WorkerRename(p, q) \/ WorkerHalfRename(p, q)
    \/ "Folder" \in Environment /\ \E d, e \in Dir : WorkerRename(d, e)
    \/ Debounce
    \/ LoopStep
    \/ WorkerStep

Spec == Init /\ [][Next]_vars

-----------------------------------------------------------------------------
(***************************************************************************)
(* Properties.                                                             *)
(***************************************************************************)

AtRest == job = {} /\ worker = {} /\ inbox = <<>> /\ {window, batch} = {NoEvents}

\* Once every event is handled and no rename is under way, each row has one
\* path for both sides, with the file there on Drive and on disk: "the file
\* stays pinned under its new name" (Cache::rename_tree), whoever renames it
\* and however often, unless a call has failed.
MirroredAtRest ==
    AtRest /\ ~failed => \A p \in Path : pins[p] # None =>
        /\ pins[p].local = p
        /\ local[p] # None /\ drive[p] # None
        /\ local[p].of = drive[p].of

\* ... and what was saved under the old name or the new is on Drive: "a local
\* edit to a pinned file's cached copy triggers an upload" (docs/DESIGN.md).
SyncedAtRest ==
    AtRest /\ ~failed => \A p \in Path : pins[p] # None /\ local[p] # None =>
        local[p] = pins[p].synced /\ drive[p] = local[p]

\* The daemon makes no remote rename for a rename the worker has made: "the
\* daemon's watcher sees a `from` it no longer knows and leaves Drive alone"
\* (Cache::rename_tree).
LeavesWorkerRenamesAlone ==
    ~failed => \A j \in job : j.step \in {"move", "rename"} => j.ren.byUser

\* An upload puts a new version in the place of the same file's last one: it
\* never makes a second node and never replaces another file.
UploadsReplaceOwnFile ==
    [][\A j \in job, p \in Path :
          ~failed /\ j.step = "upload" /\ drive'[p] # drive[p] /\ renames' = renames
          => drive[p] # None /\ drive[p].of = drive'[p].of]_vars

-----------------------------------------------------------------------------
(***************************************************************************)
(* The inductive invariant behind the properties at rest.  It speaks of    *)
(* files, not of versions: which file stands at each path.                 *)
(***************************************************************************)

View == [Path -> SUBSET Path]
FileIn(x) == IF x = None THEN {} ELSE {x.of}
DriveFiles == [p \in Path |-> FileIn(drive[p])]
LocalFiles == [p \in Path |-> FileIn(local[p])]
RowFiles == [p \in Path |-> IF pins[p] = None THEN {} ELSE {pins[p].synced.of}]

Shifted(v, p, q) == [[v EXCEPT ![p] = {}] EXCEPT ![q] = v[p]]

RenameJobs == {j \in job : j.step \notin {"upload", "mark"}}
SaveJobs == job \ RenameJobs

\* A save of p that the main loop has not finished with.
ChangePending(p) ==
    (\E b \in Batches : p \in b.changed) \/ (\E j \in SaveJobs : j.path = p)

\* The renames of a batch, all at once, lead from v to w.
Leads(v, s, w) ==
    /\ \A i, j \in DOMAIN s : i # j => s[i].from # s[j].from /\ s[i].to # s[j].to
    /\ \A i \in DOMAIN s :
        /\ v[s[i].from] # {} /\ w[s[i].to] = v[s[i].from]
        /\ v[s[i].to] # {} => \E j \in DOMAIN s : s[j].from = s[i].to
    /\ \A p \in Path :
        (\A i \in DOMAIN s : s[i].to # p)
        => w[p] = IF \E i \in DOMAIN s : s[i].from = p THEN {} ELSE v[p]

\* The rows as they are once the rename in hand is through, and whether it
\* has met a taken path and is bound to fail.
Target ==
    IF RenameJobs = {} THEN RowFiles
    ELSE LET j == CHOOSE x \in RenameJobs : TRUE IN Shifted(RowFiles, j.remote, j.ren.to)
Blocked == \E j \in job : j.step \in {"move", "rename"} /\ drive[j.ren.to] # None

\* A save of p is handled before batch k of the inbox.
SentBefore(p, k) ==
    \/ p \in batch.changed
    \/ \E j \in SaveJobs : j.path = p
    \/ \E m \in DOMAIN inbox : m < k /\ p \in inbox[m].changed

\* V[k] is what the rows will be when the loop takes batch k of the inbox:
\* batch by batch, the pending renames lead from the rows to the cache
\* directory, and a file that is to be uploaded stays where it is.
Linked(V) ==
    /\ Len(V) = Len(inbox) + 1
    /\ Leads(Target, batch.renames, V[1])
    /\ \A k \in DOMAIN inbox : Leads(V[k], inbox[k].renames, V[k + 1])
    /\ Leads(V[Len(V)], window.renames, LocalFiles)
    /\ \A k \in DOMAIN V :
        /\ (\A m \in DOMAIN inbox : m >= k => inbox[m].renames = <<>>) => V[k] = V[Len(V)]
        /\ \A p \in Path : SentBefore(p, k) => V[k][p] = LocalFiles[p]

Chain(V) == V \in Seq(View) /\ Linked(V)

\* While all pending renames are the user's, they lead to where the copies
\* are.
UserSide == worker = {} /\ \A n \in Pending : n.byUser
UserView == UserSide /\ ~Blocked => \E V \in Seq(View) : Chain(V)

\* The rows are where Drive has the files, but for the rename in hand.
DaemonView ==
    worker = {} =>
        /\ RenameJobs = {} => RowFiles = DriveFiles
        /\ \A j \in RenameJobs :
            /\ j.step \in {"move", "rename", "rekey"}
            /\ j.remote = j.ren.from /\ RowFiles[j.remote] # {}
            /\ DriveFiles = Shifted(RowFiles, j.remote,
                                    IF j.step = "rekey" THEN j.ren.to ELSE j.at)
            /\ j.step = "move" => j.at = j.remote /\ j.at.dir # j.ren.to.dir
            /\ j.step = "rename" =>
                /\ j.at.dir = j.ren.to.dir /\ j.at.base = j.remote.base
                /\ j.at # j.remote => RowFiles[j.at] = {}
            /\ j.step = "rekey" => RowFiles[j.ren.to] = {}

\* What the worker has moved on Drive and not yet in the cache directory.
Moving(x) ==
    IF x.step = "select" THEN {p \in Path : Under(p, x.old) /\ local[p] # None}
    ELSE {t.remote : t \in x.todo \cup x.now}

OnTheWay(x) ==
    /\ RenameJobs = {}
    /\ \A p \in Moving(x) :
        LET q == Image(p, x.old, x.new) IN
        /\ Under(p, x.old) /\ ~ChangePending(p)
        /\ LocalFiles[p] # {} /\ DriveFiles[p] = {}
        /\ LocalFiles[q] = {} /\ DriveFiles[q] = LocalFiles[p]
    /\ \A p \in Path :
        p \notin Moving(x) /\ (\A r \in Moving(x) : p # Image(r, x.old, x.new))
        => LocalFiles[p] = DriveFiles[p]
    /\ x.step # "move" => x.now = {} /\ RowFiles = LocalFiles
    /\ x.step = "move" => \E t \in x.now :
        /\ x.now = {t} /\ t \notin x.todo
        /\ RowFiles = Shifted(LocalFiles, t.remote, Image(t.remote, x.old, x.new))

WorkerView ==
    /\ worker = {} /\ (\A n \in Pending : ~n.byUser) => DriveFiles = LocalFiles
    /\ \A x \in worker : OnTheWay(x)

\* A file is at one path at most, and what is to be uploaded is there.
Once(v) == \A p, q \in Path : v[p] # {} /\ v[p] = v[q] => p = q
OneCopy ==
    /\ Once(DriveFiles) /\ Once(LocalFiles) /\ Once(RowFiles)
    /\ \A p \in Path : ChangePending(p) => LocalFiles[p] # {}

\* The row records no later version than Drive holds, nor Drive than the
\* copy; and a copy the row does not know is still to be handled.
Older(c, d) == c.of = d.of => c.rev <= d.rev

Versions ==
    /\ \A p \in Path : local[p] # None => local[p].rev <= edits
    /\ \A p, q \in Path : drive[p] # None /\ local[q] # None => Older(drive[p], local[q])
    /\ \A r \in Path : pins[r] # None => \A p \in Path :
        /\ drive[p] # None => Older(pins[r].synced, drive[p])
        /\ local[p] # None /\ pins[r].synced.of = local[p].of =>
              \/ pins[r].synced = local[p]
              \/ pins[r].synced.rev <= local[p].rev /\ ChangePending(p)

JobView ==
    \A j \in SaveJobs :
        /\ j.remote = j.path
        /\ DriveFiles[j.path] = {j.seen.of}
        /\ LocalFiles[j.path] = {j.seen.of}
        /\ RowFiles[j.path] = {j.seen.of}
        /\ pins[j.path].synced.rev <= j.seen.rev
        /\ j.step = "mark" => j.seen.rev <= drive[j.path].rev
        /\ \/ j.seen = local[j.path]
           \/ /\ j.seen.rev <= local[j.path].rev
              /\ \E b \in Batches : j.path \in b.changed

Aligned == DaemonView /\ UserView /\ WorkerView /\ OneCopy /\ Versions /\ JobView
InStep == ~failed => Aligned

\* The view that a batch's renames lead to from v, and the views at each batch
\* of the inbox: the one sequence that UserView can speak of.
AfterAll(v, s) ==
    [p \in Path |->
        IF \E i \in DOMAIN s : s[i].to = p
        THEN v[s[CHOOSE i \in DOMAIN s : s[i].to = p].from]
        ELSE IF \E i \in DOMAIN s : s[i].from = p THEN {} ELSE v[p]]
Trajectory ==
    LET V[k \in 1 .. Len(inbox) + 1] ==
            IF k = 1 THEN AfterAll(Target, batch.renames)
            ELSE AfterAll(V[k - 1], inbox[k - 1].renames)
    IN  V

\* Until a call fails, the rows, the pending renames and the copies tell one
\* story: batch by batch (main.rs), handle_rename brings rows and Drive to
\* where the cache directory already is, rename_tree brings rows and copies to
\* where Drive is, and every version the row does not know is still queued.
\* This is InStep with the sequence given, which TLC could not look for.
InStepOnTrajectory ==
    ~failed =>
        /\ DaemonView /\ WorkerView
        /\ (UserSide /\ ~Blocked) => Linked(Trajectory)
        /\ OneCopy /\ Versions /\ JobView
=============================================================================
