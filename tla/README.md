# kio-protondrive: TLA+ models

TLA+ models of kio-protondrive: the KIO worker that shows Proton Drive in
Dolphin, the daemon that keeps pinned files in step with Drive, the SQLite index
and the cache directory they share, the runs of the `proton-drive` CLI
underneath, the share dialog, and the setup wizard with the installation of the
CLI. The models are checked with TLC on small instances; the main safety
properties are proved with TLAPS for all instances.

Contents:
1. [The system](#1-the-system)
2. [The modules and the code](#2-the-modules-and-the-code)
3. [The runs](#3-the-runs)
4. [Deviations seen while modelling](#4-deviations-seen-while-modelling)
5. [What is proved](#5-what-is-proved)
6. [What is not modelled](#6-what-is-not-modelled)
7. [Plan](#7-plan)

Paths are relative to the repository. Run a model with

    tlc -config PinSync_safety.cfg MCPinSync

and check the proofs of a module with `tlapm PinSync_proofs.tla`.

## 1. The system

Several processes work on one SQLite index and one cache directory, with no lock
between them beyond SQLite's own per statement:

| Part | Code | State | Operations | Talks to |
|---|---|---|---|---|
| KIO workers, one process per busy connection | `worker/protondriveworker.cpp` | the call in hand | list, stat, get, put, mkdir, rename, copy, del | the core through the bridge, in process |
| Core, bridge | `core/src/bridge.rs` | none (opens the index per call) | one function per worker operation | index, CLI, daemon (fire and forget) |
| Index | `core/src/cache.rs` | tables `pins`, `cached_files`, `fs_stat_cache`, `fs_listing_cache`, photo timeline; the cache directory | pin, unpin, rename, rename_tree, mark_synced, store/evict, ... | the CLI (`pin` downloads) |
| CLI wrapper | `core/src/cli.rs` | none | run with timeout and retries; one function per CLI verb | `proton-drive` processes |
| Transfer handle | `core/src/transfer.rs` | one process group, its attempt counter | start, poll, cancel, drop | `proton-drive` processes |
| Daemon main loop | `daemon/src/main.rs`, `sync.rs` | batch in hand, `auth_notified`, timers | startup walk, handle batches, sweep, eviction, version check | index, CLI |
| Watcher | `daemon/src/watcher.rs` | the 2 s debounce window, a channel | classify and send batches | main loop |
| Control server | `daemon/src/control.rs`, `core/src/local_ctrl.rs` | one thread per connection | pin, unpin, revalidate | index, CLI, overlay clients |
| Folder refresh | `daemon/src/fs_refresh.rs` | cooldown per folder | revalidate one folder, sweep all cached rows | index, CLI, KDirNotify |
| Open folders | `daemon/src/open_folders.rs` | views per folder, with expiry | enter, leave, current | KDirNotify, main loop |
| Retention | `daemon/src/cache_eviction.rs` | none | evict old `cached_files` | index, cache directory |
| Version check, CLI update | `daemon/src/version_check.rs`, `core/src/cli_update.rs` | last notice given; temporary download | check, offer a wizard; download, verify, rename in place | network, CLI, wizard |
| Share dialog | `worker/sharedialog.cpp` | the list and the link it shows, the form | reload, invite, remove, set link, remove link | CLI through the core, badge |
| Dolphin plugins | `worker/fileitemactionplugin.cpp`, `overlayplugin.cpp` | icons | one request each | control server, index |
| Wizard | `wizard/src/main.rs`, `wizard/qml/` | lock, port and token file; `daemon.toml`; the login script; one thread per request | one route per page button | CLI, systemd, filesystem |

How they meet:

- A pinned file exists three times: on Drive, on disk under the cache root, and
  as a row of `pins` with the (mtime, size) that was last known to be in step.
  The user's editor, the control threads, the watcher and the main loop all act
  on it. "Does the stamp differ" is the only test for unsynced edits.
- An opened or saved file has a copy at the *same* mirrored path as a pin would,
  recorded in `cached_files` with Drive's modification time. Workers write it,
  the daemon evicts it.
- Listings and stats are cached rows. Workers and three parts of the daemon
  fill them after a CLI call; writers invalidate them after their own CLI call.
- A rename can start at either end: in Dolphin (Drive first, then index, then
  disk) or in the cache directory (disk first, then the watcher, Drive, index).
- The wizard meets the daemon in `daemon.toml`, which either of two saves reads
  and writes as a whole, and which the daemon reads once, at its start. The daemon
  starts wizards (no session, a newer CLI); a wizard installs the CLI the daemon's
  next check looks at.
- A change made in the share dialog reaches the badge through a thread that reads
  the node again and stores it in the index, beside whatever else does.
- All of it goes through CLI processes that may hang, fail, lock each other out
  or be killed.

What is hard here: no step of one process is atomic with the next; events are
debounced, so they describe a past state; the daemon may die at any step; a CLI
call may fail, time out or be repeated. `PROJECT.json` lists each such hazard
at its line with the property that watches it.

What makes each part correct:

| Part | Must hold |
|---|---|
| Pins and sync | no edit is lost without consent; every edit reaches Drive; nothing but edits is uploaded |
| Opened and saved files | an open is never answered with content older than what Drive had; no copy without a record; pinned copies stay |
| Listing and stat cache | own changes are seen at once; everything else in the end; an open window catches up |
| Renames of pins | row, disk and Drive agree afterwards, saved edits are on Drive, the daemon does not echo the worker's renames, no upload lands on another file |
| CLI calls | an operation takes effect at most once; success is true; every call is answered; a cancelled transfer is gone |
| Open folders | a folder with a view is tracked; a window left open shows what Drive holds |
| Photos | display names are unique |
| Share dialog | it shows what Drive has; an update resets nothing the user has not touched; the badge ends up right |
| Wizard | one window at a time, with its own server; a saved setting is not undone by another; login, daemon and worker end up on one store |
| Version check, CLI update | each notice once, none missed for ever; only a verified release is put in place |

## 2. The modules and the code

`PROJECT.json`, "map", gives the lines of every definition. In every module the
constant `Environment` is the set of things the outside world may do in an
instance; each element is explained at the top of the module. Variables marked
"history" exist for the properties only.

### PinSync: pins, unpins and uploads

One file stands for a remote path and its mirrored local path. Contents are
numbers; a *stamp* is the (mtime, size) pair of `metadata_mtime_size`.

| State | In the code |
|---|---|
| `local`, `clock` | the file under the cache root and its metadata |
| `pins` | the row's `mtime`, `size` |
| `requests` | the control threads inside `Cache::pin` and `Cache::unpin` |
| `window`, `inbox`, `todo`, `job` | debouncer, channel, batch or walk in hand, the upload in `upload_if_needed` |
| `phase`, `session`, `notified` | `main`: down, walking or watching; CLI signed in; `auth_notified` |

| Actions | In the code |
|---|---|
| `PinRequest`, `PinDownload`, `PinDownloadFails`, `PinRecord` | `Cache::pin`: refusal check, download, stat and upsert |
| `UnpinRequest`, `UnpinRemove`, `UnpinRemoveFails`, `UnpinDelete` | `Cache::unpin`: check, `remove_file` and its error, delete |
| `StartReconcile`, `StartWatching` | `reconcile`, then `watch`, at the start of `main` |
| `Debounce`, `TakeBatch` | the debouncer's callback; `recv` in the loop |
| `Examine`, `Upload`, `UploadSignedOut`, `UploadFails`, `MarkSynced` | `upload_if_needed` up to the CLI call, the call and its errors, `mark_synced` |
| `Crash` | the process dies; `Restart=` of the systemd unit |

A call that fails may have had its effect: a failed download may have replaced
or removed the copy, a failed upload may have reached Drive.

`OfflineCopy` is the abstract promise. What a copy holds changes in two ways only:
by a save (`Edit`), which is a content nobody has written before, or by a
replacement (`Replace`: fetched, overwritten with what Drive holds, or dropped),
which gives up a content Drive never held only while somebody asks with force. A
download over an unsynced edit is no step of it. `PinSync` implements it with
`fresh` and `drive` as they are, `backed <- reached`, `copy <- ` the contents of
`local`, `asked <- ` the files with a forced request.

### FileCache: opened and saved files

`task[w]` is where worker `w` is in `get()` or `put()`: the cache check of
`lookup_cached` (`Check`, `Drop`), `stat_path` (`Stat`), the transfer (`Fetch`,
`Write`, `TransferFails`), `store_cached` (`Record`), the stream (`Stream`), and
for a save `Put`, `Copy`, `PutStat`, `PutRecord`. In a call the worker process may
die (`Crash`); a CLI it has started works on. `sweep` is the retention sweep,
whose file removal and row deletion are two steps. A revision's number is its
`modification_time`. `missed` has the files whose copy a step left without a row
and without a pin (history).

### FsCache: listings and stats

One folder, its children (`Name`), and paths below these (`Inside`, `Parent`),
whose rows `invalidate_tree` drops with the child's when that is trashed or
renamed. A *fill* is a reader between its cache lookup and
the store of what the CLI answered (`list_dir`, `stat_path`, a revalidation, the
sweep); a *write* is a worker between its CLI call and the statement that
invalidates (`make_dir`, `copy_path`, `trash`, `rename_or_move`, an upload,
`restore_path`). `asked`, `cooling` and `sweep` are the daemon's side, `view` and
`relist` a window and its reaction to KDirNotify signals. `own` has the last change
of each row that a worker has completed, of those after which the code looks at
the row's table (`OfStat`, `OfListing`); a row's `due` is the last change it
reflects or that was complete when it was stored. Both exist for the properties
only: a row that misses a change is the next sweep's to repair if the change was
completed while the row's answer was in a reader's hand, and a bug otherwise.

### FolderView: folders left open

Extends FsCache with the daemon's record of open folders, for that one folder.

| State | In the code |
|---|---|
| `others` | Dolphin views of the folder beside FsCache's window |
| `signals` | the KDirNotify signals busctl has not handed over yet |
| `views`, `old` | the folder's `OpenFolder`: `views`, and whether `last_seen` is past `EXPIRY` |
| `lapsed` | an entry was dropped for its age (history) |

| Actions | In the code |
|---|---|
| `Enter`, `Leave`, `EnterOther`, `LeaveOther`, `Vanish` | views that come and go, with or without their signal |
| `ApplySignal` | `OpenFolders::apply` |
| `Touch` | `route_revalidate`: `touch`, then FsCache's `TakeRequest` |
| `GrowOld`, `Expire` | an hour without a sign of life; `current` drops the entry |
| `Refresh` | the main loop revalidates the folder, FsCache's `RevalidateOpen` |
| `Elsewhere` | everything else FsCache does |

`Expire` and `Refresh` share the loop's thread with the sweep, so each waits for
what that thread has in hand. The daemon is assumed to have been there before the
views: what was entered earlier is announced to nobody.

### PinRename: renames from both ends

Files have paths `[dir, base]`, so a rename can stay in its folder, move to
another or do both, and a whole folder can be renamed. `TakeRename`, `Move`,
`RenameNode`, `Rekey`, `KeepRemote`, `CallFails` are `handle_rename`, with the
CLI calls as separate steps; `TakeChange`, `Upload`, `MarkSynced` are
`upload_if_needed`, which looks up the remote path first; `WorkerRename`,
`WorkerSelect`, `WorkerRekey`, `WorkerMove` and `WorkerMoveFails` are
`rename_or_move` and the loop of `rename_tree`.

### Transfer: CLI processes

Both ways to run the CLI: `TransferHandle` driven by the worker's polling loop,
and `run`/`run_once` with a timeout. `group[c]` is the process group of the last
attempt: the CLI, a helper it may have forked, how far it is, and its output. A
helper that does not hold the pipes may live on after the CLI (`HelperEnds` ends
it), and the `kill` a timeout runs may be missing. The one assumption on the CLI
is the one the code's comment makes: the lock error comes before the operation is
attempted (`cli.rs:89-92`), so that nothing is left at work behind it.

### ShareDialog: sharing and the badge

| State | In the code |
|---|---|
| `drive` | the item on Drive: whether it is there, its people, its link |
| `dialog` | for each window the blocking call it is in, the list and link shown, the form |
| `thread`, `cached`, `shown` | the threads of `refresh_stat_cache_async`, the item's row in `fs_stat_cache`, the overlay icon |
| `touched`, `missed` | what the user has set; Drive has changed and the dialog was not told (history) |
| `asOf`, `behind` | the change the row was read after; since the last reading a change or a refresh was lost, or an older reading has replaced a newer row (history) |

| Actions | In the code |
|---|---|
| `Open`, `Load`, `LoadFails`, `Close` | the constructor and `reloadStatus` |
| `Edit`, `Click` | the form's fields and the buttons |
| `Invite`, `Remove`, `SetLink`, `RemoveLink`, `CallFails` | the handlers with their `tryOrWarn` call, which may fail after Drive has acted |
| `Stat`, `StatFails`, `Store`, `Notify`, `Browse` | the refresh, started by a change or by a listing; every change starts one, whatever refreshes run already |
| `Elsewhere` | other clients change the sharing or delete the item |

### Wizard: setup, installation, version check

Five modules over one state. `WizardState` has the variables, `daemon.toml`
(`Load`, `Resolved`, `Started`) and the CLI that is found; the others have the
actions:

| Module | Actions | In the code |
|---|---|---|
| `WizardLock` | `Launch`, `CheckLock`, `Claim`, `WritePort`, `WriteToken`, `ReadPort`, `ReadToken`, `Close`, `RemoveLock`, `RemovePort`, `RemoveToken`, `Crash` | `main` of the wizard, file by file, and the start of `main.qml` |
| `Setup` | `GetStarted`, `SetupPass`, `SaveStore`, `SaveDays`, `SaveFile`, `SaveFails`, `SessionStatus`, `Login`, `AddFavorite`, `RestartDaemon`, `RestartFails`, `Continue`, `Navigate` | the pages of the first run and the routes behind them; `route_save_config` is cut between what it applies to its own process and the write |
| `CliUpdate` | `CheckVersion`, `Decide`, `FetchFails`, `Publish` | `version_check::check` up to the manifest and with it; new releases |
| | `InstallNow`, `Download`, `Verify`, `Install`, `InstallFails`, `InstallNext` | `download_and_install` |
| `Wizard` | `Next` | all of these together, and the properties |

`wizard[p].step` is where process `p` is; processes are numbered in the order in
which they start. `window[p]` is its page and what that has read of the port and
token files; `Reaches(p)` says that the page's requests are answered by its own
server. `env[p]` is the store `p`'s own CLI calls use, `script` the one Dolphin's
worker gets at the next login, `daemon.store` the one the daemon has started with.
Port and token stand for the process that wrote them. `breached` says that two
wizards have crossed between the look at the lock and the claim, or that the lock
could not be written (history).

The launcher and its window are two processes. When the launcher is killed the
model drops its window; in the code the window stays on the screen without a
server. One that is still opening could read the port and token of the wizard that
is started next; that is not followed.

### How they fit together

The modules share actors but cut the system by the state that must stay
consistent: `pins` and the copy (PinSync, PinRename), `cached_files` and the copy
(FileCache, with pins as single steps), the two listing tables (FsCache, with the
open folders in FolderView), one call's processes (Transfer), one item's sharing
(ShareDialog), the configuration and the installed CLI (Wizard). `Transfer`
justifies what the others assume of a CLI call: it ends, takes effect at most
once, and a success has taken effect.
An error may follow an effect; PinSync's `UploadFails` and FileCache's
`PutUnrecorded` allow for that.

## 3. The runs

| Run | Question | Instance | States |
|---|---|---|---|
| `pin_safety` | no loss without consent, clean means on Drive, refinement | 1 file, 2 control threads, 2 contents, 3 local writes, 1 crash, failures, expiry, forced and repeated requests | 2.4 M |
| `pin_live` | every edit reaches Drive; only edits are uploaded | 2 files, 1 thread, 2 contents, 3 local writes, 1 crash, forced requests | 442 k |
| `pin_save_race` | *violated*: an edit saved inside a request's window is lost | 1 file, 1 thread | - |
| `file_fresh` | opens are answered with current content; no copy without a record | 2 files, 1 worker, 3 revisions, cancel, failure, a worker that dies, eviction, pins | 1.0 M |
| `file_pin_evict` | *violated*: the retention sweep removes a pinned copy | 1 file, 1 worker | - |
| `fs_own` | own changes are seen | 2 names, 1 path below, 2 workers, 3 changes, overlapping writes and uploads, failed calls | 2.2 M |
| `fs_converge` | stale rows go away | 1 name, 1 path below, 1 worker, 2 changes: writes, uploads, restores, other devices; sweep, window | 451 k |
| `folder_view` | an open folder is tracked and its window catches up | 1 name, 2 remote changes, 2 views, 2 signals under way, deaths, expiry | 530 k |
| `rename_mirror` | row, disk and Drive agree after renames, and the invariant behind it | 4 paths in 2 folders, every set of pins, 3 renames, 1 save, failures | 384 k |
| `transfer_calls` | at most once, true answers, no leftovers, always answered | 2 calls of either kind, 3 attempts, helpers that live on | 136 k |
| `setup` | one window with its own server, choices kept, one store for login, daemon and worker, whole releases only, notices once and none missed | 2 wizards that may start at once, 1 retention period, 2 releases, kills, failures | 916 k |
| `share` | the dialog shows Drive, an update resets nothing, the badge ends up right | 2 dialogs, 1 person, 1 role, 2 refreshes at a time, 2 changes, others' changes, failures, late effects, processes that end | 2.8 M |

Bounds, and why they are enough:

- Files are independent in PinSync and FileCache except for the main loop, which
  serves one at a time; two files give every pair of competing events, one file
  with two threads every pair of competing requests on one row.
- Two contents after the initial one tell "the old", "the edit" and "somebody
  else's version" apart; three local writes are the download of a pin, a save, and
  a save during the upload of that one, or a second pin. One crash
  is enough to crash at each step, since a restart forgets everything but the
  index, the disk and Drive, which the walk handles from any state.
- FileCache needs three revisions: what was cached, what Drive had at the start,
  and what it has now.
- FsCache: a late answer needs one change, two writers two; three leave one after
  both. Paths below a child come and go with it, so one stands for all. The sweep
  and the window run in `fs_converge`, where two changes leave any row behind that
  can be; they store like the readers of `fs_own`. In FolderView two remote changes let the window miss one while it reads
  the other; two views tell the first to leave from the last; two signals under
  way let a view come and go unread; a count of two lets a dead view keep the
  entry of a closed folder.
- PinRename: three renames give a chain, a rename back, a swap through a third
  name, and a folder rename between two file renames. The swap needs two debounce
  windows: within one the joined rename starts where another one ends, is bound to
  fail (`failed`), and nothing is claimed of it. Two saves instead of one
  have been run once with the same result (3.9 M states).
- Transfer: `Retries` is the code's own 3. Two calls suffice for one to see the
  other's lock.
- Wizard: the second wizard is started beside the first, after it was killed, by
  the user or by the daemon; a third would meet the same three files. Two releases
  are the one the daemon starts with and one that comes out at any moment, while
  something is installed or fetched; `MinVersion` leaves one below it. The second
  retention period only renames states; the first configuration is none, a
  malformed one or one with either setting.
- ShareDialog: two dialogs give every order of two windows' calls; two changes, one
  after the other was read; two refreshes, the older of which may store last. With
  one role only the expiration of a link can be lost; the theorem has every role.
- One notch more has been run once with the same results: FileCache with four
  revisions (6.5 M states) and FileCache with two workers on different files (47 k
  states), `fs_own` with one name and four changes (364 k),
  `fs_converge` without the window and with three (622 k), FolderView with three
  remote changes (2.6 M), one share dialog with two roles and three changes (4.9 M).
- `MaxEdits`, `MaxStamp`, `MaxCrashes`, `MaxBatches`, `MaxRevisions`,
  `MaxChanges`, `MaxRenames`, `MaxOthers`, `MaxCount`, `MaxSignals`, `MaxCalls`,
  `MaxVersion` (and the number of threads in `Refresh`) bound counters
  in the guards of the environment's actions only; they never stop the code from
  finishing what it has begun.
  `CHECK_DEADLOCK FALSE` is set where the system may rest once the environment
  has used up its bounds. FileCache never rests: opens are unlimited.

Fairness, and why the code justifies it:

- PinSync: the main loop, the debouncer and every started control thread keep
  running (weak). systemd restarts a dead daemon (`Restart=on-failure`,
  `kio-protondrive-daemon.service`); the user signs in again. An upload tried
  again and again succeeds in the end (strong), as `Upload` may be disabled by a
  crash in between; crashes are finite.
- FsCache: the CLI answers (cf. Transfer), invalidations are carried out,
  cooldowns run out, Dolphin lists a folder it was told has changed. The sweep
  needs strong fairness: the loop's own revalidations, which use the same
  thread, switch it off and on again.
- FolderView adds that signals are read and requests taken up. An open folder has
  its turn about sixty times in the hour before it is old; `Refresh` is strongly
  fair because sweeps and other revalidations keep the thread busy in between.
  Whether views come, go, die or grow old is left to them.
- Transfer: callers run and their timers fire. Nothing is assumed of the CLI,
  which may hang for ever.
- Wizard: the timer of the version check comes round (weak, on `CheckVersion`: the
  loop tests it after every event and timeout), and among the fetches tried again
  and again some are answered (strong, on `Decide`: `FetchFails` may always come
  first). Nothing is assumed of the user, of the wizards or of installations.

Every property has a mutant in `PROJECT.json`: a definition such as
`MarkSyncedLate` that a plausible bug would put in the place of the real one, and
that TLC finds out.

## 4. Deviations seen while modelling

The two violated runs are findings:

- `pin_save_race`: `Cache::pin` and `Cache::unpin` check for unsynced edits once,
  before the download or the removal; an edit saved after the check is lost.
- `file_pin_evict`: pinning leaves the path's `cached_files` row; when that is
  old, the sweep deletes the file, which is now the pinned copy.

Others are reproduced by adding an element to `Environment`; the passing runs
leave that element out:

| Module | Add | What happens |
|---|---|---|
| PinSync | `Failure` to `pin_live` | an upload that fails for good is not queued again until the next event or restart (`main.rs:232`): `EditsReachDrive` |
| PinSync | `Expiry` to `pin_live` | an authentication error ends the batch; what it had not reached is not taken up after the login (`main.rs:229`): `EditsReachDrive` |
| PinSync | `EditDuringReconcile` to `pin_live` | an edit after the walk has passed the file and before the watcher is up is not seen: `EditsReachDrive` |
| PinSync | `Repin` to `pin_live` | the main loop sees a re-pin's download before its row is written and uploads it; or an upload that has passed its check, and is still creating the folder chain, sends the copy of a file unpinned and pinned again meanwhile: `OnlyEditsArePublished` |
| PinSync | `SameStamp` | a second save of the same size within a second is taken for clean: `CleanCopyIsOnDrive` |
| FileCache | `Overlap` | two calls on one path write file and row in different orders: `ServedIsCurrent` |
| FileCache | `EditDuringPut` | the stat after an upload describes another device's save, the copy is ours: `ServedIsCurrent` |
| FolderView | `Sweep` to `folder_view` | the sweep stores a new listing and tells nobody of new children (`fs_refresh.rs:191-203`); the next revalidation finds no difference. A window left open stays without them, against "a change made elsewhere shows up within about a minute" (`main.rs:43-46`): `ViewConverges` |
| PinRename | `Lag` | the event of a save made just before a rename finds no file, and `handle_rename` does not look for unsynced edits: the save is not uploaded, `SyncedAtRest`. If another pinned file has taken the old name by then, the event uploads that one over the first one's node, and its own rename follows: `UploadsReplaceOwnFile`, `MirroredAtRest` |
| PinRename | `Undo` | renamed back before the daemon has seen the first rename, the watcher's `from` is known again and the daemon renames on Drive: `LeavesWorkerRenamesAlone`, `MirroredAtRest` |
| PinRename | `Overlap` | an upload in flight across a worker's rename, or of a save made during it, makes a second node under the old name; `fs::rename` may overwrite a local copy: `UploadsReplaceOwnFile`, `MirroredAtRest` |
| ShareDialog | `Hours` | the form keeps the day of an expiration and not its time, and an update sends that: a link that expires in the evening expires at another time of the day once its role was updated: `UpdateKeepsSettings` |
| Wizard | `Together` | a wizard that ends removes the lock, the port and the token of the one that has just started (`main.rs:134-137` of the wizard): `WindowReachesItsServer`; two windows in use at a time: `KeepsChoices` |
| Wizard | `Unwritable` | a port or token file that cannot be written keeps the number a killed wizard has left there: `WindowReachesItsServer` |
| Wizard | `Torn` | `Config::save` truncates before it writes; a save that stops there loses every setting, and the next load takes the defaults: `KeepsChoices`, `DaemonHasTheSession` |
| Wizard | `ScriptFails` | that the login script cannot be written is only logged: `WorkerFollowsDaemon` |
| Wizard | `Forward` | back from sign-in to the stores, another one saved, and forward to the page that still says signed in: `DaemonHasTheSession` |
| Wizard | `Offline` | a session that cannot be asked for counts as one: the page says signed in (`Auth.qml`, every answer but "not authenticated"): `DaemonHasTheSession` |
| Wizard | `Twice` | two installations in one process share `.proton-drive.tmp-<pid>`; one truncates it between the other's check and rename: `OnlyWholeReleases` |

Without an element of their own, since the passing runs include them and the
properties say where they stop:

- "A self-caused change is reflected on the very next visit" (`DESIGN.md:122-125`)
  does not hold of an answer that was in a reader's hand when the change was
  completed: it is stored after the invalidation and stays until the next sweep or
  revalidation. An upload over an existing file invalidates the listing and not the
  child's stat row; a restore from the trash touches neither table but for `/trash`
  itself; a folder made or copied where one has been before leaves the rows below it.
  `OwnWritesAreSeen` is about all other rows (`due`, `OfStat`, `OfListing`),
  `CacheConverges` about the end of these.
- Of two refreshes that have read the node one after the other, the earlier may store
  last; the badge then keeps the older state until the next refresh (`behind`).
- Two wizards that start together may both find no lock, and both windows open; so
  they do when the lock cannot be written (`breached`). The properties of `setup`
  speak of the time before that, with `Together` also of what comes after.
- `EveryCopyIsRecorded` leaves out what a failed record, a worker that died before it
  recorded, or a sweep that deletes the row a later store has just written, has cost
  its row (`missed`): no later sweep finds that file.
- The link's password is never read back: an update sends what is in the field, and
  nothing there means no password (`cli.rs:718-720`); a change another window has made is overwritten by an update of this one;
  after a failed reload the form keeps what it held.
- An existing GPG key is enough for "pass" to be offered (`main.rs:460-474` of the
  wizard), whether or not `pass init` was ever run for it; the login then fails.
- The daemon remembers a release as announced before it starts the wizard; a wizard
  that finds another one open ends, and the offer is not made again.
- The version check reads the installed version before the manifest; with an
  installation in between it announces the version that was just installed. That
  happens once: `AnnouncedOnce` covers it.
- The lock file names a pid; a dead wizard's number that another process got keeps
  new wizards away. A killed wizard leaves its half download; nothing looks at it.
- `auth_notified` is reset by any event handled without error, including those
  that need no CLI call (`main.rs:222`), so one expiry may raise several alerts.
- After an entry of an open folder has expired, a view still there is not counted
  any more; entering and leaving with another view then drops the new entry
  although a view remains, and the folder is no longer refreshed.
- A pinned copy is served without asking Drive for a newer version.
- After a failed rename on Drive the fallback keeps the row on the old remote
  path. Another file then renamed to that path meets the row's key and stays
  untracked; uploads go to the old folder under the new local name. The rename
  properties therefore speak of histories without a failed call (`failed`).
- Renaming a folder locally leaves the pins below it pointing nowhere: the
  watcher reports one event, for the folder, which has no row. Renames made while
  the daemon is down are not noticed.
- `run_once` kills the CLI's process on a timeout, not its group, and by an external
  `kill` that may be missing; `transfer.rs` explains why that is not enough.
  `Timeout` models it: the CLI or a helper may still take effect after the call has
  failed. `NothingOutlives` is stated for transfers.
- A cancelled upload that has already reached Drive leaves the listing as it was.
- `TransferHandle::drop` signals the group of a process that has been reaped; its
  number could have been given to another group.

## 5. What is proved

TLAPS checks, for every set of files, threads, workers and calls and every bound:

| Theorem | States | Assumes |
|---|---|---|
| `PinSync_proofs!TypeCorrect` | `TypeOK` | - |
| `PinSync_proofs!Inductive`, `CleanCopies` | `IInv`, `CleanCopyIsOnDrive` | `CarefulUser` |
| `PinSync_proofs!Discards` | `DiscardOnlyWithConsent` | `CarefulUser` |
| `PinSync_proofs!Refinement` | `Spec => ImplementsOfflineCopy` | `CarefulUser` |
| `PinSync_proofs!Published` | `OnlyEditsArePublished` | `NoRepin` |
| `FileCache_proofs!TypeCorrect` | `TypeOK` | - |
| `FileCache_proofs!Inductive`, `Fresh` | `IInv`, `ServedIsCurrent` | `Exclusive` |
| `FileCache_proofs!Accounts` | `EveryCopyIsRecorded` | `Exclusive` |
| `FsCache_proofs!TypeCorrect` | `TypeOK` | - |
| `FsCache_proofs!OwnWrites` | `OwnWritesAreSeen` | - |
| `FolderView_proofs!ViewTypeCorrect`, `Tracked` | `ViewTypeOK`, `OpenIsTracked` | - |
| `FolderView_proofs!ImplementsFsCache` | `ViewSpec => Spec` of FsCache | - |
| `Transfer_proofs!TypeCorrect`, `AtMostOnceHolds`, `OkMeansDoneHolds`, `NothingOutlivesHolds` | the properties of these names | - |
| `PinRename_proofs!Types` | `TypeOK` | - |
| `PinRename_proofs!LeavesAlone` | `LeavesWorkerRenamesAlone` | no `Overlap`, `Undo` |
| `PinRename_proofs!Inductive` | `IInv` (`InStep`) | no `Overlap`, `Undo`, `Lag` |
| `PinRename_proofs!OnTrajectory` | `InStepOnTrajectory` | no `Overlap`, `Undo`, `Lag` |
| `PinRename_proofs!Mirrors`, `Syncs` | `MirroredAtRest`, `SyncedAtRest` | no `Overlap`, `Undo`, `Lag` |
| `PinRename_proofs!Replaces` | `UploadsReplaceOwnFile` | no `Overlap`, `Undo`, `Lag` |
| `ShareDialog_proofs!Types`, `ShowsDrive` | `TypeOK`, `DialogShowsDrive` | - |
| `ShareDialog_proofs!KeepsLink` | `UpdateKeepsSettings` | no `Hours` |
| `ShareDialog_proofs!BadgeCurrent` | `BadgeIsCurrent` | - |
| `Wizard_proofs!Types` | `TypeOK` | - |
| `Wizard_proofs!OneWindowOpen` | `OneWindow` | - |
| `Wizard_proofs!WindowHasItsServer` | `WindowReachesItsServer` | `Orderly` |
| `Wizard_proofs!ChoicesKept` | `KeepsChoices` | `Orderly`, no `Torn` |
| `Wizard_proofs!DaemonHasIt` | `DaemonHasTheSession` | `Orderly`, no `Torn`, `Forward`, `Offline` |
| `Wizard_proofs!WorkerFollows` | `WorkerFollowsDaemon` | these and no `ScriptFails` |
| `Wizard_proofs!WholeReleases` | `OnlyWholeReleases` | no `Twice` |
| `Wizard_proofs!Once` | `AnnouncedOnce` | `Orderly`, no `Twice` |

The assumptions name what the environment must not do; section 4 shows what each
keeps out, and for ShareDialog and Wizard the elements are named themselves.
`CarefulUser`: no save while a request on the file runs, no two writes
with one stamp. `NoRepin`: nobody pins a file that has a pin, a request or an upload
already. `Exclusive`: no two calls on one file at a time, no foreign save
while a put records. `Orderly`: no `AtOnce`, `Together` or `Unwritable`, that is, wizards
start and end one after the other; `setup` checks the same properties with starts
at once. Crashes, failed calls, expiry, forced requests, sweeps,
cancels and retries are all included.

The inductive invariants, and why the properties need them:

- PinSync: `CleanCopyIsOnDrive` is about a row that matches its file. A row is
  written by `mark_synced` and `pin` from a stamp read earlier, so the invariant
  also says that a stamp read before an upload, if it is still the file's, means
  the uploaded content (`MarkIsSafe`), that a request past its check has a backed
  copy in hand (`RequestIsSafe`), that a copy without a row is backed
  (`UnpinnedIsBacked`) and that stamps are handed out in order (`StampsInOrder`).
  `Discards` and `Refinement` are read off the same invariant, step by step.
- PinSync, `Published`: it needs no careful user, so it has an invariant of its own
  (`PublishInv`). A copy that differs from its row was written by the user, and so was
  the copy of an upload in hand, also when it changes while the folder chain is
  made. A download overwrites no such copy: while one is under way the file has no
  pin and no upload, and there is no second one.
- FileCache: a hit is served when the row's time equals Drive's. That is safe
  because a row never claims more than the file holds (`FileIsSound`), and each
  step of a call relies on what earlier steps have found (`TaskIsSound`).
- FsCache: `OwnWritesAreSeen` is inductive with the types. A store gives its row
  every change completed until then (`StoreSeen`); a write's completion drops or
  renews every row whose `own` it raises (`CompleteSeen`), also below a folder that
  was renamed or trashed; nothing else changes a row. Nothing is assumed about who
  runs beside whom.
- FolderView: `OpenIsTracked` speaks of moments when all signals are read. The
  invariant (`TrackInv`) says of every moment that the count, after the signals
  under way, will cover the views there; the count after each signal is a function
  of its position (`Reads`), extended by a signal sent (`ReadsAppend`) and
  shifted by one read (`ReadsTail`). Views that die lower only what has to be
  covered. By `ImplementsFsCache` the theorems about FsCache hold here too.
- FileCache, `Accounts`: at any moment a file on disk has a row, a pin, a call that
  will still record or remove it, or has lost its row to a failure or the sweep
  (`Accounted`), and a call's steps keep their order (`Orderly`).
- PinRename: a row's two paths are one path between any two steps (`Mirrored`), so a
  rename is the daemon's to make if its start has a row. What the worker has renamed
  has none (`Forgotten`): the row is rekeyed before the file is moved, and no later
  rename of the worker goes where a pending event starts (`WorkerApart`). The renames
  under way are all the user's or all the worker's (`OneSide`), also after the
  debouncer has joined two. The types need that the worker renames a file to a file
  and a folder to a folder, and has only pins below it in hand (`WorkerOK`).
- PinRename, at rest: the properties speak of the end, so the invariant (`InStep`)
  says how the renames on their way lead there. Drive, the rows and the cache
  directory are seen as three maps from paths to files (`DriveFiles`, `RowFiles`,
  `LocalFiles`). While the pending renames are the user's, there is a sequence of
  maps `V`: the rename in hand leads from the rows to `Target`, what is left of the
  main loop's batch from there to `V[1]`, each batch of the inbox from `V[k]` to
  `V[k+1]`, and the window to the cache directory (`Chain`). A batch is applied as a
  whole (`Leads`), since the debouncer joins renames and their paths may form chains
  inside one window; its starts and its ends are distinct, and an end that is taken
  is itself the start of another rename. A rename that meets a taken path is bound
  to fail (`Blocked`), so nothing is claimed of it. A file with a save queued before
  batch k does not move from there on (`SentBefore`), which is where `Lag` would
  break it: its upload finds copy, row and node at one path. `DaemonView` says how
  far `handle_rename` has got on Drive, `WorkerView` the same of `rename_tree`, whose
  start and end are Drive's and the directory's maps (`OnTheWay`). For the saves,
  versions are held between bounds: the row's is at most Drive's, Drive's at most
  the copy's, and a copy newer than its row has a save queued (`Versions`); with
  nothing queued all three are equal. `JobView` keeps the save in hand in place, and
  `Replaces` is read off it. At rest all batches are empty, the chain is one map, and
  the three maps are the same. Renames of folders and failing calls may happen; what
  is claimed ends with the first failed call (`failed`).
  TLC cannot look for the sequence `V`, so `rename_mirror` checks the invariant with
  `V` computed from the rows, batch by batch (`Trajectory`, a recursive function).
  `OnTrajectory` proves the same: a batch leads to one view only (`LeadsIs`), so a
  chain solves the function's equation and is its only solution (`TrajectoryIs`).
  That last step is an induction over the inbox; the library's induction theorems
  are not usable by the provers, but the least position at which two solutions
  differ is (`Least`, from `WFMin`).
- ShareDialog: a dialog's view is compared with Drive at rest, so the invariant
  follows it through the calls (`WindowOK`), and every step of one window is shown
  to leave another's view right or marked as missed (`OtherWindows`). The form
  agrees with the link but for what the user has set, since no link has a time of
  day (`LinkInv`). For the badge, what was read after the last change is right,
  wherever it is (`Readings`), and unless `behind` there is a refresh that has yet
  to read, one that has the right reading to store, or a row that is right and shown
  or about to be (`ToRead`, `ToStore`, `Stored`); any number of refreshes may run.
- Wizard: until the lock is breached the wizard between its claim and the removal of
  the lock is the only one there, the file names it, and no other is past its look at
  the file (`HolderInv`); this holds of every order of starts, ends and deaths, since
  a wizard that ends removes its own lock first of all, and it is why a start during
  an end is no breach. With an orderly life more is true: the lock names the one active wizard, and the one past the check finds
  nobody else (`LockInv`); port and token are those of the one that serves, from the
  step that writes them on (`FilesInv`). With one wizard at a time a save holds in
  hand the other setting as it is in the file (`SaveInv`). Each page says what the
  user has done before it (`PageInv`: from the retention page on, the store saved is
  the one signed in to), and the script has the store last saved (`ScriptInv`).
  What is about to be renamed is the whole file the check has seen (`JobInv`). A
  notice is not repeated because `latest` and the installed version only grow: one
  given and no longer remembered is about a version that is not the latest any more,
  or is installed, also by a check that has read the installed version before
  (`NoticeInv`).
- Transfer: a repeat is safe because a lock error leaves the attempt where it has
  not begun, and the count of effects says no more than the last attempt's state
  (`Outcome`); transfers have no process when answered (`Caller`).

Only model-checked: all liveness (`EditsReachDrive`, `CacheConverges`,
`ViewConverges`, `AlwaysAnswered`, `NewerIsAnnounced`), which is out of the prover's
reach, and the wizard's properties other than `OneWindow` and `OnlyWholeReleases`
where wizards start at once. Every safety property of a passing run is a theorem,
under the assumptions above.

## 6. What is not modelled

- Arguments, output parsing, formatting and locale handling of the CLI wrapper:
  data, without state.
- `unpin_tree`, a loop of `unpin`; permanent deletion and emptying the trash, which
  touch no cached folder; the worker's `stat` short-circuit for pins.
- The text of the requests of the control protocol and the daemon's own port and
  token files, which nobody else writes; menu actions, which send one request each.
- Photos: `photos.rs` maps one listing to another, without state, and is covered by
  its unit tests. The timeline cache is one value, replaced as a whole and stale for
  at most five minutes by design.
- Share dialog: the password, the role of a member, the label about editors.
- Wizard: the search for a QML runtime, translations, layout; `gpg`'s and `pass`'s
  own steps inside `route_setup_pass`.
- Desktop notifications other than those of the version check; packaging,
  translations, build.
- The throughput estimate, which only drives a progress bar.

## 7. Plan

Order of work, the most important behaviour first; done parts are marked.

1. *done* PinSync, OfflineCopy and their proofs.
2. *done* FileCache, FsCache and their proofs.
3. *done* PinRename; Transfer and its proofs.
4. *done* FolderView and its proofs.
5. *done* ShareDialog, Wizard (lock, setup, version check, installation), their
   proofs; `EveryCopyIsRecorded` as a theorem.
6. *done* PinRename's types, `LeavesWorkerRenamesAlone`, the invariant `InStep`, and
   from it `MirroredAtRest`, `SyncedAtRest` and `UploadsReplaceOwnFile`.
7. Photos: `disambiguate` as a recursive function over bounded inputs against
   "names are unique and the first keeps its own".
8. *done* `OnlyEditsArePublished` as a theorem.
