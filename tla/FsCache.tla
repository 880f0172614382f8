------------------------------ MODULE FsCache ------------------------------
(***************************************************************************)
(* The stat and listing cache, for one Drive folder, its children and what *)
(* is cached of the folders among those:                                   *)
(* list_dir, stat_path and the writes of core/src/bridge.rs, fs_stat_cache *)
(* and fs_listing_cache of core/src/cache.rs, and the daemon's             *)
(* revalidation and sweep (daemon/src/fs_refresh.rs, main.rs), with one    *)
(* Dolphin window that may show the folder.                                *)
(*                                                                         *)
(* A reader looks at the cache, asks Drive and stores the answer; a writer *)
(* changes Drive and then the cache.  Nothing locks these together, so     *)
(* each is a step of its own.                                              *)
(***************************************************************************)
EXTENDS Naturals

CONSTANTS
    Name,         \* the children's names
    Inside,       \* paths below the children
    Parent,       \* Parent[p]: the child that path p lies below
    Worker,       \* the KIO worker processes
    Environment,  \* what a run lets happen, see below
    Folder,       \* stands for the folder itself; not a name
    MaxChanges    \* bound: changes of the folder on Drive

(***************************************************************************)
(*   Stat      workers stat children, beside listing the folder            *)
(*   Write     workers create, copy, trash and rename children             *)
(*   Put       workers upload children, over existing ones too             *)
(*   Restore   children come back from the trash                           *)
(*   Remote    other devices change the folder                             *)
(*   View      a Dolphin window opens and closes on the folder, which the  *)
(*             daemon may then revalidate periodically                     *)
(*   Sweep     the daemon's periodic sweep runs                            *)
(*   Failure   a CLI call of a reader fails                                *)
(***************************************************************************)
EnvironmentEvents ==
    {"Stat", "Write", "Put", "Restore", "Remote", "View", "Sweep", "Failure"}

ASSUME ConstantsAssumption ==
    /\ Environment \subseteq EnvironmentEvents
    /\ MaxChanges \in Nat \ {0}
    /\ Folder \notin Name \cup Inside
    /\ Inside \cap Name = {}
    /\ Parent \in [Inside -> Name]

VARIABLES
    drive,    \* drive[n]: the change that made child n what it is, or Absent
    changes,  \* number of changes on Drive so far
    listing,  \* the folder's row in fs_listing_cache, none or one
    stat,     \* stat[p]: the child's row in fs_stat_cache, none or one; below a
              \* child, what fs_stat_cache and fs_listing_cache have of the path
    own,      \* own.stat[p], own.listing[n]: the last change of it that a worker has
              \* completed, of those that reach the table's rows (history)
    fills,    \* the readers' calls under way, and answers not stored yet
    writes,   \* what a worker has changed on Drive and not in the cache yet
    asked,    \* a revalidation request is on its way to the daemon
    cooling,  \* the folder was revalidated less than the cooldown ago
    sweep,    \* what is left of the sweep
    view,     \* the Dolphin window, none or what it shows
    relist    \* the window is about to list the folder (again)

driveVars  == <<drive, changes>>
cacheVars  == <<listing, stat>>
daemonVars == <<asked, cooling, sweep>>
viewVars   == <<view, relist>>
vars == <<driveVars, cacheVars, own, fills, writes, daemonVars, viewVars>>

-----------------------------------------------------------------------------

Absent == 0
Unanswered == 0
Change == 0 .. MaxChanges
Nodes == [Name -> Change]

Path == Name \cup Inside

\* The child whose changes a path's row has to follow.
Child(p) == IF p \in Name THEN p ELSE Parent[p]

\* A row says what Drive held.  due[n] is the last change of n that it
\* reflects, or that was completed before it was stored; the code keeps no
\* such thing, only the properties look at it.
ListRow == [due : Nodes, nodes : Nodes]
StatRow == [due : Change, rev : Change \ {Absent}]

\* The main loop runs the sweep and the periodic revalidation one after the
\* other; a revalidation request runs in a thread of the control server.
Daemon == {"request", "loop"}
Fill == [by : Worker \cup Daemon, what : Path \cup {Folder}, at : Change,
         nodes : Nodes, kind : {"read", "revalidate", "sweep"},
         previous : SUBSET Nodes]
Op == {"mkdir", "copy", "trash", "rename", "put", "restore"}
Write == [by : Worker, op : Op,
          names : SUBSET Name, at : Change \ {Absent}]

\* The writes after which the code looks at a row: an upload leaves the
\* child's stat row, a restore knows of neither, and what lies below a child
\* goes when that is trashed or renamed.
OfStat(p) == {"trash", "rename"} \cup (IF p \in Name THEN {"mkdir", "copy"} ELSE {})
OfListing == {"mkdir", "copy", "trash", "rename", "put"}

AtMostOne(S) == \A x, y \in S : x = y
Later(i, j) == IF i < j THEN j ELSE i

\* The values the variables take; each table holds at most one row per path,
\* a reader has at most one result in hand, and there is at most one window.
TypeOK ==
    /\ drive \in Nodes
    /\ changes \in Change
    /\ listing \subseteq ListRow /\ AtMostOne(listing)
    /\ stat \in [Path -> SUBSET StatRow] /\ \A p \in Path : AtMostOne(stat[p])
    /\ own \in [stat : [Path -> Change], listing : Nodes]
    /\ fills \subseteq Fill
    /\ \A b \in Worker \cup Daemon : AtMostOne({x \in fills : x.by = b})
    /\ writes \subseteq Write
    /\ asked \in BOOLEAN /\ cooling \in BOOLEAN /\ relist \in BOOLEAN
    /\ sweep \subseteq Path \cup {Folder}
    /\ view \subseteq Nodes /\ AtMostOne(view)

Init ==
    /\ drive \in [Name -> {Absent, 1}]
    /\ changes = 1
    /\ listing = {}
    /\ stat = [p \in Path |-> {}]
    /\ own = [stat |-> [p \in Path |-> 0], listing |-> [n \in Name |-> 0]]
    /\ fills = {} /\ writes = {}
    /\ asked = FALSE /\ cooling = FALSE
    /\ sweep = {}
    /\ view = {} /\ relist = FALSE

Reading(b) == \E x \in fills : x.by = b
Free(w) == ~Reading(w) /\ \A x \in writes : x.by # w

\* A reader has looked at the cache and calls the CLI.
Fetch(b, what, kind, previous) ==
    /\ ~Reading(b)
    /\ fills' = fills \cup {[by |-> b, what |-> what, at |-> Unanswered,
                             nodes |-> [n \in Name |-> Absent], kind |-> kind,
                             previous |-> previous]}

\* The CLI has seen Drive; its answer waits to be stored.
Answer(x) ==
    /\ x.at = Unanswered
    /\ fills' = (fills \ {x}) \cup {[x EXCEPT !.at = changes, !.nodes = drive]}
    /\ UNCHANGED <<driveVars, cacheVars, own, writes, daemonVars, viewVars>>

\* The second half of a reader has an answer of this kind to store.
Answered(x, kind) == x.kind = kind /\ x.at # Unanswered

\* Cache::store_stat; a path that is gone is a NotFound and stores nothing.
StatOf(x, p) ==
    IF x.nodes[Child(p)] = Absent THEN {}
    ELSE {[due |-> Later(own.stat[p], x.at), rev |-> x.nodes[Child(p)]]}

\* Cache::store_listing: the row, and a stat row for every child listed.
StoreListing(x) ==
    /\ listing' = {[due |-> [n \in Name |-> Later(own.listing[n], x.at)],
                    nodes |-> x.nodes]}
    /\ stat' = [p \in Path |-> IF p \in Inside \/ x.nodes[p] = Absent THEN stat[p]
                               ELSE StatOf(x, p)]

\* KDirNotify: FilesAdded makes a window on the folder list it again;
\* FilesChanged does if it names something the window shows.
FilesAdded == relist' = (relist \/ view # {})
FilesChanged(names) ==
    relist' = (relist \/ \E v \in view : \E n \in names : v[n] # Absent)

Show(nodes) ==
    /\ view' = IF view # {} /\ relist THEN {nodes} ELSE view
    /\ relist' = FALSE

-----------------------------------------------------------------------------
(***************************************************************************)
(* Workers: list_dir and stat_path.                                        *)
(***************************************************************************)

\* A cached listing is served at once and the daemon asked to check it.
ListHit(w) ==
    /\ relist /\ Free(w) /\ listing # {}
    /\ \E l \in listing : Show(l.nodes)
    /\ asked' = TRUE
    /\ UNCHANGED <<driveVars, cacheVars, own, fills, writes, cooling, sweep>>

ListMiss(w) ==
    /\ relist /\ Free(w) /\ listing = {}
    /\ Fetch(w, Folder, "read", {})
    /\ UNCHANGED <<driveVars, cacheVars, own, writes, daemonVars, viewVars>>

StatHit(w, n) ==
    /\ "Stat" \in Environment
    /\ Free(w) /\ stat[n] # {}
    /\ ~asked
    /\ asked' = TRUE
    /\ UNCHANGED <<driveVars, cacheVars, own, fills, writes, cooling, sweep, viewVars>>

\* A child is looked at, or something below it.
StatMiss(w, p) ==
    /\ "Stat" \in Environment
    /\ Free(w) /\ stat[p] = {} /\ drive[Child(p)] # Absent
    /\ Fetch(w, p, "read", {})
    /\ UNCHANGED <<driveVars, cacheVars, own, writes, daemonVars, viewVars>>

\* The second half of list_dir and stat_path: store, then answer.
StoreRead(x) ==
    /\ Answered(x, "read")
    /\ fills' = fills \ {x}
    /\ IF x.what = Folder
       THEN StoreListing(x) /\ Show(x.nodes)
       ELSE /\ stat' = [stat EXCEPT ![x.what] = StatOf(x, x.what)]
            /\ UNCHANGED <<listing, viewVars>>
    /\ UNCHANGED <<driveVars, own, writes, daemonVars>>

-----------------------------------------------------------------------------
(***************************************************************************)
(* Workers: make_dir, copy_path, trash, rename_or_move, put; the context   *)
(* menu's restore_path.                                                    *)
(***************************************************************************)

\* The CLI call of a write succeeds.
Alter(w, op, names, nodes) ==
    /\ Free(w)
    /\ changes < MaxChanges
    /\ drive' = nodes
    /\ changes' = changes + 1
    /\ writes' = writes \cup {[by |-> w, op |-> op, names |-> names,
                               at |-> changes + 1]}
    /\ UNCHANGED <<cacheVars, own, fills, daemonVars, viewVars>>

MakeDir(w, n) ==
    /\ "Write" \in Environment /\ drive[n] = Absent
    /\ Alter(w, "mkdir", {n}, [drive EXCEPT ![n] = changes + 1])

\* The CLI refuses a copy onto an existing name.
Copy(w, n) ==
    /\ "Write" \in Environment /\ drive[n] = Absent
    /\ Alter(w, "copy", {n}, [drive EXCEPT ![n] = changes + 1])

Trash(w, n) ==
    /\ "Write" \in Environment /\ drive[n] # Absent
    /\ Alter(w, "trash", {n}, [drive EXCEPT ![n] = Absent])

Rename(w, o, n) ==
    /\ "Write" \in Environment /\ drive[o] # Absent /\ drive[n] = Absent
    /\ Alter(w, "rename", {o, n},
             [drive EXCEPT ![o] = Absent, ![n] = changes + 1])

Put(w, n) ==
    /\ "Put" \in Environment
    /\ Alter(w, "put", {n}, [drive EXCEPT ![n] = changes + 1])

\* The CLI puts a trashed child back where it was.  Dolphin calls it itself,
\* one call after the other, the way a worker would.
Restore(w, n) ==
    /\ "Restore" \in Environment /\ drive[n] = Absent
    /\ Alter(w, "restore", {n}, [drive EXCEPT ![n] = changes + 1])

\* What the stat table keeps of a folder just made: the node in the answer.
Made(x, n) == {[due |-> Later(own.stat[n], x.at), rev |-> x.at]}

\* Mutant of Invalidate: what lies below a path keeps its rows.
InvalidateFlat(x) ==
    stat' = [p \in Path |->
                IF p \in Inside \/ p \notin x.names THEN stat[p]
                ELSE IF x.op = "mkdir" THEN Made(x, p)
                ELSE IF x.op \in {"copy", "trash", "rename"} THEN {}
                ELSE stat[p]]

\* What each write does to the stat rows: make_dir stores the new node, copy
\* drops the row of the path, trash and rename those of every path involved
\* and of all that lies below (invalidate_tree), an upload and a restore none.
Invalidate(x) ==
    stat' = [p \in Path |->
                IF x.op \in {"trash", "rename"} /\ Child(p) \in x.names THEN {}
                ELSE IF x.op = "mkdir" /\ p \in x.names THEN Made(x, p)
                ELSE IF x.op = "copy" /\ p \in x.names THEN {}
                ELSE stat[p]]

\* The last changes that the rows have to reflect, once x is completed.
Settle(x) ==
    own' = [stat |-> [p \in Path |->
                         IF x.op \in OfStat(p) /\ Child(p) \in x.names
                         THEN Later(own.stat[p], x.at) ELSE own.stat[p]],
            listing |-> [n \in Name |->
                            IF x.op \in OfListing /\ n \in x.names
                            THEN Later(own.listing[n], x.at) ELSE own.listing[n]]]

\* The second half of every write: the folder's listing is dropped, and KIO
\* tells Dolphin that the folder has changed.  Nobody knows where a restored
\* child went, so only /trash is treated that way then.
Complete(x) ==
    /\ x \in writes
    /\ writes' = writes \ {x}
    /\ IF x.op = "restore"
       THEN UNCHANGED <<listing, relist>>
       ELSE listing' = {} /\ FilesAdded
    /\ Invalidate(x)
    /\ Settle(x)
    /\ UNCHANGED <<driveVars, fills, daemonVars, view>>

-----------------------------------------------------------------------------
(***************************************************************************)
(* The daemon: revalidate_listing and refresh_all.                         *)
(***************************************************************************)

Claim(b) ==
    /\ ~cooling
    /\ cooling' = TRUE
    /\ Fetch(b, Folder, "revalidate", {l.nodes : l \in listing})

\* The control server takes up a request; during the cooldown it is dropped.
TakeRequest ==
    /\ asked
    /\ asked' = FALSE
    /\ \/ Claim("request")
       \/ cooling /\ UNCHANGED <<fills, cooling>>
    /\ UNCHANGED <<driveVars, cacheVars, own, writes, sweep, viewVars>>

\* The periodic revalidation of the folders open in Dolphin; FolderView says
\* when the folder counts as open.
RevalidateOpen ==
    /\ "View" \in Environment
    /\ sweep = {}
    /\ Claim("loop")
    /\ UNCHANGED <<driveVars, cacheVars, own, writes, asked, sweep, viewVars>>

CoolDown ==
    /\ cooling
    /\ cooling' = FALSE
    /\ UNCHANGED <<driveVars, cacheVars, own, fills, writes, asked, sweep, viewVars>>

\* Mutant of StoreRevalidated: the cache is updated and nobody told.
StoreRevalidatedSilently(x) ==
    /\ Answered(x, "revalidate")
    /\ fills' = fills \ {x}
    /\ IF x.nodes \in x.previous
       THEN UNCHANGED <<cacheVars, relist>>
       ELSE StoreListing(x) /\ relist' = relist
    /\ UNCHANGED <<driveVars, own, writes, daemonVars, view>>

\* The listing is compared with the one that was cached when the call began;
\* if it differs it is stored and Dolphin told to list the folder again.
StoreRevalidated(x) ==
    /\ Answered(x, "revalidate")
    /\ fills' = fills \ {x}
    /\ IF x.nodes \in x.previous
       THEN UNCHANGED <<cacheVars, relist>>
       ELSE StoreListing(x) /\ FilesAdded
    /\ UNCHANGED <<driveVars, own, writes, daemonVars, view>>

\* refresh_all begins: the paths with a stat row, the folder after them.
SweepStart ==
    /\ "Sweep" \in Environment
    /\ sweep = {} /\ ~Reading("loop")
    /\ sweep' = {p \in Path : stat[p] # {}} \cup {Folder}
    /\ UNCHANGED <<driveVars, cacheVars, own, fills, writes, asked, cooling, viewVars>>

SweepFetch(p) ==
    /\ p \in sweep
    /\ p = Folder => sweep = {Folder}
    /\ IF p = Folder /\ listing = {}
       THEN UNCHANGED fills /\ sweep' = sweep \ {p}
       ELSE Fetch("loop", p, "sweep", {}) /\ UNCHANGED sweep
    /\ UNCHANGED <<driveVars, cacheVars, own, writes, asked, cooling, viewVars>>

\* Mutant of StoreSwept: a path that is gone keeps its row.
StoreSweptKeeping(x) ==
    /\ Answered(x, "sweep")
    /\ fills' = fills \ {x}
    /\ sweep' = sweep \ {x.what}
    /\ IF x.what = Folder
       THEN /\ StoreListing(x)
            /\ FilesChanged({n \in Name : x.nodes[n] # Absent})
       ELSE /\ stat' = IF x.nodes[Child(x.what)] = Absent THEN stat
                       ELSE [stat EXCEPT ![x.what] = StatOf(x, x.what)]
            /\ FilesChanged({n \in Name : n = x.what /\ x.nodes[n] # Absent})
            /\ UNCHANGED listing
    /\ UNCHANGED <<driveVars, own, writes, asked, cooling, view>>

\* What the sweep has fetched replaces what is cached, FilesChanged names
\* what was found; a path that is gone loses its row.
StoreSwept(x) ==
    /\ Answered(x, "sweep")
    /\ fills' = fills \ {x}
    /\ sweep' = sweep \ {x.what}
    /\ IF x.what = Folder
       THEN /\ StoreListing(x)
            /\ FilesChanged({n \in Name : x.nodes[n] # Absent})
       ELSE /\ stat' = [stat EXCEPT ![x.what] = StatOf(x, x.what)]
            /\ FilesChanged({n \in Name : n = x.what /\ x.nodes[n] # Absent})
            /\ UNCHANGED listing
    /\ UNCHANGED <<driveVars, own, writes, asked, cooling, view>>

\* A reader's call fails: nothing is stored.
FetchFails(x) ==
    /\ "Failure" \in Environment /\ x.at = Unanswered
    /\ fills' = fills \ {x}
    /\ sweep' = IF x.kind = "sweep" THEN sweep \ {x.what} ELSE sweep
    /\ relist' = (relist /\ ~(x.kind = "read" /\ x.what = Folder))
    /\ UNCHANGED <<driveVars, cacheVars, own, writes, asked, cooling, view>>

-----------------------------------------------------------------------------
(***************************************************************************)
(* The world.                                                              *)
(***************************************************************************)

RemoteChange(n) ==
    /\ "Remote" \in Environment
    /\ changes < MaxChanges
    /\ changes' = changes + 1
    /\ drive' \in {[drive EXCEPT ![n] = changes + 1], [drive EXCEPT ![n] = Absent]}
    /\ drive' # drive
    /\ UNCHANGED <<cacheVars, own, fills, writes, daemonVars, viewVars>>

Open ==
    /\ "View" \in Environment
    /\ view = {}
    /\ view' = {[n \in Name |-> Absent]}
    /\ relist' = TRUE
    /\ UNCHANGED <<driveVars, cacheVars, own, fills, writes, daemonVars>>

Close ==
    /\ view # {}
    /\ view' = {} /\ relist' = FALSE
    /\ UNCHANGED <<driveVars, cacheVars, own, fills, writes, daemonVars>>

-----------------------------------------------------------------------------

Proceed(x) == Answer(x) \/ StoreRead(x) \/ StoreRevalidated(x) \/ StoreSwept(x)
List == \E w \in Worker : ListHit(w) \/ ListMiss(w)

\* What has nothing to do with which folders are open.
Elsewhere ==
    \/ List
    \/ \E w \in Worker, n \in Name : StatHit(w, n)
    \/ \E w \in Worker, p \in Path : StatMiss(w, p)
    \/ \E w \in Worker, n \in Name :
         MakeDir(w, n) \/ Copy(w, n) \/ Trash(w, n) \/ Put(w, n) \/ Restore(w, n)
    \/ \E w \in Worker, o, n \in Name : Rename(w, o, n)
    \/ \E x \in writes : Complete(x)
    \/ CoolDown
    \/ SweepStart \/ \E p \in sweep : SweepFetch(p)
    \/ \E x \in fills : Proceed(x)
    \/ \E x \in fills : FetchFails(x)
    \/ \E n \in Name : RemoteChange(n)

Next == Elsewhere \/ TakeRequest \/ RevalidateOpen \/ Open \/ Close

Spec == Init /\ [][Next]_vars

\* The workers and the daemon run, calls end and timers fire: the window is
\* listed when it has to be, requests are taken up, the cooldown passes, the
\* sweep runs every 15 minutes.
Fairness ==
    /\ WF_vars(List)
    /\ \A b \in Worker \cup Daemon : WF_vars(\E x \in fills : x.by = b /\ Proceed(x))
    /\ WF_vars(\E x \in writes : Complete(x))
    /\ WF_vars(TakeRequest)
    /\ WF_vars(CoolDown)
    /\ SF_vars(SweepStart)
    /\ WF_vars(\E p \in sweep : SweepFetch(p))

FairSpec == Spec /\ Fairness

-----------------------------------------------------------------------------
(***************************************************************************)
(* Properties.                                                             *)
(***************************************************************************)

\* Whatever is cached reflects the changes this app has completed: "a
\* self-caused change is reflected on the very next visit" (docs/DESIGN.md),
\* whoever reads, writes and sweeps beside it.  What a row may miss are the
\* changes completed while its answer was in a reader's hand, and what the
\* code does not look at the table for.
OwnWritesAreSeen ==
    /\ \A n \in Name : \A l \in listing : own.listing[n] <= l.due[n]
    /\ \A p \in Path : \A s \in stat[p] : own.stat[p] <= s.due

\* Once Drive has come to rest, so has the cache: every row says what Drive
\* holds, and what is gone from Drive has no row.
RowsMatch ==
    /\ \A l \in listing : l.nodes = drive
    /\ \A p \in Path : \A s \in stat[p] : s.rev = drive[Child(p)]
CacheConverges == <>[]RowsMatch

=============================================================================
