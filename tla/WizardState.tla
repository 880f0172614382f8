---------------------------- MODULE WizardState ----------------------------
(***************************************************************************)
(* The state shared by the setup wizard (wizard/src/main.rs and its pages  *)
(* in wizard/qml), the daemon it configures and restarts, and the          *)
(* installation of the `proton-drive` CLI.  WizardLock has the life of a   *)
(* wizard process, Setup the pages of the first run, CliUpdate the version *)
(* check and the installation; Wizard puts them together.                  *)
(***************************************************************************)
EXTENDS Naturals

CONSTANTS
    Process,      \* the wizards ever started, numbered as they start
    Days,         \* the retention periods the user picks from
    MinVersion,   \* MIN_CLI_VERSION
    MaxVersion,   \* bound: the last release ever published
    Environment,  \* what may happen besides what the user is led through
    None,         \* nothing there
    Malformed, Absent  \* daemon.toml cannot be read, is not there

(***************************************************************************)
(* The events a run lets happen:                                           *)
(*   AtOnce       a wizard starts while another one starts; once the lock  *)
(*                has failed them the user does nothing more in a page     *)
(*   Together     a wizard starts or ends while another one starts or      *)
(*                ends, whatever the user does next                        *)
(*   Unwritable   a file of the runtime directory cannot be written        *)
(*   Crash        a wizard process is killed                               *)
(*   Failure      a command, a request or the save of a file fails         *)
(*   Torn         a save of daemon.toml stops half-way                     *)
(*   ScriptFails  the script for the next login cannot be written          *)
(*   Offline      the session cannot be asked for, only that is unknown    *)
(*   Forward      the user steps forward to a page left behind             *)
(*   Twice        two installations run in one wizard                      *)
(*   Shadow       another CLI comes first on the PATH                      *)
(***************************************************************************)
EnvironmentEvents ==
    {"AtOnce", "Together", "Unwritable", "Crash", "Failure", "Torn", "ScriptFails", "Offline",
     "Forward", "Twice", "Shadow"}

ASSUME ConstantsAssumption ==
    /\ Environment \subseteq EnvironmentEvents
    /\ Process \subseteq Nat
    /\ MinVersion \in Nat \ {0} /\ MaxVersion \in Nat
    /\ MinVersion <= MaxVersion
    /\ None \notin Days \cup Nat \cup {"keychain", "unsafe_file", "pass"}

VARIABLES
    wizard,    \* wizard[p]: how far process p is
    lock, port, token,  \* the pid in the lock file; whose port, whose token
    breached,  \* a wizard has claimed the lock between the look of another one
               \* and its claim, or could not write the lock file (history)
    window,    \* window[p]: the page p shows and what the window knows
    env,       \* env[p]: the credentials store the CLI calls of p use
    request,   \* request[p]: the save p's server is working on
    config,    \* daemon.toml
    script,    \* the store Dolphin's worker gets at the next login; without a script
               \* it is the one the CLI takes by default
    sessions,  \* the stores that hold a session
    keys,      \* "gpg": a key exists; "pass": pass is initialized for one
    favorite,  \* Dolphin's places have the bookmark
    cli,       \* ~/.local/bin/proton-drive
    tmp,       \* tmp[p]: the file p downloads to
    job,       \* job[p]: the installations p's server is working on
    latest,    \* the newest stable release
    shadow,    \* the version of a CLI that comes first on the PATH
    daemon,    \* the daemon: its store and its version check
    kept,      \* the settings last saved, each by its page (history)
    said       \* what this run of the daemon has announced (history)

lockVars == <<wizard, lock, port, token, breached>>
setupVars == <<env, request, config, script, sessions, keys, favorite, kept>>
cliVars == <<cli, tmp, job, latest, shadow>>
daemonVars == <<daemon, said>>
vars == <<lockVars, window, setupVars, cliVars, daemonVars>>

-----------------------------------------------------------------------------

Store == {"keychain", "unsafe_file", "pass"}
Maybe(S) == S \cup {None}
Version == 1 .. MaxVersion

Settings == [store : Maybe(Store), days : Maybe(Days)]
ASSUME FilesAssumption == Malformed \notin Settings /\ Absent \notin Settings
Defaults == [store |-> None, days |-> None]

\* Config::load_or_default, and unwrap_or_default in route_save_config.
Load(c) == IF c \in Settings THEN c ELSE Defaults

\* Mutant of Resolved: an absent store is not replaced by the default.
Unresolved(store) == store

\* What an absent credentials_store stands for: the default of the unit.
Resolved(store) == IF store = None THEN "unsafe_file" ELSE store

Starting == {"checking", "claiming"}
Serving == {"binding", "signing", "opening", "joining", "open"}
Closing == {"closing", "unlocked", "unported"}

Page == {"none", "welcome", "install", "installed", "credentials", "auth",
         "favorite", "retention", "finish", "restart", "running", "done",
         "update", "updated"}

NoWindow == [port |-> None, token |-> None, page |-> "none", auth |-> None]
NoRequest == [field |-> "none", hand |-> Defaults]

\* A CLI binary: a release, whole or only part of the file.
Binary == [version : Version, whole : BOOLEAN]

Slot == IF "Twice" \in Environment THEN {1, 2} ELSE {1}
NoJob == [step |-> "none", version |-> None]

\* What the version check announces, once each.
Notice == {"update", "unsupported"} \X Version
ASSUME NoticeAssumption == None \notin Notice

Wizard == [step : {"new", "gone"} \cup Starting \cup Serving \cup Closing,
           mode : {"setup", "update-cli"}]
Window == [port : Maybe(Process), token : Maybe(Process), page : Page, auth : Maybe(Store)]
Request == [field : {"none", "store", "days"}, hand : Settings]
Job == [step : {"none"}, version : {None}] \cup
       [step : {"download", "verify", "rename"}, version : Version]
Daemon == [up : BOOLEAN, store : Store, step : {"idle", "fetch"},
           seen : Maybe(Version), notified : Maybe(Notice)]

LockTypeOK ==
    /\ wizard \in [Process -> Wizard]
    /\ lock \in Maybe(Process) /\ port \in Maybe(Process) /\ token \in Maybe(Process)
    /\ breached \in BOOLEAN

WindowTypeOK == window \in [Process -> Window]

SetupTypeOK ==
    /\ env \in [Process -> Store]
    /\ request \in [Process -> Request]
    /\ config \in Settings \cup {Malformed, Absent}
    /\ script \in Store
    /\ sessions \subseteq Store
    /\ keys \subseteq {"gpg", "pass"}
    /\ favorite \in BOOLEAN
    /\ kept \in Settings

CliTypeOK ==
    /\ cli \in Maybe(Binary)
    /\ tmp \in [Process -> Maybe(Binary)]
    /\ job \in [Process -> [Slot -> Job]]
    /\ latest \in Version /\ shadow \in Maybe(Version)

DaemonTypeOK == daemon \in Daemon /\ said \subseteq Notice

TypeOK == LockTypeOK /\ WindowTypeOK /\ SetupTypeOK /\ CliTypeOK /\ DaemonTypeOK

\* The daemon as it starts with daemon.toml holding c: main gives up on a
\* malformed file, and a store in it overrides the one of the unit.
Started(c) ==
    [up |-> c # Malformed, store |-> Resolved(Load(c).store), step |-> "idle",
     seen |-> None, notified |-> None]

Init ==
    /\ wizard = [p \in Process |-> [step |-> "new", mode |-> "setup"]]
    /\ lock = None /\ port = None /\ token = None /\ breached = FALSE
    /\ window = [p \in Process |-> NoWindow]
    /\ script = "keychain"
    /\ env = [p \in Process |-> "keychain"]
    /\ request = [p \in Process |-> NoRequest]
    /\ config \in {Malformed, Absent} \cup
           {[store |-> "keychain", days |-> d] : d \in Days}
    /\ sessions = {}
    /\ keys \in {{}, {"gpg", "pass"}}
    /\ favorite = FALSE
    /\ cli \in {None} \cup {[version |-> v, whole |-> TRUE] : v \in Version}
    /\ tmp = [p \in Process |-> None]
    /\ job = [p \in Process |-> [i \in Slot |-> NoJob]]
    /\ latest = MinVersion
    /\ cli # None => cli.version <= latest
    /\ shadow \in IF "Shadow" \in Environment THEN Maybe(Version) ELSE {None}
    /\ daemon = Started(config)
    /\ kept = Load(config)
    /\ said = {}

At(p, step) == wizard[p].step = step
GoTo(p, step) == wizard' = [wizard EXCEPT ![p].step = step]
Alive(p) == wizard[p].step \notin {"new", "gone"}
Show(p, page) == window' = [window EXCEPT ![p].page = page]

\* cli::find_binary, and its --version: the first CLI on the PATH, else ours.
Found == shadow # None \/ cli # None
Installed == IF shadow # None THEN shadow
             ELSE IF cli = None THEN None
             ELSE IF cli.whole THEN cli.version ELSE None
Newer(remote, installed) == remote > installed
Supported(v) == ~Newer(MinVersion, v)

\* Credentials.qml lets pass be picked once there is a key for it.
PassOffered == "gpg" \in keys

\* The page's request reaches the server that listens on the port it has
\* read, which answers who knows its token.
Hears(p) == window[p].port = p
Trusts(p) == window[p].token = p
Reaches(p) == Hears(p) /\ Trusts(p)

\* The user looks at this page of p, and p is not busy with a request.
Shows(p, page) ==
    /\ At(p, "open") /\ Reaches(p)
    /\ window[p].page = page
    /\ request[p].field = "none"

\* systemctl restart: a new daemon reads the configuration.
Restarts == daemon' = Started(config) /\ said' = {}
=============================================================================
