--------------------------- MODULE Wizard_proofs ---------------------------
(***************************************************************************)
(* Proofs about Wizard for every number of wizards and of releases.        *)
(***************************************************************************)
EXTENDS Wizard, TLAPS

USE DEF Maybe, Starting, Serving, Closing

-----------------------------------------------------------------------------
(***************************************************************************)
(* Types.                                                                  *)
(***************************************************************************)

LEMMA SettingsTypes ==
    /\ Defaults \in Settings
    /\ \A c : Load(c) \in Settings
    /\ \A s \in Settings : Resolved(s.store) \in Store
    /\ \A s \in Settings, store \in Maybe(Store) : [s EXCEPT !.store = store] \in Settings
    /\ \A s \in Settings, d \in Maybe(Days) : [s EXCEPT !.days = d] \in Settings
    /\ \A store \in Maybe(Store), d \in Maybe(Days) : [store |-> store, days |-> d] \in Settings
BY DEF Settings, Defaults, Load, Resolved, Store

LEMMA StartedType == \A c : Started(c) \in Daemon
<1> TAKE c
<1>1. Load(c) \in Settings /\ Resolved(Load(c).store) \in Store
  BY SettingsTypes
<1> QED
  BY <1>1 DEF Started, Daemon

LEMMA WindowTypes ==
    ASSUME NEW w \in Window
    PROVE  /\ \A page \in Page : [w EXCEPT !.page = page] \in Window
           /\ \A auth \in Maybe(Store) : [w EXCEPT !.auth = auth] \in Window
           /\ \A q \in Maybe(Process) : [w EXCEPT !.port = q] \in Window
           /\ \A q \in Maybe(Process), page \in Page :
                [w EXCEPT !.token = q, !.page = page] \in Window
           /\ NoWindow \in Window
BY DEF Window, NoWindow, Page

LEMMA InstalledType ==
    ASSUME CliTypeOK
    PROVE  Installed \in Maybe(Version)
BY DEF CliTypeOK, Installed, Binary

LEMMA WizardTypes ==
    ASSUME LockTypeOK, NEW p \in Process
    PROVE  /\ \A s \in Starting \cup Serving \cup Closing :
                GoTo(p, s) => wizard' \in [Process -> Wizard]
           /\ Exit(p) => wizard' \in [Process -> Wizard]
           /\ \A mode \in {"setup", "update-cli"} :
                Spawn(p, mode) => wizard' \in [Process -> Wizard]
BY DEF LockTypeOK, Wizard, GoTo, Exit, Spawn

LEMMA ShowTypes ==
    ASSUME WindowTypeOK, NEW p \in Process, NEW page \in Page, Show(p, page)
    PROVE  WindowTypeOK'
<1>1. window' = [window EXCEPT ![p] = [window[p] EXCEPT !.page = page]]
  BY DEF Show
<1> QED
  BY <1>1, WindowTypes DEF WindowTypeOK

LEMMA EndsTypes ==
    ASSUME WindowTypeOK, SetupTypeOK, CliTypeOK, DaemonTypeOK, NEW p \in Process, Ends(p)
    PROVE  WindowTypeOK' /\ SetupTypeOK' /\ CliTypeOK' /\ DaemonTypeOK'
<1>1. WindowTypeOK'
  BY WindowTypes DEF Ends, WindowTypeOK, Window, NoWindow, Page
<1>2. SetupTypeOK'
  BY SettingsTypes DEF Ends, SetupTypeOK, Request, NoRequest, Store
<1>3. [i \in Slot |-> NoJob] \in [Slot -> Job]
  BY DEF NoJob, Job
<1>4. CliTypeOK'
  BY <1>3 DEF Ends, CliTypeOK
<1>5. DaemonTypeOK'
  BY DEF Ends, DaemonTypeOK, daemonVars
<1> QED
  BY <1>1, <1>2, <1>4, <1>5

LEMMA LockTypes ==
    ASSUME TypeOK, NEW p \in Process, LockStep(p)
    PROVE  TypeOK'
<1> USE WizardTypes DEF TypeOK
<1>0. CASE UNCHANGED <<setupVars, cliVars, daemonVars>>
  <2>1. SetupTypeOK' /\ CliTypeOK' /\ DaemonTypeOK'
    BY <1>0 DEF SetupTypeOK, CliTypeOK, DaemonTypeOK, setupVars, cliVars, daemonVars
  <2>2. CASE UNCHANGED window
    <3>1. WindowTypeOK'
      BY <2>2 DEF WindowTypeOK
    <3>2. wizard' \in [Process -> Wizard]
      BY <1>0, <2>2 DEF LockStep, Launch, CheckLock, Claim, WritePort, WriteToken, ReadPort,
         ReadToken, Close, RemoveLock, RemovePort, RemoveToken, Crash, LockTypeOK, Wizard,
         GoTo, Exit, Spawn
    <3>3. lock' \in Maybe(Process) /\ port' \in Maybe(Process) /\ token' \in Maybe(Process)
          /\ breached' \in BOOLEAN
      <4>1. CASE Claim(p)
        BY <4>1 DEF Claim, Written, LockTypeOK
      <4>2. CASE WritePort(p) \/ WriteToken(p)
        BY <4>2 DEF WritePort, WriteToken, Written, LockTypeOK
      <4>3. CASE ~(Claim(p) \/ WritePort(p) \/ WriteToken(p))
        BY <1>0, <2>2, <4>3 DEF LockStep, Launch, CheckLock, ReadPort, ReadToken, Close,
           RemoveLock, RemovePort, RemoveToken, Crash, LockTypeOK
      <4> QED
        BY <4>1, <4>2, <4>3
    <3> QED
      BY <2>1, <3>1, <3>2, <3>3 DEF LockTypeOK
  <2>3. CASE ReadPort(p)
    <3>1. window' = [window EXCEPT ![p] = [window[p] EXCEPT !.port = port]]
      BY <2>3 DEF ReadPort
    <3>2. WindowTypeOK'
      BY <3>1, WindowTypes DEF WindowTypeOK, LockTypeOK
    <3> QED
      BY <2>1, <2>3, <3>2 DEF ReadPort, LockTypeOK
  <2>4. CASE ReadToken(p)
    <3> DEFINE page == IF wizard[p].mode = "setup" THEN "welcome" ELSE "update"
    <3>1. window' = [window EXCEPT ![p] = [window[p] EXCEPT !.token = token, !.page = page]]
      BY <2>4 DEF ReadToken
    <3>2. page \in Page
      BY DEF Page
    <3>3. WindowTypeOK'
      BY <3>1, <3>2, WindowTypes DEF WindowTypeOK, LockTypeOK
    <3> QED
      BY <2>1, <2>4, <3>3 DEF ReadToken, LockTypeOK
  <2>5. CASE RemoveToken(p) \/ Crash(p)
    BY <2>1, <2>5, EndsTypes DEF RemoveToken, Crash, LockTypeOK
  <2> QED
    BY <2>2, <2>3, <2>4, <2>5 DEF LockStep, Launch, CheckLock, Claim, WritePort, WriteToken,
       Close, RemoveLock, RemovePort
<1>1. CASE RemoveToken(p) \/ Crash(p)
  <2>1. LockTypeOK'
    BY <1>1 DEF RemoveToken, Crash, LockTypeOK
  <2> QED
    BY <1>1, <2>1, EndsTypes DEF RemoveToken, Crash
<1> QED
  BY <1>0, <1>1 DEF LockStep, Launch, CheckLock, Claim, WritePort, WriteToken, ReadPort,
     ReadToken, Close, RemoveLock, RemovePort

LEMMA SaveTypes ==
    ASSUME TypeOK, NEW p \in Process, NEW field \in {"store", "days"}, NEW hand \in Settings,
           Save(p, field, hand)
    PROVE  TypeOK'
<1>1. Resolved(hand.store) \in Store
  BY SettingsTypes
<1>2. SetupTypeOK'
  BY <1>1 DEF TypeOK, Save, WriteScript, SetupTypeOK, Request
<1> QED
  BY <1>2 DEF TypeOK, Save, LockTypeOK, WindowTypeOK, CliTypeOK, DaemonTypeOK, lockVars,
     cliVars, daemonVars

\* Steps that only show another page, or sign in.
LEMMA PageTypes ==
    ASSUME TypeOK, UNCHANGED <<lockVars, setupVars, cliVars>>, WindowTypeOK', DaemonTypeOK'
    PROVE  TypeOK'
BY DEF TypeOK, LockTypeOK, SetupTypeOK, CliTypeOK, lockVars, setupVars, cliVars

LEMMA SetupTypes ==
    ASSUME TypeOK, NEW p \in Process, SetupStep(p)
    PROVE  TypeOK'
<1>0. LockTypeOK /\ WindowTypeOK /\ SetupTypeOK /\ CliTypeOK /\ DaemonTypeOK
  BY DEF TypeOK
<1>1. CASE GetStarted(p) \/ Continue(p) \/ RestartFails(p) \/ Navigate(p)
  <2>1. PICK page \in Page : Show(p, page)
    BY <1>1 DEF GetStarted, Continue, RestartFails, Navigate, Page
  <2>2. UNCHANGED <<lockVars, setupVars, cliVars, daemonVars>>
    BY <1>1 DEF GetStarted, Continue, RestartFails, Navigate
  <2>3. DaemonTypeOK'
    BY <1>0, <2>2 DEF DaemonTypeOK, daemonVars
  <2> QED
    BY <1>0, <2>1, <2>2, <2>3, ShowTypes, PageTypes
<1>2. CASE RestartDaemon(p)
  <2>1. WindowTypeOK'
    BY <1>0, <1>2, ShowTypes DEF RestartDaemon, Page
  <2>2. DaemonTypeOK'
    BY <1>2, StartedType DEF RestartDaemon, Restarts, DaemonTypeOK
  <2> QED
    BY <1>2, <2>1, <2>2, PageTypes DEF RestartDaemon
<1>3. ASSUME NEW store \in {None, "pass"}, SaveStore(p, store)
      PROVE  TypeOK'
  <2>1. store \in Maybe(Store) /\ [Load(config) EXCEPT !.store = store] \in Settings
    BY SettingsTypes DEF Store
  <2> QED
    BY <1>3, <2>1, SaveTypes DEF SaveStore
<1>4. ASSUME NEW d \in Days, SaveDays(p, d)
      PROVE  TypeOK'
  <2>1. [Load(config) EXCEPT !.days = d] \in Settings
    BY SettingsTypes
  <2> QED
    BY <1>4, <2>1, SaveTypes DEF SaveDays
<1>5. CASE SetupPass(p)
  <2>1. keys' \subseteq {"gpg", "pass"}
    BY <1>0, <1>5 DEF SetupPass, SetupTypeOK
  <2>2. SetupTypeOK'
    BY <1>0, <1>5, <2>1 DEF SetupPass, SetupTypeOK
  <2> QED
    BY <1>0, <1>5, <2>2 DEF SetupPass, TypeOK, LockTypeOK, WindowTypeOK, CliTypeOK,
       DaemonTypeOK, lockVars, cliVars, daemonVars
<1>6. CASE SaveFile(p)
  <2>1. request[p].hand \in Settings /\ window[p] \in Window
    BY <1>0 DEF SetupTypeOK, Request, WindowTypeOK
  <2>2. SetupTypeOK'
    <3>1. kept' \in Settings
      BY <1>0, <1>6, <2>1 DEF SaveFile, SetupTypeOK, Settings
    <3>2. NoRequest \in Request
      BY SettingsTypes DEF NoRequest, Request
    <3> QED
      BY <1>0, <1>6, <2>1, <3>1, <3>2 DEF SaveFile, SetupTypeOK
  <2>3. WindowTypeOK'
    BY <1>0, <1>6, <2>1 DEF SaveFile, WindowTypeOK, Window, Page
  <2> QED
    BY <1>0, <1>6, <2>2, <2>3 DEF SaveFile, TypeOK, LockTypeOK, CliTypeOK, DaemonTypeOK,
       lockVars, cliVars, daemonVars
<1>7. CASE SaveFails(p)
  <2>1. NoRequest \in Request /\ Defaults \in Settings
    BY SettingsTypes DEF NoRequest, Request
  <2>2. SetupTypeOK'
    BY <1>0, <1>7, <2>1 DEF SaveFails, SetupTypeOK
  <2> QED
    BY <1>0, <1>7, <2>2 DEF SaveFails, TypeOK, LockTypeOK, WindowTypeOK, CliTypeOK,
       DaemonTypeOK, lockVars, cliVars, daemonVars
<1>8. CASE SessionStatus(p) \/ Login(p)
  <2>1. window' = [window EXCEPT ![p] = [window[p] EXCEPT !.auth = env[p]]]
    BY <1>8 DEF SessionStatus, Login, SignedIn
  <2>2. env[p] \in Store
    BY <1>0 DEF SetupTypeOK
  <2>3. WindowTypeOK'
    BY <1>0, <2>1, <2>2, WindowTypes DEF WindowTypeOK
  <2>4. SetupTypeOK'
    BY <1>0, <1>8, <2>2 DEF SessionStatus, Login, SetupTypeOK, setupVars
  <2> QED
    BY <1>0, <1>8, <2>3, <2>4 DEF SessionStatus, Login, TypeOK, LockTypeOK, CliTypeOK,
       DaemonTypeOK, lockVars, cliVars, daemonVars
<1>9. CASE AddFavorite(p)
  <2>1. WindowTypeOK'
    BY <1>0, <1>9, ShowTypes DEF AddFavorite, Page
  <2>2. SetupTypeOK'
    BY <1>0, <1>9 DEF AddFavorite, SetupTypeOK
  <2> QED
    BY <1>0, <1>9, <2>1, <2>2 DEF AddFavorite, TypeOK, LockTypeOK, CliTypeOK, DaemonTypeOK,
       lockVars, cliVars, daemonVars
<1> QED
  BY <1>1, <1>2, <1>3, <1>4, <1>5, <1>6, <1>7, <1>8, <1>9 DEF SetupStep

LEMMA InstallTypes ==
    ASSUME TypeOK, NEW p \in Process, InstallStep(p)
    PROVE  TypeOK'
<1>0. LockTypeOK /\ WindowTypeOK /\ SetupTypeOK /\ CliTypeOK /\ DaemonTypeOK
  BY DEF TypeOK
<1>1. CASE InstallNext(p)
  <2>1. WindowTypeOK' /\ DaemonTypeOK'
    BY <1>0, <1>1, ShowTypes DEF InstallNext, Page, DaemonTypeOK, daemonVars
  <2> QED
    BY <1>1, <2>1, PageTypes DEF InstallNext
<1>2. ASSUME NEW i \in Slot,
             InstallNow(p, i) \/ Download(p, i) \/ Verify(p, i) \/ InstallFails(p, i)
               \/ Install(p, i)
      PROVE  TypeOK'
  <2>0. UNCHANGED <<lockVars, setupVars, latest, shadow, daemonVars>>
    BY <1>2 DEF InstallNow, Download, Verify, InstallFails, Install, NoOtherVars
  <2>1. LockTypeOK' /\ SetupTypeOK' /\ DaemonTypeOK'
    BY <1>0, <2>0 DEF LockTypeOK, SetupTypeOK, DaemonTypeOK, lockVars, setupVars, daemonVars
  <2>2. job[p] \in [Slot -> Job] /\ job[p][i] \in Job /\ tmp[p] \in Maybe(Binary)
    BY <1>0 DEF CliTypeOK
  <2>3. WindowTypeOK'
    <3>1. CASE UNCHANGED window
      BY <1>0, <3>1 DEF WindowTypeOK
    <3>2. CASE \E page \in Page : Show(p, page)
      BY <1>0, <3>2, ShowTypes
    <3> QED
      BY <1>2, <3>1, <3>2 DEF InstallNow, Download, Verify, InstallFails, Install, Page
  <2>4. ASSUME NEW j \in Job, SetJob(p, i, j)
        PROVE  job' \in [Process -> [Slot -> Job]]
    <3>1. job' = [job EXCEPT ![p] = [job[p] EXCEPT ![i] = j]]
      BY <2>4 DEF SetJob
    <3> QED
      BY <1>0, <2>2, <3>1 DEF CliTypeOK
  <2>5. \E j \in Job : SetJob(p, i, j)
    <3>1. CASE InstallNow(p, i)
      BY <1>0, <3>1 DEF InstallNow, LatestStable, CliTypeOK, Job
    <3>2. CASE Download(p, i) \/ Verify(p, i)
      <4>1. job[p][i].step \in {"download", "verify"}
        BY <3>2 DEF Download, Verify, JobAt
      <4>2. /\ [job[p][i] EXCEPT !.step = "verify"] \in Job
            /\ [job[p][i] EXCEPT !.step = "rename"] \in Job
        BY <2>2, <4>1 DEF Job
      <4> QED
        BY <3>2, <4>2 DEF Download, Verify
    <3>3. CASE InstallFails(p, i) \/ Install(p, i)
      BY <3>3 DEF InstallFails, Install, NoJob, Job
    <3> QED
      BY <1>2, <3>1, <3>2, <3>3
  <2>6. job' \in [Process -> [Slot -> Job]]
    BY <2>4, <2>5
  <2>7. tmp' \in [Process -> Maybe(Binary)]
    <3>1. CASE InstallNow(p, i)
      BY <1>0, <3>1 DEF InstallNow, SetTmp, LatestStable, CliTypeOK, Binary
    <3>2. CASE Download(p, i)
      <4>1. PICK whole \in BOOLEAN :
              tmp' = IF tmp[p] = None THEN tmp
                     ELSE [tmp EXCEPT ![p] = [version |-> job[p][i].version, whole |-> whole]]
        BY <3>2 DEF Download
      <4>2. job[p][i].version \in Version
        BY <2>2, <3>2 DEF Download, JobAt, Job
      <4> QED
        BY <1>0, <4>1, <4>2 DEF CliTypeOK, Binary
    <3>3. CASE Verify(p, i)
      BY <1>0, <3>3 DEF Verify, CliTypeOK
    <3>4. CASE InstallFails(p, i) \/ Install(p, i)
      BY <1>0, <3>4 DEF InstallFails, Install, SetTmp, CliTypeOK
    <3> QED
      BY <1>2, <3>1, <3>2, <3>3, <3>4
  <2>8. cli' \in Maybe(Binary)
    BY <1>0, <1>2, <2>2 DEF InstallNow, Download, Verify, InstallFails, Install, CliTypeOK
  <2> QED
    BY <1>0, <2>0, <2>1, <2>3, <2>6, <2>7, <2>8 DEF TypeOK, CliTypeOK
<1> QED
  BY <1>1, <1>2 DEF InstallStep

LEMMA OfferTypes == ASSUME LockTypeOK, Offer PROVE wizard' \in [Process -> Wizard]
BY WizardTypes DEF Offer, LockTypeOK

LEMMA AnnounceTypes ==
    ASSUME LockTypeOK, DaemonTypeOK, NEW notice \in Notice, Announce(notice)
    PROVE  wizard' \in [Process -> Wizard] /\ DaemonTypeOK'
<1>1. wizard' \in [Process -> Wizard]
  BY OfferTypes DEF Announce, LockTypeOK
<1>2. daemon' \in Daemon
  BY DEF Announce, DaemonTypeOK, Daemon
<1>3. said' \subseteq Notice
  BY DEF Announce, DaemonTypeOK
<1> QED
  BY <1>1, <1>2, <1>3 DEF DaemonTypeOK

LEMMA DaemonTypes == ASSUME TypeOK, DaemonStep PROVE TypeOK'
<1>0. LockTypeOK /\ WindowTypeOK /\ SetupTypeOK /\ CliTypeOK /\ DaemonTypeOK
      /\ Installed \in Maybe(Version) /\ latest \in Version
  BY InstalledType DEF TypeOK, CliTypeOK
<1>1. UNCHANGED <<lock, port, token, breached, window, setupVars, cliVars>>
  BY DEF DaemonStep, CheckVersion, Decide, FetchFails, lockVars
<1>2. WindowTypeOK' /\ SetupTypeOK' /\ CliTypeOK'
  BY <1>0, <1>1 DEF WindowTypeOK, SetupTypeOK, CliTypeOK, setupVars, cliVars
<1>3. wizard' \in [Process -> Wizard] /\ DaemonTypeOK'
  <2>1. CASE \E notice \in Notice : Announce(notice)
    BY <1>0, <2>1, AnnounceTypes
  <2>2. CASE CheckVersion
    <3>1. CASE Supported(Installed)
      BY <1>0, <2>2, <3>1 DEF CheckVersion, DaemonTypeOK, Daemon, LockTypeOK
    <3>2. CASE ~Supported(Installed)
      <4>1. <<"unsupported", Installed>> \in Notice
        BY <1>0, <2>2 DEF CheckVersion, Notice
      <4> QED
        BY <2>1, <2>2, <3>2, <4>1 DEF CheckVersion
    <3> QED
      BY <3>1, <3>2
  <2>3. CASE Decide
    <3>1. CASE Newer(LatestStable, daemon.seen)
      <4>1. <<"update", LatestStable>> \in Notice
        BY <1>0 DEF LatestStable, Notice
      <4> QED
        BY <2>1, <2>3, <3>1, <4>1 DEF Decide
    <3>2. CASE ~Newer(LatestStable, daemon.seen)
      BY <1>0, <2>3, <3>2 DEF Decide, DaemonTypeOK, Daemon, LockTypeOK
    <3> QED
      BY <3>1, <3>2
  <2>4. CASE FetchFails
    BY <1>0, <2>4 DEF FetchFails, DaemonTypeOK, Daemon, LockTypeOK, lockVars
  <2> QED
    BY <2>2, <2>3, <2>4 DEF DaemonStep
<1> QED
  BY <1>0, <1>1, <1>2, <1>3 DEF TypeOK, LockTypeOK

LEMMA PublishTypes == ASSUME TypeOK, Publish PROVE TypeOK'
<1>1. latest' \in Version
  BY ConstantsAssumption DEF Publish, TypeOK, CliTypeOK, Version
<1> QED
  BY <1>1 DEF Publish, TypeOK, LockTypeOK, WindowTypeOK, SetupTypeOK, CliTypeOK,
     DaemonTypeOK, lockVars, setupVars, daemonVars

LEMMA NextTypes == ASSUME TypeOK, [Next]_vars PROVE TypeOK'
<1>1. CASE UNCHANGED vars
  BY <1>1 DEF vars, lockVars, setupVars, cliVars, daemonVars, TypeOK, LockTypeOK,
     WindowTypeOK, SetupTypeOK, CliTypeOK, DaemonTypeOK
<1> QED
  BY <1>1, LockTypes, SetupTypes, InstallTypes, DaemonTypes, PublishTypes DEF Next, Pages

LEMMA InitTypes == ASSUME Init PROVE TypeOK
<1>1. LockTypeOK
  BY DEF Init, LockTypeOK, Wizard
<1>2. WindowTypeOK
  BY WindowTypes DEF Init, WindowTypeOK, NoWindow, Window, Page
<1>3. SetupTypeOK
  <2>1. NoRequest \in Request /\ Load(config) \in Settings
    BY SettingsTypes DEF NoRequest, Request
  <2>2. config \in Settings \cup {Malformed, Absent}
    BY DEF Init, Settings, Store
  <2>3. keys \subseteq {"gpg", "pass"}
    BY DEF Init
  <2> QED
    BY <2>1, <2>2, <2>3 DEF Init, SetupTypeOK, Store
<1>4. CliTypeOK
  <2>1. latest \in Version /\ shadow \in Maybe(Version)
    BY ConstantsAssumption DEF Init, Version
  <2>2. cli \in Maybe(Binary)
    <3>1. \A v \in Version : [version |-> v, whole |-> TRUE] \in Binary
      BY DEF Binary
    <3>2. cli = None \/ \E v \in Version : cli = [version |-> v, whole |-> TRUE]
      BY DEF Init
    <3> QED
      BY <3>1, <3>2
  <2>3. NoJob \in Job
    BY DEF NoJob, Job
  <2> QED
    BY <2>1, <2>2, <2>3 DEF Init, CliTypeOK
<1>5. DaemonTypeOK
  BY StartedType DEF Init, DaemonTypeOK
<1> QED
  BY <1>1, <1>2, <1>3, <1>4, <1>5 DEF TypeOK

\* Every state is of the types the code has.
THEOREM Types == Spec => []TypeOK
<1>1. TypeOK /\ [Next]_vars => TypeOK'
  BY NextTypes
<1> QED
  BY <1>1, InitTypes, PTL DEF Spec

-----------------------------------------------------------------------------
(***************************************************************************)
(* An orderly life.  As long as no wizard starts while another one starts  *)
(* or ends, only one is beyond its claim of the lock file, and the file holds *)
(* its number until it removes the file itself.                            *)
(***************************************************************************)

\* No wizard starts or ends while another one does, and the files of the
\* runtime directory can be written.
Orderly == Environment \cap {"AtOnce", "Together", "Unwritable"} = {}

Step(p) == wizard[p].step
Active(p) == Step(p) \in Serving \cup Closing

OneActive == \A p, q \in Process : Active(p) /\ Active(q) => p = q
LockHeld == \A p \in Process : Step(p) \in Serving \cup {"closing"} => lock = p
OneMoving ==
    \A p, q \in Process : Step(p) \in Starting /\ Step(q) \in Starting \cup Closing => p = q
ClaimAlone == \A p, q \in Process : At(p, "claiming") => ~Active(q)

LockInv == OneActive /\ LockHeld /\ OneMoving /\ ClaimAlone

\* The port and the token are those of the one that serves.
FilesInv ==
    \A p \in Process :
        /\ Step(p) \in {"signing", "opening", "joining", "open"} => port = p
        /\ Step(p) \in {"opening", "joining", "open"} => token = p
        /\ Step(p) \in {"joining", "open"} => window[p].port = p
        /\ Step(p) = "open" => window[p].token = p

LEMMA Moves ==
    ASSUME LockTypeOK, NEW p \in Process
    PROVE  /\ \A s : GoTo(p, s) =>
                /\ wizard'[p].step = s /\ wizard'[p].mode = wizard[p].mode
                /\ \A q \in Process : q # p => wizard'[q] = wizard[q]
           /\ Exit(p) =>
                /\ wizard'[p].step = "gone"
                /\ \A q \in Process : q # p => wizard'[q] = wizard[q]
           /\ \A mode : Spawn(p, mode) =>
                /\ wizard'[p].step = "checking" /\ wizard'[p].mode = mode
                /\ \A q \in Process : q # p => wizard'[q] = wizard[q]
BY DEF LockTypeOK, Wizard, GoTo, Exit, Spawn

\* A wizard starts only when no other one starts or ends.
LEMMA SpawnLock ==
    ASSUME Orderly, TypeOK, LockInv, FilesInv, NEW p \in Process, NEW mode,
           IsNext(p), MayStart(p), Spawn(p, mode), UNCHANGED <<lock, port, token, window>>
    PROVE  LockInv' /\ FilesInv'
<1>1. /\ wizard'[p].step = "checking" /\ wizard[p].step = "new"
      /\ \A q \in Process : q # p => wizard'[q] = wizard[q]
      /\ \A q \in Process \ {p} : wizard[q].step \notin Starting \cup Closing
  BY Moves DEF TypeOK, IsNext, At, Quiet, MayStart, Orderly
<1> QED
  BY <1>1 DEF LockInv, OneActive, LockHeld, OneMoving, ClaimAlone, Active, Step, At, FilesInv

LEMMA LockNext ==
    ASSUME Orderly, TypeOK, LockInv, FilesInv, NEW p \in Process,
           LockStep(p)
    PROVE  LockInv' /\ FilesInv'
<1> USE Moves DEF Step, At, Active
<1>0. LockTypeOK /\ WindowTypeOK
  BY DEF TypeOK
<1> DEFINE Others == \A q \in Process : q # p => wizard'[q] = wizard[q]
<1>1. CASE Launch(p)
  BY <1>1, SpawnLock DEF Launch
<1>2. CASE CheckLock(p)
  <2>1. Step(p) = "checking" /\ Others /\ UNCHANGED <<lock, port, token, window>>
    BY <1>0, <1>2 DEF CheckLock
  <2>2. CASE wizard'[p].step = "gone"
    BY <2>1, <2>2 DEF LockInv, OneActive, LockHeld, OneMoving, ClaimAlone, FilesInv
  <2>3. CASE wizard'[p].step = "claiming" /\ ~(lock # None /\ Alive(lock))
    <3>1. ASSUME NEW q \in Process, Active(q) PROVE FALSE
      <4>1. Step(q) \notin Closing
        BY <2>1, <3>1 DEF LockInv, OneMoving
      <4>2. lock = q
        BY <3>1, <4>1 DEF LockInv, LockHeld
      <4> QED
        BY <2>3, <3>1, <4>2, ConstantsAssumption DEF Alive
    <3> QED
      BY <2>1, <2>3, <3>1 DEF LockInv, OneActive, LockHeld, OneMoving, ClaimAlone, FilesInv
  <2> QED
    BY <1>0, <1>2, <2>2, <2>3 DEF CheckLock
<1>3. CASE Claim(p)
  <2>1. /\ Step(p) = "claiming" /\ Others /\ wizard'[p].step = "binding" /\ lock' = p
        /\ UNCHANGED <<port, token, window>>
    BY <1>0, <1>3 DEF Claim, Written, Orderly
  <2>2. \A q \in Process : ~Active(q)
    BY <2>1 DEF LockInv, ClaimAlone
  <2>3. \A q \in Process : q # p => Step(q) \notin Starting
    BY <2>1 DEF LockInv, OneMoving
  <2> QED
    BY <2>1, <2>2, <2>3 DEF LockInv, OneActive, LockHeld, OneMoving, ClaimAlone, FilesInv
<1>4. ASSUME Active(p), Active(p)', Step(p) \in Serving, wizard'[p].step \in Serving,
             Others, UNCHANGED lock
      PROVE  LockInv'
  BY <1>4 DEF LockInv, OneActive, LockHeld, OneMoving, ClaimAlone
<1>5. \A q \in Process : q # p /\ Active(p) => ~Active(q)
  BY DEF LockInv, OneActive
<1>6. CASE WritePort(p)
  <2>1. /\ Step(p) = "binding" /\ Others /\ wizard'[p].step = "signing" /\ port' = p
        /\ UNCHANGED <<lock, token, window>>
    BY <1>0, <1>6 DEF WritePort, Written, Orderly
  <2> QED
    BY <1>4, <1>5, <2>1 DEF FilesInv
<1>7. CASE WriteToken(p)
  <2>1. /\ Step(p) = "signing" /\ Others /\ wizard'[p].step = "opening" /\ token' = p
        /\ UNCHANGED <<lock, port, window>>
    BY <1>0, <1>7 DEF WriteToken, Written, Orderly
  <2> QED
    BY <1>4, <1>5, <2>1 DEF FilesInv
<1>8. CASE ReadPort(p)
  <2>1. /\ Step(p) = "opening" /\ Others /\ wizard'[p].step = "joining"
        /\ UNCHANGED <<lock, port, token>>
    BY <1>0, <1>8 DEF ReadPort
  <2>2. window'[p].port = port
    BY <1>0, <1>8 DEF ReadPort, WindowTypeOK, Window
  <2> QED
    BY <1>4, <1>5, <2>1, <2>2 DEF FilesInv
<1>9. CASE ReadToken(p)
  <2>1. /\ Step(p) = "joining" /\ Others /\ wizard'[p].step = "open"
        /\ UNCHANGED <<lock, port, token>>
    BY <1>0, <1>9 DEF ReadToken
  <2>2. window'[p].port = window[p].port /\ window'[p].token = token
    BY <1>0, <1>9 DEF ReadToken, WindowTypeOK, Window
  <2> QED
    BY <1>4, <1>5, <2>1, <2>2 DEF FilesInv
<1>10. CASE Close(p)
  <2>1. /\ Step(p) \in Serving /\ Others /\ wizard'[p].step = "closing"
        /\ UNCHANGED <<lock, port, token, window>>
        /\ \A q \in Process \ {p} : Step(q) \notin Starting \cup Closing
    BY <1>0, <1>10 DEF Close, Quiet, MayEnd, Orderly
  <2> QED
    BY <2>1 DEF LockInv, OneActive, LockHeld, OneMoving, ClaimAlone, FilesInv
<1>11. CASE RemoveLock(p) \/ RemovePort(p)
  <2>1. /\ Step(p) \in {"closing", "unlocked"} /\ Others
        /\ wizard'[p].step \in {"unlocked", "unported"}
        /\ UNCHANGED <<token, window>>
    BY <1>0, <1>11 DEF RemoveLock, RemovePort
  <2> QED
    BY <1>5, <2>1 DEF LockInv, OneActive, LockHeld, OneMoving, ClaimAlone, FilesInv
<1>12. CASE RemoveToken(p)
  <2>1. /\ Step(p) = "unported" /\ Others /\ wizard'[p].step = "gone"
        /\ UNCHANGED <<lock, port>>
    BY <1>0, <1>12 DEF RemoveToken
  <2>2. \A q \in Process : q # p => ~Active(q)
    BY <1>5, <2>1
  <2> QED
    BY <2>1, <2>2 DEF LockInv, OneActive, LockHeld, OneMoving, ClaimAlone, FilesInv
<1>13. CASE Crash(p)
  <2>1. /\ Others /\ wizard'[p].step = "gone"
        /\ UNCHANGED <<lock, port, token>>
        /\ \A q \in Process : q # p => window'[q] = window[q]
    BY <1>0, <1>13 DEF Crash, Ends, WindowTypeOK
  <2> QED
    BY <2>1 DEF LockInv, OneActive, LockHeld, OneMoving, ClaimAlone, FilesInv
<1> QED
  BY <1>1, <1>2, <1>3, <1>6, <1>7, <1>8, <1>9, <1>10, <1>11, <1>12, <1>13 DEF LockStep

\* The pages change nothing of what a window knows of its server.
LEMMA PagesKeepWindow ==
    ASSUME TypeOK, NEW p \in Process, SetupStep(p) \/ InstallStep(p)
    PROVE  /\ UNCHANGED lockVars
           /\ \A q \in Process : /\ window'[q].port = window[q].port
                                 /\ window'[q].token = window[q].token
<1> DEFINE Kept == \A q \in Process : /\ window'[q].port = window[q].port
                                      /\ window'[q].token = window[q].token
<1>0. window \in [Process -> Window]
  BY DEF TypeOK, WindowTypeOK
<1>1. CASE SetupStep(p)
  <2>1. UNCHANGED lockVars
    BY <1>1 DEF SetupStep, GetStarted, SetupPass, SaveStore, SaveDays, Save, SaveFile,
       SaveFails, SessionStatus, Login, Continue, AddFavorite, RestartDaemon, RestartFails,
       Navigate
  <2>2. \/ UNCHANGED window
        \/ \E page : Show(p, page)
        \/ \E store : SignedIn(p, store)
        \/ SaveFile(p)
    BY <1>1 DEF SetupStep, GetStarted, SetupPass, SaveStore, SaveDays, Save,
       SaveFails, SessionStatus, Login, Continue, AddFavorite, RestartDaemon, RestartFails,
       Navigate
  <2>3. ASSUME NEW page, Show(p, page) PROVE Kept
    BY <1>0, <2>3 DEF Show, Window
  <2>4. ASSUME NEW store, SignedIn(p, store) PROVE Kept
    BY <1>0, <2>4 DEF SignedIn, Window
  <2>5. CASE SaveFile(p)
    <3>1. \A q \in Process : q # p => window'[q] = window[q]
      BY <1>0, <2>5 DEF SaveFile
    <3>2. window'[p].port = window[p].port /\ window'[p].token = window[p].token
      BY <1>0, <2>5 DEF SaveFile, Window
    <3> QED
      BY <2>1, <3>1, <3>2
  <2> QED
    BY <2>1, <2>2, <2>3, <2>4, <2>5
<1>2. CASE InstallStep(p)
  <2>1. UNCHANGED lockVars
    BY <1>2 DEF InstallStep, InstallNow, Download, Verify, InstallFails, Install,
       InstallNext, NoOtherVars
  <2>2. UNCHANGED window \/ \E page : Show(p, page)
    BY <1>2 DEF InstallStep, InstallNow, Download, Verify, InstallFails, Install, InstallNext
  <2>3. ASSUME NEW page, Show(p, page) PROVE Kept
    BY <1>0, <2>3 DEF Show, Window
  <2> QED
    BY <2>1, <2>2, <2>3
<1> QED
  BY <1>1, <1>2

LEMMA AloneNext ==
    ASSUME Orderly, TypeOK, LockInv, FilesInv, [Next]_vars
    PROVE  LockInv' /\ FilesInv'
<1>1. ASSUME UNCHANGED lockVars,
             \A q \in Process : /\ window'[q].port = window[q].port
                                /\ window'[q].token = window[q].token
      PROVE  LockInv' /\ FilesInv'
  BY <1>1 DEF lockVars, LockInv, OneActive, LockHeld, OneMoving, ClaimAlone, FilesInv,
     Active, Step, At
<1>2. ASSUME NEW p \in Process, SetupStep(p) \/ InstallStep(p)
      PROVE  LockInv' /\ FilesInv'
  BY <1>1, <1>2, PagesKeepWindow
<1>3. CASE DaemonStep
  <2>1. UNCHANGED <<lock, port, token, breached, window>> /\ (wizard' = wizard \/ Offer)
    BY <1>3 DEF DaemonStep, CheckVersion, Decide, FetchFails, Announce, lockVars
  <2>2. CASE wizard' = wizard
    BY <1>1, <2>1, <2>2 DEF lockVars
  <2>3. CASE Offer
    BY <2>1, <2>2, <2>3, SpawnLock DEF Offer
  <2> QED
    BY <2>1, <2>2, <2>3
<1>4. CASE Publish \/ UNCHANGED vars
  BY <1>1, <1>4 DEF Publish, vars, lockVars
<1> QED
  BY <1>2, <1>3, <1>4, LockNext DEF Next, Pages

AloneInv == TypeOK /\ LockInv /\ FilesInv

LEMMA AloneInit == Init => AloneInv
<1> SUFFICES ASSUME Init PROVE LockInv /\ FilesInv
  BY InitTypes DEF AloneInv
<1>1. \A p \in Process : Step(p) = "new"
  BY DEF Init, Step
<1> QED
  BY <1>1 DEF LockInv, OneActive, LockHeld, OneMoving, ClaimAlone, FilesInv, Active, Step, At

LEMMA AloneStep ==
    ASSUME Orderly, AloneInv, [Next]_vars
    PROVE  AloneInv'
BY AloneNext, NextTypes DEF AloneInv

\* In an orderly life a window reaches its own server, whatever others have
\* left behind.
THEOREM WindowHasItsServer ==
    ASSUME Orderly
    PROVE  Spec => []WindowReachesItsServer
<1>1. AloneInv => WindowReachesItsServer
  BY DEF AloneInv, FilesInv, WindowReachesItsServer, Reaches, Hears, Trusts, Step, At
<1>2. AloneInv /\ [Next]_vars => AloneInv'
  BY AloneStep
<1> QED
  BY <1>1, <1>2, AloneInit, PTL DEF Spec

-----------------------------------------------------------------------------
(***************************************************************************)
(* The lock, whatever the wizards do: until it is breached, the wizard     *)
(* between its claim and the removal of the lock file is the only one      *)
(* there, the file names it, and no other one is past its look.            *)
(***************************************************************************)

Holds(p) == Step(p) \in Serving \cup {"closing"}

HolderAlone ==
    /\ \A p, q \in Process : Holds(p) /\ Holds(q) => p = q
    /\ \A p \in Process : Holds(p) => lock = p
    /\ \A p, q \in Process : At(p, "claiming") => ~Holds(q)

HolderInv == TypeOK /\ (breached = FALSE => HolderAlone)

\* A wizard that takes any step but the claim, and does not come to hold the
\* lock or to be about to claim it, changes nothing of that.
LEMMA HolderKept ==
    ASSUME HolderAlone, NEW p \in Process,
           \A q \in Process : q # p => wizard'[q] = wizard[q],
           wizard'[p].step \in Serving \cup {"closing"} => Holds(p),
           wizard'[p].step # "claiming",
           UNCHANGED lock \/ (Holds(p) /\ wizard'[p].step \notin Serving \cup {"closing"})
    PROVE  HolderAlone'
BY DEF HolderAlone, Holds, Step, At

LEMMA HolderLock ==
    ASSUME TypeOK, HolderAlone, breached = FALSE, NEW p \in Process, LockStep(p)
    PROVE  breached' = FALSE => HolderAlone'
<1>0. LockTypeOK
  BY DEF TypeOK
<1>1. CASE CheckLock(p)
  <2>1. Step(p) = "checking" /\ UNCHANGED <<lock, breached>>
    BY <1>1 DEF CheckLock, At, Step
  <2>2. \A q \in Process : q # p => wizard'[q] = wizard[q]
    BY <1>0, <1>1, Moves DEF CheckLock
  <2>3. CASE lock # None /\ Alive(lock)
    <3>1. wizard'[p].step = "gone"
      BY <1>0, <1>1, <2>3, Moves DEF CheckLock
    <3> QED
      BY <2>1, <2>2, <3>1, HolderKept DEF Serving
  <2>4. CASE ~(lock # None /\ Alive(lock))
    <3>1. wizard'[p].step = "claiming"
      BY <1>0, <1>1, <2>4, Moves DEF CheckLock
    <3>2. \A q \in Process : ~Holds(q)
      BY <2>4, ConstantsAssumption DEF HolderAlone, Holds, Alive, Step, Serving
    <3> QED
      BY <2>1, <2>2, <3>1, <3>2 DEF HolderAlone, Holds, Step, At, Serving
  <2> QED
    BY <2>3, <2>4
<1>2. CASE Claim(p)
  <2>1. At(p, "claiming") /\ wizard'[p].step = "binding"
        /\ \A q \in Process : q # p => wizard'[q] = wizard[q]
    BY <1>0, <1>2, Moves DEF Claim
  <2>2. SUFFICES ASSUME breached' = FALSE PROVE HolderAlone'
    OBVIOUS
  <2>3. lock' = p /\ \A q \in Process : q # p => ~At(q, "claiming")
    BY <1>2, <2>2 DEF Claim
  <2>4. \A q \in Process : ~Holds(q)
    BY <2>1 DEF HolderAlone
  <2> QED
    BY <2>1, <2>3, <2>4 DEF HolderAlone, Holds, Step, At, Serving
<1>3. CASE Launch(p)
  <2>1. wizard'[p].step = "checking" /\ UNCHANGED lock
        /\ \A q \in Process : q # p => wizard'[q] = wizard[q]
    BY <1>0, <1>3, Moves DEF Launch
  <2> QED
    BY <2>1, HolderKept DEF Serving
<1>4. CASE WritePort(p) \/ WriteToken(p) \/ ReadPort(p) \/ ReadToken(p) \/ Close(p)
  <2>1. Step(p) \in Serving /\ UNCHANGED lock
    BY <1>4 DEF WritePort, WriteToken, ReadPort, ReadToken, Close, At, Step, Serving
  <2>2. /\ wizard'[p].step \in Serving \cup {"closing"}
        /\ \A q \in Process : q # p => wizard'[q] = wizard[q]
    BY <1>0, <1>4, Moves DEF WritePort, WriteToken, ReadPort, ReadToken, Close, Serving
  <2> QED
    BY <2>1, <2>2, HolderKept DEF Holds, Serving
<1>5. CASE RemoveLock(p) \/ RemovePort(p) \/ RemoveToken(p) \/ Crash(p)
  <2>1. /\ wizard'[p].step \in {"unlocked", "unported", "gone"}
        /\ \A q \in Process : q # p => wizard'[q] = wizard[q]
    BY <1>0, <1>5, Moves DEF RemoveLock, RemovePort, RemoveToken, Crash
  <2>2. UNCHANGED lock \/ Step(p) = "closing"
    BY <1>5 DEF RemoveLock, RemovePort, RemoveToken, Crash, At, Step
  <2> QED
    BY <2>1, <2>2, HolderKept DEF Holds, Serving
<1> QED
  BY <1>1, <1>2, <1>3, <1>4, <1>5 DEF LockStep

LEMMA HolderNext == HolderInv /\ [Next]_vars => HolderInv'
<1> SUFFICES ASSUME HolderInv, [Next]_vars PROVE HolderInv'
  OBVIOUS
<1>0. TypeOK /\ TypeOK' /\ (breached = FALSE => HolderAlone)
  BY NextTypes DEF HolderInv
<1>1. ASSUME UNCHANGED lockVars PROVE HolderInv'
  BY <1>0, <1>1 DEF HolderInv, lockVars, HolderAlone, Holds, Step, At
<1>2. ASSUME NEW p \in Process, LockStep(p) PROVE HolderInv'
  <2>1. breached' = FALSE => breached = FALSE
    BY <1>0, <1>2 DEF LockStep, Launch, CheckLock, Claim, WritePort, WriteToken, ReadPort,
       ReadToken, Close, RemoveLock, RemovePort, RemoveToken, Crash, TypeOK, LockTypeOK
  <2> QED
    BY <1>0, <1>2, <2>1, HolderLock DEF HolderInv
<1>3. ASSUME NEW p \in Process, Pages(p) PROVE HolderInv'
  BY <1>0, <1>1, <1>3, PagesKeepWindow DEF Pages
<1>4. CASE DaemonStep
  <2>1. UNCHANGED <<lock, port, token, breached>> /\ (wizard' = wizard \/ Offer)
    BY <1>4 DEF DaemonStep, CheckVersion, Decide, FetchFails, Announce, lockVars
  <2>2. CASE wizard' = wizard
    BY <1>1, <2>1, <2>2 DEF lockVars
  <2>3. CASE Offer
    <3>1. wizard' = wizard \/ \E p \in Process : Spawn(p, "update-cli")
      BY <2>3 DEF Offer
    <3>2. ASSUME NEW p \in Process, Spawn(p, "update-cli") PROVE HolderInv'
      <4>1. /\ wizard'[p].step = "checking"
            /\ \A q \in Process : q # p => wizard'[q] = wizard[q]
        BY <1>0, <3>2, Moves DEF TypeOK
      <4> QED
        BY <1>0, <2>1, <4>1, HolderKept DEF HolderInv, Serving
    <3> QED
      BY <2>2, <3>1, <3>2
  <2> QED
    BY <2>1, <2>2, <2>3
<1>5. CASE Publish \/ UNCHANGED vars
  BY <1>1, <1>5 DEF Publish, vars
<1> QED
  BY <1>2, <1>3, <1>4, <1>5 DEF Next

\* However many wizards start, end and are killed, and however they overlap,
\* no two have a window before two of them cross between the look at the lock
\* and the claim, or the lock file cannot be written.
THEOREM OneWindowOpen == Spec => []OneWindow
<1>1. Init => HolderInv
  <2> SUFFICES ASSUME Init PROVE HolderAlone
    BY InitTypes DEF HolderInv
  <2>1. \A p \in Process : Step(p) = "new"
    BY DEF Init, Step
  <2> QED
    BY <2>1 DEF HolderAlone, Holds, Serving, Step, At
<1>2. HolderInv => OneWindow
  BY DEF HolderInv, HolderAlone, OneWindow, Holds, Serving, Step, At, TypeOK, LockTypeOK
<1> QED
  BY <1>1, <1>2, HolderNext, PTL DEF Spec

-----------------------------------------------------------------------------
(***************************************************************************)
(* Only a wizard that is open, or was when it began to close, has a page,  *)
(* a save or an installation under way.                                    *)
(***************************************************************************)

Late == {"open"} \cup Closing
Busy(p) == \/ request[p].field # "none" \/ window[p].page # "none"
           \/ \E i \in Slot : job[p][i].step # "none"
BusyInv == \A p \in Process : Busy(p) => Step(p) \in Late

LEMMA ActsLate ==
    ASSUME BusyInv, NEW p \in Process, SetupStep(p) \/ InstallStep(p)
    PROVE  Step(p) \in Late
<1>1. CASE SetupStep(p)
  BY <1>1 DEF SetupStep, GetStarted, SetupPass, SaveStore, SaveDays, SaveFile, SaveFails,
     SessionStatus, Login, Continue, AddFavorite, RestartDaemon, RestartFails, Navigate,
     Shows, At, BusyInv, Busy, Late, Step
<1>2. CASE InstallStep(p)
  BY <1>2 DEF InstallStep, InstallNow, Download, Verify, InstallFails, Install, InstallNext,
     Shows, At, JobAt, BusyInv, Busy, Late, Step
<1> QED
  BY <1>1, <1>2

\* A wizard's pages leave the other wizards alone.
LEMMA ActsAlone ==
    ASSUME TypeOK, NEW p \in Process, SetupStep(p) \/ InstallStep(p), NEW q \in Process, q # p
    PROVE  /\ window'[q] = window[q] /\ request'[q] = request[q] /\ env'[q] = env[q]
           /\ job'[q] = job[q] /\ tmp'[q] = tmp[q]
<1>0. /\ window \in [Process -> Window] /\ request \in [Process -> Request]
      /\ env \in [Process -> Store] /\ job \in [Process -> [Slot -> Job]]
      /\ tmp \in [Process -> Maybe(Binary)]
  BY DEF TypeOK, WindowTypeOK, SetupTypeOK, CliTypeOK
<1>1. CASE SetupStep(p)
  <2>1. UNCHANGED cliVars
    BY <1>1 DEF SetupStep, GetStarted, SetupPass, SaveStore, SaveDays, Save, SaveFile,
       SaveFails, SessionStatus, Login, Continue, AddFavorite, RestartDaemon, RestartFails,
       Navigate
  <2>2. window'[q] = window[q]
    BY <1>0, <1>1 DEF SetupStep, GetStarted, SetupPass, SaveStore, SaveDays, Save, SaveFile,
       SaveFails, SessionStatus, Login, Continue, AddFavorite, RestartDaemon, RestartFails,
       Navigate, Show, SignedIn
  <2>3. request'[q] = request[q] /\ env'[q] = env[q]
    BY <1>0, <1>1 DEF SetupStep, GetStarted, SetupPass, SaveStore, SaveDays, Save, SaveFile,
       SaveFails, SessionStatus, Login, Continue, AddFavorite, RestartDaemon, RestartFails,
       Navigate, setupVars
  <2> QED
    BY <2>1, <2>2, <2>3 DEF cliVars
<1>2. CASE InstallStep(p)
  <2>1. UNCHANGED setupVars
    BY <1>2 DEF InstallStep, InstallNow, Download, Verify, InstallFails, Install,
       InstallNext, NoOtherVars
  <2>2. window'[q] = window[q]
    BY <1>0, <1>2 DEF InstallStep, InstallNow, Download, Verify, InstallFails, Install,
       InstallNext, Show
  <2>3. job'[q] = job[q]
    BY <1>0, <1>2 DEF InstallStep, InstallNow, Download, Verify, InstallFails, Install,
       InstallNext, SetJob, cliVars
  <2>4. tmp'[q] = tmp[q]
    BY <1>0, <1>2 DEF InstallStep, InstallNow, Download, Verify, InstallFails, Install,
       InstallNext, SetTmp, cliVars
  <2> QED
    BY <2>1, <2>2, <2>3, <2>4 DEF setupVars
<1> QED
  BY <1>1, <1>2

\* What a step of p's life leaves of what q's pages have.
RequestsKept(p, q) ==
    \/ request'[q] = request[q] /\ env'[q] = env[q] /\ job'[q] = job[q]
    \/ q = p /\ request'[q] = NoRequest /\ job'[q] = [i \in Slot |-> NoJob]
         /\ wizard'[q].step = "gone"

PageKept(p, q) ==
    \/ window'[q].page = window[q].page /\ window'[q].auth = window[q].auth
    \/ q = p /\ window'[q] = NoWindow /\ wizard'[q].step = "gone"
    \/ /\ q = p /\ wizard[q].step = "joining" /\ wizard'[q].step = "open"
       /\ window'[q].page = IF wizard[q].mode = "setup" THEN "welcome" ELSE "update"
       /\ window'[q].auth = window[q].auth /\ wizard'[q].mode = wizard[q].mode

LEMMA LifeKeeps ==
    ASSUME TypeOK, NEW p \in Process, LockStep(p), NEW q \in Process
    PROVE  /\ UNCHANGED <<config, script, sessions, keys, favorite, kept, cli, latest, shadow,
                          daemonVars>>
           /\ RequestsKept(p, q) /\ PageKept(p, q)
           /\ tmp'[q] = tmp[q] \/ tmp'[q] = None
<1>0. /\ window \in [Process -> Window] /\ request \in [Process -> Request]
      /\ env \in [Process -> Store] /\ job \in [Process -> [Slot -> Job]]
      /\ tmp \in [Process -> Maybe(Binary)] /\ LockTypeOK
  BY DEF TypeOK, WindowTypeOK, SetupTypeOK, CliTypeOK
<1>1. CASE Launch(p) \/ CheckLock(p) \/ Claim(p) \/ WritePort(p) \/ WriteToken(p) \/ Close(p)
             \/ RemoveLock(p) \/ RemovePort(p)
  BY <1>1 DEF Launch, CheckLock, Claim, WritePort, WriteToken, Close, RemoveLock, RemovePort,
     setupVars, cliVars, daemonVars, RequestsKept, PageKept
<1>2. CASE ReadPort(p)
  BY <1>0, <1>2 DEF ReadPort, Window, setupVars, cliVars, daemonVars, RequestsKept, PageKept
<1>3. CASE ReadToken(p)
  <2>1. wizard[p].step = "joining" /\ wizard'[p].step = "open" /\ wizard'[p].mode = wizard[p].mode
    BY <1>0, <1>3, Moves DEF ReadToken, At
  <2>2. /\ window'[p].page = IF wizard[p].mode = "setup" THEN "welcome" ELSE "update"
        /\ window'[p].auth = window[p].auth
    BY <1>0, <1>3 DEF ReadToken, Window
  <2>3. q # p => window'[q] = window[q]
    BY <1>0, <1>3 DEF ReadToken
  <2>4. UNCHANGED <<setupVars, cliVars, daemonVars>>
    BY <1>3 DEF ReadToken
  <2>5. UNCHANGED <<config, script, sessions, keys, favorite, kept, cli, latest, shadow,
                    daemonVars, env, request, job, tmp>>
    BY <2>4 DEF setupVars, cliVars
  <2>6. PageKept(p, q)
    BY <2>1, <2>2, <2>3 DEF PageKept
  <2> QED
    BY <2>5, <2>6 DEF RequestsKept
<1>4. CASE RemoveToken(p) \/ Crash(p)
  <2>1. wizard'[p].step = "gone" /\ Ends(p)
    BY <1>0, <1>4, Moves DEF RemoveToken, Crash
  <2> QED
    BY <1>0, <2>1 DEF Ends, daemonVars, RequestsKept, PageKept
<1> QED
  BY <1>1, <1>2, <1>3, <1>4 DEF LockStep

LEMMA LockOthers ==
    ASSUME LockTypeOK, NEW p \in Process, LockStep(p), NEW q \in Process, q # p
    PROVE  wizard'[q] = wizard[q]
BY Moves DEF LockStep, Launch, CheckLock, Claim, WritePort, WriteToken, ReadPort, ReadToken,
   Close, RemoveLock, RemovePort, RemoveToken, Crash

LEMMA BusyNext == ASSUME TypeOK, BusyInv, [Next]_vars PROVE BusyInv'
<1> SUFFICES ASSUME NEW q \in Process, Busy(q)' PROVE Step(q)' \in Late
  BY DEF BusyInv
<1>0. LockTypeOK /\ (Busy(q) => Step(q) \in Late)
  BY DEF TypeOK, BusyInv
<1>1. ASSUME UNCHANGED <<wizard, window, request, job>>
      PROVE  Step(q)' \in Late
  BY <1>0, <1>1 DEF Busy, Step
<1>2. ASSUME NEW p \in Process, SetupStep(p) \/ InstallStep(p)
      PROVE  Step(q)' \in Late
  <2>1. wizard' = wizard
    BY <1>2, PagesKeepWindow DEF lockVars
  <2>2. CASE q = p
    BY <1>2, <2>1, <2>2, ActsLate DEF Step
  <2>3. CASE q # p
    BY <1>0, <1>2, <2>1, <2>3, ActsAlone DEF Busy, Step
  <2> QED
    BY <2>2, <2>3
<1>3. ASSUME NEW p \in Process, LockStep(p)
      PROVE  Step(q)' \in Late
  <2>1. CASE q # p
    <3>1. wizard'[q] = wizard[q]
      BY <1>0, <1>3, <2>1, LockOthers
    <3>2. request'[q] = request[q] /\ job'[q] = job[q] /\ window'[q].page = window[q].page
      BY <1>3, <2>1, LifeKeeps DEF RequestsKept, PageKept
    <3>3. Busy(q)
      BY <3>2 DEF Busy
    <3> QED
      BY <1>0, <3>1, <3>3 DEF Step
  <2>2. CASE q = p /\ (RemoveToken(p) \/ Crash(p))
    <3>1. request'[p] = NoRequest /\ job'[p] = [i \in Slot |-> NoJob] /\ window'[p] = NoWindow
      BY <2>2 DEF RemoveToken, Crash, Ends, TypeOK, WindowTypeOK, SetupTypeOK, CliTypeOK
    <3> QED
      BY <2>2, <3>1 DEF Busy, NoRequest, NoJob, NoWindow
  <2>3. CASE q = p /\ ReadToken(p)
    BY <1>0, <2>3, Moves DEF ReadToken, Late, Step
  <2>4. CASE q = p /\ (Launch(p) \/ CheckLock(p) \/ Claim(p) \/ WritePort(p) \/ WriteToken(p)
                         \/ ReadPort(p))
    <3>1. request'[p] = request[p] /\ job'[p] = job[p] /\ window'[p].page = window[p].page
      BY <2>4 DEF Launch, CheckLock, Claim, WritePort, WriteToken, ReadPort, setupVars, cliVars,
         TypeOK, WindowTypeOK, Window
    <3>2. Step(p) \notin Late
      BY <2>4 DEF Launch, IsNext, CheckLock, Claim, WritePort, WriteToken, ReadPort, At, Step,
         Late
    <3> QED
      BY <1>0, <2>4, <3>1, <3>2 DEF Busy
  <2>5. CASE q = p /\ (Close(p) \/ RemoveLock(p) \/ RemovePort(p))
    BY <1>0, <2>5, Moves DEF Close, RemoveLock, RemovePort, Late, Step
  <2> QED
    BY <1>3, <2>1, <2>2, <2>3, <2>4, <2>5 DEF LockStep
<1>4. CASE DaemonStep
  <2>1. UNCHANGED <<window, request, job>> /\ (wizard' = wizard \/ Offer)
    BY <1>4 DEF DaemonStep, CheckVersion, Decide, FetchFails, Announce, lockVars, setupVars,
       cliVars
  <2>2. Step(q) \in Late
    BY <1>0, <2>1 DEF Busy
  <2>3. wizard' = wizard \/ wizard'[q] = wizard[q]
    BY <1>0, <2>1, <2>2, Moves DEF Offer, IsNext, At, Step, Late
  <2> QED
    BY <2>2, <2>3 DEF Step
<1>5. CASE Publish \/ UNCHANGED vars
  BY <1>1, <1>5 DEF Publish, vars, lockVars, setupVars, cliVars
<1> QED
  BY <1>2, <1>3, <1>4, <1>5 DEF Next, Pages

LEMMA BusyInit == Init => BusyInv
BY DEF Init, BusyInv, Busy, NoWindow, NoRequest, NoJob

\* When a wizard acts the others do nothing and have nothing under way.
LEMMA OthersIdle ==
    ASSUME AloneInv, BusyInv, NEW p \in Process, SetupStep(p) \/ InstallStep(p),
           NEW q \in Process, q # p
    PROVE  ~Busy(q)
BY ActsLate DEF AloneInv, LockInv, OneActive, Active, BusyInv, Late

-----------------------------------------------------------------------------
(***************************************************************************)
(* Saves.  The settings a save holds are those of the file but for the     *)
(* one it was made for, and its wizard already works with its store.       *)
(***************************************************************************)

SaveInv(p) ==
    LET hand == request[p].hand IN
    /\ request[p].field = "store" => /\ hand.days = Load(config).days
                                     /\ window[p].page = "credentials"
    /\ request[p].field = "days" => /\ hand.store = Load(config).store
                                    /\ window[p].page = "retention"
    /\ request[p].field # "none" => env[p] = Resolved(hand.store)

SavesInv ==
    /\ AloneInv /\ BusyInv
    /\ KeepsChoices
    /\ \A p \in Process : SaveInv(p)

LEMMA SavesInit == Init => SavesInv
BY AloneInit, BusyInit DEF Init, SavesInv, KeepsChoices, SaveInv, NoRequest

LEMMA LoadSettings == \A c \in Settings : Load(c) = c
BY DEF Load

\* A step of p's pages: the file and p's save.
LEMMA SavesStep ==
    ASSUME "Torn" \notin Environment, SavesInv, NEW p \in Process, SetupStep(p)
    PROVE  KeepsChoices' /\ SaveInv(p)'
<1>0. /\ TypeOK /\ Load(config) = kept /\ SaveInv(p) /\ kept \in Settings
      /\ request \in [Process -> Request] /\ window \in [Process -> Window]
      /\ env \in [Process -> Store]
  BY DEF SavesInv, AloneInv, KeepsChoices, TypeOK, SetupTypeOK, WindowTypeOK
<1>1. CASE SaveFile(p)
  <2> DEFINE hand == request[p].hand
  <2>1. hand \in Settings
    BY <1>0 DEF Request
  <2>2. config' = hand /\ Load(hand) = hand /\ request'[p].field = "none"
    BY <1>0, <1>1, <2>1, LoadSettings DEF SaveFile, NoRequest
  <2>3. kept' = hand
    <3>1. CASE request[p].field = "store"
      <4>1. kept' = [kept EXCEPT !.store = hand.store] /\ hand.days = kept.days
        BY <1>0, <1>1, <3>1 DEF SaveFile, SaveInv
      <4> QED
        BY <1>0, <2>1, <4>1 DEF Settings
    <3>2. CASE request[p].field = "days"
      <4>1. kept' = [kept EXCEPT !.days = hand.days] /\ hand.store = kept.store
        BY <1>0, <1>1, <3>2 DEF SaveFile, SaveInv
      <4> QED
        BY <1>0, <2>1, <4>1 DEF Settings
    <3> QED
      BY <1>0, <1>1, <3>1, <3>2 DEF SaveFile, Request
  <2> QED
    BY <2>2, <2>3 DEF KeepsChoices, SaveInv
<1>2. CASE SaveFails(p)
  <2>1. UNCHANGED <<config, kept>> /\ request'[p].field = "none"
    BY <1>0, <1>2 DEF SaveFails, NoRequest
  <2> QED
    BY <1>0, <2>1 DEF KeepsChoices, SaveInv
<1>3. ASSUME NEW field \in {"store", "days"}, NEW hand \in Settings, Save(p, field, hand),
             field = "store" => /\ hand.days = Load(config).days
                                /\ window[p].page = "credentials",
             field = "days" => /\ hand.store = Load(config).store
                               /\ window[p].page = "retention"
      PROVE  KeepsChoices' /\ SaveInv(p)'
  <2>1. /\ request'[p].field = field /\ request'[p].hand = hand
        /\ env'[p] = Resolved(hand.store) /\ UNCHANGED <<config, kept, window>>
    BY <1>0, <1>3 DEF Save
  <2> QED
    BY <1>0, <1>3, <2>1 DEF KeepsChoices, SaveInv
<1>4. ASSUME NEW store \in {None, "pass"}, SaveStore(p, store)
      PROVE  KeepsChoices' /\ SaveInv(p)'
  <2> DEFINE hand == [Load(config) EXCEPT !.store = store]
  <2>1. hand \in Settings /\ hand.days = Load(config).days /\ window[p].page = "credentials"
    BY <1>4, SettingsTypes DEF SaveStore, Shows, Settings, Store
  <2> QED
    BY <1>3, <1>4, <2>1 DEF SaveStore
<1>5. ASSUME NEW d \in Days, SaveDays(p, d)
      PROVE  KeepsChoices' /\ SaveInv(p)'
  <2> DEFINE hand == [Load(config) EXCEPT !.days = d]
  <2>1. hand \in Settings /\ hand.store = Load(config).store /\ window[p].page = "retention"
    BY <1>5, SettingsTypes DEF SaveDays, Shows, Settings
  <2> QED
    BY <1>3, <1>5, <2>1 DEF SaveDays
<1>6. ASSUME request[p].field = "none", UNCHANGED <<config, kept, request>>
      PROVE  KeepsChoices' /\ SaveInv(p)'
  BY <1>0, <1>6 DEF KeepsChoices, SaveInv
<1> QED
  BY <1>1, <1>2, <1>4, <1>5, <1>6 DEF SetupStep, GetStarted, SetupPass, SessionStatus, Login,
     Continue, AddFavorite, RestartDaemon, RestartFails, Navigate, Shows, setupVars

LEMMA SavesNext ==
    ASSUME Orderly, "Torn" \notin Environment, SavesInv, [Next]_vars
    PROVE  SavesInv'
<1>0. TypeOK /\ AloneInv /\ BusyInv /\ AloneInv' /\ BusyInv' /\ KeepsChoices
  BY AloneStep, BusyNext DEF SavesInv, AloneInv
<1> SUFFICES KeepsChoices' /\ \A q \in Process : SaveInv(q)'
  BY <1>0 DEF SavesInv
<1>1. ASSUME NEW p \in Process, SetupStep(p)
      PROVE  KeepsChoices' /\ \A q \in Process : SaveInv(q)'
  <2>1. KeepsChoices' /\ SaveInv(p)'
    BY <1>1, SavesStep
  <2>2. ASSUME NEW q \in Process, q # p PROVE SaveInv(q)'
    <3>1. request'[q].field = "none"
      BY <1>0, <1>1, <2>2, ActsAlone, OthersIdle DEF Busy
    <3> QED
      BY <3>1 DEF SaveInv
  <2> QED
    BY <2>1, <2>2
<1>2. ASSUME NEW p \in Process, InstallStep(p)
      PROVE  KeepsChoices' /\ \A q \in Process : SaveInv(q)'
  <2>1. UNCHANGED setupVars
    BY <1>2 DEF InstallStep, InstallNow, Download, Verify, InstallFails, Install,
       InstallNext, NoOtherVars
  <2>2. ASSUME NEW q \in Process PROVE SaveInv(q)'
    <3>1. SaveInv(q)
      BY DEF SavesInv
    <3>2. request[q].field # "none" => window'[q] = window[q]
      <4>1. CASE q # p
        BY <1>0, <1>2, <4>1, ActsAlone
      <4>2. CASE q = p /\ request[q].field # "none"
        <5>1. window[p].page \in {"credentials", "retention"}
          BY <1>0, <3>1, <4>2 DEF SaveInv, TypeOK, SetupTypeOK, Request
        <5> QED
          BY <1>2, <4>2, <5>1 DEF InstallStep, InstallNow, Download, Verify, InstallFails,
             Install, InstallNext, Shows
      <4> QED
        BY <4>1, <4>2
    <3> QED
      BY <2>1, <3>1, <3>2 DEF SaveInv, setupVars
  <2> QED
    BY <1>0, <2>1, <2>2 DEF KeepsChoices, setupVars
<1>3. ASSUME NEW p \in Process, LockStep(p)
      PROVE  KeepsChoices' /\ \A q \in Process : SaveInv(q)'
  <2>1. KeepsChoices'
    BY <1>0, <1>3, LifeKeeps DEF KeepsChoices
  <2>2. ASSUME NEW q \in Process PROVE SaveInv(q)'
    <3>1. SaveInv(q) /\ config' = config
      BY <1>0, <1>3, LifeKeeps DEF SavesInv
    <3>2. CASE request'[q].field = "none"
      BY <3>2 DEF SaveInv
    <3>3. CASE request'[q].field # "none"
      <4>1. request'[q] = request[q] /\ env'[q] = env[q]
        BY <1>0, <1>3, <3>3, LifeKeeps DEF RequestsKept, NoRequest
      <4>2. Busy(q)' /\ Busy(q)
        BY <3>3, <4>1 DEF Busy
      <4>3. wizard'[q].step # "gone" /\ wizard[q].step # "joining"
        BY <1>0, <4>2 DEF BusyInv, Late, Step
      <4>4. window'[q].page = window[q].page
        BY <1>0, <1>3, <4>3, LifeKeeps DEF PageKept
      <4> QED
        BY <3>1, <4>1, <4>4 DEF SaveInv
    <3> QED
      BY <3>2, <3>3
  <2> QED
    BY <2>1, <2>2
<1>4. ASSUME UNCHANGED <<window, setupVars>>
      PROVE  KeepsChoices' /\ \A q \in Process : SaveInv(q)'
  BY <1>4 DEF SavesInv, KeepsChoices, SaveInv, setupVars
<1>5. CASE DaemonStep \/ Publish \/ UNCHANGED vars
  BY <1>4, <1>5 DEF DaemonStep, CheckVersion, Decide, FetchFails, Publish, vars
<1> QED
  BY <1>1, <1>2, <1>3, <1>5 DEF Next, Pages

\* Every setting is the one saved last, as long as no save of the file stops
\* half-way and no wizard starts while another one starts or ends.
THEOREM ChoicesKept ==
    ASSUME Orderly, "Torn" \notin Environment
    PROVE  Spec => []KeepsChoices
<1>1. SavesInv => KeepsChoices
  BY DEF SavesInv
<1>2. SavesInv /\ [Next]_vars => SavesInv'
  BY SavesNext
<1> QED
  BY <1>1, <1>2, SavesInit, PTL DEF Spec

-----------------------------------------------------------------------------
(***************************************************************************)
(* The installation.  With one installation in a wizard its temporary file *)
(* is the release that was verified until it is renamed.                   *)
(***************************************************************************)

JobInv ==
    \A p \in Process :
        /\ job[p][1].step # "none" => job[p][1].version <= latest
        /\ job[p][1].step = "rename" =>
                tmp[p] = [version |-> job[p][1].version, whole |-> TRUE]

WholeInv == TypeOK /\ OnlyWholeReleases /\ JobInv

LEMMA InstallWhole ==
    ASSUME "Twice" \notin Environment, WholeInv, NEW p \in Process, InstallStep(p)
    PROVE  OnlyWholeReleases' /\ JobInv'
<1>0. /\ Slot = {1} /\ latest \in Nat /\ JobInv /\ TypeOK /\ OnlyWholeReleases
      /\ job \in [Process -> [Slot -> Job]] /\ tmp \in [Process -> Maybe(Binary)]
  BY DEF Slot, WholeInv, TypeOK, CliTypeOK, Version
<1>1. ASSUME cli' = cli, latest' = latest,
             job'[p][1].step # "none" => job'[p][1].version <= latest,
             job'[p][1].step = "rename" =>
                tmp'[p] = [version |-> job'[p][1].version, whole |-> TRUE]
      PROVE  OnlyWholeReleases' /\ JobInv'
  <2>1. \A q \in Process : q # p => job'[q] = job[q] /\ tmp'[q] = tmp[q]
    BY <1>0, ActsAlone
  <2> QED
    BY <1>0, <1>1, <2>1 DEF OnlyWholeReleases, JobInv
<1>2. ASSUME NEW j, SetJob(p, 1, j) PROVE job'[p][1] = j
  BY <1>0, <1>2 DEF SetJob
<1>3. CASE InstallNow(p, 1)
  <2>1. job'[p][1] = [step |-> "download", version |-> latest]
    BY <1>2, <1>3 DEF InstallNow, LatestStable
  <2> QED
    BY <1>0, <1>1, <1>3, <2>1 DEF InstallNow, NoOtherVars
<1>4. CASE Download(p, 1)
  <2>1. job'[p][1] = [job[p][1] EXCEPT !.step = "verify"] /\ job[p][1] \in Job
        /\ job[p][1].step = "download"
    BY <1>0, <1>2, <1>4 DEF Download, JobAt
  <2>2. job'[p][1].step = "verify" /\ job'[p][1].version = job[p][1].version
    BY <2>1 DEF Job
  <2> QED
    BY <1>0, <1>1, <1>4, <2>1, <2>2 DEF Download, NoOtherVars, JobInv
<1>5. CASE Verify(p, 1)
  <2>1. job'[p][1] = [job[p][1] EXCEPT !.step = "rename"] /\ job[p][1] \in Job
        /\ job[p][1].step = "verify"
    BY <1>0, <1>2, <1>5 DEF Verify, JobAt
  <2>2. job'[p][1].step = "rename" /\ job'[p][1].version = job[p][1].version
    BY <2>1 DEF Job
  <2> QED
    BY <1>0, <1>1, <1>5, <2>1, <2>2 DEF Verify, NoOtherVars, JobInv
<1>6. CASE InstallFails(p, 1)
  <2>1. job'[p][1].step = "none"
    BY <1>2, <1>6 DEF InstallFails, NoJob
  <2> QED
    BY <1>1, <1>6, <2>1 DEF InstallFails, NoOtherVars
<1>7. CASE Install(p, 1)
  <2>1. job'[p][1].step = "none"
    BY <1>2, <1>7 DEF Install, NoJob
  <2>2. cli' = [version |-> job[p][1].version, whole |-> TRUE] /\ job[p][1].version <= latest
        /\ latest' = latest
    BY <1>0, <1>7 DEF Install, JobAt, JobInv, NoOtherVars
  <2>3. \A q \in Process : q # p => job'[q] = job[q] /\ tmp'[q] = tmp[q]
    BY <1>0, ActsAlone
  <2> QED
    BY <1>0, <2>1, <2>2, <2>3 DEF OnlyWholeReleases, JobInv
<1>8. CASE InstallNext(p)
  BY <1>0, <1>8 DEF InstallNext, cliVars, OnlyWholeReleases, JobInv
<1> QED
  BY <1>0, <1>3, <1>4, <1>5, <1>6, <1>7, <1>8 DEF InstallStep

LEMMA WholeNext ==
    ASSUME "Twice" \notin Environment, WholeInv, [Next]_vars
    PROVE  WholeInv'
<1>0. TypeOK /\ TypeOK' /\ OnlyWholeReleases /\ JobInv /\ 1 \in Slot
  BY NextTypes DEF WholeInv, Slot
<1> SUFFICES OnlyWholeReleases' /\ JobInv'
  BY <1>0 DEF WholeInv
<1>1. CASE UNCHANGED cliVars
  BY <1>0, <1>1 DEF cliVars, OnlyWholeReleases, JobInv
<1>2. ASSUME NEW p \in Process, LockStep(p) PROVE OnlyWholeReleases' /\ JobInv'
  <2>1. UNCHANGED <<cli, latest>>
    BY <1>0, <1>2, LifeKeeps
  <2>2. ASSUME NEW q \in Process, job'[q][1].step # "none"
        PROVE  job'[q] = job[q] /\ tmp'[q] = tmp[q]
    <3>1. CASE RemoveToken(p) \/ Crash(p)
      <4>1. q # p
        BY <1>0, <2>2, <3>1 DEF RemoveToken, Crash, Ends, TypeOK, CliTypeOK, NoJob
      <4> QED
        BY <1>0, <3>1, <4>1 DEF RemoveToken, Crash, Ends, TypeOK, CliTypeOK
    <3> QED
      BY <1>2, <3>1 DEF LockStep, Launch, CheckLock, Claim, WritePort, WriteToken, ReadPort,
         ReadToken, Close, RemoveLock, RemovePort, cliVars
  <2> QED
    BY <1>0, <2>1, <2>2 DEF OnlyWholeReleases, JobInv
<1>3. ASSUME NEW p \in Process, SetupStep(p) PROVE OnlyWholeReleases' /\ JobInv'
  BY <1>1, <1>3 DEF SetupStep, GetStarted, SetupPass, SaveStore, SaveDays, Save, SaveFile,
     SaveFails, SessionStatus, Login, Continue, AddFavorite, RestartDaemon, RestartFails,
     Navigate
<1>4. CASE Publish
  <2>1. latest' = latest + 1 /\ UNCHANGED <<cli, tmp, job>> /\ latest \in Nat
    BY <1>0, <1>4 DEF Publish, TypeOK, CliTypeOK, Version
  <2>2. cli # None => cli.version \in Nat
    BY <1>0 DEF TypeOK, CliTypeOK, Binary, Version
  <2>3. \A q \in Process : job[q][1].step # "none" => job[q][1].version \in Nat
    BY <1>0 DEF TypeOK, CliTypeOK, Job, Version
  <2> QED
    BY <1>0, <2>1, <2>2, <2>3 DEF OnlyWholeReleases, JobInv
<1>5. CASE DaemonStep \/ UNCHANGED vars
  BY <1>1, <1>5 DEF DaemonStep, CheckVersion, Decide, FetchFails, vars
<1> QED
  BY <1>2, <1>3, <1>4, <1>5, InstallWhole DEF Next, Pages

LEMMA WholeInit == "Twice" \notin Environment /\ Init => WholeInv
<1> SUFFICES ASSUME "Twice" \notin Environment, Init PROVE OnlyWholeReleases /\ JobInv
  BY InitTypes DEF WholeInv
<1>1. OnlyWholeReleases
  BY DEF Init, OnlyWholeReleases
<1>2. \A p \in Process : job[p][1].step = "none"
  BY DEF Init, Slot, NoJob
<1> QED
  BY <1>1, <1>2 DEF JobInv

\* What is installed is a whole release, as long as no two installations run
\* in one wizard.
THEOREM WholeReleases ==
    ASSUME "Twice" \notin Environment
    PROVE  Spec => []OnlyWholeReleases
<1>1. WholeInv => OnlyWholeReleases
  BY DEF WholeInv
<1>2. WholeInv /\ [Next]_vars => WholeInv'
  BY WholeNext
<1> QED
  BY <1>1, <1>2, WholeInit, PTL DEF Spec

-----------------------------------------------------------------------------
(***************************************************************************)
(* The session.  From Auth.qml on, a wizard's setup works with the store   *)
(* the file names; beyond it, that is the store of the session.  The next  *)
(* login's script follows it unless it cannot be written.                  *)
(***************************************************************************)

Signed == {"favorite", "retention", "finish", "restart", "running"}

PageInv(p) ==
    wizard[p].mode = "setup" =>
        /\ window[p].page \notin {"update", "updated"}
        /\ window[p].page \in {"auth"} \cup Signed =>
            /\ config \in Settings
            /\ env[p] = Resolved(Load(config).store)
            /\ window[p].auth \in {None, env[p]}
        /\ window[p].page \in Signed => window[p].auth = env[p]
        /\ window[p].page = "running" => daemon.up /\ daemon.store = env[p]

ScriptInv(p) ==
    wizard[p].mode = "setup" =>
        /\ window[p].page \in {"auth"} \cup Signed => script = env[p]
        /\ request[p].field # "none" => script = env[p]

SessionInv ==
    /\ SavesInv
    /\ \A p \in Process : PageInv(p)
    /\ \A p \in Process : window[p].auth # None => window[p].auth \in sessions
    /\ "ScriptFails" \notin Environment => \A p \in Process : ScriptInv(p)

LEMMA SessionInit == Init => SessionInv
BY SavesInit DEF Init, SessionInv, PageInv, ScriptInv, NoWindow, NoRequest, Signed

\* A step of p's pages, for p.
LEMMA PageStep ==
    ASSUME {"Torn", "Forward"} \cap Environment = {}, SessionInv, NEW p \in Process, SetupStep(p)
    PROVE  PageInv(p)' /\ ("ScriptFails" \notin Environment => ScriptInv(p)')
<1>0. /\ TypeOK /\ wizard' = wizard /\ PageInv(p) /\ SaveInv(p)
      /\ request \in [Process -> Request] /\ window \in [Process -> Window]
      /\ env \in [Process -> Store] /\ config \in Settings \cup {Malformed, Absent}
      /\ "ScriptFails" \notin Environment => ScriptInv(p)
  BY PagesKeepWindow DEF SessionInv, SavesInv, AloneInv, TypeOK, SetupTypeOK, WindowTypeOK,
     lockVars
<1>1. ASSUME NEW page, Show(p, page) PROVE window'[p].page = page /\ window'[p].auth = window[p].auth
  BY <1>0, <1>1 DEF Show, Window
<1>2. CASE GetStarted(p) \/ Navigate(p)
  <2>1. UNCHANGED setupVars /\ request[p].field = "none"
    BY <1>2 DEF GetStarted, Navigate, Shows
  <2>2. window'[p].page \in {"credentials", "install"}
    BY <1>1, <1>2 DEF GetStarted, Navigate
  <2> QED
    BY <1>0, <2>1, <2>2 DEF PageInv, ScriptInv, Signed, setupVars
<1>3. CASE Continue(p)
  <2>1. UNCHANGED <<setupVars, daemonVars>> /\ window'[p].auth = window[p].auth
    BY <1>1, <1>3 DEF Continue
  <2>2. /\ window[p].page \in {"auth", "favorite"} /\ window'[p].page \in {"favorite", "retention"}
        /\ window[p].page = "auth" => window[p].auth # None
    BY <1>1, <1>3 DEF Continue, Shows
  <2> QED
    BY <1>0, <2>1, <2>2 DEF PageInv, ScriptInv, Signed, setupVars
<1>4. CASE AddFavorite(p)
  <2>1. UNCHANGED <<env, request, config, script>> /\ window'[p].auth = window[p].auth
    BY <1>1, <1>4 DEF AddFavorite
  <2>2. window[p].page = "finish" /\ window'[p].page = "restart"
    BY <1>1, <1>4 DEF AddFavorite, Shows
  <2> QED
    BY <1>0, <2>1, <2>2 DEF PageInv, ScriptInv, Signed
<1>5. CASE RestartDaemon(p)
  <2>1. UNCHANGED setupVars /\ window'[p].auth = window[p].auth /\ daemon' = Started(config)
    BY <1>1, <1>5 DEF RestartDaemon, Restarts
  <2>2. window[p].page \in {"restart", "updated"} /\ window'[p].page = "running"
    BY <1>1, <1>5 DEF RestartDaemon, Shows
  <2>3. config # Malformed => daemon'.up
    BY <2>1 DEF Started
  <2>4. daemon'.store = Resolved(Load(config).store)
    BY <2>1 DEF Started
  <2> QED
    BY <1>0, <2>1, <2>2, <2>3, <2>4, FilesAssumption DEF PageInv, ScriptInv, Signed, setupVars
<1>6. CASE RestartFails(p)
  <2>1. UNCHANGED setupVars /\ window'[p].page = "done" /\ request[p].field = "none"
    BY <1>1, <1>6 DEF RestartFails, Shows
  <2> QED
    BY <1>0, <2>1 DEF PageInv, ScriptInv, Signed, setupVars
<1>7. CASE SetupPass(p)
  <2>1. UNCHANGED <<window, env, request, config, script, daemonVars>>
    BY <1>7 DEF SetupPass
  <2> QED
    BY <1>0, <2>1 DEF PageInv, ScriptInv, daemonVars
<1>8. CASE SessionStatus(p) \/ Login(p)
  <2>1. UNCHANGED <<env, request, config, script, daemonVars>>
    BY <1>8 DEF SessionStatus, Login, setupVars
  <2>2. window[p].page = "auth" /\ window'[p].page = "auth" /\ window'[p].auth = env[p]
    BY <1>0, <1>8 DEF SessionStatus, Login, SignedIn, Shows, Window
  <2> QED
    BY <1>0, <2>1, <2>2 DEF PageInv, ScriptInv, Signed
<1>9. ASSUME NEW field \in {"store", "days"}, NEW hand \in Settings, Save(p, field, hand),
             field = "store" => window[p].page = "credentials",
             field = "days" => /\ hand.store = Load(config).store
                               /\ window[p].page = "retention"
      PROVE  PageInv(p)' /\ ("ScriptFails" \notin Environment => ScriptInv(p)')
  <2>1. /\ env'[p] = Resolved(hand.store) /\ UNCHANGED <<window, config, daemonVars>>
        /\ "ScriptFails" \notin Environment => script' = Resolved(hand.store)
    BY <1>0, <1>9 DEF Save, WriteScript
  <2>2. PageInv(p)'
    BY <1>0, <1>9, <2>1 DEF PageInv, Signed, daemonVars
  <2>3. "ScriptFails" \notin Environment => ScriptInv(p)'
    BY <2>1 DEF ScriptInv
  <2> QED
    BY <2>2, <2>3
<1>10. ASSUME NEW store \in {None, "pass"}, SaveStore(p, store)
       PROVE  PageInv(p)' /\ ("ScriptFails" \notin Environment => ScriptInv(p)')
  <2> DEFINE hand == [Load(config) EXCEPT !.store = store]
  <2>1. hand \in Settings /\ window[p].page = "credentials"
    BY <1>10, SettingsTypes DEF SaveStore, Shows, Store
  <2> QED
    BY <1>9, <1>10, <2>1 DEF SaveStore
<1>11. ASSUME NEW d \in Days, SaveDays(p, d)
       PROVE  PageInv(p)' /\ ("ScriptFails" \notin Environment => ScriptInv(p)')
  <2> DEFINE hand == [Load(config) EXCEPT !.days = d]
  <2>1. hand \in Settings /\ hand.store = Load(config).store /\ window[p].page = "retention"
    BY <1>11, SettingsTypes DEF SaveDays, Shows, Settings
  <2> QED
    BY <1>9, <1>11, <2>1 DEF SaveDays
<1>12. CASE SaveFile(p)
  <2> DEFINE hand == request[p].hand
  <2>1. /\ hand \in Settings /\ config' = hand /\ Load(hand) = hand
        /\ env[p] = Resolved(hand.store) /\ UNCHANGED <<env, script, daemonVars>>
        /\ request'[p].field = "none"
    BY <1>0, <1>12, LoadSettings DEF SaveFile, SaveInv, Request, NoRequest
  <2>2. CASE request[p].field = "store"
    <3>1. window'[p].page = "auth" /\ window'[p].auth = None
      BY <1>0, <1>12, <2>2 DEF SaveFile, Window
    <3> QED
      BY <1>0, <1>12, <2>1, <3>1 DEF PageInv, ScriptInv, Signed, SaveFile
  <2>3. CASE request[p].field = "days"
    <3>1. window[p].page = "retention" /\ window'[p].page = "finish"
          /\ window'[p].auth = window[p].auth
      BY <1>0, <1>12, <2>3 DEF SaveFile, SaveInv, Window
    <3> QED
      BY <1>0, <1>12, <2>1, <3>1 DEF PageInv, ScriptInv, Signed, SaveFile
  <2> QED
    BY <1>0, <1>12, <2>2, <2>3 DEF SaveFile, Request
<1>13. CASE SaveFails(p)
  <2>1. UNCHANGED <<window, env, config, script, daemonVars>> /\ request'[p].field = "none"
    BY <1>0, <1>13 DEF SaveFails, NoRequest
  <2> QED
    BY <1>0, <2>1 DEF PageInv, ScriptInv, daemonVars
<1> QED
  BY <1>2, <1>3, <1>4, <1>5, <1>6, <1>7, <1>8, <1>10, <1>11, <1>12, <1>13 DEF SetupStep

\* A step of an installation.
LEMMA InstallPage ==
    ASSUME TypeOK, NEW p \in Process, InstallStep(p)
    PROVE  /\ UNCHANGED <<lockVars, setupVars, daemonVars>>
           /\ \A q \in Process :
                /\ window'[q].auth = window[q].auth
                /\ \/ window'[q].page = window[q].page
                   \/ window'[q].page \in {"installed", "credentials"}
                   \/ window[q].page = "update" /\ window'[q].page = "updated"
<1>0. window \in [Process -> Window]
  BY DEF TypeOK, WindowTypeOK
<1>1. UNCHANGED <<lockVars, setupVars, daemonVars>>
  BY DEF InstallStep, InstallNow, Download, Verify, InstallFails, Install, InstallNext,
     NoOtherVars
<1>2. CASE UNCHANGED window
  BY <1>1, <1>2
<1>3. ASSUME NEW page, Show(p, page),
             page \in {"installed", "credentials"} \/ (window[p].page = "update" /\ page = "updated")
      PROVE  \A q \in Process :
                /\ window'[q].auth = window[q].auth
                /\ \/ window'[q].page = window[q].page
                   \/ window'[q].page \in {"installed", "credentials"}
                   \/ window[q].page = "update" /\ window'[q].page = "updated"
  <2>1. /\ window'[p].page = page /\ window'[p].auth = window[p].auth
        /\ \A q \in Process : q # p => window'[q] = window[q]
    BY <1>0, <1>3 DEF Show, Window
  <2> QED
    BY <1>3, <2>1
<1> QED
  BY <1>1, <1>2, <1>3 DEF InstallStep, InstallNow, Download, Verify, InstallFails, Install,
     InstallNext

\* A step of p's pages leaves the page invariant of the others.
LEMMA PageOthers ==
    ASSUME SessionInv, NEW p \in Process, SetupStep(p), NEW q \in Process, q # p
    PROVE  PageInv(q)' /\ ScriptInv(q)'
<1>1. /\ ~Busy(q) /\ window'[q] = window[q] /\ request'[q] = request[q]
  BY ActsAlone, OthersIdle DEF SessionInv, SavesInv, AloneInv
<1> QED
  BY <1>1 DEF PageInv, ScriptInv, Signed, Busy

LEMMA AuthSetup ==
    ASSUME "Offline" \notin Environment, SessionInv, NEW p \in Process, SetupStep(p)
    PROVE  \A q \in Process : window'[q].auth # None => window'[q].auth \in sessions'
<1>0. /\ window \in [Process -> Window] /\ TypeOK
      /\ \A q \in Process : window[q].auth # None => window[q].auth \in sessions
  BY DEF SessionInv, SavesInv, AloneInv, TypeOK, WindowTypeOK
<1>1. sessions \subseteq sessions'
  BY DEF SetupStep, GetStarted, SetupPass, SaveStore, SaveDays, Save, SaveFile,
     SaveFails, SessionStatus, Login, Continue, AddFavorite, RestartDaemon, RestartFails,
     Navigate, setupVars
<1>2. window'[p].auth \in {None, window[p].auth} \cup sessions'
  <2>1. CASE SessionStatus(p) \/ Login(p)
    BY <1>0, <2>1 DEF SessionStatus, Login, SignedIn, Window, setupVars
  <2>2. CASE SaveFile(p)
    BY <1>0, <2>2 DEF SaveFile, Window
  <2>3. CASE UNCHANGED window
    BY <2>3
  <2>4. CASE \E page : Show(p, page)
    BY <1>0, <2>4 DEF Show, Window
  <2> QED
    BY <2>1, <2>2, <2>3, <2>4 DEF SetupStep, GetStarted, SetupPass, SaveStore, SaveDays, Save,
       SaveFails, Continue, AddFavorite, RestartDaemon, RestartFails, Navigate
<1>3. \A q \in Process : q # p => window'[q] = window[q]
  BY <1>0, ActsAlone
<1> QED
  BY <1>0, <1>1, <1>2, <1>3

LEMMA SessionNext ==
    ASSUME Orderly, {"Torn", "Forward", "Offline"} \cap Environment = {},
           SessionInv, [Next]_vars
    PROVE  SessionInv'
<1>0. TypeOK /\ LockTypeOK /\ BusyInv /\ SavesInv /\ SavesInv'
  BY SavesNext DEF SessionInv, SavesInv, AloneInv, TypeOK
<1> DEFINE Goal == /\ \A q \in Process : PageInv(q)
                   /\ \A q \in Process : window[q].auth # None => window[q].auth \in sessions
                   /\ "ScriptFails" \notin Environment => \A q \in Process : ScriptInv(q)
<1>a. Goal
  BY DEF SessionInv
<1> SUFFICES Goal'
  BY <1>0 DEF SessionInv
<1>1. ASSUME NEW p \in Process, SetupStep(p) PROVE Goal'
  <2>1. \A q \in Process : /\ PageInv(q)'
                           /\ "ScriptFails" \notin Environment => ScriptInv(q)'
    BY <1>1, PageStep, PageOthers
  <2> QED
    BY <1>1, <2>1, AuthSetup
<1>2. ASSUME NEW p \in Process, InstallStep(p) PROVE Goal'
  <2>1. /\ UNCHANGED <<wizard, env, request, config, script, sessions, daemon>>
        /\ \A q \in Process :
                /\ window'[q].auth = window[q].auth
                /\ \/ window'[q].page = window[q].page
                   \/ window'[q].page \in {"installed", "credentials"}
                   \/ window[q].page = "update" /\ window'[q].page = "updated"
    BY <1>0, <1>2, InstallPage DEF lockVars, setupVars, daemonVars
  <2>2. \A q \in Process : PageInv(q)'
    BY <1>a, <2>1 DEF PageInv, Signed
  <2>3. ASSUME NEW q \in Process, ScriptInv(q) PROVE ScriptInv(q)'
    BY <2>1, <2>3 DEF ScriptInv, Signed
  <2> QED
    BY <1>a, <2>1, <2>2, <2>3
<1>3. ASSUME NEW p \in Process, LockStep(p) PROVE Goal'
  <2>0. UNCHANGED <<config, script, sessions, daemon>>
    BY <1>0, <1>3, LifeKeeps DEF daemonVars
  <2>1. ASSUME NEW q \in Process PROVE /\ window'[q].auth # None => window'[q].auth \in sessions'
                                       /\ PageInv(q)' /\ (ScriptInv(q) => ScriptInv(q)')
    <3>0. RequestsKept(p, q) /\ PageKept(p, q) /\ PageInv(q)
      BY <1>0, <1>a, <1>3, LifeKeeps
    <3>1. window'[q].auth # None => window'[q].auth \in sessions'
      BY <1>a, <2>0, <3>0 DEF PageKept, NoWindow
    <3>2. CASE window'[q].page \in {"none", "welcome"} /\ request'[q].field = "none"
      BY <3>1, <3>2 DEF PageInv, ScriptInv, Signed
    <3>3. CASE ~(window'[q].page \in {"none", "welcome"} /\ request'[q].field = "none")
      <4>1. CASE wizard[q].step = "joining"
        <5>1. ~Busy(q)
          BY <1>0, <4>1 DEF BusyInv, Late, Step
        <5>2. request'[q].field = "none" /\ window[q].page = "none"
          BY <3>0, <5>1 DEF Busy, RequestsKept, NoRequest
        <5>3. wizard'[q].mode # "setup"
          BY <3>0, <3>3, <5>2 DEF PageKept, NoWindow
        <5> QED
          BY <3>1, <5>3 DEF PageInv, ScriptInv
      <4>2. CASE wizard[q].step # "joining" /\ wizard'[q].step = "gone" /\ q = p
        <5>1. CASE CheckLock(p)
          <6>1. ~Busy(q) /\ UNCHANGED <<window, request>>
            BY <1>0, <4>2, <5>1 DEF CheckLock, At, BusyInv, Late, Step, setupVars
          <6> QED
            BY <3>3, <6>1 DEF Busy
        <5>2. CASE RemoveToken(p) \/ Crash(p)
          <6>1. window'[p] = NoWindow /\ request'[p] = NoRequest
            BY <1>0, <5>2 DEF RemoveToken, Crash, Ends, TypeOK, WindowTypeOK, SetupTypeOK
          <6> QED
            BY <3>3, <4>2, <6>1 DEF NoWindow, NoRequest
        <5>3. CASE Launch(p) \/ Claim(p) \/ WritePort(p) \/ WriteToken(p) \/ ReadPort(p)
          <6>1. LockTypeOK
            BY <1>0 DEF TypeOK
          <6>2. \/ Spawn(p, "setup") \/ GoTo(p, "binding") \/ GoTo(p, "signing")
                \/ GoTo(p, "opening") \/ GoTo(p, "joining")
            BY <5>3 DEF Launch, Claim, WritePort, WriteToken, ReadPort
          <6>3. wizard'[p].step # "gone"
            BY <6>1, <6>2, Moves
          <6> QED
            BY <4>2, <6>3
        <5>4. CASE ReadToken(p) \/ Close(p) \/ RemoveLock(p) \/ RemovePort(p)
          BY <1>0, <4>2, <5>4, Moves DEF ReadToken, Close, RemoveLock, RemovePort
        <5> QED
          BY <1>3, <5>1, <5>2, <5>3, <5>4 DEF LockStep
      <4>3. CASE wizard[q].step # "joining" /\ ~(wizard'[q].step = "gone" /\ q = p)
        <5>1. /\ request'[q] = request[q] /\ env'[q] = env[q]
              /\ window'[q].page = window[q].page /\ window'[q].auth = window[q].auth
          BY <3>0, <4>3 DEF RequestsKept, PageKept
        <5>2. Busy(q)
          BY <3>3, <5>1 DEF Busy
        <5>3. wizard[q].step \in Late
          BY <1>0, <5>2 DEF BusyInv, Step
        <5>4. wizard'[q].mode = wizard[q].mode
          BY <1>0, <1>3, <4>3, <5>3, LockOthers, Moves DEF LockStep, Launch, IsNext, CheckLock,
             Claim, WritePort, WriteToken, ReadPort, ReadToken, Close, RemoveLock, RemovePort,
             RemoveToken, Crash, At, Late
        <5> QED
          BY <2>0, <3>0, <3>1, <5>1, <5>4 DEF PageInv, ScriptInv
      <4> QED
        BY <4>1, <4>2, <4>3
    <3> QED
      BY <3>2, <3>3
  <2> QED
    BY <1>a, <2>1
<1>4. CASE DaemonStep
  <2>1. UNCHANGED <<window, env, request, config, script, sessions>>
        /\ (wizard' = wizard \/ Offer)
    BY <1>4 DEF DaemonStep, CheckVersion, Decide, FetchFails, Announce, lockVars, setupVars
  <2>2. daemon'.up = daemon.up /\ daemon'.store = daemon.store
    BY <1>0, <1>4 DEF DaemonStep, CheckVersion, Decide, FetchFails, Announce, TypeOK,
       DaemonTypeOK, Daemon
  <2>3. \A q \in Process : wizard'[q].mode = "setup" => wizard[q].mode = "setup"
    BY <1>0, <2>1, Moves DEF Offer
  <2>4. \A q \in Process : PageInv(q)'
    BY <1>a, <2>1, <2>2, <2>3 DEF PageInv
  <2>5. ASSUME NEW q \in Process, ScriptInv(q) PROVE ScriptInv(q)'
    BY <2>1, <2>3, <2>5 DEF ScriptInv
  <2> QED
    BY <1>a, <2>1, <2>4, <2>5
<1>5. CASE Publish \/ UNCHANGED vars
  <2>1. UNCHANGED <<wizard, window, env, request, config, script, sessions, daemon>>
    BY <1>5 DEF Publish, vars, lockVars, setupVars, daemonVars
  <2> QED
    BY <1>a, <2>1 DEF PageInv, ScriptInv
<1> QED
  BY <1>1, <1>2, <1>3, <1>4, <1>5 DEF Next, Pages

\* At the end of a setup the daemon reads the store the user has signed in
\* to: as long as no wizard starts while another one starts or ends, every
\* save is whole, no page left behind is gone back to, and the session can be
\* asked for.
THEOREM DaemonHasIt ==
    ASSUME Orderly, {"Torn", "Forward", "Offline"} \cap Environment = {}
    PROVE  Spec => []DaemonHasTheSession
<1>1. ASSUME SessionInv PROVE DaemonHasTheSession
  <2> SUFFICES ASSUME NEW p \in Process, wizard[p].mode = "setup", Shows(p, "running")
               PROVE  daemon.up /\ daemon.store = window[p].auth /\ daemon.store \in sessions
    BY DEF DaemonHasTheSession
  <2>1. window[p].page = "running" /\ PageInv(p) /\ env[p] # None
    BY <1>1, ConstantsAssumption DEF Shows, SessionInv, SavesInv, AloneInv, TypeOK, SetupTypeOK,
       Store
  <2> QED
    BY <1>1, <2>1 DEF PageInv, SessionInv, Signed
<1>2. SessionInv /\ [Next]_vars => SessionInv'
  BY SessionNext
<1> QED
  BY <1>1, <1>2, SessionInit, PTL DEF Spec

\* Then Dolphin's worker will use that store too, if its script could be
\* written.
THEOREM WorkerFollows ==
    ASSUME Orderly, {"Torn", "Forward", "Offline", "ScriptFails"} \cap Environment = {}
    PROVE  Spec => []WorkerFollowsDaemon
<1>1. SessionInv => WorkerFollowsDaemon
  BY DEF SessionInv, PageInv, ScriptInv, WorkerFollowsDaemon, Shows, Signed
<1>2. SessionInv /\ [Next]_vars => SessionInv'
  BY SessionNext
<1> QED
  BY <1>1, <1>2, SessionInit, PTL DEF Spec

-----------------------------------------------------------------------------
(***************************************************************************)
(* The notices.  What is installed only gets newer, so that a notice that  *)
(* another one has replaced is never due again.                            *)
(***************************************************************************)

UpdateNotice(v) == <<"update", v>>
UnsupportedNotice(v) == <<"unsupported", v>>

\* An installation under way brings nothing older than what is there.
JobIsNewer ==
    cli # None => \A p \in Process : job[p][1].step # "none" => cli.version <= job[p][1].version

NoticeInv ==
    /\ daemon.step = "fetch" =>
            /\ daemon.seen # None /\ Installed # None
            /\ daemon.seen <= Installed /\ Supported(daemon.seen)
    /\ \A v \in Version : UpdateNotice(v) \in said =>
            /\ v <= latest /\ Installed # None /\ Supported(Installed)
            /\ daemon.notified # UpdateNotice(v) =>
                    \/ v < latest
                    \/ v <= Installed /\ (daemon.step = "fetch" => v <= daemon.seen)
    /\ \A v \in Version : UnsupportedNotice(v) \in said =>
            /\ v < MinVersion /\ Installed # None /\ v <= Installed
            /\ daemon.notified # UnsupportedNotice(v) => v < Installed

AnnouncedInv == AloneInv /\ BusyInv /\ WholeInv /\ JobIsNewer /\ NoticeInv

LEMMA WholeInstalled ==
    ASSUME WholeInv
    PROVE  /\ Installed = IF shadow # None THEN shadow
                          ELSE IF cli = None THEN None ELSE cli.version
           /\ Installed \in Maybe(Version) /\ latest \in Nat /\ MinVersion \in Nat
           /\ Version \subseteq Nat
BY InstalledType, ConstantsAssumption DEF WholeInv, OnlyWholeReleases, Installed, TypeOK,
   CliTypeOK, Version

\* Only Install replaces the CLI.
LEMMA CliKept ==
    ASSUME TypeOK, [Next]_vars
    PROVE  /\ shadow' = shadow
           /\ cli' = cli \/ \E p \in Process : \E i \in Slot : Install(p, i)
<1>1. ASSUME NEW p \in Process, LockStep(p) PROVE cli' = cli /\ shadow' = shadow
  BY <1>1, LifeKeeps
<1>2. ASSUME NEW p \in Process, SetupStep(p) PROVE cli' = cli /\ shadow' = shadow
  BY <1>2 DEF SetupStep, GetStarted, SetupPass, SaveStore, SaveDays, Save, SaveFile,
     SaveFails, SessionStatus, Login, Continue, AddFavorite, RestartDaemon, RestartFails,
     Navigate, cliVars
<1>3. ASSUME NEW p \in Process, InstallStep(p)
      PROVE  shadow' = shadow /\ (cli' = cli \/ \E i \in Slot : Install(p, i))
  BY <1>3 DEF InstallStep, InstallNow, Download, Verify, InstallFails, InstallNext, Install,
     NoOtherVars, cliVars
<1>4. CASE DaemonStep \/ Publish \/ UNCHANGED vars
  BY <1>4 DEF DaemonStep, CheckVersion, Decide, FetchFails, Publish, vars, cliVars
<1> QED
  BY <1>1, <1>2, <1>3, <1>4 DEF Next, Pages

\* The new CLI is at least as new, and no installation lags behind it.
LEMMA CliGrows ==
    ASSUME Orderly, "Twice" \notin Environment, AnnouncedInv, [Next]_vars
    PROVE  /\ JobIsNewer'
           /\ Installed # None => Installed' # None /\ Installed <= Installed'
<1>0. /\ TypeOK /\ AloneInv /\ BusyInv /\ WholeInv /\ WholeInv' /\ Slot = {1} /\ JobInv
      /\ job \in [Process -> [Slot -> Job]] /\ tmp \in [Process -> Maybe(Binary)]
      /\ cli \in Maybe(Binary) /\ latest \in Nat /\ OnlyWholeReleases /\ JobIsNewer
  BY WholeNext, WholeInstalled DEF AnnouncedInv, AloneInv, WholeInv, TypeOK, CliTypeOK, Slot
<1>1. CASE \E p \in Process : Install(p, 1)
  <2>1. PICK p \in Process : Install(p, 1)
    BY <1>1
  <2>2. InstallStep(p)
    BY <1>0, <2>1 DEF InstallStep
  <2>3. \A q \in Process : job'[q][1].step = "none"
    <3>1. job'[p][1].step = "none"
      BY <1>0, <2>1 DEF Install, SetJob, NoJob
    <3>2. \A q \in Process : q # p => job'[q][1].step = "none"
      BY <1>0, <2>2, ActsAlone, OthersIdle DEF Busy
    <3> QED
      BY <3>1, <3>2
  <2>4. cli' = [version |-> job[p][1].version, whole |-> TRUE] /\ shadow' = shadow
        /\ (cli # None => cli.version <= job[p][1].version)
    BY <1>0, <2>1 DEF Install, JobAt, JobInv, JobIsNewer, NoOtherVars
  <2>5. cli' # None
    BY <1>0, <2>1 DEF Install
  <2>6. shadow # None => shadow <= shadow
    BY <1>0, WholeInstalled DEF TypeOK, CliTypeOK, Version
  <2>7. Installed' = IF shadow' # None THEN shadow' ELSE IF cli' = None THEN None ELSE cli'.version
    BY <1>0, WholeInstalled DEF WholeInv, OnlyWholeReleases, Installed
  <2>8. Installed = IF shadow # None THEN shadow ELSE IF cli = None THEN None ELSE cli.version
    BY <1>0, WholeInstalled
  <2>9. Installed # None => Installed' # None /\ Installed <= Installed'
    <3>1. CASE shadow # None
      BY <2>4, <2>6, <2>7, <2>8, <3>1
    <3>2. CASE shadow = None
      <4>1. job[p][1].version \in Nat
        BY <1>0, <2>1 DEF Install, JobAt, Job, Version
      <4> QED
        BY <2>4, <2>5, <2>7, <2>8, <3>2, <4>1, ConstantsAssumption
    <3> QED
      BY <3>1, <3>2
  <2> QED
    BY <2>3, <2>9 DEF JobIsNewer
<1>2. CASE cli' = cli
  <2>1. Installed' = Installed
    BY <1>0, <1>2, CliKept DEF Installed
  <2>2. Installed # None => Installed <= Installed
    BY <1>0, WholeInstalled
  <2>3. ASSUME NEW q \in Process, cli # None, job'[q][1].step # "none"
        PROVE  cli.version <= job'[q][1].version
    <3>1. CASE job'[q] = job[q]
      BY <1>0, <2>3, <3>1 DEF JobIsNewer
    <3>2. CASE job'[q][1].version = latest
      BY <1>0, <2>3, <3>2 DEF OnlyWholeReleases
    <3>3. CASE job[q][1].step # "none" /\ job'[q][1].version = job[q][1].version
      BY <1>0, <2>3, <3>3 DEF JobIsNewer
    <3>4. job'[q] = job[q] \/ job'[q][1].version = latest
            \/ (job[q][1].step # "none" /\ job'[q][1].version = job[q][1].version)
      <4>1. ASSUME NEW p \in Process, InstallStep(p)
            PROVE  job'[q] = job[q] \/ job'[q][1].version = latest
                    \/ (job[q][1].step # "none" /\ job'[q][1].version = job[q][1].version)
        <5>1. CASE q # p
          BY <1>0, <4>1, <5>1, ActsAlone
        <5>2. CASE q = p /\ (InstallFails(p, 1) \/ Install(p, 1))
          BY <1>0, <2>3, <5>2 DEF InstallFails, Install, SetJob, NoJob
        <5>3. CASE q = p /\ InstallNow(p, 1)
          BY <1>0, <5>3 DEF InstallNow, SetJob, LatestStable
        <5>4. CASE q = p /\ (Download(p, 1) \/ Verify(p, 1))
          <6>1. job[p][1] \in Job /\ job[p][1].step \in {"download", "verify"}
            BY <1>0, <5>4 DEF Download, Verify, JobAt
          <6>2. \E step \in {"verify", "rename"} : job'[p][1] = [job[p][1] EXCEPT !.step = step]
            BY <1>0, <5>4 DEF Download, Verify, SetJob
          <6>3. job'[p][1].version = job[p][1].version
            BY <6>1, <6>2 DEF Job
          <6> QED
            BY <5>4, <6>1, <6>3
        <5>5. CASE InstallNext(p)
          BY <5>5 DEF InstallNext, cliVars
        <5> QED
          BY <1>0, <4>1, <5>1, <5>2, <5>3, <5>4, <5>5 DEF InstallStep
      <4>2. ASSUME NEW p \in Process, LockStep(p)
            PROVE  job'[q] = job[q]
        <5>1. job'[q] = [i \in Slot |-> NoJob] => job'[q][1].step = "none"
          BY <1>0 DEF NoJob
        <5> QED
          BY <1>0, <2>3, <4>2, <5>1, LifeKeeps DEF RequestsKept
      <4>3. ASSUME NEW p \in Process, SetupStep(p)
            PROVE  job'[q] = job[q]
        BY <4>3 DEF SetupStep, GetStarted, SetupPass, SaveStore, SaveDays, Save, SaveFile,
           SaveFails, SessionStatus, Login, Continue, AddFavorite, RestartDaemon, RestartFails,
           Navigate, cliVars
      <4>4. CASE DaemonStep \/ Publish \/ UNCHANGED vars
        BY <4>4 DEF DaemonStep, CheckVersion, Decide, FetchFails, Publish, vars, cliVars
      <4> QED
        BY <4>1, <4>2, <4>3, <4>4 DEF Next, Pages
    <3> QED
      BY <3>1, <3>2, <3>3, <3>4
  <2> QED
    BY <1>2, <2>1, <2>2, <2>3 DEF JobIsNewer
<1> QED
  BY <1>0, <1>1, <1>2, CliKept

LEMMA NoticeNames ==
    ASSUME NEW v, NEW w
    PROVE  /\ UpdateNotice(v) # UnsupportedNotice(w)
           /\ UpdateNotice(v) = UpdateNotice(w) => v = w
           /\ UnsupportedNotice(v) = UnsupportedNotice(w) => v = w
           /\ v \in Version => UpdateNotice(v) # None /\ UnsupportedNotice(v) # None
BY NoticeAssumption DEF UpdateNotice, UnsupportedNotice, Notice

\* Time passes, and the daemon announces nothing.
LEMMA NoticeQuiet ==
    ASSUME WholeInv, WholeInv', NoticeInv, UNCHANGED daemonVars, latest <= latest',
           Installed # None => Installed' # None /\ Installed <= Installed'
    PROVE  NoticeInv'
<1>0. /\ latest \in Nat /\ latest' \in Nat /\ MinVersion \in Nat /\ Version \subseteq Nat
      /\ Installed \in Maybe(Version) /\ Installed' \in Maybe(Version)
      /\ daemon.seen \in Maybe(Version)
  <2>1. latest' \in Nat
    BY DEF WholeInv, TypeOK, CliTypeOK, Version
  <2>2. Installed' \in Maybe(Version)
    BY DEF WholeInv, TypeOK, CliTypeOK, Installed, Binary
  <2>3. daemon.seen \in Maybe(Version)
    BY DEF WholeInv, TypeOK, DaemonTypeOK, Daemon
  <2> QED
    BY <2>1, <2>2, <2>3, WholeInstalled
<1>1. daemon' = daemon /\ said' = said
  BY DEF daemonVars
<1> USE <1>0, <1>1
<1>2. daemon'.step = "fetch" =>
            /\ daemon'.seen # None /\ Installed' # None
            /\ daemon'.seen <= Installed' /\ Supported(daemon.seen)'
  <2> SUFFICES ASSUME daemon.step = "fetch"
               PROVE  /\ daemon.seen # None /\ Installed' # None
                      /\ daemon.seen <= Installed' /\ Supported(daemon.seen)
    BY DEF Supported, Newer
  <2>1. /\ daemon.seen # None /\ Installed # None
        /\ daemon.seen <= Installed /\ Supported(daemon.seen)
    BY DEF NoticeInv
  <2>2. daemon.seen \in Nat /\ Installed \in Nat /\ Installed' \in Nat
    BY <2>1
  <2> QED
    BY <2>1, <2>2
<1>3. ASSUME NEW v \in Version, UpdateNotice(v) \in said'
      PROVE  /\ v <= latest' /\ Installed' # None /\ Supported(Installed)'
             /\ daemon'.notified # UpdateNotice(v) =>
                    \/ v < latest'
                    \/ v <= Installed' /\ (daemon'.step = "fetch" => v <= daemon'.seen)
  BY <1>3 DEF NoticeInv, Supported, Newer
<1>4. ASSUME NEW v \in Version, UnsupportedNotice(v) \in said'
      PROVE  /\ v < MinVersion /\ Installed' # None /\ v <= Installed'
             /\ daemon'.notified # UnsupportedNotice(v) => v < Installed'
  BY <1>4 DEF NoticeInv
<1> QED
  BY <1>2, <1>3, <1>4 DEF NoticeInv

\* A step of the daemon's check: the notice it gives is a new one.
LEMMA NoticeDaemon ==
    ASSUME WholeInv, NoticeInv, DaemonStep
    PROVE  /\ NoticeInv'
           /\ \A n \in said : daemon'.notified = n => daemon.notified = n
<1>0. /\ latest \in Nat /\ latest \in Version /\ MinVersion \in Nat /\ Version \subseteq Nat
      /\ Installed \in Maybe(Version) /\ daemon \in Daemon /\ said \subseteq Notice
      /\ daemon.seen \in Maybe(Version)
  BY WholeInstalled DEF WholeInv, TypeOK, CliTypeOK, DaemonTypeOK, Daemon
<1>1. latest' = latest /\ Installed' = Installed
  BY DEF DaemonStep, CheckVersion, Decide, FetchFails, cliVars, Installed
<1> USE <1>0, <1>1
<1>2. CASE FetchFails
  <2>1. /\ daemon'.step = "idle" /\ daemon'.notified = daemon.notified /\ said' = said
    BY <1>2 DEF FetchFails, Daemon
  <2> QED
    BY <2>1 DEF NoticeInv, Supported, Newer
<1>3. CASE CheckVersion /\ Supported(Installed)
  <2>1. /\ daemon'.step = "fetch" /\ daemon'.notified = daemon.notified /\ said' = said
        /\ daemon'.seen = Installed /\ Installed # None
    BY <1>3 DEF CheckVersion, Daemon
  <2>2. ASSUME NEW v \in Version, UpdateNotice(v) \in said
        PROVE  /\ v <= latest
               /\ daemon.notified # UpdateNotice(v) => v < latest \/ v <= Installed
    BY <2>2 DEF NoticeInv
  <2>3. ASSUME NEW v \in Version, UnsupportedNotice(v) \in said
        PROVE  /\ v < MinVersion /\ v <= Installed
               /\ daemon.notified # UnsupportedNotice(v) => v < Installed
    BY <2>3 DEF NoticeInv
  <2> QED
    BY <1>3, <2>1, <2>2, <2>3 DEF NoticeInv, Supported, Newer
<1>4. CASE CheckVersion /\ ~Supported(Installed)
  <2>1. /\ daemon.step = "idle" /\ Installed # None /\ Announce(UnsupportedNotice(Installed))
        /\ Installed < MinVersion /\ Installed \in Version
    BY <1>4 DEF CheckVersion, UnsupportedNotice, Supported, Newer
  <2>2. \A v \in Version : UpdateNotice(v) \notin said
    BY <1>4 DEF NoticeInv
  <2>3. CASE daemon.notified = UnsupportedNotice(Installed)
    <3>1. daemon'.step = "idle" /\ daemon'.notified = daemon.notified /\ said' = said
      BY <2>1, <2>3 DEF Announce, Daemon
    <3> QED
      BY <2>2, <3>1 DEF NoticeInv
  <2>4. CASE daemon.notified # UnsupportedNotice(Installed)
    <3>1. /\ daemon'.step = "idle" /\ daemon'.notified = UnsupportedNotice(Installed)
          /\ said' = said \cup {UnsupportedNotice(Installed)}
      BY <2>1, <2>4 DEF Announce, Daemon
    <3>2. UnsupportedNotice(Installed) \notin said
      BY <2>1, <2>4 DEF NoticeInv
    <3>3. \A v \in Version : UpdateNotice(v) \notin said'
      BY <2>2, <3>1, NoticeNames
    <3>4. ASSUME NEW v \in Version, UnsupportedNotice(v) \in said'
          PROVE  /\ v < MinVersion /\ v <= Installed
                 /\ daemon'.notified # UnsupportedNotice(v) => v < Installed
      <4>1. CASE v = Installed
        BY <2>1, <3>1, <4>1
      <4>2. CASE v # Installed
        <5>1. UnsupportedNotice(v) \in said
          BY <3>1, <3>4, <4>2, NoticeNames
        <5> QED
          BY <2>1, <4>2, <5>1 DEF NoticeInv
      <4> QED
        BY <4>1, <4>2
    <3>5. NoticeInv'
      BY <2>1, <3>1, <3>3, <3>4 DEF NoticeInv
    <3> QED
      BY <3>1, <3>2, <3>5
  <2> QED
    BY <2>3, <2>4
<1>5. CASE Decide /\ ~Newer(latest, daemon.seen)
  <2>1. /\ daemon.step = "fetch" /\ daemon'.step = "idle" /\ daemon'.notified = None
        /\ said' = said
    BY <1>5 DEF Decide, LatestStable, Daemon
  <2>2. daemon.seen <= Installed /\ latest <= daemon.seen /\ Installed # None
        /\ MinVersion <= daemon.seen /\ daemon.seen \in Nat /\ Installed \in Nat
    <3>1. /\ daemon.seen # None /\ Installed # None /\ daemon.seen <= Installed
          /\ Supported(daemon.seen)
      BY <2>1 DEF NoticeInv
    <3>2. daemon.seen \in Nat /\ Installed \in Nat
      BY <3>1
    <3> QED
      BY <1>5, <3>1, <3>2 DEF Newer, Supported
  <2>3. None \notin said
    BY NoticeAssumption
  <2>4. ASSUME NEW v \in Version, UpdateNotice(v) \in said
        PROVE  v <= latest /\ v <= Installed /\ Supported(Installed)
    BY <2>2, <2>4 DEF NoticeInv
  <2>5. ASSUME NEW v \in Version, UnsupportedNotice(v) \in said
        PROVE  v < MinVersion /\ v < Installed
    BY <2>2, <2>5 DEF NoticeInv
  <2>6. NoticeInv'
    BY <2>1, <2>2, <2>4, <2>5 DEF NoticeInv, Supported, Newer
  <2> QED
    BY <2>1, <2>3, <2>6
<1>6. CASE Decide /\ Newer(latest, daemon.seen)
  <2>1. /\ daemon.step = "fetch" /\ Announce(UpdateNotice(latest))
    BY <1>6 DEF Decide, LatestStable, UpdateNotice
  <2>2. daemon.seen <= Installed /\ daemon.seen < latest /\ Installed # None
        /\ MinVersion <= daemon.seen /\ daemon.seen \in Nat /\ Installed \in Nat
    <3>1. /\ daemon.seen # None /\ Installed # None /\ daemon.seen <= Installed
          /\ Supported(daemon.seen)
      BY <2>1 DEF NoticeInv
    <3>2. daemon.seen \in Nat /\ Installed \in Nat
      BY <3>1
    <3> QED
      BY <1>6, <3>1, <3>2 DEF Newer, Supported
  <2>3. Supported(Installed)
    BY <2>2 DEF Supported, Newer
  <2>4. ASSUME NEW v \in Version, UnsupportedNotice(v) \in said
        PROVE  v < MinVersion /\ v < Installed
    BY <2>2, <2>4 DEF NoticeInv
  <2>5. CASE daemon.notified = UpdateNotice(latest)
    <3>1. daemon'.step = "idle" /\ daemon'.notified = daemon.notified /\ said' = said
      BY <2>1, <2>5 DEF Announce, Daemon
    <3>2. NoticeInv'
      BY <2>2, <2>3, <2>4, <3>1 DEF NoticeInv, Supported, Newer
    <3> QED
      BY <3>1, <3>2
  <2>6. CASE daemon.notified # UpdateNotice(latest)
    <3>1. /\ daemon'.step = "idle" /\ daemon'.notified = UpdateNotice(latest)
          /\ said' = said \cup {UpdateNotice(latest)}
      BY <2>1, <2>6 DEF Announce, Daemon
    <3>2. UpdateNotice(latest) \notin said
      BY <2>1, <2>2, <2>6 DEF NoticeInv
    <3>3. ASSUME NEW v \in Version, UpdateNotice(v) \in said'
          PROVE  v <= latest /\ (daemon'.notified # UpdateNotice(v) => v < latest)
      <4>1. CASE v = latest
        BY <3>1, <4>1
      <4>2. CASE v # latest
        <5>1. UpdateNotice(v) \in said
          BY <3>1, <3>3, <4>2, NoticeNames
        <5> QED
          BY <4>2, <5>1 DEF NoticeInv
      <4> QED
        BY <4>1, <4>2
    <3>4. \A v \in Version : UnsupportedNotice(v) \in said' => UnsupportedNotice(v) \in said
      BY <3>1, NoticeNames
    <3>5. NoticeInv'
      BY <2>2, <2>3, <2>4, <3>1, <3>3, <3>4 DEF NoticeInv, Supported, Newer
    <3> QED
      BY <3>1, <3>2, <3>5
  <2> QED
    BY <2>5, <2>6
<1> QED
  BY <1>2, <1>3, <1>4, <1>5, <1>6 DEF DaemonStep, Decide, LatestStable

LEMMA AnnouncedNext ==
    ASSUME Orderly, "Twice" \notin Environment, AnnouncedInv, [Next]_vars
    PROVE  /\ AnnouncedInv'
           /\ \A n \in said : daemon'.notified = n => daemon.notified = n \/ said' = {}
<1>0. /\ TypeOK /\ AloneInv' /\ BusyInv' /\ WholeInv /\ WholeInv' /\ JobIsNewer' /\ NoticeInv
      /\ Installed # None => Installed' # None /\ Installed <= Installed'
  BY AloneStep, BusyNext, WholeNext, CliGrows DEF AnnouncedInv, AloneInv
<1>1. latest \in Nat /\ latest <= latest
  BY <1>0, WholeInstalled
<1>2. ASSUME UNCHANGED daemonVars, latest <= latest'
      PROVE  NoticeInv' /\ \A n \in said : daemon'.notified = n => daemon.notified = n
  BY <1>0, <1>2, NoticeQuiet DEF daemonVars
<1>3. \/ UNCHANGED daemonVars /\ latest <= latest'
      \/ DaemonStep
      \/ \E p \in Process : RestartDaemon(p)
  <2>1. ASSUME NEW p \in Process, LockStep(p) PROVE UNCHANGED <<daemonVars, latest>>
    BY <1>0, <2>1, LifeKeeps
  <2>2. ASSUME NEW p \in Process, SetupStep(p)
        PROVE  UNCHANGED <<daemonVars, latest>> \/ RestartDaemon(p)
    BY <2>2 DEF SetupStep, GetStarted, SetupPass, SaveStore, SaveDays, Save, SaveFile,
       SaveFails, SessionStatus, Login, Continue, AddFavorite, RestartFails, Navigate, cliVars
  <2>3. ASSUME NEW p \in Process, InstallStep(p) PROVE UNCHANGED <<daemonVars, latest>>
    BY <2>3 DEF InstallStep, InstallNow, Download, Verify, InstallFails, Install, InstallNext,
       NoOtherVars, cliVars
  <2>4. CASE Publish
    BY <1>1, <2>4 DEF Publish
  <2>5. CASE UNCHANGED vars
    BY <1>1, <2>5 DEF vars, cliVars
  <2> QED
    BY <1>1, <2>1, <2>2, <2>3, <2>4, <2>5 DEF Next, Pages
<1>4. ASSUME NEW p \in Process, RestartDaemon(p)
      PROVE  NoticeInv' /\ said' = {}
  <2>1. daemon'.step = "idle" /\ said' = {}
    BY <1>4 DEF RestartDaemon, Restarts, Started
  <2> QED
    BY <2>1 DEF NoticeInv
<1> QED
  BY <1>0, <1>2, <1>3, <1>4, NoticeDaemon DEF AnnouncedInv

LEMMA AnnouncedInit == "Twice" \notin Environment /\ Init => AnnouncedInv
<1> SUFFICES ASSUME "Twice" \notin Environment, Init PROVE AnnouncedInv
  OBVIOUS
<1>1. \A p \in Process : job[p][1].step = "none"
  BY DEF Init, Slot, NoJob
<1>2. said = {} /\ daemon.step = "idle"
  BY DEF Init, Started
<1> QED
  BY <1>1, <1>2, AloneInit, BusyInit, WholeInit DEF AnnouncedInv, JobIsNewer, NoticeInv

\* One run of the daemon gives no notice twice, however releases, checks and
\* installations fall, as long as what is installed never gets older.
THEOREM Once ==
    ASSUME Orderly, "Twice" \notin Environment
    PROVE  Spec => AnnouncedOnce
<1>1. "Twice" \notin Environment
  OBVIOUS
<1>2. Init => AnnouncedInv
  BY <1>1, AnnouncedInit
<1>3. AnnouncedInv /\ [Next]_vars => AnnouncedInv'
  BY AnnouncedNext
<1>4. AnnouncedInv /\ [Next]_vars =>
        [\A n \in said : daemon'.notified = n => daemon.notified = n \/ said' = {}]_vars
  BY AnnouncedNext
<1> QED
  BY <1>2, <1>3, <1>4, PTL DEF Spec, AnnouncedOnce
=============================================================================
