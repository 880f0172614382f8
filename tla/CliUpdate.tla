----------------------------- MODULE CliUpdate -----------------------------
(***************************************************************************)
(* New releases of the `proton-drive` CLI: the daemon's check in           *)
(* daemon/src/version_check.rs, which announces and offers each once, and  *)
(* the installation by core/src/cli_update.rs, which the wizard's pages    *)
(* InstallCli.qml and UpdateCli.qml ask for.                               *)
(***************************************************************************)
EXTENDS WizardLock

\* fetch_latest_stable: the one stable release in the manifest.
LatestStable == latest

\* A release comes out.
Publish ==
    /\ latest < MaxVersion
    /\ latest' = latest + 1
    /\ UNCHANGED <<lockVars, window, setupVars, cli, tmp, job, shadow, daemonVars>>

-----------------------------------------------------------------------------
(***************************************************************************)
(* The daemon's check.                                                     *)
(***************************************************************************)

\* offer_wizard_update: a wizard is started, or the binary is not ours to
\* replace, or there is no wizard to start.
Offer ==
    \/ UNCHANGED wizard
    \/ \E p \in Process : IsNext(p) /\ MayStart(p) /\ Spawn(p, "update-cli")

\* A notice is given and remembered, unless it is the one given last.
Announce(notice) ==
    IF daemon.notified = notice
    THEN daemon' = [daemon EXCEPT !.step = "idle"] /\ UNCHANGED <<said, wizard>>
    ELSE /\ daemon' = [daemon EXCEPT !.step = "idle", !.notified = notice]
         /\ said' = said \cup {notice}
         /\ Offer

\* check, up to the manifest: what is installed, and whether it will do.
CheckVersion ==
    /\ daemon.up /\ daemon.step = "idle" /\ Installed # None
    /\ IF Supported(Installed)
       THEN /\ daemon' = [daemon EXCEPT !.step = "fetch", !.seen = Installed]
            /\ UNCHANGED <<said, wizard>>
       ELSE Announce(<<"unsupported", Installed>>)
    /\ UNCHANGED <<lock, port, token, breached, window, setupVars, cliVars>>

\* Mutant of Decide: one notice is enough, whatever it was about.
DecideOnce ==
    /\ daemon.step = "fetch"
    /\ IF Newer(LatestStable, daemon.seen)
       THEN IF daemon.notified = None THEN Announce(<<"update", LatestStable>>)
            ELSE daemon' = [daemon EXCEPT !.step = "idle"] /\ UNCHANGED <<said, wizard>>
       ELSE /\ daemon' = [daemon EXCEPT !.step = "idle", !.notified = None]
            /\ UNCHANGED <<said, wizard>>
    /\ UNCHANGED <<lock, port, token, breached, window, setupVars, cliVars>>

\* The manifest is there.  Up to date: the next notice is a new one.
Decide ==
    /\ daemon.step = "fetch"
    /\ IF Newer(LatestStable, daemon.seen)
       THEN Announce(<<"update", LatestStable>>)
       ELSE /\ daemon' = [daemon EXCEPT !.step = "idle", !.notified = None]
            /\ UNCHANGED <<said, wizard>>
    /\ UNCHANGED <<lock, port, token, breached, window, setupVars, cliVars>>

\* Mutant of FetchFails: without an answer the last notice is forgotten.
FetchFailsForgetful ==
    /\ daemon.step = "fetch" /\ "Failure" \in Environment
    /\ daemon' = [daemon EXCEPT !.step = "idle", !.notified = None]
    /\ UNCHANGED <<lockVars, window, setupVars, cliVars, said>>

FetchFails ==
    /\ daemon.step = "fetch" /\ "Failure" \in Environment
    /\ daemon' = [daemon EXCEPT !.step = "idle"]
    /\ UNCHANGED <<lockVars, window, setupVars, cliVars, said>>

DaemonStep == CheckVersion \/ Decide \/ FetchFails

-----------------------------------------------------------------------------
(***************************************************************************)
(* The installation: download_and_install.                                 *)
(***************************************************************************)

JobAt(p, i, step) == job[p][i].step = step
SetJob(p, i, j) == job' = [job EXCEPT ![p][i] = j]
SetTmp(p, binary) == tmp' = [tmp EXCEPT ![p] = binary]
NoOtherVars == UNCHANGED <<lockVars, setupVars, latest, shadow, daemonVars>>

\* "Install now" or "Update now": the manifest, then curl opens the file.
InstallNow(p, i) ==
    /\ Shows(p, "install") \/ Shows(p, "update")
    /\ JobAt(p, i, "none")
    /\ SetJob(p, i, [step |-> "download", version |-> LatestStable])
    /\ SetTmp(p, [version |-> LatestStable, whole |-> FALSE])
    /\ UNCHANGED <<window, cli>> /\ NoOtherVars

\* curl is done, with the file that was meant or with another one.
Download(p, i) ==
    /\ JobAt(p, i, "download")
    /\ SetJob(p, i, [job[p][i] EXCEPT !.step = "verify"])
    /\ \E whole \in BOOLEAN :
        tmp' = IF tmp[p] = None THEN tmp
               ELSE [tmp EXCEPT ![p] = [version |-> job[p][i].version, whole |-> whole]]
    /\ UNCHANGED <<window, cli>> /\ NoOtherVars

\* Mutant of Verify: the checksum is not looked at.
VerifyNothing(p, i) ==
    /\ JobAt(p, i, "verify")
    /\ tmp[p] # None
    /\ SetJob(p, i, [job[p][i] EXCEPT !.step = "rename"])
    /\ UNCHANGED <<window, cli, tmp>> /\ NoOtherVars

\* sha512sum agrees with the manifest.
Verify(p, i) ==
    /\ JobAt(p, i, "verify")
    /\ tmp[p] = [version |-> job[p][i].version, whole |-> TRUE]
    /\ SetJob(p, i, [job[p][i] EXCEPT !.step = "rename"])
    /\ UNCHANGED <<window, cli, tmp>> /\ NoOtherVars

\* Any step fails, the comparison too: the temporary file goes.
InstallFails(p, i) ==
    /\ ~JobAt(p, i, "none")
    /\ \/ "Failure" \in Environment
       \/ JobAt(p, i, "verify") /\ tmp[p] # [version |-> job[p][i].version, whole |-> TRUE]
       \/ JobAt(p, i, "rename") /\ tmp[p] = None
    /\ SetJob(p, i, NoJob)
    /\ SetTmp(p, None)
    /\ UNCHANGED <<window, cli>> /\ NoOtherVars

\* Made executable and renamed into place; the page says so.
Install(p, i) ==
    /\ JobAt(p, i, "rename") /\ tmp[p] # None
    /\ cli' = tmp[p]
    /\ SetTmp(p, None)
    /\ SetJob(p, i, NoJob)
    /\ IF window[p].page = "install" THEN Show(p, "installed")
       ELSE IF window[p].page = "update" THEN Show(p, "updated")
       ELSE UNCHANGED window
    /\ NoOtherVars

\* "Next" of InstallCli.qml.
InstallNext(p) ==
    /\ Shows(p, "installed")
    /\ Show(p, "credentials")
    /\ UNCHANGED <<lockVars, setupVars, cliVars, daemonVars>>

InstallStep(p) ==
    \/ \E i \in Slot :
        \/ InstallNow(p, i) \/ Download(p, i) \/ Verify(p, i)
        \/ InstallFails(p, i) \/ Install(p, i)
    \/ InstallNext(p)
=============================================================================
