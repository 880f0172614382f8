------------------------------- MODULE Wizard -------------------------------
(***************************************************************************)
(* The setup wizard, the CLI's installation and the daemon's version check *)
(* as one system: WizardLock, Setup and CliUpdate over one state.          *)
(***************************************************************************)
EXTENDS CliUpdate, Setup

\* The user goes through the pages of a wizard.
Pages(p) == SetupStep(p) \/ InstallStep(p)

Next ==
    \/ \E p \in Process : LockStep(p)
    \/ ("Together" \notin Environment => ~breached) /\ \E p \in Process : Pages(p)
    \/ DaemonStep
    \/ Publish

Spec == Init /\ [][Next]_vars

\* The timer of the check comes round, and the manifest can be reached again
\* and again.
FairSpec == Spec /\ WF_vars(CheckVersion) /\ SF_vars(Decide)

-----------------------------------------------------------------------------
(***************************************************************************)
(* Properties.                                                             *)
(***************************************************************************)

\* "there's only ever one of these wizards open at a time" (main.qml), however
\* they start, end and are killed, until two of them cross between the look
\* at the lock and the claim, or the lock cannot be written.
OneWindow ==
    ~breached => \A p, q \in Process : At(p, "open") /\ At(q, "open") => p = q

\* The port and the token a window has read are those of its own server,
\* whatever wizards killed earlier have left in the runtime directory.
WindowReachesItsServer ==
    ~breached => \A p \in Process : At(p, "open") => Reaches(p)

\* daemon.toml holds what was saved last for either setting: a save leaves
\* "every other already-saved setting untouched" (route_save_config), also
\* between two wizards and after a failed save.
KeepsChoices == Load(config) = kept

\* When the setup says the daemon is running, the daemon reads the store the
\* user has signed in to, and the session is there: "that login lands in the
\* same store the daemon will actually read from" (route_save_config).
DaemonHasTheSession ==
    \A p \in Process :
        wizard[p].mode = "setup" /\ Shows(p, "running")
            => /\ daemon.up /\ daemon.store = window[p].auth
               /\ daemon.store \in sessions

\* Then Dolphin's worker will use that store too: the script keeps it "in
\* sync with whatever store the daemon just got pointed at".
WorkerFollowsDaemon ==
    \A p \in Process :
        wizard[p].mode = "setup" /\ Shows(p, "running") => script = daemon.store

\* "`dest` itself is only ever touched by the final, already-verified
\* rename" (download_and_install): what is installed is a whole release.
OnlyWholeReleases == cli # None => cli.whole /\ cli.version <= latest

\* One run of the daemon gives no notice twice: the notice that is new in a
\* step has not been given before ("suppresses repeat notifications/offers
\* for the same remote version across check cycles").
AnnouncedOnce ==
    [][\A n \in said : daemon'.notified = n => daemon.notified = n \/ said' = {}]_vars

\* A release newer than the CLI does not stay unannounced for ever.
Unannounced ==
    /\ daemon.up /\ Installed # None
    /\ Supported(Installed) /\ Newer(latest, Installed)
    /\ daemon.notified # <<"update", latest>>
NewerIsAnnounced == []<>~Unannounced
=============================================================================
