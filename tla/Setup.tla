------------------------------- MODULE Setup -------------------------------
(***************************************************************************)
(* The pages of the first run, in wizard/qml, and the routes of            *)
(* wizard/src/main.rs behind them: choose where the session is kept, sign  *)
(* in, set the retention, restart the daemon.  A route other than the two  *)
(* kinds of save is one step.                                              *)
(***************************************************************************)
EXTENDS WizardState

Fails == "Failure" \in Environment

\* Welcome.qml: on with a CLI that is recent enough, as one whose version
\* cannot be read counts, or to its installation.
GetStarted(p) ==
    /\ Shows(p, "welcome")
    /\ \/ /\ Found /\ (Installed = None \/ Fails \/ Supported(Installed))
          /\ Show(p, "credentials")
       \/ /\ Found => Installed # None /\ ~Supported(Installed)
          /\ Show(p, "install")
    /\ UNCHANGED <<lockVars, setupVars, cliVars, daemonVars>>

\* route_setup_pass: a key is made if there is none, then pass is set up for
\* it; the button is only there without a key.
SetupPass(p) ==
    /\ Shows(p, "credentials")
    /\ "gpg" \notin keys
    /\ \/ keys' = {"gpg", "pass"}
       \/ Fails /\ keys' = keys \cup {"gpg"}
    /\ UNCHANGED <<lockVars, window, env, request, config, script, sessions,
                   favorite, kept, cliVars, daemonVars>>

\* Mutant of Save: the script is only written for a store that is named.
SaveNamed(p, field, hand) ==
    /\ request' = [request EXCEPT ![p] = [field |-> field, hand |-> hand]]
    /\ env' = [env EXCEPT ![p] = Resolved(hand.store)]
    /\ script' = IF hand.store = None THEN script ELSE hand.store
    /\ UNCHANGED <<lockVars, window, config, sessions, keys, favorite, kept,
                   cliVars, daemonVars>>

\* The script Plasma runs at the next login; that it fails is only logged.
WriteScript(store) ==
    \/ script' = store
    \/ "ScriptFails" \in Environment /\ script' = script

\* The part of route_save_config before the file is written: the settings
\* as they would be, the store of this process and of the next login.
Save(p, field, hand) ==
    /\ request' = [request EXCEPT ![p] = [field |-> field, hand |-> hand]]
    /\ env' = [env EXCEPT ![p] = Resolved(hand.store)]
    /\ WriteScript(Resolved(hand.store))
    /\ UNCHANGED <<lockVars, window, config, sessions, keys, favorite, kept,
                   cliVars, daemonVars>>

\* Mutant of SaveStore: a new configuration is built from scratch.
SaveStoreAlone(p, store) ==
    /\ Shows(p, "credentials")
    /\ store = "pass" => PassOffered
    /\ Save(p, "store", [Defaults EXCEPT !.store = store])

\* Credentials.qml: the default store, sent as an empty value, or pass.
SaveStore(p, store) ==
    /\ Shows(p, "credentials")
    /\ store = "pass" => PassOffered
    /\ Save(p, "store", [Load(config) EXCEPT !.store = store])

SaveDays(p, d) ==
    /\ Shows(p, "retention")
    /\ Save(p, "days", [Load(config) EXCEPT !.days = d])

\* The file is written and the page told so.
SaveFile(p) ==
    LET field == request[p].field
        hand == request[p].hand IN
    /\ field # "none"
    /\ config' = hand
    /\ request' = [request EXCEPT ![p] = NoRequest]
    /\ kept' = IF field = "store" THEN [kept EXCEPT !.store = hand.store]
                                  ELSE [kept EXCEPT !.days = hand.days]
    /\ window' = [window EXCEPT ![p] =
                      IF field = "store" THEN [@ EXCEPT !.page = "auth", !.auth = None]
                                         ELSE [@ EXCEPT !.page = "finish"]]
    /\ UNCHANGED <<lockVars, env, script, sessions, keys, favorite, cliVars, daemonVars>>

\* It cannot be opened, or fs::write stops after having emptied it; the page
\* stays and shows the error.
SaveFails(p) ==
    /\ request[p].field # "none"
    /\ \/ Fails /\ config' = config
       \/ "Torn" \in Environment /\ config' = Defaults
    /\ request' = [request EXCEPT ![p] = NoRequest]
    /\ UNCHANGED <<lockVars, window, env, script, sessions, keys, favorite, kept,
                   cliVars, daemonVars>>

SignedIn(p, store) == window' = [window EXCEPT ![p].auth = store]

\* Auth.qml as it opens: every answer but "not authenticated" counts.
SessionStatus(p) ==
    /\ Shows(p, "auth") /\ window[p].auth = None
    /\ env[p] \in sessions \/ "Offline" \in Environment
    /\ SignedIn(p, env[p])
    /\ UNCHANGED <<lockVars, setupVars, cliVars, daemonVars>>

\* Mutant of Login: the login goes to the store the CLI takes by default.
LoginToKeychain(p) ==
    /\ Shows(p, "auth") /\ window[p].auth = None
    /\ sessions' = sessions \cup {"keychain"}
    /\ SignedIn(p, "keychain")
    /\ UNCHANGED <<lockVars, env, request, config, script, keys, favorite, kept,
                   cliVars, daemonVars>>

\* `auth login` under this process's store; pass has to be initialized.
Login(p) ==
    /\ Shows(p, "auth") /\ window[p].auth = None
    /\ env[p] = "pass" => "pass" \in keys
    /\ sessions' = sessions \cup {env[p]}
    /\ SignedIn(p, env[p])
    /\ UNCHANGED <<lockVars, env, request, config, script, keys, favorite, kept,
                   cliVars, daemonVars>>

\* The "Next" of Auth.qml, once signed in, and of Favorite.qml.
Continue(p) ==
    /\ \/ Shows(p, "auth") /\ window[p].auth # None /\ Show(p, "favorite")
       \/ Shows(p, "favorite") /\ Show(p, "retention")
    /\ UNCHANGED <<lockVars, setupVars, cliVars, daemonVars>>

\* Finish.qml: the bookmark first, if it is wanted and can be added.
AddFavorite(p) ==
    /\ Shows(p, "finish")
    /\ favorite' \in {TRUE, favorite}
    /\ Show(p, "restart")
    /\ UNCHANGED <<lockVars, env, request, config, script, sessions, keys, kept,
                   cliVars, daemonVars>>

\* route_restart_daemon, at the end of the setup and of an update.
RestartDaemon(p) ==
    /\ Shows(p, "restart") \/ Shows(p, "updated")
    /\ Show(p, "running")
    /\ Restarts
    /\ UNCHANGED <<lockVars, setupVars, cliVars>>

RestartFails(p) ==
    /\ Shows(p, "restart") \/ Shows(p, "updated")
    /\ Fails
    /\ Show(p, "done")
    /\ UNCHANGED <<lockVars, setupVars, cliVars, daemonVars>>

\* The user goes back to Credentials.qml, and from there to the Auth.qml that
\* is still beside it.
Navigate(p) ==
    /\ \/ /\ \E page \in {"auth", "favorite", "retention"} : Shows(p, page)
          /\ Show(p, "credentials")
       \/ "Forward" \in Environment /\ Shows(p, "credentials") /\ Show(p, "auth")
    /\ UNCHANGED <<lockVars, setupVars, cliVars, daemonVars>>

SetupStep(p) ==
    \/ GetStarted(p) \/ SetupPass(p)
    \/ \E store \in {None, "pass"} : SaveStore(p, store)
    \/ \E d \in Days : SaveDays(p, d)
    \/ SaveFile(p) \/ SaveFails(p)
    \/ SessionStatus(p) \/ Login(p) \/ Continue(p)
    \/ AddFavorite(p) \/ RestartDaemon(p) \/ RestartFails(p)
    \/ Navigate(p)
=============================================================================
