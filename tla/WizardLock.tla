---------------------------- MODULE WizardLock ----------------------------
(***************************************************************************)
(* The life of a wizard process: main() of wizard/src/main.rs and the      *)
(* start of its window in qml/main.qml.  The lock file keeps a second      *)
(* wizard away; port and token tell the window where its own server is.    *)
(***************************************************************************)
EXTENDS WizardState

\* Unless a run says so no wizard starts or ends while another one does.
Quiet(p, steps) ==
    "Together" \in Environment \/ \A q \in Process \ {p} : wizard[q].step \notin steps
MayStart(p) == Quiet(p, IF "AtOnce" \in Environment THEN Closing ELSE Starting \cup Closing)
MayEnd(p) == Quiet(p, Starting \cup Closing)

IsNext(p) == At(p, "new") /\ \A q \in Process : At(q, "new") => p <= q
Exit(p) == wizard' = [wizard EXCEPT ![p] = [step |-> "gone", mode |-> "setup"]]
Spawn(p, mode) == wizard' = [wizard EXCEPT ![p] = [step |-> "checking", mode |-> mode]]

\* The user, or the daemon's alert about a missing session, starts a wizard.
Launch(p) ==
    /\ IsNext(p) /\ MayStart(p)
    /\ Spawn(p, "setup")
    /\ UNCHANGED <<lock, port, token, breached, window, setupVars, cliVars, daemonVars>>

\* Mutant of CheckLock: the lock file is written and never read.
CheckLockBlind(p) ==
    /\ At(p, "checking")
    /\ GoTo(p, "claiming")
    /\ UNCHANGED <<lock, port, token, breached, window, setupVars, cliVars, daemonVars>>

\* A live process in the lock file ends this one; a dead one does not count.
CheckLock(p) ==
    /\ At(p, "checking")
    /\ IF lock # None /\ Alive(lock) THEN Exit(p) ELSE GoTo(p, "claiming")
    /\ UNCHANGED <<lock, port, token, breached, window, setupVars, cliVars, daemonVars>>

\* What is written to the runtime directory; an error is ignored.
Written(file, p) ==
    IF "Unwritable" \in Environment THEN {p, file} ELSE {p}

\* The look and the claim are two steps, and nothing keeps another wizard
\* from looking in between.
Claim(p) ==
    /\ At(p, "claiming")
    /\ lock' \in Written(lock, p)
    /\ breached' = (\/ breached \/ lock' # p
                    \/ \E q \in Process \ {p} : At(q, "claiming"))
    /\ GoTo(p, "binding")
    /\ UNCHANGED <<port, token, window, setupVars, cliVars, daemonVars>>

\* start_control_server, and the two files that tell where it is.
WritePort(p) ==
    /\ At(p, "binding")
    /\ port' \in Written(port, p)
    /\ GoTo(p, "signing")
    /\ UNCHANGED <<lock, token, breached, window, setupVars, cliVars, daemonVars>>

\* Mutant of WriteToken: a token file that is there is kept.
WriteTokenOnce(p) ==
    /\ At(p, "signing")
    /\ token' = IF token = None THEN p ELSE token
    /\ GoTo(p, "opening")
    /\ UNCHANGED <<lock, port, breached, window, setupVars, cliVars, daemonVars>>

WriteToken(p) ==
    /\ At(p, "signing")
    /\ token' \in Written(token, p)
    /\ GoTo(p, "opening")
    /\ UNCHANGED <<lock, port, breached, window, setupVars, cliVars, daemonVars>>

\* main.qml reads the files when the window is there.
ReadPort(p) ==
    /\ At(p, "opening")
    /\ window' = [window EXCEPT ![p].port = port]
    /\ GoTo(p, "joining")
    /\ UNCHANGED <<lock, port, token, breached, setupVars, cliVars, daemonVars>>

ReadToken(p) ==
    /\ At(p, "joining")
    /\ window' = [window EXCEPT ![p].token = token,
                    ![p].page = IF wizard[p].mode = "setup" THEN "welcome" ELSE "update"]
    /\ GoTo(p, "open")
    /\ UNCHANGED <<lock, port, token, breached, setupVars, cliVars, daemonVars>>

\* What dies with the process: its requests, and the file it was downloading to,
\* which stays but is never looked at again.
Ends(p) ==
    /\ window' = [window EXCEPT ![p] = NoWindow]
    /\ env' = [env EXCEPT ![p] = "keychain"]
    /\ request' = [request EXCEPT ![p] = NoRequest]
    /\ job' = [job EXCEPT ![p] = [i \in Slot |-> NoJob]]
    /\ tmp' = [tmp EXCEPT ![p] = None]
    /\ UNCHANGED <<config, script, sessions, keys, favorite, kept,
                   cli, latest, shadow, daemonVars>>

\* The window is closed, or could not be opened; the server answers on until
\* the three files are removed, whoever wrote them.
Close(p) ==
    /\ wizard[p].step \in {"opening", "joining", "open"} /\ MayEnd(p)
    /\ GoTo(p, "closing")
    /\ UNCHANGED <<lock, port, token, breached, window, setupVars, cliVars, daemonVars>>

RemoveLock(p) ==
    /\ At(p, "closing")
    /\ lock' = None
    /\ GoTo(p, "unlocked")
    /\ UNCHANGED <<port, token, breached, window, setupVars, cliVars, daemonVars>>

RemovePort(p) ==
    /\ At(p, "unlocked")
    /\ port' = None
    /\ GoTo(p, "unported")
    /\ UNCHANGED <<lock, token, breached, window, setupVars, cliVars, daemonVars>>

RemoveToken(p) ==
    /\ At(p, "unported")
    /\ token' = None
    /\ Exit(p)
    /\ Ends(p)
    /\ UNCHANGED <<lock, port, breached>>

\* The process is killed and leaves its files behind.  Its window, a process of
\* its own (qml6), stays on the screen; it has lost its server and is not
\* followed any further.
Crash(p) ==
    /\ "Crash" \in Environment /\ Alive(p)
    /\ Exit(p)
    /\ Ends(p)
    /\ UNCHANGED <<lock, port, token, breached>>

LockStep(p) ==
    \/ Launch(p) \/ CheckLock(p) \/ Claim(p) \/ WritePort(p) \/ WriteToken(p)
    \/ ReadPort(p) \/ ReadToken(p)
    \/ Close(p) \/ RemoveLock(p) \/ RemovePort(p) \/ RemoveToken(p) \/ Crash(p)
=============================================================================
