------------------------------ MODULE Transfer ------------------------------
(***************************************************************************)
(* The two ways the CLI is run.  A worker's downloads and uploads use the  *)
(* TransferHandle of core/src/transfer.rs, polled by the loops of get()    *)
(* and put() in worker/protondriveworker.cpp, which can be cancelled; all  *)
(* other calls, of workers, daemon and wizard, use the RealCommandRunner   *)
(* of core/src/cli.rs, which has a timeout.  Both repeat an attempt that   *)
(* failed on the CLI's own locked database.                                *)
(*                                                                         *)
(* A call runs beside the CLI's processes, the user who may cancel it, and *)
(* other calls.  An attempt is one process group: the CLI, and a helper it *)
(* may have forked.                                                        *)
(***************************************************************************)
EXTENDS Naturals

CONSTANTS
    Call,     \* the calls made
    Retries   \* LOCK_CONTENTION_RETRIES: how often a call may be attempted

ASSUME ConstantsAssumption == Retries \in Nat \ {0}

VARIABLES
    call,      \* call[c]: where the caller of c is
    group,     \* group[c]: the processes of the last attempt
    killed,    \* the calls whose KIO job the user has killed
    effects    \* effects[c]: how often c has taken effect on Drive (history)

vars == <<call, group, killed, effects>>

-----------------------------------------------------------------------------

\* A transfer alternates between wasKilled() and poll_transfer; any other
\* call waits for the output or the timeout.
State == [kind : {"transfer", "command"},
          step : {"idle", "check", "poll", "wait", "answered"},
          attempts : 0 .. Retries,
          answer : {"none", "ok", "failed", "cancelled", "timeout"}]

\* at: the CLI opens its database, works, and has done what it was asked.
Group == [leader : BOOLEAN, helper : BOOLEAN,
          at : {"open", "work", "done"}, out : {"none", "ok", "locked", "failed"}]

\* The values the variables take; no call makes more attempts than Retries.
TypeOK ==
    /\ call \in [Call -> State]
    /\ group \in [Call -> Group]
    /\ killed \subseteq Call
    /\ effects \in [Call -> Nat]

NoGroup == [leader |-> FALSE, helper |-> FALSE, at |-> "open", out |-> "none"]
NewGroup == [NoGroup EXCEPT !.leader = TRUE]
Alive(c) == group[c].leader \/ group[c].helper

Init ==
    /\ call \in [Call -> [kind : {"transfer", "command"}, step : {"idle"},
                          attempts : {0}, answer : {"none"}]]
    /\ group = [c \in Call |-> NoGroup]
    /\ killed = {}
    /\ effects = [c \in Call |-> 0]

At(c, step) == call[c].step = step
GoTo(c, step) == call' = [call EXCEPT ![c].step = step]
Answer(c, answer) ==
    call' = [call EXCEPT ![c].step = "answered", ![c].answer = answer]

\* The next attempt is spawned, or cannot be.
Attempt(c, step) ==
    \/ /\ call' = [call EXCEPT ![c].step = step, ![c].attempts = @ + 1]
       /\ group' = [group EXCEPT ![c] = NewGroup]
    \/ Answer(c, "failed") /\ UNCHANGED group

\* transfer.rs kill(): SIGKILL to the whole group.
KilledGroup(c) == [group[c] EXCEPT !.leader = FALSE, !.helper = FALSE]

-----------------------------------------------------------------------------
(***************************************************************************)
(* The CLI.                                                                *)
(***************************************************************************)

\* `proton-drive` forks a child of its own.
Fork(c) ==
    /\ group[c].leader /\ ~group[c].helper
    /\ group' = [group EXCEPT ![c].helper = TRUE]
    /\ UNCHANGED <<call, killed, effects>>

Open(c) ==
    /\ Alive(c) /\ group[c].at = "open"
    /\ group' = [group EXCEPT ![c].at = "work"]
    /\ UNCHANGED <<call, killed, effects>>

TakeEffect(c) ==
    /\ Alive(c) /\ group[c].at = "work"
    /\ group' = [group EXCEPT ![c].at = "done"]
    /\ effects' = [effects EXCEPT ![c] = @ + 1]
    /\ UNCHANGED <<call, killed>>

\* The CLI ends and its output is complete.  The lock error comes while
\* another CLI process runs and before the operation is attempted; any other
\* error may come before or after it, and a helper that does not hold the
\* pipes may work on.
Exit(c, out) ==
    /\ Alive(c) /\ group[c].out = "none"
    /\ out = "ok" => group[c].at = "done"
    /\ out = "locked" => group[c].at = "open" /\ \E b \in Call \ {c} : Alive(b)
    /\ \E helper \in {FALSE, group[c].helper /\ out # "locked"} :
         group' = [group EXCEPT ![c].leader = FALSE, ![c].helper = helper, ![c].out = out]
    /\ UNCHANGED <<call, killed, effects>>

HelperEnds(c) ==
    /\ group[c].helper /\ group[c].out # "none"
    /\ group' = [group EXCEPT ![c].helper = FALSE]
    /\ UNCHANGED <<call, killed, effects>>

-----------------------------------------------------------------------------
(***************************************************************************)
(* The callers.                                                            *)
(***************************************************************************)

Start(c) ==
    /\ At(c, "idle")
    /\ Attempt(c, IF call[c].kind = "transfer" THEN "check" ELSE "wait")
    /\ UNCHANGED <<killed, effects>>

\* Mutant of Retry: every failed attempt is repeated.
RetryAlways(c) == group[c].out \in {"locked", "failed"} /\ call[c].attempts < Retries

\* Mutant of Retry: one attempt too many.
RetryOnceMore(c) == group[c].out = "locked" /\ call[c].attempts <= Retries

\* is_transient_lock_contention, and attempts left.
Retry(c) == group[c].out = "locked" /\ call[c].attempts < Retries

\* The user cancels the job.
Kill(c) ==
    /\ call[c].kind = "transfer" /\ ~At(c, "idle") /\ ~At(c, "answered")
    /\ killed' = killed \cup {c}
    /\ UNCHANGED <<call, group, effects>>

Check(c) ==
    /\ At(c, "check") /\ c \notin killed
    /\ GoTo(c, "poll")
    /\ UNCHANGED <<group, killed, effects>>

\* wasKilled(): cancel_transfer, and the handle is dropped.
Cancel(c) ==
    /\ At(c, "check") /\ c \in killed
    /\ group' = [group EXCEPT ![c] = KilledGroup(c)]
    /\ Answer(c, "cancelled")
    /\ UNCHANGED <<killed, effects>>

\* Mutant of PollPending: poll waits for the output without a limit.
PollBlocked(c) ==
    /\ At(c, "poll") /\ group[c].out # "none"
    /\ ~Retry(c) /\ group[c].out = "none"
    /\ GoTo(c, "check")
    /\ UNCHANGED <<group, killed, effects>>

\* POLL_INTERVAL passes without an output.
PollPending(c) ==
    /\ At(c, "poll") /\ group[c].out = "none"
    /\ GoTo(c, "check")
    /\ UNCHANGED <<group, killed, effects>>

PollRetry(c) ==
    /\ At(c, "poll") /\ Retry(c)
    /\ Attempt(c, "check")
    /\ UNCHANGED <<killed, effects>>

\* Mutant of PollDone: the output is taken for a success unread.
PollDoneUnread(c) ==
    /\ At(c, "poll") /\ group[c].out # "none" /\ ~Retry(c)
    /\ Answer(c, "ok")
    /\ group' = [group EXCEPT ![c] = KilledGroup(c)]
    /\ UNCHANGED <<killed, effects>>

\* Mutant of PollDone: the handle is dropped without a kill.
PollDoneSpared(c) ==
    /\ At(c, "poll") /\ group[c].out # "none" /\ ~Retry(c)
    /\ Answer(c, IF group[c].out = "ok" THEN "ok" ELSE "failed")
    /\ UNCHANGED <<group, killed, effects>>

\* poll_transfer: finish_download or finish_upload reads the output.  The
\* handle is dropped, which kills what is left of the group.
PollDone(c) ==
    /\ At(c, "poll") /\ group[c].out # "none" /\ ~Retry(c)
    /\ Answer(c, IF group[c].out = "ok" THEN "ok" ELSE "failed")
    /\ group' = [group EXCEPT ![c] = KilledGroup(c)]
    /\ UNCHANGED <<killed, effects>>

\* RealCommandRunner::run_once gets its output; run() repeats it.
WaitRetry(c) ==
    /\ At(c, "wait") /\ Retry(c)
    /\ Attempt(c, "wait")
    /\ UNCHANGED <<killed, effects>>

WaitDone(c) ==
    /\ At(c, "wait") /\ group[c].out # "none" /\ ~Retry(c)
    /\ Answer(c, IF group[c].out = "ok" THEN "ok" ELSE "failed")
    /\ UNCHANGED <<group, killed, effects>>

\* The timeout: kill -9 of the CLI's process, not of its group, if there is a
\* `kill` to run.
Timeout(c) ==
    /\ At(c, "wait") /\ group[c].out = "none"
    /\ group' \in {group, [group EXCEPT ![c].leader = FALSE]}
    /\ Answer(c, "timeout")
    /\ UNCHANGED <<killed, effects>>

CallerStep(c) ==
    \/ Start(c)
    \/ Check(c) \/ Cancel(c) \/ PollPending(c) \/ PollRetry(c) \/ PollDone(c)
    \/ WaitRetry(c) \/ WaitDone(c) \/ Timeout(c)

CliStep(c) ==
    \/ Fork(c) \/ Open(c) \/ TakeEffect(c) \/ HelperEnds(c)
    \/ \E out \in {"ok", "locked", "failed"} : Exit(c, out)

-----------------------------------------------------------------------------

Next == \E c \in Call : CallerStep(c) \/ CliStep(c) \/ Kill(c)

Spec == Init /\ [][Next]_vars

\* The callers run and their timers fire; the CLI may hang for ever.
FairSpec == Spec /\ \A c \in Call : WF_vars(CallerStep(c))

-----------------------------------------------------------------------------
(***************************************************************************)
(* Properties.                                                             *)
(***************************************************************************)

\* However often a call is repeated, it takes effect at most once: a repeat
\* only follows an attempt that did nothing yet ("so nothing has happened
\* yet on our side, safe to retry", cli.rs).
AtMostOnce == \A c \in Call : effects[c] <= 1

\* A call answered with success has taken effect, exactly once, whichever of
\* its attempts has done it.
OkMeansDone ==
    \A c \in Call : call[c].answer = "ok" => effects[c] = 1

\* Once a transfer is answered none of its processes runs: "nothing outlives
\* the caller that isn't already reaped by Drop" (transfer.rs).  What Drive
\* holds does not change behind the user's back after a cancel.
NothingOutlives ==
    \A c \in Call : call[c].kind = "transfer" /\ At(c, "answered") => ~Alive(c)

\* A cancelled transfer is answered, and so is every other call, also if the
\* CLI hangs or its database stays locked.
Waiting(c) == c \in killed \/ At(c, "wait")
AlwaysAnswered == \A c \in Call : Waiting(c) ~> At(c, "answered")
=============================================================================
