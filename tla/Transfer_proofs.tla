-------------------------- MODULE Transfer_proofs --------------------------
(***************************************************************************)
(* Proofs about Transfer for every set of calls and number of attempts.    *)
(***************************************************************************)
EXTENDS Transfer, TLAPS

(***************************************************************************)
(* The inductive invariant, call by call.  AtMostOnce does not survive a   *)
(* repeat by itself: it needs that a lock error leaves the CLI where it    *)
(* has not begun, and that `effects` says no more than `at` does.          *)
(***************************************************************************)

\* Before its start a call has no process and no attempt.
Unstarted(c) == At(c, "idle") => call[c].attempts = 0 /\ group[c] = NoGroup

\* What the last attempt has done, and what its output says about it.
Outcome(c) ==
    /\ effects[c] = IF group[c].at = "done" THEN 1 ELSE 0
    /\ group[c].out = "locked" => group[c].at = "open"
    /\ group[c].out = "ok" => group[c].at = "done"
    /\ group[c].out = "locked" => ~Alive(c)

\* A transfer is polled and has no process once answered, a command waits.
Caller(c) ==
    /\ call[c].kind = "transfer" => ~At(c, "wait")
    /\ call[c].kind = "command" => ~At(c, "check") /\ ~At(c, "poll")
    /\ call[c].kind = "transfer" /\ At(c, "answered") => ~Alive(c)

Answered(c) ==
    /\ call[c].answer # "none" => At(c, "answered")
    /\ call[c].answer = "ok" => group[c].at = "done"

CallInv(c) == Unstarted(c) /\ Outcome(c) /\ Caller(c) /\ Answered(c)

IInv == TypeOK /\ \A c \in Call : CallInv(c)

\* What a step of one call leaves as it is.
Others(c) ==
    \A b \in Call \ {c} :
        call'[b] = call[b] /\ group'[b] = group[b] /\ effects'[b] = effects[b]

LEMMA InitIInv == Init => IInv
<1> SUFFICES ASSUME Init PROVE IInv
  OBVIOUS
<1>1. TypeOK
  BY ConstantsAssumption DEF Init, TypeOK, State, Group, NoGroup
<1>2. ASSUME NEW c \in Call PROVE CallInv(c)
  BY DEF Init, CallInv, Unstarted, Outcome, Caller, Answered, At, Alive, NoGroup
<1> QED
  BY <1>1, <1>2 DEF IInv

\* Updates of single fields stay in the types.
LEMMA FieldTypes ==
    ASSUME TypeOK, NEW c \in Call
    PROVE  /\ call[c] \in State /\ group[c] \in Group /\ effects[c] \in Nat
           /\ \A s \in {"idle", "check", "poll", "wait", "answered"} :
                /\ [call[c] EXCEPT !.step = s] \in State
                /\ \A a \in {"none", "ok", "failed", "cancelled", "timeout"} :
                     [call[c] EXCEPT !.step = s, !.answer = a] \in State
                /\ call[c].attempts < Retries =>
                     [call[c] EXCEPT !.step = s, !.attempts = @ + 1] \in State
           /\ [group[c] EXCEPT !.leader = FALSE] \in Group
           /\ KilledGroup(c) \in Group /\ NewGroup \in Group
<1>1. call[c] \in State /\ group[c] \in Group /\ effects[c] \in Nat
  BY DEF TypeOK
<1>2. /\ call[c].attempts \in 0 .. Retries
      /\ call[c].attempts < Retries => call[c].attempts + 1 \in 0 .. Retries
  BY <1>1, ConstantsAssumption DEF State
<1>3. KilledGroup(c) \in Group /\ NewGroup \in Group
  BY <1>1 DEF KilledGroup, NewGroup, NoGroup, Group
<1> QED
  BY <1>1, <1>2, <1>3 DEF State, Group

-----------------------------------------------------------------------------

\* A new attempt: after a lock error, or the first one.
LEMMA AttemptStep ==
    ASSUME IInv, NEW c \in Call, NEW step \in {"check", "wait"},
           Attempt(c, step), UNCHANGED <<killed, effects>>,
           step = (IF call[c].kind = "transfer" THEN "check" ELSE "wait"),
           group[c].at = "open", ~Alive(c), call[c].attempts < Retries,
           call[c].answer = "none"
    PROVE  TypeOK' /\ CallInv(c)' /\ Others(c)
<1> USE DEF IInv
<1>1. CallInv(c) /\ call[c] \in State /\ group[c] \in Group
  BY FieldTypes
<1>2. CASE /\ call' = [call EXCEPT ![c].step = step, ![c].attempts = @ + 1]
           /\ group' = [group EXCEPT ![c] = NewGroup]
  <2>1. [call[c] EXCEPT !.step = step, !.attempts = @ + 1] \in State
        /\ NewGroup \in Group
    BY FieldTypes
  <2>2. TypeOK'
    BY <1>2, <2>1 DEF TypeOK
  <2>3. CallInv(c)'
    BY <1>1, <1>2 DEF TypeOK, CallInv, Unstarted, Outcome, Caller, Answered,
       At, Alive, NewGroup, NoGroup, State, Group
  <2> QED
    BY <1>2, <2>2, <2>3 DEF Others, TypeOK
<1>3. CASE Answer(c, "failed") /\ UNCHANGED group
  <2>1. [call[c] EXCEPT !.step = "answered", !.answer = "failed"] \in State
    BY FieldTypes
  <2>2. TypeOK'
    BY <1>3, <2>1 DEF TypeOK, Answer
  <2>3. CallInv(c)'
    BY <1>1, <1>3 DEF TypeOK, CallInv, Unstarted, Outcome, Caller, Answered,
       At, Alive, Answer, State, Group
  <2> QED
    BY <1>3, <2>2, <2>3 DEF Others, TypeOK, Answer
<1> QED
  BY <1>2, <1>3 DEF Attempt

\* The caller's steps.
LEMMA CallerStepInv ==
    ASSUME IInv, NEW c \in Call, CallerStep(c)
    PROVE  TypeOK' /\ CallInv(c)' /\ Others(c)
<1> USE DEF IInv
<1>1. CallInv(c) /\ call[c] \in State /\ group[c] \in Group
      /\ KilledGroup(c) \in Group /\ [group[c] EXCEPT !.leader = FALSE] \in Group
      /\ \A s \in {"poll", "check"} : [call[c] EXCEPT !.step = s] \in State
      /\ \A a \in {"ok", "failed", "cancelled", "timeout"} :
           [call[c] EXCEPT !.step = "answered", !.answer = a] \in State
  BY FieldTypes
<1> DEFINE Result == IF group[c].out = "ok" THEN "ok" ELSE "failed"
<1>2. CASE Start(c)
  <2>1. /\ group[c].at = "open" /\ ~Alive(c) /\ call[c].answer = "none"
        /\ call[c].attempts < Retries
    BY <1>1, <1>2, ConstantsAssumption
       DEF Start, CallInv, Unstarted, Answered, At, Alive, NoGroup
  <2> QED
    BY <1>2, <2>1, AttemptStep DEF Start
<1>3. ASSUME NEW step \in {"check", "wait"}, Retry(c), Attempt(c, step),
             UNCHANGED <<killed, effects>>, ~At(c, "answered"),
             step = (IF call[c].kind = "transfer" THEN "check" ELSE "wait")
      PROVE  TypeOK' /\ CallInv(c)' /\ Others(c)
  <2>1. /\ group[c].at = "open" /\ ~Alive(c) /\ call[c].answer = "none"
        /\ call[c].attempts < Retries
    BY <1>1, <1>3 DEF Retry, CallInv, Outcome, Answered
  <2> QED
    BY <1>3, <2>1, AttemptStep
<1>4. CASE PollRetry(c)
  BY <1>1, <1>3, <1>4 DEF PollRetry, CallInv, Caller, At, State
<1>5. CASE WaitRetry(c)
  BY <1>1, <1>3, <1>5 DEF WaitRetry, CallInv, Caller, At, State
<1>6. CASE Check(c) \/ PollPending(c)
  <2>1. TypeOK'
    BY <1>1, <1>6 DEF TypeOK, Check, PollPending, GoTo
  <2>2. CallInv(c)'
    BY <1>1, <1>6 DEF TypeOK, Check, PollPending, GoTo, CallInv, Unstarted,
       Outcome, Caller, Answered, At, Alive, State, Group
  <2> QED
    BY <1>6, <2>1, <2>2 DEF Others, TypeOK, Check, PollPending, GoTo
<1>7. CASE Cancel(c)
  <2>1. TypeOK'
    BY <1>1, <1>7 DEF TypeOK, Cancel, Answer
  <2>2. CallInv(c)'
    BY <1>1, <1>7 DEF TypeOK, Cancel, Answer, KilledGroup, CallInv, Unstarted,
       Outcome, Caller, Answered, At, Alive, State, Group
  <2> QED
    BY <1>7, <2>1, <2>2 DEF Others, TypeOK, Cancel, Answer
<1>8. CASE PollDone(c)
  <2>1. /\ call' = [call EXCEPT ![c].step = "answered", ![c].answer = Result]
        /\ group' = [group EXCEPT ![c] = KilledGroup(c)]
        /\ UNCHANGED <<killed, effects>>
    BY <1>8 DEF PollDone, Answer
  <2>2. TypeOK'
    BY <1>1, <2>1 DEF TypeOK
  <2>3. CallInv(c)'
    BY <1>1, <2>1 DEF TypeOK, KilledGroup, CallInv, Unstarted,
       Outcome, Caller, Answered, At, Alive, State, Group
  <2> QED
    BY <2>1, <2>2, <2>3 DEF Others, TypeOK
<1>9. CASE WaitDone(c)
  <2>1. /\ call' = [call EXCEPT ![c].step = "answered", ![c].answer = Result]
        /\ UNCHANGED <<group, killed, effects>>
        /\ group[c].out # "none"
    BY <1>9 DEF WaitDone, Answer
  <2>2. TypeOK'
    BY <1>1, <2>1 DEF TypeOK
  <2>3. CallInv(c)'
    BY <1>1, <2>1 DEF TypeOK, CallInv, Unstarted,
       Outcome, Caller, Answered, At, Alive, State, Group
  <2> QED
    BY <2>1, <2>2, <2>3 DEF Others, TypeOK
<1>10. CASE Timeout(c)
  <2>1. TypeOK'
    BY <1>1, <1>10 DEF TypeOK, Timeout, Answer
  <2>2. CallInv(c)'
    BY <1>1, <1>10 DEF TypeOK, Timeout, Answer, CallInv, Unstarted,
       Outcome, Caller, Answered, At, Alive, State, Group
  <2> QED
    BY <1>10, <2>1, <2>2 DEF Others, TypeOK, Timeout, Answer
<1> QED
  BY <1>2, <1>4, <1>5, <1>6, <1>7, <1>8, <1>9, <1>10 DEF CallerStep

\* The CLI's steps.
LEMMA CliStepInv ==
    ASSUME IInv, NEW c \in Call, CliStep(c)
    PROVE  TypeOK' /\ CallInv(c)' /\ Others(c)
<1> USE DEF IInv
<1>1. CallInv(c) /\ call[c] \in State /\ group[c] \in Group /\ effects[c] \in Nat
  BY FieldTypes
<1>2. Alive(c) => group[c].out # "locked" /\ ~At(c, "idle")
      /\ ~(call[c].kind = "transfer" /\ At(c, "answered"))
  BY <1>1 DEF CallInv, Unstarted, Outcome, Caller, Alive, NoGroup
\* It is enough to look at the group and the effects of the call.
<1>3. ASSUME NEW g \in Group, NEW e \in Nat,
             group' = [group EXCEPT ![c] = g], effects' = [effects EXCEPT ![c] = e],
             UNCHANGED <<call, killed>>, Alive(c),
             e = IF g.at = "done" THEN 1 ELSE 0,
             g.out = "locked" => g.at = "open" /\ ~g.leader /\ ~g.helper,
             g.out = "ok" => g.at = "done",
             group[c].at = "done" => g.at = "done"
      PROVE  TypeOK' /\ CallInv(c)' /\ Others(c)
  <2>1. group'[c] = g /\ effects'[c] = e
    BY <1>3 DEF TypeOK
  <2>2. TypeOK'
    BY <1>3 DEF TypeOK
  <2>3. CallInv(c)'
    BY <1>1, <1>2, <1>3, <2>1 DEF CallInv, Unstarted, Outcome, Caller, Answered, At, Alive
  <2> QED
    BY <1>3, <2>2, <2>3 DEF Others, TypeOK
<1>4. CASE Fork(c) \/ HelperEnds(c)
  <2>1. PICK h \in BOOLEAN : group' = [group EXCEPT ![c] = [group[c] EXCEPT !.helper = h]]
    BY <1>4 DEF Fork, HelperEnds
  <2>2. Alive(c) /\ UNCHANGED <<call, killed, effects>>
    BY <1>4 DEF Fork, HelperEnds, Alive
  <2>3. effects' = [effects EXCEPT ![c] = effects[c]]
    BY <2>2 DEF TypeOK
  <2> QED
    BY <1>1, <1>2, <1>3, <2>1, <2>2, <2>3 DEF CallInv, Outcome, Group
<1>5. CASE Open(c)
  <2>1. effects' = [effects EXCEPT ![c] = effects[c]]
    BY <1>5 DEF Open, TypeOK
  <2>2. group' = [group EXCEPT ![c] = [group[c] EXCEPT !.at = "work"]]
    BY <1>5 DEF Open
  <2> QED
    BY <1>1, <1>2, <1>3, <1>5, <2>1, <2>2 DEF Open, CallInv, Outcome, Group
<1>6. CASE TakeEffect(c)
  <2>1. /\ group' = [group EXCEPT ![c] = [group[c] EXCEPT !.at = "done"]]
        /\ effects' = [effects EXCEPT ![c] = effects[c] + 1] /\ effects[c] = 0
    BY <1>1, <1>6 DEF TakeEffect, CallInv, Outcome
  <2> DEFINE g == [group[c] EXCEPT !.at = "done"]
  <2>2. g \in Group /\ g.at = "done" /\ g.out = group[c].out /\ effects[c] + 1 = 1
    BY <1>1, <2>1 DEF Group
  <2>3. group[c].out # "locked" /\ Alive(c) /\ UNCHANGED <<call, killed>>
    BY <1>2, <1>6 DEF TakeEffect
  <2> HIDE DEF g
  <2>4. group' = [group EXCEPT ![c] = g] /\ effects' = [effects EXCEPT ![c] = 1]
    BY <2>1, <2>2 DEF g
  <2> QED
    BY <1>3, <2>2, <2>3, <2>4
<1>7. ASSUME NEW out \in {"ok", "locked", "failed"}, Exit(c, out)
      PROVE  TypeOK' /\ CallInv(c)' /\ Others(c)
  <2>1. PICK h \in {FALSE, group[c].helper /\ out # "locked"} :
           group' = [group EXCEPT ![c].leader = FALSE, ![c].helper = h, ![c].out = out]
    BY <1>7 DEF Exit
  <2>2. h \in BOOLEAN /\ (out = "locked" => ~h)
    BY <1>1, <2>1 DEF Group
  <2> DEFINE g == [group[c] EXCEPT !.leader = FALSE, !.helper = h, !.out = out]
  <2>3. group' = [group EXCEPT ![c] = g]
    BY <2>1
  <2>4. g \in Group /\ g.at = group[c].at /\ g.out = out /\ ~g.leader /\ g.helper = h
    BY <1>1, <2>2 DEF Group
  <2>5. effects' = [effects EXCEPT ![c] = effects[c]] /\ UNCHANGED <<call, killed>>
    BY <1>7 DEF Exit, TypeOK
  <2>6. /\ Alive(c)
        /\ out = "ok" => group[c].at = "done"
        /\ out = "locked" => group[c].at = "open"
    BY <1>7 DEF Exit
  <2> HIDE DEF g
  <2> QED
    BY <1>1, <1>3, <2>2, <2>3, <2>4, <2>5, <2>6 DEF CallInv, Outcome
<1> QED
  BY <1>4, <1>5, <1>6, <1>7 DEF CliStep

LEMMA KillInv ==
    ASSUME IInv, NEW c \in Call, Kill(c)
    PROVE  TypeOK' /\ CallInv(c)' /\ Others(c)
BY DEF IInv, Kill, TypeOK, CallInv, Unstarted, Outcome, Caller, Answered, At,
   Alive, Others

LEMMA NextIInv == IInv /\ [Next]_vars => IInv'
<1> SUFFICES ASSUME IInv, [Next]_vars PROVE IInv'
  OBVIOUS
<1>1. ASSUME NEW c \in Call, CallerStep(c) \/ CliStep(c) \/ Kill(c) PROVE IInv'
  <2>1. TypeOK' /\ CallInv(c)' /\ Others(c)
    BY <1>1, CallerStepInv, CliStepInv, KillInv
  <2>2. ASSUME NEW b \in Call \ {c} PROVE CallInv(b)'
    BY <2>1 DEF IInv, Others, CallInv, Unstarted, Outcome, Caller, Answered,
       At, Alive
  <2> QED
    BY <2>1, <2>2 DEF IInv
<1>2. CASE UNCHANGED vars
  BY <1>2 DEF vars, IInv, TypeOK, CallInv, Unstarted, Outcome, Caller, Answered,
     At, Alive
<1> QED
  BY <1>1, <1>2 DEF Next

-----------------------------------------------------------------------------

\* Every reachable state satisfies the inductive invariant.
THEOREM Inductive == Spec => []IInv
<1>1. Init => IInv
  BY InitIInv
<1>2. IInv /\ [Next]_vars => IInv'
  BY NextIInv
<1> QED
  BY <1>1, <1>2, PTL DEF Spec

\* The variables keep their types: no call is attempted more than Retries
\* times (run() in cli.rs, poll() in transfer.rs).
THEOREM TypeCorrect == Spec => []TypeOK
<1>1. IInv => TypeOK
  BY DEF IInv
<1> QED
  BY <1>1, Inductive, PTL

\* No call takes effect twice, however often its attempts meet the lock.
THEOREM AtMostOnceHolds == Spec => []AtMostOnce
<1>1. IInv => AtMostOnce
  <2> SUFFICES ASSUME IInv, NEW c \in Call PROVE effects[c] <= 1
    BY DEF AtMostOnce
  <2>1. effects[c] = 0 \/ effects[c] = 1
    BY DEF IInv, CallInv, Outcome
  <2> QED
    BY <2>1
<1> QED
  BY <1>1, Inductive, PTL

\* An answer of success is the truth.
THEOREM OkMeansDoneHolds == Spec => []OkMeansDone
<1>1. IInv => OkMeansDone
  BY DEF IInv, OkMeansDone, CallInv, Outcome, Answered
<1> QED
  BY <1>1, Inductive, PTL

\* No process of a transfer survives its answer (kill() and Drop of
\* transfer.rs signal the group).
THEOREM NothingOutlivesHolds == Spec => []NothingOutlives
<1>1. IInv => NothingOutlives
  BY DEF IInv, NothingOutlives, CallInv, Caller
<1> QED
  BY <1>1, Inductive, PTL
=============================================================================
