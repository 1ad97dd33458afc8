--------------------------------- MODULE Steps ---------------------------------
(***************************************************************************)
(* The step runner of pkg/util/steps: Run executes a list of steps, each   *)
(* an Action, a Condition or an AuthorizationRetryingAction.  The last two *)
(* poll with wait.PollUntilContextTimeout: a first call at once, then one  *)
(* per tick until the poll's own context expires.  The function of a step  *)
(* runs on the outer context, which is context.Background() in cmd/aro: a  *)
(* call may take any time, and the poll's deadline may pass during it.     *)
(*                                                                         *)
(* There is no absolute clock: `left` and `toTick` count down to the       *)
(* deadline and to the ticker's next tick, so a run of any length has      *)
(* finitely many states.                                                   *)
(***************************************************************************)
EXTENDS Naturals, Sequences

CONSTANT Program  \* the steps: records [kind, timeout, interval, fail]

StepType == [kind : {"action", "condition", "retry"}, timeout : Nat \ {0},
             interval : Nat \ {0}, fail : BOOLEAN]

ASSUME ProgramIsSteps == Program \in Seq(StepType) /\ Program # <<>>

VARIABLES
    i,        \* index of the step Run is at
    phase,    \* "next", "call" (f runs), "wait" (the poll's select), "done"
    left,     \* time to the poll's deadline
    expired,  \* ctx2.Err() # nil
    toTick,   \* time to the ticker's next tick
    tick,     \* the ticker's channel, of capacity one, holds a tick
    last,     \* what the last call of f returned
    calls,    \* calls of f in this step, the current one included
    rebuilds, \* successful Authorizer.Rebuild calls in this step
    result    \* what Run returned

vars == <<i, phase, left, expired, toTick, tick, last, calls, rebuilds, result>>
clock == <<left, expired, toTick, tick>>

Step == Program[i]
Polls == Step.kind # "action"

\* Outcomes of a call.  "ok" is a nil error (and true, for a condition);
\* "false" a condition that does not hold yet; "auth" one of the errors an
\* AuthorizationRetryingAction retries; "deadline" a DeadlineExceeded of f's
\* own; "other" any other error.
Outcomes(kind) ==
    {"ok", "deadline", "other"} \cup
    (CASE kind = "condition" -> {"false"}
       [] kind = "retry"     -> {"auth"}
       [] OTHER              -> {})

\* Errors Run may return: f's own, the poll's timeout, the wrapped timeout of
\* a condition function, a failed Rebuild.
Errors == {"auth", "deadline", "other", "pollTimeout", "internalTimeout", "rebuild"}

Timeouts  == {Program[k].timeout : k \in DOMAIN Program}
Intervals == {Program[k].interval : k \in DOMAIN Program}

TypeOK ==
    /\ i \in DOMAIN Program
    /\ phase \in {"next", "call", "wait", "done"}
    /\ \E t \in Timeouts : left \in 0..t
    /\ \E t \in Intervals : toTick \in 0..t
    /\ expired \in BOOLEAN /\ tick \in BOOLEAN
    /\ last \in {"none", "ok", "false", "auth", "deadline", "other"}
    /\ calls \in Nat /\ rebuilds \in Nat
    /\ result \in {"none", "nil"} \cup Errors

Init ==
    /\ i = 1
    /\ phase = "next"
    /\ left = 0 /\ toTick = 0
    /\ expired = FALSE /\ tick = FALSE
    /\ last = "none"
    /\ calls = 0 /\ rebuilds = 0
    /\ result = "none"

-----------------------------------------------------------------------------
\* Run enters a step: the deadline context and the ticker are made, and f is
\* called at once, whatever the context's state.
Begin ==
    /\ phase = "next"
    /\ phase' = "call"
    /\ left' = IF Polls THEN Step.timeout ELSE 0
    /\ toTick' = IF Polls THEN Step.interval ELSE 0
    /\ expired' = FALSE /\ tick' = FALSE
    /\ last' = "none"
    /\ calls' = 1 /\ rebuilds' = 0
    /\ UNCHANGED <<i, result>>

\* Run, mutated: the loop runs once more after the last step.
ReturnPastEnd(e) ==
    IF e = "nil" /\ i <= Len(Program)
    THEN i' = i + 1 /\ phase' = "next" /\ UNCHANGED result
    ELSE phase' = "done" /\ result' = e /\ UNCHANGED i

\* The step returns e to Run: Run stops at the first error, and at the end.
Return(e) ==
    IF e = "nil" /\ i < Len(Program)
    THEN i' = i + 1 /\ phase' = "next" /\ UNCHANGED result
    ELSE phase' = "done" /\ result' = e /\ UNCHANGED i

\* conditionStep.run, mutated: the error of any condition is dropped.
LeaveForgiving(e) == Return(IF Step.kind = "condition" THEN "nil" ELSE e)

\* conditionStep.run, after the poll: an error of a step with fail=false is
\* logged and dropped.
Leave(e) == Return(IF Step.kind = "condition" /\ ~Step.fail THEN "nil" ELSE e)

\* The closure conditionStep.run hands to the poll: f's own DeadlineExceeded
\* is wrapped, so that it is not mistaken for the poll's.  Mutated: it is not.
Unwrapped(o) == IF o = "deadline" THEN "pollTimeout" ELSE o
Wrapped(o) == IF o = "deadline" THEN "internalTimeout" ELSE o

\* A poll ends with success when f returns true.  Mutated: only in time.
HoldsInTime(o) == o = "ok" /\ ~expired
Holds(o) == o = "ok"

\* The errors that refresh and retry.
Retryable(o) == o = "auth"

\* An error is retried while the poll's context lives.  Mutated: the test is
\* the wrong way round.
TimedOut == expired
NotTimedOut == ~expired

\* Authorizer.Rebuild before a retry.  Mutated: the retry goes on with the
\* authorizer it has.
NoRebuild == phase' = "wait" /\ UNCHANGED <<rebuilds, i, result>>
Refresh ==
    \/ phase' = "wait" /\ rebuilds' = rebuilds + 1 /\ UNCHANGED <<i, result>>
    \/ Leave("rebuild") /\ UNCHANGED rebuilds

\* f returns from the call of an Action: its error is the step's.
ActionReturns ==
    /\ phase = "call" /\ Step.kind = "action"
    /\ \E o \in Outcomes("action") :
          last' = o /\ Leave(IF o = "ok" THEN "nil" ELSE o)
    /\ UNCHANGED <<clock, calls, rebuilds>>

\* f returns from the call of a Condition: true or an error ends the poll,
\* even after its deadline, false goes back to the select.
ConditionReturns ==
    /\ phase = "call" /\ Step.kind = "condition"
    /\ \E o \in Outcomes("condition") :
          /\ last' = o
          /\ \/ Holds(o) /\ Leave("nil")
             \/ /\ ~Holds(o) /\ o \in {"ok", "false"}
                /\ phase' = "wait" /\ UNCHANGED <<i, result>>
             \/ o \notin {"ok", "false"} /\ Leave(Wrapped(o))
    /\ UNCHANGED <<clock, calls, rebuilds>>

\* f returns from the call of an AuthorizationRetryingAction.
RetryReturns ==
    /\ phase = "call" /\ Step.kind = "retry"
    /\ \E o \in Outcomes("retry") :
          /\ last' = o
          /\ \/ Retryable(o) /\ NotTimedOut /\ Refresh
             \/ /\ ~(Retryable(o) /\ NotTimedOut)
                /\ Leave(IF o = "ok" THEN "nil" ELSE o)
                /\ UNCHANGED rebuilds
    /\ UNCHANGED <<clock, calls>>

\* The select takes a tick; the context is looked at once more before the
\* next call.  Mutated: it is not, and the select may prefer the tick.
CallOnTickUnchecked ==
    /\ phase = "wait"
    /\ tick
    /\ phase' = "call" /\ calls' = calls + 1 /\ tick' = FALSE
    /\ UNCHANGED <<i, left, expired, toTick, last, rebuilds, result>>

CallOnTick ==
    /\ phase = "wait"
    /\ tick /\ ~expired
    /\ phase' = "call" /\ calls' = calls + 1 /\ tick' = FALSE
    /\ UNCHANGED <<i, left, expired, toTick, last, rebuilds, result>>

\* The poll's context is done: its error is returned.  Mutated: the tick is
\* dropped and the poll waits for the next.
TimeOutUnheard ==
    /\ phase = "wait"
    /\ expired /\ tick
    /\ tick' = FALSE
    /\ UNCHANGED <<i, phase, left, expired, toTick, last, calls, rebuilds, result>>

TimeOut ==
    /\ phase = "wait"
    /\ expired
    /\ Leave("pollTimeout")
    /\ UNCHANGED <<clock, last, calls, rebuilds>>

-----------------------------------------------------------------------------
(* Time, while a poll is on.                                               *)

Polling == phase \in {"call", "wait"} /\ Polls

\* The deadline's timer fires.
Expire ==
    /\ Polling
    /\ left = 0 /\ ~expired
    /\ expired' = TRUE
    /\ UNCHANGED <<i, phase, left, toTick, tick, last, calls, rebuilds, result>>

\* A unit of time passes, not before a due deadline has fired.  A tick that
\* finds the channel full is dropped.
Pass ==
    /\ Polling
    /\ left > 0 \/ expired
    /\ left' = IF left > 0 THEN left - 1 ELSE 0
    /\ toTick' = IF toTick = 1 THEN Step.interval ELSE toTick - 1
    /\ tick' = (tick \/ toTick = 1)
    /\ UNCHANGED <<i, phase, expired, last, calls, rebuilds, result>>

Poll == CallOnTick \/ TimeOut
Reply == ActionReturns \/ ConditionReturns \/ RetryReturns

Next == Begin \/ Reply \/ Poll \/ Expire \/ Pass

Spec == Init /\ [][Next]_vars

\* The program does not stop between steps or in a ready select, a call of f
\* returns in the end, and time passes while a poll waits.
Fairness ==
    /\ WF_vars(Begin) /\ WF_vars(Reply) /\ WF_vars(Poll)
    /\ WF_vars(Expire) /\ WF_vars(Pass)

FairSpec == Spec /\ Fairness

-----------------------------------------------------------------------------
(* Properties.                                                             *)

\* Run goes past a step, or reports success after the last one, exactly when
\* the last call of its function succeeded, be it after the poll's deadline,
\* or when the step is a Condition that may fail.
Passed == i' # i \/ (result = "none" /\ result' = "nil")
PassedIffSucceeded ==
    [][/\ Passed => last' = "ok" \/ (Step.kind = "condition" /\ ~Step.fail)
       /\ phase = "call" /\ phase' # "call" /\ last' = "ok" => Passed]_vars

\* An AuthorizationRetryingAction calls f again only after an authorization
\* error and with an authorizer rebuilt since that error.
RetriesAreRefreshed ==
    [][Step.kind = "retry" /\ phase = "wait" /\ phase' = "call"
        => last = "auth" /\ rebuilds' = calls' - 1]_vars

\* A poll calls f at most once per started interval and once at the start.
CallsAreBounded ==
    Polling => calls <= 1 + (Step.timeout \div Step.interval)

\* The error Run returns tells what happened.  An authorization error of a
\* retried step came too late to retry; a Condition's poll timed out with its
\* function saying false (runner_test.go), not with a deadline of the
\* function's own.
ErrorFitsCause ==
    /\ result = "auth" /\ Step.kind = "retry" => expired
    /\ result = "pollTimeout" /\ Step.kind = "condition" => last = "false"

\* refreshing.go: "If we have timed out or any other error is returned, the
\* error from the step is returned directly."
StepErrorIsReturned ==
    result # "none" /\ result # "nil" /\ Step.kind = "retry" /\ result # "rebuild"
        => result = last

\* Run returns, provided every call of f does: every poll ends.
RunReturns == <>(phase = "done")

================================================================================
