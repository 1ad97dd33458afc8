------------------------------ MODULE Steps_proofs ------------------------------
(***************************************************************************)
(* Theorems about Steps, for every list of steps: any number of them, of   *)
(* any kind, with any timeout and any interval.                            *)
(***************************************************************************)
EXTENDS Steps, TLAPS

-----------------------------------------------------------------------------
(* Facts about the program and about integers.                             *)

(* The step Run is at is one of the program's.                             *)
LEMMA StepTyped ==
  ASSUME i \in DOMAIN Program
  PROVE  /\ Step \in StepType
         /\ Step.timeout \in Timeouts /\ Step.interval \in Intervals
         /\ Step.timeout \in Nat \ {0} /\ Step.interval \in Nat \ {0}
         /\ i \in Nat \ {0} /\ i <= Len(Program) /\ Len(Program) \in Nat
         /\ DOMAIN Program = 1..Len(Program)
<1>1. /\ Len(Program) \in Nat /\ DOMAIN Program = 1..Len(Program)
      /\ i \in Nat \ {0} /\ i <= Len(Program)
  BY ProgramIsSteps
<1>2. Step \in StepType
  BY ProgramIsSteps, <1>1 DEF Step
<1>3. Step.timeout \in Timeouts /\ Step.interval \in Intervals
  BY DEF Step, Timeouts, Intervals
<1>4. Step.timeout \in Nat \ {0} /\ Step.interval \in Nat \ {0}
  BY <1>2 DEF StepType
<1>5. QED
  BY <1>1, <1>2, <1>3, <1>4

(* If n intervals fit into a timeout, n is at most their quotient, which is *)
(* how often the ticker of wait.PollUntilContextTimeout fires in time.     *)
LEMMA IntervalsFit ==
  ASSUME NEW n \in Nat, NEW d \in Nat \ {0}, NEW t \in Nat, n * d <= t
  PROVE  n <= t \div d
<1> DEFINE q == t \div d
<1>1. q \in Nat /\ t < (q + 1) * d
  OBVIOUS
<1>2. ASSUME n > q PROVE FALSE
  <2>1. n >= q + 1
    BY <1>1, <1>2
  <2>2. n * d >= (q + 1) * d
    <3> DEFINE k == n - (q + 1)
    <3>1. k \in Nat /\ n = (q + 1) + k
      BY <1>1, <2>1
    <3>2. k * d \in Nat
      BY <3>1
    <3>3. n * d = (q + 1) * d + k * d
      BY <1>1, <3>1
    <3>4. QED
      BY <1>1, <3>2, <3>3
  <2>3. QED
    BY <1>1, <2>2
<1>3. QED
  BY <1>1, <1>2

-----------------------------------------------------------------------------
(* The inductive invariant.                                                *)

\* While a poll is on, the calls that were made, the tick that waits and the
\* part of an interval that has passed since add up to no more than the time
\* that has passed.  Once the context is done no more calls are made.
TickInv ==
    Polling =>
        /\ left \in 0..Step.timeout
        /\ toTick \in 1..Step.interval
        /\ calls # 0
        /\ calls * Step.interval <= Step.timeout + Step.interval
        /\ ~expired =>
              /\ tick  => calls * Step.interval + Step.interval + left
                              <= Step.timeout + toTick
              /\ ~tick => calls * Step.interval + left <= Step.timeout + toTick

\* A poll waits only after an outcome that does not end it; an authorizer has
\* been rebuilt once per call that is over.
WaitInv ==
    /\ phase = "wait" => Polls
    /\ phase = "wait" /\ Step.kind = "condition" => last = "false"
    /\ phase = "wait" /\ Step.kind = "retry" => last = "auth" /\ calls = rebuilds
    /\ phase = "call" /\ Step.kind = "retry" => calls = rebuilds + 1

\* Run has a result exactly when it has returned.
ResultInv == phase = "done" <=> result # "none"

StepsInv == TypeOK /\ TickInv /\ WaitInv /\ ResultInv /\ ErrorFitsCause

(* Run starts with nothing called and nothing returned.                    *)
LEMMA StepsInvInit == Init => StepsInv
<1> SUFFICES ASSUME Init PROVE StepsInv
  OBVIOUS
<1>1. i \in DOMAIN Program
  BY ProgramIsSteps DEF Init
<1>2. expired \in BOOLEAN /\ tick \in BOOLEAN
  BY DEF Init
<1>3. TypeOK
  BY <1>1, <1>2, StepTyped DEF Init, TypeOK
<1>4. QED
  BY <1>3 DEF Init, StepsInv, TickInv, Polling, WaitInv, ResultInv, ErrorFitsCause

(* What the step returns to Run: Run moves on or returns, the step is the  *)
(* same when it returns, and the error is Run's result.                    *)
LEMMA LeaveEffect ==
  ASSUME TypeOK, NEW e \in {"nil"} \cup Errors, Leave(e)
  PROVE  /\ i' \in DOMAIN Program
         /\ result' \in {"none", "nil"} \cup Errors
         /\ phase' \in {"next", "done"}
         /\ phase' = "next" => result' = result /\ i' = i + 1
         /\ phase' = "done" => i' = i /\ result' \in {"nil", e}
         /\ phase' = "done" /\ Step.kind # "condition" => result' = e
         /\ i' # i \/ result' = "nil"
               => e = "nil" \/ (Step.kind = "condition" /\ ~Step.fail) \/ result = "nil"
         /\ e = "nil" => i' # i \/ result' = "nil"
  BY StepTyped DEF TypeOK, Leave, Return

(* A call of f that returns either goes back to the poll's select, at the  *)
(* same step, or leaves the step with an error that its outcome explains.  *)
LEMMA ReplyEffect ==
  ASSUME TypeOK, Reply
  PROVE  /\ phase = "call"
         /\ UNCHANGED <<clock, calls>>
         /\ \/ /\ phase' = "wait" /\ UNCHANGED <<i, result>>
               /\ Step.kind = "condition" /\ last' = "false" /\ UNCHANGED rebuilds
            \/ /\ phase' = "wait" /\ UNCHANGED <<i, result>>
               /\ Step.kind = "retry" /\ last' = "auth" /\ rebuilds' = rebuilds + 1
            \/ /\ Leave("nil") /\ last' = "ok" /\ UNCHANGED rebuilds
            \/ /\ Step.kind = "retry" /\ last' = "auth" /\ Leave("rebuild")
               /\ UNCHANGED rebuilds
            \/ /\ Step.kind = "retry" /\ last' = "auth" /\ expired /\ Leave("auth")
               /\ UNCHANGED rebuilds
            \/ /\ last' \in {"deadline", "other"} /\ UNCHANGED rebuilds
               /\ \E e \in {"deadline", "other", "internalTimeout"} : Leave(e)
<1>1. CASE ActionReturns
  BY <1>1 DEF ActionReturns, Outcomes
<1>2. CASE ConditionReturns
  <2>1. PICK o \in Outcomes("condition") :
          /\ last' = o
          /\ \/ Holds(o) /\ Leave("nil")
             \/ /\ ~Holds(o) /\ o \in {"ok", "false"}
                /\ phase' = "wait" /\ UNCHANGED <<i, result>>
             \/ o \notin {"ok", "false"} /\ Leave(Wrapped(o))
    BY <1>2 DEF ConditionReturns
  <2>2. o \in {"ok", "deadline", "other", "false"}
    BY DEF Outcomes
  <2>3. QED
    BY <1>2, <2>1, <2>2 DEF ConditionReturns, Holds, Wrapped
<1>3. CASE RetryReturns
  <2>1. PICK o \in Outcomes("retry") :
          /\ last' = o
          /\ \/ Retryable(o) /\ NotTimedOut /\ Refresh
             \/ /\ ~(Retryable(o) /\ NotTimedOut)
                /\ Leave(IF o = "ok" THEN "nil" ELSE o)
                /\ UNCHANGED rebuilds
    BY <1>3 DEF RetryReturns
  <2>2. o \in {"ok", "deadline", "other", "auth"}
    BY DEF Outcomes
  <2>3. QED
    BY <1>3, <2>1, <2>2 DEF RetryReturns, Retryable, NotTimedOut, Refresh
<1>4. QED
  BY <1>1, <1>2, <1>3 DEF Reply

(* Every step keeps the types; the countdowns stay within the timeout and  *)
(* the interval of the step they are of.                                   *)
LEMMA TypeNext == StepsInv /\ [Next]_vars => TypeOK'
<1> SUFFICES ASSUME TypeOK, TickInv, [Next]_vars PROVE TypeOK'
  BY DEF StepsInv
<1>a. i \in DOMAIN Program
  BY DEF TypeOK
<1> USE StepTyped, <1>a
<1>1. CASE Begin
  <2>1. expired' \in BOOLEAN /\ tick' \in BOOLEAN
    BY <1>1 DEF Begin
  <2>2. (\E t \in Timeouts : left' \in 0..t) /\ (\E t \in Intervals : toTick' \in 0..t)
    BY <1>1 DEF Begin
  <2>3. QED
    BY <1>1, <2>1, <2>2 DEF Begin, TypeOK
<1>2. CASE Reply
  <2>1. /\ i' \in DOMAIN Program
        /\ result' \in {"none", "nil"} \cup Errors
        /\ phase' \in {"next", "wait", "done"}
        /\ last' \in {"ok", "false", "auth", "deadline", "other"}
        /\ rebuilds' \in Nat
    BY <1>2, ReplyEffect, LeaveEffect DEF TypeOK, Errors
  <2>2. UNCHANGED <<clock, calls>>
    BY <1>2, ReplyEffect
  <2>3. QED
    BY <2>1, <2>2 DEF TypeOK, clock
<1>3. CASE CallOnTick
  <2>1. tick' \in BOOLEAN
    BY <1>3 DEF CallOnTick
  <2>2. calls' \in Nat /\ phase' = "call"
    BY <1>3 DEF CallOnTick, TypeOK
  <2>3. QED
    BY <1>3, <2>1, <2>2 DEF CallOnTick, TypeOK
<1>4. CASE TimeOut
  <2>1. Leave("pollTimeout")
    BY <1>4 DEF TimeOut
  <2>2. /\ i' \in DOMAIN Program /\ phase' \in {"next", "done"}
        /\ result' \in {"none", "nil"} \cup Errors
    BY <2>1, LeaveEffect DEF Errors
  <2>3. QED
    BY <1>4, <2>2 DEF TimeOut, TypeOK, clock
<1>5. CASE Expire
  BY <1>5 DEF Expire, TypeOK
<1>6. CASE Pass
  <2>1. Polling /\ left \in 0..Step.timeout /\ toTick \in 1..Step.interval
    BY <1>6 DEF Pass, TickInv
  <2>2. (\E t \in Timeouts : left' \in 0..t) /\ (\E t \in Intervals : toTick' \in 0..t)
    BY <1>6, <2>1 DEF Pass
  <2>3. tick' \in BOOLEAN
    BY <1>6 DEF Pass
  <2>4. QED
    BY <1>6, <2>2, <2>3 DEF Pass, TypeOK
<1>7. CASE UNCHANGED vars
  BY <1>7 DEF vars, TypeOK
<1>8. QED
  BY <1>1, <1>2, <1>3, <1>4, <1>5, <1>6, <1>7 DEF Next, Poll

(* A call takes the tick it starts on, and a tick takes an interval of the *)
(* time the poll has.                                                      *)
LEMMA TickInvNext == StepsInv /\ [Next]_vars => TickInv'
<1> SUFFICES ASSUME TypeOK, TickInv, [Next]_vars PROVE TickInv'
  BY DEF StepsInv
<1>a. /\ i \in DOMAIN Program /\ calls \in Nat
      /\ Step.timeout \in Nat \ {0} /\ Step.interval \in Nat \ {0}
  BY StepTyped DEF TypeOK
<1> USE <1>a
<1>1. CASE Begin
  BY <1>1 DEF Begin, TickInv, Polling, Polls, Step
<1>2. CASE Reply
  <2>1. phase = "call" /\ UNCHANGED <<left, expired, toTick, tick, calls>>
    BY <1>2, ReplyEffect DEF clock
  <2>2. phase' \in {"next", "done"} \/ (phase' = "wait" /\ i' = i)
    BY <1>2, ReplyEffect, LeaveEffect DEF Errors
  <2>3. CASE phase' \in {"next", "done"}
    BY <2>3 DEF TickInv, Polling
  <2>4. CASE phase' = "wait" /\ i' = i
    BY <2>1, <2>4 DEF TickInv, Polling, Polls, Step
  <2>5. QED
    BY <2>2, <2>3, <2>4
<1>3. CASE CallOnTick
  <2> SUFFICES ASSUME Polling' PROVE TickInv'
    BY DEF TickInv
  <2>1. /\ Polling /\ Step' = Step /\ tick /\ ~tick' /\ ~expired
        /\ calls' = calls + 1 /\ UNCHANGED <<left, expired, toTick>>
    BY <1>3 DEF CallOnTick, Polling, Polls, Step
  <2>2. (calls + 1) * Step.interval = calls * Step.interval + Step.interval
    OBVIOUS
  <2>3. calls * Step.interval \in Nat
    OBVIOUS
  <2>4. /\ left \in 0..Step.timeout /\ toTick \in 1..Step.interval
        /\ calls * Step.interval + Step.interval + left <= Step.timeout + toTick
    BY <2>1 DEF TickInv
  <2>5. calls' * Step.interval + left <= Step.timeout + toTick
    BY <2>1, <2>2, <2>4
  <2>6. calls' * Step.interval <= Step.timeout + Step.interval
    BY <2>1, <2>2, <2>3, <2>4
  <2>7. QED
    BY <2>1, <2>4, <2>5, <2>6 DEF TickInv
<1>4. CASE TimeOut
  <2>1. phase' \in {"next", "done"}
    BY <1>4, LeaveEffect DEF TimeOut, Errors
  <2>2. QED
    BY <2>1 DEF TickInv, Polling
<1>5. CASE Expire
  BY <1>5 DEF Expire, TickInv, Polling, Polls, Step
<1>6. CASE Pass
  <2>1. /\ Polling /\ Step' = Step /\ UNCHANGED <<calls, expired>>
        /\ left > 0 \/ expired
    BY <1>6 DEF Pass, Polling, Polls, Step
  <2>2. calls * Step.interval \in Nat
    OBVIOUS
  <2>3. left' \in 0..Step.timeout /\ toTick' \in 1..Step.interval
    BY <1>6, <2>1 DEF Pass, TickInv
  <2>4. CASE expired
    BY <2>1, <2>3, <2>4 DEF TickInv
  <2>5. CASE ~expired /\ toTick = 1
    <3>1. left' = left - 1 /\ toTick' = Step.interval /\ tick'
      BY <1>6, <2>1, <2>5 DEF Pass
    <3>2. /\ left \in Nat /\ calls # 0
          /\ calls * Step.interval <= Step.timeout + Step.interval
      BY <2>1 DEF TickInv
    <3>3. calls * Step.interval + left <= Step.timeout + 1
      <4>1. CASE tick
        <5>1. calls * Step.interval + Step.interval + left <= Step.timeout + 1
          BY <2>1, <2>5, <4>1 DEF TickInv
        <5>2. QED
          BY <2>2, <3>2, <5>1
      <4>2. CASE ~tick
        BY <2>1, <2>5, <4>2 DEF TickInv
      <4>3. QED
        BY <4>1, <4>2
    <3>4. calls * Step.interval + Step.interval + left' <= Step.timeout + toTick'
      BY <2>2, <3>1, <3>2, <3>3
    <3>5. QED
      BY <2>1, <2>3, <3>1, <3>2, <3>4 DEF TickInv
  <2>6. CASE ~expired /\ toTick # 1
    <3>1. left' = left - 1 /\ toTick' = toTick - 1
      BY <1>6, <2>1, <2>6 DEF Pass
    <3>2. tick' <=> tick
      BY <1>6, <2>6 DEF Pass
    <3>3. /\ left \in Nat /\ toTick \in Nat /\ calls # 0
          /\ calls * Step.interval <= Step.timeout + Step.interval
      BY <2>1 DEF TickInv
    <3>4. ASSUME tick
          PROVE  calls * Step.interval + Step.interval + left' <= Step.timeout + toTick'
      <4>1. calls * Step.interval + Step.interval + left <= Step.timeout + toTick
        BY <2>1, <2>6, <3>4 DEF TickInv
      <4>2. QED
        BY <2>2, <3>1, <3>3, <4>1
    <3>5. ASSUME ~tick
          PROVE  calls * Step.interval + left' <= Step.timeout + toTick'
      <4>1. calls * Step.interval + left <= Step.timeout + toTick
        BY <2>1, <2>6, <3>5 DEF TickInv
      <4>2. QED
        BY <2>2, <3>1, <3>3, <4>1
    <3>6. QED
      BY <2>1, <2>3, <3>2, <3>3, <3>4, <3>5 DEF TickInv
  <2>7. QED
    BY <2>4, <2>5, <2>6
<1>7. CASE UNCHANGED vars
  BY <1>7 DEF vars, TickInv, Polling, Polls, Step
<1>8. QED
  BY <1>1, <1>2, <1>3, <1>4, <1>5, <1>6, <1>7 DEF Next, Poll

(* A condition goes back to its poll only with false, a retried action only *)
(* with an authorization error and a rebuilt authorizer.                   *)
LEMMA WaitInvNext == StepsInv /\ [Next]_vars => WaitInv'
<1> SUFFICES ASSUME TypeOK, WaitInv, [Next]_vars PROVE WaitInv'
  BY DEF StepsInv
<1> USE DEF WaitInv, Polls, Step
<1>1. CASE Begin
  BY <1>1 DEF Begin
<1>2. CASE Reply
  <2>1. phase' \in {"next", "wait", "done"}
    BY <1>2, ReplyEffect, LeaveEffect DEF Errors
  <2>2. CASE phase' = "wait"
    <3>1. /\ phase = "call" /\ i' = i /\ calls' = calls
          /\ \/ Step.kind = "condition" /\ last' = "false"
             \/ Step.kind = "retry" /\ last' = "auth" /\ rebuilds' = rebuilds + 1
      BY <1>2, <2>2, ReplyEffect, LeaveEffect DEF Errors
    <3>2. QED
      BY <2>2, <3>1 DEF TypeOK
  <2>3. QED
    BY <2>1, <2>2
<1>3. CASE CallOnTick
  BY <1>3 DEF CallOnTick, TypeOK
<1>4. CASE TimeOut
  BY <1>4, LeaveEffect DEF TimeOut, Errors
<1>5. CASE Expire
  BY <1>5 DEF Expire
<1>6. CASE Pass
  BY <1>6 DEF Pass
<1>7. CASE UNCHANGED vars
  BY <1>7 DEF vars
<1>8. QED
  BY <1>1, <1>2, <1>3, <1>4, <1>5, <1>6, <1>7 DEF Next, Poll

(* The result tells what happened to the step that Run stopped at, and does *)
(* not change once Run has returned.                                       *)
LEMMA ResultNext == StepsInv /\ [Next]_vars => (ResultInv /\ ErrorFitsCause)'
<1> SUFFICES ASSUME StepsInv, [Next]_vars PROVE (ResultInv /\ ErrorFitsCause)'
  OBVIOUS
<1>a. TypeOK /\ WaitInv /\ ResultInv /\ ErrorFitsCause
  BY DEF StepsInv
<1> USE <1>a DEF ResultInv, ErrorFitsCause, Step
<1>1. CASE Begin
  BY <1>1 DEF Begin
<1>2. CASE Reply
  <2>1. result = "none" /\ UNCHANGED expired
    BY <1>2, ReplyEffect DEF clock
  <2>2. CASE phase' = "wait" /\ UNCHANGED <<i, result>>
    BY <2>1, <2>2
  <2>3. CASE Leave("nil")
    BY <2>1, <2>3, LeaveEffect
  <2>4. CASE Step.kind = "retry" /\ Leave("rebuild")
    BY <2>1, <2>4, LeaveEffect DEF Errors
  <2>5. CASE Step.kind = "retry" /\ expired /\ Leave("auth")
    BY <2>1, <2>5, LeaveEffect DEF Errors
  <2>6. CASE \E e \in {"deadline", "other", "internalTimeout"} : Leave(e)
    BY <2>1, <2>6, LeaveEffect DEF Errors
  <2>7. QED
    BY <1>2, ReplyEffect, <2>2, <2>3, <2>4, <2>5, <2>6
<1>3. CASE CallOnTick
  BY <1>3 DEF CallOnTick
<1>4. CASE TimeOut
  <2>1. /\ Leave("pollTimeout") /\ phase = "wait" /\ UNCHANGED <<expired, last>>
        /\ result = "none" /\ Step.kind = "condition" => last = "false"
    BY <1>4 DEF TimeOut, clock, WaitInv
  <2>2. QED
    BY <2>1, LeaveEffect DEF Errors
<1>5. CASE Expire
  BY <1>5 DEF Expire, Polling
<1>6. CASE Pass
  BY <1>6 DEF Pass, Polling
<1>7. CASE UNCHANGED vars
  BY <1>7 DEF vars
<1>8. QED
  BY <1>1, <1>2, <1>3, <1>4, <1>5, <1>6, <1>7 DEF Next, Poll

(* The invariant holds in every reachable state.                           *)
LEMMA Invariance == Spec => []StepsInv
<1>1. Init => StepsInv
  BY StepsInvInit
<1>2. StepsInv /\ [Next]_vars => StepsInv'
  BY TypeNext, TickInvNext, WaitInvNext, ResultNext DEF StepsInv
<1>3. QED
  BY <1>1, <1>2, PTL DEF Spec

-----------------------------------------------------------------------------
(* The theorems.                                                           *)

(* Run never reads past its list of steps and returns only what a step can *)
(* return; the countdowns stay within the timeouts and intervals.          *)
THEOREM TypeCorrect == Spec => []TypeOK
<1>1. StepsInv => TypeOK
  BY DEF StepsInv
<1>2. QED
  BY <1>1, Invariance, PTL

(* A Condition or an AuthorizationRetryingAction calls its function at most *)
(* once at the start and once per interval that fits into its timeout,      *)
(* however long the calls take and whether or not ticks pile up.           *)
THEOREM CallsStayBounded == Spec => []CallsAreBounded
<1>1. StepsInv => CallsAreBounded
  <2> SUFFICES ASSUME StepsInv, Polling
               PROVE  calls <= 1 + (Step.timeout \div Step.interval)
    BY DEF CallsAreBounded
  <2>1. /\ calls \in Nat \ {0}
        /\ Step.timeout \in Nat \ {0} /\ Step.interval \in Nat \ {0}
        /\ calls * Step.interval <= Step.timeout + Step.interval
    BY StepTyped DEF StepsInv, TypeOK, TickInv
  <2> DEFINE n == calls - 1
  <2>2. n \in Nat /\ calls = n + 1
    BY <2>1
  <2>3. n * Step.interval <= Step.timeout
    <3>1. calls * Step.interval = n * Step.interval + Step.interval
      BY <2>1, <2>2
    <3>2. QED
      BY <2>1, <2>2, <3>1
  <2>4. n <= Step.timeout \div Step.interval
    BY <2>1, <2>2, <2>3, IntervalsFit
  <2>5. Step.timeout \div Step.interval \in Nat
    BY <2>1
  <2>6. QED
    BY <2>1, <2>2, <2>4, <2>5
<1>2. QED
  BY <1>1, Invariance, PTL

(* An authorization error that an AuthorizationRetryingAction returns came  *)
(* after its deadline; a poll timeout that a Condition returns came while  *)
(* its function said false, not with a deadline of the function's own.     *)
THEOREM ErrorTellsCause == Spec => []ErrorFitsCause
<1>1. StepsInv => ErrorFitsCause
  BY DEF StepsInv
<1>2. QED
  BY <1>1, Invariance, PTL

(* AuthorizationRetryingAction calls its function again only after an       *)
(* authorization error and after one Rebuild for every call before.        *)
THEOREM RetriesFollowRebuild == Spec => RetriesAreRefreshed
<1> DEFINE A == Step.kind = "retry" /\ phase = "wait" /\ phase' = "call"
                   => last = "auth" /\ rebuilds' = calls' - 1
<1>1. StepsInv /\ [Next]_vars => [A]_vars
  <2> SUFFICES ASSUME StepsInv, Next, Step.kind = "retry", phase = "wait", phase' = "call"
               PROVE  last = "auth" /\ rebuilds' = calls' - 1
    OBVIOUS
  <2>1. last = "auth" /\ calls = rebuilds /\ calls \in Nat
    BY DEF StepsInv, WaitInv, TypeOK
  <2>2. CallOnTick
    BY LeaveEffect, ReplyEffect DEF Next, Begin, Poll, TimeOut, Expire, Pass, StepsInv, Errors
  <2>3. QED
    BY <2>1, <2>2 DEF CallOnTick
<1>2. QED
  BY <1>1, Invariance, PTL DEF Spec, RetriesAreRefreshed

(* Run goes past a step, or returns nil, exactly when the step's function   *)
(* last succeeded, late or not, or the step is a Condition that may fail.  *)
THEOREM StepsPassOnSuccess == Spec => PassedIffSucceeded
<1> DEFINE A == /\ Passed => last' = "ok" \/ (Step.kind = "condition" /\ ~Step.fail)
                /\ phase = "call" /\ phase' # "call" /\ last' = "ok" => Passed
<1>1. StepsInv /\ [Next]_vars => [A]_vars
  <2> SUFFICES ASSUME StepsInv, Next PROVE A
    OBVIOUS
  <2>a. TypeOK /\ ResultInv
    BY DEF StepsInv
  <2> USE <2>a DEF ResultInv, Passed
  <2>1. CASE Begin
    BY <2>1 DEF Begin
  <2>2. CASE Reply
    <3>1. phase = "call" /\ result = "none"
      BY <2>2, ReplyEffect
    <3>2. CASE phase' = "wait" /\ UNCHANGED <<i, result>> /\ last' \in {"false", "auth"}
      BY <3>1, <3>2
    <3>3. CASE Leave("nil") /\ last' = "ok"
      BY <3>1, <3>3, LeaveEffect
    <3>4. CASE last' # "ok" /\ \E e \in Errors : Leave(e)
      BY <3>1, <3>4, LeaveEffect DEF Errors
    <3>5. QED
      BY <2>2, ReplyEffect, <3>2, <3>3, <3>4 DEF Errors
  <2>3. CASE CallOnTick
    BY <2>3 DEF CallOnTick
  <2>4. CASE TimeOut
    <3>1. phase = "wait" /\ result = "none" /\ Leave("pollTimeout")
      BY <2>4 DEF TimeOut
    <3>2. QED
      BY <3>1, LeaveEffect DEF Errors
  <2>5. CASE Expire
    BY <2>5 DEF Expire
  <2>6. CASE Pass
    BY <2>6 DEF Pass
  <2>7. QED
    BY <2>1, <2>2, <2>3, <2>4, <2>5, <2>6 DEF Next, Poll
<1>2. QED
  BY <1>1, Invariance, PTL DEF Spec, PassedIffSucceeded

================================================================================
