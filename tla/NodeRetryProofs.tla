--------------------------- MODULE NodeRetryProofs ---------------------------
(***************************************************************************)
(* Type correctness, and the safety properties of NodeRetry, for any       *)
(* number of calls, attempts and failures.                                 *)
(*                                                                         *)
(* OneRunner follows from a link between a call's runners and its stage:   *)
(* until the call ends it has a runner at work exactly while it is         *)
(* "running", so an attempt always starts from none.  OneCallOneFailure is *)
(* inductive because a failure is recorded in the step that ends a call,   *)
(* and an ended call never leaves that stage.                              *)
(***************************************************************************)
EXTENDS NodeRetry, FiniteSetTheorems, TLAPS

Ended == {c \in Calls : stage[c] = "ended"}

\* Until a call has ended, it has a runner at work exactly while it waits for it.
RunnersWhileRunning ==
    \A c \in Calls :
        stage[c] # "ended" => live[c] = IF stage[c] = "running" THEN 1 ELSE 0

IInv ==
    /\ TypeOK
    /\ RunnersWhileRunning
    /\ OneRunner
    /\ BreakerHasReason
    /\ OneCallOneFailure

-----------------------------------------------------------------------------
\* What a breaker question, a failure and a success do to the breaker.
LEMMA BreakerTypes ==
  ASSUME TypeOK, RecordFailure \/ AskBreaker \/ ResetBreaker \/ UNCHANGED breaker
  PROVE  /\ failures' \in Nat
         /\ circuit' \in {"closed", "open", "half-open"}
         /\ cooling' \in 0..ResetTime
<1> USE BreakerAssumption DEF TypeOK
<1>1. CASE RecordFailure
  BY <1>1 DEF RecordFailure
<1>2. CASE AskBreaker
  BY <1>2 DEF AskBreaker
<1>3. CASE ResetBreaker
  BY <1>3 DEF ResetBreaker
<1>4. CASE UNCHANGED breaker
  BY <1>4 DEF breaker
<1> QED BY <1>1, <1>2, <1>3, <1>4

\* A turn of waitForRateLimit leaves a whole number of tokens, never a negative one.
LEMMA BucketType ==
  ASSUME TypeOK, NEW c \in Calls, TakeToken(c)
  PROVE  /\ bucket' \in [made : BOOLEAN, tokens : Nat, idle : Nat]
         /\ stage' \in [Calls -> Stages]
<1>1. Rate[c] \in Nat
  BY RateAssumption
<1>2. /\ bucket.tokens \in Nat
      /\ bucket.idle \in Nat
  BY DEF TypeOK
<1>3. Rate[c] * bucket.idle \in Nat
  BY <1>1, <1>2
<1>4. bucket.tokens + Rate[c] * bucket.idle \in Nat
  BY <1>2, <1>3
<1>5. Tokens(c) \in Nat
  BY <1>1, <1>4 DEF Tokens, Lesser
<1>6. PICK t \in Nat, s \in {"ready", "limited"} :
        bucket' = [made |-> TRUE, tokens |-> t, idle |-> 0] /\ Goto(c, s)
  <2>1. CASE Tokens(c) >= 1
    <3>1. Tokens(c) - 1 \in Nat
      BY <1>5, <2>1
    <3> QED BY <2>1, <3>1, <1>5 DEF TakeToken
  <2>2. CASE Tokens(c) < 1
    BY <1>5, <2>2 DEF TakeToken
  <2> QED BY <1>5, <2>1, <2>2
<1>7. bucket' \in [made : BOOLEAN, tokens : Nat, idle : Nat]
  BY <1>6
<1>8. stage' \in [Calls -> Stages]
  BY <1>6 DEF Goto, TypeOK, Stages
<1> QED BY <1>7, <1>8

\* Every step of a call asks, trips, resets or leaves the breaker.
LEMMA BreakerSteps ==
  ASSUME NEW c \in Calls, Begin(c) \/ Step(c) \/ RunnerEndsLate(c) \/ Abort(c)
  PROVE  RecordFailure \/ AskBreaker \/ ResetBreaker \/ UNCHANGED breaker
BY DEF Begin, Step, RunnerEndsLate, Abort, LogStarted, LogStartFails, WakeLimited, Attempt,
       RunnerReturns, RunnerThrows, LoseRace, LogCompleted, LogCompletedFails,
       SubWorkflowEnds, Fail

LEMMA TypeNext == TypeOK /\ RunnersWhileRunning /\ [Next]_vars => TypeOK'
<1> SUFFICES ASSUME TypeOK, RunnersWhileRunning, [Next]_vars PROVE TypeOK'
  OBVIOUS
<1>1. ASSUME NEW c \in Calls, Begin(c) \/ Step(c) \/ RunnerEndsLate(c) \/ Abort(c)
      PROVE  TypeOK'
  <2>1. /\ failures' \in Nat
        /\ circuit' \in {"closed", "open", "half-open"}
        /\ cooling' \in 0..ResetTime
    BY <1>1, BreakerSteps, BreakerTypes
  <2>2. /\ stage' \in [Calls -> Stages]
        /\ bucket' \in [made : BOOLEAN, tokens : Nat, idle : Nat]
    <3>1. CASE Begin(c)
      BY <3>1 DEF Begin, Goto, TypeOK, Stages
    <3>2. CASE LogStarted(c)
      BY <3>2, BucketType DEF LogStarted, Goto, TypeOK, Stages
    <3>3. CASE LogStartFails(c)
      BY <3>3 DEF LogStartFails, Goto, TypeOK, Stages
    <3>4. CASE WakeLimited(c)
      BY <3>4, BucketType DEF WakeLimited
    <3>5. CASE Attempt(c)
      BY <3>5 DEF Attempt, Fail, Goto, TypeOK, Stages
    <3>6. CASE RunnerReturns(c) \/ RunnerThrows(c) \/ LoseRace(c)
      BY <3>6 DEF RunnerReturns, RunnerThrows, LoseRace, Fail, Goto, TypeOK, Stages
    <3>7. CASE LogCompleted(c) \/ LogCompletedFails(c) \/ SubWorkflowEnds(c)
      BY <3>7 DEF LogCompleted, LogCompletedFails, SubWorkflowEnds, Fail, Goto, TypeOK, Stages
    <3>8. CASE RunnerEndsLate(c) \/ Abort(c)
      BY <3>8 DEF RunnerEndsLate, Abort, TypeOK
    <3> QED BY <1>1, <3>1, <3>2, <3>3, <3>4, <3>5, <3>6, <3>7, <3>8 DEF Step
  <2>3. attempt' \in [Calls -> Nat]
    BY <1>1 DEF Begin, Step, RunnerEndsLate, Abort, LogStarted, LogStartFails, WakeLimited,
       Attempt, RunnerReturns, RunnerThrows, LoseRace, LogCompleted, LogCompletedFails,
       SubWorkflowEnds, TypeOK
  <2>4. live' \in [Calls -> Nat]
    <3>1. CASE Attempt(c) \/ RunnerEndsLate(c)
      BY <3>1 DEF Attempt, RunnerEndsLate, TypeOK
    <3>2. CASE RunnerReturns(c) \/ RunnerThrows(c)
      <4>1. live[c] = 1
        BY <3>2 DEF RunnerReturns, RunnerThrows, RunnersWhileRunning
      <4> QED BY <3>2, <4>1 DEF RunnerReturns, RunnerThrows, TypeOK
    <3>3. CASE UNCHANGED live
      BY <3>3 DEF TypeOK
    <3> QED BY <1>1, <3>1, <3>2, <3>3 DEF Begin, Step, Abort, LogStarted, LogStartFails,
       WakeLimited, LoseRace, LogCompleted, LogCompletedFails, SubWorkflowEnds
  <2>5. aborted' \subseteq Calls /\ faults' \in Nat
    BY <1>1 DEF Begin, Step, RunnerEndsLate, Abort, LogStarted, LogStartFails, WakeLimited,
       Attempt, RunnerReturns, RunnerThrows, LoseRace, LogCompleted, LogCompletedFails,
       SubWorkflowEnds, Fault, TypeOK
  <2> QED BY <2>1, <2>2, <2>3, <2>4, <2>5 DEF TypeOK
<1>2. CASE Maintain
  BY <1>2 DEF Maintain, TypeOK
<1>3. CASE Tick
  <2>1. cooling' \in 0..ResetTime
    BY <1>3, BreakerAssumption DEF Tick, TypeOK
  <2>2. bucket' \in [made : BOOLEAN, tokens : Nat, idle : Nat]
    BY <1>3 DEF Tick, TypeOK, Lesser, MaxIdle
  <2> QED BY <1>3, <2>1, <2>2 DEF Tick, TypeOK
<1>4. CASE UNCHANGED vars
  BY <1>4 DEF vars, breaker, TypeOK
<1> QED BY <1>1, <1>2, <1>3, <1>4 DEF Next

-----------------------------------------------------------------------------
\* A runner is started from a stage without one and ends, or is abandoned, with
\* the stage "running".
LEMMA RunnersNext ==
  ASSUME TypeOK, RunnersWhileRunning, OneRunner, [Next]_vars
  PROVE  RunnersWhileRunning' /\ OneRunner'
<1> USE DEF TypeOK, RunnersWhileRunning, OneRunner, Goto, Fail
<1>1. ASSUME NEW c \in Calls, Begin(c) \/ Step(c) \/ RunnerEndsLate(c) \/ Abort(c)
      PROVE  RunnersWhileRunning' /\ OneRunner'
  <2>1. CASE Begin(c)
    BY <2>1 DEF Begin
  <2>2. CASE LogStarted(c) \/ WakeLimited(c)
    BY <2>2 DEF LogStarted, WakeLimited, TakeToken
  <2>3. CASE LogStartFails(c)
    BY <2>3 DEF LogStartFails
  <2>4. CASE Attempt(c)
    BY <2>4 DEF Attempt
  <2>5. CASE RunnerReturns(c)
    BY <2>5 DEF RunnerReturns
  <2>6. CASE RunnerThrows(c)
    BY <2>6 DEF RunnerThrows
  <2>7. CASE LoseRace(c)
    BY <2>7 DEF LoseRace
  <2>8. CASE LogCompleted(c)
    BY <2>8 DEF LogCompleted
  <2>9. CASE LogCompletedFails(c) \/ SubWorkflowEnds(c)
    BY <2>9 DEF LogCompletedFails, SubWorkflowEnds
  <2>10. CASE RunnerEndsLate(c)
    BY <2>10 DEF RunnerEndsLate
  <2>11. CASE Abort(c)
    BY <2>11 DEF Abort
  <2> QED BY <1>1, <2>1, <2>2, <2>3, <2>4, <2>5, <2>6, <2>7, <2>8, <2>9, <2>10, <2>11 DEF Step
<1>2. CASE Maintain \/ Tick \/ UNCHANGED vars
  BY <1>2 DEF Maintain, Tick, vars
<1> QED BY <1>1, <1>2 DEF Next

\* Only RecordFailure opens the breaker, and only a success lowers the count.
LEMMA ReasonNext ==
  ASSUME TypeOK, BreakerHasReason, [Next]_vars
  PROVE  BreakerHasReason'
<1> USE BreakerAssumption DEF TypeOK, BreakerHasReason
<1>1. ASSUME NEW c \in Calls, Begin(c) \/ Step(c) \/ RunnerEndsLate(c) \/ Abort(c)
      PROVE  BreakerHasReason'
  BY <1>1, BreakerSteps DEF RecordFailure, AskBreaker, ResetBreaker, breaker
<1>2. CASE Maintain \/ Tick \/ UNCHANGED vars
  BY <1>2 DEF Maintain, Tick, vars, breaker
<1> QED BY <1>1, <1>2 DEF Next

\* A call that ends adds itself to the ended ones.
LEMMA EndedGrows ==
  ASSUME TypeOK, NEW c \in Calls, stage[c] # "ended", Goto(c, "ended")
  PROVE  Cardinality(Ended') = Cardinality(Ended) + 1
<1>1. Ended' = Ended \cup {c} /\ c \notin Ended
  BY DEF Ended, Goto, TypeOK
<1>2. IsFiniteSet(Ended)
  BY CallsAssumption, FS_Subset DEF Ended
<1> QED BY <1>1, <1>2, FS_AddElement

\* A step of a call that stays away from "ended" leaves the ended ones alone.
LEMMA EndedStays ==
  ASSUME TypeOK, NEW c \in Calls, stage[c] # "ended", NEW s \in Stages \ {"ended"}, Goto(c, s)
  PROVE  Ended' = Ended
BY DEF Ended, Goto, TypeOK

\* A failure is recorded only by the step that ends its call.
LEMMA FailuresNext ==
  ASSUME TypeOK, OneCallOneFailure, [Next]_vars
  PROVE  OneCallOneFailure'
<1>1. Cardinality(Ended) \in Nat
  BY CallsAssumption, FS_Subset, FS_CardinalityType DEF Ended
<1>2. failures \in Nat /\ failures <= Cardinality(Ended)
  BY DEF OneCallOneFailure, Ended, TypeOK
<1> SUFFICES failures' <= Cardinality(Ended')
  BY DEF OneCallOneFailure, Ended
<1>3. CASE stage' = stage /\ failures' = failures
  BY <1>2, <1>3 DEF Ended
<1>4. ASSUME NEW c \in Calls, Begin(c) \/ Step(c)
      PROVE  failures' <= Cardinality(Ended')
  <2>1. stage[c] # "ended"
    BY <1>4 DEF Begin, Step, LogStarted, LogStartFails, WakeLimited, Attempt, RunnerReturns,
       RunnerThrows, LoseRace, LogCompleted, LogCompletedFails, SubWorkflowEnds
  <2>2. CASE Goto(c, "ended") /\ failures' \in {failures, failures + 1, 0}
    <3>1. Cardinality(Ended') = Cardinality(Ended) + 1
      BY <2>1, <2>2, EndedGrows
    <3> QED BY <1>1, <1>2, <2>2, <3>1
  <2>3. CASE failures' \in {failures, 0} /\ \E s \in Stages \ {"ended"} : Goto(c, s)
    <3>1. Ended' = Ended
      BY <2>1, <2>3, EndedStays
    <3> QED BY <1>1, <1>2, <2>3, <3>1
  <2>4. \/ Goto(c, "ended") /\ failures' \in {failures, failures + 1, 0}
        \/ failures' \in {failures, 0} /\ \E s \in Stages \ {"ended"} : Goto(c, s)
    <3> USE DEF Stages
    <3>1. CASE Begin(c)
      BY <3>1 DEF Begin, AskBreaker
    <3>2. CASE LogStarted(c) \/ LogStartFails(c) \/ WakeLimited(c)
      BY <3>2 DEF LogStarted, LogStartFails, WakeLimited, TakeToken, breaker
    <3>3. CASE Attempt(c)
      BY <3>3 DEF Attempt, Fail, RecordFailure, AskBreaker, breaker
    <3>4. CASE RunnerReturns(c) \/ RunnerThrows(c) \/ LoseRace(c)
      BY <3>4 DEF RunnerReturns, RunnerThrows, LoseRace, Fail, RecordFailure, breaker
    <3>5. CASE LogCompleted(c) \/ LogCompletedFails(c) \/ SubWorkflowEnds(c)
      BY <3>5 DEF LogCompleted, LogCompletedFails, SubWorkflowEnds, ResetBreaker, Fail,
         RecordFailure, breaker
    <3> QED BY <1>4, <3>1, <3>2, <3>3, <3>4, <3>5 DEF Step
  <2> QED BY <2>2, <2>3, <2>4
<1>5. ASSUME NEW c \in Calls, RunnerEndsLate(c) \/ Abort(c)
      PROVE  stage' = stage /\ failures' = failures
  BY <1>5 DEF RunnerEndsLate, Abort, breaker
<1>6. CASE Maintain \/ Tick \/ UNCHANGED vars
  BY <1>3, <1>6 DEF Maintain, Tick, vars, breaker
<1> QED BY <1>3, <1>4, <1>5, <1>6 DEF Next

LEMMA InvInit == Init => IInv
<1> SUFFICES ASSUME Init PROVE IInv
  OBVIOUS
<1>1. TypeOK
  BY BreakerAssumption DEF Init, TypeOK, Stages
<1>2. RunnersWhileRunning /\ OneRunner /\ BreakerHasReason
  BY DEF Init, RunnersWhileRunning, OneRunner, BreakerHasReason
<1>3. OneCallOneFailure
  <2>1. {c \in Calls : stage[c] = "ended"} = {}
    BY DEF Init
  <2> QED BY <2>1, FS_EmptySet DEF Init, OneCallOneFailure
<1> QED BY <1>1, <1>2, <1>3 DEF IInv

LEMMA InvNext == IInv /\ [Next]_vars => IInv'
BY TypeNext, RunnersNext, ReasonNext, FailuresNext DEF IInv

-----------------------------------------------------------------------------
\* The inductive invariant holds.
THEOREM Invariance == Spec => []IInv
BY InvInit, InvNext, PTL DEF Spec

\* Every variable of NodeRetry stays in its range, the bucket's tokens included.
THEOREM TypeCorrect == Spec => []TypeOK
<1>1. IInv => TypeOK
  BY DEF IInv
<1> QED BY <1>1, Invariance, PTL

\* No two runners of one call are ever at work together.
THEOREM NoDoubleRun == Spec => []OneRunner
<1>1. IInv => OneRunner
  BY DEF IInv
<1> QED BY <1>1, Invariance, PTL

\* The breaker is open or half-open only while the failures reach the threshold.
THEOREM OpenForAReason == Spec => []BreakerHasReason
<1>1. IInv => BreakerHasReason
  BY DEF IInv
<1> QED BY <1>1, Invariance, PTL

\* The failures counted are at most the calls that have ended.
THEOREM FailuresAreCalls == Spec => []OneCallOneFailure
<1>1. IInv => OneCallOneFailure
  BY DEF IInv
<1> QED BY <1>1, Invariance, PTL

\* No runner is started for an execution that has been aborted.
THEOREM AbortStopsStarts == Spec => NoStartAfterAbort
<1>1. IInv /\ [Next]_vars => [\A c \in Calls : c \in aborted => live'[c] <= live[c]]_vars
  <2> SUFFICES ASSUME IInv, Next, NEW d \in Calls, d \in aborted
               PROVE  live'[d] <= live[d]
    OBVIOUS
  <2> USE DEF IInv, TypeOK
  <2>1. ASSUME NEW c \in Calls, Attempt(c) PROVE live'[d] <= live[d]
    BY <2>1 DEF Attempt
  <2>2. ASSUME NEW c \in Calls, RunnerReturns(c) \/ RunnerThrows(c) \/ RunnerEndsLate(c)
        PROVE  live'[d] <= live[d]
    BY <2>2 DEF RunnerReturns, RunnerThrows, RunnerEndsLate
  <2>3. CASE UNCHANGED live
    BY <2>3
  <2> QED BY <2>1, <2>2, <2>3 DEF Next, Begin, Step, Abort, LogStarted, LogStartFails,
     WakeLimited, LoseRace, LogCompleted, LogCompletedFails, SubWorkflowEnds, Maintain, Tick
<1> QED BY <1>1, Invariance, PTL DEF Spec, NoStartAfterAbort
-----------------------------------------------------------------------------
(* NodeRetry implements NodeCall.                                          *)

Phases == [c \in Calls |-> PhaseOf(c)]

\* A step of one call changes the phase of that call only.
LEMMA OnePhase ==
  ASSUME TypeOK, NEW c \in Calls, NEW s, Goto(c, s)
  PROVE  /\ Phases' = [Phases EXCEPT ![c] = IF s \in {"limited", "ready", "sleeping"}
                                            THEN "running" ELSE s]
         /\ Phases[c] = PhaseOf(c)
<1>1. /\ stage' = [stage EXCEPT ![c] = s]
      /\ stage \in [Calls -> Stages]
  BY DEF Goto, TypeOK
<1>2. \A x \in Calls : stage'[x] = IF x = c THEN s ELSE stage[x]
  BY <1>1
<1> QED BY <1>2 DEF Phases, PhaseOf

\* A call moves from one phase to another, or stays where it is.
LEMMA CallMoves ==
  ASSUME TypeOK, NEW c \in Calls, NEW s \in Stages, Goto(c, s), UNCHANGED aborted,
         \/ PhaseOf(c) = "running" /\ s \in {"limited", "ready", "sleeping", "running"}
         \/ PhaseOf(c) = "logging" /\ s \in {"limited", "ready"}
         \/ PhaseOf(c) = "running" /\ c \notin aborted /\ s = "recording"
         \/ PhaseOf(c) = "recording" /\ s = "sub"
         \/ PhaseOf(c) \in {"logging", "running", "recording", "sub"} /\ s = "ended"
  PROVE  [Call!Next]_(Call!vars)
<1> USE OnePhase
<1>1. CASE PhaseOf(c) = "running" /\ s \in {"limited", "ready", "sleeping", "running"}
  <2>1. Phases' = [Phases EXCEPT ![c] = "running"] /\ Phases[c] = "running"
    BY <1>1
  <2>2. Phases' = Phases
    BY <2>1 DEF Phases
  <2> QED BY <2>2 DEF Call!vars, Phases
<1>2. CASE PhaseOf(c) = "logging" /\ s \in {"limited", "ready"}
  <2>1. Call!Run(c)
    BY <1>2 DEF Call!Run, Call!Moves, Phases
  <2> QED BY <2>1 DEF Call!Next
<1>3. CASE PhaseOf(c) = "running" /\ c \notin aborted /\ s = "recording"
  <2>1. Call!Return(c)
    BY <1>3 DEF Call!Return, Call!Moves, Phases
  <2> QED BY <2>1 DEF Call!Next
<1>4. CASE PhaseOf(c) = "recording" /\ s = "sub"
  <2>1. Call!Ask(c)
    BY <1>4 DEF Call!Ask, Call!Moves, Phases
  <2> QED BY <2>1 DEF Call!Next
<1>5. CASE PhaseOf(c) \in {"logging", "running", "recording", "sub"} /\ s = "ended"
  <2>1. Call!Moves(c, PhaseOf(c), "ended")
    BY <1>5 DEF Call!Moves, Phases
  <2>2. PhaseOf(c) \in Call!Phase \ {"idle", "ended"}
    BY <1>5 DEF Call!Phase
  <2>3. Call!End(c)
    BY <2>1, <2>2 DEF Call!End
  <2> QED BY <2>3 DEF Call!Next
<1> QED BY <1>1, <1>2, <1>3, <1>4, <1>5

\* Asking the breaker and creating the row is the start of a call.
LEMMA BeginStarts ==
  ASSUME TypeOK, NEW c \in Calls, Begin(c)
  PROVE  Call!Next
<1>1. PICK s \in {"ended", "logging"} : Goto(c, s)
  BY DEF Begin
<1>2. /\ Phases' = [Phases EXCEPT ![c] = s]
      /\ Phases[c] = "idle"
      /\ UNCHANGED aborted
  BY <1>1, OnePhase DEF Begin, PhaseOf
<1>3. PICK refused \in SUBSET {c} : refused = IF s = "ended" THEN {c} ELSE {}
  OBVIOUS
<1>4. Phases' = [x \in Calls |-> IF x \in refused THEN "ended"
                                 ELSE IF x \in {c} THEN "logging" ELSE Phases[x]]
  BY <1>2, <1>3 DEF Phases
<1>5. Call!Start({c}, refused)
  BY <1>2, <1>4 DEF Call!Start, Phases
<1> QED BY <1>3, <1>5 DEF Call!Next

\* Every step is a step of one call, an abort, or nothing its execution sees.
LEMMA StepCalls ==
  ASSUME TypeOK, [Next]_vars
  PROVE  [Call!Next]_(Call!vars)
<1>1. ASSUME NEW c \in Calls, Begin(c) PROVE [Call!Next]_(Call!vars)
  BY <1>1, BeginStarts
<1>2. ASSUME NEW c \in Calls, LogStarted(c) PROVE [Call!Next]_(Call!vars)
  <2>1. PhaseOf(c) = "logging" /\ UNCHANGED aborted
    BY <1>2 DEF LogStarted, PhaseOf
  <2>2. PICK s \in {"limited", "ready"} : Goto(c, s)
    BY <1>2 DEF LogStarted, TakeToken
  <2> QED BY <2>1, <2>2, CallMoves DEF Stages
<1>3. ASSUME NEW c \in Calls, WakeLimited(c) PROVE [Call!Next]_(Call!vars)
  <2>1. PhaseOf(c) = "running" /\ UNCHANGED aborted
    BY <1>3 DEF WakeLimited, PhaseOf
  <2>2. PICK s \in {"limited", "ready"} : Goto(c, s)
    BY <1>3 DEF WakeLimited, TakeToken
  <2> QED BY <2>1, <2>2, CallMoves DEF Stages
<1>4. ASSUME NEW c \in Calls, Attempt(c) \/ RunnerThrows(c) \/ LoseRace(c)
      PROVE  [Call!Next]_(Call!vars)
  <2>1. PhaseOf(c) = "running" /\ UNCHANGED aborted
    BY <1>4 DEF Attempt, RunnerThrows, LoseRace, PhaseOf
  <2>2. PICK s \in {"running", "sleeping", "ended"} : Goto(c, s)
    BY <1>4 DEF Attempt, RunnerThrows, LoseRace, Fail
  <2> QED BY <2>1, <2>2, CallMoves DEF Stages
<1>5. ASSUME NEW c \in Calls, RunnerReturns(c) PROVE [Call!Next]_(Call!vars)
  <2>1. PhaseOf(c) = "running" /\ c \notin aborted /\ UNCHANGED aborted /\ Goto(c, "recording")
    BY <1>5 DEF RunnerReturns, PhaseOf
  <2> QED BY <2>1, CallMoves DEF Stages
<1>6. ASSUME NEW c \in Calls, LogCompleted(c) PROVE [Call!Next]_(Call!vars)
  <2>1. PhaseOf(c) = "recording" /\ UNCHANGED aborted
    BY <1>6 DEF LogCompleted, PhaseOf
  <2>2. PICK s \in {"sub", "ended"} : Goto(c, s)
    BY <1>6 DEF LogCompleted
  <2> QED BY <2>1, <2>2, CallMoves DEF Stages
<1>7. ASSUME NEW c \in Calls, LogStartFails(c) \/ LogCompletedFails(c) \/ SubWorkflowEnds(c)
      PROVE  [Call!Next]_(Call!vars)
  <2>1. PhaseOf(c) \in {"logging", "recording", "sub"} /\ UNCHANGED aborted /\ Goto(c, "ended")
    BY <1>7 DEF LogStartFails, LogCompletedFails, SubWorkflowEnds, PhaseOf, Fail
  <2> QED BY <2>1, CallMoves DEF Stages
<1>8. ASSUME NEW c \in Calls, Abort(c) PROVE [Call!Next]_(Call!vars)
  <2>1. Phases' = Phases /\ aborted' = aborted \cup {c}
    BY <1>8 DEF Abort, Phases, PhaseOf
  <2>2. Call!Abort({c})
    BY <2>1 DEF Call!Abort, Phases
  <2> QED BY <2>2 DEF Call!Next
<1>9. CASE UNCHANGED <<stage, aborted>>
  BY <1>9 DEF Call!vars, PhaseOf
<1> QED BY <1>1, <1>2, <1>3, <1>4, <1>5, <1>6, <1>7, <1>8, <1>9
   DEF Next, Step, RunnerEndsLate, Maintain, Tick, vars

\* The breaker, the bucket, the attempts and the timers implement the call module
\* NodeCall describes: what an execution sees of a node does not depend on how often it
\* was tried, how long it waited, or what calls of other executions did meanwhile.
THEOREM CallRefinement == Spec => CallSpec
<1>1. Init => Call!Init
  BY DEF Init, Call!Init, PhaseOf
<1>2. TypeOK /\ [Next]_vars => [Call!Next]_(Call!vars)
  BY StepCalls
<1> QED BY <1>1, <1>2, TypeCorrect, PTL DEF Spec, CallSpec, Call!Spec

-----------------------------------------------------------------------------
(* How far a call is from its end.                                         *)

\* No call begins more attempts than its retry configuration allows.
AttemptsBounded == \A c \in Calls : attempt[c] <= MaxAttempts[c]

LEMMA BoundedNext == TypeOK /\ AttemptsBounded /\ [Next]_vars => AttemptsBounded'
<1> SUFFICES ASSUME TypeOK, AttemptsBounded, [Next]_vars PROVE AttemptsBounded'
  OBVIOUS
<1>1. CASE UNCHANGED attempt
  BY <1>1 DEF AttemptsBounded
<1>2. ASSUME NEW c \in Calls, Attempt(c) PROVE AttemptsBounded'
  BY <1>2, AttemptsAssumption DEF AttemptsBounded, Attempt, TypeOK
<1> QED BY <1>1, <1>2 DEF Next, vars, Begin, Step, Abort, LogStarted, LogStartFails, WakeLimited,
   RunnerReturns, RunnerThrows, RunnerEndsLate, LoseRace, LogCompleted, LogCompletedFails,
   SubWorkflowEnds, Maintain, Tick

\* Retries begun and stages passed are at most 2 * MaxAttempts[c] + 8 in all.
THEOREM CallsAreShort ==
    Spec => /\ \A c \in Calls : StagesLeft(c) = 2 * MaxAttempts[c] + 8
            /\ [](\A c \in Calls : StagesLeft(c) \in Nat)
<1>1. Init => AttemptsBounded /\ \A c \in Calls : StagesLeft(c) = 2 * MaxAttempts[c] + 8
  BY AttemptsAssumption DEF Init, AttemptsBounded, StagesLeft
<1>2. IInv /\ AttemptsBounded => \A c \in Calls : StagesLeft(c) \in Nat
  <2> SUFFICES ASSUME IInv, AttemptsBounded, NEW c \in Calls PROVE StagesLeft(c) \in Nat
    OBVIOUS
  <2>1. attempt[c] \in Nat /\ MaxAttempts[c] \in Nat /\ attempt[c] <= MaxAttempts[c]
    BY AttemptsAssumption DEF IInv, TypeOK, AttemptsBounded
  <2>2. stage[c] \in Stages
    BY DEF IInv, TypeOK
  <2> QED BY <2>1, <2>2 DEF StagesLeft, Stages
<1>3. IInv /\ AttemptsBounded /\ [Next]_vars => AttemptsBounded'
  BY BoundedNext DEF IInv
<1> QED BY <1>1, <1>2, <1>3, Invariance, PTL DEF Spec

\* What a step of call c makes of its stage and its count of attempts.
Advances(c) ==
    \/ UNCHANGED <<stage, attempt>>
    \/ \E s \in Stages :
        /\ Goto(c, s)
        /\ \/ attempt' = attempt
              /\ \/ stage[c] = "idle" /\ s \in {"logging", "ended"}
                 \/ stage[c] = "logging" /\ s \in {"limited", "ready", "ended"}
                 \/ stage[c] = "limited" /\ s \in {"limited", "ready"}
                 \/ stage[c] \in {"ready", "sleeping"} /\ s = "ended"
                 \/ stage[c] = "running" /\ s \in {"sleeping", "recording", "ended"}
                 \/ stage[c] = "recording" /\ s \in {"sub", "ended"}
                 \/ stage[c] = "sub" /\ s = "ended"
           \/ /\ attempt' = [attempt EXCEPT ![c] = @ + 1]
              /\ stage[c] \in {"ready", "sleeping"} /\ s = "running"

LEMMA StepAdvances ==
  ASSUME NEW c \in Calls, Begin(c) \/ Step(c) \/ RunnerEndsLate(c) \/ Abort(c)
  PROVE  Advances(c)
<1> USE DEF Advances, Stages
<1>1. CASE Begin(c)
  BY <1>1 DEF Begin
<1>2. CASE LogStarted(c)
  BY <1>2 DEF LogStarted, TakeToken
<1>3. CASE LogStartFails(c) \/ WakeLimited(c)
  BY <1>3 DEF LogStartFails, WakeLimited, TakeToken
<1>4. CASE Attempt(c)
  BY <1>4 DEF Attempt, Fail
<1>5. CASE RunnerReturns(c) \/ LoseRace(c)
  BY <1>5 DEF RunnerReturns, LoseRace, Fail
<1>6. CASE RunnerThrows(c)
  BY <1>6 DEF RunnerThrows, Fail
<1>7. CASE LogCompleted(c) \/ LogCompletedFails(c)
  BY <1>7 DEF LogCompleted, LogCompletedFails, Fail
<1>8. CASE SubWorkflowEnds(c)
  BY <1>8 DEF SubWorkflowEnds, Fail
<1>9. CASE RunnerEndsLate(c) \/ Abort(c)
  BY <1>9 DEF RunnerEndsLate, Abort
<1> QED BY <1>1, <1>2, <1>3, <1>4, <1>5, <1>6, <1>7, <1>8, <1>9 DEF Step

\* Such a step brings call c nearer to its end, or leaves every call where it is.
LEMMA AdvanceDescends ==
  ASSUME TypeOK, NEW c \in Calls, Advances(c), NEW d \in Calls
  PROVE  /\ stage'[d] # stage[d] => StagesLeft(d)' < StagesLeft(d)
         /\ stage'[d] = stage[d] => StagesLeft(d)' = StagesLeft(d)
<1>1. /\ stage \in [Calls -> Stages] /\ attempt[d] \in Nat /\ MaxAttempts[d] \in Nat
      /\ attempt \in [Calls -> Nat]
  BY AttemptsAssumption DEF TypeOK
<1>2. CASE stage'[d] = stage[d] /\ attempt'[d] = attempt[d]
  BY <1>2 DEF StagesLeft
<1>3. CASE c # d \/ UNCHANGED <<stage, attempt>>
  <2>1. stage'[d] = stage[d] /\ attempt'[d] = attempt[d]
    BY <1>1, <1>3 DEF Advances, Goto
  <2> QED BY <1>2, <2>1
<1>4. CASE c = d /\ ~UNCHANGED <<stage, attempt>>
  <2>1. PICK s \in Stages : Advances(c)!2!(s)
    BY <1>4 DEF Advances
  <2>2. stage'[d] = s
    BY <1>1, <1>4, <2>1 DEF Goto
  <2>3. CASE attempt' = attempt
    <3>1. CASE s = stage[d]
      BY <1>2, <2>2, <2>3, <3>1
    <3>2. CASE s # stage[d]
      BY <1>1, <1>4, <2>1, <2>2, <2>3, <3>2 DEF StagesLeft, Stages
    <3> QED BY <3>1, <3>2
  <2>4. CASE attempt' # attempt
    <3>1. attempt'[d] = attempt[d] + 1
      BY <1>1, <1>4, <2>1, <2>4
    <3> QED BY <1>1, <1>4, <2>1, <2>2, <2>4, <3>1 DEF StagesLeft, Stages
  <2> QED BY <2>3, <2>4
<1> QED BY <1>3, <1>4

\* No retry, timeout or half-open breaker sets a call back.
THEOREM CallsGoOn == Spec => CallsDescend
<1>1. IInv /\ [Next]_vars =>
        [\A c \in Calls : /\ stage'[c] # stage[c] => StagesLeft(c)' < StagesLeft(c)
                          /\ stage'[c] = stage[c] => StagesLeft(c)' = StagesLeft(c)]_vars
  <2> SUFFICES ASSUME IInv, Next, NEW d \in Calls
               PROVE  /\ stage'[d] # stage[d] => StagesLeft(d)' < StagesLeft(d)
                      /\ stage'[d] = stage[d] => StagesLeft(d)' = StagesLeft(d)
    OBVIOUS
  <2>1. TypeOK
    BY DEF IInv
  <2>2. CASE Maintain \/ Tick
    BY <2>2 DEF Maintain, Tick, StagesLeft
  <2>3. ASSUME NEW c \in Calls, Begin(c) \/ Step(c) \/ RunnerEndsLate(c) \/ Abort(c)
        PROVE  Advances(c)
    BY <2>3, StepAdvances
  <2> QED BY <2>1, <2>2, <2>3, AdvanceDescends DEF Next
<1> QED BY <1>1, Invariance, PTL DEF Spec, CallsDescend
=============================================================================
