------------------------------ MODULE NodeRetry ------------------------------
(***************************************************************************)
(* What stands between executeNode and the runner of a node: the circuit   *)
(* breaker of the node type, the token bucket of the credential, and the   *)
(* attempts of executeNodeWithRetry, each raced against a timer and the    *)
(* abort signal of its execution.  A call is one executeNode; all calls    *)
(* modelled are for one node type and one credential and run in one        *)
(* process, so they share one breaker and one bucket.                      *)
(*                                                                         *)
(* A step is the code between two awaits.  Times are ticks of a clock and  *)
(* relative to now: Date.now() >= nextRetryAt is cooling = 0.  Backoff     *)
(* delays are abstracted to "some time".                                   *)
(***************************************************************************)
EXTENDS Integers, FiniteSets

CONSTANTS
    Calls,          \* executions of nodes of one type, with one credential
    MaxAttempts,    \* retryConfig.maxAttempts of each call
    Rate,           \* requestsPerSecond of each call (0: no limit configured)
    Threshold,      \* CIRCUIT_BREAKER_THRESHOLD
    ResetTime,      \* CIRCUIT_BREAKER_RESET_MS, in ticks
    MaxFaults       \* bound on calls to PostgreSQL or Redis that reject

ASSUME CallsAssumption == IsFiniteSet(Calls)
ASSUME AttemptsAssumption == MaxAttempts \in [Calls -> Nat]
\* Whole requests per second: below one, the bucket never holds a token.
ASSUME RateAssumption == Rate \in [Calls -> Nat]
ASSUME BreakerAssumption == Threshold \in Nat \ {0} /\ ResetTime \in Nat \ {0}
ASSUME FaultAssumption == MaxFaults \in Nat

VARIABLES
    stage,      \* the await each call stands at
    attempt,    \* attempts it has begun
    live,       \* its runners still at work
    aborted,    \* calls whose execution's signal is aborted
    failures,   \* CircuitBreakerState.failures
    circuit,    \* CircuitBreakerState.state
    cooling,    \* ticks until nextRetryAt
    bucket,     \* the token bucket, and the ticks since its lastRefill
    faults      \* faults so far (bounded by MaxFaults)

breaker == <<failures, circuit, cooling>>
vars == <<stage, attempt, live, aborted, breaker, bucket, faults>>

Stages == {"idle", "logging", "limited", "ready", "running", "sleeping",
           "recording", "sub", "ended"}

Init ==
    /\ stage = [c \in Calls |-> "idle"]
    /\ attempt = [c \in Calls |-> 0]
    /\ live = [c \in Calls |-> 0]
    /\ aborted = {}
    /\ failures = 0
    /\ circuit = "closed"
    /\ cooling = 0
    /\ bucket = [made |-> FALSE, tokens |-> 0, idle |-> 0]
    /\ faults = 0

Goto(c, s) == stage' = [stage EXCEPT ![c] = s]
Fault == faults < MaxFaults /\ faults' = faults + 1

-----------------------------------------------------------------------------
(* The circuit breaker.                                                    *)

\* What isCircuitBreakerOpen answers; asked when open and cooled down, it
\* moves the breaker to half-open.
IsOpen == circuit = "open" /\ cooling > 0

AskBreaker ==
    /\ circuit' = IF circuit = "open" /\ cooling = 0 THEN "half-open" ELSE circuit
    /\ UNCHANGED <<failures, cooling>>

\* Mutant of RecordFailure: the count starts again when the breaker opens.
RecordFailureResets ==
    IF failures + 1 >= Threshold
    THEN failures' = 0 /\ circuit' = "open" /\ cooling' = ResetTime
    ELSE failures' = failures + 1 /\ UNCHANGED <<circuit, cooling>>

RecordFailure ==
    /\ failures' = failures + 1
    /\ IF failures' >= Threshold
       THEN circuit' = "open" /\ cooling' = ResetTime
       ELSE UNCHANGED <<circuit, cooling>>

ResetBreaker == failures' = 0 /\ circuit' = "closed" /\ UNCHANGED cooling

\* The catch block of executeNode: whatever was thrown, a cancellation or a
\* request to stop included, counts against the node type.
Fail(c) == Goto(c, "ended") /\ RecordFailure

-----------------------------------------------------------------------------
(* The token bucket.                                                       *)

Lesser(a, b) == IF a < b THEN a ELSE b

\* Mutant of Tokens: a waiter does not refill the bucket.
TokensLeft(c) == IF bucket.made THEN Lesser(Rate[c], bucket.tokens) ELSE Rate[c]

\* The tokens of the bucket once it is created or refilled for call c.
Tokens(c) ==
    IF bucket.made THEN Lesser(Rate[c], bucket.tokens + Rate[c] * bucket.idle) ELSE Rate[c]

\* One turn of waitForRateLimit: refill, and take a token or sleep.
TakeToken(c) ==
    \/ /\ Tokens(c) >= 1
       /\ bucket' = [made |-> TRUE, tokens |-> Tokens(c) - 1, idle |-> 0]
       /\ Goto(c, "ready")
    \/ /\ Tokens(c) < 1
       /\ bucket' = [made |-> TRUE, tokens |-> Tokens(c), idle |-> 0]
       /\ Goto(c, "limited")

-----------------------------------------------------------------------------
(* executeNode and executeNodeWithRetry.                                   *)

\* The breaker is asked before the log row is created, outside the try block.
Begin(c) ==
    /\ stage[c] = "idle"
    /\ AskBreaker
    /\ Goto(c, IF IsOpen THEN "ended" ELSE "logging")
    /\ UNCHANGED <<attempt, live, aborted, bucket, faults>>

LogStarted(c) ==
    /\ stage[c] = "logging"
    /\ \/ Rate[c] > 0 /\ TakeToken(c)
       \/ Rate[c] = 0 /\ Goto(c, "ready") /\ UNCHANGED bucket
    /\ UNCHANGED <<attempt, live, aborted, breaker, faults>>

\* Still outside the try block: not recorded.
LogStartFails(c) ==
    /\ stage[c] = "logging"
    /\ Fault
    /\ Goto(c, "ended")
    /\ UNCHANGED <<attempt, live, aborted, breaker, bucket>>

\* Mutant of WakeLimited: having waited is enough.
WakeAndTake(c) ==
    /\ stage[c] = "limited"
    /\ bucket' = [made |-> TRUE, tokens |-> Tokens(c) - 1, idle |-> 0]
    /\ Goto(c, "ready")
    /\ UNCHANGED <<attempt, live, aborted, breaker, faults>>

WakeLimited(c) ==
    /\ stage[c] = "limited"
    /\ TakeToken(c)
    /\ UNCHANGED <<attempt, live, aborted, breaker, faults>>

\* Mutant of Attempt: the signal is looked at before the first attempt only.
AttemptAnyway(c) ==
    /\ stage[c] \in {"ready", "sleeping"}
    /\ \/ /\ c \in aborted /\ stage[c] = "ready"
          /\ Fail(c)
          /\ UNCHANGED <<attempt, live>>
       \/ /\ c \notin aborted \/ stage[c] = "sleeping"
          /\ AskBreaker
          /\ Goto(c, "running")
          /\ attempt' = [attempt EXCEPT ![c] = @ + 1]
          /\ live' = [live EXCEPT ![c] = @ + 1]
    /\ UNCHANGED <<aborted, bucket, faults>>

\* The top of the attempt loop, up to the race.
Attempt(c) ==
    /\ stage[c] \in {"ready", "sleeping"}
    /\ \/ /\ \/ attempt[c] >= MaxAttempts[c]
             \/ c \in aborted
             \/ attempt[c] > 0 /\ IsOpen
          /\ Fail(c)
          /\ UNCHANGED <<attempt, live>>
       \/ /\ attempt[c] < MaxAttempts[c] /\ c \notin aborted
          /\ \/ attempt[c] = 0 /\ UNCHANGED breaker
             \/ attempt[c] > 0 /\ ~IsOpen /\ AskBreaker
          /\ Goto(c, "running")
          /\ attempt' = [attempt EXCEPT ![c] = @ + 1]
          /\ live' = [live EXCEPT ![c] = @ + 1]
    /\ UNCHANGED <<aborted, bucket, faults>>

RunnerReturns(c) ==
    /\ stage[c] = "running" /\ c \notin aborted
    /\ live' = [live EXCEPT ![c] = @ - 1]
    /\ Goto(c, "recording")
    /\ UNCHANGED <<attempt, aborted, breaker, bucket, faults>>

\* Mutant of RunnerThrows: every failed attempt is recorded.
RunnerThrowsCounted(c) ==
    /\ stage[c] = "running" /\ c \notin aborted
    /\ live' = [live EXCEPT ![c] = @ - 1]
    /\ \/ Fail(c)
       \/ /\ attempt[c] < MaxAttempts[c]
          /\ Goto(c, "sleeping")
          /\ RecordFailure
    /\ UNCHANGED <<attempt, aborted, bucket, faults>>

\* The runner itself throws: try again, unless that was the last attempt or the
\* message says "timed out" or "Execution cancelled".
RunnerThrows(c) ==
    /\ stage[c] = "running" /\ c \notin aborted
    /\ live' = [live EXCEPT ![c] = @ - 1]
    /\ \/ Fail(c)
       \/ /\ attempt[c] < MaxAttempts[c]
          /\ Goto(c, "sleeping")
          /\ UNCHANGED breaker
    /\ UNCHANGED <<attempt, aborted, bucket, faults>>

\* Mutant of LoseRace: a timeout is retried like any other error.
LoseRaceAndRetry(c) ==
    /\ stage[c] = "running"
    /\ \/ attempt[c] < MaxAttempts[c] /\ Goto(c, "sleeping") /\ UNCHANGED breaker
       \/ attempt[c] >= MaxAttempts[c] /\ Fail(c)
    /\ UNCHANGED <<attempt, live, aborted, bucket, faults>>

\* The timer or the abort wins the race: the runner is left at work, and the
\* call is not retried.
LoseRace(c) ==
    /\ stage[c] = "running"
    /\ Fail(c)
    /\ UNCHANGED <<attempt, live, aborted, bucket, faults>>

\* A runner that lost its race ends; nobody hears of it.
RunnerEndsLate(c) ==
    /\ stage[c] # "running" /\ live[c] > 0
    /\ live' = [live EXCEPT ![c] = @ - 1]
    /\ UNCHANGED <<stage, attempt, aborted, breaker, bucket, faults>>

\* The log row is updated, and only then the success counts: another call may
\* have opened the breaker meanwhile, and this closes it.
LogCompleted(c) ==
    /\ stage[c] = "recording"
    /\ ResetBreaker
    /\ \E s \in {"sub", "ended"} : Goto(c, s)
    /\ UNCHANGED <<attempt, live, aborted, bucket, faults>>

LogCompletedFails(c) ==
    /\ stage[c] = "recording"
    /\ Fault
    /\ Fail(c)
    /\ UNCHANGED <<attempt, live, aborted, bucket>>

\* The sub-workflow the node asked for ends, well or not; or the result asks to
\* stop, which is thrown and counted like an error.
SubWorkflowEnds(c) ==
    /\ stage[c] = "sub"
    /\ \/ Goto(c, "ended") /\ UNCHANGED breaker
       \/ Fail(c)
    /\ UNCHANGED <<attempt, live, aborted, bucket, faults>>

Abort(c) ==
    /\ c \notin aborted /\ stage[c] # "ended"
    /\ aborted' = aborted \cup {c}
    /\ UNCHANGED <<stage, attempt, live, breaker, bucket, faults>>

-----------------------------------------------------------------------------
(* Time.                                                                   *)

\* Mutant of Maintain: it waits for the failures to be forgotten, too.
MaintainForgotten ==
    /\ circuit = "open" /\ cooling = 0 /\ failures < Threshold
    /\ circuit' = "half-open"
    /\ UNCHANGED <<stage, attempt, live, aborted, failures, cooling, bucket, faults>>

\* The interval of startCircuitBreakerMaintenance.
Maintain ==
    /\ circuit = "open" /\ cooling = 0
    /\ circuit' = "half-open"
    /\ UNCHANGED <<stage, attempt, live, aborted, failures, cooling, bucket, faults>>

\* A tick.  Ticks without a request fill the bucket at most to its cap, so
\* counting MaxIdle of them is enough.
MaxIdle == 1
Tick ==
    /\ cooling' = IF cooling > 0 THEN cooling - 1 ELSE 0
    /\ bucket' = [bucket EXCEPT !.idle = IF bucket.made THEN Lesser(@ + 1, MaxIdle) ELSE 0]
    /\ UNCHANGED <<stage, attempt, live, aborted, failures, circuit, faults>>

-----------------------------------------------------------------------------
Step(c) ==
    \/ LogStarted(c) \/ LogStartFails(c) \/ WakeLimited(c) \/ Attempt(c)
    \/ RunnerReturns(c) \/ RunnerThrows(c) \/ LoseRace(c)
    \/ LogCompleted(c) \/ LogCompletedFails(c) \/ SubWorkflowEnds(c)

Next ==
    \/ Maintain \/ Tick
    \/ \E c \in Calls : Begin(c) \/ Step(c) \/ RunnerEndsLate(c) \/ Abort(c)

Spec == Init /\ [][Next]_vars

\* Timers fire and awaits settle: a runner that hangs loses its race.
Fairness ==
    /\ WF_vars(Tick) /\ WF_vars(Maintain)
    /\ \A c \in Calls : WF_vars(Step(c))

FairSpec == Spec /\ Fairness

-----------------------------------------------------------------------------
(* Properties.                                                             *)

\* Every variable stays in the range the code gives it; in particular no two
\* waiters take the same token, which would leave a negative number.
TypeOK ==
    /\ stage \in [Calls -> Stages]
    /\ attempt \in [Calls -> Nat]
    /\ live \in [Calls -> Nat]
    /\ aborted \subseteq Calls
    /\ failures \in Nat
    /\ circuit \in {"closed", "open", "half-open"}
    /\ cooling \in 0..ResetTime
    /\ bucket \in [made : BOOLEAN, tokens : Nat, idle : Nat]
    /\ faults \in Nat

\* However often a call is retried, timed out or aborted, no two runners of it are
\* ever at work at the same time: what a node does to the outside is not doubled.
OneRunner == \A c \in Calls : live[c] <= 1

\* Once an execution is aborted, none of its nodes is started or tried again,
\* even if the abort came while the call slept between two attempts.
NoStartAfterAbort == [][\A c \in Calls : c \in aborted => live'[c] <= live[c]]_vars

\* The breaker is not closed only while the threshold is reached: an open or
\* half-open breaker opens again at the first failure, whoever closes and opens it
\* in between.
BreakerHasReason == circuit # "closed" => failures >= Threshold

\* A call counts once, however many of its attempts fail: one node that is
\* retried does not open the breaker for all executions.
OneCallOneFailure == failures <= Cardinality({c \in Calls : stage[c] = "ended"})

\* How far a call is, for its execution: the token it waits for, its attempts and
\* the sleeps between them are one wait.
PhaseOf(c) == IF stage[c] \in {"limited", "ready", "sleeping"} THEN "running" ELSE stage[c]

\* Whatever the breaker, the bucket, the retries and the timers do, a call is one
\* of those module NodeCall promises to its execution: one log row, one outcome,
\* and no result taken from a runner after an abort.
Call == INSTANCE NodeCall WITH phase <- [c \in Calls |-> PhaseOf(c)]
CallSpec == Call!Spec

\* A bound on the stages call c can still come to.
StagesLeft(c) ==
    2 * (MaxAttempts[c] - attempt[c])
        + CASE stage[c] = "idle" -> 8
            [] stage[c] = "logging" -> 7
            [] stage[c] = "limited" -> 6
            [] stage[c] = "ready" -> 5
            [] stage[c] = "running" -> 4
            [] stage[c] = "sleeping" -> 3
            [] stage[c] = "recording" -> 2
            [] stage[c] = "sub" -> 1
            [] stage[c] = "ended" -> 0

\* Retries, timeouts and half-open breakers never set a call back: each stage it comes
\* to brings it nearer to its end.  Only the wait for a token, which other calls may
\* take, can come round again.
CallsDescend ==
    [][\A c \in Calls : /\ stage'[c] # stage[c] => StagesLeft(c)' < StagesLeft(c)
                        /\ stage'[c] = stage[c] => StagesLeft(c)' = StagesLeft(c)]_vars

\* Every call that is begun ends, although it may wait for a token others take.
CallsEnd == \A c \in Calls : stage[c] = "logging" ~> stage[c] = "ended"

\* The breaker does not stay open: some call is let through to try again.
BreakerRecovers == circuit = "open" ~> circuit # "open"
=============================================================================
