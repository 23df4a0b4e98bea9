--------------------------- MODULE WorkflowWorker ---------------------------
(***************************************************************************)
(* The life of an execution, from the API call that creates its row to the *)
(* last status a worker writes.  An instance is one process of apps/api:   *)
(* it serves the HTTP routes (ExecutionService) and runs the polling       *)
(* worker (WorkflowWorkerService).  Instances share the execution table,   *)
(* the two Redis lists and the Redis pub/sub channels, nothing else.       *)
(*                                                                         *)
(* A step of the model is the code between two awaits.  What the nodes of  *)
(* a workflow do is abstracted to "they end well" or "they throw"; module  *)
(* BranchExecutor opens that box.                                          *)
(***************************************************************************)
EXTENDS Integers, FiniteSets, Sequences

CONSTANTS
    Execs,              \* executions (rows of the table and jobs about them)
    SubExecs,           \* those started by a sub-workflow node, not by a user
    Instances,          \* processes of apps/api
    ConcurrentWorkers,  \* WORKER_CONCURRENCY
    BatchSize,          \* WORKER_BATCH_SIZE
    CancelCallers,      \* executions somebody cancels through the worker's own API
    Retiring,           \* instances whose application may be closed
    MaxFaults           \* bound on crashes and on I/O errors of an open connection

ASSUME ConcurrencyAssumption == ConcurrentWorkers \in Nat \ {0}
ASSUME BatchAssumption == BatchSize \in Nat \ {0}
ASSUME FaultAssumption == MaxFaults \in Nat
ASSUME SubsetAssumption ==
    SubExecs \subseteq Execs /\ CancelCallers \subseteq Execs /\ Retiring \subseteq Instances

VARIABLES
    status,          \* Execution.status in PostgreSQL ("NONE": no row yet)
    queue,           \* the two Redis lists; the head is the next RPOP
    unpushed,        \* rows an instance has created and not pushed yet
    cancelling,      \* cancel requests past their status check
    inbox,           \* 'execution:cancel' messages on their way to an instance
    mode,            \* "running", "closing", "draining", "down" or "exited"
    pollAt,          \* where poll() stands: its timer, an rpop, or "off"
    fetches,         \* rpop rounds left in this poll (jobsToFetch - i)
    hand,            \* jobs this poll has popped and not started
    processingCount,
    phase,           \* the await each processExecution stands at
    aborted,         \* active executions whose AbortController is aborted
    faults,          \* faults so far (bounded by MaxFaults)
    lost,            \* history: executions a rejected call or an exit dropped
    cancelledEarly   \* history: cancelled while no worker was processing them

store == <<status, queue>>
requests == <<unpushed, cancelling>>
polling == <<pollAt, fetches, hand>>
processing == <<processingCount, phase, aborted>>
history == <<lost, cancelledEarly>>
vars == <<store, requests, inbox, mode, polling, processing, faults, history>>

Terminal == {"COMPLETED", "FAILED", "CANCELLED", "TIMEOUT"}   \* nothing writes TIMEOUT
Status == {"NONE", "PENDING", "QUEUED", "RUNNING"} \cup Terminal
Cancellable == {"PENDING", "QUEUED", "RUNNING"}
Queues == {"priority", "regular"}
Phase == {"idle", "check", "start", "run", "complete", "cleanup",
          "failing", "aborting", "report"}
Modes == {"running", "closing", "draining", "down", "exited"}
PollPoints == {"timer", "priority", "regular", "off"}

Lesser(a, b) == IF a < b THEN a ELSE b

\* activeExecutions: set at the top of processExecution, deleted in its finally.
Active(w) == {e \in Execs : phase[w][e] # "idle"}

\* Everything instance w would forget if its process ended.
Held(w) == unpushed[w] \cup hand[w] \cup Active(w)

InQueue(e) == \E q \in Queues : \E i \in 1..Len(queue[q]) : queue[q][i] = e

-----------------------------------------------------------------------------
(* Initial state: every instance has run onModuleInit, nothing is queued.  *)

Init ==
    /\ status = [e \in Execs |-> "NONE"]
    /\ queue = [q \in Queues |-> <<>>]
    /\ unpushed = [w \in Instances |-> {}]
    /\ cancelling = [w \in Instances |-> {}]
    /\ inbox = [w \in Instances |-> {}]
    /\ mode = [w \in Instances |-> "running"]
    /\ pollAt = [w \in Instances |-> "timer"]
    /\ fetches = [w \in Instances |-> 0]
    /\ hand = [w \in Instances |-> {}]
    /\ processingCount = [w \in Instances |-> 0]
    /\ phase = [w \in Instances |-> [e \in Execs |-> "idle"]]
    /\ aborted = [w \in Instances |-> {}]
    /\ faults = 0
    /\ lost = {}
    /\ cancelledEarly = {}

Fault == faults < MaxFaults /\ faults' = faults + 1

\* Mutant of Connected: the Redis client outlives the worker's shutdown.
NeverQuits(w) == mode[w] # "exited"

\* The Redis client of w answers.  Closing the application quits it first.
Connected(w) == mode[w] = "running"

\* A call to Redis rejects: by a fault, or because the client has quit.
Rejects(w) == Fault \/ (~Connected(w) /\ UNCHANGED faults)

-----------------------------------------------------------------------------
(* ExecutionService: trigger, triggerAsGuest, cancel; and the two places   *)
(* where a running workflow starts another one.  Closing the application   *)
(* destroys its modules before its HTTP server, so an instance that drains *)
(* still answers requests, with no Redis behind them.                      *)

\* A user triggers a workflow, a node asks for a sub-workflow or triggerSubWorkflow
\* is called.  No execution need be at run: the runner of an inline sub-workflow
\* that lost to its timer goes on after its parent has ended.
CreateExecution(w, e) ==
    /\ status[e] = "NONE"
    /\ mode[w] # "exited"
    /\ status' = [status EXCEPT ![e] = "PENDING"]
    /\ unpushed' = [unpushed EXCEPT ![w] = @ \cup {e}]
    /\ UNCHANGED <<queue, cancelling, inbox, mode, polling, processing, faults, history>>

PushJob(w, e) ==
    /\ e \in unpushed[w] /\ Connected(w)
    /\ queue' = [queue EXCEPT ![IF e \in SubExecs THEN "priority" ELSE "regular"] =
                     Append(@, e)]
    /\ unpushed' = [unpushed EXCEPT ![w] = @ \ {e}]
    /\ UNCHANGED <<status, cancelling, inbox, mode, polling, processing, faults, history>>

\* LPUSH rejects: the request fails and the row stays PENDING.
PushFails(w, e) ==
    /\ e \in unpushed[w]
    /\ Rejects(w)
    /\ unpushed' = [unpushed EXCEPT ![w] = @ \ {e}]
    /\ lost' = lost \cup {e}
    /\ UNCHANGED <<store, cancelling, inbox, mode, polling, processing, cancelledEarly>>

\* cancel(): the row is read and its status checked ...
CancelCheck(w, e) ==
    /\ mode[w] # "exited"
    /\ status[e] \in Cancellable
    /\ cancelling' = [cancelling EXCEPT ![w] = @ \cup {e}]
    /\ UNCHANGED <<store, unpushed, inbox, mode, polling, processing, faults, history>>

\* A publish reaches every live instance subscribed to the channel; the
\* listener of the worker subscribes to 'execution:cancel' only, on a connection of
\* its own that nobody quits.
Published(channel, e) ==
    [v \in Instances |-> IF channel = "execution:cancel" /\ mode[v] # "exited"
                         THEN inbox[v] \cup {e} ELSE inbox[v]]

\* ... and then, whatever has happened since, the status is overwritten and
\* the cancellation published.
CancelWrite(w, e) ==
    /\ e \in cancelling[w]
    /\ status' = [status EXCEPT ![e] = "CANCELLED"]
    /\ inbox' = Published("execution:cancelled", e)
    /\ cancelling' = [cancelling EXCEPT ![w] = @ \ {e}]
    /\ cancelledEarly' = IF status[e] = "PENDING" /\ \A v \in Instances : e \notin Active(v)
                         THEN cancelledEarly \cup {e} ELSE cancelledEarly
    /\ UNCHANGED <<queue, unpushed, mode, polling, processing, faults, lost>>

-----------------------------------------------------------------------------
(* WorkflowWorkerService: cancellation.                                    *)

Abort(w, S) == aborted' = [aborted EXCEPT ![w] = @ \cup S]

\* cancelExecution: abort the local controller, or else tell the others.
CancelExecution(w, e) ==
    /\ e \in CancelCallers
    /\ mode[w] # "exited"
    /\ \/ /\ e \in Active(w)
          /\ Abort(w, {e})
          /\ UNCHANGED inbox
       \/ /\ e \notin Active(w) /\ Connected(w)
          /\ inbox' = Published("execution:cancel", e)
          /\ UNCHANGED aborted
    /\ UNCHANGED <<store, requests, mode, polling, processingCount, phase, faults, history>>

\* The listener set up by setupCancellationListener.
OnCancelMessage(w, e) ==
    /\ e \in inbox[w]
    /\ inbox' = [inbox EXCEPT ![w] = @ \ {e}]
    /\ Abort(w, Active(w) \cap {e})
    /\ UNCHANGED <<store, requests, mode, polling, processingCount, phase, faults, history>>

-----------------------------------------------------------------------------
(* WorkflowWorkerService: poll.                                            *)

\* Mutant of PollStart: poll() forgets to look at isRunning.
PollStartAlways(w) ==
    /\ pollAt[w] = "timer" /\ mode[w] # "exited"
    /\ processingCount[w] < ConcurrentWorkers
    /\ pollAt' = [pollAt EXCEPT ![w] = "priority"]
    /\ fetches' = [fetches EXCEPT ![w] =
                       Lesser(ConcurrentWorkers - processingCount[w], BatchSize)]
    /\ UNCHANGED <<store, requests, inbox, mode, hand, processing, faults, history>>

PollStart(w) ==
    /\ pollAt[w] = "timer" /\ mode[w] \in {"running", "closing"}
    /\ processingCount[w] < ConcurrentWorkers
    /\ pollAt' = [pollAt EXCEPT ![w] = "priority"]
    /\ fetches' = [fetches EXCEPT ![w] =
                       Lesser(ConcurrentWorkers - processingCount[w], BatchSize)]
    /\ UNCHANGED <<store, requests, inbox, mode, hand, processing, faults, history>>

\* The timer of a poll that was in flight when the shutdown began.
PollReturns(w) ==
    /\ pollAt[w] = "timer" /\ mode[w] \in {"draining", "down"}
    /\ pollAt' = [pollAt EXCEPT ![w] = "off"]
    /\ UNCHANGED <<store, requests, inbox, mode, fetches, hand, processing, faults, history>>

\* Mutant of Launch: poll() does not rearm its timer.
LaunchOnce(w, jobs) ==
    /\ processingCount' = [processingCount EXCEPT ![w] = @ + Cardinality(jobs)]
    /\ phase' = [phase EXCEPT ![w] =
                     [e \in Execs |-> IF e \in jobs THEN "check" ELSE @[e]]]
    /\ hand' = [hand EXCEPT ![w] = {}]
    /\ fetches' = [fetches EXCEPT ![w] = 0]
    /\ pollAt' = [pollAt EXCEPT ![w] = "off"]

\* Mutant of Launch: the jobs count as active only later.
LaunchUncounted(w, jobs) ==
    /\ phase' = [phase EXCEPT ![w] =
                     [e \in Execs |-> IF e \in jobs THEN "check" ELSE @[e]]]
    /\ hand' = [hand EXCEPT ![w] = {}]
    /\ fetches' = [fetches EXCEPT ![w] = 0]
    /\ pollAt' = [pollAt EXCEPT ![w] = "timer"]
    /\ UNCHANGED processingCount

\* The loop over the popped jobs: no await, so they all start at once, and
\* poll() rearms its timer.
Launch(w, jobs) ==
    /\ processingCount' = [processingCount EXCEPT ![w] = @ + Cardinality(jobs)]
    /\ phase' = [phase EXCEPT ![w] =
                     [e \in Execs |-> IF e \in jobs THEN "check" ELSE @[e]]]
    /\ hand' = [hand EXCEPT ![w] = {}]
    /\ fetches' = [fetches EXCEPT ![w] = 0]
    /\ pollAt' = [pollAt EXCEPT ![w] = "timer"]

\* Mutant of Take: the job is read and left in the list.
TakePeeks(w, q) ==
    LET jobs == hand[w] \cup {Head(queue[q])} IN
    /\ queue[q] # <<>>
    /\ Launch(w, jobs)
    /\ UNCHANGED queue

\* An rpop that returns a job: the last one of this poll starts them all.
Take(w, q) ==
    LET jobs == hand[w] \cup {Head(queue[q])} IN
    /\ queue[q] # <<>>
    /\ queue' = [queue EXCEPT ![q] = Tail(@)]
    /\ \/ fetches[w] = 1 /\ Launch(w, jobs)
       \/ /\ fetches[w] > 1
          /\ hand' = [hand EXCEPT ![w] = jobs]
          /\ fetches' = [fetches EXCEPT ![w] = @ - 1]
          /\ pollAt' = [pollAt EXCEPT ![w] = "priority"]
          /\ UNCHANGED <<processingCount, phase>>

PopPriority(w) ==
    /\ pollAt[w] = "priority" /\ Connected(w)
    /\ \/ Take(w, "priority")
       \/ /\ queue["priority"] = <<>>
          /\ pollAt' = [pollAt EXCEPT ![w] = "regular"]
          /\ UNCHANGED <<queue, fetches, hand, processingCount, phase>>
    /\ UNCHANGED <<status, requests, inbox, mode, aborted, faults, history>>

\* Mutant of PopRegular: finding both lists empty ends the poll at once.
PopRegularReturns(w) ==
    /\ pollAt[w] = "regular" /\ Connected(w)
    /\ \/ Take(w, "regular")
       \/ /\ queue["regular"] = <<>>
          /\ Launch(w, {})
          /\ UNCHANGED queue
    /\ UNCHANGED <<status, requests, inbox, mode, aborted, faults, history>>

PopRegular(w) ==
    /\ pollAt[w] = "regular" /\ Connected(w)
    /\ \/ Take(w, "regular")
       \/ /\ queue["regular"] = <<>>
          /\ Launch(w, hand[w])
          /\ UNCHANGED queue
    /\ UNCHANGED <<status, requests, inbox, mode, aborted, faults, history>>

\* An rpop rejects: the catch logs, the jobs already popped are forgotten.
PollFails(w) ==
    /\ pollAt[w] \in {"priority", "regular"}
    /\ Rejects(w)
    /\ pollAt' = [pollAt EXCEPT ![w] = "timer"]
    /\ hand' = [hand EXCEPT ![w] = {}]
    /\ fetches' = [fetches EXCEPT ![w] = 0]
    /\ lost' = lost \cup hand[w]
    /\ UNCHANGED <<store, requests, inbox, mode, processing, cancelledEarly>>

-----------------------------------------------------------------------------
(* WorkflowWorkerService: processExecution.                                *)

Goto(w, e, p) == phase' = [phase EXCEPT ![w][e] = p]

\* The finally block and the finally of the caller in poll().
Leave(w, e) ==
    /\ Goto(w, e, "idle")
    /\ aborted' = [aborted EXCEPT ![w] = @ \ {e}]
    /\ processingCount' = [processingCount EXCEPT ![w] = @ - 1]

\* Mutant of Catch: the catch gives the slot back, and the finally again.
CatchDecrements(w, e) ==
    /\ Goto(w, e, IF e \in aborted[w] THEN "aborting" ELSE "failing")
    /\ processingCount' = [processingCount EXCEPT ![w] = @ - 1]
    /\ UNCHANGED aborted

\* The catch block: isCancelled is read here, before the update is awaited.
Catch(w, e) ==
    /\ Goto(w, e, IF e \in aborted[w] THEN "aborting" ELSE "failing")
    /\ UNCHANGED <<aborted, processingCount>>

\* Mutant of CheckStatus: the row is not looked at.
CheckNothing(w, e) ==
    /\ phase[w][e] = "check"
    /\ Goto(w, e, "start")
    /\ UNCHANGED <<aborted, processingCount>>
    /\ UNCHANGED <<store, requests, inbox, mode, polling, faults, history>>

CheckStatus(w, e) ==
    /\ phase[w][e] = "check"
    /\ \/ status[e] = "CANCELLED" /\ Leave(w, e)
       \/ /\ status[e] # "CANCELLED"
          /\ Goto(w, e, "start")
          /\ UNCHANGED <<aborted, processingCount>>
    /\ UNCHANGED <<store, requests, inbox, mode, polling, faults, history>>

\* The row is RUNNING; if the publish that follows cannot go out, that is all.
MarkRunning(w, e) ==
    /\ phase[w][e] = "start"
    /\ status' = [status EXCEPT ![e] = "RUNNING"]
    /\ \/ Connected(w) /\ Goto(w, e, "run") /\ UNCHANGED <<aborted, processingCount>>
       \/ ~Connected(w) /\ Catch(w, e)
    /\ UNCHANGED <<queue, requests, inbox, mode, polling, faults, history>>

\* executeWithParallelBranches returns (it may, even after an abort: the
\* signal is not read again once the last node has ended).
NodesDone(w, e) ==
    /\ phase[w][e] = "run"
    /\ Goto(w, e, "complete")
    /\ UNCHANGED <<store, requests, inbox, mode, polling, processingCount, aborted, faults, history>>

\* ... or throws: a call or a node failed, or the abort was noticed.  A node may
\* itself throw the message that is taken for an abort.
NodesThrow(w, e) ==
    /\ phase[w][e] = "run"
    /\ Catch(w, e) \/ (Goto(w, e, "aborting") /\ UNCHANGED <<aborted, processingCount>>)
    /\ UNCHANGED <<store, requests, inbox, mode, polling, faults, history>>

MarkCompleted(w, e) ==
    /\ phase[w][e] = "complete"
    /\ status' = [status EXCEPT ![e] = "COMPLETED"]
    /\ Goto(w, e, "cleanup")
    /\ UNCHANGED <<queue, requests, inbox, mode, polling, processingCount, aborted, faults, history>>

\* Mutant of MarkFailed: a status the table does not know.
MarkAborted(w, e) ==
    /\ phase[w][e] \in {"failing", "aborting"}
    /\ status' = [status EXCEPT ![e] =
                      IF phase[w][e] = "aborting" THEN "ABORTED" ELSE "FAILED"]
    /\ Goto(w, e, "report")
    /\ UNCHANGED <<queue, requests, inbox, mode, polling, processingCount, aborted, faults, history>>

MarkFailed(w, e) ==
    /\ phase[w][e] \in {"failing", "aborting"}
    /\ status' = [status EXCEPT ![e] =
                      IF phase[w][e] = "aborting" THEN "CANCELLED" ELSE "FAILED"]
    /\ Goto(w, e, "report")
    /\ UNCHANGED <<queue, requests, inbox, mode, polling, processingCount, aborted, faults, history>>

\* The last publish (and the deletion of the checkpoint) went through.
Finish(w, e) ==
    /\ phase[w][e] \in {"cleanup", "report"} /\ Connected(w)
    /\ Leave(w, e)
    /\ UNCHANGED <<store, requests, inbox, mode, polling, faults, history>>

\* Mutant of TryFails: a failed call starts the job again.
TryAgain(w, e) ==
    /\ phase[w][e] \in {"check", "start", "complete", "cleanup"}
    /\ Fault
    /\ Goto(w, e, "check")
    /\ UNCHANGED <<store, requests, inbox, mode, polling, processingCount, aborted, history>>

\* A call to PostgreSQL, or after the COMPLETED row to Redis, rejects inside the
\* try block ...
TryFails(w, e) ==
    /\ \/ phase[w][e] \in {"check", "start", "complete"} /\ Fault
       \/ phase[w][e] = "cleanup" /\ Rejects(w)
    /\ Catch(w, e)
    /\ UNCHANGED <<store, requests, inbox, mode, polling, history>>

\* ... or inside the catch block, whose error only poll() logs.
CatchFails(w, e) ==
    /\ \/ phase[w][e] \in {"failing", "aborting"} /\ Fault
       \/ phase[w][e] = "report" /\ Rejects(w)
    /\ Leave(w, e)
    /\ lost' = IF phase[w][e] = "report" THEN lost ELSE lost \cup {e}
    /\ UNCHANGED <<store, requests, inbox, mode, polling, cancelledEarly>>

-----------------------------------------------------------------------------
(* Shutdown, crash and restart of an instance.                             *)

\* Somebody closes the application (main.ts does not, nor does it enable shutdown
\* hooks: there a signal is a Crash).  The modules are destroyed in turn, global ones
\* first: the Redis client has quit, what it had not answered rejects.
CloseRedis(w) ==
    /\ w \in Retiring /\ mode[w] = "running"
    /\ mode' = [mode EXCEPT ![w] = "closing"]
    /\ UNCHANGED <<store, requests, inbox, polling, processing, faults, history>>

\* gracefulShutdown up to its first sleep: a pending timer is cleared, a poll in
\* flight is not.
BeginShutdown(w) ==
    /\ mode[w] = "closing"
    /\ mode' = [mode EXCEPT ![w] = "draining"]
    /\ pollAt' = [pollAt EXCEPT ![w] = IF @ = "timer" THEN "off" ELSE @]
    /\ UNCHANGED <<store, requests, inbox, fetches, hand, processing, faults, history>>

\* The wait loop ends: nothing is active, or the timeout has passed and the
\* rest is aborted.
EndShutdown(w) ==
    /\ mode[w] = "draining"
    /\ mode' = [mode EXCEPT ![w] = "down"]
    /\ Abort(w, Active(w))
    /\ UNCHANGED <<store, requests, inbox, polling, processingCount, phase, faults, history>>

\* The process ends and with it everything it kept in memory.
Forget(w) ==
    /\ mode' = [mode EXCEPT ![w] = "exited"]
    /\ lost' = lost \cup Held(w)
    /\ unpushed' = [unpushed EXCEPT ![w] = {}]
    /\ cancelling' = [cancelling EXCEPT ![w] = {}]
    /\ inbox' = [inbox EXCEPT ![w] = {}]
    /\ pollAt' = [pollAt EXCEPT ![w] = "off"]
    /\ fetches' = [fetches EXCEPT ![w] = 0]
    /\ hand' = [hand EXCEPT ![w] = {}]
    /\ processingCount' = [processingCount EXCEPT ![w] = 0]
    /\ phase' = [phase EXCEPT ![w] = [e \in Execs |-> "idle"]]
    /\ aborted' = [aborted EXCEPT ![w] = {}]
    /\ UNCHANGED <<store, cancelledEarly>>

Exit(w) == mode[w] = "down" /\ Forget(w) /\ UNCHANGED faults

Crash(w) == mode[w] # "exited" /\ Fault /\ Forget(w)

Restart(w) ==
    /\ mode[w] = "exited"
    /\ mode' = [mode EXCEPT ![w] = "running"]
    /\ pollAt' = [pollAt EXCEPT ![w] = "timer"]
    /\ UNCHANGED <<store, requests, inbox, fetches, hand, processing, faults, history>>

-----------------------------------------------------------------------------
Request(w, e) ==
    \/ CreateExecution(w, e) \/ PushJob(w, e) \/ PushFails(w, e)
    \/ CancelCheck(w, e) \/ CancelWrite(w, e) \/ CancelExecution(w, e)

\* The next await of processExecution settles.
Advance(w, e) ==
    \/ CheckStatus(w, e) \/ MarkRunning(w, e) \/ NodesDone(w, e) \/ NodesThrow(w, e)
    \/ MarkCompleted(w, e) \/ MarkFailed(w, e) \/ Finish(w, e)
    \/ TryFails(w, e) \/ CatchFails(w, e)

Process(w, e) == OnCancelMessage(w, e) \/ Advance(w, e)

Poll(w) == PollStart(w) \/ PollReturns(w) \/ PopPriority(w) \/ PopRegular(w) \/ PollFails(w)

Lifecycle(w) == CloseRedis(w) \/ BeginShutdown(w) \/ EndShutdown(w) \/ Exit(w) \/ Crash(w) \/ Restart(w)

Next ==
    \E w \in Instances :
        \/ Poll(w) \/ Lifecycle(w)
        \/ \E e \in Execs : Request(w, e) \/ Process(w, e)

Spec == Init /\ [][Next]_vars

\* An instance that is up keeps polling, and a promise it awaits settles: the
\* drivers answer or reject and every node runner has a timeout.  A close that has
\* begun goes on.  Users need not call anything, faults need not happen.
Fairness ==
    \A w \in Instances :
        /\ WF_vars(PollStart(w)) /\ WF_vars(PollReturns(w))
        /\ WF_vars(PopPriority(w) \/ PopRegular(w) \/ PollFails(w))
        /\ WF_vars(BeginShutdown(w)) /\ WF_vars(EndShutdown(w))
        /\ \A e \in Execs :
            /\ WF_vars(PushJob(w, e) \/ PushFails(w, e)) /\ WF_vars(CancelWrite(w, e))
            /\ WF_vars(OnCancelMessage(w, e)) /\ WF_vars(Advance(w, e))

FairSpec == Spec /\ Fairness
-----------------------------------------------------------------------------
(* Properties.                                                             *)

\* Every variable stays in the range the code gives it.
TypeOK ==
    /\ status \in [Execs -> Status]
    /\ queue \in [Queues -> Seq(Execs)]
    /\ unpushed \in [Instances -> SUBSET Execs]
    /\ cancelling \in [Instances -> SUBSET Execs]
    /\ inbox \in [Instances -> SUBSET Execs]
    /\ mode \in [Instances -> Modes]
    /\ pollAt \in [Instances -> PollPoints]
    /\ fetches \in [Instances -> Nat]
    /\ hand \in [Instances -> SUBSET Execs]
    /\ processingCount \in [Instances -> Int]
    /\ phase \in [Instances -> [Execs -> Phase]]
    /\ aborted \in [Instances -> SUBSET Execs]
    /\ faults \in Nat
    /\ lost \subseteq Execs
    /\ cancelledEarly \subseteq Execs

\* An instance never holds more jobs than WORKER_CONCURRENCY, those popped by a
\* poll still in flight included, although poll() computes its free slots
\* before several awaits during which executions start and end.
ConcurrencyBound ==
    \A w \in Instances : Cardinality(hand[w] \cup Active(w)) <= ConcurrentWorkers

\* processingCount, the number the slots are computed from, is the number of
\* active executions: no error path skips or repeats its decrement.
CountIsActive ==
    \A w \in Instances : processingCount[w] = Cardinality(Active(w))

\* A job is in one place: one position of one list, or with one instance at
\* one stage.  So no execution is processed twice, on one instance or on two.
OnePlace ==
    /\ \A q, r \in Queues : \A i \in 1..Len(queue[q]), j \in 1..Len(queue[r]) :
          queue[q][i] = queue[r][j] => q = r /\ i = j
    /\ \A q \in Queues : \A i \in 1..Len(queue[q]) : \A w \in Instances :
          queue[q][i] \notin Held(w)
    /\ \A w, v \in Instances : w # v => Held(w) \cap Held(v) = {}
    /\ \A w \in Instances :
          /\ unpushed[w] \cap hand[w] = {}
          /\ (unpushed[w] \cup hand[w]) \cap Active(w) = {}

\* An execution that is not over is waiting for its push, queued, in the hand
\* of a poll, being processed, or was dropped by a call that rejected (a fault, or the
\* Redis client has quit) or by an exit: nothing else makes one disappear.
NoneForgotten ==
    \A e \in Execs :
        status[e] \in {"PENDING", "RUNNING"} =>
            \/ e \in lost
            \/ InQueue(e)
            \/ \E w \in Instances : e \in Held(w)

\* A cancellation written while the execution still waits for a worker is
\* honoured: no instance ever starts its nodes and it never ends COMPLETED.
QueuedCancelHonoured ==
    \A e \in cancelledEarly :
        /\ status[e] \in {"CANCELLED", "FAILED"}
        /\ \A w \in Instances :
              phase[w][e] \notin {"start", "run", "complete", "cleanup"}

\* workflow-worker.service.ts:182,194 "Wait for active executions to complete (with
\* timeout)", "Cancel remaining executions if timeout exceeded": what still runs when
\* the shutdown is over has been told to stop, and nothing is started any more.  The
\* shutdown waits for no poll; that one in flight finds no job rests on Redis being
\* closed before the worker.
ShutdownReachesAll ==
    \A w \in Instances : mode[w] = "down" => Active(w) \subseteq aborted[w]

\* An execution that has ended is never started again, whatever cancel
\* requests and failures surround its end.
EndedNeverRestarts ==
    [][\A e \in Execs : status[e] \in {"COMPLETED", "FAILED"} =>
          status'[e] \notin {"PENDING", "RUNNING"}]_vars

\* Where the job of an execution stands, read off the lists and the instances.
JobAt(e) ==
    LET stages == {phase[w][e] : w \in Instances} IN
    IF status[e] = "NONE" THEN "none"
    ELSE IF InQueue(e) \/ \E w \in Instances : e \in unpushed[w] THEN "waiting"
    ELSE IF \E w \in Instances : e \in hand[w] THEN "taken"
    ELSE IF "check" \in stages THEN "taken"
    ELSE IF "start" \in stages THEN "admitted"
    ELSE IF stages \cap {"run", "complete"} # {} THEN "running"
    ELSE IF stages \cap {"failing", "aborting"} # {} THEN "failing"
    ELSE IF "cleanup" \in stages THEN "completed"
    ELSE IF "report" \in stages THEN "failed"
    ELSE "over"

Life == INSTANCE ExecutionLife WITH
            row <- status, job <- [e \in Execs |-> JobAt(e)], dropped <- lost

\* However many instances poll, crash, restart and shut down, an execution goes
\* through its stages once and in order: it is taken once, its nodes are started
\* at most once, its row is only written by the stage it is at or by a cancel,
\* and it is over with a final row or because a rejected call or an exit dropped it.
LifeSpec == Life!Spec

\* As long as some instance stays up, every triggered execution that no rejected call
\* or exit drops ends, and from some point on its status no longer leaves the final
\* ones, although other instances come and go and cancels may come at any time.
EventuallySettles ==
    Retiring # Instances =>
        \A e \in Execs : status[e] = "PENDING" ~> [](status[e] \in Terminal) \/ e \in lost

\* An instance that is closed falls silent: no poll is left, not even the one in
\* flight that rearms its timer, it holds no popped job and every execution has ended.
ShutdownDrains ==
    \A w \in Instances :
        mode[w] = "closing" ~> pollAt[w] = "off" /\ hand[w] = {} /\ Active(w) = {}

\* docs/api/overview.md:60 "Cancel running execution": an execution the API
\* has marked CANCELLED stays so.
CancelIsFinal ==
    [][\A e \in Execs : status[e] = "CANCELLED" => status'[e] = "CANCELLED"]_vars
=============================================================================
