--------------------------- MODULE BranchExecutor ---------------------------
(***************************************************************************)
(* executeWithParallelBranches and what it awaits: rounds that start every *)
(* ready node, the life of each node in executeNode (log row, runner, log  *)
(* row, sub-workflow, catch), Promise.all over the round, checkpoints, and *)
(* an abort that may come between any two awaits.                          *)
(*                                                                         *)
(* A step is the code between two awaits.  Abstracted: the data that flows *)
(* along the edges, and the retries of executeNodeWithRetry (module        *)
(* NodeRetry).  The set pendingNodes of the code is iterated in insertion  *)
(* order; here any order is possible.                                      *)
(***************************************************************************)
EXTENDS WorkflowGraph

CONSTANTS
    MaxParallel,        \* MAX_PARALLEL_BRANCHES
    Interval,           \* CHECKPOINT_INTERVAL_NODES
    ContinueOnError,    \* nodes with continueOnError
    SubWorkflows,       \* nodes whose result asks for a sub-workflow
    Breakable,          \* nodes whose circuit breaker may be found open
    Outspoken,          \* nodes whose runner words its own errors
    MaxFaults           \* bound on calls to PostgreSQL or Redis that reject

ASSUME ParallelAssumption == MaxParallel \in Nat \ {0}
ASSUME IntervalAssumption == Interval \in Nat \ {0}
ASSUME FaultAssumption == MaxFaults \in Nat
ASSUME KindAssumption ==
    /\ ContinueOnError \subseteq Nodes /\ SubWorkflows \subseteq Nodes
    /\ Breakable \subseteq Nodes /\ Outspoken \subseteq Nodes

VARIABLES
    edges,      \* graph.edges
    at,         \* where the loop stands, or how the execution ended
    pending,    \* pendingNodes
    batch,      \* runningNodes: the nodes of this round
    executed,   \* executedNodes
    handle,     \* nodeOutputs: the outputHandle of each node ("none": no entry)
    counter,    \* checkpointCounter
    checkpoint, \* checkpoint:<id> in Redis: executedNodes and nodeOutputs
    stage,      \* the await each executeNode stands at
    message,    \* the message of the last error of each node ("none": no error)
    log,        \* status of the node's ExecutionLog row ("NONE": no row)
    aborted,    \* abortController.signal.aborted
    faults      \* faults so far (bounded by MaxFaults)

loop == <<at, pending, batch, executed, counter, checkpoint>>
vars == <<edges, loop, handle, stage, message, log, aborted, faults>>

Ended == at \in {"completed", "failed", "cancelled"}
Settled(n) == stage[n] \in {"ok", "error"}

\* What the worker reads in the message of an error: 'STOP_EXECUTION', 'Execution
\* cancelled', '' or 'SKIPPED' ("ignored"), or any other text.  A rejected call, a
\* timer, a breaker or a sub-workflow says something else.
Messages == {"stop", "cancel", "ignored", "other"}

\* A failure the loop neither throws nor counts as executed.
Ignored(n) == stage[n] = "error" /\ message[n] = "ignored"

\* Nodes that failed like that in an earlier round: neither pending nor running
\* nor executed, and the loop goes on without them.
PassedOver == {n \in Nodes \ batch : Ignored(n)}

\* Mutant of Ready: one live edge is enough, the other dependencies may wait.
ReadyAtOnce == {n \in pending : ShouldExecute(edges, executed, handle, n)}

\* Mutant of Ready: the handles of the edges are not looked at.
ReadyOnAnyHandle == {n \in pending : Deps(edges, n) \cap pending = {}}

Ready ==
    {n \in pending : /\ Deps(edges, n) \cap pending = {}
                     /\ ShouldExecute(edges, executed, handle, n)}

Init ==
    /\ edges \in Graphs
    /\ at = "round"
    /\ pending = Nodes
    /\ batch = {}
    /\ executed = {}
    /\ handle = [n \in Nodes |-> "none"]
    /\ counter = 0
    /\ checkpoint = [nodes |-> {}, handle |-> [n \in Nodes |-> "none"]]
    /\ stage = [n \in Nodes |-> "idle"]
    /\ message = [n \in Nodes |-> "none"]
    /\ log = [n \in Nodes |-> "NONE"]
    /\ aborted = FALSE
    /\ faults = 0

Fault == faults < MaxFaults /\ faults' = faults + 1

\* The worker's cancelExecution, its cancellation listener or its shutdown.
Abort ==
    /\ ~Ended /\ ~aborted
    /\ aborted' = TRUE
    /\ UNCHANGED <<edges, loop, handle, stage, message, log, faults>>

-----------------------------------------------------------------------------
(* The loop of executeWithParallelBranches.                                *)

\* What both catch blocks, of a node and of processExecution, take for a cancellation.
Cancels(m) == aborted \/ m = "cancel"

\* What the catch block of processExecution makes of an error.
Throw(m) == at' = IF Cancels(m) THEN "cancelled" ELSE "failed"

\* Start as many ready nodes as fit.  A node whose circuit breaker is open
\* throws before its log row exists.
StartRound ==
    /\ at = "round" /\ ~aborted
    /\ \E B \in SUBSET Ready : \E refused \in SUBSET (B \cap Breakable) :
          /\ B # {}
          /\ Cardinality(B) <= MaxParallel
          /\ B = Ready \/ Cardinality(B) = MaxParallel
          /\ batch' = B
          /\ pending' = pending \ B
          /\ stage' = [n \in Nodes |-> IF n \in refused THEN "error"
                                       ELSE IF n \in B THEN "logging" ELSE stage[n]]
          /\ message' = [n \in Nodes |-> IF n \in refused THEN "other" ELSE message[n]]
    /\ at' = "wait"
    /\ UNCHANGED <<edges, executed, handle, counter, checkpoint, log, aborted, faults>>

\* Mutant of NoMoreNodes: the loop waits for every node of the graph.
NoNodePending ==
    /\ at = "round"
    /\ pending = {}
    /\ at' = "completed"
    /\ UNCHANGED <<edges, pending, batch, executed, counter, checkpoint,
                   handle, stage, message, log, aborted, faults>>

\* The loop ends: no node is pending, or none of those that are is ready.
NoMoreNodes ==
    /\ at = "round"
    /\ pending = {} \/ (~aborted /\ Ready = {})
    /\ at' = "completed"
    /\ UNCHANGED <<edges, pending, batch, executed, counter, checkpoint,
                   handle, stage, message, log, aborted, faults>>

NoticeAbort ==
    /\ at = "round" /\ aborted /\ pending # {}
    /\ Throw("cancel")
    /\ UNCHANGED <<edges, pending, batch, executed, counter, checkpoint,
                   handle, stage, message, log, aborted, faults>>

\* A node that ended well without an output (it asked to stop) has the default handle.
KeepOutputs(S) ==
    handle' = [n \in Nodes |-> IF n \in S /\ handle[n] = "none" THEN "output" ELSE handle[n]]

\* Mutant of CollectRound: the loop goes on with the nodes that have ended.
CollectSome ==
    /\ at = "wait"
    /\ \E n \in batch : stage[n] = "ok"
    /\ LET ended == {n \in batch : stage[n] = "ok"} IN
          /\ executed' = executed \cup ended
          /\ batch' = batch \ ended
          /\ KeepOutputs(ended)
          /\ counter' = counter + Cardinality(ended)
          /\ at' = IF counter' >= Interval THEN "save"
                   ELSE IF batch' = {} THEN "round" ELSE "wait"
    /\ UNCHANGED <<edges, pending, checkpoint, stage, message, log, aborted, faults>>

\* Mutant of CollectRound: an ignored failure counts as executed.
CollectFailed ==
    /\ at = "wait"
    /\ \A n \in batch : stage[n] = "ok" \/ Ignored(n)
    /\ executed' = executed \cup batch
    /\ KeepOutputs(batch)
    /\ batch' = {}
    /\ counter' = counter + Cardinality(batch)
    /\ at' = IF counter' >= Interval THEN "save" ELSE "round"
    /\ UNCHANGED <<edges, pending, checkpoint, stage, message, log, aborted, faults>>

\* Promise.all resolves, and no node of the round has failed but with a message
\* that is ignored.
CollectRound ==
    /\ at = "wait"
    /\ \A n \in batch : stage[n] = "ok" \/ Ignored(n)
    /\ LET ended == {n \in batch : stage[n] = "ok"} IN
          /\ executed' = executed \cup ended
          /\ KeepOutputs(ended)
    /\ batch' = {}
    /\ counter' = counter + Cardinality(batch)
    /\ at' = IF counter' >= Interval THEN "save" ELSE "round"
    /\ UNCHANGED <<edges, pending, checkpoint, stage, message, log, aborted, faults>>

\* Mutant of ThrowFromRound: Promise.all over executeNode, which rejects at once.
ThrowAtOnce ==
    /\ at = "wait"
    /\ \E n \in batch : stage[n] = "error" /\ ~Ignored(n) /\ Throw(message[n])
    /\ UNCHANGED <<edges, pending, batch, executed, counter, checkpoint,
                   handle, stage, message, log, aborted, faults>>

\* Promise.all resolves, and some node has failed with a message that counts: the
\* first such error is thrown, and the maps of the execution go with it.
ThrowFromRound ==
    /\ at = "wait"
    /\ \A n \in batch : Settled(n)
    /\ \E n \in batch : stage[n] = "error" /\ ~Ignored(n) /\ Throw(message[n])
    /\ UNCHANGED <<edges, pending, batch, executed, counter, checkpoint,
                   handle, stage, message, log, aborted, faults>>

SaveCheckpoint ==
    /\ at = "save"
    /\ checkpoint' = [nodes |-> executed, handle |-> handle]
    /\ counter' = 0
    /\ at' = "round"
    /\ UNCHANGED <<edges, pending, batch, executed, handle, stage, message, log, aborted, faults>>

SaveFails ==
    /\ at = "save"
    /\ Fault
    /\ Throw("other")
    /\ UNCHANGED <<edges, pending, batch, executed, counter, checkpoint,
                   handle, stage, message, log, aborted>>

-----------------------------------------------------------------------------
(* executeNode, up to its catch block.                                     *)

GotoStage(n, s) == stage' = [stage EXCEPT ![n] = s]
SetLog(n, s) == log' = [log EXCEPT ![n] = s]
SetHandle(n, h) == handle' = [handle EXCEPT ![n] = h]

\* Mutant of Catch: a cancelled node rethrows before it updates its row.
CatchRethrows(n, m) ==
    /\ message' = [message EXCEPT ![n] = m]
    /\ \/ m = "stop" /\ GotoStage(n, "ok") /\ UNCHANGED handle
       \/ m # "stop" /\ Cancels(m) /\ GotoStage(n, "error") /\ UNCHANGED handle
       \/ /\ m # "stop" /\ ~Cancels(m) /\ n \in ContinueOnError
          /\ GotoStage(n, "recovering")
          /\ SetHandle(n, "error")
       \/ /\ m # "stop" /\ ~Cancels(m) /\ n \notin ContinueOnError
          /\ GotoStage(n, "failing")
          /\ UNCHANGED handle

\* The catch block up to its await: what it does depends on the message, and on the
\* abort signal as it is now.  A node that throws to stop ends well, with no output
\* and its row as it is.
Catch(n, m) ==
    /\ message' = [message EXCEPT ![n] = m]
    /\ \/ m = "stop" /\ GotoStage(n, "ok") /\ UNCHANGED handle
       \/ m # "stop" /\ Cancels(m) /\ GotoStage(n, "skipping") /\ UNCHANGED handle
       \/ /\ m # "stop" /\ ~Cancels(m) /\ n \in ContinueOnError
          /\ GotoStage(n, "recovering")
          /\ SetHandle(n, "error")
       \/ /\ m # "stop" /\ ~Cancels(m) /\ n \notin ContinueOnError
          /\ GotoStage(n, "failing")
          /\ UNCHANGED handle

\* An error executeNode does not catch: executeNodeSafe does.
Fails(n) == GotoStage(n, "error") /\ message' = [message EXCEPT ![n] = "other"]

\* Mutant of LogStarted: a row status the schema does not have.
LogStartedPending(n) ==
    /\ stage[n] = "logging"
    /\ SetLog(n, "PENDING")
    /\ GotoStage(n, "running")
    /\ UNCHANGED <<edges, loop, handle, message, aborted, faults>>

LogStarted(n) ==
    /\ stage[n] = "logging"
    /\ SetLog(n, "RUNNING")
    /\ GotoStage(n, "running")
    /\ UNCHANGED <<edges, loop, handle, message, aborted, faults>>

\* The row could not be created, or its creation not published: these calls
\* are outside the try block.
LogStartFails(n) ==
    /\ stage[n] = "logging"
    /\ Fault
    /\ log' \in {log, [log EXCEPT ![n] = "RUNNING"]}
    /\ Fails(n)
    /\ UNCHANGED <<edges, loop, handle, aborted>>

\* executeNodeWithRetry resolves: an abort would have rejected it.
RunnerReturns(n) ==
    /\ stage[n] = "running" /\ ~aborted
    /\ \E h \in Handles : SetHandle(n, h)
    /\ GotoStage(n, "recording")
    /\ UNCHANGED <<edges, loop, message, log, aborted, faults>>

\* The runner's own error, the node's timer, the breaker between two attempts, or the
\* abort, which reaches the call before a later error of the runner.
RunnerThrows(n) ==
    /\ stage[n] = "running"
    /\ \E m \in Messages : (m = "other" \/ (n \in Outspoken /\ ~aborted)) /\ Catch(n, m)
    /\ UNCHANGED <<edges, loop, log, aborted, faults>>

\* A result that asks to stop is thrown after this and ends the node well.
LogCompleted(n) ==
    /\ stage[n] = "recording"
    /\ SetLog(n, "COMPLETED")
    /\ GotoStage(n, IF n \in SubWorkflows THEN "sub" ELSE "ok")
    /\ UNCHANGED <<edges, loop, handle, message, aborted, faults>>

\* The row could not be updated, or its update not published.
LogCompletedFails(n) ==
    /\ stage[n] = "recording"
    /\ Fault
    /\ log' \in {log, [log EXCEPT ![n] = "COMPLETED"]}
    /\ Catch(n, "other")
    /\ UNCHANGED <<edges, loop, aborted>>

\* Mutant of SubWorkflowReturns: a late result is written over a settled node.
SubWorkflowReturnsLate(n) ==
    /\ stage[n] = "sub" \/ (n \in SubWorkflows /\ stage[n] = "ok")
    /\ SetHandle(n, "output")
    /\ GotoStage(n, "ok")
    /\ UNCHANGED <<edges, loop, message, log, aborted, faults>>

\* The sub-workflow ends, and its result replaces the node's.
SubWorkflowReturns(n) ==
    /\ stage[n] = "sub"
    /\ SetHandle(n, "output")
    /\ GotoStage(n, "ok")
    /\ UNCHANGED <<edges, loop, message, log, aborted, faults>>

SubWorkflowThrows(n) ==
    /\ stage[n] = "sub"
    /\ Catch(n, "other")
    /\ UNCHANGED <<edges, loop, log, aborted, faults>>

-----------------------------------------------------------------------------
(* The await of the catch block, and what executeNodeSafe makes of it.     *)

LogCaught(n) ==
    /\ \/ stage[n] = "skipping" /\ SetLog(n, "SKIPPED") /\ GotoStage(n, "error")
       \/ stage[n] = "failing" /\ SetLog(n, "FAILED") /\ GotoStage(n, "error")
       \/ stage[n] = "recovering" /\ SetLog(n, "COMPLETED") /\ GotoStage(n, "ok")
    /\ UNCHANGED <<edges, loop, handle, message, aborted, faults>>

LogCaughtFails(n) ==
    /\ \/ stage[n] = "skipping" /\ UNCHANGED log
       \/ stage[n] = "failing" /\ log' \in {log, [log EXCEPT ![n] = "FAILED"]}
       \/ stage[n] = "recovering" /\ log' \in {log, [log EXCEPT ![n] = "COMPLETED"]}
    /\ Fault
    /\ Fails(n)
    /\ UNCHANGED <<edges, loop, handle, aborted>>

-----------------------------------------------------------------------------
Loop ==
    \/ StartRound \/ NoMoreNodes \/ NoticeAbort
    \/ CollectRound \/ ThrowFromRound \/ SaveCheckpoint \/ SaveFails

ExecuteNode(n) ==
    \/ LogStarted(n) \/ LogStartFails(n) \/ RunnerReturns(n) \/ RunnerThrows(n)
    \/ LogCompleted(n) \/ LogCompletedFails(n)
    \/ SubWorkflowReturns(n) \/ SubWorkflowThrows(n)
    \/ LogCaught(n) \/ LogCaughtFails(n)

Next == Loop \/ Abort \/ \E n \in Nodes : ExecuteNode(n)

Spec == Init /\ [][Next]_vars

\* The event loop runs what is ready to run; a runner settles, because
\* executeNodeWithRetry races it against a timer.
Fairness == WF_vars(Loop) /\ \A n \in Nodes : WF_vars(ExecuteNode(n))

FairSpec == Spec /\ Fairness

-----------------------------------------------------------------------------
(* Properties.                                                             *)

Points == {"round", "wait", "save", "completed", "failed", "cancelled"}
Stages == {"idle", "logging", "running", "recording", "sub",
           "skipping", "recovering", "failing", "ok", "error"}
Logs == {"NONE", "RUNNING", "COMPLETED", "FAILED", "SKIPPED"}
HandleMap == [Nodes -> OutputHandles \cup {"none"}]

\* Every variable stays in the range the code gives it.
TypeOK ==
    /\ edges \in Graphs
    /\ at \in Points
    /\ pending \subseteq Nodes /\ batch \subseteq Nodes /\ executed \subseteq Nodes
    /\ handle \in HandleMap
    /\ counter \in Nat
    /\ checkpoint \in [nodes : SUBSET Nodes, handle : HandleMap]
    /\ stage \in [Nodes -> Stages]
    /\ message \in [Nodes -> Messages \cup {"none"}]
    /\ log \in [Nodes -> Logs]
    /\ aborted \in BOOLEAN
    /\ faults \in Nat

\* A node is started only when everything it depends on has been executed and its
\* result kept, or passed over, and one of the edges into it is live: that of a node
\* that was executed.  And that stays true.
DepsFirst ==
    \A n \in Nodes : stage[n] # "idle" =>
        /\ Deps(edges, n) \subseteq executed \cup PassedOver
        /\ ShouldExecute(edges, executed, handle, n)

\* When the call returns or throws, every node it started has settled: nothing of a
\* failed or cancelled execution goes on behind its final status, but for runners
\* that have lost the race of executeNodeWithRetry (NodeRetry), which nobody hears.
NoOrphans == Ended => \A n \in Nodes : stage[n] = "idle" \/ Settled(n)

\* Without faults the log rows tell what happened: none is left RUNNING but that of
\* a node that threw to stop, exactly the others that ended well are COMPLETED, and
\* a completed execution has executed all of these and hides only failures whose
\* message is ignored.
LogsAgree ==
    Ended /\ faults = 0 =>
        \A n \in Nodes :
            /\ log[n] = "RUNNING" <=> message[n] = "stop"
            /\ log[n] = "COMPLETED" <=> stage[n] = "ok" /\ message[n] # "stop"
            /\ at = "completed" =>
                  /\ stage[n] = "ok" <=> n \in executed
                  /\ stage[n] = "error" <=> n \in PassedOver

\* A checkpoint is a state to resume from: whatever it says was executed had its
\* dependencies executed, or passed over, and a live edge, by its own account, and
\* it holds the outputs of those nodes and of no other.
CheckpointResumable ==
    \A n \in Nodes :
        /\ checkpoint.handle[n] # "none" <=> n \in checkpoint.nodes
        /\ n \in checkpoint.nodes =>
              /\ Deps(edges, n) \subseteq checkpoint.nodes \cup PassedOver
              /\ ShouldExecute(edges, checkpoint.nodes, checkpoint.handle, n)

\* The output of an executed node, which other nodes have read or will read, is
\* never replaced.
OutputsAreFinal ==
    [][\A n \in executed : n \in executed' /\ handle'[n] = handle[n]]_vars

\* The execution is one of the dataflow executions module Dataflow promises.
Flow == INSTANCE Dataflow WITH
            Silent <- Outspoken,
            done <- executed,
            lost <- PassedOver,
            out <- [n \in Nodes |-> IF n \in executed THEN handle[n] ELSE "none"],
            outcome <- IF Ended THEN at ELSE "running"
FlowSpec == Flow!Spec

\* Which nodes a completed execution has reached depends on the handles they chose
\* and on the failures that were ignored, not on the order, the rounds or the batches
\* in which they ran: it is the least set closed under "depends on nodes that were
\* reached, and one edge into it is live".
RunIsDetermined == Flow!LeastFixpoint

\* Data stops nowhere but in front of a merge: when an execution completes, a live
\* edge from an executed node has led to a node that was executed or passed over, or
\* to one with another edge whose source was neither.  (See DataReachesNext, which
\* is false.)
OnlyMergesStarve ==
    LET reached == executed \cup PassedOver IN
    at = "completed" =>
        \A x \in edges : Live(x, executed, handle) =>
            \/ x.target \in reached
            \/ \E y \in Incoming(edges, x.target) : y.source \notin reached

\* How far the call of executeNode is for node n.
PhaseOf(n) ==
    IF stage[n] \in {"skipping", "recovering", "failing", "ok", "error"} THEN "ended"
    ELSE stage[n]

\* The executor asks of each node a call as module NodeCall promises them, which
\* NodeRetry implements: it calls executeNode once, and what it makes of its end,
\* other nodes and the abort of the execution do not change what the call does.
Call == INSTANCE NodeCall WITH
            Calls <- Nodes,
            phase <- [n \in Nodes |-> PhaseOf(n)],
            aborted <- IF aborted THEN Nodes ELSE {}
CallSpec == Call!Spec

\* To the sub-workflows its nodes call the execution is a frame as module
\* ExecutorFrame promises it and module SubWorkflow has them nested: it neither
\* returns nor throws while one of them is awaited, and calls none afterwards.
Frame == INSTANCE ExecutorFrame WITH
            Calls <- SubWorkflows,
            runner <- IF ~Ended THEN "working" ELSE IF at = "completed" THEN "done" ELSE "threw",
            open <- {n \in Nodes : stage[n] = "sub"}
FrameSpec == Frame!Spec

\* How many awaits node n can still come back from, its start and the collection
\* of its round included.
AwaitsOf(n) ==
    CASE n \in executed \cup PassedOver -> 0
      [] stage[n] = "idle" -> 8
      [] stage[n] = "logging" -> 6
      [] stage[n] = "running" -> 5
      [] stage[n] = "recording" -> 4
      [] stage[n] = "sub" -> 3
      [] stage[n] \in {"skipping", "recovering", "failing"} -> 2
      [] OTHER -> 1

\* A bound on the steps the execution can still take: those of its nodes, of the
\* loop and of the abort.
StepsLeft ==
    Cardinality({x \in Nodes \X (1..8) : x[2] <= AwaitsOf(x[1])})
        + (IF Ended THEN 0 ELSE IF at = "round" THEN 1 ELSE 2)
        + (IF aborted THEN 0 ELSE 1)

\* Nothing the executor does can go on for ever: not a round that starts nothing,
\* a node that is run again, a checkpoint that calls for another or a cycle of the
\* graph.  An execution takes at most 8 steps for each node, and 2 more.
Descends == [][StepsLeft' < StepsLeft]_vars

\* Every execution ends, the ones whose graph has a cycle or a branch not taken
\* included.
Terminates == <>Ended

\* docs/editor/edges.md:60 (an output handle) "Envoie les donnees au node suivant":
\* a node with a live edge from an executed node has received its data.
DataReachesNext ==
    at = "completed" =>
        \A x \in edges : Live(x, executed, handle) => x.target \in executed
=============================================================================
