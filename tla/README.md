# Formal models of nocta-wave

nocta-wave is a workflow automation platform: users draw graphs of nodes in a web
editor, an API (NestJS, `src/apps/api`) stores and triggers them, and a polling worker
inside the same process runs them, with PostgreSQL (Prisma) and Redis behind it.
This directory holds TLA+ models of the parts where an execution can go wrong, the TLC
configurations that check them on small instances, and TLAPS proofs of their safety
properties for every value of the constants.

Paths below are relative to `src/apps/api/src/`; `worker` is
`worker/workflow-worker.service.ts`.

## 1. Inventory

### Execution path (modelled)

| Part | State | Operations | Talks to | What is hard |
|---|---|---|---|---|
| `ExecutionService` (`modules/execution/execution.service.ts`) | rows of `Execution` | `trigger`, `triggerAsGuest`, `retry`, `cancel`, `updateStatus` | creates a row, then LPUSHes a job; publishes on `execution:cancelled` | two stores without a transaction; cancel checks, then writes |
| Worker: queue and lifecycle (`worker` 99-480) | `activeExecutions`, `processingCount`, `isRunning`, the poll timer | `poll`, `processExecution`, `cancelExecution`, the cancellation listener, `gracefulShutdown` | RPOPs two lists, writes `Execution.status`, subscribes to `execution:cancel` | every await interleaves; several instances; crash; shutdown with polls and requests in flight |
| Worker: branch executor (`worker` 482-990) | `pendingNodes`, `runningNodes`, `executedNodes`, `nodeOutputs`, the checkpoint | `executeWithParallelBranches`, `executeNodeSafe`, `executeNode`, `shouldExecuteNode`, `saveCheckpoint` | `ExecutionLog` rows, Redis checkpoint, node runners | rounds of concurrent nodes, failure or abort of one of them, conditions, cycles |
| Worker: retry, breaker, limiter (`worker` 993-1126) | `CircuitBreakerState` per node type, a token bucket per credential | `executeNodeWithRetry`, `isCircuitBreakerOpen`, `recordCircuitBreakerFailure`, `resetCircuitBreaker`, `waitForRateLimit` | runner raced with a timer and the abort signal | state shared by all executions of a process, read before and written after awaits |

What makes them correct: a job is processed once and by one instance; nothing vanishes
without a fault; no more executions run than configured; what has ended stays ended; a
cancelled execution does not run; a shutdown leaves nothing running behind it; nodes run after what they depend on and only on live
edges; when an execution has a final status nothing of it is still running; logs and
checkpoints tell the truth; no runner is doubled or started after an abort; every wait
ends.

### Around the execution (modelled)

| Part | State | Operations | Talks to | What is hard |
|---|---|---|---|---|
| Sub-workflow inside a node (`worker` 1484-1687) | child row, child controller, timer, the child's own executor | `executeSubWorkflow`, inline or queued | reads the library row, writes `Execution`, runs the branch executor again | a race with a timer that stops nothing; an abort passed down level by level; nesting; a cancel of the child's row by the API |
| Library of sub-workflows (`modules/subworkflow/subworkflow.service.ts`) | one row per workflow with its latest mark; usages | `create`, `publishVersion`, `delete`, `recordUsage`, `removeUsage` | read by `executeSubWorkflow` | check, then write, against unique and foreign keys |
| Workflows and their versions (`modules/workflow/workflow.service.ts`) | graph and version of the workflow; version rows | `create`, `update`, `restoreVersion` | creates the main branch; shares the workflow row with `BranchService` | two writes without a transaction; a unique index as the only order |
| Branches, commits, pull requests (`modules/branch`) | branches with a graph and a head, commits with a parent, pull requests with the conflicts found when they were opened | branch and commit operations, `createPullRequest`, `addReview`, `mergePullRequest`, `closePullRequest`, `rollbackToCommit` | write the workflow when the branch is main | up to seven statements per request, other requests between any two |
| Realtime presence (`modules/collaboration/realtime`) | `socketWorkflows` in memory, a hash of users per workflow and an address per user in Redis, session rows with heartbeats | connect, join, leave, heartbeat, disconnect, the sweep | sockets, Redis, PostgreSQL | three stores, handlers of one socket that overlap, restart with nobody disconnected |

What makes them correct: a caller goes on only with a result that is whole; a cancel reaches
the calls below; a failed call stays failed, a cancel that was on its way excepted; concurrent saves do not overwrite each other without a
trace, and no sequence of requests makes a workflow impossible to save; a pull request called
merged is merged; who has gone from a workflow disappears from it.

### Not modelled

| Part | Why |
|---|---|
| Distributed queue, worker pool (`modules/queue`) | Dead as wired: `registerQueue` has no caller, so `addJob`, called by the queue controller only, throws "Queue not found" before it touches Redis; no job is ever in a set to lock, retry or recover, and nothing emits the `worker.job.done` the pool waits for. Every reachable state is the first one. |
| Dead letter queue (`modules/dlq`) | rows written one at a time; a retry pushes to a list no worker pops |
| Debug sessions (`modules/debug`) | the worker never asks a session whether to pause; a replay creates a PENDING row and never queues it |
| Caches (`modules/cache`) | read by no other module |
| Alerts (`modules/alerting`) | the checks that fire an alert have no caller |
| Suggestions (`modules/suggestion`), but for the merge, which `Versioning` has | one row at a time; a review in flight may write its status over MERGED |
| Sequential executor (`worker` 613-652, `topologicalSort`) | selected only when `WORKER_PARALLEL_BRANCHES` is the empty string: any other value of an environment variable, `false` included, is a true string |
| Comments, chat, tags, links, shared templates, environments, webhooks, log storage, database maintenance, monitoring, notifications, streaming, credentials, users and teams, templates, favourites, search, node catalogue, health, Prisma wrapper | rows written one at a time, queries, forwarding, encryption: no protocol of several steps |
| Web editor (`src/apps/web`) | user interface; its calls are the requests of the models. Its stores change state in single steps of one thread |
| Node runners (`src/packages/nodes`) | about a hundred integrations, external: a runner returns a handle, throws, or hangs |

## 2. Modules

| Module | Models | Its actions are |
|---|---|---|
| `WorkflowWorker` | `ExecutionService` and the worker's lifecycle, on several instances; refines `ExecutionLife` | the code between two awaits of `trigger`, `cancel`, `poll`, `processExecution`, `gracefulShutdown`; `CloseRedis`; plus `Crash`, `Restart` |
| `ExecutionLife` | the abstract specification of an execution on any number of instances: created, taken once, admitted or refused, run, closed; rows written by its own stage and by cancels only | one per stage |
| `WorkflowGraph` | what is read of a graph: `buildExecutionGraph`, `shouldExecuteNode` | - (operators) |
| `Dataflow` | the abstract specification of running a graph: nodes fire once, when all they depend on has fired or was lost (an ignored failure) and an edge is live; complete only when nothing can fire | `Fire`, `Complete`, `GiveUp` |
| `NodeCall` | the abstract specification of a call of `executeNode`: what its execution may rely on | `Start`, `Run`, `Return`, `Ask`, `End`, `Abort` |
| `ExecutorFrame` | the abstract specification of a run of `executeWithParallelBranches`, as the sub-workflow calls of its nodes may rely on it | `Start`, `Ask`, `Settle`, `End` |
| `BranchExecutor` | `executeWithParallelBranches`, `executeNodeSafe`, `executeNode`, checkpoints; refines `Dataflow`, `NodeCall` and `ExecutorFrame` | the code between two awaits of the loop and of each node |
| `NodeRetry` | breaker, token bucket and `executeNodeWithRetry`, for the calls of one node type with one credential in one process; refines `NodeCall` | the code between two awaits of a call; `Maintain` (the breaker's interval); `Tick` |
| `SubWorkflowRegistry` | the library of sub-workflows | each statement of its operations |
| `SubWorkflow` | `executeSubWorkflow`, nested, over the library (extends it), and `cancel()` on the id of a child; each frame refines `ExecutorFrame` | the code between two awaits of a call; a frame that ends; the timer; `Abort`; the two steps of `cancel()`; the steps of the library |
| `Versioning` | `WorkflowService`, `BranchService` and the merge of a suggestion on one workflow | per operation its first read with its checks; then each statement by whichever request has come to it; `Fails` |
| `Realtime` | gateway and service of realtime collaboration | the code between two awaits of each handler and of the sweep; rejections; `Crash` |
| `MC...` | the small instances | - |
| `...Proofs` | theorems and proofs | - |

How they compose: `WorkflowWorker` sees what the nodes of an execution do as
"they end well" (`NodesDone`) or "they throw" (`NodesThrow`); `BranchExecutor` opens
that box, sees a node's runner as "returns" or "throws", and `NodeRetry` opens that one.
Each pair meets at an abstract specification, the contract between them, and both are proved to stay
inside it:

- `NodeCall` is the call of `executeNode`. `NodeRetry` implements it with breaker, bucket, attempts and
  timers (`CallSpec` there); `BranchExecutor` implements it for all its nodes at once, each called once
  (`CallSpec` there).
- `ExecutorFrame` is a run of the executor as a node that awaits a sub-workflow stands in it.
  `BranchExecutor` implements it (`FrameSpec`: it ends with no sub-workflow awaited and asks for none
  afterwards); every frame of `SubWorkflow` implements it (`FramesSpec`), which is where `SubWorkflow` abstracts
  the nodes of a frame to the calls they make.
- An abort comes in between any two awaits, and is read where the code reads `signal.aborted`, in all modules.

What this does not prove is that each outer module leaves its inner one all the freedom of the contract (that
the two composed refine the outer one). `BranchExecutor` has an action for each of the ways `NodeCall` lets a call go
on, and counts the rejections of a log row among its bounded faults; that is read off, not proved.

The execution of a call that nobody waits for is one of `SubExecs` of `WorkflowWorker`.
`Versioning` and `Realtime` share no state with these: an execution carries a copy of the
graph in its job.

### WorkflowWorker

| Variable | Code |
|---|---|
| `status` | `Execution.status`; `NONE` before the row exists |
| `queue` | the Redis lists `workflow:executions:priority` and `workflow:executions` (LPUSH, RPOP: first in, first out) |
| `unpushed`, `cancelling` | requests between their two awaits: row created and not pushed; status checked and not overwritten |
| `inbox` | messages on `execution:cancel` not yet delivered to an instance |
| `mode` | `isRunning`, `isShuttingDown`, whether the Redis client has quit and whether the process exists |
| `pollAt`, `fetches`, `hand` | where `poll()` stands, `jobsToFetch - i`, and its local array `jobs` |
| `processingCount` | the field of that name |
| `phase` | the await each `processExecution` stands at; not idle = in `activeExecutions` |
| `aborted` | controllers of `activeExecutions` whose signal is aborted |
| `lost`, `cancelledEarly` | history, read by properties only |

The job of an execution is created by `trigger`, `triggerAsGuest` (and `retry`, which
calls `trigger`), or by a running workflow through a sub-workflow node that does not
wait; `SubExecs` are the latter, and go to the priority list. `CreateExecution` asks for no execution at
`run`: the runner of an inline sub-workflow that lost against its timer goes on after its parent has ended
(`worker:1611-1632`), and may still create and queue one (`worker:1543-1569`). Executions written by other code
are outside the model: the child of a sub-workflow node that waits (`SubWorkflow`), and the row of
`DebugService.replayExecution`, which is never queued.

A cancel through the API is the two steps `CancelCheck` and `CancelWrite`. `cancelExecution` of
the worker, which the API does not call, is modelled for the executions in
`CancelCallers`.

`main.ts` neither closes the application nor enables shutdown hooks, so a signal is a `Crash`. For whoever does
close it (a process that embeds it, a test), the shutdown is what NestJS 10 makes of the two
`onModuleDestroy`: global modules are destroyed first, so `RedisService` quits its client (`CloseRedis`,
`database/redis.service.ts:35`) and every call of Redis not yet answered or still to come rejects (`Rejects`);
then `gracefulShutdown` begins (`BeginShutdown`). PostgreSQL still answers, since Prisma connects again when
it is asked; the listener for `execution:cancel` has a connection of its own, which nobody quits; HTTP
is served until the modules are destroyed, so an instance that drains still takes requests.

### BranchExecutor

`edges` is chosen at the start from `Graphs` and never changes. `at` is where the loop
stands; `pending`, `batch`, `executed`, `counter` are the locals `pendingNodes`,
`runningNodes`, `executedNodes`, `checkpointCounter`; `handle` is the `outputHandle` in
`nodeOutputs`; `stage` is the await each `executeNode` stands at; `log` the status of its
`ExecutionLog` row; `message` what the message of a node's last error means to the worker; `checkpoint` what
Redis holds. Abstracted: the data on the edges, and
the insertion order of `pendingNodes` (any order here). Assumed: edges join nodes of
the graph, and node types are known.

Messages matter because the worker compares them: `STOP_EXECUTION` ends a node well without an output,
`Execution cancelled` passes for an abort (in the node and in the execution), and a failure whose message is empty
or `SKIPPED` is neither thrown nor counted as executed (`worker:585-595`): the loop goes on, and the node is in
none of `pendingNodes`, `runningNodes` and `executedNodes` (`PassedOver`). Nodes in `Outspoken` may throw any of them:
`logic.stop` and `utility.error` throw what the user wrote, and the message of an `AggregateError` is empty.

### NodeRetry

`attempt` counts the attempts of a call begun, `live` its runners at work (a runner
that has lost its race cannot be stopped), `failures`, `circuit`, `cooling` are the breaker,
`bucket` the tokens and the ticks since `lastRefill`. The bucket is refilled in whole
tokens per tick, so rates are whole numbers per second; backoff delays are "some time".
`requestsPerSecond` below one is outside the model: such a bucket never holds a whole token.

### SubWorkflow

A frame is a run of the branch executor: 0 is the outermost execution, `c` the run of
call `c`. `call` is what the node asked for and whose node it is, `stage` the await of
`executeSubWorkflow`, `row` the child's `Execution.status`, `runner` whether the frame's nodes are
at work, `aborted` and `linked` the controllers and their listeners; `late` remembers the calls
whose listener was added to a signal already aborted, which never fires; `cancelling` the children whose row a
`cancel()` of the API has read as PENDING or RUNNING. Any number of requests may have read it and still have their
write to do, so the set only grows; the write is unconditional, and stops no runner. In the library, `edits` are the
operations between two of their statements. Abstracted: what the nodes of a frame do, the outputs, version
numbers (latest or not is what the query tells apart).

### Versioning

One workflow. A graph maps node ids to contents or `Absent`; edges and settings follow the nodes.
A request is `[op, at, ...]`: the operation, its next statement and what it has read;
`After` is the order of the statements in the code. Each operation begins with one read
of the rows it checks. Where the code sends several queries before its first write, only the last of them
decides anything (names and commits never change, and what an earlier one checked a unique
index checks again), with two exceptions: a merge looks for an approval by a query of its own, which is a
statement here (`FindApproval`), and `createPullRequest` fetches its two branches by two queries sent together,
taken as one. A
failed statement or a crash ends the request where it stands (`Fails`). `disturbed` and `interrupted` are
history, read by properties only. Suggestions have no rows: `MergeSuggestion` puts any graph at the
write of the workflow, at any time.

The code's own order is kept where it surprises: the conflicts of a pull request are
those found when it was opened, a merge writes the graphs of its first read, no status of a branch is
looked at by `createBranch`, `createCommit`, `createPullRequest` or a merge, two merges may both find the pull
request open, and a MERGED pull request may still become CLOSED by a close in flight.

### Realtime

`tracked` is `socketWorkflows`, `listed` the fields of the hashes of users, `address` the key of each
user's socket, `session` the row of each entry (`stale`: older than the sweep's limit),
`job` the await each handler stands at, `sweep` that of `cleanupStaleSessions`. socket.io does not queue
the handlers of a socket, so a leave and a join of one entry may overlap; the
web client does that when its effect is cleaned up and run again (`use-collaboration.ts:100`). The
history variables `muddled`, `cut` and `late` name the entries for which the code promises nothing:
a join crossed by a leave or a sweep or cut short, a removal that got no further, and a
join after the disconnect handler had looked. Left out: cursors, viewports, typing, following, rooms, the
row of a guest's session.

One exception is not modelled: deleting a workflow (`workflow.service.ts:220`) takes its session rows along
(`prisma/schema.prisma:1206`) and leaves the entries in Redis. An entry of such a workflow whose connection is lost
to a crash is found by no sweep. The properties are about workflows that are not deleted.

## 3. What is checked

Every run is exhaustive. Deadlock checking is off in all of them because the systems
really stop: a worker with nothing to do stands at its timer, an execution that has
ended takes no further step, and a call that has ended stays so.

| Run | Bounds | Properties |
|---|---|---|
| `worker_instances` | 2 instances, 2 executions, one of them a sub-workflow, 2 slots, batch of 2, two faults | `TypeOK`, `OnePlace`, `NoneForgotten`, `QueuedCancelHonoured`, `LifeSpec` |
| `worker_slots` | 1 instance of 2 slots, batch of 2, 3 executions, one aborted through the worker, the instance retiring, one fault | `ConcurrencyBound`, `CountIsActive`, `ShutdownReachesAll` |
| `worker_liveness` | 2 instances of 1 slot, 2 executions, one instance retiring | `EventuallySettles`, `ShutdownDrains` |
| `branch_shapes` | 6 graphs on 4 nodes: diamond, condition with a merge, chain with an error branch, fan, cycle, two chains; 2 at a time, checkpoint every 2 nodes, two of the nodes word their own errors, one fault | `TypeOK`, `DepsFirst`, `NoOrphans`, `LogsAgree`, `CheckpointResumable`, `RunIsDetermined`, `FlowSpec`, `Descends`, `Terminates` |
| `node_retry` | 3 calls, two under a limit of one per tick and tried twice, one tried once; threshold 2; one fault | `TypeOK`, `OneRunner`, `BreakerHasReason`, `OneCallOneFailure`, `NoStartAfterAbort`, `CallsEnd`, `BreakerRecovers` |
| `subworkflow` | 2 calls, siblings or nested, of a workflow that calls itself; one edit of the library at a time, one child cancelled by any number of requests, one fault | `TypeOK`, `ReturnedIsWhole`, `AbortReaches`, `FinalRowStays`, `CallsSettle` |
| `versioning` | 2 requests at once, 4 in all, one of them with a graph of the client; one node with two contents, main and a branch, one pull request, one fault | `TypeOK`, `SavesSerialise`, `SaveNotBlocked`, `MergedIsWhole` |
| `realtime` | 2 connections of a user or guests, 2 workflows, 2 messages at once and in all, plus connects, disconnects, sweeps; one fault | `TypeOK`, `ListedIsSweepable`, `ClosedIsUnlisted`, `AddressIsListed`, `GhostsLeave` |

**Worker.** `OnePlace`: a job is at one position of one list or with one instance at one
stage, so nothing is processed twice. `NoneForgotten`: an execution that is not over
is waiting to be pushed, queued, in the hand of a poll, being processed, or was dropped by
a fault or an exit recorded in `lost`. `QueuedCancelHonoured`: a cancel written before any
worker had the job is final enough that its nodes never start (it may be overwritten by
FAILED, when reading the row rejects, never by COMPLETED). `LifeSpec` is `ExecutionLife`: the whole of
instances, lists, polls, faults and exits gives every execution one life, each stage of it entered at most once,
and its row is written by that stage or a cancel and by nothing else. `ConcurrencyBound` counts the jobs
in the hand of a poll, too, because the free slots are computed before the awaits; with two slots and
three executions a poll fetches one job while others are at any stage, and `CountIsActive` holds through every
rejection in the try block, the catch block and the poll. `ShutdownReachesAll`: when the shutdown has returned, what is
still active has been told to stop. Nothing in `gracefulShutdown` waits for a poll; it holds because the Redis client
has quit before, so that a poll in flight rejects (a client that outlived the worker breaks it).

**Executor.** `DepsFirst` is stated for started nodes and all later states: what a node depends on was executed or
passed over, and an edge from a node that was executed is live; `NoOrphans` says
that when the call has returned or thrown every node it started has settled (a runner that lost its race
against a timer or an abort may go on, and nobody hears it); `LogsAgree` ties log rows,
node outcomes and the outcome of the execution together, down to the row a node that stopped leaves RUNNING and
to what a completed execution hides: the failures passed over, nothing else; `CheckpointResumable`
says a checkpoint, by its own account, is closed under dependencies, nodes passed over excepted, and holds the
outputs of its nodes and no others. `FlowSpec` is `Dataflow` under the refinement mapping
"done is `executed`, lost is `PassedOver`, out is `handle` on `executed`, outcome is `at` when ended".
`RunIsDetermined` says that the nodes a completed execution ran or passed over are the least set closed under
"depends on nodes in the set, and an edge into it from a node that ran is live": scheduling does not matter. `Descends`: every step makes `StepsLeft`, at most 8 for each node and 2 more, smaller, so
no round that starts nothing, no cycle and no checkpoint can keep an execution going.

**Retry.** `OneRunner` holds because a timeout is the one error not retried;
`NoStartAfterAbort` because the signal is read at the top of every attempt;
`OneCallOneFailure` because the breaker is told in the catch block of `executeNode`, once per
call; `BreakerHasReason` is why a half-open breaker opens at the first failure although
`failures` is never reset by opening.

**Sub-workflows.** `ReturnedIsWhole`: a caller that gets a result gets it of a call with nothing below it open,
whose row is COMPLETED unless a `cancel()` that had read it earlier was later. `AbortReaches`: an abort goes down level by level, and the one gap is a call
linked after the abort had passed. `FinalRowStays`: the runner that lost against the timer ends
later and revives nothing, and the one writer that overwrites a final row is a `cancel()` that had read it before it
was final. `CallsSettle`: the timer frees the caller even if no node of
the child ever ends (nodes get no fairness here).

**Versioning.** `SavesSerialise`: of two saves that read the same version one is refused, so what a
save overwrites is another save's work kept in a version row, unless a write of another service
came between. `SaveNotBlocked`: the row that makes every later save throw exists only during a save,
or after one that was cut between its two writes (then a merge or rollback of main, which increments
the version, frees the workflow; nothing else does). `MergedIsWhole`: "MERGED" is the last
statement, and what it stands for cannot be undone by the others in flight.

**Realtime.** `ListedIsSweepable`: whoever is in a hash has an active row or is about to, so a sweep can
find them. `ClosedIsUnlisted`: a disconnect handler that is through has left nothing, even of
joins and leaves that ran beside it. `AddressIsListed`: the address of a user never outlives the presence
of that connection. `GhostsLeave`: what a dead connection leaves is infinitely often gone.
The converse does not hold and is not claimed: a heartbeat that comes after the sweep's query leaves a
connected user active in the rows and out of the hash (`realtime.service.ts:356`), closing one tab deletes
the address of another (132), and a guest, who has no row, is never swept.

Why the bounds are enough: the interesting cases need two instances (one pops while the
other cancels or exits), a batch larger than what is queued and smaller than the free slots,
three executions for two slots, four nodes for a diamond or a merge behind a
condition, two calls for a breaker moved by one and read by the other, two calls for a frame below a
frame, two requests for any overlap of statements, and two connections of one user for an
address they share. One fault is
every single failure at every await; the properties are proved for any number.

### Disagreements with the documentation

Four runs check what the documentation or a comment says and find it violated.

- `api_cancel`, `CancelIsFinal`: `cancel()` publishes on `execution:cancelled`
  (`execution.service.ts:279`), the worker subscribes to `execution:cancel`
  (`worker:211`). A running execution is not stopped and CANCELLED is overwritten.
  `docs/api/overview.md:60`: "Cancel running execution".
- `branch_merge`, `DataReachesNext`: a node waits for all its dependencies not to be pending,
  and the nodes of a branch not taken stay pending, so the node behind both branches of a condition
  never runs; the execution is COMPLETED. `docs/editor/edges.md:60`: "Envoie les données au node
  suivant"; `edges.md:108`: "Fusion de plusieurs branches."
- `subworkflow_publish`, `LatestExists`: `publishVersion` takes the latest mark from the row, then inserts a
  second row for the same workflow, which the unique index (`prisma/schema.prisma:708`) refuses; calls
  that pin no version then throw "Sub-workflow not found". `subworkflow.service.ts:126`: "Publish a new version of a
  sub-workflow".
- `versioning_sync`, `MainInSync`: an edit of main writes the workflow "to keep in sync"
  (`branch.service.ts:236`); a suggestion merged (`suggestion.service.ts:341`) or a save of the workflow
  (`workflow.service.ts:198`), which is what the editor does off a branch, does not write main, and the
  next merge starts from the older graph.

Where a claim is false, two theorems say how far it is true: `OnlyMergesStarve` (data stops only in front of a node with another edge whose source
was neither run nor passed over), `StaleStays` (what a failed publish leaves, no later publish repairs).

`docs/editor/nodes/logic.md:310` says of the node that stops with an error "L'exécution est marquée comme échouée";
with the message `SKIPPED` the execution goes on and is COMPLETED. That is part of the model and of what
`LogsAgree` says (`PassedOver`), and has no run of its own.

Two more are no run because nothing steps there: the recursion limit and cycle detection of sub-workflows
(`src/README.md:92`) are in `validateExecutionContext`, which has no caller; and a pull request opened with
conflicts can never be merged, because the conflicts recorded are never looked for again.

### Fairness

- Worker: weak fairness of every step that follows an await of an instance that is up,
  because a promise settles (drivers answer or reject, runners are raced with a timer) and
  `poll()` rearms its own timer; a poll, a push and a stage are each one choice between the answer and the
  rejection. A close that has begun goes on (`BeginShutdown`, `EndShutdown`: NestJS awaits each module, the wait
  loop has a timeout). No fairness of triggers, of `CancelCheck`, of faults, closes, exits or restarts. `EventuallySettles` therefore asks that not all instances may retire.
- Executor: weak fairness of the loop and of each node's step, for the same reason.
  A sub-workflow settles because it is raced with its own timer.
- Retry: weak fairness of each call's step, of the clock and of the maintenance interval.
  None of `Begin` or `Abort`.
- Sub-workflows: weak fairness of each call's steps, the timer among them. None of nodes, aborts or edits.
- Realtime: weak fairness of the handlers' awaits, of the disconnect loop, of the sweep (an interval) and
  of time passing for connections that are gone. None of messages, connects or disconnects.
- Versioning: none; it has no liveness property. A request that stops is a request cut short.

## 4. What is proved

The proofs are in `WorkflowWorkerProofs`, `BranchExecutorProofs`, `DataflowProofs`,
`NodeRetryProofs`, `SubWorkflowProofs`, `VersioningProofs` and `RealtimeProofs`, from the named assumptions of the modules only: positive slots
and batch size, finite sets of nodes and of calls, `none` not a handle, whole rates.
Every safety property of a passing run, every action property and every refinement is a theorem, for any number of instances,
executions, faults, nodes, calls, requests, sockets and any graph, cyclic or not.

- **Worker** (`IInv` in `WorkflowWorkerProofs`). Added to the properties: `Slots`, in a poll the
  processing count, the jobs in hand and the rounds left together fit in the slots, outside a poll
  the hand is empty, and the processing count is the number of active executions; `NoRowNowhere`, an
  execution without a row is in no list and with no instance; `StatusInv`, what the phase of an active
  execution says of its status. `ConcurrencyBound` is not inductive without the first, `OnePlace`
  without the second, `NoneForgotten` and `EndedNeverRestarts` without the third.
  - *Refinement* (`OneLife`). The stage of an execution is read off its place (`JobAt`); `PlaceTellsJob`, which `IInv`
    implies, says that it has one place, so that a step changes one stage, and that an execution without
    a row is nowhere. Then each action is a step of `ExecutionLife` or none: a crash or exit drops the
    executions of its instance, in one step. `StagesInOrder` is read off the abstract actions: positions only grow.
  - *Shutdown* (`ShutdownHolds`). Once the client has quit nothing becomes active, so what `EndShutdown` has aborted is
    all there is; a step that ends an execution takes its abort with it.
- **Dataflow.** `WellFounded` (nothing fired in a circle) is inductive as it stands, and is what
  makes the set of fired nodes of a complete execution the least closed set (`Determinate`).
- **Executor** (`IInv` in `BranchExecutorProofs`). `Whereabouts`: a node is pending, in the round, executed or
  passed over, and its stage and output agree with that; `Traces`: what stage, message and output of a node say of each
  other; `LogOfStage`: what its row says at each stage as long as no call has failed. With them `DepsFirst` and `CheckpointResumable` are inductive,
  `NoOrphans` and `LogsAgree` follow, and every step is a step of `Dataflow` or a stutter
  (`Refinement`). `Determinate` carries the theorem about the abstract specification over
  to the executor, and `OnlyMergesAreStarved` follows from it: a closed set contains whatever has all its sources in it.
  - *Termination's safe half* (`Descent`, `ShortRuns`). `StepsLeft` adds up over the nodes what each can still come back
    from, as the size of one finite set, because a sum over any set of nodes would need an induction. A step of a node
    takes one pair out of it, the collection of a round one for each of its nodes.
  - *Contracts* (`NodesAreCalls`, `ExecutionsAreFrames`). From `Whereabouts`: only a pending node is started, so
    no call begins twice; an ended execution has no node at an await, so no frame ends with a call open.
- **Retry** (`IInv` in `NodeRetryProofs`). `RunnersWhileRunning`: until a call has ended it has a runner at
  work exactly while it waits for it. With it `OneRunner` is inductive; `BreakerHasReason` and
  `OneCallOneFailure` are inductive with the types.
  - *Contract* (`CallRefinement`). The token, the attempts and the sleeps are one phase of `NodeCall`. That no result is
    taken after an abort is the race: the abort listener rejects it before a runner can win it.
  - *Descent* (`CallsGoOn`, `CallsAreShort`). With `AttemptsBounded`, never more attempts than configured, every change of
    a call's stage brings it nearer to its end; only the wait for a token repeats.
- **Sub-workflows** (`IInv` in `SubWorkflowProofs`). `StageFacts`: what the stage of a call says of its row
  and of its frame; a `cancel()` only ever writes CANCELLED, of which it says nothing. `ReturnedIsWhole` rests on two facts that move one way only, a settled call
  stays settled and a frame whose runner has ended makes no more calls; `AbortReaches` on `Reached`
  being the least set closed under the listeners, proved without induction from its definition as the
  intersection of all such sets.
  - *Contract* (`FramesAreExecutors`). `Unstarted`: a frame whose runner has not begun has made no call. With it every step
    is, for each frame on its own, a step of `ExecutorFrame` or a stutter.
  - `AbortsGoDown` takes `AbortReaches` from one level to all of them, again by the least closed set. `CallsGoOn`: a call
    never comes back to a stage. `StaleForGood` needs the types only.
- **Versioning** (`IInv` in `VersioningProofs`). `RowsBelow`, no version row is above the workflow's
  version; `Pending`, what a save has read before its first write is still there, or its version row
  is taken; `OneWriter`, of the saves no other service has disturbed at most one is at its second write. These make
  `SavesSerialise` and `SaveNotBlocked` inductive together. For `MergedIsWhole`, `MergeOK` says what a
  merge has established by each of its statements, and that no other request can take it back.
  - `HistoryIsGrounded`: `HistoryGrounded` is not inductive, because a parent is copied from what a request has read;
    `CommitsKnown` adds that the requests, too, name commits that exist.
  - `NothingIsLost`: version rows and commits are only added, a closed pull request stays closed, and the
    overwriting write of an undisturbed save finds its version row there, which is `SavesSerialise`'s invariant used as
    an action property.
- **Realtime** (`IInv` in `RealtimeProofs`). `TrackFacts`: what is listed is tracked by its socket, until
  nobody looks any more (so the disconnect handler leaves it); `SweptFacts`: what a sweep is through with
  is not listed; `CrossFacts` and `ListFacts`: a join and a leave of one entry at the same time muddle it.
  `ClosedIsUnlisted` follows from the first, `ListedIsSweepable` and `AddressIsListed` are
  inductive with the others.
  - `DepartedForGood`: who has gone stays gone (`DepartedStays`), because only a message begins a join and an ended
    connection sends none.

Proved and in no run's configuration, where they would repeat what a run checks or enlarge it without a question of its
own: `EndedNeverRestarts`, `OutputsAreFinal`, `OnlyMergesStarve`, `FrameSpec`,
`FramesSpec`, both `CallSpec`s, both `CallsDescend`s, `AbortGoesDown`, `StaleStays`, `HistoryGrounded`, `NothingLost`,
`DepartedStays`.
Each was checked with TLC, on the instance of the module's run or a smaller one, before it was proved.

Only model-checked: the liveness properties `EventuallySettles`, `ShutdownDrains`, `Terminates`,
`CallsEnd`, `BreakerRecovers`, `CallsSettle`, `GhostsLeave`, because fairness rests on `ENABLED`, which the prover does not
reason about; and the four violations, which are facts about one behaviour. For `Terminates`, `CallsEnd` and `CallsSettle` the
half that is safety is proved (`Descends`, the two `CallsDescend`): a system that goes on comes to its end, and
what TLC adds is that fairness makes it go on, and tokens come. For `GhostsLeave` it is `DepartedStays`: what has left
does not return.

## 5. Plan

1. *(done)* Worker, executor, retry; their properties, refinement and proofs.
2. *(done)* Sub-workflows and their library; versions, branches and pull requests; realtime presence; their proofs.
3. *(done)* Refinement of the worker (`ExecutionLife`); the contracts `NodeCall` and `ExecutorFrame`, proved on both sides; the
   descents; the exact extent of three claims that are false; the history of commits.
4. *(done)* Failures the loop ignores, cancels of a child's row, the order of a shutdown.
5. Open: that the executor composed with retry refines the executor (the other half of the contract, see section 2);
   a rate below one request per second, where the bucket never holds a token (`worker:1111`); what a
   realtime connection is promised after a heartbeat has crossed the sweep, or after its workflow was deleted. The distributed queue, once something
   registers a queue: its abstract specification would be a bag of jobs, each run at least once
   and finished once.

## 6. Not modelled

Inside the modelled parts: statistics and health reports, the content of
messages and logs, expression resolution, credentials loading, resuming from a
checkpoint (`resumeFromCheckpoint` is set by no caller; that the checkpoint could be resumed from is
`CheckpointResumable`), `ExecutionService.updateStatus` (no caller) and the status
TIMEOUT (never written). Redis is one server whose commands are atomic and whose lists survive; its
pub/sub messages are delivered once to each live subscriber, late and in any order.
Of the library of sub-workflows, the edit of a row's fields, queries, and `triggerSubWorkflow` (no caller). Of
branches, comments, comparisons and tags. PostgreSQL executes each statement atomically and keeps what it
has answered; a request that is refused by a check has changed nothing. Other parts: the table in section 1.
