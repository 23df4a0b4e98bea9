----------------------------- MODULE SubWorkflow -----------------------------
(***************************************************************************)
(* executeSubWorkflow: a node of a running execution calls another         *)
(* workflow, inline and awaited or queued and forgotten, while the library *)
(* of sub-workflows is edited.  A frame is a run of the parallel branch    *)
(* executor: 0 is the execution of Top, a frame c > 0 the run of the c-th  *)
(* call.  What happens between the nodes of one frame is the subject of    *)
(* BranchExecutor; here a frame works until it ends, and ends only when    *)
(* the calls its nodes made have settled (ExecutorFrame).                  *)
(*                                                                         *)
(* A step is the code between two awaits.                                  *)
(***************************************************************************)
EXTENDS SubWorkflowRegistry

CONSTANTS
    Top,        \* the workflow of the outermost execution
    CallsOf,    \* the workflows each workflow has call nodes for
    MaxCalls,   \* bound on calls
    MaxCancels, \* bound on children somebody asks to cancel
    MaxFaults   \* bound on statements of PostgreSQL or Redis that reject

ASSUME TopAssumption == Top \in Workflows
ASSUME CallsOfAssumption == CallsOf \in [Workflows -> SUBSET Workflows]
ASSUME BoundsAssumption == MaxCalls \in Nat /\ MaxCancels \in Nat /\ MaxFaults \in Nat

Calls == 1 .. MaxCalls
Frames == 0 .. MaxCalls

VARIABLES
    call,       \* who calls which workflow, and the options of the node
    stage,      \* the await each call stands at
    row,        \* status of the child's execution row
    runner,     \* executeWithParallelBranches of each frame
    aborted,    \* frames whose AbortController is aborted
    linked,     \* calls whose abortHandler listens to their caller
    late,       \* calls whose listener came after the caller's abort
    cancelling, \* calls whose row a cancel() has read as PENDING or RUNNING
    faults      \* rejected statements so far (bounded by MaxFaults)

callVars == <<call, stage, row, runner, aborted, linked, late, cancelling, faults>>
vars == <<registryVars, callVars>>

Stages == {"free", "loading", "creating", "queueing", "starting", "preparing",
           "racing", "completing", "failing", "returned", "threw"}
Settled == {"returned", "threw"}
NoCall == [by |-> 0, of |-> Top, awaited |-> FALSE, pinned |-> FALSE]

Init ==
    /\ RegistryInit
    /\ call = [c \in Calls |-> NoCall]
    /\ stage = [c \in Calls |-> "free"]
    /\ row = [c \in Calls |-> "none"]
    /\ runner = [f \in Frames |-> IF f = 0 THEN "working" ELSE "none"]
    /\ aborted = {}
    /\ linked = {}
    /\ late = {}
    /\ cancelling = {}
    /\ faults = 0

Goto(c, s) == stage' = [stage EXCEPT ![c] = s]
SetRow(c, s) == row' = [row EXCEPT ![c] = s]
Fault == faults < MaxFaults /\ faults' = faults + 1
Runs(f) == IF f = 0 THEN Top ELSE call[f].of
Made(f) == {c \in Calls : stage[c] # "free" /\ call[c].by = f}

-----------------------------------------------------------------------------
(* The call, up to the row of the child.                                   *)

\* A node of frame f asks for workflow w; the ids of calls are handed out in
\* order.  The node may have begun before the frame was aborted.
Begin(c, f, w) ==
    /\ stage[c] = "free"
    /\ \A d \in Calls : d < c => stage[d] # "free"
    /\ runner[f] = "working"
    /\ w \in CallsOf[Runs(f)]
    /\ \E awaited, pinned \in BOOLEAN :
          call' = [call EXCEPT ![c] = [by |-> f, of |-> w, awaited |-> awaited, pinned |-> pinned]]
    /\ Goto(c, "loading")
    /\ UNCHANGED <<registryVars, row, runner, aborted, linked, late, cancelling, faults>>

\* findFirst rejects, or finds no row to run.
Load(c) ==
    /\ stage[c] = "loading"
    /\ \/ Found(call[c].of, call[c].pinned) /\ Goto(c, "creating") /\ UNCHANGED faults
       \/ ~Found(call[c].of, call[c].pinned) /\ Goto(c, "threw") /\ UNCHANGED faults
       \/ Fault /\ Goto(c, "threw")
    /\ UNCHANGED <<registryVars, call, row, runner, aborted, linked, late, cancelling>>

\* addEventListener: it does not fire for a signal that is already aborted.
Link(c) ==
    /\ linked' = linked \union {c}
    /\ late' = IF call[c].by \in aborted THEN late \union {c} ELSE late

\* The row is created; an awaited call links its AbortController at once.
CreateRow(c) ==
    /\ stage[c] = "creating"
    /\ \/ /\ SetRow(c, "PENDING")
          /\ \/ call[c].awaited /\ Goto(c, "starting") /\ Link(c)
             \/ ~call[c].awaited /\ Goto(c, "queueing") /\ UNCHANGED <<linked, late>>
          /\ UNCHANGED faults
       \/ Fault /\ Goto(c, "threw") /\ UNCHANGED <<row, linked, late>>
    /\ UNCHANGED <<registryVars, call, runner, aborted, cancelling>>

\* lpush of a call nobody waits for; its row is the worker's from here on.
Queue(c) ==
    /\ stage[c] = "queueing"
    /\ \/ Goto(c, "returned") /\ UNCHANGED faults
       \/ Fault /\ Goto(c, "threw")
    /\ UNCHANGED <<registryVars, call, row, runner, aborted, linked, late, cancelling>>

-----------------------------------------------------------------------------
(* The try block.                                                          *)

MarkRunning(c) ==
    /\ stage[c] = "starting"
    /\ \/ SetRow(c, "RUNNING") /\ Goto(c, "preparing") /\ UNCHANGED faults
       \/ Fault /\ Goto(c, "failing") /\ UNCHANGED row
    /\ UNCHANGED <<registryVars, call, runner, aborted, linked, late, cancelling>>

\* loadCredentials, then the timer and the executor are started together.
StartRace(c) ==
    /\ stage[c] = "preparing"
    /\ \/ /\ Goto(c, "racing")
          /\ runner' = [runner EXCEPT ![c] = "working"]
          /\ UNCHANGED faults
       \/ Fault /\ Goto(c, "failing") /\ UNCHANGED runner
    /\ UNCHANGED <<registryVars, call, row, aborted, linked, late, cancelling>>

\* Mutant of RunnerEnds: the late result of a lost race is recorded too.
RunnerEndsAnyway(f) ==
    /\ runner[f] = "working"
    /\ \A c \in Made(f) : stage[c] \in Settled
    /\ \E end \in {"done", "threw"} :
          /\ runner' = [runner EXCEPT ![f] = end]
          /\ IF f # 0 THEN Goto(f, IF end = "done" THEN "completing" ELSE "failing")
                      ELSE UNCHANGED stage
    /\ UNCHANGED <<registryVars, call, row, aborted, linked, late, cancelling, faults>>

\* Mutant of RunnerEnds: a frame may end while calls of its nodes are open.
RunnerEndsEarly(f) ==
    /\ runner[f] = "working"
    /\ \E end \in {"done", "threw"} :
          /\ runner' = [runner EXCEPT ![f] = end]
          /\ IF f # 0 /\ stage[f] = "racing"
             THEN Goto(f, IF end = "done" THEN "completing" ELSE "failing")
             ELSE UNCHANGED stage
    /\ UNCHANGED <<registryVars, call, row, aborted, linked, late, cancelling, faults>>

\* A frame ends, well or not, when its nodes have; what a runner that lost
\* against the timer returns or throws reaches nobody.
RunnerEnds(f) ==
    /\ runner[f] = "working"
    /\ \A c \in Made(f) : stage[c] \in Settled
    /\ \E end \in {"done", "threw"} :
          /\ runner' = [runner EXCEPT ![f] = end]
          /\ IF f # 0 /\ stage[f] = "racing"
             THEN Goto(f, IF end = "done" THEN "completing" ELSE "failing")
             ELSE UNCHANGED stage
    /\ UNCHANGED <<registryVars, call, row, aborted, linked, late, cancelling, faults>>

\* Mutant of TimerFires: only the calls of the execution itself are timed.
TimerFiresOutermost(c) ==
    /\ stage[c] = "racing" /\ call[c].by = 0
    /\ Goto(c, "failing")
    /\ UNCHANGED <<registryVars, call, row, runner, aborted, linked, late, cancelling, faults>>

\* The timer of the race: the runner goes on, nothing aborts it.
TimerFires(c) ==
    /\ stage[c] = "racing"
    /\ Goto(c, "failing")
    /\ UNCHANGED <<registryVars, call, row, runner, aborted, linked, late, cancelling, faults>>

MarkCompleted(c) ==
    /\ stage[c] = "completing"
    /\ \/ /\ SetRow(c, "COMPLETED")
          /\ Goto(c, "returned")
          /\ linked' = linked \ {c}
          /\ UNCHANGED faults
       \/ Fault /\ Goto(c, "failing") /\ UNCHANGED <<row, linked>>
    /\ UNCHANGED <<registryVars, call, runner, aborted, late, cancelling>>

\* Mutant of MarkFailed: the row of a call that lost the race is written TIMEOUT.
MarkTimedOut(c) ==
    /\ stage[c] = "failing"
    /\ \/ SetRow(c, IF runner[c] = "working" THEN "TIMEOUT" ELSE "FAILED") /\ UNCHANGED faults
       \/ Fault /\ UNCHANGED row
    /\ Goto(c, "threw")
    /\ linked' = linked \ {c}
    /\ UNCHANGED <<registryVars, call, runner, aborted, late, cancelling>>

\* The catch block, and the finally block whether its update succeeds or not.
MarkFailed(c) ==
    /\ stage[c] = "failing"
    /\ \/ SetRow(c, "FAILED") /\ UNCHANGED faults
       \/ Fault /\ UNCHANGED row
    /\ Goto(c, "threw")
    /\ linked' = linked \ {c}
    /\ UNCHANGED <<registryVars, call, runner, aborted, late, cancelling>>

-----------------------------------------------------------------------------
(* Cancellation.                                                           *)

\* Mutant of Reached: only the calls of the aborted frame itself.
ReachedOnce == {c \in linked : call[c].by = 0}

\* The frames an abort of the execution reaches: listeners fire in the same
\* turn, each aborting the controller the next ones listen to.
Reached ==
    {c \in Calls : \A S \in SUBSET Calls :
        (\A d \in linked : call[d].by \in S \union {0} => d \in S) => c \in S}

Abort ==
    /\ 0 \notin aborted
    /\ aborted' = {0} \union Reached
    /\ UNCHANGED <<registryVars, call, stage, row, runner, linked, late, cancelling, faults>>

-----------------------------------------------------------------------------
(* ExecutionService.cancel on the id of a child.  It reads the status and  *)
(* writes the row in two statements; the signal it publishes reaches no    *)
(* worker.  Any number of requests may be between the two.                 *)

\* findById finds a row that is still to be cancelled.
CancelCheck(c) ==
    /\ row[c] \in {"PENDING", "RUNNING"}
    /\ cancelling' = cancelling \union {c}
    /\ Cardinality(cancelling') <= MaxCancels
    /\ UNCHANGED <<registryVars, call, stage, row, runner, aborted, linked, late, faults>>

\* The update, whatever has become of the row (one that rejects changes nothing).
CancelWrite(c) ==
    /\ c \in cancelling
    /\ SetRow(c, "CANCELLED")
    /\ UNCHANGED <<registryVars, call, stage, runner, aborted, linked, late, cancelling, faults>>

-----------------------------------------------------------------------------
CallStep(c) ==
    \/ Load(c) \/ CreateRow(c) \/ Queue(c)
    \/ MarkRunning(c) \/ StartRace(c) \/ TimerFires(c)
    \/ MarkCompleted(c) \/ MarkFailed(c)

Next ==
    \/ \E c \in Calls : CallStep(c) \/ \E f \in Frames, w \in Workflows : Begin(c, f, w)
    \/ \E f \in Frames : RunnerEnds(f)
    \/ Abort
    \/ \E c \in Calls : CancelCheck(c) \/ CancelWrite(c)
    \/ RegistryNext /\ UNCHANGED callVars

Spec == Init /\ [][Next]_vars

\* Statements are answered and timers fire.  Nodes owe nobody an end, and
\* nobody owes a cancel or an edit.
FairSpec == Spec /\ \A c \in Calls : WF_vars(CallStep(c))

-----------------------------------------------------------------------------
TypeOK ==
    /\ RegistryTypeOK
    /\ call \in [Calls -> [by : Frames, of : Workflows, awaited : BOOLEAN, pinned : BOOLEAN]]
    /\ stage \in [Calls -> Stages]
    /\ row \in [Calls -> {"none", "PENDING", "RUNNING", "COMPLETED", "FAILED", "CANCELLED"}]
    /\ runner \in [Frames -> {"none", "working", "done", "threw"}]
    /\ aborted \subseteq Frames
    /\ linked \subseteq Calls
    /\ late \subseteq Calls
    /\ cancelling \subseteq Calls
    /\ faults \in 0 .. MaxFaults

(***************************************************************************)
(* A call that gives its caller a result speaks for everything below it:   *)
(* its runner has ended well, no call of that runner is still open, and    *)
(* its row is COMPLETED unless a cancel() that had read the row before was *)
(* later.  A caller therefore never goes on while nodes it has a result of *)
(* are still to run.                                                       *)
(***************************************************************************)
ReturnedIsWhole ==
    \A c \in Calls : stage[c] = "returned" /\ call[c].awaited =>
        /\ row[c] = "COMPLETED" \/ (row[c] = "CANCELLED" /\ c \in cancelling)
        /\ runner[c] = "done"
        /\ \A d \in Made(c) : stage[d] \in Settled

(***************************************************************************)
(* A cancelled execution takes the calls below it along: while a call      *)
(* listens to a caller whose controller is aborted, its own is aborted     *)
(* too, except for a call that was linked after the abort had passed by.   *)
(***************************************************************************)
AbortReaches ==
    \A c \in linked : call[c].by \in aborted => c \in aborted \/ c \in late

(***************************************************************************)
(* The row of a child leaves COMPLETED or FAILED for one value and by one  *)
(* writer only: CANCELLED, by a cancel() that had read it as PENDING or    *)
(* RUNNING.  A runner that ends long after the timer wrote FAILED, an      *)
(* abort, or a cancel() that comes after the end do not rewrite it.        *)
(***************************************************************************)
FinalRowStays ==
    [][\A c \in Calls : row[c] \in {"COMPLETED", "FAILED"} =>
          row'[c] = row[c] \/ (row'[c] = "CANCELLED" /\ c \in cancelling)]_vars

(***************************************************************************)
(* Each frame is, to the calls its nodes make, what module ExecutorFrame   *)
(* promises, and what the executor of BranchExecutor is: timers that leave *)
(* a runner behind, aborts and failures of a call above included.          *)
(***************************************************************************)
Open(f) == {c \in Made(f) : stage[c] \notin Settled}
Frame(f) == INSTANCE ExecutorFrame WITH runner <- runner[f], open <- Open(f)
FramesSpec ==
    /\ \A f \in Frames : Frame(f)!Init
    /\ [][\A f \in Frames : [Frame(f)!Next]_(Frame(f)!vars)]_vars

(***************************************************************************)
(* No matter how deep: a call that is linked to the execution through      *)
(* linked calls, none of them linked too late, is aborted with it.         *)
(***************************************************************************)
Chained ==
    {c \in Calls : \A S \in SUBSET Calls :
        (\A d \in linked \ late : call[d].by \in S \union {0} => d \in S) => c \in S}

AbortGoesDown == 0 \in aborted => Chained \subseteq aborted

(***************************************************************************)
(* A call never comes back to a stage it has left, whichever of its        *)
(* runner, its timer and the failures is faster, and takes at most 8 steps *)
(* to settle.                                                              *)
(***************************************************************************)
StagesLeft(c) ==
    CASE stage[c] = "free" -> 8
      [] stage[c] = "loading" -> 7
      [] stage[c] = "creating" -> 6
      [] stage[c] \in {"queueing", "starting"} -> 5
      [] stage[c] = "preparing" -> 4
      [] stage[c] = "racing" -> 3
      [] stage[c] = "completing" -> 2
      [] stage[c] = "failing" -> 1
      [] stage[c] \in Settled -> 0

CallsDescend ==
    [][\A c \in Calls : stage'[c] # stage[c] => StagesLeft(c)' < StagesLeft(c)]_vars

(***************************************************************************)
(* No call keeps its caller waiting for ever, even if the nodes of the     *)
(* child never end: the timer decides.                                     *)
(***************************************************************************)
CallsSettle ==
    \A c \in Calls : stage[c] = "loading" ~> stage[c] \in Settled
=============================================================================
