--------------------------- MODULE ExecutionLife ----------------------------
(***************************************************************************)
(* What the instances of apps/api together promise about an execution,     *)
(* with nothing of how: no instance, list, poll, slot or message.  An      *)
(* execution goes through the stages below once and in this order,         *)
(* whatever crashes, restarts, is shut down or cancelled around it; the    *)
(* row may be overwritten by a cancellation at any time and by nothing     *)
(* else than the stage it is at.  WorkflowWorker implements it.            *)
(***************************************************************************)
CONSTANT Execs      \* executions

VARIABLES
    row,        \* Execution.status in PostgreSQL ("NONE": no row yet)
    job,        \* the stage of the execution
    dropped     \* executions a fault or the end of a process dropped

vars == <<row, job, dropped>>

Stage == {"none",      \* nobody has asked for it
          "waiting",   \* its job is in a list, or on its way to one
          "taken",     \* a worker has the job
          "admitted",  \* ... and has seen that nobody cancelled it
          "running",   \* its nodes run, or have all run
          "completed", \* the row says so, the last calls and messages go out
          "failing",   \* the run was given up, the row does not say so yet
          "failed",    \* the row says so, the last message goes out
          "over"}

Init ==
    /\ row = [e \in Execs |-> "NONE"]
    /\ job = [e \in Execs |-> "none"]
    /\ dropped = {}

Moves(e, from, to) == job[e] = from /\ job' = [job EXCEPT ![e] = to]

Writes(e, S) == \E s \in S : row' = [row EXCEPT ![e] = s]

Create(e) ==
    /\ row[e] = "NONE"
    /\ Moves(e, "none", "waiting") /\ Writes(e, {"PENDING"})
    /\ UNCHANGED dropped

Take(e) == Moves(e, "waiting", "taken") /\ UNCHANGED <<row, dropped>>

\* A worker that finds the row cancelled leaves it at that; a cancellation that
\* comes between the look and the start is overwritten.
Admit(e) ==
    /\ row[e] # "CANCELLED"
    /\ Moves(e, "taken", "admitted")
    /\ UNCHANGED <<row, dropped>>

Refuse(e) ==
    /\ row[e] = "CANCELLED"
    /\ Moves(e, "taken", "over")
    /\ UNCHANGED <<row, dropped>>

\* The worker may fail before a node has run, the row says RUNNING all the same.
Start(e) ==
    /\ \E to \in {"running", "failing"} : Moves(e, "admitted", to)
    /\ Writes(e, {"RUNNING"})
    /\ UNCHANGED dropped

Complete(e) ==
    Moves(e, "running", "completed") /\ Writes(e, {"COMPLETED"}) /\ UNCHANGED dropped

\* A call, a node or the abort throws; one of the calls that follow the
\* COMPLETED row may, too.
Break(e) ==
    /\ \E from \in {"taken", "admitted", "running", "completed"} : Moves(e, from, "failing")
    /\ UNCHANGED <<row, dropped>>

Fail(e) ==
    Moves(e, "failing", "failed") /\ Writes(e, {"FAILED", "CANCELLED"}) /\ UNCHANGED dropped

Close(e) ==
    /\ \E from \in {"completed", "failed"} : Moves(e, from, "over")
    /\ UNCHANGED <<row, dropped>>

Cancel(e) ==
    /\ row[e] # "NONE"
    /\ Writes(e, {"CANCELLED"})
    /\ UNCHANGED <<job, dropped>>

\* A failed call or the end of a process forgets some executions for good.
Drop(S) ==
    /\ dropped' = dropped \cup S
    /\ \A e \in S : job[e] \notin {"none", "over"}
    /\ job' = [e \in Execs |-> IF e \in S THEN "over" ELSE job[e]]
    /\ UNCHANGED row

Next ==
    \/ \E S \in SUBSET Execs : Drop(S)
    \/ \E e \in Execs :
          \/ Create(e) \/ Take(e) \/ Admit(e) \/ Refuse(e) \/ Start(e)
          \/ Complete(e) \/ Break(e) \/ Fail(e) \/ Close(e) \/ Cancel(e)

Spec == Init /\ [][Next]_vars
=============================================================================
