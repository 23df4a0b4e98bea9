--------------------------- MODULE ExecutorFrame ---------------------------
(***************************************************************************)
(* A run of executeWithParallelBranches as the sub-workflow calls its      *)
(* nodes make may rely on it, with nothing of how nodes are run.  It is    *)
(* where module SubWorkflow, whose frames are such runs nested in each     *)
(* other, meets module BranchExecutor, whose nodes stand at one await      *)
(* while their sub-workflow runs: both implement it.                       *)
(***************************************************************************)
CONSTANT Calls      \* calls of executeSubWorkflow its nodes may make

VARIABLES
    runner,     \* executeWithParallelBranches
    open        \* calls a node of it awaits

vars == <<runner, open>>

\* The outermost run has begun; another begins when its own call has come so far.
Init == runner \in {"none", "working"} /\ open = {}

Start == runner = "none" /\ runner' = "working" /\ UNCHANGED open

\* A node's result asks for a sub-workflow, which the node awaits ...
Ask(c) ==
    /\ runner = "working" /\ c \notin open
    /\ open' = open \cup {c}
    /\ UNCHANGED runner

\* ... until it returns or throws.
Settle(c) == c \in open /\ open' = open \ {c} /\ UNCHANGED runner

\* The run returns or throws: no call of it is open, and none will be.
End ==
    /\ runner = "working" /\ open = {}
    /\ runner' \in {"done", "threw"}
    /\ UNCHANGED open

Next == Start \/ End \/ \E c \in Calls : Ask(c) \/ Settle(c)

Spec == Init /\ [][Next]_vars
=============================================================================
