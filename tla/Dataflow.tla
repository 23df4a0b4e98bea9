------------------------------ MODULE Dataflow ------------------------------
(***************************************************************************)
(* What the execution of a workflow promises, whatever runs at the same    *)
(* time as what: nodes fire once, only when everything they depend on has  *)
(* fired and some edge into them is live, and the execution is complete    *)
(* only when nothing more can fire.  A node whose failure goes unnoticed   *)
(* is lost: it counts as reached, but no edge from it is live.             *)
(***************************************************************************)
EXTENDS WorkflowGraph

CONSTANT Silent     \* nodes whose failure may go unnoticed

VARIABLES
    edges,      \* the graph of this execution
    done,       \* nodes that have fired
    lost,       \* nodes that have failed unnoticed
    out,        \* the handle each of them chose
    outcome     \* "running", "completed", "failed" or "cancelled"

vars == <<edges, done, lost, out, outcome>>

Reached == done \cup lost

CanFire(n) ==
    /\ n \notin Reached
    /\ Deps(edges, n) \subseteq Reached
    /\ ShouldExecute(edges, done, out, n)

Init ==
    /\ edges \in Graphs
    /\ done = {} /\ lost = {}
    /\ out = [n \in Nodes |-> "none"]
    /\ outcome = "running"

\* Some nodes that can fire do, together; L are lost.
Fire ==
    /\ outcome = "running"
    /\ \E S \in SUBSET Nodes : \E L \in SUBSET (S \cap Silent) : \E h \in [S \ L -> OutputHandles] :
          /\ S # {} /\ \A n \in S : CanFire(n)
          /\ done' = done \cup (S \ L)
          /\ lost' = lost \cup L
          /\ out' = [n \in Nodes |-> IF n \in S \ L THEN h[n] ELSE out[n]]
    /\ UNCHANGED <<edges, outcome>>

Complete ==
    /\ outcome = "running"
    /\ \A n \in Nodes : ~CanFire(n)
    /\ outcome' = "completed"
    /\ UNCHANGED <<edges, done, lost, out>>

GiveUp ==
    /\ outcome = "running"
    /\ outcome' \in {"failed", "cancelled"}
    /\ UNCHANGED <<edges, done, lost, out>>

Next == Fire \/ Complete \/ GiveUp

Spec == Init /\ [][Next]_vars
-----------------------------------------------------------------------------
(* Properties.                                                             *)

TypeOK ==
    /\ edges \in Graphs
    /\ done \subseteq Nodes /\ lost \subseteq Nodes \cap Silent /\ done \cap lost = {}
    /\ out \in [Nodes -> OutputHandles \cup {"none"}]
    /\ outcome \in {"running", "completed", "failed", "cancelled"}

\* Node n is reached by way of the nodes in S.
FollowsFrom(S, n) ==
    Deps(edges, n) \subseteq S /\ ShouldExecute(edges, S \ lost, out, n)

\* S contains every node that is reached by way of the nodes in S.
Closed(S) == \A n \in Nodes : FollowsFrom(S, n) => n \in S

\* Every node that was reached was so by way of others: no part of what was reached
\* is closed unless it is all of it, so nothing fired in a circle.
WellFounded ==
    \A S \in SUBSET Reached : (\A n \in Reached : FollowsFrom(S, n) => n \in S) => S = Reached

\* Which nodes a completed execution has reached depends on the handles they chose
\* and on those that were lost, and on nothing else: it is the least closed set.
LeastFixpoint ==
    outcome = "completed" =>
        Closed(Reached) /\ \A S \in SUBSET Nodes : Closed(S) => Reached \subseteq S
=============================================================================
