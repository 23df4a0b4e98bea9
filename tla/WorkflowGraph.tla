---------------------------- MODULE WorkflowGraph ----------------------------
(***************************************************************************)
(* What the worker reads in the graph of a workflow: the edges into a      *)
(* node, the nodes it depends on, and whether an edge is live, which it is *)
(* when its source has run and has chosen the edge's handle.               *)
(*                                                                         *)
(* A graph is its set of edges; an edge without a sourceHandle has the     *)
(* handle "output".  out maps a node that has run to its output handle.    *)
(***************************************************************************)
EXTENDS Integers, FiniteSets

CONSTANTS
    Nodes,      \* the nodes of the workflow
    Handles,    \* the output handles a node runner can choose
    Graphs      \* the graphs an execution may be started with

ASSUME NodesAssumption == IsFiniteSet(Nodes)

\* "none" stands for a node that has put nothing in nodeOutputs.
ASSUME HandlesAssumption == "none" \notin Handles

\* "error" is the handle of a node that failed and continues on error.
OutputHandles == Handles \cup {"output", "error"}
Edge == [source : Nodes, target : Nodes, handle : OutputHandles]

ASSUME GraphsAssumption == Graphs \subseteq SUBSET Edge

Incoming(edges, n) == {x \in edges : x.target = n}

Deps(edges, n) == {x.source : x \in Incoming(edges, n)}

Live(x, done, out) == x.source \in done /\ x.handle \in {out[x.source], "output"}

\* shouldExecuteNode: a node without incoming edges, or with a live one.
ShouldExecute(edges, done, out, n) ==
    \/ Incoming(edges, n) = {}
    \/ \E x \in Incoming(edges, n) : Live(x, done, out)
=============================================================================
