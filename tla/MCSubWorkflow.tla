--------------------------- MODULE MCSubWorkflow ---------------------------
(* One workflow, in the library, that calls itself.                        *)
EXTENDS SubWorkflow

CONSTANT sub

Graph == [w \in Workflows |-> {sub}]
=============================================================================
