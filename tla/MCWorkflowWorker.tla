-------------------------- MODULE MCWorkflowWorker --------------------------
(* Small instances of WorkflowWorker for TLC. *)
EXTENDS WorkflowWorker, TLC

CONSTANTS e1, e2, e3, w1, w2

\* Instances run the same code: exchanging them changes nothing.
InstanceSymmetry == Permutations({w1, w2})
=============================================================================
