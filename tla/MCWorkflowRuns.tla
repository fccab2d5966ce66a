--------------------------- MODULE MCWorkflowRuns ---------------------------
(* Instances of WorkflowRuns for TLC. *)
EXTENDS WorkflowRuns

\* A run stops up to twice.
Twice == [r \in Runs |-> 2]
=============================================================================
