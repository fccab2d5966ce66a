--------------------------- MODULE MCTaskApproval ---------------------------
(* Instances of TaskApproval for TLC. *)
EXTENDS TaskApproval, TLC

CONSTANTS o1, o2, h1

TwoOps == {o1, o2}
OneOp == {o1}
OneHuman == {h1}

BothPolicies == {"request", "defer"}

\* The queue of connections is used where core is left to decide.
QueueIfDeferred ==
  [p \in BothPolicies |-> IF p = "defer" THEN {"task", "connections"} ELSE {"task"}]
=============================================================================
