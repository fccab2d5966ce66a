--------------------------- MODULE MCTaskCheckout ---------------------------
(* Instances of TaskCheckout for TLC. *)
EXTENDS TaskCheckout, TLC

CONSTANTS t1, t2, a1, a2

OneTask == {t1}
TwoTasks == {t1, t2}
OneAgent == {a1}
TwoAgents == {a1, a2}
TaskSymmetry == Permutations(Tasks)
=============================================================================
