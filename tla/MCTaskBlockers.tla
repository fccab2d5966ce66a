--------------------------- MODULE MCTaskBlockers ---------------------------
(* Instances of TaskBlockers for TLC. *)
EXTENDS TaskBlockers, TLC

CONSTANTS t1, t2, t3, h1, h2

ThreeTasks == {t1, t2, t3}
TwoHandlers == {h1, h2}
RowSymmetry == Permutations(Tasks) \union Permutations(Handlers)

AnyGraph == {g \in [Tasks -> SUBSET Tasks] : IsAcyclic(g)}
AllSets == SUBSET Tasks

=============================================================================
