----------------------------- MODULE MCApprovals -----------------------------
(* Instances of Approvals for TLC. *)
EXTENDS Approvals, TLC

CONSTANTS r1, r2, c1, c2, h1, h2, a1, w1

TwoRequests == {r1, r2}
TwoCallers == {c1, c2}
TwoApprovers == {h1, h2}
OneActor == {a1}
OneWork == {w1}

\* Two calls of one principal: the first inside a session, which is also the
\* subject it works under, the second outside.
SamePrincipal == [c \in TwoCallers |-> a1]
FirstInSession == [c \in TwoCallers |-> IF c = c1 THEN w1 ELSE Nowhere]
FirstHasSubject == [c \in TwoCallers |-> IF c = c1 THEN {w1} ELSE {}]

Symmetry == Permutations(Requests) \union Permutations(Approvers)
=============================================================================
