--------------------------- MODULE ApprovalPromise ---------------------------
(***************************************************************************)
(* What the approval store promises the people who answer it: a gated call *)
(* goes through only on an approval that was given and that covers it, a   *)
(* request is approved once, and an approval for one call lets one call    *)
(* through.  Approvals is compared with it.                                *)
(***************************************************************************)
CONSTANTS Callers,
          Grants,      \* the approvals that can be given: records with the
                       \* fields req, the request answered, and scope
          Coverage,    \* the pairs <<c, g>> where g covers the calls of c
          NoGrant

VARIABLES given,       \* the approvals given so far
          through,     \* the approval the current call of a caller passed on
          spent        \* the single-use approvals a call has passed on

promiseVars == <<given, through, spent>>

Init ==
  /\ given = {}
  /\ through = [c \in Callers |-> NoGrant]
  /\ spent = {}

\* A person approves a request nobody has approved.
Approve(g) ==
  /\ \A a \in given : a.req # g.req
  /\ given' = given \union {g}
  /\ UNCHANGED <<through, spent>>

\* A call goes through on g.
LetThrough(c, g) ==
  /\ through[c] = NoGrant
  /\ g \in given
  /\ <<c, g>> \in Coverage
  /\ g.scope = "once" => g \notin spent
  /\ through' = [through EXCEPT ![c] = g]
  /\ spent' = IF g.scope = "once" THEN spent \union {g} ELSE spent
  /\ UNCHANGED given

\* The call is over.
Return(c) ==
  /\ through' = [through EXCEPT ![c] = NoGrant]
  /\ UNCHANGED <<given, spent>>

Next ==
  \/ \E g \in Grants : Approve(g)
  \/ \E c \in Callers : Return(c) \/ \E g \in Grants : LetThrough(c, g)

Spec == Init /\ [][Next]_promiseVars

=============================================================================
