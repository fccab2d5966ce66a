------------------------------ MODULE TaskLease ------------------------------
(***************************************************************************)
(* What the checkout of a task is for: a lease that one run holds while    *)
(* its specialist works.  Work begins only under the lease, at most one    *)
(* run works on a task, and the lease is neither taken away nor given to   *)
(* another run while the work lasts.  TaskCheckout is compared with it.    *)
(***************************************************************************)
CONSTANTS Tasks, Runs, NoRun

VARIABLES holder,       \* the run that holds the lease of each task, or NoRun
          working       \* the pairs <<t, r>> where r works on t

leaseVars == <<holder, working>>

Idle(t) == \A r \in Runs : <<t, r>> \notin working

Init ==
  /\ holder = [t \in Tasks |-> NoRun]
  /\ working = {}

Grant(t, r) ==
  /\ Idle(t)
  /\ holder' = [holder EXCEPT ![t] = r]
  /\ UNCHANGED working

Free(t) ==
  /\ Idle(t)
  /\ holder' = [holder EXCEPT ![t] = NoRun]
  /\ UNCHANGED working

Begin(t, r) ==
  /\ Idle(t)
  /\ holder[t] = r
  /\ working' = working \union {<<t, r>>}
  /\ UNCHANGED holder

\* Work ends for some runs at once: one that finishes, or all when the
\* process that runs them dies.  The lease stays with its holder.
End ==
  /\ working' \in SUBSET working
  /\ UNCHANGED holder

Next ==
  \/ \E t \in Tasks : Free(t) \/ \E r \in Runs : Grant(t, r) \/ Begin(t, r)
  \/ End

Spec == Init /\ [][Next]_leaseVars

=============================================================================
