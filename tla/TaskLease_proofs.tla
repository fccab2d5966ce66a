-------------------------- MODULE TaskLease_proofs --------------------------
(***************************************************************************)
(* Checkout as a lease, for any number of tasks, agents, runs, retries,    *)
(* faults and edits, where every task stays with its agent and only the    *)
(* run that holds a checkout ends it: nobody reassigns or releases by hand *)
(* and the reaper does not run.  Steps may fail, the process may crash,    *)
(* messages may be redelivered or lost, people may move tasks to any       *)
(* status and ask for runs.                                                *)
(*                                                                         *)
(* The argument: no other run of the task executes between the claim of a  *)
(* run and its release (TaskLane_proofs), and nobody else frees the task.  *)
(***************************************************************************)
EXTENDS TaskLane_proofs

\* The events under which the claim of a run is its own to end.
OwnersStay == Env \intersect {"reassign", "release", "reaper"} = {}

\* A run that believes it holds the checkout of its task does hold it.
Holds == \A r \in Runs : pc[r] \in HoldingSteps => checkout[jobTask[r]] = r

LeaseInv == Lane /\ Holds /\ reaper.at = "idle"

\* Under the condition, tasks are in their lane.
LEMMA InLane ==
  ASSUME OwnersStay, Lane
  PROVE  AgentsStay /\ Undisturbed /\ Undisturbed' /\ Owners /\ Mine
  BY DEF OwnersStay, AgentsStay, Undisturbed, Lane

LEMMA ReaperStays == ASSUME OwnersStay, LeaseInv PROVE ~Reaper
  BY DEF OwnersStay, LeaseInv, Reaper, ReaperLists, ReaperChecks, ReaperReads,
         ReaperReleases

\* No other run of the task executes, and nobody else frees it.
LEMMA HoldsPipeline ==
  ASSUME OwnersStay, LeaseInv, NEW r \in Runs, PipelineStep(r)
  PROVE  Holds'
<1> DEFINE t == jobTask[r]
<1>1. /\ OnlyItself(r)
      /\ Looks(r) \/ Begins(r) \/ Claims(r) \/ Frees(r) \/ Parks(r) \/ Stops(r)
  BY StepTable DEF LeaseInv, Lane
<1>2. pc[r] # "idle" /\ t \in Tasks
  BY Executing DEF LeaseInv, Lane
<1>3. checkout \in [Tasks -> Runs \union {NoRun}]
  BY DEF LeaseInv, Lane, TInv, TypeOK
<1>4. pc'[r] \in HoldingSteps => checkout'[t] = r
  <2>1. pc[r] \in HoldingSteps => checkout[t] = r
    BY DEF LeaseInv, Holds
  <2>2. CASE Looks(r) \/ Begins(r)
    BY <2>1, <2>2 DEF Looks, Begins, Advances, SameRow, HoldingSteps
  <2>3. CASE Claims(r)
    BY <1>2, <1>3, <2>3 DEF Claims
  <2>4. CASE Frees(r) \/ Parks(r) \/ Stops(r)
    BY <2>4 DEF Frees, Parks, Stops, Advances, HoldingSteps
  <2> QED
    BY <1>1, <2>2, <2>3, <2>4
<1>5. ASSUME NEW q \in Runs \ {r}, pc'[q] \in HoldingSteps
      PROVE  checkout'[jobTask[q]] = q
  <2>1. pc[q] \in HoldingSteps /\ pc[q] # "idle"
    BY <1>1, <1>5 DEF OnlyItself, HoldingSteps
  <2>2. jobTask[q] # t /\ jobTask[q] \in Tasks
    BY <1>2, <2>1, InLane, OneRunPerTask DEF LeaseInv, Lane, TInv, Jobs
  <2>3. checkout'[jobTask[q]] = checkout[jobTask[q]]
    BY <1>1, <1>3, <2>2 DEF Looks, Begins, Claims, Frees, Parks, Stops, SameRow
  <2> QED
    BY <2>1, <2>3 DEF LeaseInv, Holds
<1> QED
  BY <1>1, <1>4, <1>5 DEF Holds, OnlyItself

\* Nobody else changes a checkout or takes a run past its claim.
LEMMA OthersKeep ==
  ASSUME OwnersStay, LeaseInv,
         \/ People \/ (\E t \in Tasks : Deliver(t)) \/ Crash
         \/ \E r \in Runs : StartJob(r) \/ StepFails(r)
  PROVE  /\ UNCHANGED <<checkout, reaper>>
         /\ \A q \in Runs : pc'[q] \in HoldingSteps =>
              pc[q] = pc'[q] /\ jobTask'[q] = jobTask[q]
<1>1. CASE People
  BY <1>1, InLane, PeopleTable DEF LeaseInv, jobVars
<1>2. CASE ~People
  <2>1. UNCHANGED reaper
    BY <1>2 DEF Deliver, DeliverToSuspended, DeliverFresh, StartJob, StepFails, Crash
  <2>2. /\ UNCHANGED checkout
        /\ \A q \in Runs :
             /\ pc'[q] \in {pc[q], "idle"} \/ pc'[q] = "read"
             /\ bg[q] # "free" => jobTask'[q] = jobTask[q]
    BY <1>2, ManagerTable DEF LeaseInv, Lane, SameRow
  <2>3. \A q \in Runs : pc[q] \in HoldingSteps => bg[q] # "free"
    BY DEF LeaseInv, Lane, TInv, Jobs, HoldingSteps
  <2> QED
    BY <2>1, <2>2, <2>3 DEF HoldingSteps
<1> QED
  BY <1>1, <1>2

LEMMA LeaseInductive ==
  ASSUME OwnersStay, LeaseInv, [Next]_vars
  PROVE  LeaseInv'
<1>1. Lane'
  BY LaneInductive DEF LeaseInv
<1>2. CASE UNCHANGED vars
  BY <1>1, <1>2 DEF LeaseInv, Holds, vars, taskVars, jobVars
<1>3. CASE \E r \in Runs : PipelineStep(r)
  <2>1. UNCHANGED reaper
    BY <1>3, StepTable DEF OnlyItself, LeaseInv, Lane
  <2> QED
    BY <1>1, <1>3, <2>1, HoldsPipeline DEF LeaseInv
<1>4. CASE \/ People \/ (\E t \in Tasks : Deliver(t)) \/ Crash
           \/ \E r \in Runs : StartJob(r) \/ StepFails(r)
  <2>1. Holds'
    BY <1>4, OthersKeep DEF LeaseInv, Holds
  <2> QED
    BY <1>1, <1>4, <2>1, OthersKeep DEF LeaseInv
<1> QED
  BY <1>2, <1>3, <1>4, ReaperStays DEF Next

LEMMA LeaseInvariant == ASSUME OwnersStay PROVE Spec => []LeaseInv
<1>1. Init => LeaseInv
  BY LaneInit DEF Init, LeaseInv, Holds, HoldingSteps, ReaperIdle
<1>2. LeaseInv /\ [Next]_vars => LeaseInv'
  BY LeaseInductive
<1> QED
  BY <1>1, <1>2, PTL DEF Spec

\* A specialist only works while the task row names its run, as long as tasks
\* stay with their agents and only the holder ends a checkout.
THEOREM WorkingHolds == ASSUME OwnersStay PROVE Spec => []WorkingRunHoldsClaim
<1>1. LeaseInv => WorkingRunHoldsClaim
  BY DEF LeaseInv, Holds, HoldingSteps, WorkingRunHoldsClaim
<1> QED
  BY <1>1, LeaseInvariant, PTL

-----------------------------------------------------------------------------
(* Checkout implements the lease *)

Working == {p \in Tasks \X Runs : pc[p[2]] = "work" /\ jobTask[p[2]] = p[1]}

\* Nobody but run r executes with the task of r.
LEMMA OnlyRun ==
  ASSUME OwnersStay, LeaseInv, NEW r \in Runs, PipelineStep(r), NEW q \in Runs,
         <<jobTask[r], q>> \in Working
  PROVE  q = r /\ pc[r] = "work"
<1>1. pc[q] = "work" /\ jobTask[q] = jobTask[r]
  BY DEF Working
<1>2. pc[r] # "idle"
  BY Executing DEF LeaseInv, Lane
<1> QED
  BY <1>1, <1>2, InLane, OneRunPerTask DEF LeaseInv, Lane

\* No step but the start of a specialist makes a run work.
LEMMA EndStep ==
  ASSUME UNCHANGED checkout, Working' \subseteq Working
  PROVE  Lease!Next
  BY DEF Lease!Next, Lease!End, Working

LEMMA PipelineLease ==
  ASSUME OwnersStay, LeaseInv, NEW r \in Runs, PipelineStep(r)
  PROVE  Lease!Next
<1> DEFINE t == jobTask[r]
<1>1. /\ OnlyItself(r)
      /\ Looks(r) \/ Begins(r) \/ Claims(r) \/ Frees(r) \/ Parks(r) \/ Stops(r)
  BY StepTable DEF LeaseInv, Lane
<1>2. t \in Tasks
  BY Executing DEF LeaseInv, Lane
<1>3. /\ \A q \in Runs \ {r} : pc'[q] = pc[q]
      /\ UNCHANGED jobTask
  BY <1>1 DEF OnlyItself
<1>4. pc'[r] # "work" => Working' \subseteq Working
  BY <1>3 DEF Working
<1>5. pc[r] # "work" /\ pc'[r] # "work" => Working' = Working
  BY <1>3 DEF Working
<1>6. pc[r] # "work" => Lease!Idle(t)
  BY OnlyRun DEF Lease!Idle, Working
<1>7. CASE Claims(r)
  <2>1. pc[r] # "work" /\ pc'[r] # "work" /\ checkout' = [checkout EXCEPT ![t] = r]
    BY <1>7 DEF Claims
  <2>2. Lease!Grant(t, r)
    BY <1>5, <1>6, <2>1 DEF Lease!Grant, Working
  <2> QED
    BY <1>2, <2>2 DEF Lease!Next
<1>8. CASE Begins(r)
  <2>1. pc[r] = "brief" /\ pc'[r] = "work" /\ UNCHANGED checkout
    BY <1>8 DEF Begins, Advances, SameRow
  <2>2. checkout[t] = r
    BY <2>1 DEF LeaseInv, Holds, HoldingSteps
  <2>3. Working' = Working \union {<<t, r>>}
    BY <1>2, <1>3, <2>1 DEF Working
  <2>4. Lease!Begin(t, r)
    BY <1>6, <2>1, <2>2, <2>3 DEF Lease!Begin, Working
  <2> QED
    BY <1>2, <2>4 DEF Lease!Next
<1>9. CASE Frees(r)
  <2>1. /\ pc[r] # "work" /\ pc'[r] # "work"
        /\ checkout' = [checkout EXCEPT ![t] = NoRun]
    BY <1>9 DEF Frees, Advances
  <2>2. Lease!Free(t)
    BY <1>5, <1>6, <2>1 DEF Lease!Free, Working
  <2> QED
    BY <1>2, <2>2 DEF Lease!Next
<1>10. CASE Looks(r) \/ Parks(r) \/ Stops(r)
  <2>1. UNCHANGED checkout /\ pc'[r] # "work"
    BY <1>10 DEF Looks, Parks, Stops, Advances, SameRow
  <2> QED
    BY <1>4, <2>1, EndStep
<1> QED
  BY <1>1, <1>7, <1>8, <1>9, <1>10

\* As long as tasks stay with their agents and only the holder ends a
\* checkout, the task row, the jobs and the manager together are a lease: a
\* specialist begins under it, keeps it while it works, and is alone.
THEOREM CheckoutImplementsLease == ASSUME OwnersStay PROVE Spec => ImplementsLease
<1>1. Init => Lease!Init
  BY DEF Init, Lease!Init
<1>2. LeaseInv /\ [Next]_vars => [Lease!Next]_(Lease!leaseVars)
  <2> SUFFICES ASSUME LeaseInv, [Next]_vars
               PROVE  Lease!Next \/ UNCHANGED Lease!leaseVars
    OBVIOUS
  <2>1. CASE UNCHANGED vars
    BY <2>1 DEF vars, taskVars, jobVars, Lease!leaseVars
  <2>2. CASE \E r \in Runs : PipelineStep(r)
    BY <2>2, PipelineLease
  <2>3. CASE \/ People \/ (\E t \in Tasks : Deliver(t)) \/ Crash
             \/ \E r \in Runs : StartJob(r) \/ StepFails(r)
    <3>1. Working' \subseteq Working
      BY <2>3, OthersKeep DEF Working, HoldingSteps
    <3> QED
      BY <2>3, <3>1, OthersKeep, EndStep
  <2> QED
    BY <2>1, <2>2, <2>3, ReaperStays DEF Next
<1> QED
  BY <1>1, <1>2, LeaseInvariant, PTL DEF Spec, ImplementsLease, Lease!Spec

=============================================================================
