------------------------ MODULE TaskCheckout_proofs ------------------------
(***************************************************************************)
(* Agent dispatch for any number of tasks, agents, runs, retries, faults   *)
(* and edits, with every event allowed: types, and that a run which has    *)
(* reported holds nothing.  TaskLane_proofs goes on where tasks stay with  *)
(* their agents, TaskLease_proofs where only the holder ends a checkout.   *)
(***************************************************************************)
EXTENDS TaskCheckout, TLAPS

\* Exactly the jobs that run are at a step of the pipeline, and every job has
\* its task and its agent.
Jobs ==
  \A r \in Runs :
    /\ pc[r] # "idle" <=> bg[r] = "running"
    /\ bg[r] # "free" => jobTask[r] \in Tasks /\ jobAgent[r] \in Agents

TInv == TypeOK /\ Jobs

LEMMA RunsFacts == Runs \subseteq Nat /\ NoRun \notin Runs
  BY CheckoutAssumption DEF Runs, NoRun

-----------------------------------------------------------------------------
(* What the helpers of the pipeline do to the job record *)

JobTypes ==
  /\ bg \in [Runs -> {"free", "pending", "running", "suspended", "settled"}]
  /\ jobTask \in [Runs -> Tasks \union {NoTask}]
  /\ jobAgent \in [Runs -> Agents \union {NoAgent}]
  /\ retries \in [Runs -> 0..MaxRetries]
  /\ pc \in [Runs -> Steps \union {"idle"}]
  /\ seen \in [Runs -> Runs \union {NoRun}]
  /\ outcome \in [Runs -> Outcomes \union {"none"}]

\* A run ends its attempt: nothing of it is left but the state of its job.
LEMMA SettleEffect ==
  ASSUME TInv, NEW r \in Runs, NEW s \in {"pending", "suspended", "settled"},
         bg[r] # "free", Settle(r, s),
         retries' \in [Runs -> 0..MaxRetries]
  PROVE  /\ JobTypes' /\ Jobs'
         /\ bg'[r] = s /\ pc'[r] = "idle"
         /\ \A q \in Runs \ {r} : bg'[q] = bg[q] /\ pc'[q] = pc[q]
         /\ UNCHANGED <<jobTask, jobAgent>>
<1>1. /\ bg' = [bg EXCEPT ![r] = s] /\ pc' = [pc EXCEPT ![r] = "idle"]
      /\ seen' = [seen EXCEPT ![r] = NoRun]
      /\ outcome' = [outcome EXCEPT ![r] = "none"]
      /\ UNCHANGED <<jobTask, jobAgent>>
  BY DEF Settle
<1>2. JobTypes'
  BY <1>1 DEF TInv, TypeOK, JobTypes
<1>3. /\ bg'[r] = s /\ pc'[r] = "idle"
      /\ \A q \in Runs \ {r} : bg'[q] = bg[q] /\ pc'[q] = pc[q]
  BY <1>1 DEF TInv, TypeOK
<1>4. Jobs'
  BY <1>1, <1>3 DEF TInv, Jobs
<1> QED
  BY <1>1, <1>2, <1>3, <1>4

LEMMA ThrowsEffect ==
  ASSUME TInv, NEW r \in Runs, bg[r] # "free", Throws(r)
  PROVE  /\ JobTypes' /\ Jobs'
         /\ bg'[r] \in {"pending", "settled"} /\ pc'[r] = "idle"
         /\ \A q \in Runs \ {r} : bg'[q] = bg[q] /\ pc'[q] = pc[q]
         /\ UNCHANGED <<jobTask, jobAgent>>
<1>1. retries' \in [Runs -> 0..MaxRetries]
  BY CheckoutAssumption DEF Throws, TInv, TypeOK
<1> QED
  BY <1>1, SettleEffect DEF Throws

LEMMA SkipsEffect ==
  ASSUME TInv, NEW r \in Runs, bg[r] # "free", Skips(r)
  PROVE  /\ JobTypes' /\ Jobs'
         /\ bg'[r] = "settled" /\ pc'[r] = "idle"
         /\ \A q \in Runs \ {r} : bg'[q] = bg[q] /\ pc'[q] = pc[q]
         /\ UNCHANGED <<jobTask, jobAgent>>
<1>1. retries' \in [Runs -> 0..MaxRetries]
  BY DEF Skips, TInv, TypeOK
<1> QED
  BY <1>1, SettleEffect DEF Skips

LEMMA GotoEffect ==
  ASSUME TInv, NEW r \in Runs, NEW step \in Steps, pc[r] # "idle", Goto(r, step),
         seen' \in [Runs -> Runs \union {NoRun}],
         outcome' \in [Runs -> Outcomes \union {"none"}]
  PROVE  /\ JobTypes' /\ Jobs'
         /\ pc'[r] = step
         /\ \A q \in Runs \ {r} : pc'[q] = pc[q]
         /\ UNCHANGED <<bg, jobTask, jobAgent>>
<1>1. pc \in [Runs -> Steps \union {"idle"}] /\ step # "idle"
  BY DEF TInv, TypeOK, Steps
<1>2. JobTypes'
  BY <1>1 DEF TInv, TypeOK, JobTypes, Goto
<1>3. Jobs'
  BY <1>1 DEF TInv, Jobs, Goto
<1> QED
  BY <1>1, <1>2, <1>3 DEF Goto

\* Sending a message at the end of a handler.
LEMMA DispatchEffect ==
  ASSUME TInv, NEW t \in Tasks, assignee' \in [Tasks -> Agents \union {NoAgent}],
         DispatchIfReady(t)
  PROVE  /\ queue' \subseteq Tasks \X Agents
         /\ wants' \in [Tasks -> Nat]
         /\ faults' \in 0..MaxFaults
         /\ \A m \in queue' : m \in queue \/ m = <<t, assignee'[t]>>
  BY CheckoutAssumption DEF TInv, TypeOK, DispatchIfReady, Dispatchable

-----------------------------------------------------------------------------
(* Types *)

\* The conjuncts of TypeOK that the helpers above say nothing of.
RowTypes ==
  /\ status \in [Tasks -> TaskStatuses]
  /\ assignee \in [Tasks -> Agents \union {NoAgent}]
  /\ checkout \in [Tasks -> Runs \union {NoRun}]
  /\ queue \subseteq Tasks \X Agents
  /\ agentRun \in [Runs -> {"none", "running", "completed", "failed"}]
  /\ taskRun \in [Runs -> {"none", "open", "closed"}]

OtherTypes ==
  /\ reaper \in [at : {"idle", "check", "release", "free"},
                 task : Tasks \union {NoTask}, run : Runs \union {NoRun}]
  /\ clicks \subseteq Clicks
  /\ wants \in [Tasks -> Nat]
  /\ starts \in [Tasks -> Nat]
  /\ edits \in 0..MaxEdits
  /\ faults \in 0..MaxFaults

LEMMA TypeParts == TypeOK <=> JobTypes /\ RowTypes /\ OtherTypes
  BY DEF TypeOK, JobTypes, RowTypes, OtherTypes

LEMMA StatusFacts ==
  /\ EntryStatuses \subseteq TaskStatuses
  /\ {"todo", "backlog", "in_progress"} \subseteq TaskStatuses
  BY DEF EntryStatuses, TaskStatuses

LEMMA InitTypes == Init => TInv
<1> SUFFICES ASSUME Init PROVE TInv
  OBVIOUS
<1>1. JobTypes
  BY CheckoutAssumption DEF Init, JobTypes
<1>2. RowTypes
  BY CheckoutAssumption DEF Init, RowTypes, TaskStatuses, StartsOnCreate
<1>3. OtherTypes
  BY CheckoutAssumption DEF Init, OtherTypes, ReaperIdle
<1>4. Jobs
  BY DEF Init, Jobs
<1> QED
  BY <1>1, <1>2, <1>3, <1>4, TypeParts DEF TInv

\* People, and the two handlers that read the row before they write it.
LEMMA PeopleTypes == TInv /\ People => TInv'
<1> SUFFICES ASSUME TInv, People PROVE TInv'
  OBVIOUS
<1>1. JobTypes /\ RowTypes /\ OtherTypes /\ Jobs
  BY TypeParts DEF TInv
<1>2. UNCHANGED jobVars
  BY DEF People, EditTask, RunNow, RunNowFlip, PersonReads, PersonReleases
<1>3. JobTypes' /\ Jobs'
  BY <1>1, <1>2 DEF JobTypes, Jobs, jobVars
<1>4. ASSUME NEW t \in Tasks, NEW s \in TaskStatuses,
             NEW a \in Agents \union {NoAgent}, EditTask(t, s, a)
      PROVE  RowTypes' /\ OtherTypes'
  <2>1. assignee' \in [Tasks -> Agents \union {NoAgent}]
    BY <1>1, <1>4 DEF RowTypes, EditTask
  <2>2. /\ queue' \subseteq Tasks \X Agents
        /\ wants' \in [Tasks -> Nat]
        /\ faults' \in 0..MaxFaults
    BY <1>4, <2>1, DispatchEffect DEF EditTask
  <2>3. RowTypes'
    BY <1>1, <1>4, <2>1, <2>2 DEF RowTypes, EditTask, rowVars
  <2>4. OtherTypes'
    BY <1>1, <1>4, <2>2, CheckoutAssumption DEF OtherTypes, EditTask, PersonActs
  <2> QED
    BY <2>3, <2>4
<1>5. ASSUME NEW t \in Tasks, RunNow(t)
      PROVE  RowTypes' /\ OtherTypes'
  <2>1. assignee' \in [Tasks -> Agents \union {NoAgent}]
    BY <1>1, <1>5 DEF RowTypes, RunNow, taskVars
  <2>2. /\ queue' \subseteq Tasks \X Agents
        /\ wants' \in [Tasks -> Nat]
        /\ faults' \in 0..MaxFaults
    <3>1. CASE status[t] \in EntryStatuses
      BY <1>5, <2>1, <3>1, DispatchEffect DEF RunNow
    <3>2. CASE status[t] \notin EntryStatuses
      BY <1>1, <1>5, <3>2 DEF RunNow, RowTypes, OtherTypes
    <3> QED
      BY <3>1, <3>2
  <2>3. RowTypes'
    BY <1>1, <1>5, <2>2 DEF RowTypes, RunNow, taskVars, rowVars
  <2>4. clicks' \subseteq Clicks
    BY <1>1, <1>5 DEF OtherTypes, RunNow, Clicks
  <2>5. OtherTypes'
    BY <1>1, <1>5, <2>2, <2>4, CheckoutAssumption DEF OtherTypes, RunNow, PersonActs
  <2> QED
    BY <2>3, <2>5
<1>6. ASSUME NEW t \in Tasks, PersonReads(t)
      PROVE  RowTypes' /\ OtherTypes'
  <2>1. clicks' \subseteq Clicks
    BY <1>1, <1>6 DEF RowTypes, OtherTypes, PersonReads, Clicks
  <2>2. RowTypes'
    BY <1>1, <1>6 DEF RowTypes, PersonReads, taskVars, rowVars
  <2>3. OtherTypes'
    BY <1>1, <1>6, <2>1, CheckoutAssumption DEF OtherTypes, PersonReads, PersonActs
  <2> QED
    BY <2>2, <2>3
<1>7. ASSUME NEW c \in clicks, RunNowFlip(c)
      PROVE  RowTypes' /\ OtherTypes'
  <2>1. PICK t \in Tasks : t = c.task
    BY <1>1 DEF OtherTypes, Clicks
  <2>2. assignee' \in [Tasks -> Agents \union {NoAgent}]
    BY <1>1, <1>7 DEF RowTypes, RunNowFlip
  <2>3. /\ queue' \subseteq Tasks \X Agents
        /\ wants' \in [Tasks -> Nat]
        /\ faults' \in 0..MaxFaults
    BY <1>7, <2>1, <2>2, DispatchEffect DEF RunNowFlip
  <2>4. RowTypes'
    BY <1>1, <1>7, <2>2, <2>3, StatusFacts DEF RowTypes, RunNowFlip, rowVars
  <2>5. OtherTypes'
    BY <1>1, <1>7, <2>3 DEF OtherTypes, RunNowFlip
  <2> QED
    BY <2>4, <2>5
<1>8. ASSUME NEW c \in clicks, PersonReleases(c)
      PROVE  RowTypes' /\ OtherTypes'
  <2>1. RowTypes'
    BY <1>1, <1>8, StatusFacts DEF RowTypes, PersonReleases
  <2>2. OtherTypes'
    BY <1>1, <1>8 DEF OtherTypes, PersonReleases
  <2> QED
    BY <2>1, <2>2
<1>9. RowTypes' /\ OtherTypes'
  BY <1>4, <1>5, <1>6, <1>7, <1>8 DEF People
<1> QED
  BY <1>3, <1>9 DEF TInv, TypeOK, JobTypes, RowTypes, OtherTypes

\* The dispatch consumer and the task manager, without failures.
LEMMA DeliverTypes ==
  ASSUME TInv,
         \/ \E t \in Tasks : Deliver(t)
         \/ \E r \in Runs : StartJob(r)
  PROVE  TInv'
<1>1. JobTypes /\ RowTypes /\ OtherTypes /\ Jobs
  BY TypeParts DEF TInv
<1>2. ASSUME NEW t \in Tasks, NEW a \in Agents, NEW r \in Runs,
             DeliverToSuspended(t, a, r)
      PROVE  TInv'
  <2>1. bg[r] = "suspended"
    BY <1>2 DEF DeliverToSuspended, SuspendedFor
  <2>2. JobTypes' /\ Jobs'
    BY <1>1, <1>2, <2>1 DEF JobTypes, Jobs, DeliverToSuspended
  <2>3. queue' \subseteq Tasks \X Agents
    BY <1>1, <1>2 DEF RowTypes, DeliverToSuspended, Acked
  <2>4. RowTypes'
    BY <1>1, <1>2, <2>3 DEF RowTypes, DeliverToSuspended, taskVars, rowVars
  <2>5. OtherTypes'
    BY <1>1, <1>2 DEF OtherTypes, DeliverToSuspended, peopleVars
  <2> QED
    BY <2>2, <2>4, <2>5 DEF TInv, TypeOK, JobTypes, RowTypes, OtherTypes
<1>3. ASSUME NEW t \in Tasks, NEW a \in Agents, NEW r \in Runs,
             DeliverFresh(t, a, r)
      PROVE  TInv'
  <2>1. JobTypes' /\ Jobs'
    BY <1>1, <1>3 DEF JobTypes, Jobs, DeliverFresh
  <2>2. queue' \subseteq Tasks \X Agents
    BY <1>1, <1>3 DEF RowTypes, DeliverFresh, Acked
  <2>3. RowTypes'
    BY <1>1, <1>3, <2>2 DEF RowTypes, DeliverFresh, taskVars, rowVars
  <2>4. faults' \in 0..MaxFaults
    BY <1>1, <1>3, CheckoutAssumption DEF OtherTypes, DeliverFresh
  <2>5. OtherTypes'
    BY <1>1, <1>3, <2>4 DEF OtherTypes, DeliverFresh, peopleVars
  <2> QED
    BY <2>1, <2>3, <2>5 DEF TInv, TypeOK, JobTypes, RowTypes, OtherTypes
<1>4. ASSUME NEW r \in Runs, StartJob(r)
      PROVE  TInv'
  <2>1. JobTypes' /\ Jobs'
    BY <1>1, <1>4 DEF JobTypes, Jobs, StartJob, Steps
  <2>2. RowTypes'
    BY <1>1, <1>4 DEF RowTypes, StartJob, taskVars, rowVars
  <2>3. OtherTypes'
    BY <1>1, <1>4 DEF OtherTypes, StartJob, peopleVars
  <2> QED
    BY <2>1, <2>2, <2>3 DEF TInv, TypeOK, JobTypes, RowTypes, OtherTypes
<1> QED
  BY <1>2, <1>3, <1>4 DEF Deliver

\* Failures.
LEMMA FailureTypes ==
  ASSUME TInv, (\E r \in Runs : StepFails(r)) \/ Crash
  PROVE  TInv'
<1>1. JobTypes /\ RowTypes /\ OtherTypes /\ Jobs
  BY TypeParts DEF TInv
<1>2. ASSUME NEW r \in Runs, StepFails(r)
      PROVE  TInv'
  <2>1. JobTypes' /\ Jobs'
    BY <1>2, ThrowsEffect DEF StepFails
  <2>2. RowTypes'
    BY <1>1, <1>2 DEF RowTypes, StepFails, taskVars, rowVars
  <2>3. OtherTypes'
    BY <1>1, <1>2, CheckoutAssumption DEF OtherTypes, StepFails, peopleVars
  <2> QED
    BY <2>1, <2>2, <2>3 DEF TInv, TypeOK, JobTypes, RowTypes, OtherTypes
<1>3. ASSUME Crash
      PROVE  TInv'
  <2>1. bg' \in [Runs -> {"free", "pending", "running", "suspended", "settled"}]
    BY <1>1, <1>3 DEF JobTypes, Crash
  <2>2. retries' \in [Runs -> 0..MaxRetries]
    BY <1>1, <1>3, CheckoutAssumption DEF JobTypes, Crash
  <2>3. JobTypes'
    BY <1>1, <1>3, <2>1, <2>2 DEF JobTypes, Crash
  <2>4. Jobs'
    BY <1>1, <1>3 DEF Jobs, Crash
  <2>5. agentRun' \in [Runs -> {"none", "running", "completed", "failed"}]
    BY <1>1, <1>3 DEF RowTypes, Crash
  <2>6. RowTypes'
    BY <1>1, <1>3, <2>5 DEF RowTypes, Crash, taskVars
  <2>7. OtherTypes'
    BY <1>1, <1>3, CheckoutAssumption DEF OtherTypes, Crash, peopleVars
  <2> QED
    BY <2>3, <2>4, <2>6, <2>7 DEF TInv, TypeOK, JobTypes, RowTypes, OtherTypes
<1> QED
  BY <1>2, <1>3

\* While the reaper is busy it has a task at hand.
Listed == reaper.at # "idle" => reaper.task \in Tasks

LEMMA ReaperTypes == ASSUME TInv, Listed, Reaper PROVE TInv' /\ Listed'
<1>1. JobTypes /\ RowTypes /\ OtherTypes /\ Jobs
  BY TypeParts DEF TInv
<1>2. UNCHANGED jobVars
  BY DEF Reaper, ReaperLists, ReaperChecks, ReaperReads, ReaperReleases
<1>3. JobTypes' /\ Jobs'
  BY <1>1, <1>2 DEF JobTypes, Jobs, jobVars
<1> DEFINE Reapers == [at : {"idle", "check", "release", "free"},
                       task : Tasks \union {NoTask}, run : Runs \union {NoRun}]
<1>4. reaper \in Reapers /\ ReaperIdle \in Reapers
  BY <1>1 DEF OtherTypes, ReaperIdle
<1>5. ASSUME NEW t \in Tasks, ReaperLists(t)
      PROVE  RowTypes' /\ OtherTypes' /\ Listed'
  <2>1. checkout[t] \in Runs
    BY <1>1, <1>5 DEF RowTypes, ReaperLists
  <2>2. reaper' \in Reapers /\ Listed'
    BY <1>5, <2>1 DEF ReaperLists, Listed
  <2>3. RowTypes' /\ OtherTypes'
    BY <1>1, <1>5, <2>2
    DEF RowTypes, OtherTypes, ReaperLists, taskVars, rowVars, peopleVars
  <2> QED
    BY <2>2, <2>3
<1>6. ASSUME ReaperChecks
      PROVE  RowTypes' /\ OtherTypes' /\ Listed'
  <2>1. reaper' \in Reapers /\ faults' \in 0..MaxFaults
    BY <1>1, <1>4, <1>6, CheckoutAssumption DEF OtherTypes, ReaperChecks
  <2>2. RowTypes' /\ OtherTypes'
    BY <1>1, <1>6, <2>1
    DEF RowTypes, OtherTypes, ReaperChecks, taskVars, rowVars, peopleVars
  <2>3. Listed'
    BY <1>4, <1>6 DEF Listed, ReaperChecks, ReaperIdle
  <2> QED
    BY <2>2, <2>3
<1>7. ASSUME ReaperReads
      PROVE  RowTypes' /\ OtherTypes' /\ Listed'
  <2>1. PICK t \in Tasks : t = reaper.task
    BY <1>7 DEF Listed, ReaperReads
  <2>2. /\ queue' \subseteq Tasks \X Agents
        /\ wants' \in [Tasks -> Nat]
        /\ faults' \in 0..MaxFaults
    <3>1. assignee' \in [Tasks -> Agents \union {NoAgent}]
      BY <1>1, <1>7 DEF RowTypes, ReaperReads, taskVars
    <3>2. CASE checkout[t] = NoRun
      <4>1. DispatchIfReady(t)
        BY <1>7, <2>1, <3>2 DEF ReaperReads
      <4> QED
        BY <3>1, <4>1, DispatchEffect
    <3>3. CASE checkout[t] # NoRun
      BY <1>1, <1>7, <2>1, <3>3 DEF ReaperReads, RowTypes, OtherTypes
    <3> QED
      BY <3>2, <3>3
  <2>3. reaper' \in Reapers /\ Listed'
    BY <1>1, <1>4, <1>7, <2>1 DEF ReaperReads, Listed, ReaperIdle, RowTypes
  <2>4. RowTypes' /\ OtherTypes'
    BY <1>1, <1>7, <2>2, <2>3 DEF RowTypes, OtherTypes, ReaperReads, taskVars, rowVars
  <2> QED
    BY <2>3, <2>4
<1>8. ASSUME ReaperReleases
      PROVE  RowTypes' /\ OtherTypes' /\ Listed'
  <2>1. PICK t \in Tasks : t = reaper.task
    BY <1>8 DEF Listed, ReaperReleases
  <2>2. /\ queue' \subseteq Tasks \X Agents
        /\ wants' \in [Tasks -> Nat]
        /\ faults' \in 0..MaxFaults
    <3>1. assignee' \in [Tasks -> Agents \union {NoAgent}]
      BY <1>1, <1>8 DEF RowTypes, ReaperReleases
    <3>2. DispatchIfReady(t)
      BY <1>8, <2>1 DEF ReaperReleases
    <3> QED
      BY <3>1, <3>2, DispatchEffect
  <2>3. reaper' \in Reapers /\ Listed'
    BY <1>4, <1>8 DEF ReaperReleases, Listed, ReaperIdle
  <2>4. /\ status' \in [Tasks -> TaskStatuses]
        /\ checkout' \in [Tasks -> Runs \union {NoRun}]
        /\ taskRun' \in [Runs -> {"none", "open", "closed"}]
    BY <1>1, <1>8, StatusFacts DEF RowTypes, ReaperReleases
  <2>5. RowTypes' /\ OtherTypes'
    BY <1>1, <1>8, <2>2, <2>3, <2>4 DEF RowTypes, OtherTypes, ReaperReleases
  <2> QED
    BY <2>3, <2>5
<1>9. RowTypes' /\ OtherTypes' /\ Listed'
  BY <1>5, <1>6, <1>7, <1>8 DEF Reaper
<1> QED
  BY <1>3, <1>9 DEF TInv, TypeOK, JobTypes, RowTypes, OtherTypes

\* The row checkout writes.
LEMMA ClaimedEffect ==
  ASSUME TInv, NEW r \in Runs, pc[r] # "idle", Claimed(r)
  PROVE  /\ JobTypes' /\ Jobs'
         /\ status' \in [Tasks -> TaskStatuses]
         /\ assignee' \in [Tasks -> Agents \union {NoAgent}]
         /\ checkout' \in [Tasks -> Runs \union {NoRun}]
         /\ pc'[r] = "record" /\ checkout'[jobTask[r]] = r
         /\ \A t \in Tasks \ {jobTask[r]} :
              checkout'[t] = checkout[t] /\ assignee'[t] = assignee[t]
         /\ \A q \in Runs \ {r} : pc'[q] = pc[q]
         /\ UNCHANGED <<bg, jobTask, jobAgent>>
<1>1. JobTypes /\ RowTypes /\ Jobs
  BY TypeParts DEF TInv
<1>2. jobTask[r] \in Tasks /\ jobAgent[r] \in Agents
  BY <1>1 DEF Jobs
<1>3. /\ seen' \in [Runs -> Runs \union {NoRun}]
      /\ outcome' \in [Runs -> Outcomes \union {"none"}]
      /\ Goto(r, "record")
  BY <1>1 DEF Claimed, JobTypes
<1>4. /\ JobTypes' /\ Jobs'
      /\ pc'[r] = "record"
      /\ \A q \in Runs \ {r} : pc'[q] = pc[q]
      /\ UNCHANGED <<bg, jobTask, jobAgent>>
  BY <1>3, GotoEffect DEF Steps
<1>5. /\ status' \in [Tasks -> TaskStatuses]
      /\ assignee' \in [Tasks -> Agents \union {NoAgent}]
      /\ checkout' \in [Tasks -> Runs \union {NoRun}]
      /\ checkout'[jobTask[r]] = r
      /\ \A t \in Tasks \ {jobTask[r]} :
           checkout'[t] = checkout[t] /\ assignee'[t] = assignee[t]
  BY <1>1, <1>2, StatusFacts DEF RowTypes, Claimed
<1> QED
  BY <1>4, <1>5

\* One step of the pipeline.
LEMMA PipelineTypes ==
  ASSUME TInv, NEW r \in Runs, PipelineStep(r)
  PROVE  TInv'
<1>1. JobTypes /\ RowTypes /\ OtherTypes /\ Jobs
  BY TypeParts DEF TInv
<1>2. pc[r] # "idle" /\ bg[r] = "running" /\ bg[r] # "free"
  <2>1. pc[r] \in Steps
    BY DEF PipelineStep, ReadForCheckout, JudgeHolder, Claim, ReplaceStale, RecordRun,
           Register, StartSpecialist, EndSpecialist, ReadForRelease, Release,
           Park, Finish, At, Steps
  <2> QED
    BY <1>1, <2>1 DEF Jobs, Steps
<1>3. jobTask[r] \in Tasks /\ jobAgent[r] \in Agents
  BY <1>1, <1>2 DEF Jobs
<1>4. /\ seen \in [Runs -> Runs \union {NoRun}]
      /\ outcome \in [Runs -> Outcomes \union {"none"}]
      /\ status \in [Tasks -> TaskStatuses]
      /\ checkout \in [Tasks -> Runs \union {NoRun}]
      /\ agentRun \in [Runs -> {"none", "running", "completed", "failed"}]
      /\ taskRun \in [Runs -> {"none", "open", "closed"}]
      /\ starts \in [Tasks -> Nat]
  BY <1>1 DEF JobTypes, RowTypes, OtherTypes
<1> DEFINE Advances == JobTypes' /\ Jobs'
<1>5. CASE ReadForCheckout(r)
  <2>1. seen' \in [Runs -> Runs \union {NoRun}]
    BY <1>3, <1>4, <1>5 DEF ReadForCheckout
  <2>2. PICK step \in Steps : Goto(r, step)
    BY <1>5 DEF ReadForCheckout, Steps
  <2>3. Advances
    BY <1>2, <1>4, <1>5, <2>1, <2>2, GotoEffect DEF ReadForCheckout
  <2>4. RowTypes' /\ OtherTypes'
    BY <1>1, <1>5 DEF RowTypes, OtherTypes, ReadForCheckout, taskVars, rowVars, peopleVars
  <2> QED
    BY <2>3, <2>4 DEF TInv, TypeOK, JobTypes, RowTypes, OtherTypes
<1>6. CASE JudgeHolder(r)
  <2>1. Advances
    <3>1. CASE Skips(r)
      BY <1>2, <3>1, SkipsEffect
    <3>2. CASE Goto(r, "replace") /\ UNCHANGED <<seen, outcome>>
      BY <1>2, <1>4, <3>2, GotoEffect DEF Steps
    <3> QED
      BY <1>6, <3>1, <3>2 DEF JudgeHolder
  <2>2. RowTypes' /\ OtherTypes'
    BY <1>1, <1>6 DEF RowTypes, OtherTypes, JudgeHolder, taskVars, rowVars, peopleVars
  <2> QED
    BY <2>1, <2>2 DEF TInv, TypeOK, JobTypes, RowTypes, OtherTypes
<1>7. CASE Claim(r) \/ ReplaceStale(r)
  <2>1. /\ Advances
        /\ status' \in [Tasks -> TaskStatuses]
        /\ assignee' \in [Tasks -> Agents \union {NoAgent}]
        /\ checkout' \in [Tasks -> Runs \union {NoRun}]
    <3>1. CASE Claimed(r)
      BY <1>2, <3>1, ClaimedEffect
    <3>2. CASE Skips(r) /\ UNCHANGED taskVars
      <4>1. Advances
        BY <1>2, <3>2, SkipsEffect
      <4> QED
        BY <1>1, <3>2, <4>1 DEF RowTypes, taskVars
    <3> QED
      BY <1>7, <3>1, <3>2 DEF Claim, ReplaceStale
  <2>2. UNCHANGED <<queue, rowVars, reaper, peopleVars, starts, faults>>
    BY <1>7 DEF Claim, ReplaceStale
  <2>3. RowTypes' /\ OtherTypes'
    BY <1>1, <2>1, <2>2 DEF RowTypes, OtherTypes, rowVars, peopleVars
  <2> QED
    BY <2>1, <2>3 DEF TInv, TypeOK, JobTypes, RowTypes, OtherTypes
<1>8. CASE RecordRun(r)
  <2>1. Advances
    BY <1>2, <1>4, <1>8, GotoEffect DEF RecordRun, Steps
  <2>2. RowTypes' /\ OtherTypes'
    BY <1>1, <1>8 DEF RowTypes, OtherTypes, RecordRun, taskVars, peopleVars
  <2> QED
    BY <2>1, <2>2 DEF TInv, TypeOK, JobTypes, RowTypes, OtherTypes
<1>9. CASE Register(r)
  <2>1. Advances
    BY <1>2, <1>4, <1>9, GotoEffect DEF Register, Steps
  <2>2. RowTypes'
    BY <1>1, <1>9 DEF RowTypes, Register, EnsureAgentRun, taskVars
  <2>3. OtherTypes'
    BY <1>1, <1>9, CheckoutAssumption DEF OtherTypes, Register, peopleVars
  <2> QED
    BY <2>1, <2>2, <2>3 DEF TInv, TypeOK, JobTypes, RowTypes, OtherTypes
<1>10. CASE StartSpecialist(r)
  <2>1. Advances
    BY <1>2, <1>4, <1>10, GotoEffect DEF StartSpecialist, Steps
  <2>2. RowTypes'
    BY <1>1, <1>10 DEF RowTypes, StartSpecialist, EnsureAgentRun, taskVars
  <2>3. OtherTypes'
    BY <1>1, <1>3, <1>10 DEF OtherTypes, StartSpecialist, peopleVars
  <2> QED
    BY <2>1, <2>2, <2>3 DEF TInv, TypeOK, JobTypes, RowTypes, OtherTypes
<1>11. ASSUME NEW o \in Outcomes, EndSpecialist(r, o)
       PROVE  TInv'
  <2>1. outcome' \in [Runs -> Outcomes \union {"none"}]
    BY <1>4, <1>11 DEF EndSpecialist
  <2>2. Advances
    BY <1>2, <1>4, <1>11, <2>1, GotoEffect DEF EndSpecialist, Steps
  <2>3. RowTypes'
    BY <1>1, <1>11 DEF RowTypes, EndSpecialist, FinishAgentRun, taskVars
  <2>4. OtherTypes'
    BY <1>1, <1>11 DEF OtherTypes, EndSpecialist, peopleVars
  <2> QED
    BY <2>2, <2>3, <2>4 DEF TInv, TypeOK, JobTypes, RowTypes, OtherTypes
<1>12. CASE ReadForRelease(r)
  <2>1. Advances
    <3>1. CASE Throws(r)
      BY <1>2, <3>1, ThrowsEffect
    <3>2. ASSUME NEW step \in Steps, Goto(r, step), UNCHANGED <<seen, outcome>>
          PROVE  Advances
      BY <1>2, <1>4, <3>2, GotoEffect
    <3> QED
      BY <1>12, <3>1, <3>2 DEF ReadForRelease, Steps
  <2>2. RowTypes' /\ OtherTypes'
    BY <1>1, <1>12
    DEF RowTypes, OtherTypes, ReadForRelease, taskVars, rowVars, peopleVars
  <2> QED
    BY <2>1, <2>2 DEF TInv, TypeOK, JobTypes, RowTypes, OtherTypes
<1>13. CASE Release(r)
  <2>1. Advances
    BY <1>2, <1>4, <1>13, GotoEffect DEF Release, Steps
  <2>2. RowTypes'
    BY <1>1, <1>13, StatusFacts DEF RowTypes, Release
  <2>3. OtherTypes'
    BY <1>1, <1>13 DEF OtherTypes, Release, peopleVars
  <2> QED
    BY <2>1, <2>2, <2>3 DEF TInv, TypeOK, JobTypes, RowTypes, OtherTypes
<1>14. ASSUME NEW s \in TaskStatuses, Park(r, s)
       PROVE  TInv'
  <2>1. Advances
    BY <1>2, <1>4, <1>14, GotoEffect DEF Park, Steps
  <2>2. RowTypes'
    BY <1>1, <1>14 DEF RowTypes, Park, rowVars
  <2>3. OtherTypes'
    BY <1>1, <1>14 DEF OtherTypes, Park, peopleVars
  <2> QED
    BY <2>1, <2>2, <2>3 DEF TInv, TypeOK, JobTypes, RowTypes, OtherTypes
<1>15. CASE Finish(r)
  <2>1. PICK s \in {"suspended", "settled"} : Settle(r, s)
    BY <1>15 DEF Finish
  <2>2. retries' \in [Runs -> 0..MaxRetries]
    BY <1>1, <1>15 DEF Finish, JobTypes
  <2>3. Advances
    BY <1>2, <2>1, <2>2, SettleEffect
  <2>4. RowTypes'
    BY <1>1, <1>15 DEF RowTypes, Finish, FinishAgentRun, taskVars
  <2>5. OtherTypes'
    BY <1>1, <1>15 DEF OtherTypes, Finish, peopleVars
  <2> QED
    BY <2>3, <2>4, <2>5 DEF TInv, TypeOK, JobTypes, RowTypes, OtherTypes
<1> QED
  BY <1>5, <1>6, <1>7, <1>8, <1>9, <1>10, <1>11, <1>12, <1>13, <1>14, <1>15
  DEF PipelineStep

LEMMA TypesInductive == TInv /\ Listed /\ [Next]_vars => TInv' /\ Listed'
<1> SUFFICES ASSUME TInv, Listed, [Next]_vars
             PROVE  TInv' /\ Listed'
  OBVIOUS
<1>1. CASE Reaper
  BY <1>1, ReaperTypes
<1>2. CASE UNCHANGED vars
  <2>1. UNCHANGED <<status, assignee, checkout, queue, bg, jobTask, jobAgent,
                    retries, pc, seen, outcome, agentRun, taskRun, reaper,
                    clicks, wants, starts, edits, faults>>
    BY <1>2 DEF vars, taskVars, jobVars, rowVars, peopleVars
  <2>2. TypeOK'
    BY <2>1 DEF TInv, TypeOK
  <2>3. Jobs' /\ Listed'
    BY <2>1 DEF TInv, Jobs, Listed
  <2> QED
    BY <2>2, <2>3 DEF TInv
<1>3. CASE Next /\ ~Reaper
  <2>1. TInv'
    BY <1>3, PeopleTypes, DeliverTypes, FailureTypes, PipelineTypes DEF Next
  <2>2. UNCHANGED reaper
    BY <1>3
    DEF Next, People, EditTask, RunNow, RunNowFlip, PersonReads, PersonReleases, Deliver,
        DeliverToSuspended, DeliverFresh, StartJob, StepFails, Crash,
        PipelineStep, ReadForCheckout, JudgeHolder, Claim, ReplaceStale, RecordRun,
        Register, StartSpecialist, EndSpecialist, ReadForRelease, Release,
        Park, Finish
  <2> QED
    BY <2>1, <2>2 DEF Listed
<1> QED
  BY <1>1, <1>2, <1>3

\* Every variable keeps its type: run rows, job record and task row always hold
\* values the code can write, the counters stay within their bounds, and every
\* job that is not free names its task and its agent.
THEOREM TypeCorrect == Spec => [](TypeOK /\ Jobs)
<1>1. Init => TInv /\ Listed
  BY InitTypes DEF Init, Listed, ReaperIdle
<1>2. TInv /\ Listed => TypeOK /\ Jobs
  BY DEF TInv
<1> QED
  BY <1>1, <1>2, TypesInductive, PTL DEF Spec

-----------------------------------------------------------------------------
(* A run that has reported holds nothing, whatever everybody else does *)

\* A run only comes to hold a task by its own claim, and a claiming run is
\* executing a step before the specialist.
Silent(r) == pc[r] \in {"park", "finish"} \/ bg[r] = "suspended"

LEMMA ReportedAlt ==
  ReportedRunHoldsNothing <=> \A r \in Runs : Silent(r) => checkout[jobTask[r]] # r
  BY DEF ReportedRunHoldsNothing, Silent

\* A step that moves no job into a silent state and hands out no checkout.
LEMMA QuietStep ==
  ASSUME ReportedRunHoldsNothing,
         \A q \in Runs : Silent(q)' => Silent(q) /\ jobTask'[q] = jobTask[q]
                                       /\ jobTask[q] \in Tasks,
         \A t \in Tasks : checkout'[t] \in {checkout[t], NoRun}
  PROVE  ReportedRunHoldsNothing'
<1>1. SUFFICES ASSUME NEW q \in Runs, Silent(q)'
               PROVE  checkout'[jobTask'[q]] # q
  BY DEF ReportedRunHoldsNothing, Silent
<1>2. Silent(q) /\ jobTask'[q] = jobTask[q] /\ jobTask[q] \in Tasks
  BY <1>1
<1>3. checkout[jobTask[q]] # q
  BY <1>2, ReportedAlt
<1>4. checkout'[jobTask[q]] \in {checkout[jobTask[q]], NoRun}
  BY <1>2
<1>5. q # NoRun
  BY RunsFacts
<1> QED
  BY <1>2, <1>3, <1>4, <1>5

LEMMA SilentHasTask == TInv => \A q \in Runs : Silent(q) => jobTask[q] \in Tasks
  BY DEF TInv, Jobs, Silent

\* A step of run r alone, which leaves it silent only if it holds nothing.
LEMMA OwnStep ==
  ASSUME TInv, ReportedRunHoldsNothing, NEW r \in Runs, bg[r] = "running",
         \A q \in Runs \ {r} : bg'[q] = bg[q] /\ pc'[q] = pc[q],
         UNCHANGED jobTask,
         \A t \in Tasks : checkout'[t] \in {checkout[t], NoRun, r},
         Silent(r)' => checkout'[jobTask[r]] # r
  PROVE  ReportedRunHoldsNothing'
<1>1. \A q \in Runs \ {r} : Silent(q)' => Silent(q) /\ jobTask[q] \in Tasks
  BY SilentHasTask DEF Silent
<1> QED
  BY <1>1, RunsFacts, ReportedAlt DEF ReportedRunHoldsNothing, Silent

LEMMA PipelineReports ==
  ASSUME TInv, ReportedRunHoldsNothing, NEW r \in Runs, PipelineStep(r)
  PROVE  ReportedRunHoldsNothing'
<1>1. JobTypes /\ RowTypes /\ Jobs
  BY TypeParts DEF TInv
<1>2. pc[r] # "idle" /\ bg[r] = "running" /\ bg[r] # "free"
  <2>1. pc[r] \in Steps
    BY DEF PipelineStep, ReadForCheckout, JudgeHolder, Claim, ReplaceStale, RecordRun,
           Register, StartSpecialist, EndSpecialist, ReadForRelease, Release,
           Park, Finish, At, Steps
  <2> QED
    BY <1>1, <2>1 DEF Jobs, Steps
<1>3. jobTask[r] \in Tasks
  BY <1>1, <1>2 DEF Jobs
<1>4. /\ pc \in [Runs -> Steps \union {"idle"}]
      /\ bg \in [Runs -> {"free", "pending", "running", "suspended", "settled"}]
      /\ checkout \in [Tasks -> Runs \union {NoRun}]
  BY <1>1 DEF JobTypes, RowTypes
<1>5. CASE /\ UNCHANGED <<bg, jobTask, checkout>>
           /\ \E step \in Steps \ {"park", "finish"} : pc' = [pc EXCEPT ![r] = step]
  <2>1. \A q \in Runs \ {r} : bg'[q] = bg[q] /\ pc'[q] = pc[q]
    BY <1>4, <1>5
  <2>2. ~Silent(r)'
    BY <1>2, <1>4, <1>5 DEF Silent
  <2> QED
    BY <1>2, <1>5, <2>1, <2>2, OwnStep
<1>6. ASSUME Throws(r) \/ Skips(r), UNCHANGED checkout
      PROVE  ReportedRunHoldsNothing'
  <2>1. /\ bg'[r] \in {"pending", "settled"} /\ pc'[r] = "idle"
        /\ \A q \in Runs \ {r} : bg'[q] = bg[q] /\ pc'[q] = pc[q]
        /\ UNCHANGED jobTask
    BY <1>2, <1>6, ThrowsEffect, SkipsEffect
  <2>2. ~Silent(r)'
    BY <2>1 DEF Silent
  <2> QED
    BY <1>2, <1>6, <2>1, <2>2, OwnStep
<1>7. ASSUME Claimed(r)
      PROVE  ReportedRunHoldsNothing'
  <2>1. /\ pc'[r] = "record"
        /\ \A q \in Runs \ {r} : bg'[q] = bg[q] /\ pc'[q] = pc[q]
        /\ bg'[r] = "running"
        /\ UNCHANGED jobTask
    BY <1>2, <1>7, ClaimedEffect
  <2>2. ~Silent(r)'
    BY <2>1 DEF Silent
  <2>3. \A t \in Tasks : checkout'[t] \in {checkout[t], NoRun, r}
    BY <1>4, <1>7 DEF Claimed
  <2> QED
    BY <1>2, <2>1, <2>2, <2>3, OwnStep
<1>8. ASSUME ReadForCheckout(r) \/ JudgeHolder(r) \/ Claim(r) \/ ReplaceStale(r)
             \/ RecordRun(r) \/ Register(r) \/ StartSpecialist(r)
             \/ \E o \in Outcomes : EndSpecialist(r, o)
      PROVE  ReportedRunHoldsNothing'
  <2>1. CASE ReadForCheckout(r)
    <3>1. PICK step \in {"stale", "register", "claim"} : Goto(r, step)
      BY <2>1 DEF ReadForCheckout
    <3> QED
      BY <1>5, <2>1, <3>1 DEF ReadForCheckout, Goto, taskVars, Steps
  <2>2. CASE JudgeHolder(r)
    BY <1>5, <1>6, <2>2 DEF JudgeHolder, Goto, taskVars, Steps
  <2>3. CASE Claim(r) \/ ReplaceStale(r)
    BY <1>6, <1>7, <2>3 DEF Claim, ReplaceStale, taskVars
  <2>4. CASE RecordRun(r)
    BY <1>5, <2>4 DEF RecordRun, Goto, taskVars, Steps
  <2>5. CASE Register(r)
    BY <1>5, <2>5 DEF Register, Goto, taskVars, Steps
  <2>6. CASE StartSpecialist(r)
    BY <1>5, <2>6 DEF StartSpecialist, Goto, taskVars, Steps
  <2>7. CASE \E o \in Outcomes : EndSpecialist(r, o)
    BY <1>5, <2>7 DEF EndSpecialist, Goto, taskVars, Steps
  <2> QED
    BY <1>8, <2>1, <2>2, <2>3, <2>4, <2>5, <2>6, <2>7
<1>9. CASE ReadForRelease(r)
  <2>1. UNCHANGED checkout
    BY <1>9 DEF ReadForRelease, taskVars
  <2>2. CASE Throws(r)
    BY <1>6, <2>1, <2>2
  <2>3. CASE Goto(r, "free")
    BY <1>5, <2>1, <2>3 DEF Goto, Steps
  <2>4. CASE checkout[jobTask[r]] = NoRun /\ Goto(r, "park")
    <3>1. \A q \in Runs \ {r} : bg'[q] = bg[q] /\ pc'[q] = pc[q]
      BY <1>4, <2>4 DEF Goto
    <3>2. checkout'[jobTask[r]] # r /\ UNCHANGED jobTask
      BY <2>1, <2>4, RunsFacts DEF Goto
    <3> QED
      BY <1>2, <2>1, <3>1, <3>2, OwnStep
  <2> QED
    BY <1>9, <2>2, <2>3, <2>4 DEF ReadForRelease
<1>10. CASE Release(r)
  <2>1. \A q \in Runs \ {r} : bg'[q] = bg[q] /\ pc'[q] = pc[q]
    BY <1>4, <1>10 DEF Release, Goto
  <2>2. /\ \A t \in Tasks : checkout'[t] \in {checkout[t], NoRun, r}
        /\ checkout'[jobTask[r]] # r
        /\ UNCHANGED jobTask
    BY <1>3, <1>4, <1>10, RunsFacts DEF Release, Goto
  <2> QED
    BY <1>2, <2>1, <2>2, OwnStep
<1>11. CASE (\E s \in TaskStatuses : Park(r, s)) \/ Finish(r)
  <2>1. pc[r] \in {"park", "finish"} /\ UNCHANGED <<checkout, jobTask>>
    BY <1>11 DEF Park, Finish, Goto, Settle, At, taskVars
  <2>2. \A q \in Runs \ {r} : bg'[q] = bg[q] /\ pc'[q] = pc[q]
    BY <1>4, <1>11 DEF Park, Finish, Goto, Settle
  <2>3. checkout[jobTask[r]] # r
    BY <2>1 DEF ReportedRunHoldsNothing
  <2> QED
    BY <1>2, <2>1, <2>2, <2>3, OwnStep
<1> QED
  BY <1>8, <1>9, <1>10, <1>11 DEF PipelineStep

LEMMA OthersReport ==
  ASSUME TInv, Listed, ReportedRunHoldsNothing,
         People \/ (\E t \in Tasks : Deliver(t)) \/ (\E r \in Runs : StartJob(r))
         \/ (\E r \in Runs : StepFails(r)) \/ Crash \/ Reaper
  PROVE  ReportedRunHoldsNothing'
<1>1. JobTypes /\ RowTypes /\ Jobs
  BY TypeParts DEF TInv
<1>2. checkout \in [Tasks -> Runs \union {NoRun}]
  BY <1>1 DEF RowTypes
<1>3. CASE People \/ Reaper
  <2>1. UNCHANGED jobVars
    BY <1>3 DEF People, EditTask, RunNow, RunNowFlip, PersonReads, PersonReleases,
                Reaper, ReaperLists, ReaperChecks, ReaperReads, ReaperReleases
  <2>2. \A t \in Tasks : checkout'[t] \in {checkout[t], NoRun}
    BY <1>2, <1>3
    DEF People, EditTask, RunNow, RunNowFlip, PersonReads, PersonReleases, taskVars,
        Reaper, ReaperLists, ReaperChecks, ReaperReads, ReaperReleases
  <2>3. \A q \in Runs : Silent(q)' => Silent(q) /\ jobTask'[q] = jobTask[q]
    BY <2>1 DEF Silent, jobVars
  <2> QED
    BY <2>2, <2>3, QuietStep, SilentHasTask
<1>4. CASE \E t \in Tasks : Deliver(t)
  <2>1. \A q \in Runs : Silent(q)' => Silent(q) /\ jobTask'[q] = jobTask[q]
    BY <1>1, <1>4
    DEF Deliver, DeliverToSuspended, DeliverFresh, SuspendedFor, Silent, Jobs, JobTypes
  <2>2. \A t \in Tasks : checkout'[t] \in {checkout[t], NoRun}
    BY <1>4 DEF Deliver, DeliverToSuspended, DeliverFresh, taskVars
  <2> QED
    BY <2>1, <2>2, QuietStep, SilentHasTask
<1>5. CASE \E r \in Runs : StartJob(r)
  <2>1. \A q \in Runs : Silent(q)' => Silent(q) /\ jobTask'[q] = jobTask[q]
    BY <1>1, <1>5 DEF StartJob, Silent, JobTypes
  <2>2. \A t \in Tasks : checkout'[t] \in {checkout[t], NoRun}
    BY <1>5 DEF StartJob, taskVars
  <2> QED
    BY <2>1, <2>2, QuietStep, SilentHasTask
<1>6. CASE \E r \in Runs : StepFails(r)
  <2>1. PICK r \in Runs : StepFails(r)
    BY <1>6
  <2>2. /\ bg'[r] \in {"pending", "settled"} /\ pc'[r] = "idle"
        /\ \A q \in Runs \ {r} : bg'[q] = bg[q] /\ pc'[q] = pc[q]
        /\ UNCHANGED <<jobTask, checkout>>
    BY <2>1, ThrowsEffect DEF StepFails, taskVars
  <2>3. ~Silent(r)' /\ bg[r] = "running"
    BY <2>1, <2>2 DEF Silent, StepFails
  <2> QED
    BY <2>2, <2>3, OwnStep
<1>7. CASE Crash
  <2>1. \A q \in Runs : Silent(q)' => Silent(q) /\ jobTask'[q] = jobTask[q]
    BY <1>7 DEF Crash, Silent
  <2>2. \A t \in Tasks : checkout'[t] \in {checkout[t], NoRun}
    BY <1>7 DEF Crash, taskVars
  <2> QED
    BY <2>1, <2>2, QuietStep, SilentHasTask
<1> QED
  BY <1>3, <1>4, <1>5, <1>6, <1>7

\* A run that has released its task, or is suspended until a person answers,
\* holds no checkout: whatever people edit, reassign or release, whatever
\* fails, crashes or is redelivered, and whatever the reaper does.
THEOREM ReportedHoldsNothing == Spec => []ReportedRunHoldsNothing
<1> DEFINE Inv == TInv /\ Listed /\ ReportedRunHoldsNothing
<1>1. Init => Inv
  BY InitTypes DEF Init, Listed, ReaperIdle, ReportedRunHoldsNothing
<1>2. Inv /\ [Next]_vars => Inv'
  <2> SUFFICES ASSUME TInv, Listed, ReportedRunHoldsNothing, [Next]_vars
               PROVE  TInv' /\ Listed' /\ ReportedRunHoldsNothing'
    OBVIOUS
  <2>1. TInv' /\ Listed'
    BY TypesInductive
  <2>2. CASE UNCHANGED vars
    BY <2>1, <2>2 DEF ReportedRunHoldsNothing, vars, taskVars, jobVars
  <2>3. CASE Next
    BY <2>1, <2>3, PipelineReports, OthersReport DEF Next
  <2> QED
    BY <2>1, <2>2, <2>3
<1>3. Inv => ReportedRunHoldsNothing
  OBVIOUS
<1> QED
  BY <1>1, <1>2, <1>3, PTL DEF Spec

=============================================================================
