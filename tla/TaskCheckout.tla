---------------------------- MODULE TaskCheckout ----------------------------
(***************************************************************************)
(* Agent dispatch of tasks: the task row and its checkout (modules/tasks), *)
(* the dispatch queue, the background jobs that run the five-step pipeline *)
(* (apps/ai/src/ai/jobs), the run rows both sides keep, the reaper of      *)
(* stale checkouts, and the people who edit, run and release tasks.        *)
(*                                                                         *)
(* An action is one database call of a handler with the code up to the     *)
(* next call, so handlers interleave where the code awaits.  Calls join in *)
(* one action only where no other handler reads or writes what the later   *)
(* one depends on: the close of the task_runs row after a release, and the *)
(* send that follows a row update and works on the row just written.       *)
(* Definitions marked "Wrong" are the code with a likely mistake in it:    *)
(* no action uses them, they show that a property can fail.                *)
(*                                                                         *)
(* The dispatch queue is at-least-once (AtLeastOnce): it is the set of     *)
(* messages with copies left, and a delivery may leave its message there.  *)
(* Mastra's background task manager is external: it keeps the jobs in the  *)
(* database, runs one job per agent at a time, runs a job again with the   *)
(* same run id after a throw or a crash while retries are left, and holds  *)
(* suspended jobs until they are resumed.                                  *)
(***************************************************************************)
EXTENDS Naturals, FiniteSets, TaskLifecycle

CONSTANTS Tasks, Agents, NoTask, NoAgent,
          MaxRuns,        \* bound: run ids that can be minted
          MaxRetries,     \* TASK_JOB_MAX_ATTEMPTS
          MaxFaults,      \* bound: crashes and failed steps
          MaxEdits,       \* bound: what people do
          EditStatuses,   \* statuses a person moves a task to
          Outcomes,       \* how a specialist may end
          Env             \* which of the events below can happen

\* "crash": the AI process dies.  "throw": a step's call fails.
\* "redeliver": a dispatch message is delivered again.  "lost_send": a
\* handler dies between its row update and queue.send.  "reassign": people
\* change the assignee.  "release": people release a checkout by hand.
\* "reaper": the reaper runs.  "misread": its read of a run row fails.
Events == {"crash", "throw", "redeliver", "lost_send", "reassign", "release",
           "reaper", "misread"}

Runs == 1..MaxRuns
NoRun == 0

ASSUME CheckoutAssumption ==
  /\ NoTask \notin Tasks
  /\ NoAgent \notin Agents
  /\ MaxRuns \in Nat
  /\ MaxRetries \in Nat
  /\ MaxFaults \in Nat
  /\ MaxEdits \in Nat
  /\ EditStatuses \subseteq TaskStatuses
  /\ Outcomes \subseteq {"completed", "failed", "asked"}
  /\ Env \subseteq Events

VARIABLES
  status, assignee, checkout,   \* the task row; assignee NoAgent: a person or nobody
  queue,                        \* dispatch messages <<task, agent>> with copies left
  bg,                           \* Mastra's record of the job of each run id
  jobTask, jobAgent,            \* its args
  retries,                      \* attempts after the first
  pc,                           \* the pipeline step each executing run is at
  seen,                         \* checkout_run_id a handler of the run has read
  outcome,                      \* how the specialist ended, in the envelope
  agentRun,                     \* ai.agent_run status
  taskRun,                      \* task_runs row: finished_at null ("open") or set
  reaper,                       \* what the reaper is doing
  clicks,                       \* calls of people between their read and their update
  wants,                        \* times somebody asked for a run of a task
  starts,                       \* times a specialist was started on a task
  edits, faults                 \* bounds

taskVars == <<status, assignee, checkout>>
jobVars == <<bg, jobTask, jobAgent, retries, pc, seen, outcome>>
rowVars == <<agentRun, taskRun>>
peopleVars == <<clicks, wants, edits>>
vars == <<taskVars, queue, jobVars, rowVars, reaper, peopleVars, starts, faults>>

\* Steps of the pipeline, by the call each one is about to make.
Steps == {"read", "stale", "claim", "replace", "record", "register", "brief",
          "work", "release", "free", "park", "finish"}

\* Steps a run is at while it believes it holds the checkout.
HoldingSteps == {"record", "register", "brief", "work", "release", "free"}

\* "run now" and "release" of a person, with the checkout the call has read.
Clicks == [do : {"run", "release"}, task : Tasks, run : Runs \union {NoRun}]

TypeOK ==
  /\ status \in [Tasks -> TaskStatuses]
  /\ assignee \in [Tasks -> Agents \union {NoAgent}]
  /\ checkout \in [Tasks -> Runs \union {NoRun}]
  /\ queue \subseteq Tasks \X Agents
  /\ bg \in [Runs -> {"free", "pending", "running", "suspended", "settled"}]
  /\ jobTask \in [Runs -> Tasks \union {NoTask}]
  /\ jobAgent \in [Runs -> Agents \union {NoAgent}]
  /\ retries \in [Runs -> 0..MaxRetries]
  /\ pc \in [Runs -> Steps \union {"idle"}]
  /\ seen \in [Runs -> Runs \union {NoRun}]
  /\ outcome \in [Runs -> Outcomes \union {"none"}]
  /\ agentRun \in [Runs -> {"none", "running", "completed", "failed"}]
  /\ taskRun \in [Runs -> {"none", "open", "closed"}]
  /\ reaper \in [at : {"idle", "check", "release", "free"},
                 task : Tasks \union {NoTask}, run : Runs \union {NoRun}]
  /\ clicks \subseteq Clicks
  /\ wants \in [Tasks -> Nat]
  /\ starts \in [Tasks -> Nat]
  /\ edits \in 0..MaxEdits
  /\ faults \in 0..MaxFaults

ReaperIdle == [at |-> "idle", task |-> NoTask, run |-> NoRun]

IsDispatchable(t) ==
  Dispatchable(assignee[t] \in Agents, checkout[t] # NoRun, status[t])

\* Tasks as tasks_create leaves them: queued when they start on creation.
Init ==
  /\ status \in [Tasks -> {"todo", "backlog"}]
  /\ assignee \in [Tasks -> Agents]
  /\ checkout = [t \in Tasks |-> NoRun]
  /\ queue = {<<t, assignee[t]>> : t \in {x \in Tasks : StartsOnCreate(status[x])}}
  /\ bg = [r \in Runs |-> "free"]
  /\ jobTask = [r \in Runs |-> NoTask]
  /\ jobAgent = [r \in Runs |-> NoAgent]
  /\ retries = [r \in Runs |-> 0]
  /\ pc = [r \in Runs |-> "idle"]
  /\ seen = [r \in Runs |-> NoRun]
  /\ outcome = [r \in Runs |-> "none"]
  /\ agentRun = [r \in Runs |-> "none"]
  /\ taskRun = [r \in Runs |-> "none"]
  /\ reaper = ReaperIdle
  /\ clicks = {}
  /\ wants = [t \in Tasks |-> IF StartsOnCreate(status[t]) THEN 1 ELSE 0]
  /\ starts = [t \in Tasks |-> 0]
  /\ edits = 0
  /\ faults = 0

-----------------------------------------------------------------------------
(* Putting a task on the queue *)

\* dispatchTaskIfReady for a task without blockers (TaskBlockers has the
\* gate), given the row the handler just wrote.  The handler may die first.
DispatchIfReady(t) ==
  IF Dispatchable(assignee'[t] \in Agents, checkout'[t] # NoRun, status'[t])
  THEN \/ /\ queue' = queue \union {<<t, assignee'[t]>>}
          /\ wants' = [wants EXCEPT ![t] = @ + 1]
          /\ UNCHANGED faults
       \/ /\ "lost_send" \in Env
          /\ faults < MaxFaults
          /\ faults' = faults + 1
          /\ UNCHANGED <<queue, wants>>
  ELSE UNCHANGED <<queue, wants, faults>>

-----------------------------------------------------------------------------
(* People *)

PersonActs ==
  /\ edits < MaxEdits
  /\ edits' = edits + 1

\* tasks_update: the patch is written over the row whatever it holds now, and
\* every update dispatches when the result is dispatchable.
EditTask(t, s, a) ==
  /\ PersonActs
  /\ s \in EditStatuses \union {status[t]}
  /\ a = assignee[t] \/ "reassign" \in Env
  /\ status' = [status EXCEPT ![t] = s]
  /\ assignee' = [assignee EXCEPT ![t] = a]
  /\ UNCHANGED checkout
  /\ DispatchIfReady(t)
  /\ UNCHANGED <<jobVars, rowVars, reaper, clicks, starts>>

\* tasks_run_now reads the row: refused for terminal, claimed or unassigned
\* tasks, queued at once from an entry status, else flipped to todo first.
RunNow(t) ==
  /\ assignee[t] \in Agents
  /\ status[t] \notin TerminalStatuses
  /\ checkout[t] = NoRun
  /\ PersonActs
  /\ UNCHANGED taskVars
  /\ IF status[t] \in EntryStatuses
     THEN /\ DispatchIfReady(t)
          /\ UNCHANGED clicks
     ELSE /\ clicks' = clicks \union {[do |-> "run", task |-> t, run |-> NoRun]}
          /\ UNCHANGED <<queue, wants, faults>>
  /\ UNCHANGED <<jobVars, rowVars, reaper, starts>>

\* The flip of tasks_run_now is an update by id: it does not look again.
RunNowFlip(c) ==
  /\ c.do = "run"
  /\ clicks' = clicks \ {c}
  /\ status' = [status EXCEPT ![c.task] = "todo"]
  /\ UNCHANGED <<assignee, checkout>>
  /\ DispatchIfReady(c.task)
  /\ UNCHANGED <<jobVars, rowVars, reaper, edits, starts>>

\* POST /tasks/:id/release without a run id: releaseTask reads the row, and an
\* unclaimed task is left as it is.
PersonReads(t) ==
  /\ "release" \in Env
  /\ PersonActs
  /\ checkout[t] # NoRun
  /\ clicks' = clicks \union {[do |-> "release", task |-> t, run |-> checkout[t]]}
  /\ UNCHANGED <<taskVars, queue, jobVars, rowVars, reaper, wants, starts, faults>>

\* Its update is by task id alone; it closes the row of the run it read, and
\* dispatches nothing.
PersonReleases(c) ==
  /\ c.do = "release"
  /\ clicks' = clicks \ {c}
  /\ status' = [status EXCEPT ![c.task] = "todo"]
  /\ checkout' = [checkout EXCEPT ![c.task] = NoRun]
  /\ taskRun' = [taskRun EXCEPT ![c.run] = IF @ = "open" THEN "closed" ELSE @]
  /\ UNCHANGED <<assignee, queue, jobVars, agentRun, reaper, wants, edits,
                 starts, faults>>

-----------------------------------------------------------------------------
(* The dispatch consumer: startTaskJob *)

\* The message is acknowledged, or comes back.
Acked(t, a) ==
  \/ queue' = queue \ {<<t, a>>}
  \/ "redeliver" \in Env /\ UNCHANGED queue

SuspendedFor(t) == {r \in Runs : bg[r] = "suspended" /\ jobTask[r] = t}

\* A run suspended for this task is resumed, whichever agent it belongs to.
DeliverToSuspended(t, a, r) ==
  /\ <<t, a>> \in queue
  /\ r \in SuspendedFor(t)
  /\ Acked(t, a)
  /\ bg' = [bg EXCEPT ![r] = "pending"]
  /\ UNCHANGED <<taskVars, jobTask, jobAgent, retries, pc, seen, outcome,
                 rowVars, reaper, peopleVars, starts, faults>>

\* Otherwise, or when the lookup or the resume fails, a new run id is minted.
DeliverFresh(t, a, r) ==
  /\ <<t, a>> \in queue
  /\ bg[r] = "free"
  /\ \A q \in Runs : q < r => bg[q] # "free"
  /\ IF SuspendedFor(t) = {}
     THEN UNCHANGED faults
     ELSE /\ "throw" \in Env
          /\ faults < MaxFaults
          /\ faults' = faults + 1
  /\ Acked(t, a)
  /\ bg' = [bg EXCEPT ![r] = "pending"]
  /\ jobTask' = [jobTask EXCEPT ![r] = t]
  /\ jobAgent' = [jobAgent EXCEPT ![r] = a]
  /\ UNCHANGED <<taskVars, retries, pc, seen, outcome, rowVars, reaper,
                 peopleVars, starts>>

-----------------------------------------------------------------------------
(* The background task manager *)

\* Wrong: no limit per agent.
StartJobUnlimited(r) ==
  /\ bg[r] = "pending"
  /\ bg' = [bg EXCEPT ![r] = "running"]
  /\ pc' = [pc EXCEPT ![r] = "read"]
  /\ UNCHANGED <<taskVars, queue, jobTask, jobAgent, retries, seen, outcome,
                 rowVars, reaper, peopleVars, starts, faults>>

\* perAgentConcurrency: 1
StartJob(r) ==
  /\ bg[r] = "pending"
  /\ \A q \in Runs : bg[q] = "running" => jobAgent[q] # jobAgent[r]
  /\ bg' = [bg EXCEPT ![r] = "running"]
  /\ pc' = [pc EXCEPT ![r] = "read"]
  /\ UNCHANGED <<taskVars, queue, jobTask, jobAgent, retries, seen, outcome,
                 rowVars, reaper, peopleVars, starts, faults>>

\* The executor function of run r is over: the job takes state s.
Settle(r, s) ==
  /\ bg' = [bg EXCEPT ![r] = s]
  /\ pc' = [pc EXCEPT ![r] = "idle"]
  /\ seen' = [seen EXCEPT ![r] = NoRun]
  /\ outcome' = [outcome EXCEPT ![r] = "none"]
  /\ UNCHANGED <<jobTask, jobAgent>>

\* Wrong: no retry (the manager's own default), and retries without end.
ThrowsForGood(r) == Settle(r, "settled") /\ UNCHANGED retries
ThrowsForever(r) ==
  /\ Settle(r, "pending")
  /\ retries' = [retries EXCEPT ![r] = @ + 1]

\* An attempt failed: run the job again from the top, under the same run id.
Throws(r) ==
  IF retries[r] < MaxRetries
  THEN /\ Settle(r, "pending")
       /\ retries' = [retries EXCEPT ![r] = @ + 1]
  ELSE /\ Settle(r, "settled")
       /\ UNCHANGED retries

\* A call made by a step fails (network, core restart, agent not mounted).
StepFails(r) ==
  /\ "throw" \in Env
  /\ bg[r] = "running"
  /\ faults < MaxFaults
  /\ faults' = faults + 1
  /\ Throws(r)
  /\ UNCHANGED <<taskVars, queue, rowVars, reaper, peopleVars, starts>>

\* The AI process dies and boots: recoverStaleTasks puts running jobs back
\* while retries are left; sweepStalledRuns fails every agent_run that was
\* running.
Crash ==
  LET caught == {r \in Runs : bg[r] = "running"}
      again == {r \in caught : retries[r] < MaxRetries}
  IN /\ "crash" \in Env
     /\ caught # {}
     /\ faults < MaxFaults
     /\ faults' = faults + 1
     /\ bg' = [r \in Runs |-> IF r \in again THEN "pending"
                              ELSE IF r \in caught THEN "settled" ELSE bg[r]]
     /\ retries' = [r \in Runs |-> IF r \in again THEN retries[r] + 1
                                   ELSE retries[r]]
     /\ pc' = [r \in Runs |-> "idle"]
     /\ seen' = [r \in Runs |-> NoRun]
     /\ outcome' = [r \in Runs |-> "none"]
     /\ agentRun' = [r \in Runs |-> IF agentRun[r] = "running" THEN "failed"
                                    ELSE agentRun[r]]
     /\ UNCHANGED <<taskVars, queue, jobTask, jobAgent, taskRun, reaper,
                    peopleVars, starts>>

-----------------------------------------------------------------------------
(* The checkout step *)

At(r, step) == pc[r] = step
Goto(r, step) ==
  /\ pc' = [pc EXCEPT ![r] = step]
  /\ UNCHANGED <<bg, jobTask, jobAgent, retries>>

\* Wrong: the steps after checkout do not look at the skipped mark.
SkipsIgnored(r) == Goto(r, "brief") /\ UNCHANGED <<seen, outcome>>

\* 409: the envelope is marked skipped, every later step passes it through.
Skips(r) == Settle(r, "settled") /\ UNCHANGED retries

\* checkoutTask reads the row.  A checkout by this run that is in progress is
\* returned as it is; one by another run is looked up first.
ReadForCheckout(r) ==
  LET t == jobTask[r] IN
  /\ At(r, "read")
  /\ seen' = [seen EXCEPT ![r] = checkout[t]]
  /\ Goto(r, IF checkout[t] \notin {NoRun, r} THEN "stale"
             ELSE IF checkout[t] = r /\ status[t] = "in_progress" THEN "register"
             ELSE "claim")
  /\ UNCHANGED <<taskVars, queue, outcome, rowVars, reaper, peopleVars, starts,
                 faults>>

\* isStaleAgentCheckoutRun: a missing run row is not stale.
Stale(run) == agentRun[run] \in {"completed", "failed"}

JudgeHolder(r) ==
  /\ At(r, "stale")
  /\ IF Stale(seen[r])
     THEN Goto(r, "replace") /\ UNCHANGED <<seen, outcome>>
     ELSE Skips(r)
  /\ UNCHANGED <<taskVars, queue, rowVars, reaper, peopleVars, starts, faults>>

\* The row checkout writes: claimed, in progress, assigned to this job's agent.
Claimed(r) ==
  LET t == jobTask[r] IN
  /\ status' = [status EXCEPT ![t] = "in_progress"]
  /\ assignee' = [assignee EXCEPT ![t] = jobAgent[r]]
  /\ checkout' = [checkout EXCEPT ![t] = r]
  /\ Goto(r, "record")
  /\ seen' = [seen EXCEPT ![r] = NoRun]
  /\ UNCHANGED outcome

\* Wrong: the update without the expected statuses.
ClaimAnyStatus(r) ==
  LET t == jobTask[r] IN
  /\ At(r, "claim")
  /\ IF checkout[t] \in {NoRun, r}
     THEN Claimed(r)
     ELSE Skips(r) /\ UNCHANGED taskVars
  /\ UNCHANGED <<queue, rowVars, reaper, peopleVars, starts, faults>>

\* The conditional update: entry status, and unclaimed or already this run's.
Claim(r) ==
  LET t == jobTask[r] IN
  /\ At(r, "claim")
  /\ IF status[t] \in EntryStatuses /\ checkout[t] \in {NoRun, r}
     THEN Claimed(r)
     ELSE Skips(r) /\ UNCHANGED taskVars
  /\ UNCHANGED <<queue, rowVars, reaper, peopleVars, starts, faults>>

\* A stale checkout is replaced by compare-and-set, whatever the status.
ReplaceStale(r) ==
  /\ At(r, "replace")
  /\ IF checkout[jobTask[r]] = seen[r]
     THEN Claimed(r)
     ELSE Skips(r) /\ UNCHANGED taskVars
  /\ UNCHANGED <<queue, rowVars, reaper, peopleVars, starts, faults>>

\* The one task_runs row of this run: inserted, or re-opened.
RecordRun(r) ==
  /\ At(r, "record")
  /\ taskRun' = [taskRun EXCEPT ![r] = "open"]
  /\ Goto(r, "register")
  /\ UNCHANGED <<taskVars, queue, seen, outcome, agentRun, reaper, peopleVars,
                 starts, faults>>

\* ensureAgentRunStarted: an existing row keeps its status.
EnsureAgentRun(r) ==
  agentRun' = [agentRun EXCEPT ![r] = IF @ = "none" THEN "running" ELSE @]

\* registerTaskJobRun is best effort: a failure leaves no row and is ignored.
Register(r) ==
  /\ At(r, "register")
  /\ \/ EnsureAgentRun(r) /\ UNCHANGED faults
     \/ /\ "throw" \in Env
        /\ faults < MaxFaults
        /\ faults' = faults + 1
        /\ UNCHANGED agentRun
  /\ Goto(r, "brief")
  /\ UNCHANGED <<taskVars, queue, seen, outcome, taskRun, reaper, peopleVars,
                 starts>>

-----------------------------------------------------------------------------
(* The specialist *)

\* build-brief, and the specialist starts; its tracker ensures the run row.
StartSpecialist(r) ==
  /\ At(r, "brief")
  /\ EnsureAgentRun(r)
  /\ starts' = [starts EXCEPT ![jobTask[r]] = @ + 1]
  /\ Goto(r, "work")
  /\ UNCHANGED <<taskVars, queue, seen, outcome, taskRun, reaper, peopleVars,
                 faults>>

\* finishRun: only a cancelled row keeps its status, and no run is cancelled here.
FinishAgentRun(r, o) ==
  agentRun' = [agentRun EXCEPT ![r] = IF o = "failed" THEN "failed" ELSE "completed"]

\* The specialist ends.  Its agent_run is finished here, while the run still
\* holds the checkout; write-result then posts the comment.
EndSpecialist(r, o) ==
  /\ At(r, "work")
  /\ outcome' = [outcome EXCEPT ![r] = o]
  /\ FinishAgentRun(r, o)
  /\ Goto(r, "release")
  /\ UNCHANGED <<taskVars, queue, seen, taskRun, reaper, peopleVars, starts,
                 faults>>

-----------------------------------------------------------------------------
(* The finalize step *)

\* releaseTask reads the row.  Nothing claimed: nothing to release.  Claimed by
\* another run: task_release_run_mismatch is thrown.
ReadForRelease(r) ==
  LET t == jobTask[r] IN
  /\ At(r, "release")
  /\ \/ /\ checkout[t] = NoRun
        /\ Goto(r, "park") /\ UNCHANGED <<seen, outcome>>
     \/ /\ checkout[t] = r
        /\ Goto(r, "free") /\ UNCHANGED <<seen, outcome>>
     \/ /\ checkout[t] \notin {NoRun, r}
        /\ Throws(r)
  /\ UNCHANGED <<taskVars, queue, rowVars, reaper, peopleVars, starts, faults>>

\* Wrong: the checkout, or the status, is left out of the update.
ReleaseKeepsClaim(r) ==
  LET t == jobTask[r] IN
  /\ At(r, "free")
  /\ status' = [status EXCEPT ![t] = "todo"]
  /\ Goto(r, "park")
  /\ UNCHANGED <<assignee, checkout, queue, seen, outcome, rowVars, reaper,
                 peopleVars, starts, faults>>
ReleaseKeepsStatus(r) ==
  LET t == jobTask[r] IN
  /\ At(r, "free")
  /\ checkout' = [checkout EXCEPT ![t] = NoRun]
  /\ Goto(r, "park")
  /\ UNCHANGED <<status, assignee, queue, seen, outcome, rowVars, reaper,
                 peopleVars, starts, faults>>

\* The update of releaseTask is by task id alone.
Release(r) ==
  LET t == jobTask[r] IN
  /\ At(r, "free")
  /\ status' = [status EXCEPT ![t] = "todo"]
  /\ checkout' = [checkout EXCEPT ![t] = NoRun]
  /\ taskRun' = [taskRun EXCEPT ![r] = IF @ = "open" THEN "closed" ELSE @]
  /\ Goto(r, "park")
  /\ UNCHANGED <<assignee, queue, seen, outcome, agentRun, reaper, peopleVars,
                 starts, faults>>

\* nextStatus; a completed task is closed or parked by the completion policy.
RestingStatuses(o) ==
  CASE o = "failed" -> {"blocked"}
    [] o = "asked" -> {"in_review"}
    [] o = "completed" -> {"done", "in_review"}

\* tasks_update with the resting status, over whatever the row holds now.  No
\* resting status is an entry status, so the update dispatches nothing.
Park(r, s) ==
  /\ At(r, "park")
  /\ s \in RestingStatuses(outcome[r])
  /\ status' = [status EXCEPT ![jobTask[r]] = s]
  /\ Goto(r, "finish")
  /\ UNCHANGED <<assignee, checkout, queue, seen, outcome, rowVars, reaper,
                 peopleVars, starts, faults>>

\* finishTaskJobRun, and the executor returns.  A run that asked a person
\* suspends; the executor that recovery registers after a crash cannot.
Finish(r) ==
  /\ At(r, "finish")
  /\ FinishAgentRun(r, outcome[r])
  /\ \/ /\ outcome[r] = "asked"
        /\ Settle(r, "suspended")
     \/ /\ outcome[r] # "asked" \/ retries[r] > 0
        /\ Settle(r, "settled")
  /\ UNCHANGED <<taskVars, queue, retries, taskRun, reaper, peopleVars, starts,
                 faults>>

-----------------------------------------------------------------------------
(* The reaper of stale checkouts *)

\* listClaimedTasks; the loop handles one listed task at a time.
ReaperLists(t) ==
  /\ "reaper" \in Env
  /\ reaper.at = "idle"
  /\ checkout[t] # NoRun
  /\ reaper' = [at |-> "check", task |-> t, run |-> checkout[t]]
  /\ UNCHANGED <<taskVars, queue, jobVars, rowVars, peopleVars, starts, faults>>

\* Wrong: a run without a row is waited for without end.
GraceNeverOver(r) == FALSE

\* A run registers within seconds of its checkout: the grace window of a
\* missing row is over only for a run that is not about to write it.
GraceOver(r) == pc[r] \notin {"record", "register", "brief"}

\* getCheckoutRunState: live runs are skipped, missing ones get the grace window,
\* and a row that could not be read counts as missing.
ReaperChecks ==
  /\ reaper.at = "check"
  /\ \/ /\ \/ agentRun[reaper.run] \in {"completed", "failed"}
           \/ agentRun[reaper.run] = "none" /\ GraceOver(reaper.run)
        /\ reaper' = [reaper EXCEPT !.at = "release"]
        /\ UNCHANGED faults
     \/ /\ \/ agentRun[reaper.run] = "running"
           \/ agentRun[reaper.run] = "none" /\ ~GraceOver(reaper.run)
        /\ reaper' = ReaperIdle
        /\ UNCHANGED faults
     \/ /\ "misread" \in Env
        /\ faults < MaxFaults
        /\ faults' = faults + 1
        /\ GraceOver(reaper.run)
        /\ reaper' = [reaper EXCEPT !.at = "release"]
  /\ UNCHANGED <<taskVars, queue, jobVars, rowVars, peopleVars, starts>>

\* releaseTask without a run id reads the row; an unclaimed one is returned as
\* it is and dispatched if it can be.
ReaperReads ==
  LET t == reaper.task IN
  /\ reaper.at = "release"
  /\ UNCHANGED taskVars
  /\ IF checkout[t] = NoRun
     THEN /\ reaper' = ReaperIdle
          /\ DispatchIfReady(t)
     ELSE /\ reaper' = [reaper EXCEPT !.at = "free", !.run = checkout[t]]
          /\ UNCHANGED <<queue, wants, faults>>
  /\ UNCHANGED <<jobVars, rowVars, clicks, edits, starts>>

\* The update by task id, the run row of the run it read, and the dispatch.
ReaperReleases ==
  LET t == reaper.task IN
  /\ reaper.at = "free"
  /\ status' = [status EXCEPT ![t] = "todo"]
  /\ checkout' = [checkout EXCEPT ![t] = NoRun]
  /\ UNCHANGED assignee
  /\ taskRun' = [taskRun EXCEPT ![reaper.run] =
                   IF @ = "open" THEN "closed" ELSE @]
  /\ reaper' = ReaperIdle
  /\ DispatchIfReady(t)
  /\ UNCHANGED <<jobVars, agentRun, clicks, edits, starts>>

-----------------------------------------------------------------------------
(* The specification *)

PipelineStep(r) ==
  \/ ReadForCheckout(r) \/ JudgeHolder(r) \/ Claim(r) \/ ReplaceStale(r)
  \/ RecordRun(r) \/ Register(r) \/ StartSpecialist(r)
  \/ \E o \in Outcomes : EndSpecialist(r, o)
  \/ ReadForRelease(r) \/ Release(r)
  \/ \E s \in TaskStatuses : Park(r, s)
  \/ Finish(r)

Deliver(t) ==
  \E a \in Agents, r \in Runs : DeliverToSuspended(t, a, r) \/ DeliverFresh(t, a, r)

People ==
  \/ \E t \in Tasks :
       \/ \E s \in TaskStatuses, a \in Agents \union {NoAgent} : EditTask(t, s, a)
       \/ RunNow(t)
       \/ PersonReads(t)
  \/ \E c \in clicks : RunNowFlip(c) \/ PersonReleases(c)

Reaper == (\E t \in Tasks : ReaperLists(t)) \/ ReaperChecks \/ ReaperReads \/ ReaperReleases

Next ==
  \/ People
  \/ \E t \in Tasks : Deliver(t)
  \/ \E r \in Runs : StartJob(r) \/ StepFails(r) \/ PipelineStep(r)
  \/ Crash
  \/ Reaper

Spec == Init /\ [][Next]_vars

\* The consumer, the manager, the jobs and the reaper keep running.  A
\* specialist ends: the manager's timeout aborts one that does not.  People
\* owe nothing, except that a handler they called goes on.
Fairness ==
  /\ \A t \in Tasks : WF_vars(Deliver(t))
  /\ \A c \in Clicks : WF_vars(c \in clicks /\ RunNowFlip(c))
  /\ \A r \in Runs : WF_vars(StartJob(r)) /\ WF_vars(PipelineStep(r))
  /\ WF_vars(ReaperChecks) /\ WF_vars(ReaperReads) /\ WF_vars(ReaperReleases)
  /\ \A t \in Tasks : SF_vars(ReaperLists(t))

FairSpec == Spec /\ Fairness

-----------------------------------------------------------------------------
(* Properties *)

\* A specialist only works while the task row names its run: no redelivery,
\* retry, crash recovery or edit takes the claim from under it.  This needs the
\* one-job-per-agent lane: checkout itself lets a second run replace the first.
WorkingRunHoldsClaim ==
  \A r \in Runs : pc[r] = "work" => checkout[jobTask[r]] = r

\* Every specialist that starts was asked for: redelivered messages and
\* messages sent twice start nothing, only a fault can cost one more start.
RedeliveryHarmless == \A t \in Tasks : starts[t] <= wants[t] + faults

\* Whatever people, crashes and the reaper do at once: a run that has released
\* its task, and a run that is suspended until a person answers, holds nothing.
\* Holding it, the task could not be claimed by anyone else, and the answer
\* that resumes the run would be refused.
ReportedRunHoldsNothing ==
  \A r \in Runs :
    pc[r] \in {"park", "finish"} \/ bg[r] = "suspended" => checkout[jobTask[r]] # r

\* While nobody edits the row, a task is in progress exactly while some run
\* holds it.  In progress without a checkout is the shape no reaper can see;
\* a checkout behind another status is a run nobody can see.
InProgressIsClaimed ==
  edits = 0 => \A t \in Tasks : status[t] = "in_progress" <=> checkout[t] # NoRun

\* A task that somebody asked to run and that could be claimed is never
\* forgotten: a message or a job for it is still on its way.
NothingForgotten ==
  \A t \in Tasks :
    IsDispatchable(t) /\ wants[t] > 0 =>
      \/ \E a \in Agents : <<t, a>> \in queue
      \/ \E r \in Runs : jobTask[r] = t /\ bg[r] \in {"pending", "running"}

\* The lease that checkout is meant to be.
Lease == INSTANCE TaskLease WITH
  holder <- checkout,
  working <- {p \in Tasks \X Runs : pc[p[2]] = "work" /\ jobTask[p[2]] = p[1]}

ImplementsLease == Lease!Spec

\* The reaper gives back what a dead run holds: a checkout whose job has
\* settled does not last, unless its agent_run row still says "running".
DeadClaimReleased ==
  \A t \in Tasks, r \in Runs :
    checkout[t] = r /\ bg[r] = "settled" /\ agentRun[r] # "running"
      ~> checkout[t] # r

\* Work that was asked for gets done: a job for the task starts a specialist,
\* or the task stops being one an agent may claim.  A job absorbs as many faults
\* as it has retries; the model ends with its run ids.
DispatchServed ==
  \A t \in Tasks :
    IsDispatchable(t) /\ wants[t] > 0
      ~> \/ ~IsDispatchable(t)
         \/ faults > MaxRetries
         \/ \A r \in Runs : bg[r] # "free"

-----------------------------------------------------------------------------
(* What comments, assertions and tests say of the code, as properties *)

\* "Concurrent checkout - exactly one wins": two specialists never work on one
\* task at the same time.
OneSpecialistPerTask ==
  \A q, r \in Runs :
    pc[q] = "work" /\ pc[r] = "work" /\ jobTask[q] = jobTask[r] => q = r

=============================================================================
