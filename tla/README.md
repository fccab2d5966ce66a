# Formal model of engenty: tasks, approvals and workflow runs

engenty is a multi-tenant workspace in TypeScript: a core API with plugin
modules (tasks, contacts, files, ...), an AI service that runs agents
("specialists") on Mastra, a Postgres database (Supabase) and pgmq queues.
This directory models the part of it where independent processes share mutable
state and a wrong order loses work or does it twice:

* **how a task gets to an agent**, is claimed, worked on, given back and
  unblocked, with the queue that carries it;
* **how an agent gets a gated operation approved**: requests, decisions and
  grants, and the task that parks on its asks and runs again on the answers;
* **how a workflow run stops and goes on**: at gates, questions and waits,
  answered by people and woken by a sweep.

TLC checks the models on small instances; TLAPS proves the results listed
below for every value of the constants.

    tlc -workers 2 -config lane.cfg MCTaskCheckout.tla
    tlapm TaskLease_proofs.tla

Paths below are relative to `src/`; `file:line` is the line where something is.

## 1. Inventory

| Component | Source | State it keeps | Operations | Model |
|---|---|---|---|---|
| Queue worker | `packages/queue/src/index.ts` | pgmq rows (`read_ct`, visibility), running flag, queue under poll | send, read, archive, stop | `QueueWorker` |
| Status rules | `modules/tasks/src/domain/task-lifecycle.ts` | none | status sets, start on creation, dispatch condition | `TaskLifecycle` |
| Task checkout | `modules/tasks/src/dal/supabase.ts` | `tasks.status`, `assignee`, `checkout_run_id`; `task_runs` | `checkoutTask`, `releaseTask`, `updateTask` | `TaskCheckout` |
| Dispatch, run now, reaper, release by hand | `modules/tasks/src/api/` | messages on the dispatch queue | `dispatchTaskIfReady`, `runTaskNow`, `reapStaleCheckouts`, `POST /tasks/:id/release` | `TaskCheckout` |
| Blockers | `domain/task-blockers.ts`, `api/task-dispatch-service.ts`, `api/gateway-methods.ts` | `blocked_by_task_ids`, `blocked` status | `validateBlockedBy`, gate, `markBlocked`, `wakeBlockedDependents` | `TaskBlockers` |
| Dispatch consumer, background jobs | `apps/ai/src/api/task-dispatch-consumer.ts`, `task-background-dispatch.ts` | Mastra's background task rows | start, resume, retry, recover, suspend | `TaskCheckout` |
| Job pipeline | `apps/ai/src/ai/jobs/` | the envelope between five steps | checkout, build-brief, run-specialist, write-result, finalize | `TaskCheckout` |
| Agent run rows | `apps/ai/src/ai/sessions/run-tracking.ts`, `dal/threads/agent-run-store.ts` | `ai.agent_run.status` | ensure started, finish, sweep on boot | `TaskCheckout`, `WorkflowRuns` |
| Approval grants | `packages/approvals-sdk/src`, `apps/core/src/security/policy.ts`, three API routes, `modules/connections` | `approval_requests`, `approval_grants` | request, decide, consume a grant, expire, revoke | `Approvals` |
| Task approvals | `modules/tasks/src/api/task-approval-service.ts`, `connections-approval-subscriber.ts`, the job steps | `pending_approval_operation_ids`, grants of the task | answer on the task, answer in the queue, park, dispatch again | `TaskApproval` |
| Workflow runs | `apps/ai/src/ai/workflows`, `dal/workflow-runs`, `api/workflow-routes.ts` | `ai.workflow_run`, engine snapshot, `ai.agent_run`, inbox | press, stop, settle, answer, cancel, review, wake, sweep on boot | `WorkflowRuns` |
| Conversation runs | `apps/ai/src/ai/conversation`, `sessions` | resume claims, abort registry, event log | resume, abort, replay | not modelled |
| Scheduler heartbeats | `apps/ai/src/scheduler` | schedules | synchronise | not modelled |
| Package lifecycle, apps | `apps/core/src/plugins`, `modules/engenty-apps` | install states, releases | install, start, upgrade, release | not modelled |
| Core API, UI, business modules, shared packages | rest of `apps`, `modules`, `packages` | request-scoped, or single rows | CRUD, rendering | not modelled |

`PROJECT.json` lists the same parts with the reason for each one left out.

### How the modelled parts interact

A row update of `tasks` that leaves the row *dispatchable* (an agent is
assigned, nobody holds it, status `todo` or `backlog`) sends a message
`<task, agent>` to the dispatch queue. The queue worker in the AI service
hands it to `startTaskJob`, which resumes a run suspended for that task or
mints a run id and enqueues a background job, then acknowledges. Mastra runs
one job per agent at a time. The job claims the task (`tasks_checkout`),
registers an `ai.agent_run` row, runs the specialist, releases the claim
(`tasks_release`) and writes a resting status (`tasks_update`). Meanwhile
people edit, reassign, "run now" and release tasks; the reaper releases claims
whose run is dead; and a task that becomes done wakes the tasks it blocked.

A specialist that meets a gated operation asks core for a grant. There is none,
so a request is filed, the run ends, and its asks are written to the task.
People answer on the task (the answer is recorded as a grant of the task) or in
the queue of the connections module (the answer decides the request, which
mints a grant of the agent, and an event brings it to the task). The last
answer clears the list, puts the task back to an entry status and dispatches
it; the next run is handed the one-shot grants and ends them when it is over.

A workflow run writes its stop to its row and then suspends in the engine,
whose snapshot is the program counter. `settleGraphRun` writes row, run record
and inbox from what the engine returned. A gate or a question is continued by
a person who acts on the inbox; a wait by the sweep every process runs, which
selects due rows, claims each with a conditional update and resumes them. On
boot the AI service fails every `ai.agent_run` that still says running.

Every one of these is several database calls without a transaction around
them. That is where the hard behaviour is.

### What is hard here

* **Interleaving between calls.** `releaseTask` reads the row, compares the run
  id, and then updates by task id alone; the reaper looks at a run row and
  releases later; the gate reads blockers and blocks later; the cycle check
  reads the graph and the update writes later; two callers read the same
  one-shot grant before either deletes it; a list of pending asks is read and
  written back; a wake claim compares a status, not the timer it was listed for.
* **Retries and crashes.** A job runs again *from the top under the same run
  id*, so it meets its own claim, its own finished run row, its own report. A
  decision and its grant are two writes. A restart cuts every call of a process
  and sweeps run records, those of parked runs included.
* **At-least-once messages.** Redelivery, and several messages for one request.
* **Staleness of what a claim is judged by**: `ai.agent_run` is written by
  another service, best effort, and swept on boot.
* **Order of writes to several places**: row, snapshot, record and inbox of a
  workflow run; grant, list and dispatch of an answer.
* **Requests about what is no longer so**: an answer from a page that shows a gate
  the run has left, a wake-up from a list of dependents that have moved on.
* **Limits**: the read cap of the queue, the attempts of a job, the one-job lane
  of an agent.

`PROJECT.json` lists the hazards line by line with the properties aimed at
them, and says which have none and why.

### What makes each part correct

* Queue worker: bounded handling of a poison message, nothing archived without
  cause, nothing stuck, exclusive handling where handlers are in time.
* Checkout: it is a lease: a specialist works only while the row names its run.
* Dispatch: redelivery starts nothing; nothing that was asked for is forgotten.
* Pipeline and reaper: a run that has reported holds nothing; `in_progress` and
  "claimed" agree; what a dead run holds comes back.
* Blockers: the graph has no cycle; a task is not left waiting for nobody; a
  wake-up should disturb no task that does not wait (it can: section 3).
* Grants: no operation passes without an approval of its own, an allow-once
  passes once, a race of approvers has one winner, an approval is not lost.
* Task approvals: an answered task runs again with what was approved, answering
  one ask costs no other, an allow-once opens one run.
* Workflow runs: what is parked can be found by whoever must continue it, a
  timer is claimed once, a settled run is over and asks nothing, ends are
  recorded and waits end.

## 2. Modules

    AtLeastOnce <-- QueueWorker <-- MCQueueWorker
                        ^---------- QueueWorker_proofs
    TaskLifecycle <-- TaskCheckout <-- MCTaskCheckout
             | |  |       |   ^------- TaskCheckout_proofs
             | |  |       |               ^-- TaskLane_proofs <-- TaskLease_proofs
             | |  |       '-> TaskLease (abstract)
             | |  '-- TaskBlockers <-- MCTaskBlockers
             | |          ^----------- TaskBlockers_proofs
             | '-- TaskApproval <-- MCTaskApproval
             |            ^-------- TaskApproval_proofs
    ApprovalPromise <-- Approvals <-- MCApprovals
                            ^-------- Approvals_proofs
    WorkflowRuns <-- MCWorkflowRuns
          ^--------- WorkflowRuns_proofs

**`AtLeastOnce`** is what a sender may expect of a queue: a job is delivered
some number of times and leaves only after a delivery was carried out or the
cap was passed.

**`QueueWorker`** is `startQueueWorker`: `Polls`/`Read`/`TooManyReads` are the
loop with its `read_ct` test, `HandlerReturns`/`HandlerThrows` the handler,
`Archive` the acknowledgement and the dead-letter branch, `ArchiveFails` and
`ReadFails` its two catch paths, `Stop` the stop function. pgmq is external:
`HandsOut` (oldest visible message, hidden, counted) and `VisibilityExpires`.
`read_ct` is counted up to `MaxReads + 1`: beyond that the code makes no
difference. `PromptQueues` are queues whose handler ends before the visibility
timeout, as the worker's configuration comment wants it.

**`TaskLease`** is what checkout is for, in two variables: who holds the lease
of a task and which runs work on it. Work begins only under the lease; while
it lasts the lease neither moves nor ends.

**`TaskCheckout`** is dispatch as a whole. State and code:

| Variable | Code |
|---|---|
| `status`, `assignee`, `checkout` | the row of `tasks`; `checkout` is `checkout_run_id` |
| `queue` | dispatch messages with deliveries left |
| `bg`, `jobTask`, `jobAgent`, `retries` | the background task of each run id and its args |
| `pc`, `seen`, `outcome` | where the executing run is, the row it has read, the envelope |
| `agentRun`, `taskRun` | `ai.agent_run.status`; `task_runs.finished_at` |
| `reaper`, `clicks` | calls of the reaper and of people between read and update |
| `wants`, `starts` | history: times somebody asked for, and a specialist started on, a task |

One action is one database call with the code up to the next one, so handlers
interleave exactly where the code awaits. `ReadForCheckout`, `JudgeHolder`,
`Claim`, `ReplaceStale`, `RecordRun` are `checkoutTask`; `Register` and
`StartSpecialist` create the run row if there is none; `EndSpecialist`
finishes it *before* the run releases; `ReadForRelease`, `Release`, `Park`,
`Finish` are finalize; `ReaperLists`, `ReaperChecks`, `ReaperReads`,
`ReaperReleases` are `reapStaleCheckouts`; `PersonReads`, `PersonReleases` the
release by hand. Three calls are merged into the action before them because
nothing reads between: the close of `task_runs` into the release, the send of
a dispatch message into the row update that decides on it (with its own
failure, `"lost_send"`), and comments and activity into nothing. `Env` says
which disturbances a run of the checker includes; one of them, `"misread"`, is a
look of the reaper at the run row that fails and counts as a row that is missing.

**`TaskBlockers`** has any number of concurrent `tasks_update` handlers, each
with its copies of rows: `CallStatus`/`CallBlockers` read (a patch may hold a
status, blockers, or both), `Walk` is the cycle
check one lookup at a time, `Update` writes what the patch holds, `Gate`,
`Block`, `Enqueue` are `dispatchTaskIfReady`, and `ListDependents`, `Check`,
`Flip`, `Wake` are `wakeBlockedDependents`. `Dies` ends a handler anywhere.
The agent's run appears as `Claim` and `Release`. `FreshSpec` is `Spec` without
the steps that act on what has changed since it was read.

**`ApprovalPromise`** is what people who answer may count on, in three
variables: the approvals given, what the current call of each caller passed on,
and the single-use approvals that are gone.

**`Approvals`** is the store of `packages/approvals-sdk` between its users.
`Call`, `Burn` and `Return` are `consumeApprovalGrant`: the read of what
covers the call, the delete of a one-shot grant that only one caller wins
(the loser falls back on a standing grant it has seen), and the end of the
call. `FindRequest` and `FileRequest` are `request()`, the lookup and the
insert. `OpenAnswer` is a route (tenant, superadmin, MCP, connections) with
what each looks at before it decides; `DecideRequest`, `MintGrant`, `MintFails`
are `decide()`; `TellDecision` is the announcement of the connections route.
`RequestLapses`, `GrantExpires`, `SessionEnds`, `RevokeGrants` are time, logout
and revocation.

**`TaskApproval`** is one task with the job steps as far as they touch
approvals (`StartJob`, `Checkout` which wipes the list, `BuildBrief` which
reads the grants, `CallOperation` with the two gates, `EndWork`, `WriteResult`
which ends the one-shot grants, `Release` which publishes the asks, `Park`,
`Finish`) and the handlers of people's answers: `AnswerOnTask` and
`AnswerInQueue` open one, `Grant`, `ReadPending`, `WritePending`, `Reread`,
`Flip`, `Dispatch` are `resolveTaskToolApproval` call by call
(`clearTaskPendingApproval` is the read and the write), `HandlerDies` ends it
anywhere. `JobFails` is a step that throws or a process that dies, at every
step: the job runs again from the top (`"again"`, where it meets its own claim,
or the task it has released already) or is given up, and then `Reap` gives its
claim back. `RunNow` and `EditStatus` are what people do to the task by hand,
asks or no asks. `loose` remembers the asks a failed park or a hand has left on
a task that can be claimed: their wiping is what `checkoutTask` says of them
("A new run supersedes the previous run's unanswered ask").

**`WorkflowRuns`** has runs, people and processes as callers, each at one step:
`Press`, `CreateRun`, `StartRun` are the dispatch; `ReachStop` (the write of
the row, `Mark`), `Suspend`, `EndRun` are execution by whoever started or
resumed the run; `Announce`, `FinishRun`, `HoldRun`, `CloseRun`, `AskReview`
are `settleGraphRun` write by write; `PostAnswer`, `Resume`, `ResumeThrows`,
`Cancel`, `CancelRow`, `Review`, `ReleaseReviewed` the routes, with no more in
their guards than the routes look at: an answer is taken for any run whose
snapshot is suspended, at a wait too, and names a stop of its own choice (`nth`,
0 for none), a cancel for any row that is not settled; `SelectDue`,
`Claim`, `ClaimMisses`, `Wake`, `WakeFails` the wake sweep; `Restart` a process
that dies, comes back and sweeps `ai.agent_run`. The engine is modelled from how
`dispatch.ts` uses it: it has a snapshot or has not, and resumes a parked one.

Definitions with the comment "Wrong" are the code with a plausible mistake in
it; no action uses them. `PROJECT.json` pairs each property with one that
breaks it.

## 3. Runs

| Run | Instance | What it shows |
|---|---|---|
| `queue_worker` | 2 workers, 2 queues, 2 messages, cap 2, 2 faults | Handler calls bounded by the cap, nothing archived without cause, no message in two hands in the prompt queue, `AtLeastOnce` implemented, every message leaves |
| `lane` | 1 agent, 2 tasks, 3 runs, 1 retry, 1 fault, 1 edit (run now, or a move to done), specialists that complete or ask, redelivery | Work only under the claim, redelivery harmless, nothing forgotten, `TaskLease` implemented |
| `reaper_runs` | 1 agent, 1 task, 3 runs, 1 retry, 2 faults, specialists that complete, reaper whose reads may fail | `in_progress` exactly while claimed; requests served; claims of dead jobs given back |
| `open_world` | 2 agents, 1 task, 2 runs, 1 fault, 2 acts of people | A run that has reported, or is suspended, holds no claim |
| `blockers` | 3 tasks, any acyclic graph, 2 handlers at once, 2 updates of status, blockers or both, 1 death, under `FreshSpec` | Graph acyclic; no wake-up lost |
| `approvals` | 2 callers of one actor (one in a session), 2 approvers on the tenant and connections routes, 2 requests, 3 calls, 1 failure between the writes of a decision | `ApprovalPromise` implemented; approved means granted; grants follow the one decision; only the winner is told; requests stack only in a race |
| `task_approval` | 2 operations (core gates one), 1 person at a time, 3 runs, 3 calls each, 4 answers, 1 fault anywhere, 1 run now or status edit, both policies | An answered task runs again, with what was approved; approved asks leave the list; an ask is wiped only after a failed park or a move by hand; an allow-once opens one run |
| `workflow_runs` | 1 run that stops up to twice, at most once for a wait, 1 person, 2 processes, 1 restart, under fairness | Parked runs can be found; timers claimed once; settled is over and asks nothing; gates block presses; waits end; ends are recorded |

Why these bounds are enough to be interesting: two runs of one task is the
smallest number at which one can take the claim of another, a third is what a
redelivery or the reaper's re-dispatch adds; one retry and one fault put a
crash between any two steps and run the job again; two faults with one retry
also use the retries up; two tasks make the lane of an agent a shared
resource; three tasks allow a wait on two blockers and a chain, and two updates
finish the two blockers at the same time, or set one while the other walks. Two callers and
two approvers race for one grant and one request, and the third call meets what
the first two left. Two asks are what it takes to answer one and leave one
open, and three runs let an approval be used, and used up. Two stops let a run
be answered at one stop from a page, or woken from a list, that is about the
other; one person is enough for that, who also crowds a run by answering or
cancelling while a sweep or the first drive is on it; two processes select the
same due run, and one of them may keep its list. `MaxRuns`, `MaxFaults`,
`MaxEdits` (in two modules), `MaxCalls`, `MaxAnswers`, `MaxParks`, `MaxWaits`, `MaxRestarts`,
`NumMsgs` are bounds of the model; `MaxRetries` and `MaxReads` are the code's
own limits, made small.

`open_world` has no redelivery and no reaper: together with runs that ask a
person and are resumed, each lets a run start without end, and the state space
is not finite. `task_approval` has `Hurry = {}`: people answer and act on a task
at rest, one after the other. That is the condition of the comments in
`resolveTaskToolApproval`; what happens to people in a hurry is below, and
`OnceServesOneRun` is proved without the condition.
Answers of a handler or a job that `died` are excused from the properties about
answers: nothing in the code repeats them. `workflow_runs` has one run: what a
press sees of another run is the guard `Active`, so a second run adds no step to
the first. Its properties leave out, by name, runs
that a restart `cut` in the middle of a call or whose record it `swept`;
`crowded` runs, which a person or a sweep with an old list took up while another
call was on them; and `stale` runs, answered for a stop they had left
(`stale_answer` shows what that does). The liveness properties excuse these only
in the row status they can be stuck in. `blockers` is checked under
`FreshSpec`, whose steps are those of the code but for the four that act on what
is no longer so (`FreshWalks`, `FreshDecisions`): what these do is told below. `lane` and `approvals` use symmetry in the tasks and in requests and
approvers, `blockers` in tasks and handlers; none of them has a liveness
property. Deadlock is not checked: once the bounds are used up and the work is
done, the system rests.

**Violations.** Four runs check what a comment or a plan of the repository
says, and the code does otherwise. `PROJECT.json` quotes the lines.

| Run | Said | Done |
|---|---|---|
| `two_specialists` | one of two concurrent checkouts wins | a retried run keeps the *finished* `ai.agent_run` row of its first attempt, so its live claim is judged stale and replaced by the job of another agent |
| `lapsed_approved` | an aged-out request can never be approved | the deciding update compares the status, not the time, and not every route looks at the time before |
| `restart_forgets_asks` | a swept run's decision is one nobody will answer | a run parked at a gate keeps its record at running, so a restart closes a question that can still be answered |
| `stale_answer` | an answer to a gate that has moved on is refused | the route looks only whether the run is parked: at the next gate it is, so the answer is taken, throws in the engine and fails the row while the graph waits |

These are also why the passing runs are conditioned as they are: the lease
holds in `lane`, where a task keeps its agent, and not with two agents.

**Met while modelling**, without a run of their own. In tasks:

* The specialist's run row is finished before the run releases; in between the
  reaper may take the claim of a live run. A crash in finalize runs the job
  again from the top. Attempts used up after registration leave `ai.agent_run`
  at running, and the task in progress, until the AI service boots.
* A read of the run row that fails counts for the reaper as a row that is missing
  (`supabase.ts:1327`): past the grace window it takes the claim of a live run.
* A gate that read a blocker before it was finished blocks the task after the
  wake-up has passed. Two updates validated before either is written close a
  cycle; `FreshWalksStayAcyclic` says that nothing else does.
* `wakeBlockedDependents` re-checks the blockers of each dependent, and goes by the
  status in the list it read before: a dependent that somebody has finished or
  cancelled since, or that another wake-up has woken and an agent claimed, is set
  to todo by id, under the run that works on it. Two updates are enough.
* A wake-up is lost by a request that dies between its two writes, by an update
  that read its task as done before somebody reopened it, by the gate above, and
  by an update that leaves a blocked task without an open blocker (the last one
  removed, or `blocked` set by hand). `WakeUpsAreNotLost` says: by nothing else.

In approvals of tasks:

* A job that fails between its release and its park leaves its asks on a task in
  `todo`. Retried, or dispatched by an answer, it claims the task again and wipes
  the asks nobody has answered; the run asks again. A person who starts or moves
  a parked task by hand does the same. `NoAskWiped` says: nothing else does.
* Two answers at once each write the list they have read, and one puts the other's
  ask back: it is advertised though it is answered. Hence one answer at a time.
* An approval between `Release` and `Park` finds nothing to flip and is refused
  by dispatch; the park then rests a task whose asks are all approved.
* The subscriber says it records a one-shot grant
  (`connections-approval-subscriber.ts:7-9`) and passes no `coreGrants`: under
  the policy `request` an answer in the queue alone lets the next run ask
  again. This is why `task_approval` uses that route only under `defer`.
* The tenant and superadmin routes audit and announce the decision of a caller
  who lost the race; connections checks `decidedBy`, which two requests of the
  *same* person both pass.

In workflow runs:

* The claim of the sweep compares the status alone, so a list older than one
  wake and one further wait claims the new sleep; met while the run is still
  being parked, its wake throws and fails the run.
* A wait suspends like a question does, and settle announces it as a decision,
  although `wait-until.ts:25` says it must not appear as one.
* A process that dies in the continuation after a gate leaves
  `requires_action`, which keeps answering presses; one that dies between claim
  and resume leaves `dispatched`. A question parks as `dispatched` and no longer
  counts as in flight when that has aged: a press then starts a second run beside
  one that waits for a person, which the comment of `findActive` means to prevent.
* An answer that names no step resumes whatever stop the run is parked at by
  then. An answer for a wait goes on before its time and leaves the row sleeping,
  so the sweep claims it all the same: met while running, its wake throws and
  fails the row; parked at a question by then, the clock continues the question
  without an answer.
* Two calls at one run, of which the engine takes one: the other throws and
  settles the run as failed while it goes on. A cancel during a drive can leave a
  held row without its review, and a late announcement leaves an ask about a
  settled run. Two presses at the same time both start.

## 4. Fairness

`QueueWorker`: a worker that is not stopped goes on polling, a handler call
ends (returns *or* throws, the model does not choose), an archive call ends,
visibility timeouts expire. The loop is a `while (running)` with every failure
caught, and timeouts are the database's clock. The weakest form is used: each
conjunct includes the failing alternative, and `MaxFaults` bounds failures.

`TaskCheckout`: the consumer delivers (the queue worker's liveness), the
manager starts pending jobs, a step of an executing job is taken (the manager
times out one that hangs), an open click of a person is finished. The reaper
is weakly fair once it has begun and strongly fair to each claimed task: the
housekeeping cycle calls it again and again and it lists every claimed task,
but a task may be claimed and free many times between two cycles. Nothing is
assumed of people, of success, or of faults. `DispatchServed` excludes two
endings by name: more faults than a job has retries, and run ids that are used
up, which is the bound of the model.

`TaskApproval`: the run of the task goes on (one weak condition for its steps:
the manager aborts a specialist that does not end), and an answer that has been
opened is carried through, by failing if it must. Nobody has to answer.

`WorkflowRuns`: one weak condition for each caller, who is at one step at a time
(`Proceeds`): a dispatch, an execution, a settle and a request that are under way
go on, and every process sweeps (a cron job of the code, `graph-wake`). A sleeping
run's time comes. Nobody has to press, answer, cancel or review, and no process
has to die.

## 5. Proofs

| Theorem | Module | Says |
|---|---|---|
| `QTypeCorrect`, `CallsBounded`, `NothingDropped`, `HandlersExclusive` | `QueueWorker_proofs` | the four invariants of `queue_worker` |
| `WorkerImplementsPromise` | `QueueWorker_proofs` | `QueueWorker` implements `AtLeastOnce` |
| `TypeCorrect`, `ReportedHoldsNothing` | `TaskCheckout_proofs` | types and `ReportedRunHoldsNothing`, every disturbance allowed, the reaper and redelivery included |
| `OneSpecialist` (from `LaneInvariant`) | `TaskLane_proofs` | two specialists never work on one task, where nobody reassigns or releases by hand; the reaper may run |
| `ClaimsAreVisible` | `TaskLane_proofs` | `InProgressIsClaimed`, every disturbance allowed |
| `WorkIsNotForgotten` | `TaskLane_proofs` | `NothingForgotten` where nobody reassigns or releases by hand and no send is lost, for as many faults as a job has retries; the reaper may run |
| `StartsAreAskedFor` | `TaskLane_proofs` | `RedeliveryHarmless` where nobody reassigns or releases by hand; the reaper may run, sends may be lost |
| `WorkingHolds`, `CheckoutImplementsLease` | `TaskLease_proofs` | the lease, where in addition no reaper runs |
| `BlockersTypes` | `TaskBlockers_proofs` | types with any number of handlers |
| `FreshWalksStayAcyclic`, `SerialUpdatesStayAcyclic` | `TaskBlockers_proofs` | no cycle, for any graph and any patches: with any number of handlers where no walk is overtaken, and where updates come one after the other |
| `FreshUpdatesAreSafe` | `TaskBlockers_proofs` | the two properties of `blockers`, under the specification it checks |
| `WakeUpsAreNotLost`, `ConcurrentFinishesWake` | `TaskBlockers_proofs` | `NoLostWakeUp` with any number of handlers: where no decision is made on a stale row, and where updates only move tasks on |
| `ApprovalsTypes`, `GrantsFromDecisions`, `ApprovedAreGranted`, `DeciderToldAlone`, `StackingIsARace` (from `ApprovalsInvariant`) | `Approvals_proofs` | the properties of `approvals`, on all four routes |
| `ApprovalsImplementPromise` | `Approvals_proofs` | `Approvals` implements `ApprovalPromise` |
| `TaskApprovalTypes`, `OnceOpensOneRun` | `TaskApproval_proofs` | types; an allow-once opens one run, however people hurry |
| `SerialAnswersAreCleared`, `SerialAnswersWipeNothing` | `TaskApproval_proofs` | `ApprovedAskCleared` and `NoAskWiped` where `Hurry = {}`, with failing jobs, restarts by hand and status edits |
| `SerialApprovalsGetThrough` | `TaskApproval_proofs` | `ApprovalGetsThrough` where in addition the queue is used only under `defer` |
| `WorkflowRunsTypes`, `TimersAreClaimedOnce` | `WorkflowRuns_proofs` | types and `WokenOnce`, with everything allowed |
| `ParkedAreFound`, `NoAskOutlives`, `SettledAreOver`, `GatesBlock` | `WorkflowRuns_proofs` | the other four invariants of `workflow_runs` |

The only assumptions are the `ASSUME`s of the modules (types of constants;
sets of callers are disjoint; `MaxReads` and the number of queues are positive)
and the conditions written in front of the theorems that need them:
`AgentsStay`, `OwnersStay` and `"lost_send" \notin Env` about the disturbances
(with `faults <= MaxRetries` in the conclusion of `WorkIsNotForgotten`),
`OneAtATime` (one handler) and `OnlyMovesOn` about handlers
and patches in `TaskBlockers_proofs`, `Hurry = {}` and `QueueOnlyIfDeferred` in
`TaskApproval_proofs`. Three theorems about blockers have a condition on steps
instead, written as `[][...]_vars` beside `Spec`: `FreshWalks`, `FreshDecisions`
and `DoneBlockersStay`; `FreshSpec` has the first two in its steps. The code does not enforce these: they say which
interleavings may break the property, and section 3 tells what happens then.

*Queue.* `HandlerCallsBounded` is not inductive: it needs `calls <= read_ct`
(`ReadsFirst`), and `ArchivedForCause` needs to know why a worker is about to
archive (`InHand`). `QInv` is the conjunction. Exclusiveness needs in addition
that a held message of a prompt queue is hidden (`HeldIsHidden`). For the
refinement each worker step is one step of the promise or none; a read whose
answer is lost is a delivery.

*Types and reports.* `TInv` adds to `TypeOK` that exactly the jobs in state
`running` are at a step (`Jobs`), and `Listed` that a reaper at work has a
task. On top of these `ReportedRunHoldsNothing` is inductive: the claim of a
run is only ever written by that run itself, at `Claim` or `ReplaceStale`, and
it reports only after it has read the row as free or has freed it, so nothing
another party does can give it the claim back.

*Lane.* What happens to one task rests on two facts: jobs, messages and claims of
a task carry the agent of its row (`Owners`), and the manager runs one job of an
agent at a time (`OneJobEach`). So one run of a task executes at a time
(`OneRunPerTask`), and while it is past its claim nobody but the reaper touches
the claim (`Mine`). They only hold together: `Owners` survives a claim because
the claim writes the agent that is already there, and `Mine` for one run needs
that no other run of the same task executes. The lane holds for as long as
nobody has acted (`Undisturbed`): `InProgressIsClaimed` needs no more, as it is
about that time. The steps of the pipeline are sorted once, in `StepTable`, by
what they do to the row (`Looks`, `Begins`, `Claims`, `Frees`, `Parks`,
`Stops`), those of the reaper, of people and of the manager in three more
tables; the proofs of the four properties are about these kinds. The
counterexample of `two_specialists` shows two specialists on one task without
`AgentsStay`.

*Nothing forgotten.* `NothingForgotten` is not inductive: a job that executes
may be one that is about to end. `Keeps` names the steps at which a run still
owes its task something, and `Promised` says that a task that is ready has a
message or such a run. A run stops being one of these when it parks the task,
and then the row update sends the next message, or when it finds the task
claimed or no longer in an entry status. A failed step costs a fault, and a job
is given up only after `MaxRetries` of them (`RetriesPaid`). That a release meets
another run's claim, which would cost a retry and no fault, does not happen in
the lane.

*Starts.* `Budget` is `RedeliveryHarmless` with a reserve: as long as another
start may follow (`MayStart`) and the last one is not under way (`Spent`), one
of the wants is unused. Parking a task in an entry status adds the want it
spends. `Asked` says that a task nobody wants to run has no job, claim or
message.

*Lease.* `LeaseInv` is the lane, and that a run that believes it holds its claim
does (`Holds`, where `Mine` allows the reaper to have taken it).

*Blockers.* The walk is a loop, so the invariant is about what it has seen:
every task it has visited waits only for tasks it has visited or has still to
look at, the new blockers are among these, and the task itself is not
(`Walked`). When the frontier is empty the visited set is closed under waiting,
and `ClosedSetKeepsAcyclic` shows that a task outside such a set may wait for
any part of it. Another request that writes while the walk goes on does no harm
unless it gives new blockers to a task the walk has passed, which is what
`FreshWalks` excludes; with one handler nobody can. That no wake-up is lost is
`DueAreWoken`: a task that waits although everything it waited for is done is
listed, or about to be listed, by some handler, and listed as it is now. A
dependent that is claimed or re-blocked in between drops out of it or has an
open blocker. Each of the three conditions in `FreshDecisions` is needed: TLC
finds a lost wake-up on three tasks and two handlers when any one is left out.
`ConcurrentFinishesWake` shows that they can be met, by updates that only finish
blockers; `FreshUpdatesAreSafe` is the run `blockers` for every instance. That a
wake-up disturbs only tasks that wait is no theorem: it fails as soon as two
requests overlap (section 3).

*Approvals.* `AInv` says what the handlers remember between two calls: an
approver about to write a grant is the one whose decision stands and none has
been written for its request (`Answering`); grants in a caller's hand were
given and cover it (`InHand`); a grant that has been used is not in the table
(`Ledger`); a request has one grant (`OneGrantPerRequest`). A delete that finds
its row is then a use nobody had before, which is the refinement. `BInv` adds
that only decided rows name a decider, that who was told decided, and that a
caller about to file knew no live request of its own (`Looked`).

*Task approvals.* For `OnceServesOneRun` it is enough to count grants a run may
still be handed (`Unserved`). Two others need that answers meet a task at
rest (`OneAtATime`), that what an answer has read is still there when it writes
(`ReadIsCurrent`), that a message is under way, or a job about to claim, only when
nothing is asked or the asks are `loose` (`DispatchedIsAnswered`), and that a run parks on nothing approved before
(`AsksAreNew`). On top of that, an approval no run has used yet is a grant that
the next call finds (`Backed`), and under the policy `request`, where a call is
judged by the brief alone, the brief of the run at work names it (`Briefed`).
`QueueOnlyIfDeferred` is the subscriber's missing grant of section 3: an answer in
the queue backs nothing that a brief is made of.

*Workflow runs.* `Doing(c, r)` says for every step of a caller what row, timer
and snapshot are when it is there, and `Resting(r)` what they are when nobody
is; `Won(r)` is a run claimed and not yet resumed, which an answer to its wait may
have brought to a question since. `Sound(r)` adds that the run
has one caller or one claimant. It is inductive for runs that are neither cut,
crowded nor stale, and each of the four properties is a case of it. A step that
concerns another run is dealt with once, in `Frame` and `Elsewhere`.

**Model-checked only**: liveness (`EveryMessageLeaves`, `DispatchServed`,
`DeadClaimReleased`, `AnsweredTaskRuns`, `WaitsEnd`, `EndsAreRecorded`), because the prover does not reason about fairness and
`ENABLED`. Every invariant, safety action property and refinement that a passing
run checks is also a theorem, under the conditions above.

## 6. What is not modelled, inside the modelled parts

* Queue: `pop`, `sendBatch`, `delete` and the metrics call; no worker uses them.
* Tasks: identifiers, comments, activity, attachments, search, deletion and
  reordering; the permission checks before an update;
  `canTransitionTaskStatus`. The comment to a parent whose children are
  complete writes no task row.
* Blockers: the cap of 4096 lookups of the cycle check only refuses updates.
  The `blocked` a failed specialist leaves behind is in `TaskCheckout`, the
  `blocked` of the gate in `TaskBlockers`; they are not composed.
* Jobs: the timeout of the manager is one more way a step fails. The queue's
  read cap is not repeated in `TaskCheckout`: a message may be redelivered
  without end there, which allows more than the code does.
* A lost send leaves a dispatchable task waiting for its next edit. The code
  accepts this; `NothingForgotten` is checked without it.
* The grace window of the reaper is the assumption `GraceOver`: a run that has
  claimed its task writes its run row before the window ends, unless it fails.
* Cancelled runs, and the status `interrupted` of conversation runs, which no
  task run takes.
* Grants: who may see or decide a request, the capability grants of goals, the
  grants the chat lane keeps in memory. `Approvals` is about one operation of
  one module and tenant, as every query of the store is.
* Task approvals: denials (a comment, and nothing else), expiry of the grants
  (in `Approvals`), a reassignment of the task while it waits. Run now and a
  status edit are one action each here, and a task is reaped only when its run is
  dead; reads and writes of other parties between those of a run, and a reaper
  that meets a live one, are in `TaskCheckout`.
* Workflow runs: stepping a run back (the engine's time travel), replays of an idempotency key, the mirror
  task with its nested owner, previews, the outcome `sleeping` that no call
  returns, database failures of the status writes (each is swallowed), the
  texts of a report, and the limit of 25 runs a sweep takes at a time. A stop is
  named by its number in the run, where the code has the step's path. That a wait
  lasts longer than its run takes to park is the assumption in `ComesDue`.

## 7. What is left

In the order in which it would be worth doing:

1. Composition: `QueueWorker` under `TaskCheckout`'s queue, `TaskBlockers`'
   gate inside its dispatch, and `TaskApproval`'s pending list in its release;
   cancellation and deletion. The promises (`AtLeastOnce`, `TaskLease`,
   `ApprovalPromise`) are stated so that a composition can use them in place of
   the detailed modules, which together are beyond the model checker.
2. The mirror task of a workflow run, a second way into dispatch.
3. Conversation runs: resume claims and orphaned interrupts, the abort
   registry, the event log a client re-attaches to. Most of their state lives
   in one process beside a streamed model call.
4. Heartbeat synchronisation, the package lifecycle executor and app releases:
   one writer each, steps that are repeated until they succeed.
5. Conditions on steps in place of conditions on the instance:
   `SerialAnswersAreCleared` and `SerialAnswersWipeNothing` for the answers that
   do not meet, as `FreshWalksStayAcyclic` does it for the walk; and that a
   wake-up over a fresh list disturbs nobody.
