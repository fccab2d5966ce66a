---------------------------- MODULE TaskApproval ----------------------------
(***************************************************************************)
(* The approvals of one task: a run that meets a gated operation parks and *)
(* records what it asked for; people approve, on the task or in the queue  *)
(* of the connections module; the last answer dispatches the task again    *)
(* and the next run is meant to get through.  The task row, the grants,    *)
(* the requests of core and the runs are shared by handlers that read and  *)
(* write in separate calls.  A job that fails runs again from the top, and *)
(* people may start the task or move its status by hand.                   *)
(*                                                                         *)
(* The task belongs to one agent, whose jobs run one at a time, and has no *)
(* blockers.  Expiry of grants is left to Approvals, the race of a reaper  *)
(* with a live run to TaskCheckout.                                        *)
(***************************************************************************)
EXTENDS Naturals, TaskLifecycle

CONSTANTS Ops,          \* operations an approval can be needed for
          CoreGated,    \* the ones core gates too, whatever the run's policy
          Humans,
          Policies,     \* approval policies a run may work under
          Routes,       \* where people answer, under each policy
          Hurry,        \* "live": they answer while a run is on its way;
                        \* "together": two of them at the same time
          Edits,        \* statuses people may give the task by hand
          MaxRuns, MaxCalls, MaxAnswers, MaxEdits, MaxFaults   \* bounds

ASSUME TaskApprovalAssumption ==
  /\ CoreGated \subseteq Ops
  /\ Policies \subseteq {"request", "defer"}
  /\ Routes \in [Policies -> SUBSET {"task", "connections"}]
  /\ Edits \subseteq TaskStatuses
  /\ MaxRuns \in Nat /\ MaxCalls \in Nat /\ MaxAnswers \in Nat
  /\ MaxEdits \in Nat /\ MaxFaults \in Nat

Scopes == {"once", "task"}

VARIABLES
  status, claimed, pending,  \* the task row: claimed is checkout_run_id # null
  once, standing,    \* approval_grants with the task as subject
  minted,            \* once grants of the agent, written by decide()
  request,           \* approval_requests of the agent for this task
  queue,             \* dispatch messages under way
  policy,            \* the approval policy of the runs
  pc, brief, asked,  \* the run: its step, the grants it was handed, its asks
  runs, callsMade,   \* bounds: runs started, calls of the run
  at, op, left, scope, seen, ready, \* the handlers of people's answers: left
                     \* are the operations of the answer still to grant
  answers, edits, faults,   \* bounds
  asks, answered,    \* history: what the last run parked on, and what of it
                     \* has been approved since it was asked
  fresh,             \* history: approved, and not yet used by a run
  died,              \* history: approved, but the handler or the job that was
                     \* to act on it gave up
  loose,             \* history: asks were left on a task that a failed job did
                     \* not park, or that somebody then moved by hand
  granted, served    \* history: once grants on the task, runs they opened

rowVars == <<status, claimed, pending>>
grantVars == <<once, standing, minted, request>>
runVars == <<queue, policy, pc, brief, asked, runs, callsMade>>
handlerVars == <<at, op, left, scope, seen, ready, answers, edits>>
historyVars == <<asks, answered, fresh, died, loose, granted, served>>
vars == <<rowVars, grantVars, runVars, handlerVars, historyVars, faults>>

TypeOK ==
  /\ status \in TaskStatuses
  /\ claimed \in BOOLEAN
  /\ pending \subseteq Ops
  /\ once \in [Ops -> Nat] /\ minted \in [Ops -> Nat]
  /\ standing \subseteq Ops
  /\ request \in [Ops -> {"none", "pending", "approved"}]
  /\ queue \in Nat
  /\ policy \in Policies
  /\ pc \in {"none", "checkout", "again", "brief", "work", "write", "release",
             "park", "finish"}
  /\ brief \subseteq Ops /\ asked \subseteq Ops
  /\ runs \in 0..MaxRuns /\ callsMade \in 0..MaxCalls
  /\ at \in [Humans -> {"idle", "grant", "clear", "write", "reread", "flip",
                        "dispatch"}]
  /\ op \in [Humans -> Ops \union {"none"}]
  /\ left \in [Humans -> SUBSET Ops]
  /\ scope \in [Humans -> Scopes]
  /\ seen \in [Humans -> SUBSET Ops]
  /\ ready \in [Humans -> BOOLEAN]
  /\ answers \in 0..MaxAnswers /\ edits \in 0..MaxEdits /\ faults \in 0..MaxFaults
  /\ asks \subseteq Ops /\ answered \subseteq Ops
  /\ fresh \subseteq Ops /\ died \subseteq Ops /\ loose \in BOOLEAN
  /\ granted \in [Ops -> Nat] /\ served \in [Ops -> Nat]

\* A task that has just been dispatched for the first time.
Init ==
  /\ status = "todo" /\ claimed = FALSE /\ pending = {}
  /\ once = [o \in Ops |-> 0] /\ minted = [o \in Ops |-> 0] /\ standing = {}
  /\ request = [o \in Ops |-> "none"]
  /\ queue = 1
  /\ policy \in Policies
  /\ pc = "none" /\ brief = {} /\ asked = {} /\ runs = 0 /\ callsMade = 0
  /\ at = [h \in Humans |-> "idle"]
  /\ op = [h \in Humans |-> "none"]
  /\ left = [h \in Humans |-> {}]
  /\ scope = [h \in Humans |-> "once"]
  /\ seen = [h \in Humans |-> {}]
  /\ ready = [h \in Humans |-> FALSE]
  /\ answers = 0 /\ edits = 0 /\ faults = 0
  /\ asks = {} /\ answered = {} /\ fresh = {} /\ died = {} /\ loose = FALSE
  /\ granted = [o \in Ops |-> 0] /\ served = [o \in Ops |-> 0]

-----------------------------------------------------------------------------
(* A run of the task *)

Goto(step) == pc' = step

\* A fault of a call whose error the code swallows.
Fails == faults < MaxFaults /\ faults' = faults + 1
Works == UNCHANGED faults

\* The dispatch consumer starts a job when the lane of the agent is free.
StartJob ==
  /\ pc = "none" /\ queue > 0 /\ runs < MaxRuns
  /\ queue' = queue - 1
  /\ runs' = runs + 1
  /\ Goto("checkout")
  /\ UNCHANGED <<rowVars, grantVars, policy, brief, asked, callsMade,
                 handlerVars, historyVars, faults>>

\* The row is claimed: the new run supersedes the unanswered asks of the last
\* one.
Claim ==
  /\ status' = "in_progress"
  /\ claimed' = TRUE
  /\ pending' = {}
  /\ asks' = {}
  /\ answered' = {}
  /\ loose' = FALSE
  /\ Goto("brief")

\* A job that runs again meets the claim it has taken before.
OwnClaim == pc = "again" /\ claimed

\* checkoutTask: its own claim in progress is returned as it is, a free task or
\* one of its own is claimed from an entry status, the claim of a job that gave
\* up is replaced unless its run still seems alive, and all else is a conflict.
Checkout ==
  /\ pc \in {"checkout", "again"}
  /\ \/ /\ OwnClaim /\ status = "in_progress"
        /\ Goto("brief")
        /\ UNCHANGED <<rowVars, asks, answered, loose>>
     \/ /\ ~claimed \/ OwnClaim
        /\ status \in EntryStatuses
        /\ Claim
     \/ /\ claimed /\ ~OwnClaim
        /\ Claim
     \/ /\ IF OwnClaim THEN status \notin EntryStatuses \union {"in_progress"}
                       ELSE claimed \/ status \notin EntryStatuses
        /\ Goto("none")
        /\ UNCHANGED <<rowVars, asks, answered, loose>>
  /\ UNCHANGED <<grantVars, queue, policy, brief, asked, runs, callsMade,
                 handlerVars, fresh, died, granted, served, faults>>

\* Wrong: only the standing ones.
EffectiveStanding == standing
\* tasks_approval_grants_effective: grants that name the task, none of others.
Effective == standing \union {o \in Ops : once[o] > 0}

\* buildBriefStep: a read that fails grants nothing.
BuildBrief ==
  /\ pc = "brief"
  /\ \/ brief' = Effective /\ Works
     \/ brief' = {} /\ Fails
  /\ served' = [o \in Ops |-> IF o \in brief' \ standing THEN served[o] + 1
                                                         ELSE served[o]]
  /\ asked' = {}
  /\ callsMade' = 0
  /\ Goto("work")
  /\ UNCHANGED <<rowVars, grantVars, queue, policy, runs, handlerVars, asks,
                 answered, fresh, died, loose, granted>>

\* A call of o goes through.
Passes(o) ==
  /\ fresh' = (fresh \ {o}) \union ({o} \intersect standing)
  /\ UNCHANGED <<request, asked, answered>>

\* onApprovalRequired: the run notes the ask and goes on without o.
Asks(o) ==
  /\ asked' = asked \union {o}
  /\ answered' = answered \ {o}
  /\ UNCHANGED <<once, minted, fresh>>

\* The gate of core: it spends a single-use grant, honours a standing one, or
\* files a request.
CoreGate(o) ==
  \/ /\ once[o] > 0
     /\ once' = [once EXCEPT ![o] = @ - 1]
     /\ UNCHANGED minted
     /\ Passes(o)
  \/ /\ minted[o] > 0
     /\ minted' = [minted EXCEPT ![o] = @ - 1]
     /\ UNCHANGED once
     /\ Passes(o)
  \/ /\ once[o] = 0 /\ minted[o] = 0 /\ o \in standing
     /\ UNCHANGED <<once, minted>>
     /\ Passes(o)
  \/ /\ once[o] = 0 /\ minted[o] = 0 /\ o \notin standing
     /\ request' = [request EXCEPT ![o] = "pending"]
     /\ Asks(o)

\* The specialist calls o.  Under "request" only what its brief names gets as
\* far as core; under "defer" core decides alone.
CallOperation(o) ==
  /\ pc = "work" /\ callsMade < MaxCalls
  /\ callsMade' = callsMade + 1
  /\ \/ /\ policy = "request" /\ o \notin brief
        /\ Asks(o)
        /\ UNCHANGED request
     \/ /\ policy = "request" => o \in brief
        /\ IF o \in CoreGated
           THEN CoreGate(o)
           ELSE UNCHANGED <<once, minted>> /\ Passes(o)
  /\ UNCHANGED <<rowVars, standing, queue, policy, pc, brief, runs, handlerVars,
                 asks, died, loose, granted, served, faults>>

\* A specialist that fails reports the failure and none of its asks.
EndWork ==
  /\ pc = "work"
  /\ asked' \in {asked, {}}
  /\ Goto("write")
  /\ UNCHANGED <<rowVars, grantVars, queue, policy, brief, runs, callsMade,
                 handlerVars, historyVars, faults>>

\* Wrong: the grants outlive the run.
WriteResultOnly ==
  /\ pc = "write"
  /\ fresh' = fresh \intersect standing
  /\ Goto("release")
  /\ UNCHANGED <<rowVars, grantVars, queue, policy, brief, asked, runs,
                 callsMade, handlerVars, asks, answered, died, loose, granted,
                 served, faults>>
\* writeResultStep, tasks_clear_once_approvals: the single-use grants of the
\* task end, unless the call fails.
WriteResult ==
  /\ pc = "write"
  /\ \/ once' = [o \in Ops |-> 0] /\ Works
     \/ UNCHANGED once /\ Fails
  /\ fresh' = fresh \intersect standing
  /\ Goto("release")
  /\ UNCHANGED <<rowVars, standing, minted, request, queue, policy, brief,
                 asked, runs, callsMade, handlerVars, asks, answered, died, loose,
                 granted, served>>

\* finalizeStep: the release records the asks of the run; the update that parks
\* the task is a second call.
Release ==
  /\ pc = "release"
  /\ status' = "todo"
  /\ claimed' = FALSE
  /\ pending' = asked
  /\ asks' = asked
  /\ Goto("park")
  /\ UNCHANGED <<grantVars, queue, policy, brief, asked, runs, callsMade,
                 handlerVars, answered, fresh, died, loose, granted, served,
                 faults>>

\* A run without asks has completed, failed or put a question.
RestingStatuses ==
  IF asked # {} THEN {"in_review"} ELSE {"in_review", "done", "blocked"}

\* Wrong: the status of the envelope is written to the task.
ParkAsReleased ==
  /\ pc = "park"
  /\ status' = "released"
  /\ asked' = {}
  /\ Goto("finish")
  /\ UNCHANGED <<claimed, pending, grantVars, queue, policy, brief, runs,
                 callsMade, handlerVars, historyVars, faults>>
Park ==
  /\ pc = "park"
  /\ status' \in RestingStatuses
  /\ asked' = {}
  /\ Goto("finish")
  /\ UNCHANGED <<claimed, pending, grantVars, queue, policy, brief, runs,
                 callsMade, handlerVars, historyVars, faults>>

\* finishTaskJobRun, the notice in the inbox, and the job is over.
Finish ==
  /\ pc = "finish"
  /\ Goto("none")
  /\ UNCHANGED <<rowVars, grantVars, queue, policy, brief, asked, runs,
                 callsMade, handlerVars, historyVars, faults>>

\* A step of the job throws or the process dies.  The manager runs the job again
\* from the top, under the same run id, or gives it up.
JobFails ==
  /\ pc # "none"
  /\ Fails
  /\ asked' = {}
  /\ loose' = (loose \/ (pc = "park" /\ pending # {}))
  /\ \/ /\ Goto(IF pc = "checkout" THEN "checkout" ELSE "again")
        /\ UNCHANGED died
     \/ /\ Goto("none")
        /\ died' = IF pc \in {"checkout", "again"} THEN died \union asks ELSE died
  /\ UNCHANGED <<rowVars, grantVars, queue, policy, brief, runs, callsMade,
                 handlerVars, asks, answered, fresh, granted, served>>

\* reapStaleCheckouts: a claim whose job gave up is released and dispatched.
Reap ==
  /\ pc = "none" /\ claimed
  /\ status' = "todo"
  /\ claimed' = FALSE
  /\ pending' = {}
  /\ queue' = queue + 1
  /\ UNCHANGED <<grantVars, policy, pc, brief, asked, runs, callsMade,
                 handlerVars, historyVars, faults>>

-----------------------------------------------------------------------------
(* What people do *)

AtRest == pc = "none" /\ queue = 0 /\ ~claimed

\* People act when they like, or one after the other and on a task at rest.
MayAct ==
  /\ "together" \in Hurry \/ \A h \in Humans : at[h] = "idle"
  /\ "live" \in Hurry \/ AtRest

\* By hand, whatever the task still asks.
ByHand ==
  /\ MayAct
  /\ edits < MaxEdits
  /\ edits' = edits + 1
  /\ loose' = (loose \/ pending # {})
  /\ UNCHANGED <<claimed, pending, grantVars, policy, pc, brief, asked, runs,
                 callsMade, at, op, left, scope, seen, ready, answers, asks,
                 answered, fresh, died, granted, served, faults>>

\* runTaskNow: refused for a task that is over or claimed.
RunNow ==
  /\ ByHand
  /\ ~claimed /\ status \notin TerminalStatuses
  /\ status' = IF status \in EntryStatuses THEN status ELSE "todo"
  /\ queue' = queue + 1

\* tasks_update: every update dispatches when the result is dispatchable.
EditStatus(s) ==
  /\ ByHand
  /\ status' = s
  /\ queue' = IF Dispatchable(TRUE, claimed, s) THEN queue + 1 ELSE queue

-----------------------------------------------------------------------------
(* An answer: resolveTaskToolApproval *)

\* People answer what is shown to them.  A denial writes a comment and changes
\* nothing else, so it is no step here.
Opens(h) ==
  /\ at[h] = "idle"
  /\ answers < MaxAnswers
  /\ answers' = answers + 1
  /\ MayAct

\* One card approves some or all of the asks of the task.
AnswerOnTask(h, ops, s) ==
  /\ "task" \in Routes[policy]
  /\ Opens(h)
  /\ ops # {} /\ ops \subseteq pending
  /\ at' = [at EXCEPT ![h] = "grant"]
  /\ left' = [left EXCEPT ![h] = ops]
  /\ scope' = [scope EXCEPT ![h] = s]
  /\ UNCHANGED <<rowVars, grantVars, runVars, op, seen, ready, edits, historyVars,
                 faults>>

\* coreGrants.grant: named after the task, for whoever does its work.
Grant(h, o) ==
  /\ at[h] = "grant"
  /\ o \in left[h]
  /\ op' = [op EXCEPT ![h] = o]
  /\ left' = [left EXCEPT ![h] = @ \ {o}]
  /\ IF scope[h] = "once"
     THEN /\ once' = [once EXCEPT ![o] = @ + 1]
          /\ granted' = [granted EXCEPT ![o] = @ + 1]
          /\ UNCHANGED standing
     ELSE /\ standing' = standing \union {o}
          /\ UNCHANGED <<once, granted>>
  /\ answered' = answered \union {o}
  /\ fresh' = fresh \union {o}
  /\ died' = died \ {o}
  /\ at' = [at EXCEPT ![h] = "clear"]
  /\ UNCHANGED <<rowVars, minted, request, runVars, scope, seen, ready, answers,
                 edits, asks, loose, served, faults>>

\* The connections route decides the request, which mints a once grant of the
\* agent; the event it emits resumes the task without a grant of its own.
AnswerInQueue(h, o) ==
  /\ "connections" \in Routes[policy]
  /\ Opens(h)
  /\ request[o] = "pending"
  /\ request' = [request EXCEPT ![o] = "approved"]
  /\ minted' = [minted EXCEPT ![o] = @ + 1]
  /\ answered' = answered \union {o}
  /\ fresh' = fresh \union {o}
  /\ died' = died \ {o}
  /\ at' = [at EXCEPT ![h] = "clear"]
  /\ op' = [op EXCEPT ![h] = o]
  /\ UNCHANGED <<rowVars, once, standing, runVars, left, scope, seen, ready,
                 edits, asks, loose, granted, served, faults>>

\* The loop over the operations of the answer.
Cleared(h) == IF left[h] = {} THEN "reread" ELSE "grant"

\* clearTaskPendingApproval reads the list ...
ReadPending(h) ==
  /\ at[h] = "clear"
  /\ seen' = [seen EXCEPT ![h] = pending]
  /\ at' = [at EXCEPT ![h] = IF op[h] \in pending THEN "write" ELSE Cleared(h)]
  /\ UNCHANGED <<rowVars, grantVars, runVars, op, left, scope, ready, answers,
                 edits, historyVars, faults>>

\* Wrong: the list is written back as it was read.
WritePendingAsRead(h) ==
  /\ at[h] = "write"
  /\ pending' = seen[h]
  /\ at' = [at EXCEPT ![h] = Cleared(h)]
  /\ UNCHANGED <<status, claimed, grantVars, runVars, op, left, scope, seen,
                 ready, answers, edits, historyVars, faults>>
\* ... and writes it back without the answered operation.
WritePending(h) ==
  /\ at[h] = "write"
  /\ pending' = seen[h] \ {op[h]}
  /\ at' = [at EXCEPT ![h] = Cleared(h)]
  /\ UNCHANGED <<status, claimed, grantVars, runVars, op, left, scope, seen,
                 ready, answers, edits, historyVars, faults>>

Done(h) ==
  /\ at' = [at EXCEPT ![h] = "idle"]
  /\ op' = [op EXCEPT ![h] = "none"]
  /\ left' = [left EXCEPT ![h] = {}]
  /\ scope' = [scope EXCEPT ![h] = "once"]
  /\ seen' = [seen EXCEPT ![h] = {}]
  /\ ready' = [ready EXCEPT ![h] = FALSE]

\* Wrong: the first approval dispatches.
WaitsForNone == FALSE
\* With asks left the task stays parked.
WaitsForMore == pending # {}

\* Wrong: only from the status a failed run rests in.
NeedsFlipIfBlocked == ~claimed /\ status = "blocked"
\* The task goes back to an entry status, unless it is over or a run holds it.
NeedsFlip == ~claimed /\ status \notin TerminalStatuses \union EntryStatuses

\* Both questions are asked of the row as it is now.
Reread(h) ==
  /\ at[h] = "reread"
  /\ \/ /\ WaitsForMore
        /\ Done(h)
     \/ /\ ~WaitsForMore /\ NeedsFlip
        /\ at' = [at EXCEPT ![h] = "flip"]
        /\ UNCHANGED <<op, left, scope, seen, ready>>
     \/ /\ ~WaitsForMore /\ ~NeedsFlip
        /\ ready' = [ready EXCEPT ![h] = Dispatchable(TRUE, claimed, status)]
        /\ at' = [at EXCEPT ![h] = "dispatch"]
        /\ UNCHANGED <<op, left, scope, seen>>
  /\ UNCHANGED <<rowVars, grantVars, runVars, answers, edits, historyVars, faults>>

Flip(h) ==
  /\ at[h] = "flip"
  /\ status' = "todo"
  /\ ready' = [ready EXCEPT ![h] = Dispatchable(TRUE, claimed, status')]
  /\ at' = [at EXCEPT ![h] = "dispatch"]
  /\ UNCHANGED <<claimed, pending, grantVars, runVars, op, left, scope, seen,
                 answers, edits, historyVars, faults>>

\* dispatchTaskIfReady judges the row it was handed.
Dispatch(h) ==
  /\ at[h] = "dispatch"
  /\ queue' = IF ready[h] THEN queue + 1 ELSE queue
  /\ Done(h)
  /\ UNCHANGED <<rowVars, grantVars, policy, pc, brief, asked, runs, callsMade,
                 answers, edits, historyVars, faults>>

\* The handler fails or its process ends; what it has written stays.
HandlerDies(h) ==
  /\ at[h] # "idle"
  /\ Fails
  /\ died' = died \union ({op[h]} \intersect Ops)
  /\ Done(h)
  /\ UNCHANGED <<rowVars, grantVars, runVars, answers, edits, asks, answered, fresh,
                 loose, granted, served>>

-----------------------------------------------------------------------------
RunStep ==
  \/ StartJob \/ Checkout \/ BuildBrief
  \/ \E o \in Ops : CallOperation(o)
  \/ EndWork \/ WriteResult \/ Release \/ Park \/ Finish
HandlerStep(h) ==
  \/ \E o \in Ops : Grant(h, o)
  \/ ReadPending(h) \/ WritePending(h) \/ Reread(h) \/ Flip(h) \/ Dispatch(h)
Answer(h) ==
  \/ \E ops \in SUBSET pending, s \in Scopes : AnswerOnTask(h, ops, s)
  \/ \E o \in Ops : AnswerInQueue(h, o)

People == RunNow \/ \E s \in Edits : EditStatus(s)

Next ==
  \/ RunStep \/ JobFails \/ Reap \/ People
  \/ \E h \in Humans : Answer(h) \/ HandlerStep(h) \/ HandlerDies(h)

Spec == Init /\ [][Next]_vars

\* Jobs and handlers go on; a specialist ends (the manager aborts one that does
\* not).  Nobody has to answer.
Fairness ==
  /\ WF_vars(RunStep)
  /\ \A h \in Humans : WF_vars(HandlerStep(h))

FairSpec == Spec /\ Fairness

-----------------------------------------------------------------------------
(* Properties *)

\* An allow-once on the task opens at most one run: what a run was handed and
\* did not use ends with it, save for a cleanup that fails (buildBriefStep,
\* writeResultStep).
OnceServesOneRun == \A o \in Ops : served[o] <= granted[o] + faults

\* A task whose every ask has been approved runs again, failed parks, restarts
\* by hand and changed statuses between: unless a handler dies or the job is
\* given up before its checkout, no answer ends with the task parked and nobody
\* left to start it.  One that somebody has closed stays closed
\* (resolveTaskToolApproval).
AnsweredTaskRuns ==
  asks # {} /\ asks \subseteq answered
    ~> \/ asks = {} \/ asks \intersect died # {}
       \/ status \in TerminalStatuses
       \/ runs = MaxRuns

\* The run an approval leads to gets its call through: it does not ask again
\* for what has just been approved, unless its grants could not be read.
ApprovalGetsThrough ==
  [][\A o \in Ops : o \in asked' \ asked => o \notin fresh \/ faults > 0]_vars

\* Approving one of several asks never costs the others: answers dispatch the
\* task only after the last of them, so the checkout that wipes a question nobody
\* has answered is the one of a job that failed between its release and its park,
\* or of a task somebody moved by hand (resolveTaskToolApproval, checkoutTask).
NoAskWiped == [][~claimed /\ claimed' /\ pending # {} => loose]_vars

\* The task does not go on advertising an ask that has been approved, once the
\* handler of the approval is through.
ApprovedAskCleared ==
  \A o \in (asks \intersect answered) \ died : o \in pending =>
    \E h \in Humans : op[h] = o /\ at[h] \in {"clear", "write"}

=============================================================================
