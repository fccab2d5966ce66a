---------------------------- MODULE TaskBlockers ----------------------------
(***************************************************************************)
(* The dependency graph of tasks (modules/tasks): blocked_by_task_ids, its *)
(* validation, the gate every dispatch passes, and the wake-up of the      *)
(* tasks that waited for one that is done.                                 *)
(*                                                                         *)
(* The requests that update tasks run concurrently, each one a handler     *)
(* with its own copy of the rows it has read; an action is one database    *)
(* call and the code up to the next.  Every task is assigned to an agent.  *)
(* The run of an agent (TaskCheckout) appears here as its claim and its    *)
(* release; what it does next is one of the updates.                       *)
(***************************************************************************)
EXTENDS Naturals, TaskLifecycle

CONSTANTS Tasks, NoTask, Handlers,
          InitialGraphs,  \* blocked_by relations to start from
          InitialStatuses, \* statuses to start from
          PatchStatuses,  \* statuses an update may ask for
          PatchBlockers,  \* blocker sets an update may ask for
          MaxCalls,       \* bound: updates called
          MaxFaults       \* bound: handlers that die on the way

\* No task waits for itself, not even through others: every group of tasks has
\* one that waits for none of them.
IsAcyclic(graph) ==
  \A S \in SUBSET Tasks \ {{}} : \E t \in S : graph[t] \intersect S = {}

ASSUME BlockersAssumption ==
  /\ NoTask \notin Tasks
  /\ InitialGraphs \subseteq {g \in [Tasks -> SUBSET Tasks] : IsAcyclic(g)}
  /\ InitialStatuses \subseteq {"backlog", "todo", "blocked"}
  /\ PatchStatuses \subseteq TaskStatuses
  /\ PatchBlockers \subseteq SUBSET Tasks
  /\ MaxCalls \in Nat
  /\ MaxFaults \in Nat

VARIABLES
  status, blockedBy, claimed,  \* the task rows; claimed: checkout_run_id is set
  queue,                       \* tasks with a dispatch message
  at,                          \* where each handler is
  task,                        \* the task it updates
  patch,                       \* [status, blockers]: "keep" is no new status
  wasDone,                     \* existing.status was done when it was read
  frontier, visited,           \* the walk of validateBlockedBy
  row,                         \* the row or the dependents it has read last
  todo, dep,                   \* dependents still to look at, and the current one
  calls, faults                \* bounds

rowVars == <<status, blockedBy, claimed, queue>>
callVars == <<task, patch, wasDone>>
walkVars == <<frontier, visited>>
wakeVars == <<todo, dep>>
vars == <<rowVars, at, callVars, walkVars, row, wakeVars, calls, faults>>

Rows == [status : [Tasks -> TaskStatuses], claimed : [Tasks -> BOOLEAN],
         blockedBy : [Tasks -> SUBSET Tasks]]

\* "update" and "flip" write, "queue" and "wake" send, the others read.
Places == {"idle", "walk", "update", "gate", "block", "queue", "dependents",
           "check", "flip", "wake"}

TypeOK ==
  /\ status \in [Tasks -> TaskStatuses]
  /\ blockedBy \in [Tasks -> SUBSET Tasks]
  /\ claimed \in [Tasks -> BOOLEAN]
  /\ queue \subseteq Tasks
  /\ at \in [Handlers -> Places]
  /\ task \in [Handlers -> Tasks \union {NoTask}]
  /\ patch \in [Handlers -> [status : TaskStatuses \union {"keep"},
                             blockers : SUBSET Tasks, sets : BOOLEAN]]
  /\ wasDone \in [Handlers -> BOOLEAN]
  /\ frontier \in [Handlers -> SUBSET Tasks]
  /\ visited \in [Handlers -> SUBSET Tasks]
  /\ row \in [Handlers -> Rows]
  /\ todo \in [Handlers -> SUBSET Tasks]
  /\ dep \in [Handlers -> Tasks \union {NoTask}]
  /\ calls \in 0..MaxCalls
  /\ faults \in 0..MaxFaults

\* The rows as a select returns them, and the copies no handler needs any more.
Snapshot == [status |-> status, claimed |-> claimed, blockedBy |-> blockedBy]
NoRows == [status |-> [t \in Tasks |-> "backlog"],
           claimed |-> [t \in Tasks |-> FALSE],
           blockedBy |-> [t \in Tasks |-> {}]]
NoPatch == [status |-> "keep", blockers |-> {}, sets |-> FALSE]

\* As tasks_create left them: tasks with blockers were gated or only planned.
Init ==
  /\ blockedBy \in InitialGraphs
  /\ status \in [Tasks -> InitialStatuses]
  /\ \A t \in Tasks :
       status[t] # "backlog" => (status[t] = "blocked" <=> blockedBy[t] # {})
  /\ claimed = [t \in Tasks |-> FALSE]
  /\ queue = {t \in Tasks : StartsOnCreate(status[t])}
  /\ at = [h \in Handlers |-> "idle"]
  /\ task = [h \in Handlers |-> NoTask]
  /\ patch = [h \in Handlers |-> NoPatch]
  /\ wasDone = [h \in Handlers |-> FALSE]
  /\ frontier = [h \in Handlers |-> {}]
  /\ visited = [h \in Handlers |-> {}]
  /\ row = [h \in Handlers |-> NoRows]
  /\ todo = [h \in Handlers |-> {}]
  /\ dep = [h \in Handlers |-> NoTask]
  /\ calls = 0
  /\ faults = 0

\* openBlockerIds: only done resolves a blocker, cancelled does not.
OpenBlockers(ids, st) == {b \in ids : st[b] # "done"}

-----------------------------------------------------------------------------
(* tasks_update: read, validate, write *)

\* The handler returns or throws: its copies are gone.
Ends(h) ==
  /\ at' = [at EXCEPT ![h] = "idle"]
  /\ task' = [task EXCEPT ![h] = NoTask]
  /\ patch' = [patch EXCEPT ![h] = NoPatch]
  /\ wasDone' = [wasDone EXCEPT ![h] = FALSE]
  /\ frontier' = [frontier EXCEPT ![h] = {}]
  /\ visited' = [visited EXCEPT ![h] = {}]
  /\ row' = [row EXCEPT ![h] = NoRows]
  /\ todo' = [todo EXCEPT ![h] = {}]
  /\ dep' = [dep EXCEPT ![h] = NoTask]

Call(h, t, p, place) ==
  /\ at[h] = "idle"
  /\ calls < MaxCalls
  /\ calls' = calls + 1
  /\ at' = [at EXCEPT ![h] = place]
  /\ task' = [task EXCEPT ![h] = t]
  /\ patch' = [patch EXCEPT ![h] = p]
  /\ wasDone' = [wasDone EXCEPT ![h] = status[t] = "done"]
  /\ UNCHANGED <<rowVars, visited, row, wakeVars, faults>>

\* The row is read; a patch without blockers goes straight to the update.
CallStatus(h, t, s) ==
  /\ Call(h, t, [status |-> s, blockers |-> {}, sets |-> FALSE], "update")
  /\ UNCHANGED frontier

\* A patch with blockers, and perhaps a status with them.  validateBlockedBy
\* refuses a self reference, and walks a set that is not empty.
CallBlockers(h, t, s, B) ==
  /\ t \notin B
  /\ Call(h, t, [status |-> s, blockers |-> B, sets |-> TRUE],
          IF B = {} THEN "update" ELSE "walk")
  /\ frontier' = [frontier EXCEPT ![h] = B]

\* Wrong: only the blockers themselves are looked at, not what they wait for.
WalkDirectOnly(h) ==
  \E id \in frontier[h] :
    /\ at[h] = "walk"
    /\ IF task[h] \in blockedBy[id]
       THEN Ends(h)
       ELSE LET next == frontier[h] \ {id}
            IN /\ frontier' = [frontier EXCEPT ![h] = next]
               /\ at' = [at EXCEPT ![h] = IF next = {} THEN "update" ELSE "walk"]
               /\ UNCHANGED <<callVars, visited, row, wakeVars>>
    /\ UNCHANGED <<rowVars, calls, faults>>

\* One getBlockedByIds of the walk: reaching the task itself is refused, the
\* walk ends when nothing new is left.  The order of the walk and its cap of
\* 4096 steps decide only whether a call is refused.
Walk(h) ==
  \E id \in frontier[h] :
    /\ at[h] = "walk"
    /\ IF task[h] \in blockedBy[id]
       THEN Ends(h)
       ELSE LET seen == visited[h] \union {id}
                next == (frontier[h] \union blockedBy[id]) \ seen
            IN /\ visited' = [visited EXCEPT ![h] = seen]
               /\ frontier' = [frontier EXCEPT ![h] = next]
               /\ at' = [at EXCEPT ![h] = IF next = {} THEN "update" ELSE "walk"]
               /\ UNCHANGED <<callVars, row, wakeVars>>
    /\ UNCHANGED <<rowVars, calls, faults>>

IsDispatchable(r, t) == Dispatchable(TRUE, r.claimed[t], r.status[t])

\* Wrong: a field the patch leaves out is written all the same.
NewStatusAlways(h) == patch[h].status

\* input.status !== undefined
NewStatus(h) == IF patch[h].status = "keep" THEN status[task[h]] ELSE patch[h].status

\* The update by id writes what the patch holds and returns the row.  Then: the
\* gate when the row is dispatchable, the wake-up when it has become done.
Update(h) ==
  LET t == task[h] IN
  /\ at[h] = "update"
  /\ status' = [status EXCEPT ![t] = NewStatus(h)]
  /\ blockedBy' = [blockedBy EXCEPT ![t] =
                     IF patch[h].sets THEN patch[h].blockers ELSE @]
  /\ UNCHANGED <<claimed, queue, calls, faults>>
  /\ \/ /\ IsDispatchable(Snapshot', t)
        /\ at' = [at EXCEPT ![h] = "gate"]
        /\ row' = [row EXCEPT ![h] = Snapshot']
        /\ UNCHANGED <<callVars, walkVars, wakeVars>>
     \/ /\ status'[t] = "done"
        /\ ~wasDone[h]
        /\ at' = [at EXCEPT ![h] = "dependents"]
        /\ UNCHANGED <<callVars, walkVars, row, wakeVars>>
     \/ /\ ~IsDispatchable(Snapshot', t)
        /\ status'[t] = "done" => wasDone[h]
        /\ Ends(h)

-----------------------------------------------------------------------------
(* dispatchTaskIfReady *)

\* taskDispatchGate: statuses are read now, the blocker set is the row's.
Gate(h) ==
  LET t == task[h] IN
  /\ at[h] = "gate"
  /\ at' = [at EXCEPT ![h] =
              IF OpenBlockers(row[h].blockedBy[t], status) = {}
              THEN "queue" ELSE "block"]
  /\ UNCHANGED <<rowVars, callVars, walkVars, row, wakeVars, calls, faults>>

\* markBlocked: an update by id.
Block(h) ==
  /\ at[h] = "block"
  /\ status' = [status EXCEPT ![task[h]] = "blocked"]
  /\ Ends(h)
  /\ UNCHANGED <<blockedBy, claimed, queue, calls, faults>>

Enqueue(h) ==
  /\ at[h] = "queue"
  /\ queue' = queue \union {task[h]}
  /\ Ends(h)
  /\ UNCHANGED <<status, blockedBy, claimed, calls, faults>>

-----------------------------------------------------------------------------
(* wakeBlockedDependents *)

\* On with the dependents that are left, or the end of the handler.
NextDependent(h, left, rows) ==
  IF left = {}
  THEN Ends(h)
  ELSE /\ at' = [at EXCEPT ![h] = "check"]
       /\ row' = [row EXCEPT ![h] = rows]
       /\ todo' = [todo EXCEPT ![h] = left]
       /\ dep' = [dep EXCEPT ![h] = NoTask]
       /\ UNCHANGED <<callVars, walkVars>>

\* listDependents: the rows are read once, for the whole loop.
ListDependents(h) ==
  /\ at[h] = "dependents"
  /\ NextDependent(h, {d \in Tasks : task[h] \in blockedBy[d]}, Snapshot)
  /\ UNCHANGED <<rowVars, calls, faults>>

\* Wrong: a task that waits for anything else is passed over.
StillBlockedUnlessSole(h, d) == row[h].blockedBy[d] # {task[h]}

\* openBlockerIds(...).length > 0: statuses as they are now, the list's blockers.
StillBlocked(h, d) == OpenBlockers(row[h].blockedBy[d], status) # {}

\* dep.status === "blocked", in the list
Asleep(h, d) == row[h].status[d] = "blocked"

\* One dependent: its own status is that of the list.
Check(h) ==
  \E d \in todo[h] :
    LET wakes == /\ ~StillBlocked(h, d)
                 /\ Asleep(h, d) \/ IsDispatchable(row[h], d)
    IN /\ at[h] = "check"
       /\ \/ /\ ~wakes
             /\ NextDependent(h, todo[h] \ {d}, row[h])
          \/ /\ wakes
             /\ at' = [at EXCEPT ![h] = IF Asleep(h, d) THEN "flip" ELSE "wake"]
             /\ todo' = [todo EXCEPT ![h] = @ \ {d}]
             /\ dep' = [dep EXCEPT ![h] = d]
             /\ UNCHANGED <<callVars, walkVars, row>>
       /\ UNCHANGED <<rowVars, calls, faults>>

\* blocked -> todo, by id; the row that comes back decides on the dispatch.
Flip(h) ==
  LET d == dep[h] IN
  /\ at[h] = "flip"
  /\ status' = [status EXCEPT ![d] = "todo"]
  /\ UNCHANGED <<blockedBy, claimed, queue, calls, faults>>
  /\ IF IsDispatchable(Snapshot', d)
     THEN /\ at' = [at EXCEPT ![h] = "wake"]
          /\ UNCHANGED <<callVars, walkVars, row, wakeVars>>
     ELSE NextDependent(h, todo[h], row[h])

Wake(h) ==
  /\ at[h] = "wake"
  /\ queue' = queue \union {dep[h]}
  /\ NextDependent(h, todo[h], row[h])
  /\ UNCHANGED <<status, blockedBy, claimed, calls, faults>>

\* A call fails or the process dies: what was written stays written.
Dies(h) ==
  /\ at[h] # "idle"
  /\ faults < MaxFaults
  /\ faults' = faults + 1
  /\ Ends(h)
  /\ UNCHANGED <<rowVars, calls>>

-----------------------------------------------------------------------------
(* The run of an agent, as seen from here *)

\* The message is taken; checkout refuses what is not in an entry status.
Claim(t) ==
  /\ t \in queue
  /\ queue' = queue \ {t}
  /\ IF Dispatchable(TRUE, claimed[t], status[t])
     THEN /\ status' = [status EXCEPT ![t] = "in_progress"]
          /\ claimed' = [claimed EXCEPT ![t] = TRUE]
     ELSE UNCHANGED <<status, claimed>>
  /\ UNCHANGED <<blockedBy, at, callVars, walkVars, row, wakeVars, calls, faults>>

\* releaseTask at the end of the run.
Release(t) ==
  /\ claimed[t]
  /\ claimed' = [claimed EXCEPT ![t] = FALSE]
  /\ status' = [status EXCEPT ![t] = "todo"]
  /\ UNCHANGED <<blockedBy, queue, at, callVars, walkVars, row, wakeVars, calls,
                 faults>>

HandlerStep(h) ==
  \/ Walk(h) \/ Update(h) \/ Gate(h) \/ Block(h) \/ Enqueue(h)
  \/ ListDependents(h) \/ Check(h) \/ Flip(h) \/ Wake(h)

Next ==
  \/ \E h \in Handlers :
       \/ \E t \in Tasks, s \in PatchStatuses : CallStatus(h, t, s)
       \/ \E t \in Tasks, s \in PatchStatuses \union {"keep"}, B \in PatchBlockers :
            CallBlockers(h, t, s, B)
       \/ HandlerStep(h)
       \/ Dies(h)
  \/ \E t \in Tasks : Claim(t) \/ Release(t)

Spec == Init /\ [][Next]_vars

-----------------------------------------------------------------------------
(* Conditions on steps: what a request decides by is still so when it writes *)

\* A request that has read some of the graph and has not written its blockers.
Checking(h) == at[h] = "walk" \/ (at[h] = "update" /\ patch[h].sets)

\* What a step may not do with what another request has read: no update gives
\* a task new blockers after a walk that is still to be acted on has passed it.
FreshWalks ==
  \A g, h \in Handlers :
    Update(h) /\ Checking(g) /\ task[h] \in visited[g] =>
      blockedBy'[task[h]] \subseteq blockedBy[task[h]]

\* What a step may not do with what its handler read before.  An update that
\* takes a blocker for done already (existing.status) finds it done; the gate
\* marks a task that still has an open blocker; and no update leaves a task
\* blocked without one, unless it was so before.
FreshDecisions ==
  \A h \in Handlers :
    LET t == task[h] IN
    /\ Update(h) /\ status'[t] = "done" /\ wasDone[h] =>
         status[t] = "done" \/ \A d \in Tasks : t \notin blockedBy[d]
    /\ Block(h) => OpenBlockers(blockedBy[t], status) # {}
    /\ Update(h) /\ status'[t] = "blocked" =>
         \/ status[t] = "blocked" /\ blockedBy'[t] = blockedBy[t]
         \/ OpenBlockers(blockedBy'[t], status') # {}

\* The requests that meet, and none of them in one of these two ways.
FreshSpec == Init /\ [][Next /\ FreshWalks /\ FreshDecisions]_vars

-----------------------------------------------------------------------------
(* Properties *)

\* A task never comes to wait for itself: the walk of validateBlockedBy sees
\* every chain, whatever the calls before it made of the graph.
BlockersAcyclic == IsAcyclic(blockedBy)

\* No lost wake-up: when no request is at work and none has died, a task in
\* "blocked" has a blocker that is not done.  Blockers that are done at the same time, by
\* requests that cannot see each other, still wake it: the later one sees both.
NoLostWakeUp ==
  faults = 0 /\ (\A h \in Handlers : at[h] = "idle") =>
    \A t \in Tasks :
      status[t] = "blocked" /\ blockedBy[t] # {} =>
        OpenBlockers(blockedBy[t], status) # {}

=============================================================================
