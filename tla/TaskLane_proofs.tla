---------------------------- MODULE TaskLane_proofs ----------------------------
(***************************************************************************)
(* The lane of a task, for any number of tasks, agents, runs, retries,     *)
(* faults and edits: as long as nobody gives the task to another agent or  *)
(* releases it by hand, one run of it executes at a time.  From that: a    *)
(* task in progress is claimed, work asked for is not forgotten, and no    *)
(* specialist starts unasked.  The reaper may run, steps may fail, the     *)
(* process may crash, and messages may be redelivered.                     *)
(*                                                                         *)
(* The argument: every job of a task belongs to the agent of that task and *)
(* the manager runs one job of an agent at a time.  So while a run is past *)
(* its claim nobody but the reaper touches the claim, and once it has      *)
(* released nobody claims before it has parked the task.                   *)
(***************************************************************************)
EXTENDS TaskCheckout_proofs

\* The events that take a task out of its lane.
AgentsStay == Env \intersect {"reassign", "release"} = {}

\* Either they are excluded, or nobody has done anything yet.
Undisturbed == AgentsStay \/ edits = 0

\* Jobs and messages of a task all carry the agent it is assigned to.
Owners ==
  /\ \A t \in Tasks : assignee[t] \in Agents
  /\ \A r \in Runs : bg[r] # "free" => jobAgent[r] = assignee[jobTask[r]]
  /\ \A m \in queue : m[2] = assignee[m[1]]

\* perAgentConcurrency: 1
OneJobEach ==
  \A q, r \in Runs :
    bg[q] = "running" /\ bg[r] = "running" /\ jobAgent[q] = jobAgent[r] => q = r

\* The claim of a run past its checkout is its own or has been taken from it,
\* and nobody has claimed the task of a run that is about to park it.
Mine ==
  \A r \in Runs :
    /\ pc[r] \in HoldingSteps => checkout[jobTask[r]] \in {r, NoRun}
    /\ pc[r] = "park" => checkout[jobTask[r]] = NoRun

\* What a run remembers: the checkout it has read, how its specialist ended.
Notes ==
  \A r \in Runs :
    /\ pc[r] \in {"stale", "replace"} => seen[r] # NoRun
    /\ pc[r] \in {"release", "free", "park", "finish"} => outcome[r] \in Outcomes

\* People in the middle of a call.
Clicking ==
  /\ edits = 0 => clicks = {}
  /\ Undisturbed => \A c \in clicks : c.do = "run"

Lane == /\ TInv /\ Listed
        /\ OneJobEach /\ Notes /\ Clicking
        /\ Undisturbed => Owners /\ Mine

\* No two executing runs have the same task.
LEMMA OneRunPerTask ==
  ASSUME TInv, Owners, OneJobEach, NEW q \in Runs, NEW r \in Runs,
         pc[q] # "idle", pc[r] # "idle", jobTask[q] = jobTask[r]
  PROVE  q = r
<1>1. bg[q] = "running" /\ bg[r] = "running"
  BY DEF TInv, Jobs
<1>2. jobAgent[q] = jobAgent[r]
  BY <1>1 DEF Owners
<1> QED
  BY <1>1, <1>2 DEF OneJobEach

-----------------------------------------------------------------------------
(* The steps of a run, by what they do to the row of its task *)

Advances(r, from, to) == pc[r] = from /\ pc'[r] = to

SameRow == UNCHANGED <<status, assignee, checkout>>

\* A step that reads, writes a run row, or hears from the specialist.
Looks(r) ==
  LET t == jobTask[r] IN
  /\ SameRow /\ UNCHANGED starts
  /\ \/ /\ Advances(r, "read", "stale")
        /\ checkout[t] # NoRun /\ seen'[r] = checkout[t]
     \/ Advances(r, "read", "register") /\ checkout[t] = r
     \/ Advances(r, "read", "claim")
     \/ Advances(r, "stale", "replace") /\ UNCHANGED seen
     \/ Advances(r, "record", "register")
     \/ Advances(r, "register", "brief")
     \/ Advances(r, "work", "release") /\ outcome'[r] \in Outcomes
     \/ Advances(r, "release", "park") /\ checkout[t] = NoRun /\ UNCHANGED outcome
     \/ Advances(r, "release", "free") /\ checkout[t] = r /\ UNCHANGED outcome

Begins(r) ==
  /\ SameRow
  /\ Advances(r, "brief", "work")
  /\ starts' = [starts EXCEPT ![jobTask[r]] = @ + 1]

Claims(r) ==
  LET t == jobTask[r] IN
  /\ pc'[r] = "record"
  /\ \/ pc[r] = "claim" /\ status[t] \in EntryStatuses
     \/ pc[r] = "replace" /\ checkout[t] = seen[r]
  /\ status' = [status EXCEPT ![t] = "in_progress"]
  /\ assignee' = [assignee EXCEPT ![t] = jobAgent[r]]
  /\ checkout' = [checkout EXCEPT ![t] = r]
  /\ UNCHANGED starts

Frees(r) ==
  LET t == jobTask[r] IN
  /\ Advances(r, "free", "park")
  /\ status' = [status EXCEPT ![t] = "todo"]
  /\ checkout' = [checkout EXCEPT ![t] = NoRun]
  /\ UNCHANGED <<assignee, starts, outcome>>

Parks(r) ==
  /\ Advances(r, "park", "finish")
  /\ \E s \in RestingStatuses(outcome[r]) :
       status' = [status EXCEPT ![jobTask[r]] = s]
  /\ UNCHANGED <<assignee, checkout, starts, outcome>>

\* The run is over, or has to begin again.
Stops(r) ==
  LET t == jobTask[r] IN
  /\ pc'[r] = "idle"
  /\ SameRow /\ UNCHANGED starts
  /\ \/ pc[r] \in {"stale", "replace", "finish"} /\ UNCHANGED retries
     \/ /\ pc[r] = "claim" /\ UNCHANGED retries
        /\ status[t] \notin EntryStatuses \/ checkout[t] \notin {NoRun, r}
     \/ /\ pc[r] = "release"
        /\ checkout[t] \notin {NoRun, r}

\* Every step leaves the other runs, the messages and the people alone.
OnlyItself(r) ==
  /\ \A q \in Runs \ {r} :
       /\ bg'[q] = bg[q] /\ pc'[q] = pc[q]
       /\ seen'[q] = seen[q] /\ outcome'[q] = outcome[q]
  /\ bg'[r] \in {"running", "pending", "suspended", "settled"}
  /\ UNCHANGED <<jobTask, jobAgent, queue, wants, clicks, edits, reaper>>
  /\ faults' \in {faults, faults + 1}

LEMMA Executing ==
  ASSUME TInv, NEW r \in Runs, PipelineStep(r)
  PROVE  /\ pc[r] # "idle" /\ bg[r] = "running"
         /\ jobTask[r] \in Tasks /\ jobAgent[r] \in Agents
<1>1. pc[r] \in Steps
  BY DEF PipelineStep, ReadForCheckout, JudgeHolder, Claim, ReplaceStale, RecordRun,
         Register, StartSpecialist, EndSpecialist, ReadForRelease, Release,
         Park, Finish, At, Steps
<1> QED
  BY <1>1 DEF TInv, Jobs, Steps

LEMMA SettleOnly ==
  ASSUME TInv, NEW r \in Runs, NEW s, Settle(r, s)
  PROVE  /\ \A q \in Runs \ {r} :
              /\ bg'[q] = bg[q] /\ pc'[q] = pc[q]
              /\ seen'[q] = seen[q] /\ outcome'[q] = outcome[q]
         /\ bg'[r] = s /\ pc'[r] = "idle"
         /\ UNCHANGED <<jobTask, jobAgent>>
  BY DEF Settle, TInv, TypeOK

LEMMA GotoOnly ==
  ASSUME TInv, NEW r \in Runs, bg[r] = "running", NEW step, Goto(r, step)
  PROVE  /\ \A q \in Runs \ {r} : bg'[q] = bg[q] /\ pc'[q] = pc[q]
         /\ bg'[r] = "running" /\ pc'[r] = step
         /\ UNCHANGED <<jobTask, jobAgent, retries>>
  BY DEF Goto, TInv, TypeOK

LEMMA StepTable ==
  ASSUME TInv, NEW r \in Runs, PipelineStep(r)
  PROVE  /\ OnlyItself(r)
         /\ Looks(r) \/ Begins(r) \/ Claims(r) \/ Frees(r) \/ Parks(r) \/ Stops(r)
         /\ UNCHANGED retries \/ pc[r] = "release"
<1> DEFINE t == jobTask[r]
           Kind == Looks(r) \/ Begins(r) \/ Claims(r) \/ Frees(r) \/ Parks(r) \/ Stops(r)
           Goal == /\ OnlyItself(r) /\ Kind
                   /\ UNCHANGED retries \/ pc[r] = "release"
           Rest == /\ UNCHANGED <<queue, wants, clicks, edits, reaper>>
                   /\ faults' \in {faults, faults + 1}
<1>1. /\ bg[r] = "running" /\ pc[r] # "idle"
      /\ seen \in [Runs -> Runs \union {NoRun}]
      /\ outcome \in [Runs -> Outcomes \union {"none"}]
      /\ checkout \in [Tasks -> Runs \union {NoRun}]
  BY Executing DEF TInv, TypeOK
<1>2. ASSUME NEW step, Goto(r, step), Rest,
             \A q \in Runs \ {r} : seen'[q] = seen[q] /\ outcome'[q] = outcome[q]
      PROVE  OnlyItself(r) /\ pc'[r] = step /\ UNCHANGED retries
  BY <1>1, <1>2, GotoOnly DEF OnlyItself
<1>3. ASSUME NEW s \in {"pending", "suspended", "settled"}, Settle(r, s), Rest
      PROVE  OnlyItself(r) /\ pc'[r] = "idle"
  BY <1>3, SettleOnly DEF OnlyItself
<1>4. CASE ReadForCheckout(r)
  <2>1. Rest /\ SameRow /\ UNCHANGED <<starts, outcome>> /\ pc[r] = "read"
    BY <1>4 DEF ReadForCheckout, SameRow, taskVars, peopleVars, At
  <2>2. seen' = [seen EXCEPT ![r] = checkout[t]]
    BY <1>4 DEF ReadForCheckout
  <2>3. \/ Goto(r, "stale") /\ checkout[t] # NoRun
        \/ Goto(r, "register") /\ checkout[t] = r
        \/ Goto(r, "claim")
    BY <1>4 DEF ReadForCheckout
  <2>4. \A q \in Runs \ {r} : seen'[q] = seen[q] /\ outcome'[q] = outcome[q]
    BY <1>1, <2>1, <2>2
  <2>5. OnlyItself(r) /\ UNCHANGED retries
    BY <1>2, <2>1, <2>3, <2>4
  <2>6. Looks(r)
    BY <1>1, <1>2, <2>1, <2>2, <2>3, <2>4 DEF Looks, Advances
  <2> QED
    BY <2>5, <2>6
<1>5. CASE JudgeHolder(r)
  <2>1. Rest /\ SameRow /\ UNCHANGED starts /\ pc[r] = "stale"
    BY <1>5 DEF JudgeHolder, SameRow, taskVars, peopleVars, At
  <2>2. CASE Goto(r, "replace") /\ UNCHANGED <<seen, outcome>>
    BY <1>2, <2>1, <2>2 DEF Looks, Advances
  <2>3. CASE Skips(r)
    BY <1>3, <2>1, <2>3 DEF Skips, Stops
  <2> QED
    BY <1>5, <2>2, <2>3 DEF JudgeHolder
<1>6. CASE Claim(r) \/ ReplaceStale(r)
  <2>1. Rest /\ UNCHANGED starts
    BY <1>6 DEF Claim, ReplaceStale, peopleVars
  <2>2. CASE Claimed(r)
    <3>1. /\ Goto(r, "record") /\ UNCHANGED outcome
          /\ seen' = [seen EXCEPT ![r] = NoRun]
          /\ status' = [status EXCEPT ![t] = "in_progress"]
          /\ assignee' = [assignee EXCEPT ![t] = jobAgent[r]]
          /\ checkout' = [checkout EXCEPT ![t] = r]
      BY <2>2 DEF Claimed
    <3>2. OnlyItself(r) /\ pc'[r] = "record" /\ UNCHANGED retries
      BY <1>1, <1>2, <2>1, <3>1
    <3>3. \/ pc[r] = "claim" /\ (status[t] \in EntryStatuses \/ pc'[r] = "idle")
          \/ pc[r] = "replace" /\ (checkout[t] = seen[r] \/ pc'[r] = "idle")
      BY <1>1, <1>6 DEF Claim, ReplaceStale, At, Skips, Settle, TInv, TypeOK
    <3> QED
      BY <2>1, <3>1, <3>2, <3>3 DEF Claims
  <2>3. CASE Skips(r) /\ UNCHANGED taskVars
    <3>1. OnlyItself(r) /\ pc'[r] = "idle" /\ UNCHANGED retries /\ SameRow
      BY <1>3, <2>1, <2>3 DEF Skips, SameRow, taskVars
    <3>2. ~Claimed(r)
      BY <1>1, <3>1, GotoOnly DEF Claimed
    <3>3. \/ pc[r] = "replace"
          \/ /\ pc[r] = "claim"
             /\ status[t] \notin EntryStatuses \/ checkout[t] \notin {NoRun, r}
      BY <1>6, <3>2 DEF Claim, ReplaceStale, At
    <3> QED
      BY <2>1, <3>1, <3>3 DEF Stops
  <2> QED
    BY <1>6, <2>2, <2>3 DEF Claim, ReplaceStale
<1>7. CASE RecordRun(r) \/ Register(r)
  <2>1. Rest /\ SameRow /\ UNCHANGED <<starts, seen, outcome>>
    BY <1>7 DEF RecordRun, Register, SameRow, taskVars, peopleVars
  <2>2. \/ pc[r] = "record" /\ Goto(r, "register")
        \/ pc[r] = "register" /\ Goto(r, "brief")
    BY <1>7 DEF RecordRun, Register, At
  <2> QED
    BY <1>2, <2>1, <2>2 DEF Looks, Advances
<1>8. CASE StartSpecialist(r)
  <2>1. /\ Rest /\ SameRow /\ UNCHANGED <<seen, outcome>>
        /\ starts' = [starts EXCEPT ![t] = @ + 1]
        /\ pc[r] = "brief" /\ Goto(r, "work")
    BY <1>8 DEF StartSpecialist, SameRow, taskVars, peopleVars, At
  <2> QED
    BY <1>2, <2>1 DEF Begins, Advances
<1>9. CASE \E o \in Outcomes : EndSpecialist(r, o)
  <2>1. PICK o \in Outcomes : EndSpecialist(r, o)
    BY <1>9
  <2>2. /\ Rest /\ SameRow /\ UNCHANGED <<seen, starts>>
        /\ outcome' = [outcome EXCEPT ![r] = o]
        /\ pc[r] = "work" /\ Goto(r, "release")
    BY <2>1 DEF EndSpecialist, SameRow, taskVars, peopleVars, At
  <2> QED
    BY <1>1, <1>2, <2>2 DEF Looks, Advances
<1>10. CASE ReadForRelease(r)
  <2>1. Rest /\ SameRow /\ UNCHANGED starts /\ pc[r] = "release"
    BY <1>10 DEF ReadForRelease, SameRow, taskVars, peopleVars, At
  <2>2. CASE checkout[t] = NoRun /\ Goto(r, "park") /\ UNCHANGED <<seen, outcome>>
    BY <1>2, <2>1, <2>2 DEF Looks, Advances
  <2>3. CASE checkout[t] = r /\ Goto(r, "free") /\ UNCHANGED <<seen, outcome>>
    BY <1>2, <2>1, <2>3 DEF Looks, Advances
  <2>4. CASE checkout[t] \notin {NoRun, r} /\ Throws(r)
    <3>1. PICK s \in {"pending", "settled"} : Settle(r, s)
      BY <2>4 DEF Throws
    <3> QED
      BY <1>3, <2>1, <2>4, <3>1 DEF Stops
  <2> QED
    BY <1>10, <2>2, <2>3, <2>4 DEF ReadForRelease
<1>11. CASE Release(r)
  <2>1. /\ Rest /\ UNCHANGED <<assignee, starts, seen, outcome>>
        /\ status' = [status EXCEPT ![t] = "todo"]
        /\ checkout' = [checkout EXCEPT ![t] = NoRun]
        /\ pc[r] = "free" /\ Goto(r, "park")
    BY <1>11 DEF Release, peopleVars, At
  <2> QED
    BY <1>2, <2>1 DEF Frees, Advances
<1>12. CASE \E s \in TaskStatuses : Park(r, s)
  <2>1. PICK s \in TaskStatuses : Park(r, s)
    BY <1>12
  <2>2. /\ Rest /\ UNCHANGED <<assignee, checkout, starts, seen, outcome>>
        /\ s \in RestingStatuses(outcome[r])
        /\ status' = [status EXCEPT ![t] = s]
        /\ pc[r] = "park" /\ Goto(r, "finish")
    BY <2>1 DEF Park, peopleVars, At
  <2> QED
    BY <1>2, <2>2 DEF Parks, Advances
<1>13. CASE Finish(r)
  <2>1. Rest /\ SameRow /\ UNCHANGED <<starts, retries>> /\ pc[r] = "finish"
    BY <1>13 DEF Finish, SameRow, taskVars, peopleVars, At
  <2>2. PICK s \in {"suspended", "settled"} : Settle(r, s)
    BY <1>13 DEF Finish
  <2> QED
    BY <1>3, <2>1, <2>2 DEF Stops
<1> QED
  BY <1>4, <1>5, <1>6, <1>7, <1>8, <1>9, <1>10, <1>11, <1>12, <1>13 DEF PipelineStep

-----------------------------------------------------------------------------
(* The steps of everybody else *)

\* A dispatch adds a message and a wish, or is lost and counted as a fault.
LEMMA DispatchCounts ==
  ASSUME TInv, NEW t \in Tasks, DispatchIfReady(t)
  PROVE  /\ queue \subseteq queue'
         /\ \A m \in queue' : m \in queue \/ (m = <<t, assignee'[t]>> /\ wants'[t] > 0)
         /\ \A u \in Tasks \ {t} : wants'[u] = wants[u]
         /\ wants'[t] \in {wants[t], wants[t] + 1}
         /\ faults' \in {faults, faults + 1}
         /\ IsDispatchable(t)' => wants'[t] + faults' = wants[t] + faults + 1
         /\ IsDispatchable(t)' /\ "lost_send" \notin Env =>
              <<t, assignee'[t]>> \in queue' /\ assignee'[t] \in Agents
<1>1. /\ wants \in [Tasks -> Nat] /\ faults \in Nat
  BY CheckoutAssumption DEF TInv, TypeOK
<1>2. CASE IsDispatchable(t)'
  <2>1. \/ /\ queue' = queue \union {<<t, assignee'[t]>>}
           /\ wants' = [wants EXCEPT ![t] = @ + 1]
           /\ UNCHANGED faults
        \/ "lost_send" \in Env /\ faults' = faults + 1 /\ UNCHANGED <<queue, wants>>
    BY <1>2 DEF DispatchIfReady, IsDispatchable
  <2>2. assignee'[t] \in Agents
    BY <1>2 DEF IsDispatchable, Dispatchable
  <2> QED
    BY <1>1, <2>1, <2>2
<1>3. CASE ~IsDispatchable(t)'
  <2>1. UNCHANGED <<queue, wants, faults>>
    BY <1>3 DEF DispatchIfReady, IsDispatchable
  <2> QED
    BY <1>1, <1>3, <2>1
<1> QED
  BY <1>2, <1>3

\* People count their calls: none of them acts in a state without edits.
LEMMA PeopleCount ==
  ASSUME TInv, Clicking, People
  PROVE  edits' \in {edits, edits + 1} /\ edits' # 0
<1>1. edits \in Nat
  BY CheckoutAssumption DEF TInv, TypeOK
<1>2. CASE \E t \in Tasks :
             \/ \E s \in TaskStatuses, a \in Agents \union {NoAgent} : EditTask(t, s, a)
             \/ RunNow(t) \/ PersonReads(t)
  <2>1. PersonActs
    BY <1>2 DEF EditTask, RunNow, PersonReads
  <2> QED
    BY <1>1, <2>1 DEF PersonActs
<1>3. CASE \E c \in clicks : RunNowFlip(c) \/ PersonReleases(c)
  <2>1. edits' = edits /\ clicks # {}
    BY <1>3 DEF RunNowFlip, PersonReleases
  <2> QED
    BY <2>1 DEF Clicking
<1> QED
  BY <1>2, <1>3 DEF People

\* What people do to a task in its lane: an edit of its status, or nothing yet.
LEMMA PeopleTable ==
  ASSUME Lane, People, Undisturbed'
  PROVE  /\ AgentsStay
         /\ UNCHANGED <<assignee, checkout, jobVars, reaper, starts>>
         /\ \A c \in clicks' : c \in clicks \/ c.do = "run"
         /\ \/ UNCHANGED <<status, queue, wants, faults>>
            \/ \E t \in Tasks :
                 /\ DispatchIfReady(t)
                 /\ \A u \in Tasks \ {t} : status'[u] = status[u]
<1>1. AgentsStay /\ Undisturbed
  BY PeopleCount DEF Lane, Undisturbed
<1>2. /\ status \in [Tasks -> TaskStatuses]
      /\ assignee \in [Tasks -> Agents \union {NoAgent}]
      /\ clicks \subseteq Clicks
  BY DEF Lane, TInv, TypeOK
<1>3. ASSUME NEW t \in Tasks, NEW s \in TaskStatuses,
             NEW a \in Agents \union {NoAgent}, EditTask(t, s, a)
      PROVE  /\ UNCHANGED <<assignee, checkout, jobVars, reaper, starts, clicks>>
             /\ DispatchIfReady(t)
             /\ \A u \in Tasks \ {t} : status'[u] = status[u]
  BY <1>1, <1>2, <1>3 DEF EditTask, AgentsStay
<1>4. ASSUME NEW t \in Tasks, RunNow(t)
      PROVE  /\ UNCHANGED <<status, assignee, checkout, jobVars, reaper, starts>>
             /\ \A c \in clicks' : c \in clicks \/ c.do = "run"
             /\ DispatchIfReady(t) \/ UNCHANGED <<queue, wants, faults>>
  BY <1>4 DEF RunNow, taskVars
<1>5. \A t \in Tasks : ~PersonReads(t)
  BY <1>1 DEF AgentsStay, PersonReads
<1>6. \A c \in clicks : ~PersonReleases(c)
  BY <1>1 DEF Lane, Clicking, PersonReleases
<1>7. ASSUME NEW c \in clicks, RunNowFlip(c)
      PROVE  /\ UNCHANGED <<assignee, checkout, jobVars, reaper, starts>>
             /\ clicks' \subseteq clicks
             /\ \E t \in Tasks :
                  /\ DispatchIfReady(t)
                  /\ \A u \in Tasks \ {t} : status'[u] = status[u]
  <2>1. c.task \in Tasks
    BY <1>2 DEF Clicks
  <2>2. /\ DispatchIfReady(c.task)
        /\ \A u \in Tasks \ {c.task} : status'[u] = status[u]
    BY <1>2, <1>7 DEF RunNowFlip
  <2> QED
    BY <1>7, <2>1, <2>2 DEF RunNowFlip
<1>8. CASE \E t \in Tasks, s \in TaskStatuses, a \in Agents \union {NoAgent} :
             EditTask(t, s, a)
  BY <1>1, <1>3, <1>8
<1>9. CASE \E t \in Tasks : RunNow(t)
  BY <1>1, <1>4, <1>9
<1>10. CASE \E c \in clicks : RunNowFlip(c)
  BY <1>1, <1>7, <1>10
<1> QED
  BY <1>5, <1>6, <1>8, <1>9, <1>10 DEF People

\* The reaper gives a claim back and dispatches, or leaves the task as it is.
LEMMA ReaperTable ==
  ASSUME TInv, Listed, Reaper
  PROVE  /\ UNCHANGED <<assignee, jobVars, clicks, edits, starts>>
         /\ \/ UNCHANGED <<status, checkout, queue, wants>> /\ faults' \in {faults, faults + 1}
            \/ \E t \in Tasks :
                 /\ DispatchIfReady(t)
                 /\ \/ UNCHANGED <<status, checkout>>
                    \/ /\ status' = [status EXCEPT ![t] = "todo"]
                       /\ checkout' = [checkout EXCEPT ![t] = NoRun]
<1>1. reaper.at # "idle" => reaper.task \in Tasks
  BY DEF Listed
<1>2. CASE (\E t \in Tasks : ReaperLists(t)) \/ ReaperChecks
  BY <1>2 DEF ReaperLists, ReaperChecks, taskVars, peopleVars
<1>3. CASE ReaperReads
  BY <1>1, <1>3 DEF ReaperReads, taskVars
<1>4. CASE ReaperReleases
  BY <1>1, <1>4 DEF ReaperReleases
<1> QED
  BY <1>2, <1>3, <1>4 DEF Reaper

\* Deliveries, starts of jobs, failures and crashes touch no row.
LEMMA ManagerTable ==
  ASSUME TInv,
         \/ \E t \in Tasks : Deliver(t)
         \/ \E r \in Runs : StartJob(r) \/ StepFails(r)
         \/ Crash
  PROVE  /\ SameRow /\ UNCHANGED <<clicks, wants, edits, starts>>
         /\ queue' \subseteq queue
         /\ faults' \in {faults, faults + 1}
         /\ \A q \in Runs :
              /\ pc'[q] \in {pc[q], "idle"} \/ pc'[q] = "read"
              /\ pc'[q] \notin {"idle", "read"} =>
                   seen'[q] = seen[q] /\ outcome'[q] = outcome[q]
              /\ bg[q] # "free" =>
                   jobTask'[q] = jobTask[q] /\ jobAgent'[q] = jobAgent[q]
<1>1. /\ bg \in [Runs -> {"free", "pending", "running", "suspended", "settled"}]
      /\ jobTask \in [Runs -> Tasks \union {NoTask}]
      /\ jobAgent \in [Runs -> Agents \union {NoAgent}]
      /\ pc \in [Runs -> Steps \union {"idle"}]
  BY DEF TInv, TypeOK
<1>2. CASE \E t \in Tasks : Deliver(t)
  BY <1>1, <1>2
  DEF Deliver, DeliverToSuspended, DeliverFresh, Acked, SameRow, taskVars, peopleVars
<1>3. CASE \E r \in Runs : StartJob(r)
  BY <1>1, <1>3 DEF StartJob, SameRow, taskVars, peopleVars
<1>4. CASE \E r \in Runs : StepFails(r)
  <2>1. PICK r \in Runs : StepFails(r)
    BY <1>4
  <2>2. PICK s \in {"pending", "settled"} : Settle(r, s)
    BY <2>1 DEF StepFails, Throws
  <2> QED
    BY <2>1, <2>2, SettleOnly DEF StepFails, SameRow, taskVars, peopleVars
<1>5. CASE Crash
  BY <1>5 DEF Crash, SameRow, taskVars, peopleVars
<1> QED
  BY <1>2, <1>3, <1>4, <1>5

-----------------------------------------------------------------------------
(* The lane is kept *)

\* Steps that give no task to another agent.
LEMMA OwnersKept ==
  ASSUME Owners, UNCHANGED assignee,
         \A r \in Runs : bg'[r] # "free" =>
           bg[r] # "free" /\ jobTask'[r] = jobTask[r] /\ jobAgent'[r] = jobAgent[r],
         \A m \in queue' : m \in queue \/ \E t \in Tasks : m = <<t, assignee[t]>>
  PROVE  Owners'
  BY DEF Owners

LEMMA UndisturbedBefore ==
  ASSUME TInv, edits' \in {edits, edits + 1}, Undisturbed'
  PROVE  Undisturbed
<1>1. edits \in Nat
  BY CheckoutAssumption DEF TInv, TypeOK
<1> QED
  BY <1>1 DEF Undisturbed

\* The claim of one run changes at most, and others have other tasks.
LEMMA LanePipeline ==
  ASSUME Lane, TInv', Listed', NEW r \in Runs, PipelineStep(r)
  PROVE  Lane'
<1> DEFINE t == jobTask[r]
<1>1. /\ OnlyItself(r)
      /\ Looks(r) \/ Begins(r) \/ Claims(r) \/ Frees(r) \/ Parks(r) \/ Stops(r)
  BY StepTable DEF Lane
<1>2. /\ pc[r] # "idle" /\ bg[r] = "running"
      /\ t \in Tasks /\ jobAgent[r] \in Agents
  BY Executing DEF Lane
<1>3. /\ checkout \in [Tasks -> Runs \union {NoRun}]
      /\ assignee \in [Tasks -> Agents \union {NoAgent}]
  BY DEF Lane, TInv, TypeOK
<1>4. OneJobEach'
  BY <1>1, <1>2 DEF OnlyItself, Lane, OneJobEach
<1>5. Notes'
  <2>1. /\ pc'[r] \in {"stale", "replace"} => seen'[r] # NoRun
        /\ pc'[r] \in {"release", "free", "park", "finish"} => outcome'[r] \in Outcomes
    BY <1>1 DEF Looks, Begins, Claims, Frees, Parks, Stops, Advances, Lane, Notes
  <2> QED
    BY <1>1, <2>1 DEF OnlyItself, Lane, Notes
<1>6. Clicking'
  BY <1>1 DEF OnlyItself, Lane, Clicking, Undisturbed
<1>7. ASSUME Undisturbed' PROVE Owners' /\ Mine'
  <2>1. Undisturbed
    BY <1>1, <1>7 DEF OnlyItself, Undisturbed
  <2>2. Owners /\ Mine
    BY <2>1 DEF Lane
  <2>3. UNCHANGED assignee
    <3>1. CASE Claims(r)
      BY <1>2, <1>3, <2>2, <3>1 DEF Claims, Owners
    <3> QED
      BY <1>1, <3>1 DEF Looks, Begins, Frees, Parks, Stops, SameRow
  <2>4. Owners'
    BY <1>1, <1>2, <2>2, <2>3, OwnersKept DEF OnlyItself
  <2>5. \A u \in Tasks \ {t} : checkout'[u] = checkout[u]
    BY <1>1, <1>3 DEF Looks, Begins, Claims, Frees, Parks, Stops, SameRow
  <2>6. /\ pc'[r] \in HoldingSteps => checkout'[t] \in {r, NoRun}
        /\ pc'[r] = "park" => checkout'[t] = NoRun
    <3>1. /\ pc[r] \in HoldingSteps => checkout[t] \in {r, NoRun}
      BY <2>2 DEF Mine
    <3>2. CASE Looks(r) \/ Begins(r) \/ Parks(r) \/ Stops(r)
      BY <3>1, <3>2 DEF Looks, Begins, Parks, Stops, Advances, SameRow, HoldingSteps
    <3>3. CASE Claims(r)
      BY <1>2, <1>3, <3>3 DEF Claims
    <3>4. CASE Frees(r)
      BY <1>2, <1>3, <3>4 DEF Frees, Advances
    <3> QED
      BY <1>1, <3>2, <3>3, <3>4
  <2>7. ASSUME NEW q \in Runs \ {r}
        PROVE  /\ pc'[q] \in HoldingSteps => checkout'[jobTask[q]] \in {q, NoRun}
               /\ pc'[q] = "park" => checkout'[jobTask[q]] = NoRun
    <3>1. CASE pc[q] \in HoldingSteps \union {"park"}
      <4>1. pc[q] # "idle"
        BY <3>1 DEF HoldingSteps
      <4>2. jobTask[q] # t
        BY <1>2, <2>2, <4>1, OneRunPerTask DEF Lane
      <4>3. jobTask[q] \in Tasks
        BY <4>1 DEF Lane, TInv, Jobs
      <4>4. checkout'[jobTask[q]] = checkout[jobTask[q]]
        BY <2>5, <4>2, <4>3
      <4> QED
        BY <1>1, <2>2, <4>4 DEF OnlyItself, Mine
    <3> QED
      BY <1>1, <3>1 DEF OnlyItself
  <2>8. UNCHANGED jobTask
    BY <1>1 DEF OnlyItself
  <2> QED
    BY <2>4, <2>6, <2>7, <2>8 DEF Mine
<1> QED
  BY <1>4, <1>5, <1>6, <1>7 DEF Lane

LEMMA LanePeople ==
  ASSUME Lane, TInv', Listed', People
  PROVE  Lane'
<1>1. UNCHANGED jobVars
  BY DEF People, EditTask, RunNow, RunNowFlip, PersonReads, PersonReleases
<1>2. OneJobEach' /\ Notes'
  BY <1>1 DEF Lane, OneJobEach, Notes, jobVars
<1>3. edits' # 0 /\ edits' \in {edits, edits + 1}
  BY PeopleCount DEF Lane
<1>4. ASSUME Undisturbed'
      PROVE  Owners' /\ Mine' /\ \A c \in clicks' : c.do = "run"
  <2>1. Undisturbed
    BY <1>3, <1>4, UndisturbedBefore DEF Lane
  <2>2. /\ UNCHANGED <<assignee, checkout>>
        /\ \A c \in clicks' : c \in clicks \/ c.do = "run"
        /\ \A m \in queue' : m \in queue \/ \E t \in Tasks : m = <<t, assignee'[t]>>
    BY <1>4, PeopleTable, DispatchCounts DEF Lane
  <2>3. Owners'
    BY <1>1, <2>1, <2>2, OwnersKept DEF Lane, jobVars
  <2>4. Mine'
    BY <1>1, <2>1, <2>2 DEF Lane, Mine, jobVars
  <2> QED
    BY <2>1, <2>2, <2>3, <2>4 DEF Lane, Clicking
<1>5. Clicking'
  BY <1>3, <1>4 DEF Clicking
<1> QED
  BY <1>2, <1>4, <1>5 DEF Lane

LEMMA LaneReaper ==
  ASSUME Lane, TInv', Listed', Reaper
  PROVE  Lane'
<1>1. /\ UNCHANGED <<assignee, jobVars, clicks, edits>>
      /\ \A m \in queue' : m \in queue \/ \E t \in Tasks : m = <<t, assignee'[t]>>
  BY ReaperTable, DispatchCounts DEF Lane
<1>2. OneJobEach' /\ Notes' /\ Clicking'
  BY <1>1 DEF Lane, OneJobEach, Notes, Clicking, Undisturbed, jobVars
<1>3. ASSUME Undisturbed' PROVE Owners' /\ Mine'
  <2>1. Owners /\ Mine
    BY <1>1, <1>3 DEF Lane, Undisturbed
  <2>2. Owners'
    BY <1>1, <2>1, OwnersKept DEF jobVars
  <2>3. checkout \in [Tasks -> Runs \union {NoRun}]
    BY DEF Lane, TInv, TypeOK
  <2>4. \A u \in Tasks : checkout'[u] \in {checkout[u], NoRun}
    BY <2>3, ReaperTable DEF Lane
  <2>5. \A q \in Runs : pc[q] \in HoldingSteps \union {"park"} => jobTask[q] \in Tasks
    BY DEF Lane, TInv, Jobs, HoldingSteps
  <2>6. Mine'
    BY <1>1, <2>1, <2>4, <2>5 DEF Mine, jobVars
  <2> QED
    BY <2>2, <2>6
<1> QED
  BY <1>2, <1>3 DEF Lane

LEMMA LaneManager ==
  ASSUME Lane, TInv', Listed',
         \/ \E t \in Tasks : Deliver(t)
         \/ \E r \in Runs : StartJob(r) \/ StepFails(r)
         \/ Crash
  PROVE  Lane'
<1> DEFINE Table ==
      /\ SameRow /\ UNCHANGED <<clicks, edits>> /\ queue' \subseteq queue
      /\ \A q \in Runs :
           /\ pc'[q] \in {pc[q], "idle"} \/ pc'[q] = "read"
           /\ pc'[q] \notin {"idle", "read"} => seen'[q] = seen[q] /\ outcome'[q] = outcome[q]
           /\ bg[q] # "free" => jobTask'[q] = jobTask[q] /\ jobAgent'[q] = jobAgent[q]
<1>1. Table
  BY ManagerTable DEF Lane
<1>2. /\ bg \in [Runs -> {"free", "pending", "running", "suspended", "settled"}]
      /\ jobTask \in [Runs -> Tasks \union {NoTask}]
      /\ jobAgent \in [Runs -> Agents \union {NoAgent}]
  BY DEF Lane, TInv, TypeOK
<1>3. OneJobEach'
  <2>1. CASE \E r \in Runs : StartJob(r)
    BY <1>2, <2>1 DEF StartJob, Lane, OneJobEach
  <2>2. CASE ~\E r \in Runs : StartJob(r)
    <3>1. \A q \in Runs : bg'[q] = "running" => bg[q] = "running"
      <4>1. CASE \E t \in Tasks : Deliver(t)
        BY <1>2, <4>1 DEF Deliver, DeliverToSuspended, DeliverFresh
      <4>2. CASE \E r \in Runs : StepFails(r)
        BY <1>2, <4>2 DEF StepFails, Throws, Settle
      <4>3. CASE Crash
        BY <4>3 DEF Crash
      <4> QED
        BY <2>2, <4>1, <4>2, <4>3
    <3> QED
      BY <1>1, <3>1 DEF Lane, OneJobEach
  <2> QED
    BY <2>1, <2>2
<1>4. Notes'
  BY <1>1 DEF Lane, Notes
<1>5. Clicking'
  BY <1>1 DEF Lane, Clicking, Undisturbed
<1>6. ASSUME Undisturbed' PROVE Owners' /\ Mine'
  <2>1. Owners /\ Mine
    BY <1>1, <1>6 DEF Lane, Undisturbed
  <2>2. Mine'
    <3>1. \A q \in Runs : pc[q] # "idle" => bg[q] # "free"
      BY DEF Lane, TInv, Jobs
    <3>2. "read" \notin HoldingSteps /\ "idle" \notin HoldingSteps
      BY DEF HoldingSteps
    <3> QED
      BY <1>1, <2>1, <3>1, <3>2 DEF Mine, SameRow
  <2>3. CASE \E t \in Tasks : Deliver(t)
    <3>1. PICK t \in Tasks, a \in Agents, r \in Runs :
            DeliverToSuspended(t, a, r) \/ DeliverFresh(t, a, r)
      BY <2>3 DEF Deliver
    <3>2. <<t, a>> \in queue
      BY <3>1 DEF DeliverToSuspended, DeliverFresh
    <3>3. a = assignee[t]
      BY <2>1, <3>2 DEF Owners
    <3>4. CASE DeliverToSuspended(t, a, r)
      <4>1. bg[r] = "suspended" /\ bg' = [bg EXCEPT ![r] = "pending"]
        BY <3>4 DEF DeliverToSuspended, SuspendedFor
      <4>2. \A q \in Runs : bg'[q] # "free" => bg[q] # "free"
        BY <1>2, <4>1
      <4> QED
        BY <1>1, <2>1, <2>2, <4>2, OwnersKept DEF SameRow
    <3>5. CASE DeliverFresh(t, a, r)
      <4>1. /\ bg' = [bg EXCEPT ![r] = "pending"]
            /\ jobTask' = [jobTask EXCEPT ![r] = t]
            /\ jobAgent' = [jobAgent EXCEPT ![r] = a]
        BY <3>5 DEF DeliverFresh
      <4>2. jobTask'[r] = t /\ jobAgent'[r] = a /\ UNCHANGED assignee
        BY <1>1, <1>2, <4>1 DEF SameRow
      <4>3. \A q \in Runs \ {r} :
              bg'[q] = bg[q] /\ jobTask'[q] = jobTask[q] /\ jobAgent'[q] = jobAgent[q]
        BY <1>2, <4>1
      <4>4. \A q \in Runs : bg'[q] # "free" => jobAgent'[q] = assignee'[jobTask'[q]]
        BY <2>1, <3>3, <4>2, <4>3 DEF Owners
      <4> QED
        BY <1>1, <2>1, <2>2, <4>2, <4>4 DEF Owners
    <3> QED
      BY <3>1, <3>4, <3>5
  <2>4. CASE (\E r \in Runs : StartJob(r) \/ StepFails(r)) \/ Crash
    <3>1. \A q \in Runs : bg'[q] # "free" => bg[q] # "free"
      <4>1. CASE \E r \in Runs : StartJob(r)
        BY <1>2, <4>1 DEF StartJob
      <4>2. CASE \E r \in Runs : StepFails(r)
        BY <1>2, <4>2 DEF StepFails, Throws, Settle
      <4>3. CASE Crash
        BY <4>3 DEF Crash
      <4> QED
        BY <2>4, <4>1, <4>2, <4>3
    <3> QED
      BY <1>1, <2>1, <2>2, <3>1, OwnersKept DEF SameRow
  <2> QED
    BY <2>2, <2>3, <2>4
<1> QED
  BY <1>3, <1>4, <1>5, <1>6 DEF Lane

LEMMA LaneInit == Init => Lane
<1> SUFFICES ASSUME Init PROVE Lane
  OBVIOUS
<1>1. TInv
  BY InitTypes
<1>2. Owners
  BY DEF Init, Owners
<1>3. Listed /\ OneJobEach /\ Notes /\ Clicking /\ Mine
  BY DEF Init, Listed, OneJobEach, Notes, Clicking, Mine, ReaperIdle, HoldingSteps
<1> QED
  BY <1>1, <1>2, <1>3 DEF Lane

LEMMA LaneInductive == ASSUME Lane, [Next]_vars PROVE Lane'
<1>1. TInv' /\ Listed'
  BY TypesInductive DEF Lane
<1>2. CASE UNCHANGED vars
  <2>1. UNCHANGED <<assignee, checkout, queue, bg, jobTask, jobAgent, pc, seen,
                    outcome, clicks, edits>>
    BY <1>2 DEF vars, taskVars, jobVars, peopleVars
  <2>2. OneJobEach' /\ Notes' /\ Clicking' /\ (Undisturbed' => Owners' /\ Mine')
    BY <2>1 DEF Lane, OneJobEach, Notes, Clicking, Undisturbed, Owners, Mine
  <2> QED
    BY <1>1, <2>2 DEF Lane
<1>3. CASE Next
  BY <1>1, <1>3, LanePeople, LaneManager, LanePipeline, LaneReaper DEF Next
<1> QED
  BY <1>2, <1>3

THEOREM LaneInvariant == Spec => []Lane
<1>1. Init => Lane
  BY LaneInit
<1>2. Lane /\ [Next]_vars => Lane'
  BY LaneInductive
<1> QED
  BY <1>1, <1>2, PTL DEF Spec

\* Two specialists never work on one task as long as tasks stay with their
\* agents, even while the reaper frees claims under running specialists.
THEOREM OneSpecialist == ASSUME AgentsStay PROVE Spec => []OneSpecialistPerTask
<1>1. Lane => OneSpecialistPerTask
  BY OneRunPerTask DEF Lane, Undisturbed, OneSpecialistPerTask
<1> QED
  BY <1>1, LaneInvariant, PTL

-----------------------------------------------------------------------------
(* In progress means claimed *)

\* The row says in progress exactly when it names a run.
Visible == \A t \in Tasks : status[t] = "in_progress" <=> checkout[t] # NoRun

LEMMA VisiblePipeline ==
  ASSUME Lane, Mine, Visible, NEW r \in Runs, PipelineStep(r)
  PROVE  Visible'
<1> DEFINE t == jobTask[r]
<1>1. Looks(r) \/ Begins(r) \/ Claims(r) \/ Frees(r) \/ Parks(r) \/ Stops(r)
  BY StepTable DEF Lane
<1>2. t \in Tasks
  BY Executing DEF Lane
<1>3. /\ status \in [Tasks -> TaskStatuses]
      /\ checkout \in [Tasks -> Runs \union {NoRun}]
  BY DEF Lane, TInv, TypeOK
<1>4. CASE Looks(r) \/ Begins(r) \/ Stops(r)
  BY <1>4 DEF Looks, Begins, Stops, SameRow, Visible
<1>5. CASE Claims(r)
  BY <1>2, <1>3, <1>5, RunsFacts DEF Claims, Visible
<1>6. CASE Frees(r)
  BY <1>2, <1>3, <1>6 DEF Frees, Visible
<1>7. CASE Parks(r)
  <2>1. checkout[t] = NoRun
    BY <1>7 DEF Parks, Advances, Mine
  <2>2. outcome[r] \in {"completed", "failed", "asked"}
    BY <1>7, CheckoutAssumption DEF Parks, Advances, Lane, Notes
  <2>3. PICK s \in RestingStatuses(outcome[r]) : status' = [status EXCEPT ![t] = s]
    BY <1>7 DEF Parks
  <2>4. s # "in_progress"
    BY <2>2, <2>3 DEF RestingStatuses
  <2> QED
    BY <1>2, <1>3, <1>7, <2>1, <2>3, <2>4 DEF Parks, Visible
<1> QED
  BY <1>1, <1>4, <1>5, <1>6, <1>7

LEMMA VisibleReaper ==
  ASSUME TInv, Listed, Visible, Reaper
  PROVE  Visible'
<1>1. /\ status \in [Tasks -> TaskStatuses]
      /\ checkout \in [Tasks -> Runs \union {NoRun}]
  BY DEF TInv, TypeOK
<1>2. \/ UNCHANGED <<status, checkout>>
      \/ \E t \in Tasks : /\ status' = [status EXCEPT ![t] = "todo"]
                           /\ checkout' = [checkout EXCEPT ![t] = NoRun]
  BY ReaperTable
<1> QED
  BY <1>1, <1>2 DEF Visible

\* While nobody edits the row, a task is in progress exactly while some run
\* holds it: a claim, a release, the parking of a task and the reaper each
\* write both columns or find them in step, whatever fails in between.
THEOREM ClaimsAreVisible == Spec => []InProgressIsClaimed
<1> DEFINE Inv == edits = 0 => Visible
<1>1. Init => Inv
  BY DEF Init, Visible
<1>2. ASSUME Lane, Inv, [Next]_vars PROVE Inv'
  <2> SUFFICES ASSUME edits' = 0 PROVE Visible'
    OBVIOUS
  <2>1. CASE UNCHANGED vars
    BY <1>2, <2>1 DEF vars, taskVars, peopleVars, Visible
  <2>2. CASE People
    BY <1>2, <2>2, PeopleCount DEF Lane
  <2>3. CASE \E r \in Runs : PipelineStep(r)
    <3>1. PICK r \in Runs : PipelineStep(r)
      BY <2>3
    <3>2. edits = 0
      BY <1>2, <3>1, StepTable DEF OnlyItself, Lane
    <3> QED
      BY <1>2, <3>1, <3>2, VisiblePipeline DEF Lane, Undisturbed
  <2>4. CASE Reaper
    BY <1>2, <2>4, ReaperTable, VisibleReaper DEF Lane
  <2>5. CASE \/ \E t \in Tasks : Deliver(t)
             \/ \E r \in Runs : StartJob(r) \/ StepFails(r)
             \/ Crash
    BY <1>2, <2>5, ManagerTable DEF Lane, SameRow, Visible
  <2> QED
    BY <1>2, <2>1, <2>2, <2>3, <2>4, <2>5 DEF Next
<1>3. Inv => InProgressIsClaimed
  BY DEF Visible, InProgressIsClaimed
<1> QED
  BY <1>1, <1>2, <1>3, LaneInvariant, PTL DEF Spec

-----------------------------------------------------------------------------
(* Work that was asked for is not forgotten *)

\* A job that is still to claim its task, has claimed it, or parks it.
Keeps(t, r) ==
  /\ jobTask[r] = t
  /\ bg[r] = "pending" \/ pc[r] \in {"read", "claim", "park"} \union HoldingSteps

Kept(t) ==
  \/ \E a \in Agents : <<t, a>> \in queue
  \/ \E r \in Runs : Keeps(t, r)

Promised == \A t \in Tasks : IsDispatchable(t) /\ wants[t] > 0 => Kept(t)

\* Every attempt after the first was paid for by a crash or a failed step.
RetriesPaid == \A r \in Runs : retries[r] <= faults

\* A step of a run takes no retry: the mismatch of a release is thrown for a
\* claim that another run has taken, and in the lane none has.
LEMMA RetriesKept ==
  ASSUME Lane, Mine, NEW r \in Runs, PipelineStep(r)
  PROVE  UNCHANGED retries
<1>1. CASE pc[r] = "release"
  <2>1. ReadForRelease(r)
    BY <1>1 DEF PipelineStep, ReadForCheckout, JudgeHolder, Claim, ReplaceStale,
         RecordRun, Register, StartSpecialist, EndSpecialist, Release, Park, Finish, At
  <2>2. checkout[jobTask[r]] \in {r, NoRun}
    BY <1>1 DEF Mine, HoldingSteps
  <2> QED
    BY <2>1, <2>2 DEF ReadForRelease, Goto
<1> QED
  BY <1>1, StepTable DEF Lane

LEMMA PromisedPipeline ==
  ASSUME Lane, Owners, Mine, Promised, NEW r \in Runs, PipelineStep(r)
  PROVE  Promised'
<1> DEFINE t == jobTask[r]
<1>1. /\ OnlyItself(r)
      /\ Looks(r) \/ Begins(r) \/ Claims(r) \/ Frees(r) \/ Parks(r) \/ Stops(r)
  BY StepTable DEF Lane
<1>2. bg[r] = "running" /\ t \in Tasks
  BY Executing DEF Lane
<1>3. /\ status \in [Tasks -> TaskStatuses]
      /\ assignee \in [Tasks -> Agents \union {NoAgent}]
      /\ checkout \in [Tasks -> Runs \union {NoRun}]
  BY DEF Lane, TInv, TypeOK
<1>4. UNCHANGED <<jobTask, queue, wants>>
  BY <1>1 DEF OnlyItself
<1>5. \A u \in Tasks, q \in Runs \ {r} : Keeps(u, q) => Keeps(u, q)'
  BY <1>1 DEF OnlyItself, Keeps
<1>6. ASSUME NEW u \in Tasks \ {t}, IsDispatchable(u)', wants'[u] > 0
      PROVE  Kept(u)'
  <2>1. /\ status'[u] = status[u] /\ assignee'[u] = assignee[u]
        /\ checkout'[u] = checkout[u]
    BY <1>1, <1>3 DEF Looks, Begins, Claims, Frees, Parks, Stops, SameRow
  <2>2. Kept(u)
    BY <1>4, <1>6, <2>1 DEF Promised, IsDispatchable
  <2>3. ~Keeps(u, r)
    BY <1>6 DEF Keeps
  <2> QED
    BY <1>4, <1>5, <2>2, <2>3 DEF Kept
<1>7. ASSUME IsDispatchable(t)', wants'[t] > 0
      PROVE  Kept(t)'
  <2>1. CASE Keeps(t, r)'
    BY <1>4, <2>1 DEF Kept
  <2>2. CASE ~Keeps(t, r)'
    <3>1. \/ SameRow /\ ~Keeps(t, r)
          \/ SameRow /\ (checkout[t] # NoRun \/ status[t] \notin EntryStatuses)
          \/ status'[t] \notin EntryStatuses
      <4>1. CASE Looks(r)
        BY <1>2, <1>4, <2>2, <4>1 DEF Looks, Advances, Keeps, HoldingSteps
      <4>2. CASE Begins(r) \/ Claims(r) \/ Frees(r)
        BY <1>4, <2>2, <4>2 DEF Begins, Claims, Frees, Advances, Keeps, HoldingSteps
      <4>3. CASE Parks(r)
        <5>1. outcome[r] \in {"completed", "failed", "asked"}
          BY <4>3, CheckoutAssumption DEF Parks, Advances, Lane, Notes
        <5>2. PICK s \in RestingStatuses(outcome[r]) : status' = [status EXCEPT ![t] = s]
          BY <4>3 DEF Parks
        <5>3. s \notin EntryStatuses
          BY <5>1, <5>2 DEF RestingStatuses, EntryStatuses
        <5> QED
          BY <1>2, <1>3, <5>2, <5>3
      <4>4. CASE Stops(r)
        <5>1. pc[r] # "release"
          BY <4>4 DEF Stops, Mine, HoldingSteps
        <5> QED
          BY <1>2, <4>4, <5>1 DEF Stops, Keeps, HoldingSteps
      <4> QED
        BY <1>1, <4>1, <4>2, <4>3, <4>4
    <3>2. SameRow /\ ~Keeps(t, r)
      BY <1>4, <1>7, <3>1 DEF IsDispatchable, Dispatchable, SameRow
    <3>3. Kept(t)
      BY <1>2, <1>4, <1>7, <3>2 DEF Promised, IsDispatchable, SameRow
    <3> QED
      BY <1>4, <1>5, <1>2, <3>2, <3>3 DEF Kept
  <2> QED
    BY <2>1, <2>2
<1> QED
  BY <1>4, <1>6, <1>7 DEF Promised

\* A handler that ends in a dispatch leaves a message when the task needs one.
LEMMA PromisedDispatch ==
  ASSUME TInv, Promised, "lost_send" \notin Env, NEW t \in Tasks, DispatchIfReady(t),
         UNCHANGED <<assignee, jobVars>>,
         \A u \in Tasks \ {t} : status'[u] = status[u] /\ checkout'[u] = checkout[u]
  PROVE  Promised'
<1>1. \A u \in Tasks : Kept(u) => Kept(u)'
  BY DispatchCounts DEF Kept, Keeps, jobVars
<1>2. \A u \in Tasks \ {t} : IsDispatchable(u)' /\ wants'[u] > 0 => Kept(u)'
  BY <1>1, DispatchCounts DEF Promised, IsDispatchable
<1>3. IsDispatchable(t)' => Kept(t)'
  BY DispatchCounts DEF Kept
<1> QED
  BY <1>2, <1>3 DEF Promised

\* A message becomes a job, and a job that fails is run again while it has
\* retries left.
LEMMA PromisedManager ==
  ASSUME Lane, RetriesPaid, faults' <= MaxRetries, Promised,
         \/ \E t \in Tasks : Deliver(t)
         \/ \E r \in Runs : StartJob(r) \/ StepFails(r)
         \/ Crash
  PROVE  Promised'
<1>1. SameRow /\ UNCHANGED wants
  BY ManagerTable DEF Lane
<1>2. /\ bg \in [Runs -> {"free", "pending", "running", "suspended", "settled"}]
      /\ jobTask \in [Runs -> Tasks \union {NoTask}]
      /\ pc \in [Runs -> Steps \union {"idle"}]
      /\ retries \in [Runs -> 0..MaxRetries]
      /\ \A r \in Runs : pc[r] # "idle" <=> bg[r] = "running"
      /\ faults \in Nat /\ MaxRetries \in Nat
  BY CheckoutAssumption DEF Lane, TInv, TypeOK, Jobs
<1>3. "idle" \notin {"read", "claim", "park"} \union HoldingSteps
  BY DEF HoldingSteps
<1>4. \A t \in Tasks : Kept(t) => Kept(t)'
  <2>1. CASE \E t \in Tasks : Deliver(t)
    <3>1. PICK t \in Tasks, a \in Agents, r \in Runs :
            DeliverToSuspended(t, a, r) \/ DeliverFresh(t, a, r)
      BY <2>1 DEF Deliver
    <3>2. /\ bg[r] # "running" /\ bg[r] # "pending"
          /\ bg' = [bg EXCEPT ![r] = "pending"] /\ UNCHANGED pc
          /\ \A m \in queue : m \in queue' \/ m = <<t, a>>
      BY <3>1 DEF DeliverToSuspended, DeliverFresh, SuspendedFor, Acked
    <3>3. /\ jobTask'[r] = t
          /\ \A q \in Runs \ {r} : jobTask'[q] = jobTask[q]
      BY <1>2, <3>1 DEF DeliverToSuspended, DeliverFresh, SuspendedFor
    <3>4. Keeps(t, r)'
      BY <1>2, <3>2, <3>3 DEF Keeps
    <3>5. \A u \in Tasks, q \in Runs : Keeps(u, q) => Keeps(u, q)'
      BY <1>2, <1>3, <3>2, <3>3 DEF Keeps
    <3> QED
      BY <3>2, <3>4, <3>5 DEF Kept
  <2>2. CASE (\E r \in Runs : StartJob(r) \/ StepFails(r)) \/ Crash
    <3>1. UNCHANGED <<queue, jobTask>>
      BY <2>2 DEF StartJob, StepFails, Throws, Settle, Crash
    <3>2. \A q \in Runs : Keeps(jobTask[q], q) => Keeps(jobTask[q], q)'
      <4>1. CASE \E r \in Runs : StartJob(r)
        BY <1>2, <3>1, <4>1 DEF StartJob, Keeps
      <4>2. CASE \E r \in Runs : StepFails(r)
        <5>1. PICK r \in Runs : StepFails(r)
          BY <4>2
        <5>2. retries[r] < MaxRetries
          BY <1>2, <5>1 DEF StepFails, RetriesPaid
        <5>3. Settle(r, "pending")
          BY <5>1, <5>2 DEF StepFails, Throws
        <5> QED
          BY <3>1, <5>3, SettleOnly DEF Keeps, Lane
      <4>3. CASE Crash
        <5>1. \A r \in Runs : retries[r] < MaxRetries
          BY <1>2, <4>3 DEF Crash, RetriesPaid
        <5>2. \A r \in Runs : bg'[r] = IF bg[r] = "running" THEN "pending" ELSE bg[r]
          BY <4>3, <5>1 DEF Crash
        <5> QED
          BY <1>2, <1>3, <3>1, <5>2 DEF Keeps
      <4> QED
        BY <2>2, <4>1, <4>2, <4>3
    <3> QED
      BY <3>1, <3>2 DEF Kept, Keeps
  <2> QED
    BY <2>1, <2>2
<1> QED
  BY <1>1, <1>4 DEF Promised, IsDispatchable, SameRow

LEMMA RetriesPaidManager ==
  ASSUME Lane, RetriesPaid,
         \/ \E t \in Tasks : Deliver(t)
         \/ \E r \in Runs : StartJob(r) \/ StepFails(r)
         \/ Crash
  PROVE  RetriesPaid'
<1>1. faults \in Nat /\ retries \in [Runs -> 0..MaxRetries] /\ MaxRetries \in Nat
  BY CheckoutAssumption DEF Lane, TInv, TypeOK
<1>2. faults' \in {faults, faults + 1}
  BY ManagerTable DEF Lane
<1>3. CASE UNCHANGED retries
  BY <1>1, <1>2, <1>3 DEF RetriesPaid
<1>4. CASE \E r \in Runs : StepFails(r)
  BY <1>1, <1>4 DEF StepFails, Throws, RetriesPaid
<1>5. CASE Crash
  BY <1>1, <1>5 DEF Crash, RetriesPaid
<1> QED
  BY <1>3, <1>4, <1>5 DEF Deliver, DeliverToSuspended, DeliverFresh, StartJob

\* A task somebody asked to run and that could be claimed has a message or a
\* job on its way, whatever people do to its status, whatever the reaper frees
\* and whatever is redelivered, for as many faults as a job has retries.  It
\* needs the lane, and a dispatch that is sent when the row is written.
THEOREM WorkIsNotForgotten ==
  ASSUME AgentsStay, "lost_send" \notin Env
  PROVE  Spec => [](faults <= MaxRetries => NothingForgotten)
<1> DEFINE Inv == RetriesPaid /\ (faults <= MaxRetries => Promised)
<1>1. Init => Inv
  <2> SUFFICES ASSUME Init PROVE Inv
    OBVIOUS
  <2>1. RetriesPaid
    BY DEF Init, RetriesPaid
  <2>2. Promised
    BY DEF Init, Promised, Kept
  <2> QED
    BY <2>1, <2>2
<1>2. ASSUME Lane, Inv, [Next]_vars PROVE Inv'
  <2>1. Lane' /\ Owners /\ Mine /\ Undisturbed'
    BY <1>2, LaneInductive DEF Lane, Undisturbed
  <2>2. faults \in Nat /\ faults' \in Nat /\ MaxRetries \in Nat
    BY <1>2, <2>1, CheckoutAssumption DEF Lane, TInv, TypeOK
  <2>3. retries \in [Runs -> 0..MaxRetries]
    BY <1>2 DEF Lane, TInv, TypeOK
  <2>4. ASSUME faults' \in {faults, faults + 1}, UNCHANGED retries
        PROVE  RetriesPaid' /\ (faults' <= MaxRetries => faults <= MaxRetries)
    BY <1>2, <2>2, <2>3, <2>4, CheckoutAssumption DEF RetriesPaid
  <2>5. CASE UNCHANGED vars
    <3>1. UNCHANGED <<status, assignee, checkout, queue, bg, jobTask, retries, pc, wants, faults>>
      BY <2>5 DEF vars, taskVars, jobVars, peopleVars
    <3> QED
      BY <1>2, <3>1 DEF RetriesPaid, Promised, IsDispatchable, Kept, Keeps
  <2>6. CASE People
    <3>1. /\ UNCHANGED <<assignee, checkout, jobVars>>
          /\ \/ UNCHANGED <<status, queue, wants, faults>>
             \/ \E t \in Tasks : /\ DispatchIfReady(t)
                                 /\ \A u \in Tasks \ {t} : status'[u] = status[u]
      BY <1>2, <2>1, <2>6, PeopleTable
    <3>2. faults' \in {faults, faults + 1}
      BY <1>2, <3>1, DispatchCounts DEF Lane
    <3>3. ASSUME Promised PROVE Promised'
      <4>1. CASE UNCHANGED <<status, queue, wants, faults>>
        BY <3>1, <3>3, <4>1 DEF Promised, IsDispatchable, Kept, Keeps, jobVars
      <4> QED
        BY <1>2, <3>1, <3>3, <4>1, PromisedDispatch DEF Lane
    <3> QED
      BY <1>2, <2>4, <3>1, <3>2, <3>3 DEF jobVars
  <2>7. CASE Reaper
    <3>1. /\ UNCHANGED <<assignee, jobVars>>
          /\ \/ /\ UNCHANGED <<status, checkout, queue, wants>>
                /\ faults' \in {faults, faults + 1}
             \/ \E t \in Tasks :
                  /\ DispatchIfReady(t)
                  /\ \A u \in Tasks \ {t} : status'[u] = status[u] /\ checkout'[u] = checkout[u]
      <4>1. /\ status \in [Tasks -> TaskStatuses]
            /\ checkout \in [Tasks -> Runs \union {NoRun}]
        BY <1>2 DEF Lane, TInv, TypeOK
      <4> QED
        BY <1>2, <2>7, <4>1, ReaperTable DEF Lane
    <3>2. faults' \in {faults, faults + 1}
      BY <1>2, <3>1, DispatchCounts DEF Lane
    <3>3. ASSUME Promised PROVE Promised'
      <4>1. CASE UNCHANGED <<status, checkout, queue, wants>>
        BY <3>1, <3>3, <4>1 DEF Promised, IsDispatchable, Kept, Keeps, jobVars
      <4> QED
        BY <1>2, <3>1, <3>3, <4>1, PromisedDispatch DEF Lane
    <3> QED
      BY <1>2, <2>4, <3>1, <3>2, <3>3 DEF jobVars
  <2>8. CASE \E r \in Runs : PipelineStep(r)
    <3>1. PICK r \in Runs : PipelineStep(r)
      BY <2>8
    <3>2. UNCHANGED retries /\ faults' \in {faults, faults + 1}
      BY <1>2, <2>1, <3>1, RetriesKept, StepTable DEF Lane, OnlyItself
    <3> QED
      BY <1>2, <2>1, <2>4, <3>1, <3>2, PromisedPipeline
  <2>9. CASE \/ \E t \in Tasks : Deliver(t)
             \/ \E r \in Runs : StartJob(r) \/ StepFails(r)
             \/ Crash
    <3>1. faults' \in {faults, faults + 1}
      BY <1>2, <2>9, ManagerTable DEF Lane
    <3>2. faults' <= MaxRetries => faults <= MaxRetries
      BY <2>2, <3>1
    <3> QED
      BY <1>2, <2>9, <3>2, PromisedManager, RetriesPaidManager
  <2> QED
    BY <1>2, <2>5, <2>6, <2>7, <2>8, <2>9 DEF Next
<1>3. Lane /\ Inv => (faults <= MaxRetries => NothingForgotten)
  <2> SUFFICES ASSUME Lane, Promised PROVE NothingForgotten
    OBVIOUS
  <2>1. \A t \in Tasks, r \in Runs :
          Keeps(t, r) => jobTask[r] = t /\ bg[r] \in {"pending", "running"}
    BY DEF Lane, TInv, Jobs, Keeps, HoldingSteps
  <2> QED
    BY <2>1 DEF Promised, Kept, NothingForgotten
<1> QED
  BY <1>1, <1>2, <1>3, LaneInvariant, PTL DEF Spec

-----------------------------------------------------------------------------
(* No specialist starts unasked *)

\* Nobody works on a task that nobody has asked to run.
Asked ==
  \A t \in Tasks : wants[t] = 0 =>
    /\ checkout[t] = NoRun
    /\ \A r \in Runs : jobTask[r] # t
    /\ \A m \in queue : m[1] # t

\* Another start may follow: the task could be claimed, or is claimed, or a
\* run has claimed it and its specialist is about to start.
MayStart(t) ==
  \/ wants[t] > 0 /\ (status[t] \in EntryStatuses \/ checkout[t] # NoRun)
  \/ \E r \in Runs : jobTask[r] = t /\ pc[r] \in {"record", "register", "brief"}

\* The run that has started last has not yet said how the task goes on.
Spent(t) ==
  \E r \in Runs : jobTask[r] = t /\ pc[r] \in {"work", "release", "free", "park"}

WithinBudget(t) ==
  /\ starts[t] <= wants[t] + faults
  /\ MayStart(t) /\ ~Spent(t) => starts[t] < wants[t] + faults

Budget == \A t \in Tasks : WithinBudget(t)

LEMMA BudgetTypes ==
  ASSUME TInv
  PROVE  /\ starts \in [Tasks -> Nat] /\ wants \in [Tasks -> Nat] /\ faults \in Nat
         /\ status \in [Tasks -> TaskStatuses]
         /\ assignee \in [Tasks -> Agents \union {NoAgent}]
         /\ checkout \in [Tasks -> Runs \union {NoRun}]
  BY CheckoutAssumption DEF TInv, TypeOK

LEMMA BudgetPipeline ==
  ASSUME Lane, Owners, Mine, Asked, Budget, NEW r \in Runs, PipelineStep(r)
  PROVE  Asked' /\ Budget'
<1> DEFINE t == jobTask[r]
<1>1. /\ OnlyItself(r)
      /\ Looks(r) \/ Begins(r) \/ Claims(r) \/ Frees(r) \/ Parks(r) \/ Stops(r)
  BY StepTable DEF Lane
<1>2. pc[r] # "idle" /\ t \in Tasks
  BY Executing DEF Lane
<1>3. /\ starts \in [Tasks -> Nat] /\ wants \in [Tasks -> Nat] /\ faults \in Nat
      /\ status \in [Tasks -> TaskStatuses]
      /\ checkout \in [Tasks -> Runs \union {NoRun}]
  BY BudgetTypes DEF Lane
<1>4. UNCHANGED <<jobTask, queue, wants>> /\ faults' \in {faults, faults + 1}
  BY <1>1 DEF OnlyItself
<1>5. \A u \in Tasks \ {t} :
        status'[u] = status[u] /\ checkout'[u] = checkout[u] /\ starts'[u] = starts[u]
  BY <1>1, <1>3 DEF Looks, Begins, Claims, Frees, Parks, Stops, SameRow
<1>6. \A q \in Runs \ {r} : pc'[q] = pc[q]
  BY <1>1 DEF OnlyItself
<1>7. wants[t] > 0
  BY <1>2, <1>3 DEF Asked
<1>8. Asked'
  BY <1>2, <1>3, <1>4, <1>5, <1>7 DEF Asked
<1>9. ASSUME NEW u \in Tasks \ {t} PROVE WithinBudget(u)'
  <2>1. (MayStart(u)' => MayStart(u)) /\ (Spent(u) => Spent(u)')
    BY <1>4, <1>5, <1>6 DEF MayStart, Spent
  <2> QED
    BY <1>3, <1>4, <1>5, <2>1 DEF Budget, WithinBudget
<1>10. \A q \in Runs \ {r} : jobTask[q] = t => pc[q] = "idle"
  BY <1>2, OneRunPerTask DEF Lane
<1>11. pc[r] \notin {"work", "release", "free", "park"} => ~Spent(t)
  BY <1>10 DEF Spent
<1>12. ASSUME pc'[r] \in {"work", "release", "free", "park"}
       PROVE  \A x : x = t => Spent(x)'
  BY <1>4, <1>12 DEF Spent
<1>13. ASSUME pc'[r] \notin {"record", "register", "brief"},
              NEW x, x = t, MayStart(x)'
       PROVE  status'[t] \in EntryStatuses \/ checkout'[t] # NoRun
  BY <1>4, <1>6, <1>10, <1>13 DEF MayStart
<1>14. status[t] \in EntryStatuses \/ checkout[t] # NoRun => MayStart(t)
  BY <1>7 DEF MayStart
<1>15. ASSUME NEW x, x = t PROVE WithinBudget(x)'
  <2>1. starts[t] <= wants[t] + faults
    BY <1>2 DEF Budget, WithinBudget
  <2>2. CASE Begins(r)
    <3>1. MayStart(t) /\ ~Spent(t)
      BY <1>11, <2>2 DEF Begins, Advances, MayStart
    <3>2. starts[t] < wants[t] + faults
      BY <1>2, <3>1 DEF Budget, WithinBudget
    <3>3. starts'[t] = starts[t] + 1
      BY <1>2, <1>3, <2>2 DEF Begins
    <3>4. Spent(x)'
      BY <1>12, <1>15, <2>2 DEF Begins, Advances
    <3> QED
      BY <1>2, <1>3, <1>4, <1>15, <3>2, <3>3, <3>4 DEF WithinBudget
  <2>3. CASE ~Begins(r)
    <3>1. UNCHANGED starts
      BY <1>1, <2>3 DEF Looks, Claims, Frees, Parks, Stops
    <3>2. Spent(x)' \/ ~MayStart(x)' \/ (MayStart(t) /\ ~Spent(t))
      <4>1. CASE pc'[r] \in {"work", "release", "free", "park"}
        BY <1>12, <1>15, <4>1
      <4>2. CASE pc'[r] \notin {"work", "release", "free", "park"}
        <5>1. CASE Looks(r)
          <6>1. pc[r] \in {"read", "stale", "record", "register"}
            BY <4>2, <5>1 DEF Looks, Advances
          <6>2. CASE pc'[r] \in {"stale", "claim", "replace"}
            BY <1>11, <1>13, <1>14, <1>15, <5>1, <6>1, <6>2 DEF Looks, SameRow
          <6>3. CASE Advances(r, "read", "register") /\ checkout[t] = r
            BY <1>11, <1>14, <6>1, <6>3, RunsFacts DEF Advances
          <6>4. CASE pc[r] \in {"record", "register"}
            BY <1>2, <1>11, <6>4 DEF MayStart
          <6> QED
            BY <4>2, <5>1, <6>1, <6>2, <6>3, <6>4 DEF Looks, Advances
        <5>2. CASE Claims(r)
          <6>1. status[t] \in EntryStatuses \/ checkout[t] # NoRun
            BY <5>2 DEF Claims, Lane, Notes
          <6> QED
            BY <1>11, <1>14, <5>2, <6>1 DEF Claims
        <5>3. CASE Frees(r)
          BY <4>2, <5>3 DEF Frees, Advances
        <5>4. CASE Parks(r)
          <6>1. outcome[r] \in {"completed", "failed", "asked"}
            BY <5>4, CheckoutAssumption DEF Parks, Advances, Lane, Notes
          <6>2. PICK s \in RestingStatuses(outcome[r]) : status' = [status EXCEPT ![t] = s]
            BY <5>4 DEF Parks
          <6>3. s \notin EntryStatuses
            BY <6>1, <6>2 DEF RestingStatuses, EntryStatuses
          <6>4. checkout'[t] = NoRun /\ status'[t] = s
            BY <1>2, <1>3, <5>4, <6>2 DEF Parks, Advances, Mine
          <6> QED
            BY <1>13, <1>15, <5>4, <6>3, <6>4 DEF Parks, Advances
        <5>5. CASE Stops(r)
          <6>1. pc[r] \in {"stale", "replace", "finish", "claim"}
            BY <5>5 DEF Stops, Mine, HoldingSteps
          <6> QED
            BY <1>11, <1>13, <1>14, <1>15, <5>5, <6>1 DEF Stops, SameRow
        <5> QED
          BY <1>1, <2>3, <5>1, <5>2, <5>3, <5>4, <5>5
      <4> QED
        BY <4>1, <4>2
    <3>3. MayStart(t) /\ ~Spent(t) => starts[t] < wants[t] + faults
      BY <1>2 DEF Budget, WithinBudget
    <3> QED
      BY <1>2, <1>3, <1>4, <1>15, <2>1, <3>1, <3>2, <3>3 DEF WithinBudget
  <2> QED
    BY <2>2, <2>3
<1>16. \A u \in Tasks : WithinBudget(u)'
  BY <1>9, <1>15
<1> QED
  BY <1>8, <1>16 DEF Budget

\* A dispatch that puts a task within reach of a claim counts as one more wish,
\* or as a fault when it is lost.
LEMMA BudgetDispatch ==
  ASSUME TInv, Owners, Asked, Budget, NEW t \in Tasks, DispatchIfReady(t),
         UNCHANGED <<assignee, jobVars, starts>>,
         \A u \in Tasks \ {t} : status'[u] = status[u],
         \A u \in Tasks : checkout'[u] \in {checkout[u], NoRun}
  PROVE  Asked' /\ Budget'
<1>1. /\ starts \in [Tasks -> Nat] /\ wants \in [Tasks -> Nat] /\ faults \in Nat
      /\ checkout \in [Tasks -> Runs \union {NoRun}]
  BY BudgetTypes
<1>2. /\ \A m \in queue' : m \in queue \/ (m = <<t, assignee'[t]>> /\ wants'[t] > 0)
      /\ \A u \in Tasks \ {t} : wants'[u] = wants[u]
      /\ wants'[t] \in {wants[t], wants[t] + 1}
      /\ faults' \in {faults, faults + 1}
      /\ IsDispatchable(t)' => wants'[t] + faults' = wants[t] + faults + 1
  BY DispatchCounts
<1>3. UNCHANGED <<jobTask, pc, starts>>
  BY DEF jobVars
<1>4. ASSUME NEW u \in Tasks, wants'[u] = 0
      PROVE  /\ checkout'[u] = NoRun
             /\ \A r \in Runs : jobTask'[r] # u
             /\ \A m \in queue' : m[1] # u
  <2>1. wants[u] = 0
    BY <1>1, <1>2, <1>4
  <2>2. \A m \in queue' : m \in queue \/ m[1] # u
    BY <1>2, <1>4
  <2> QED
    BY <1>3, <2>1, <2>2 DEF Asked
<1>5. ASSUME NEW u \in Tasks PROVE WithinBudget(u)'
  <2>1. WithinBudget(u) /\ wants'[u] >= wants[u] /\ faults' >= faults
    BY <1>1, <1>2 DEF Budget
  <2>2. Spent(u)' <=> Spent(u)
    BY <1>3 DEF Spent
  <2>3. MayStart(u)' => MayStart(u) \/ (u = t /\ IsDispatchable(t)')
    <3>1. CASE \E r \in Runs : jobTask[r] = u /\ pc[r] \in {"record", "register", "brief"}
      BY <3>1 DEF MayStart
    <3>2. CASE checkout[u] # NoRun
      BY <1>1, <3>2 DEF MayStart, Asked
    <3>3. CASE checkout[u] = NoRun /\ u # t
      BY <1>2, <1>3, <3>3 DEF MayStart
    <3>4. CASE checkout[u] = NoRun /\ u = t
      <4>1. checkout'[t] = NoRun /\ assignee'[t] \in Agents
        BY <3>4 DEF Owners
      <4> QED
        BY <1>3, <3>4, <4>1 DEF MayStart, IsDispatchable, Dispatchable
    <3> QED
      BY <3>1, <3>2, <3>3, <3>4
  <2> QED
    BY <1>1, <1>2, <1>3, <2>1, <2>2, <2>3 DEF WithinBudget
<1> QED
  BY <1>4, <1>5 DEF Asked, Budget

\* A job of a task nobody asked for has no message to come from; an attempt
\* that fails after its start leaves a fault for the next one.
LEMMA BudgetManager ==
  ASSUME Lane, Asked, Budget,
         \/ \E t \in Tasks : Deliver(t)
         \/ \E r \in Runs : StartJob(r) \/ StepFails(r)
         \/ Crash
  PROVE  Asked' /\ Budget'
<1>1. /\ starts \in [Tasks -> Nat] /\ wants \in [Tasks -> Nat] /\ faults \in Nat
      /\ jobTask \in [Runs -> Tasks \union {NoTask}]
      /\ pc \in [Runs -> Steps \union {"idle"}]
  BY BudgetTypes DEF Lane, TInv, TypeOK
<1>2. /\ SameRow /\ UNCHANGED <<wants, starts>>
      /\ queue' \subseteq queue /\ faults' \in {faults, faults + 1}
  BY ManagerTable DEF Lane
<1>3. /\ \A q \in Runs : jobTask'[q] = jobTask[q] \/ \E m \in queue : m[1] = jobTask'[q]
      /\ \/ faults' = faults + 1
         \/ \A q \in Runs :
              \/ pc'[q] = pc[q] /\ (jobTask'[q] = jobTask[q] \/ pc[q] = "idle")
              \/ pc[q] = "idle" /\ pc'[q] = "read"
  <2>1. CASE \E t \in Tasks : Deliver(t)
    <3>1. PICK t \in Tasks, a \in Agents, r \in Runs :
            DeliverToSuspended(t, a, r) \/ DeliverFresh(t, a, r)
      BY <2>1 DEF Deliver
    <3>2. /\ <<t, a>> \in queue /\ UNCHANGED pc
          /\ \/ UNCHANGED jobTask
             \/ bg[r] = "free" /\ jobTask' = [jobTask EXCEPT ![r] = t]
      BY <3>1 DEF DeliverToSuspended, DeliverFresh
    <3>3. bg[r] = "free" => pc[r] = "idle"
      BY DEF Lane, TInv, Jobs
    <3>4. \A q \in Runs : jobTask'[q] = jobTask[q] \/ (jobTask'[q] = t /\ pc[q] = "idle")
      BY <1>1, <3>2, <3>3
    <3> QED
      BY <3>2, <3>4
  <2>2. CASE \E r \in Runs : StartJob(r)
    <3>1. PICK r \in Runs : StartJob(r)
      BY <2>2
    <3>2. pc[r] = "idle" /\ pc' = [pc EXCEPT ![r] = "read"] /\ UNCHANGED jobTask
      BY <3>1 DEF StartJob, Lane, TInv, Jobs
    <3> QED
      BY <1>1, <3>2
  <2>3. CASE (\E r \in Runs : StepFails(r)) \/ Crash
    BY <2>3 DEF StepFails, Throws, Settle, Crash
  <2> QED
    BY <2>1, <2>2, <2>3
<1>4. Asked'
  BY <1>2, <1>3 DEF Asked, SameRow
<1>5. ASSUME NEW u \in Tasks PROVE WithinBudget(u)'
  <2>1. starts[u] <= wants[u] + faults
    BY DEF Budget, WithinBudget
  <2>2. CASE faults' = faults + 1
    BY <1>1, <1>2, <2>1, <2>2 DEF WithinBudget
  <2>3. CASE \A q \in Runs :
               \/ pc'[q] = pc[q] /\ (jobTask'[q] = jobTask[q] \/ pc[q] = "idle")
               \/ pc[q] = "idle" /\ pc'[q] = "read"
    <3>1. (MayStart(u)' => MayStart(u)) /\ (Spent(u) => Spent(u)')
      BY <1>2, <2>3 DEF MayStart, Spent, SameRow
    <3> QED
      BY <1>1, <1>2, <3>1 DEF WithinBudget, Budget
  <2> QED
    BY <1>3, <2>2, <2>3
<1> QED
  BY <1>4, <1>5 DEF Budget

\* Every specialist that starts was asked for, but for one more start for each
\* fault: a job run again after a failure, a message delivered again or sent
\* twice, a task freed by the reaper start nobody's work twice.
THEOREM StartsAreAskedFor ==
  ASSUME AgentsStay
  PROVE  Spec => []RedeliveryHarmless
<1> DEFINE Inv == Asked /\ Budget
<1>1. Init => Inv
  <2> SUFFICES ASSUME Init PROVE Inv
    OBVIOUS
  <2>1. /\ \A t \in Tasks : /\ wants[t] = IF StartsOnCreate(status[t]) THEN 1 ELSE 0
                            /\ starts[t] = 0 /\ checkout[t] = NoRun
        /\ \A r \in Runs : jobTask[r] = NoTask /\ pc[r] = "idle"
        /\ faults = 0
    BY DEF Init
  <2>2. \A m \in queue : wants[m[1]] = 1
    BY <2>1 DEF Init
  <2>3. Asked
    BY <2>1, <2>2, CheckoutAssumption DEF Asked
  <2>4. Budget
    BY <2>1 DEF Budget, WithinBudget, MayStart
  <2> QED
    BY <2>3, <2>4
<1>2. ASSUME Lane, Inv, [Next]_vars PROVE Inv'
  <2>1. Lane' /\ Owners /\ Mine /\ Undisturbed'
    BY <1>2, LaneInductive DEF Lane, Undisturbed
  <2>2. UNCHANGED <<status, checkout, queue, jobTask, pc, wants, starts, faults>> => Inv'
    BY <1>2 DEF Asked, Budget, WithinBudget, MayStart, Spent
  <2>3. CASE UNCHANGED vars
    BY <2>2, <2>3 DEF vars, taskVars, jobVars, peopleVars
  <2>4. CASE People
    BY <1>2, <2>1, <2>2, <2>4, PeopleTable, BudgetDispatch DEF Lane, jobVars
  <2>5. CASE Reaper
    <3>1. /\ status \in [Tasks -> TaskStatuses]
          /\ checkout \in [Tasks -> Runs \union {NoRun}]
      BY <1>2, BudgetTypes DEF Lane
    <3>2. /\ UNCHANGED <<assignee, jobVars, starts>>
          /\ \/ /\ UNCHANGED <<status, checkout, queue, wants>>
                /\ faults' \in {faults, faults + 1}
             \/ \E t \in Tasks :
                  /\ DispatchIfReady(t)
                  /\ \A u \in Tasks \ {t} : status'[u] = status[u]
                  /\ \A u \in Tasks : checkout'[u] \in {checkout[u], NoRun}
      BY <1>2, <2>5, <3>1, ReaperTable DEF Lane
    <3>3. CASE /\ UNCHANGED <<status, checkout, queue, wants>>
               /\ faults' \in {faults, faults + 1}
      <4>1. UNCHANGED <<jobTask, pc, starts>>
        BY <3>2 DEF jobVars
      <4>2. starts \in [Tasks -> Nat] /\ wants \in [Tasks -> Nat] /\ faults \in Nat
        BY <1>2, BudgetTypes DEF Lane
      <4> QED
        BY <1>2, <3>3, <4>1, <4>2
        DEF Asked, Budget, WithinBudget, MayStart, Spent
    <3> QED
      BY <1>2, <2>1, <3>2, <3>3, BudgetDispatch DEF Lane
  <2>6. CASE \E r \in Runs : PipelineStep(r)
    BY <1>2, <2>1, <2>6, BudgetPipeline
  <2>7. CASE \/ \E t \in Tasks : Deliver(t)
             \/ \E r \in Runs : StartJob(r) \/ StepFails(r)
             \/ Crash
    BY <1>2, <2>7, BudgetManager
  <2> QED
    BY <1>2, <2>3, <2>4, <2>5, <2>6, <2>7 DEF Next
<1>3. Inv => RedeliveryHarmless
  BY DEF Budget, WithinBudget, RedeliveryHarmless
<1> QED
  BY <1>1, <1>2, <1>3, LaneInvariant, PTL DEF Spec

=============================================================================
