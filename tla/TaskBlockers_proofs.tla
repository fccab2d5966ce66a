------------------------- MODULE TaskBlockers_proofs -------------------------
(***************************************************************************)
(* Proofs about TaskBlockers.  For any number of concurrent requests: its  *)
(* types; that the check of validateBlockedBy keeps the dependency graph   *)
(* free of cycles as long as no request overtakes the walk of another; and *)
(* that no wake-up is lost as long as no request decides on a row that has *)
(* changed.                                                                *)
(***************************************************************************)
EXTENDS TaskBlockers, TLAPS

-----------------------------------------------------------------------------
(* Types *)

LEMMA InitTypes == Init => TypeOK
<1> SUFFICES ASSUME Init PROVE TypeOK
  OBVIOUS
<1>1. blockedBy \in [Tasks -> SUBSET Tasks]
  BY BlockersAssumption DEF Init
<1>2. status \in [Tasks -> TaskStatuses]
  BY BlockersAssumption DEF Init, TaskStatuses
<1>3. queue \subseteq Tasks
  BY DEF Init
<1>4. row \in [Handlers -> Rows]
  BY DEF Init, NoRows, Rows, TaskStatuses
<1>5. patch \in [Handlers -> [status : TaskStatuses \union {"keep"},
                              blockers : SUBSET Tasks, sets : BOOLEAN]]
  BY DEF Init, NoPatch
<1>6. calls \in 0..MaxCalls /\ faults \in 0..MaxFaults
  BY BlockersAssumption DEF Init
<1>7. QED
  BY <1>1, <1>2, <1>3, <1>4, <1>5, <1>6 DEF Init, TypeOK, Places

\* What a handler keeps, without the task rows and the bounds.
CallTypes ==
  /\ at \in [Handlers -> Places]
  /\ task \in [Handlers -> Tasks \union {NoTask}]
  /\ patch \in [Handlers -> [status : TaskStatuses \union {"keep"},
                             blockers : SUBSET Tasks, sets : BOOLEAN]]
  /\ wasDone \in [Handlers -> BOOLEAN]
  /\ frontier \in [Handlers -> SUBSET Tasks]
  /\ visited \in [Handlers -> SUBSET Tasks]
  /\ row \in [Handlers -> Rows]
  /\ todo \in [Handlers -> SUBSET Tasks]
  /\ dep \in [Handlers -> Tasks \union {NoTask}]

\* A handler that works has a task, and the one it is about to wake is a task.
AtWork ==
  \A h \in Handlers :
    /\ at[h] # "idle" => task[h] \in Tasks
    /\ at[h] \in {"flip", "wake"} => dep[h] \in Tasks

BInv == TypeOK /\ AtWork

LEMMA SnapshotType == TypeOK => Snapshot \in Rows
  BY DEF TypeOK, Snapshot, Rows

LEMMA EndsKeepsTypes ==
  ASSUME BInv, NEW h \in Handlers, Ends(h)
  PROVE  CallTypes' /\ AtWork'
<1>1. NoRows \in Rows
  BY DEF NoRows, Rows, TaskStatuses
<1>2. NoPatch \in [status : TaskStatuses \union {"keep"},
                   blockers : SUBSET Tasks, sets : BOOLEAN]
  BY DEF NoPatch
<1>3. CallTypes'
  BY <1>1, <1>2 DEF BInv, TypeOK, CallTypes, Ends, Places
<1>4. AtWork'
  BY DEF BInv, TypeOK, AtWork, Ends
<1>5. QED
  BY <1>3, <1>4

LEMMA NextDependentKeepsTypes ==
  ASSUME BInv, NEW h \in Handlers, at[h] # "idle", NEW left \in SUBSET Tasks,
         NEW rows \in Rows, NextDependent(h, left, rows)
  PROVE  CallTypes' /\ AtWork'
<1>1. CASE left = {}
  BY <1>1, EndsKeepsTypes DEF NextDependent
<1>2. CASE left # {}
  <2>1. /\ at' = [at EXCEPT ![h] = "check"]
        /\ row' = [row EXCEPT ![h] = rows]
        /\ todo' = [todo EXCEPT ![h] = left]
        /\ dep' = [dep EXCEPT ![h] = NoTask]
        /\ UNCHANGED <<task, patch, wasDone, frontier, visited>>
    BY <1>2 DEF NextDependent, callVars, walkVars
  <2>2. CallTypes'
    BY <2>1 DEF BInv, TypeOK, CallTypes, Places
  <2>3. AtWork'
    BY <2>1 DEF BInv, TypeOK, AtWork
  <2>4. QED
    BY <2>2, <2>3
<1>3. QED
  BY <1>1, <1>2

LEMMA CallKeeps ==
  ASSUME BInv, NEW h \in Handlers, NEW t \in Tasks, NEW place \in Places,
         NEW p \in [status : TaskStatuses \union {"keep"},
                    blockers : SUBSET Tasks, sets : BOOLEAN],
         place \notin {"flip", "wake"},
         Call(h, t, p, place), frontier' \in [Handlers -> SUBSET Tasks]
  PROVE  BInv'
<1>1. TypeOK'
  <2>1. calls' \in 0..MaxCalls
    BY BlockersAssumption DEF BInv, TypeOK, Call
  <2>2. UNCHANGED <<status, blockedBy, claimed, queue, visited, row, todo, dep, faults>>
    BY DEF Call, rowVars, wakeVars
  <2>3. /\ at' \in [Handlers -> Places]
        /\ task' \in [Handlers -> Tasks \union {NoTask}]
        /\ patch' \in [Handlers -> [status : TaskStatuses \union {"keep"},
                                    blockers : SUBSET Tasks, sets : BOOLEAN]]
        /\ wasDone' \in [Handlers -> BOOLEAN]
    BY DEF BInv, TypeOK, Call
  <2>4. QED
    BY <2>1, <2>2, <2>3 DEF BInv, TypeOK
<1>2. AtWork'
  BY DEF BInv, TypeOK, AtWork, Call, wakeVars
<1>3. QED
  BY <1>1, <1>2 DEF BInv

\* The steps of a request that is under way.
LEMMA HandlerKeeps ==
  ASSUME BInv, NEW h \in Handlers, HandlerStep(h)
  PROVE  BInv'
<1> USE DEF BInv
<1>0. ASSUME CallTypes', AtWork', status' \in [Tasks -> TaskStatuses],
             blockedBy' \in [Tasks -> SUBSET Tasks],
             UNCHANGED <<claimed, calls, faults>>, queue' \subseteq Tasks
      PROVE  BInv'
  BY <1>0 DEF TypeOK, CallTypes
<1>1. CASE Walk(h)
  <2> PICK id \in frontier[h] :
         /\ at[h] = "walk"
         /\ IF task[h] \in blockedBy[id]
            THEN Ends(h)
            ELSE LET seen == visited[h] \union {id}
                     next == (frontier[h] \union blockedBy[id]) \ seen
                 IN /\ visited' = [visited EXCEPT ![h] = seen]
                    /\ frontier' = [frontier EXCEPT ![h] = next]
                    /\ at' = [at EXCEPT ![h] = IF next = {} THEN "update" ELSE "walk"]
                    /\ UNCHANGED <<callVars, row, wakeVars>>
         /\ UNCHANGED <<rowVars, calls, faults>>
    BY <1>1 DEF Walk
  <2>1. CASE task[h] \in blockedBy[id]
    BY <2>1, <1>0, EndsKeepsTypes DEF TypeOK, rowVars
  <2>2. CASE task[h] \notin blockedBy[id]
    <3> DEFINE seen == visited[h] \union {id}
               next == (frontier[h] \union blockedBy[id]) \ seen
    <3>1. /\ visited' \in [Handlers -> SUBSET Tasks]
          /\ frontier' \in [Handlers -> SUBSET Tasks]
          /\ at' \in [Handlers -> Places]
      <4>1. /\ visited' = [visited EXCEPT ![h] = seen]
            /\ frontier' = [frontier EXCEPT ![h] = next]
            /\ at' = [at EXCEPT ![h] = IF next = {} THEN "update" ELSE "walk"]
        BY <2>2
      <4>2. seen \in SUBSET Tasks /\ next \in SUBSET Tasks
        BY DEF TypeOK
      <4> HIDE DEF seen, next
      <4>3. QED
        BY <4>1, <4>2 DEF TypeOK, Places
    <3>2. UNCHANGED <<task, patch, wasDone, row, todo, dep>>
      BY <2>2 DEF callVars, wakeVars
    <3>3. CallTypes'
      BY <3>1, <3>2 DEF TypeOK, CallTypes
    <3>4. AtWork'
      BY <2>2 DEF TypeOK, AtWork, callVars, wakeVars
    <3>5. QED
      BY <3>3, <3>4, <1>0 DEF TypeOK, rowVars
  <2>3. QED
    BY <2>1, <2>2
<1>2. CASE Update(h)
  <2> DEFINE t == task[h]
  <2>1. t \in Tasks
    BY <1>2 DEF Update, AtWork
  <2>2. /\ status' \in [Tasks -> TaskStatuses]
        /\ blockedBy' \in [Tasks -> SUBSET Tasks]
        /\ UNCHANGED <<claimed, queue, calls, faults>>
    BY <1>2, <2>1 DEF Update, NewStatus, TypeOK
  <2>3. CallTypes' /\ AtWork'
    <3>1. Snapshot' \in Rows
      BY <2>2 DEF TypeOK, Snapshot, Rows
    <3>2. CASE /\ at' = [at EXCEPT ![h] = "gate"]
               /\ row' = [row EXCEPT ![h] = Snapshot']
               /\ UNCHANGED <<callVars, walkVars, wakeVars>>
      BY <3>1, <3>2, <2>1
         DEF TypeOK, CallTypes, AtWork, Places, callVars, walkVars, wakeVars
    <3>3. CASE /\ at' = [at EXCEPT ![h] = "dependents"]
               /\ UNCHANGED <<callVars, walkVars, row, wakeVars>>
      BY <3>3, <2>1
         DEF TypeOK, CallTypes, AtWork, Places, callVars, walkVars, wakeVars
    <3>4. CASE Ends(h)
      BY <3>4, EndsKeepsTypes
    <3>5. QED
      BY <1>2, <3>2, <3>3, <3>4 DEF Update
  <2>4. QED
    BY <2>2, <2>3, <1>0 DEF TypeOK
<1>3. CASE Gate(h)
  <2>1. CallTypes'
    BY <1>3 DEF Gate, TypeOK, CallTypes, Places, callVars, walkVars, wakeVars
  <2>2. AtWork'
    BY <1>3 DEF Gate, TypeOK, AtWork, callVars, walkVars, wakeVars
  <2>3. QED
    BY <1>3, <2>1, <2>2, <1>0 DEF Gate, TypeOK, rowVars
<1>4. CASE Block(h)
  <2>1. status' \in [Tasks -> TaskStatuses]
    BY <1>4 DEF Block, TypeOK, TaskStatuses
  <2>2. QED
    BY <1>4, <2>1, <1>0, EndsKeepsTypes DEF Block, TypeOK
<1>5. CASE Enqueue(h)
  <2>1. queue' \subseteq Tasks
    BY <1>5 DEF Enqueue, TypeOK, AtWork
  <2>2. QED
    BY <1>5, <2>1, <1>0, EndsKeepsTypes DEF Enqueue, TypeOK
<1>6. CASE ListDependents(h)
  <2>1. {d \in Tasks : task[h] \in blockedBy[d]} \in SUBSET Tasks
    OBVIOUS
  <2>2. CallTypes' /\ AtWork'
    BY <1>6, <2>1, SnapshotType, NextDependentKeepsTypes DEF ListDependents
  <2>3. QED
    BY <1>6, <2>2, <1>0 DEF ListDependents, TypeOK, rowVars
<1>7. CASE Check(h)
  <2>1. PICK d \in todo[h] :
          \/ NextDependent(h, todo[h] \ {d}, row[h])
          \/ /\ at' = [at EXCEPT ![h] = IF Asleep(h, d) THEN "flip" ELSE "wake"]
             /\ todo' = [todo EXCEPT ![h] = @ \ {d}]
             /\ dep' = [dep EXCEPT ![h] = d]
             /\ UNCHANGED <<callVars, walkVars, row>>
    BY <1>7 DEF Check
  <2>2. at[h] = "check" /\ UNCHANGED <<rowVars, calls, faults>>
    BY <1>7 DEF Check
  <2>3. /\ todo[h] \ {d} \in SUBSET Tasks
        /\ d \in Tasks
        /\ row[h] \in Rows
    BY <2>1 DEF TypeOK
  <2>4. CallTypes' /\ AtWork'
    <3>1. CASE NextDependent(h, todo[h] \ {d}, row[h])
      BY <3>1, <2>2, <2>3, NextDependentKeepsTypes
    <3>2. CASE /\ at' = [at EXCEPT ![h] = IF Asleep(h, d) THEN "flip" ELSE "wake"]
               /\ todo' = [todo EXCEPT ![h] = @ \ {d}]
               /\ dep' = [dep EXCEPT ![h] = d]
               /\ UNCHANGED <<callVars, walkVars, row>>
      <4>1. CallTypes'
        BY <3>2, <2>3 DEF TypeOK, CallTypes, Places, callVars, walkVars
      <4>2. AtWork'
        BY <3>2, <2>2, <2>3 DEF TypeOK, AtWork, callVars, walkVars
      <4>3. QED
        BY <4>1, <4>2
    <3>3. QED
      BY <2>1, <3>1, <3>2
  <2>5. QED
    BY <2>2, <2>4, <1>0 DEF TypeOK, rowVars
<1>8. CASE Flip(h)
  <2>1. status' \in [Tasks -> TaskStatuses]
    BY <1>8 DEF Flip, TypeOK, TaskStatuses
  <2>2. CallTypes' /\ AtWork'
    <3>1. CASE NextDependent(h, todo[h], row[h])
      BY <1>8, <3>1, NextDependentKeepsTypes DEF Flip, TypeOK
    <3>2. CASE /\ at' = [at EXCEPT ![h] = "wake"]
               /\ UNCHANGED <<callVars, walkVars, row, wakeVars>>
      BY <1>8, <3>2
         DEF Flip, TypeOK, CallTypes, AtWork, Places, callVars, walkVars, wakeVars
    <3>3. QED
      BY <1>8, <3>1, <3>2 DEF Flip
  <2>3. QED
    BY <1>8, <2>1, <2>2, <1>0 DEF Flip, TypeOK
<1>9. CASE Wake(h)
  <2>1. queue' \subseteq Tasks
    BY <1>9 DEF Wake, TypeOK, AtWork
  <2>2. CallTypes' /\ AtWork'
    BY <1>9, NextDependentKeepsTypes DEF Wake, TypeOK
  <2>3. QED
    BY <1>9, <2>1, <2>2, <1>0 DEF Wake, TypeOK
<1>10. QED
  BY <1>1, <1>2, <1>3, <1>4, <1>5, <1>6, <1>7, <1>8, <1>9 DEF HandlerStep

LEMMA StepTypes == BInv /\ [Next]_vars => BInv'
<1> SUFFICES ASSUME BInv, [Next]_vars PROVE BInv'
  OBVIOUS
<1>1. ASSUME NEW h \in Handlers, NEW t \in Tasks, NEW s \in PatchStatuses,
             CallStatus(h, t, s)
      PROVE  BInv'
  <2>1. [status |-> s, blockers |-> {}, sets |-> FALSE]
          \in [status : TaskStatuses \union {"keep"}, blockers : SUBSET Tasks,
              sets : BOOLEAN]
    BY BlockersAssumption
  <2>2. QED
    BY <1>1, <2>1, CallKeeps DEF CallStatus, BInv, TypeOK, Places
<1>2. ASSUME NEW h \in Handlers, NEW t \in Tasks, NEW B \in PatchBlockers,
             NEW s \in PatchStatuses \union {"keep"}, CallBlockers(h, t, s, B)
      PROVE  BInv'
  <2>1. [status |-> s, blockers |-> B, sets |-> TRUE]
          \in [status : TaskStatuses \union {"keep"}, blockers : SUBSET Tasks,
              sets : BOOLEAN]
    BY BlockersAssumption
  <2>2. frontier' \in [Handlers -> SUBSET Tasks]
    BY <1>2, BlockersAssumption DEF CallBlockers, BInv, TypeOK
  <2>3. QED
    BY <1>2, <2>1, <2>2, CallKeeps DEF CallBlockers, Places
<1>3. ASSUME NEW h \in Handlers, HandlerStep(h) PROVE BInv'
  BY <1>3, HandlerKeeps
<1>4. ASSUME NEW h \in Handlers, Dies(h) PROVE BInv'
  <2>1. faults' \in 0..MaxFaults
    BY <1>4, BlockersAssumption DEF Dies, BInv, TypeOK
  <2>2. QED
    BY <1>4, <2>1, EndsKeepsTypes DEF Dies, BInv, TypeOK, CallTypes, rowVars
<1>5. ASSUME NEW t \in Tasks, Claim(t) \/ Release(t) PROVE BInv'
  <2>1. /\ status' \in [Tasks -> TaskStatuses]
        /\ claimed' \in [Tasks -> BOOLEAN]
        /\ queue' \subseteq Tasks
    BY <1>5 DEF Claim, Release, BInv, TypeOK, TaskStatuses
  <2>2. UNCHANGED <<blockedBy, at, task, patch, wasDone, frontier, visited, row,
                    todo, dep, calls, faults>>
    BY <1>5 DEF Claim, Release, callVars, walkVars, wakeVars
  <2>3. QED
    BY <2>1, <2>2 DEF BInv, TypeOK, AtWork
<1>6. CASE UNCHANGED vars
  BY <1>6 DEF BInv, TypeOK, AtWork, vars, rowVars, callVars, walkVars, wakeVars
<1>7. QED
  BY <1>1, <1>2, <1>3, <1>4, <1>5, <1>6 DEF Next

\* However many requests update tasks at the same time, rows, copies and walks
\* are what the code takes them for, and a request at work has its task.
THEOREM BlockersTypes == Spec => []TypeOK
<1>1. Init => BInv
  BY InitTypes DEF Init, BInv, AtWork
<1>2. BInv => TypeOK
  BY DEF BInv
<1>3. QED
  BY <1>1, <1>2, StepTypes, PTL DEF Spec

-----------------------------------------------------------------------------
(* The graph *)

\* Updates do not overlap: there is one request at a time.
OneAtATime == \A g, h \in Handlers : g = h

\* What the walk has seen waits for nothing but what it has seen or has still
\* to look at, the new blockers among it, and the task itself is not there.
Walked(h) ==
  /\ patch[h].blockers \subseteq visited[h] \union frontier[h]
  /\ task[h] \notin visited[h] \union frontier[h]
  /\ \A v \in visited[h] : blockedBy[v] \subseteq visited[h] \union frontier[h]

WalkInv ==
  \A h \in Handlers :
    /\ at[h] = "idle" => visited[h] = {} /\ frontier[h] = {}
    /\ at[h] = "walk" => Walked(h)
    /\ at[h] = "update" /\ patch[h].sets => Walked(h) /\ frontier[h] = {}

AInv == BInv /\ BlockersAcyclic /\ WalkInv

\* Why a finished walk is enough: a task that takes blockers from a set that is
\* closed under waiting, and is not in it, closes no cycle.
LEMMA ClosedSetKeepsAcyclic ==
  ASSUME NEW graph \in [Tasks -> SUBSET Tasks], IsAcyclic(graph),
         NEW t \in Tasks, NEW V \in SUBSET Tasks, NEW B \in SUBSET V,
         t \notin V, \A v \in V : graph[v] \subseteq V
  PROVE  IsAcyclic([graph EXCEPT ![t] = B])
<1> DEFINE new == [graph EXCEPT ![t] = B]
<1> SUFFICES ASSUME NEW S \in SUBSET Tasks \ {{}}
             PROVE  \E x \in S : new[x] \intersect S = {}
  BY DEF IsAcyclic
<1>1. CASE S \intersect V # {}
  <2>1. PICK x \in S \intersect V : graph[x] \intersect (S \intersect V) = {}
    BY <1>1 DEF IsAcyclic
  <2>2. new[x] = graph[x] /\ graph[x] \subseteq V
    BY <2>1
  <2>3. QED
    BY <2>1, <2>2
<1>2. CASE S \intersect V = {} /\ t \in S
  BY <1>2
<1>3. CASE t \notin S
  <2>1. PICK x \in S : graph[x] \intersect S = {}
    BY DEF IsAcyclic
  <2>2. QED
    BY <1>3, <2>1
<1>4. QED
  BY <1>1, <1>2, <1>3

\* A handler that ends, or goes on to another dependent, is at no walk.
LEMMA EndsKeepsWalk ==
  ASSUME BInv, WalkInv, UNCHANGED blockedBy, NEW h \in Handlers, Ends(h)
  PROVE  WalkInv'
  BY DEF BInv, TypeOK, WalkInv, Walked, Ends

LEMMA MovesKeepsWalk ==
  ASSUME BInv, WalkInv, UNCHANGED <<blockedBy, task, patch, frontier, visited>>,
         NEW h \in Handlers, NEW place \in Places \ {"idle", "walk", "update"},
         at' = [at EXCEPT ![h] = place]
  PROVE  WalkInv'
  BY DEF BInv, TypeOK, WalkInv, Walked

LEMMA NextDependentKeepsWalk ==
  ASSUME BInv, WalkInv, UNCHANGED blockedBy, NEW h \in Handlers,
         NEW left, NEW rows, NextDependent(h, left, rows)
  PROVE  WalkInv'
  BY EndsKeepsWalk, MovesKeepsWalk
     DEF NextDependent, callVars, walkVars, Places

LEMMA CallKeepsWalk ==
  ASSUME BInv, WalkInv, NEW h \in Handlers, NEW t \in Tasks, NEW B \in SUBSET Tasks,
         NEW s, NEW sets \in BOOLEAN, NEW place \in {"walk", "update"},
         t \notin B, sets => (place = "update" <=> B = {}),
         ~sets => place = "update",
         Call(h, t, [status |-> s, blockers |-> B, sets |-> sets], place),
         frontier' = [frontier EXCEPT ![h] = B]
  PROVE  WalkInv'
<1>1. /\ at[h] = "idle"
      /\ at' = [at EXCEPT ![h] = place]
      /\ task' = [task EXCEPT ![h] = t]
      /\ patch' = [patch EXCEPT ![h] = [status |-> s, blockers |-> B, sets |-> sets]]
      /\ UNCHANGED <<blockedBy, visited>>
  BY DEF Call, rowVars
<1>2. visited[h] = {}
  BY <1>1 DEF WalkInv
<1>3. ASSUME NEW g \in Handlers
      PROVE  /\ at'[g] = "idle" => visited'[g] = {} /\ frontier'[g] = {}
             /\ at'[g] = "walk" => Walked(g)'
             /\ at'[g] = "update" /\ patch'[g].sets => Walked(g)' /\ frontier'[g] = {}
  <2>1. CASE g = h
    BY <1>1, <1>2, <2>1 DEF BInv, TypeOK, Walked
  <2>2. CASE g # h
    BY <1>1, <2>2 DEF BInv, TypeOK, WalkInv, Walked
  <2>3. QED
    BY <2>1, <2>2
<1>4. QED
  BY <1>3 DEF WalkInv

LEMMA WalkKeepsWalk ==
  ASSUME BInv, WalkInv, NEW h \in Handlers, Walk(h)
  PROVE  WalkInv'
<1>1. PICK id \in frontier[h] :
        /\ at[h] = "walk"
        /\ IF task[h] \in blockedBy[id]
           THEN Ends(h)
           ELSE LET seen == visited[h] \union {id}
                    next == (frontier[h] \union blockedBy[id]) \ seen
                IN /\ visited' = [visited EXCEPT ![h] = seen]
                   /\ frontier' = [frontier EXCEPT ![h] = next]
                   /\ at' = [at EXCEPT ![h] = IF next = {} THEN "update" ELSE "walk"]
                   /\ UNCHANGED <<callVars, row, wakeVars>>
        /\ UNCHANGED <<rowVars, calls, faults>>
  BY DEF Walk
<1>2. CASE task[h] \in blockedBy[id]
  BY <1>1, <1>2, EndsKeepsWalk DEF rowVars
<1>3. CASE task[h] \notin blockedBy[id]
  <2> DEFINE seen == visited[h] \union {id}
             next == (frontier[h] \union blockedBy[id]) \ seen
  <2>1. /\ visited' = [visited EXCEPT ![h] = seen]
        /\ frontier' = [frontier EXCEPT ![h] = next]
        /\ at' = [at EXCEPT ![h] = IF next = {} THEN "update" ELSE "walk"]
        /\ UNCHANGED <<task, patch, blockedBy>>
    BY <1>1, <1>3 DEF callVars, rowVars
  <2>2. Walked(h)
    BY <1>1 DEF WalkInv
  <2>3. /\ patch[h].blockers \subseteq seen \union next
        /\ task[h] \notin seen \union next
        /\ \A v \in seen : blockedBy[v] \subseteq seen \union next
    BY <1>1, <1>3, <2>2 DEF Walked
  <2>4. visited'[h] = seen /\ frontier'[h] = next
    BY <2>1 DEF BInv, TypeOK
  <2>5. Walked(h)'
    BY <2>1, <2>3, <2>4 DEF Walked
  <2>6. at'[h] = IF next = {} THEN "update" ELSE "walk"
    BY <2>1 DEF BInv, TypeOK
  <2>7. ASSUME NEW g \in Handlers
        PROVE  /\ at'[g] = "idle" => visited'[g] = {} /\ frontier'[g] = {}
               /\ at'[g] = "walk" => Walked(g)'
               /\ at'[g] = "update" /\ patch'[g].sets => Walked(g)' /\ frontier'[g] = {}
    <3>1. CASE g = h
      BY <2>4, <2>5, <2>6, <3>1
    <3>2. CASE g # h
      BY <2>1, <3>2 DEF BInv, TypeOK, WalkInv, Walked
    <3>3. QED
      BY <3>1, <3>2
  <2>8. QED
    BY <2>7 DEF WalkInv
<1>4. QED
  BY <1>2, <1>3

\* The write: what this handler has walked still stands, and what another one
\* has walked stands afterwards.
LEMMA UpdateKeepsGraph ==
  ASSUME AInv, NEW h \in Handlers, Update(h), FreshWalks
  PROVE  BlockersAcyclic' /\ WalkInv'
<1> DEFINE t == task[h]
           B == patch[h].blockers
<1> USE DEF AInv
<1>1. t \in Tasks /\ at[h] = "update"
  BY DEF Update, BInv, AtWork
<1>2. blockedBy' = [blockedBy EXCEPT ![t] = IF patch[h].sets THEN B ELSE @]
  BY DEF Update
<1>3. BlockersAcyclic'
  <2>1. CASE patch[h].sets
    <3>1. Walked(h) /\ frontier[h] = {}
      BY <1>1, <2>1 DEF WalkInv
    <3>2. /\ visited[h] \in SUBSET Tasks /\ B \in SUBSET visited[h]
          /\ t \notin visited[h]
          /\ \A v \in visited[h] : blockedBy[v] \subseteq visited[h]
      BY <3>1 DEF Walked, BInv, TypeOK
    <3>3. blockedBy' = [blockedBy EXCEPT ![t] = B]
      BY <1>2, <2>1
    <3>4. blockedBy \in [Tasks -> SUBSET Tasks] /\ IsAcyclic(blockedBy)
      BY DEF BInv, TypeOK, BlockersAcyclic
    <3>5. IsAcyclic([blockedBy EXCEPT ![t] = B])
      BY <1>1, <3>2, <3>4, ClosedSetKeepsAcyclic
    <3>6. QED
      BY <3>3, <3>5 DEF BlockersAcyclic
  <2>2. CASE ~patch[h].sets
    <3>1. blockedBy' = blockedBy
      BY <1>2, <2>2 DEF BInv, TypeOK
    <3>2. QED
      BY <3>1 DEF BlockersAcyclic
  <2>3. QED
    BY <2>1, <2>2
<1>4. WalkInv'
  <2>1. \/ at'[h] \in {"gate", "dependents"}
        \/ at'[h] = "idle" /\ visited'[h] = {} /\ frontier'[h] = {}
    <3>1. \/ at' = [at EXCEPT ![h] = "gate"]
          \/ at' = [at EXCEPT ![h] = "dependents"]
          \/ Ends(h)
      BY DEF Update
    <3>2. /\ at \in [Handlers -> Places]
          /\ visited \in [Handlers -> SUBSET Tasks]
          /\ frontier \in [Handlers -> SUBSET Tasks]
      BY DEF BInv, TypeOK
    <3>3. CASE at' = [at EXCEPT ![h] = "gate"]
      BY <3>2, <3>3
    <3>4. CASE at' = [at EXCEPT ![h] = "dependents"]
      BY <3>2, <3>4
    <3>5. CASE Ends(h)
      BY <3>2, <3>5 DEF Ends
    <3>6. QED
      BY <3>1, <3>3, <3>4, <3>5
  <2>2. ASSUME NEW g \in Handlers \ {h}
        PROVE  /\ at'[g] = at[g] /\ task'[g] = task[g] /\ patch'[g] = patch[g]
               /\ visited'[g] = visited[g] /\ frontier'[g] = frontier[g]
    BY DEF Update, Ends, callVars, walkVars, BInv, TypeOK
  <2>3. ASSUME NEW g \in Handlers \ {h}, Checking(g), Walked(g)
        PROVE  Walked(g)'
    <3>1. \A v \in visited[g] : blockedBy'[v] \subseteq blockedBy[v]
      BY <1>1, <1>2, <2>3 DEF FreshWalks, BInv, TypeOK
    <3>2. QED
      BY <2>2, <2>3, <3>1 DEF Walked
  <2>4. ASSUME NEW g \in Handlers \ {h}
        PROVE  /\ at'[g] = "idle" => visited'[g] = {} /\ frontier'[g] = {}
               /\ at'[g] = "walk" => Walked(g)'
               /\ at'[g] = "update" /\ patch'[g].sets => Walked(g)' /\ frontier'[g] = {}
    BY <2>2, <2>3 DEF WalkInv, Checking
  <2>5. QED
    BY <2>1, <2>4 DEF WalkInv
<1>5. QED
  BY <1>3, <1>4

LEMMA StepGraph == AInv /\ [Next]_vars /\ [FreshWalks]_vars => AInv'
<1> SUFFICES ASSUME AInv, [Next]_vars, [FreshWalks]_vars PROVE AInv'
  OBVIOUS
<1> USE DEF AInv
<1>1. BInv'
  BY StepTypes
<1>2. ASSUME WalkInv', UNCHANGED blockedBy PROVE AInv'
  BY <1>1, <1>2 DEF BlockersAcyclic
<1>3. ASSUME NEW h \in Handlers, NEW t \in Tasks, NEW s \in PatchStatuses,
             CallStatus(h, t, s)
      PROVE  AInv'
  <2>1. at[h] = "idle" /\ UNCHANGED <<blockedBy, frontier>>
    BY <1>3 DEF CallStatus, Call, rowVars
  <2>2. frontier' = [frontier EXCEPT ![h] = {}]
    BY <2>1 DEF WalkInv, BInv, TypeOK
  <2>3. Call(h, t, [status |-> s, blockers |-> {}, sets |-> FALSE], "update")
    BY <1>3 DEF CallStatus
  <2>4. WalkInv'
    BY <2>2, <2>3, CallKeepsWalk
  <2>5. QED
    BY <2>1, <2>4, <1>2
<1>4. ASSUME NEW h \in Handlers, NEW t \in Tasks, NEW B \in PatchBlockers,
             NEW s \in PatchStatuses \union {"keep"}, CallBlockers(h, t, s, B)
      PROVE  AInv'
  <2> DEFINE place == IF B = {} THEN "update" ELSE "walk"
  <2>1. /\ Call(h, t, [status |-> s, blockers |-> B, sets |-> TRUE], place)
        /\ frontier' = [frontier EXCEPT ![h] = B]
        /\ t \notin B /\ B \in SUBSET Tasks
    BY <1>4, BlockersAssumption DEF CallBlockers
  <2>2. place \in {"walk", "update"} /\ (place = "update" <=> B = {})
    OBVIOUS
  <2> HIDE DEF place
  <2>3. WalkInv'
    BY <2>1, <2>2, CallKeepsWalk
  <2>4. UNCHANGED blockedBy
    BY <2>1 DEF Call, rowVars
  <2>5. QED
    BY <2>3, <2>4, <1>2
<1>5. ASSUME NEW h \in Handlers, HandlerStep(h) PROVE AInv'
  <2>1. CASE Walk(h)
    BY <2>1, <1>2, WalkKeepsWalk DEF Walk, rowVars
  <2>2. CASE Update(h)
    <3>1. at[h] = "update" /\ at'[h] # "update"
      BY <2>2 DEF Update, Ends, BInv, TypeOK
    <3>2. FreshWalks
      BY <3>1 DEF vars
    <3>3. QED
      BY <2>2, <3>2, <1>1, UpdateKeepsGraph
  <2>3. CASE Gate(h)
    <3>1. PICK place \in {"queue", "block"} : at' = [at EXCEPT ![h] = place]
      BY <2>3 DEF Gate
    <3>2. UNCHANGED <<blockedBy, task, patch, frontier, visited>>
      BY <2>3 DEF Gate, rowVars, callVars, walkVars
    <3>3. QED
      BY <3>1, <3>2, <1>2, MovesKeepsWalk DEF Places
  <2>4. CASE Block(h) \/ Enqueue(h)
    BY <2>4, <1>2, EndsKeepsWalk DEF Block, Enqueue
  <2>5. CASE ListDependents(h)
    BY <2>5, <1>2, NextDependentKeepsWalk DEF ListDependents, rowVars
  <2>6. CASE Check(h)
    <3>1. PICK d \in todo[h] :
            \/ NextDependent(h, todo[h] \ {d}, row[h])
            \/ /\ at' = [at EXCEPT ![h] = IF Asleep(h, d) THEN "flip" ELSE "wake"]
               /\ UNCHANGED <<callVars, walkVars>>
      BY <2>6 DEF Check
    <3>2. UNCHANGED blockedBy
      BY <2>6 DEF Check, rowVars
    <3>3. CASE NextDependent(h, todo[h] \ {d}, row[h])
      BY <3>2, <3>3, <1>2, NextDependentKeepsWalk
    <3>4. CASE /\ at' = [at EXCEPT ![h] = IF Asleep(h, d) THEN "flip" ELSE "wake"]
               /\ UNCHANGED <<callVars, walkVars>>
      <4>1. PICK place \in {"flip", "wake"} : at' = [at EXCEPT ![h] = place]
        BY <3>4
      <4>2. QED
        BY <3>2, <3>4, <4>1, <1>2, MovesKeepsWalk DEF Places, callVars, walkVars
    <3>5. QED
      BY <3>1, <3>3, <3>4
  <2>7. CASE Flip(h)
    <3>1. CASE NextDependent(h, todo[h], row[h])
      BY <2>7, <3>1, <1>2, NextDependentKeepsWalk DEF Flip
    <3>2. CASE /\ at' = [at EXCEPT ![h] = "wake"]
               /\ UNCHANGED <<callVars, walkVars, row, wakeVars>>
      BY <2>7, <3>2, <1>2, MovesKeepsWalk DEF Flip, Places, callVars, walkVars
    <3>3. QED
      BY <2>7, <3>1, <3>2 DEF Flip
  <2>8. CASE Wake(h)
    BY <2>8, <1>2, NextDependentKeepsWalk DEF Wake
  <2>9. QED
    BY <1>5, <2>1, <2>2, <2>3, <2>4, <2>5, <2>6, <2>7, <2>8 DEF HandlerStep
<1>6. ASSUME NEW h \in Handlers, Dies(h) PROVE AInv'
  BY <1>6, <1>2, EndsKeepsWalk DEF Dies, rowVars
<1>7. ASSUME NEW t \in Tasks, Claim(t) \/ Release(t) PROVE AInv'
  <2>1. UNCHANGED <<blockedBy, at, task, patch, frontier, visited>>
    BY <1>7 DEF Claim, Release, callVars, walkVars
  <2>2. QED
    BY <2>1, <1>2 DEF WalkInv, Walked
<1>8. CASE UNCHANGED vars
  BY <1>8, <1>2 DEF WalkInv, Walked, vars, rowVars, callVars, walkVars
<1>9. QED
  BY <1>3, <1>4, <1>5, <1>6, <1>7, <1>8 DEF Next

\* The check of validateBlockedBy is enough unless it is overtaken: however many
\* requests set and clear blockers at the same time, no graph of tasks closes a
\* cycle as long as none gives new blockers to a task that another one has
\* already walked past and not yet decided on.
THEOREM FreshWalksStayAcyclic == Spec /\ [][FreshWalks]_vars => []BlockersAcyclic
<1>1. Init => AInv
  <2>1. ASSUME Init PROVE BlockersAcyclic
    BY <2>1, BlockersAssumption DEF Init, BlockersAcyclic
  <2>2. ASSUME Init PROVE WalkInv
    BY <2>2 DEF Init, WalkInv
  <2>3. Init => BInv
    BY InitTypes DEF Init, BInv, AtWork
  <2>4. QED
    BY <2>1, <2>2, <2>3 DEF AInv
<1>2. AInv => BlockersAcyclic
  BY DEF AInv
<1>3. AInv /\ [Next]_vars /\ [FreshWalks]_vars => AInv'
  BY StepGraph
<1>4. QED
  BY <1>1, <1>2, <1>3, PTL DEF Spec

\* Where updates come one after the other, the dependency graph of any number
\* of tasks never closes a cycle, whatever graph it starts from, whatever sets
\* of blockers are asked for and wherever a handler dies (validateBlockedBy).
THEOREM SerialUpdatesStayAcyclic == ASSUME OneAtATime PROVE Spec => []BlockersAcyclic
<1>1. Init => AInv
  BY InitTypes, BlockersAssumption
     DEF Init, AInv, BInv, AtWork, BlockersAcyclic, WalkInv
<1>2. AInv /\ [Next]_vars => AInv'
  <2>1. ASSUME AInv, NEW g \in Handlers, NEW h \in Handlers, Update(h),
               Checking(g), task[h] \in visited[g]
        PROVE  FALSE
    <3>1. g = h /\ at[h] = "update"
      BY <2>1 DEF OneAtATime, Update
    <3>2. Walked(h)
      BY <2>1, <3>1 DEF Checking, AInv, WalkInv
    <3>3. QED
      BY <2>1, <3>1, <3>2 DEF Walked
  <2>2. AInv => FreshWalks
    BY <2>1 DEF FreshWalks
  <2>3. QED
    BY <2>2, StepGraph
<1>3. AInv => BlockersAcyclic
  BY DEF AInv
<1>4. QED
  BY <1>1, <1>2, <1>3, PTL DEF Spec

-----------------------------------------------------------------------------
(* No wake-up is lost *)

\* A task that waits although everything it waited for is done.
Due(d) ==
  /\ status[d] = "blocked"
  /\ blockedBy[d] # {}
  /\ OpenBlockers(blockedBy[d], status) = {}

\* Handler h is going to wake d: it has still to list the dependents of one of
\* its blockers, or has d, as it is, on its list.
WillWake(h, d) ==
  \/ at[h] = "dependents" /\ task[h] \in blockedBy[d]
  \/ /\ row[h].status[d] = "blocked"
     /\ row[h].blockedBy[d] = blockedBy[d]
     /\ \/ at[h] \in {"check", "flip", "wake"} /\ d \in todo[h]
        \/ at[h] = "flip" /\ dep[h] = d

DueAreWoken == \A d \in Tasks : Due(d) => \E h \in Handlers : WillWake(h, d)

\* Every step is one of: nothing new is due and no handler that has a wake-up
\* to do forgets it.
LEMMA NothingNewDue ==
  ASSUME DueAreWoken, \A d \in Tasks : Due(d)' => Due(d),
         \A d \in Tasks, h \in Handlers :
           Due(d)' /\ WillWake(h, d) => \E g \in Handlers : WillWake(g, d)'
  PROVE  DueAreWoken'
  BY DEF DueAreWoken

\* A row that becomes neither done nor blocked makes no task due.
LEMMA RowMakesNoneDue ==
  ASSUME BInv, NEW t \in Tasks, UNCHANGED blockedBy,
         \A u \in Tasks \ {t} : status'[u] = status[u],
         status'[t] = status[t] \/ status'[t] \notin {"done", "blocked"}
  PROVE  \A d \in Tasks : Due(d)' => Due(d)
<1> SUFFICES ASSUME NEW d \in Tasks, Due(d)' PROVE Due(d)
  OBVIOUS
<1>1. blockedBy[d] \subseteq Tasks
  BY DEF BInv, TypeOK
<1>2. \A b \in blockedBy[d] : status'[b] = "done"
  BY DEF Due, OpenBlockers
<1>3. \A b \in blockedBy[d] : status[b] = "done"
  BY <1>1, <1>2
<1>4. status[d] = "blocked"
  BY DEF Due
<1> QED
  BY <1>3, <1>4 DEF Due, OpenBlockers

\* The handlers that do not move have the same wake-ups to do.
LEMMA OthersWake ==
  ASSUME BInv, NEW h \in Handlers, NEW d \in Tasks, blockedBy'[d] = blockedBy[d],
         \A g \in Handlers \ {h} :
           /\ at'[g] = at[g] /\ task'[g] = task[g] /\ row'[g] = row[g]
           /\ todo'[g] = todo[g] /\ dep'[g] = dep[g]
  PROVE  \A g \in Handlers \ {h} : WillWake(g, d) => WillWake(g, d)'
  BY DEF WillWake

LEMMA OnlyItMoves ==
  ASSUME BInv, NEW h \in Handlers,
         \/ HandlerStep(h)
         \/ \E t \in Tasks : \E p, place : Call(h, t, p, place)
  PROVE  \A g \in Handlers \ {h} :
           /\ at'[g] = at[g] /\ task'[g] = task[g] /\ row'[g] = row[g]
           /\ todo'[g] = todo[g] /\ dep'[g] = dep[g]
<1>1. ASSUME Ends(h)
      PROVE  \A g \in Handlers \ {h} :
               /\ at'[g] = at[g] /\ task'[g] = task[g] /\ row'[g] = row[g]
               /\ todo'[g] = todo[g] /\ dep'[g] = dep[g]
  BY <1>1 DEF Ends, BInv, TypeOK
<1>2. ASSUME NEW left, NEW rows, NextDependent(h, left, rows)
      PROVE  \A g \in Handlers \ {h} :
               /\ at'[g] = at[g] /\ task'[g] = task[g] /\ row'[g] = row[g]
               /\ todo'[g] = todo[g] /\ dep'[g] = dep[g]
  BY <1>1, <1>2 DEF NextDependent, callVars, BInv, TypeOK
<1>3. CASE \E t \in Tasks : \E p, place : Call(h, t, p, place)
  BY <1>3 DEF Call, wakeVars, BInv, TypeOK
<1>4. CASE Walk(h) \/ Update(h) \/ Gate(h)
  BY <1>1, <1>4 DEF Walk, Update, Gate, callVars, wakeVars, BInv, TypeOK
<1>5. CASE Block(h) \/ Enqueue(h)
  BY <1>1, <1>5 DEF Block, Enqueue
<1>6. CASE ListDependents(h) \/ Wake(h)
  BY <1>2, <1>6 DEF ListDependents, Wake
<1>7. CASE Check(h)
  BY <1>2, <1>7 DEF Check, callVars, BInv, TypeOK
<1>8. CASE Flip(h)
  BY <1>2, <1>8 DEF Flip, callVars, wakeVars, BInv, TypeOK
<1> QED
  BY <1>3, <1>4, <1>5, <1>6, <1>7, <1>8 DEF HandlerStep

\* The loop goes on with what is left of its list.
LEMMA NextDependentWillWake ==
  ASSUME BInv, NEW h \in Handlers, NEW left, NEW rows, NEW d \in left,
         NextDependent(h, left, rows),
         rows.status[d] = "blocked", rows.blockedBy[d] = blockedBy'[d]
  PROVE  WillWake(h, d)'
  BY DEF NextDependent, WillWake, BInv, TypeOK

LEMMA UpdateWakesDue ==
  ASSUME BInv, BInv', DueAreWoken, FreshDecisions, NEW h \in Handlers, Update(h)
  PROVE  DueAreWoken'
<1> DEFINE t == task[h]
<1>1. /\ t \in Tasks /\ at[h] = "update"
      /\ status \in [Tasks -> TaskStatuses] /\ blockedBy \in [Tasks -> SUBSET Tasks]
  BY DEF Update, BInv, AtWork, TypeOK
<1>2. \A u \in Tasks \ {t} : status'[u] = status[u] /\ blockedBy'[u] = blockedBy[u]
  BY <1>1 DEF Update
<1> SUFFICES ASSUME NEW d \in Tasks, Due(d)'
             PROVE  \E g \in Handlers : WillWake(g, d)'
  BY DEF DueAreWoken
<1>3. \A b \in blockedBy'[d] : status'[b] = "done"
  BY DEF Due, OpenBlockers
<1>4. d = t => status[d] = "blocked" /\ blockedBy'[d] = blockedBy[d]
  <2>1. d = t => status'[t] = "blocked" /\ OpenBlockers(blockedBy'[t], status') = {}
    BY DEF Due
  <2> QED
    BY <2>1 DEF FreshDecisions
<1>5. status[d] = "blocked" /\ blockedBy'[d] = blockedBy[d] /\ blockedBy[d] # {}
  BY <1>2, <1>4 DEF Due
<1>6. CASE \A b \in blockedBy[d] : status[b] = "done"
  <2>1. Due(d)
    BY <1>5, <1>6 DEF Due, OpenBlockers
  <2>2. PICK g \in Handlers : WillWake(g, d)
    BY <2>1 DEF DueAreWoken
  <2>3. g # h
    BY <1>1, <2>2 DEF WillWake
  <2>4. WillWake(g, d)'
    BY <1>5, <2>2, <2>3, OnlyItMoves, OthersWake DEF HandlerStep
  <2> QED
    BY <2>4
<1>7. CASE \E b \in blockedBy[d] : status[b] # "done"
  <2>1. t \in blockedBy[d] /\ status[t] # "done" /\ status'[t] = "done"
    BY <1>1, <1>2, <1>3, <1>5, <1>7
  <2>2. ~wasDone[h]
    BY <2>1 DEF FreshDecisions
  <2>3. ~IsDispatchable(Snapshot', t)
    BY <2>1 DEF IsDispatchable, Dispatchable, Snapshot, EntryStatuses
  <2>4. at' = [at EXCEPT ![h] = "dependents"] /\ task' = task
    BY <2>1, <2>2, <2>3 DEF Update, callVars
  <2>5. WillWake(h, d)'
    BY <1>5, <2>1, <2>4 DEF WillWake, BInv, TypeOK
  <2> QED
    BY <2>5
<1> QED
  BY <1>6, <1>7

LEMMA BlockWakesDue ==
  ASSUME BInv, DueAreWoken, FreshDecisions, NEW h \in Handlers, Block(h)
  PROVE  DueAreWoken'
<1> DEFINE t == task[h]
<1>1. /\ t \in Tasks /\ at[h] = "block" /\ UNCHANGED blockedBy
      /\ status \in [Tasks -> TaskStatuses] /\ blockedBy \in [Tasks -> SUBSET Tasks]
      /\ status' = [status EXCEPT ![t] = "blocked"]
  BY DEF Block, BInv, AtWork, TypeOK
<1>2. \A d \in Tasks : Due(d)' => Due(d)
  <2> SUFFICES ASSUME NEW d \in Tasks, Due(d)' PROVE Due(d)
    OBVIOUS
  <2>1. \A b \in blockedBy[d] : status'[b] = "done"
    BY <1>1 DEF Due, OpenBlockers
  <2>2. \A b \in blockedBy[d] : status[b] = "done"
    BY <1>1, <2>1
  <2>3. d # t
    BY <2>2 DEF FreshDecisions, OpenBlockers
  <2> QED
    BY <1>1, <2>2, <2>3 DEF Due, OpenBlockers
<1>3. \A d \in Tasks : ~WillWake(h, d)
  BY <1>1 DEF WillWake
<1> QED
  BY <1>1, <1>2, <1>3, OnlyItMoves, OthersWake, NothingNewDue DEF HandlerStep

\* The steps of the wake-up loop: it lists every dependent, passes over no task
\* that is due, and wakes the one it has picked.
LEMMA LoopWakesDue ==
  ASSUME BInv, DueAreWoken, NEW h \in Handlers,
         ListDependents(h) \/ Check(h) \/ Flip(h) \/ Wake(h)
  PROVE  DueAreWoken'
<1>1. /\ status \in [Tasks -> TaskStatuses] /\ at[h] # "idle"
      /\ UNCHANGED blockedBy
  BY DEF ListDependents, Check, Flip, Wake, rowVars, BInv, TypeOK
<1>2. \A d \in Tasks : Due(d)' => Due(d)
  <2>1. CASE Flip(h)
    <3>1. dep[h] \in Tasks
      BY <2>1 DEF Flip, BInv, AtWork
    <3>2. /\ \A u \in Tasks \ {dep[h]} : status'[u] = status[u]
          /\ status'[dep[h]] = "todo"
      BY <1>1, <2>1, <3>1 DEF Flip
    <3> QED
      BY <1>1, <3>1, <3>2, RowMakesNoneDue
  <2>2. CASE ~Flip(h)
    BY <2>2 DEF ListDependents, Check, Wake, rowVars, Due
  <2> QED
    BY <2>1, <2>2
<1>3. ASSUME NEW d \in Tasks, Due(d)', WillWake(h, d)
      PROVE  WillWake(h, d)'
  <2>1. Due(d)
    BY <1>2, <1>3
  <2>2. CASE ListDependents(h)
    <3>1. at[h] = "dependents" /\ task[h] \in blockedBy[d]
      BY <1>3, <2>2 DEF ListDependents, WillWake
    <3>2. Snapshot.status[d] = "blocked" /\ Snapshot.blockedBy[d] = blockedBy[d]
      BY <2>1 DEF Due, Snapshot
    <3> QED
      BY <1>1, <2>2, <3>1, <3>2, NextDependentWillWake DEF ListDependents
  <2>3. CASE Check(h)
    <3>1. /\ at[h] = "check" /\ d \in todo[h]
          /\ row[h].status[d] = "blocked" /\ row[h].blockedBy[d] = blockedBy[d]
      BY <1>3, <2>3 DEF Check, WillWake
    <3>2. Asleep(h, d) /\ ~StillBlocked(h, d)
      BY <2>1, <3>1 DEF Asleep, StillBlocked, Due
    <3>3. PICK x \in todo[h] :
            \/ x # d /\ NextDependent(h, todo[h] \ {x}, row[h])
            \/ /\ at' = [at EXCEPT ![h] = IF Asleep(h, x) THEN "flip" ELSE "wake"]
               /\ todo' = [todo EXCEPT ![h] = @ \ {x}]
               /\ dep' = [dep EXCEPT ![h] = x]
               /\ UNCHANGED <<callVars, walkVars, row>>
      BY <2>3, <3>2 DEF Check
    <3>4. CASE x # d /\ NextDependent(h, todo[h] \ {x}, row[h])
      BY <1>1, <3>1, <3>4, NextDependentWillWake
    <3>5. CASE /\ at' = [at EXCEPT ![h] = IF Asleep(h, x) THEN "flip" ELSE "wake"]
               /\ todo' = [todo EXCEPT ![h] = @ \ {x}]
               /\ dep' = [dep EXCEPT ![h] = x]
               /\ UNCHANGED <<callVars, walkVars, row>>
      <4>1. /\ at'[h] = IF Asleep(h, x) THEN "flip" ELSE "wake"
            /\ todo'[h] = todo[h] \ {x} /\ dep'[h] = x /\ row'[h] = row[h]
        BY <3>5 DEF BInv, TypeOK
      <4>2. CASE x = d
        BY <1>1, <3>1, <3>2, <4>1, <4>2 DEF WillWake
      <4>3. CASE x # d
        BY <1>1, <3>1, <4>1, <4>3 DEF WillWake
      <4> QED
        BY <4>2, <4>3
    <3> QED
      BY <3>3, <3>4, <3>5
  <2>4. CASE Flip(h)
    <3>1. dep[h] # d
      <4>1. dep[h] = d => status'[d] = "todo"
        BY <1>1, <2>4 DEF Flip
      <4> QED
        BY <1>3, <4>1 DEF Due
    <3>2. /\ at[h] = "flip" /\ d \in todo[h]
          /\ row[h].status[d] = "blocked" /\ row[h].blockedBy[d] = blockedBy[d]
      BY <1>3, <2>4, <3>1 DEF Flip, WillWake
    <3>3. CASE NextDependent(h, todo[h], row[h])
      BY <1>1, <3>2, <3>3, NextDependentWillWake
    <3>4. CASE /\ at' = [at EXCEPT ![h] = "wake"]
               /\ UNCHANGED <<callVars, walkVars, row, wakeVars>>
      BY <1>1, <3>2, <3>4 DEF WillWake, wakeVars, BInv, TypeOK
    <3> QED
      BY <2>4, <3>3, <3>4 DEF Flip
  <2>5. CASE Wake(h)
    <3>1. /\ at[h] = "wake" /\ d \in todo[h]
          /\ row[h].status[d] = "blocked" /\ row[h].blockedBy[d] = blockedBy[d]
      BY <1>3, <2>5 DEF Wake, WillWake
    <3> QED
      BY <1>1, <2>5, <3>1, NextDependentWillWake DEF Wake
  <2> QED
    BY <2>2, <2>3, <2>4, <2>5
<1> QED
  BY <1>1, <1>2, <1>3, OnlyItMoves, OthersWake, NothingNewDue DEF HandlerStep

\* The other steps of a request write no row and have no wake-up to do.
LEMMA QuietWakesDue ==
  ASSUME BInv, DueAreWoken, NEW h \in Handlers,
         \/ Walk(h) \/ Gate(h) \/ Enqueue(h)
         \/ \E t \in Tasks : \E p, place : Call(h, t, p, place)
  PROVE  DueAreWoken'
<1>1. UNCHANGED <<status, blockedBy>>
  BY DEF Walk, Gate, Enqueue, Call, rowVars
<1>2. at[h] \in {"walk", "gate", "queue", "idle"}
  BY DEF Walk, Gate, Enqueue, Call
<1>3. \A d \in Tasks : (Due(d)' => Due(d)) /\ ~WillWake(h, d)
  BY <1>1, <1>2 DEF Due, WillWake
<1> QED
  BY <1>1, <1>3, OnlyItMoves, OthersWake, NothingNewDue DEF HandlerStep

LEMMA AgentWakesDue ==
  ASSUME BInv, DueAreWoken, NEW t \in Tasks, Claim(t) \/ Release(t)
  PROVE  DueAreWoken'
<1>1. /\ UNCHANGED <<blockedBy, at, task, row, todo, dep>>
      /\ \A u \in Tasks \ {t} : status'[u] = status[u]
      /\ status'[t] = status[t] \/ status'[t] \notin {"done", "blocked"}
  BY DEF Claim, Release, callVars, wakeVars, BInv, TypeOK
<1>2. \A d \in Tasks, g \in Handlers : WillWake(g, d) => WillWake(g, d)'
  BY <1>1 DEF WillWake
<1> QED
  BY <1>1, <1>2, RowMakesNoneDue, NothingNewDue

LEMMA StepWakesDue ==
  ASSUME BInv, [Next]_vars, [FreshDecisions]_vars, faults = 0 => DueAreWoken,
         faults' = 0
  PROVE  DueAreWoken'
<1>1. BInv' /\ faults \in Nat
  BY StepTypes, BlockersAssumption DEF BInv, TypeOK
<1>2. CASE UNCHANGED vars
  BY <1>2 DEF DueAreWoken, Due, WillWake, vars, rowVars, callVars, wakeVars
<1>3. CASE Next /\ ~UNCHANGED vars
  <2>1. FreshDecisions
    BY <1>3
  <2>2. faults = 0
    <3>1. \A h \in Handlers : ~Dies(h)
      BY <1>1 DEF Dies
    <3>2. \A h \in Handlers : HandlerStep(h) => UNCHANGED faults
      BY DEF HandlerStep, Walk, Update, Gate, Block, Enqueue, ListDependents, Check,
             Flip, Wake
    <3>3. \A h \in Handlers, t \in Tasks :
            /\ \A s \in PatchStatuses : CallStatus(h, t, s) => UNCHANGED faults
            /\ \A s \in PatchStatuses \union {"keep"}, B \in PatchBlockers :
                 CallBlockers(h, t, s, B) => UNCHANGED faults
      BY DEF CallStatus, CallBlockers, Call
    <3>4. \A t \in Tasks : Claim(t) \/ Release(t) => UNCHANGED faults
      BY DEF Claim, Release
    <3> QED
      BY <1>3, <3>1, <3>2, <3>3, <3>4 DEF Next
  <2>3. ASSUME NEW h \in Handlers, NEW t \in Tasks,
               \/ \E s \in PatchStatuses : CallStatus(h, t, s)
               \/ \E s \in PatchStatuses \union {"keep"}, B \in PatchBlockers :
                    CallBlockers(h, t, s, B)
        PROVE  DueAreWoken'
    <3>1. \E p, place : Call(h, t, p, place)
      BY <2>3 DEF CallStatus, CallBlockers
    <3> QED
      BY <2>2, <3>1, QuietWakesDue
  <2>4. ASSUME NEW h \in Handlers, HandlerStep(h) PROVE DueAreWoken'
    BY <1>1, <2>1, <2>2, <2>4, UpdateWakesDue, BlockWakesDue, LoopWakesDue,
       QuietWakesDue DEF HandlerStep
  <2>5. \A h \in Handlers : ~Dies(h)
    BY <1>1, <2>2 DEF Dies
  <2>6. ASSUME NEW t \in Tasks, Claim(t) \/ Release(t) PROVE DueAreWoken'
    BY <2>2, <2>6, AgentWakesDue
  <2> QED
    BY <1>3, <2>3, <2>4, <2>5, <2>6 DEF Next
<1> QED
  BY <1>2, <1>3

\* A wake-up is lost only by a handler that dies or by one of the decisions
\* that FreshDecisions rules out: however many requests finish, cancel, reopen
\* or re-block tasks at the same time and whatever the agents do next to them,
\* every task whose blockers are all done is on the list of some handler
\* (wakeBlockedDependents).
THEOREM WakeUpsAreNotLost ==
  Spec /\ [][FreshDecisions]_vars => []NoLostWakeUp
<1> DEFINE Inv == BInv /\ (faults = 0 => DueAreWoken)
<1>1. Init => Inv
  <2> SUFFICES ASSUME Init PROVE Inv
    OBVIOUS
  <2>1. BInv
    BY InitTypes DEF Init, BInv, AtWork
  <2>2. \A t \in Tasks : status[t] # "done"
    BY BlockersAssumption DEF Init
  <2>3. \A d \in Tasks : ~Due(d)
    BY <2>1, <2>2 DEF Due, OpenBlockers, BInv, TypeOK
  <2> QED
    BY <2>1, <2>3 DEF DueAreWoken
<1>2. Inv /\ [Next]_vars /\ [FreshDecisions]_vars => Inv'
  BY StepTypes, StepWakesDue
<1>3. Inv => NoLostWakeUp
  BY DEF DueAreWoken, WillWake, Due, NoLostWakeUp
<1> QED
  BY <1>1, <1>2, <1>3, PTL DEF Spec

-----------------------------------------------------------------------------
(* Where nothing is decided on a stale row *)

\* Updates ask neither for a run nor for a wait, so that no gate is passed, and
\* leave the blocker sets alone.
OnlyMovesOn ==
  /\ PatchStatuses \intersect (EntryStatuses \union {"blocked"}) = {}
  /\ PatchBlockers = {}

\* A blocker that is done is not reopened, and no agent gives it back.
DoneBlockersStay ==
  \A b, d \in Tasks : b \in blockedBy[d] /\ status[b] = "done" => status'[b] = "done"

\* Every request is the update of a status, and knows whether its blocker is done.
MovesOn(h) ==
  /\ at[h] \in {"idle", "update", "dependents", "check", "flip", "wake"}
  /\ at[h] = "update" =>
       /\ patch[h].status \in PatchStatuses /\ ~patch[h].sets
       /\ wasDone[h] => \/ status[task[h]] = "done"
                        \/ \A d \in Tasks : task[h] \notin blockedBy[d]

AllMoveOn == \A h \in Handlers : MovesOn(h)

LEMMA NewStatusMovesOn ==
  ASSUME OnlyMovesOn, NEW h \in Handlers, MovesOn(h), at[h] = "update"
  PROVE  /\ NewStatus(h) \notin EntryStatuses \union {"blocked"}
         /\ ~patch[h].sets
<1>1. patch[h].status \in PatchStatuses /\ PatchStatuses \subseteq TaskStatuses
  BY BlockersAssumption DEF MovesOn
<1>2. patch[h].status # "keep"
  BY <1>1 DEF TaskStatuses
<1> QED
  BY <1>1, <1>2 DEF NewStatus, OnlyMovesOn, MovesOn

LEMMA MovingOnIsFresh ==
  ASSUME OnlyMovesOn, BInv, AllMoveOn
  PROVE  FreshDecisions
<1> SUFFICES ASSUME NEW h \in Handlers
             PROVE  LET t == task[h] IN
               /\ Update(h) /\ status'[t] = "done" /\ wasDone[h] =>
                    status[t] = "done" \/ \A d \in Tasks : t \notin blockedBy[d]
               /\ Block(h) => OpenBlockers(blockedBy[t], status) # {}
               /\ Update(h) /\ status'[t] = "blocked" =>
                    \/ status[t] = "blocked" /\ blockedBy'[t] = blockedBy[t]
                    \/ OpenBlockers(blockedBy'[t], status') # {}
  BY DEF FreshDecisions
<1>1. ~Block(h)
  BY DEF AllMoveOn, MovesOn, Block
<1>2. ASSUME Update(h)
      PROVE  /\ wasDone[h] => \/ status[task[h]] = "done"
                              \/ \A d \in Tasks : task[h] \notin blockedBy[d]
             /\ status'[task[h]] # "blocked"
  <2>1. at[h] = "update" /\ task[h] \in Tasks
    BY <1>2 DEF Update, BInv, AtWork
  <2>2. status'[task[h]] = NewStatus(h)
    BY <1>2, <2>1 DEF Update, BInv, TypeOK
  <2> QED
    BY <2>1, <2>2, NewStatusMovesOn DEF AllMoveOn, MovesOn
<1> QED
  BY <1>1, <1>2

LEMMA StepMovesOn ==
  ASSUME OnlyMovesOn, BInv, AllMoveOn, [Next]_vars, [DoneBlockersStay]_vars
  PROVE  AllMoveOn'
<1>1. CASE UNCHANGED vars
  BY <1>1 DEF AllMoveOn, MovesOn, vars, rowVars, callVars
<1>2. CASE Next /\ DoneBlockersStay
  <2>1. ASSUME NEW g \in Handlers, MovesOn(g), UNCHANGED blockedBy,
               at'[g] = at[g] /\ task'[g] = task[g] /\ patch'[g] = patch[g]
               /\ wasDone'[g] = wasDone[g]
        PROVE  MovesOn(g)'
    <3>1. at[g] = "update" => task[g] \in Tasks
      BY DEF BInv, AtWork
    <3> QED
      BY <1>2, <2>1, <3>1 DEF MovesOn, DoneBlockersStay
  <2>2. ASSUME NEW h \in Handlers, UNCHANGED blockedBy, MovesOn(h)',
               \A g \in Handlers \ {h} :
                 /\ at'[g] = at[g] /\ task'[g] = task[g] /\ patch'[g] = patch[g]
                 /\ wasDone'[g] = wasDone[g]
        PROVE  AllMoveOn'
    BY <2>1, <2>2 DEF AllMoveOn
  <2>3. ASSUME NEW h \in Handlers, UNCHANGED blockedBy, Ends(h)
        PROVE  AllMoveOn'
    <3>1. MovesOn(h)'
      BY <2>3 DEF Ends, MovesOn, BInv, TypeOK
    <3> QED
      BY <2>2, <2>3, <3>1 DEF Ends, BInv, TypeOK
  <2>4. ASSUME NEW h \in Handlers, UNCHANGED <<blockedBy, task, patch, wasDone>>,
               NEW place \in {"dependents", "check", "flip", "wake"},
               at' = [at EXCEPT ![h] = place]
        PROVE  AllMoveOn'
    <3>1. MovesOn(h)'
      BY <2>4 DEF MovesOn, BInv, TypeOK
    <3> QED
      BY <2>2, <2>4, <3>1 DEF BInv, TypeOK
  <2>5. ASSUME NEW h \in Handlers, UNCHANGED blockedBy, NEW left, NEW rows,
               NextDependent(h, left, rows)
        PROVE  AllMoveOn'
    BY <2>3, <2>4, <2>5 DEF NextDependent, callVars
  <2>6. ASSUME NEW h \in Handlers, NEW t \in Tasks, NEW s \in PatchStatuses,
               CallStatus(h, t, s)
        PROVE  AllMoveOn'
    <3>1. /\ at'[h] = "update" /\ task'[h] = t
          /\ patch'[h].status = s /\ patch'[h].sets = FALSE
          /\ wasDone'[h] = (status[t] = "done") /\ UNCHANGED <<status, blockedBy>>
      BY <2>6 DEF CallStatus, Call, rowVars, BInv, TypeOK
    <3>2. MovesOn(h)'
      BY <3>1 DEF MovesOn
    <3> QED
      BY <2>2, <2>6, <3>1, <3>2 DEF CallStatus, Call, BInv, TypeOK
  <2>7. ASSUME NEW h \in Handlers, Update(h) PROVE AllMoveOn'
    <3>1. at[h] = "update" /\ task[h] \in Tasks /\ MovesOn(h)
      BY <2>7 DEF Update, BInv, AtWork, AllMoveOn
    <3>2. UNCHANGED blockedBy /\ status'[task[h]] = NewStatus(h)
      BY <2>7, <3>1, NewStatusMovesOn DEF Update, BInv, TypeOK
    <3>3. ~IsDispatchable(Snapshot', task[h])
      BY <3>1, <3>2, NewStatusMovesOn DEF IsDispatchable, Dispatchable, Snapshot
    <3>4. CASE /\ at' = [at EXCEPT ![h] = "dependents"]
               /\ UNCHANGED <<callVars, walkVars, row, wakeVars>>
      BY <2>4, <3>2, <3>4 DEF callVars
    <3>5. CASE Ends(h)
      BY <2>3, <3>2, <3>5
    <3> QED
      BY <2>7, <3>3, <3>4, <3>5 DEF Update
  <2>8. ASSUME NEW h \in Handlers,
               ListDependents(h) \/ Check(h) \/ Flip(h) \/ Wake(h)
        PROVE  AllMoveOn'
    <3>1. CASE ListDependents(h) \/ Wake(h)
      BY <2>5, <3>1 DEF ListDependents, Wake, rowVars
    <3>2. CASE Check(h)
      BY <2>4, <2>5, <3>2 DEF Check, rowVars, callVars
    <3>3. CASE Flip(h)
      BY <2>4, <2>5, <3>3 DEF Flip, callVars
    <3> QED
      BY <2>8, <3>1, <3>2, <3>3
  <2>9. \A h \in Handlers : ~(Walk(h) \/ Gate(h) \/ Block(h) \/ Enqueue(h))
    BY DEF AllMoveOn, MovesOn, Walk, Gate, Block, Enqueue
  <2>10. ASSUME NEW h \in Handlers, Dies(h) PROVE AllMoveOn'
    BY <2>3, <2>10 DEF Dies, rowVars
  <2>11. ASSUME NEW t \in Tasks, Claim(t) \/ Release(t) PROVE AllMoveOn'
    <3>1. UNCHANGED <<blockedBy, at, task, patch, wasDone>>
      BY <2>11 DEF Claim, Release, callVars
    <3> QED
      BY <2>1, <3>1 DEF AllMoveOn
  <2>12. PatchBlockers = {}
    BY DEF OnlyMovesOn
  <2> QED
    BY <1>2, <2>6, <2>7, <2>8, <2>9, <2>10, <2>11, <2>12 DEF Next, HandlerStep
<1> QED
  BY <1>1, <1>2

\* The conditions of the theorem above, met: where updates only move tasks on
\* and a blocker that is done stays done, any number of requests that finish
\* blockers at the same time wake every task that waited for them, in every
\* graph (wakeBlockedDependents).
THEOREM ConcurrentFinishesWake ==
  ASSUME OnlyMovesOn
  PROVE  Spec /\ [][DoneBlockersStay]_vars => []NoLostWakeUp
<1> DEFINE Inv == BInv /\ AllMoveOn
<1>1. Init => Inv
  BY InitTypes DEF Init, BInv, AtWork, AllMoveOn, MovesOn
<1>2. Inv /\ [Next]_vars /\ [DoneBlockersStay]_vars => Inv'
  BY StepTypes, StepMovesOn
<1>3. Inv => [FreshDecisions]_vars
  BY MovingOnIsFresh
<1> QED
  BY <1>1, <1>2, <1>3, WakeUpsAreNotLost, PTL DEF Spec

\* The two conditions together: updates that meet and do not act on what is no
\* longer so keep the graph acyclic and lose no wake-up, for any number of
\* requests, tasks and patches (validateBlockedBy, wakeBlockedDependents).
THEOREM FreshUpdatesAreSafe == FreshSpec => [](BlockersAcyclic /\ NoLostWakeUp)
<1>1. [Next /\ FreshWalks /\ FreshDecisions]_vars
        => [Next]_vars /\ [FreshWalks]_vars /\ [FreshDecisions]_vars
  OBVIOUS
<1>2. FreshSpec => Spec /\ [][FreshWalks]_vars /\ [][FreshDecisions]_vars
  BY <1>1, PTL DEF FreshSpec, Spec
<1> QED
  BY <1>2, FreshWalksStayAcyclic, WakeUpsAreNotLost, PTL

=============================================================================
