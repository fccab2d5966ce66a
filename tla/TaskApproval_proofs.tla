------------------------ MODULE TaskApproval_proofs ------------------------
(***************************************************************************)
(* Proofs about TaskApproval: its types, that an allow-once opens at most  *)
(* one run however people hurry, and what holds when they answer one after *)
(* the other and only a task at rest: approved asks leave the list, no ask *)
(* is wiped, and the next run gets through with what was approved.         *)
(***************************************************************************)
EXTENDS TaskApproval, TLAPS

-----------------------------------------------------------------------------
(* Types *)

LEMMA InitTypes == Init => TypeOK
<1> SUFFICES ASSUME Init PROVE TypeOK
  OBVIOUS
<1>1. claimed \in BOOLEAN /\ loose \in BOOLEAN /\ ready \in [Humans -> BOOLEAN]
  BY Zenon DEF Init
<1>2. /\ once \in [Ops -> Nat] /\ minted \in [Ops -> Nat]
      /\ granted \in [Ops -> Nat] /\ served \in [Ops -> Nat]
  BY DEF Init
<1>3. /\ op \in [Humans -> Ops \union {"none"}]
      /\ left \in [Humans -> SUBSET Ops] /\ seen \in [Humans -> SUBSET Ops]
  BY DEF Init
<1>4. QED
  BY <1>1, <1>2, <1>3, TaskApprovalAssumption
     DEF Init, TypeOK, TaskStatuses, Scopes

LEMMA RunTypes ==
  ASSUME TypeOK, RunStep \/ JobFails \/ Reap \/ People
  PROVE  TypeOK'
<1> USE TaskApprovalAssumption
    DEF TypeOK, rowVars, grantVars, runVars, handlerVars, historyVars, Goto,
        Works, Fails
<1>1. CASE StartJob
  BY <1>1 DEF StartJob
<1>2. CASE Checkout
  BY <1>2 DEF Checkout, Claim, TaskStatuses
<1>3. CASE BuildBrief
  BY <1>3 DEF BuildBrief, Effective
<1>4. ASSUME NEW o \in Ops, CallOperation(o) PROVE TypeOK'
  BY <1>4 DEF CallOperation, CoreGate, Passes, Asks
<1>5. CASE EndWork
  BY <1>5 DEF EndWork
<1>6. CASE WriteResult
  BY <1>6 DEF WriteResult
<1>7. CASE Release
  BY <1>7 DEF Release, TaskStatuses
<1>8. CASE Park
  BY <1>8 DEF Park, RestingStatuses, TaskStatuses
<1>9. CASE Finish
  BY <1>9 DEF Finish
<1>10. CASE JobFails
  <2>1. loose' \in BOOLEAN
    BY <1>10, Zenon DEF JobFails
  <2>2. /\ died' \subseteq Ops /\ faults' \in 0..MaxFaults
        /\ pc' \in {"none", "checkout", "again"} /\ asked' = {}
    BY <1>10 DEF JobFails
  <2>3. QED
    BY <1>10, <2>1, <2>2 DEF JobFails
<1>11. CASE Reap
  <2>1. claimed' \in BOOLEAN
    BY <1>11, Zenon DEF Reap
  <2>2. /\ status' \in TaskStatuses /\ pending' = {} /\ queue' \in Nat
        /\ UNCHANGED <<grantVars, policy, pc, brief, asked, runs, callsMade,
                       handlerVars, historyVars, faults>>
    BY <1>11 DEF Reap, TaskStatuses
  <2>3. QED
    BY <2>1, <2>2
<1>12. CASE People
  <2>1. ByHand
    BY <1>12 DEF People, RunNow, EditStatus
  <2>2. loose' \in BOOLEAN
    BY <2>1, Zenon DEF ByHand
  <2>3. /\ queue' \in {queue, queue + 1}
        /\ status' \in {status, "todo"} \union Edits
    BY <1>12, Zenon DEF People, RunNow, EditStatus
  <2>4. status' \in TaskStatuses /\ queue' \in Nat
    BY <2>3 DEF TaskStatuses
  <2>5. edits' \in 0..MaxEdits
    BY <2>1 DEF ByHand
  <2>6. QED
    BY <2>1, <2>2, <2>4, <2>5 DEF ByHand
<1>13. QED
  BY <1>1, <1>2, <1>3, <1>4, <1>5, <1>6, <1>7, <1>8, <1>9, <1>10, <1>11, <1>12
     DEF RunStep

\* What an answer carries along.
HandlerOK ==
  /\ at \in [Humans -> {"idle", "grant", "clear", "write", "reread", "flip",
                        "dispatch"}]
  /\ op \in [Humans -> Ops \union {"none"}]
  /\ left \in [Humans -> SUBSET Ops]
  /\ scope \in [Humans -> Scopes]
  /\ seen \in [Humans -> SUBSET Ops]
  /\ ready \in [Humans -> BOOLEAN]

LEMMA DoneTypes ==
  ASSUME HandlerOK, NEW h \in Humans, Done(h)
  PROVE  HandlerOK'
BY DEF HandlerOK, Done, Scopes

LEMMA HandlerTypes ==
  ASSUME TypeOK, NEW h \in Humans, Answer(h) \/ HandlerStep(h) \/ HandlerDies(h)
  PROVE  TypeOK'
<1>0. HandlerOK
  BY DEF HandlerOK, TypeOK
<1>1. ASSUME NEW ops \in SUBSET pending, NEW s \in Scopes, AnswerOnTask(h, ops, s)
      PROVE  TypeOK'
  BY <1>1, TaskApprovalAssumption
  DEF AnswerOnTask, Opens, TypeOK, rowVars, grantVars, runVars, historyVars
<1>2. ASSUME NEW o \in Ops, AnswerInQueue(h, o) PROVE TypeOK'
  BY <1>2, TaskApprovalAssumption
  DEF AnswerInQueue, Opens, TypeOK, rowVars, runVars
<1>3. ASSUME NEW o \in Ops, Grant(h, o) PROVE TypeOK'
  <2>1. HandlerOK'
    BY <1>0, <1>3 DEF HandlerOK, Grant
  <2>2. /\ once' \in [Ops -> Nat] /\ granted' \in [Ops -> Nat]
        /\ standing' \subseteq Ops
    BY <1>3 DEF TypeOK, Grant
  <2>3. answered' \subseteq Ops /\ fresh' \subseteq Ops /\ died' \subseteq Ops
    BY <1>3 DEF TypeOK, Grant
  <2>4. QED
    BY <1>3, <2>1, <2>2, <2>3 DEF TypeOK, HandlerOK, Grant, rowVars, runVars
<1>4. CASE ReadPending(h)
  BY <1>4 DEF ReadPending, Cleared, TypeOK, rowVars, grantVars, runVars, historyVars
<1>5. CASE WritePending(h)
  BY <1>5 DEF WritePending, Cleared, TypeOK, grantVars, runVars, historyVars
<1>6. CASE Reread(h)
  <2>1. HandlerOK'
    <3>1. CASE WaitsForMore
      BY <1>0, <1>6, <3>1, DoneTypes DEF Reread
    <3>2. CASE ~WaitsForMore /\ NeedsFlip
      BY <1>0, <1>6, <3>2 DEF Reread, HandlerOK
    <3>3. CASE ~WaitsForMore /\ ~NeedsFlip
      <4>1. Dispatchable(TRUE, claimed, status) \in BOOLEAN
        BY DEF Dispatchable
      <4>2. ready' = [ready EXCEPT ![h] = Dispatchable(TRUE, claimed, status)]
        BY <1>6, <3>3 DEF Reread
      <4>3. ready' \in [Humans -> BOOLEAN]
        BY <1>0, <4>1, <4>2, Zenon DEF HandlerOK
      <4>4. at' = [at EXCEPT ![h] = "dispatch"] /\ UNCHANGED <<op, left, scope, seen>>
        BY <1>6, <3>3 DEF Reread
      <4>5. QED
        BY <1>0, <4>3, <4>4 DEF HandlerOK
    <3>4. QED
      BY <3>1, <3>2, <3>3
  <2>2. UNCHANGED <<rowVars, grantVars, runVars, answers, edits, historyVars, faults>>
    BY <1>6 DEF Reread
  <2>3. QED
    BY <2>1, <2>2 DEF TypeOK, HandlerOK, rowVars, grantVars, runVars, historyVars
<1>7. CASE Flip(h)
  BY <1>7
  DEF Flip, Dispatchable, TaskStatuses, TypeOK, grantVars, runVars, historyVars
<1>8. CASE Dispatch(h)
  <2>1. HandlerOK'
    BY <1>0, <1>8, DoneTypes DEF Dispatch
  <2>2. queue' \in Nat
    BY <1>8 DEF Dispatch, TypeOK
  <2>3. QED
    BY <1>8, <2>1, <2>2 DEF Dispatch, TypeOK, HandlerOK, rowVars, grantVars, historyVars
<1>9. CASE HandlerDies(h)
  <2>1. HandlerOK'
    BY <1>0, <1>9, DoneTypes DEF HandlerDies
  <2>2. faults' \in 0..MaxFaults /\ died' \subseteq Ops
    BY <1>9, TaskApprovalAssumption DEF HandlerDies, Fails, TypeOK
  <2>3. QED
    BY <1>9, <2>1, <2>2 DEF HandlerDies, TypeOK, HandlerOK, rowVars, grantVars, runVars
<1>10. QED
  BY <1>1, <1>2, <1>3, <1>4, <1>5, <1>6, <1>7, <1>8, <1>9 DEF Answer, HandlerStep

\* Every reachable state is well-typed: the counters stay in their ranges and a
\* handler only ever stands at a step of resolveTaskToolApproval.
THEOREM TaskApprovalTypes == Spec => []TypeOK
<1>1. TypeOK /\ [Next]_vars => TypeOK'
  <2> SUFFICES ASSUME TypeOK, [Next]_vars PROVE TypeOK'
    OBVIOUS
  <2>1. CASE Next
    BY <2>1, RunTypes, HandlerTypes DEF Next
  <2>2. CASE UNCHANGED vars
    BY <2>2 DEF vars, rowVars, grantVars, runVars, handlerVars, historyVars, TypeOK
  <2>3. QED
    BY <2>1, <2>2
<1>2. QED
  BY InitTypes, <1>1, PTL DEF Spec

-----------------------------------------------------------------------------
(* One run per allow-once *)

\* While no run is between its brief and its cleanup, a single-use grant on the
\* task is one that has served no run yet.
Unserved ==
  \A o \in Ops :
    once[o] > 0 /\ pc \notin {"work", "write"} => served[o] + 1 <= granted[o] + faults

OInv == TypeOK /\ OnceServesOneRun /\ Unserved

LEMMA RunServes ==
  ASSUME OInv, RunStep \/ JobFails \/ Reap \/ People
  PROVE  (OnceServesOneRun /\ Unserved)'
<1> USE TaskApprovalAssumption
    DEF OInv, TypeOK, OnceServesOneRun, Unserved, rowVars, grantVars, runVars,
        handlerVars, historyVars, Goto, Works, Fails
<1>1. CASE StartJob
  BY <1>1 DEF StartJob
<1>2. CASE Checkout
  BY <1>2 DEF Checkout, Claim
<1>3. CASE BuildBrief
  BY <1>3 DEF BuildBrief, Effective
<1>4. ASSUME NEW o \in Ops, CallOperation(o) PROVE (OnceServesOneRun /\ Unserved)'
  BY <1>4 DEF CallOperation, CoreGate, Passes, Asks
<1>5. CASE EndWork
  BY <1>5 DEF EndWork
<1>6. CASE WriteResult
  BY <1>6 DEF WriteResult
<1>7. CASE Release
  BY <1>7 DEF Release
<1>8. CASE Park \/ Finish
  BY <1>8 DEF Park, Finish
<1>9. CASE JobFails
  <2>1. UNCHANGED <<once, served, granted>> /\ faults' = faults + 1
    BY <1>9 DEF JobFails
  <2>2. QED
    BY <2>1
<1>10. CASE Reap
  BY <1>10 DEF Reap
<1>11. CASE People
  BY <1>11 DEF People, RunNow, EditStatus, ByHand
<1>12. QED
  BY <1>1, <1>2, <1>3, <1>4, <1>5, <1>6, <1>7, <1>8, <1>9, <1>10, <1>11
     DEF RunStep

LEMMA OneMore ==
  ASSUME NEW f \in [Ops -> Nat], NEW o \in Ops, NEW q \in Ops
  PROVE  [f EXCEPT ![o] = @ + 1][q] = IF q = o THEN f[q] + 1 ELSE f[q]
OBVIOUS

LEMMA HandlerServes ==
  ASSUME OInv, NEW h \in Humans, Answer(h) \/ HandlerStep(h) \/ HandlerDies(h)
  PROVE  (OnceServesOneRun /\ Unserved)'
<1> USE TaskApprovalAssumption
    DEF OInv, TypeOK, OnceServesOneRun, Unserved, rowVars, grantVars, runVars,
        handlerVars, historyVars
<1>1. ASSUME NEW o \in Ops, Grant(h, o) PROVE (OnceServesOneRun /\ Unserved)'
  <2>1. /\ once \in [Ops -> Nat] /\ granted \in [Ops -> Nat] /\ served \in [Ops -> Nat]
        /\ faults \in Nat
    OBVIOUS
  <2>2. UNCHANGED <<pc, served, faults>>
    BY <1>1 DEF Grant
  <2>3. CASE scope[h] = "once"
    <3>1. /\ once' = [once EXCEPT ![o] = @ + 1]
          /\ granted' = [granted EXCEPT ![o] = @ + 1]
      BY <1>1, <2>3 DEF Grant
    <3>2. \A q \in Ops : /\ once'[q] = IF q = o THEN once[q] + 1 ELSE once[q]
                        /\ granted'[q] = IF q = o THEN granted[q] + 1 ELSE granted[q]
      BY <2>1, <3>1, OneMore
    <3>3. QED
      BY <2>1, <2>2, <3>2
  <2>4. CASE scope[h] # "once"
    BY <1>1, <2>2, <2>4 DEF Grant
  <2>5. QED
    BY <2>3, <2>4
<1>2. CASE HandlerDies(h)
  BY <1>2 DEF HandlerDies, Fails
<1>3. CASE UNCHANGED <<once, pc, served, granted, faults>>
  BY <1>3
<1>4. QED
  BY <1>1, <1>2, <1>3
     DEF Answer, HandlerStep, AnswerOnTask, AnswerInQueue, ReadPending,
         WritePending, Reread, Flip, Dispatch

\* An allow-once on a task opens at most one run, whatever people answer and
\* when, save for one more per cleanup that fails.
THEOREM OnceOpensOneRun == Spec => []OnceServesOneRun
<1>1. Init => OInv
  BY InitTypes DEF Init, OInv, OnceServesOneRun, Unserved
<1>2. OInv /\ [Next]_vars => OInv'
  <2> SUFFICES ASSUME OInv, [Next]_vars PROVE OInv'
    OBVIOUS
  <2>1. CASE Next
    <3>1. TypeOK'
      BY <2>1, RunTypes, HandlerTypes DEF Next, OInv
    <3>2. (OnceServesOneRun /\ Unserved)'
      BY <2>1, RunServes, HandlerServes DEF Next
    <3>3. QED
      BY <3>1, <3>2 DEF OInv
  <2>2. CASE UNCHANGED vars
    BY <2>2 DEF vars, rowVars, grantVars, runVars, handlerVars, historyVars, OInv,
                TypeOK, OnceServesOneRun, Unserved
  <2>3. QED
    BY <2>1, <2>2
<1>3. QED
  BY <1>1, <1>2, PTL DEF Spec, OInv

-----------------------------------------------------------------------------
(* Answers that wait for each other and for the run *)

Busy(h) == at[h] # "idle"

\* One handler at a time, and no run next to it.
OneAtATime ==
  /\ \A h, k \in Humans : Busy(h) /\ Busy(k) => h = k
  /\ \A h \in Humans : Busy(h) => AtRest

\* A message is only under way, and its job only about to claim the task, when
\* nothing is asked any more, or the asks are loose.
DispatchedIsAnswered ==
  /\ queue \in {0, 1}
  /\ pc # "none" \/ claimed => queue = 0
  /\ pc \in {"brief", "work", "write", "release"} => claimed
  /\ queue = 1 \/ pc = "checkout" => pending = {} \/ loose
  /\ pc \in {"again", "finish"} /\ ~claimed /\ status \in EntryStatuses =>
       pending = {} \/ loose
  /\ \A h \in Humans : at[h] \in {"flip", "dispatch"} => pending = {}

\* What a handler has read is still so when it writes.
ReadIsCurrent == \A h \in Humans : at[h] = "write" => seen[h] = pending

\* A run parks on nothing that was approved before it parked.
AsksAreNew ==
  pc \in {"work", "write", "release"} => asked \intersect answered = {}

SInv ==
  /\ TypeOK
  /\ OneAtATime
  /\ DispatchedIsAnswered
  /\ ReadIsCurrent
  /\ AsksAreNew
  /\ ApprovedAskCleared

Serial == OneAtATime /\ DispatchedIsAnswered /\ ReadIsCurrent /\ AsksAreNew
            /\ ApprovedAskCleared

LEMMA RunKeepsSerial ==
  ASSUME SInv, Hurry = {}, RunStep \/ JobFails \/ Reap \/ People
  PROVE  Serial'
<1>1. \A h \in Humans : ~Busy(h)
  <2>1. CASE RunStep \/ JobFails
    <3>1. pc # "none" \/ StartJob
      BY <2>1 DEF RunStep, JobFails, Checkout, BuildBrief, CallOperation, EndWork,
                  WriteResult, Release, Park, Finish
    <3>2. QED
      BY <3>1 DEF SInv, OneAtATime, AtRest, StartJob, TypeOK
  <2>2. CASE Reap
    BY <2>2 DEF Reap, SInv, OneAtATime, AtRest
  <2>3. CASE People
    BY <2>3 DEF People, RunNow, EditStatus, ByHand, MayAct, Busy
  <2>4. QED
    BY <2>1, <2>2, <2>3
<1>2. UNCHANGED <<at, op, seen>>
  BY DEF RunStep, JobFails, Reap, People, RunNow, EditStatus, ByHand, StartJob,
         Checkout, BuildBrief, CallOperation, EndWork, WriteResult, Release, Park,
         Finish, handlerVars
<1>3. (OneAtATime /\ ReadIsCurrent)'
  BY <1>1, <1>2 DEF OneAtATime, ReadIsCurrent, Busy
<1>4. \A o \in (asks \intersect answered) \ died : o \notin pending
  BY <1>1 DEF SInv, ApprovedAskCleared, Busy
<1>5. (\A h \in Humans : at[h] \in {"flip", "dispatch"} => pending = {})'
  BY <1>1, <1>2 DEF Busy
<1> DEFINE Rest ==
      /\ queue' \in {0, 1}
      /\ pc' # "none" \/ claimed' => queue' = 0
      /\ pc' \in {"brief", "work", "write", "release"} => claimed'
      /\ queue' = 1 \/ pc' = "checkout" => pending' = {} \/ loose'
      /\ pc' \in {"again", "finish"} /\ ~claimed' /\ status' \in EntryStatuses =>
           pending' = {} \/ loose'
      /\ pc' \in {"work", "write", "release"} => asked' \intersect answered' = {}
      /\ \A o \in (asks' \intersect answered') \ died' : o \notin pending'
<1>6. SUFFICES Rest
  <2>1. DispatchedIsAnswered'
    BY <1>5, <1>6 DEF DispatchedIsAnswered
  <2>2. AsksAreNew' /\ ApprovedAskCleared'
    BY <1>6 DEF AsksAreNew, ApprovedAskCleared
  <2>3. QED
    BY <1>3, <2>1, <2>2 DEF Serial
<1> USE <1>4 DEF SInv, DispatchedIsAnswered, AsksAreNew, Goto, historyVars, rowVars,
            runVars, grantVars, handlerVars
<1>7. CASE StartJob
  BY <1>7 DEF StartJob, TypeOK
<1>8. CASE Checkout
  BY <1>8 DEF Checkout, Claim, OwnClaim
<1>9. CASE BuildBrief
  BY <1>9 DEF BuildBrief
<1>10. ASSUME NEW o \in Ops, CallOperation(o) PROVE Rest
  BY <1>10 DEF CallOperation, CoreGate, Passes, Asks
<1>11. CASE EndWork
  BY <1>11 DEF EndWork
<1>12. CASE WriteResult
  BY <1>12 DEF WriteResult
<1>13. CASE Release
  BY <1>13 DEF Release
<1>14. CASE Park
  BY <1>14 DEF Park, RestingStatuses, EntryStatuses
<1>15. CASE Finish
  BY <1>15 DEF Finish
<1>16. CASE JobFails
  BY <1>16 DEF JobFails, TypeOK
<1>17. CASE Reap
  BY <1>17 DEF Reap
<1>18. CASE People
  <2>1. ByHand /\ queue' \in {queue, queue + 1}
    BY <1>18, Zenon DEF People, RunNow, EditStatus
  <2>2. /\ pc = "none" /\ ~claimed /\ queue = 0
        /\ UNCHANGED <<pc, claimed, pending, asks, answered, died>>
    BY <2>1 DEF ByHand, MayAct, AtRest
  <2>3. pending' = {} \/ loose'
    BY <2>1, Zenon DEF ByHand
  <2>4. QED
    BY <2>1, <2>2, <2>3
<1>19. QED
  BY <1>7, <1>8, <1>9, <1>10, <1>11, <1>12, <1>13, <1>14, <1>15, <1>16, <1>17, <1>18
     DEF RunStep

\* A handler that moves is alone, and beside no run.
LEMMA HandlerAlone ==
  ASSUME SInv, Hurry = {}, NEW h \in Humans,
         Answer(h) \/ HandlerStep(h) \/ HandlerDies(h)
  PROVE  /\ \A k \in Humans \ {h} : ~Busy(k) /\ ~Busy(k)'
         /\ AtRest
         /\ UNCHANGED <<pc, asked, claimed, asks>>
<1>1. CASE Answer(h)
  <2>1. /\ Opens(h)
        /\ \A k \in Humans \ {h} : at'[k] = at[k]
        /\ UNCHANGED <<pc, asked, claimed, asks>>
    BY <1>1 DEF Answer, AnswerOnTask, AnswerInQueue, SInv, TypeOK, runVars,
                rowVars, historyVars
  <2>2. QED
    BY <2>1 DEF Opens, MayAct, Busy
<1>2. CASE ~Answer(h)
  <2>1. Busy(h)
    BY <1>2 DEF HandlerStep, HandlerDies, Grant, ReadPending, WritePending, Reread,
                Flip, Dispatch, Busy
  <2>2. /\ \A k \in Humans \ {h} : at'[k] = at[k]
        /\ UNCHANGED <<pc, asked, claimed, asks>>
    BY <1>2 DEF HandlerStep, HandlerDies, Grant, ReadPending, WritePending, Reread,
                Flip, Dispatch, Done, SInv, TypeOK, runVars, rowVars, historyVars
  <2>3. QED
    BY <2>1, <2>2 DEF SInv, OneAtATime, Busy
<1>3. QED
  BY <1>1, <1>2

LEMMA HandlerKeepsSerial ==
  ASSUME SInv, Hurry = {}, NEW h \in Humans,
         Answer(h) \/ HandlerStep(h) \/ HandlerDies(h)
  PROVE  Serial'
<1> DEFINE Kept ==
      /\ AtRest' \/ ~Busy(h)'
      /\ queue' \in {0, 1} /\ (queue' = 1 => pending' = {})
      /\ pc' = "none" /\ ~claimed'
      /\ at'[h] \in {"flip", "dispatch"} => pending' = {}
      /\ at'[h] = "write" => seen'[h] = pending'
      /\ \A o \in (asks' \intersect answered') \ died' :
           o \in pending' => op'[h] = o /\ at'[h] \in {"clear", "write"}
<1>1. /\ \A k \in Humans \ {h} : ~Busy(k) /\ ~Busy(k)'
      /\ AtRest
      /\ UNCHANGED <<pc, asked, claimed, asks>>
  BY HandlerAlone
<1>2. AsksAreNew'
  BY <1>1 DEF AsksAreNew, AtRest
<1>3. \A o \in (asks \intersect answered) \ died :
        o \in pending => op[h] = o /\ at[h] \in {"clear", "write"}
  BY <1>1 DEF SInv, ApprovedAskCleared, Busy
<1>4. SUFFICES Kept
  <2>1. OneAtATime'
    BY <1>1, <1>4 DEF OneAtATime
  <2>2. DispatchedIsAnswered'
    BY <1>1, <1>4 DEF DispatchedIsAnswered, AtRest, Busy
  <2>3. ReadIsCurrent'
    BY <1>1, <1>4 DEF ReadIsCurrent, Busy
  <2>4. ApprovedAskCleared'
    BY <1>4 DEF ApprovedAskCleared
  <2>5. QED
    BY <1>2, <2>1, <2>2, <2>3, <2>4 DEF Serial
<1> USE <1>1, <1>3 DEF SInv, TypeOK, AtRest, DispatchedIsAnswered, ReadIsCurrent,
        Busy, rowVars, runVars, historyVars
<1>5. ASSUME NEW ops \in SUBSET pending, NEW s \in Scopes, AnswerOnTask(h, ops, s)
      PROVE  Kept
  BY <1>5 DEF AnswerOnTask, Opens
<1>6. ASSUME NEW o \in Ops, AnswerInQueue(h, o) PROVE Kept
  BY <1>6 DEF AnswerInQueue, Opens
<1>7. ASSUME NEW o \in Ops, Grant(h, o) PROVE Kept
  BY <1>7 DEF Grant
<1>8. CASE ReadPending(h)
  BY <1>8 DEF ReadPending, Cleared
<1>9. CASE WritePending(h)
  BY <1>9 DEF WritePending, Cleared
<1>10. CASE Reread(h)
  <2>1. UNCHANGED <<pc, claimed, queue, pending, asks, answered, died>>
    BY <1>10 DEF Reread
  <2>2. at'[h] \in {"idle", "flip", "dispatch"} /\ at[h] = "reread"
    BY <1>10 DEF Reread, Done
  <2>3. at'[h] \in {"flip", "dispatch"} => pending = {}
    BY <1>10 DEF Reread, WaitsForMore, Done
  <2>4. QED
    BY <2>1, <2>2, <2>3
<1>11. CASE Flip(h)
  BY <1>11 DEF Flip
<1>12. CASE Dispatch(h)
  BY <1>12 DEF Dispatch, Done
<1>13. CASE HandlerDies(h)
  BY <1>13 DEF HandlerDies, Done
<1>14. QED
  BY <1>5, <1>6, <1>7, <1>8, <1>9, <1>10, <1>11, <1>12, <1>13
     DEF Answer, HandlerStep

LEMMA SerialInvariant ==
  ASSUME Hurry = {}
  PROVE  Spec => []SInv
<1>1. Init => SInv
  BY InitTypes DEF Init, SInv, OneAtATime, DispatchedIsAnswered, ReadIsCurrent,
                   AsksAreNew, ApprovedAskCleared, Busy
<1>2. SInv /\ [Next]_vars => SInv'
  <2> SUFFICES ASSUME SInv, [Next]_vars PROVE SInv'
    OBVIOUS
  <2>1. CASE Next
    <3>1. TypeOK'
      BY <2>1, RunTypes, HandlerTypes DEF Next, SInv
    <3>2. Serial'
      BY <2>1, RunKeepsSerial, HandlerKeepsSerial DEF Next
    <3>3. QED
      BY <3>1, <3>2 DEF SInv, Serial
  <2>2. CASE UNCHANGED vars
    BY <2>2 DEF vars, rowVars, grantVars, runVars, handlerVars, historyVars, SInv,
                TypeOK, OneAtATime, DispatchedIsAnswered, ReadIsCurrent,
                AsksAreNew, ApprovedAskCleared, Busy, AtRest
  <2>3. QED
    BY <2>1, <2>2
<1>3. QED
  BY <1>1, <1>2, PTL DEF Spec

\* When people answer one after the other and only a task at rest, a task never
\* goes on advertising an ask that has been approved.
THEOREM SerialAnswersAreCleared ==
  ASSUME Hurry = {}
  PROVE  Spec => []ApprovedAskCleared
<1>1. SInv => ApprovedAskCleared
  BY DEF SInv
<1>2. QED
  BY SerialInvariant, <1>1, PTL

\* Under the same discipline an answer never costs another ask: whoever claims
\* the task finds an empty list, or the asks of a job that failed before it had
\* parked, or of a task somebody moved by hand.
THEOREM SerialAnswersWipeNothing ==
  ASSUME Hurry = {}
  PROVE  Spec => NoAskWiped
<1>1. SInv /\ [Next]_vars => (~claimed /\ claimed' /\ pending # {} => loose)
  <2> SUFFICES ASSUME SInv, [Next]_vars, ~claimed, claimed' PROVE pending = {} \/ loose
    OBVIOUS
  <2>1. CASE RunStep \/ JobFails \/ Reap \/ People
    <3>1. Checkout
      BY <2>1 DEF RunStep, JobFails, Reap, People, RunNow, EditStatus, ByHand,
                  StartJob, BuildBrief, CallOperation, EndWork, WriteResult,
                  Release, Park, Finish, rowVars
    <3>2. pc \in {"checkout", "again"} /\ status \in EntryStatuses
      BY <3>1 DEF Checkout, OwnClaim, rowVars
    <3>3. QED
      BY <3>2 DEF SInv, DispatchedIsAnswered
  <2>2. CASE \E h \in Humans : Answer(h) \/ HandlerStep(h) \/ HandlerDies(h)
    BY <2>2, HandlerAlone
  <2>3. CASE UNCHANGED vars
    BY <2>3 DEF vars, rowVars
  <2>4. QED
    BY <2>1, <2>2, <2>3 DEF Next
<1>2. QED
  BY SerialInvariant, <1>1, PTL DEF Spec, NoAskWiped

-----------------------------------------------------------------------------
(* What has been approved gets through *)

\* Under "request" people answer on the task: what they approve in the queue is
\* a grant of the agent, and no brief names it.
QueueOnlyIfDeferred ==
  "request" \in Policies => "connections" \notin Routes["request"]

\* An approval no run has used yet is a grant that the next call finds.
Backed ==
  \A o \in fresh :
    \/ once[o] > 0
    \/ o \in standing
    \/ minted[o] > 0 /\ policy # "request"

\* The specialist was told of it, if its calls are judged by its brief.
Briefed == pc = "work" /\ policy = "request" => fresh \subseteq brief

Handed == faults = 0 => Briefed

GInv == SInv /\ Backed /\ Handed

LEMMA RunKeepsBacked ==
  ASSUME GInv, RunStep \/ JobFails \/ Reap \/ People
  PROVE  Backed' /\ Handed'
<1> USE TaskApprovalAssumption
    DEF GInv, SInv, TypeOK, Backed, Handed, Briefed, rowVars, grantVars, runVars,
        handlerVars, historyVars, Goto, Works, Fails
<1>1. CASE BuildBrief
  BY <1>1 DEF BuildBrief, Effective
<1>2. ASSUME NEW o \in Ops, CallOperation(o)
      PROVE  Backed' /\ Handed'
  <2>1. UNCHANGED <<standing, policy, pc, brief, faults>>
    BY <1>2 DEF CallOperation
  <2>2. CASE UNCHANGED <<once, minted, fresh>>
    BY <2>1, <2>2
  <2>3. CASE /\ \A q \in Ops \ {o} : once'[q] = once[q] /\ minted'[q] = minted[q]
             /\ policy = "request" => o \in brief
             /\ Passes(o)
    <3>1. fresh' \ {o} \subseteq fresh /\ (o \in fresh' => o \in standing)
      BY <2>3 DEF Passes
    <3>2. Backed'
      BY <2>1, <2>3, <3>1
    <3>3. Briefed => Briefed'
      BY <2>1, <2>3, <3>1
    <3>4. QED
      BY <2>1, <3>2, <3>3
  <2>4. QED
    BY <1>2, <2>2, <2>3 DEF CallOperation, CoreGate, Asks
<1>3. CASE WriteResult
  BY <1>3 DEF WriteResult
<1>4. CASE StartJob \/ Checkout \/ EndWork \/ Release \/ Park \/ Finish \/ JobFails
  <2>1. UNCHANGED <<once, minted, standing, policy, fresh>> /\ pc' # "work"
    BY <1>4 DEF StartJob, Checkout, Claim, EndWork, Release, Park, Finish, JobFails
  <2>2. QED
    BY <2>1
<1>5. CASE Reap \/ People
  <2>1. UNCHANGED <<once, minted, standing, policy, fresh, pc, brief, faults>>
    BY <1>5 DEF Reap, People, RunNow, EditStatus, ByHand
  <2>2. QED
    BY <2>1
<1>6. QED
  BY <1>1, <1>2, <1>3, <1>4, <1>5 DEF RunStep

\* People answer between runs, and an answer writes its grant.
LEMMA AnswersBack ==
  ASSUME GInv, Hurry = {}, QueueOnlyIfDeferred, NEW h \in Humans,
         Answer(h) \/ HandlerStep(h) \/ HandlerDies(h)
  PROVE  Backed' /\ Handed'
<1>1. pc' # "work"
  BY HandlerAlone DEF GInv, AtRest
<1> SUFFICES Backed'
  BY <1>1 DEF Handed, Briefed
<1> USE DEF GInv, SInv, TypeOK, Backed
<1>2. ASSUME NEW o \in Ops, Grant(h, o) PROVE Backed'
  <2>1. UNCHANGED <<minted, policy>> /\ fresh' = fresh \union {o}
    BY <1>2 DEF Grant, runVars
  <2>2. \/ once'[o] > 0 \/ o \in standing'
    BY <1>2 DEF Grant
  <2>3. /\ \A q \in Ops : once[q] > 0 => once'[q] > 0
        /\ standing \subseteq standing'
    BY <1>2 DEF Grant
  <2>4. QED
    BY <2>1, <2>2, <2>3
<1>3. ASSUME NEW o \in Ops, AnswerInQueue(h, o) PROVE Backed'
  <2>1. policy # "request"
    BY <1>3 DEF AnswerInQueue, QueueOnlyIfDeferred
  <2>2. /\ UNCHANGED <<once, standing, policy>> /\ fresh' = fresh \union {o}
        /\ minted' = [minted EXCEPT ![o] = @ + 1]
    BY <1>3 DEF AnswerInQueue, runVars
  <2>3. minted'[o] > 0 /\ \A q \in Ops : minted[q] > 0 => minted'[q] > 0
    BY <2>2
  <2>4. QED
    BY <2>1, <2>2, <2>3
<1>4. CASE UNCHANGED <<once, minted, standing, policy, fresh>>
  BY <1>4
<1>5. QED
  BY <1>2, <1>3, <1>4
     DEF Answer, HandlerStep, HandlerDies, AnswerOnTask, ReadPending,
         WritePending, Reread, Flip, Dispatch, grantVars, runVars, historyVars

\* Only a specialist that calls asks, and only for what nobody has granted.
LEMMA AsksAreNotFresh ==
  ASSUME GInv, [Next]_vars, NEW o \in Ops, o \in asked' \ asked
  PROVE  o \notin fresh \/ faults > 0
<1>1. CASE UNCHANGED vars
  BY <1>1 DEF vars, runVars
<1>2. ASSUME NEW h \in Humans, Answer(h) \/ HandlerStep(h) \/ HandlerDies(h)
      PROVE  UNCHANGED asked
  BY <1>2 DEF Answer, HandlerStep, HandlerDies, AnswerOnTask, AnswerInQueue, Grant,
              ReadPending, WritePending, Reread, Flip, Dispatch, runVars
<1>3. CASE RunStep \/ JobFails \/ Reap \/ People
  <2>1. PICK q \in Ops : CallOperation(q)
    BY <1>3 DEF RunStep, JobFails, Reap, People, RunNow, EditStatus, ByHand,
                StartJob, Checkout, BuildBrief, EndWork, WriteResult, Release, Park,
                Finish, runVars
  <2>2. pc = "work" /\ Asks(o)
    BY <2>1 DEF CallOperation, CoreGate, Passes, Asks
  <2>3. \/ policy = "request" /\ o \notin brief
        \/ once[o] = 0 /\ minted[o] = 0 /\ o \notin standing
    BY <2>1 DEF CallOperation, CoreGate, Passes, Asks
  <2>4. faults \in Nat
    BY TaskApprovalAssumption DEF GInv, SInv, TypeOK
  <2>5. QED
    BY <2>2, <2>3, <2>4 DEF GInv, Backed, Handed, Briefed
<1>4. QED
  BY <1>1, <1>2, <1>3 DEF Next

\* The run an approval leads to does not ask again for what has just been
\* approved: from the answer to the call the approval is in the task's grants,
\* in the agent's, or in the brief of the run, unless a call fails
\* (buildBriefStep, the two gates, tasks_clear_once_approvals).
THEOREM SerialApprovalsGetThrough ==
  ASSUME Hurry = {}, QueueOnlyIfDeferred
  PROVE  Spec => ApprovalGetsThrough
<1>1. Init => Backed /\ Handed
  BY DEF Init, Backed, Handed, Briefed
<1>2. GInv /\ [Next]_vars => Backed' /\ Handed'
  <2> SUFFICES ASSUME GInv, [Next]_vars PROVE Backed' /\ Handed'
    OBVIOUS
  <2>1. CASE Next
    BY <2>1, RunKeepsBacked, AnswersBack DEF Next
  <2>2. CASE UNCHANGED vars
    BY <2>2 DEF vars, grantVars, runVars, historyVars, GInv, Backed, Handed, Briefed
  <2>3. QED
    BY <2>1, <2>2
<1>3. GInv /\ [Next]_vars =>
        \A o \in Ops : o \in asked' \ asked => o \notin fresh \/ faults > 0
  BY AsksAreNotFresh
<1>4. QED
  BY SerialInvariant, <1>1, <1>2, <1>3, PTL DEF Spec, GInv, ApprovalGetsThrough

=============================================================================
