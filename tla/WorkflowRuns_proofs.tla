------------------------ MODULE WorkflowRuns_proofs ------------------------
(***************************************************************************)
(* Proofs about WorkflowRuns, for any number of runs, people, processes,   *)
(* stops and restarts: its types; that no timer of a sleeping run is       *)
(* claimed twice; and, for a run that is not Disturbed, that row, snapshot *)
(* and inbox agree whenever nobody is on it.                               *)
(*                                                                         *)
(* The second part says for each step of a caller what the three hold when *)
(* it is there (Doing), and what they hold in between (Resting).           *)
(***************************************************************************)
EXTENDS WorkflowRuns, TLAPS

\* What every step preserves. The two parts need each other: that the count
\* of claims stays in its bound is the second one.
Inv == TypeOK /\ WokenOnce

LEMMA InitInv == Init => Inv
<1> SUFFICES ASSUME Init PROVE Inv
  OBVIOUS
<1>1. fresh \in [Runs -> BOOLEAN]
  BY Zenon DEF Init
<1>2. TypeOK
  BY <1>1, WorkflowRunsAssumption DEF Init, TypeOK, Statuses, Steps
<1>3. WokenOnce
  BY WorkflowRunsAssumption DEF Init, WokenOnce
<1>4. QED
  BY <1>2, <1>3 DEF Inv

-----------------------------------------------------------------------------
(* Steps of the run itself *)

LEMMA DispatchInv ==
  ASSUME Inv, NEW r \in Runs,
         (\E p \in Procs : Press(r, p)) \/ Dispatching(r) \/ GrowsStale(r) \/ ComesDue(r)
  PROVE  Inv'
<1> USE WorkflowRunsAssumption
    DEF Inv, TypeOK, WokenOnce, Statuses, Steps, Settled, Callers, Goto, rowVars,
        engineVars, callVars, sweepVars, historyVars
<1>1. ASSUME NEW p \in Procs, Press(r, p) PROVE Inv'
  BY <1>1 DEF Press, Begin
<1>2. CASE CreateRun(r)
  BY <1>2 DEF CreateRun
<1>3. CASE StartRun(r)
  BY <1>3 DEF StartRun
<1>4. CASE GrowsStale(r)
  BY <1>4 DEF GrowsStale
<1>5. CASE ComesDue(r)
  BY <1>5 DEF ComesDue
<1>6. QED
  BY <1>1, <1>2, <1>3, <1>4, <1>5 DEF Dispatching

LEMMA ReturnedTypes ==
  ASSUME TypeOK, NEW c \in Callers, Returned(c)
  PROVE  resuming' \in [Procs -> SUBSET Runs]
BY DEF TypeOK, Returned

\* A row goes to sleep with a timer that counts; any other stop writes a
\* status that is not "sleeping".
LEMMA ReachStopInv ==
  ASSUME Inv, NEW c \in Callers, NEW k \in Kinds, ReachStop(c, k)
  PROVE  Inv'
<1>1. /\ row' \in [Runs -> Statuses]
      /\ wake' \in [Runs -> {"none", "later", "due"}]
      /\ slept' \in [Runs -> 0..MaxWaits]
  <2> USE WorkflowRunsAssumption DEF Inv, TypeOK, Statuses, ReachStop
  <2>1. CASE k = "gate"
    BY <2>1 DEF Mark
  <2>2. CASE k = "question"
    BY <2>2 DEF Mark
  <2>3. CASE k = "wait"
    <3>1. row' = [row EXCEPT ![on[c]] = "sleeping"]
      BY <2>3 DEF Mark
    <3>2. slept' \in [Runs -> 0..MaxWaits]
      <4>1. slept' = [slept EXCEPT ![on[c]] = @ + 1] /\ slept[on[c]] < MaxWaits
        BY <2>3 DEF Mark
      <4>2. slept \in [Runs -> 0..MaxWaits] /\ MaxWaits \in Nat
        OBVIOUS
      <4>3. ASSUME NEW r \in Runs PROVE slept'[r] \in 0..MaxWaits
        BY <4>1, <4>2
      <4>4. QED
        BY <4>1, <4>2, <4>3
    <3>3. wake' \in [Runs -> {"none", "later", "due"}]
      BY <2>3 DEF Mark
    <3>4. row' \in [Runs -> Statuses]
      BY <3>1
    <3>5. QED
      BY <3>2, <3>3, <3>4
  <2>4. QED
    BY <2>1, <2>2, <2>3
<1>2. TypeOK'
  <2>1. at' \in [Callers -> Steps] /\ kind' \in [Callers -> Kinds \cup {None}]
    BY DEF Inv, TypeOK, ReachStop, Goto, Steps
  <2>2. QED
    BY <1>1, <2>1 DEF Inv, TypeOK, ReachStop, engineVars, sweepVars
<1>3. WokenOnce'
  <2> USE WorkflowRunsAssumption DEF Inv, TypeOK, WokenOnce, ReachStop
  <2>1. CASE k = "gate"
    BY <2>1 DEF Mark
  <2>2. CASE k = "question"
    BY <2>2 DEF Mark
  <2>3. CASE k = "wait"
    BY <2>3 DEF Mark
  <2>4. QED
    BY <2>1, <2>2, <2>3
<1>4. QED
  BY <1>2, <1>3 DEF Inv

LEMMA ExecutingInv ==
  ASSUME Inv, NEW c \in Callers, Executing(c)
  PROVE  Inv'
<1> USE WorkflowRunsAssumption
    DEF Inv, TypeOK, WokenOnce, Statuses, Steps, Settled, Goto, rowVars, engineVars,
        sweepVars, historyVars
<1>1. ASSUME NEW k \in Kinds, ReachStop(c, k) PROVE Inv'
  BY <1>1, ReachStopInv
<1>2. CASE Suspend(c)
  <2>1. resuming' \in [Procs -> SUBSET Runs]
    BY <1>2, ReturnedTypes DEF Suspend
  <2>2. stop' \in [Runs -> Kinds \union {None}]
    <3>1. stop' = [stop EXCEPT ![on[c]] = kind[c]]
      BY <1>2 DEF Suspend
    <3>2. QED
      BY <3>1
  <2>3. parks' \in [Runs -> Nat]
    <3>1. parks' = [parks EXCEPT ![on[c]] = parks[on[c]] + 1]
      BY <1>2 DEF Suspend
    <3>2. parks \in [Runs -> Nat]
      OBVIOUS
    <3>3. \A r \in Runs : parks'[r] \in Nat
      BY ONLY <3>1, <3>2
    <3>4. QED
      BY ONLY <3>1, <3>2, <3>3
  <2>4. kind' \in [Callers -> Kinds \union {None}]
    <3>1. kind' = [kind EXCEPT ![c] = None]
      BY <1>2 DEF Suspend
    <3>2. QED
      BY <3>1
  <2>5. engine' \in [Runs -> {"none", "running", "parked", "over"}]
    <3>1. engine' = [engine EXCEPT ![on[c]] = "parked"]
      BY <1>2 DEF Suspend
    <3>2. QED
      BY <3>1
  <2>6. QED
    BY <1>2, <2>1, <2>2, <2>3, <2>4, <2>5 DEF Suspend
<1>3. ASSUME NEW outcome \in {"success", "failed", "stopping"}, EndRun(c, outcome) PROVE Inv'
  <2>1. resuming' \in [Procs -> SUBSET Runs]
    BY <1>3, ReturnedTypes DEF EndRun
  <2>2. QED
    BY <1>3, <2>1 DEF EndRun
<1>4. QED
  BY <1>1, <1>2, <1>3 DEF Executing

\* A status other than "sleeping" leaves nothing to claim.
LEMMA SetRowInv ==
  ASSUME Inv, NEW c \in Callers, NEW step \in Steps,
         NEW status \in Settled \union {"requires_action"}, SetRow(c, status, step)
  PROVE  Inv'
<1> USE WorkflowRunsAssumption
    DEF Inv, TypeOK, WokenOnce, Settled, Goto, SetRow, engineVars, sweepVars,
        historyVars
<1>1. status \in Statuses /\ status # "sleeping"
  BY DEF Statuses
<1>2. row' \in [Runs -> Statuses]
  BY <1>1
<1>3. WokenOnce'
  BY <1>1
<1>4. QED
  BY <1>2, <1>3

LEMMA SettlingInv ==
  ASSUME Inv, NEW c \in Callers, Settling(c)
  PROVE  Inv'
<1> USE WorkflowRunsAssumption
    DEF Inv, TypeOK, WokenOnce, Steps, Leave, rowVars, engineVars, sweepVars,
        historyVars
<1>1. CASE Announce(c)
  BY <1>1 DEF Announce
<1>2. CASE FinishRun(c)
  BY <1>2, SetRowInv DEF FinishRun, Settled
<1>3. CASE HoldRun(c)
  BY <1>3, SetRowInv DEF HoldRun
<1>4. CASE CloseRun(c)
  BY <1>4 DEF CloseRun
<1>5. CASE AskReview(c)
  BY <1>5 DEF AskReview
<1>6. CASE CancelRow(c)
  BY <1>6, SetRowInv DEF CancelRow, Settled
<1>7. QED
  BY <1>1, <1>2, <1>3, <1>4, <1>5, <1>6 DEF Settling

-----------------------------------------------------------------------------
(* Steps of people, of the sweep, and of the process *)

LEMMA RequestsInv ==
  ASSUME Inv, NEW h \in Hands, Requests(h) \/ Handling(h)
  PROVE  Inv'
<1> USE WorkflowRunsAssumption
    DEF Inv, TypeOK, WokenOnce, Steps, Callers, Goto, Begin, Enters, Crowds,
        rowVars, engineVars, callVars, sweepVars, historyVars
<1>0. h \in Callers
  OBVIOUS
<1>1. ASSUME NEW r \in Runs, NEW p \in Procs, NEW n \in 0..parks[r], PostAnswer(h, r, p, n)
      PROVE  Inv'
  <2>1. n \in Nat
    OBVIOUS
  <2>2. stale' \subseteq Runs
    BY <1>1 DEF PostAnswer
  <2>3. QED
    BY <1>1, <2>1, <2>2 DEF PostAnswer
<1>2. ASSUME NEW r \in Runs, NEW p \in Procs, Cancel(h, r, p) PROVE Inv'
  BY <1>2 DEF Cancel
<1>3. ASSUME NEW r \in Runs, NEW p \in Procs, Review(h, r, p) PROVE Inv'
  BY <1>3 DEF Review
<1>4. CASE Resume(h)
  BY <1>4 DEF Resume
<1>5. CASE ResumeThrows(h)
  BY <1>0, <1>5, ReturnedTypes DEF ResumeThrows
<1>6. CASE ReleaseReviewed(h)
  BY <1>0, <1>6, SetRowInv DEF ReleaseReviewed, Settled
<1>7. QED
  BY <1>1, <1>2, <1>3, <1>4, <1>5, <1>6 DEF Requests, Handling

\* The claim takes the timer it counts: the row stops sleeping.
LEMMA ClaimInv ==
  ASSUME Inv, NEW p \in Procs, NEW r \in Runs, Claim(p, r)
  PROVE  Inv'
<1> USE WorkflowRunsAssumption
    DEF Inv, TypeOK, WokenOnce, Statuses, engineVars, callVars, Claim, Claimable, Crowds
<1>1. woken[r] + 1 <= slept[r] /\ woken[r] + 1 \in 0..MaxWaits
  OBVIOUS
<1>2. /\ row' \in [Runs -> Statuses]
      /\ wake' \in [Runs -> {"none", "later", "due"}]
      /\ woken' \in [Runs -> 0..MaxWaits]
  BY <1>1
<1>3. WokenOnce'
  BY <1>1
<1>4. QED
  BY <1>2, <1>3

LEMMA SweepingInv ==
  ASSUME Inv, NEW p \in Procs, Sweeping(p)
  PROVE  Inv'
<1> USE WorkflowRunsAssumption
    DEF Inv, TypeOK, WokenOnce, Statuses, Settled, Steps, Callers, Begin, Leave,
        rowVars, engineVars, callVars, sweepVars, historyVars
<1>1. CASE SelectDue(p)
  BY <1>1 DEF SelectDue, Due
<1>2. ASSUME NEW r \in Runs, Claim(p, r) PROVE Inv'
  BY <1>2, ClaimInv
<1>3. ASSUME NEW r \in Runs, ClaimMisses(p, r) PROVE Inv'
  BY <1>3 DEF ClaimMisses
<1>4. ASSUME NEW r \in Runs, Wake(p, r) PROVE Inv'
  <2>1. CASE engine' = [engine EXCEPT ![r] = "running"] /\ Begin(p, r, p, "running")
    BY <1>4, <2>1 DEF Wake
  <2>2. CASE UNCHANGED engine /\ Begin(p, r, p, "wakeFailed")
    BY <1>4, <2>2 DEF Wake
  <2>3. QED
    BY <1>4, <2>1, <2>2 DEF Wake
<1>5. CASE WakeFails(p)
  <2>1. row' = [row EXCEPT ![on[p]] = "failed"]
    BY <1>5 DEF WakeFails
  <2>2. row' \in [Runs -> Statuses]
    BY <2>1
  <2>3. WokenOnce'
    BY <1>5, <2>1 DEF WakeFails
  <2>4. QED
    BY <1>5, <2>2, <2>3 DEF WakeFails
<1>6. QED
  BY <1>1, <1>2, <1>3, <1>4, <1>5 DEF Sweeping

LEMMA RestartInv ==
  ASSUME Inv, NEW p \in Procs, Restart(p)
  PROVE  Inv'
<1> USE WorkflowRunsAssumption
    DEF Inv, TypeOK, WokenOnce, Steps, engineVars, Restart
<1>1. restarts' \in 0..MaxRestarts
  OBVIOUS
<1>2. /\ at' \in [Callers -> Steps]
      /\ on' \in [Callers -> Runs \union {None}]
      /\ proc' \in [Callers -> Procs \union {None}]
      /\ kind' \in [Callers -> Kinds \union {None}]
      /\ nth' \in [Callers -> Nat]
  OBVIOUS
<1>3. /\ cut' \subseteq Runs /\ swept' \subseteq Runs
      /\ record' \in [Runs -> {"none", "running", "over"}]
      /\ asks' \in [Runs -> SUBSET {"decision", "review"}]
  BY DEF Lost, Stalled
<1>4. QED
  BY <1>1, <1>2, <1>3

LEMMA NextInv == Inv /\ [Next]_vars => Inv'
<1> SUFFICES ASSUME Inv, [Next]_vars PROVE Inv'
  OBVIOUS
<1>1. ASSUME NEW r \in Runs, NEW p \in Procs, Press(r, p) PROVE Inv'
  BY <1>1, DispatchInv
<1>2. ASSUME NEW r \in Runs, Dispatching(r) \/ GrowsStale(r) \/ ComesDue(r) PROVE Inv'
  BY <1>2, DispatchInv
<1>3. ASSUME NEW c \in Callers, Executing(c) \/ Settling(c) PROVE Inv'
  BY <1>3, ExecutingInv, SettlingInv
<1>4. ASSUME NEW h \in Hands, Requests(h) \/ Handling(h) PROVE Inv'
  BY <1>4, RequestsInv
<1>5. ASSUME NEW p \in Procs, Sweeping(p) \/ Restart(p) PROVE Inv'
  BY <1>5, SweepingInv, RestartInv
<1>6. CASE UNCHANGED vars
  BY <1>6 DEF vars, rowVars, engineVars, callVars, sweepVars, historyVars, Inv,
              TypeOK, WokenOnce
<1>7. QED
  BY <1>1, <1>2, <1>3, <1>4, <1>5, <1>6 DEF Next

-----------------------------------------------------------------------------
LEMMA RunsInvariant == Spec => []Inv
<1>1. Init => Inv
  BY InitInv
<1>2. Inv /\ [Next]_vars => Inv'
  BY NextInv
<1>3. QED
  BY <1>1, <1>2, PTL DEF Spec

\* Every variable keeps its type, and the counted claims stay in the bound
\* of the counted sleeps (workflow-run-store.ts, workflow-routes.ts).
THEOREM WorkflowRunsTypes == Spec => []TypeOK
<1>1. Inv => TypeOK
  BY DEF Inv
<1>2. QED
  BY <1>1, RunsInvariant, PTL

\* However many processes sweep, however stale their lists are and whenever
\* they die, no run is woken more often than it went to sleep
\* (claimDueSleepers: the UPDATE compares the status again).
THEOREM TimersAreClaimedOnce == Spec => []WokenOnce
<1>1. Inv => WokenOnce
  BY DEF Inv
<1>2. QED
  BY <1>1, RunsInvariant, PTL

-----------------------------------------------------------------------------
(* Row, snapshot and callers agree                                         *)
(*                                                                         *)
(* The four properties below are not inductive: each needs to know, for    *)
(* every step a call can be at, what row and snapshot look like there, and *)
(* that nobody else is on the run. Sound says so for a run that no restart *)
(* and no second call has met, and that was answered at the stop it is at. *)

Open == {"dispatched", "requires_action", "sleeping"}

Unstarted(r) == engine[r] = "none" /\ stop[r] = None

\* The run is parked and its row says at what.
AtStop(r) ==
  /\ engine[r] = "parked" /\ stop[r] \in Kinds
  /\ stop[r] = "gate" => row[r] = "requires_action"
  /\ stop[r] = "question" => row[r] \in Open
  /\ stop[r] = "wait" => row[r] = "sleeping" /\ wake[r] # "none"

\* The row is ahead of the snapshot: a step has written it and not suspended.
Marked(c, r) ==
  /\ engine[r] = "running" /\ kind[c] \in Kinds
  /\ kind[c] = "gate" => row[r] = "requires_action"
  /\ kind[c] = "question" => row[r] \in Open
  /\ kind[c] = "wait" => row[r] = "sleeping" /\ wake[r] # "none"

\* What holds while caller c is on the run.
Doing(c, r) ==
  \/ at[c] = "checked" /\ c = r /\ Unstarted(r) /\ row[r] = "none"
  \/ at[c] = "created" /\ c = r /\ Unstarted(r) /\ row[r] = "dispatched"
  \/ /\ at[c] = "running" /\ engine[r] = "running" /\ row[r] \in Open
     /\ stop[r] = "gate" => row[r] = "requires_action"
  \/ at[c] = "marked" /\ Marked(c, r)
  \/ at[c] = "suspended" /\ AtStop(r)
  \/ at[c] = "posted" /\ AtStop(r) /\ nth[c] \in {0, parks[r]}
  \/ at[c] \in {"success", "failed", "stopping"} /\ engine[r] = "over" /\ row[r] \in Open
  \/ at[c] \in {"reviewing", "holding"} /\ engine[r] = "over" /\ row[r] = "requires_action"
  \/ at[c] = "closing" /\ engine[r] = "over" /\ row[r] \in Settled

\* What holds while nobody is.
Resting(r) ==
  \/ Unstarted(r) /\ row[r] = "none"
  \/ AtStop(r) /\ (stop[r] # "wait" /\ r \notin swept => "decision" \in asks[r])
  \/ engine[r] = "over" /\ row[r] = "requires_action"
  \/ engine[r] = "over" /\ row[r] \in Settled /\ asks[r] = {}

\* A sweep has claimed the run and not resumed it yet. It may have gone on to a
\* question since it slept, when somebody answered its wait before the time.
Won(r) == engine[r] = "parked" /\ stop[r] # "gate" /\ row[r] = "dispatched"

Sound(r) ==
  /\ \A c, d \in Callers : on[c] = r /\ on[d] = r => c = d
  /\ \A p, q \in Procs : r \in won[p] /\ r \in won[q] => p = q
  /\ \A c \in Callers, p \in Procs : on[c] = r => r \notin won[p]
  /\ \A p \in Procs : r \in won[p] => Won(r)
  /\ \A c \in Callers : on[c] = r => Doing(c, r)
  /\ Quiet(r) => Resting(r)

OwnDrive == \A r \in Runs : at[r] # "idle" => on[r] = r

SInv ==
  /\ Inv
  /\ OwnDrive
  /\ \A r \in Runs \ Disturbed : Sound(r)

\* A step that is about other runs. A restart may take what the run asks.
SameRow(r) ==
  /\ row'[r] = row[r] /\ wake'[r] = wake[r]
  /\ engine'[r] = engine[r] /\ stop'[r] = stop[r] /\ parks'[r] = parks[r]
  /\ \/ asks'[r] = asks[r]
     \/ asks'[r] = {} /\ r \in swept'
  /\ swept \subseteq swept'

SameCall(c, r) ==
  /\ on'[c] = r <=> on[c] = r
  /\ on[c] = r => at'[c] = at[c] /\ kind'[c] = kind[c] /\ nth'[c] = nth[c]

SameRun(r) ==
  /\ SameRow(r)
  /\ \A c \in Callers : SameCall(c, r)
  /\ \A p \in Procs : r \in won'[p] <=> r \in won[p]

LEMMA Frame ==
  ASSUME NEW r \in Runs, Sound(r), SameRun(r)
  PROVE  Sound(r)'
<1>1. \A c \in Callers : Doing(c, r) /\ on[c] = r => Doing(c, r)'
  BY DEF SameRun, SameRow, SameCall, Doing, Unstarted, Marked, AtStop
<1>2. Resting(r) => Resting(r)'
  BY DEF SameRun, SameRow, SameCall, Resting, Unstarted, AtStop
<1>3. Quiet(r)' => Quiet(r)
  BY DEF SameRun, SameCall, Quiet
<1>4. Won(r) => Won(r)'
  BY DEF SameRun, SameRow, SameCall, Won
<1>5. QED
  BY <1>1, <1>2, <1>3, <1>4 DEF SameRun, SameCall, Sound

\* The other callers stand where they stood.
OnlyMoves(c) ==
  \A d \in Callers :
    d # c => on'[d] = on[d] /\ at'[d] = at[d] /\ kind'[d] = kind[d] /\ nth'[d] = nth[d]

LEMMA Elsewhere ==
  ASSUME NEW r \in Runs, NEW c \in Callers, Sound(r), SameRow(r), OnlyMoves(c),
         on[c] # r, on'[c] # r, \A p \in Procs : r \in won'[p] <=> r \in won[p]
  PROVE  Sound(r)'
<1>1. \A d \in Callers : SameCall(d, r)
  BY DEF OnlyMoves, SameCall
<1>2. QED
  BY <1>1, Frame DEF SameRun

\* Who is on a run is alone on it.
LEMMA Alone ==
  ASSUME NEW r \in Runs, Sound(r), NEW c \in Callers, on[c] = r
  PROVE  /\ \A d \in Callers : d # c => on[d] # r
         /\ \A p \in Procs : r \notin won[p]
         /\ Doing(c, r)
BY DEF Sound

LEMMA NobodyOnQuiet ==
  ASSUME NEW r \in Runs, Sound(r), Quiet(r)
  PROVE  /\ \A c \in Callers : on[c] # r
         /\ \A p \in Procs : r \notin won[p]
         /\ Resting(r)
BY DEF Sound, Quiet, Doing

\* After a step of the one caller of a run only its own case is left to show.
LEMMA OneCaller ==
  ASSUME NEW r \in Runs, NEW c \in Callers,
         \A d \in Callers : d # c => on'[d] # r,
         \A p \in Procs : r \notin won'[p],
         on'[c] = r => Doing(c, r)',
         on'[c] # r => Resting(r)'
  PROVE  Sound(r)'
<1>1. Doing(c, r)' => at'[c] # "idle"
  BY DEF Doing
<1>2. Quiet(r)' => on'[c] # r
  BY <1>1 DEF Quiet
<1>3. QED
  BY <1>2 DEF Sound

\* The steps before the engine has the run, and the passing of time.
LEMMA DispatchSound ==
  ASSUME SInv, NEW q \in Runs,
         (\E p \in Procs : Press(q, p)) \/ Dispatching(q) \/ GrowsStale(q) \/ ComesDue(q),
         NEW r \in Runs \ Disturbed
  PROVE  Sound(r)'
<1> USE DEF Callers
<1>1. Sound(r) /\ TypeOK
  BY DEF SInv, Inv
<1>2. ASSUME NEW p \in Procs, Press(q, p) PROVE Sound(r)'
  <2>1. /\ at[q] = "idle" /\ row[q] = "none"
        /\ at' = [at EXCEPT ![q] = "checked"]
        /\ on' = [on EXCEPT ![q] = q]
        /\ UNCHANGED <<row, wake, engine, stop, parks, asks, kind, nth, won, swept>>
    BY <1>2 DEF Press, Begin, rowVars, engineVars, sweepVars, historyVars
  <2>2. CASE r = q
    <3>1. ASSUME NEW c \in Callers, on[c] = r PROVE FALSE
      <4>1. Doing(c, r)
        BY <1>1, <3>1 DEF Sound
      <4>2. ~ Marked(c, r)
        BY <2>1, <2>2, WorkflowRunsAssumption DEF Marked, Open
      <4>3. ~ AtStop(r)
        BY <2>1, <2>2, WorkflowRunsAssumption DEF AtStop, Open
      <4>4. at[c] # "checked" \/ c # r
        BY <2>1, <2>2
      <4>5. QED
        BY <2>1, <2>2, <4>1, <4>2, <4>3, <4>4 DEF Doing, Marked, AtStop, Open, Settled
    <3>2. Quiet(r) /\ Resting(r)
      BY <1>1, <2>1, <2>2, <3>1 DEF Sound, Quiet, Won
    <3>3. Unstarted(r)
      BY <2>1, <2>2, <3>2, WorkflowRunsAssumption DEF Resting, AtStop, Open, Settled
    <3>4. Doing(q, r)' /\ on'[q] = r
      BY <1>1, <2>1, <2>2, <3>3 DEF Doing, Unstarted, TypeOK
    <3>5. QED
      BY <1>1, <2>1, <2>2, <3>1, <3>2, <3>4, OneCaller DEF Quiet, TypeOK
  <2>3. CASE r # q
    <3>1. on[q] # r
      BY <1>1, <2>1 DEF Sound, Doing
    <3>2. on'[q] # r
      BY <1>1, <2>1, <2>3 DEF TypeOK
    <3>3. SameRow(r)
      BY <2>1 DEF SameRow
    <3>4. OnlyMoves(q)
      BY <1>1, <2>1 DEF OnlyMoves, TypeOK
    <3>5. QED
      BY <1>1, <2>1, <3>1, <3>2, <3>3, <3>4, Elsewhere
  <2>4. QED
    BY <2>2, <2>3
<1>3. CASE CreateRun(q)
  <2>1. /\ at[q] = "checked" /\ on[q] = q
        /\ at' = [at EXCEPT ![q] = "created"]
        /\ row' = [row EXCEPT ![q] = "dispatched"]
        /\ UNCHANGED <<wake, engine, stop, parks, asks, on, kind, nth, won, swept>>
    BY <1>3 DEF CreateRun, Goto, engineVars, sweepVars, historyVars, SInv, OwnDrive
  <2>2. CASE r = q
    <3>1. /\ \A d \in Callers : d # q => on[d] # r
          /\ \A p \in Procs : r \notin won[p]
          /\ Unstarted(r)
      BY <1>1, <2>1, <2>2, Alone DEF Doing
    <3>2. Doing(q, r)'
      BY <1>1, <2>1, <2>2, <3>1 DEF Doing, Unstarted, TypeOK
    <3>3. QED
      BY <2>1, <2>2, <3>1, <3>2, OneCaller
  <2>3. CASE r # q
    <3>1. SameRow(r)
      BY <1>1, <2>1, <2>3 DEF SameRow, TypeOK
    <3>2. OnlyMoves(q)
      BY <1>1, <2>1 DEF OnlyMoves, TypeOK
    <3>3. QED
      BY <1>1, <2>1, <2>3, <3>1, <3>2, Elsewhere
  <2>4. QED
    BY <2>2, <2>3
<1>4. CASE StartRun(q)
  <2>1. /\ at[q] = "created" /\ on[q] = q
        /\ at' = [at EXCEPT ![q] = "running"]
        /\ engine' = [engine EXCEPT ![q] = "running"]
        /\ UNCHANGED <<row, wake, stop, parks, asks, on, kind, nth, won, swept>>
    BY <1>4 DEF StartRun, Goto, rowVars, sweepVars, historyVars, SInv, OwnDrive
  <2>2. CASE r = q
    <3>1. /\ \A d \in Callers : d # q => on[d] # r
          /\ \A p \in Procs : r \notin won[p]
          /\ row[r] = "dispatched" /\ stop[r] = None
      BY <1>1, <2>1, <2>2, Alone DEF Doing, Unstarted
    <3>2. Doing(q, r)'
      BY <1>1, <2>1, <2>2, <3>1, WorkflowRunsAssumption DEF Doing, Open, TypeOK
    <3>3. QED
      BY <2>1, <2>2, <3>1, <3>2, OneCaller
  <2>3. CASE r # q
    <3>1. SameRow(r)
      BY <1>1, <2>1, <2>3 DEF SameRow, TypeOK
    <3>2. OnlyMoves(q)
      BY <1>1, <2>1 DEF OnlyMoves, TypeOK
    <3>3. QED
      BY <1>1, <2>1, <2>3, <3>1, <3>2, Elsewhere
  <2>4. QED
    BY <2>2, <2>3
<1>5. CASE GrowsStale(q)
  <2>1. UNCHANGED <<row, wake, engine, stop, parks, asks, at, on, kind, nth, won, swept>>
    BY <1>5 DEF GrowsStale, engineVars, callVars, sweepVars, historyVars
  <2>2. SameRun(r)
    BY <2>1 DEF SameRun, SameRow, SameCall
  <2>3. QED
    BY <1>1, <2>2, Frame
<1>6. CASE ComesDue(q)
  <2>1. /\ \A c \in Callers : on[c] = q => at[c] \notin {"marked", "suspended"}
        /\ wake' = [wake EXCEPT ![q] = "due"]
        /\ UNCHANGED <<row, engine, stop, parks, asks, at, on, kind, nth, won, swept>>
    BY <1>6 DEF ComesDue, engineVars, callVars, sweepVars, historyVars
  <2>2. CASE r = q
    <3>1. wake'[r] = "due"
      BY <1>1, <2>1, <2>2 DEF TypeOK
    <3>2. AtStop(r) => AtStop(r)'
      BY <2>1, <3>1 DEF AtStop
    <3>3. \A c \in Callers : on[c] = r /\ Doing(c, r) => Doing(c, r)'
      BY <2>1, <2>2, <3>2 DEF Doing, Unstarted
    <3>4. Resting(r) => Resting(r)'
      BY <2>1, <3>2 DEF Resting, Unstarted
    <3>5. QED
      BY <1>1, <2>1, <3>3, <3>4 DEF Sound, Quiet, Won
  <2>3. CASE r # q
    <3>1. SameRow(r)
      BY <1>1, <2>1, <2>3 DEF SameRow, TypeOK
    <3>2. SameRun(r)
      BY <2>1, <3>1 DEF SameRun, SameCall
    <3>3. QED
      BY <1>1, <3>2, Frame
  <2>4. QED
    BY <2>2, <2>3
<1>7. QED
  BY <1>2, <1>3, <1>4, <1>5, <1>6 DEF Dispatching

\* The graph goes on, stops or ends, in the hands of the one call that drives it.
LEMMA ExecutingSound ==
  ASSUME SInv, NEW c \in Callers, Executing(c), NEW r \in Runs \ Disturbed
  PROVE  Sound(r)'
<1>1. Sound(r) /\ TypeOK
  BY DEF SInv, Inv
<1>2. ASSUME NEW k \in Kinds, ReachStop(c, k) PROVE Sound(r)'
  <2>1. /\ at[c] = "running" /\ Mark(on[c], k)
        /\ kind' = [kind EXCEPT ![c] = k]
        /\ at' = [at EXCEPT ![c] = "marked"]
        /\ UNCHANGED <<engine, stop, parks, asks, on, nth, won, swept>>
    BY <1>2 DEF ReachStop, Goto, engineVars, sweepVars
  <2>2. CASE on[c] = r
    <3>1. /\ \A d \in Callers : d # c => on[d] # r
          /\ \A p \in Procs : r \notin won[p]
          /\ engine[r] = "running" /\ row[r] \in Open
      BY <1>1, <2>1, <2>2, Alone DEF Doing
    <3>2. Doing(c, r)'
      <4>1. k \in {"gate", "question", "wait"}
        BY WorkflowRunsAssumption
      <4>2. at'[c] = "marked" /\ kind'[c] = k /\ engine'[r] = "running"
        BY <1>1, <2>1, <3>1 DEF TypeOK
      <4>3. Marked(c, r)'
        BY <1>1, <2>1, <2>2, <3>1, <4>1, <4>2 DEF Marked, Mark, TypeOK
      <4>4. QED
        BY <4>2, <4>3 DEF Doing
    <3>3. QED
      BY <2>1, <2>2, <3>1, <3>2, OneCaller
  <2>3. CASE on[c] # r
    <3>1. row'[r] = row[r] /\ wake'[r] = wake[r]
      BY <1>1, <2>1, <2>3 DEF Mark, TypeOK
    <3>2. SameRow(r)
      BY <2>1, <3>1 DEF SameRow
    <3>3. OnlyMoves(c)
      BY <1>1, <2>1 DEF OnlyMoves, TypeOK
    <3>4. QED
      BY <1>1, <2>1, <2>3, <3>2, <3>3, Elsewhere
  <2>4. QED
    BY <2>2, <2>3
<1>3. CASE Suspend(c)
  <2>1. /\ at[c] = "marked"
        /\ engine' = [engine EXCEPT ![on[c]] = "parked"]
        /\ stop' = [stop EXCEPT ![on[c]] = kind[c]]
        /\ parks' = [parks EXCEPT ![on[c]] = @ + 1]
        /\ kind' = [kind EXCEPT ![c] = None]
        /\ at' = [at EXCEPT ![c] = "suspended"]
        /\ UNCHANGED <<row, wake, asks, on, nth, won, swept>>
    BY <1>3 DEF Suspend, Goto, rowVars, sweepVars, historyVars
  <2>2. CASE on[c] = r
    <3>1. /\ \A d \in Callers : d # c => on[d] # r
          /\ \A p \in Procs : r \notin won[p]
          /\ Marked(c, r)
      BY <1>1, <2>1, <2>2, Alone DEF Doing
    <3>2. engine'[r] = "parked" /\ stop'[r] = kind[c] /\ at'[c] = "suspended"
      BY <1>1, <2>1, <2>2 DEF TypeOK
    <3>3. Doing(c, r)'
      BY <2>1, <3>1, <3>2 DEF Doing, AtStop, Marked
    <3>4. QED
      BY <2>1, <2>2, <3>1, <3>3, OneCaller
  <2>3. CASE on[c] # r
    <3>1. SameRow(r)
      BY <1>1, <2>1, <2>3 DEF SameRow, TypeOK
    <3>2. OnlyMoves(c)
      BY <1>1, <2>1 DEF OnlyMoves, TypeOK
    <3>3. QED
      BY <1>1, <2>1, <2>3, <3>1, <3>2, Elsewhere
  <2>4. QED
    BY <2>2, <2>3
<1>4. ASSUME NEW outcome \in {"success", "failed", "stopping"}, EndRun(c, outcome)
      PROVE  Sound(r)'
  <2>1. /\ at[c] = "running"
        /\ engine' = [engine EXCEPT ![on[c]] = "over"]
        /\ at' = [at EXCEPT ![c] = outcome]
        /\ UNCHANGED <<row, wake, stop, parks, asks, on, kind, nth, won, swept>>
    BY <1>4 DEF EndRun, Goto, rowVars, sweepVars, historyVars
  <2>2. CASE on[c] = r
    <3>1. /\ \A d \in Callers : d # c => on[d] # r
          /\ \A p \in Procs : r \notin won[p]
          /\ row[r] \in Open
      BY <1>1, <2>1, <2>2, Alone DEF Doing
    <3>2. Doing(c, r)'
      BY <1>1, <2>1, <2>2, <3>1 DEF Doing, TypeOK
    <3>3. QED
      BY <2>1, <2>2, <3>1, <3>2, OneCaller
  <2>3. CASE on[c] # r
    <3>1. SameRow(r)
      BY <1>1, <2>1, <2>3 DEF SameRow, TypeOK
    <3>2. OnlyMoves(c)
      BY <1>1, <2>1 DEF OnlyMoves, TypeOK
    <3>3. QED
      BY <1>1, <2>1, <2>3, <3>1, <3>2, Elsewhere
  <2>4. QED
    BY <2>2, <2>3
<1>5. QED
  BY <1>2, <1>3, <1>4 DEF Executing

\* A status is written down only after the engine is through with the run.
LEMMA SetRowSound ==
  ASSUME SInv, NEW c \in Callers, NEW status, NEW step, SetRow(c, status, step),
         at[c] \in {"success", "failed", "stopping", "reviewing"},
         \/ step = "closing" /\ status \in Settled
         \/ step = "holding" /\ status = "requires_action",
         NEW r \in Runs \ Disturbed
  PROVE  Sound(r)'
<1>1. Sound(r) /\ TypeOK
  BY DEF SInv, Inv
<1>2. /\ row' = [row EXCEPT ![on[c]] = status]
      /\ at' = [at EXCEPT ![c] = step]
      /\ UNCHANGED <<wake, engine, stop, parks, asks, on, kind, nth, won, swept>>
  BY DEF SetRow, Goto, engineVars, sweepVars, historyVars
<1>3. CASE on[c] = r
  <2>1. /\ \A d \in Callers : d # c => on[d] # r
        /\ \A p \in Procs : r \notin won[p]
        /\ engine[r] = "over"
    BY <1>1, <1>3, Alone DEF Doing
  <2>2. row'[r] = status /\ at'[c] = step
    BY <1>1, <1>2, <1>3 DEF TypeOK
  <2>3. Doing(c, r)'
    BY <1>2, <2>1, <2>2 DEF Doing
  <2>4. QED
    BY <1>2, <1>3, <2>1, <2>3, OneCaller
<1>4. CASE on[c] # r
  <2>1. SameRow(r)
    BY <1>1, <1>2, <1>4 DEF SameRow, TypeOK
  <2>2. OnlyMoves(c)
    BY <1>1, <1>2 DEF OnlyMoves, TypeOK
  <2>3. QED
    BY <1>1, <1>2, <1>4, <2>1, <2>2, Elsewhere
<1>5. QED
  BY <1>3, <1>4

\* The last write of a call: it leaves the run as somebody may find it.
LEMMA LeaveSound ==
  ASSUME SInv, NEW c \in Callers, NEW r \in Runs \ Disturbed, Leave(c),
         UNCHANGED <<row, wake, engine, stop, parks, kind, won, swept>>,
         \A q \in Runs : q # on[c] => asks'[q] = asks[q],
         on[c] = r => Resting(r)'
  PROVE  Sound(r)'
<1>1. Sound(r) /\ TypeOK
  BY DEF SInv, Inv
<1>2. /\ at' = [at EXCEPT ![c] = "idle"]
      /\ on' = [on EXCEPT ![c] = None]
      /\ nth' = [nth EXCEPT ![c] = 0]
      /\ on'[c] # r
  BY <1>1, WorkflowRunsAssumption DEF Leave, TypeOK
<1>3. OnlyMoves(c)
  BY <1>1, <1>2 DEF OnlyMoves, TypeOK
<1>4. CASE on[c] = r
  <2>1. /\ \A d \in Callers : d # c => on[d] # r
        /\ \A p \in Procs : r \notin won[p]
    BY <1>1, <1>4, Alone
  <2>2. QED
    BY <1>2, <1>3, <1>4, <2>1, OneCaller DEF OnlyMoves
<1>5. CASE on[c] # r
  <2>1. SameRow(r)
    BY <1>5 DEF SameRow
  <2>2. QED
    BY <1>1, <1>2, <1>3, <1>5, <2>1, Elsewhere
<1>6. QED
  BY <1>4, <1>5

LEMMA SettlingSound ==
  ASSUME SInv, NEW c \in Callers, Settling(c), NEW r \in Runs \ Disturbed
  PROVE  Sound(r)'
<1>1. Sound(r) /\ TypeOK
  BY DEF SInv, Inv
<1>2. CASE Announce(c)
  <2>1. /\ at[c] = "suspended" /\ Leave(c)
        /\ asks' = [asks EXCEPT ![on[c]] = @ \cup {"decision"}]
        /\ UNCHANGED <<row, wake, engine, stop, parks, kind, won, swept>>
    BY <1>2 DEF Announce, rowVars, engineVars, sweepVars, historyVars
  <2>2. \A q \in Runs : q # on[c] => asks'[q] = asks[q]
    BY <1>1, <2>1 DEF TypeOK
  <2>3. ASSUME on[c] = r PROVE Resting(r)'
    <3>1. AtStop(r)
      BY <1>1, <2>1, <2>3, Alone DEF Doing
    <3>2. AtStop(r)' /\ "decision" \in asks'[r]
      BY <1>1, <2>1, <2>3, <3>1 DEF AtStop, TypeOK
    <3>3. QED
      BY <3>2 DEF Resting
  <2>4. QED
    BY <2>1, <2>2, <2>3, LeaveSound
<1>3. CASE FinishRun(c)
  BY <1>3, SetRowSound DEF FinishRun, Settled
<1>4. CASE HoldRun(c)
  BY <1>4, SetRowSound DEF HoldRun
<1>5. CASE CloseRun(c)
  <2>1. /\ at[c] = "closing" /\ Leave(c)
        /\ asks' = [asks EXCEPT ![on[c]] = {}]
        /\ UNCHANGED <<row, wake, engine, stop, parks, kind, won, swept>>
    BY <1>5 DEF CloseRun, engineVars, sweepVars, historyVars
  <2>2. \A q \in Runs : q # on[c] => asks'[q] = asks[q]
    BY <1>1, <2>1 DEF TypeOK
  <2>3. ASSUME on[c] = r PROVE Resting(r)'
    <3>1. engine[r] = "over" /\ row[r] \in Settled
      BY <1>1, <2>1, <2>3, Alone DEF Doing
    <3>2. QED
      BY <1>1, <2>1, <2>3, <3>1 DEF Resting, TypeOK
  <2>4. QED
    BY <2>1, <2>2, <2>3, LeaveSound
<1>6. CASE AskReview(c)
  <2>1. /\ at[c] = "holding" /\ Leave(c)
        /\ asks' = [asks EXCEPT ![on[c]] = @ \cup {"review"}]
        /\ UNCHANGED <<row, wake, engine, stop, parks, kind, won, swept>>
    BY <1>6 DEF AskReview, engineVars, sweepVars, historyVars
  <2>2. \A q \in Runs : q # on[c] => asks'[q] = asks[q]
    BY <1>1, <2>1 DEF TypeOK
  <2>3. ASSUME on[c] = r PROVE Resting(r)'
    <3>1. engine[r] = "over" /\ row[r] = "requires_action"
      BY <1>1, <2>1, <2>3, Alone DEF Doing
    <3>2. QED
      BY <2>1, <3>1 DEF Resting
  <2>4. QED
    BY <2>1, <2>2, <2>3, LeaveSound
<1>7. CASE CancelRow(c)
  BY <1>7, SetRowSound DEF CancelRow, Settled
<1>8. QED
  BY <1>2, <1>3, <1>4, <1>5, <1>6, <1>7 DEF Settling

\* A request that finds nobody on the run; another one would crowd it.
LEMMA EntersSound ==
  ASSUME SInv, NEW h \in Hands, NEW q \in Runs, NEW p \in Procs, NEW step,
         Enters(h, q, p, step),
         \A t \in Runs : t # q => engine'[t] = engine[t],
         \A d \in Callers : d # h => nth'[d] = nth[d],
         NEW r \in Runs \ Disturbed, r \notin Disturbed',
         r = q /\ Resting(r) => Doing(h, r)'
  PROVE  Sound(r)'
<1>1. Sound(r) /\ TypeOK /\ h \in Callers
  BY DEF SInv, Inv, Callers
<1>2. /\ at[h] = "idle"
      /\ at' = [at EXCEPT ![h] = step]
      /\ on' = [on EXCEPT ![h] = q]
      /\ UNCHANGED <<row, wake, stop, parks, asks, kind, won, swept>>
      /\ crowded' = IF Quiet(q) THEN crowded ELSE crowded \cup {q}
  BY DEF Enters, Begin, Crowds, rowVars, sweepVars
<1>3. on[h] # r /\ on'[h] = q
  BY <1>1, <1>2 DEF Sound, Doing, TypeOK
<1>4. OnlyMoves(h)
  BY <1>1, <1>2 DEF OnlyMoves, TypeOK
<1>5. CASE r = q
  <2>1. Quiet(r)
    BY <1>2, <1>5 DEF Disturbed
  <2>2. /\ \A c \in Callers : on[c] # r
        /\ \A s \in Procs : r \notin won[s]
        /\ Resting(r)
    BY <1>1, <2>1, NobodyOnQuiet
  <2>3. QED
    BY <1>1, <1>2, <1>3, <1>4, <1>5, <2>2, OneCaller DEF OnlyMoves
<1>6. CASE r # q
  <2>1. SameRow(r)
    BY <1>2, <1>6 DEF SameRow
  <2>2. QED
    BY <1>1, <1>2, <1>3, <1>4, <1>6, <2>1, Elsewhere
<1>7. QED
  BY <1>5, <1>6

LEMMA RequestsSound ==
  ASSUME SInv, NEW h \in Hands, Requests(h) \/ Handling(h),
         NEW r \in Runs \ Disturbed, r \notin Disturbed'
  PROVE  Sound(r)'
<1>1. Sound(r) /\ TypeOK /\ h \in Callers
  BY DEF SInv, Inv, Callers
<1>2. ASSUME NEW q \in Runs, NEW p \in Procs, NEW n \in 0..parks[q], PostAnswer(h, q, p, n)
      PROVE  Sound(r)'
  <2>1. /\ engine[q] = "parked"
        /\ nth' = [nth EXCEPT ![h] = n]
        /\ stale' = IF n \in {0, parks[q]} THEN stale ELSE stale \cup {q}
        /\ Enters(h, q, p, "posted")
        /\ UNCHANGED engine
    BY <1>2 DEF PostAnswer
  <2>2. ASSUME r = q, Resting(r) PROVE Doing(h, r)'
    <3>1. AtStop(r)
      BY <2>1, <2>2 DEF Resting, Unstarted
    <3>2. n \in {0, parks[r]}
      BY <2>1, <2>2 DEF Disturbed
    <3>3. at'[h] = "posted" /\ nth'[h] = n /\ UNCHANGED <<row, wake, stop, parks>>
      BY <1>1, <2>1, <2>2 DEF Enters, Begin, rowVars, TypeOK
    <3>4. AtStop(r)'
      BY <2>1, <3>1, <3>3 DEF AtStop
    <3>5. QED
      BY <3>2, <3>3, <3>4 DEF Doing
  <2>3. \A d \in Callers : d # h => nth'[d] = nth[d]
    BY <1>1, <2>1 DEF TypeOK
  <2>4. QED
    BY <2>1, <2>2, <2>3, EntersSound
<1>3. ASSUME NEW q \in Runs, NEW p \in Procs, Cancel(h, q, p) PROVE Sound(r)'
  <2>1. /\ row[q] \notin Settled \cup {"none"}
        /\ engine' = [engine EXCEPT ![q] = IF @ = "parked" THEN "over" ELSE @]
        /\ Enters(h, q, p, "stopping")
        /\ UNCHANGED nth
    BY <1>3 DEF Cancel
  <2>2. ASSUME r = q, Resting(r) PROVE Doing(h, r)'
    <3>1. row[r] \in Open /\ engine[r] \in {"parked", "over"}
      BY <2>1, <2>2, WorkflowRunsAssumption DEF Resting, AtStop, Unstarted, Open
    <3>2. engine'[r] = "over"
      BY <1>1, <2>1, <2>2, <3>1 DEF TypeOK
    <3>3. at'[h] = "stopping" /\ UNCHANGED row
      BY <1>1, <2>1 DEF Enters, Begin, rowVars, TypeOK
    <3>4. QED
      BY <3>1, <3>2, <3>3 DEF Doing
  <2>3. \A t \in Runs : t # q => engine'[t] = engine[t]
    BY <1>1, <2>1 DEF TypeOK
  <2>4. QED
    BY <2>1, <2>2, <2>3, EntersSound
<1>4. ASSUME NEW q \in Runs, NEW p \in Procs, Review(h, q, p) PROVE Sound(r)'
  <2>1. /\ row[q] = "requires_action" /\ engine[q] # "parked"
        /\ Enters(h, q, p, "reviewing")
        /\ UNCHANGED <<engine, nth>>
    BY <1>4 DEF Review
  <2>2. ASSUME r = q, Resting(r) PROVE Doing(h, r)'
    <3>1. engine[r] = "over"
      BY <2>1, <2>2 DEF Resting, AtStop, Unstarted
    <3>2. at'[h] = "reviewing" /\ UNCHANGED row
      BY <1>1, <2>1 DEF Enters, Begin, rowVars, TypeOK
    <3>3. QED
      BY <2>1, <2>2, <3>1, <3>2 DEF Doing
  <2>3. QED
    BY <2>1, <2>2, EntersSound
<1>5. CASE Resume(h)
  <2>1. /\ at[h] = "posted"
        /\ engine' = [engine EXCEPT ![on[h]] = "running"]
        /\ at' = [at EXCEPT ![h] = "running"]
        /\ UNCHANGED <<row, wake, stop, parks, asks, on, kind, nth, won, swept>>
    BY <1>5 DEF Resume, Goto, rowVars, sweepVars, historyVars
  <2>2. CASE on[h] = r
    <3>1. /\ \A d \in Callers : d # h => on[d] # r
          /\ \A p \in Procs : r \notin won[p]
          /\ AtStop(r)
      BY <1>1, <2>1, <2>2, Alone DEF Doing
    <3>2. row[r] \in Open /\ (stop[r] = "gate" => row[r] = "requires_action")
      BY <3>1, WorkflowRunsAssumption DEF AtStop, Open
    <3>3. Doing(h, r)'
      BY <1>1, <2>1, <2>2, <3>2 DEF Doing, TypeOK
    <3>4. QED
      BY <1>1, <2>1, <2>2, <3>1, <3>3, OneCaller
  <2>3. CASE on[h] # r
    <3>1. SameRow(r)
      BY <1>1, <2>1, <2>3 DEF SameRow, TypeOK
    <3>2. OnlyMoves(h)
      BY <1>1, <2>1 DEF OnlyMoves, TypeOK
    <3>3. QED
      BY <1>1, <2>1, <2>3, <3>1, <3>2, Elsewhere
  <2>4. QED
    BY <2>2, <2>3
<1>6. CASE ResumeThrows(h)
  <2>1. /\ at[h] = "posted" /\ ~ Takes(on[h], nth[h])
        /\ at' = [at EXCEPT ![h] = "failed"]
        /\ UNCHANGED <<row, wake, engine, stop, parks, asks, on, kind, nth, won, swept>>
    BY <1>6 DEF ResumeThrows, Goto, rowVars, engineVars, sweepVars, historyVars
  <2>2. on[h] # r
    BY <1>1, <2>1, Alone DEF Doing, AtStop, Takes
  <2>3. SameRow(r)
    BY <2>1 DEF SameRow
  <2>4. OnlyMoves(h)
    BY <1>1, <2>1 DEF OnlyMoves, TypeOK
  <2>5. QED
    BY <1>1, <2>1, <2>2, <2>3, <2>4, Elsewhere
<1>7. CASE ReleaseReviewed(h)
  BY <1>1, <1>7, SetRowSound DEF ReleaseReviewed, Settled
<1>8. QED
  BY <1>2, <1>3, <1>4, <1>5, <1>6, <1>7 DEF Requests, Handling

LEMMA SweepingSound ==
  ASSUME SInv, NEW p \in Procs, Sweeping(p),
         NEW r \in Runs \ Disturbed, r \notin Disturbed'
  PROVE  Sound(r)'
<1>1. Sound(r) /\ TypeOK /\ p \in Callers
  BY DEF SInv, Inv, Callers
<1>2. ASSUME UNCHANGED <<row, wake, engine, stop, parks, asks, at, on, kind, nth, won, swept>>
      PROVE  Sound(r)'
  BY <1>1, <1>2, Frame DEF SameRun, SameRow, SameCall
<1>3. CASE SelectDue(p)
  BY <1>2, <1>3 DEF SelectDue, rowVars, engineVars, callVars, historyVars
<1>4. ASSUME NEW q \in Runs, ClaimMisses(p, q) PROVE Sound(r)'
  BY <1>2, <1>4 DEF ClaimMisses, rowVars, engineVars, callVars, historyVars
<1>5. ASSUME NEW q \in Runs, Claim(p, q) PROVE Sound(r)'
  <2>1. /\ row[q] = "sleeping"
        /\ row' = [row EXCEPT ![q] = "dispatched"]
        /\ wake' = [wake EXCEPT ![q] = "none"]
        /\ won' = [won EXCEPT ![p] = @ \cup {q}]
        /\ crowded' = IF Quiet(q) THEN crowded ELSE crowded \cup {q}
        /\ UNCHANGED <<engine, stop, parks, asks, at, on, kind, nth, swept>>
    BY <1>5 DEF Claim, Claimable, Crowds, engineVars, callVars
  <2>2. CASE r = q
    <3>1. Quiet(r)
      BY <2>1, <2>2 DEF Disturbed
    <3>2. /\ \A c \in Callers : on[c] # r
          /\ \A s \in Procs : r \notin won[s]
          /\ Resting(r)
      BY <1>1, <3>1, NobodyOnQuiet
    <3>3. AtStop(r)
      BY <2>1, <2>2, <3>2 DEF Resting, Settled
    <3>4. engine[r] = "parked" /\ stop[r] # "gate"
      BY <2>1, <2>2, <3>3 DEF AtStop
    <3>5. Won(r)'
      BY <1>1, <2>1, <2>2, <3>4 DEF Won, TypeOK
    <3>6. \A s \in Procs : r \in won'[s] <=> s = p
      BY <1>1, <2>1, <2>2, <3>2 DEF TypeOK
    <3>7. ~ Quiet(r)'
      BY <3>6 DEF Quiet
    <3>8. QED
      BY <2>1, <3>2, <3>5, <3>6, <3>7 DEF Sound
  <2>3. CASE r # q
    <3>1. SameRow(r)
      BY <1>1, <2>1, <2>3 DEF SameRow, TypeOK
    <3>2. \A s \in Procs : r \in won'[s] <=> r \in won[s]
      BY <1>1, <2>1, <2>3 DEF TypeOK
    <3>3. \A c \in Callers : SameCall(c, r)
      BY <2>1 DEF SameCall
    <3>4. QED
      BY <1>1, <3>1, <3>2, <3>3, Frame DEF SameRun
  <2>4. QED
    BY <2>2, <2>3
<1>6. ASSUME NEW q \in Runs, Wake(p, q) PROVE Sound(r)'
  <2>1. /\ at[p] = "idle" /\ q \in won[p]
        /\ won' = [won EXCEPT ![p] = @ \ {q}]
        /\ on' = [on EXCEPT ![p] = q]
        /\ UNCHANGED <<row, wake, stop, parks, asks, kind, nth, swept>>
    BY <1>6 DEF Wake, Begin, rowVars, historyVars
  <2>2. \/ /\ engine[q] = "parked"
           /\ engine' = [engine EXCEPT ![q] = "running"]
           /\ at' = [at EXCEPT ![p] = "running"]
        \/ /\ engine[q] # "parked"
           /\ at' = [at EXCEPT ![p] = "wakeFailed"]
           /\ UNCHANGED engine
    BY <1>6 DEF Wake, Begin
  <2>3. on[p] # r /\ on'[p] = q
    BY <1>1, <2>1 DEF Sound, Doing, TypeOK
  <2>4. OnlyMoves(p)
    BY <1>1, <2>1, <2>2 DEF OnlyMoves, TypeOK
  <2>5. CASE r = q
    <3>1. Won(r) /\ \A c \in Callers : on[c] # r
      BY <1>1, <2>1, <2>5 DEF Sound
    <3>2. \A s \in Procs : r \notin won'[s]
      BY <1>1, <2>1, <2>5 DEF Sound, TypeOK
    <3>3. engine'[r] = "running" /\ at'[p] = "running"
      BY <1>1, <2>2, <2>5, <3>1 DEF Won, TypeOK
    <3>4. Doing(p, r)'
      BY <2>1, <3>1, <3>3 DEF Doing, Won, Open
    <3>5. QED
      BY <1>1, <2>3, <2>4, <2>5, <3>1, <3>2, <3>4, OneCaller DEF OnlyMoves
  <2>6. CASE r # q
    <3>1. SameRow(r)
      BY <1>1, <2>1, <2>2, <2>6 DEF SameRow, TypeOK
    <3>2. \A s \in Procs : r \in won'[s] <=> r \in won[s]
      BY <1>1, <2>1, <2>6 DEF TypeOK
    <3>3. QED
      BY <1>1, <2>3, <2>4, <2>6, <3>1, <3>2, Elsewhere
  <2>7. QED
    BY <2>5, <2>6
<1>7. CASE WakeFails(p)
  <2>1. /\ at[p] = "wakeFailed" /\ Leave(p)
        /\ row' = [row EXCEPT ![on[p]] = "failed"]
        /\ UNCHANGED <<wake, engine, stop, parks, asks, kind, won, swept>>
    BY <1>7 DEF WakeFails, engineVars, sweepVars, historyVars
  <2>2. on[p] # r
    BY <1>1, <2>1 DEF Sound, Doing
  <2>3. on'[p] # r /\ OnlyMoves(p)
    BY <1>1, <2>1, WorkflowRunsAssumption DEF Leave, OnlyMoves, TypeOK
  <2>4. SameRow(r)
    BY <1>1, <2>1, <2>2 DEF SameRow, TypeOK
  <2>5. QED
    BY <1>1, <2>1, <2>2, <2>3, <2>4, Elsewhere
<1>8. QED
  BY <1>3, <1>4, <1>5, <1>6, <1>7 DEF Sweeping

\* A restart ends calls; the runs they were about are cut, and for the others
\* it is a step elsewhere that may take what they ask.
LEMMA RestartSound ==
  ASSUME SInv, NEW p \in Procs, Restart(p),
         NEW r \in Runs \ Disturbed, r \notin Disturbed'
  PROVE  Sound(r)'
<1>1. Sound(r) /\ TypeOK
  BY DEF SInv, Inv
<1>2. /\ \A c \in CallsOf(p) : on[c] # r
      /\ r \notin won[p]
  BY DEF Restart, Lost, Disturbed
<1>3. SameRow(r)
  BY <1>1 DEF Restart, SameRow, engineVars, TypeOK
<1>4. ASSUME NEW c \in Callers PROVE SameCall(c, r)
  <2>1. CASE c \in CallsOf(p)
    <3>1. on'[c] = None
      BY <2>1 DEF Restart
    <3>2. QED
      BY <1>2, <2>1, <3>1, WorkflowRunsAssumption DEF SameCall
  <2>2. CASE c \notin CallsOf(p)
    BY <1>1, <2>2 DEF Restart, SameCall, TypeOK
  <2>3. QED
    BY <2>1, <2>2
<1>5. \A s \in Procs : r \in won'[s] <=> r \in won[s]
  BY <1>1, <1>2 DEF Restart, TypeOK
<1>6. QED
  BY <1>1, <1>3, <1>4, <1>5, Frame DEF SameRun

-----------------------------------------------------------------------------
LEMMA OwnDriveKept == SInv /\ [Next]_vars => OwnDrive'
<1> SUFFICES ASSUME SInv, [Next]_vars PROVE OwnDrive'
  OBVIOUS
<1>1. TypeOK /\ OwnDrive
  BY DEF SInv, Inv
<1>2. ASSUME NEW c \in Callers, NEW step, Goto(c, step), at[c] # "idle", UNCHANGED on
      PROVE  OwnDrive'
  BY <1>1, <1>2 DEF OwnDrive, Goto, TypeOK, Callers
<1>3. ASSUME NEW c \in Callers, Leave(c) PROVE OwnDrive'
  BY <1>1, <1>3 DEF OwnDrive, Leave, TypeOK, Callers
<1>4. ASSUME NEW c \in Callers \ Runs, NEW r, NEW p, NEW step, Begin(c, r, p, step)
      PROVE  OwnDrive'
  BY <1>1, <1>4 DEF OwnDrive, Begin, TypeOK, Callers
<1>5. ASSUME UNCHANGED <<at, on>> PROVE OwnDrive'
  BY <1>1, <1>5 DEF OwnDrive
<1>6. ASSUME NEW r \in Runs, NEW p \in Procs, Press(r, p) PROVE OwnDrive'
  BY <1>1, <1>6 DEF Press, Begin, OwnDrive, TypeOK, Callers
<1>7. ASSUME NEW r \in Runs, Dispatching(r) \/ GrowsStale(r) \/ ComesDue(r)
      PROVE  OwnDrive'
  BY <1>2, <1>5, <1>7
     DEF Dispatching, CreateRun, StartRun, GrowsStale, ComesDue, callVars, Callers
<1>8. ASSUME NEW c \in Callers, Executing(c) \/ Settling(c) PROVE OwnDrive'
  BY <1>2, <1>3, <1>8
     DEF Executing, ReachStop, Suspend, EndRun, Settling, Announce, FinishRun,
         CancelRow, HoldRun, CloseRun, AskReview, SetRow
<1>9. ASSUME NEW h \in Hands, Requests(h) \/ Handling(h) PROVE OwnDrive'
  <2>1. h \in Callers \ Runs
    BY WorkflowRunsAssumption DEF Callers
  <2>2. CASE Requests(h)
    BY <1>4, <2>1, <2>2 DEF Requests, PostAnswer, Cancel, Review, Enters
  <2>3. CASE Handling(h)
    BY <1>2, <2>1, <2>3
       DEF Handling, Resume, ResumeThrows, ReleaseReviewed, SetRow
  <2>4. QED
    BY <1>9, <2>2, <2>3
<1>10. ASSUME NEW p \in Procs, Sweeping(p) PROVE OwnDrive'
  <2>1. p \in Callers \ Runs
    BY WorkflowRunsAssumption DEF Callers
  <2>2. ASSUME NEW r \in Runs, Wake(p, r) PROVE OwnDrive'
    BY <1>4, <2>1, <2>2 DEF Wake
  <2>3. QED
    BY <1>3, <1>5, <1>10, <2>1, <2>2
       DEF Sweeping, SelectDue, Claim, ClaimMisses, WakeFails, callVars
<1>11. ASSUME NEW p \in Procs, Restart(p) PROVE OwnDrive'
  BY <1>1, <1>11 DEF Restart, OwnDrive, Callers
<1>12. CASE UNCHANGED vars
  BY <1>5, <1>12 DEF vars, callVars
<1>13. QED
  BY <1>6, <1>7, <1>8, <1>9, <1>10, <1>11, <1>12 DEF Next

\* What was spoiled stays spoiled.
LEMMA SpoiledStays ==
  ASSUME SInv, [Next]_vars
  PROVE  Disturbed \subseteq Disturbed'
<1> USE DEF Disturbed
<1>1. ASSUME NEW p \in Procs, Restart(p) PROVE Disturbed \subseteq Disturbed'
  BY <1>1 DEF Restart
<1>2. ASSUME NEW h \in Hands, Requests(h) \/ Handling(h)
      PROVE  Disturbed \subseteq Disturbed'
  BY <1>2 DEF Requests, PostAnswer, Cancel, Review, Enters, Crowds, Handling, Resume,
              ResumeThrows, ReleaseReviewed, SetRow, historyVars
<1>3. ASSUME NEW p \in Procs, Sweeping(p)
      PROVE  Disturbed \subseteq Disturbed'
  BY <1>3 DEF Sweeping, SelectDue, Claim, ClaimMisses, Wake, WakeFails, Crowds, historyVars
<1>4. ASSUME NEW c \in Callers, Executing(c) \/ Settling(c)
      PROVE  Disturbed \subseteq Disturbed'
  BY <1>4 DEF Executing, ReachStop, Suspend, EndRun, Settling, Announce, FinishRun,
              CancelRow, HoldRun, CloseRun, AskReview, SetRow, historyVars
<1>5. ASSUME NEW r \in Runs,
             \/ \E p \in Procs : Press(r, p)
             \/ Dispatching(r) \/ GrowsStale(r) \/ ComesDue(r)
      PROVE  Disturbed \subseteq Disturbed'
  BY <1>5 DEF Press, Dispatching, CreateRun, StartRun, GrowsStale, ComesDue, historyVars
<1>6. CASE UNCHANGED vars
  BY <1>6 DEF vars, historyVars
<1>7. QED
  BY <1>1, <1>2, <1>3, <1>4, <1>5, <1>6 DEF Next

LEMMA SoundKept == SInv /\ [Next]_vars => SInv'
<1> SUFFICES ASSUME SInv, [Next]_vars PROVE SInv'
  OBVIOUS
<1>1. Inv' /\ OwnDrive'
  BY NextInv, OwnDriveKept DEF SInv
<1>2. ASSUME NEW r \in Runs \ Disturbed' PROVE Sound(r)'
  <2>1. r \in Runs \ Disturbed /\ r \notin Disturbed'
    BY <1>2, SpoiledStays
  <2>2. ASSUME NEW q \in Runs,
               \/ \E p \in Procs : Press(q, p)
               \/ Dispatching(q) \/ GrowsStale(q) \/ ComesDue(q)
        PROVE  Sound(r)'
    BY <2>1, <2>2, DispatchSound
  <2>3. ASSUME NEW c \in Callers, Executing(c) \/ Settling(c) PROVE Sound(r)'
    BY <2>1, <2>3, ExecutingSound, SettlingSound
  <2>4. ASSUME NEW h \in Hands, Requests(h) \/ Handling(h) PROVE Sound(r)'
    BY <2>1, <2>4, RequestsSound
  <2>5. ASSUME NEW p \in Procs, Sweeping(p) \/ Restart(p) PROVE Sound(r)'
    BY <2>1, <2>5, SweepingSound, RestartSound
  <2>6. CASE UNCHANGED vars
    <3>1. SameRun(r)
      BY <2>6 DEF vars, rowVars, engineVars, callVars, sweepVars, historyVars,
                  SameRun, SameRow, SameCall
    <3>2. QED
      BY <2>1, <3>1, Frame DEF SInv
  <2>7. QED
    BY <2>2, <2>3, <2>4, <2>5, <2>6 DEF Next
<1>3. QED
  BY <1>1, <1>2 DEF SInv

LEMMA SoundInvariant == Spec => []SInv
<1>1. Init => SInv
  <2> SUFFICES ASSUME Init PROVE SInv
    OBVIOUS
  <2>1. Inv
    BY InitInv
  <2>2. OwnDrive
    BY DEF Init, OwnDrive, Callers
  <2>3. ASSUME NEW r \in Runs PROVE Sound(r)
    <3>1. \A c \in Callers : on[c] # r
      BY WorkflowRunsAssumption DEF Init
    <3>2. \A p \in Procs : r \notin won[p]
      BY DEF Init
    <3>3. Resting(r)
      BY DEF Init, Resting, Unstarted
    <3>4. QED
      BY <3>1, <3>2, <3>3 DEF Sound
  <2>4. QED
    BY <2>1, <2>2, <2>3 DEF SInv
<1>2. SInv /\ [Next]_vars => SInv'
  BY SoundKept
<1>3. QED
  BY <1>1, <1>2, PTL DEF Spec

\* Row, timer and inbox say where every parked run has to be taken up again,
\* for any number of runs, people, processes, stops and restarts.
THEOREM ParkedAreFound == Spec => []ParkedRunsAreFound
<1>1. SInv => ParkedRunsAreFound
  <2> SUFFICES ASSUME SInv, NEW r \in Runs \ Disturbed,
                      engine[r] = "parked", Quiet(r)
               PROVE  /\ stop[r] = "gate" => row[r] = "requires_action"
                      /\ stop[r] = "wait" => row[r] = "sleeping" /\ wake[r] # "none"
                      /\ stop[r] # "wait" /\ r \notin swept => "decision" \in asks[r]
    BY DEF ParkedRunsAreFound
  <2>1. Resting(r)
    BY DEF SInv, Sound
  <2>2. QED
    BY <2>1 DEF Resting, AtStop, Unstarted
<1>2. QED
  BY <1>1, SoundInvariant, PTL

\* The inbox never asks about a run that has been settled and let go.
THEOREM NoAskOutlives == Spec => []NoAskOutlivesItsRun
<1>1. SInv => NoAskOutlivesItsRun
  <2> SUFFICES ASSUME SInv, NEW r \in Runs \ Disturbed, asks[r] # {}, Quiet(r)
               PROVE  row[r] \notin Settled
    BY DEF NoAskOutlivesItsRun
  <2>1. Resting(r)
    BY DEF SInv, Sound
  <2>2. AtStop(r) => row[r] \notin Settled
    BY WorkflowRunsAssumption DEF AtStop, Open, Settled
  <2>3. QED
    BY <2>1, <2>2 DEF Resting, Settled
<1>2. QED
  BY <1>1, SoundInvariant, PTL

\* A run is written down as settled only when its graph cannot go on.
THEOREM SettledAreOver == Spec => []SettledIsOver
<1>1. SInv => SettledIsOver
  <2> SUFFICES ASSUME SInv, NEW r \in Runs \ Disturbed, row[r] \in Settled
               PROVE  engine[r] = "over"
    BY DEF SettledIsOver
  <2>1. Sound(r)
    BY DEF SInv
  <2>2. ~ AtStop(r) /\ row[r] \notin Open
    BY WorkflowRunsAssumption DEF AtStop, Open, Settled
  <2>3. ASSUME NEW c \in Callers, on[c] = r PROVE engine[r] = "over"
    <3>1. Doing(c, r)
      BY <2>1, <2>3 DEF Sound
    <3>2. ~ Marked(c, r)
      BY <2>2, WorkflowRunsAssumption DEF Marked, Settled
    <3>3. QED
      BY <2>2, <3>1, <3>2 DEF Doing, Settled
  <2>4. \A p \in Procs : r \notin won[p]
    BY <2>1 DEF Sound, Won, Settled
  <2>5. CASE Quiet(r)
    BY <2>1, <2>2, <2>5 DEF Sound, Resting, Settled
  <2>6. QED
    BY <2>3, <2>4, <2>5 DEF Quiet
<1>2. QED
  BY <1>1, SoundInvariant, PTL

\* However old it is, a run at a gate, or going on from one, is found by the
\* next press about its subject (findActive).
THEOREM GatesBlock == Spec => []GatesBlockPresses
<1>1. SInv => GatesBlockPresses
  <2> SUFFICES ASSUME SInv, NEW r \in Runs \ Disturbed, AtGate(r)
               PROVE  Active(r)
    BY DEF GatesBlockPresses
  <2>1. Sound(r) /\ stop[r] = "gate"
    BY DEF SInv, AtGate
  <2>2. ASSUME NEW c \in Callers, on[c] = r, at[c] = "running" PROVE Active(r)
    BY <2>1, <2>2 DEF Sound, Doing, Active
  <2>3. ASSUME engine[r] = "parked" PROVE Active(r)
    <3>1. \A p \in Procs : r \notin won[p]
      BY <2>1 DEF Sound, Won
    <3>2. CASE Quiet(r)
      BY <2>1, <2>3, <3>2 DEF Sound, Resting, Unstarted, AtStop, Active
    <3>3. CASE ~ Quiet(r)
      <4>1. PICK c \in Callers : on[c] = r
        BY <3>1, <3>3 DEF Quiet
      <4>2. Doing(c, r)
        BY <2>1, <4>1 DEF Sound
      <4>3. AtStop(r)
        BY <2>3, <4>2 DEF Doing, Unstarted, Marked
      <4>4. QED
        BY <2>1, <4>3 DEF AtStop, Active
    <3>4. QED
      BY <3>2, <3>3
  <2>4. QED
    BY <2>2, <2>3 DEF AtGate
<1>2. QED
  BY <1>1, SoundInvariant, PTL
=============================================================================
