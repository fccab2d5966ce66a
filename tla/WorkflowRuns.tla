---------------------------- MODULE WorkflowRuns ----------------------------
(***************************************************************************)
(* The runs of one published workflow about one subject: pressed, executed *)
(* by the workflow engine, parked for a person or for the clock, answered, *)
(* woken by the sweep, cancelled, held for review and settled.             *)
(*                                                                         *)
(* What a run is doing is written down in three places that no transaction *)
(* spans: the row of ai.workflow_run, the engine's snapshot and the inbox. *)
(* Several processes of the app share them, and any of them may die.       *)
(*                                                                         *)
(* A step of the graph is data here: a run r parks at most MaxParks[r]     *)
(* times, on a step of any kind in Kinds, and then succeeds or fails.      *)
(***************************************************************************)
EXTENDS Naturals, FiniteSets

CONSTANTS Runs,        \* a run stands for the press that makes it, too
          Hands,       \* people: each has one request under way at most
          Procs,       \* processes of the app, each with its wake sweep
          Kinds,       \* what the graph may park on
          Reviewed,    \* fires of a routine that may say `report: ask`
          MaxParks,    \* bound: the stops of each run
          MaxWaits, MaxRestarts,  \* bounds
          None

Callers == Runs \cup Hands \cup Procs
Settled == {"completed", "failed", "cancelled"}
Statuses == {"none", "dispatched", "requires_action", "sleeping"} \cup Settled
Steps == {"idle", "checked", "created", "running", "marked", "suspended",
          "success", "failed", "posted", "stopping", "reviewing", "holding",
          "closing", "wakeFailed"}

ASSUME WorkflowRunsAssumption ==
  /\ Kinds \subseteq {"gate", "question", "wait"}
  /\ Reviewed \subseteq Runs
  /\ MaxParks \in [Runs -> Nat] /\ MaxWaits \in Nat /\ MaxRestarts \in Nat
  /\ Runs \cap Hands = {} /\ Runs \cap Procs = {} /\ Hands \cap Procs = {}
  /\ None \notin Runs \cup Procs \cup {"gate", "question", "wait"}

VARIABLES
  row, wake, fresh,    \* ai.workflow_run: status, wake_at, created_at
  record,              \* ai.agent_run of the run: "running", "over", "none"
  engine, stop, parks, \* the snapshot: state, kind of the stop, stops so far
  asks,                \* open inbox decisions about each run
  at, on, proc, kind,  \* each caller: its step, its run, its process, and
                       \* the kind of the stop it is writing down or answers
  nth,                 \* the stop an answer names, 0 if it names none
  resuming,            \* resumesInFlight of each process
  listed, won,         \* the sweep of each process: selected, claimed
  restarts,            \* bound
  slept, woken,        \* history: timers set, timers claimed
  cut, swept,          \* history: lost a call, or its record, to a restart
  crowded,             \* history: a person acted, or a sweep claimed, while a
                       \* call was on the run
  stale                \* history: an answer named a stop the run had left

rowVars == <<row, wake, fresh, record>>
engineVars == <<engine, stop, parks>>
callVars == <<at, on, proc, kind, nth>>
sweepVars == <<listed, won>>
historyVars == <<slept, woken, cut, swept, crowded, stale>>
vars == <<rowVars, engineVars, asks, callVars, resuming, sweepVars, restarts, historyVars>>

TypeOK ==
  /\ row \in [Runs -> Statuses]
  /\ wake \in [Runs -> {"none", "later", "due"}]
  /\ fresh \in [Runs -> BOOLEAN]
  /\ record \in [Runs -> {"none", "running", "over"}]
  /\ engine \in [Runs -> {"none", "running", "parked", "over"}]
  /\ stop \in [Runs -> Kinds \cup {None}]
  /\ parks \in [Runs -> Nat]
  /\ asks \in [Runs -> SUBSET {"decision", "review"}]
  /\ at \in [Callers -> Steps]
  /\ on \in [Callers -> Runs \cup {None}]
  /\ proc \in [Callers -> Procs \cup {None}]
  /\ kind \in [Callers -> Kinds \cup {None}]
  /\ nth \in [Callers -> Nat]
  /\ resuming \in [Procs -> SUBSET Runs]
  /\ listed \in [Procs -> SUBSET Runs]
  /\ won \in [Procs -> SUBSET Runs]
  /\ restarts \in 0..MaxRestarts
  /\ slept \in [Runs -> 0..MaxWaits]
  /\ woken \in [Runs -> 0..MaxWaits]
  /\ cut \subseteq Runs
  /\ swept \subseteq Runs
  /\ crowded \subseteq Runs
  /\ stale \subseteq Runs

Init ==
  /\ row = [r \in Runs |-> "none"]
  /\ wake = [r \in Runs |-> "none"]
  /\ fresh = [r \in Runs |-> FALSE]
  /\ record = [r \in Runs |-> "none"]
  /\ engine = [r \in Runs |-> "none"]
  /\ stop = [r \in Runs |-> None]
  /\ parks = [r \in Runs |-> 0]
  /\ asks = [r \in Runs |-> {}]
  /\ at = [c \in Callers |-> "idle"]
  /\ on = [c \in Callers |-> None]
  /\ proc = [c \in Callers |-> None]
  /\ kind = [c \in Callers |-> None]
  /\ nth = [c \in Callers |-> 0]
  /\ resuming = [p \in Procs |-> {}]
  /\ listed = [p \in Procs |-> {}]
  /\ won = [p \in Procs |-> {}]
  /\ restarts = 0
  /\ slept = [r \in Runs |-> 0]
  /\ woken = [r \in Runs |-> 0]
  /\ cut = {}
  /\ swept = {}
  /\ crowded = {}
  /\ stale = {}

\* Nobody is working on the run.
Quiet(r) ==
  /\ \A c \in Callers : on[c] = r => at[c] = "idle"
  /\ \A p \in Procs : r \notin won[p]

\* Somebody takes the run up who does not know whether others are at it.
Crowds(r) == crowded' = IF Quiet(r) THEN crowded ELSE crowded \cup {r}

\* What a caller does next; the rest of its call stays as it is.
Goto(c, step) == at' = [at EXCEPT ![c] = step]

Leave(c) ==
  /\ at' = [at EXCEPT ![c] = "idle"]
  /\ on' = [on EXCEPT ![c] = None]
  /\ proc' = [proc EXCEPT ![c] = None]
  /\ nth' = [nth EXCEPT ![c] = 0]

Begin(c, r, p, step) ==
  /\ at' = [at EXCEPT ![c] = step]
  /\ on' = [on EXCEPT ![c] = r]
  /\ proc' = [proc EXCEPT ![c] = p]

-----------------------------------------------------------------------------
(* Dispatch: look for a run in flight, insert the row, start in background *)

\* findActive: a row that counts as in flight.
Active(r) ==
  \/ row[r] = "requires_action"
  \/ row[r] = "dispatched" /\ fresh[r]

Press(r, p) ==
  /\ at[r] = "idle" /\ row[r] = "none"
  /\ \A q \in Runs : ~ Active(q)
  /\ Begin(r, r, p, "checked")
  /\ UNCHANGED <<rowVars, engineVars, asks, kind, nth, resuming, sweepVars, restarts, historyVars>>

CreateRun(r) ==
  /\ at[r] = "checked"
  /\ row' = [row EXCEPT ![r] = "dispatched"]
  /\ fresh' = [fresh EXCEPT ![r] = TRUE]
  /\ record' = [record EXCEPT ![r] = "running"]
  /\ Goto(r, "created")
  /\ UNCHANGED <<wake, engineVars, asks, on, proc, kind, nth, resuming, sweepVars, restarts, historyVars>>

StartRun(r) ==
  /\ at[r] = "created"
  /\ engine' = [engine EXCEPT ![r] = "running"]
  /\ Goto(r, "running")
  /\ UNCHANGED <<rowVars, stop, parks, asks, on, proc, kind, nth, resuming, sweepVars, restarts, historyVars>>

\* DISPATCH_STALE_MS have passed since the row was inserted.
GrowsStale(r) ==
  /\ fresh[r]
  /\ fresh' = [fresh EXCEPT ![r] = FALSE]
  /\ UNCHANGED <<row, wake, record, engineVars, asks, callVars, resuming, sweepVars, restarts, historyVars>>

-----------------------------------------------------------------------------
(* Execution, by whoever started or resumed the run                        *)

\* Wrong: a wait writes its status and forgets its timer.
MarkWithoutTimer(r, k) ==
  \/ /\ k = "gate"
     /\ row' = [row EXCEPT ![r] = "requires_action"]
     /\ UNCHANGED <<wake, slept>>
  \/ /\ k = "wait"
     /\ row' = [row EXCEPT ![r] = "sleeping"]
     /\ UNCHANGED <<wake, slept>>
  \/ /\ k = "question"
     /\ UNCHANGED <<row, wake, slept>>

\* A step that stops the run writes the row before it suspends; a question
\* of a specialist suspends and writes nothing.
Mark(r, k) ==
  \/ /\ k = "gate"
     /\ row' = [row EXCEPT ![r] = "requires_action"]
     /\ UNCHANGED <<wake, slept>>
  \/ /\ k = "wait"
     /\ row' = [row EXCEPT ![r] = "sleeping"]
     /\ wake' = [wake EXCEPT ![r] = "later"]
     /\ slept' = [slept EXCEPT ![r] = @ + 1]
  \/ /\ k = "question"
     /\ UNCHANGED <<row, wake, slept>>

ReachStop(c, k) ==
  /\ at[c] = "running"
  /\ parks[on[c]] < MaxParks[on[c]]
  /\ k = "wait" => slept[on[c]] < MaxWaits
  /\ Mark(on[c], k)
  /\ kind' = [kind EXCEPT ![c] = k]
  /\ Goto(c, "marked")
  /\ UNCHANGED <<fresh, record, engineVars, asks, on, proc, nth, resuming, sweepVars, restarts, woken, cut, swept, crowded, stale>>

\* The engine has returned: its caller is no longer counted as resuming.
Returned(c) ==
  resuming' = [p \in Procs |->
                IF c \in Hands /\ p = proc[c] THEN resuming[p] \ {on[c]} ELSE resuming[p]]

Suspend(c) ==
  /\ at[c] = "marked"
  /\ engine' = [engine EXCEPT ![on[c]] = "parked"]
  /\ stop' = [stop EXCEPT ![on[c]] = kind[c]]
  /\ parks' = [parks EXCEPT ![on[c]] = @ + 1]
  /\ kind' = [kind EXCEPT ![c] = None]
  /\ Goto(c, "suspended")
  /\ Returned(c)
  /\ UNCHANGED <<rowVars, asks, on, proc, nth, sweepVars, restarts, historyVars>>

\* The engine aborts a drive of a run that is being cancelled, or has been.
Aborted(r) ==
  \/ row[r] = "cancelled"
  \/ \E h \in Hands : on[h] = r /\ at[h] = "stopping"

EndRun(c, outcome) ==
  /\ at[c] = "running"
  /\ outcome = "stopping" => Aborted(on[c])
  /\ engine' = [engine EXCEPT ![on[c]] = "over"]
  /\ Goto(c, outcome)
  /\ Returned(c)
  /\ UNCHANGED <<rowVars, stop, parks, asks, on, proc, kind, nth, sweepVars, restarts, historyVars>>

-----------------------------------------------------------------------------
(* settleGraphRun: one write after the other, each swallowing its errors   *)

Announce(c) ==
  /\ at[c] = "suspended"
  /\ asks' = [asks EXCEPT ![on[c]] = @ \cup {"decision"}]
  /\ Leave(c)
  /\ UNCHANGED <<rowVars, engineVars, kind, resuming, sweepVars, restarts, historyVars>>

SetRow(c, status, step) ==
  /\ row' = [row EXCEPT ![on[c]] = status]
  /\ Goto(c, step)
  /\ UNCHANGED <<wake, fresh, record, engineVars, asks, on, proc, kind, nth, resuming, sweepVars, restarts, historyVars>>

\* Wrong: a run whose engine failed is not written down.
FinishIfSucceeded(c) == at[c] = "success" /\ SetRow(c, "completed", "closing")

FinishRun(c) ==
  \/ at[c] = "success" /\ SetRow(c, "completed", "closing")
  \/ at[c] = "failed" /\ SetRow(c, "failed", "closing")

CancelRow(c) == at[c] = "stopping" /\ SetRow(c, "cancelled", "closing")

\* Wrong: the held run is written under a status of its own.
HoldAsHeld(c) ==
  /\ at[c] = "success" /\ on[c] \in Reviewed
  /\ SetRow(c, "held", "holding")

\* A completed fire that its owner wants to look at stays open. The owner may
\* turn that knob while the fire is under way: it is read here.
HoldRun(c) ==
  /\ at[c] = "success" /\ on[c] \in Reviewed
  /\ SetRow(c, "requires_action", "holding")

\* Wrong: closes what the graph asked, and leaves the review open.
CloseDecision(c) ==
  /\ at[c] = "closing"
  /\ record' = [record EXCEPT ![on[c]] = "over"]
  /\ asks' = [asks EXCEPT ![on[c]] = @ \ {"decision"}]
  /\ Leave(c)
  /\ UNCHANGED <<row, wake, fresh, engineVars, kind, resuming, sweepVars, restarts, historyVars>>

CloseRun(c) ==
  /\ at[c] = "closing"
  /\ record' = [record EXCEPT ![on[c]] = "over"]
  /\ asks' = [asks EXCEPT ![on[c]] = {}]
  /\ Leave(c)
  /\ UNCHANGED <<row, wake, fresh, engineVars, kind, resuming, sweepVars, restarts, historyVars>>

AskReview(c) ==
  /\ at[c] = "holding"
  /\ record' = [record EXCEPT ![on[c]] = "over"]
  /\ asks' = [asks EXCEPT ![on[c]] = @ \cup {"review"}]
  /\ Leave(c)
  /\ UNCHANGED <<row, wake, fresh, engineVars, kind, resuming, sweepVars, restarts, historyVars>>

-----------------------------------------------------------------------------
(* People: from the inbox or from a page that may be old. The routes look  *)
(* at the snapshot or at the row, and not at who else is on the run.       *)

\* A request of a person, while another call may still be on the run.
Enters(h, r, p, step) ==
  /\ at[h] = "idle"
  /\ Begin(h, r, p, step)
  /\ Crowds(r)
  /\ UNCHANGED <<rowVars, stop, parks, asks, kind, sweepVars, restarts, slept, woken, cut, swept>>

\* POST .../resume: not being resumed by this process, and parked, be it at a
\* wait. The stop is the one the request names, or whatever is suspended.
PostAnswer(h, r, p, n) ==
  /\ engine[r] = "parked" /\ r \notin resuming[p]
  /\ resuming' = [resuming EXCEPT ![p] = @ \cup {r}]
  /\ nth' = [nth EXCEPT ![h] = n]
  /\ stale' = IF n \in {0, parks[r]} THEN stale ELSE stale \cup {r}
  /\ Enters(h, r, p, "posted")
  /\ UNCHANGED engine

\* What the engine can resume: the stop it is parked at.
Takes(r, n) == engine[r] = "parked" /\ n \in {0, parks[r]}

Resume(h) ==
  /\ at[h] = "posted" /\ Takes(on[h], nth[h])
  /\ engine' = [engine EXCEPT ![on[h]] = "running"]
  /\ Goto(h, "running")
  /\ UNCHANGED <<rowVars, stop, parks, asks, on, proc, kind, nth, resuming, sweepVars, restarts, historyVars>>

\* Otherwise it throws, and the continuation settles a failed run.
ResumeThrows(h) ==
  /\ at[h] = "posted" /\ ~ Takes(on[h], nth[h])
  /\ Goto(h, "failed")
  /\ Returned(h)
  /\ UNCHANGED <<rowVars, engineVars, asks, on, proc, kind, nth, sweepVars, restarts, historyVars>>

\* Wrong: cancels the row and leaves the parked run in the engine.
CancelRowOnly(h, r, p) ==
  /\ row[r] \notin Settled \cup {"none"}
  /\ Enters(h, r, p, "stopping")
  /\ UNCHANGED <<engine, nth, resuming, stale>>

\* POST .../cancel, of any run that is not settled: what is parked is over; a
\* drive under way is aborted, or ends before it notices.
Cancel(h, r, p) ==
  /\ row[r] \notin Settled \cup {"none"}
  /\ engine' = [engine EXCEPT ![r] = IF @ = "parked" THEN "over" ELSE @]
  /\ Enters(h, r, p, "stopping")
  /\ UNCHANGED <<nth, resuming, stale>>

\* POST .../review: a row that is held, of a run that is not parked.
Review(h, r, p) ==
  /\ row[r] = "requires_action" /\ engine[r] # "parked"
  /\ Enters(h, r, p, "reviewing")
  /\ UNCHANGED <<engine, nth, resuming, stale>>

ReleaseReviewed(h) == at[h] = "reviewing" /\ SetRow(h, "completed", "closing")

-----------------------------------------------------------------------------
(* The wake sweep of a process: select what is due, claim it row by row,   *)
(* then resume the claimed runs one after the other                        *)

\* The time a wait named has come. It is longer than it takes to park. A row
\* goes on sleeping when somebody has answered the wait before its time.
ComesDue(r) ==
  /\ row[r] = "sleeping" /\ wake[r] = "later"
  /\ \A c \in Callers : on[c] = r => at[c] \notin {"marked", "suspended"}
  /\ wake' = [wake EXCEPT ![r] = "due"]
  /\ UNCHANGED <<row, fresh, record, engineVars, asks, callVars, resuming, sweepVars, restarts, historyVars>>

\* Wrong: a run that was dispatched long ago is no longer looked at.
DueIfFresh == {r \in Runs : row[r] = "sleeping" /\ wake[r] = "due" /\ fresh[r]}

Due == {r \in Runs : row[r] = "sleeping" /\ wake[r] = "due"}

SelectDue(p) ==
  /\ at[p] = "idle" /\ listed[p] = {} /\ won[p] = {}
  /\ Due # {}
  /\ listed' = [listed EXCEPT ![p] = Due]
  /\ UNCHANGED <<rowVars, engineVars, asks, callVars, resuming, won, restarts, historyVars>>

\* Wrong: the claim trusts the list it was selected from.
ClaimableIfListed(r) == r \in Runs

\* UPDATE ... WHERE id = r AND status = 'sleeping', for the row as it is: it
\* does not ask whether that is the sleep the list was about.
Claimable(r) == row[r] = "sleeping"

Claim(p, r) ==
  /\ r \in listed[p] /\ Claimable(r)
  /\ row' = [row EXCEPT ![r] = "dispatched"]
  /\ wake' = [wake EXCEPT ![r] = "none"]
  /\ woken' = [woken EXCEPT ![r] = @ + 1]
  /\ listed' = [listed EXCEPT ![p] = @ \ {r}]
  /\ won' = [won EXCEPT ![p] = @ \cup {r}]
  /\ Crowds(r)
  /\ UNCHANGED <<fresh, record, engineVars, asks, callVars, resuming, restarts, slept, cut, swept, stale>>

ClaimMisses(p, r) ==
  /\ r \in listed[p] /\ ~ Claimable(r)
  /\ listed' = [listed EXCEPT ![p] = @ \ {r}]
  /\ UNCHANGED <<rowVars, engineVars, asks, callVars, resuming, won, restarts, historyVars>>

\* resumeGraphRun without a step: the engine takes whatever is parked.
Wake(p, r) ==
  /\ at[p] = "idle" /\ listed[p] = {} /\ r \in won[p]
  /\ won' = [won EXCEPT ![p] = @ \ {r}]
  /\ \/ /\ engine[r] = "parked"
        /\ engine' = [engine EXCEPT ![r] = "running"]
        /\ Begin(p, r, p, "running")
     \/ /\ engine[r] # "parked"
        /\ Begin(p, r, p, "wakeFailed")
        /\ UNCHANGED engine
  /\ UNCHANGED <<rowVars, stop, parks, asks, kind, nth, resuming, listed, restarts, historyVars>>

\* A wake that threw: the row is marked failed, and nothing else is done.
WakeFails(p) ==
  /\ at[p] = "wakeFailed"
  /\ row' = [row EXCEPT ![on[p]] = "failed"]
  /\ Leave(p)
  /\ UNCHANGED <<wake, fresh, record, engineVars, asks, kind, resuming, sweepVars, restarts, historyVars>>

-----------------------------------------------------------------------------
(* A process dies and comes back: its calls are gone, and its first act is *)
(* to fail every agent run still "running" and to close what those ask     *)

CallsOf(p) == {c \in Callers : proc[c] = p}
Lost(p) == {r \in Runs : \E c \in CallsOf(p) : on[c] = r} \cup won[p]
Stalled == {r \in Runs : record[r] = "running"}

Restart(p) ==
  /\ restarts < MaxRestarts
  /\ restarts' = restarts + 1
  /\ at' = [c \in Callers |-> IF c \in CallsOf(p) THEN "idle" ELSE at[c]]
  /\ on' = [c \in Callers |-> IF c \in CallsOf(p) THEN None ELSE on[c]]
  /\ proc' = [c \in Callers |-> IF c \in CallsOf(p) THEN None ELSE proc[c]]
  /\ kind' = [c \in Callers |-> IF c \in CallsOf(p) THEN None ELSE kind[c]]
  /\ nth' = [c \in Callers |-> IF c \in CallsOf(p) THEN 0 ELSE nth[c]]
  /\ resuming' = [resuming EXCEPT ![p] = {}]
  /\ listed' = [listed EXCEPT ![p] = {}]
  /\ won' = [won EXCEPT ![p] = {}]
  /\ cut' = cut \cup Lost(p)
  /\ record' = [r \in Runs |-> IF r \in Stalled THEN "over" ELSE record[r]]
  /\ asks' = [r \in Runs |-> IF r \in Stalled THEN {} ELSE asks[r]]
  /\ swept' = swept \cup Stalled
  /\ UNCHANGED <<row, wake, fresh, engineVars, slept, woken, crowded, stale>>

-----------------------------------------------------------------------------
Dispatching(r) == CreateRun(r) \/ StartRun(r)
Executing(c) ==
  \/ \E k \in Kinds : ReachStop(c, k)
  \/ Suspend(c)
  \/ \E outcome \in {"success", "failed", "stopping"} : EndRun(c, outcome)
Settling(c) ==
  Announce(c) \/ FinishRun(c) \/ CancelRow(c) \/ HoldRun(c) \/ CloseRun(c) \/ AskReview(c)
Requests(h) ==
  \E r \in Runs, p \in Procs :
    (\E n \in 0..parks[r] : PostAnswer(h, r, p, n)) \/ Cancel(h, r, p) \/ Review(h, r, p)
Handling(h) == Resume(h) \/ ResumeThrows(h) \/ ReleaseReviewed(h)
Sweeping(p) ==
  \/ SelectDue(p)
  \/ \E r \in Runs : Claim(p, r) \/ ClaimMisses(p, r) \/ Wake(p, r)
  \/ WakeFails(p)

Next ==
  \/ \E r \in Runs, p \in Procs : Press(r, p)
  \/ \E r \in Runs : Dispatching(r) \/ GrowsStale(r) \/ ComesDue(r)
  \/ \E c \in Callers : Executing(c) \/ Settling(c)
  \/ \E h \in Hands : Requests(h) \/ Handling(h)
  \/ \E p \in Procs : Sweeping(p) \/ Restart(p)

Spec == Init /\ [][Next]_vars

\* What a caller does next: it is one sequence of awaits.
Proceeds(c) ==
  \/ Executing(c) \/ Settling(c)
  \/ c \in Runs /\ Dispatching(c)
  \/ c \in Hands /\ Handling(c)
  \/ c \in Procs /\ Sweeping(c)

\* A call that is under way proceeds, a segment of the graph ends, the sweep
\* runs every minute and time passes. Nobody has to press or to answer.
Fairness ==
  /\ \A c \in Callers : WF_vars(Proceeds(c))
  /\ \A r \in Runs : WF_vars(ComesDue(r))

FairSpec == Spec /\ Fairness

-----------------------------------------------------------------------------
(* Properties *)

\* A timer is claimed once: however many processes sweep at the same time,
\* no run is woken more often than it went to sleep, and a row that sleeps
\* still has its timer (claimDueSleepers, workflow-run-store.ts).
WokenOnce ==
  \A r \in Runs : woken[r] <= slept[r] - (IF row[r] = "sleeping" THEN 1 ELSE 0)

\* Runs that somebody met in the middle of a call, or took for what they were.
Disturbed == cut \cup crowded \cup stale

\* What is parked can be found again by whoever has to continue it: a gate
\* through its row, a wait through its timer, and a person is told - unless
\* a restart cut the call that parked the run, or swept its record.
ParkedRunsAreFound ==
  \A r \in Runs \ Disturbed :
    engine[r] = "parked" /\ Quiet(r) =>
      /\ stop[r] = "gate" => row[r] = "requires_action"
      /\ stop[r] = "wait" => row[r] = "sleeping" /\ wake[r] # "none"
      /\ stop[r] # "wait" /\ r \notin swept => "decision" \in asks[r]

\* No decision about a settled run is left in the inbox once the call that
\* settled it has ended.
NoAskOutlivesItsRun ==
  \A r \in Runs \ Disturbed : asks[r] # {} /\ Quiet(r) => row[r] \notin Settled

\* A run is not recorded as settled while its graph can still go on.
SettledIsOver ==
  \A r \in Runs \ Disturbed : row[r] \in Settled => engine[r] = "over"

\* A run stopped at a gate, or going on from one, counts as in flight however
\* old it is: a press about the same subject is answered with that run.
AtGate(r) ==
  /\ stop[r] = "gate"
  /\ engine[r] = "parked" \/ \E c \in Callers : on[c] = r /\ at[c] = "running"
GatesBlockPresses ==
  \A r \in Runs \ Disturbed : AtGate(r) => Active(r)

\* A wait comes to an end: the run is woken, unless a restart cut the wake.
WaitsEnd ==
  \A r \in Runs : engine[r] = "parked" /\ stop[r] = "wait"
                    ~> \/ ~ (engine[r] = "parked" /\ stop[r] = "wait")
                       \/ r \in crowded \cup stale /\ row[r] # "sleeping"
                       \/ r \in cut

\* What the engine has ended is recorded as settled, or held for review.
EndsAreRecorded ==
  \A r \in Runs : engine[r] = "over"
                    ~> \/ row[r] \in Settled \/ "review" \in asks[r]
                       \/ r \in crowded /\ row[r] = "requires_action"
                       \/ r \in cut

\* A restart loses no question: a run parked at a gate is still asked about.
RestartKeepsTheAsk ==
  \A r \in Runs \ Disturbed :
    engine[r] = "parked" /\ stop[r] = "gate" /\ Quiet(r) => "decision" \in asks[r]

\* An answer that was taken is not failed inside the run: the route has looked
\* whether the run is parked (workflow-routes.ts), and nobody else was on it.
AnswersAreNotFailed ==
  [][\A h \in Hands : ResumeThrows(h) => on[h] \in crowded]_vars

=============================================================================
