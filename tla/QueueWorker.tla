----------------------------- MODULE QueueWorker -----------------------------
(***************************************************************************)
(* The polling worker of packages/queue (startQueueWorker) over its pgmq   *)
(* queues.  The queues are the external part: pgmq hands out the oldest    *)
(* visible message, hides it for the visibility timeout and counts the     *)
(* read; archiving removes it.  A worker polls its queues in turn, one     *)
(* message each; several worker processes may poll the same queues.        *)
(*                                                                         *)
(* Time is the action VisibilityExpires.  The handler of a queue in        *)
(* PromptQueues always ends before the visibility timeout, which is what   *)
(* the configuration comment of the worker asks for; in other queues the   *)
(* timeout may expire under a running handler.                             *)
(***************************************************************************)
EXTENDS Naturals, FiniteSets

CONSTANTS NumMsgs,        \* bound: messages sent in a behaviour
          NumQueues,      \* queues each worker polls
          QueueOf,        \* the queue of each message
          Workers,        \* polling worker processes
          Stoppable,      \* the workers a shutdown signal may reach
          MaxReads,       \* reads that run the handler before dead-lettering
          MaxFaults,      \* bound: crashes and failed archive calls
          PromptQueues    \* queues whose handler ends before the visibility timeout

ASSUME QueueAssumption ==
  /\ NumMsgs \in Nat
  /\ NumQueues \in Nat \ {0}
  /\ QueueOf \in [1..NumMsgs -> 1..NumQueues]
  /\ Stoppable \subseteq Workers
  /\ MaxReads \in Nat \ {0}
  /\ MaxFaults \in Nat
  /\ PromptQueues \subseteq 1..NumQueues

Messages == 1..NumMsgs      \* pgmq numbers messages in the order of arrival
NoMsg == 0

VARIABLES
  table,      \* "unsent", "queued" or "archived", for each message
  visible,    \* messages a read may return now
  readCt,     \* read_ct, for each message; counts up to MaxReads + 1
  running,    \* the running flag of each worker
  at,         \* the queue each worker polls now (or polled last)
  pc,         \* where the poll loop of each worker is
  cur,        \* the message each worker holds
  handled,    \* messages for which some handler call returned
  calls,      \* handler calls started, for each message
  faults      \* faults so far

vars == <<table, visible, readCt, running, at, pc, cur, handled, calls, faults>>

QTypeOK ==
  /\ table \in [Messages -> {"unsent", "queued", "archived"}]
  /\ visible \subseteq Messages
  /\ readCt \in [Messages -> 0..MaxReads + 1]
  /\ running \in [Workers -> BOOLEAN]
  /\ at \in [Workers -> 1..NumQueues]
  /\ pc \in [Workers -> {"polling", "handling", "archiving"}]
  /\ cur \in [Workers -> Messages \union {NoMsg}]
  /\ handled \subseteq Messages
  /\ calls \in [Messages -> Nat]
  /\ faults \in 0..MaxFaults

Init ==
  /\ table = [m \in Messages |-> "unsent"]
  /\ visible = {}
  /\ readCt = [m \in Messages |-> 0]
  /\ running = [w \in Workers |-> TRUE]
  /\ at = [w \in Workers |-> 1]
  /\ pc = [w \in Workers |-> "polling"]
  /\ cur = [w \in Workers |-> NoMsg]
  /\ handled = {}
  /\ calls = [m \in Messages |-> 0]
  /\ faults = 0

-----------------------------------------------------------------------------
(* The queue *)

\* queue.send: messages are numbered in the order they arrive.
Send(m) ==
  /\ table[m] = "unsent"
  /\ \A n \in 1..(m - 1) : table[n] # "unsent"
  /\ table' = [table EXCEPT ![m] = "queued"]
  /\ visible' = visible \union {m}
  /\ UNCHANGED <<readCt, running, at, pc, cur, handled, calls, faults>>

\* The visibility timeout of an unacknowledged message runs out.
VisibilityExpires(m) ==
  /\ table[m] = "queued"
  /\ m \notin visible
  /\ QueueOf[m] \in PromptQueues => \A w \in Workers : cur[w] # m
  /\ visible' = visible \union {m}
  /\ UNCHANGED <<table, readCt, running, at, pc, cur, handled, calls, faults>>

-----------------------------------------------------------------------------
(* The poll loop *)

\* Wrong: the loop does not start over after the last queue.
NextQueueNoWrap(w) ==
  /\ at' = [at EXCEPT ![w] = @ + 1]
  /\ pc' = [pc EXCEPT ![w] = "polling"]
  /\ cur' = [cur EXCEPT ![w] = NoMsg]

\* Wrong: the loop polls the same queue again.
NextQueueSame(w) ==
  /\ UNCHANGED at
  /\ pc' = [pc EXCEPT ![w] = "polling"]
  /\ cur' = [cur EXCEPT ![w] = NoMsg]

\* On to the next queue with nothing in hand: the end of an iteration of the
\* inner loop, which starts over after the last queue.
NextQueue(w) ==
  /\ at' = [at EXCEPT ![w] = IF @ = NumQueues THEN 1 ELSE @ + 1]
  /\ pc' = [pc EXCEPT ![w] = "polling"]
  /\ cur' = [cur EXCEPT ![w] = NoMsg]

Polls(w) == running[w] /\ pc[w] = "polling"

\* Wrong: a read with visibility timeout 0, which hides nothing.
HandsOutVisible(w, m) ==
  /\ m \in visible
  /\ QueueOf[m] = at[w]
  /\ \A n \in visible : QueueOf[n] = at[w] => m <= n
  /\ readCt' = [readCt EXCEPT ![m] = IF @ > MaxReads THEN @ ELSE @ + 1]
  /\ UNCHANGED visible

\* What pgmq does for queue.read(queueName, visibilitySeconds, 1): it picks
\* the oldest visible message of the queue, hides it and counts the read.
HandsOut(w, m) ==
  /\ m \in visible
  /\ QueueOf[m] = at[w]
  /\ \A n \in visible : QueueOf[n] = at[w] => m <= n
  /\ visible' = visible \ {m}
  /\ readCt' = [readCt EXCEPT ![m] = IF @ > MaxReads THEN @ ELSE @ + 1]

\* Wrong: one read too few, and no limit that is ever reached.
TooManyReadsEarly(n) == n >= MaxReads
TooManyReadsLate(n) == n > MaxReads + 1

\* msg.read_ct > maxReads
TooManyReads(n) == n > MaxReads

\* The read, then the read_ct test: a message read too often goes to the
\* archive without reaching the handler.
Read(w, m) ==
  /\ Polls(w)
  /\ HandsOut(w, m)
  /\ cur' = [cur EXCEPT ![w] = m]
  /\ IF TooManyReads(readCt'[m])
     THEN /\ pc' = [pc EXCEPT ![w] = "archiving"]
          /\ calls' = calls
     ELSE /\ pc' = [pc EXCEPT ![w] = "handling"]
          /\ calls' = [calls EXCEPT ![m] = @ + 1]
  /\ UNCHANGED <<table, running, at, handled, faults>>

\* Nothing to read in this queue.
QueueEmpty(w) ==
  /\ Polls(w)
  /\ \A m \in visible : QueueOf[m] # at[w]
  /\ NextQueue(w)
  /\ UNCHANGED <<table, visible, readCt, running, handled, calls, faults>>

\* The read call fails, before or after pgmq did its part: a poll error is
\* logged and the loop goes on.
ReadFails(w) ==
  /\ Polls(w)
  /\ faults < MaxFaults
  /\ faults' = faults + 1
  /\ \/ UNCHANGED <<visible, readCt>>
     \/ \E m \in Messages : HandsOut(w, m)
  /\ NextQueue(w)
  /\ UNCHANGED <<table, running, handled, calls>>

HandlerReturns(w) ==
  /\ pc[w] = "handling"
  /\ pc' = [pc EXCEPT ![w] = "archiving"]
  /\ handled' = handled \union {cur[w]}
  /\ UNCHANGED <<table, visible, readCt, running, at, cur, calls, faults>>

\* Wrong: acknowledged whether or not the handler succeeded.
HandlerThrowsAcked(w) ==
  /\ pc[w] = "handling"
  /\ pc' = [pc EXCEPT ![w] = "archiving"]
  /\ UNCHANGED <<table, visible, readCt, running, at, cur, handled, calls, faults>>

\* No acknowledgement: the message stays in the table, hidden for now.
HandlerThrows(w) ==
  /\ pc[w] = "handling"
  /\ NextQueue(w)
  /\ UNCHANGED <<table, visible, readCt, running, handled, calls, faults>>

\* queue.archive, after the handler or as the dead-letter branch.  pgmq
\* ignores a message that is already archived.
Archive(w) ==
  /\ pc[w] = "archiving"
  /\ table' = [table EXCEPT ![cur[w]] = "archived"]
  /\ visible' = visible \ {cur[w]}
  /\ NextQueue(w)
  /\ UNCHANGED <<readCt, running, handled, calls, faults>>

\* The archive call itself fails: caught and logged, the message comes back.
ArchiveFails(w) ==
  /\ pc[w] = "archiving"
  /\ faults < MaxFaults
  /\ faults' = faults + 1
  /\ NextQueue(w)
  /\ UNCHANGED <<table, visible, readCt, running, handled, calls>>

\* The stop function: the loop ends at the next test of the flag, so the
\* message in hand is still carried through.
Stop(w) ==
  /\ w \in Stoppable
  /\ running[w]
  /\ running' = [running EXCEPT ![w] = FALSE]
  /\ UNCHANGED <<table, visible, readCt, at, pc, cur, handled, calls, faults>>

\* The process dies holding a message and is started again.
Crash(w) ==
  /\ cur[w] # NoMsg
  /\ faults < MaxFaults
  /\ faults' = faults + 1
  /\ running' = [running EXCEPT ![w] = TRUE]
  /\ at' = [at EXCEPT ![w] = 1]
  /\ pc' = [pc EXCEPT ![w] = "polling"]
  /\ cur' = [cur EXCEPT ![w] = NoMsg]
  /\ UNCHANGED <<table, visible, readCt, handled, calls>>

Next ==
  \/ \E m \in Messages : Send(m) \/ VisibilityExpires(m)
  \/ \E w \in Workers :
       \/ \E m \in Messages : Read(w, m)
       \/ QueueEmpty(w) \/ ReadFails(w)
       \/ HandlerReturns(w) \/ HandlerThrows(w)
       \/ Archive(w) \/ ArchiveFails(w)
       \/ Stop(w) \/ Crash(w)

Spec == Init /\ [][Next]_vars

\* The poll loop keeps running, a handler call ends one way or the other and
\* the visibility clock advances.  Nothing makes a handler succeed.
Fairness ==
  /\ \A m \in Messages : WF_vars(VisibilityExpires(m))
  /\ \A w \in Workers :
       /\ WF_vars(QueueEmpty(w) \/ ReadFails(w) \/ \E m \in Messages : Read(w, m))
       /\ WF_vars(HandlerReturns(w) \/ HandlerThrows(w))
       /\ WF_vars(Archive(w) \/ ArchiveFails(w))

FairSpec == Spec /\ Fairness

-----------------------------------------------------------------------------
(* Properties *)

\* A poison message cannot be handled without end: whatever crashes, fails to
\* archive or expires under a handler, a message reaches the handler at most
\* maxReads times.
HandlerCallsBounded == \A m \in Messages : calls[m] <= MaxReads

\* A message leaves the queue for one of two reasons only: a handler call for
\* it returned, or it was read more than maxReads times.  Two workers on one
\* message, or a crash between the handler and the archive call, lose nothing.
ArchivedForCause ==
  \A m \in Messages :
    table[m] = "archived" => m \in handled \/ readCt[m] > MaxReads

\* Where handlers end before the visibility timeout, workers that compete for
\* a queue never hold the same message: not after a crash, a lost read or a
\* failed archive call either.
OneWorkerPerMessage ==
  \A v, w \in Workers :
    v # w /\ cur[v] # NoMsg /\ QueueOf[cur[v]] \in PromptQueues => cur[v] # cur[w]

\* The poison-message promise of maxReads: every message is eventually taken
\* off the queue, handled or dead-lettered, and those behind it get their turn.
EveryMessageLeaves ==
  \A m \in Messages : table[m] = "queued" ~> table[m] = "archived"

\* The worker implements what AtLeastOnce promises a sender.
Promise == INSTANCE AtLeastOnce WITH
  Jobs <- Messages,
  Cap <- MaxReads,
  sent <- {m \in Messages : table[m] # "unsent"},
  deliveries <- readCt,
  performed <- handled,
  closed <- {m \in Messages : table[m] = "archived"}

ImplementsPromise == Promise!Spec

=============================================================================
