----------------------------- MODULE AtLeastOnce -----------------------------
(***************************************************************************)
(* What a sender may rely on when it puts a job on a queue: the job is     *)
(* delivered some number of times, and it leaves the queue only after a    *)
(* delivery was carried out, or after the delivery cap was passed.  The    *)
(* queue worker (QueueWorker) is shown to implement it.                    *)
(***************************************************************************)
EXTENDS Naturals

CONSTANTS Jobs,         \* the jobs that can be sent
          Cap           \* deliveries that are carried out before giving up

VARIABLES sent,         \* jobs put on the queue
          deliveries,   \* deliveries of each job, counted up to Cap + 1
          performed,    \* jobs some delivery of which was carried out
          closed        \* jobs taken off the queue for good

avars == <<sent, deliveries, performed, closed>>

Init ==
  /\ sent = {}
  /\ deliveries = [j \in Jobs |-> 0]
  /\ performed = {}
  /\ closed = {}

Send(j) ==
  /\ j \notin sent
  /\ sent' = sent \union {j}
  /\ UNCHANGED <<deliveries, performed, closed>>

\* A closed job is never handed out again.
Deliver(j) ==
  /\ j \in sent \ closed
  /\ deliveries' = [deliveries EXCEPT ![j] = IF @ > Cap THEN @ ELSE @ + 1]
  /\ UNCHANGED <<sent, performed, closed>>

\* A late delivery may be carried out after another one closed the job.
Perform(j) ==
  /\ j \in sent
  /\ deliveries[j] > 0
  /\ performed' = performed \union {j}
  /\ UNCHANGED <<sent, deliveries, closed>>

Close(j) ==
  /\ j \in sent
  /\ j \in performed \/ deliveries[j] > Cap
  /\ closed' = closed \union {j}
  /\ UNCHANGED <<sent, deliveries, performed>>

Next == \E j \in Jobs : Send(j) \/ Deliver(j) \/ Perform(j) \/ Close(j)

Spec == Init /\ [][Next]_avars

=============================================================================
