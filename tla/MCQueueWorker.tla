---------------------------- MODULE MCQueueWorker ----------------------------
(* Instances of QueueWorker for TLC: two competing workers, two queues. *)
EXTENDS QueueWorker

CONSTANTS w1, w2

Both == {w1, w2}
Second == {w2}

\* Messages take the queues in turn.
Alternate == [m \in 1..NumMsgs |-> IF m = 2 THEN 2 ELSE 1]
=============================================================================
