------------------------- MODULE QueueWorker_proofs -------------------------
(***************************************************************************)
(* The queue worker for any number of messages, queues, workers and any    *)
(* limit: its types, the bound on handler calls, why a message leaves the  *)
(* queue, and that it implements AtLeastOnce.                              *)
(*                                                                         *)
(* None of these is inductive by itself.  QInv adds what a worker knows of *)
(* the message in its hand: it was sent and read, and a worker that is     *)
(* about to archive has a cause.                                           *)
(***************************************************************************)
EXTENDS QueueWorker, TLAPS

\* What a worker with a message in hand can count on.
InHand ==
  \A w \in Workers :
    /\ pc[w] = "polling" => cur[w] = NoMsg
    /\ pc[w] # "polling" =>
         /\ cur[w] \in Messages
         /\ table[cur[w]] # "unsent"
         /\ readCt[cur[w]] > 0
    /\ pc[w] = "archiving" => cur[w] \in handled \/ readCt[cur[w]] > MaxReads

\* Only queued messages can be read, and each call was preceded by its read.
ReadsFirst ==
  /\ \A m \in visible : table[m] = "queued"
  /\ \A m \in Messages : calls[m] <= readCt[m]

QInv ==
  /\ QTypeOK
  /\ InHand
  /\ ReadsFirst
  /\ HandlerCallsBounded
  /\ ArchivedForCause

\* The actions of one worker, in one list for case analysis.
WorkerStep(w) ==
  \/ \E m \in Messages : Read(w, m)
  \/ QueueEmpty(w) \/ ReadFails(w)
  \/ HandlerReturns(w) \/ HandlerThrows(w)
  \/ Archive(w) \/ ArchiveFails(w)
  \/ Stop(w) \/ Crash(w)

LEMMA NextCases ==
  ASSUME Next
  PROVE  \/ \E m \in Messages : Send(m) \/ VisibilityExpires(m)
         \/ \E w \in Workers : WorkerStep(w)
  BY DEF Next, WorkerStep

-----------------------------------------------------------------------------
(* The inductive invariant *)

LEMMA QInvInit == Init => QInv
  BY QueueAssumption
  DEF Init, QInv, QTypeOK, InHand, ReadsFirst, HandlerCallsBounded,
      ArchivedForCause, Messages, NoMsg

\* Moving on leaves a worker at one of its queues, with nothing in hand.
LEMMA NextQueueEffect ==
  ASSUME QTypeOK, NEW w \in Workers, NextQueue(w)
  PROVE  /\ at' \in [Workers -> 1..NumQueues]
         /\ pc' \in [Workers -> {"polling", "handling", "archiving"}]
         /\ cur' \in [Workers -> Messages \union {NoMsg}]
         /\ pc'[w] = "polling" /\ cur'[w] = NoMsg
         /\ \A v \in Workers \ {w} : pc'[v] = pc[v] /\ cur'[v] = cur[v]
<1> USE QueueAssumption DEF QTypeOK, NextQueue
<1>1. (IF at[w] = NumQueues THEN 1 ELSE at[w] + 1) \in 1..NumQueues
  OBVIOUS
<1>2. at' \in [Workers -> 1..NumQueues]
  BY <1>1
<1> QED
  BY <1>2

\* A read hides one queued message and counts it, up to one past the limit.
LEMMA HandsOutEffect ==
  ASSUME QTypeOK, ReadsFirst, NEW w \in Workers, NEW m \in Messages, HandsOut(w, m)
  PROVE  /\ visible' \subseteq visible
         /\ table[m] = "queued"
         /\ readCt' \in [Messages -> 0..MaxReads + 1]
         /\ \A n \in Messages : readCt[n] <= readCt'[n]
         /\ readCt'[m] > 0
         /\ readCt'[m] > MaxReads \/ readCt'[m] = readCt[m] + 1
<1> USE QueueAssumption DEF QTypeOK, HandsOut
<1>1. (IF readCt[m] > MaxReads THEN readCt[m] ELSE readCt[m] + 1) \in 0..MaxReads + 1
  OBVIOUS
<1>2. readCt' \in [Messages -> 0..MaxReads + 1]
  BY <1>1
<1>3. visible' \subseteq visible /\ table[m] = "queued"
  BY DEF ReadsFirst
<1>4. \A n \in Messages : readCt[n] <= readCt'[n]
  OBVIOUS
<1>5. readCt'[m] > 0 /\ (readCt'[m] > MaxReads \/ readCt'[m] = readCt[m] + 1)
  OBVIOUS
<1> QED
  BY <1>2, <1>3, <1>4, <1>5

LEMMA QInvStep == QInv /\ [Next]_vars => QInv'
<1> SUFFICES ASSUME QInv, [Next]_vars PROVE QInv'
  OBVIOUS
<1>0. QTypeOK /\ InHand /\ ReadsFirst /\ HandlerCallsBounded /\ ArchivedForCause
  BY DEF QInv
<1> USE QueueAssumption DEF Messages, NoMsg
<1>1. ASSUME NEW m \in Messages, Send(m) PROVE QInv'
  <2>1. QTypeOK'
    BY <1>0, <1>1 DEF Send, QTypeOK, InHand
  <2>2. InHand'
    BY <1>0, <1>1 DEF Send, QTypeOK, InHand, ReadsFirst, ArchivedForCause
  <2>3. ReadsFirst'
    BY <1>0, <1>1 DEF Send, QTypeOK, InHand, ReadsFirst
  <2>4. HandlerCallsBounded'
    BY <1>0, <1>1 DEF Send, QTypeOK, ReadsFirst, HandlerCallsBounded
  <2>5. ArchivedForCause'
    BY <1>0, <1>1 DEF Send, QTypeOK, InHand, ReadsFirst, ArchivedForCause
  <2> QED
    BY <2>1, <2>2, <2>3, <2>4, <2>5 DEF QInv
<1>2. ASSUME NEW m \in Messages, VisibilityExpires(m) PROVE QInv'
  <2>1. QTypeOK'
    BY <1>0, <1>2 DEF VisibilityExpires, QTypeOK, InHand
  <2>2. InHand'
    BY <1>0, <1>2 DEF VisibilityExpires, QTypeOK, InHand, ReadsFirst, ArchivedForCause
  <2>3. ReadsFirst'
    BY <1>0, <1>2 DEF VisibilityExpires, QTypeOK, InHand, ReadsFirst
  <2>4. HandlerCallsBounded'
    BY <1>0, <1>2 DEF VisibilityExpires, QTypeOK, ReadsFirst, HandlerCallsBounded
  <2>5. ArchivedForCause'
    BY <1>0, <1>2 DEF VisibilityExpires, QTypeOK, InHand, ReadsFirst, ArchivedForCause
  <2> QED
    BY <2>1, <2>2, <2>3, <2>4, <2>5 DEF QInv
<1>3. ASSUME NEW w \in Workers, WorkerStep(w) PROVE QInv'
  <2>1. ASSUME NEW m \in Messages, Read(w, m) PROVE QInv'
    <3>0. /\ visible' \subseteq visible
          /\ table' = table /\ table[m] = "queued"
          /\ readCt' \in [Messages -> 0..MaxReads + 1]
          /\ \A n \in Messages : readCt[n] <= readCt'[n]
          /\ readCt'[m] > 0
          /\ readCt'[m] > MaxReads \/ readCt'[m] = readCt[m] + 1
          /\ cur' = [cur EXCEPT ![w] = m]
          /\ UNCHANGED <<running, at, handled, faults>>
      BY <1>0, <2>1, HandsOutEffect DEF Read
    <3>1. \/ /\ readCt'[m] > MaxReads
             /\ pc' = [pc EXCEPT ![w] = "archiving"]
             /\ calls' = calls
          \/ /\ readCt'[m] <= MaxReads
             /\ pc' = [pc EXCEPT ![w] = "handling"]
             /\ calls' = [calls EXCEPT ![m] = @ + 1]
      <4>1. readCt'[m] > MaxReads \/ readCt'[m] <= MaxReads
        BY <3>0
      <4>2. TooManyReads(readCt'[m]) <=> readCt'[m] > MaxReads
        BY DEF TooManyReads
      <4> QED
        BY <2>1, <4>1, <4>2 DEF Read
    <3>2. /\ calls' \in [Messages -> Nat]
          /\ pc' \in [Workers -> {"polling", "handling", "archiving"}]
      <4>1. calls \in [Messages -> Nat] /\ calls[m] + 1 \in Nat
        BY <1>0 DEF QTypeOK
      <4>2. calls' \in [Messages -> Nat]
        BY <3>1, <4>1
      <4>3. pc' \in [Workers -> {"polling", "handling", "archiving"}]
        BY <1>0, <3>1 DEF QTypeOK
      <4> QED
        BY <4>2, <4>3
    <3>3. QTypeOK'
      BY <1>0, <3>0, <3>2 DEF QTypeOK
    <3>4. \A v \in Workers \ {w} : pc'[v] = pc[v] /\ cur'[v] = cur[v]
      BY <1>0, <3>0, <3>1 DEF QTypeOK
    <3>5. \A n \in Messages : readCt[n] > 0 => readCt'[n] > 0
      BY <1>0, <3>0 DEF QTypeOK
    <3>6. \A n \in Messages : readCt[n] > MaxReads => readCt'[n] > MaxReads
      BY <1>0, <3>0 DEF QTypeOK
    <3>7. InHand'
      <4> SUFFICES ASSUME NEW v \in Workers
                   PROVE  /\ pc'[v] = "polling" => cur'[v] = NoMsg
                          /\ pc'[v] # "polling" =>
                               /\ cur'[v] \in Messages
                               /\ table'[cur'[v]] # "unsent"
                               /\ readCt'[cur'[v]] > 0
                          /\ pc'[v] = "archiving" =>
                               cur'[v] \in handled' \/ readCt'[cur'[v]] > MaxReads
        BY DEF InHand
      <4>1. CASE v = w
        <5>1. cur'[w] = m
          BY <1>0, <3>0 DEF QTypeOK
        <5>2. /\ pc'[w] # "polling"
              /\ pc'[w] = "archiving" => readCt'[m] > MaxReads
          BY <1>0, <3>1 DEF QTypeOK
        <5> QED
          BY <4>1, <5>1, <5>2, <3>0
      <4>2. CASE v # w
        <5>1. pc'[v] = pc[v] /\ cur'[v] = cur[v]
          BY <3>4, <4>2
        <5>2. pc[v] # "polling" =>
                /\ cur[v] \in Messages
                /\ table[cur[v]] # "unsent"
                /\ readCt'[cur[v]] > 0
          BY <1>0, <3>5 DEF InHand
        <5>4. pc[v] = "polling" => cur[v] = NoMsg
          BY <1>0 DEF InHand
        <5>3. pc[v] = "archiving" => cur[v] \in handled \/ readCt'[cur[v]] > MaxReads
          BY <1>0, <3>6 DEF InHand
        <5> QED
          BY <5>1, <5>2, <5>3, <5>4, <3>0
      <4> QED
        BY <4>1, <4>2
    <3>8. \A n \in Messages : calls'[n] <= readCt'[n] /\ calls'[n] <= MaxReads
      <4> SUFFICES ASSUME NEW n \in Messages
                   PROVE  calls'[n] <= readCt'[n] /\ calls'[n] <= MaxReads
        OBVIOUS
      <4>1. /\ calls[n] \in Nat /\ readCt[n] \in Nat /\ readCt'[n] \in Nat
            /\ calls[n] <= readCt[n] /\ calls[n] <= MaxReads
            /\ readCt[n] <= readCt'[n]
        BY <1>0, <3>0 DEF QTypeOK, ReadsFirst, HandlerCallsBounded
      <4>2. CASE calls'[n] = calls[n]
        BY <4>1, <4>2
      <4>3. CASE calls'[n] # calls[n]
        <5>1. n = m /\ calls'[m] = calls[m] + 1 /\ readCt'[m] <= MaxReads
          BY <1>0, <3>1, <4>3 DEF QTypeOK
        <5>2. readCt'[m] = readCt[m] + 1
          <6>1. ~(readCt'[m] > MaxReads)
            BY <4>1, <5>1, QueueAssumption
          <6> QED
            BY <3>0, <6>1
        <5> QED
          BY <4>1, <5>1, <5>2, QueueAssumption
      <4> QED
        BY <4>2, <4>3
    <3>9. ReadsFirst' /\ HandlerCallsBounded'
      BY <1>0, <3>0, <3>8 DEF ReadsFirst, HandlerCallsBounded
    <3>10. ArchivedForCause'
      BY <1>0, <3>0, <3>6 DEF ArchivedForCause
    <3> QED
      BY <3>3, <3>7, <3>9, <3>10 DEF QInv
  <2>2. CASE QueueEmpty(w)
    <3>1. QTypeOK'
      BY <1>0, <2>2, NextQueueEffect DEF QueueEmpty, QTypeOK
    <3>2. InHand'
      BY <1>0, <2>2 DEF QueueEmpty, NextQueue, QTypeOK, InHand, ReadsFirst, ArchivedForCause
    <3>3. ReadsFirst'
      BY <1>0, <2>2 DEF QueueEmpty, NextQueue, QTypeOK, InHand, ReadsFirst
    <3>4. HandlerCallsBounded'
      BY <1>0, <2>2 DEF QueueEmpty, NextQueue, QTypeOK, ReadsFirst, HandlerCallsBounded
    <3>5. ArchivedForCause'
      BY <1>0, <2>2 DEF QueueEmpty, NextQueue, QTypeOK, InHand, ReadsFirst, ArchivedForCause
    <3> QED
      BY <3>1, <3>2, <3>3, <3>4, <3>5 DEF QInv
  <2>3. CASE ReadFails(w)
    <3>0. NextQueue(w) /\ UNCHANGED <<table, running, handled, calls>>
      BY <2>3 DEF ReadFails
    <3>1. faults' \in 0..MaxFaults
      BY <1>0, <2>3 DEF ReadFails, QTypeOK
    <3>2. /\ visible' \subseteq visible
          /\ readCt' \in [Messages -> 0..MaxReads + 1]
          /\ \A n \in Messages : readCt[n] <= readCt'[n]
      <4>1. CASE UNCHANGED <<visible, readCt>>
        BY <1>0, <4>1 DEF QTypeOK
      <4>2. CASE \E m \in Messages : HandsOut(w, m)
        BY <1>0, <4>2, HandsOutEffect
      <4> QED
        BY <2>3, <4>1, <4>2 DEF ReadFails
    <3>3. QTypeOK'
      BY <1>0, <3>0, <3>1, <3>2, NextQueueEffect DEF QTypeOK
    <3>4. /\ \A n \in Messages : readCt[n] > 0 => readCt'[n] > 0
          /\ \A n \in Messages : readCt[n] > MaxReads => readCt'[n] > MaxReads
          /\ \A n \in Messages : calls[n] <= readCt'[n]
      <4>1. \A n \in Messages : /\ calls[n] \in Nat /\ readCt[n] \in Nat
                                /\ readCt'[n] \in Nat
                                /\ calls[n] <= readCt[n]
                                /\ readCt[n] <= readCt'[n]
        BY <1>0, <3>2 DEF QTypeOK, ReadsFirst
      <4>2. \A n \in Messages : readCt[n] > 0 => readCt'[n] > 0
        BY <4>1
      <4>3. ASSUME NEW n \in Messages, readCt[n] > MaxReads
            PROVE  readCt'[n] > MaxReads
        <5>1. /\ readCt[n] \in Nat /\ readCt'[n] \in Nat
              /\ readCt[n] <= readCt'[n]
          BY <4>1
        <5> QED
          BY <4>3, <5>1, QueueAssumption
      <4>4. ASSUME NEW n \in Messages PROVE calls[n] <= readCt'[n]
        <5>1. /\ calls[n] \in Nat /\ readCt[n] \in Nat /\ readCt'[n] \in Nat
              /\ calls[n] <= readCt[n] /\ readCt[n] <= readCt'[n]
          BY <4>1
        <5> QED
          BY <5>1
      <4> QED
        BY <4>2, <4>3, <4>4
    <3>5. InHand'
      BY <1>0, <3>0, <3>4, NextQueueEffect DEF InHand
    <3>6. ReadsFirst' /\ HandlerCallsBounded' /\ ArchivedForCause'
      BY <1>0, <3>0, <3>2, <3>4 DEF ReadsFirst, HandlerCallsBounded, ArchivedForCause
    <3> QED
      BY <3>3, <3>5, <3>6 DEF QInv
  <2>4. CASE HandlerReturns(w)
    <3>1. QTypeOK'
      BY <1>0, <2>4 DEF HandlerReturns, QTypeOK, InHand
    <3>2. InHand'
      BY <1>0, <2>4 DEF HandlerReturns, QTypeOK, InHand, ReadsFirst, ArchivedForCause
    <3>3. ReadsFirst'
      BY <1>0, <2>4 DEF HandlerReturns, QTypeOK, InHand, ReadsFirst
    <3>4. HandlerCallsBounded'
      BY <1>0, <2>4 DEF HandlerReturns, QTypeOK, ReadsFirst, HandlerCallsBounded
    <3>5. ArchivedForCause'
      BY <1>0, <2>4 DEF HandlerReturns, QTypeOK, InHand, ReadsFirst, ArchivedForCause
    <3> QED
      BY <3>1, <3>2, <3>3, <3>4, <3>5 DEF QInv
  <2>5. CASE HandlerThrows(w)
    <3>1. QTypeOK'
      BY <1>0, <2>5, NextQueueEffect DEF HandlerThrows, QTypeOK
    <3>2. InHand'
      BY <1>0, <2>5 DEF HandlerThrows, NextQueue, QTypeOK, InHand, ReadsFirst, ArchivedForCause
    <3>3. ReadsFirst'
      BY <1>0, <2>5 DEF HandlerThrows, NextQueue, QTypeOK, InHand, ReadsFirst
    <3>4. HandlerCallsBounded'
      BY <1>0, <2>5 DEF HandlerThrows, NextQueue, QTypeOK, ReadsFirst, HandlerCallsBounded
    <3>5. ArchivedForCause'
      BY <1>0, <2>5 DEF HandlerThrows, NextQueue, QTypeOK, InHand, ReadsFirst, ArchivedForCause
    <3> QED
      BY <3>1, <3>2, <3>3, <3>4, <3>5 DEF QInv
  <2>6. CASE Archive(w)
    <3>1. QTypeOK'
      BY <1>0, <2>6, NextQueueEffect DEF Archive, QTypeOK
    <3>2. InHand'
      BY <1>0, <2>6 DEF Archive, NextQueue, QTypeOK, InHand, ReadsFirst, ArchivedForCause
    <3>3. ReadsFirst'
      BY <1>0, <2>6 DEF Archive, NextQueue, QTypeOK, InHand, ReadsFirst
    <3>4. HandlerCallsBounded'
      BY <1>0, <2>6 DEF Archive, NextQueue, QTypeOK, ReadsFirst, HandlerCallsBounded
    <3>5. ArchivedForCause'
      BY <1>0, <2>6 DEF Archive, NextQueue, QTypeOK, InHand, ReadsFirst, ArchivedForCause
    <3> QED
      BY <3>1, <3>2, <3>3, <3>4, <3>5 DEF QInv
  <2>7. CASE ArchiveFails(w)
    <3>1. QTypeOK'
      <4>1. faults' \in 0..MaxFaults
        BY <1>0, <2>7 DEF ArchiveFails, QTypeOK
      <4> QED
        BY <1>0, <2>7, <4>1, NextQueueEffect DEF ArchiveFails, QTypeOK
    <3>2. InHand'
      BY <1>0, <2>7 DEF ArchiveFails, NextQueue, QTypeOK, InHand, ReadsFirst, ArchivedForCause
    <3>3. ReadsFirst'
      BY <1>0, <2>7 DEF ArchiveFails, NextQueue, QTypeOK, InHand, ReadsFirst
    <3>4. HandlerCallsBounded'
      BY <1>0, <2>7 DEF ArchiveFails, NextQueue, QTypeOK, ReadsFirst, HandlerCallsBounded
    <3>5. ArchivedForCause'
      BY <1>0, <2>7 DEF ArchiveFails, NextQueue, QTypeOK, InHand, ReadsFirst, ArchivedForCause
    <3> QED
      BY <3>1, <3>2, <3>3, <3>4, <3>5 DEF QInv
  <2>8. CASE Stop(w)
    <3>1. QTypeOK'
      BY <1>0, <2>8 DEF Stop, QTypeOK
    <3>2. InHand'
      BY <1>0, <2>8 DEF Stop, QTypeOK, InHand, ReadsFirst, ArchivedForCause
    <3>3. ReadsFirst'
      BY <1>0, <2>8 DEF Stop, QTypeOK, InHand, ReadsFirst
    <3>4. HandlerCallsBounded'
      BY <1>0, <2>8 DEF Stop, QTypeOK, ReadsFirst, HandlerCallsBounded
    <3>5. ArchivedForCause'
      BY <1>0, <2>8 DEF Stop, QTypeOK, InHand, ReadsFirst, ArchivedForCause
    <3> QED
      BY <3>1, <3>2, <3>3, <3>4, <3>5 DEF QInv
  <2>9. CASE Crash(w)
    <3>1. QTypeOK'
      <4>1. 1 \in 1..NumQueues /\ faults + 1 \in 0..MaxFaults
        BY <1>0, <2>9 DEF Crash, QTypeOK
      <4> QED
        BY <1>0, <2>9, <4>1 DEF Crash, QTypeOK
    <3>2. InHand'
      BY <1>0, <2>9 DEF Crash, QTypeOK, InHand, ReadsFirst, ArchivedForCause
    <3>3. ReadsFirst'
      BY <1>0, <2>9 DEF Crash, QTypeOK, InHand, ReadsFirst
    <3>4. HandlerCallsBounded'
      BY <1>0, <2>9 DEF Crash, QTypeOK, ReadsFirst, HandlerCallsBounded
    <3>5. ArchivedForCause'
      BY <1>0, <2>9 DEF Crash, QTypeOK, InHand, ReadsFirst, ArchivedForCause
    <3> QED
      BY <3>1, <3>2, <3>3, <3>4, <3>5 DEF QInv
  <2> QED
    BY <1>3, <2>1, <2>2, <2>3, <2>4, <2>5, <2>6, <2>7, <2>8, <2>9 DEF WorkerStep
<1>4. CASE UNCHANGED vars
  BY <1>0, <1>4 DEF vars, QInv, QTypeOK, InHand, ReadsFirst,
                    HandlerCallsBounded, ArchivedForCause
<1> QED
  BY <1>1, <1>2, <1>3, <1>4, NextCases

LEMMA QInvariant == Spec => []QInv
  BY QInvInit, QInvStep, PTL DEF Spec

-----------------------------------------------------------------------------
(* Safety *)

\* Every variable keeps its type: the poll loop stays within the worker's
\* queues, and a worker past the read holds a message.
THEOREM QTypeCorrect == Spec => []QTypeOK
  BY QInvariant, PTL DEF QInv

\* A message reaches the handler at most maxReads times, whatever crashes,
\* fails to archive or expires under a handler.
THEOREM CallsBounded == Spec => []HandlerCallsBounded
  BY QInvariant, PTL DEF QInv

\* A message is archived only after a handler call for it returned or after
\* more than maxReads reads.
THEOREM NothingDropped == Spec => []ArchivedForCause
  BY QInvariant, PTL DEF QInv

-----------------------------------------------------------------------------
(* Handlers that end in time *)

\* In these queues, a message in a worker's hand is hidden from the others.
HeldIsHidden ==
  \A w \in Workers :
    cur[w] # NoMsg /\ QueueOf[cur[w]] \in PromptQueues => cur[w] \notin visible

\* Where handlers end before the visibility timeout, no two workers hold one
\* message, however many compete for a queue.
THEOREM HandlersExclusive == Spec => []OneWorkerPerMessage
<1> DEFINE Inv == HeldIsHidden /\ OneWorkerPerMessage
<1>1. Init => Inv
  BY DEF Init, HeldIsHidden, OneWorkerPerMessage
<1>2. QInv /\ Inv /\ [Next]_vars => Inv'
  <2> SUFFICES ASSUME QInv, Inv, [Next]_vars PROVE Inv'
    OBVIOUS
  <2>0. /\ cur \in [Workers -> Messages \union {NoMsg}]
        /\ visible \subseteq Messages
        /\ NoMsg \notin Messages
        /\ \A m \in visible : table[m] = "queued"
    BY DEF QInv, QTypeOK, ReadsFirst, Messages, NoMsg
  <2> USE DEF HeldIsHidden, OneWorkerPerMessage
  <2>1. ASSUME NEW m \in Messages, Send(m) PROVE Inv'
    <3>1. \A w \in Workers : cur[w] # m
      BY <2>1, <2>0 DEF Send, QInv, InHand, QTypeOK
    <3> QED
      BY <2>1, <3>1 DEF Send
  <2>2. ASSUME NEW m \in Messages, VisibilityExpires(m) PROVE Inv'
    BY <2>2 DEF VisibilityExpires
  <2>3. ASSUME NEW w \in Workers, WorkerStep(w) PROVE Inv'
    <3>1. ASSUME NEW m \in Messages, Read(w, m) PROVE Inv'
      BY <3>1, <2>0 DEF Read, HandsOut
    <3>2. CASE NextQueue(w) /\ visible' \subseteq visible
      BY <3>2, <2>0 DEF NextQueue
    <3>3. CASE UNCHANGED <<cur, visible>>
      BY <3>3
    <3>4. CASE Crash(w)
      BY <3>4, <2>0 DEF Crash
    <3>5. CASE ReadFails(w)
      <4>1. visible' \subseteq visible
        BY <3>5 DEF ReadFails, HandsOut
      <4> QED
        BY <3>2, <3>5, <4>1 DEF ReadFails
    <3> QED
      BY <2>3, <3>1, <3>2, <3>3, <3>4, <3>5
      DEF WorkerStep, QueueEmpty, HandlerReturns, HandlerThrows, Archive,
          ArchiveFails, Stop
  <2>4. CASE UNCHANGED vars
    BY <2>4 DEF vars
  <2> QED
    BY <2>1, <2>2, <2>3, <2>4, NextCases
<1>3. Inv => OneWorkerPerMessage
  OBVIOUS
<1> QED
  BY <1>1, <1>2, <1>3, QInvariant, PTL DEF Spec

-----------------------------------------------------------------------------
(* The worker implements AtLeastOnce *)

sentBar == {m \in Messages : table[m] # "unsent"}
closedBar == {m \in Messages : table[m] = "archived"}

\* The steps a sender cannot see.
LEMMA Stutter ==
  ASSUME UNCHANGED <<table, readCt, handled>>
  PROVE  UNCHANGED Promise!avars
  BY DEF Promise!avars

\* A read, also one whose answer is lost, is a delivery.
LEMMA HandsOutDelivers ==
  ASSUME QInv, NEW w \in Workers, NEW m \in Messages, HandsOut(w, m),
         UNCHANGED <<table, handled>>
  PROVE  Promise!Deliver(m)
<1>1. table[m] = "queued"
  BY DEF QInv, ReadsFirst, HandsOut
<1>2. readCt' = [readCt EXCEPT ![m] = IF @ > MaxReads THEN @ ELSE @ + 1]
  BY DEF HandsOut
<1> QED
  BY <1>1, <1>2 DEF Promise!Deliver

LEMMA StepImplements ==
  ASSUME QInv, [Next]_vars
  PROVE  [Promise!Next]_(Promise!avars)
<1> USE DEF Messages
<1>1. ASSUME NEW m \in Messages, Send(m) PROVE Promise!Next
  <2>1. /\ sentBar' = sentBar \union {m}
        /\ m \notin sentBar
        /\ closedBar' = closedBar
        /\ UNCHANGED <<readCt, handled>>
    BY <1>1 DEF QInv, QTypeOK, Send, sentBar, closedBar
  <2>2. Promise!Send(m)
    BY <2>1 DEF Promise!Send, sentBar, closedBar
  <2> QED
    BY <2>2 DEF Promise!Next
<1>2. ASSUME NEW m \in Messages, VisibilityExpires(m) PROVE UNCHANGED Promise!avars
  BY <1>2, Stutter DEF VisibilityExpires
<1>3. ASSUME NEW w \in Workers, WorkerStep(w)
      PROVE  Promise!Next \/ UNCHANGED Promise!avars
  <2>1. ASSUME NEW m \in Messages, Read(w, m) PROVE Promise!Next
    <3>1. Promise!Deliver(m)
      BY <2>1, HandsOutDelivers DEF Read
    <3> QED
      BY <3>1 DEF Promise!Next
  <2>2. CASE QueueEmpty(w) \/ HandlerThrows(w) \/ ArchiveFails(w) \/ Stop(w) \/ Crash(w)
    BY <2>2, Stutter DEF QueueEmpty, HandlerThrows, ArchiveFails, Stop, Crash
  <2>3. CASE ReadFails(w)
    <3>1. CASE UNCHANGED <<visible, readCt>>
      BY <2>3, <3>1, Stutter DEF ReadFails
    <3>2. ASSUME NEW m \in Messages, HandsOut(w, m) PROVE Promise!Next
      <4>1. Promise!Deliver(m)
        BY <2>3, <3>2, HandsOutDelivers DEF ReadFails
      <4> QED
        BY <4>1 DEF Promise!Next
    <3> QED
      BY <2>3, <3>1, <3>2 DEF ReadFails
  <2>4. CASE HandlerReturns(w)
    <3>1. /\ cur[w] \in Messages
          /\ table[cur[w]] # "unsent"
          /\ readCt[cur[w]] > 0
      BY <2>4 DEF QInv, InHand, HandlerReturns
    <3>2. Promise!Perform(cur[w])
      BY <2>4, <3>1 DEF HandlerReturns, Promise!Perform
    <3> QED
      BY <3>1, <3>2 DEF Promise!Next
  <2>5. CASE Archive(w)
    <3>0. PICK m \in Messages : m = cur[w]
      BY <2>5 DEF QInv, InHand, Archive
    <3>1. /\ m \in sentBar
          /\ m \in handled \/ readCt[m] > MaxReads
      BY <2>5, <3>0 DEF QInv, InHand, Archive, sentBar
    <3>2. /\ closedBar' = closedBar \union {m}
          /\ sentBar' = sentBar
          /\ UNCHANGED <<readCt, handled>>
      BY <2>5, <3>0, <3>1 DEF QInv, QTypeOK, Archive, sentBar, closedBar
    <3>3. Promise!Close(m)
      BY <3>1, <3>2 DEF Promise!Close, sentBar, closedBar
    <3> QED
      BY <3>3 DEF Promise!Next
  <2> QED
    BY <1>3, <2>1, <2>2, <2>3, <2>4, <2>5 DEF WorkerStep
<1>4. CASE UNCHANGED vars
  BY <1>4, Stutter DEF vars
<1> QED
  BY <1>1, <1>2, <1>3, <1>4, NextCases

\* The worker keeps what AtLeastOnce promises a sender: a job leaves the queue
\* only after a delivery was carried out or the cap was passed, and is not
\* handed out after that.
THEOREM WorkerImplementsPromise == Spec => ImplementsPromise
<1>1. Init => Promise!Init
  BY DEF Init, Promise!Init, Messages
<1>2. QInv /\ [Next]_vars => [Promise!Next]_(Promise!avars)
  BY StepImplements
<1> QED
  BY <1>1, <1>2, QInvariant, PTL DEF Spec, ImplementsPromise, Promise!Spec

=============================================================================
