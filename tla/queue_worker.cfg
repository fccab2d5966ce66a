\* One worker is never stopped; handlers may fail for ever; in queue 2 the
\* visibility timeout may expire under a running handler.
SPECIFICATION FairSpec
CONSTANTS
  w1 = w1
  w2 = w2
  NumMsgs = 2
  NumQueues = 2
  QueueOf <- Alternate
  Workers <- Both
  Stoppable <- Second
  MaxReads = 2
  MaxFaults = 2
  PromptQueues = {1}
INVARIANTS QTypeOK HandlerCallsBounded ArchivedForCause OneWorkerPerMessage
PROPERTIES ImplementsPromise EveryMessageLeaves
CHECK_DEADLOCK FALSE
