\* Steps fail, the process crashes, with and without retries left; the reaper runs
\* and may fail to read a run.
SPECIFICATION FairSpec
CONSTANTS
  t1 = t1
  t2 = t2
  a1 = a1
  a2 = a2
  NoTask = NoTask
  NoAgent = NoAgent
  Tasks <- OneTask
  Agents <- OneAgent
  MaxRuns = 3
  MaxRetries = 1
  MaxFaults = 2
  MaxEdits = 0
  EditStatuses = {"todo"}
  Outcomes = {"completed"}
  Env = {"crash", "throw", "reaper", "misread"}
INVARIANTS TypeOK InProgressIsClaimed
PROPERTIES DispatchServed DeadClaimReleased
CHECK_DEADLOCK FALSE
