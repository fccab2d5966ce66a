\* Two tasks share the lane of one agent: steps fail, the process crashes,
\* messages are redelivered.
SPECIFICATION Spec
CONSTANTS
  t1 = t1
  t2 = t2
  a1 = a1
  a2 = a2
  NoTask = NoTask
  NoAgent = NoAgent
  Tasks <- TwoTasks
  Agents <- OneAgent
  MaxRuns = 3
  MaxRetries = 1
  MaxFaults = 1
  MaxEdits = 1
  EditStatuses = {"done"}
  Outcomes = {"completed", "asked"}
  Env = {"crash", "throw", "redeliver"}
SYMMETRY TaskSymmetry
INVARIANTS WorkingRunHoldsClaim RedeliveryHarmless NothingForgotten
PROPERTY ImplementsLease
CHECK_DEADLOCK FALSE
