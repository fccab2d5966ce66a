\* Violation: two agents replace each other as stale.
SPECIFICATION Spec
CONSTANTS
  t1 = t1
  t2 = t2
  a1 = a1
  a2 = a2
  NoTask = NoTask
  NoAgent = NoAgent
  Tasks <- OneTask
  Agents <- TwoAgents
  MaxRuns = 2
  MaxRetries = 1
  MaxFaults = 0
  MaxEdits = 1
  EditStatuses = {"todo", "done"}
  Outcomes = {"completed"}
  Env = {"reassign"}
INVARIANTS OneSpecialistPerTask
CHECK_DEADLOCK FALSE
