\* Two agents; people reassign, release and edit; sends get lost.
SPECIFICATION Spec
CONSTANTS
  t1 = t1
  t2 = t2
  a1 = a1
  a2 = a2
  NoTask = NoTask
  NoAgent = NoAgent
  Tasks <- OneTask
  Agents <- TwoAgents
  MaxRuns = 2
  MaxRetries = 1
  MaxFaults = 1
  MaxEdits = 2
  EditStatuses = {"todo"}
  Outcomes = {"asked", "completed"}
  Env = {"crash", "throw", "lost_send", "reassign", "release"}
INVARIANTS ReportedRunHoldsNothing
CHECK_DEADLOCK FALSE
