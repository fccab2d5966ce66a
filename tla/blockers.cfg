\* Two updates that meet, of any graph: status, blockers or both.
SPECIFICATION FreshSpec
CONSTANTS
  t1 = t1
  t2 = t2
  t3 = t3
  h1 = h1
  h2 = h2
  NoTask = NoTask
  Tasks <- ThreeTasks
  Handlers <- TwoHandlers
  InitialGraphs <- AnyGraph
  InitialStatuses = {"backlog", "blocked"}
  PatchStatuses = {"todo", "done"}
  PatchBlockers <- AllSets
  MaxCalls = 2
  MaxFaults = 1
SYMMETRY RowSymmetry
INVARIANTS TypeOK BlockersAcyclic NoLostWakeUp
CHECK_DEADLOCK FALSE
