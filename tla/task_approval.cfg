\* One answer after the other, to a parked task; core gates one operation.
SPECIFICATION FairSpec
CONSTANTS
  o1 = o1
  o2 = o2
  h1 = h1
  Ops <- TwoOps
  CoreGated <- OneOp
  Humans <- OneHuman
  Policies <- BothPolicies
  Routes <- QueueIfDeferred
  Hurry = {}
  Edits = {"todo", "blocked", "cancelled"}
  MaxRuns = 3
  MaxCalls = 3
  MaxAnswers = 4
  MaxEdits = 1
  MaxFaults = 1
INVARIANTS TypeOK OnceServesOneRun ApprovedAskCleared
PROPERTIES AnsweredTaskRuns ApprovalGetsThrough NoAskWiped
CHECK_DEADLOCK FALSE
