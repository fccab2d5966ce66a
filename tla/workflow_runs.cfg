\* One reviewed run that stops up to twice, one person at it from any page, two
\* processes that sweep with lists of their own, one of them restarted once.
SPECIFICATION FairSpec
CONSTANTS
  None = None
  Runs = {r1}
  Hands = {h1}
  Procs = {p1, p2}
  Kinds = {"gate", "question", "wait"}
  Reviewed = {r1}
  MaxParks <- Twice
  MaxWaits = 1
  MaxRestarts = 1
INVARIANTS TypeOK WokenOnce ParkedRunsAreFound NoAskOutlivesItsRun SettledIsOver GatesBlockPresses
PROPERTIES WaitsEnd EndsAreRecorded
CHECK_DEADLOCK FALSE
