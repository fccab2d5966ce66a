\* One run, two processes, one of them restarted; the inbox row of a parked run.
SPECIFICATION Spec
CONSTANTS
  None = None
  Runs = {r1}
  Hands = {h1}
  Procs = {p1, p2}
  Kinds = {"gate", "question", "wait"}
  Reviewed = {r1}
  MaxParks <- Twice
  MaxWaits = 1
  MaxRestarts = 1
INVARIANT RestartKeepsTheAsk
CHECK_DEADLOCK FALSE
