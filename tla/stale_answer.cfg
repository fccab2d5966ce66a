\* One run with two gates, one person with an old page.
SPECIFICATION Spec
CONSTANTS
  None = None
  Runs = {r1}
  Hands = {h1}
  Procs = {p1}
  Kinds = {"gate"}
  Reviewed = {}
  MaxParks <- Twice
  MaxWaits = 0
  MaxRestarts = 0
PROPERTY AnswersAreNotFailed
CHECK_DEADLOCK FALSE
