\* Two calls and two people who answer, on two of the four routes.
SPECIFICATION Spec
CONSTANTS
  r1 = r1
  r2 = r2
  c1 = c1
  c2 = c2
  h1 = h1
  h2 = h2
  a1 = a1
  w1 = w1
  Nowhere = Nowhere
  NoGrant = NoGrant
  NoRequest = NoRequest
  NoOne = NoOne
  Requests <- TwoRequests
  Callers <- TwoCallers
  Approvers <- TwoApprovers
  Actors <- OneActor
  ActorOf <- SamePrincipal
  Works <- OneWork
  SessionOf <- FirstInSession
  SubjectsOf <- FirstHasSubject
  Routes = {"tenant", "connections"}
  MaxCalls = 3
  MaxFaults = 1
SYMMETRY Symmetry
INVARIANTS TypeOK ApprovedIsGranted GrantsFollowDecisions OnlyTheDeciderIsTold
PROPERTIES ImplementsPromise StacksOnlyInARace
CHECK_DEADLOCK FALSE
