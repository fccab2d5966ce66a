\* A request whose time has passed, answered on the superadmin route.
SPECIFICATION Spec
CONSTANTS
  r1 = r1
  r2 = r2
  c1 = c1
  c2 = c2
  h1 = h1
  h2 = h2
  a1 = a1
  w1 = w1
  Nowhere = Nowhere
  NoGrant = NoGrant
  NoRequest = NoRequest
  NoOne = NoOne
  Requests <- TwoRequests
  Callers <- TwoCallers
  Approvers <- TwoApprovers
  Actors <- OneActor
  ActorOf <- SamePrincipal
  Works <- OneWork
  SessionOf <- FirstInSession
  SubjectsOf <- FirstHasSubject
  Routes = {"superadmin"}
  MaxCalls = 3
  MaxFaults = 0
PROPERTY LapsedNeverApproved
CHECK_DEADLOCK FALSE
