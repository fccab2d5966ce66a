----------------------------- MODULE Approvals -----------------------------
(***************************************************************************)
(* The approval store (packages/approvals-sdk) between its users: the gate *)
(* every module operation passes (apps/core/src/security), which spends a  *)
(* grant or files a request, and the four routes on which people answer.   *)
(*                                                                         *)
(* Callers and approvers are requests to the API that run concurrently; an *)
(* action is one database call and the code up to the next.  All calls are *)
(* of one operation of one module and one tenant: every query filters by   *)
(* these, so the rows of two operations never meet.                        *)
(***************************************************************************)
EXTENDS Naturals

CONSTANTS Requests,     \* ids of approval_requests rows
          Callers,      \* calls of the operation in flight
          Approvers,    \* people who answer
          Actors, ActorOf,           \* the principal each caller acts as
          Works,                     \* sessions, threads, tasks, agents, ...
          SessionOf, SubjectsOf,     \* the ones a caller works under
          Nowhere, NoGrant, NoRequest, NoOne,
          Routes,       \* the routes in use
          MaxCalls,     \* bound: calls made
          MaxFaults     \* bound: grants that fail to be written

ASSUME ApprovalsAssumption ==
  /\ ActorOf \in [Callers -> Actors]
  /\ SessionOf \in [Callers -> Works \union {Nowhere}]
  /\ SubjectsOf \in [Callers -> SUBSET Works]
  /\ Nowhere \notin Works
  /\ NoRequest \notin Requests
  /\ NoOne \notin Approvers \union Actors
  /\ Routes \subseteq {"tenant", "superadmin", "mcp", "connections"}
  /\ MaxCalls \in Nat
  /\ MaxFaults \in Nat

Scopes == {"once", "session", "policy"}
Bounds == Works \union {Nowhere}

\* approval_grants rows, named by the request they answer and who granted them.
Grants == [req : Requests, by : Approvers, scope : Scopes, actor : Actors,
           bound : Bounds]

ASSUME NoGrantAssumption == NoGrant \notin Grants

VARIABLES
  status, asker,   \* approval_requests: status and actor_id
  decidedBy,       \* approval_requests: decided_by
  lapsed,          \* requests whose expires_at has passed
  grants,          \* approval_grants
  expired,         \* grants whose expires_at has passed
  at,              \* where each caller is
  chosen, standing, \* the once grant it wants to burn; the others it has seen
  known,           \* the requests that existed when it looked for its own
  doing,           \* where each approver is
  answer,          \* the request an approver answers, and how
  told,            \* announced on the connections route: <<request, approver>>
  given,           \* history: every grant ever written
  through, spent,  \* history: grants the callers passed on; once grants burned
  orphaned,        \* history: approved requests whose approver died first
  calls, faults    \* bounds

requestVars == <<status, asker, decidedBy, lapsed>>
grantVars == <<grants, expired, given>>
callerVars == <<at, chosen, standing, known, through, spent, calls>>
approverVars == <<doing, answer, told, orphaned, faults>>
vars == <<requestVars, grantVars, callerVars, approverVars>>

Answers == [req : Requests \union {NoRequest}, scope : Scopes \union {"deny"},
            bound : Bounds, route : Routes \union {"none"}]
NoAnswer == [req |-> NoRequest, scope |-> "deny", bound |-> Nowhere,
             route |-> "none"]

TypeOK ==
  /\ status \in [Requests -> {"none", "pending", "approved", "denied"}]
  /\ asker \in [Requests -> Actors \union {NoOne}]
  /\ decidedBy \in [Requests -> Approvers \union {NoOne}]
  /\ lapsed \subseteq Requests
  /\ grants \subseteq Grants
  /\ expired \subseteq Grants
  /\ at \in [Callers -> {"idle", "burn", "ask", "file", "through"}]
  /\ chosen \in [Callers -> Grants \union {NoGrant}]
  /\ standing \in [Callers -> SUBSET Grants]
  /\ known \in [Callers -> SUBSET Requests]
  /\ doing \in [Approvers -> {"idle", "decide", "mint", "tell"}]
  /\ answer \in [Approvers -> Answers]
  /\ told \subseteq Requests \X Approvers
  /\ given \subseteq Grants
  /\ through \in [Callers -> Grants \union {NoGrant}]
  /\ spent \subseteq Grants
  /\ orphaned \subseteq Requests
  /\ calls \in 0..MaxCalls
  /\ faults \in 0..MaxFaults

Init ==
  /\ status = [r \in Requests |-> "none"]
  /\ asker = [r \in Requests |-> NoOne]
  /\ decidedBy = [r \in Requests |-> NoOne]
  /\ lapsed = {}
  /\ grants = {}
  /\ expired = {}
  /\ at = [c \in Callers |-> "idle"]
  /\ chosen = [c \in Callers |-> NoGrant]
  /\ standing = [c \in Callers |-> {}]
  /\ known = [c \in Callers |-> {}]
  /\ doing = [h \in Approvers |-> "idle"]
  /\ answer = [h \in Approvers |-> NoAnswer]
  /\ told = {}
  /\ given = {}
  /\ through = [c \in Callers |-> NoGrant]
  /\ spent = {}
  /\ orphaned = {}
  /\ calls = 0
  /\ faults = 0

-----------------------------------------------------------------------------
(* A gated call: consumeApprovalGrant, then fileApprovalRequest *)

\* The filter of consumeApprovalGrant: WHO and WHERE.  A session grant holds in
\* its session, any other bound grant under its subject, an unbound one
\* wherever its actor works.
Covers(c, g) ==
  /\ g.actor = ActorOf[c]
  /\ IF g.scope = "session"
     THEN g.bound # Nowhere /\ g.bound = SessionOf[c]
     ELSE g.bound = Nowhere \/ g.bound \in SubjectsOf[c]
Coverage == {p \in Callers \X Grants : Covers(p[1], p[2])}

Candidates(c) == {g \in grants \ expired : Covers(c, g)}
Single(gs) == {g \in gs : g.scope = "once"}

\* The call goes through on g.
Passes(c, g) ==
  /\ at' = [at EXCEPT ![c] = "through"]
  /\ through' = [through EXCEPT ![c] = g]

\* evaluatePolicy reads the grants.  A standing one lets the call through, but
\* a single-use one is preferred; with neither a person is asked.
Call(c) ==
  /\ at[c] = "idle"
  /\ calls < MaxCalls
  /\ calls' = calls + 1
  /\ \/ /\ Candidates(c) = {}
        /\ at' = [at EXCEPT ![c] = "ask"]
        /\ UNCHANGED <<chosen, standing, through>>
     \/ /\ Single(Candidates(c)) = {}
        /\ \E g \in Candidates(c) : Passes(c, g)
        /\ UNCHANGED <<chosen, standing>>
     \/ \E g \in Single(Candidates(c)) :
          /\ at' = [at EXCEPT ![c] = "burn"]
          /\ chosen' = [chosen EXCEPT ![c] = g]
          /\ standing' =
               [standing EXCEPT ![c] = Candidates(c) \ Single(Candidates(c))]
          /\ UNCHANGED through
  /\ UNCHANGED <<requestVars, grantVars, approverVars, known, spent>>

\* Wrong: the call passes whether or not its delete returned a row.
BurnBlindly(c) ==
  /\ at[c] = "burn"
  /\ grants' = grants \ {chosen[c]}
  /\ Passes(c, chosen[c])
  /\ spent' = spent \union {chosen[c]}
  /\ chosen' = [chosen EXCEPT ![c] = NoGrant]
  /\ standing' = [standing EXCEPT ![c] = {}]
  /\ UNCHANGED <<requestVars, expired, given, approverVars, known, calls>>

\* The delete of the single-use grant decides who may use it; the loser falls
\* back on a standing grant it has seen.
Burn(c) ==
  /\ at[c] = "burn"
  /\ grants' = grants \ {chosen[c]}
  /\ \/ /\ chosen[c] \in grants
        /\ Passes(c, chosen[c])
        /\ spent' = spent \union {chosen[c]}
     \/ /\ chosen[c] \notin grants
        /\ \E g \in standing[c] : Passes(c, g)
        /\ UNCHANGED spent
     \/ /\ chosen[c] \notin grants
        /\ standing[c] = {}
        /\ at' = [at EXCEPT ![c] = "ask"]
        /\ UNCHANGED <<through, spent>>
  /\ chosen' = [chosen EXCEPT ![c] = NoGrant]
  /\ standing' = [standing EXCEPT ![c] = {}]
  /\ UNCHANGED <<requestVars, expired, given, approverVars, known, calls>>

\* The operation has run.
Return(c) ==
  /\ at[c] = "through"
  /\ at' = [at EXCEPT ![c] = "idle"]
  /\ through' = [through EXCEPT ![c] = NoGrant]
  /\ UNCHANGED <<requestVars, grantVars, approverVars, chosen, standing, known,
                 spent, calls>>

Filed == {r \in Requests : status[r] # "none"}
LiveAsks(actor) ==
  {r \in Requests : status[r] = "pending" /\ r \notin lapsed /\ asker[r] = actor}

\* Wrong: a retry files again whatever it finds.
FindNothing(c) ==
  /\ at[c] = "ask"
  /\ at' = [at EXCEPT ![c] = "file"]
  /\ known' = [known EXCEPT ![c] = Filed]
  /\ UNCHANGED <<requestVars, grantVars, approverVars, chosen, standing,
                 through, spent, calls>>

\* request(): the caller's live request, if there is one, is the answer.
FindRequest(c) ==
  /\ at[c] = "ask"
  /\ IF LiveAsks(ActorOf[c]) = {}
     THEN /\ at' = [at EXCEPT ![c] = "file"]
          /\ known' = [known EXCEPT ![c] = Filed]
     ELSE /\ at' = [at EXCEPT ![c] = "idle"]
          /\ UNCHANGED known
  /\ UNCHANGED <<requestVars, grantVars, approverVars, chosen, standing,
                 through, spent, calls>>

\* request(): a new row.
FileRequest(c) ==
  /\ at[c] = "file"
  /\ \E r \in Requests \ Filed :
       /\ status' = [status EXCEPT ![r] = "pending"]
       /\ asker' = [asker EXCEPT ![r] = ActorOf[c]]
  /\ at' = [at EXCEPT ![c] = "idle"]
  /\ known' = [known EXCEPT ![c] = {}]
  /\ UNCHANGED <<decidedBy, lapsed, grantVars, approverVars, chosen, standing,
                 through, spent, calls>>

-----------------------------------------------------------------------------
(* An answer: a route reads the request, decide() writes it *)

\* What each route lets a person answer, and on whose work: a session approval
\* is bound to the session of the approver, the others to the subject in the
\* body, if there is one.
AnswersOn(route) ==
  [scope : {"once", "deny"}, bound : {Nowhere}] \union
  CASE route = "tenant" -> [scope : {"once", "policy"}, bound : Bounds] \union
                           [scope : {"session"}, bound : Works]
    [] route = "superadmin" -> [scope : {"session", "policy"}, bound : {Nowhere}]
    [] OTHER -> {}

\* toRequest: a pending request past its time is shown as expired.
ShownPending(r) == status[r] = "pending" /\ r \notin lapsed

\* What each route asks of the row before it calls decide: one looks at the
\* status as toRequest shows it, one as it is stored, two not at all.
MayAnswer(r, route) ==
  CASE route = "tenant" -> ShownPending(r)
    [] route = "connections" -> status[r] = "pending"
    [] OTHER -> status[r] # "none"

OpenAnswer(h, r, route) ==
  /\ doing[h] = "idle"
  /\ MayAnswer(r, route)
  /\ \E a \in AnswersOn(route) :
       answer' = [answer EXCEPT ![h] = [req |-> r, scope |-> a.scope,
                                        bound |-> a.bound, route |-> route]]
  /\ doing' = [doing EXCEPT ![h] = "decide"]
  /\ UNCHANGED <<requestVars, grantVars, callerVars, told, orphaned, faults>>

\* decide() is done.  Only the connections route has something left to do.
Answered(h) ==
  IF answer[h].route = "connections"
  THEN /\ doing' = [doing EXCEPT ![h] = "tell"]
       /\ UNCHANGED answer
  ELSE /\ doing' = [doing EXCEPT ![h] = "idle"]
       /\ answer' = [answer EXCEPT ![h] = NoAnswer]

\* Wrong: the update is by id alone.
WinsById(r) == status[r] # "none"
\* decideApprovalRequest writes only a row that is still pending, whatever its
\* expires_at.
Wins(r) == status[r] = "pending"

\* Wrong: every decision writes a grant.
ImpliesAlways(scope) == TRUE
\* Wrong: no grant for an allow-once.
ImpliesIfStanding(scope) == scope \in {"session", "policy"}
\* The approvals write a grant.
ImpliesGrant(scope) == scope # "deny"

\* The loser of a race gets the decided row back.
DecideRequest(h) ==
  LET r == answer[h].req
      decision == IF answer[h].scope = "deny" THEN "denied" ELSE "approved" IN
  /\ doing[h] = "decide"
  /\ IF Wins(r)
     THEN /\ status' = [status EXCEPT ![r] = decision]
          /\ decidedBy' = [decidedBy EXCEPT ![r] = h]
     ELSE UNCHANGED <<status, decidedBy>>
  /\ IF Wins(r) /\ ImpliesGrant(answer[h].scope)
     THEN doing' = [doing EXCEPT ![h] = "mint"] /\ UNCHANGED answer
     ELSE Answered(h)
  /\ UNCHANGED <<asker, lapsed, grantVars, callerVars, told, orphaned, faults>>

\* decide() writes the grant the approval implies.
MintGrant(h) ==
  LET r == answer[h].req
      g == [req |-> r, by |-> h, scope |-> answer[h].scope, actor |-> asker[r],
            bound |-> answer[h].bound] IN
  /\ doing[h] = "mint"
  /\ grants' = grants \union {g}
  /\ given' = given \union {g}
  /\ Answered(h)
  /\ UNCHANGED <<requestVars, expired, callerVars, told, orphaned, faults>>

\* The process dies, or the insert fails, between the two writes of decide().
MintFails(h) ==
  /\ doing[h] = "mint"
  /\ faults < MaxFaults
  /\ faults' = faults + 1
  /\ orphaned' = orphaned \union {answer[h].req}
  /\ doing' = [doing EXCEPT ![h] = "idle"]
  /\ answer' = [answer EXCEPT ![h] = NoAnswer]
  /\ UNCHANGED <<requestVars, grantVars, callerVars, told>>

\* Wrong: whoever gets a decided row back is told.
TellAnyone(h) ==
  /\ doing[h] = "tell"
  /\ told' = told \union {<<answer[h].req, h>>}
  /\ doing' = [doing EXCEPT ![h] = "idle"]
  /\ answer' = [answer EXCEPT ![h] = NoAnswer]
  /\ UNCHANGED <<requestVars, grantVars, callerVars, orphaned, faults>>

\* The connections route reports success, and tells the tasks module, only when
\* the row names its caller as the one who decided.
TellDecision(h) ==
  LET r == answer[h].req IN
  /\ doing[h] = "tell"
  /\ told' = IF decidedBy[r] = h THEN told \union {<<r, h>>} ELSE told
  /\ doing' = [doing EXCEPT ![h] = "idle"]
  /\ answer' = [answer EXCEPT ![h] = NoAnswer]
  /\ UNCHANGED <<requestVars, grantVars, callerVars, orphaned, faults>>

-----------------------------------------------------------------------------
(* Time and revocation *)

RequestLapses(r) ==
  /\ ShownPending(r)
  /\ lapsed' = lapsed \union {r}
  /\ UNCHANGED <<status, asker, decidedBy, grantVars, callerVars, approverVars>>

\* GRANT_TTL_MS: policy grants have no end.
GrantExpires(g) ==
  /\ g \in grants \ expired
  /\ g.scope # "policy"
  /\ expired' = expired \union {g}
  /\ UNCHANGED <<requestVars, grants, given, callerVars, approverVars>>

\* revokeApprovalGrantsForSubject at logout; revokeApprovalGrant is scope-blind.
SessionEnds(w) ==
  /\ grants' = {g \in grants : g.scope # "session" \/ g.bound # w}
  /\ grants' # grants
  /\ UNCHANGED <<requestVars, expired, given, callerVars, approverVars>>

RevokeGrants(w) ==
  /\ grants' = {g \in grants : g.bound # w}
  /\ grants' # grants
  /\ UNCHANGED <<requestVars, expired, given, callerVars, approverVars>>

-----------------------------------------------------------------------------
CallStep(c) ==
  Call(c) \/ Burn(c) \/ Return(c) \/ FindRequest(c) \/ FileRequest(c)
ApproverStep(h) ==
  \/ \E r \in Requests, route \in Routes : OpenAnswer(h, r, route)
  \/ DecideRequest(h) \/ MintGrant(h) \/ MintFails(h) \/ TellDecision(h)
Next ==
  \/ \E c \in Callers : CallStep(c)
  \/ \E h \in Approvers : ApproverStep(h)
  \/ \E r \in Requests : RequestLapses(r)
  \/ \E g \in grants : GrantExpires(g)
  \/ \E w \in Works : SessionEnds(w) \/ RevokeGrants(w)

Spec == Init /\ [][Next]_vars

-----------------------------------------------------------------------------
(* Properties *)

\* Every call that goes through does so on an approval that was given for a
\* request of its actor and covers its work, one approval per request, and an
\* allow-once on one call only, however the reads and deletes of callers and
\* the writes of approvers interleave (consumeApprovalGrant, decide).
Promise == INSTANCE ApprovalPromise
ImplementsPromise == Promise!Spec

\* A yes is never lost between the two writes of decide() unless the approver's
\* request died there: the grant is written, or is about to be.
ApprovedIsGranted ==
  \A r \in Requests : status[r] = "approved" =>
    \/ \E g \in given : g.req = r
    \/ \E h \in Approvers : doing[h] = "mint" /\ answer[h].req = r
    \/ r \in orphaned

\* Every grant ever written answers a request that was approved and stays so,
\* and names the one approver whose answer was first: the loser of a race
\* writes none.
GrantsFollowDecisions ==
  \A g \in given : /\ status[g.req] = "approved"
                   /\ decidedBy[g.req] = g.by
                   /\ asker[g.req] = g.actor

\* On the connections route only the approver who decided a request is told it
\* worked, so the blocked task is resumed on one answer (decideApprovalRequest
\* of connections-sdk).
OnlyTheDeciderIsTold ==
  \A t \in told : decidedBy[t[1]] = t[2]

\* A caller that retries files no second request next to a live one it could
\* have found: requests stack up only when two calls looked at the same time
\* (request() of the approval service).
StacksOnlyInARace ==
  [][\A c \in Callers : (at[c] = "file" /\ at'[c] = "idle") =>
       LiveAsks(ActorOf[c]) \intersect known[c] = {}]_vars

\* What the comments of the service and the store say: a request whose time has
\* passed is never approved (approvals-sdk service.ts:43-45).
LapsedNeverApproved ==
  [][\A r \in lapsed : status[r] = "pending" => status'[r] # "approved"]_vars

=============================================================================
