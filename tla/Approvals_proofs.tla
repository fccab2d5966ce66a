-------------------------- MODULE Approvals_proofs --------------------------
(***************************************************************************)
(* The approval store for any number of requests, callers, approvers and   *)
(* kinds of work: its types, why every grant follows from one decision,    *)
(* and that it implements ApprovalPromise.                                 *)
(*                                                                         *)
(* The inductive invariant adds what the handlers remember between two     *)
(* database calls: the approver about to write a grant is the one whose    *)
(* decision stands and has written none yet, and the grants a caller holds *)
(* in its hand were given and cover its call.                              *)
(***************************************************************************)
EXTENDS Approvals, TLAPS

\* An answer names a request that exists; one about to be written is the
\* decision that stands, and no grant has been written for it.
Answering ==
  \A h \in Approvers : doing[h] # "idle" =>
    /\ answer[h].req \in Requests
    /\ status[answer[h].req] # "none"
    /\ doing[h] = "mint" => /\ status[answer[h].req] = "approved"
                            /\ decidedBy[answer[h].req] = h
                            /\ answer[h].scope \in Scopes
                            /\ \A g \in given : g.req # answer[h].req

OneGrantPerRequest == \A f, g \in given : f.req = g.req => f = g

\* Who asked is known of every request that exists.
AskerKnown == \A r \in Requests : status[r] # "none" => asker[r] \in Actors

\* What a caller that is about to burn a grant has read.
InHand ==
  \A c \in Callers :
    /\ at[c] = "burn" => /\ chosen[c] \in given
                         /\ chosen[c].scope = "once"
                         /\ Covers(c, chosen[c])
    /\ \A g \in standing[c] : g \in given /\ g.scope # "once" /\ Covers(c, g)
    /\ at[c] # "through" => through[c] = NoGrant

\* Grants in the table were given, and one that was burned is not there.
Ledger == grants \subseteq given /\ grants \intersect spent = {}

AInv ==
  /\ TypeOK
  /\ Answering
  /\ OneGrantPerRequest
  /\ AskerKnown
  /\ GrantsFollowDecisions
  /\ InHand
  /\ Ledger
  /\ spent \subseteq given

LEMMA InitInv == Init => AInv
  BY ApprovalsAssumption, NoGrantAssumption
  DEF Init, AInv, TypeOK, Answering, OneGrantPerRequest, AskerKnown,
      GrantsFollowDecisions, InHand, Ledger, Answers, NoAnswer, Bounds

LEMMA GrantFields ==
  ASSUME NEW g \in Grants
  PROVE  /\ g.req \in Requests
         /\ g.by \in Approvers
         /\ g.scope \in Scopes
         /\ g.bound \in Bounds
  BY DEF Grants

LEMMA CallInv ==
  ASSUME AInv, NEW c \in Callers, Call(c)
  PROVE  AInv'
<1> USE DEF Call, AInv, requestVars, grantVars, approverVars, Passes
<1>1. TypeOK'
  BY ApprovalsAssumption DEF TypeOK, Candidates, Single
<1>2. InHand'
  BY DEF InHand, TypeOK, Candidates, Single, Ledger, Covers
<1>3. /\ Answering' /\ OneGrantPerRequest' /\ AskerKnown'
      /\ GrantsFollowDecisions' /\ Ledger' /\ (spent \subseteq given)'
  BY DEF Answering, OneGrantPerRequest, AskerKnown, GrantsFollowDecisions, Ledger
<1> QED
  BY <1>1, <1>2, <1>3

LEMMA BurnInv ==
  ASSUME AInv, NEW c \in Callers, Burn(c)
  PROVE  AInv'
<1> USE DEF Burn, AInv, requestVars, approverVars, Passes
<1>1. TypeOK'
  BY DEF TypeOK, InHand
<1>2. InHand'
  BY DEF InHand, TypeOK, Covers
<1>3. Ledger' /\ (spent \subseteq given)'
  BY DEF Ledger, InHand, TypeOK
<1>4. /\ Answering' /\ OneGrantPerRequest' /\ AskerKnown'
      /\ GrantsFollowDecisions'
  BY DEF Answering, OneGrantPerRequest, AskerKnown, GrantsFollowDecisions
<1> QED
  BY <1>1, <1>2, <1>3, <1>4

LEMMA ReturnInv ==
  ASSUME AInv, NEW c \in Callers, Return(c) \/ FindRequest(c)
  PROVE  AInv'
<1> USE DEF Return, FindRequest, AInv, requestVars, grantVars, approverVars
<1>1. TypeOK'
  BY DEF TypeOK, Filed
<1>2. InHand'
  BY DEF InHand, TypeOK, Covers
<1>3. /\ Answering' /\ OneGrantPerRequest' /\ AskerKnown'
      /\ GrantsFollowDecisions' /\ Ledger' /\ (spent \subseteq given)'
  BY DEF Answering, OneGrantPerRequest, AskerKnown, GrantsFollowDecisions, Ledger
<1> QED
  BY <1>1, <1>2, <1>3

LEMMA FileInv ==
  ASSUME AInv, NEW c \in Callers, FileRequest(c)
  PROVE  AInv'
<1> USE DEF AInv
<1>1. PICK r \in Requests \ Filed :
        /\ status' = [status EXCEPT ![r] = "pending"]
        /\ asker' = [asker EXCEPT ![r] = ActorOf[c]]
  BY DEF FileRequest
<1>2. status[r] = "none"
  BY DEF Filed
<1>3. /\ at' = [at EXCEPT ![c] = "idle"] /\ at[c] = "file"
      /\ known' = [known EXCEPT ![c] = {}]
      /\ UNCHANGED <<decidedBy, lapsed, grants, expired, given, doing, answer,
                     told, orphaned, faults, chosen, standing, through, spent,
                     calls>>
  BY DEF FileRequest, grantVars, approverVars
<1> HIDE DEF AInv
<1>4. TypeOK'
  BY <1>1, <1>3, ApprovalsAssumption DEF TypeOK, AInv
<1>5. AskerKnown'
  BY <1>1, ApprovalsAssumption DEF AskerKnown, TypeOK, AInv
<1>6. Answering'
  BY <1>1, <1>2, <1>3 DEF Answering, TypeOK, AInv
<1>7. GrantsFollowDecisions'
  BY <1>1, <1>2, <1>3, GrantFields DEF GrantsFollowDecisions, TypeOK, AInv
<1>8. InHand'
  BY <1>3 DEF InHand, TypeOK, Covers, AInv
<1> QED
  BY <1>3, <1>4, <1>5, <1>6, <1>7, <1>8 DEF AInv, OneGrantPerRequest, Ledger

LEMMA OpenInv ==
  ASSUME AInv, NEW h \in Approvers, NEW r \in Requests, NEW route \in Routes,
         OpenAnswer(h, r, route)
  PROVE  AInv'
<1> USE DEF AInv
<1>1. PICK a \in AnswersOn(route) :
        answer' = [answer EXCEPT ![h] = [req |-> r, scope |-> a.scope,
                                         bound |-> a.bound, route |-> route]]
  BY DEF OpenAnswer
<1>2. a.scope \in Scopes \union {"deny"} /\ a.bound \in Bounds
  BY DEF AnswersOn, Scopes, Bounds
<1>3. status[r] # "none"
  BY DEF OpenAnswer, MayAnswer, ShownPending
<1>4. /\ doing' = [doing EXCEPT ![h] = "decide"]
      /\ UNCHANGED <<requestVars, grantVars, callerVars, told, orphaned, faults>>
  BY DEF OpenAnswer
<1>5. TypeOK'
  BY <1>1, <1>2, <1>4 DEF TypeOK, Answers, requestVars, grantVars, callerVars
<1>6. Answering'
  BY <1>1, <1>3, <1>4
  DEF Answering, TypeOK, requestVars, grantVars, callerVars
<1>7. InHand'
  BY <1>4 DEF InHand, Covers, callerVars, grantVars
<1> QED
  BY <1>4, <1>5, <1>6, <1>7
  DEF OneGrantPerRequest, AskerKnown, GrantsFollowDecisions, Ledger,
      requestVars, grantVars, callerVars

\* What is left of an approver's request when decide() is done.
LEMMA AnsweredEffect ==
  ASSUME TypeOK, NEW h \in Approvers, Answered(h)
  PROVE  /\ doing' \in [Approvers -> {"idle", "decide", "mint", "tell"}]
         /\ answer' \in [Approvers -> Answers]
         /\ \A k \in Approvers \ {h} :
              doing'[k] = doing[k] /\ answer'[k] = answer[k]
         /\ doing'[h] \in {"idle", "tell"}
         /\ doing'[h] = "tell" => answer'[h] = answer[h]
<1>1. NoAnswer \in Answers
  BY DEF NoAnswer, Answers, Bounds
<1> QED
  BY <1>1 DEF Answered, TypeOK

LEMMA DecideInv ==
  ASSUME AInv, NEW h \in Approvers, DecideRequest(h)
  PROVE  AInv'
<1> USE DEF AInv
<1>1. PICK r \in Requests : r = answer[h].req
  BY DEF Answering, DecideRequest, Wins, ImpliesGrant
<1>2. /\ doing[h] = "decide" /\ status[r] # "none"
      /\ UNCHANGED <<asker, lapsed, grantVars, callerVars, told, orphaned, faults>>
  BY <1>1 DEF DecideRequest, Wins, ImpliesGrant, Answering
<1>3. doing' \in [Approvers -> {"idle", "decide", "mint", "tell"}]
      /\ answer' \in [Approvers -> Answers]
      /\ \A k \in Approvers \ {h} : doing'[k] = doing[k] /\ answer'[k] = answer[k]
  <2>1. CASE Answered(h)
    BY <2>1, AnsweredEffect
  <2>2. CASE ~Answered(h)
    BY <2>2 DEF DecideRequest, Wins, ImpliesGrant, TypeOK
  <2> QED
    BY <2>1, <2>2
<1>4. answer'[h] = answer[h] \/ doing'[h] = "idle"
  BY DEF DecideRequest, Wins, ImpliesGrant, Answered, TypeOK
<1>5. CASE status[r] # "pending"
  <2>1. UNCHANGED <<status, decidedBy>> /\ doing'[h] # "mint"
    BY <1>1, <1>5 DEF DecideRequest, Wins, ImpliesGrant, Answered, TypeOK
  <2>2. TypeOK'
    BY <1>2, <1>3, <2>1 DEF TypeOK, grantVars, callerVars
  <2>3. Answering'
    BY <1>1, <1>2, <1>3, <1>4, <2>1 DEF Answering, grantVars
  <2>4. InHand'
    BY <1>2 DEF InHand, Covers, callerVars, grantVars
  <2> QED
    BY <1>2, <2>1, <2>2, <2>3, <2>4
    DEF OneGrantPerRequest, AskerKnown, GrantsFollowDecisions, Ledger,
        grantVars, callerVars
<1>6. CASE status[r] = "pending"
  <2>1. /\ status' = [status EXCEPT ![r] = IF answer[h].scope # "deny"
                                           THEN "approved" ELSE "denied"]
        /\ decidedBy' = [decidedBy EXCEPT ![r] = h]
        /\ doing'[h] = "mint" => answer[h].scope # "deny" /\ answer'[h] = answer[h]
    BY <1>1, <1>6 DEF DecideRequest, Wins, ImpliesGrant, Answered, TypeOK
  <2>2. TypeOK'
    BY <1>2, <1>3, <2>1 DEF TypeOK, grantVars, callerVars
  <2>3. \A g \in given : g.req # r
    BY <1>6 DEF GrantsFollowDecisions
  <2>4. answer[h].scope # "deny" => answer[h].scope \in Scopes
    BY DEF TypeOK, Answers
  <2>5. \A k \in Approvers \ {h} : doing[k] = "mint" => answer[k].req # r
    BY <1>6 DEF Answering
  <2>6. Answering'
    <3> SUFFICES ASSUME NEW k \in Approvers, doing'[k] # "idle"
                 PROVE  Answering!(k)'
      BY DEF Answering
    <3>1. CASE k = h
      BY <3>1, <1>1, <1>2, <1>4, <2>1, <2>3, <2>4
      DEF Answering, TypeOK, grantVars
    <3>2. CASE k # h
      BY <3>2, <1>2, <1>3, <2>1, <2>5 DEF Answering, TypeOK, grantVars
    <3> QED
      BY <3>1, <3>2
  <2>7. AskerKnown'
    BY <1>2, <1>6, <2>1 DEF AskerKnown, TypeOK
  <2>8. GrantsFollowDecisions'
    BY <1>2, <2>1, <2>3, GrantFields
    DEF GrantsFollowDecisions, TypeOK, grantVars
  <2>9. InHand'
    BY <1>2 DEF InHand, Covers, callerVars, grantVars
  <2> QED
    BY <1>2, <2>2, <2>6, <2>7, <2>8, <2>9
    DEF OneGrantPerRequest, Ledger, grantVars, callerVars
<1> QED
  BY <1>5, <1>6

\* What an approver writes: the grant of a decision that has none yet.
LEMMA MintEffect ==
  ASSUME AInv, NEW h \in Approvers, MintGrant(h)
  PROVE  \E g \in Grants :
           /\ grants' = grants \union {g} /\ given' = given \union {g}
           /\ \A f \in given : f.req # g.req
           /\ status[g.req] = "approved" /\ decidedBy[g.req] = g.by
           /\ asker[g.req] = g.actor
           /\ g.req = answer[h].req
<1> DEFINE r == answer[h].req
           g == [req |-> r, by |-> h, scope |-> answer[h].scope,
                 actor |-> asker[r], bound |-> answer[h].bound]
<1>1. g \in Grants
  BY DEF MintGrant, AInv, Answering, AskerKnown, TypeOK, Answers, Grants
<1>2. /\ \A f \in given : f.req # r
      /\ status[r] = "approved" /\ decidedBy[r] = h
  BY DEF MintGrant, AInv, Answering
<1>3. grants' = grants \union {g} /\ given' = given \union {g}
  BY DEF MintGrant
<1> QED
  BY <1>1, <1>2, <1>3

LEMMA MintInv ==
  ASSUME AInv, NEW h \in Approvers, MintGrant(h)
  PROVE  AInv'
<1> USE DEF AInv
<1>1. PICK g \in Grants :
        /\ grants' = grants \union {g} /\ given' = given \union {g}
        /\ \A f \in given : f.req # g.req
        /\ status[g.req] = "approved" /\ decidedBy[g.req] = g.by
        /\ asker[g.req] = g.actor
        /\ g.req = answer[h].req
  BY MintEffect
<1>2. /\ doing[h] = "mint"
      /\ UNCHANGED <<requestVars, expired, callerVars, told, orphaned, faults>>
  BY DEF MintGrant
<1>3. /\ doing' \in [Approvers -> {"idle", "decide", "mint", "tell"}]
      /\ answer' \in [Approvers -> Answers]
      /\ \A k \in Approvers \ {h} : doing'[k] = doing[k] /\ answer'[k] = answer[k]
      /\ doing'[h] \in {"idle", "tell"}
      /\ doing'[h] = "tell" => answer'[h] = answer[h]
  BY AnsweredEffect DEF MintGrant
<1> HIDE DEF AInv
<1>4. TypeOK'
  BY <1>1, <1>2, <1>3 DEF AInv, TypeOK, requestVars, callerVars
<1>5. \A k \in Approvers \ {h} : doing[k] = "mint" => answer[k].req # g.req
  BY <1>1, <1>2 DEF AInv, Answering
<1>6. Answering'
  <2> SUFFICES ASSUME NEW k \in Approvers, doing'[k] # "idle"
               PROVE  Answering!(k)'
    BY DEF Answering
  <2>1. CASE k = h
    BY <2>1, <1>2, <1>3 DEF AInv, Answering, requestVars
  <2>2. CASE k # h
    BY <2>2, <1>1, <1>2, <1>3, <1>5 DEF AInv, Answering, requestVars
  <2> QED
    BY <2>1, <2>2
<1>7. OneGrantPerRequest'
  BY <1>1 DEF AInv, OneGrantPerRequest
<1>8. GrantsFollowDecisions' /\ AskerKnown'
  BY <1>1, <1>2 DEF AInv, GrantsFollowDecisions, AskerKnown, requestVars
<1>9. InHand'
  BY <1>1, <1>2 DEF AInv, InHand, Covers, callerVars
<1>10. Ledger' /\ (spent \subseteq given)'
  BY <1>1, <1>2 DEF AInv, Ledger, callerVars
<1> QED
  BY <1>4, <1>6, <1>7, <1>8, <1>9, <1>10 DEF AInv

LEMMA OtherApproverInv ==
  ASSUME AInv, NEW h \in Approvers, MintFails(h) \/ TellDecision(h)
  PROVE  AInv'
<1> USE DEF AInv, MintFails, TellDecision
<1>1. /\ doing' = [doing EXCEPT ![h] = "idle"]
      /\ answer' = [answer EXCEPT ![h] = NoAnswer]
      /\ UNCHANGED <<requestVars, grantVars, callerVars>>
  OBVIOUS
<1>2. doing[h] # "idle" /\ answer[h].req \in Requests
  BY DEF Answering
<1>3. NoAnswer \in Answers
  BY DEF NoAnswer, Answers, Bounds
<1>7. /\ told' \subseteq Requests \X Approvers
      /\ orphaned' \subseteq Requests
      /\ faults' \in 0..MaxFaults
  BY <1>2, ApprovalsAssumption DEF TypeOK
<1> HIDE DEF AInv, MintFails, TellDecision
<1>4. TypeOK'
  BY <1>1, <1>3, <1>7 DEF AInv, TypeOK, requestVars, grantVars, callerVars
<1> USE DEF AInv
<1>5. Answering'
  BY <1>1 DEF Answering, TypeOK, requestVars, grantVars
<1>6. InHand'
  BY <1>1 DEF InHand, Covers, callerVars, grantVars
<1> QED
  BY <1>1, <1>4, <1>5, <1>6
  DEF OneGrantPerRequest, AskerKnown, GrantsFollowDecisions, Ledger,
      requestVars, grantVars, callerVars

\* Time and revocation only take grants away or mark rows as out of date.
LEMMA TimeInv ==
  ASSUME AInv,
         \/ \E r \in Requests : RequestLapses(r)
         \/ \E g \in grants : GrantExpires(g)
         \/ \E w \in Works : SessionEnds(w) \/ RevokeGrants(w)
  PROVE  AInv'
<1>1. /\ grants' \subseteq grants
      /\ lapsed' \subseteq Requests /\ expired' \subseteq Grants
      /\ UNCHANGED <<status, asker, decidedBy, given, callerVars, approverVars>>
  BY DEF AInv, TypeOK, RequestLapses, GrantExpires, SessionEnds, RevokeGrants,
         requestVars, grantVars
<1>2. TypeOK'
  BY <1>1 DEF AInv, TypeOK, callerVars, approverVars
<1>3. Answering'
  BY <1>1 DEF AInv, Answering, approverVars
<1>4. InHand'
  BY <1>1 DEF AInv, InHand, Covers, callerVars
<1> QED
  BY <1>1, <1>2, <1>3, <1>4
  DEF AInv, OneGrantPerRequest, AskerKnown, GrantsFollowDecisions, Ledger,
      callerVars

LEMMA StutterInv ==
  ASSUME AInv, UNCHANGED vars
  PROVE  AInv'
<1>1. UNCHANGED <<requestVars, grantVars, callerVars, approverVars>>
  BY DEF vars
<1>2. TypeOK'
  BY <1>1 DEF AInv, TypeOK, requestVars, grantVars, callerVars, approverVars
<1>3. Answering'
  BY <1>1 DEF AInv, Answering, requestVars, grantVars, approverVars
<1>4. InHand'
  BY <1>1 DEF AInv, InHand, Covers, grantVars, callerVars
<1> QED
  BY <1>1, <1>2, <1>3, <1>4
  DEF AInv, OneGrantPerRequest, AskerKnown, GrantsFollowDecisions, Ledger,
      requestVars, grantVars, callerVars

LEMMA StepInv == AInv /\ [Next]_vars => AInv'
<1> SUFFICES ASSUME AInv, [Next]_vars PROVE AInv'
  OBVIOUS
<1>1. ASSUME NEW c \in Callers, CallStep(c) PROVE AInv'
  BY <1>1, CallInv, BurnInv, ReturnInv, FileInv DEF CallStep
<1>2. ASSUME NEW h \in Approvers, ApproverStep(h) PROVE AInv'
  BY <1>2, OpenInv, DecideInv, MintInv, OtherApproverInv DEF ApproverStep
<1>3. CASE UNCHANGED vars
  BY <1>3, StutterInv
<1> QED
  BY <1>1, <1>2, <1>3, TimeInv DEF Next

THEOREM ApprovalsInvariant == Spec => []AInv
  BY InitInv, StepInv, PTL DEF Spec

\* The rows and the handlers' memory have the shapes the code gives them.
THEOREM ApprovalsTypes == Spec => []TypeOK
<1>1. AInv => TypeOK
  BY DEF AInv
<1> QED
  BY <1>1, ApprovalsInvariant, PTL

\* Every grant was written for an approved request by the approver whose answer
\* was first, so a race between approvers writes one grant at most.
THEOREM GrantsFromDecisions == Spec => []GrantsFollowDecisions
<1>1. AInv => GrantsFollowDecisions
  BY DEF AInv
<1> QED
  BY <1>1, ApprovalsInvariant, PTL

-----------------------------------------------------------------------------
(* What approvers are told, what callers have looked at, and lost answers *)

\* Only decided rows name who decided them.
Undecided ==
  \A r \in Requests : status[r] \in {"none", "pending"} => decidedBy[r] = NoOne

\* Who was told decided, and that is final.
ToldAreDecided ==
  \A t \in told : /\ decidedBy[t[1]] = t[2]
                  /\ status[t[1]] \notin {"none", "pending"}

\* None of the requests a caller found before it files its own is live.
Looked ==
  \A c \in Callers : at[c] = "file" =>
    \A q \in known[c] : status[q] # "none" /\ q \notin LiveAsks(ActorOf[c])

BInv == Undecided /\ ToldAreDecided /\ Looked /\ ApprovedIsGranted

LEMMA BInvInit == Init => BInv
  BY DEF Init, BInv, Undecided, ToldAreDecided, Looked, ApprovedIsGranted

\* Everything but a decision, a new row and an insert keeps it: the rows stay,
\* or only get older, and no caller forgets what it has seen.
LEMMA QuietB ==
  ASSUME AInv, BInv,
         UNCHANGED <<status, asker, decidedBy, given, doing, answer, told,
                     orphaned>>,
         lapsed \subseteq lapsed',
         \A c \in Callers : at'[c] = "file" =>
            at[c] = "file" /\ known'[c] = known[c]
  PROVE  BInv'
  BY DEF BInv, Undecided, ToldAreDecided, Looked, LiveAsks, ApprovedIsGranted

LEMMA CallB ==
  ASSUME AInv, BInv, NEW c \in Callers, CallStep(c)
  PROVE  BInv'
<1>1. CASE Call(c) \/ Burn(c) \/ Return(c)
  <2>1. /\ UNCHANGED <<requestVars, given, approverVars, known>>
        /\ at' \in [Callers -> {"idle", "burn", "ask", "file", "through"}]
        /\ at'[c] # "file"
        /\ \A d \in Callers \ {c} : at'[d] = at[d]
    BY <1>1 DEF Call, Burn, Return, Passes, grantVars, AInv, TypeOK
  <2> QED
    BY <2>1, QuietB DEF requestVars, approverVars
<1>2. CASE FindRequest(c)
  <2>1. UNCHANGED <<requestVars, grantVars, approverVars>>
    BY <1>2 DEF FindRequest
  <2>2. Looked'
    <3> SUFFICES ASSUME NEW d \in Callers, at'[d] = "file",
                        NEW q \in known'[d]
                 PROVE  status[q] # "none" /\ q \notin LiveAsks(ActorOf[d])
      BY <2>1 DEF Looked, LiveAsks, requestVars
    <3>1. CASE d = c
      BY <3>1, <1>2 DEF FindRequest, Filed, AInv, TypeOK
    <3>2. CASE d # c
      BY <3>2, <1>2 DEF FindRequest, BInv, Looked, AInv, TypeOK
    <3> QED
      BY <3>1, <3>2
  <2> QED
    BY <2>1, <2>2
    DEF BInv, Undecided, ToldAreDecided, ApprovedIsGranted, requestVars,
        grantVars, approverVars
<1>3. CASE FileRequest(c)
  <2>1. PICK r \in Requests \ Filed :
          /\ status' = [status EXCEPT ![r] = "pending"]
          /\ asker' = [asker EXCEPT ![r] = ActorOf[c]]
    BY <1>3 DEF FileRequest
  <2>2. /\ status[r] = "none"
        /\ UNCHANGED <<decidedBy, lapsed, grantVars, approverVars>>
        /\ at' = [at EXCEPT ![c] = "idle"] /\ known' = [known EXCEPT ![c] = {}]
    BY <1>3 DEF Filed, FileRequest
  <2>3. Undecided'
    BY <2>1, <2>2 DEF BInv, Undecided, AInv, TypeOK
  <2>4. ToldAreDecided'
    BY <2>1, <2>2 DEF BInv, ToldAreDecided, AInv, TypeOK, approverVars
  <2>5. Looked'
    <3> SUFFICES ASSUME NEW d \in Callers, at'[d] = "file",
                        NEW q \in known'[d]
                 PROVE  status'[q] # "none" /\ q \notin LiveAsks(ActorOf[d])'
      BY DEF Looked
    <3>1. /\ d # c /\ at[d] = "file" /\ q \in known[d] /\ q \in Requests
      BY <2>2 DEF AInv, TypeOK
    <3>2. q # r /\ status'[q] = status[q] /\ asker'[q] = asker[q]
      BY <2>1, <2>2, <3>1 DEF BInv, Looked, AInv, TypeOK
    <3> QED
      BY <2>2, <3>1, <3>2 DEF BInv, Looked, LiveAsks
  <2>6. ApprovedIsGranted'
    BY <2>1, <2>2
    DEF BInv, ApprovedIsGranted, AInv, TypeOK, grantVars, approverVars
  <2> QED
    BY <2>3, <2>4, <2>5, <2>6 DEF BInv
<1> QED
  BY <1>1, <1>2, <1>3 DEF CallStep

LEMMA DecideB ==
  ASSUME AInv, BInv, NEW h \in Approvers, DecideRequest(h)
  PROVE  BInv'
<1>1. PICK r \in Requests : r = answer[h].req
  BY DEF AInv, Answering, DecideRequest, Wins, ImpliesGrant
<1>2. /\ doing[h] = "decide"
      /\ UNCHANGED <<asker, lapsed, grantVars, callerVars, told, orphaned>>
  BY DEF DecideRequest, Wins, ImpliesGrant
<1>3. /\ \A k \in Approvers \ {h} : doing'[k] = doing[k] /\ answer'[k] = answer[k]
      /\ doing' \in [Approvers -> {"idle", "decide", "mint", "tell"}]
  BY AnsweredEffect DEF DecideRequest, Wins, ImpliesGrant, AInv, TypeOK
<1>4. CASE status[r] # "pending"
  <2>1. UNCHANGED <<status, decidedBy>>
    BY <1>1, <1>4 DEF DecideRequest, Wins, ImpliesGrant
  <2>2. ApprovedIsGranted'
    BY <1>2, <1>3, <2>1 DEF BInv, ApprovedIsGranted, grantVars
  <2> QED
    BY <1>2, <2>1, <2>2
    DEF BInv, Undecided, ToldAreDecided, Looked, LiveAsks, callerVars
<1>5. CASE status[r] = "pending"
  <2>1. /\ status' = [status EXCEPT ![r] = IF answer[h].scope # "deny"
                                           THEN "approved" ELSE "denied"]
        /\ decidedBy' = [decidedBy EXCEPT ![r] = h]
        /\ answer[h].scope # "deny" => /\ doing' = [doing EXCEPT ![h] = "mint"]
                                       /\ UNCHANGED answer
    BY <1>1, <1>5 DEF DecideRequest, Wins, ImpliesGrant
  <2>2. Undecided' /\ ToldAreDecided'
    BY <1>2, <1>5, <2>1 DEF BInv, Undecided, ToldAreDecided, AInv, TypeOK
  <2>3. Looked'
    BY <1>2, <1>5, <2>1
    DEF BInv, Looked, LiveAsks, AInv, TypeOK, callerVars
  <2>4. ApprovedIsGranted'
    <3> SUFFICES ASSUME NEW q \in Requests, status'[q] = "approved"
                 PROVE  \/ \E g \in given' : g.req = q
                        \/ \E k \in Approvers :
                             doing'[k] = "mint" /\ answer'[k].req = q
                        \/ q \in orphaned'
      BY DEF ApprovedIsGranted
    <3>1. CASE q = r
      BY <3>1, <1>1, <2>1 DEF AInv, TypeOK
    <3>2. CASE q # r
      BY <3>2, <1>2, <1>3, <2>1 DEF BInv, ApprovedIsGranted, AInv, TypeOK, grantVars
    <3> QED
      BY <3>1, <3>2
  <2> QED
    BY <2>2, <2>3, <2>4 DEF BInv
<1> QED
  BY <1>4, <1>5

LEMMA ApproverB ==
  ASSUME AInv, BInv, NEW h \in Approvers, ApproverStep(h)
  PROVE  BInv'
<1>1. CASE DecideRequest(h)
  BY <1>1, DecideB
<1>2. CASE ~DecideRequest(h)
  <2>1. UNCHANGED <<requestVars, callerVars>>
    BY <1>2 DEF ApproverStep, OpenAnswer, MintGrant, MintFails, TellDecision
  <2>2. Undecided' /\ Looked'
    BY <2>1 DEF BInv, Undecided, Looked, LiveAsks, requestVars, callerVars
  <2>3. ToldAreDecided'
    <3>1. CASE UNCHANGED told
      BY <2>1, <3>1 DEF BInv, ToldAreDecided, requestVars
    <3>2. CASE TellDecision(h)
      <4>1. PICK r \in Requests : r = answer[h].req
        BY <3>2 DEF AInv, Answering, TellDecision
      <4>2. told' = IF decidedBy[r] = h THEN told \union {<<r, h>>} ELSE told
        BY <3>2, <4>1 DEF TellDecision
      <4>3. decidedBy[r] = h => status[r] \notin {"none", "pending"}
        BY ApprovalsAssumption DEF BInv, Undecided
      <4> QED
        BY <2>1, <4>2, <4>3 DEF BInv, ToldAreDecided, requestVars
    <3> QED
      BY <1>2, <3>1, <3>2 DEF ApproverStep, OpenAnswer, MintGrant, MintFails
  <2>4. ApprovedIsGranted'
    <3>1. CASE MintGrant(h)
      <4>1. PICK g : given' = given \union {g} /\ g.req = answer[h].req
        BY <3>1, MintEffect
      <4>2. \A k \in Approvers \ {h} :
              doing'[k] = doing[k] /\ answer'[k] = answer[k]
        BY <3>1, AnsweredEffect DEF MintGrant, AInv
      <4> QED
        BY <2>1, <3>1, <4>1, <4>2
        DEF BInv, ApprovedIsGranted, MintGrant, requestVars
    <3>2. CASE MintFails(h)
      BY <2>1, <3>2
      DEF BInv, ApprovedIsGranted, MintFails, AInv, TypeOK, requestVars, grantVars
    <3>3. CASE TellDecision(h) \/ \E r \in Requests, route \in Routes :
                                    OpenAnswer(h, r, route)
      BY <2>1, <3>3
      DEF BInv, ApprovedIsGranted, TellDecision, OpenAnswer, AInv, TypeOK,
          requestVars, grantVars
    <3> QED
      BY <1>2, <3>1, <3>2, <3>3 DEF ApproverStep
  <2> QED
    BY <2>2, <2>3, <2>4 DEF BInv
<1> QED
  BY <1>1, <1>2

LEMMA StepB == AInv /\ BInv /\ [Next]_vars => BInv'
<1> SUFFICES ASSUME AInv, BInv, [Next]_vars PROVE BInv'
  OBVIOUS
<1>1. CASE \/ \E r \in Requests : RequestLapses(r)
           \/ \E g \in grants : GrantExpires(g)
           \/ \E w \in Works : SessionEnds(w) \/ RevokeGrants(w)
  BY <1>1, QuietB
  DEF RequestLapses, GrantExpires, SessionEnds, RevokeGrants, requestVars,
      grantVars, callerVars, approverVars
<1>2. CASE UNCHANGED vars
  BY <1>2, QuietB DEF vars, requestVars, grantVars, callerVars, approverVars
<1> QED
  BY <1>1, <1>2, CallB, ApproverB DEF Next

LEMMA BInvariant == Spec => [](AInv /\ BInv)
  BY InitInv, StepInv, BInvInit, StepB, PTL DEF Spec

\* A yes is lost only if the insert of its grant failed.
THEOREM ApprovedAreGranted == Spec => []ApprovedIsGranted
<1>1. BInv => ApprovedIsGranted
  BY DEF BInv
<1> QED
  BY <1>1, BInvariant, PTL

\* On the connections route a lost race is reported as such.
THEOREM DeciderToldAlone == Spec => []OnlyTheDeciderIsTold
<1>1. BInv => OnlyTheDeciderIsTold
  BY DEF BInv, ToldAreDecided, OnlyTheDeciderIsTold
<1> QED
  BY <1>1, BInvariant, PTL

\* A request is filed next to a live one only if that one was filed after the
\* caller looked.
THEOREM StackingIsARace == Spec => StacksOnlyInARace
<1>1. BInv /\ [Next]_vars =>
        [\A c \in Callers : (at[c] = "file" /\ at'[c] = "idle") =>
           LiveAsks(ActorOf[c]) \intersect known[c] = {}]_vars
  BY DEF BInv, Looked
<1> QED
  BY <1>1, BInvariant, PTL DEF Spec, StacksOnlyInARace

-----------------------------------------------------------------------------
(* The refinement *)

LEMMA CallImplements ==
  ASSUME AInv, NEW c \in Callers, CallStep(c)
  PROVE  [Promise!Next]_(Promise!promiseVars)
<1> USE DEF AInv, grantVars, approverVars, Promise!promiseVars
<1>1. CASE Call(c)
  <2>1. CASE UNCHANGED through
    BY <1>1, <2>1 DEF Call
  <2>2. CASE \E g \in Candidates(c) : g.scope # "once" /\ Passes(c, g)
    <3>1. PICK g \in Candidates(c) : g.scope # "once" /\ Passes(c, g)
      BY <2>2
    <3>2. g \in given /\ <<c, g>> \in Coverage /\ g \in Grants
      BY DEF Candidates, Ledger, TypeOK, Coverage
    <3>3. Promise!LetThrough(c, g)
      BY <1>1, <3>1, <3>2 DEF Call, Passes, InHand, Promise!LetThrough
    <3> QED
      BY <3>2, <3>3 DEF Promise!Next
  <2> QED
    BY <1>1, <2>1, <2>2 DEF Call, Single
<1>2. CASE Burn(c)
  <2>1. PICK g \in Grants : g = chosen[c]
    BY <1>2 DEF Burn, InHand, TypeOK
  <2>2. g \in given /\ g.scope = "once" /\ <<c, g>> \in Coverage
    BY <1>2, <2>1 DEF Burn, InHand, Coverage
  <2>3. CASE g \in grants
    <3>1. Promise!LetThrough(c, g)
      BY <1>2, <2>1, <2>2, <2>3
      DEF Burn, Passes, InHand, Ledger, Promise!LetThrough
    <3> QED
      BY <3>1 DEF Promise!Next
  <2>4. CASE g \notin grants /\ UNCHANGED through
    BY <1>2, <2>1, <2>4 DEF Burn
  <2>5. CASE g \notin grants /\ \E f \in standing[c] : Passes(c, f)
    <3>1. PICK f \in standing[c] : Passes(c, f)
      BY <2>5
    <3>2. /\ f \in given /\ f.scope # "once" /\ <<c, f>> \in Coverage
          /\ f \in Grants
      BY <3>1 DEF InHand, Coverage, TypeOK
    <3>3. Promise!LetThrough(c, f)
      BY <1>2, <2>1, <2>5, <3>1, <3>2
      DEF Burn, Passes, InHand, Promise!LetThrough
    <3> QED
      BY <3>2, <3>3 DEF Promise!Next
  <2> QED
    BY <1>2, <2>1, <2>3, <2>4, <2>5 DEF Burn
<1>3. CASE Return(c)
  <2>1. Promise!Return(c)
    BY <1>3 DEF Return, Promise!Return
  <2> QED
    BY <2>1 DEF Promise!Next
<1>4. CASE FindRequest(c) \/ FileRequest(c)
  BY <1>4 DEF FindRequest, FileRequest
<1> QED
  BY <1>1, <1>2, <1>3, <1>4 DEF CallStep

LEMMA ApproverImplements ==
  ASSUME AInv, NEW h \in Approvers, ApproverStep(h)
  PROVE  [Promise!Next]_(Promise!promiseVars)
<1> USE DEF grantVars, callerVars, Promise!promiseVars
<1>1. CASE MintGrant(h)
  <2>1. PICK g \in Grants : given' = given \union {g} /\ \A f \in given : f.req # g.req
    BY <1>1, MintEffect
  <2>2. Promise!Approve(g)
    BY <1>1, <2>1 DEF MintGrant, Promise!Approve
  <2> QED
    BY <2>2 DEF Promise!Next
<1>2. CASE ~MintGrant(h)
  BY <1>2
  DEF ApproverStep, OpenAnswer, DecideRequest, Wins, ImpliesGrant, MintFails, TellDecision
<1> QED
  BY <1>1, <1>2

LEMMA StepImplements ==
  AInv /\ [Next]_vars => [Promise!Next]_(Promise!promiseVars)
<1> SUFFICES ASSUME AInv, [Next]_vars
             PROVE  [Promise!Next]_(Promise!promiseVars)
  OBVIOUS
<1>1. CASE \/ \E r \in Requests : RequestLapses(r)
           \/ \E g \in grants : GrantExpires(g)
           \/ \E w \in Works : SessionEnds(w) \/ RevokeGrants(w)
  BY <1>1
  DEF RequestLapses, GrantExpires, SessionEnds, RevokeGrants, grantVars,
      callerVars, Promise!promiseVars
<1>2. CASE UNCHANGED vars
  BY <1>2 DEF vars, grantVars, callerVars, Promise!promiseVars
<1> QED
  BY <1>1, <1>2, CallImplements, ApproverImplements DEF Next

\* The store keeps what ApprovalPromise states: a gated call passes only on an
\* approval that was given and covers it, a request is approved once, and an
\* allow-once lets one call through.
THEOREM ApprovalsImplementPromise == Spec => ImplementsPromise
<1>1. Init => Promise!Init
  BY DEF Init, Promise!Init
<1> QED
  BY <1>1, StepImplements, ApprovalsInvariant, PTL
  DEF Spec, ImplementsPromise, Promise!Spec

=============================================================================
