------------------------ MODULE TelegramAdapterProofs ------------------------
(***************************************************************************)
(* What a Turn of the Telegram adapter can do and why, and that its        *)
(* handlers use the rate limits as RateLimiter says: for every set of      *)
(* updates, verified users, messages and limits.                           *)
(***************************************************************************)
EXTENDS TelegramAdapter, FiniteSetTheorems, TLAPS

-----------------------------------------------------------------------------
(* The inductive invariant *)

Shape ==
  /\ pc \in [Updates -> {"idle", "route", "classify", "connect", "call",
                         "issue", "done"}]
  /\ DOMAIN msg = Updates /\ DOMAIN token = Updates
  /\ DOMAIN status = Updates
  /\ reached \subseteq Updates /\ approvals \subseteq Updates

\* The update was let past its route.
Past(u) == pc[u] \in {"classify", "connect", "call", "issue"} \/ u \in reached

\* Where an update is says who sent it, and what it may still ask for.
Routing(u) ==
  /\ pc[u] \in {"idle", "route", "classify", "connect", "call"} =>
       u \notin reached /\ u \notin approvals
  /\ pc[u] \in {"idle", "route", "classify", "connect", "call", "issue"} =>
       status[u] = "none"
  /\ pc[u] = "route" \/ Past(u) =>
       msg[u].user \in DOMAIN VerifiedUsers /\ msg[u].command \in Commands
  /\ pc[u] = "classify" => msg[u].command = "text"
  /\ Past(u) =>
       /\ Subject(u) # Owner => msg[u].command \in {"/propose", "text"}
       /\ Subject(u) = Owner => msg[u].command # "/propose"
       /\ msg[u].command # "undecodable"

\* The token of a Turn has the scopes of its command, and an Approval follows
\* a permitted review.
Turn(u) ==
  /\ pc[u] \in {"call", "issue"} =>
       /\ token[u] = TokenOf(msg[u].command)
       /\ Subject(u) \in {Owner, Alice}
  /\ pc[u] = "issue" \/ u \in approvals =>
       /\ Past(u) /\ u \in reached /\ Permitted(u)
       /\ msg[u].command \in ReviewCommands

IInv == Shape /\ \A u \in Updates : Routing(u) /\ Turn(u)

\* The updates of a Subject and an action that were let past their route.
Counted(s, a) == {u \in Updates : Past(u) /\ Subject(u) = s /\ ActionOf(u) = a}

\* Each of them was counted.
CountInv ==
  \A s \in Externals, a \in Actions :
    /\ IsFiniteSet(Counted(s, a))
    /\ Cardinality(Counted(s, a)) <= Len(admitted[<<s, a>>])

-----------------------------------------------------------------------------
(* Every step keeps the invariant *)

\* A step of update u: it comes in, or it is handled.
UpdateStep(u) == Handle(u) \/ \E m \in Messages[u] : Webhook(u, m)

\* What an update that a step is not about can rely on.
Aside(d) ==
  /\ pc'[d] = pc[d] /\ msg'[d] = msg[d] /\ token'[d] = token[d]
  /\ status'[d] = status[d]
  /\ d \in reached' <=> d \in reached
  /\ d \in approvals' <=> d \in approvals

\* What is permitted depends on the message and the token alone.
LEMMA PermittedFrame ==
  ASSUME NEW u, msg'[u] = msg[u], token'[u] = token[u]
  PROVE  Subject(u)' = Subject(u) /\ (Permitted(u)' <=> Permitted(u))
BY DEF Permitted, GatewayInput, Subject

LEMMA AsideInv ==
  ASSUME NEW d \in Updates, Routing(d), Turn(d), Aside(d)
  PROVE  Routing(d)' /\ Turn(d)'
<1>1. Subject(d)' = Subject(d) /\ (Permitted(d)' <=> Permitted(d))
  BY PermittedFrame DEF Aside
<1>. QED
  BY <1>1 DEF Aside, Routing, Turn, Past

LEMMA OthersAside ==
  ASSUME Shape, NEW u \in Updates, UpdateStep(u)
  PROVE  Shape' /\ \A d \in Updates \ {u} : Aside(d)
<1>. USE DEF Shape, Aside, Goto, Answer, OwnerCommand
<1>1. CASE \E m \in Messages[u] : Webhook(u, m)
  BY <1>1 DEF Webhook
<1>2. CASE HandleSmartLock(u) \/ HandleOutlook(u) \/ HandleMeetingResolution(u)
  BY <1>2 DEF HandleSmartLock, HandleOutlook, HandleMeetingResolution
<1>3. CASE HandleMeetingProposal(u) \/ HandleText(u)
  BY <1>3 DEF HandleMeetingProposal, HandleText
<1>4. CASE Classify(u)
  BY <1>4 DEF Classify
<1>5. CASE Connect(u)
  BY <1>5 DEF Connect
<1>6. CASE CallTool(u)
  BY <1>6 DEF CallTool
<1>7. CASE Issue(u)
  BY <1>7 DEF Issue
<1>. QED
  BY <1>1, <1>2, <1>3, <1>4, <1>5, <1>6, <1>7 DEF UpdateStep, Handle

LEMMA StepInv ==
  ASSUME Shape, NEW u \in Updates, Routing(u), Turn(u), UpdateStep(u)
  PROVE  Routing(u)' /\ Turn(u)'
<1>. USE DEF Shape, Goto, Answer, Routing, Turn, Past, Routed
<1>1. CASE \E m \in Messages[u] : Webhook(u, m)
  <2>1. PICK m \in Messages[u] : Webhook(u, m)
    BY <1>1
  <2>2. m.command \in Commands
    BY AdapterAssumption
  <2>3. /\ pc[u] = "idle" /\ msg'[u] = m
        /\ UNCHANGED <<reached, approvals>>
        /\ \/ pc'[u] = "done"
           \/ /\ pc'[u] = "route" /\ m.user \in DOMAIN VerifiedUsers
              /\ status'[u] = status[u]
    BY <2>1 DEF Webhook
  <2>. QED
    BY <2>2, <2>3
<1>2. ASSUME UNCHANGED <<msg, token>>
      PROVE  Subject(u)' = Subject(u) /\ (Permitted(u)' <=> Permitted(u))
  BY <1>2, PermittedFrame
<1>3. ASSUME OwnerCommand(u), UNCHANGED <<msg, token, reached, approvals>>,
             pc[u] = "route",
             msg[u].command \in
               MeetingCommands \union LockCommands \union OutlookCommands
      PROVE  Routing(u)' /\ Turn(u)'
  BY <1>2, <1>3 DEF OwnerCommand, MeetingCommands, LockCommands, OutlookCommands
<1>4. CASE HandleSmartLock(u)
  <2>1. CASE OwnerCommand(u)
    BY <1>3, <1>4, <2>1 DEF HandleSmartLock
  <2>2. CASE ~OwnerCommand(u)
    BY <1>2, <1>4, <2>2 DEF HandleSmartLock
  <2>. QED
    BY <2>1, <2>2
<1>5. CASE HandleOutlook(u)
  BY <1>3, <1>5 DEF HandleOutlook
<1>6. CASE HandleMeetingResolution(u)
  BY <1>3, <1>6 DEF HandleMeetingResolution
<1>7. CASE HandleMeetingProposal(u)
  BY <1>2, <1>7 DEF HandleMeetingProposal
<1>8. CASE HandleText(u)
  BY <1>2, <1>8 DEF HandleText
<1>9. CASE Classify(u)
  BY <1>2, <1>9 DEF Classify
<1>10. CASE Connect(u)
  <2>1. Subject(u)' = Subject(u)
    BY <1>10 DEF Connect, Subject
  <2>2. TokenOf(msg[u].command)' = TokenOf(msg[u].command)
    BY <1>10 DEF Connect, TokenOf, ScopesOf
  <2>3. u \notin approvals
    BY <1>10 DEF Connect
  <2>. QED
    BY <1>10, <2>1, <2>2, <2>3 DEF Connect
<1>11. CASE CallTool(u)
  BY <1>2, <1>11 DEF CallTool
<1>12. CASE Issue(u)
  BY <1>2, <1>12 DEF Issue
<1>. QED
  BY <1>1, <1>4, <1>5, <1>6, <1>7, <1>8, <1>9, <1>10, <1>11, <1>12
     DEF UpdateStep, Handle

LEMMA RestartInv ==
  ASSUME Shape, Restart, NEW u \in Updates, Routing(u), Turn(u)
  PROVE  Routing(u)' /\ Turn(u)'
<1>1. Subject(u)' = Subject(u) /\ (Permitted(u)' <=> Permitted(u))
  BY PermittedFrame DEF Restart
<1>2. /\ UNCHANGED <<msg, token, reached, approvals>>
      /\ \/ pc'[u] = "done"
         \/ pc'[u] = pc[u] /\ status'[u] = status[u] /\ pc[u] = "idle"
  BY DEF Restart, Shape
<1>. QED
  BY <1>1, <1>2 DEF Routing, Turn, Past

LEMMA InitIInv == Init => IInv
BY DEF Init, IInv, Shape, Routing, Turn, Past

LEMMA NextIInv == IInv /\ [Next]_vars => IInv'
<1>. SUFFICES ASSUME IInv, [Next]_vars PROVE IInv'
  OBVIOUS
<1>1. ASSUME NEW u \in Updates, UpdateStep(u)
      PROVE  IInv'
  <2>1. Shape' /\ \A d \in Updates \ {u} : Aside(d)
    BY <1>1, OthersAside DEF IInv
  <2>2. Routing(u)' /\ Turn(u)'
    BY <1>1, StepInv DEF IInv
  <2>. QED
    BY <2>1, <2>2, AsideInv DEF IInv
<1>2. CASE Restart
  <2>1. Shape'
    BY <1>2 DEF IInv, Shape, Restart
  <2>. QED
    BY <1>2, <2>1, RestartInv DEF IInv
<1>3. CASE Tick \/ UNCHANGED vars
  <2>1. UNCHANGED <<pc, msg, token, status, reached, approvals>>
    BY <1>3 DEF Tick, vars, turn
  <2>2. \A d \in Updates : Aside(d)
    BY <2>1 DEF Aside
  <2>3. Shape'
    BY <2>1 DEF IInv, Shape
  <2>. QED
    BY <2>2, <2>3, AsideInv DEF IInv
<1>. QED
  BY <1>1, <1>2, <1>3 DEF Next, UpdateStep

\* The invariant holds for every update, whatever its handlers wait for,
\* however they interleave and whenever the adapter is restarted.
THEOREM Inductive == Spec => []IInv
BY InitIInv, NextIInv, PTL DEF Spec

\* An Approval is signed only for the Owner, for what the gateway let this very
\* Turn review.
THEOREM ApprovalsForReviews == Spec => []ApprovalsReviewed
<1>1. IInv => ApprovalsReviewed
  BY DEF IInv, Shape, Routing, Turn, ReviewCommands, ApprovalsReviewed
<1>. QED
  BY <1>1, Inductive, PTL

-----------------------------------------------------------------------------
(* The policy on a Turn *)

\* What is allowed some rule allows.
LEMMA AllowedHolds ==
  ASSUME NEW i, Authorization(i).allow
  PROVE  \E v : v.allow /\ Holds(i, v)
<1>1. Authorizations(i) # {}
  BY DEF Authorization, DefaultDeny, Value
<1>2. Holds(i, Authorization(i))
  BY <1>1 DEF Authorization, Authorizations
<1>. QED
  BY <1>2

\* Where the one rule that denies does not hold, a rule that does allows.
LEMMA HoldsAllows ==
  ASSUME NEW i, NEW m \in PolicyReasons,
         Holds(i, Allow(m)) \/ Holds(i, AllowExact(m)), ~SmartLockDenied(i)
  PROVE  Authorization(i).allow
<1>1. Allow(m) \in Values /\ AllowExact(m) \in Values
  BY DEF Values, Value, Allow, AllowExact
<1>2. Authorizations(i) # {}
  BY <1>1 DEF Authorizations
<1>3. ASSUME NEW v, Holds(i, v)
      PROVE  v.allow
  BY <1>3 DEF Holds, Allow, AllowExact, Value
<1>. QED
  BY <1>2, <1>3 DEF Authorization, Authorizations

\* A Turn may use a Tool with an effect only on a command of that Tool: the
\* token of any other lacks the capability, whatever the policy would say.
THEOREM EffectsOnCommand == Spec => []EffectOnlyOnCommand
<1>1. ASSUME IInv, NEW u \in Updates, NEW t \in EffectTools,
             pc[u] \in {"call", "issue"}, msg[u].command \notin CommandsFor(t),
             Authorization(GatewayInput(u, "execute", t, "allowed")).allow
      PROVE  FALSE
  <2>. DEFINE i == GatewayInput(u, "execute", t, "allowed")
              needed == IF t = "smart_lock.unlock" THEN "smart_lock.write"
                        ELSE "calendar.meeting.approve"
  <2>1. /\ i.tool = t
        /\ i.capabilities = Required \union (Optional \intersect token[u])
    BY DEF GatewayInput
  <2>2. Authorization(i).allow
    BY <1>1
  <2>. HIDE DEF i
  <2>3. PICK v : v.allow /\ Holds(i, v)
    BY <2>2, AllowedHolds
  <2>4. needed \in i.capabilities
    BY <1>1, <2>1, <2>3
       DEF EffectTools, Holds, Value, OutlookTools, MeetingTools,
           EligibleOwnerCodingRepository, EligibleOwnerOutlook,
           EligibleOwnerTool, EligibleExternalAvailability,
           EligibleExternalProposal, EligibleOwnerMeetingApproval,
           EligibleOwnerSmartLock
  <2>5. token[u] = DefaultScopes \union ScopesOf(msg[u].command)
    BY <1>1 DEF IInv, Turn, TokenOf
  <2>6. needed \in ScopesOf(msg[u].command)
    BY <2>1, <2>4, <2>5, ScopesAssumption
  <2>. QED
    BY <1>1, <2>6
       DEF EffectTools, ScopesOf, CommandsFor, MeetingCommands, LockCommands,
           OutlookCommands
<1>2. IInv => EffectOnlyOnCommand
  BY <1>1 DEF EffectOnlyOnCommand
<1>. QED
  BY <1>2, Inductive, PTL

\* A verified sender's command with good arguments is permitted: the scopes
\* that each command asks for, the realm's defaults and the gateway's own
\* configuration fit together.
THEOREM TurnsEnough == Spec => []TurnsSuffice
<1>1. ASSUME IInv, NEW u \in Updates, pc[u] = "call",
             msg[u].arguments = "allowed",
             ~(Subject(u) = Owner /\ msg[u].command = "text")
      PROVE  Permitted(u)
  <2>. DEFINE command == msg[u].command
              operation == IF command = "/review-unlock"
                             THEN "discover" ELSE "execute"
              i == GatewayInput(u, operation, ToolOf(command), "allowed")
  <2>1. /\ token[u] = DefaultScopes \union ScopesOf(command)
        /\ Subject(u) \in {Owner, Alice}
        /\ command \in Commands \ {"undecodable"}
        /\ Subject(u) # Owner => command \in {"/propose", "text"}
        /\ Subject(u) = Owner => command # "/propose"
    BY <1>1 DEF IInv, Routing, Turn, Past, TokenOf
  <2>2. /\ i.subject = Subject(u) /\ i.tool = ToolOf(command) /\ OnTelegram(i)
        /\ i.operation = operation /\ i.arguments = "allowed"
        /\ i.capabilities = Required \union (Optional \intersect token[u])
    BY DEF GatewayInput, OnTelegram
  <2>3. {"calendar.free_busy.read", "calendar.meeting.propose"}
          \subseteq i.capabilities
    BY <2>2, ScopesAssumption
  <2>4. Required \subseteq token[u]
    BY <2>1, ScopesAssumption
  <2>5. Permitted(u) <=> Authorization(i).allow
    BY <1>1, <2>4 DEF Permitted
  <2>6. ~SmartLockDenied(i)
    BY <2>1, <2>2 DEF SmartLockDenied, ToolOf
  <2>. HIDE DEF i
  <2>. USE DEF Execute, Discover, ScopesOf, ToolOf, MeetingCommands,
               LockCommands, OutlookCommands
  <2>7. CASE command = "text"
    <3>1. EligibleExternalAvailability(i) /\ Execute(i)
      BY <1>1, <2>1, <2>2, <2>3, <2>7 DEF EligibleExternalAvailability
    <3>2. Holds(i, Allow("external_free_busy"))
      BY <3>1 DEF Holds
    <3>. QED
      BY <2>5, <2>6, <3>2, HoldsAllows DEF PolicyReasons
  <2>8. CASE command = "/propose"
    <3>1. EligibleExternalProposal(i) /\ Execute(i)
      BY <2>1, <2>2, <2>3, <2>8 DEF EligibleExternalProposal
    <3>2. Holds(i, Allow("external_meeting_proposal"))
      BY <3>1 DEF Holds
    <3>. QED
      BY <2>5, <2>6, <3>2, HoldsAllows DEF PolicyReasons
  <2>9. CASE command \in OutlookCommands
    <3>1. "outlook.mail.read" \in i.capabilities
      BY <2>1, <2>2, <2>9, ScopesAssumption
    <3>2. EligibleOwnerOutlook(i) /\ Execute(i)
      BY <2>1, <2>2, <2>9, <3>1 DEF EligibleOwnerOutlook, OutlookTools
    <3>3. \/ Holds(i, Allow("owner_exact_outlook_message"))
          \/ Holds(i, Allow("owner_bounded_outlook_search"))
      BY <3>2 DEF Holds, EligibleOwnerOutlook, OutlookTools
    <3>. QED
      BY <2>5, <2>6, <3>3, HoldsAllows DEF PolicyReasons
  <2>10. CASE command \in MeetingCommands
    <3>1. "calendar.meeting.approve" \in i.capabilities
      BY <2>1, <2>2, <2>10, ScopesAssumption
    <3>2. EligibleOwnerMeetingApproval(i) /\ Execute(i)
      BY <2>1, <2>2, <2>10, <3>1 DEF EligibleOwnerMeetingApproval, MeetingTools
    <3>3. \/ Holds(i, Allow("owner_meeting_review"))
          \/ Holds(i, AllowExact("owner_exact_meeting_approval"))
      BY <3>2 DEF Holds
    <3>. QED
      BY <2>5, <2>6, <3>3, HoldsAllows DEF PolicyReasons
  <2>11. CASE command \in LockCommands
    <3>1. "smart_lock.write" \in i.capabilities
      BY <2>1, <2>2, <2>11, ScopesAssumption
    <3>2. EligibleOwnerSmartLock(i) /\ (Discover(i) \/ Execute(i))
      BY <2>1, <2>2, <2>11, <3>1 DEF EligibleOwnerSmartLock
    <3>3. Holds(i, AllowExact("owner_exact_smart_lock"))
      BY <3>2 DEF Holds
    <3>. QED
      BY <2>5, <2>6, <3>3, HoldsAllows DEF PolicyReasons
  <2>. QED
    BY <2>1, <2>7, <2>8, <2>9, <2>10, <2>11 DEF Commands
<1>2. IInv => TurnsSuffice
  BY <1>1 DEF TurnsSuffice
<1>. QED
  BY <1>2, Inductive, PTL

-----------------------------------------------------------------------------
(* The rate limits *)

\* A limited update is counted under a key of the limiter.
LEMMA KeyOf ==
  ASSUME NEW u \in Updates, Routing(u), pc[u] = "route", Subject(u) # Owner,
         NEW action \in Actions
  PROVE  Key(u, action) \in RateLimits!Keys
BY DEF Routing, Key, Subject, Externals, RateLimits!Keys

\* What a step of an update does to the counters: nothing, or one step of
\* allow, which lets this very update past its route.
LEMMA LimitSteps ==
  ASSUME IInv, NEW u \in Updates, UpdateStep(u)
  PROVE  \/ UNCHANGED limits
         \/ /\ pc[u] = "route" /\ Subject(u) # Owner
            /\ Key(u, ActionOf(u)) \in RateLimits!Keys
            /\ \/ RateLimits!Start(Key(u, ActionOf(u)))
               \/ RateLimits!Count(Key(u, ActionOf(u)))
<1>0. Routing(u)
  BY DEF IInv
<1>1. CASE HandleMeetingProposal(u)
  <2>1. pc[u] = "route" /\ ActionOf(u) = "proposal"
    BY <1>1 DEF HandleMeetingProposal, Routed, ActionOf
  <2>2. UNCHANGED limits \/ Passes(u, "proposal")
    BY <1>1 DEF HandleMeetingProposal
  <2>. QED
    BY <1>0, <2>1, <2>2, KeyOf DEF Passes, Actions
<1>2. CASE HandleText(u)
  <2>1. pc[u] = "route" /\ ActionOf(u) = "availability"
    BY <1>2 DEF HandleText, Routed, ActionOf
  <2>2. UNCHANGED limits \/ Passes(u, "availability")
    BY <1>2 DEF HandleText
  <2>. QED
    BY <1>0, <2>1, <2>2, KeyOf DEF Passes, Actions
<1>3. CASE ~HandleMeetingProposal(u) /\ ~HandleText(u)
  BY <1>3 DEF UpdateStep, Handle, Webhook, HandleSmartLock, HandleOutlook,
              HandleMeetingResolution, Classify, Connect, CallTool, Issue
<1>. QED
  BY <1>1, <1>2, <1>3

\* The adapter implements RateLimiter: whatever comes in, and in whatever
\* order, each limited request is one step of allow.
THEOREM Limited == Spec => LimitsKept
<1>1. Init => RateLimits!Init
  BY DEF Init
<1>2. IInv /\ [Next]_vars => [RateLimits!Next]_RateLimits!vars
  <2>. SUFFICES ASSUME IInv, [Next]_vars
                PROVE  RateLimits!Next \/ UNCHANGED RateLimits!vars
    OBVIOUS
  <2>1. ASSUME NEW u \in Updates, UpdateStep(u)
        PROVE  RateLimits!Next \/ UNCHANGED RateLimits!vars
    BY <2>1, LimitSteps DEF RateLimits!Next, RateLimits!vars, limits
  <2>2. CASE Tick \/ Restart
    BY <2>2 DEF Tick, Restart, RateLimits!Next
  <2>3. CASE UNCHANGED vars
    BY <2>3 DEF vars, limits, RateLimits!vars
  <2>. QED
    BY <2>1, <2>2, <2>3 DEF Next, UpdateStep
<1>. QED
  BY <1>1, <1>2, Inductive, PTL DEF Spec, LimitsKept, RateLimits!Spec

\* An entry describes the end of the list of admissions of its key: its last
\* count[k] are those since started[k], by this process.  It is what a refusal
\* rests on, and a part of RateLimiter's own invariant.
EntryInv(k) ==
  LET first == Len(admitted[k]) - count[k] + 1 IN
  /\ count[k] <= Limits[k[2]] /\ count[k] <= Len(admitted[k])
  /\ count[k] > 0 => /\ admitted[k][first].at = started[k]
                     /\ admitted[k][first].process = process

LimitInv == RateLimits!TypeOK /\ \A k \in RateLimits!Keys : EntryInv(k)

\* The limit of a key is a positive number.
LEMMA LimitOfKey ==
  ASSUME NEW k \in RateLimits!Keys
  PROVE  Limits[k[2]] \in Nat /\ Limits[k[2]] >= 1
<1>1. k[2] \in Actions
  BY DEF RateLimits!Keys
<1>. QED
  BY <1>1, AdapterAssumption

\* Letting a request through adds it to the list, and touches no other key.
LEMMA AdmitInv ==
  ASSUME LimitInv, NEW k \in RateLimits!Keys,
         RateLimits!Start(k) \/ RateLimits!Count(k)
  PROVE  /\ LimitInv'
         /\ Len(admitted'[k]) = Len(admitted[k]) + 1
         /\ Len(admitted[k]) \in Nat
         /\ \A j \in RateLimits!Keys \ {k} : admitted'[j] = admitted[j]
<1>. DEFINE h == admitted[k]
            x == [at |-> now, process |-> process]
<1>1. /\ now \in Nat /\ process \in Nat /\ h \in Seq(RateLimits!Admission)
      /\ started[k] \in Nat /\ count[k] \in Nat /\ x \in RateLimits!Admission
      /\ admitted \in [RateLimits!Keys -> Seq(RateLimits!Admission)]
      /\ started \in [RateLimits!Keys -> Nat]
      /\ count \in [RateLimits!Keys -> Nat]
  BY DEF LimitInv, RateLimits!TypeOK, RateLimits!Admission
<1>2. admitted' = [admitted EXCEPT ![k] = Append(h, x)]
      /\ now' = now /\ process' = process
  BY DEF RateLimits!Start, RateLimits!Count, RateLimits!Admit
<1>3. /\ Append(h, x) \in Seq(RateLimits!Admission)
      /\ Len(h) \in Nat /\ Len(Append(h, x)) = Len(h) + 1
      /\ Append(h, x)[Len(h) + 1] = x
      /\ \A i \in 1..Len(h) : Append(h, x)[i] = h[i]
  BY <1>1
<1>4. /\ admitted'[k] = Append(h, x)
      /\ \A j \in RateLimits!Keys \ {k} : admitted'[j] = admitted[j]
  BY <1>1, <1>2
<1>5. /\ count' \in [RateLimits!Keys -> Nat]
      /\ started' \in [RateLimits!Keys -> Nat]
      /\ \A j \in RateLimits!Keys \ {k} :
           count'[j] = count[j] /\ started'[j] = started[j]
  <2>1. CASE RateLimits!Start(k)
    BY <1>1, <2>1 DEF RateLimits!Start
  <2>2. CASE RateLimits!Count(k)
    BY <1>1, <2>2 DEF RateLimits!Count
  <2>. QED
    BY <2>1, <2>2
<1>6. RateLimits!TypeOK'
  BY <1>1, <1>2, <1>3, <1>5 DEF RateLimits!TypeOK
<1>7. EntryInv(k)'
  <2>1. CASE RateLimits!Start(k)
    <3>1. count'[k] = 1 /\ started'[k] = now
      BY <1>1, <2>1 DEF RateLimits!Start
    <3>. QED
      BY <1>1, <1>2, <1>3, <1>4, <3>1, LimitOfKey DEF EntryInv
  <2>2. CASE RateLimits!Count(k)
    <3>1. /\ count'[k] = count[k] + 1 /\ started'[k] = started[k]
          /\ count[k] # 0 /\ count[k] < Limits[k[2]]
      BY <1>1, <2>2, LimitOfKey
         DEF RateLimits!Count, RateLimits!NewWindow, RateLimits!Full,
             RateLimits!LimitOf
    <3>. DEFINE first == Len(h) - count[k] + 1
    <3>2. /\ count[k] <= Len(h) /\ h[first].at = started[k]
          /\ h[first].process = process
      BY <1>1, <1>3, <3>1 DEF LimitInv, EntryInv
    <3>3. /\ first \in 1..Len(h) /\ Append(h, x)[first] = h[first]
          /\ Len(Append(h, x)) - (count[k] + 1) + 1 = first
      BY <1>1, <1>3, <3>1, <3>2
    <3>. HIDE DEF first
    <3>. QED
      BY <1>1, <1>2, <1>3, <1>4, <3>1, <3>2, <3>3, LimitOfKey DEF EntryInv
  <2>. QED
    BY <2>1, <2>2
<1>8. ASSUME NEW j \in RateLimits!Keys, j # k
      PROVE  EntryInv(j)'
  BY <1>2, <1>4, <1>5, <1>8 DEF LimitInv, EntryInv
<1>. QED
  BY <1>3, <1>4, <1>6, <1>7, <1>8 DEF LimitInv

\* The other steps of the limiter let nothing through.
LEMMA QuietInv ==
  ASSUME LimitInv,
         RateLimits!Tick \/ RateLimits!Restart \/ UNCHANGED RateLimits!vars
  PROVE  LimitInv' /\ admitted' = admitted
<1>1. admitted' = admitted
  BY DEF RateLimits!Tick, RateLimits!Restart, RateLimits!vars
<1>2. RateLimits!TypeOK'
  BY DEF LimitInv, RateLimits!TypeOK, RateLimits!Tick, RateLimits!Restart,
         RateLimits!vars
<1>3. ASSUME NEW k \in RateLimits!Keys
      PROVE  EntryInv(k)'
  <2>1. /\ \/ count'[k] = 0
           \/ /\ count'[k] = count[k] /\ started'[k] = started[k]
              /\ process' = process
        /\ admitted[k] \in Seq(RateLimits!Admission)
    BY DEF LimitInv, RateLimits!TypeOK, RateLimits!Tick, RateLimits!Restart,
           RateLimits!vars
  <2>. QED
    BY <1>1, <2>1, LimitOfKey DEF LimitInv, EntryInv
<1>. QED
  BY <1>1, <1>2, <1>3 DEF LimitInv

LEMMA LimitsInv == Spec => []LimitInv
<1>1. RateLimits!Init => LimitInv
  <2>. SUFFICES ASSUME RateLimits!Init PROVE LimitInv
    OBVIOUS
  <2>1. RateLimits!TypeOK
    BY DEF RateLimits!Init, RateLimits!TypeOK
  <2>2. ASSUME NEW k \in RateLimits!Keys
        PROVE  EntryInv(k)
    BY LimitOfKey DEF RateLimits!Init, EntryInv
  <2>. QED
    BY <2>1, <2>2 DEF LimitInv
<1>2. LimitInv /\ [RateLimits!Next]_RateLimits!vars => LimitInv'
  BY AdmitInv, QuietInv DEF RateLimits!Next
<1>. QED
  BY <1>1, <1>2, Limited, PTL DEF LimitsKept, RateLimits!Spec

\* Only allow answers 429, and of the key of this very update.
LEMMA Refuses ==
  ASSUME IInv, NEW u \in Updates, UpdateStep(u),
         status[u] = "none", status'[u] = "429"
  PROVE  /\ Key(u, ActionOf(u)) \in RateLimits!Keys
         /\ RateLimits!Refused(Key(u, ActionOf(u)))
<1>0. Routing(u) /\ DOMAIN status = Updates
  BY DEF IInv, Shape
<1>1. ASSUME NEW code, Answer(u, code)
      PROVE  code = "429"
  BY <1>0, <1>1 DEF Answer
<1>2. ASSUME NEW where, Goto(u, where)
      PROVE  FALSE
  BY <1>2 DEF Goto
<1>3. CASE HandleMeetingProposal(u)
  <2>1. /\ pc[u] = "route" /\ ActionOf(u) = "proposal"
        /\ TooMany(u, "proposal")
    BY <1>1, <1>2, <1>3 DEF HandleMeetingProposal, Routed, ActionOf
  <2>. QED
    BY <1>0, <2>1, KeyOf DEF TooMany, Actions
<1>4. CASE HandleText(u)
  <2>1. /\ pc[u] = "route" /\ ActionOf(u) = "availability"
        /\ TooMany(u, "availability")
    BY <1>1, <1>2, <1>4 DEF HandleText, Routed, ActionOf
  <2>. QED
    BY <1>0, <2>1, KeyOf DEF TooMany, Actions
<1>5. CASE \E m \in Messages[u] : Webhook(u, m)
  BY <1>1, <1>2, <1>5 DEF Webhook
<1>6. ASSUME OwnerCommand(u) PROVE FALSE
  BY <1>1, <1>2, <1>6 DEF OwnerCommand
<1>7. CASE HandleSmartLock(u) \/ HandleOutlook(u) \/ HandleMeetingResolution(u)
  BY <1>1, <1>6, <1>7
     DEF HandleSmartLock, HandleOutlook, HandleMeetingResolution
<1>8. CASE Classify(u) \/ Connect(u) \/ CallTool(u) \/ Issue(u)
  BY <1>1, <1>2, <1>8 DEF Classify, Connect, CallTool, Issue
<1>. QED
  BY <1>3, <1>4, <1>5, <1>7, <1>8 DEF UpdateStep, Handle

\* Who is answered 429 had its limit of this very action within the last
\* window, counted by the process that refuses: the two limits of a Subject do
\* not wear each other out, nor do those of two Subjects.
THEOREM RefusedByOwn == Spec => RefusedByOwnQuota
<1>1. ASSUME LimitInv, NEW k \in RateLimits!Keys, RateLimits!Refused(k)
      PROVE  LET n == Len(admitted[k]) - Limits[k[2]] + 1
             IN  /\ n >= 1 /\ now - admitted[k][n].at < Window
                 /\ admitted[k][n].process = process
  <2>1. /\ now \in Nat /\ started[k] \in Nat /\ count[k] \in Nat
        /\ admitted[k] \in Seq(RateLimits!Admission) /\ Len(admitted[k]) \in Nat
    BY <1>1 DEF LimitInv, RateLimits!TypeOK
  <2>2. /\ count[k] # 0 /\ ~(now - started[k] >= Window)
        /\ count[k] >= Limits[k[2]]
    BY <1>1 DEF RateLimits!Refused, RateLimits!NewWindow, RateLimits!Full,
                RateLimits!LimitOf
  <2>3. EntryInv(k)
    BY <1>1 DEF LimitInv
  <2>4. count[k] = Limits[k[2]] /\ now - started[k] < Window
    BY <2>1, <2>2, <2>3, LimitOfKey, AdapterAssumption DEF EntryInv
  <2>. QED
    BY <2>1, <2>3, <2>4, LimitOfKey DEF EntryInv
<1>2. ASSUME IInv, LimitInv, [Next]_vars, NEW u \in Updates,
             status'[u] = "429", status[u] = "none"
      PROVE  LET h == admitted[<<Subject(u), ActionOf(u)>>]
                 n == Len(h) - Limits[ActionOf(u)] + 1
             IN  n >= 1 /\ now - h[n].at < Window /\ h[n].process = process
  <2>1. UpdateStep(u)
    <3>1. ASSUME NEW v \in Updates, UpdateStep(v)
          PROVE  v = u
      BY <1>2, <3>1, OthersAside DEF IInv, Aside
    <3>2. CASE Restart \/ Tick \/ UNCHANGED vars
      BY <1>2, <3>2 DEF Restart, Tick, vars, turn
    <3>. QED
      BY <1>2, <3>1, <3>2 DEF Next, UpdateStep
  <2>2. /\ Key(u, ActionOf(u)) \in RateLimits!Keys
        /\ RateLimits!Refused(Key(u, ActionOf(u)))
    BY <1>2, <2>1, Refuses
  <2>. QED
    BY <1>1, <1>2, <2>2 DEF Key
<1>3. IInv /\ LimitInv /\ [Next]_vars =>
        \A u \in Updates :
          status'[u] = "429" /\ status[u] = "none" =>
            LET h == admitted[<<Subject(u), ActionOf(u)>>]
                n == Len(h) - Limits[ActionOf(u)] + 1
            IN  n >= 1 /\ now - h[n].at < Window /\ h[n].process = process
  BY <1>2
<1>. QED
  BY <1>3, Inductive, LimitsInv, PTL DEF Spec, RefusedByOwnQuota

\* An update that comes past its route is the Owner's, or was counted by this
\* very step; after it came in, its message stays what it is.
LEMMA Passing ==
  ASSUME IInv, NEW u \in Updates, UpdateStep(u)
  PROVE  /\ pc[u] # "idle" => msg'[u] = msg[u]
         /\ pc[u] = "idle" => ~Past(u)'
         /\ Past(u)' /\ ~Past(u) =>
              /\ pc[u] = "route"
              /\ \/ Subject(u) = Owner
                 \/ RateLimits!Start(Key(u, ActionOf(u)))
                 \/ RateLimits!Count(Key(u, ActionOf(u)))
<1>. USE DEF Shape, Goto, Answer, Past
<1>0. Shape /\ Routing(u)
  BY DEF IInv
<1>1. CASE \E m \in Messages[u] : Webhook(u, m)
  BY <1>0, <1>1 DEF Webhook, Routing
<1>2. CASE HandleMeetingProposal(u)
  <2>1. ActionOf(u) = "proposal" /\ pc[u] = "route" /\ msg'[u] = msg[u]
    BY <1>2 DEF HandleMeetingProposal, Routed, ActionOf
  <2>2. Past(u)' => Passes(u, "proposal")
    BY <1>0, <1>2 DEF HandleMeetingProposal, Routed, Routing
  <2>. QED
    BY <2>1, <2>2 DEF Passes
<1>3. CASE HandleText(u)
  <2>1. ActionOf(u) = "availability" /\ pc[u] = "route" /\ msg'[u] = msg[u]
    BY <1>3 DEF HandleText, Routed, ActionOf
  <2>2. Past(u)' => Passes(u, "availability")
    BY <1>0, <1>3 DEF HandleText, Routed, Routing
  <2>. QED
    BY <2>1, <2>2 DEF Passes
<1>4. CASE HandleSmartLock(u) \/ HandleOutlook(u) \/ HandleMeetingResolution(u)
  <2>1. /\ pc[u] = "route" /\ UNCHANGED <<msg, reached>>
        /\ OwnerCommand(u) \/ pc'[u] = "done"
    BY <1>0, <1>4
       DEF HandleSmartLock, HandleOutlook, HandleMeetingResolution, Routed
  <2>2. u \notin reached
    BY <1>0, <2>1 DEF Routing
  <2>. QED
    BY <1>0, <2>1, <2>2 DEF OwnerCommand
<1>5. CASE Classify(u) \/ Connect(u) \/ CallTool(u) \/ Issue(u)
  BY <1>0, <1>5 DEF Classify, Connect, CallTool, Issue
<1>. QED
  BY <1>1, <1>2, <1>3, <1>4, <1>5 DEF UpdateStep, Handle

\* Who is counted anew by a step is the update the step is about.
LEMMA CountStep ==
  ASSUME IInv, LimitInv, CountInv, NEW u \in Updates, UpdateStep(u)
  PROVE  CountInv'
<1>. SUFFICES ASSUME NEW s \in Externals, NEW a \in Actions
              PROVE  /\ IsFiniteSet(Counted(s, a)')
                     /\ Cardinality(Counted(s, a)') <= Len(admitted'[<<s, a>>])
  BY DEF CountInv
<1>. DEFINE k == <<s, a>>
            C == Counted(s, a)
            D == Counted(s, a)'
<1>1. /\ IsFiniteSet(C) /\ Cardinality(C) \in Nat
      /\ Cardinality(C) <= Len(admitted[k])
  BY FS_CardinalityType DEF CountInv
<1>2. k \in RateLimits!Keys /\ Len(admitted[k]) \in Nat
  BY DEF LimitInv, RateLimits!TypeOK, RateLimits!Keys
<1>3. \A d \in Updates \ {u} : d \in D <=> d \in C
  <2>1. ASSUME NEW d \in Updates \ {u}
        PROVE  d \in D <=> d \in C
    <3>1. Aside(d)
      BY OthersAside DEF IInv
    <3>2. /\ Past(d)' <=> Past(d)
          /\ Subject(d)' = Subject(d) /\ ActionOf(d)' = ActionOf(d)
      BY <3>1 DEF Aside, Past, Subject, ActionOf
    <3>. QED
      BY <3>2 DEF Counted
  <2>. QED
    BY <2>1
<1>4. C \subseteq Updates /\ D \subseteq Updates
  BY DEF Counted
<1>5. /\ Len(admitted'[k]) \in Nat /\ Len(admitted[k]) <= Len(admitted'[k])
  BY <1>2, LimitSteps, AdmitInv DEF limits
<1>6. CASE u \in D /\ u \notin C
  <2>1. Past(u)' /\ pc[u] # "idle"
    BY <1>6, Passing DEF Counted
  <2>2. Subject(u) = s /\ ActionOf(u) = a
    BY <1>6, <2>1, Passing DEF Counted, Subject, ActionOf
  <2>3. ~Past(u)
    BY <1>6, <2>2 DEF Counted
  <2>4. s # Owner
    BY DEF Externals
  <2>5. RateLimits!Start(k) \/ RateLimits!Count(k)
    BY <2>1, <2>2, <2>3, <2>4, Passing DEF Key
  <2>6. Len(admitted'[k]) = Len(admitted[k]) + 1
    BY <1>2, <2>5, AdmitInv
  <2>7. D = C \union {u}
    BY <1>3, <1>4, <1>6
  <2>. HIDE DEF C, D, k
  <2>8. IsFiniteSet(D) /\ Cardinality(D) = Cardinality(C) + 1
    BY <1>1, <1>6, <2>7, FS_AddElement
  <2>9. Cardinality(D) <= Len(admitted'[k])
    BY <1>1, <1>2, <2>6, <2>8
  <2>. QED
    BY <2>8, <2>9 DEF D, k
<1>7. CASE ~(u \in D /\ u \notin C)
  <2>1. D \subseteq C
    BY <1>3, <1>4, <1>7
  <2>. HIDE DEF C, D, k
  <2>2. IsFiniteSet(D) /\ Cardinality(D) <= Cardinality(C)
    BY <1>1, <2>1, FS_Subset
  <2>3. Cardinality(D) \in Nat
    BY <2>2, FS_CardinalityType
  <2>4. Cardinality(D) <= Len(admitted'[k])
    BY <1>1, <1>2, <1>5, <2>2, <2>3
  <2>. QED
    BY <2>2, <2>4 DEF D, k
<1>. QED
  BY <1>6, <1>7

\* A restart lets no update past its route.
LEMMA CountRestart ==
  ASSUME IInv, LimitInv, CountInv, Restart \/ Tick \/ UNCHANGED vars
  PROVE  CountInv'
<1>. SUFFICES ASSUME NEW s \in Externals, NEW a \in Actions
              PROVE  /\ IsFiniteSet(Counted(s, a)')
                     /\ Cardinality(Counted(s, a)') <= Len(admitted'[<<s, a>>])
  BY DEF CountInv
<1>. DEFINE C == Counted(s, a)
            D == Counted(s, a)'
<1>1. /\ IsFiniteSet(C) /\ Cardinality(C) \in Nat
      /\ Cardinality(C) <= Len(admitted[<<s, a>>])
  BY FS_CardinalityType DEF CountInv
<1>2. <<s, a>> \in RateLimits!Keys /\ Len(admitted[<<s, a>>]) \in Nat
  BY DEF LimitInv, RateLimits!TypeOK, RateLimits!Keys
<1>3. admitted' = admitted /\ msg' = msg /\ reached' = reached
  BY QuietInv DEF Restart, Tick, vars, limits, turn, RateLimits!vars
<1>4. ASSUME NEW u \in Updates, Past(u)' PROVE Past(u)
  BY <1>3, <1>4 DEF Past, Restart, Tick, vars, turn
<1>5. D \subseteq C
  BY <1>3, <1>4 DEF Counted, Subject, ActionOf
<1>. HIDE DEF C, D
<1>6. IsFiniteSet(D) /\ Cardinality(D) <= Cardinality(C)
  BY <1>1, <1>5, FS_Subset
<1>7. Cardinality(D) \in Nat
  BY <1>6, FS_CardinalityType
<1>8. Cardinality(D) <= Len(admitted'[<<s, a>>])
  BY <1>1, <1>2, <1>3, <1>6, <1>7
<1>. QED
  BY <1>6, <1>8 DEF D

\* No call of an External Subject reaches the gateway uncounted, however many
\* of its updates are at work at once.
THEOREM ForwardedCounted == Spec => []ForwardedWereAdmitted
<1>1. Init => CountInv
  <2>. SUFFICES ASSUME Init, NEW s \in Externals, NEW a \in Actions
                PROVE  /\ IsFiniteSet(Counted(s, a))
                       /\ Cardinality(Counted(s, a)) <= Len(admitted[<<s, a>>])
    BY DEF CountInv
  <2>1. Counted(s, a) = {}
    BY DEF Counted, Past, Init
  <2>2. admitted[<<s, a>>] = <<>>
    BY DEF Init, RateLimits!Init, RateLimits!Keys
  <2>. QED
    BY <2>1, <2>2, FS_EmptySet
<1>2. IInv /\ LimitInv /\ CountInv /\ [Next]_vars => CountInv'
  BY CountStep, CountRestart DEF Next, UpdateStep
<1>3. IInv /\ LimitInv /\ CountInv => ForwardedWereAdmitted
  <2>. SUFFICES ASSUME IInv, LimitInv, CountInv,
                       NEW s \in Externals, NEW a \in Actions
                PROVE  Cardinality({u \in reached :
                                      Subject(u) = s /\ ActionOf(u) = a})
                         <= Len(admitted[<<s, a>>])
    BY DEF ForwardedWereAdmitted
  <2>. DEFINE C == Counted(s, a)
              R == {u \in reached : Subject(u) = s /\ ActionOf(u) = a}
  <2>1. R \subseteq C
    BY DEF IInv, Shape, Counted, Past
  <2>2. IsFiniteSet(C) /\ Cardinality(C) <= Len(admitted[<<s, a>>])
    BY DEF CountInv
  <2>3. Len(admitted[<<s, a>>]) \in Nat
    BY DEF LimitInv, RateLimits!TypeOK, RateLimits!Keys
  <2>. HIDE DEF C, R
  <2>4. /\ Cardinality(R) <= Cardinality(C)
        /\ Cardinality(R) \in Nat /\ Cardinality(C) \in Nat
    BY <2>1, <2>2, FS_Subset, FS_CardinalityType
  <2>5. Cardinality(R) <= Len(admitted[<<s, a>>])
    BY <2>2, <2>3, <2>4
  <2>. QED
    BY <2>5 DEF R
<1>. QED
  BY <1>1, <1>2, <1>3, Inductive, LimitsInv, PTL DEF Spec

=============================================================================
