-------------------------- MODULE ToolGatewayProofs --------------------------
(***************************************************************************)
(* What the policy says, for every input, and what reaches an adapter, for *)
(* every set of requests, tokens, channels and scopes.                     *)
(***************************************************************************)
EXTENDS ToolGateway, TLAPS

-----------------------------------------------------------------------------
(* The policy *)

\* Two rules that hold for an input give it the same value: for each Tool and
\* operation there is one value they can give.
LEMMA SameValue ==
  ASSUME NEW i, NEW v, NEW w, Holds(i, v), Holds(i, w)
  PROVE  v = w
<1>. USE DEF EligibleOwnerCodingRepository, EligibleOwnerOutlook,
             EligibleOwnerTool, EligibleExternalAvailability,
             EligibleExternalProposal, EligibleOwnerMeetingApproval,
             EligibleOwnerSmartLock, SmartLockDenied, OnTelegram, Discover,
             Execute, OutlookTools, MeetingTools
<1>0. i.tool \in Tools
  BY DEF Holds, Tools
<1>1. CASE i.tool = "dev.read_repository"
  <2>1. ASSUME NEW u, Holds(i, u)
        PROVE  u = Allow("owner_coding_repository_read")
    BY <1>1, <2>1 DEF Holds
  <2>. QED
    BY <2>1
<1>2. CASE i.tool \in OutlookTools /\ Discover(i)
  <2>1. ASSUME NEW u, Holds(i, u)
        PROVE  u = Allow("owner_outlook_read_discovery")
    BY <1>2, <2>1 DEF Holds
  <2>. QED
    BY <2>1
<1>3. CASE i.tool = "outlook.read_message" /\ ~Discover(i)
  <2>1. ASSUME NEW u, Holds(i, u)
        PROVE  u = Allow("owner_exact_outlook_message")
    BY <1>3, <2>1 DEF Holds
  <2>. QED
    BY <2>1
<1>4. CASE i.tool = "outlook.search_messages" /\ ~Discover(i)
  <2>1. ASSUME NEW u, Holds(i, u)
        PROVE  u = Allow("owner_bounded_outlook_search")
    BY <1>4, <2>1 DEF Holds
  <2>. QED
    BY <2>1
<1>5. CASE i.tool = "coffee_station.get_status" /\ Discover(i)
  <2>1. ASSUME NEW u, Holds(i, u)
        PROVE  u = Allow("owner_tool_discovery")
    BY <1>5, <2>1 DEF Holds
  <2>. QED
    BY <2>1
<1>6. CASE i.tool = "coffee_station.get_status" /\ ~Discover(i)
  <2>1. ASSUME NEW u, Holds(i, u)
        PROVE  u = Allow("owner_demo_station")
    BY <1>6, <2>1 DEF Holds
  <2>. QED
    BY <2>1
<1>7. CASE i.tool = "calendar.find_availability" /\ Discover(i)
  <2>1. ASSUME NEW u, Holds(i, u)
        PROVE  u = Allow("external_availability_discovery")
    BY <1>7, <2>1 DEF Holds
  <2>. QED
    BY <2>1
<1>8. CASE i.tool = "calendar.find_availability" /\ ~Discover(i)
  <2>1. ASSUME NEW u, Holds(i, u)
        PROVE  u = Allow("external_free_busy")
    BY <1>8, <2>1 DEF Holds
  <2>. QED
    BY <2>1
<1>9. CASE i.tool = "calendar.submit_meeting_proposal"
  <2>1. ASSUME NEW u, Holds(i, u)
        PROVE  u = Allow("external_meeting_proposal")
    BY <1>9, <2>1 DEF Holds
  <2>. QED
    BY <2>1
<1>10. CASE i.tool = "calendar.review_meeting_proposal" /\ ~Discover(i)
  <2>1. ASSUME NEW u, Holds(i, u)
        PROVE  u = Allow("owner_meeting_review")
    BY <1>10, <2>1 DEF Holds
  <2>. QED
    BY <2>1
<1>11. CASE i.tool \in MeetingTools /\ Discover(i)
  <2>1. ASSUME NEW u, Holds(i, u)
        PROVE  u = AllowExact("owner_exact_meeting_approval")
    BY <1>11, <2>1 DEF Holds
  <2>. QED
    BY <2>1
<1>12. CASE i.tool = "calendar.approve_meeting_proposal" /\ ~Discover(i)
  <2>1. ASSUME NEW u, Holds(i, u)
        PROVE  u = AllowExact("owner_exact_meeting_approval")
    BY <1>12, <2>1 DEF Holds
  <2>. QED
    BY <2>1
<1>13. CASE i.tool = "calendar.deny_meeting_proposal" /\ ~Discover(i)
  <2>1. ASSUME NEW u, Holds(i, u)
        PROVE  u = AllowExact("owner_exact_meeting_approval")
    BY <1>13, <2>1 DEF Holds
  <2>. QED
    BY <2>1
<1>14. CASE i.tool = "smart_lock.unlock" /\ i.subject = Owner
  <2>1. ASSUME NEW u, Holds(i, u)
        PROVE  u = AllowExact("owner_exact_smart_lock")
    BY <1>14, <2>1 DEF Holds
  <2>. QED
    BY <2>1
<1>15. CASE i.tool = "smart_lock.unlock" /\ i.subject # Owner
  <2>1. ASSUME NEW u, Holds(i, u)
        PROVE  u = Value(FALSE, "smart_lock_owner_subject_required", {})
    BY <1>15, <2>1 DEF Holds
  <2>. QED
    BY <2>1
<1>. QED
  BY <1>0, <1>1, <1>2, <1>3, <1>4, <1>5, <1>6, <1>7, <1>8,
     <1>9, <1>10, <1>11, <1>12, <1>13, <1>14, <1>15 DEF Tools

\* No input makes the policy's rules disagree: OPA always has a decision.
THEOREM PolicyNeverConflicts ==
  ASSUME NEW i
  PROVE  ~Conflicting(i)
BY SameValue DEF Conflicting, Authorizations

\* authorization is the value of a rule that holds, or the default.
LEMMA HoldsValues ==
  ASSUME NEW i, NEW v, Holds(i, v)
  PROVE  v \in Values
<1>1. \/ \E m \in PolicyReasons : v = Allow(m) \/ v = AllowExact(m)
      \/ v = Value(FALSE, "smart_lock_owner_subject_required", {})
  BY DEF Holds, PolicyReasons
<1>2. ASSUME NEW m \in PolicyReasons
      PROVE  Allow(m) \in Values /\ AllowExact(m) \in Values
  BY DEF Values, Value, Allow, AllowExact
<1>3. Value(FALSE, "smart_lock_owner_subject_required", {}) \in Values
  BY DEF Values, Value, PolicyReasons
<1>. QED
  BY <1>1, <1>2, <1>3

LEMMA HoldsDecides ==
  ASSUME NEW i, NEW v, Holds(i, v)
  PROVE  Authorization(i) = v
<1>1. v \in Authorizations(i)
  BY HoldsValues DEF Authorizations
<1>2. \A w \in Authorizations(i) : w = v
  BY SameValue DEF Authorizations
<1>. QED
  BY <1>1, <1>2 DEF Authorization

LEMMA AllowedHolds ==
  ASSUME NEW i, Authorization(i).allow
  PROVE  Holds(i, Authorization(i))
<1>1. Authorizations(i) # {}
  BY DEF Authorization, DefaultDeny, Value
<1>. QED
  BY <1>1 DEF Authorization, Authorizations

LEMMA AuthorizationValues ==
  ASSUME NEW i
  PROVE  Authorization(i) \in Values
<1>1. DefaultDeny \in Values
  BY DEF DefaultDeny, Values, Value, PolicyReasons
<1>. QED
  BY <1>1 DEF Authorization, Authorizations

\* Who holds more capabilities is allowed no less.
LEMMA MoreCapabilities ==
  ASSUME NEW i, NEW j, Authorization(i).allow,
         j.subject = i.subject, j.actor = i.actor, j.channel = i.channel,
         j.tool = i.tool, j.operation = i.operation,
         j.arguments = i.arguments, i.capabilities \subseteq j.capabilities
  PROVE  Authorization(j).allow
<1>. DEFINE v == Authorization(i)
<1>1. Holds(i, v) /\ v.allow
  BY AllowedHolds
<1>. HIDE DEF v
<1>2. Holds(j, v)
  BY <1>1
     DEF Holds, Value, Discover, Execute, OnTelegram, OutlookTools,
         MeetingTools, EligibleOwnerCodingRepository, EligibleOwnerOutlook,
         EligibleOwnerTool, EligibleExternalAvailability,
         EligibleExternalProposal, EligibleOwnerMeetingApproval,
         EligibleOwnerSmartLock, SmartLockDenied
<1>. QED
  BY <1>1, <1>2, HoldsDecides

\* An effect is allowed to nobody but the Owner, as the Telegram Actor on
\* Telegram, and only with the obligation of an exact Approval.
THEOREM EffectsNeedOwner ==
  ASSUME NEW i, i.tool \in EffectTools, Authorization(i).allow
  PROVE  /\ i.subject = Owner
         /\ i.actor = "telegram-agent" /\ i.channel = "telegram"
         /\ Authorization(i).obligations = {"exact_approval"}
<1>. DEFINE v == Authorization(i)
<1>1. Holds(i, v) /\ v.allow
  BY AllowedHolds
<1>. HIDE DEF v
<1>. USE DEF EligibleOwnerCodingRepository, EligibleOwnerOutlook,
             EligibleOwnerTool, EligibleExternalAvailability,
             EligibleExternalProposal, EligibleOwnerMeetingApproval,
             EligibleOwnerSmartLock, SmartLockDenied, OnTelegram, Discover,
             Execute, OutlookTools, MeetingTools
<1>2. CASE i.tool = "smart_lock.unlock"
  BY <1>1, <1>2 DEF Holds, Value, AllowExact, v
<1>3. CASE i.tool = "calendar.approve_meeting_proposal"
  BY <1>1, <1>3 DEF Holds, Value, AllowExact, v
<1>. QED
  BY <1>2, <1>3 DEF EffectTools

\* Who is allowed one operation on a Tool is allowed the other, with arguments
\* that satisfy the rule, as long as it keeps the capabilities that the policy
\* asks for on its channel.
LEMMA EligibleIsAllowed ==
  ASSUME NEW i, NEW j, Authorization(i).allow,
         j.subject = i.subject, j.actor = i.actor, j.channel = i.channel,
         j.tool = i.tool, Discover(j) \/ Execute(j),
         i.capabilities \intersect PolicyCapabilities(i.channel)
           \subseteq j.capabilities
  PROVE  Authorization(j).allow
<1>. DEFINE v == Authorization(i)
<1>1. Holds(i, v) /\ v.allow
  BY AllowedHolds
<1>. HIDE DEF v
<1>2. \/ EligibleOwnerCodingRepository(i) \/ EligibleOwnerOutlook(i)
      \/ EligibleOwnerTool(i) \/ EligibleExternalAvailability(i)
      \/ EligibleExternalProposal(i) \/ EligibleOwnerMeetingApproval(i)
      \/ EligibleOwnerSmartLock(i)
  BY <1>1 DEF Holds, Value
<1>0. \A reason : Holds(j, Allow(reason)) \/ Holds(j, AllowExact(reason)) =>
        Authorization(j).allow
  <2>1. \A reason : Allow(reason).allow /\ AllowExact(reason).allow
    BY DEF Allow, AllowExact, Value
  <2>. QED
    BY <2>1, HoldsDecides
<1>. USE DEF PolicyCapabilities, OnTelegram
<1>3. CASE EligibleOwnerCodingRepository(i)
  <2>1. EligibleOwnerCodingRepository(j)
    BY <1>3 DEF EligibleOwnerCodingRepository
  <2>2. Holds(j, Allow("owner_coding_repository_read"))
    BY <2>1 DEF Holds
  <2>. QED
    BY <1>0, <2>2
<1>4. CASE EligibleOwnerOutlook(i)
  <2>1. EligibleOwnerOutlook(j)
    BY <1>4 DEF EligibleOwnerOutlook
  <2>2. \/ Holds(j, Allow("owner_outlook_read_discovery"))
        \/ Holds(j, Allow("owner_exact_outlook_message"))
        \/ Holds(j, Allow("owner_bounded_outlook_search"))
    BY <2>1 DEF Holds, EligibleOwnerOutlook, OutlookTools
  <2>. QED
    BY <1>0, <2>2
<1>5. CASE EligibleOwnerTool(i)
  <2>1. EligibleOwnerTool(j)
    BY <1>5 DEF EligibleOwnerTool
  <2>2. \/ Holds(j, Allow("owner_tool_discovery"))
        \/ Holds(j, Allow("owner_demo_station"))
    BY <2>1 DEF Holds
  <2>. QED
    BY <1>0, <2>2
<1>6. CASE EligibleExternalAvailability(i)
  <2>1. EligibleExternalAvailability(j)
    BY <1>6 DEF EligibleExternalAvailability
  <2>2. \/ Holds(j, Allow("external_availability_discovery"))
        \/ Holds(j, Allow("external_free_busy"))
    BY <2>1 DEF Holds
  <2>. QED
    BY <1>0, <2>2
<1>7. CASE EligibleExternalProposal(i)
  <2>1. EligibleExternalProposal(j)
    BY <1>7 DEF EligibleExternalProposal
  <2>2. Holds(j, Allow("external_meeting_proposal"))
    BY <2>1 DEF Holds
  <2>. QED
    BY <1>0, <2>2
<1>8. CASE EligibleOwnerMeetingApproval(i)
  <2>1. EligibleOwnerMeetingApproval(j)
    BY <1>8 DEF EligibleOwnerMeetingApproval
  <2>2. \/ Holds(j, AllowExact("owner_exact_meeting_approval"))
        \/ Holds(j, Allow("owner_meeting_review"))
    BY <2>1 DEF Holds
  <2>. QED
    BY <1>0, <2>2
<1>9. CASE EligibleOwnerSmartLock(i)
  <2>1. EligibleOwnerSmartLock(j)
    BY <1>9 DEF EligibleOwnerSmartLock
  <2>2. Holds(j, AllowExact("owner_exact_smart_lock"))
    BY <2>1 DEF Holds
  <2>. QED
    BY <1>0, <2>2
<1>. QED
  BY <1>2, <1>3, <1>4, <1>5, <1>6, <1>7, <1>8, <1>9

\* What the policy lets a caller execute, it lets the same caller discover:
\* nobody can use a Tool a complete list would not show.
THEOREM ExecutableIsDiscoverable ==
  ASSUME NEW i, NEW j, Authorization(i).allow,
         j.subject = i.subject, j.actor = i.actor, j.channel = i.channel,
         j.tool = i.tool, j.capabilities = i.capabilities, Discover(j)
  PROVE  Authorization(j).allow
BY EligibleIsAllowed

-----------------------------------------------------------------------------
(* The gateway *)

Shape ==
  /\ pc \in [Requests -> {"idle", "health", "verify", "list", "call", "decide",
                          "adapter", "wait", "audit", "done"}]
  /\ DOMAIN req = Requests /\ DOMAIN caps = Requests
  /\ DOMAIN list = Requests
  /\ adapters \subseteq Requests

\* What is permitted to a request depends on the request alone.
LEMMA PermittedFrame ==
  ASSUME NEW r \in Requests, req'[r] = req[r],
         NEW operation, NEW tool, NEW arguments
  PROVE  Permitted(r, operation, tool, arguments)' <=>
           Permitted(r, operation, tool, arguments)
BY DEF Permitted, Input

\* A request that a step leaves alone stays within its token.
LEMMA WithinFrame ==
  ASSUME NEW r \in Requests, Within(r), req'[r] = req[r], caps'[r] = caps[r],
         list'[r] = list[r], r \in adapters' <=> r \in adapters,
         \/ pc'[r] = pc[r]
         \/ pc'[r] \in {"health", "verify", "audit", "done"}
         \/ pc[r] \in {"list", "call", "decide", "adapter"}
              /\ pc'[r] \in {"list", "call", "decide"}
  PROVE  Within(r)'
<1>1. \A operation, tool, arguments :
        Permitted(r, operation, tool, arguments)' <=>
          Permitted(r, operation, tool, arguments)
  BY PermittedFrame
<1>2. Trusted(req[r].token, req[r].channel)' <=>
        Trusted(req[r].token, req[r].channel)
  BY DEF Trusted
<1>. QED
  BY <1>1, <1>2 DEF Within

\* The capabilities the policy is asked with are signed ones, so what it allows
\* is permitted by the token.
LEMMA AllowedIsPermitted ==
  ASSUME NEW r, caps[r] \subseteq req[r].token.scopes,
         NEW operation, NEW tool, NEW arguments,
         Authorization(Input(r, operation, tool, arguments, caps[r])).allow
  PROVE  Permitted(r, operation, tool, arguments)
<1>. DEFINE i == Input(r, operation, tool, arguments, caps[r])
            j == Input(r, operation, tool, arguments, req[r].token.scopes)
<1>1. /\ j.subject = i.subject /\ j.actor = i.actor /\ j.channel = i.channel
      /\ j.tool = i.tool /\ j.operation = i.operation
      /\ j.arguments = i.arguments /\ i.capabilities \subseteq j.capabilities
  BY DEF Input
<1>. HIDE DEF i, j
<1>2. Authorization(i).allow
  BY DEF i
<1>3. Authorization(j).allow
  BY <1>1, <1>2, MoreCapabilities
<1>. QED
  BY <1>3 DEF j, Permitted

\* The composed capabilities are signed ones.
LEMMA ComposeSigned ==
  ASSUME NEW token, NEW channel, Trusted(token, channel)
  PROVE  Compose(token, channel) \subseteq token.scopes
BY DEF Trusted, Compose

LEMMA InitWithin == Init => IInv
BY DEF Init, IInv, Within

\* Every step leaves the requests it is not about alone.
LEMMA OneAtATime ==
  ASSUME IInv, Next, ~SwitchOutput
  PROVE  \E r \in Requests :
           /\ (\E q \in Lists \union Calls : Arrive(r, q)) \/ Handle(r)
           /\ Shape'
           /\ \A s \in Requests \ {r} :
                /\ pc'[s] = pc[s] /\ req'[s] = req[s] /\ caps'[s] = caps[s]
                /\ list'[s] = list[s] /\ (s \in adapters' <=> s \in adapters)
<1>1. PICK r \in Requests :
        (\E q \in Lists \union Calls : Arrive(r, q)) \/ Handle(r)
  BY DEF Next
<1>. SUFFICES /\ Shape'
              /\ \A s \in Requests \ {r} :
                   /\ pc'[s] = pc[s] /\ req'[s] = req[s] /\ caps'[s] = caps[s]
                   /\ list'[s] = list[s]
                   /\ s \in adapters' <=> s \in adapters
  BY <1>1
<1>0. Shape
  BY DEF IInv, Shape
<1>. USE <1>0 DEF Shape, Goto, Answer, Conclude
<1>2. CASE \E q \in Lists \union Calls : Arrive(r, q)
  BY <1>2 DEF Arrive
<1>3. CASE CheckIdentity(r)
  BY <1>3 DEF CheckIdentity
<1>4. CASE Verify(r)
  BY <1>4 DEF Verify
<1>5. CASE ListTool(r)
  <2>1. ASSUME NEW v, Filter(r, v)
        PROVE  /\ pc' \in [Requests -> {"idle", "health", "verify", "list",
                             "call", "decide", "adapter", "wait", "audit",
                             "done"}]
               /\ DOMAIN list' = Requests
               /\ \A s \in Requests \ {r} :
                    pc'[s] = pc[s] /\ list'[s] = list[s]
    BY <2>1 DEF Filter
  <2>. QED
    BY <1>5, <2>1 DEF ListTool
<1>6. CASE ListDone(r)
  BY <1>6 DEF ListDone
<1>7. CASE BeginCall(r)
  BY <1>7 DEF BeginCall
<1>8. CASE Decide(r)
  BY <1>8 DEF Decide, PolicyUnavailable
<1>9. CASE CallAdapter(r)
  BY <1>9 DEF CallAdapter
<1>10. CASE Serve(r) \/ Lose(r)
  BY <1>10 DEF Serve, Lose
<1>11. CASE Receive(r)
  BY <1>11 DEF Receive, OutputAccepted, AdapterFails, OutputRefused
<1>12. CASE FinalAudit(r)
  BY <1>12 DEF FinalAudit
<1>. QED
  BY <1>1, <1>2, <1>3, <1>4, <1>5, <1>6, <1>7, <1>8, <1>9, <1>10, <1>11,
     <1>12 DEF Handle

LEMMA NextWithin == IInv /\ [Next]_vars => IInv'
<1>. SUFFICES ASSUME IInv, [Next]_vars PROVE IInv'
  OBVIOUS
<1>1. CASE Next /\ ~SwitchOutput
  <2>1. PICK r \in Requests :
          /\ (\E q \in Lists \union Calls : Arrive(r, q)) \/ Handle(r)
          /\ Shape'
          /\ \A s \in Requests \ {r} :
               /\ pc'[s] = pc[s] /\ req'[s] = req[s] /\ caps'[s] = caps[s]
               /\ list'[s] = list[s] /\ (s \in adapters' <=> s \in adapters)
    BY <1>1, OneAtATime
  <2>2. \A s \in Requests \ {r} : Within(s)'
    BY <2>1, WithinFrame DEF IInv
  <2>3. pc \in [Requests -> {"idle", "health", "verify", "list", "call",
                             "decide", "adapter", "wait", "audit", "done"}]
        /\ DOMAIN req = Requests /\ DOMAIN caps = Requests
        /\ DOMAIN list = Requests /\ Within(r)
    BY DEF IInv
  <2>4. Within(r)'
    <3>. USE <2>3 DEF Goto, Answer, Conclude
    <3>1. CASE \E q \in Lists \union Calls : Arrive(r, q)
      BY <3>1 DEF Arrive, Within
    <3>2. CASE CheckIdentity(r)
      BY <3>2, WithinFrame DEF CheckIdentity
    <3>3. CASE Verify(r)
      <4>1. /\ req'[r] = req[r] /\ list'[r] = list[r] /\ adapters' = adapters
            /\ pc[r] = "verify"
        BY <3>3 DEF Verify
      <4>2. CASE pc'[r] \in {"list", "call"}
        <5>1. /\ Trusted(req[r].token, req[r].channel)
              /\ caps'[r] = Compose(req[r].token, req[r].channel)
          BY <3>3, <4>2 DEF Verify
        <5>2. caps'[r] \subseteq req[r].token.scopes
          BY <5>1, ComposeSigned
        <5>3. Trusted(req[r].token, req[r].channel)'
          BY <4>1, <5>1 DEF Trusted
        <5>. QED
          BY <4>1, <4>2, <5>2, <5>3, PermittedFrame DEF Within
      <4>3. CASE pc'[r] = "done"
        BY <3>3, <4>1, <4>3, WithinFrame DEF Verify
      <4>. QED
        BY <3>3, <4>2, <4>3 DEF Verify
    <3>4. CASE ListTool(r)
      <4>1. /\ req'[r] = req[r] /\ caps'[r] = caps[r] /\ adapters' = adapters
            /\ pc[r] = "list"
        BY <3>4 DEF ListTool
      <4>2. PICK v : /\ Filter(r, v)
                     /\ v # Undecided => v =
                          Authorization(DiscoverInput(r, ToolOrder[next[r]]))
        BY <3>4 DEF ListTool
      <4>3. pc'[r] \in {"list", "done"}
        BY <4>1, <4>2 DEF Filter
      <4>4. \A t \in list'[r] :
              \/ t \in list[r]
              \/ t = ToolOrder[next[r]] /\ v # Undecided /\ v.allow
        <5>. DEFINE keep == v # Undecided /\ v.allow
                    tool == ToolOrder[next[r]]
        <5>1. list'[r] = IF keep THEN list[r] \union {tool} ELSE list[r]
          BY <4>2 DEF Filter
        <5>. HIDE DEF keep, tool
        <5>2. \A t \in list'[r] : t \in list[r] \/ (t = tool /\ keep)
          BY <5>1
        <5>. QED
          BY <5>2 DEF keep, tool
      <4>5. \A t \in list'[r] : Permitted(r, "discover", t, "none")
        BY <4>1, <4>2, <4>4, AllowedIsPermitted DEF Within, DiscoverInput
      <4>6. Trusted(req[r].token, req[r].channel)'
        BY <4>1 DEF Within, Trusted
      <4>. QED
        BY <4>1, <4>3, <4>5, <4>6, PermittedFrame DEF Within
    <3>5. CASE ListDone(r)
      BY <3>5, WithinFrame DEF ListDone
    <3>6. CASE BeginCall(r)
      <4>1. /\ req'[r] = req[r] /\ caps'[r] = caps[r] /\ list'[r] = list[r]
            /\ adapters' = adapters /\ pc[r] = "call"
            /\ pc'[r] \in {"audit", "decide"}
        BY <3>6 DEF BeginCall
      <4>. QED
        BY <4>1, WithinFrame
    <3>7. CASE Decide(r)
      <4>1. /\ req'[r] = req[r] /\ caps'[r] = caps[r] /\ list'[r] = list[r]
            /\ adapters' = adapters /\ pc[r] = "decide"
        BY <3>7 DEF Decide
      <4>2. CASE pc'[r] = "audit"
        BY <4>1, <4>2, WithinFrame
      <4>3. CASE pc'[r] = "adapter"
        <5>1. Authorization(ExecuteInput(r)).allow
          BY <3>7, <4>3 DEF Decide, PolicyUnavailable, Decides, Accepts
        <5>2. Permitted(r, "execute", req[r].tool, req[r].arguments)
          BY <4>1, <5>1, AllowedIsPermitted DEF ExecuteInput, Within
        <5>3. Trusted(req[r].token, req[r].channel)'
          BY <4>1 DEF Within, Trusted
        <5>. QED
          BY <4>1, <4>3, <5>2, <5>3, PermittedFrame DEF Within
      <4>. QED
        BY <3>7, <4>2, <4>3 DEF Decide, PolicyUnavailable
    <3>8. CASE CallAdapter(r)
      <4>1. /\ req'[r] = req[r] /\ caps'[r] = caps[r] /\ list'[r] = list[r]
            /\ pc[r] = "adapter" /\ pc'[r] = "wait"
        BY <3>8 DEF CallAdapter
      <4>2. Trusted(req[r].token, req[r].channel)'
        BY <4>1 DEF Within, Trusted
      <4>. QED
        BY <4>1, <4>2, PermittedFrame DEF Within
    <3>9. CASE FinalAudit(r)
      BY <3>9, WithinFrame DEF FinalAudit
    <3>10. CASE Serve(r) \/ Lose(r)
      BY <3>10, WithinFrame DEF Serve, Lose
    <3>11. CASE Receive(r)
      BY <3>11, WithinFrame
         DEF Receive, OutputAccepted, AdapterFails, OutputRefused
    <3>. QED
      BY <2>1, <3>1, <3>2, <3>3, <3>4, <3>5, <3>6, <3>7, <3>8, <3>9, <3>10,
         <3>11 DEF Handle
  <2>. QED
    BY <2>1, <2>2, <2>4 DEF IInv, Shape
<1>2. CASE SwitchOutput \/ UNCHANGED vars
  <2>1. UNCHANGED <<pc, req, caps, list, adapters>>
    BY <1>2 DEF SwitchOutput, vars
  <2>2. \A r \in Requests : Within(r)'
    BY <2>1, WithinFrame DEF IInv
  <2>. QED
    BY <2>1, <2>2 DEF IInv
<1>. QED
  BY <1>1, <1>2

\* The inductive invariant holds for every set of requests and tokens, and for
\* every configuration of channels and scopes.
THEOREM Inductive == Spec => []IInv
<1>. QED
  BY InitWithin, NextWithin, PTL DEF Spec

\* A call reaches an adapter only with what its own token signs.
THEOREM AdaptersBacked == Spec => []AdapterBacked
<1>1. IInv => AdapterBacked
  BY DEF IInv, Within, Permitted, AdapterBacked
<1>. QED
  BY <1>1, Inductive, PTL

\* OPA never meets a conflict.
THEOREM AlwaysDecided == Spec => []PolicyDecides
<1>1. PolicyDecides
  BY PolicyNeverConflicts DEF PolicyDecides
<1>. QED
  BY <1>1, PTL

\* An input to discover an effect that is allowed: its execution is allowed
\* with the obligation of an exact Approval.
LEMMA EffectObligation ==
  ASSUME NEW i, NEW j, i.tool \in EffectTools, Authorization(i).allow,
         j.subject = i.subject, j.actor = i.actor, j.channel = i.channel,
         j.tool = i.tool, j.capabilities = i.capabilities, Execute(j)
  PROVE  Authorization(j).obligations = {"exact_approval"}
<1>. DEFINE v == Authorization(i)
<1>1. Holds(i, v) /\ v.allow
  BY AllowedHolds
<1>. HIDE DEF v
<1>2. CASE i.tool = "smart_lock.unlock"
  <2>1. EligibleOwnerSmartLock(i)
    BY <1>1, <1>2
       DEF Holds, Value, OutlookTools, MeetingTools,
           EligibleOwnerCodingRepository, EligibleOwnerOutlook,
           EligibleOwnerTool, EligibleExternalAvailability,
           EligibleExternalProposal, EligibleOwnerMeetingApproval
  <2>2. EligibleOwnerSmartLock(j)
    BY <2>1 DEF EligibleOwnerSmartLock, OnTelegram
  <2>3. Holds(j, AllowExact("owner_exact_smart_lock"))
    BY <2>2 DEF Holds
  <2>. QED
    BY <2>3, HoldsDecides DEF AllowExact, Value
<1>3. CASE i.tool = "calendar.approve_meeting_proposal"
  <2>1. EligibleOwnerMeetingApproval(i)
    BY <1>1, <1>3
       DEF Holds, Value, OutlookTools, EligibleOwnerCodingRepository,
           EligibleOwnerOutlook, EligibleOwnerTool,
           EligibleExternalAvailability, EligibleExternalProposal,
           EligibleOwnerSmartLock, SmartLockDenied
  <2>2. EligibleOwnerMeetingApproval(j)
    BY <2>1 DEF EligibleOwnerMeetingApproval, OnTelegram
  <2>3. Holds(j, AllowExact("owner_exact_meeting_approval"))
    BY <1>3, <2>2 DEF Holds
  <2>. QED
    BY <2>3, HoldsDecides DEF AllowExact, Value
<1>. QED
  BY <1>2, <1>3 DEF EffectTools

\* Only the Owner's Telegram turn is ever shown a Tool with an effect.
THEOREM EffectsShownToOwner == Spec => []EffectsGuarded
<1>1. ASSUME IInv, NEW r \in Requests, NEW t \in list[r] \intersect EffectTools
      PROVE  /\ req[r].token.subject = Owner
             /\ req[r].token.actor = "telegram-agent"
             /\ req[r].channel = "telegram"
             /\ Authorization(Input(r, "execute", t, "allowed",
                                    req[r].token.scopes))
                  .obligations = {"exact_approval"}
  <2>. DEFINE i == Input(r, "discover", t, "none", req[r].token.scopes)
              j == Input(r, "execute", t, "allowed", req[r].token.scopes)
  <2>1. Authorization(i).allow
    BY <1>1 DEF IInv, Within, Permitted
  <2>2. /\ i.tool = t /\ i.subject = req[r].token.subject
        /\ i.actor = req[r].token.actor /\ i.channel = req[r].channel
    BY DEF Input
  <2>3. /\ j.subject = i.subject /\ j.actor = i.actor
        /\ j.channel = i.channel /\ j.tool = i.tool
        /\ j.capabilities = i.capabilities /\ Execute(j)
    BY DEF Input, Execute
  <2>. HIDE DEF i, j
  <2>4. /\ i.subject = Owner
        /\ i.actor = "telegram-agent" /\ i.channel = "telegram"
    BY <2>1, <2>2, EffectsNeedOwner
  <2>5. Authorization(j).obligations = {"exact_approval"}
    BY <2>1, <2>2, <2>3, EffectObligation
  <2>. QED
    BY <2>2, <2>4, <2>5 DEF j
<1>2. IInv => EffectsGuarded
  BY <1>1 DEF EffectsGuarded
<1>. QED
  BY <1>2, Inductive, PTL

-----------------------------------------------------------------------------
(* What a call leaves behind: its record and the adapter's span *)

\* The names of the rules that deny.
Denials == {"default_deny", "smart_lock_owner_subject_required"}

\* Until OPA has been asked there is nothing to record of a request, and
\* nothing has left the gateway.
Fresh(r) ==
  /\ pc[r] \in {"idle", "health", "verify", "list", "call", "decide"} =>
       /\ decision[r] = Undecided /\ failure[r] = "none"
       /\ result[r] = "none" /\ r \notin adapters
  /\ r \notin adapters => r \notin wire /\ reply[r] = "none"
  /\ failedAt[r] # "nowhere" =>
       pc[r] = "done" /\ r \notin adapters /\ result[r] = "unauthorized"

\* The decision is OPA's on this very request, and only an allowed one goes to
\* the adapter.
Asked(r) ==
  /\ decision[r] # Undecided => decision[r] = Authorization(ExecuteInput(r))
  /\ pc[r] \in {"adapter", "wait"} \/ r \in adapters =>
       decision[r] # Undecided /\ decision[r].allow
  /\ pc[r] = "adapter" => r \notin adapters
  /\ pc[r] = "wait" => r \in adapters
  /\ pc[r] \in {"adapter", "wait"} =>
       failure[r] = "none" /\ result[r] = "none"
  /\ pc[r] \in {"call", "decide", "adapter", "wait", "audit"} =>
       req[r].method = "call"
  /\ pc[r] = "list" => req[r].method # "call"
  /\ pc[r] \in {"decide", "adapter", "wait"} =>
       req[r].arguments # "malformed"

\* What the observation knows when the handler has ended.
Concluded(r) ==
  pc[r] = "audit" =>
    /\ result[r] \in {"ok", "error"}
    /\ failure[r] \in {"none", "approval_authority_unavailable",
                       "policy_unavailable", "malformed_output"}
    /\ failure[r] \in {"approval_authority_unavailable",
                       "policy_unavailable"} => decision[r] = Undecided
    /\ failure[r] = "malformed_output" => r \in adapters
    /\ decision[r] = Undecided /\ failure[r] = "none" =>
         req[r].arguments = "malformed"
    /\ req[r].arguments = "malformed" => decision[r] = Undecided
    /\ result[r] = "ok" =>
         failure[r] = "none" /\ r \in adapters /\ reply[r] = "good"

\* The record a tells how the call r ended.
Explains(r, a) ==
  /\ a.decided <=> decision[r] # Undecided
  /\ a.decided => a.rule = decision[r].reason
  /\ a.outcome = "deny" =>
       /\ a.reason = "malformed_input" <=>
            failure[r] = "none" /\ req[r].arguments = "malformed"
       /\ a.rule \in Denials <=> a.decided /\ ~decision[r].allow
       /\ a.reason = "malformed_output" => r \in adapters
       /\ r \in adapters =>
            a.reason \in {"malformed_output", "tool_or_adapter_denied"}

\* The result a caller got is the one on record.
OnRecord(r) ==
  pc[r] = "done" /\ req[r].method = "call" /\ result[r] \in {"ok", "error"} =>
    \E a \in FinalRecords(r) :
      /\ FinalRecords(r) = {a}
      /\ (a.outcome = "allow") <=> (result[r] = "ok")

Kept(r) ==
  /\ pc[r] # "done" => FinalRecords(r) = {}
  /\ failedAt[r] = "nowhere" => \A a \in FinalRecords(r) : Explains(r, a)
  /\ \A a \in FinalRecords(r) : a.outcome = "allow" => reply[r] = "good"
  /\ OnRecord(r)

\* An answer of the adapter has its span; a request is answered once.
Served(r) ==
  /\ reply[r] \in {"good", "malformed"} =>
       \E s \in spans : s.request = r /\ s.outcome = "success"
  /\ r \in wire => r \in adapters /\ reply[r] = "none"
  /\ \A s \in spans :
       s.request = r => r \in adapters /\ s.rule = decision[r].reason

CallInv(r) ==
  Fresh(r) /\ Asked(r) /\ Concluded(r) /\ Kept(r) /\ Served(r)

\* Records and spans are of requests.
Known ==
  /\ DOMAIN decision = Requests /\ DOMAIN failure = Requests
  /\ DOMAIN result = Requests /\ DOMAIN reply = Requests
  /\ DOMAIN failedAt = Requests
  /\ \A a \in accepted : a.request \in Requests
  /\ \A s \in spans : s.request \in Requests

CallsInv == Known /\ \A r \in Requests : CallInv(r)

\* A decision is never taken for none.
LEMMA DecidedIsDecided ==
  ASSUME NEW v \in Values
  PROVE  v # Undecided
<1>1. v.reason \in PolicyReasons
  BY DEF Values
<1>2. Undecided.reason = "none"
  BY DEF Undecided
<1>. QED
  BY <1>1, <1>2 DEF PolicyReasons

\* The rule that is named tells whether the policy allowed or denied.
LEMMA RuleTells ==
  ASSUME NEW i
  PROVE  /\ Authorization(i).reason \in Denials <=> ~Authorization(i).allow
         /\ Authorization(i).reason \notin
              {"approval_authority_unavailable", "policy_unavailable",
               "malformed_input"}
<1>. DEFINE v == Authorization(i)
<1>1. v.reason \in PolicyReasons
  BY AuthorizationValues DEF Values
<1>2. CASE v.allow
  <2>1. Holds(i, v)
    BY <1>2, AllowedHolds
  <2>. HIDE DEF v
  <2>2. v.reason \notin Denials
    BY <1>2, <2>1 DEF Holds, Value, Allow, AllowExact, Denials
  <2>. QED
    BY <1>1, <1>2, <2>2 DEF v, PolicyReasons
<1>3. CASE ~v.allow
  <2>1. v = DefaultDeny \/ Holds(i, v)
    BY DEF Authorization, Authorizations
  <2>2. v.reason \in Denials
    <3>1. CASE v = DefaultDeny
      BY <3>1 DEF DefaultDeny, Value, Denials
    <3>2. CASE Holds(i, v)
      <4>. HIDE DEF v
      <4>. QED
        BY <1>3, <3>2 DEF Holds, Value, Allow, AllowExact, Denials
    <3>. QED
      BY <2>1, <3>1, <3>2
  <2>. QED
    BY <1>1, <1>3, <2>2 DEF PolicyReasons
<1>. QED
  BY <1>2, <1>3

\* What a request that a step is not about can rely on.
Aside(s) ==
  /\ pc'[s] = pc[s] /\ req'[s] = req[s] /\ caps'[s] = caps[s]
  /\ decision'[s] = decision[s] /\ failure'[s] = failure[s]
  /\ result'[s] = result[s] /\ reply'[s] = reply[s]
  /\ failedAt'[s] = failedAt[s]
  /\ s \in wire' <=> s \in wire
  /\ s \in adapters' <=> s \in adapters
  /\ FinalRecords(s)' = FinalRecords(s)
  /\ spans \subseteq spans' /\ \A t \in spans' \ spans : t.request # s

LEMMA AsideInv ==
  ASSUME NEW s \in Requests, CallInv(s), Aside(s)
  PROVE  CallInv(s)'
<1>. USE DEF Aside, CallInv
<1>1. Fresh(s)'
  BY DEF Fresh
<1>2. Asked(s)'
  BY DEF Asked, ExecuteInput, Input
<1>3. Concluded(s)'
  BY DEF Concluded
<1>4. \A a : Explains(s, a) => Explains(s, a)'
  BY DEF Explains
<1>5. Kept(s)'
  BY <1>4 DEF Kept, OnRecord
<1>6. Served(s)'
  BY DEF Served
<1>. QED
  BY <1>1, <1>2, <1>3, <1>5, <1>6

\* What the collector may have got: the record, or nothing.
LEMMA RecordedOf ==
  ASSUME NEW r \in Requests, NEW a, NEW told, RecordAudit(a, told),
         a.request = r, Known
  PROVE  /\ \A b \in accepted' : b.request \in Requests
         /\ \A s \in Requests \ {r} : FinalRecords(s)' = FinalRecords(s)
         /\ a.operation = "discover" => FinalRecords(r)' = FinalRecords(r)
         /\ a.operation = "execute" =>
              /\ FinalRecords(r)' \in {FinalRecords(r),
                                       FinalRecords(r) \union {a}}
              /\ told => FinalRecords(r)' = FinalRecords(r) \union {a}
BY DEF RecordAudit, FinalRecords, Known

LEMMA SameRecords ==
  ASSUME accepted' = accepted, NEW s
  PROVE  FinalRecords(s)' = FinalRecords(s)
BY DEF FinalRecords

\* A step of request r leaves the others alone.
LEMMA OthersAside ==
  ASSUME IInv, Known, NEW r \in Requests,
         (\E q \in Lists \union Calls : Arrive(r, q)) \/ Handle(r)
  PROVE  Known' /\ \A s \in Requests \ {r} : Aside(s)
<1>0. Shape /\ Known
  BY DEF IInv, Shape
<1>. USE <1>0 DEF Shape, Goto, Answer, Conclude, exchange
<1>1. CASE \E q \in Lists \union Calls : Arrive(r, q)
  BY <1>1, SameRecords DEF Arrive, Known, Aside
<1>2. CASE CheckIdentity(r)
  <2>1. CASE accepted' = accepted
    BY <1>2, <2>1, SameRecords DEF CheckIdentity, Known, Aside
  <2>2. CASE RecordAudit(IdentityUnavailable(r), FALSE)
    <3>1. IdentityUnavailable(r).request = r
      BY DEF IdentityUnavailable
    <3>2. \E told : RecordAudit(IdentityUnavailable(r), told)
      BY <2>2, Zenon
    <3>3. /\ \A b \in accepted' : b.request \in Requests
          /\ \A s \in Requests \ {r} : FinalRecords(s)' = FinalRecords(s)
      BY <3>1, <3>2, RecordedOf
    <3>4. /\ UNCHANGED <<exchange, req, caps, decision, failure, adapters>>
          /\ DOMAIN result' = Requests /\ DOMAIN failedAt' = Requests
          /\ \A s \in Requests \ {r} :
               /\ pc'[s] = pc[s] /\ result'[s] = result[s]
               /\ failedAt'[s] = failedAt[s]
      BY <1>2 DEF CheckIdentity, Known
    <3>. QED
      BY <3>3, <3>4 DEF Known, Aside
  <2>. QED
    BY <1>2, <2>1, <2>2 DEF CheckIdentity
<1>3. CASE Verify(r)
  BY <1>3, SameRecords DEF Verify, Known, Aside
<1>4. CASE ListTool(r)
  <2>1. PICK v : Filter(r, v)
    BY <1>4 DEF ListTool
  <2>2. DiscoveryRecord(r, v).request = r
    BY DEF DiscoveryRecord
  <2>3. \/ accepted' = accepted
        \/ \E told : RecordAudit(DiscoveryRecord(r, v), told)
    BY <2>1 DEF Filter
  <2>4. /\ \A b \in accepted' : b.request \in Requests
        /\ \A s \in Requests \ {r} : FinalRecords(s)' = FinalRecords(s)
    BY <2>2, <2>3, RecordedOf, SameRecords DEF Known
  <2>5. /\ \A s \in Requests \ {r} : pc'[s] = pc[s] /\ result'[s] = result[s]
        /\ DOMAIN result' = Requests
    BY <2>1 DEF Filter, Known
  <2>. QED
    BY <1>4, <2>4, <2>5 DEF ListTool, Known, Aside
<1>5. CASE ListDone(r)
  BY <1>5, SameRecords DEF ListDone, Known, Aside
<1>6. CASE BeginCall(r)
  BY <1>6, SameRecords DEF BeginCall, Known, Aside
<1>7. CASE Decide(r)
  BY <1>7, SameRecords DEF Decide, PolicyUnavailable, Known, Aside
<1>8. CASE CallAdapter(r)
  BY <1>8, SameRecords DEF CallAdapter, Known, Aside
<1>9. CASE Serve(r)
  <2>1. PICK answer \in Answers(req[r].tool) :
          /\ spans' = spans \union Span(r, answer)
          /\ reply' = [reply EXCEPT ![r] = answer]
    BY <1>9 DEF Serve
  <2>2. \A t \in Span(r, answer) : t.request = r
    BY DEF Span
  <2>. QED
    BY <1>9, <2>1, <2>2, SameRecords DEF Serve, Known, Aside
<1>10. CASE Lose(r)
  BY <1>10, SameRecords DEF Lose, Known, Aside
<1>11. CASE Receive(r)
  BY <1>11, SameRecords
     DEF Receive, OutputAccepted, AdapterFails, OutputRefused, Known, Aside
<1>12. CASE FinalAudit(r)
  <2>1. FinalRecord(r).request = r
    BY DEF FinalRecord
  <2>2. \E told : RecordAudit(FinalRecord(r), told)
    BY <1>12, Zenon DEF FinalAudit
  <2>3. /\ \A b \in accepted' : b.request \in Requests
        /\ \A s \in Requests \ {r} : FinalRecords(s)' = FinalRecords(s)
    BY <2>1, <2>2, RecordedOf
  <2>. QED
    BY <1>12, <2>3 DEF FinalAudit, Known, Aside
<1>. QED
  BY <1>1, <1>2, <1>3, <1>4, <1>5, <1>6, <1>7, <1>8, <1>9, <1>10, <1>11,
     <1>12 DEF Handle

\* The record that is made of a call explains how it ended.
LEMMA FinalExplains ==
  ASSUME NEW r \in Requests, Asked(r), Concluded(r), pc[r] = "audit"
  PROVE  /\ Explains(r, FinalRecord(r))
         /\ FinalRecord(r).outcome = "allow" <=> result[r] = "ok"
         /\ FinalRecord(r).request = r
         /\ FinalRecord(r).operation = "execute"
<1>. DEFINE i == ExecuteInput(r)
<1>1. decision[r] # Undecided =>
        /\ decision[r].reason \in Denials <=> ~decision[r].allow
        /\ decision[r].reason # "malformed_input"
  BY RuleTells DEF Asked
<1>2. FinalRecord(r).outcome = "allow" <=> result[r] = "ok"
  BY DEF FinalRecord, Concluded
<1>3. /\ FinalRecord(r).decided <=> decision[r] # Undecided
      /\ FinalRecord(r).reason = Reason(r)
      /\ FinalRecord(r).rule =
           IF decision[r] = Undecided THEN Reason(r) ELSE decision[r].reason
      /\ FinalRecord(r).request = r /\ FinalRecord(r).operation = "execute"
  BY DEF FinalRecord
<1>4. decision[r] = Undecided =>
        /\ r \notin adapters /\ result[r] = "error"
        /\ failure[r] # "malformed_output"
        /\ Reason(r) = IF failure[r] = "none" THEN "malformed_input"
                       ELSE failure[r]
  BY DEF Asked, Concluded, Reason
<1>5. decision[r] # Undecided /\ result[r] # "ok" =>
        /\ failure[r] \in {"none", "malformed_output"}
        /\ Reason(r) = IF failure[r] = "none" THEN "tool_or_adapter_denied"
                       ELSE failure[r]
  BY DEF Concluded, Reason
<1>6. CASE decision[r] = Undecided
  BY <1>2, <1>3, <1>4, <1>6 DEF Explains, Concluded, Denials
<1>7. CASE decision[r] # Undecided
  BY <1>1, <1>2, <1>3, <1>5, <1>7 DEF Explains, Concluded
<1>. QED
  BY <1>2, <1>3, <1>6, <1>7

\* What is known of a request holds after every step of it.
LEMMA StepInv ==
  ASSUME IInv, Known, NEW r \in Requests, CallInv(r),
         (\E q \in Lists \union Calls : Arrive(r, q)) \/ Handle(r)
  PROVE  CallInv(r)'
<1>0. Shape /\ Known
  BY DEF IInv, Shape
<1>. USE <1>0 DEF Shape, Known, Goto, Answer, Conclude, exchange, CallInv,
                  Fresh, Asked, Concluded, Kept, Served, OnRecord
<1>1. ASSUME FinalRecords(r)' = FinalRecords(r), UNCHANGED decision[r],
             UNCHANGED failure[r], UNCHANGED req[r],
             r \in adapters' <=> r \in adapters
      PROVE  \A a : Explains(r, a) => Explains(r, a)'
  BY <1>1 DEF Explains
<1>2. ASSUME UNCHANGED req[r], UNCHANGED caps[r]
      PROVE  ExecuteInput(r)' = ExecuteInput(r)
  BY <1>2 DEF ExecuteInput, Input
<1>3. CASE \E q \in Lists \union Calls : Arrive(r, q)
  BY <1>3, SameRecords DEF Arrive
<1>4. CASE CheckIdentity(r)
  <2>1. CASE Goto(r, "verify") /\ UNCHANGED <<result, accepted, failedAt>>
    BY <1>4, <2>1, <1>2, SameRecords DEF CheckIdentity
  <2>2. CASE /\ RecordAudit(IdentityUnavailable(r), FALSE)
             /\ Answer(r, "unauthorized")
             /\ failedAt' = [failedAt EXCEPT ![r] = "health"]
    <3>1. /\ IdentityUnavailable(r).request = r
          /\ IdentityUnavailable(r).operation = "execute"
          /\ IdentityUnavailable(r).outcome = "deny"
      BY DEF IdentityUnavailable
    <3>2. \E told : RecordAudit(IdentityUnavailable(r), told)
      BY <2>2, Zenon
    <3>3. FinalRecords(r)' \subseteq {IdentityUnavailable(r)}
      BY <1>4, <3>1, <3>2, RecordedOf DEF CheckIdentity
    <3>4. /\ UNCHANGED <<exchange, req, caps, decision, failure, adapters>>
          /\ pc[r] = "health" /\ pc'[r] = "done"
          /\ result'[r] = "unauthorized" /\ failedAt'[r] = "health"
      BY <1>4, <2>2 DEF CheckIdentity
    <3>. QED
      BY <1>2, <3>1, <3>3, <3>4
  <2>. QED
    BY <1>4, <2>1, <2>2 DEF CheckIdentity
<1>5. CASE Verify(r)
  BY <1>5, SameRecords DEF Verify
<1>6. CASE ListTool(r)
  <2>1. PICK v : Filter(r, v)
    BY <1>6 DEF ListTool
  <2>2. /\ DiscoveryRecord(r, v).request = r
        /\ DiscoveryRecord(r, v).operation = "discover"
    BY DEF DiscoveryRecord
  <2>3. \/ accepted' = accepted
        \/ \E told : RecordAudit(DiscoveryRecord(r, v), told)
    BY <2>1 DEF Filter
  <2>4. FinalRecords(r)' = FinalRecords(r)
    BY <2>2, <2>3, RecordedOf, SameRecords
  <2>5. /\ pc[r] = "list"
        /\ UNCHANGED <<exchange, req, caps, decision, failure, adapters,
                       failedAt>>
    BY <1>6 DEF ListTool
  <2>6. \/ pc'[r] = "list" /\ result'[r] = result[r]
        \/ pc'[r] = "done" /\ result'[r] = "failed"
    BY <2>1, <2>5 DEF Filter
  <2>. QED
    BY <1>2, <2>4, <2>5, <2>6
<1>7. CASE ListDone(r)
  BY <1>7, <1>2, SameRecords DEF ListDone
<1>8. CASE BeginCall(r)
  BY <1>8, <1>2, SameRecords DEF BeginCall
<1>9. CASE Decide(r)
  <2>1. /\ pc[r] = "decide" /\ accepted' = accepted
        /\ UNCHANGED <<exchange, req, caps, adapters, failedAt>>
    BY <1>9 DEF Decide
  <2>2. CASE PolicyUnavailable(r)
    BY <1>2, <2>1, <2>2, SameRecords DEF PolicyUnavailable
  <2>3. CASE ~PolicyUnavailable(r)
    <3>. DEFINE v == Authorization(ExecuteInput(r))
    <3>1. /\ decision'[r] = v /\ UNCHANGED failure
          /\ \/ v.allow /\ pc'[r] = "adapter" /\ UNCHANGED result
             \/ ~v.allow /\ pc'[r] = "audit" /\ result'[r] = "error"
      BY <1>9, <2>3 DEF Decide, Decides, Accepts
    <3>2. v # Undecided
      BY AuthorizationValues, DecidedIsDecided
    <3>3. ExecuteInput(r)' = ExecuteInput(r)
      BY <1>2, <2>1
    <3>4. FinalRecords(r)' = FinalRecords(r)
      BY <2>1, SameRecords
    <3>5. Authorization(ExecuteInput(r))' = v
      BY <3>3
    <3>. HIDE DEF v
    <3>. QED
      BY <2>1, <3>1, <3>2, <3>4, <3>5
  <2>. QED
    BY <2>2, <2>3
<1>10. CASE CallAdapter(r)
  BY <1>10, <1>2, SameRecords DEF CallAdapter
<1>11. CASE Serve(r)
  <2>1. PICK answer \in Answers(req[r].tool) :
          /\ spans' = spans \union Span(r, answer)
          /\ reply' = [reply EXCEPT ![r] = answer]
    BY <1>11 DEF Serve
  <2>2. /\ r \in wire /\ r \in adapters /\ wire' = wire \ {r}
        /\ UNCHANGED <<pc, req, caps, decision, failure, result, adapters,
                       accepted, failedAt>>
    BY <1>11 DEF Serve
  <2>3. /\ answer \in {"good", "malformed", "refused"}
        /\ reply'[r] = answer
    BY <2>1 DEF Answers
  <2>4. /\ \A t \in Span(r, answer) :
             t.request = r /\ t.rule = decision[r].reason
        /\ answer # "refused" =>
             \E t \in Span(r, answer) : t.request = r /\ t.outcome = "success"
    <3>. DEFINE span ==
           [request |-> r, tool |-> req[r].tool, rule |-> decision[r].reason,
            outcome |-> IF answer = "refused" THEN "error" ELSE "success"]
    <3>1. decision[r] # Undecided
      BY <2>2
    <3>2. Span(r, answer) = {span}
      BY <3>1 DEF Span
    <3>3. /\ span.request = r /\ span.rule = decision[r].reason
          /\ answer # "refused" => span.outcome = "success"
      OBVIOUS
    <3>. QED
      BY <3>2, <3>3, Zenon
  <2>5. Served(r)'
    BY <2>1, <2>2, <2>3, <2>4
  <2>6. /\ FinalRecords(r)' = FinalRecords(r)
        /\ \A a : Explains(r, a) => Explains(r, a)'
        /\ ExecuteInput(r)' = ExecuteInput(r)
    BY <1>1, <1>2, <2>2, SameRecords
  <2>7. Fresh(r)' /\ Asked(r)' /\ Concluded(r)'
    BY <2>2, <2>6
  <2>8. Kept(r)'
    BY <2>2, <2>6
  <2>. QED
    BY <2>5, <2>7, <2>8
<1>12. CASE Lose(r)
  BY <1>12, <1>1, <1>2, SameRecords DEF Lose
<1>13. CASE Receive(r)
  BY <1>13, <1>2, SameRecords
     DEF Receive, OutputAccepted, AdapterFails, OutputRefused
<1>14. CASE FinalAudit(r)
  <2>0. PICK a : a = FinalRecord(r)
    OBVIOUS
  <2>1. /\ pc[r] = "audit" /\ pc'[r] = "done"
        /\ UNCHANGED <<exchange, req, caps, decision, failure, adapters,
                       failedAt>>
    BY <1>14 DEF FinalAudit
  <2>2. /\ Explains(r, a) /\ (a.outcome = "allow" <=> result[r] = "ok")
        /\ a.request = r /\ a.operation = "execute"
    BY <2>0, <2>1, FinalExplains
  <2>3. \E told : RecordAudit(a, told)
    BY <1>14, <2>0, Zenon DEF FinalAudit
  <2>4. FinalRecords(r)' \subseteq {a}
    BY <2>1, <2>2, <2>3, RecordedOf
  <2>5. \/ FinalRecords(r)' = {a} /\ result'[r] = result[r]
        \/ result'[r] = "failed"
    <3>1. CASE RecordAudit(a, TRUE) /\ Answer(r, result[r])
      BY <2>1, <2>2, <3>1, RecordedOf
    <3>2. CASE Answer(r, "failed")
      BY <3>2
    <3>. QED
      BY <1>14, <2>0, <3>1, <3>2 DEF FinalAudit
  <2>6. Explains(r, a)'
    BY <2>1, <2>2 DEF Explains
  <2>7. Fresh(r)' /\ Asked(r)' /\ Concluded(r)' /\ Served(r)'
    BY <1>2, <2>1
  <2>8. OnRecord(r)'
    BY <2>1, <2>2, <2>5
  <2>9. Kept(r)'
    BY <2>1, <2>2, <2>4, <2>6, <2>8
  <2>. QED
    BY <2>7, <2>9
<1>. QED
  BY <1>3, <1>4, <1>5, <1>6, <1>7, <1>8, <1>9, <1>10, <1>11, <1>12, <1>13,
     <1>14 DEF Handle

LEMMA InitCalls == Init => CallsInv
<1>. SUFFICES ASSUME Init PROVE CallsInv
  OBVIOUS
<1>1. \A r : FinalRecords(r) = {}
  BY DEF Init, FinalRecords
<1>. QED
  BY <1>1 DEF Init, CallsInv, Known, CallInv, Fresh, Asked, Concluded, Kept,
              OnRecord, Served

LEMMA NextCalls == IInv /\ CallsInv /\ [Next]_vars => CallsInv'
<1>. SUFFICES ASSUME IInv, CallsInv, [Next]_vars PROVE CallsInv'
  OBVIOUS
<1>1. ASSUME NEW r \in Requests,
             (\E q \in Lists \union Calls : Arrive(r, q)) \/ Handle(r)
      PROVE  CallsInv'
  <2>1. Known' /\ \A s \in Requests \ {r} : Aside(s)
    BY <1>1, OthersAside DEF CallsInv
  <2>2. CallInv(r)'
    BY <1>1, StepInv DEF CallsInv
  <2>3. \A s \in Requests \ {r} : CallInv(s)'
    BY <2>1, AsideInv DEF CallsInv
  <2>. QED
    BY <2>1, <2>2, <2>3 DEF CallsInv
<1>2. CASE SwitchOutput \/ UNCHANGED vars
  <2>1. UNCHANGED <<pc, req, caps, decision, failure, result, wire, reply,
                    spans, adapters, accepted, failedAt>>
    BY <1>2 DEF SwitchOutput, vars, exchange
  <2>2. \A s \in Requests : Aside(s)
    BY <2>1, SameRecords DEF Aside
  <2>3. \A s \in Requests : CallInv(s)'
    BY <2>2, AsideInv DEF CallsInv
  <2>. QED
    BY <2>1, <2>3 DEF CallsInv, Known
<1>. QED
  BY <1>1, <1>2 DEF Next

\* What is known of the calls holds always, however they interleave and
\* whatever fails.
THEOREM CallsInductive == Spec => []CallsInv
BY InitCalls, NextCalls, Inductive, PTL DEF Spec

\* No result of a call, good or bad, leaves the gateway without the one record
\* that says which it was: the order of the middleware's last two steps.
THEOREM ResultsRecorded == Spec => []ResultRecorded
<1>1. CallsInv => ResultRecorded
  BY DEF CallsInv, CallInv, Kept, OnRecord, ResultRecorded
<1>. QED
  BY <1>1, CallsInductive, PTL

\* Whatever failed or was refused, and whenever, the record of the call says
\* which it was.
THEOREM RefusalsExplained == Spec => []RefusalExplained
<1>1. ASSUME CallsInv, NEW r \in Requests, NEW a \in FinalRecords(r),
             a.outcome = "deny", failedAt[r] = "nowhere"
      PROVE  /\ a.reason = "malformed_input" <=>
                  failure[r] = "none" /\ req[r].arguments = "malformed"
             /\ a.rule \in Denials <=>
                  a.decided /\ ~Authorization(ExecuteInput(r)).allow
             /\ a.reason = "malformed_output" => r \in adapters
             /\ r \in adapters =>
                  a.decided /\ Authorization(ExecuteInput(r)).allow
  <2>1. Explains(r, a) /\ Asked(r)
    BY <1>1 DEF CallsInv, CallInv, Kept
  <2>. QED
    BY <1>1, <2>1 DEF Explains, Asked
<1>2. CallsInv => RefusalExplained
  BY <1>1 DEF RefusalExplained, Denials
<1>. QED
  BY <1>2, CallsInductive, PTL

\* Spans and records agree, although the adapter may serve a request after the
\* gateway has given up on it and recorded its end.
THEOREM SpansJoined == Spec => []SpansJoin
<1>1. ASSUME CallsInv, NEW s \in spans
      PROVE  /\ Authorization(ExecuteInput(s.request)).allow
             /\ s.rule = Authorization(ExecuteInput(s.request)).reason
             /\ \A a \in FinalRecords(s.request) :
                  /\ a.decided /\ a.rule = s.rule
                  /\ a.outcome = "deny" =>
                       a.reason \in {"malformed_output",
                                     "tool_or_adapter_denied"}
  <2>. DEFINE r == s.request
  <2>1. r \in Requests /\ CallInv(r)
    BY <1>1 DEF CallsInv, Known
  <2>. HIDE DEF r
  <2>2. r \in adapters /\ s.rule = decision[r].reason
    BY <1>1, <2>1 DEF CallInv, Served, r
  <2>3. /\ decision[r] = Authorization(ExecuteInput(r))
        /\ decision[r] # Undecided /\ decision[r].allow
    BY <2>1, <2>2 DEF CallInv, Asked
  <2>4. \A a \in FinalRecords(r) : Explains(r, a)
    BY <2>1, <2>2 DEF CallInv, Kept, Fresh
  <2>5. \A a \in FinalRecords(r) :
          /\ a.decided /\ a.rule = s.rule
          /\ a.outcome = "deny" =>
               a.reason \in {"malformed_output", "tool_or_adapter_denied"}
    BY <2>2, <2>3, <2>4 DEF Explains
  <2>. QED
    BY <2>2, <2>3, <2>5 DEF r
<1>2. ASSUME CallsInv, NEW a \in accepted, a.operation = "execute",
             a.outcome = "allow"
      PROVE  \E s \in spans : s.request = a.request /\ s.outcome = "success"
  <2>1. a.request \in Requests /\ a \in FinalRecords(a.request)
    BY <1>2 DEF CallsInv, Known, FinalRecords
  <2>. QED
    BY <1>2, <2>1 DEF CallsInv, CallInv, Kept, Served
<1>3. CallsInv => SpansJoin
  BY <1>1, <1>2 DEF SpansJoin
<1>. QED
  BY <1>3, CallsInductive, PTL

-----------------------------------------------------------------------------
(* What a list has *)

\* The loop over the Tools has kept those OPA allowed, and missed none unless
\* it failed.
Listed(r) ==
  /\ pc[r] \in {"idle", "health", "verify"} => next[r] = 1 /\ list[r] = {}
  /\ pc[r] # "idle" => req[r].channel \in Channels
  /\ \/ pc[r] = "list"
     \/ pc[r] = "done" /\ req[r].method = "list" /\ result[r] = "ok"
     =>
       /\ next[r] \in 1..(Len(ToolOrder) + 1)
       /\ pc[r] = "done" => next[r] = Len(ToolOrder) + 1
       /\ caps[r] = Compose(req[r].token, req[r].channel)
       /\ list[r] \subseteq Tools
       /\ r \notin skipped =>
            \A n \in 1..(next[r] - 1) :
              Authorization(DiscoverInput(r, ToolOrder[n])).allow =>
                ToolOrder[n] \in list[r]

ListsInv == DOMAIN next = Requests /\ \A r \in Requests : Listed(r)

\* A step of another request leaves a list alone.
ListAside(s) ==
  /\ pc'[s] = pc[s] /\ req'[s] = req[s] /\ caps'[s] = caps[s]
  /\ next'[s] = next[s] /\ list'[s] = list[s] /\ result'[s] = result[s]
  /\ s \in skipped' <=> s \in skipped

LEMMA ListAsideInv ==
  ASSUME NEW s \in Requests, Listed(s), ListAside(s)
  PROVE  Listed(s)'
<1>1. \A t : DiscoverInput(s, t)' = DiscoverInput(s, t)
  BY DEF DiscoverInput, Input, ListAside
<1>. QED
  BY <1>1 DEF Listed, ListAside

LEMMA OthersListAside ==
  ASSUME IInv, Known, DOMAIN next = Requests, NEW r \in Requests,
         (\E q \in Lists \union Calls : Arrive(r, q)) \/ Handle(r)
  PROVE  DOMAIN next' = Requests /\ \A s \in Requests \ {r} : ListAside(s)
<1>0. Shape /\ DOMAIN next = Requests /\ DOMAIN result = Requests
  BY DEF IInv, Shape, Known
<1>1. \A s \in Requests \ {r} :
        /\ pc'[s] = pc[s] /\ req'[s] = req[s] /\ caps'[s] = caps[s]
        /\ result'[s] = result[s]
  BY OthersAside DEF Aside
<1>2. CASE ListTool(r)
  <2>1. PICK v : Filter(r, v)
    BY <1>2 DEF ListTool
  <2>2. /\ DOMAIN next' = Requests
        /\ \A s \in Requests \ {r} : next'[s] = next[s] /\ list'[s] = list[s]
    BY <1>0, <2>1 DEF Filter, Shape
  <2>3. skipped' = skipped \/ skipped' = skipped \union {r}
    BY <1>2 DEF ListTool
  <2>. QED
    BY <1>1, <2>2, <2>3 DEF ListAside
<1>3. CASE ~ListTool(r)
  <2>1. UNCHANGED <<next, list, skipped>>
    BY <1>3 DEF Arrive, Handle, CheckIdentity, Verify, ListDone, BeginCall,
                Decide, CallAdapter, Serve, Lose, Receive, FinalAudit
  <2>. QED
    BY <1>0, <1>1, <2>1 DEF ListAside
<1>. QED
  BY <1>2, <1>3

\* One turn of the loop.
LEMMA ListToolInv ==
  ASSUME IInv, Known, DOMAIN next = Requests, NEW r \in Requests,
         CallInv(r), Listed(r), ListTool(r)
  PROVE  Listed(r)'
<1>. DEFINE tool == ToolOrder[next[r]]
<1>0. Shape /\ DOMAIN next = Requests /\ DOMAIN result = Requests
  BY DEF IInv, Shape, Known
<1>1. PICK v : /\ Filter(r, v)
               /\ \/ v = Authorization(DiscoverInput(r, tool))
                  \/ v = Undecided /\ r \in skipped'
  BY DEF ListTool
<1>2. /\ pc[r] = "list" /\ next[r] <= Len(ToolOrder)
      /\ UNCHANGED <<req, caps>> /\ skipped \subseteq skipped'
  BY DEF ListTool
<1>3. /\ next[r] \in 1..(Len(ToolOrder) + 1)
      /\ caps[r] = Compose(req[r].token, req[r].channel)
      /\ list[r] \subseteq Tools /\ req[r].channel \in Channels
      /\ r \notin skipped =>
           \A n \in 1..(next[r] - 1) :
             Authorization(DiscoverInput(r, ToolOrder[n])).allow =>
               ToolOrder[n] \in list[r]
  BY <1>2 DEF Listed
<1>4. ToolOrder \in Seq(Tools)
  BY GatewayAssumption
<1>5. Len(ToolOrder) \in Nat /\ tool \in Tools
  BY <1>2, <1>3, <1>4
<1>6. /\ next'[r] = next[r] + 1
      /\ list'[r] = IF v # Undecided /\ v.allow THEN list[r] \union {tool}
                    ELSE list[r]
      /\ \/ pc'[r] = "list"
         \/ pc'[r] = "done" /\ result'[r] = "failed"
  BY <1>0, <1>1, <1>2 DEF Filter, Shape, Answer, Goto
<1>7. \A t : DiscoverInput(r, t)' = DiscoverInput(r, t)
  BY <1>2 DEF DiscoverInput, Input
<1>8. r \notin skipped' => v # Undecided
  <2>1. Authorization(DiscoverInput(r, tool)) \in Values
    BY AuthorizationValues
  <2>. QED
    BY <1>1, <2>1, DecidedIsDecided
<1>9. ASSUME r \notin skipped', NEW n \in 1..(next[r] + 1 - 1),
             Authorization(DiscoverInput(r, ToolOrder[n])).allow
      PROVE  ToolOrder[n] \in list'[r]
  <2>1. CASE n = next[r]
    BY <1>1, <1>6, <1>8, <1>9, <2>1
  <2>2. CASE n # next[r]
    <3>1. n \in 1..(next[r] - 1)
      BY <1>3, <1>5, <2>2
    <3>. QED
      BY <1>2, <1>3, <1>6, <1>9, <3>1
  <2>. QED
    BY <2>1, <2>2
<1>10. list'[r] \subseteq Tools /\ next'[r] \in 1..(Len(ToolOrder) + 1)
  BY <1>2, <1>3, <1>5, <1>6
<1>. HIDE DEF tool
<1>. QED
  BY <1>2, <1>3, <1>6, <1>7, <1>9, <1>10 DEF Listed

LEMMA NextListed ==
  ASSUME IInv, Known, DOMAIN next = Requests, NEW r \in Requests,
         CallInv(r), Listed(r),
         (\E q \in Lists \union Calls : Arrive(r, q)) \/ Handle(r)
  PROVE  Listed(r)'
<1>0. Shape /\ DOMAIN next = Requests /\ DOMAIN result = Requests
  BY DEF IInv, Shape, Known
<1>. USE <1>0 DEF Shape, Goto, Answer, Conclude
<1>1. CASE \E q \in Lists \union Calls : Arrive(r, q)
  <2>1. \A q \in Lists \union Calls : q.channel \in Channels
    BY DEF Lists, Calls
  <2>. QED
    BY <1>1, <2>1 DEF Arrive, Listed
<1>2. CASE CheckIdentity(r)
  BY <1>2 DEF CheckIdentity, Listed
<1>3. CASE Verify(r)
  <2>1. ToolOrder \in Seq(Tools)
    BY GatewayAssumption
  <2>2. 1 \in 1..(Len(ToolOrder) + 1) /\ 1..(1 - 1) = {}
    BY <2>1
  <2>3. /\ pc[r] = "verify" /\ UNCHANGED <<req, next, list>>
        /\ next[r] = 1 /\ list[r] = {} /\ req[r].channel \in Channels
    BY <1>3 DEF Verify, Listed
  <2>4. \/ /\ pc'[r] \in {"call", "list"}
           /\ caps'[r] = Compose(req[r].token, req[r].channel)
        \/ pc'[r] = "done" /\ result'[r] = "unauthorized"
    BY <1>3 DEF Verify
  <2>. QED
    BY <2>2, <2>3, <2>4 DEF Listed
<1>4. CASE ListTool(r)
  BY <1>4, ListToolInv
<1>5. CASE ListDone(r)
  <2>1. \A t : DiscoverInput(r, t)' = DiscoverInput(r, t)
    BY <1>5 DEF ListDone, DiscoverInput, Input
  <2>2. ToolOrder \in Seq(Tools)
    BY GatewayAssumption
  <2>3. Len(ToolOrder) \in Nat
    BY <2>2
  <2>. QED
    BY <1>5, <2>1, <2>3 DEF ListDone, Listed
<1>6. CASE /\ pc[r] \in {"call", "decide", "adapter", "wait", "audit"}
           /\ pc'[r] \in {"decide", "adapter", "wait", "audit", "done"}
           /\ UNCHANGED req
  BY <1>6 DEF CallInv, Asked, Listed
<1>7. CASE BeginCall(r)
  BY <1>6, <1>7 DEF BeginCall
<1>8. CASE Decide(r)
  BY <1>6, <1>8 DEF Decide, PolicyUnavailable
<1>9. CASE CallAdapter(r)
  BY <1>6, <1>9 DEF CallAdapter
<1>10. CASE Serve(r) \/ Lose(r)
  BY <1>10, ListAsideInv DEF Serve, Lose, ListAside
<1>11. CASE Receive(r)
  BY <1>6, <1>11 DEF Receive, OutputAccepted, AdapterFails, OutputRefused
<1>12. CASE FinalAudit(r)
  BY <1>6, <1>12 DEF FinalAudit
<1>. QED
  BY <1>1, <1>2, <1>3, <1>4, <1>5, <1>7, <1>8, <1>9, <1>10, <1>11, <1>12
     DEF Handle

LEMMA InitLists == Init => ListsInv
BY DEF Init, ListsInv, Listed

LEMMA NextLists == IInv /\ CallsInv /\ ListsInv /\ [Next]_vars => ListsInv'
<1>. SUFFICES ASSUME IInv, CallsInv, ListsInv, [Next]_vars PROVE ListsInv'
  OBVIOUS
<1>1. ASSUME NEW r \in Requests,
             (\E q \in Lists \union Calls : Arrive(r, q)) \/ Handle(r)
      PROVE  ListsInv'
  <2>1. DOMAIN next' = Requests /\ \A s \in Requests \ {r} : ListAside(s)
    BY <1>1, OthersListAside DEF CallsInv, ListsInv
  <2>2. Listed(r)'
    BY <1>1, NextListed DEF CallsInv, ListsInv
  <2>. QED
    BY <2>1, <2>2, ListAsideInv DEF ListsInv
<1>2. CASE SwitchOutput \/ UNCHANGED vars
  <2>1. \A s \in Requests : ListAside(s)
    BY <1>2 DEF SwitchOutput, vars, ListAside
  <2>2. next' = next
    BY <1>2 DEF SwitchOutput, vars
  <2>. QED
    BY <2>1, <2>2, ListAsideInv DEF ListsInv
<1>. QED
  BY <1>1, <1>2 DEF Next

\* Where a deployment is configured for the capabilities the policy asks for,
\* as compose.yaml's are, a list has the Tools that this caller may execute: no
\* other, and all of them unless OPA failed in between.
THEOREM ListsUsable ==
  ASSUME Configured
  PROVE  Spec => []ListedIsUsable
<1>1. ASSUME IInv, ListsInv, NEW r \in Requests, pc[r] = "done",
             req[r].method = "list", result[r] = "ok"
      PROVE  LET usable == {t \in Tools :
                   Authorization(Input(r, "execute", t, "allowed",
                                       req[r].token.scopes)).allow}
             IN  /\ list[r] \subseteq usable
                 /\ r \notin skipped => list[r] = usable
  <2>. DEFINE full(t) == Input(r, "execute", t, "allowed",
                               req[r].token.scopes)
              shown(t) == Input(r, "discover", t, "none",
                                req[r].token.scopes)
  <2>0. Listed(r) /\ Within(r)
    BY <1>1 DEF IInv, ListsInv
  <2>1. /\ next[r] = Len(ToolOrder) + 1
        /\ caps[r] = Compose(req[r].token, req[r].channel)
        /\ list[r] \subseteq Tools /\ req[r].channel \in Channels
        /\ r \notin skipped =>
             \A n \in 1..(next[r] - 1) :
               Authorization(DiscoverInput(r, ToolOrder[n])).allow =>
                 ToolOrder[n] \in list[r]
    BY <1>1, <2>0 DEF Listed
  <2>2. ASSUME NEW t \in list[r]
        PROVE  Authorization(full(t)).allow
    <3>1. Authorization(shown(t)).allow
      BY <2>0 DEF Within, Permitted
    <3>2. /\ full(t).subject = shown(t).subject
          /\ full(t).actor = shown(t).actor
          /\ full(t).channel = shown(t).channel
          /\ full(t).tool = shown(t).tool
          /\ full(t).capabilities = shown(t).capabilities /\ Execute(full(t))
      BY DEF Input, Execute
    <3>. HIDE DEF full, shown
    <3>. QED
      BY <3>1, <3>2, EligibleIsAllowed
  <2>3. ASSUME r \notin skipped, NEW t \in Tools, Authorization(full(t)).allow
        PROVE  t \in list[r]
    <3>. DEFINE asked == DiscoverInput(r, t)
    <3>1. /\ asked.subject = full(t).subject /\ asked.actor = full(t).actor
          /\ asked.channel = full(t).channel /\ asked.tool = full(t).tool
          /\ asked.capabilities = caps[r] /\ Discover(asked)
          /\ full(t).capabilities = req[r].token.scopes
          /\ full(t).channel = req[r].channel
      BY DEF DiscoverInput, Input, Discover
    <3>2. req[r].token.scopes \intersect PolicyCapabilities(req[r].channel)
            \subseteq caps[r]
      BY <2>1 DEF Compose, Configured
    <3>. HIDE DEF full, asked
    <3>3. Authorization(asked).allow
      BY <2>3, <3>1, <3>2, EligibleIsAllowed
    <3>4. PICK n \in DOMAIN ToolOrder : ToolOrder[n] = t
      BY GatewayAssumption
    <3>5. ToolOrder \in Seq(Tools)
      BY GatewayAssumption
    <3>6. n \in 1..(next[r] - 1)
      BY <2>1, <3>4, <3>5
    <3>. QED
      BY <2>1, <2>3, <3>3, <3>4, <3>6 DEF asked
  <2>. QED
    BY <2>1, <2>2, <2>3
<1>2. IInv /\ ListsInv => ListedIsUsable
  BY <1>1 DEF ListedIsUsable
<1>3. Spec => []ListsInv
  BY InitLists, NextLists, Inductive, CallsInductive, PTL DEF Spec
<1>. QED
  BY <1>2, <1>3, Inductive, PTL

=============================================================================
