----------------------------- MODULE ToolGateway -----------------------------
(***************************************************************************)
(* A request at the gateway (src/internal/gateway): its token is verified  *)
(* and its Security Context composed, tools/list is filtered by the        *)
(* policy, a call of a read-only Tool is decided, answered by an adapter,  *)
(* which logs a span of its own, and recorded.  The Tools with effects     *)
(* have the same frame; what is theirs alone is in MeetingApproval and     *)
(* SmartLockUnlock.                                                        *)
(*                                                                         *)
(* The identity provider, the Approval Authority, OPA, the adapters and    *)
(* the audit collector are other processes: each request to one of them    *)
(* may fail, and one may fail between two requests; an adapter may handle  *)
(* one after the gateway gave up on it.  OPA's answer carries the          *)
(* correlation id of the input it decided on, and the model lets OPA       *)
(* answer with the decision on, and the id of, an input of somebody else.  *)
(*                                                                         *)
(* Abstractions.  A token is its claims and whether its signature, issuer, *)
(* audience and expiry are good.  Arguments are "malformed" (the handler   *)
(* or the SDK's schema refuses them), "refused" (the policy's rule for     *)
(* them does not hold) or "allowed".  "adapters", "accepted", "failedAt"   *)
(* and "skipped" remember history for the properties.                      *)
(***************************************************************************)
EXTENDS ToolPolicy, Integers, Sequences

CONSTANTS
  Requests,        \* MCP requests; each is made once
  Tokens,          \* [good, subject, actor, scopes]
  Methods,         \* "list", "call"
  Channels,        \* the deployments' AUTH_CHANNEL
  Required,        \* OIDC_REQUIRED_SCOPES of each
  Optional,        \* OIDC_OPTIONAL_SCOPES of each
  CallTools,       \* read-only Tools that are called
  ToolOrder        \* the Tools, in the order they are listed

ReadTools ==
  {"coffee_station.get_status", "dev.read_repository",
   "calendar.find_availability"} \union OutlookTools

ASSUME GatewayAssumption ==
  /\ \A k \in Tokens :
       k \in [good : BOOLEAN, subject : STRING, actor : STRING,
              scopes : SUBSET STRING]
  /\ Methods \subseteq {"list", "call"}
  /\ Required \in [Channels -> SUBSET STRING]
  /\ Optional \in [Channels -> SUBSET STRING]
  /\ CallTools \subseteq ReadTools
  /\ ToolOrder \in Seq(Tools)
  /\ {ToolOrder[n] : n \in DOMAIN ToolOrder} = Tools

VARIABLES
  pc,         \* where each request is
  req,        \* [method, token, channel, tool, arguments]
  caps,       \* its TurnCapabilities
  next,       \* tools/list: the next Tool to decide on
  list,       \* tools/list: the Tools kept
  decision,   \* what OPA decided, as the observation has it
  failure,    \* the observation's failureReason
  result,     \* how the request was answered
  wire,       \* calls whose request to the adapter has not been handled
  reply,      \* the adapter's answer to each call
  spans,      \* adapter_result: what the adapters logged
  malformed,  \* the coffee station's switch
  adapters,   \* history: calls that reached an adapter
  accepted,   \* history: records the collector accepted
  failedAt,   \* history: where the identity provider failed it
  skipped     \* history: tools/list for which OPA failed

exchange == <<wire, reply, spans, malformed>>
vars == <<pc, req, caps, next, list, decision, failure, result, exchange,
          adapters, accepted, failedAt, skipped>>

Undecided == [reason |-> "none"]

\* The Tools whose rule on arguments can fail for well-formed ones.
Arguments(tool) ==
  IF tool \in {"dev.read_repository", "outlook.search_messages"}
    THEN {"malformed", "allowed"} ELSE {"malformed", "refused", "allowed"}

\* newPolicyInput
Input(r, operation, tool, arguments, capabilities) ==
  [subject |-> req[r].token.subject, actor |-> req[r].token.actor,
   channel |-> req[r].channel, capabilities |-> capabilities,
   tool |-> tool, operation |-> operation, arguments |-> arguments]

ExecuteInput(r) ==
  Input(r, "execute", req[r].tool, req[r].arguments, caps[r])

DiscoverInput(r, tool) == Input(r, "discover", tool, "none", caps[r])

Goto(r, where) == pc' = [pc EXCEPT ![r] = where]

Answer(r, how) ==
  /\ Goto(r, "done")
  /\ result' = [result EXCEPT ![r] = how]

\* The handler has ended; the middleware has yet to record the outcome.
Conclude(r, how) ==
  /\ Goto(r, "audit")
  /\ result' = [result EXCEPT ![r] = how]

\* sink.Record; told: the gateway learned that the record was accepted.
RecordAudit(record, told) ==
  \/ accepted' = accepted \union {record}
  \/ ~told /\ UNCHANGED accepted

-----------------------------------------------------------------------------
(* Authentication *)

Arrive(r, q) ==
  /\ pc[r] = "idle"
  /\ req' = [req EXCEPT ![r] = q]
  /\ Goto(r, "health")
  /\ UNCHANGED <<exchange, caps, next, list, decision, failure, result,
                 adapters, accepted, failedAt, skipped>>

\* recordOperationalAudit for a caller who is not known; a failure to record
\* is ignored.
IdentityUnavailable(r) ==
  [request |-> r, operation |-> "execute", outcome |-> "deny",
   reason |-> "identity_unavailable", rule |-> "identity_unavailable",
   decided |-> FALSE]

\* authenticate: the health check of the identity provider.
CheckIdentity(r) ==
  /\ pc[r] = "health"
  /\ \/ /\ Goto(r, "verify")
        /\ UNCHANGED <<result, accepted, failedAt>>
     \/ /\ RecordAudit(IdentityUnavailable(r), FALSE)
        /\ Answer(r, "unauthorized")
        /\ failedAt' = [failedAt EXCEPT ![r] = "health"]
  /\ UNCHANGED <<exchange, req, caps, next, list, decision, failure, adapters,
                 skipped>>

\* The signed scopes give the capabilities the deployment is configured for.
Compose(token, channel) ==
  Required[channel] \union (Optional[channel] \intersect token.scopes)

Trusted(token, channel) ==
  /\ token.good
  /\ token.subject # "" /\ token.actor # ""
  /\ Required[channel] \subseteq token.scopes

\* Verify: the signing keys, unless cached, are fetched; the fetch may fail.
Verify(r) ==
  LET token == req[r].token IN
  /\ pc[r] = "verify"
  /\ \/ /\ Trusted(token, req[r].channel)
        /\ caps' = [caps EXCEPT ![r] = Compose(token, req[r].channel)]
        /\ Goto(r, IF req[r].method = "call" THEN "call" ELSE "list")
        /\ UNCHANGED <<result, failedAt>>
     \/ /\ ~Trusted(token, req[r].channel)
        /\ Answer(r, "unauthorized")
        /\ UNCHANGED <<caps, failedAt>>
     \/ /\ Answer(r, "unauthorized")
        /\ failedAt' = [failedAt EXCEPT ![r] = "verify"]
        /\ UNCHANGED caps
  /\ UNCHANGED <<exchange, req, next, list, decision, failure, adapters,
                 accepted, skipped>>

-----------------------------------------------------------------------------
(* The policy client *)

\* Decide sends an input; the answer is v, for this input or (~own) for one of
\* somebody else.  OPA evaluates conflicting rules to an error.
Decides(input, own, v) ==
  \/ own /\ ~Conflicting(input) /\ v = Authorization(input)
  \/ ~own /\ v \in Values

\* Faulty variant of Accepts: the correlation id is not compared.
AcceptsAny(own) == TRUE

\* correlation_id matches the input's.
Accepts(own) == own

-----------------------------------------------------------------------------
(* tools/list *)

DiscoveryRecord(r, v) ==
  [request |-> r, operation |-> "discover", decided |-> v # Undecided,
   outcome |-> IF v # Undecided /\ v.allow THEN "allow" ELSE "deny",
   reason |-> IF v = Undecided THEN "policy_unavailable" ELSE v.reason,
   rule |-> IF v = Undecided THEN "policy_unavailable" ELSE v.reason]

\* One turn of the loop over the Tools, with the decision v.  The decision on
\* the smart lock is recorded, and without its record there is no list.
Filter(r, v) ==
  LET tool == ToolOrder[next[r]]
      keep == v # Undecided /\ v.allow
  IN
  /\ next' = [next EXCEPT ![r] = @ + 1]
  /\ list' = [list EXCEPT ![r] = IF keep THEN @ \union {tool} ELSE @]
  /\ \/ /\ tool # "smart_lock.unlock"
        /\ UNCHANGED <<pc, result, accepted>>
     \/ /\ tool = "smart_lock.unlock"
        /\ \/ RecordAudit(DiscoveryRecord(r, v), TRUE)
              /\ UNCHANGED <<pc, result>>
           \/ RecordAudit(DiscoveryRecord(r, v), FALSE)
              /\ Answer(r, "failed")

\* Faulty variant of ListTool: every Tool is kept.
ListUnfiltered(r) ==
  /\ pc[r] = "list" /\ next[r] <= Len(ToolOrder)
  /\ list' = [list EXCEPT ![r] = @ \union {ToolOrder[next[r]]}]
  /\ next' = [next EXCEPT ![r] = @ + 1]
  /\ UNCHANGED <<exchange, pc, req, caps, decision, failure, result, adapters,
                 accepted, failedAt, skipped>>

ListTool(r) ==
  /\ pc[r] = "list" /\ next[r] <= Len(ToolOrder)
  /\ \/ LET v == Authorization(DiscoverInput(r, ToolOrder[next[r]])) IN
        /\ Decides(DiscoverInput(r, ToolOrder[next[r]]), TRUE, v)
        /\ Filter(r, v)
        /\ UNCHANGED skipped
     \/ /\ Filter(r, Undecided)
        /\ skipped' = skipped \union {r}
  /\ UNCHANGED <<exchange, req, caps, decision, failure, adapters, failedAt>>

ListDone(r) ==
  /\ pc[r] = "list" /\ next[r] > Len(ToolOrder)
  /\ Answer(r, "ok")
  /\ UNCHANGED <<exchange, req, caps, next, list, decision, failure, adapters,
                 accepted, failedAt, skipped>>

-----------------------------------------------------------------------------
(* tools/call *)

\* The middleware: the Approval Authority's health comes first.  Then the SDK
\* and the handler look at the arguments before anyone else does.
BeginCall(r) ==
  /\ pc[r] = "call"
  /\ \/ /\ failure' = [failure EXCEPT ![r] = "approval_authority_unavailable"]
        /\ Conclude(r, "error")
     \/ /\ req[r].arguments = "malformed"
        /\ Conclude(r, "error")
        /\ UNCHANGED failure
     \/ /\ req[r].arguments # "malformed"
        /\ Goto(r, "decide")
        /\ UNCHANGED <<failure, result>>
  /\ UNCHANGED <<exchange, req, caps, next, list, decision, adapters, accepted,
                 failedAt, skipped>>

PolicyUnavailable(r) ==
  /\ failure' = [failure EXCEPT ![r] = "policy_unavailable"]
  /\ Conclude(r, "error")
  /\ UNCHANGED decision

\* Policy.Decide and the handler's look at the decision.
Decide(r) ==
  /\ pc[r] = "decide"
  /\ \/ PolicyUnavailable(r)
     \/ \E own \in BOOLEAN, v \in Values :
          /\ Decides(ExecuteInput(r), own, v)
          /\ \/ ~Accepts(own) /\ PolicyUnavailable(r)
             \/ /\ Accepts(own)
                /\ decision' = [decision EXCEPT ![r] = v]
                /\ \/ v.allow /\ Goto(r, "adapter") /\ UNCHANGED result
                   \/ ~v.allow /\ Conclude(r, "error")
                /\ UNCHANGED failure
  /\ UNCHANGED <<exchange, req, caps, next, list, adapters, accepted,
                 failedAt, skipped>>

\* The handler calls its adapter's client: the request leaves with the call's
\* trace, correlation id, decision id and Tool (ApplyToolCallCorrelation).
CallAdapter(r) ==
  /\ pc[r] = "adapter"
  /\ Goto(r, "wait")
  /\ wire' = wire \union {r}
  /\ adapters' = adapters \union {r}
  /\ UNCHANGED <<req, caps, next, list, decision, failure, result, reply,
                 spans, malformed, accepted, failedAt, skipped>>

\* What the adapters answer: a result the gateway accepts, one it does not
\* ("malformed"), or an error status (401, 400 or 404).  The coffee station
\* has a switch between the first two; of the others the gateway assumes
\* nothing.
Answers(tool) ==
  IF tool = "coffee_station.get_status"
    THEN {IF malformed THEN "malformed" ELSE "good"}
    ELSE {"good", "malformed", "refused"}

\* adaptertelemetry: a span of the request, if it carries all identifiers.
Span(r, answer) ==
  IF decision[r] = Undecided THEN {}
    ELSE {[request |-> r, tool |-> req[r].tool, rule |-> decision[r].reason,
           outcome |-> IF answer = "refused" THEN "error" ELSE "success"]}

\* The adapter handles the request, logs its span, and answers.
Serve(r) ==
  /\ r \in wire
  /\ wire' = wire \ {r}
  /\ \E answer \in Answers(req[r].tool) :
       /\ spans' = spans \union Span(r, answer)
       /\ reply' = [reply EXCEPT ![r] = answer]
  /\ UNCHANGED <<pc, req, caps, next, list, decision, failure, result,
                 malformed, adapters, accepted, failedAt, skipped>>

\* The request never reaches the adapter.
Lose(r) ==
  /\ r \in wire
  /\ wire' = wire \ {r}
  /\ UNCHANGED <<pc, req, caps, next, list, decision, failure, result, reply,
                 spans, malformed, adapters, accepted, failedAt, skipped>>

\* POST /test/output/malformed and /test/output/valid.
SwitchOutput ==
  /\ malformed' = ~malformed
  /\ UNCHANGED <<pc, req, caps, next, list, decision, failure, result, wire,
                 reply, spans, adapters, accepted, failedAt, skipped>>

\* The adapter's client: a timeout, which may come although the adapter has
\* answered, or another status than 200.
AdapterFails(r) == Conclude(r, "error") /\ UNCHANGED failure

\* The handler's check of what the adapter returned.
OutputRefused(r) ==
  /\ reply[r] = "malformed"
  /\ Conclude(r, "error")
  /\ failure' = [failure EXCEPT ![r] = "malformed_output"]

\* Faulty variant of OutputAccepted: the status is not looked at.
OutputAnyStatus(r) ==
  /\ reply[r] \in {"good", "refused"}
  /\ Conclude(r, "ok")
  /\ UNCHANGED failure

OutputAccepted(r) ==
  /\ reply[r] = "good"
  /\ Conclude(r, "ok")
  /\ UNCHANGED failure

Receive(r) ==
  /\ pc[r] = "wait"
  /\ OutputAccepted(r) \/ AdapterFails(r) \/ OutputRefused(r)
  /\ UNCHANGED <<exchange, req, caps, next, list, decision, adapters, accepted,
                 failedAt, skipped>>

\* Why recordOperationalAudit says the call ended as it did.  Faulty variant: a
\* policy that denied is taken for input that was refused.
ReasonUndecided(r) ==
  IF failure[r] # "none" THEN failure[r]
  ELSE IF result[r] = "ok" THEN decision[r].reason
  ELSE IF decision[r] = Undecided \/ ~decision[r].allow THEN "malformed_input"
  ELSE "tool_or_adapter_denied"

Reason(r) ==
  IF failure[r] # "none" THEN failure[r]
  ELSE IF result[r] = "ok" THEN decision[r].reason
  ELSE IF decision[r] = Undecided THEN "malformed_input"
  ELSE "tool_or_adapter_denied"

\* Faulty variant of FinalRecord: the outcome is that of the decision.
FinalRecordDecision(r) ==
  [request |-> r, operation |-> "execute",
   outcome |-> IF decision[r] # Undecided /\ decision[r].allow
                 THEN "allow" ELSE "deny",
   reason |-> Reason(r), decided |-> decision[r] # Undecided,
   rule |-> IF decision[r] = Undecided THEN Reason(r) ELSE decision[r].reason]

FinalRecord(r) ==
  [request |-> r, operation |-> "execute",
   outcome |-> IF result[r] = "ok" /\ failure[r] = "none"
                 THEN "allow" ELSE "deny",
   reason |-> Reason(r), decided |-> decision[r] # Undecided,
   rule |-> IF decision[r] = Undecided THEN Reason(r) ELSE decision[r].reason]

\* The middleware records the outcome, or there is no result.
FinalAudit(r) ==
  /\ pc[r] = "audit"
  /\ \/ RecordAudit(FinalRecord(r), TRUE) /\ Answer(r, result[r])
     \/ RecordAudit(FinalRecord(r), FALSE) /\ Answer(r, "failed")
  /\ UNCHANGED <<exchange, req, caps, next, list, decision, failure, adapters,
                 failedAt, skipped>>

-----------------------------------------------------------------------------
NoRequest == [method |-> "none"]

Init ==
  /\ pc = [r \in Requests |-> "idle"] /\ req = [r \in Requests |-> NoRequest]
  /\ caps = [r \in Requests |-> {}]
  /\ next = [r \in Requests |-> 1] /\ list = [r \in Requests |-> {}]
  /\ decision = [r \in Requests |-> Undecided]
  /\ failure = [r \in Requests |-> "none"]
  /\ result = [r \in Requests |-> "none"]
  /\ wire = {} /\ reply = [r \in Requests |-> "none"] /\ spans = {}
  /\ malformed = FALSE
  /\ adapters = {} /\ accepted = {}
  /\ failedAt = [r \in Requests |-> "nowhere"] /\ skipped = {}

\* A request: a list, or a call.
Lists == [method : Methods \ {"call"}, token : Tokens, channel : Channels]
Calls ==
  UNION {[method : Methods \ {"list"}, token : Tokens, channel : Channels,
          tool : {t}, arguments : Arguments(t)] : t \in CallTools}

Handle(r) ==
  \/ CheckIdentity(r) \/ Verify(r) \/ ListTool(r) \/ ListDone(r)
  \/ BeginCall(r) \/ Decide(r) \/ CallAdapter(r) \/ Serve(r)
  \/ Lose(r) \/ Receive(r) \/ FinalAudit(r)

Next ==
  \/ \E r \in Requests :
       \/ \E q \in Lists \union Calls : Arrive(r, q)
       \/ Handle(r)
  \/ SwitchOutput

Spec == Init /\ [][Next]_vars

-----------------------------------------------------------------------------
(* Properties *)

\* A call reaches an adapter only with a good token whose own signed scopes,
\* not only the deployment's configuration, make the policy allow this very
\* Tool and these arguments.
AdapterBacked ==
  \A r \in adapters :
    LET token == req[r].token
        i == Input(r, "execute", req[r].tool, req[r].arguments, token.scopes)
    IN  Trusted(token, req[r].channel) /\ Authorization(i).allow

\* The policy allows request r an operation on a Tool, with what its token
\* says.
Permitted(r, operation, tool, arguments) ==
  Authorization(Input(r, operation, tool, arguments,
                      req[r].token.scopes)).allow

\* Who is past authentication has only capabilities its token signs, and a
\* call on its way to an adapter, or a Tool in a list, is permitted.
Within(r) ==
  /\ pc[r] \in {"list", "call", "decide", "adapter"} \/ r \in adapters =>
       /\ Trusted(req[r].token, req[r].channel)
       /\ caps[r] \subseteq req[r].token.scopes
  /\ pc[r] = "adapter" \/ r \in adapters =>
       Permitted(r, "execute", req[r].tool, req[r].arguments)
  /\ \A t \in list[r] : Permitted(r, "discover", t, "none")
  /\ pc[r] = "idle" => r \notin adapters /\ list[r] = {}

\* The inductive invariant behind AdapterBacked and EffectsGuarded.
IInv ==
  /\ pc \in [Requests -> {"idle", "health", "verify", "list", "call", "decide",
                          "adapter", "wait", "audit", "done"}]
  /\ DOMAIN req = Requests /\ DOMAIN caps = Requests
  /\ DOMAIN list = Requests
  /\ adapters \subseteq Requests
  /\ \A r \in Requests : Within(r)

\* The policy decides every request the gateway can make: rules that hold
\* never disagree, so OPA never answers an eligible caller with an error.
PolicyDecides ==
  \A r \in Requests :
    /\ pc[r] = "decide" => ~Conflicting(ExecuteInput(r))
    /\ pc[r] = "list" =>
         \A t \in Tools : ~Conflicting(DiscoverInput(r, t))

FinalRecords(r) ==
  {a \in accepted : a.request = r /\ a.operation = "execute"}

\* A result of a call, good or bad, leaves the gateway only with one record of
\* it, which says "allow" exactly if the caller got what it asked for.
ResultRecorded ==
  \A r \in Requests :
    /\ pc[r] = "done" /\ req[r].method = "call"
    /\ result[r] \in {"ok", "error"}
    =>
      \E a \in FinalRecords(r) :
        /\ FinalRecords(r) = {a}
        /\ (a.outcome = "allow") <=> (result[r] = "ok")

\* From its record alone one can tell who refused a call: the input check, the
\* policy, the adapter, or a dependency that was unavailable.
RefusalExplained ==
  \A r \in Requests : \A a \in FinalRecords(r) :
    a.outcome = "deny" /\ failedAt[r] = "nowhere" =>
      /\ a.reason = "malformed_input" <=>
           failure[r] = "none" /\ req[r].arguments = "malformed"
      /\ a.rule \in {"default_deny", "smart_lock_owner_subject_required"} <=>
           a.decided /\ ~Authorization(ExecuteInput(r)).allow
      /\ a.reason = "malformed_output" => r \in adapters
      /\ r \in adapters => a.decided /\ Authorization(ExecuteInput(r)).allow

\* README.md, "Observable fail-closed operation": request, decision and adapter
\* result can be joined across logs.  An adapter logs a span only of a call
\* the policy allowed and under that decision; a call recorded as allowed has
\* the adapter's successful span; and one that was served although it is
\* recorded as denied says that the adapter or its output was at fault.
SpansJoin ==
  /\ \A s \in spans :
       /\ Authorization(ExecuteInput(s.request)).allow
       /\ s.rule = Authorization(ExecuteInput(s.request)).reason
       /\ \A a \in FinalRecords(s.request) :
            /\ a.decided /\ a.rule = s.rule
            /\ a.outcome = "deny" =>
                 a.reason \in {"malformed_output", "tool_or_adapter_denied"}
  /\ \A a \in accepted :
       a.operation = "execute" /\ a.outcome = "allow" =>
         \E s \in spans : s.request = a.request /\ s.outcome = "success"

\* The capabilities that the policy asks for on a channel.
PolicyCapabilities(channel) ==
  CASE channel = "telegram" ->
         {"calendar.free_busy.read", "calendar.meeting.propose",
          "calendar.meeting.approve", "outlook.mail.read", "smart_lock.write"}
    [] channel = "streamable-http" ->
         {"coffee_station.read", "dev.repository.read"}
    [] OTHER -> {}

\* A deployment is configured for all of them, as compose.yaml's are.
Configured ==
  \A channel \in Channels :
    PolicyCapabilities(channel) \subseteq
      Required[channel] \union Optional[channel]

\* What a caller is shown is what it may use: a list has only Tools the policy
\* would let this caller execute, and it has all of them unless OPA failed.
ListedIsUsable ==
  \A r \in Requests :
    pc[r] = "done" /\ req[r].method = "list" /\ result[r] = "ok" =>
      LET usable == {t \in Tools :
            Authorization(Input(r, "execute", t, "allowed",
                                req[r].token.scopes)).allow}
      IN  list[r] \subseteq usable /\ (r \notin skipped => list[r] = usable)

\* A Tool with an effect is shown only to the Owner, as the Telegram Actor on
\* Telegram, with its capability signed into the token, and its execution
\* carries the obligation of an exact Approval.
EffectsGuarded ==
  \A r \in Requests : \A t \in list[r] \intersect EffectTools :
    /\ req[r].token.subject = Owner
    /\ req[r].token.actor = "telegram-agent" /\ req[r].channel = "telegram"
    /\ Authorization(Input(r, "execute", t, "allowed", req[r].token.scopes))
         .obligations = {"exact_approval"}

=============================================================================
