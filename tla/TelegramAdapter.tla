--------------------------- MODULE TelegramAdapter ---------------------------
(***************************************************************************)
(* The Telegram adapter (src/internal/telegramadapter): from a webhook     *)
(* update to one Turn at the gateway.  handler.go finds the Subject of the *)
(* sender, routes the command, applies the rate limits (RateLimiter) and   *)
(* has the classifier read free text; gateway_client.go gets a token with  *)
(* the scopes of this one command, calls one Tool and, for the two review  *)
(* commands, has the Approval Authority sign what was reviewed.            *)
(*                                                                         *)
(* The token endpoint gives the scopes that were asked for on top of the   *)
(* client's default ones, the gateway composes capabilities from them and  *)
(* asks ToolPolicy.  Each of these services may fail, and the adapter may  *)
(* be restarted.                                                           *)
(*                                                                         *)
(* Abstractions.  The text of an update is a command and what becomes of   *)
(* its arguments: "malformed" (the adapter does not accept them),          *)
(* "refused" (the gateway or its policy does not) or "allowed".  For free  *)
(* text they are what the classifier makes of it.  "reached" and           *)
(* "admitted" remember history for the properties.                         *)
(***************************************************************************)
EXTENDS ToolPolicy, Integers, Sequences, FiniteSets

CONSTANTS
  Updates,        \* webhook requests; each is made once
  VerifiedUsers,  \* config.VerifiedUsers: Telegram user -> Subject
  Messages,       \* [secret, user, command, arguments] each update may carry
  DefaultScopes,  \* the scopes every token of the client has
  Required,       \* the gateway's OIDC_REQUIRED_SCOPES
  Optional,       \* the gateway's OIDC_OPTIONAL_SCOPES
  Limits,         \* how many of each action a window admits
  Window,         \* the rate limits' window, in clock ticks
  MaxTime,        \* bound: the clock stops here
  MaxRestarts     \* bound on restarts of the adapter

MeetingCommands == {"/review", "/approve", "/deny"}
LockCommands    == {"/review-unlock", "/unlock"}
OutlookCommands == {"/outlook-search", "/outlook-read"}
ReviewCommands  == {"/review", "/review-unlock"}

\* "text" is no command; an update that does not decode has none at all.
Commands ==
  MeetingCommands \union LockCommands \union OutlookCommands \union
  {"/propose", "text", "undecodable"}

Actions   == {"availability", "proposal"}
Externals == {VerifiedUsers[x] : x \in DOMAIN VerifiedUsers} \ {Owner}

ASSUME AdapterAssumption ==
  /\ DOMAIN Messages = Updates
  /\ \A u \in Updates : \A m \in Messages[u] :
       /\ m.secret \in BOOLEAN /\ m.command \in Commands
       /\ m.arguments \in {"malformed", "refused", "allowed"}
  /\ Limits \in [Actions -> Nat \ {0}]
  /\ Window \in Nat \ {0} /\ MaxTime \in Nat /\ MaxRestarts \in Nat

\* The scopes as the realm and compose.yaml have them: what the gateway requires
\* every token has, and what an effect needs only one that asks for it.
ASSUME ScopesAssumption ==
  /\ {"calendar.free_busy.read", "calendar.meeting.propose"} \subseteq Required
  /\ {"calendar.meeting.approve", "outlook.mail.read", "smart_lock.write"}
       \subseteq Optional
  /\ Required \subseteq DefaultScopes
  /\ {"calendar.meeting.approve", "smart_lock.write"} \intersect DefaultScopes
       = {}

VARIABLES
  pc,         \* where each update is
  msg,        \* what it says
  token,      \* the scopes of its token
  status,     \* the HTTP status it was answered with
  reached,    \* history: updates whose call reached the gateway
  approvals,  \* updates for which the Authority signed an Approval
  now, started, count, admitted, process   \* the rate limits

turn    == <<pc, msg, token, status>>
limits  == <<now, started, count, admitted, process>>
vars    == <<turn, reached, approvals, limits>>

RateLimits == INSTANCE RateLimiter WITH Subjects <- Externals

Subject(u) == VerifiedUsers[msg[u].user]

Goto(u, where) ==
  /\ pc' = [pc EXCEPT ![u] = where]
  /\ UNCHANGED status

Answer(u, code) ==
  /\ pc' = [pc EXCEPT ![u] = "done"]
  /\ status' = [status EXCEPT ![u] = code]

-----------------------------------------------------------------------------
(* The webhook *)

\* The secret, the body and the sender are looked at before anything else.
Webhook(u, m) ==
  /\ pc[u] = "idle"
  /\ msg' = [msg EXCEPT ![u] = m]
  /\ \/ ~m.secret /\ Answer(u, "401")
     \/ m.secret /\ m.command = "undecodable" /\ Answer(u, "400")
     \/ /\ m.secret /\ m.command # "undecodable"
        /\ IF m.user \in DOMAIN VerifiedUsers
             THEN Goto(u, "route") ELSE Answer(u, "401")
  /\ UNCHANGED <<token, reached, approvals, limits>>

-----------------------------------------------------------------------------
(* The rate limits *)

\* Faulty variants: one quota for both actions; a request is let through
\* without being counted.
SharedKey(u, action) == <<Subject(u), "availability">>

PassesUncounted(u, action) ==
  /\ Subject(u) # Owner /\ ~RateLimits!Refused(<<Subject(u), action>>)
  /\ RateLimits!Admit(<<Subject(u), action>>)
  /\ UNCHANGED <<now, started, count, process>>

Key(u, action) == <<Subject(u), action>>

\* The Owner is not limited; for the others, limits.allow.
TooMany(u, action) ==
  Subject(u) # Owner /\ RateLimits!Refused(Key(u, action))

Passes(u, action) ==
  \/ Subject(u) = Owner /\ UNCHANGED limits
  \/ /\ Subject(u) # Owner
     /\ RateLimits!Start(Key(u, action)) \/ RateLimits!Count(Key(u, action))

-----------------------------------------------------------------------------
(* The commands *)

Malformed(u) == msg[u].arguments = "malformed"

Routed(u, commands) == pc[u] = "route" /\ msg[u].command \in commands

\* What the handlers of the Owner's commands have in common.
OwnerCommand(u) ==
  \/ Subject(u) # Owner /\ Answer(u, "403")
  \/ Subject(u) = Owner /\ Malformed(u) /\ Answer(u, "400")
  \/ Subject(u) = Owner /\ ~Malformed(u) /\ Goto(u, "connect")

\* The client looks at the device before it asks for a token.
HandleSmartLock(u) ==
  /\ Routed(u, LockCommands)
  /\ \/ msg[u].arguments # "refused" /\ OwnerCommand(u)
     \/ /\ msg[u].arguments = "refused"
        /\ Answer(u, IF Subject(u) = Owner THEN "502" ELSE "403")
  /\ UNCHANGED <<msg, token, reached, approvals, limits>>

HandleOutlook(u) ==
  /\ Routed(u, OutlookCommands)
  /\ OwnerCommand(u)
  /\ UNCHANGED <<msg, token, reached, approvals, limits>>

HandleMeetingResolution(u) ==
  /\ Routed(u, MeetingCommands)
  /\ OwnerCommand(u)
  /\ UNCHANGED <<msg, token, reached, approvals, limits>>

\* Faulty variant of HandleMeetingProposal: it is not limited.
ProposalUnlimited(u) ==
  /\ Routed(u, {"/propose"})
  /\ \/ (Malformed(u) \/ Subject(u) = Owner) /\ Answer(u, "400")
     \/ ~Malformed(u) /\ Subject(u) # Owner /\ Goto(u, "connect")
  /\ UNCHANGED <<msg, token, reached, approvals, limits>>

\* A proposal is counted before it is parsed; the Owner makes none.
HandleMeetingProposal(u) ==
  /\ Routed(u, {"/propose"})
  /\ \/ TooMany(u, "proposal") /\ Answer(u, "429") /\ UNCHANGED limits
     \/ /\ Passes(u, "proposal")
        /\ \/ (Malformed(u) \/ Subject(u) = Owner) /\ Answer(u, "400")
           \/ ~Malformed(u) /\ Subject(u) # Owner /\ Goto(u, "connect")
  /\ UNCHANGED <<msg, token, reached, approvals>>

\* Whatever is no command is a question about availability.
HandleText(u) ==
  /\ Routed(u, {"text"})
  /\ \/ TooMany(u, "availability") /\ Answer(u, "429") /\ UNCHANGED limits
     \/ Passes(u, "availability") /\ Goto(u, "classify")
  /\ UNCHANGED <<msg, token, reached, approvals>>

\* classify: a window, or an answer without one, or none.
Classify(u) ==
  /\ pc[u] = "classify"
  /\ \/ ~Malformed(u) /\ Goto(u, "connect")
     \/ Answer(u, "502")
  /\ UNCHANGED <<msg, token, reached, approvals, limits>>

-----------------------------------------------------------------------------
(* The gateway client *)

\* Faulty variant of ScopesOf: one token for whatever the Owner may do.
ScopesOfAll(command) ==
  IF command \in {"/propose", "text"} THEN {} ELSE Optional

\* The scopes each command asks for on top of the default ones.
ScopesOf(command) ==
  CASE command \in MeetingCommands -> {"calendar.meeting.approve"}
    [] command \in LockCommands    -> {"smart_lock.write"}
    [] command \in OutlookCommands -> {"outlook.mail.read"}
    [] OTHER                       -> {}

\* The Tool each command calls; /review-unlock lists the Tools instead.
ToolOf(command) ==
  CASE command = "/review"         -> "calendar.review_meeting_proposal"
    [] command = "/approve"        -> "calendar.approve_meeting_proposal"
    [] command = "/deny"           -> "calendar.deny_meeting_proposal"
    [] command = "/outlook-search" -> "outlook.search_messages"
    [] command = "/outlook-read"   -> "outlook.read_message"
    [] command = "/propose"        -> "calendar.submit_meeting_proposal"
    [] command = "text"            -> "calendar.find_availability"
    [] OTHER                       -> "smart_lock.unlock"

\* Faulty variant of TokenOf: the scopes are not passed on.
TokenOfDefaults(command) == DefaultScopes

\* PasswordTokenWithScopes: the default scopes and those that are asked for.
TokenOf(command) == DefaultScopes \union ScopesOf(command)

\* connectWithScopes: a token for the Subject, and the MCP session.
Connect(u) ==
  /\ pc[u] = "connect"
  /\ \/ /\ Subject(u) \in {Owner, Alice}
        /\ token' = [token EXCEPT ![u] = TokenOf(msg[u].command)]
        /\ Goto(u, "call")
     \/ Answer(u, "502") /\ UNCHANGED token
  /\ UNCHANGED <<msg, reached, approvals, limits>>

\* What the gateway asks the policy, for a Turn with this token.
GatewayInput(u, operation, tool, arguments) ==
  [subject |-> Subject(u), actor |-> "telegram-agent", channel |-> "telegram",
   capabilities |-> Required \union (Optional \intersect token[u]),
   tool |-> tool, operation |-> operation, arguments |-> arguments]

\* The gateway's answer can be one of success.
Permitted(u) ==
  /\ Required \subseteq token[u]
  /\ Authorization(
       GatewayInput(u, IF msg[u].command = "/review-unlock"
                         THEN "discover" ELSE "execute",
                    ToolOf(msg[u].command), msg[u].arguments)).allow

\* Faulty variant of CallTool: whether the Tool was listed does not matter.
CallUnchecked(u) ==
  /\ pc[u] = "call"
  /\ reached' = reached \union {u}
  /\ Goto(u, "issue")
  /\ UNCHANGED <<msg, token, approvals, limits>>

\* The call: a result, or an error.
CallTool(u) ==
  /\ pc[u] = "call"
  /\ reached' = reached \union {u}
  /\ \/ /\ Permitted(u)
        /\ \/ msg[u].command \in ReviewCommands /\ Goto(u, "issue")
           \/ msg[u].command = "/propose" /\ Answer(u, "202")
           \/ /\ msg[u].command \notin ReviewCommands \union {"/propose"}
              /\ Answer(u, "200")
     \/ Answer(u, "502")
  /\ UNCHANGED <<msg, token, approvals, limits>>

\* The Authority signs what was reviewed, or does not answer in time; then it
\* may have signed, but nobody has the Approval.
Issue(u) ==
  /\ pc[u] = "issue"
  /\ \/ approvals' = approvals \union {u} /\ Answer(u, "200")
     \/ UNCHANGED approvals /\ Answer(u, "502")
  /\ UNCHANGED <<msg, token, reached, limits>>

-----------------------------------------------------------------------------
Tick == RateLimits!Tick /\ UNCHANGED <<turn, reached, approvals>>

\* The adapter is restarted: its counters and the updates it was at work on
\* are gone, what it has called is not.
Restart ==
  LET running == {u \in Updates : pc[u] \notin {"idle", "done"}} IN
  /\ RateLimits!Restart
  /\ pc' = [u \in Updates |-> IF u \in running THEN "done" ELSE pc[u]]
  /\ status' = [u \in Updates |-> IF u \in running THEN "lost" ELSE status[u]]
  /\ UNCHANGED <<msg, token, reached, approvals>>

NoMessage == [command |-> "none"]

Init ==
  /\ pc = [u \in Updates |-> "idle"]
  /\ msg = [u \in Updates |-> NoMessage]
  /\ token = [u \in Updates |-> {}]
  /\ status = [u \in Updates |-> "none"]
  /\ reached = {} /\ approvals = {}
  /\ RateLimits!Init

Handle(u) ==
  \/ HandleSmartLock(u) \/ HandleOutlook(u) \/ HandleMeetingResolution(u)
  \/ HandleMeetingProposal(u) \/ HandleText(u) \/ Classify(u)
  \/ Connect(u) \/ CallTool(u) \/ Issue(u)

Next ==
  \/ Tick \/ Restart
  \/ \E u \in Updates : Handle(u) \/ \E m \in Messages[u] : Webhook(u, m)

Spec == Init /\ [][Next]_vars

-----------------------------------------------------------------------------
(* Properties *)

\* A command has the capabilities it needs: what a verified sender asks for
\* with good arguments is permitted by the policy, with the scopes the adapter
\* requests, the realm's defaults and the gateway's configuration as they are.
\* Only the Owner's free text ends at the policy, which has no rule for it.
TurnsSuffice ==
  \A u \in Updates :
    pc[u] = "call" /\ msg[u].arguments = "allowed" =>
      Permitted(u) \/ (Subject(u) = Owner /\ msg[u].command = "text")

\* The commands that are for a Tool with an effect.
CommandsFor(t) ==
  IF t = "smart_lock.unlock" THEN LockCommands ELSE MeetingCommands

\* A Turn can use a Tool with an effect only if its message was one of the
\* commands of that Tool, whoever sent it and whatever the classifier said.
EffectOnlyOnCommand ==
  \A u \in Updates, t \in EffectTools :
    pc[u] \in {"call", "issue"} /\ msg[u].command \notin CommandsFor(t) =>
      ~Authorization(GatewayInput(u, "execute", t, "allowed")).allow

\* An Approval is signed only for the Owner, on a review command, and only
\* after the gateway let this Turn see the operation.
ApprovalsReviewed ==
  \A u \in approvals :
    /\ Subject(u) = Owner /\ msg[u].command \in ReviewCommands
    /\ u \in reached /\ Permitted(u)

ActionOf(u) ==
  IF msg[u].command = "/propose" THEN "proposal" ELSE "availability"

\* No call of an External Subject reaches the gateway but on a request that
\* the limits counted for that Subject and action.
ForwardedWereAdmitted ==
  \A s \in Externals, a \in Actions :
    Cardinality({u \in reached : Subject(u) = s /\ ActionOf(u) = a})
      <= Len(admitted[<<s, a>>])

\* The two limits are independent: who is answered 429 had its limit of
\* requests of this very action, counted within the last window by the process
\* that refuses it.
RefusedByOwnQuota ==
  [][\A u \in Updates :
       status'[u] = "429" /\ status[u] = "none" =>
         LET h == admitted[<<Subject(u), ActionOf(u)>>]
             n == Len(h) - Limits[ActionOf(u)] + 1
         IN  n >= 1 /\ now - h[n].at < Window /\ h[n].process = process]_vars

\* Whatever updates come, however their handlers interleave and whenever the
\* adapter is restarted, the counters behave as RateLimiter says: each request
\* is one step of allow.
LimitsKept == RateLimits!Spec

=============================================================================
