--------------------------- MODULE MeetingApproval ---------------------------
(***************************************************************************)
(* From a Meeting Proposal to a calendar event.                            *)
(*                                                                         *)
(* Four processes take part: the Telegram adapter, which reviews a         *)
(* proposal and has the Approval Authority sign what it saw; the gateway,  *)
(* whose approve and deny handlers run concurrently over one in-memory     *)
(* Store (src/internal/meeting/store.go); the Approval Authority, here as  *)
(* OneTimeApproval promises it; and the calendar, which keeps one event    *)
(* per idempotency key.  Requests and responses between gateway, Authority *)
(* and calendar may be lost, and the gateway's HTTP client gives up after  *)
(* three seconds, while the calendar may still carry the request out.  A   *)
(* restarted gateway starts with an empty Store that numbers its proposals *)
(* from one again; a restarted calendar has no events and no keys.         *)
(*                                                                         *)
(* Abstractions.  Policy allows these calls (a denied one changes          *)
(* nothing).  The interval, requester, reason and contact of a proposal    *)
(* are one element of Contents.  Proposal N has trace meeting-trace-N and  *)
(* idempotency key meeting-proposal:proposal-N, so N stands for the three. *)
(* The calendar of this repository never returns an empty event id.        *)
(* "lost" is not in the code: it remembers history for the properties.     *)
(***************************************************************************)
EXTENDS Integers

CONSTANTS
  Calls,         \* approve and deny calls; each is made once
  Contents,      \* what a proposal asks for
  Creatable,     \* the contents that pass the calendar's validEventArguments
  NoContent,     \* no proposal, no event
  MaxProposals,  \* bound on the proposals of one gateway process
  Nonces,        \* nonces of Approvals; their number bounds the Approvals
  MaxRestarts    \* bound on the restarts of the gateway

ASSUME BoundsAssumption ==
  /\ MaxProposals \in Nat /\ MaxRestarts \in Nat
  /\ Creatable \subseteq Contents
  /\ NoContent \notin Contents

Ids == 1..MaxProposals
Ops == [id : Ids, content : Contents]

VARIABLES
  next,       \* store.next
  proposals,  \* store.proposals
  states,     \* store.states, "none" where there is no proposal
  epoch,      \* how often the gateway was restarted
  reviewed,   \* operations reviewed by the adapter and not yet signed
  approvals,  \* Approvals signed: nonce -> operation, as a set of records
  consumed,   \* which call consumed which nonce
  pc,         \* where each approve or deny call is in the gateway
  req,        \* what the call is about
  retry,      \* what BeginApproval told it
  wire,       \* calls whose create request the calendar has yet to handle
  answer,     \* the calendar's answer to each call
  events,     \* the calendar's events, by idempotency key
  lost        \* history: operations whose event a restart took away

store    == <<next, proposals, states, epoch>>
owner    == <<reviewed, approvals, consumed>>
calendar == <<wire, answer, events, lost>>
calls    == <<pc, req, retry>>
vars     == <<store, owner, calendar, calls>>

Approvals == [nonce : Nonces, op : Ops]

\* "begin": the Approval is spent; "creating": waiting for the calendar;
\* the others are how a call ended.
PCs == {"idle", "consume", "begin", "creating",
        "event", "denied", "refused", "resolved", "failed"}

Running == {"consume", "begin", "creating"}

Answers == {"none", "ok", "conflict", "invalid"}

Requests ==
  [kind : {"approve", "deny"}, op : Ops, nonce : Nonces, epoch : Nat]

NoRequest == [kind |-> "none"]

\* operationFor
OperationFor(p) == [id |-> p, content |-> proposals[p]]

-----------------------------------------------------------------------------
(* Submitting and reviewing *)

\* Faulty variant of Submit: the number is not counted up.
SubmitSameNumber(content) ==
  /\ next < MaxProposals
  /\ proposals' = [proposals EXCEPT ![next + 1] = content]
  /\ states' = [states EXCEPT ![next + 1] = "pending"]
  /\ UNCHANGED <<next, epoch, owner, calendar, calls>>

\* The submit handler and Store.Submit.
Submit(content) ==
  /\ next < MaxProposals
  /\ next' = next + 1
  /\ proposals' = [proposals EXCEPT ![next + 1] = content]
  /\ states' = [states EXCEPT ![next + 1] = "pending"]
  /\ UNCHANGED <<epoch, owner, calendar, calls>>

\* Store.Review: any proposal that is there and was not denied.
Reviewable(p) == states[p] \notin {"none", "denied"}

\* The first half of the adapter's ReviewProposal: the review Tool.
Review(p) ==
  /\ Reviewable(p)
  /\ reviewed' = reviewed \union {OperationFor(p)}
  /\ UNCHANGED <<store, approvals, consumed, calendar, calls>>

\* The second half: the Authority signs the operation that was returned.
Issue(op) ==
  /\ op \in reviewed
  /\ \E n \in Nonces :
       /\ \A a \in approvals : a.nonce # n
       /\ approvals' = approvals \union {[nonce |-> n, op |-> op]}
  /\ reviewed' = reviewed \ {op}
  /\ UNCHANGED <<store, consumed, calendar, calls>>

-----------------------------------------------------------------------------
(* Approving and denying: the steps both handlers share *)

Goto(c, where) == pc' = [pc EXCEPT ![c] = where]

\* The call arrives and reads the operation; a proposal that is missing or
\* denied ends it there, with no change, and a token that does not verify is
\* refused later with no change.
Start(c, kind, p, nonce) ==
  /\ pc[c] = "idle"
  /\ Reviewable(p)
  /\ \E a \in approvals : a.nonce = nonce
  /\ req' = [req EXCEPT ![c] = [kind |-> kind, op |-> OperationFor(p),
                                nonce |-> nonce, epoch |-> epoch]]
  /\ Goto(c, "consume")
  /\ UNCHANGED <<store, owner, calendar, retry>>

Unconsumed(nonce) == \A u \in consumed : u.nonce # nonce

\* Faulty variant of ConsumeGranted: any Approval the Owner got will do.
ConsumeAny(c) ==
  /\ pc[c] = "consume"
  /\ Unconsumed(req[c].nonce)
  /\ consumed' = consumed \union {[nonce |-> req[c].nonce, by |-> c]}
  /\ Goto(c, "begin")
  /\ UNCHANGED <<store, reviewed, approvals, calendar, req, retry>>

\* ConsumeExact reaches the Authority with an Approval that is still good.
\* The response may be lost on the way back.
ConsumeGranted(c) ==
  /\ pc[c] = "consume"
  /\ [nonce |-> req[c].nonce, op |-> req[c].op] \in approvals
  /\ Unconsumed(req[c].nonce)
  /\ consumed' = consumed \union {[nonce |-> req[c].nonce, by |-> c]}
  /\ Goto(c, "begin") \/ Goto(c, "refused")
  /\ UNCHANGED <<store, reviewed, approvals, calendar, req, retry>>

\* ConsumeExact fails and consumes nothing: replayed, bound to another
\* operation, expired, or the Authority did not answer.
ConsumeRefused(c) ==
  /\ pc[c] = "consume"
  /\ Goto(c, "refused")
  /\ UNCHANGED <<store, owner, calendar, req, retry>>

-----------------------------------------------------------------------------
(* Denying *)

\* Faulty variant of Deny: a proposal being approved can be denied too.
DenyApproving(c) ==
  /\ pc[c] = "begin" /\ req[c].kind = "deny"
  /\ states[req[c].op.id] \in {"pending", "approving"}
  /\ states' = [states EXCEPT ![req[c].op.id] = "denied"]
  /\ Goto(c, "denied")
  /\ UNCHANGED <<next, proposals, epoch, owner, calendar, req, retry>>

\* Store.Deny
Deny(c) ==
  /\ pc[c] = "begin" /\ req[c].kind = "deny"
  /\ \/ /\ states[req[c].op.id] = "pending"
        /\ states' = [states EXCEPT ![req[c].op.id] = "denied"]
        /\ Goto(c, "denied")
     \/ /\ states[req[c].op.id] # "pending"
        /\ Goto(c, "resolved")
        /\ UNCHANGED states
  /\ UNCHANGED <<next, proposals, epoch, owner, calendar, req, retry>>

-----------------------------------------------------------------------------
(* Approving *)

\* Faulty variant of BeginApproval: a second approval may join the first.
BeginJoining(c) ==
  LET p == req[c].op.id IN
  /\ pc[c] = "begin" /\ req[c].kind = "approve"
  /\ states[p] \in {"pending", "approving"}
  /\ states' = [states EXCEPT ![p] = "approving"]
  /\ Goto(c, "creating")
  /\ wire' = wire \union {c}
  /\ UNCHANGED <<next, proposals, epoch, owner, answer, events, lost, req,
                 retry>>

\* Store.BeginApproval, and the create request leaves the gateway.
BeginApproval(c) ==
  LET p == req[c].op.id IN
  /\ pc[c] = "begin" /\ req[c].kind = "approve"
  /\ \/ /\ states[p] = "pending"
        /\ states' = [states EXCEPT ![p] = "approving"]
        /\ Goto(c, "creating")
        /\ wire' = wire \union {c}
        /\ UNCHANGED retry
     \/ /\ states[p] = "approved"
        /\ Goto(c, "creating")
        /\ retry' = [retry EXCEPT ![c] = TRUE]
        /\ wire' = wire \union {c}
        /\ UNCHANGED states
     \/ /\ states[p] \in {"approving", "denied"}
        /\ Goto(c, "resolved")
        /\ UNCHANGED <<states, wire, retry>>
  /\ UNCHANGED <<next, proposals, epoch, owner, answer, events, lost, req>>

\* Faulty variant of CreateEvent: the last request with a key wins.
CreateOverwriting(c) ==
  LET op == req[c].op IN
  /\ c \in wire
  /\ wire' = wire \ {c}
  /\ events' = [events EXCEPT ![op.id] = op.content]
  /\ answer' = [answer EXCEPT ![c] = "ok"]
  /\ UNCHANGED <<lost, store, owner, calls>>

\* The calendar's POST /events: validate, then create or compare.
CreateEvent(c) ==
  LET op == req[c].op IN
  /\ c \in wire
  /\ wire' = wire \ {c}
  /\ \/ /\ op.content \notin Creatable
        /\ answer' = [answer EXCEPT ![c] = "invalid"]
        /\ UNCHANGED events
     \/ /\ op.content \in Creatable
        /\ events[op.id] = NoContent
        /\ events' = [events EXCEPT ![op.id] = op.content]
        /\ answer' = [answer EXCEPT ![c] = "ok"]
     \/ /\ op.content \in Creatable
        /\ events[op.id] # NoContent
        /\ answer' = [answer EXCEPT ![c] =
                        IF events[op.id] = op.content THEN "ok" ELSE "conflict"]
        /\ UNCHANGED events
  /\ UNCHANGED <<lost, store, owner, calls>>

\* The request never reaches the calendar.
LoseRequest(c) ==
  /\ c \in wire
  /\ wire' = wire \ {c}
  /\ UNCHANGED <<store, owner, answer, events, lost, calls>>

\* Store.CompleteApproval and Store.CancelApproval, unless this is a retry.
Settle(c, state) ==
  LET p == req[c].op.id IN
  states' = IF ~retry[c] /\ states[p] = "approving"
              THEN [states EXCEPT ![p] = state] ELSE states

\* Faulty variants: Complete does not look at the calendar's answer; Cancel
\* does not put the proposal back.
CompleteAnyway(c) ==
  /\ pc[c] = "creating" /\ answer[c] # "none"
  /\ Settle(c, "approved")
  /\ Goto(c, "event")
  /\ UNCHANGED <<next, proposals, epoch, owner, calendar, req, retry>>

CancelStuck(c) ==
  /\ pc[c] = "creating"
  /\ Goto(c, "failed")
  /\ UNCHANGED <<store, owner, calendar, req, retry>>

\* CreateEvent returned an event.
Complete(c) ==
  /\ pc[c] = "creating" /\ answer[c] = "ok"
  /\ Settle(c, "approved")
  /\ Goto(c, "event")
  /\ UNCHANGED <<next, proposals, epoch, owner, calendar, req, retry>>

\* CreateEvent returned an error: the calendar refused, its response was lost,
\* or the three seconds were over, the request handled or not.
Cancel(c) ==
  /\ pc[c] = "creating"
  /\ Settle(c, "pending")
  /\ Goto(c, "failed")
  /\ UNCHANGED <<next, proposals, epoch, owner, calendar, req, retry>>

-----------------------------------------------------------------------------
\* The gateway restarts: NewStore, and the calls it was running are gone.
\* Requests it has sent stay on the wire.
Restart ==
  /\ epoch < MaxRestarts
  /\ epoch' = epoch + 1
  /\ next' = 0
  /\ proposals' = [p \in Ids |-> NoContent]
  /\ states' = [p \in Ids |-> "none"]
  /\ pc' = [c \in Calls |-> IF pc[c] \in Running THEN "failed" ELSE pc[c]]
  /\ UNCHANGED <<owner, calendar, req, retry>>

\* The operation an event was created for.
EventOp(p) == [id |-> p, content |-> events[p]]

\* The calendar restarts with no events; what is on the wire may still reach
\* it, and answers it has given stand.
CalendarRestart ==
  /\ \E p \in Ids : events[p] # NoContent
  /\ events' = [p \in Ids |-> NoContent]
  /\ lost' = lost \union
               {EventOp(p) : p \in {q \in Ids : events[q] # NoContent}}
  /\ UNCHANGED <<store, owner, wire, answer, calls>>

Init ==
  /\ next = 0
  /\ proposals = [p \in Ids |-> NoContent]
  /\ states = [p \in Ids |-> "none"]
  /\ epoch = 0
  /\ reviewed = {} /\ approvals = {} /\ consumed = {}
  /\ pc = [c \in Calls |-> "idle"]
  /\ req = [c \in Calls |-> NoRequest]
  /\ retry = [c \in Calls |-> FALSE]
  /\ wire = {}
  /\ answer = [c \in Calls |-> "none"]
  /\ events = [p \in Ids |-> NoContent] /\ lost = {}

\* What the gateway does once a call has arrived.
Handle(c) ==
  \/ ConsumeGranted(c) \/ ConsumeRefused(c)
  \/ Deny(c) \/ BeginApproval(c) \/ Complete(c) \/ Cancel(c)

Next ==
  \/ \E content \in Contents : Submit(content)
  \/ \E p \in Ids : Review(p)
  \/ \E op \in Ops : Issue(op)
  \/ \E c \in Calls, kind \in {"approve", "deny"}, p \in Ids, n \in Nonces :
       Start(c, kind, p, n)
  \/ \E c \in Calls : Handle(c) \/ CreateEvent(c) \/ LoseRequest(c)
  \/ Restart \/ CalendarRestart

Spec == Init /\ [][Next]_vars

\* Handlers run to their end: mutexes are held for a few assignments only, and
\* every HTTP call of the gateway ends within its client's timeout.
Fairness == \A c \in Calls : WF_vars(Handle(c))

FairSpec == Spec /\ Fairness

-----------------------------------------------------------------------------
(* Properties *)

\* The Store, the calls, the wire and the calendar hold values of their types.
TypeOK ==
  /\ next \in 0..MaxProposals /\ epoch \in Nat
  /\ proposals \in [Ids -> Contents \union {NoContent}]
  /\ states \in [Ids -> {"none", "pending", "approving", "approved", "denied"}]
  /\ reviewed \subseteq Ops /\ approvals \subseteq Approvals
  /\ consumed \subseteq [nonce : Nonces, by : Calls]
  /\ pc \in [Calls -> PCs] /\ retry \in [Calls -> BOOLEAN]
  /\ req \in [Calls -> Requests \union {NoRequest}]
  /\ \A c \in Calls : pc[c] # "idle" => req[c] \in Requests
  /\ wire \subseteq Calls
  /\ answer \in [Calls -> Answers]
  /\ events \in [Ids -> Contents \union {NoContent}]
  /\ lost \subseteq Ops

\* Call c spent an Approval of its own, signed for exactly the operation c is
\* about.
Spent(c) ==
  /\ [nonce |-> req[c].nonce, by |-> c] \in consumed
  /\ [nonce |-> req[c].nonce, op |-> req[c].op] \in approvals

\* Every event in the calendar, and every create request on its way there,
\* stems from an approve call that spent an Approval the Owner got for exactly
\* this proposal and these contents, across lost responses, late requests and
\* gateway restarts that reuse proposal numbers.
EventBacked ==
  /\ \A c \in wire : req[c].kind = "approve" /\ Spent(c)
  /\ \A p \in Ids :
       events[p] # NoContent =>
         \E c \in Calls :
           /\ pc[c] # "idle" /\ req[c].kind = "approve" /\ Spent(c)
           /\ req[c].op = [id |-> p, content |-> events[p]]

\* Call c owns the approval of proposal p.
Approver(c, p) ==
  /\ pc[c] = "creating" /\ ~retry[c]
  /\ req[c].op.id = p

\* A proposal is "approving" exactly while one call works on it, and that call
\* is alone: CompleteApproval and CancelApproval, which only look at the state,
\* can never settle the approval of another call.
OneApprover ==
  \A p \in Ids :
    /\ states[p] = "approving" <=> \E c \in Calls : Approver(c, p)
    /\ \A c, d \in Calls : Approver(c, p) /\ Approver(d, p) => c = d

\* A proposal the Store calls approved has its event, with its contents, unless
\* the calendar had that very event and lost it in a restart: a timeout, a late
\* request or a failed retry never leaves it approved without one.
ApprovedHasEvent ==
  \A p \in Ids :
    states[p] = "approved" =>
      events[p] = proposals[p] \/ OperationFor(p) \in lost

\* An Owner who was told "event" and an Owner who was told "denied" were not
\* told so about the same proposal of the same gateway process.
Agreement ==
  \A c, d \in Calls :
    pc[c] = "event" /\ pc[d] = "denied"
      => <<req[c].op.id, req[c].epoch>> # <<req[d].op.id, req[d].epoch>>

\* The calendar sees one idempotency key with two contents only after a gateway
\* restart has reused a proposal number.
ConflictNeedsRestart ==
  \A c \in Calls : answer[c] = "conflict" => epoch > 0

\* An event, once created, is neither replaced nor removed by retries and late
\* requests; only a restart of the calendar takes it away, and then all of them.
EventKept(p) ==
  events[p] # NoContent =>
    \/ events'[p] = events[p]
    \/ /\ \A q \in Ids : events'[q] = NoContent
       /\ EventOp(p) \in lost'

EventsKept == [][\A p \in Ids : EventKept(p)]_vars

\* No proposal stays "approving" for ever, whatever the calendar does: the
\* timeout ends the call and the call settles the Store.
ApprovalSettles ==
  \A p \in Ids : states[p] = "approving" ~> states[p] # "approving"

\* A denied proposal has no calendar effect.
DeniedHasNoEvent ==
  \A p \in Ids : states[p] = "denied" => events[p] = NoContent

\* What each call was granted, as OneTimeApproval sees it.
GrantOf(c) ==
  IF \E u \in consumed : u.by = c
    THEN [approval |-> [nonce |-> req[c].nonce, binding |-> req[c].op],
          binding |-> req[c].op]
    ELSE NoRequest

Promised == INSTANCE OneTimeApproval
              WITH Requests <- Calls, Ungranted <- NoRequest,
                   issued <- {[nonce |-> a.nonce, binding |-> a.op]
                                : a \in approvals},
                   grant <- [c \in Calls |-> GrantOf(c)]

\* The handlers get from the Authority what it promises, and rely on no more:
\* each call is granted at most one Approval, of exactly its operation, which
\* no other call is granted, across lost answers and restarts.
AsPromised == Promised!Spec

-----------------------------------------------------------------------------
(* The inductive invariant *)

\* The Store numbers its proposals without gaps.
StoreInv ==
  \A p \in Ids : /\ states[p] = "none" <=> proposals[p] = NoContent
                 /\ p > next => states[p] = "none"

\* What is known of a call: it belongs to this process or an earlier one; in
\* this process its operation is the proposal's; once past "consume" it has
\* spent its Approval; and its outcome agrees with the Store and the calendar.
CallInv ==
  \A c \in Calls : pc[c] # "idle" =>
    /\ req[c].epoch <= epoch
    /\ pc[c] \in Running => req[c].epoch = epoch
    /\ pc[c] \in {"begin", "creating", "event"} => Spent(c)
    /\ pc[c] \in {"creating", "event"} => req[c].kind = "approve"
    /\ answer[c] = "ok" =>
         events[req[c].op.id] = req[c].op.content \/ req[c].op \in lost
    /\ req[c].epoch = epoch =>
         /\ states[req[c].op.id] # "none"
         /\ req[c].op.content = proposals[req[c].op.id]
         /\ pc[c] = "event" => states[req[c].op.id] = "approved"
         /\ pc[c] = "denied" => states[req[c].op.id] = "denied"
         /\ pc[c] = "creating" /\ retry[c]
              => states[req[c].op.id] = "approved"

\* Only calls that have begun have requests and answers.
WireInv ==
  \A c \in Calls : c \in wire \/ answer[c] # "none"
                     => pc[c] \notin {"idle", "consume", "begin"}

\* A call that has not begun is no retry.
FreshInv ==
  \A c \in Calls : pc[c] \in {"idle", "consume", "begin"} => ~retry[c]

\* Until the first restart the calendar knows only contents of the Store.
FirstLife ==
  epoch = 0 => \A p \in Ids : events[p] \in {NoContent, proposals[p]}

IInv ==
  /\ TypeOK /\ StoreInv /\ CallInv /\ WireInv /\ FreshInv /\ FirstLife
  /\ EventBacked /\ OneApprover /\ ApprovedHasEvent /\ Agreement
  /\ ConflictNeedsRestart

=============================================================================
