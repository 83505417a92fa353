------------------------ MODULE MeetingApprovalProofs ------------------------
(***************************************************************************)
(* Proofs about MeetingApproval, for every set of calls, contents and      *)
(* nonces and every bound on proposals and restarts.                       *)
(***************************************************************************)
EXTENDS MeetingApproval, TLAPS

\* The parts of a request have their types.
LEMMA ReqTypes ==
  ASSUME TypeOK, NEW c \in Calls, pc[c] # "idle"
  PROVE  /\ req[c].kind \in {"approve", "deny"}
         /\ req[c].op \in Ops /\ req[c].op.id \in Ids
         /\ req[c].op.content \in Contents
         /\ req[c].op = [id |-> req[c].op.id, content |-> req[c].op.content]
         /\ req[c].nonce \in Nonces /\ req[c].epoch \in Nat
  BY DEF TypeOK, Requests, Ops

\* What the calendar does with a request, as the other proofs use it.
Created(c) ==
  /\ c \in wire /\ pc[c] # "idle"
  /\ req[c].op.id \in Ids /\ req[c].op.content \in Contents
  /\ UNCHANGED <<next, proposals, states, epoch>>
  /\ UNCHANGED <<reviewed, approvals, consumed, pc, req, retry, lost>>
  /\ wire' = wire \ {c}
  /\ answer' = [answer EXCEPT ![c] = answer'[c]]
  /\ answer'[c] \in {"ok", "conflict", "invalid"}
  /\ \/ events' = events
     \/ /\ events[req[c].op.id] = NoContent
        /\ events' = [events EXCEPT ![req[c].op.id] = req[c].op.content]
  /\ answer'[c] = "ok" => events'[req[c].op.id] = req[c].op.content
  /\ answer'[c] = "conflict"
       => events[req[c].op.id] \notin {NoContent, req[c].op.content}

LEMMA CreateFacts ==
  ASSUME IInv, NEW c \in Calls, CreateEvent(c)
  PROVE  Created(c)
<1>1. c \in wire /\ pc[c] # "idle"
  BY DEF CreateEvent, IInv, WireInv
<1>2. /\ req[c].op.id \in Ids /\ req[c].op.content \in Contents
      /\ answer \in [Calls -> Answers]
      /\ events \in [Ids -> Contents \union {NoContent}]
  BY <1>1, ReqTypes DEF IInv, TypeOK
<1>. QED
  BY <1>1, <1>2 DEF Created, CreateEvent, store, owner, calls

\* A call that begins has a proposal of this process, and either takes it,
\* joins an approval that is complete, or is turned away.
Began(c) ==
  /\ pc[c] = "begin" /\ req[c].kind = "approve"
  /\ req[c].op.id \in Ids /\ req[c].epoch = epoch /\ Spent(c)
  /\ UNCHANGED <<next, proposals, epoch, reviewed, approvals, consumed>>
  /\ UNCHANGED <<answer, events, lost, req>>
  /\ \/ /\ states[req[c].op.id] = "pending"
        /\ states' = [states EXCEPT ![req[c].op.id] = "approving"]
        /\ pc' = [pc EXCEPT ![c] = "creating"]
        /\ wire' = wire \union {c} /\ retry' = retry
     \/ /\ states[req[c].op.id] = "approved" /\ states' = states
        /\ pc' = [pc EXCEPT ![c] = "creating"]
        /\ retry' = [retry EXCEPT ![c] = TRUE]
        /\ wire' = wire \union {c}
     \/ /\ states' = states /\ wire' = wire /\ retry' = retry
        /\ pc' = [pc EXCEPT ![c] = "resolved"]

LEMMA BeginFacts ==
  ASSUME IInv, NEW c \in Calls, BeginApproval(c)
  PROVE  Began(c)
<1>1. pc[c] = "begin" /\ req[c].kind = "approve"
  BY DEF BeginApproval
<1>2. req[c].op.id \in Ids
  BY <1>1, ReqTypes DEF IInv
<1>3. req[c].epoch = epoch /\ Spent(c)
  BY <1>1 DEF IInv, CallInv, Running
<1>. QED
  BY <1>1, <1>2, <1>3 DEF Began, BeginApproval, Goto, owner

\* Every step keeps the types.
LEMMA TypeStep ==
  ASSUME IInv, [Next]_vars
  PROVE  TypeOK'
<1>1. ASSUME NEW k \in Contents, Submit(k)
      PROVE  TypeOK'
  BY <1>1, ReqTypes, BoundsAssumption
     DEF IInv, TypeOK, PCs, Submit, Ids, store, owner, calendar, calls
<1>2. ASSUME NEW p \in Ids, Review(p)
      PROVE  TypeOK'
  BY <1>2, ReqTypes
     DEF IInv, TypeOK, PCs, Review, Reviewable, OperationFor, Ops, StoreInv,
            store, owner, calendar, calls
<1>3. ASSUME NEW op \in Ops, Issue(op)
      PROVE  TypeOK'
  BY <1>3, ReqTypes
     DEF IInv, TypeOK, PCs, Issue, Approvals, store, owner, calendar, calls
<1>4. ASSUME NEW c \in Calls, NEW kind \in {"approve", "deny"}, NEW p \in Ids,
             NEW n \in Nonces, Start(c, kind, p, n)
      PROVE  TypeOK'
  BY <1>4, ReqTypes
     DEF IInv, TypeOK, PCs, Start, Goto, Reviewable, OperationFor, Ops,
            Requests, StoreInv, store, owner, calendar, calls
<1>5. ASSUME NEW c \in Calls, ConsumeGranted(c)
      PROVE  TypeOK'
  BY <1>5, ReqTypes
     DEF IInv, TypeOK, PCs, ConsumeGranted, Goto, Unconsumed, Approvals,
            store, owner, calendar, calls
<1>6. ASSUME NEW c \in Calls, ConsumeRefused(c)
      PROVE  TypeOK'
  BY <1>6, ReqTypes
     DEF IInv, TypeOK, PCs, ConsumeRefused, Goto, store, owner, calendar,
            calls
<1>7. ASSUME NEW c \in Calls, Deny(c)
      PROVE  TypeOK'
  BY <1>7, ReqTypes
     DEF IInv, TypeOK, PCs, Deny, Goto, store, owner, calendar, calls
<1>8. ASSUME NEW c \in Calls, BeginApproval(c)
      PROVE  TypeOK'
  <2>1. Began(c)
    BY <1>8, BeginFacts
  <2>. QED
    BY <2>1
       DEF Began, IInv, TypeOK, PCs
<1>9. ASSUME NEW c \in Calls, Complete(c)
      PROVE  TypeOK'
  BY <1>9, ReqTypes
     DEF IInv, TypeOK, PCs, Complete, Goto, Settle, store, owner, calendar,
            calls
<1>10. ASSUME NEW c \in Calls, Cancel(c)
      PROVE  TypeOK'
  BY <1>10, ReqTypes
     DEF IInv, TypeOK, PCs, Cancel, Goto, Settle, store, owner, calendar,
            calls
<1>11. ASSUME NEW c \in Calls, CreateEvent(c)
      PROVE  TypeOK'
  <2>1. Created(c)
    BY <1>11, CreateFacts
  <2>. QED
    BY <2>1
       DEF Created, IInv, TypeOK, Answers
<1>12. ASSUME NEW c \in Calls, LoseRequest(c)
      PROVE  TypeOK'
  BY <1>12, ReqTypes
     DEF IInv, TypeOK, PCs, LoseRequest, store, owner, calendar, calls
<1>13. CASE Restart
  <2>1. pc' \in [Calls -> PCs]
    BY <1>13 DEF IInv, TypeOK, Restart, PCs
  <2>2. \A c \in Calls : pc'[c] # "idle" => pc[c] # "idle"
    BY <1>13 DEF IInv, TypeOK, Restart, Running
  <2>3. next' \in 0..MaxProposals /\ epoch' \in Nat
    BY <1>13, BoundsAssumption DEF IInv, TypeOK, Restart
  <2>. QED
    BY <1>13, <2>1, <2>2, <2>3
       DEF IInv, TypeOK, Restart, owner, calendar
<1>14. CASE UNCHANGED vars
  BY <1>14
     DEF IInv, TypeOK, PCs, vars, store, owner, calendar, calls
<1>15. CASE CalendarRestart
  BY <1>15, ReqTypes
     DEF CalendarRestart, IInv, TypeOK, Ops, EventOp, store, owner, calls
<1>. QED
  BY <1>1, <1>2, <1>3, <1>4, <1>5, <1>6, <1>7, <1>8,
     <1>9, <1>10, <1>11, <1>12, <1>13, <1>14, <1>15 DEF Next, Handle

\* The Store keeps numbering its proposals.
LEMMA StoreStep ==
  ASSUME IInv, [Next]_vars
  PROVE  StoreInv'
<1>1. ASSUME NEW k \in Contents, Submit(k)
      PROVE  StoreInv'
  BY <1>1, ReqTypes, BoundsAssumption
     DEF IInv, TypeOK, StoreInv, Submit, Ids, store, owner, calendar, calls
<1>2. ASSUME NEW p \in Ids, Review(p)
      PROVE  StoreInv'
  BY <1>2, ReqTypes
     DEF IInv, TypeOK, StoreInv, Review, Reviewable, OperationFor, store,
            owner, calendar, calls
<1>3. ASSUME NEW op \in Ops, Issue(op)
      PROVE  StoreInv'
  BY <1>3, ReqTypes
     DEF IInv, TypeOK, StoreInv, Issue, store, owner, calendar, calls
<1>4. ASSUME NEW c \in Calls, NEW kind \in {"approve", "deny"}, NEW p \in Ids,
             NEW n \in Nonces, Start(c, kind, p, n)
      PROVE  StoreInv'
  BY <1>4, ReqTypes
     DEF IInv, TypeOK, StoreInv, Start, Goto, Reviewable, OperationFor,
            store, owner, calendar, calls
<1>5. ASSUME NEW c \in Calls, ConsumeGranted(c)
      PROVE  StoreInv'
  BY <1>5, ReqTypes
     DEF IInv, TypeOK, StoreInv, ConsumeGranted, Goto, Unconsumed, store,
            owner, calendar, calls
<1>6. ASSUME NEW c \in Calls, ConsumeRefused(c)
      PROVE  StoreInv'
  BY <1>6, ReqTypes
     DEF IInv, TypeOK, StoreInv, ConsumeRefused, Goto, store, owner,
            calendar, calls
<1>7. ASSUME NEW c \in Calls, Deny(c)
      PROVE  StoreInv'
  BY <1>7, ReqTypes
     DEF IInv, TypeOK, StoreInv, Deny, Goto, CallInv, Running, store, owner,
            calendar, calls
<1>8. ASSUME NEW c \in Calls, BeginApproval(c)
      PROVE  StoreInv'
  BY <1>8, ReqTypes
     DEF IInv, TypeOK, StoreInv, BeginApproval, Goto, CallInv, Running,
            store, owner, calendar, calls
<1>9. ASSUME NEW c \in Calls, Complete(c)
      PROVE  StoreInv'
  BY <1>9, ReqTypes
     DEF IInv, TypeOK, StoreInv, Complete, Goto, Settle, CallInv, Running,
            store, owner, calendar, calls
<1>10. ASSUME NEW c \in Calls, Cancel(c)
      PROVE  StoreInv'
  BY <1>10, ReqTypes
     DEF IInv, TypeOK, StoreInv, Cancel, Goto, Settle, CallInv, Running,
            store, owner, calendar, calls
<1>11. ASSUME NEW c \in Calls, CreateEvent(c)
      PROVE  StoreInv'
  BY <1>11, ReqTypes
     DEF IInv, TypeOK, StoreInv, CreateEvent, store, owner, calendar, calls
<1>12. ASSUME NEW c \in Calls, LoseRequest(c)
      PROVE  StoreInv'
  BY <1>12, ReqTypes
     DEF IInv, TypeOK, StoreInv, LoseRequest, store, owner, calendar, calls
<1>13. CASE Restart
  BY <1>13, ReqTypes
     DEF IInv, TypeOK, StoreInv, Restart, store, owner, calendar, calls
<1>14. CASE UNCHANGED vars
  BY <1>14
     DEF IInv, TypeOK, StoreInv, vars, store, owner, calendar, calls
<1>15. CASE CalendarRestart
  BY <1>15, ReqTypes
     DEF CalendarRestart, IInv, TypeOK, StoreInv, store, owner, calls
<1>. QED
  BY <1>1, <1>2, <1>3, <1>4, <1>5, <1>6, <1>7, <1>8,
     <1>9, <1>10, <1>11, <1>12, <1>13, <1>14, <1>15 DEF Next, Handle

\* What is known of a call stays true.
LEMMA CallStep ==
  ASSUME IInv, [Next]_vars
  PROVE  CallInv'
<1>1. ASSUME NEW k \in Contents, Submit(k)
      PROVE  CallInv'
  BY <1>1, ReqTypes, BoundsAssumption
     DEF IInv, TypeOK, CallInv, WireInv, Running, Spent, Submit, StoreInv,
            Ids, store, owner, calendar, calls
<1>2. ASSUME NEW p \in Ids, Review(p)
      PROVE  CallInv'
  BY <1>2, ReqTypes
     DEF IInv, TypeOK, CallInv, WireInv, Running, Spent, Review, Reviewable,
            OperationFor, store, owner, calendar, calls
<1>3. ASSUME NEW op \in Ops, Issue(op)
      PROVE  CallInv'
  BY <1>3, ReqTypes
     DEF IInv, TypeOK, CallInv, WireInv, Running, Spent, Issue, store,
            owner, calendar, calls
<1>4. ASSUME NEW c \in Calls, NEW kind \in {"approve", "deny"}, NEW p \in Ids,
             NEW n \in Nonces, Start(c, kind, p, n)
      PROVE  CallInv'
  BY <1>4, ReqTypes
     DEF IInv, TypeOK, CallInv, WireInv, Running, Spent, Start, Goto,
            Reviewable, OperationFor, StoreInv, store, owner, calendar,
            calls
<1>5. ASSUME NEW c \in Calls, ConsumeGranted(c)
      PROVE  CallInv'
  BY <1>5, ReqTypes
     DEF IInv, TypeOK, CallInv, WireInv, Running, Spent, ConsumeGranted,
            Goto, Unconsumed, store, owner, calendar, calls
<1>6. ASSUME NEW c \in Calls, ConsumeRefused(c)
      PROVE  CallInv'
  BY <1>6, ReqTypes
     DEF IInv, TypeOK, CallInv, WireInv, Running, Spent, ConsumeRefused,
            Goto, store, owner, calendar, calls
<1>7. ASSUME NEW c \in Calls, Deny(c)
      PROVE  CallInv'
  <2>1. /\ pc[c] = "begin" /\ req[c].op.id \in Ids /\ req[c].epoch = epoch
        /\ UNCHANGED <<epoch, proposals, owner, calendar, req, retry>>
    BY <1>7, ReqTypes DEF Deny, IInv, CallInv, Running
  <2>2. CASE /\ states[req[c].op.id] = "pending"
             /\ states' = [states EXCEPT ![req[c].op.id] = "denied"]
             /\ pc' = [pc EXCEPT ![c] = "denied"]
    BY <2>1, <2>2, ReqTypes
       DEF IInv, TypeOK, CallInv, Running, Spent, owner, calendar
  <2>3. CASE UNCHANGED states /\ pc' = [pc EXCEPT ![c] = "resolved"]
    BY <2>1, <2>3, ReqTypes
       DEF IInv, TypeOK, CallInv, Running, Spent, owner, calendar
  <2>. QED
    BY <1>7, <2>2, <2>3 DEF Deny, Goto
<1>8. ASSUME NEW c \in Calls, BeginApproval(c)
      PROVE  CallInv'
  <2>1. Began(c)
    BY <1>8, BeginFacts
  <2>2. \A d \in Calls : Spent(d)' <=> Spent(d)
    BY <2>1 DEF Began, Spent
  <2>3. \A d \in Calls : d # c => pc'[d] = pc[d] /\ retry'[d] = retry[d]
    BY <2>1 DEF Began, IInv, TypeOK
  <2>4. \A p \in Ids :
          /\ states[p] # "none" => states'[p] # "none"
          /\ states[p] \in {"approved", "denied"} => states'[p] = states[p]
    BY <2>1 DEF Began, IInv, TypeOK
  <2>5. ASSUME NEW d \in Calls, d # c, pc'[d] # "idle"
        PROVE  /\ req[d].op.id \in Ids /\ pc[d] # "idle"
               /\ pc'[d] = pc[d] /\ retry'[d] = retry[d]
    BY <2>3, <2>5, ReqTypes DEF IInv
  <2>6. /\ pc'[c] \in {"creating", "resolved"} /\ pc[c] = "begin"
        /\ pc'[c] = "creating" /\ retry'[c]
             => states'[req[c].op.id] = "approved"
    BY <2>1 DEF Began, IInv, TypeOK, FreshInv
  <2>. QED
    BY <2>1, <2>2, <2>4, <2>5, <2>6 DEF Began, IInv, CallInv, Running
<1>9. ASSUME NEW c \in Calls, Complete(c)
      PROVE  CallInv'
  <2>1. /\ pc[c] = "creating" /\ req[c].op.id \in Ids
        /\ req[c].epoch = epoch /\ pc' = [pc EXCEPT ![c] = "event"]
        /\ UNCHANGED <<epoch, proposals, owner, calendar, req, retry>>
    BY <1>9, ReqTypes DEF Complete, Goto, IInv, CallInv, Running
  <2>2. CASE /\ ~retry[c] /\ states[req[c].op.id] = "approving"
             /\ states' = [states EXCEPT ![req[c].op.id] = "approved"]
    BY <2>1, <2>2, ReqTypes
       DEF IInv, TypeOK, CallInv, Running, Spent, owner, calendar
  <2>3. CASE retry[c] /\ UNCHANGED states
    BY <2>1, <2>3, ReqTypes
       DEF IInv, TypeOK, CallInv, Running, Spent, owner, calendar
  <2>. QED
    BY <1>9, <2>1, <2>2, <2>3
       DEF Complete, Settle, IInv, TypeOK, OneApprover, Approver
<1>10. ASSUME NEW c \in Calls, Cancel(c)
      PROVE  CallInv'
  BY <1>10, ReqTypes
     DEF IInv, TypeOK, CallInv, WireInv, Running, Spent, Cancel, Goto,
            Settle, OneApprover, Approver, store, owner, calendar, calls
<1>11. ASSUME NEW c \in Calls, CreateEvent(c)
      PROVE  CallInv'
  <2>1. Created(c)
    BY <1>11, CreateFacts
  <2>2. \A d \in Calls : Spent(d)' <=> Spent(d)
    BY <2>1 DEF Created, Spent
  <2>3. \A d \in Calls :
          pc[d] # "idle" /\ answer'[d] = "ok"
            => events'[req[d].op.id] = req[d].op.content \/ req[d].op \in lost
    <3>1. ASSUME NEW d \in Calls, pc[d] # "idle", answer'[d] = "ok", d # c
          PROVE  events'[req[d].op.id] = req[d].op.content \/ req[d].op \in lost
      <4>1. req[d].op.id \in Ids /\ req[d].op.content \in Contents
        BY <3>1, ReqTypes DEF IInv
      <4>2. events[req[d].op.id] = req[d].op.content \/ req[d].op \in lost
        BY <2>1, <3>1 DEF Created, IInv, CallInv, TypeOK
      <4>. QED
        BY <2>1, <4>1, <4>2, BoundsAssumption DEF Created, IInv, TypeOK
    <3>. QED
      BY <2>1, <3>1 DEF Created
  <2>. QED
    BY <2>1, <2>2, <2>3 DEF Created, IInv, CallInv
<1>12. ASSUME NEW c \in Calls, LoseRequest(c)
      PROVE  CallInv'
  BY <1>12, ReqTypes
     DEF IInv, TypeOK, CallInv, WireInv, Running, Spent, LoseRequest, store,
            owner, calendar, calls
<1>13. CASE Restart
  <2>1. /\ epoch' = epoch + 1 /\ epoch \in Nat
        /\ UNCHANGED <<owner, calendar, req, retry>>
    BY <1>13 DEF Restart, IInv, TypeOK
  <2>2. \A d \in Calls :
          /\ pc'[d] # "idle" => pc[d] # "idle" /\ req[d].epoch \in Nat
          /\ pc'[d] \notin Running
          /\ pc'[d] # "failed" => pc'[d] = pc[d]
    BY <1>13, ReqTypes DEF Restart, IInv, TypeOK, Running
  <2>. QED
    BY <2>1, <2>2 DEF IInv, CallInv, Running, Spent, owner, calendar
<1>14. CASE UNCHANGED vars
  BY <1>14
     DEF IInv, TypeOK, CallInv, WireInv, Running, Spent, vars, store, owner,
            calendar, calls
<1>15. CASE CalendarRestart
  <2>1. /\ UNCHANGED <<store, owner, wire, answer, calls>>
        /\ \A p \in Ids : events[p] # NoContent => EventOp(p) \in lost'
        /\ \A op \in lost : op \in lost'
    BY <1>15 DEF CalendarRestart
  <2>2. ASSUME NEW d \in Calls, pc[d] # "idle", answer[d] = "ok"
        PROVE  req[d].op \in lost'
    <3>1. /\ req[d].op.id \in Ids /\ req[d].op.content # NoContent
          /\ req[d].op = [id |-> req[d].op.id, content |-> req[d].op.content]
      BY <2>2, ReqTypes, BoundsAssumption DEF IInv
    <3>2. CASE events[req[d].op.id] = req[d].op.content
      BY <2>1, <3>1, <3>2 DEF EventOp
    <3>. QED
      BY <2>1, <2>2, <3>2 DEF IInv, CallInv
  <2>. QED
    BY <2>1, <2>2 DEF IInv, CallInv, Running, Spent, store, owner, calls
<1>. QED
  BY <1>1, <1>2, <1>3, <1>4, <1>5, <1>6, <1>7, <1>8,
     <1>9, <1>10, <1>11, <1>12, <1>13, <1>14, <1>15 DEF Next, Handle

\* Only calls that have begun have requests and answers.
LEMMA WireStep ==
  ASSUME IInv, [Next]_vars
  PROVE  WireInv'
<1>1. ASSUME NEW k \in Contents, Submit(k)
      PROVE  WireInv'
  BY <1>1
     DEF IInv, TypeOK, WireInv, Submit, store, owner, calendar, calls
<1>2. ASSUME NEW p \in Ids, Review(p)
      PROVE  WireInv'
  BY <1>2
     DEF IInv, TypeOK, WireInv, Review, Reviewable, OperationFor, store,
            owner, calendar, calls
<1>3. ASSUME NEW op \in Ops, Issue(op)
      PROVE  WireInv'
  BY <1>3
     DEF IInv, TypeOK, WireInv, Issue, store, owner, calendar, calls
<1>4. ASSUME NEW c \in Calls, NEW kind \in {"approve", "deny"}, NEW p \in Ids,
             NEW n \in Nonces, Start(c, kind, p, n)
      PROVE  WireInv'
  BY <1>4
     DEF IInv, TypeOK, WireInv, Start, Goto, Reviewable, OperationFor,
            store, owner, calendar, calls
<1>5. ASSUME NEW c \in Calls, ConsumeGranted(c)
      PROVE  WireInv'
  BY <1>5
     DEF IInv, TypeOK, WireInv, ConsumeGranted, Goto, Unconsumed, store,
            owner, calendar, calls
<1>6. ASSUME NEW c \in Calls, ConsumeRefused(c)
      PROVE  WireInv'
  BY <1>6
     DEF IInv, TypeOK, WireInv, ConsumeRefused, Goto, store, owner,
            calendar, calls
<1>7. ASSUME NEW c \in Calls, Deny(c)
      PROVE  WireInv'
  BY <1>7
     DEF IInv, TypeOK, WireInv, Deny, Goto, store, owner, calendar, calls
<1>8. ASSUME NEW c \in Calls, BeginApproval(c)
      PROVE  WireInv'
  BY <1>8
     DEF IInv, TypeOK, WireInv, BeginApproval, Goto, store, owner, calendar,
            calls
<1>9. ASSUME NEW c \in Calls, Complete(c)
      PROVE  WireInv'
  BY <1>9
     DEF IInv, TypeOK, WireInv, Complete, Goto, Settle, store, owner,
            calendar, calls
<1>10. ASSUME NEW c \in Calls, Cancel(c)
      PROVE  WireInv'
  BY <1>10
     DEF IInv, TypeOK, WireInv, Cancel, Goto, Settle, store, owner,
            calendar, calls
<1>11. ASSUME NEW c \in Calls, CreateEvent(c)
      PROVE  WireInv'
  BY <1>11
     DEF IInv, TypeOK, WireInv, CreateEvent, store, owner, calendar, calls
<1>12. ASSUME NEW c \in Calls, LoseRequest(c)
      PROVE  WireInv'
  BY <1>12
     DEF IInv, TypeOK, WireInv, LoseRequest, store, owner, calendar, calls
<1>13. CASE Restart
  BY <1>13
     DEF IInv, TypeOK, WireInv, Restart, Running, store, owner, calendar,
            calls
<1>14. CASE UNCHANGED vars
  BY <1>14
     DEF IInv, TypeOK, WireInv, vars, store, owner, calendar, calls
<1>15. CASE CalendarRestart
  BY <1>15, ReqTypes
     DEF CalendarRestart, IInv, TypeOK, WireInv, store, owner, calls
<1>. QED
  BY <1>1, <1>2, <1>3, <1>4, <1>5, <1>6, <1>7, <1>8,
     <1>9, <1>10, <1>11, <1>12, <1>13, <1>14, <1>15 DEF Next, Handle

\* Until the first restart the calendar knows the Store's contents only.
LEMMA FirstStep ==
  ASSUME IInv, [Next]_vars
  PROVE  FirstLife'
<1>1. ASSUME NEW k \in Contents, Submit(k)
      PROVE  FirstLife'
  BY <1>1, ReqTypes, BoundsAssumption
     DEF IInv, TypeOK, FirstLife, Submit, StoreInv, Ids, store, owner,
            calendar, calls
<1>2. ASSUME NEW p \in Ids, Review(p)
      PROVE  FirstLife'
  BY <1>2, ReqTypes
     DEF IInv, TypeOK, FirstLife, Review, Reviewable, OperationFor, store,
            owner, calendar, calls
<1>3. ASSUME NEW op \in Ops, Issue(op)
      PROVE  FirstLife'
  BY <1>3, ReqTypes
     DEF IInv, TypeOK, FirstLife, Issue, store, owner, calendar, calls
<1>4. ASSUME NEW c \in Calls, NEW kind \in {"approve", "deny"}, NEW p \in Ids,
             NEW n \in Nonces, Start(c, kind, p, n)
      PROVE  FirstLife'
  BY <1>4, ReqTypes
     DEF IInv, TypeOK, FirstLife, Start, Goto, Reviewable, OperationFor,
            store, owner, calendar, calls
<1>5. ASSUME NEW c \in Calls, ConsumeGranted(c)
      PROVE  FirstLife'
  BY <1>5, ReqTypes
     DEF IInv, TypeOK, FirstLife, ConsumeGranted, Goto, Unconsumed, store,
            owner, calendar, calls
<1>6. ASSUME NEW c \in Calls, ConsumeRefused(c)
      PROVE  FirstLife'
  BY <1>6, ReqTypes
     DEF IInv, TypeOK, FirstLife, ConsumeRefused, Goto, store, owner,
            calendar, calls
<1>7. ASSUME NEW c \in Calls, Deny(c)
      PROVE  FirstLife'
  BY <1>7, ReqTypes
     DEF IInv, TypeOK, FirstLife, Deny, Goto, store, owner, calendar, calls
<1>8. ASSUME NEW c \in Calls, BeginApproval(c)
      PROVE  FirstLife'
  BY <1>8, ReqTypes
     DEF IInv, TypeOK, FirstLife, BeginApproval, Goto, store, owner,
            calendar, calls
<1>9. ASSUME NEW c \in Calls, Complete(c)
      PROVE  FirstLife'
  BY <1>9, ReqTypes
     DEF IInv, TypeOK, FirstLife, Complete, Goto, Settle, store, owner,
            calendar, calls
<1>10. ASSUME NEW c \in Calls, Cancel(c)
      PROVE  FirstLife'
  BY <1>10, ReqTypes
     DEF IInv, TypeOK, FirstLife, Cancel, Goto, Settle, store, owner,
            calendar, calls
<1>11. ASSUME NEW c \in Calls, CreateEvent(c)
      PROVE  FirstLife'
  <2>0. Created(c)
    BY <1>11, CreateFacts
  <2>1. epoch = 0 => req[c].op.content = proposals[req[c].op.id]
    <3>1. pc[c] # "idle" /\ req[c].epoch \in Nat
      BY <2>0, ReqTypes DEF Created, IInv
    <3>. QED
      BY <3>1 DEF IInv, CallInv
  <2>. QED
    BY <2>0, <2>1 DEF Created, IInv, TypeOK, FirstLife
<1>12. ASSUME NEW c \in Calls, LoseRequest(c)
      PROVE  FirstLife'
  BY <1>12, ReqTypes
     DEF IInv, TypeOK, FirstLife, LoseRequest, store, owner, calendar, calls
<1>13. CASE Restart
  BY <1>13, ReqTypes
     DEF IInv, TypeOK, FirstLife, Restart, store, owner, calendar, calls
<1>14. CASE UNCHANGED vars
  BY <1>14
     DEF IInv, TypeOK, FirstLife, vars, store, owner, calendar, calls
<1>15. CASE CalendarRestart
  BY <1>15, ReqTypes
     DEF CalendarRestart, IInv, TypeOK, FirstLife, store, owner, calls
<1>. QED
  BY <1>1, <1>2, <1>3, <1>4, <1>5, <1>6, <1>7, <1>8,
     <1>9, <1>10, <1>11, <1>12, <1>13, <1>14, <1>15 DEF Next, Handle

\* Every event and every create request stays backed.
LEMMA BackedStep ==
  ASSUME IInv, [Next]_vars
  PROVE  EventBacked'
<1>1. ASSUME NEW k \in Contents, Submit(k)
      PROVE  EventBacked'
  BY <1>1, ReqTypes
     DEF IInv, TypeOK, EventBacked, Spent, Submit, store, owner, calendar,
            calls
<1>2. ASSUME NEW p \in Ids, Review(p)
      PROVE  EventBacked'
  BY <1>2, ReqTypes
     DEF IInv, TypeOK, EventBacked, Spent, Review, Reviewable, OperationFor,
            store, owner, calendar, calls
<1>3. ASSUME NEW op \in Ops, Issue(op)
      PROVE  EventBacked'
  BY <1>3, ReqTypes
     DEF IInv, TypeOK, EventBacked, Spent, Issue, store, owner, calendar,
            calls
<1>4. ASSUME NEW c \in Calls, NEW kind \in {"approve", "deny"}, NEW p \in Ids,
             NEW n \in Nonces, Start(c, kind, p, n)
      PROVE  EventBacked'
  <2>1. /\ pc[c] = "idle" /\ pc' = [pc EXCEPT ![c] = "consume"]
        /\ \A d \in Calls : d # c => req'[d] = req[d]
        /\ UNCHANGED <<owner, calendar>>
    BY <1>4 DEF Start, Goto, IInv, TypeOK
  <2>2. \A d \in Calls : d # c => (Spent(d)' <=> Spent(d))
    BY <2>1 DEF Spent, owner
  <2>3. c \notin wire
    BY <2>1 DEF IInv, WireInv
  <2>. QED
    BY <2>1, <2>2, <2>3 DEF IInv, EventBacked, TypeOK, calendar
<1>5. ASSUME NEW c \in Calls, ConsumeGranted(c)
      PROVE  EventBacked'
  <2>1. \A d \in Calls : Spent(d) => Spent(d)'
    BY <1>5 DEF ConsumeGranted, Spent
  <2>2. \A d \in Calls : pc[d] # "idle" => pc'[d] # "idle"
    BY <1>5 DEF ConsumeGranted, Goto, IInv, TypeOK
  <2>. QED
    BY <1>5, <2>1, <2>2
       DEF ConsumeGranted, IInv, EventBacked, TypeOK, calendar
<1>6. ASSUME NEW c \in Calls, ConsumeRefused(c)
      PROVE  EventBacked'
  BY <1>6, ReqTypes
     DEF IInv, TypeOK, EventBacked, Spent, ConsumeRefused, Goto, store,
            owner, calendar, calls
<1>7. ASSUME NEW c \in Calls, Deny(c)
      PROVE  EventBacked'
  BY <1>7, ReqTypes
     DEF IInv, TypeOK, EventBacked, Spent, Deny, Goto, store, owner,
            calendar, calls
<1>8. ASSUME NEW c \in Calls, BeginApproval(c)
      PROVE  EventBacked'
  <2>0. Began(c)
    BY <1>8, BeginFacts
  <2>1. \A d \in Calls : Spent(d)' <=> Spent(d)
    BY <2>0 DEF Began, Spent
  <2>. QED
    BY <2>0, <2>1 DEF Began, IInv, EventBacked, TypeOK
<1>9. ASSUME NEW c \in Calls, Complete(c)
      PROVE  EventBacked'
  BY <1>9, ReqTypes
     DEF IInv, TypeOK, EventBacked, Spent, Complete, Goto, Settle, store,
            owner, calendar, calls
<1>10. ASSUME NEW c \in Calls, Cancel(c)
      PROVE  EventBacked'
  BY <1>10, ReqTypes
     DEF IInv, TypeOK, EventBacked, Spent, Cancel, Goto, Settle, store,
            owner, calendar, calls
<1>11. ASSUME NEW c \in Calls, CreateEvent(c)
      PROVE  EventBacked'
  <2>0. Created(c)
    BY <1>11, CreateFacts
  <2>1. \A d \in Calls : Spent(d)' <=> Spent(d)
    BY <2>0 DEF Created, Spent
  <2>2. req[c].kind = "approve" /\ Spent(c)
    BY <2>0 DEF Created, IInv, EventBacked
  <2>3. req[c].op = [id |-> req[c].op.id, content |-> req[c].op.content]
    BY <2>0, ReqTypes DEF Created, IInv
  <2>4. \A p \in Ids : events'[p] # events[p] =>
          req[c].op = [id |-> p, content |-> events'[p]]
    BY <2>0, <2>3 DEF Created, IInv, TypeOK
  <2>. QED
    BY <2>0, <2>1, <2>2, <2>4 DEF Created, IInv, EventBacked, TypeOK
<1>12. ASSUME NEW c \in Calls, LoseRequest(c)
      PROVE  EventBacked'
  BY <1>12, ReqTypes
     DEF IInv, TypeOK, EventBacked, Spent, LoseRequest, store, owner,
            calendar, calls
<1>13. CASE Restart
  BY <1>13, ReqTypes
     DEF IInv, TypeOK, EventBacked, Spent, Restart, Running, store, owner,
            calendar, calls
<1>14. CASE UNCHANGED vars
  BY <1>14
     DEF IInv, TypeOK, EventBacked, Spent, vars, store, owner, calendar,
            calls
<1>15. CASE CalendarRestart
  BY <1>15, ReqTypes
     DEF CalendarRestart, IInv, TypeOK, EventBacked, Spent, store, owner, calls
<1>. QED
  BY <1>1, <1>2, <1>3, <1>4, <1>5, <1>6, <1>7, <1>8,
     <1>9, <1>10, <1>11, <1>12, <1>13, <1>14, <1>15 DEF Next, Handle

\* Every proposal being approved keeps its one approver.
LEMMA ApproverStep ==
  ASSUME IInv, [Next]_vars
  PROVE  OneApprover'
<1>1. ASSUME NEW k \in Contents, Submit(k)
      PROVE  OneApprover'
  BY <1>1, ReqTypes
     DEF IInv, TypeOK, OneApprover, Approver, Submit, StoreInv, CallInv,
            Running, Ids, store, owner, calendar, calls
<1>2. ASSUME NEW p \in Ids, Review(p)
      PROVE  OneApprover'
  BY <1>2, ReqTypes
     DEF IInv, TypeOK, OneApprover, Approver, Review, Reviewable,
            OperationFor, store, owner, calendar, calls
<1>3. ASSUME NEW op \in Ops, Issue(op)
      PROVE  OneApprover'
  BY <1>3, ReqTypes
     DEF IInv, TypeOK, OneApprover, Approver, Issue, store, owner, calendar,
            calls
<1>4. ASSUME NEW c \in Calls, NEW kind \in {"approve", "deny"}, NEW p \in Ids,
             NEW n \in Nonces, Start(c, kind, p, n)
      PROVE  OneApprover'
  BY <1>4, ReqTypes
     DEF IInv, TypeOK, OneApprover, Approver, Start, Goto, Reviewable,
            OperationFor, store, owner, calendar, calls
<1>5. ASSUME NEW c \in Calls, ConsumeGranted(c)
      PROVE  OneApprover'
  BY <1>5, ReqTypes
     DEF IInv, TypeOK, OneApprover, Approver, ConsumeGranted, Goto,
            Unconsumed, store, owner, calendar, calls
<1>6. ASSUME NEW c \in Calls, ConsumeRefused(c)
      PROVE  OneApprover'
  BY <1>6, ReqTypes
     DEF IInv, TypeOK, OneApprover, Approver, ConsumeRefused, Goto, store,
            owner, calendar, calls
<1>7. ASSUME NEW c \in Calls, Deny(c)
      PROVE  OneApprover'
  BY <1>7, ReqTypes
     DEF IInv, TypeOK, OneApprover, Approver, Deny, Goto, CallInv, Running,
            store, owner, calendar, calls
<1>8. ASSUME NEW c \in Calls, BeginApproval(c)
      PROVE  OneApprover'
  <2>. DEFINE p == req[c].op.id
  <2>0. Began(c)
    BY <1>8, BeginFacts
  <2>1. /\ pc[c] = "begin" /\ p \in Ids /\ req' = req
        /\ \A d \in Calls, q \in Ids : Approver(d, q) => d # c
    BY <2>0 DEF Began, Approver
  <2>2. CASE /\ states[p] = "pending"
             /\ states' = [states EXCEPT ![p] = "approving"]
             /\ pc' = [pc EXCEPT ![c] = "creating"] /\ retry' = retry
    <3>1. ~retry[c]
      BY <2>1 DEF IInv, FreshInv
    <3>2. \A d \in Calls, q \in Ids :
            Approver(d, q)' <=> (Approver(d, q) \/ (d = c /\ q = p))
      BY <2>1, <2>2, <3>1 DEF Approver, IInv, TypeOK
    <3>. QED
      BY <2>1, <2>2, <3>2 DEF IInv, OneApprover, TypeOK
  <2>3. CASE /\ UNCHANGED states
             /\ \/ /\ pc' = [pc EXCEPT ![c] = "creating"]
                   /\ retry' = [retry EXCEPT ![c] = TRUE]
                \/ pc' = [pc EXCEPT ![c] = "resolved"] /\ UNCHANGED retry
    <3>1. \A d \in Calls, q \in Ids : Approver(d, q)' <=> Approver(d, q)
      BY <2>1, <2>3 DEF Approver, IInv, TypeOK
    <3>. QED
      BY <2>3, <3>1 DEF IInv, OneApprover
  <2>. QED
    BY <2>0, <2>2, <2>3 DEF Began
<1>9. ASSUME NEW c \in Calls, Complete(c)
      PROVE  OneApprover'
  BY <1>9, ReqTypes
     DEF IInv, TypeOK, OneApprover, Approver, Complete, Goto, Settle,
            CallInv, store, owner, calendar, calls
<1>10. ASSUME NEW c \in Calls, Cancel(c)
      PROVE  OneApprover'
  BY <1>10, ReqTypes
     DEF IInv, TypeOK, OneApprover, Approver, Cancel, Goto, Settle, CallInv,
            store, owner, calendar, calls
<1>11. ASSUME NEW c \in Calls, CreateEvent(c)
      PROVE  OneApprover'
  BY <1>11, ReqTypes
     DEF IInv, TypeOK, OneApprover, Approver, CreateEvent, store, owner,
            calendar, calls
<1>12. ASSUME NEW c \in Calls, LoseRequest(c)
      PROVE  OneApprover'
  BY <1>12, ReqTypes
     DEF IInv, TypeOK, OneApprover, Approver, LoseRequest, store, owner,
            calendar, calls
<1>13. CASE Restart
  BY <1>13, ReqTypes
     DEF IInv, TypeOK, OneApprover, Approver, Restart, Running, store,
            owner, calendar, calls
<1>14. CASE UNCHANGED vars
  BY <1>14
     DEF IInv, TypeOK, OneApprover, Approver, vars, store, owner, calendar,
            calls
<1>15. CASE CalendarRestart
  BY <1>15, ReqTypes
     DEF CalendarRestart, IInv, TypeOK, OneApprover, Approver, store,
         owner, calls
<1>. QED
  BY <1>1, <1>2, <1>3, <1>4, <1>5, <1>6, <1>7, <1>8,
     <1>9, <1>10, <1>11, <1>12, <1>13, <1>14, <1>15 DEF Next, Handle

\* Approved proposals keep their events.
LEMMA ApprovedStep ==
  ASSUME IInv, [Next]_vars
  PROVE  ApprovedHasEvent'
<1>. USE DEF OperationFor
<1>1. ASSUME NEW k \in Contents, Submit(k)
      PROVE  ApprovedHasEvent'
  BY <1>1, ReqTypes
     DEF IInv, TypeOK, ApprovedHasEvent, Submit, StoreInv, store, owner,
            calendar, calls
<1>2. ASSUME NEW p \in Ids, Review(p)
      PROVE  ApprovedHasEvent'
  BY <1>2, ReqTypes
     DEF IInv, TypeOK, ApprovedHasEvent, Review, Reviewable, OperationFor,
            store, owner, calendar, calls
<1>3. ASSUME NEW op \in Ops, Issue(op)
      PROVE  ApprovedHasEvent'
  BY <1>3, ReqTypes
     DEF IInv, TypeOK, ApprovedHasEvent, Issue, store, owner, calendar,
            calls
<1>4. ASSUME NEW c \in Calls, NEW kind \in {"approve", "deny"}, NEW p \in Ids,
             NEW n \in Nonces, Start(c, kind, p, n)
      PROVE  ApprovedHasEvent'
  BY <1>4, ReqTypes
     DEF IInv, TypeOK, ApprovedHasEvent, Start, Goto, Reviewable,
            OperationFor, store, owner, calendar, calls
<1>5. ASSUME NEW c \in Calls, ConsumeGranted(c)
      PROVE  ApprovedHasEvent'
  BY <1>5, ReqTypes
     DEF IInv, TypeOK, ApprovedHasEvent, ConsumeGranted, Goto, Unconsumed,
            store, owner, calendar, calls
<1>6. ASSUME NEW c \in Calls, ConsumeRefused(c)
      PROVE  ApprovedHasEvent'
  BY <1>6, ReqTypes
     DEF IInv, TypeOK, ApprovedHasEvent, ConsumeRefused, Goto, store, owner,
            calendar, calls
<1>7. ASSUME NEW c \in Calls, Deny(c)
      PROVE  ApprovedHasEvent'
  BY <1>7, ReqTypes
     DEF IInv, TypeOK, ApprovedHasEvent, Deny, Goto, CallInv, store, owner,
            calendar, calls
<1>8. ASSUME NEW c \in Calls, BeginApproval(c)
      PROVE  ApprovedHasEvent'
  BY <1>8, ReqTypes
     DEF IInv, TypeOK, ApprovedHasEvent, BeginApproval, Goto, CallInv,
            store, owner, calendar, calls
<1>9. ASSUME NEW c \in Calls, Complete(c)
      PROVE  ApprovedHasEvent'
  BY <1>9, ReqTypes
     DEF IInv, TypeOK, ApprovedHasEvent, Complete, Goto, Settle, CallInv,
            Running, store, owner, calendar, calls
<1>10. ASSUME NEW c \in Calls, Cancel(c)
      PROVE  ApprovedHasEvent'
  BY <1>10, ReqTypes
     DEF IInv, TypeOK, ApprovedHasEvent, Cancel, Goto, Settle, CallInv,
            store, owner, calendar, calls
<1>11. ASSUME NEW c \in Calls, CreateEvent(c)
      PROVE  ApprovedHasEvent'
  BY <1>11, ReqTypes
     DEF IInv, TypeOK, ApprovedHasEvent, CreateEvent, StoreInv, store,
            owner, calendar, calls
<1>12. ASSUME NEW c \in Calls, LoseRequest(c)
      PROVE  ApprovedHasEvent'
  BY <1>12, ReqTypes
     DEF IInv, TypeOK, ApprovedHasEvent, LoseRequest, store, owner,
            calendar, calls
<1>13. CASE Restart
  BY <1>13, ReqTypes
     DEF IInv, TypeOK, ApprovedHasEvent, Restart, store, owner, calendar,
            calls
<1>14. CASE UNCHANGED vars
  BY <1>14
     DEF IInv, TypeOK, ApprovedHasEvent, vars, store, owner, calendar, calls
<1>15. CASE CalendarRestart
  BY <1>15, ReqTypes
     DEF CalendarRestart, IInv, TypeOK, ApprovedHasEvent, OperationFor,
         EventOp, StoreInv, store, owner, calls
<1>. QED
  BY <1>1, <1>2, <1>3, <1>4, <1>5, <1>6, <1>7, <1>8,
     <1>9, <1>10, <1>11, <1>12, <1>13, <1>14, <1>15 DEF Next, Handle

\* No step lets the two answers meet.
LEMMA AgreementStep ==
  ASSUME IInv, [Next]_vars
  PROVE  Agreement'
<1>1. ASSUME NEW k \in Contents, Submit(k)
      PROVE  Agreement'
  BY <1>1, ReqTypes
     DEF IInv, TypeOK, Agreement, Submit, store, owner, calendar, calls
<1>2. ASSUME NEW p \in Ids, Review(p)
      PROVE  Agreement'
  BY <1>2, ReqTypes
     DEF IInv, TypeOK, Agreement, Review, Reviewable, OperationFor, store,
            owner, calendar, calls
<1>3. ASSUME NEW op \in Ops, Issue(op)
      PROVE  Agreement'
  BY <1>3, ReqTypes
     DEF IInv, TypeOK, Agreement, Issue, store, owner, calendar, calls
<1>4. ASSUME NEW c \in Calls, NEW kind \in {"approve", "deny"}, NEW p \in Ids,
             NEW n \in Nonces, Start(c, kind, p, n)
      PROVE  Agreement'
  BY <1>4, ReqTypes
     DEF IInv, TypeOK, Agreement, Start, Goto, Reviewable, OperationFor,
            store, owner, calendar, calls
<1>5. ASSUME NEW c \in Calls, ConsumeGranted(c)
      PROVE  Agreement'
  BY <1>5, ReqTypes
     DEF IInv, TypeOK, Agreement, ConsumeGranted, Goto, Unconsumed, store,
            owner, calendar, calls
<1>6. ASSUME NEW c \in Calls, ConsumeRefused(c)
      PROVE  Agreement'
  BY <1>6, ReqTypes
     DEF IInv, TypeOK, Agreement, ConsumeRefused, Goto, store, owner,
            calendar, calls
<1>7. ASSUME NEW c \in Calls, Deny(c)
      PROVE  Agreement'
  BY <1>7, ReqTypes
     DEF IInv, TypeOK, Agreement, Deny, Goto, CallInv, Running, store,
            owner, calendar, calls
<1>8. ASSUME NEW c \in Calls, BeginApproval(c)
      PROVE  Agreement'
  BY <1>8, ReqTypes
     DEF IInv, TypeOK, Agreement, BeginApproval, Goto, store, owner,
            calendar, calls
<1>9. ASSUME NEW c \in Calls, Complete(c)
      PROVE  Agreement'
  <2>1. /\ pc[c] = "creating" /\ req[c].epoch = epoch
        /\ pc' = [pc EXCEPT ![c] = "event"] /\ UNCHANGED req
    BY <1>9 DEF Complete, Goto, IInv, CallInv, Running
  <2>2. states[req[c].op.id] \in {"approving", "approved"}
    BY <2>1, ReqTypes DEF IInv, CallInv, OneApprover, Approver
  <2>3. \A d \in Calls : pc[d] = "denied" /\ req[d].epoch = epoch
                           => req[d].op.id # req[c].op.id
    BY <2>2 DEF IInv, CallInv
  <2>. QED
    BY <2>1, <2>3 DEF IInv, Agreement, TypeOK
<1>10. ASSUME NEW c \in Calls, Cancel(c)
      PROVE  Agreement'
  BY <1>10, ReqTypes
     DEF IInv, TypeOK, Agreement, Cancel, Goto, Settle, store, owner,
            calendar, calls
<1>11. ASSUME NEW c \in Calls, CreateEvent(c)
      PROVE  Agreement'
  BY <1>11, ReqTypes
     DEF IInv, TypeOK, Agreement, CreateEvent, store, owner, calendar, calls
<1>12. ASSUME NEW c \in Calls, LoseRequest(c)
      PROVE  Agreement'
  BY <1>12, ReqTypes
     DEF IInv, TypeOK, Agreement, LoseRequest, store, owner, calendar, calls
<1>13. CASE Restart
  BY <1>13, ReqTypes
     DEF IInv, TypeOK, Agreement, Restart, Running, store, owner, calendar,
            calls
<1>14. CASE UNCHANGED vars
  BY <1>14
     DEF IInv, TypeOK, Agreement, vars, store, owner, calendar, calls
<1>15. CASE CalendarRestart
  BY <1>15, ReqTypes
     DEF CalendarRestart, IInv, TypeOK, Agreement, store, owner, calls
<1>. QED
  BY <1>1, <1>2, <1>3, <1>4, <1>5, <1>6, <1>7, <1>8,
     <1>9, <1>10, <1>11, <1>12, <1>13, <1>14, <1>15 DEF Next, Handle

\* Every conflict follows a restart.
LEMMA ConflictStep ==
  ASSUME IInv, [Next]_vars
  PROVE  ConflictNeedsRestart'
<1>1. ASSUME NEW k \in Contents, Submit(k)
      PROVE  ConflictNeedsRestart'
  BY <1>1, ReqTypes
     DEF IInv, TypeOK, ConflictNeedsRestart, Submit, store, owner, calendar,
            calls
<1>2. ASSUME NEW p \in Ids, Review(p)
      PROVE  ConflictNeedsRestart'
  BY <1>2, ReqTypes
     DEF IInv, TypeOK, ConflictNeedsRestart, Review, Reviewable,
            OperationFor, store, owner, calendar, calls
<1>3. ASSUME NEW op \in Ops, Issue(op)
      PROVE  ConflictNeedsRestart'
  BY <1>3, ReqTypes
     DEF IInv, TypeOK, ConflictNeedsRestart, Issue, store, owner, calendar,
            calls
<1>4. ASSUME NEW c \in Calls, NEW kind \in {"approve", "deny"}, NEW p \in Ids,
             NEW n \in Nonces, Start(c, kind, p, n)
      PROVE  ConflictNeedsRestart'
  BY <1>4, ReqTypes
     DEF IInv, TypeOK, ConflictNeedsRestart, Start, Goto, Reviewable,
            OperationFor, store, owner, calendar, calls
<1>5. ASSUME NEW c \in Calls, ConsumeGranted(c)
      PROVE  ConflictNeedsRestart'
  BY <1>5, ReqTypes
     DEF IInv, TypeOK, ConflictNeedsRestart, ConsumeGranted, Goto,
            Unconsumed, store, owner, calendar, calls
<1>6. ASSUME NEW c \in Calls, ConsumeRefused(c)
      PROVE  ConflictNeedsRestart'
  BY <1>6, ReqTypes
     DEF IInv, TypeOK, ConflictNeedsRestart, ConsumeRefused, Goto, store,
            owner, calendar, calls
<1>7. ASSUME NEW c \in Calls, Deny(c)
      PROVE  ConflictNeedsRestart'
  BY <1>7, ReqTypes
     DEF IInv, TypeOK, ConflictNeedsRestart, Deny, Goto, store, owner,
            calendar, calls
<1>8. ASSUME NEW c \in Calls, BeginApproval(c)
      PROVE  ConflictNeedsRestart'
  BY <1>8, ReqTypes
     DEF IInv, TypeOK, ConflictNeedsRestart, BeginApproval, Goto, store,
            owner, calendar, calls
<1>9. ASSUME NEW c \in Calls, Complete(c)
      PROVE  ConflictNeedsRestart'
  BY <1>9, ReqTypes
     DEF IInv, TypeOK, ConflictNeedsRestart, Complete, Goto, Settle, store,
            owner, calendar, calls
<1>10. ASSUME NEW c \in Calls, Cancel(c)
      PROVE  ConflictNeedsRestart'
  BY <1>10, ReqTypes
     DEF IInv, TypeOK, ConflictNeedsRestart, Cancel, Goto, Settle, store,
            owner, calendar, calls
<1>11. ASSUME NEW c \in Calls, CreateEvent(c)
      PROVE  ConflictNeedsRestart'
  <2>0. Created(c)
    BY <1>11, CreateFacts
  <2>1. epoch = 0 => req[c].op.content = proposals[req[c].op.id]
    <3>1. pc[c] # "idle" /\ req[c].epoch \in Nat
      BY <2>0, ReqTypes DEF Created, IInv
    <3>. QED
      BY <3>1 DEF IInv, CallInv
  <2>2. answer'[c] = "conflict" => epoch > 0
    BY <2>0, <2>1 DEF Created, IInv, TypeOK, FirstLife
  <2>. QED
    BY <2>0, <2>2 DEF Created, IInv, TypeOK, ConflictNeedsRestart
<1>12. ASSUME NEW c \in Calls, LoseRequest(c)
      PROVE  ConflictNeedsRestart'
  BY <1>12, ReqTypes
     DEF IInv, TypeOK, ConflictNeedsRestart, LoseRequest, store, owner,
            calendar, calls
<1>13. CASE Restart
  BY <1>13, ReqTypes
     DEF IInv, TypeOK, ConflictNeedsRestart, Restart, store, owner,
            calendar, calls
<1>14. CASE UNCHANGED vars
  BY <1>14
     DEF IInv, TypeOK, ConflictNeedsRestart, vars, store, owner, calendar,
            calls
<1>15. CASE CalendarRestart
  BY <1>15, ReqTypes
     DEF CalendarRestart, IInv, TypeOK, ConflictNeedsRestart, store, owner, calls
<1>. QED
  BY <1>1, <1>2, <1>3, <1>4, <1>5, <1>6, <1>7, <1>8,
     <1>9, <1>10, <1>11, <1>12, <1>13, <1>14, <1>15 DEF Next, Handle

\* A call that has not begun is no retry.
LEMMA FreshStep ==
  ASSUME IInv, [Next]_vars
  PROVE  FreshInv'
<1>1. ASSUME NEW k \in Contents, Submit(k)
      PROVE  FreshInv'
  BY <1>1
     DEF IInv, TypeOK, FreshInv, Submit, store, owner, calendar, calls
<1>2. ASSUME NEW p \in Ids, Review(p)
      PROVE  FreshInv'
  BY <1>2
     DEF IInv, TypeOK, FreshInv, Review, Reviewable, OperationFor, store,
            owner, calendar, calls
<1>3. ASSUME NEW op \in Ops, Issue(op)
      PROVE  FreshInv'
  BY <1>3
     DEF IInv, TypeOK, FreshInv, Issue, store, owner, calendar, calls
<1>4. ASSUME NEW c \in Calls, NEW kind \in {"approve", "deny"}, NEW p \in Ids,
             NEW n \in Nonces, Start(c, kind, p, n)
      PROVE  FreshInv'
  BY <1>4
     DEF IInv, TypeOK, FreshInv, Start, Goto, Reviewable, OperationFor,
            store, owner, calendar, calls
<1>5. ASSUME NEW c \in Calls, ConsumeGranted(c)
      PROVE  FreshInv'
  BY <1>5
     DEF IInv, TypeOK, FreshInv, ConsumeGranted, Goto, Unconsumed, store,
            owner, calendar, calls
<1>6. ASSUME NEW c \in Calls, ConsumeRefused(c)
      PROVE  FreshInv'
  BY <1>6
     DEF IInv, TypeOK, FreshInv, ConsumeRefused, Goto, store, owner,
            calendar, calls
<1>7. ASSUME NEW c \in Calls, Deny(c)
      PROVE  FreshInv'
  BY <1>7
     DEF IInv, TypeOK, FreshInv, Deny, Goto, store, owner, calendar, calls
<1>8. ASSUME NEW c \in Calls, BeginApproval(c)
      PROVE  FreshInv'
  <2>1. Began(c)
    BY <1>8, BeginFacts
  <2>. QED
    BY <2>1
       DEF Began, IInv, TypeOK, FreshInv
<1>9. ASSUME NEW c \in Calls, Complete(c)
      PROVE  FreshInv'
  BY <1>9
     DEF IInv, TypeOK, FreshInv, Complete, Goto, Settle, store, owner,
            calendar, calls
<1>10. ASSUME NEW c \in Calls, Cancel(c)
      PROVE  FreshInv'
  BY <1>10
     DEF IInv, TypeOK, FreshInv, Cancel, Goto, Settle, store, owner,
            calendar, calls
<1>11. ASSUME NEW c \in Calls, CreateEvent(c)
      PROVE  FreshInv'
  BY <1>11
     DEF IInv, TypeOK, FreshInv, CreateEvent, store, owner, calendar, calls
<1>12. ASSUME NEW c \in Calls, LoseRequest(c)
      PROVE  FreshInv'
  BY <1>12
     DEF IInv, TypeOK, FreshInv, LoseRequest, store, owner, calendar, calls
<1>13. CASE Restart
  BY <1>13
     DEF IInv, TypeOK, FreshInv, Restart, Running, store, owner, calendar,
            calls
<1>14. CASE UNCHANGED vars
  BY <1>14
     DEF IInv, TypeOK, FreshInv, vars, store, owner, calendar, calls
<1>15. CASE CalendarRestart
  BY <1>15, ReqTypes
     DEF CalendarRestart, IInv, TypeOK, FreshInv, store, owner, calls
<1>. QED
  BY <1>1, <1>2, <1>3, <1>4, <1>5, <1>6, <1>7, <1>8,
     <1>9, <1>10, <1>11, <1>12, <1>13, <1>14, <1>15 DEF Next, Handle

\* IInv is an invariant of the proposal flow.
THEOREM Inductive == Spec => []IInv
<1>1. Init => IInv
  <2>. SUFFICES ASSUME Init PROVE IInv
    OBVIOUS
  <2>. USE DEF Init
  <2>1. TypeOK
    BY BoundsAssumption DEF TypeOK, PCs, Answers
  <2>2. StoreInv /\ CallInv /\ WireInv /\ FreshInv /\ FirstLife
    BY DEF StoreInv, CallInv, WireInv, FreshInv, FirstLife
  <2>3. EventBacked /\ OneApprover /\ ApprovedHasEvent
    BY DEF EventBacked, OneApprover, Approver, ApprovedHasEvent
  <2>4. Agreement /\ ConflictNeedsRestart
    BY DEF Agreement, ConflictNeedsRestart
  <2>. QED
    BY <2>1, <2>2, <2>3, <2>4 DEF IInv
<1>2. IInv /\ [Next]_vars => IInv'
  BY TypeStep, StoreStep, CallStep, WireStep, FreshStep, FirstStep,
     BackedStep, ApproverStep, ApprovedStep, AgreementStep, ConflictStep
     DEF IInv
<1>. QED
  BY <1>1, <1>2, PTL DEF Spec

\* Types: the Store, the calls, the wire and the calendar keep theirs.
THEOREM TypeCorrect == Spec => []TypeOK
<1>1. IInv => TypeOK
  BY DEF IInv
<1>. QED
  BY <1>1, Inductive, PTL

\* No calendar event, and no request for one, without an approve call that
\* spent the Owner's Approval of exactly that operation.
THEOREM EventsBacked == Spec => []EventBacked
<1>1. IInv => EventBacked
  BY DEF IInv
<1>. QED
  BY <1>1, Inductive, PTL

\* A proposal being approved belongs to exactly one call.
THEOREM ApproverUnique == Spec => []OneApprover
<1>1. IInv => OneApprover
  BY DEF IInv
<1>. QED
  BY <1>1, Inductive, PTL

\* What the Store calls approved is in the calendar, as proposed.
THEOREM ApprovedIsCreated == Spec => []ApprovedHasEvent
<1>1. IInv => ApprovedHasEvent
  BY DEF IInv
<1>. QED
  BY <1>1, Inductive, PTL

\* Nobody is told "event" and somebody else "denied" of one proposal.
THEOREM AnswersAgree == Spec => []Agreement
<1>1. IInv => Agreement
  BY DEF IInv
<1>. QED
  BY <1>1, Inductive, PTL

\* An idempotency conflict is only ever the work of a gateway restart.
THEOREM ConflictsExplained == Spec => []ConflictNeedsRestart
<1>1. IInv => ConflictNeedsRestart
  BY DEF IInv
<1>. QED
  BY <1>1, Inductive, PTL

\* Events stay as they were created.
THEOREM EventsStay == Spec => EventsKept
<1>1. IInv /\ [Next]_vars => [\A p \in Ids : EventKept(p)]_vars
  <2>. SUFFICES ASSUME IInv, Next
                PROVE  \A p \in Ids : EventKept(p)
    OBVIOUS
  <2>1. ASSUME NEW c \in Calls, CreateEvent(c)
        PROVE  \A p \in Ids : EventKept(p)
    <3>1. Created(c)
      BY <2>1, CreateFacts
    <3>. QED
      BY <3>1 DEF Created, IInv, TypeOK, EventKept
  <2>2. CASE UNCHANGED events
    BY <2>2 DEF EventKept
  <2>3. CASE CalendarRestart
    BY <2>3 DEF CalendarRestart, EventKept
  <2>. QED
    BY <2>1, <2>2, <2>3
       DEF Next, Handle, calendar, Submit, Review, Issue, Start,
           ConsumeGranted, ConsumeRefused, Deny, BeginApproval, Complete,
           Cancel, LoseRequest, Restart
<1>. QED
  BY <1>1, Inductive, PTL DEF Spec, EventsKept

-----------------------------------------------------------------------------
(* The handlers and the Authority's promise *)

\* A call that was granted an Approval was granted the one it came with, and
\* does not ask again.
OwnSpent ==
  \A u \in consumed :
    pc[u.by] \notin {"idle", "consume"} /\ u.nonce = req[u.by].nonce

\* The steps that are about Approvals; the others leave them, and what a call
\* asks for, alone, and take no call back to asking.
LEMMA ApprovalSteps ==
  ASSUME TypeOK, [Next]_vars
  PROVE  \/ \E c \in Calls : ConsumeGranted(c)
         \/ \E op \in Ops : Issue(op)
         \/ \E c \in Calls, kind \in {"approve", "deny"}, p \in Ids,
               n \in Nonces : Start(c, kind, p, n)
         \/ /\ UNCHANGED <<approvals, consumed, req>>
            /\ \A c \in Calls : pc[c] \notin {"idle", "consume"} =>
                                  pc'[c] \notin {"idle", "consume"}
<1>1. CASE UNCHANGED vars
  BY <1>1 DEF vars, owner, calls
<1>2. CASE \/ \E content \in Contents : Submit(content)
           \/ \E p \in Ids : Review(p)
           \/ \E c \in Calls : CreateEvent(c) \/ LoseRequest(c)
           \/ CalendarRestart
  BY <1>2 DEF Submit, Review, CreateEvent, LoseRequest, CalendarRestart,
              owner, calls
<1>3. CASE Restart
  BY <1>3 DEF Restart, owner, TypeOK
<1>4. ASSUME NEW c \in Calls,
             ConsumeRefused(c) \/ Deny(c) \/ Complete(c) \/ Cancel(c)
      PROVE  /\ UNCHANGED <<approvals, consumed, req>>
             /\ \A d \in Calls : pc[d] \notin {"idle", "consume"} =>
                                   pc'[d] \notin {"idle", "consume"}
  BY <1>4 DEF ConsumeRefused, Deny, Complete, Cancel, Goto, owner, TypeOK
<1>5. ASSUME NEW c \in Calls, BeginApproval(c)
      PROVE  /\ UNCHANGED <<approvals, consumed, req>>
             /\ \A d \in Calls : pc[d] \notin {"idle", "consume"} =>
                                   pc'[d] \notin {"idle", "consume"}
  BY <1>5 DEF BeginApproval, Goto, owner, TypeOK
<1>. QED
  BY <1>1, <1>2, <1>3, <1>4, <1>5 DEF Next, Handle

LEMMA OwnStep ==
  ASSUME TypeOK, OwnSpent, [Next]_vars
  PROVE  OwnSpent'
<1>0. \A u \in consumed : u.by \in Calls
  BY DEF TypeOK
<1>1. ASSUME NEW c \in Calls, ConsumeGranted(c)
      PROVE  OwnSpent'
  BY <1>0, <1>1 DEF ConsumeGranted, Goto, OwnSpent, TypeOK
<1>2. ASSUME NEW op \in Ops, Issue(op)
      PROVE  OwnSpent'
  BY <1>2 DEF Issue, calls, OwnSpent
<1>3. ASSUME NEW c \in Calls, NEW kind, NEW p, NEW n, Start(c, kind, p, n)
      PROVE  OwnSpent'
  BY <1>0, <1>3 DEF Start, Goto, owner, OwnSpent, TypeOK
<1>. QED
  BY <1>0, <1>1, <1>2, <1>3, ApprovalSteps DEF OwnSpent

\* With the Authority in between, calls implement OneTimeApproval: what the
\* Authority is proved to promise is what this model takes from it.
THEOREM KeepsPromise == Spec => AsPromised
<1>. DEFINE issued == {[nonce |-> a.nonce, binding |-> a.op] : a \in approvals}
            grant == [c \in Calls |-> GrantOf(c)]
<1>1. Init => Promised!Init
  BY DEF Init, Promised!Init, GrantOf
<1>2. ASSUME TypeOK, OwnSpent, [Next]_vars
      PROVE  Promised!Next \/ UNCHANGED <<issued, grant>>
  <2>1. ASSUME NEW c \in Calls, ConsumeGranted(c)
        PROVE  Promised!Grant(c)
    <3>. DEFINE a == [nonce |-> req[c].nonce, binding |-> req[c].op]
    <3>1. /\ UNCHANGED <<approvals, req>> /\ pc[c] = "consume"
          /\ Unconsumed(req[c].nonce)
          /\ [nonce |-> req[c].nonce, op |-> req[c].op] \in approvals
          /\ consumed' = consumed \union {[nonce |-> req[c].nonce, by |-> c]}
      BY <2>1 DEF ConsumeGranted
    <3>2. GrantOf(c) = NoRequest
      BY <1>2, <3>1 DEF GrantOf, OwnSpent
    <3>3. a \in issued /\ issued' = issued
      BY <3>1
    <3>4. ASSUME NEW q \in Calls, GrantOf(q) # NoRequest
          PROVE  GrantOf(q).approval.nonce # a.nonce
      BY <1>2, <3>1, <3>4 DEF GrantOf, OwnSpent, Unconsumed
    <3>5. ASSUME NEW q \in Calls
          PROVE  GrantOf(q)' = IF q = c
                                 THEN [approval |-> a, binding |-> a.binding]
                                 ELSE GrantOf(q)
      <4>. DEFINE w == [nonce |-> req[c].nonce, by |-> c]
      <4>0. w.by = c /\ consumed' = consumed \union {w}
        BY <3>1
      <4>. HIDE DEF w
      <4>1. (\E u \in consumed' : u.by = q)
              <=> q = c \/ \E u \in consumed : u.by = q
        BY <4>0
      <4>2. a.binding = req[c].op /\ req' = req
        BY <3>1
      <4>3. CASE q = c
        BY <4>1, <4>2, <4>3 DEF GrantOf
      <4>4. CASE q # c
        BY <4>1, <4>2, <4>4 DEF GrantOf
      <4>. QED
        BY <4>3, <4>4
    <3>6. grant' = [grant EXCEPT ![c] = [approval |-> a, binding |-> a.binding]]
      BY <3>5
    <3>. QED
      BY <3>2, <3>3, <3>4, <3>6 DEF Promised!Grant
  <2>2. ASSUME NEW op \in Ops, Issue(op)
        PROVE  Promised!Issue
    <3>1. PICK n \in Nonces :
            /\ \A a \in approvals : a.nonce # n
            /\ approvals' = approvals \union {[nonce |-> n, op |-> op]}
      BY <2>2 DEF Issue
    <3>. DEFINE a == [nonce |-> n, binding |-> op]
    <3>. DEFINE signed == [nonce |-> n, op |-> op]
    <3>2. issued' = issued \union {a} /\ a \in issued'
      <4>1. [nonce |-> signed.nonce, binding |-> signed.op] = a
        OBVIOUS
      <4>. HIDE DEF signed, a
      <4>2. \A x : x \in issued' <=> x \in issued \/ x = a
        BY <3>1, <4>1 DEF signed
      <4>. HIDE DEF issued
      <4>. QED
        BY <4>2
    <3>3. \A other \in issued : other.nonce # a.nonce
      BY <3>1
    <3>4. UNCHANGED grant
      BY <2>2 DEF Issue, calls, GrantOf
    <3>. QED
      BY <3>2, <3>3, <3>4 DEF Promised!Issue
  <2>3. ASSUME NEW c \in Calls, NEW kind, NEW p, NEW n, Start(c, kind, p, n)
        PROVE  UNCHANGED <<issued, grant>>
    <3>1. /\ pc[c] = "idle" /\ UNCHANGED <<approvals, consumed>>
          /\ \A q \in Calls \ {c} : req'[q] = req[q]
      BY <1>2, <2>3 DEF Start, owner, TypeOK
    <3>2. \A u \in consumed : u.by # c
      BY <1>2, <3>1 DEF OwnSpent
    <3>3. \A q \in Calls : GrantOf(q)' = GrantOf(q)
      BY <3>1, <3>2 DEF GrantOf
    <3>. QED
      BY <3>1, <3>3
  <2>4. CASE UNCHANGED <<approvals, consumed, req>>
    BY <2>4 DEF GrantOf
  <2>. QED
    BY <1>2, <2>1, <2>2, <2>3, <2>4, ApprovalSteps DEF Promised!Next
<1>3. TypeOK /\ OwnSpent /\ [Next]_vars
        => [Promised!Next]_<<issued, grant>>
  BY <1>2
<1>4. Init => OwnSpent
  BY DEF Init, OwnSpent
<1>. QED
  BY <1>1, <1>3, <1>4, OwnStep, TypeCorrect, PTL
     DEF Spec, AsPromised, Promised!Spec

=============================================================================
