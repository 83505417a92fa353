--------------------------- MODULE SmartLockUnlock ---------------------------
(***************************************************************************)
(* A Tool Call that opens the smart lock, and its audit trail.             *)
(*                                                                         *)
(* The gateway's middleware (src/internal/gateway/gateway.go) checks the   *)
(* Approval Authority's health, runs the unlock handler and records the    *)
(* outcome; the handler asks the policy, consumes the exact Approval,      *)
(* records "allow" with the audit collector and only then calls the lock.  *)
(* Approvals come from the adapter's ReviewUnlock, which first discovers   *)
(* the Tool.  demo-control resets lock, collector and the Authority's      *)
(* counter, one after the other, while calls may be running.  The replay   *)
(* demo makes an External Subject's call and then looks for the record of  *)
(* its denial.                                                             *)
(*                                                                         *)
(* Every request goes over HTTP with a timeout of three seconds, so its    *)
(* sender may see an error although it was carried out.  A request to the  *)
(* lock may even be carried out long after the gateway gave up.            *)
(*                                                                         *)
(* Abstractions.  The Authority is OneTimeApproval plus its consume count. *)
(* A trace id is the review that drew it.  An audit record or a reset that *)
(* arrives after its sender gave up is taken to arrive just before.        *)
(* "accepted", "effects" and "since" are not in the code: they remember    *)
(* history for the properties.                                             *)
(***************************************************************************)
EXTENDS Integers, FiniteSets

CONSTANTS
  Calls,         \* MCP requests; each is made once
  Reviewed,      \* earlier reviews, whose Approvals are still good
  Subjects,      \* authenticated Subjects
  Owner,         \* owner-subject-id
  Devices,       \* device ids a call may name
  DemoDevice,    \* demo-front-door
  NoApproval,    \* a trace or an Approval that is not the Authority's
  Kinds,         \* which requests are made: a subset of AllKinds
  MaxResets      \* bound on POST /demo/reset

AllKinds == {"review", "unlock", "replay", "unregistered"}

ASSUME UnlockAssumption ==
  /\ Owner \in Subjects /\ DemoDevice \in Devices
  /\ Kinds \subseteq AllKinds
  /\ NoApproval \notin Calls \union Reviewed
  /\ Calls \intersect Reviewed = {}
  /\ MaxResets \in Nat

VARIABLES
  pc,            \* where each request is in the gateway
  req,           \* what it asks for
  result,        \* how it was answered
  approvals,     \* reviews for which the Authority signed an Approval
  spent,         \* [trace, by]: which call consumed which Approval
  consumeCount,  \* the Authority's consume counter
  wire,          \* calls whose request to the lock has not been handled
  answer,        \* the lock's answer to each call
  records,       \* the collector's records
  unlocked,      \* the lock
  unlockCount,
  replay,        \* what the replay demo answered for each of its calls
  resetting,     \* where demo-control's reset is
  resets,        \* how many were started
  evidence,      \* what the reset read
  accepted,      \* history: every record the collector accepted
  effects,       \* history: calls that opened the lock
  since          \* history: what calls have changed since the reset began

gateway   == <<pc, req, result, replay>>
authority == <<approvals, spent, consumeCount>>
lock      == <<wire, answer, unlocked, unlockCount, effects>>
collector == <<records, accepted>>
control   == <<resetting, resets, evidence>>
vars      == <<gateway, authority, lock, collector, control, since>>

PCs == {"idle", "discovery", "health", "policy", "consume", "errorAudit",
        "denyAudit", "refuseAudit", "allowAudit", "unlock", "finalAudit",
        "done"}

\* "ok": the state "unlocked", or the signed operation; "denied": a result
\* marked as an error that carries the decision's identifiers (policyResult);
\* "error": one that does not; "failed": no result at all.
Results == {"none", "ok", "denied", "error", "failed", "lost"}

\* An audit record: of a discovery, of the policy's decision, of a refused
\* Approval, of an unavailable policy (it has no trace), of the outcome.
Record(c, stage, outcome) ==
  [call |-> c, stage |-> stage, outcome |-> outcome]

Records ==
  [call : Calls, outcome : {"allow", "deny"},
   stage : {"discover", "decision", "approval", "untraced", "final"}]

NoRequest == [kind |-> "none"]
NoEvidence == [state |-> "unread"]

Running(c) == pc[c] \notin {"idle", "done"}

Goto(c, where) == pc' = [pc EXCEPT ![c] = where]

Finish(c, how) ==
  /\ Goto(c, "done")
  /\ result' = [result EXCEPT ![c] = how]

\* valid: a record must have a trace and name a Tool of the gateway.
Valid(r) == r.stage # "untraced" /\ req[r.call].kind # "unregistered"

\* A call changes what the last reset clears: the lock is "opened", a record
\* is "recorded", the Authority's counter has "consumed".
Note(what) ==
  since' = IF resetting = "idle" THEN since ELSE since \union {what}

\* recordAudit and the collector's POST /records; told: the gateway sees 201.
RecordAudit(r, told) ==
  \/ /\ Valid(r)
     /\ records' = records \union {r}
     /\ accepted' = accepted \union {r}
     /\ Note("recorded")
  \/ /\ ~told
     /\ UNCHANGED <<collector, since>>

\* The handler has ended; the middleware has yet to record the outcome.
Conclude(c, how) ==
  /\ Goto(c, "finalAudit")
  /\ result' = [result EXCEPT ![c] = how]

-----------------------------------------------------------------------------
(* Reviewing: the adapter's ReviewUnlock *)

\* The rules for smart_lock.unlock, for the Telegram channel: only the Owner
\* may discover it, and execute it with the fixed device.
MayDiscover(s) == s = Owner

\* Faulty variant of MayExecute: any Subject.
MayExecuteAny(s, d) == d = DemoDevice

MayExecute(s, d) == s = Owner /\ d = DemoDevice

Arrive(c, where, r) ==
  /\ pc[c] = "idle"
  /\ Goto(c, where)
  /\ req' = [req EXCEPT ![c] = r]
  /\ UNCHANGED <<result, replay, authority, lock, collector, control, since>>

\* ReviewUnlock asks for the list of Tools.
StartReview(c) ==
  /\ "review" \in Kinds
  /\ Arrive(c, "discovery", [kind |-> "review", subject |-> Owner])

\* tools/list: the middleware decides on the Tool ("deny" if OPA fails) and
\* records the decision.  ReviewUnlock goes on to the Authority if the Tool is
\* in the list; the Authority may fail, too.
Review(c) ==
  /\ pc[c] = "discovery"
  /\ \/ /\ MayDiscover(req[c].subject)
        /\ RecordAudit(Record(c, "discover", "allow"), TRUE)
        /\ approvals' = approvals \union {c}
        /\ Finish(c, "ok")
     \/ /\ \E outcome \in {"allow", "deny"}, told \in BOOLEAN :
             RecordAudit(Record(c, "discover", outcome), told)
        /\ Finish(c, "failed")
        /\ UNCHANGED approvals
  /\ UNCHANGED <<req, replay, spent, consumeCount, lock, control>>

-----------------------------------------------------------------------------
(* Calling *)

\* tools/call with the unlock Tool, from any Subject, with any Approval the
\* Owner got or with another, and with its trace or with a wrong one.
StartUnlock(c, s, d, trace, approval) ==
  /\ "unlock" \in Kinds
  /\ Arrive(c, "health", [kind |-> "unlock", subject |-> s, device |-> d,
                          trace |-> trace, approval |-> approval])

\* enforcedReplay: the same call with an External Subject's token, the fixed
\* device and a made-up trace and Approval.
StartReplay(c, s) ==
  /\ "replay" \in Kinds
  /\ s # Owner
  /\ Arrive(c, "health", [kind |-> "replay", subject |-> s,
                          device |-> DemoDevice, trace |-> NoApproval,
                          approval |-> NoApproval])

\* tools/call with a Tool name the gateway does not know.
StartUnknown(c) ==
  /\ "unregistered" \in Kinds
  /\ Arrive(c, "health", [kind |-> "unregistered"])

\* Approvals.Health fails, and the call ends with an error result; or the SDK
\* finds no such Tool; or the unlock handler runs.
CheckHealth(c) ==
  /\ pc[c] = "health"
  /\ \/ Conclude(c, "error")
     \/ req[c].kind = "unregistered" /\ Conclude(c, "failed")
     \/ /\ req[c].kind # "unregistered"
        /\ Goto(c, "policy")
        /\ UNCHANGED result
  /\ UNCHANGED <<req, replay, authority, lock, collector, control, since>>

\* Policy.Decide: unavailable, denied or allowed.
Decide(c) ==
  /\ pc[c] = "policy"
  /\ \/ Goto(c, "errorAudit")
     \/ ~MayExecute(req[c].subject, req[c].device) /\ Goto(c, "denyAudit")
     \/ MayExecute(req[c].subject, req[c].device) /\ Goto(c, "consume")
  /\ UNCHANGED <<req, result, replay, authority, lock, collector, control, since>>

\* The Authority finds the binding exact.
Exact(c) ==
  /\ req[c].trace = req[c].approval
  /\ req[c].approval \in approvals
  /\ req[c].subject = Owner /\ req[c].device = DemoDevice

Unspent(trace) == \A u \in spent : u.trace # trace

\* Faulty variant of ConsumeGranted: a consumed Approval is granted again.
ConsumeReplayed(c) ==
  /\ pc[c] = "consume"
  /\ Exact(c)
  /\ spent' = spent \union {[trace |-> req[c].approval, by |-> c]}
  /\ consumeCount' = consumeCount + 1
  /\ Note("consumed")
  /\ Goto(c, "allowAudit") \/ Goto(c, "refuseAudit")
  /\ UNCHANGED <<req, result, replay, approvals, lock, collector, control>>

\* ConsumeExact: granted, and the gateway may learn of it or not.
ConsumeGranted(c) ==
  /\ pc[c] = "consume"
  /\ Exact(c) /\ Unspent(req[c].approval)
  /\ spent' = spent \union {[trace |-> req[c].approval, by |-> c]}
  /\ consumeCount' = consumeCount + 1
  /\ Note("consumed")
  /\ Goto(c, "allowAudit") \/ Goto(c, "refuseAudit")
  /\ UNCHANGED <<req, result, replay, approvals, lock, collector, control>>

\* ConsumeExact: the Authority refused (an Approval may have expired) or was
\* not reached.
ConsumeRefused(c) ==
  /\ pc[c] = "consume"
  /\ \/ UNCHANGED <<consumeCount, since>>
     \/ consumeCount' = consumeCount + 1 /\ Note("consumed")
  /\ Goto(c, "refuseAudit")
  /\ UNCHANGED <<req, result, replay, approvals, spent, lock, collector,
                 control>>

\* Faulty variant of AllowAudit: the Effect does not depend on the record.
AllowUnaudited(c) ==
  /\ pc[c] = "allowAudit"
  /\ RecordAudit(Record(c, "decision", "allow"), FALSE)
  /\ Goto(c, "unlock")
  /\ wire' = wire \union {c}
  /\ UNCHANGED <<req, result, replay, authority, answer, unlocked, unlockCount,
                 effects, control>>

\* "allow" is recorded; the lock is called only if the collector said so.
AllowAudit(c) ==
  /\ pc[c] = "allowAudit"
  /\ \/ /\ RecordAudit(Record(c, "decision", "allow"), TRUE)
        /\ Goto(c, "unlock")
        /\ wire' = wire \union {c}
        /\ UNCHANGED result
     \/ /\ RecordAudit(Record(c, "decision", "allow"), FALSE)
        /\ Conclude(c, "denied")
        /\ UNCHANGED wire
  /\ UNCHANGED <<req, replay, authority, answer, unlocked, unlockCount,
                 effects, control>>

\* "deny" is recorded, for the decision or for the Approval; the result says
\* which decision it was, unless the record failed.
DenyAudit(c) ==
  /\ \E stage \in {"decision", "approval"}, told \in BOOLEAN :
       /\ pc[c] = IF stage = "decision" THEN "denyAudit" ELSE "refuseAudit"
       /\ RecordAudit(Record(c, stage, "deny"), told)
       /\ Conclude(c, IF told THEN "denied" ELSE "error")
  /\ UNCHANGED <<req, replay, authority, lock, control>>

\* The record of an unavailable policy; the call ends with an error anyway.
ErrorAudit(c) ==
  /\ pc[c] = "errorAudit"
  /\ \E told \in BOOLEAN : RecordAudit(Record(c, "untraced", "deny"), told)
  /\ Conclude(c, "error")
  /\ UNCHANGED <<req, replay, authority, lock, control>>

\* The lock's POST /unlock: only a closed lock opens.  OpenAgain is faulty: an
\* open lock opens again.
OpenAgain(c) ==
  /\ c \in wire
  /\ wire' = wire \ {c}
  /\ answer' = [answer EXCEPT ![c] = "ok"]
  /\ unlocked' = TRUE
  /\ unlockCount' = unlockCount + 1
  /\ effects' = effects \union {c}
  /\ Note("opened")
  /\ UNCHANGED <<gateway, authority, collector, control>>

Open(c) ==
  /\ c \in wire
  /\ wire' = wire \ {c}
  /\ \/ /\ ~unlocked
        /\ answer' = [answer EXCEPT ![c] = "ok"]
        /\ unlocked' = TRUE
        /\ unlockCount' = unlockCount + 1
        /\ effects' = effects \union {c}
        /\ Note("opened")
     \/ /\ unlocked
        /\ answer' = [answer EXCEPT ![c] = "conflict"]
        /\ UNCHANGED <<unlocked, unlockCount, effects, since>>
  /\ UNCHANGED <<gateway, authority, collector, control>>

\* The request never reaches the lock.
Lose(c) ==
  /\ c \in wire
  /\ wire' = wire \ {c}
  /\ UNCHANGED <<gateway, authority, answer, unlocked, unlockCount, effects,
                 collector, control, since>>

\* SmartLock.Unlock returns the state "unlocked", or an error (409, timeout).
Unlock(c) ==
  /\ pc[c] = "unlock"
  /\ \/ answer[c] = "ok" /\ Conclude(c, "ok")
     \/ Conclude(c, "error")
  /\ UNCHANGED <<req, replay, authority, lock, collector, control, since>>

\* Faulty variant of FinalAudit: the result is returned recorded or not.
FinalAuditIgnored(c) ==
  LET r == Record(c, "final", IF result[c] = "ok" THEN "allow" ELSE "deny") IN
  /\ pc[c] = "finalAudit"
  /\ RecordAudit(r, FALSE) /\ Finish(c, result[c])
  /\ UNCHANGED <<req, replay, authority, lock, control>>

\* recordOperationalAudit: the outcome is recorded, or the call fails.
FinalAudit(c) ==
  LET r == Record(c, "final", IF result[c] = "ok" THEN "allow" ELSE "deny") IN
  /\ pc[c] = "finalAudit"
  /\ \/ RecordAudit(r, TRUE) /\ Finish(c, result[c])
     \/ RecordAudit(r, FALSE) /\ Finish(c, "failed")
  /\ UNCHANGED <<req, replay, authority, lock, control>>

\* The gateway dies; its calls are gone, what it has sent is not.
Crash ==
  /\ \E c \in Calls : Running(c)
  /\ pc' = [c \in Calls |-> IF Running(c) THEN "done" ELSE pc[c]]
  /\ result' = [c \in Calls |-> IF Running(c) THEN "lost" ELSE result[c]]
  /\ UNCHANGED <<req, replay, authority, lock, collector, control, since>>

\* auditEvidence finds a record of the call's denial by its correlation id.
Evident(c) == \E r \in records : r.call = c /\ r.outcome = "deny"

\* enforcedReplay: without an error result that carries the correlation id, or
\* without a record of the denial, it answers 502.
AuditEvidence(c) ==
  /\ req[c].kind = "replay" /\ pc[c] = "done" /\ replay[c] = "none"
  /\ replay' = [replay EXCEPT ![c] =
                   IF result[c] = "denied" /\ Evident(c)
                     THEN "shown" ELSE "unavailable"]
  /\ UNCHANGED <<pc, req, result, authority, lock, collector, control, since>>

\* The collector is not reached.
EvidenceLost(c) ==
  /\ req[c].kind = "replay" /\ pc[c] = "done" /\ replay[c] = "none"
  /\ replay' = [replay EXCEPT ![c] = "unavailable"]
  /\ UNCHANGED <<pc, req, result, authority, lock, collector, control, since>>

-----------------------------------------------------------------------------
(* demo-control *)

\* POST /demo/reset arrives.
StartReset ==
  /\ resetting \in {"idle", "ready"} /\ resets < MaxResets
  /\ resets' = resets + 1
  /\ resetting' = "lock"
  /\ evidence' = NoEvidence
  /\ since' = {}
  /\ UNCHANGED <<gateway, authority, lock, collector>>

\* postReset returned 204, and the reset goes on; or it failed, the target
\* reset or not: 502, and nothing is undone.
NextTarget(next) ==
  \/ resetting' = next /\ UNCHANGED since
  \/ resetting' = "idle" /\ since' = {}

\* The lock's, the collector's and the Authority's reset controls.
ResetLock ==
  /\ resetting = "lock"
  /\ unlocked' = FALSE /\ unlockCount' = 0
  /\ NextTarget("audit")
  /\ UNCHANGED <<gateway, authority, wire, answer, effects, collector,
                 resets, evidence>>

\* Faulty variant of ResetAudit: a missing collector is skipped.
ResetAuditSkipped ==
  /\ resetting = "audit"
  /\ resetting' = "authority"
  /\ UNCHANGED <<gateway, authority, lock, collector, resets, evidence, since>>

ResetAudit ==
  /\ resetting = "audit"
  /\ records' = {}
  /\ NextTarget("authority")
  /\ UNCHANGED <<gateway, authority, lock, accepted, resets, evidence>>

ResetMetrics ==
  /\ resetting = "authority"
  /\ consumeCount' = 0
  /\ NextTarget("readLock")
  /\ UNCHANGED <<gateway, approvals, spent, lock, collector, resets, evidence>>

\* GET /metrics of the lock, GET /records, GET /metrics of the Authority.
ReadLock ==
  /\ resetting = "readLock"
  /\ evidence' = [state |-> IF unlocked THEN "unlocked" ELSE "locked",
                  unlocks |-> unlockCount]
  /\ resetting' = "readAudit"
  /\ UNCHANGED <<gateway, authority, lock, collector, resets, since>>

ReadAudit ==
  /\ resetting = "readAudit"
  /\ evidence' = [state |-> evidence.state, unlocks |-> evidence.unlocks,
                  records |-> Cardinality(records)]
  /\ resetting' = "readAuthority"
  /\ UNCHANGED <<gateway, authority, lock, collector, resets, since>>

ReadAuthority ==
  /\ resetting = "readAuthority"
  /\ evidence' = [state |-> evidence.state, unlocks |-> evidence.unlocks,
                  records |-> evidence.records, consumes |-> consumeCount]
  /\ resetting' = "ready"
  /\ UNCHANGED <<gateway, authority, lock, collector, resets, since>>

\* A target or a read fails before it has done anything: 502, without what
\* was read.
ResetFail ==
  /\ resetting \notin {"idle", "ready"}
  /\ resetting' = "idle" /\ evidence' = NoEvidence /\ since' = {}
  /\ UNCHANGED <<gateway, authority, lock, collector, resets>>

-----------------------------------------------------------------------------
Init ==
  /\ pc = [c \in Calls |-> "idle"]
  /\ req = [c \in Calls |-> NoRequest]
  /\ result = [c \in Calls |-> "none"]
  /\ replay = [c \in Calls |-> "none"]
  /\ approvals = Reviewed /\ spent = {} /\ consumeCount = 0
  /\ wire = {} /\ answer = [c \in Calls |-> "none"]
  /\ records = {} /\ accepted = {}
  /\ unlocked = FALSE /\ unlockCount = 0 /\ effects = {}
  /\ resetting = "idle" /\ resets = 0 /\ evidence = NoEvidence
  /\ since = {}

Handle(c) ==
  \/ Review(c) \/ CheckHealth(c) \/ Decide(c) \/ ConsumeGranted(c)
  \/ ConsumeRefused(c) \/ AllowAudit(c) \/ DenyAudit(c)
  \/ ErrorAudit(c) \/ Unlock(c) \/ FinalAudit(c)
  \/ AuditEvidence(c) \/ EvidenceLost(c)

Control ==
  \/ StartReset \/ ResetLock \/ ResetAudit \/ ResetMetrics
  \/ ReadLock \/ ReadAudit \/ ReadAuthority \/ ResetFail

Next ==
  \/ \E c \in Calls : StartReview(c) \/ StartUnknown(c) \/ Handle(c)
                      \/ Open(c) \/ Lose(c)
  \/ \E c \in Calls, s \in Subjects : StartReplay(c, s)
  \/ \E c \in Calls, s \in Subjects, d \in Devices,
        approval \in approvals \union {NoApproval} :
       \E trace \in {approval, NoApproval} :
         StartUnlock(c, s, d, trace, approval)
  \/ Control \/ Crash

Spec == Init /\ [][Next]_vars

-----------------------------------------------------------------------------
(* Properties *)

Traces == Calls \union Reviewed

Requests ==
  [kind : {"unregistered"}] \union [kind : {"review"}, subject : {Owner}]
  \union
  [kind : {"unlock", "replay"}, subject : Subjects, device : Devices,
   trace : Traces \union {NoApproval}, approval : Traces \union {NoApproval}]

Evidence ==
  {NoEvidence} \union [state : {"locked", "unlocked"}, unlocks : Nat]
  \union [state : {"locked", "unlocked"}, unlocks : Nat, records : Nat]
  \union [state : {"locked", "unlocked"}, unlocks : Nat, records : Nat,
          consumes : Nat]

\* Types; the lock's counter, which its reset clears together with its state,
\* agrees with that state.
TypeOK ==
  /\ pc \in [Calls -> PCs] /\ result \in [Calls -> Results]
  /\ replay \in [Calls -> {"none", "shown", "unavailable"}]
  /\ req \in [Calls -> Requests \union {NoRequest}]
  /\ \A c \in Calls : pc[c] # "idle" => req[c] \in Requests
  /\ approvals \subseteq Traces
  /\ spent \subseteq [trace : Traces, by : Calls] /\ consumeCount \in Nat
  /\ wire \subseteq Calls /\ answer \in [Calls -> {"none", "ok", "conflict"}]
  /\ records \subseteq Records /\ accepted \subseteq Records
  /\ unlocked \in BOOLEAN
  /\ unlockCount = IF unlocked THEN 1 ELSE 0
  /\ effects \subseteq Calls
  /\ resetting \in {"idle", "lock", "audit", "authority", "readLock",
                    "readAudit", "readAuthority", "ready"}
  /\ resets \in 0..MaxResets
  /\ evidence \in Evidence
  /\ since \subseteq {"opened", "recorded", "consumed"}

\* The gateway writes its audit record before an authorized Effect: a call
\* that opened the lock, or whose request to open it may still arrive, was the
\* Owner's, for the fixed device, had spent its exact Approval, and the
\* collector had accepted its "allow".
EffectBacked ==
  \A c \in Calls :
    c \in effects \union wire =>
      /\ req[c].subject = Owner /\ req[c].device = DemoDevice
      /\ req[c].trace = req[c].approval /\ req[c].approval \in approvals
      /\ [trace |-> req[c].approval, by |-> c] \in spent
      /\ Record(c, "decision", "allow") \in accepted

\* One Approval opens the lock at most once, however often demo-control resets
\* the lock, the collector and the Authority's counter.
OneEffectPerApproval ==
  \A c, d \in effects : req[c].approval = req[d].approval => c = d

Told(c) ==
  pc[c] = "done" /\ req[c].kind # "review" =>
    /\ result[c] = "ok" =>
         c \in effects /\ Record(c, "final", "allow") \in accepted
    /\ result[c] \in {"denied", "error"} =>
         Record(c, "final", "deny") \in accepted

\* An Owner who is told "unlocked" opened the lock with this very call, not
\* found it open, and the collector has the outcome.  Any answer at all, error
\* results included, has been recorded with its outcome.
ToldAndRecorded == \A c \in Calls : Told(c)

\* README.md, "Prompt Rule exploit replay": what an enforced replay shows is
\* the policy's own denial of this call, decided before the Approval Authority
\* was asked and without anything having reached the lock, whatever the
\* Owner's calls and the resets do at the same time.
ReplayEvidence ==
  \A c \in Calls :
    replay[c] = "shown" =>
      /\ Record(c, "decision", "deny") \in accepted
      /\ Record(c, "approval", "deny") \notin accepted
      /\ \A u \in spent : u.by # c
      /\ c \notin effects \union wire

\* A "ready" answer is true of every target that no call has changed since the
\* reset began, calls running beside it or not: the target is clean and is
\* reported so.  Of the others it says at most too little: what it reports is
\* there, but what a call did after the target was read is missing.
ResetEvidence ==
  resetting = "ready" =>
    /\ "opened" \notin since =>
         ~unlocked /\ evidence.state = "locked" /\ evidence.unlocks = 0
    /\ "recorded" \notin since => records = {} /\ evidence.records = 0
    /\ "consumed" \notin since => consumeCount = 0 /\ evidence.consumes = 0
    /\ evidence.state = "unlocked" => unlocked
    /\ evidence.unlocks <= unlockCount
    /\ evidence.records <= Cardinality(records)
    /\ evidence.consumes <= consumeCount

\* The Approval of a review, what a call asks the Authority to consume, and
\* what it was granted, as OneTimeApproval sees them.
Signed(t) ==
  [nonce   |-> t,
   binding |-> [trace |-> t, subject |-> Owner, device |-> DemoDevice]]

BindingOf(c) ==
  [trace |-> req[c].trace, subject |-> req[c].subject, device |-> req[c].device]

GrantOf(c) ==
  IF \E u \in spent : u.by = c
    THEN [approval |-> Signed(req[c].approval), binding |-> BindingOf(c)]
    ELSE NoRequest

issued == {Signed(t) : t \in approvals}
grant  == [c \in Calls |-> GrantOf(c)]

Promised == INSTANCE OneTimeApproval
              WITH Requests <- Calls, Ungranted <- NoRequest

\* The gateway gets from the Authority what it promises, and relies on no
\* more: from the earlier reviews on, each step issues one Approval, grants one
\* for exactly its binding, or leaves them as they are, resets included.
AsPromised == [][Promised!Next]_<<issued, grant>>

-----------------------------------------------------------------------------
(* The inductive invariant *)

\* Nothing is known of a call that has not arrived.
Unheard(c) ==
  pc[c] = "idle" =>
    /\ c \notin effects \union wire
    /\ \A u \in spent : u.by # c
    /\ \A r \in accepted : r.call # c

\* Where a call is says what it asks for, and that the policy allowed it.
Placed(c) ==
  /\ pc[c] = "discovery" => req[c].kind = "review"
  /\ pc[c] \notin {"idle", "discovery", "done"} => req[c].kind # "review"
  /\ pc[c] \in {"consume", "refuseAudit", "allowAudit", "unlock"} =>
       MayExecute(req[c].subject, req[c].device)
  /\ pc[c] \notin {"finalAudit", "done"} => result[c] = "none"

\* The Approval of call c was exact, and c spent it.
Backed(c) ==
  /\ Exact(c)
  /\ [trace |-> req[c].approval, by |-> c] \in spent

\* From the consumption on a call is backed, from the "allow" on recorded, and
\* who was told "unlocked" opened the lock.
Effective(c) ==
  /\ pc[c] \in {"allowAudit", "unlock"} \/ c \in effects \union wire =>
       Backed(c)
  /\ pc[c] = "unlock" \/ c \in effects \union wire =>
       Record(c, "decision", "allow") \in accepted
  /\ answer[c] = "ok" => c \in effects
  /\ result[c] = "ok" /\ req[c].kind # "review" => c \in effects

\* Only the Owner's calls get past the policy, and a denial that carries the
\* decision's identifiers of anybody else's was recorded as the policy's own.
Refused(c) ==
  /\ req[c].kind = "replay" => req[c].subject # Owner
  /\ \A u \in spent : u.by = c => req[c].subject = Owner
  /\ Record(c, "approval", "deny") \in accepted => req[c].subject = Owner
  /\ result[c] = "denied" /\ req[c].subject # Owner =>
       Record(c, "decision", "deny") \in accepted
  /\ replay[c] = "shown" =>
       req[c].kind = "replay" /\ pc[c] = "done" /\ result[c] = "denied"

CallInv(c) ==
  Unheard(c) /\ Placed(c) /\ Effective(c) /\ Refused(c) /\ Told(c)

\* Each Approval was consumed once.
SpentOnce == \A u, v \in spent : u.trace = v.trace => u = v

\* How far a reset is: which targets it has cleared, and which it has read.
ReadLockDone  == resetting \in {"readAudit", "readAuthority", "ready"}
ReadAuditDone == resetting \in {"readAuthority", "ready"}

LockCleared ==
  resetting \in {"audit", "authority", "readLock"} \/ ReadLockDone
AuditCleared ==
  resetting \in {"authority", "readLock"} \/ ReadLockDone
CounterCleared == resetting = "readLock" \/ ReadLockDone

\* What a reset has read so far.
EvidenceInv ==
  /\ resetting = "readAudit" =>
       evidence \in [state : {"locked", "unlocked"}, unlocks : Nat]
  /\ resetting = "readAuthority" =>
       evidence \in [state : {"locked", "unlocked"}, unlocks : Nat,
                     records : Nat]
  /\ resetting = "ready" =>
       evidence \in [state : {"locked", "unlocked"}, unlocks : Nat,
                     records : Nat, consumes : Nat]

\* What a reset has cleared stays clear until a call changes it, and what it
\* has read can only grow.
LockSince ==
  /\ LockCleared /\ "opened" \notin since => ~unlocked
  /\ ReadLockDone =>
       /\ "opened" \notin since =>
            evidence.state = "locked" /\ evidence.unlocks = 0
       /\ evidence.state = "unlocked" => unlocked
       /\ evidence.unlocks <= unlockCount

AuditSince ==
  /\ AuditCleared /\ "recorded" \notin since => records = {}
  /\ ReadAuditDone =>
       /\ "recorded" \notin since => evidence.records = 0
       /\ evidence.records <= Cardinality(records)

CounterSince ==
  /\ CounterCleared /\ "consumed" \notin since => consumeCount = 0
  /\ resetting = "ready" =>
       /\ "consumed" \notin since => evidence.consumes = 0
       /\ evidence.consumes <= consumeCount

IInv ==
  /\ TypeOK /\ IsFiniteSet(records)
  /\ \A c \in Calls : CallInv(c)
  /\ SpentOnce /\ EvidenceInv /\ LockSince /\ AuditSince /\ CounterSince

=============================================================================
