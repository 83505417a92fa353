------------------------ MODULE SmartLockUnlockProofs ------------------------
(***************************************************************************)
(* The lock opens only for a recorded and approved call of the Owner, once *)
(* per Approval, and what a caller, a reset or a replay is told is true:   *)
(* for every set of calls, Subjects, devices and earlier reviews.          *)
(***************************************************************************)
EXTENDS SmartLockUnlock, FiniteSetTheorems, TLAPS

-----------------------------------------------------------------------------
(* What the steps of a call leave alone *)

\* The requests that can arrive have the shape of requests.
LEMMA RequestShapes ==
  /\ [kind |-> "unregistered"] \in Requests
  /\ [kind |-> "review", subject |-> Owner] \in Requests
  /\ \A s \in Subjects, d \in Devices, t, a \in Traces \union {NoApproval},
        k \in {"unlock", "replay"} :
       [kind |-> k, subject |-> s, device |-> d, trace |-> t,
        approval |-> a] \in Requests
BY UnlockAssumption DEF Requests

\* A step of one call: it arrives, is handled, or is handled by the lock.
CallStep(c) ==
  \/ StartReview(c) \/ StartUnknown(c) \/ Handle(c) \/ Open(c) \/ Lose(c)
  \/ \E s \in Subjects : StartReplay(c, s)
  \/ \E s \in Subjects, d \in Devices,
        approval \in approvals \union {NoApproval} :
       \E trace \in {approval, NoApproval} :
         StartUnlock(c, s, d, trace, approval)

LEMMA NextSteps ==
  ASSUME Next
  PROVE  (\E c \in Calls : CallStep(c)) \/ Control \/ Crash
BY DEF Next, CallStep

\* What a call that another step is about can rely on.
Aside(d) ==
  /\ pc'[d] = pc[d] /\ req'[d] = req[d] /\ result'[d] = result[d]
  /\ replay'[d] = replay[d] /\ answer'[d] = answer[d]
  /\ d \in wire' <=> d \in wire
  /\ d \in effects' <=> d \in effects
  /\ approvals \subseteq approvals' /\ spent \subseteq spent'
  /\ accepted \subseteq accepted'
  /\ \A u \in spent' \ spent : u.by # d
  /\ \A r \in accepted' \ accepted : r.call # d

LEMMA AsideInv ==
  ASSUME NEW d \in Calls, CallInv(d), Aside(d)
  PROVE  CallInv(d)'
<1>. USE DEF Aside, CallInv
<1>1. Unheard(d)'
  BY DEF Unheard
<1>2. Placed(d)'
  BY DEF Placed
<1>3. Backed(d) => Backed(d)'
  BY DEF Backed, Exact
<1>4. Effective(d)'
  BY <1>3 DEF Effective
<1>5. Record(d, "approval", "deny").call = d
  BY DEF Record
<1>6. Refused(d)'
  BY <1>5 DEF Refused
<1>7. Told(d)'
  BY DEF Told
<1>. QED
  BY <1>1, <1>2, <1>4, <1>6, <1>7

\* What the collector may have got: the record, or nothing.
LEMMA Recorded ==
  ASSUME NEW r, NEW told, RecordAudit(r, told)
  PROVE  /\ accepted \subseteq accepted'
         /\ accepted' \subseteq accepted \union {r}
         /\ records' \in {records, records \union {r}}
         /\ told => r \in accepted'
BY DEF RecordAudit, collector

-----------------------------------------------------------------------------
(* Types *)

\* The flags and the lock's counter.
Flags ==
  /\ unlocked \in BOOLEAN
  /\ unlockCount = IF unlocked THEN 1 ELSE 0

\* The types of what belongs to calls.
CallTypes ==
  /\ pc \in [Calls -> PCs] /\ result \in [Calls -> Results]
  /\ replay \in [Calls -> {"none", "shown", "unavailable"}]
  /\ req \in [Calls -> Requests \union {NoRequest}]
  /\ \A c \in Calls : pc[c] # "idle" => req[c] \in Requests
  /\ approvals \subseteq Traces
  /\ spent \subseteq [trace : Traces, by : Calls] /\ consumeCount \in Nat
  /\ wire \subseteq Calls /\ answer \in [Calls -> {"none", "ok", "conflict"}]
  /\ records \subseteq Records /\ accepted \subseteq Records
  /\ effects \subseteq Calls
  /\ IsFiniteSet(records)

ControlTypes ==
  /\ resetting \in {"idle", "lock", "audit", "authority", "readLock",
                    "readAudit", "readAuthority", "ready"}
  /\ resets \in 0..MaxResets
  /\ evidence \in Evidence
  /\ EvidenceInv

SinceType == since \subseteq {"opened", "recorded", "consumed"}

LEMMA TypeParts ==
  TypeOK /\ IsFiniteSet(records) /\ EvidenceInv <=>
    Flags /\ CallTypes /\ ControlTypes /\ SinceType
BY DEF TypeOK, Flags, CallTypes, ControlTypes, SinceType

\* A record of call c, and the collector with it or without, are well-typed.
LEMMA RecordTypes ==
  ASSUME NEW c \in Calls, CallTypes, NEW told,
         NEW stage \in {"discover", "decision", "approval", "untraced",
                        "final"},
         NEW outcome \in {"allow", "deny"},
         RecordAudit(Record(c, stage, outcome), told)
  PROVE  /\ records' \subseteq Records /\ accepted' \subseteq Records
         /\ IsFiniteSet(records')
<1>. DEFINE r == Record(c, stage, outcome)
<1>1. r \in Records
  BY DEF Record, Records
<1>. HIDE DEF r
<1>2. /\ records' \in {records, records \union {r}}
      /\ accepted' \subseteq accepted \union {r}
  BY Recorded DEF r
<1>3. IsFiniteSet(records \union {r})
  BY FS_AddElement DEF CallTypes
<1>. QED
  BY <1>1, <1>2, <1>3 DEF CallTypes

LEMMA CallStepTypes ==
  ASSUME NEW c \in Calls, CallStep(c), CallTypes
  PROVE  CallTypes'
<1>. USE DEF Goto, Conclude, Finish, gateway, authority, lock, collector,
             PCs, Results
<1>1. ASSUME NEW where \in PCs, NEW r \in Requests, Arrive(c, where, r)
      PROVE  CallTypes'
  BY <1>1 DEF CallTypes, Arrive
<1>2. CASE StartReview(c) \/ StartUnknown(c)
  BY <1>1, <1>2, RequestShapes DEF StartReview, StartUnknown
<1>3. ASSUME NEW s \in Subjects, StartReplay(c, s)
      PROVE  CallTypes'
  BY <1>1, <1>3, RequestShapes, UnlockAssumption DEF StartReplay
<1>4. ASSUME NEW s \in Subjects, NEW d \in Devices,
             NEW approval \in approvals \union {NoApproval},
             NEW trace \in {approval, NoApproval},
             StartUnlock(c, s, d, trace, approval)
      PROVE  CallTypes'
  BY <1>1, <1>4, RequestShapes DEF StartUnlock, CallTypes
<1>5. CASE Review(c)
  <2>1. /\ records' \subseteq Records /\ accepted' \subseteq Records
        /\ IsFiniteSet(records')
    BY <1>5, RecordTypes DEF Review
  <2>. QED
    BY <1>5, <2>1 DEF Review, CallTypes, Traces
<1>6. CASE CheckHealth(c) \/ Decide(c)
  BY <1>6 DEF CheckHealth, Decide, CallTypes
<1>7. CASE ConsumeGranted(c)
  <2>1. req[c].approval \in Traces
    BY <1>7 DEF ConsumeGranted, Exact, CallTypes
  <2>. QED
    BY <1>7, <2>1 DEF ConsumeGranted, CallTypes
<1>8. CASE ConsumeRefused(c)
  BY <1>8 DEF ConsumeRefused, CallTypes
<1>9. CASE AllowAudit(c)
  <2>1. /\ records' \subseteq Records /\ accepted' \subseteq Records
        /\ IsFiniteSet(records')
    BY <1>9, RecordTypes DEF AllowAudit
  <2>. QED
    BY <1>9, <2>1 DEF AllowAudit, CallTypes
<1>10. CASE DenyAudit(c)
  <2>1. /\ records' \subseteq Records /\ accepted' \subseteq Records
        /\ IsFiniteSet(records')
    BY <1>10, RecordTypes DEF DenyAudit
  <2>. QED
    BY <1>10, <2>1 DEF DenyAudit, CallTypes
<1>11. CASE ErrorAudit(c)
  <2>1. /\ records' \subseteq Records /\ accepted' \subseteq Records
        /\ IsFiniteSet(records')
    BY <1>11, RecordTypes DEF ErrorAudit
  <2>. QED
    BY <1>11, <2>1 DEF ErrorAudit, CallTypes
<1>12. CASE Open(c) \/ Lose(c)
  BY <1>12 DEF Open, Lose, CallTypes
<1>13. CASE Unlock(c)
  BY <1>13 DEF Unlock, CallTypes
<1>14. CASE FinalAudit(c)
  <2>1. /\ records' \subseteq Records /\ accepted' \subseteq Records
        /\ IsFiniteSet(records')
    BY <1>14, RecordTypes DEF FinalAudit
  <2>. QED
    BY <1>14, <2>1 DEF FinalAudit, CallTypes
<1>15. CASE AuditEvidence(c) \/ EvidenceLost(c)
  BY <1>15 DEF AuditEvidence, EvidenceLost, CallTypes
<1>. QED
  BY <1>2, <1>3, <1>4, <1>5, <1>6, <1>7, <1>8, <1>9, <1>10, <1>11, <1>12,
     <1>13, <1>14, <1>15 DEF CallStep, Handle

\* The counter is touched by nobody but the lock.
LEMMA CallStepFlags ==
  ASSUME NEW c \in Calls, CallStep(c), Flags
  PROVE  Flags' /\ UNCHANGED <<resetting, resets, evidence>>
<1>. USE DEF lock, control
<1>0. ASSUME UNCHANGED <<unlocked, unlockCount>>
      PROVE  /\ (unlocked \in BOOLEAN)'
             /\ (unlockCount = IF unlocked THEN 1 ELSE 0)'
  BY <1>0 DEF Flags
<1>1. CASE Open(c)
  <2>1. UNCHANGED control
    BY <1>1 DEF Open
  <2>2. CASE unlocked
    BY <1>0, <1>1, <2>1, <2>2 DEF Open, Flags
  <2>3. CASE ~unlocked
    <3>1. unlocked' = TRUE /\ unlockCount' = unlockCount + 1
      BY <1>1, <2>3 DEF Open
    <3>2. unlockCount = 0
      BY <2>3 DEF Flags
    <3>3. unlockCount' = 1
      BY <3>1, <3>2
    <3>. QED
      BY <2>1, <3>1, <3>3 DEF Flags
  <2>. QED
    BY <2>2, <2>3
<1>2. CASE Handle(c)
  <2>1. UNCHANGED <<unlocked, unlockCount, resetting, resets, evidence>>
    BY <1>2 DEF Handle, Review, CheckHealth, Decide, ConsumeGranted,
                ConsumeRefused, AllowAudit, DenyAudit, ErrorAudit, Unlock,
                FinalAudit, AuditEvidence, EvidenceLost
  <2>. QED
    BY <1>0, <2>1 DEF Flags
<1>3. CASE Lose(c)
  BY <1>0, <1>3 DEF Lose, Flags
<1>4. ASSUME NEW where, NEW r, Arrive(c, where, r)
      PROVE  Flags' /\ UNCHANGED <<resetting, resets, evidence>>
  BY <1>0, <1>4 DEF Arrive, Flags
<1>. QED
  BY <1>1, <1>2, <1>3, <1>4
     DEF CallStep, StartReview, StartUnknown, StartReplay, StartUnlock

LEMMA CrashTypes ==
  ASSUME Crash, CallTypes
  PROVE  CallTypes'
BY DEF Crash, CallTypes, PCs, Results, Running, authority, lock, collector

\* A reset clears and reads; it touches no call.
LEMMA ControlSteps ==
  ASSUME Control, CallTypes, ControlTypes
  PROVE  /\ UNCHANGED <<gateway, approvals, spent, wire, answer, effects,
                        accepted>>
         /\ records' \in {records, {}} /\ consumeCount' \in {consumeCount, 0}
         /\ resetting' \in {"idle", "lock", "audit", "authority", "readLock",
                            "readAudit", "readAuthority", "ready"}
         /\ resets' \in 0..MaxResets
BY UnlockAssumption
   DEF Control, StartReset, ResetLock, ResetAudit, ResetMetrics, ReadLock,
       ReadAudit, ReadAuthority, ResetFail, NextTarget, CallTypes,
       ControlTypes, gateway, authority, lock, collector

LEMMA ControlCallTypes ==
  ASSUME Control, CallTypes, ControlTypes
  PROVE  CallTypes'
<1>1. IsFiniteSet(records')
  BY ControlSteps, FS_EmptySet DEF CallTypes
<1>. QED
  BY <1>1, ControlSteps DEF CallTypes, gateway

LEMMA ControlFlags ==
  ASSUME Control, Flags
  PROVE  Flags'
<1>. USE DEF lock
<1>1. CASE StartReset
  BY <1>1 DEF StartReset, Flags
<1>2. CASE ResetLock
  BY <1>2 DEF ResetLock, Flags
<1>3. CASE ~StartReset /\ ~ResetLock
  <2>1. UNCHANGED <<unlocked, unlockCount>>
    BY <1>3 DEF Control, ResetAudit, ResetMetrics, ReadLock, ReadAudit,
                ReadAuthority, ResetFail
  <2>. QED
    BY <2>1 DEF Flags
<1>. QED
  BY <1>1, <1>2, <1>3

LEMMA ControlEvidence ==
  ASSUME Control, Flags, CallTypes, ControlTypes
  PROVE  ControlTypes'
<1>. DEFINE States == {"locked", "unlocked"}
<1>0. /\ unlockCount \in Nat /\ consumeCount \in Nat
      /\ Cardinality(records) \in Nat
  BY FS_CardinalityType DEF Flags, CallTypes
<1>1. CASE StartReset
  BY <1>1, ControlSteps DEF StartReset, ControlTypes, EvidenceInv, Evidence
<1>2. CASE ResetLock \/ ResetAudit \/ ResetMetrics \/ ResetFail
  <2>1. /\ evidence' \in {evidence, NoEvidence}
        /\ resetting' \notin {"readAudit", "readAuthority", "ready"}
    BY <1>2 DEF ResetLock, ResetAudit, ResetMetrics, ResetFail, NextTarget
  <2>. QED
    BY <2>1, ControlSteps DEF ControlTypes, EvidenceInv, Evidence
<1>3. CASE ReadLock
  <2>1. /\ evidence' \in [state : States, unlocks : Nat]
        /\ resetting' = "readAudit"
    BY <1>0, <1>3 DEF ReadLock
  <2>. QED
    BY <2>1, ControlSteps DEF ControlTypes, EvidenceInv, Evidence
<1>4. CASE ReadAudit
  <2>1. /\ evidence' \in [state : States, unlocks : Nat, records : Nat]
        /\ resetting' = "readAuthority"
    BY <1>0, <1>4 DEF ReadAudit, ControlTypes, EvidenceInv
  <2>. QED
    BY <2>1, ControlSteps DEF ControlTypes, EvidenceInv, Evidence
<1>5. CASE ReadAuthority
  <2>1. /\ evidence' \in [state : States, unlocks : Nat, records : Nat,
                          consumes : Nat]
        /\ resetting' = "ready"
    BY <1>0, <1>5 DEF ReadAuthority, ControlTypes, EvidenceInv
  <2>. QED
    BY <2>1, ControlSteps DEF ControlTypes, EvidenceInv, Evidence
<1>. QED
  BY <1>1, <1>2, <1>3, <1>4, <1>5 DEF Control

LEMMA Types ==
  ASSUME Flags, CallTypes, ControlTypes, [Next]_vars
  PROVE  Flags' /\ CallTypes' /\ ControlTypes'
<1>1. ASSUME NEW c \in Calls, CallStep(c)
      PROVE  Flags' /\ CallTypes' /\ ControlTypes'
  BY <1>1, CallStepTypes, CallStepFlags
     DEF ControlTypes, EvidenceInv, Evidence
<1>2. CASE Control
  BY <1>2, ControlCallTypes, ControlFlags, ControlEvidence
<1>3. CASE Crash
  BY <1>3, CrashTypes
     DEF Crash, Flags, ControlTypes, EvidenceInv, Evidence, lock, control
<1>4. CASE UNCHANGED vars
  BY <1>4 DEF vars, gateway, authority, lock, collector, control, Flags,
              CallTypes, ControlTypes, EvidenceInv, Evidence
<1>. QED
  BY <1>1, <1>2, <1>3, <1>4, NextSteps

-----------------------------------------------------------------------------
(* Calls *)

\* A step of call c leaves the others alone.
LEMMA OthersAside ==
  ASSUME NEW c \in Calls, CallStep(c), CallTypes, NEW d \in Calls \ {c}
  PROVE  Aside(d)
<1>. USE DEF Goto, Conclude, Finish, gateway, authority, lock, collector,
             Aside, CallTypes
<1>0. ASSUME NEW stage, NEW outcome, NEW told,
             RecordAudit(Record(c, stage, outcome), told)
      PROVE  /\ accepted \subseteq accepted'
             /\ \A r \in accepted' \ accepted : r.call # d
  <2>1. Record(c, stage, outcome).call = c
    BY DEF Record
  <2>. QED
    BY <1>0, <2>1, Recorded
<1>1. ASSUME NEW where, NEW r, Arrive(c, where, r)
      PROVE  Aside(d)
  BY <1>1 DEF Arrive
<1>2. CASE Review(c)
  BY <1>0, <1>2 DEF Review
<1>3. CASE CheckHealth(c) \/ Decide(c)
  BY <1>3 DEF CheckHealth, Decide
<1>4. CASE ConsumeGranted(c)
  BY <1>4 DEF ConsumeGranted
<1>5. CASE ConsumeRefused(c)
  BY <1>5 DEF ConsumeRefused
<1>6. CASE AllowAudit(c)
  BY <1>0, <1>6 DEF AllowAudit
<1>7. CASE DenyAudit(c)
  BY <1>0, <1>7 DEF DenyAudit
<1>8. CASE ErrorAudit(c)
  BY <1>0, <1>8 DEF ErrorAudit
<1>9. CASE Open(c) \/ Lose(c)
  BY <1>9 DEF Open, Lose
<1>10. CASE Unlock(c)
  BY <1>10 DEF Unlock
<1>11. CASE FinalAudit(c)
  BY <1>0, <1>11 DEF FinalAudit
<1>12. CASE AuditEvidence(c) \/ EvidenceLost(c)
  BY <1>12 DEF AuditEvidence, EvidenceLost
<1>. QED
  BY <1>1, <1>2, <1>3, <1>4, <1>5, <1>6, <1>7, <1>8, <1>9, <1>10, <1>11,
     <1>12
     DEF CallStep, Handle, StartReview, StartUnknown, StartReplay, StartUnlock

\* The records of call c differ by call, stage and outcome.
LEMMA RecordsDiffer ==
  ASSUME NEW c, NEW stage, NEW outcome, NEW d, NEW other, NEW result1
  PROVE  /\ Record(c, stage, outcome).call = c
         /\ Record(c, stage, outcome) = Record(d, other, result1)
              <=> c = d /\ stage = other /\ outcome = result1
BY DEF Record

LEMMA ArriveInv ==
  ASSUME NEW c \in Calls, CallTypes, CallInv(c), NEW where, NEW r,
         Arrive(c, where, r),
         r.kind = "replay" => r.subject # Owner,
         \/ where = "discovery" /\ r.kind = "review"
         \/ where = "health" /\ r.kind # "review"
  PROVE  CallInv(c)'
<1>. USE DEF CallTypes, Arrive, Goto, CallInv, authority, lock, collector
<1>1. pc'[c] = where /\ req'[c] = r
  OBVIOUS
<1>2. Unheard(c)'
  BY <1>1 DEF Unheard
<1>3. Placed(c)'
  BY <1>1 DEF Placed
<1>4. Effective(c)'
  BY <1>1 DEF Unheard, Placed, Effective
<1>5. Refused(c)'
  <2>1. Record(c, "approval", "deny") \notin accepted
    BY RecordsDiffer DEF Unheard
  <2>. QED
    BY <1>1, <2>1 DEF Unheard, Placed, Refused
<1>6. Told(c)'
  BY <1>1 DEF Told
<1>. QED
  BY <1>2, <1>3, <1>4, <1>5, <1>6

LEMMA HandleInv ==
  ASSUME NEW c \in Calls, Handle(c), CallTypes, CallInv(c)
  PROVE  CallInv(c)'
<1>. USE DEF Goto, Conclude, Finish, gateway, authority, lock, collector,
             CallTypes, CallInv, Unheard, Placed, Effective, Refused, Told,
             Backed, Exact, MayExecute
<1>0. ASSUME NEW stage, NEW outcome, NEW told,
             RecordAudit(Record(c, stage, outcome), told)
      PROVE  /\ accepted \subseteq accepted'
             /\ told => Record(c, stage, outcome) \in accepted'
             /\ stage # "approval" =>
                  (Record(c, "approval", "deny") \in accepted' <=>
                     Record(c, "approval", "deny") \in accepted)
  BY <1>0, Recorded, RecordsDiffer
<1>1. CASE Review(c)
  <2>1. /\ accepted \subseteq accepted'
        /\ Record(c, "approval", "deny") \in accepted' <=>
             Record(c, "approval", "deny") \in accepted
    <3>1. PICK outcome, told :
            RecordAudit(Record(c, "discover", outcome), told)
      BY <1>1, Zenon DEF Review
    <3>. QED
      BY <1>0, <3>1
  <2>2. result'[c] \in {"ok", "failed"} /\ pc'[c] = "done"
    BY <1>1 DEF Review
  <2>3. /\ c \notin effects' \union wire' \/ Backed(c)'
        /\ UNCHANGED <<req, replay, spent, lock>>
    BY <1>1 DEF Review
  <2>. QED
    BY <1>1, <2>1, <2>2, <2>3 DEF Review
<1>2. CASE CheckHealth(c)
  BY <1>2 DEF CheckHealth
<1>3. CASE Decide(c)
  BY <1>3 DEF Decide
<1>4. CASE ConsumeGranted(c)
  BY <1>4 DEF ConsumeGranted
<1>5. CASE ConsumeRefused(c)
  BY <1>5 DEF ConsumeRefused
<1>6. CASE AllowAudit(c)
  BY <1>0, <1>6 DEF AllowAudit
<1>7. CASE DenyAudit(c)
  BY <1>0, <1>7 DEF DenyAudit
<1>8. CASE ErrorAudit(c)
  BY <1>0, <1>8 DEF ErrorAudit
<1>9. CASE Unlock(c)
  BY <1>9 DEF Unlock
<1>10. CASE FinalAudit(c)
  <2>. DEFINE outcome == IF result[c] = "ok" THEN "allow" ELSE "deny"
  <2>1. /\ accepted \subseteq accepted'
        /\ Record(c, "approval", "deny") \in accepted' <=>
             Record(c, "approval", "deny") \in accepted
    <3>1. PICK told : RecordAudit(Record(c, "final", outcome), told)
      BY <1>10, Zenon DEF FinalAudit
    <3>. QED
      BY <1>0, <3>1
  <2>2. /\ pc[c] = "finalAudit" /\ pc'[c] = "done"
        /\ UNCHANGED <<req, replay, authority, lock>>
        /\ \/ /\ result'[c] = result[c]
              /\ Record(c, "final", outcome) \in accepted'
           \/ result'[c] = "failed"
    <3>1. RecordAudit(Record(c, "final", outcome), TRUE) =>
            Record(c, "final", outcome) \in accepted'
      BY <1>0
    <3>. QED
      BY <1>10, <3>1 DEF FinalAudit
  <2>. QED
    BY <2>1, <2>2
<1>11. CASE AuditEvidence(c) \/ EvidenceLost(c)
  BY <1>11 DEF AuditEvidence, EvidenceLost
<1>. QED
  BY <1>1, <1>2, <1>3, <1>4, <1>5, <1>6, <1>7, <1>8, <1>9, <1>10, <1>11
     DEF Handle

\* The lock handles call c, or never gets its request.
LEMMA LockInv ==
  ASSUME NEW c \in Calls, Open(c) \/ Lose(c), CallTypes, CallInv(c)
  PROVE  CallInv(c)'
<1>. USE DEF gateway, authority, collector, CallTypes, CallInv, Unheard,
             Placed, Effective, Refused, Told, Backed, Exact
<1>1. c \in wire /\ UNCHANGED <<gateway, authority, collector>>
  BY DEF Open, Lose
<1>2. /\ effects \subseteq effects' /\ effects' \subseteq effects \union {c}
      /\ wire' = wire \ {c}
      /\ answer'[c] = "ok" => c \in effects'
  BY DEF Open, Lose
<1>. QED
  BY <1>1, <1>2

\* A crash ends calls without an answer.
LEMMA CrashInv ==
  ASSUME NEW c \in Calls, Crash, CallTypes, CallInv(c)
  PROVE  CallInv(c)'
BY DEF Crash, Running, gateway, authority, lock, collector, CallTypes,
       CallInv, Unheard, Placed, Effective, Refused, Told, Backed, Exact

\* What is known of a call holds after every step of it.
LEMMA CallStepInv ==
  ASSUME NEW c \in Calls, CallStep(c), CallTypes, CallInv(c)
  PROVE  CallInv(c)'
<1>1. CASE StartReview(c) \/ StartUnknown(c)
  BY <1>1, ArriveInv DEF StartReview, StartUnknown
<1>2. ASSUME NEW s \in Subjects, StartReplay(c, s)
      PROVE  CallInv(c)'
  BY <1>2, ArriveInv DEF StartReplay
<1>3. ASSUME NEW s, NEW d, NEW trace, NEW approval,
             StartUnlock(c, s, d, trace, approval)
      PROVE  CallInv(c)'
  BY <1>3, ArriveInv DEF StartUnlock
<1>. QED
  BY <1>1, <1>2, <1>3, HandleInv, LockInv DEF CallStep

\* Every step keeps what is known of every call.
LEMMA CallsInv ==
  ASSUME CallTypes, ControlTypes, [Next]_vars, \A c \in Calls : CallInv(c)
  PROVE  \A c \in Calls : CallInv(c)'
<1>. TAKE d \in Calls
<1>1. ASSUME NEW c \in Calls, CallStep(c)
      PROVE  CallInv(d)'
  BY <1>1, CallStepInv, OthersAside, AsideInv
<1>2. CASE Control
  BY <1>2, ControlSteps, AsideInv DEF Aside, gateway
<1>3. CASE Crash
  BY <1>3, CrashInv
<1>4. CASE UNCHANGED vars
  BY <1>4, AsideInv
     DEF Aside, vars, gateway, authority, lock, collector
<1>. QED
  BY <1>1, <1>2, <1>3, <1>4, NextSteps

-----------------------------------------------------------------------------
(* Approvals and resets *)

\* The Authority grants an Approval once.
LEMMA SpentOnceStep ==
  ASSUME CallTypes, ControlTypes, [Next]_vars, SpentOnce
  PROVE  SpentOnce'
<1>1. CASE \E c \in Calls : ConsumeGranted(c)
  <2>1. PICK c \in Calls : ConsumeGranted(c)
    BY <1>1
  <2>2. /\ spent' = spent \union {[trace |-> req[c].approval, by |-> c]}
        /\ Unspent(req[c].approval)
    BY <2>1 DEF ConsumeGranted
  <2>. QED
    BY <2>2 DEF SpentOnce, Unspent
<1>2. CASE ~ \E c \in Calls : ConsumeGranted(c)
  <2>1. ASSUME NEW c \in Calls, CallStep(c)
        PROVE  spent' = spent
    BY <1>2, <2>1
       DEF CallStep, Handle, StartReview, StartUnknown, StartReplay,
           StartUnlock, Arrive, Review, CheckHealth, Decide, ConsumeRefused,
           AllowAudit, DenyAudit, ErrorAudit, Open, Lose, Unlock, FinalAudit,
           AuditEvidence, EvidenceLost, authority
  <2>2. spent' = spent
    BY <2>1, NextSteps, ControlSteps DEF Crash, vars, authority
  <2>. QED
    BY <2>2 DEF SpentOnce
<1>. QED
  BY <1>1, <1>2

-----------------------------------------------------------------------------
(* Resets *)

\* What a step of a call may do to the targets of a reset: it takes nothing
\* away, and what it adds while a reset runs is noted.
Touches ==
  /\ since \subseteq since' /\ SinceType'
  /\ unlocked => unlocked'
  /\ records \subseteq records'
  /\ consumeCount <= consumeCount'
  /\ resetting # "idle" =>
       /\ "opened" \notin since' => (unlocked' => unlocked)
       /\ "recorded" \notin since' => records' = records
       /\ "consumed" \notin since' => consumeCount' = consumeCount

LEMMA CallTouches ==
  ASSUME NEW c \in Calls, CallStep(c), CallTypes, SinceType
  PROVE  Touches
<1>. USE DEF Touches, SinceType, authority, lock, collector
<1>0. consumeCount \in Nat
  BY DEF CallTypes
<1>a. ASSUME NEW what \in {"opened", "recorded", "consumed"}, Note(what)
      PROVE  /\ since \subseteq since' /\ SinceType'
             /\ resetting # "idle" => what \in since'
  BY <1>a DEF Note
<1>1. ASSUME NEW r, NEW told, RecordAudit(r, told),
             UNCHANGED <<unlocked, consumeCount>>
      PROVE  Touches
  <2>1. \/ UNCHANGED <<records, since>>
        \/ records' = records \union {r} /\ Note("recorded")
    BY <1>1 DEF RecordAudit
  <2>2. CASE UNCHANGED <<records, since>>
    BY <1>0, <1>1, <2>2
  <2>3. CASE records' = records \union {r} /\ Note("recorded")
    BY <1>0, <1>1, <1>a, <2>3
  <2>. QED
    BY <2>1, <2>2, <2>3
<1>2. ASSUME UNCHANGED <<unlocked, consumeCount, records, since>>
      PROVE  Touches
  BY <1>0, <1>2
<1>3. ASSUME NEW where, NEW r, Arrive(c, where, r)
      PROVE  Touches
  BY <1>2, <1>3 DEF Arrive
<1>4. CASE Review(c)
  BY <1>1, <1>4 DEF Review
<1>5. CASE CheckHealth(c) \/ Decide(c) \/ Unlock(c) \/ Lose(c)
  BY <1>2, <1>5 DEF CheckHealth, Decide, Unlock, Lose
<1>6. CASE ConsumeGranted(c) \/ ConsumeRefused(c)
  BY <1>0, <1>6 DEF ConsumeGranted, ConsumeRefused, Note
<1>7. CASE AllowAudit(c)
  BY <1>1, <1>7 DEF AllowAudit
<1>8. CASE DenyAudit(c)
  BY <1>1, <1>8 DEF DenyAudit
<1>9. CASE ErrorAudit(c)
  BY <1>1, <1>9 DEF ErrorAudit
<1>10. CASE FinalAudit(c)
  BY <1>1, <1>10 DEF FinalAudit
<1>11. CASE Open(c)
  <2>1. UNCHANGED <<records, consumeCount>>
    BY <1>11 DEF Open
  <2>2. \/ ~unlocked /\ unlocked' = TRUE /\ Note("opened")
        \/ unlocked /\ UNCHANGED <<unlocked, since>>
    BY <1>11 DEF Open
  <2>3. CASE ~unlocked /\ unlocked' = TRUE /\ Note("opened")
    BY <1>0, <1>a, <2>1, <2>3
  <2>4. CASE unlocked /\ UNCHANGED <<unlocked, since>>
    BY <1>0, <2>1, <2>4
  <2>. QED
    BY <2>2, <2>3, <2>4
<1>12. CASE AuditEvidence(c) \/ EvidenceLost(c)
  BY <1>2, <1>12 DEF AuditEvidence, EvidenceLost
<1>. QED
  BY <1>3, <1>4, <1>5, <1>6, <1>7, <1>8, <1>9, <1>10, <1>11, <1>12
     DEF CallStep, Handle, StartReview, StartUnknown, StartReplay, StartUnlock

\* The names for how far a reset is.
LEMMA Progress ==
  /\ LockCleared \/ AuditCleared \/ CounterCleared \/ ReadLockDone
       \/ ReadAuditDone => resetting # "idle"
  /\ UNCHANGED resetting =>
       /\ LockCleared' = LockCleared /\ AuditCleared' = AuditCleared
       /\ CounterCleared' = CounterCleared
       /\ ReadLockDone' = ReadLockDone /\ ReadAuditDone' = ReadAuditDone
BY DEF LockCleared, AuditCleared, CounterCleared, ReadLockDone, ReadAuditDone

\* Calls beside a reset do not make what it has read untrue, but for what is
\* noted.
LEMMA SinceCallStep ==
  ASSUME Flags, Flags', CallTypes, CallTypes', ControlTypes, Touches,
         UNCHANGED <<resetting, evidence>>,
         LockSince, AuditSince, CounterSince
  PROVE  LockSince' /\ AuditSince' /\ CounterSince'
<1>1. LockSince'
  <2>1. ReadLockDone => evidence.unlocks \in Nat
    BY DEF ReadLockDone, ControlTypes, EvidenceInv
  <2>2. unlockCount <= unlockCount'
    BY DEF Flags, Touches
  <2>3. unlockCount \in Nat /\ unlockCount' \in Nat
    BY DEF Flags
  <2>4. ReadLockDone => evidence.unlocks <= unlockCount'
    BY <2>1, <2>2, <2>3 DEF LockSince
  <2>. QED
    BY <2>4, Progress DEF LockSince, Touches
<1>2. AuditSince'
  <2>1. ReadAuditDone => evidence.records \in Nat
    BY DEF ReadAuditDone, ControlTypes, EvidenceInv
  <2>2. /\ Cardinality(records) <= Cardinality(records')
        /\ Cardinality(records) \in Nat /\ Cardinality(records') \in Nat
    BY FS_Subset, FS_CardinalityType DEF CallTypes, Touches
  <2>3. ReadAuditDone => evidence.records <= Cardinality(records')
    BY <2>1, <2>2 DEF AuditSince
  <2>. QED
    BY <2>3, Progress DEF AuditSince, Touches
<1>3. CounterSince'
  <2>1. resetting = "ready" => evidence.consumes \in Nat
    BY DEF ControlTypes, EvidenceInv
  <2>2. resetting = "ready" => evidence.consumes <= consumeCount'
    BY <2>1 DEF CounterSince, CallTypes, Touches
  <2>. QED
    BY <2>2, Progress DEF CounterSince, Touches
<1>. QED
  BY <1>1, <1>2, <1>3

\* A reset reads what it has cleared, or what calls have made of it.
LEMMA SinceControlStep ==
  ASSUME Control, Flags, CallTypes, ControlTypes, SinceType,
         LockSince, AuditSince, CounterSince
  PROVE  LockSince' /\ AuditSince' /\ CounterSince' /\ SinceType'
<1>. USE DEF LockSince, AuditSince, CounterSince, SinceType, LockCleared,
             AuditCleared, CounterCleared, ReadLockDone, ReadAuditDone,
             authority, lock, collector
<1>1. CASE StartReset \/ ResetFail
  BY <1>1 DEF StartReset, ResetFail
<1>2. CASE ResetLock
  BY <1>2 DEF ResetLock, NextTarget
<1>3. CASE ResetAudit
  BY <1>3 DEF ResetAudit, NextTarget
<1>4. CASE ResetMetrics
  BY <1>4 DEF ResetMetrics, NextTarget
<1>5. CASE ReadLock
  BY <1>5 DEF ReadLock, Flags
<1>6. CASE ReadAudit
  <2>1. Cardinality({}) = 0 /\ Cardinality(records) \in Nat
    BY FS_EmptySet, FS_CardinalityType DEF CallTypes
  <2>. QED
    BY <1>6, <2>1 DEF ReadAudit
<1>7. CASE ReadAuthority
  BY <1>7 DEF ReadAuthority, CallTypes
<1>. QED
  BY <1>1, <1>2, <1>3, <1>4, <1>5, <1>6, <1>7 DEF Control

LEMMA SinceStep ==
  ASSUME Flags, Flags', CallTypes, CallTypes', ControlTypes, SinceType,
         [Next]_vars, LockSince, AuditSince, CounterSince
  PROVE  LockSince' /\ AuditSince' /\ CounterSince' /\ SinceType'
<1>1. ASSUME NEW c \in Calls, CallStep(c)
      PROVE  LockSince' /\ AuditSince' /\ CounterSince' /\ SinceType'
  BY <1>1, CallTouches, CallStepFlags, SinceCallStep DEF Touches
<1>2. CASE Control
  BY <1>2, SinceControlStep
<1>3. CASE Crash \/ UNCHANGED vars
  <2>1. UNCHANGED <<unlocked, unlockCount, records, consumeCount, since,
                    resetting, evidence>>
    BY <1>3 DEF Crash, vars, authority, lock, collector, control
  <2>. QED
    BY <2>1, Progress DEF LockSince, AuditSince, CounterSince, SinceType
<1>. QED
  BY <1>1, <1>2, <1>3, NextSteps

-----------------------------------------------------------------------------
(* The invariant is inductive *)

LEMMA InitIInv == Init => IInv
<1>. SUFFICES ASSUME Init PROVE IInv
  OBVIOUS
<1>1. IsFiniteSet(records)
  BY FS_EmptySet DEF Init
<1>2. TypeOK
  <2>1. Flags
    BY DEF Init, Flags
  <2>2. CallTypes
    BY <1>1 DEF Init, CallTypes, PCs, Results, Traces
  <2>3. ControlTypes
    BY UnlockAssumption DEF Init, ControlTypes, Evidence, EvidenceInv
  <2>4. SinceType
    BY DEF Init, SinceType
  <2>. QED
    BY <2>1, <2>2, <2>3, <2>4, TypeParts
<1>3. \A c \in Calls : CallInv(c)
  BY DEF Init, CallInv, Unheard, Placed, Effective, Refused, Told, NoRequest
<1>4. SpentOnce /\ EvidenceInv /\ LockSince /\ AuditSince /\ CounterSince
  BY Progress
     DEF Init, SpentOnce, EvidenceInv, LockSince, AuditSince, CounterSince
<1>. QED
  BY <1>1, <1>2, <1>3, <1>4 DEF IInv

LEMMA NextIInv == IInv /\ [Next]_vars => IInv'
<1>. SUFFICES ASSUME IInv, [Next]_vars PROVE IInv'
  OBVIOUS
<1>1. Flags /\ CallTypes /\ ControlTypes /\ SinceType
  BY TypeParts DEF IInv
<1>2. Flags' /\ CallTypes' /\ ControlTypes'
  BY <1>1, Types
<1>3. LockSince' /\ AuditSince' /\ CounterSince' /\ SinceType'
  BY <1>1, <1>2, SinceStep DEF IInv
<1>4. TypeOK' /\ IsFiniteSet(records)' /\ EvidenceInv'
  BY <1>2, <1>3, TypeParts, PTL
<1>5. \A c \in Calls : CallInv(c)'
  BY <1>1, CallsInv DEF IInv
<1>6. SpentOnce'
  BY <1>1, SpentOnceStep DEF IInv
<1>. QED
  BY <1>3, <1>4, <1>5, <1>6 DEF IInv

\* The gateway, the Authority, the lock, the collector and demo-control keep
\* the invariant, whatever the requests, losses, crashes and resets.
THEOREM Inductive == Spec => []IInv
BY InitIInv, NextIInv, PTL DEF Spec

\* Types; the lock's counter agrees with its state, which its reset clears
\* together with it.
THEOREM TypeCorrect == Spec => []TypeOK
<1>1. IInv => TypeOK
  BY DEF IInv
<1>. QED
  BY <1>1, Inductive, PTL

\* No call opens the lock, or may still open it, that was not the Owner's, for
\* the fixed device, with an exact Approval it has spent, and recorded as
\* allowed: the order of unlockHandler's steps, whatever happens between them.
THEOREM EffectsBacked == Spec => []EffectBacked
<1>1. IInv => EffectBacked
  BY DEF IInv, CallInv, Effective, Backed, Exact, EffectBacked
<1>. QED
  BY <1>1, Inductive, PTL

\* However many calls name an Approval, and however often demo-control resets
\* the lock and the counters, only one of them opens the lock.
THEOREM OncePerApproval == Spec => []OneEffectPerApproval
<1>1. ASSUME IInv, NEW c \in effects, NEW d \in effects,
             req[c].approval = req[d].approval
      PROVE  c = d
  <2>. DEFINE u == [trace |-> req[c].approval, by |-> c]
              v == [trace |-> req[d].approval, by |-> d]
  <2>1. c \in Calls /\ d \in Calls
    BY <1>1 DEF IInv, TypeOK
  <2>2. u \in spent /\ v \in spent
    BY <1>1, <2>1 DEF IInv, CallInv, Effective, Backed
  <2>3. u = v
    BY <1>1, <2>2 DEF IInv, SpentOnce
  <2>. QED
    BY <2>3
<1>2. IInv => OneEffectPerApproval
  BY <1>1 DEF OneEffectPerApproval
<1>. QED
  BY <1>2, Inductive, PTL

\* Who is told "unlocked" opened the lock with this call, and every answer has
\* been recorded with its outcome.
THEOREM ToldTruly == Spec => []ToldAndRecorded
<1>1. IInv => ToldAndRecorded
  BY DEF IInv, CallInv, ToldAndRecorded
<1>. QED
  BY <1>1, Inductive, PTL

\* A denial the replay demo shows is the policy's own, with nothing consumed
\* and nothing sent to the lock.
THEOREM ReplaysShown == Spec => []ReplayEvidence
<1>1. ASSUME IInv, NEW c \in Calls, replay[c] = "shown"
      PROVE  /\ Record(c, "decision", "deny") \in accepted
             /\ Record(c, "approval", "deny") \notin accepted
             /\ \A u \in spent : u.by # c
             /\ c \notin effects \union wire
  <2>1. req[c].subject # Owner /\ result[c] = "denied"
    BY <1>1 DEF IInv, CallInv, Refused
  <2>. QED
    BY <1>1, <2>1 DEF IInv, CallInv, Refused, Effective, Backed, Exact
<1>2. IInv => ReplayEvidence
  BY <1>1 DEF ReplayEvidence
<1>. QED
  BY <1>2, Inductive, PTL

\* What a reset answers is true of every target that no call has changed since
\* it began, and otherwise misses at most what calls did after it looked.
THEOREM ResetsTrue == Spec => []ResetEvidence
<1>1. IInv => ResetEvidence
  BY DEF IInv, LockSince, AuditSince, CounterSince, LockCleared, AuditCleared,
         CounterCleared, ReadLockDone, ReadAuditDone, ResetEvidence
<1>. QED
  BY <1>1, Inductive, PTL

-----------------------------------------------------------------------------
(* The unlock flow and the Authority's promise *)

\* Where a call has not been granted an Approval yet.
Asking == {"idle", "discovery", "health", "policy", "consume"}

\* A call that was granted an Approval was granted the one it came with, and
\* does not ask again; a review that drew a trace has ended.
OwnSpent ==
  /\ \A u \in spent : pc[u.by] \notin Asking /\ u.trace = req[u.by].approval
  /\ \A c \in Calls : c \in approvals => pc[c] = "done"

\* A step that is not about Approvals.
Indifferent ==
  /\ UNCHANGED <<approvals, spent, req>>
  /\ \A c \in Calls : /\ pc[c] \notin Asking => pc'[c] \notin Asking
                      /\ pc[c] = "done" => pc'[c] = "done"

\* An Approval is signed for the review c.
Sign(c) ==
  /\ pc[c] = "discovery" /\ pc' = [pc EXCEPT ![c] = "done"]
  /\ approvals' = approvals \union {c}
  /\ UNCHANGED <<spent, req>>

\* The steps that are about Approvals; the others leave them, and what a call
\* asks for, alone, and take no call back to asking.
LEMMA ApprovalSteps ==
  ASSUME CallTypes, [Next]_vars
  PROVE  \/ \E c \in Calls : Sign(c) \/ ConsumeGranted(c)
         \/ \E c \in Calls : \E where, r : Arrive(c, where, r)
         \/ Indifferent
<1>. USE DEF Goto, Conclude, Finish, gateway, authority, CallTypes,
             Indifferent, Asking
<1>1. CASE UNCHANGED vars
  BY <1>1 DEF vars
<1>2. CASE Control
  BY <1>2 DEF Control, StartReset, ResetLock, ResetAudit, ResetMetrics,
              ReadLock, ReadAudit, ReadAuthority, ResetFail
<1>3. CASE Crash
  BY <1>3 DEF Crash, Running
<1>4. ASSUME NEW c \in Calls, Review(c)
      PROVE  Sign(c) \/ Indifferent
  BY <1>4 DEF Review, Sign
<1>5. ASSUME NEW c \in Calls, CheckHealth(c) \/ Decide(c)
      PROVE  Indifferent
  BY <1>5 DEF CheckHealth, Decide
<1>6. ASSUME NEW c \in Calls, ConsumeRefused(c) \/ AllowAudit(c)
      PROVE  Indifferent
  BY <1>6 DEF ConsumeRefused, AllowAudit
<1>7. ASSUME NEW c \in Calls, DenyAudit(c) \/ ErrorAudit(c)
      PROVE  Indifferent
  BY <1>7 DEF DenyAudit, ErrorAudit
<1>8. ASSUME NEW c \in Calls, Unlock(c) \/ FinalAudit(c)
      PROVE  Indifferent
  BY <1>8 DEF Unlock, FinalAudit
<1>9. ASSUME NEW c \in Calls,
             AuditEvidence(c) \/ EvidenceLost(c) \/ Open(c) \/ Lose(c)
      PROVE  Indifferent
  BY <1>9 DEF AuditEvidence, EvidenceLost, Open, Lose
<1>10. ASSUME NEW c \in Calls, CallStep(c)
       PROVE  \/ Sign(c) \/ ConsumeGranted(c) \/ Indifferent
              \/ \E where, r : Arrive(c, where, r)
  <2>1. CASE Handle(c) \/ Open(c) \/ Lose(c)
    BY <2>1, <1>4, <1>5, <1>6, <1>7, <1>8, <1>9 DEF Handle
  <2>. QED
    BY <1>10, <2>1, Zenon
       DEF CallStep, StartReview, StartUnknown, StartReplay, StartUnlock
<1>. QED
  BY <1>1, <1>2, <1>3, <1>10, NextSteps

LEMMA OwnStep ==
  ASSUME CallTypes, OwnSpent, [Next]_vars
  PROVE  OwnSpent'
<1>. USE DEF OwnSpent, CallTypes, Asking, authority
<1>1. ASSUME NEW c \in Calls, Sign(c)
      PROVE  OwnSpent'
  BY <1>1 DEF Sign
<1>2. ASSUME NEW c \in Calls, ConsumeGranted(c)
      PROVE  OwnSpent'
  BY <1>2 DEF ConsumeGranted, Goto
<1>3. ASSUME NEW c \in Calls, NEW where, NEW r, Arrive(c, where, r)
      PROVE  OwnSpent'
  BY <1>3 DEF Arrive, Goto
<1>4. CASE Indifferent
  BY <1>4 DEF Indifferent
<1>. QED
  BY <1>1, <1>2, <1>3, <1>4, ApprovalSteps

\* Each step of the unlock flow, the demo's resets and the gateway's crashes
\* included, is one OneTimeApproval allows: what the Authority is proved to
\* promise is what this model takes from it.
THEOREM KeepsPromise == Spec => AsPromised
<1>1. ASSUME CallTypes, OwnSpent, [Next]_vars
      PROVE  Promised!Next \/ UNCHANGED <<issued, grant>>
  <2>1. ASSUME NEW c \in Calls, ConsumeGranted(c)
        PROVE  Promised!Grant(c)
    <3>. DEFINE a == Signed(req[c].approval)
    <3>1. /\ UNCHANGED <<approvals, req>> /\ pc[c] = "consume"
          /\ Exact(c) /\ Unspent(req[c].approval)
          /\ spent' = spent \union {[trace |-> req[c].approval, by |-> c]}
      BY <2>1 DEF ConsumeGranted
    <3>2. grant[c] = NoRequest
      BY <1>1, <3>1 DEF grant, GrantOf, OwnSpent, Asking
    <3>3. a \in issued /\ issued' = issued
      BY <3>1 DEF issued, Exact
    <3>4. a.nonce = req[c].approval /\ a.binding = BindingOf(c)
      BY <3>1 DEF Signed, BindingOf, Exact
    <3>5. ASSUME NEW q \in Calls, grant[q] # NoRequest
          PROVE  grant[q].approval.nonce # a.nonce
      <4>1. PICK u \in spent : u.by = q
        BY <3>5 DEF grant, GrantOf
      <4>2. u.trace = req[q].approval /\ u.trace # req[c].approval
        BY <1>1, <3>1, <4>1 DEF OwnSpent, Unspent
      <4>3. grant[q].approval.nonce = req[q].approval
        BY <4>1 DEF grant, GrantOf, Signed
      <4>. QED
        BY <3>4, <4>2, <4>3
    <3>6. ASSUME NEW q \in Calls
          PROVE  GrantOf(q)' = IF q = c
                                 THEN [approval |-> a, binding |-> a.binding]
                                 ELSE GrantOf(q)
      <4>. DEFINE w == [trace |-> req[c].approval, by |-> c]
      <4>1. w.by = c /\ spent' = spent \union {w}
        BY <3>1
      <4>. HIDE DEF w
      <4>2. (\E u \in spent' : u.by = q)
              <=> q = c \/ \E u \in spent : u.by = q
        BY <4>1
      <4>3. BindingOf(q)' = BindingOf(q) /\ req' = req
        BY <3>1 DEF BindingOf
      <4>. QED
        BY <3>4, <4>2, <4>3 DEF GrantOf
    <3>. HIDE DEF a
    <3>7. grant' = [grant EXCEPT ![c] = [approval |-> a, binding |-> a.binding]]
      BY <3>6 DEF grant
    <3>. QED
      BY <3>2, <3>3, <3>5, <3>7 DEF Promised!Grant
  <2>2. ASSUME NEW c \in Calls, Sign(c)
        PROVE  Promised!Issue
    <3>1. c \notin approvals /\ approvals' = approvals \union {c}
      BY <1>1, <2>2 DEF Sign, OwnSpent
    <3>2. \A t : Signed(t).nonce = t /\ Signed(t)' = Signed(t)
      BY DEF Signed
    <3>3. issued' = issued \union {Signed(c)} /\ Signed(c) \in issued'
      BY <3>1, <3>2 DEF issued
    <3>4. \A other \in issued : other.nonce # Signed(c).nonce
      BY <3>1, <3>2 DEF issued
    <3>5. UNCHANGED grant
      BY <2>2 DEF Sign, grant, GrantOf, BindingOf
    <3>. QED
      BY <3>3, <3>4, <3>5 DEF Promised!Issue
  <2>3. ASSUME NEW c \in Calls, NEW where, NEW r, Arrive(c, where, r)
        PROVE  UNCHANGED <<issued, grant>>
    <3>1. /\ pc[c] = "idle" /\ UNCHANGED <<approvals, spent>>
          /\ \A q \in Calls \ {c} : req'[q] = req[q]
      BY <1>1, <2>3 DEF Arrive, authority, CallTypes
    <3>2. \A u \in spent : u.by # c
      BY <1>1, <3>1 DEF OwnSpent, Asking
    <3>3. \A q \in Calls : GrantOf(q)' = GrantOf(q)
      BY <3>1, <3>2 DEF GrantOf, BindingOf
    <3>. QED
      BY <3>1, <3>3 DEF issued, grant
  <2>4. CASE Indifferent
    BY <2>4 DEF Indifferent, issued, grant, GrantOf, BindingOf
  <2>. QED
    BY <1>1, <2>1, <2>2, <2>3, <2>4, ApprovalSteps DEF Promised!Next
<1>2. IInv /\ OwnSpent /\ [Next]_vars
        => [Promised!Next]_<<issued, grant>> /\ OwnSpent'
  BY <1>1, OwnStep, TypeParts DEF IInv
<1>3. Init => OwnSpent
  BY UnlockAssumption DEF Init, OwnSpent
<1>. QED
  BY <1>2, <1>3, Inductive, PTL DEF Spec, AsPromised

=============================================================================
