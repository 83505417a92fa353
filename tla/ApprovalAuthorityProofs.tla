----------------------- MODULE ApprovalAuthorityProofs -----------------------
(***************************************************************************)
(* Proofs about ApprovalAuthority, for every set of requests, nonces and   *)
(* bindings, every TTL and every clock bound.                              *)
(***************************************************************************)
EXTENDS ApprovalAuthority, TLAPS

\* A signed expiry is a time.
LEMMA ExpiresAtNat ==
  ASSUME NEW t \in Nat
  PROVE  ExpiresAt(t) \in Nat
<1>1. t + TTL \in Nat /\ Second \in Nat \ {0}
  BY ConstantAssumption
<1>2. (t + TTL) \div Second \in Nat
  BY <1>1
<1>3. \A a, b \in Nat : a * b \in Nat
  OBVIOUS
<1>. QED
  BY <1>1, <1>2, <1>3 DEF ExpiresAt

\* Every step keeps the types.
LEMMA TypeStep ==
  ASSUME IInv, [Next]_vars
  PROVE  TypeOK'
<1>. USE DEF IInv, TypeOK, DoneInv, Granted, Approvals, Inputs, PCs, Replies
<1>1. ASSUME NEW b \in Bindings, IssueCheck(b)
      PROVE  TypeOK'
  BY <1>1 DEF IssueCheck, memory, disk
<1>2. ASSUME NEW b \in Bindings, IssueSign(b)
      PROVE  TypeOK'
  BY <1>2, ExpiresAtNat DEF IssueSign, memory, disk
<1>3. ASSUME NEW r \in Requests, NEW b \in Bindings,
              NEW t \in issued \union {NoToken}, Receive(r, t, b)
      PROVE  TypeOK'
  BY <1>3 DEF Receive, Goto, memory, disk
<1>4. ASSUME NEW r \in Requests, StateAvailable(r)
      PROVE  TypeOK'
  BY <1>4 DEF StateAvailable, Goto, Answer, memory, disk
<1>5. ASSUME NEW r \in Requests, Verify(r)
      PROVE  TypeOK'
  BY <1>5 DEF Verify, Goto, Answer, ExactAndAlive, memory, disk
<1>6. ASSUME NEW r \in Requests, Lock(r)
      PROVE  TypeOK'
  BY <1>6, ConstantAssumption DEF Lock, Goto, Answer, NonceOf, memory, disk
<1>7. ASSUME NEW r \in Requests, PersistOk(r)
      PROVE  TypeOK'
  BY <1>7, ConstantAssumption
     DEF PersistOk, Goto, WriteLine, MergedLines, NonceOf, memory, disk
<1>8. ASSUME NEW r \in Requests, PersistFail(r)
      PROVE  TypeOK'
  BY <1>8, ConstantAssumption
     DEF PersistFail, Answer, WriteLine, WritePart, MergedLines, NonceOf,
         memory, disk
<1>9. ASSUME NEW r \in Requests, Commit(r)
      PROVE  TypeOK'
  BY <1>9 DEF Commit, Answer, NonceOf, memory, disk
<1>10. CASE ResetMetrics
  BY <1>10 DEF ResetMetrics, memory, disk
<1>11. CASE Crash
  BY <1>11 DEF Crash, InFlight, memory, disk
<1>12. CASE Restart
  BY <1>12, ConstantAssumption DEF Restart, Stored, memory, disk
<1>13. CASE Tick
  BY <1>13, ConstantAssumption DEF Tick, memory, disk
<1>14. CASE UNCHANGED vars
  BY <1>14 DEF vars, memory, disk
<1>. QED
  BY <1>1, <1>2, <1>3, <1>4, <1>5, <1>6, <1>7, <1>8, <1>9,
     <1>10, <1>11, <1>12, <1>13, <1>14 DEF Next, Step

\* Every step keeps the mutex with the request that is writing.
LEMMA MutexStep ==
  ASSUME IInv, [Next]_vars
  PROVE  MutexInv'
<1>. USE DEF IInv, TypeOK, MutexInv, DownInv, InFlight
<1>1. ASSUME NEW b \in Bindings, IssueCheck(b)
      PROVE  MutexInv'
  BY <1>1 DEF IssueCheck, memory, disk
<1>2. ASSUME NEW b \in Bindings, IssueSign(b)
      PROVE  MutexInv'
  BY <1>2 DEF IssueSign, memory, disk
<1>3. ASSUME NEW r \in Requests, NEW b \in Bindings,
              NEW t \in issued \union {NoToken}, Receive(r, t, b)
      PROVE  MutexInv'
  BY <1>3 DEF Receive, Goto, memory, disk
<1>4. ASSUME NEW r \in Requests, StateAvailable(r)
      PROVE  MutexInv'
  BY <1>4 DEF StateAvailable, Goto, Answer, memory, disk
<1>5. ASSUME NEW r \in Requests, Verify(r)
      PROVE  MutexInv'
  BY <1>5 DEF Verify, Goto, Answer, ExactAndAlive, memory, disk
<1>6. ASSUME NEW r \in Requests, Lock(r)
      PROVE  MutexInv'
  BY <1>6, ConstantAssumption DEF Lock, Goto, Answer, NonceOf, memory, disk
<1>7. ASSUME NEW r \in Requests, PersistOk(r)
      PROVE  MutexInv'
  BY <1>7
     DEF PersistOk, Goto, WriteLine, NonceOf, memory, disk
<1>8. ASSUME NEW r \in Requests, PersistFail(r)
      PROVE  MutexInv'
  BY <1>8, ConstantAssumption
     DEF PersistFail, Answer, WriteLine, WritePart, NonceOf, memory, disk
<1>9. ASSUME NEW r \in Requests, Commit(r)
      PROVE  MutexInv'
  BY <1>9, ConstantAssumption DEF Commit, Answer, NonceOf, memory, disk
<1>10. CASE ResetMetrics
  BY <1>10 DEF ResetMetrics, memory, disk
<1>11. CASE Crash
  BY <1>11, ConstantAssumption DEF Crash, memory, disk
<1>12. CASE Restart
  BY <1>12 DEF Restart, Stored, memory, disk
<1>13. CASE Tick
  BY <1>13 DEF Tick, memory, disk
<1>14. CASE UNCHANGED vars
  BY <1>14 DEF vars, memory, disk
<1>. QED
  BY <1>1, <1>2, <1>3, <1>4, <1>5, <1>6, <1>7, <1>8, <1>9,
     <1>10, <1>11, <1>12, <1>13, <1>14 DEF Next, Step

\* A process that is down has no memory, after every step.
LEMMA DownStep ==
  ASSUME IInv, [Next]_vars
  PROVE  DownInv'
<1>. USE DEF IInv, TypeOK, MutexInv, DownInv, InFlight
<1>1. ASSUME NEW b \in Bindings, IssueCheck(b)
      PROVE  DownInv'
  BY <1>1 DEF IssueCheck, memory, disk
<1>2. ASSUME NEW b \in Bindings, IssueSign(b)
      PROVE  DownInv'
  BY <1>2 DEF IssueSign, memory, disk
<1>3. ASSUME NEW r \in Requests, NEW b \in Bindings,
              NEW t \in issued \union {NoToken}, Receive(r, t, b)
      PROVE  DownInv'
  BY <1>3 DEF Receive, Goto, memory, disk
<1>4. ASSUME NEW r \in Requests, StateAvailable(r)
      PROVE  DownInv'
  BY <1>4 DEF StateAvailable, Goto, Answer, memory, disk
<1>5. ASSUME NEW r \in Requests, Verify(r)
      PROVE  DownInv'
  BY <1>5 DEF Verify, Goto, Answer, ExactAndAlive, memory, disk
<1>6. ASSUME NEW r \in Requests, Lock(r)
      PROVE  DownInv'
  BY <1>6 DEF Lock, Goto, Answer, NonceOf, memory, disk
<1>7. ASSUME NEW r \in Requests, PersistOk(r)
      PROVE  DownInv'
  BY <1>7
     DEF PersistOk, Goto, WriteLine, NonceOf, memory, disk
<1>8. ASSUME NEW r \in Requests, PersistFail(r)
      PROVE  DownInv'
  BY <1>8
     DEF PersistFail, Answer, WriteLine, WritePart, NonceOf, memory, disk
<1>9. ASSUME NEW r \in Requests, Commit(r)
      PROVE  DownInv'
  BY <1>9 DEF Commit, Answer, NonceOf, memory, disk
<1>10. CASE ResetMetrics
  BY <1>10 DEF ResetMetrics, memory, disk
<1>11. CASE Crash
  BY <1>11 DEF Crash, memory, disk
<1>12. CASE Restart
  BY <1>12 DEF Restart, Stored, memory, disk
<1>13. CASE Tick
  BY <1>13 DEF Tick, memory, disk
<1>14. CASE UNCHANGED vars
  BY <1>14 DEF vars, memory, disk
<1>. QED
  BY <1>1, <1>2, <1>3, <1>4, <1>5, <1>6, <1>7, <1>8, <1>9,
     <1>10, <1>11, <1>12, <1>13, <1>14 DEF Next, Step

\* Every step answers a request at most once, at its end.
LEMMA DoneStep ==
  ASSUME IInv, [Next]_vars
  PROVE  DoneInv'
<1>. USE DEF IInv, TypeOK, DoneInv, InFlight
<1>1. ASSUME NEW b \in Bindings, IssueCheck(b)
      PROVE  DoneInv'
  BY <1>1 DEF IssueCheck, memory, disk
<1>2. ASSUME NEW b \in Bindings, IssueSign(b)
      PROVE  DoneInv'
  BY <1>2 DEF IssueSign, memory, disk
<1>3. ASSUME NEW r \in Requests, NEW b \in Bindings,
              NEW t \in issued \union {NoToken}, Receive(r, t, b)
      PROVE  DoneInv'
  BY <1>3 DEF Receive, Goto, memory, disk
<1>4. ASSUME NEW r \in Requests, StateAvailable(r)
      PROVE  DoneInv'
  BY <1>4 DEF StateAvailable, Goto, Answer, memory, disk
<1>5. ASSUME NEW r \in Requests, Verify(r)
      PROVE  DoneInv'
  BY <1>5 DEF Verify, Goto, Answer, ExactAndAlive, memory, disk
<1>6. ASSUME NEW r \in Requests, Lock(r)
      PROVE  DoneInv'
  BY <1>6 DEF Lock, Goto, Answer, NonceOf, memory, disk
<1>7. ASSUME NEW r \in Requests, PersistOk(r)
      PROVE  DoneInv'
  BY <1>7
     DEF PersistOk, Goto, WriteLine, NonceOf, memory, disk
<1>8. ASSUME NEW r \in Requests, PersistFail(r)
      PROVE  DoneInv'
  BY <1>8
     DEF PersistFail, Answer, WriteLine, WritePart, NonceOf, memory, disk
<1>9. ASSUME NEW r \in Requests, Commit(r)
      PROVE  DoneInv'
  BY <1>9 DEF Commit, Answer, NonceOf, memory, disk
<1>10. CASE ResetMetrics
  BY <1>10 DEF ResetMetrics, memory, disk
<1>11. CASE Crash
  BY <1>11 DEF Crash, memory, disk
<1>12. CASE Restart
  BY <1>12 DEF Restart, Stored, memory, disk
<1>13. CASE Tick
  BY <1>13 DEF Tick, memory, disk
<1>14. CASE UNCHANGED vars
  BY <1>14 DEF vars, memory, disk
<1>. QED
  BY <1>1, <1>2, <1>3, <1>4, <1>5, <1>6, <1>7, <1>8, <1>9,
     <1>10, <1>11, <1>12, <1>13, <1>14 DEF Next, Step

\* What was verified about a request stays true.
LEMMA SignedStep ==
  ASSUME IInv, [Next]_vars
  PROVE  SignedInv'
<1>. USE DEF IInv, TypeOK, DoneInv, SignedInv, Granted, InFlight, Approvals
<1>0. clock \in Nat /\ \A q \in Requests : input[q].at \in Nat
  BY DEF Inputs, NoInput
<1>1. ASSUME NEW b \in Bindings, IssueCheck(b)
      PROVE  SignedInv'
  BY <1>1 DEF IssueCheck, memory, disk
<1>2. ASSUME NEW b \in Bindings, IssueSign(b)
      PROVE  SignedInv'
  BY <1>2, ExpiresAtNat DEF IssueSign, memory, disk
<1>3. ASSUME NEW r \in Requests, NEW b \in Bindings,
              NEW t \in issued \union {NoToken}, Receive(r, t, b)
      PROVE  SignedInv'
  BY <1>3, <1>0 DEF Receive, Goto, memory, disk
<1>4. ASSUME NEW r \in Requests, StateAvailable(r)
      PROVE  SignedInv'
  BY <1>4 DEF StateAvailable, Goto, Answer, memory, disk
<1>5. ASSUME NEW r \in Requests, Verify(r)
      PROVE  SignedInv'
  BY <1>5, <1>0 DEF Verify, Goto, Answer, ExactAndAlive, memory, disk
<1>6. ASSUME NEW r \in Requests, Lock(r)
      PROVE  SignedInv'
  BY <1>6 DEF Lock, Goto, Answer, NonceOf, memory, disk
<1>7. ASSUME NEW r \in Requests, PersistOk(r)
      PROVE  SignedInv'
  BY <1>7
     DEF PersistOk, Goto, WriteLine, NonceOf, memory, disk
<1>8. ASSUME NEW r \in Requests, PersistFail(r)
      PROVE  SignedInv'
  BY <1>8
     DEF PersistFail, Answer, WriteLine, WritePart, NonceOf, memory, disk
<1>9. ASSUME NEW r \in Requests, Commit(r)
      PROVE  SignedInv'
  BY <1>9 DEF Commit, Answer, NonceOf, memory, disk
<1>10. CASE ResetMetrics
  BY <1>10 DEF ResetMetrics, memory, disk
<1>11. CASE Crash
  BY <1>11 DEF Crash, memory, disk
<1>12. CASE Restart
  BY <1>12 DEF Restart, Stored, memory, disk
<1>13. CASE Tick
  BY <1>13, <1>0 DEF Tick, memory, disk
<1>14. CASE UNCHANGED vars
  BY <1>14 DEF vars, memory, disk
<1>. QED
  BY <1>1, <1>2, <1>3, <1>4, <1>5, <1>6, <1>7, <1>8, <1>9,
     <1>10, <1>11, <1>12, <1>13, <1>14 DEF Next, Step

\* File, memory and answers keep agreeing on the spent nonces.
LEMMA SpentStep ==
  ASSUME IInv, [Next]_vars
  PROVE  SpentInv'
<1>. USE DEF IInv, TypeOK, MutexInv, DownInv, DoneInv, SpentInv,
       SingleUseUnlessMerged, Granted, InFlight, NonceOf
<1>1. ASSUME NEW b \in Bindings, IssueCheck(b)
      PROVE  SpentInv'
  BY <1>1 DEF IssueCheck, memory, disk
<1>2. ASSUME NEW b \in Bindings, IssueSign(b)
      PROVE  SpentInv'
  BY <1>2 DEF IssueSign, memory, disk
<1>3. ASSUME NEW r \in Requests, NEW b \in Bindings,
              NEW t \in issued \union {NoToken}, Receive(r, t, b)
      PROVE  SpentInv'
  BY <1>3 DEF Receive, Goto, memory, disk
<1>4. ASSUME NEW r \in Requests, StateAvailable(r)
      PROVE  SpentInv'
  BY <1>4 DEF StateAvailable, Goto, Answer, memory, disk
<1>5. ASSUME NEW r \in Requests, Verify(r)
      PROVE  SpentInv'
  BY <1>5 DEF Verify, Goto, Answer, ExactAndAlive, memory, disk
<1>6. ASSUME NEW r \in Requests, Lock(r)
      PROVE  SpentInv'
  BY <1>6, ConstantAssumption DEF Lock, Goto, Answer, memory, disk
<1>7. ASSUME NEW r \in Requests, PersistOk(r)
      PROVE  SpentInv'
  <2>1. /\ pc[r] = "persist" /\ NonceOf(r) \notin used /\ up /\ ~stateErr
        /\ NonceOf(r) \in Nonces
        /\ \A q \in Requests \ {r} : pc[q] \notin {"persist", "commit"}
    BY <1>7, ConstantAssumption DEF PersistOk, Approvals
  <2>2. /\ pc' = [pc EXCEPT ![r] = "commit"]
        /\ UNCHANGED <<up, stateErr, used, reply, input>>
    BY <1>7 DEF PersistOk, Goto, memory
  <2>3. lines' = lines \union {NonceOf(r)}
          \/ lines' = lines \union {MergedLine(NonceOf(r))}
    BY <1>7 DEF PersistOk, WriteLine
  <2>4. NonceOf(r) \notin lines
    BY <2>1
  <2>5. \A q \in Requests :
          /\ Granted(q) \/ pc[q] = "commit" =>
               {NonceOf(q), MergedLine(NonceOf(q))} \cap lines' # {}
          /\ MergedLine(NonceOf(q)) \notin lines' =>
               MergedLine(NonceOf(q)) \notin lines
    BY <2>3
  <2>6. {NonceOf(r), MergedLine(NonceOf(r))} \cap lines' # {}
    BY <2>3
  <2>7. MergedLine(NonceOf(r)) \notin lines' =>
          \A q \in Requests : Granted(q) => NonceOf(q) # NonceOf(r)
    BY <2>4, <2>5
  <2>8. \A n \in Nonces \cap lines' : n \in lines \/ n = NonceOf(r)
    BY <2>1, <2>3, ConstantAssumption
  <2>9. SingleUseUnlessMerged'
    BY <2>2, <2>5
  <2>10. \A n \in Nonces \cap lines' :
           n \in used \/ \E q \in Requests : pc'[q] = "commit" /\ NonceOf(q) = n
    BY <2>1, <2>2, <2>8
  <2>. QED
    BY <2>1, <2>2, <2>5, <2>6, <2>7, <2>9, <2>10
<1>8. ASSUME NEW r \in Requests, PersistFail(r)
      PROVE  SpentInv'
  BY <1>8, ConstantAssumption
     DEF PersistFail, Answer, WriteLine, WritePart, memory, disk
<1>9. ASSUME NEW r \in Requests, Commit(r)
      PROVE  SpentInv'
  BY <1>9, ConstantAssumption DEF Commit, Answer, memory, disk
<1>10. CASE ResetMetrics
  BY <1>10 DEF ResetMetrics, memory, disk
<1>11. CASE Crash
  BY <1>11 DEF Crash, memory, disk
<1>12. CASE Restart
  BY <1>12 DEF Restart, Stored, memory, disk
<1>13. CASE Tick
  BY <1>13 DEF Tick, memory, disk
<1>14. CASE UNCHANGED vars
  BY <1>14 DEF vars, memory, disk
<1>. QED
  BY <1>1, <1>2, <1>3, <1>4, <1>5, <1>6, <1>7, <1>8, <1>9,
     <1>10, <1>11, <1>12, <1>13, <1>14 DEF Next, Step

\* IInv is an invariant of the Authority.
THEOREM Inductive == Spec => []IInv
<1>1. Init => IInv
  <2>. SUFFICES ASSUME Init PROVE IInv
    OBVIOUS
  <2>. USE DEF Init
  <2>1. TypeOK
    BY DEF TypeOK, Granted, PCs, Replies
  <2>2. MutexInv /\ DownInv /\ DoneInv
    BY ConstantAssumption DEF MutexInv, DownInv, DoneInv, InFlight
  <2>3. SignedInv
    BY DEF SignedInv, Granted, NoInput
  <2>4. SpentInv
    BY DEF SpentInv, SingleUseUnlessMerged, Granted
  <2>. QED
    BY <2>1, <2>2, <2>3, <2>4 DEF IInv
<1>2. IInv /\ [Next]_vars => IInv'
  BY TypeStep, MutexStep, DownStep, DoneStep, SignedStep, SpentStep DEF IInv
<1>. QED
  BY <1>1, <1>2, PTL DEF Spec

\* Types: every variable of the Authority keeps its type, and a request past
\* the verification carries a verified token.
THEOREM TypeCorrect == Spec => []TypeOK
<1>1. IInv => TypeOK
  BY DEF IInv
<1>. QED
  BY <1>1, Inductive, PTL

\* Whatever the storage does, an Approval is consumed twice only if its own
\* nonce was appended by persistNonce to the remains of a failed append.
THEOREM SingleUseOrMerged == Spec => []SingleUseUnlessMerged
<1>1. IInv => SingleUseUnlessMerged
  BY DEF IInv, SpentInv, SingleUseUnlessMerged
<1>. QED
  BY <1>1, Inductive, PTL

\* Whatever the storage does, consume answers 204 only for an Approval that was
\* signed for exactly the presented binding, names the Owner, and was alive
\* when the request arrived.
THEOREM ExactlyGranted == Spec => []GrantedExactly
<1>1. IInv => GrantedExactly
  BY DEF IInv, SignedInv, GrantedExactly
<1>. QED
  BY <1>1, Inductive, PTL

\* If appends are never torn, the state file holds whole lines only.
LEMMA AppendsWhole ==
  ASSUME ~TornWrites
  PROVE  Spec => []WholeLines
<1>1. Init => WholeLines
  BY ConstantAssumption DEF Init, WholeLines
<1>2. IInv /\ WholeLines /\ [Next]_vars => WholeLines'
  <2>. SUFFICES ASSUME IInv, WholeLines, [Next]_vars
                PROVE  WholeLines'
    OBVIOUS
  <2>1. ASSUME NEW r \in Requests, PersistOk(r) \/ PersistFail(r)
        PROVE  WholeLines'
    BY <2>1, ConstantAssumption
       DEF WholeLines, PersistOk, PersistFail, WriteLine, WritePart, disk,
           IInv, TypeOK, NonceOf, Approvals
  <2>2. CASE UNCHANGED disk
    BY <2>2 DEF WholeLines, disk
  <2>. QED
    BY <2>1, <2>2
       DEF Next, Step, vars, IssueCheck, IssueSign, Receive, StateAvailable,
           Verify, Lock, Commit, ResetMetrics, Crash, Restart, Tick, disk
<1>. QED
  BY <1>1, <1>2, Inductive, PTL DEF Spec

\* A file of whole lines has the line of every nonce that was granted or is
\* about to be, and damaged none.
LEMMA WholeLinesSpent ==
  ASSUME IInv, WholeLines
  PROVE  \A r \in Requests :
           Granted(r) \/ pc[r] = "commit" =>
             NonceOf(r) \in lines /\ MergedLine(NonceOf(r)) \notin lines
<1>. TAKE r \in Requests
<1>. HAVE Granted(r) \/ pc[r] = "commit"
<1>1. NonceOf(r) \in Nonces
  BY DEF IInv, TypeOK, NonceOf, Approvals
<1>2. MergedLine(NonceOf(r)) \notin lines
  BY <1>1, ConstantAssumption DEF WholeLines
<1>. QED
  BY <1>2 DEF IInv, SpentInv

\* If appends are never torn, every Approval is consumed at most once, across
\* all interleavings and restarts.
THEOREM ConsumedOnce ==
  ASSUME ~TornWrites
  PROVE  Spec => []SingleUse
<1>1. IInv /\ WholeLines => SingleUse
  BY WholeLinesSpent
     DEF IInv, SpentInv, SingleUseUnlessMerged, SingleUse
<1>. QED
  BY <1>1, Inductive, AppendsWhole, PTL

\* If appends are never torn, a nonce answered 204 stays in the state file.
THEOREM GrantsDurable ==
  ASSUME ~TornWrites
  PROVE  Spec => []GrantSurvives
<1>1. IInv /\ WholeLines => GrantSurvives
  BY WholeLinesSpent DEF GrantSurvives, Stored
<1>. QED
  BY <1>1, Inductive, AppendsWhole, PTL

\* After a failed write nothing is granted until the process restarts.
THEOREM FailsClosed == Spec => NoGrantOnceFailed
<1>1. IInv /\ [Next]_vars =>
        [stateErr => /\ stateErr' \/ ~up'
                     /\ \A r \in Requests : Granted(r)' => Granted(r)]_vars
  <2>. SUFFICES ASSUME IInv, Next, stateErr
                PROVE  /\ stateErr' \/ ~up'
                       /\ \A r \in Requests : Granted(r)' => Granted(r)
    BY DEF vars, memory, disk
  <2>. USE DEF IInv, TypeOK, MutexInv, DownInv, Granted, PCs, Replies
  <2>1. ASSUME NEW q \in Requests, Step(q)
        PROVE  /\ stateErr'
               /\ \A r \in Requests : Granted(r)' => Granted(r)
    BY <2>1, ConstantAssumption
       DEF Step, StateAvailable, Verify, Lock, PersistOk, PersistFail, Commit,
           Goto, Answer, memory
  <2>2. ASSUME NEW q \in Requests, NEW t, NEW b, Receive(q, t, b)
        PROVE  stateErr' /\ UNCHANGED reply
    BY <2>2 DEF Receive, Goto
  <2>3. ASSUME NEW b \in Bindings, IssueCheck(b) \/ IssueSign(b)
        PROVE  stateErr' /\ UNCHANGED reply
    BY <2>3 DEF IssueCheck, IssueSign
  <2>4. CASE Crash
    BY <2>4 DEF Crash
  <2>5. CASE ResetMetrics \/ Tick
    BY <2>5 DEF ResetMetrics, Tick, memory
  <2>6. CASE Restart
    BY <2>6 DEF Restart
  <2>. QED
    BY <2>1, <2>2, <2>3, <2>4, <2>5, <2>6 DEF Next
<1>. QED
  BY <1>1, Inductive, PTL DEF Spec, NoGrantOnceFailed

\* A step that is not Commit grants nothing and takes nothing back.
LEMMA OnlyCommitGrants ==
  ASSUME IInv, [Next]_vars, \A r \in Requests : ~Commit(r)
  PROVE  \A q \in Requests : GrantOf(q)' = GrantOf(q)
<1>. USE DEF IInv, TypeOK, DoneInv, GrantOf, Granted, PCs, Replies
<1>1. ASSUME NEW r \in Requests, Step(r)
      PROVE  \A q \in Requests : GrantOf(q)' = GrantOf(q)
  BY <1>1 DEF Step, StateAvailable, Verify, Lock, PersistOk, PersistFail,
              Goto, Answer
<1>2. ASSUME NEW r \in Requests, NEW t, NEW b, Receive(r, t, b)
      PROVE  \A q \in Requests : GrantOf(q)' = GrantOf(q)
  BY <1>2 DEF Receive, Goto
<1>3. CASE Crash
  BY <1>3 DEF Crash, InFlight
<1>4. CASE UNCHANGED <<input, reply>>
  BY <1>4
<1>. QED
  BY <1>1, <1>2, <1>3, <1>4
     DEF Next, vars, IssueCheck, IssueSign, ResetMetrics, Restart, Tick

\* If appends are never torn, the Authority implements OneTimeApproval.
THEOREM ImplementsOneTime ==
  ASSUME ~TornWrites
  PROVE  Spec => OneTime
<1>. DEFINE grant == [r \in Requests |-> GrantOf(r)]
<1>1. Init => Abstract!Init
  BY DEF Init, Abstract!Init, GrantOf, Granted
<1>2. IInv /\ WholeLines /\ [Next]_vars
        => [Abstract!Next]_<<issued, grant>>
  <2>. SUFFICES ASSUME IInv, WholeLines, [Next]_vars
                PROVE  Abstract!Next \/ UNCHANGED <<issued, grant>>
    OBVIOUS
  <2>1. ASSUME NEW r \in Requests, Commit(r)
        PROVE  Abstract!Grant(r)
    <3>1. /\ pc[r] = "commit" /\ reply[r] = "none"
          /\ input[r].token \in issued
          /\ input[r].token.binding = input[r].binding
      BY <2>1 DEF Commit, IInv, DoneInv, SignedInv
    <3>2. \A q \in Requests : Granted(q) => NonceOf(q) # NonceOf(r)
      BY <2>1, WholeLinesSpent DEF Commit, IInv, SpentInv
    <3>3. /\ UNCHANGED <<issued, input>>
          /\ reply' = [reply EXCEPT ![r] = "204"]
      BY <2>1 DEF Commit, Answer
    <3>4. grant[r] = NoToken
      BY <3>1 DEF GrantOf, Granted
    <3>5. \A q \in Requests :
            grant[q] # NoToken =>
              grant[q].approval.nonce # input[r].token.nonce
      BY <3>2 DEF GrantOf, NonceOf
    <3>6. grant' = [grant EXCEPT ![r] =
                      [approval |-> input[r].token,
                       binding |-> input[r].token.binding]]
      BY <3>1, <3>3 DEF GrantOf, Granted, IInv, TypeOK
    <3>. QED
      BY <3>1, <3>3, <3>4, <3>5, <3>6 DEF Abstract!Grant
  <2>2. ASSUME \A r \in Requests : ~Commit(r)
        PROVE  UNCHANGED grant
    BY <2>2, OnlyCommitGrants
  <2>3. ASSUME NEW b \in Bindings, IssueSign(b)
        PROVE  Abstract!Issue
    <3>1. \A r \in Requests : ~Commit(r)
      BY <2>3 DEF IssueSign, Commit, Answer, IInv, DoneInv, TypeOK
    <3>. QED
      BY <2>3, <2>2, <3>1 DEF IssueSign, Abstract!Issue
  <2>4. CASE UNCHANGED issued
    BY <2>1, <2>2, <2>4 DEF Abstract!Next
  <2>. QED
    BY <2>1, <2>3, <2>4
       DEF Abstract!Next, Next, Step, vars, IssueCheck, Receive,
           StateAvailable, Verify, Lock, PersistOk, PersistFail, ResetMetrics,
           Crash, Restart, Tick
<1>. QED
  BY <1>1, <1>2, Inductive, AppendsWhole, PTL DEF Spec, OneTime, Abstract!Spec

=============================================================================
