-------------------------- MODULE ApprovalAuthority --------------------------
(***************************************************************************)
(* The Approval Authority (src/internal/approvalauthority/handler.go).     *)
(*                                                                         *)
(* It signs Approvals and lets each of them be consumed once.  A consume   *)
(* request runs in a goroutine of its own: it counts itself, looks at the  *)
(* latched state error, verifies the token without holding the mutex, and  *)
(* then, under the mutex, looks the nonce up, appends it to the state file *)
(* and answers.  The process may crash between any two of these steps; the *)
(* file survives and is read again when the process starts.                *)
(*                                                                         *)
(* Abstractions.  HMAC signatures cannot be forged and SHA-256 and random  *)
(* nonces do not collide, so a token that verifies is an element of        *)
(* "issued" and its claims hold the arguments themselves.  Wall-clock time *)
(* never goes backwards.  A line of the state file is the nonce it holds,  *)
(* or, when a nonce was written after the remains of a failed write, the   *)
(* MergedLine of that nonce.                                               *)
(***************************************************************************)
EXTENDS Integers, FiniteSets

CONSTANTS
  Requests,     \* consume requests; each is made once
  NoOne,        \* the holder of the mutex when it is free
  Nonces,       \* the values rand.Read can return
  Merged,       \* text in the state file that is no nonce
  NoTail,       \* the state file ends in a newline
  Bindings,     \* the bindings the two callers may send
  Owner,        \* config.OwnerSubject
  NoToken,      \* a body or token that does not decode or verify
  TTL,          \* config.TTL, in clock ticks
  Second,       \* clock ticks in a second
  MaxTime,      \* bound: the clock stops here
  TornWrites    \* can an append fail after writing part of the line?

\* The line that persistNonce(n) completes when the file did not end in a
\* newline.  It is no nonce: loadUsedNonces reads it as one long string.
MergedLine(n) == <<Merged, n>>

MergedLines == {MergedLine(n) : n \in Nonces}

ASSUME ConstantAssumption ==
  /\ NoOne \notin Requests
  /\ Merged \notin Nonces
  /\ NoTail \notin Nonces \union {Merged}
  /\ \A n \in Nonces : MergedLine(n) \notin Nonces
  /\ TTL \in Nat \ {0}
  /\ Second \in Nat \ {0}
  /\ MaxTime \in Nat
  /\ TornWrites \in BOOLEAN

\* What is signed: claims, without the hash of the arguments.
Approvals == [nonce : Nonces, binding : Bindings, exp : Nat]

ASSUME TokenAssumption == NoToken \notin Approvals

VARIABLES
  clock,         \* service.config.Now()
  up,            \* the process is running
  issuing,       \* bindings of issue requests past the availability check
  issued,        \* every Approval signed so far
  used,          \* service.used
  stateErr,      \* service.stateErr # nil
  consumeCount,  \* service.consumeCount
  mu,            \* who holds service.mu across steps
  lines,         \* the state file: the contents of its complete lines
  tail,          \* the state file: what follows its last newline
  pc,            \* where each consume request is
  input,         \* what it carries, and when it arrived
  reply          \* how it was answered

memory == <<up, used, stateErr, consumeCount, mu, issuing>>
disk   == <<lines, tail>>
vars   == <<clock, issued, memory, disk, pc, input, reply>>

NoInput == [token |-> NoToken, binding |-> NoToken, at |-> 0]

Inputs == [token : Approvals \union {NoToken}, binding : Bindings, at : Nat]

PCs == {"idle", "avail", "verify", "lock", "persist", "commit", "done"}

\* HTTP statuses; "lost" is a connection broken by a crash.
Replies == {"none", "204", "400", "403", "409", "503", "lost"}

InFlight(r) == pc[r] \notin {"idle", "done"}
Granted(r)  == reply[r] = "204"
NonceOf(r)  == input[r].token.nonce

-----------------------------------------------------------------------------
(* Issuing *)

\* validToolBinding: two Tools; the lock Tool only for the fixed device.
ValidToolBinding(b) ==
  \/ b.tool = "calendar.create_event"
  \/ b.tool = "smart_lock.unlock" /\ b.arguments = "demo-front-door"

\* validBinding.  Its check of the length of config.SigningKey is about the
\* configuration and taken to hold: a process with a short key signs nothing.
ValidBinding(b) ==
  /\ b.subject = Owner
  /\ b.actor = "telegram-agent"
  /\ b.trace_id # ""
  /\ b.arguments # "null"
  /\ ValidToolBinding(b)

\* time.Unix truncates the expiry to a whole second.
ExpiresAt(now) == ((now + TTL) \div Second) * Second

\* issue, up to the point where it stops looking at shared state.  Refused
\* requests (503, 400) change nothing.
IssueCheck(b) ==
  /\ up /\ mu = NoOne /\ ~stateErr
  /\ ValidBinding(b)
  /\ issuing' = issuing \union {b}
  /\ UNCHANGED <<clock, issued, up, used, stateErr, consumeCount, mu,
                 disk, pc, input, reply>>

\* issue: draw the nonce, read the clock, sign.
IssueSign(b) ==
  /\ b \in issuing
  /\ \E n \in Nonces :
       /\ \A a \in issued : a.nonce # n
       /\ issued' = issued \union
                      {[nonce |-> n, binding |-> b, exp |-> ExpiresAt(clock)]}
  /\ issuing' = issuing \ {b}
  /\ UNCHANGED <<clock, up, used, stateErr, consumeCount, mu,
                 disk, pc, input, reply>>

-----------------------------------------------------------------------------
(* Consuming *)

Answer(r, status) ==
  /\ pc' = [pc EXCEPT ![r] = "done"]
  /\ reply' = [reply EXCEPT ![r] = status]

Goto(r, where) ==
  /\ pc' = [pc EXCEPT ![r] = where]
  /\ UNCHANGED reply

\* consume: the request arrives and is counted.
Receive(r, t, b) ==
  /\ up /\ mu = NoOne
  /\ pc[r] = "idle"
  /\ consumeCount' = consumeCount + 1
  /\ input' = [input EXCEPT ![r] = [token |-> t, binding |-> b, at |-> clock]]
  /\ Goto(r, "avail")
  /\ UNCHANGED <<clock, issued, up, used, stateErr, mu, issuing, disk>>

\* consume: stateAvailable, in a critical section of its own.
StateAvailable(r) ==
  /\ pc[r] = "avail"
  /\ mu = NoOne
  /\ IF stateErr THEN Answer(r, "503") ELSE Goto(r, "verify")
  /\ UNCHANGED <<clock, issued, memory, disk, input>>

\* Faulty variants of ExactAndAlive: the expiry is not looked at; the
\* arguments are not compared.
NeverExpires(r) == input[r].token.binding = input[r].binding

AnyArguments(r) ==
  /\ \A f \in {"subject", "actor", "tool", "trace_id"} :
       input[r].token.binding[f] = input[r].binding[f]
  /\ clock < input[r].token.exp

\* Every field of the binding is the signed one, and the Approval is alive.
ExactAndAlive(r) ==
  /\ input[r].token.binding = input[r].binding
  /\ clock < input[r].token.exp

\* consume: decode and verify, without the mutex.
Verify(r) ==
  /\ pc[r] = "verify"
  /\ IF input[r].token = NoToken
       THEN \E status \in {"400", "403"} : Answer(r, status)
       ELSE IF ExactAndAlive(r) THEN Goto(r, "lock") ELSE Answer(r, "403")
  /\ UNCHANGED <<clock, issued, memory, disk, input>>

\* Faulty variants of Lock: the error is not looked at again; the nonce is not
\* looked up.
LockNoRecheck(r) ==
  /\ pc[r] = "lock" /\ mu = NoOne
  /\ NonceOf(r) \notin used /\ Goto(r, "persist") /\ mu' = r
  /\ UNCHANGED <<clock, issued, up, used, stateErr, consumeCount, issuing,
                 disk, input>>

LockNoLookup(r) ==
  /\ pc[r] = "lock" /\ mu = NoOne
  /\ ~stateErr /\ Goto(r, "persist") /\ mu' = r
  /\ UNCHANGED <<clock, issued, up, used, stateErr, consumeCount, issuing,
                 disk, input>>

\* consume: take the mutex, look at the error again and look the nonce up.
Lock(r) ==
  /\ pc[r] = "lock"
  /\ mu = NoOne
  /\ \/ stateErr /\ Answer(r, "503") /\ UNCHANGED mu
     \/ ~stateErr /\ NonceOf(r) \in used /\ Answer(r, "409") /\ UNCHANGED mu
     \/ ~stateErr /\ NonceOf(r) \notin used /\ Goto(r, "persist") /\ mu' = r
  /\ UNCHANGED <<clock, issued, up, used, stateErr, consumeCount, issuing,
                 disk, input>>

\* The whole line reaches the file: it ends the line the file ended in.
WriteLine(n) ==
  /\ lines' = lines \union {IF tail = NoTail THEN n ELSE MergedLine(n)}
  /\ tail' = NoTail

\* Part of the line reaches the file, with or without the last nonce digit.
WritePart(n) ==
  /\ TornWrites
  /\ tail' \in IF tail = NoTail THEN {n, Merged} ELSE {Merged}
  /\ UNCHANGED lines

\* persistNonce succeeds: written, synced, closed.
PersistOk(r) ==
  /\ pc[r] = "persist"
  /\ WriteLine(NonceOf(r))
  /\ Goto(r, "commit")
  /\ UNCHANGED <<clock, issued, memory, input>>

\* Faulty variant of PersistFail: an early return keeps the mutex.
PersistFailHolding(r) ==
  /\ pc[r] = "persist"
  /\ stateErr' = TRUE
  /\ Answer(r, "503")
  /\ UNCHANGED <<clock, issued, up, used, consumeCount, mu, issuing, disk,
                 input>>

\* persistNonce fails: at open (nothing written), in the write, or in the
\* sync or close.  The error is latched and the mutex released.  A crash in
\* the middle of the write is this step followed by Crash.
PersistFail(r) ==
  /\ pc[r] = "persist"
  /\ UNCHANGED disk \/ WriteLine(NonceOf(r)) \/ WritePart(NonceOf(r))
  /\ stateErr' = TRUE
  /\ mu' = NoOne
  /\ Answer(r, "503")
  /\ UNCHANGED <<clock, issued, up, used, consumeCount, issuing, input>>

\* consume: remember the nonce, answer 204, release the mutex.
Commit(r) ==
  /\ pc[r] = "commit"
  /\ used' = used \union {NonceOf(r)}
  /\ mu' = NoOne
  /\ Answer(r, "204")
  /\ UNCHANGED <<clock, issued, up, stateErr, consumeCount, issuing, disk,
                 input>>

-----------------------------------------------------------------------------
(* Metrics, the process and the environment *)

\* POST /test/reset-metrics
ResetMetrics ==
  /\ up /\ mu = NoOne
  /\ consumeCount' = 0
  /\ UNCHANGED <<clock, issued, up, used, stateErr, mu, issuing, disk, pc,
                 input, reply>>

\* The process dies: memory is gone and every open connection breaks.
Crash ==
  /\ up
  /\ up' = FALSE
  /\ used' = {} /\ stateErr' = FALSE /\ consumeCount' = 0
  /\ mu' = NoOne /\ issuing' = {}
  /\ pc' = [r \in Requests |-> IF InFlight(r) THEN "done" ELSE pc[r]]
  /\ reply' = [r \in Requests |-> IF InFlight(r) THEN "lost" ELSE reply[r]]
  /\ UNCHANGED <<clock, issued, disk, input>>

\* What loadUsedNonces finds: the scanner also yields an unterminated line.
Stored == lines \union (IF tail = NoTail THEN {} ELSE {tail})

\* Faulty variant of Restart: the state file is not read.
RestartEmpty ==
  /\ ~up
  /\ up' = TRUE
  /\ UNCHANGED <<clock, issued, used, stateErr, consumeCount, mu, issuing,
                 disk, pc, input, reply>>

\* NewHandler and loadUsedNonces.  A failure to create, open or read the file
\* is latched, whatever part of the file had been read by then.
Restart ==
  /\ ~up
  /\ up' = TRUE
  /\ \/ used' = Stored /\ stateErr' = FALSE
     \/ used' \in SUBSET Stored /\ stateErr' = TRUE
  /\ UNCHANGED <<clock, issued, consumeCount, mu, issuing, disk, pc, input,
                 reply>>

Tick ==
  /\ clock < MaxTime
  /\ clock' = clock + 1
  /\ UNCHANGED <<issued, memory, disk, pc, input, reply>>

-----------------------------------------------------------------------------
Init ==
  /\ clock = 0 /\ issued = {} /\ issuing = {}
  /\ up = FALSE /\ used = {} /\ stateErr = FALSE /\ consumeCount = 0
  /\ mu = NoOne
  /\ lines = {} /\ tail = NoTail
  /\ pc = [r \in Requests |-> "idle"]
  /\ input = [r \in Requests |-> NoInput]
  /\ reply = [r \in Requests |-> "none"]

\* The steps a request takes once it has arrived.
Step(r) ==
  \/ StateAvailable(r) \/ Verify(r) \/ Lock(r)
  \/ PersistOk(r) \/ PersistFail(r) \/ Commit(r)

Next ==
  \/ \E b \in Bindings : IssueCheck(b) \/ IssueSign(b)
  \/ \E r \in Requests, b \in Bindings, t \in issued \union {NoToken} :
       Receive(r, t, b)
  \/ \E r \in Requests : Step(r)
  \/ ResetMetrics \/ Crash \/ Restart \/ Tick

Spec == Init /\ [][Next]_vars

\* A goroutine that can run is scheduled, and sync.Mutex starves nobody.
Fairness == \A r \in Requests : WF_vars(Step(r))

FairSpec == Spec /\ Fairness

-----------------------------------------------------------------------------
(* Properties *)

\* Every variable of the Authority has the type its handlers rely on; in
\* particular a signed expiry is a time, and a request past Verify carries a
\* verified token.
TypeOK ==
  /\ clock \in Nat /\ up \in BOOLEAN /\ stateErr \in BOOLEAN
  /\ issued \subseteq Approvals /\ issuing \subseteq Bindings
  /\ used \subseteq Nonces \union {Merged} \union MergedLines
  /\ consumeCount \in Nat
  /\ mu \in Requests \union {NoOne}
  /\ lines \subseteq Nonces \union MergedLines
  /\ tail \in Nonces \union {Merged, NoTail}
  /\ pc \in [Requests -> PCs]
  /\ input \in [Requests -> Inputs \union {NoInput}]
  /\ reply \in [Requests -> Replies]
  /\ \A r \in Requests :
       /\ pc[r] # "idle" => input[r] \in Inputs
       /\ pc[r] \in {"lock", "persist", "commit"} \/ Granted(r)
            => input[r].token \in Approvals

\* An Approval is consumed once: two requests answered 204 carried different
\* nonces, whatever the interleaving of consume's critical sections and
\* however often the process crashed and reloaded its file in between.
SingleUse ==
  \A r, q \in Requests :
    Granted(r) /\ Granted(q) /\ NonceOf(r) = NonceOf(q) => r = q

\* With torn appends, an Approval can be consumed twice only if its own nonce
\* was appended by persistNonce to the remains of an append that had failed
\* half-way: a damaged line costs no other Approval its single use, neither the
\* one whose append failed nor those before and after it.
SingleUseUnlessMerged ==
  \A r, q \in Requests :
    Granted(r) /\ Granted(q) /\ NonceOf(r) = NonceOf(q)
      => r = q \/ MergedLine(NonceOf(r)) \in lines

\* A 204 is for an Approval the Authority signed, for exactly the binding it
\* signed, which names the Owner and one of the two Tools, and the Approval was
\* alive when the request arrived.
GrantedExactly ==
  \A r \in Requests :
    Granted(r) =>
      /\ input[r].token \in issued
      /\ input[r].token.binding = input[r].binding
      /\ ValidBinding(input[r].binding)
      /\ input[r].at < input[r].token.exp

\* A nonce answered 204 is in the state file from then on, so the next
\* loadUsedNonces finds it.
GrantSurvives == \A r \in Requests : Granted(r) => NonceOf(r) \in Stored

\* Once a write has failed the running process grants nothing more, not even
\* to requests that passed stateAvailable before the failure, and only a
\* restart clears the error.
NoGrantOnceFailed ==
  [][stateErr => /\ stateErr' \/ ~up'
                 /\ \A r \in Requests : Granted(r)' => Granted(r)]_vars

\* Every request that arrives is answered or sees its connection break: no
\* error path keeps the mutex.
Answered == \A r \in Requests : InFlight(r) ~> pc[r] = "done"

\* What a request was granted, as the abstract specification sees it.
GrantOf(r) ==
  IF Granted(r)
    THEN [approval |-> input[r].token, binding |-> input[r].binding]
    ELSE NoToken

Abstract == INSTANCE OneTimeApproval
              WITH grant <- [r \in Requests |-> GrantOf(r)],
                   Ungranted <- NoToken

\* The Authority with its goroutines, file and crashes does what
\* OneTimeApproval promises.
OneTime == Abstract!Spec

-----------------------------------------------------------------------------
(* The inductive invariant *)

\* The mutex is held exactly by the request between the look-up and the
\* answer, of a process that is up and has not failed.
MutexInv ==
  /\ \A r \in Requests : pc[r] \in {"persist", "commit"} <=> mu = r
  /\ mu # NoOne => up /\ ~stateErr

\* A process that is down has no memory and no open connections.
DownInv ==
  ~up => /\ used = {} /\ issuing = {} /\ ~stateErr
         /\ \A r \in Requests : ~InFlight(r)

\* Requests are answered once, at the end.
DoneInv == \A r \in Requests : pc[r] # "done" => reply[r] = "none"

\* Tokens that verify were signed, for valid bindings, and what Verify
\* established about a request stays true.
SignedInv ==
  /\ \A b \in issuing : ValidBinding(b)
  /\ \A a \in issued : ValidBinding(a.binding)
  /\ \A r \in Requests :
       /\ input[r].token # NoToken => input[r].token \in issued
       /\ input[r].at <= clock
       /\ pc[r] \in {"lock", "persist", "commit"} \/ Granted(r) =>
            /\ input[r].token # NoToken
            /\ input[r].token.binding = input[r].binding
            /\ input[r].at < input[r].token.exp

\* The file, the memory and the answers agree on which nonces are spent, but
\* for those whose line is merged.
SpentInv ==
  /\ \A r \in Requests :
       /\ Granted(r) \/ pc[r] = "commit" =>
            {NonceOf(r), MergedLine(NonceOf(r))} \cap lines # {}
       /\ pc[r] = "persist" => NonceOf(r) \notin used
       /\ pc[r] = "commit" /\ MergedLine(NonceOf(r)) \notin lines =>
            \A q \in Requests : Granted(q) => NonceOf(q) # NonceOf(r)
  /\ up /\ ~stateErr =>
       \A n \in Nonces \cap lines :
         n \in used \/ \E r \in Requests : pc[r] = "commit" /\ NonceOf(r) = n
  /\ SingleUseUnlessMerged

\* Why consuming is safe: true initially, kept by every step, and it implies
\* SingleUseUnlessMerged and GrantedExactly.
IInv == TypeOK /\ MutexInv /\ DownInv /\ DoneInv /\ SignedInv /\ SpentInv

\* Without torn writes the file always ends in a newline and never holds a
\* merged line.
WholeLines == tail = NoTail /\ lines \subseteq Nonces

=============================================================================
