---------------------------- MODULE RateLimiter ----------------------------
(***************************************************************************)
(* The Telegram adapter's per-Subject rate limits                          *)
(* (src/internal/telegramadapter/handler.go, rateLimits): a counter per    *)
(* Subject and action, restarted by the first request that comes a whole   *)
(* window after the one that started it.  The Owner is not counted.        *)
(*                                                                         *)
(* allow runs under one mutex, so it is one step; time.Now is monotonic.   *)
(* The counters are in memory: a restarted adapter has none.  "admitted"   *)
(* and "process" are not in the code: they remember, for the properties,   *)
(* when and by which process of the adapter requests were let through.     *)
(***************************************************************************)
EXTENDS Integers, Sequences

CONSTANTS
  Subjects,   \* verified subjects other than the Owner
  Actions,    \* "availability" and "proposal"
  Limits,     \* limits.limits: how many of each action a window admits
  Window,     \* limits.window, in clock ticks
  MaxTime,    \* bound: the clock stops here
  MaxRestarts \* bound on restarts of the adapter

ASSUME LimitAssumption ==
  /\ Limits \in [Actions -> Nat \ {0}]   \* newRateLimits replaces 0 by a default
  /\ Window \in Nat \ {0}
  /\ MaxTime \in Nat /\ MaxRestarts \in Nat

Keys == Subjects \X Actions
LimitOf(k) == Limits[k[2]]

VARIABLES
  now,       \* time.Now()
  started,   \* entry.Started, of keys that have an entry
  count,     \* entry.Count; 0 where there is no entry
  admitted,  \* the requests of a key that were let through: [at, process]
  process    \* how often the adapter was restarted

vars == <<now, started, count, admitted, process>>

\* Faulty variants: the window must be exceeded; one request too many.
NewWindowLate(k) == count[k] = 0 \/ now - started[k] > Window

FullLate(k) == count[k] > LimitOf(k)

\* entry.Started.IsZero(), or the window has run out
NewWindow(k) == count[k] = 0 \/ now - started[k] >= Window

Full(k) == count[k] >= LimitOf(k)

Admit(k) ==
  admitted' =
    [admitted EXCEPT ![k] = Append(@, [at |-> now, process |-> process])]

\* allow: the request starts a window.
Start(k) ==
  /\ NewWindow(k)
  /\ started' = [started EXCEPT ![k] = now]
  /\ count' = [count EXCEPT ![k] = 1]
  /\ Admit(k)
  /\ UNCHANGED <<now, process>>

\* allow: the request is counted in the running window.  A request that finds
\* the window full is answered 429 and changes nothing.
Count(k) ==
  /\ ~NewWindow(k)
  /\ ~Full(k)
  /\ count' = [count EXCEPT ![k] = @ + 1]
  /\ Admit(k)
  /\ UNCHANGED <<now, started, process>>

\* allow answers false.
Refused(k) == ~NewWindow(k) /\ Full(k)

Tick ==
  /\ now < MaxTime
  /\ now' = now + 1
  /\ UNCHANGED <<started, count, admitted, process>>

\* newRateLimits, in a new process: there are no entries.
Restart ==
  /\ process < MaxRestarts
  /\ process' = process + 1
  /\ started' = [k \in Keys |-> 0]
  /\ count' = [k \in Keys |-> 0]
  /\ UNCHANGED <<now, admitted>>

Init ==
  /\ now = 0
  /\ started = [k \in Keys |-> 0]
  /\ count = [k \in Keys |-> 0]
  /\ admitted = [k \in Keys |-> <<>>]
  /\ process = 0

Next == Tick \/ Restart \/ \E k \in Keys : Start(k) \/ Count(k)

Spec == Init /\ [][Next]_vars

-----------------------------------------------------------------------------
(* Properties *)

Admission == [at : Nat, process : Nat]

\* The entries of the limiter hold times and counts.
TypeOK ==
  /\ now \in Nat /\ process \in Nat
  /\ started \in [Keys -> Nat] /\ count \in [Keys -> Nat]
  /\ admitted \in [Keys -> Seq(Admission)]

\* How many admissions it takes to reach over a window's time, if restarts of
\* the adapter come between the first and the last.
Needed(limit, restarts) == limit * (2 + restarts)

\* Of that many consecutive admissions the last comes at least a window after
\* the first.
Spread(h, limit) ==
  \A i, j \in 1..Len(h) :
    /\ i <= j
    /\ j - i + 1 >= Needed(limit, h[j].process - h[i].process)
    => h[j].at - h[i].at >= Window

\* What the fixed windows of allow amount to for an observer: no interval
\* shorter than a window, wherever it starts, sees 2 * limit admissions of one
\* Subject and action, and each restart within it, which loses the counters,
\* gives the Subject no more than its limit once more.
SlidingBound == \A k \in Keys : Spread(admitted[k], LimitOf(k))

\* A Subject is refused only when it really had its limit of admissions within
\* the last window, by the process that refuses: no boundary case of allow
\* refuses too early.
RefusalJustified ==
  \A k \in Keys :
    Refused(k) =>
      LET n == Len(admitted[k]) - LimitOf(k) + 1 IN
      /\ n >= 1
      /\ now - admitted[k][n].at < Window
      /\ admitted[k][n].process = process

-----------------------------------------------------------------------------
(* The inductive invariant *)

\* Admissions are in order, and none is later than t or of a process after p.
Ordered(h, t, p) ==
  \A i, j \in 1..Len(h) :
    i <= j => /\ h[i].at <= h[j].at /\ h[j].at <= t
              /\ h[i].process <= h[j].process /\ h[j].process <= p

\* The entry describes the end of the list: its last c admissions are those
\* since start, by process p.  Before them come those of earlier processes
\* only, or a window that was short enough and started long enough ago.
Entry(h, start, c, limit, p) ==
  LET first == Len(h) - c + 1 IN
  /\ c <= limit /\ c <= Len(h)
  /\ c > 0 => h[first].at = start /\ h[first].process = p
  /\ \/ \A i \in 1..(first - 1) : h[i].process < p
     \/ /\ c > 0
        /\ \E q \in 1..(first - 1) :
             first - q <= limit /\ h[q].at + Window <= start

\* Why the bound holds; true initially and kept by every step.
IInv ==
  /\ TypeOK
  /\ \A k \in Keys :
       /\ Ordered(admitted[k], now, process)
       /\ Entry(admitted[k], started[k], count[k], LimitOf(k), process)
  /\ SlidingBound

=============================================================================
