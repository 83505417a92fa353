------------------------------ MODULE FreeBusy ------------------------------
(***************************************************************************)
(* One availability query, from its two instants to the Free/Busy View:    *)
(* the adapter or another MCP client sends the window, the gateway parses  *)
(* it and asks the policy (src/policies/agent_tools.rego), the calendar    *)
(* (src/internal/calendarserver/server.go) computes the free intervals     *)
(* around its occupied half hour, and the gateway validates them.          *)
(*                                                                         *)
(* An instant is a number of ticks since a Monday, 00:00 UTC; a second is  *)
(* Second ticks, so that instants between seconds exist.  Formatting an    *)
(* instant drops them.  The UTC offset of the start is kept all the way:   *)
(* the calendar takes the date of its occupied half hour from the start's  *)
(* local date.  Hour, Day and Second are parameters, so that small values  *)
(* keep the shape of the day.                                              *)
(***************************************************************************)
EXTENDS Integers, Sequences

CONSTANTS
  Second,    \* ticks in a second
  HalfHour,  \* ticks in half an hour, a whole number of seconds
  Now,       \* the policy's time.now_ns()
  Starts, Ends,   \* instants a query may name
  Offsets    \* UTC offsets of a query's start

Hour == 2 * HalfHour
Day  == 24 * Hour

ASSUME TimeAssumption ==
  /\ Second \in Nat \ {0} /\ HalfHour \in Nat \ {0}
  /\ HalfHour % Second = 0
  /\ Now \in Nat /\ Starts \subseteq Nat /\ Ends \subseteq Nat
  /\ Offsets \subseteq Int

VARIABLES
  stage,    \* where the query is
  window,   \* what it asks for
  view      \* the intervals the calendar returned

vars == <<stage, window, view>>

\* time.Format with whole seconds.
Format(t) == (t \div Second) * Second

DayOf(t)   == t \div Day
Clock(t)   == t % Day
Weekday(t) == DayOf(t) % 7

\* hour, minute and second of the clock are 17:00:00
AtFive(t) == Format(Clock(t)) = 17 * Hour

-----------------------------------------------------------------------------
(* The policy *)

\* working_day_end
WorkingDayEnd(t) == Clock(t) < 17 * Hour \/ AtFive(t)

\* availability_window_allowed
WindowAllowed(start, end) ==
  /\ start >= Now
  /\ end > start
  /\ end <= Now + 14 * Day
  /\ Weekday(start) \in 0..4
  /\ Weekday(end) = Weekday(start)
  /\ Clock(start) >= 9 * Hour
  /\ WorkingDayEnd(end)

-----------------------------------------------------------------------------
(* The calendar *)

Interval(from, to) == [start |-> from, end |-> to]

Least(a, b)    == IF a < b THEN a ELSE b
Greatest(a, b) == IF a > b THEN a ELSE b

\* The part of start..end before and after the occupied time from..to.
Before(start, end, from) ==
  IF start < from /\ Least(end, from) > start
    THEN <<Interval(start, Least(end, from))>> ELSE <<>>

After(start, end, to) ==
  IF end > to /\ end > Greatest(start, to)
    THEN <<Interval(Greatest(start, to), end)>> ELSE <<>>

\* Faulty variant of FreeIntervals: a window that ends in the occupied time is
\* taken for one that does not meet it.
FreeIntervalsTouching(start, end, from, to) ==
  IF start >= to \/ end <= to
    THEN <<Interval(start, end)>>
    ELSE Before(start, end, from) \o After(start, end, to)

\* The GET /free-busy handler, given its occupied time.
FreeIntervals(start, end, from, to) ==
  IF start >= to \/ end <= from
    THEN <<Interval(start, end)>>
    ELSE Before(start, end, from) \o After(start, end, to)

\* 10:30 UTC on the date start has in its own zone.
OccupiedFrom(start, offset) == DayOf(start + offset) * Day + 21 * HalfHour

-----------------------------------------------------------------------------
(* The query *)

\* A query arrives, from the adapter, which formats both instants, or from
\* another MCP client.
Ask(start, end, offset, formatted) ==
  /\ stage = "idle"
  /\ window' = [start  |-> IF formatted THEN Format(start) ELSE start,
                end    |-> IF formatted THEN Format(end) ELSE end,
                offset |-> offset, formatted |-> formatted]
  /\ stage' = "asked"
  /\ UNCHANGED view

\* The gateway's handler up to the policy's decision.
Authorize ==
  /\ stage = "asked"
  /\ stage' = IF window.end <= window.start THEN "invalid"
              ELSE IF WindowAllowed(window.start, window.end) THEN "allowed"
              ELSE "denied"
  /\ UNCHANGED <<window, view>>

\* The client formats the window; the calendar parses and answers.
FindAvailability ==
  LET start == Format(window.start)
      end   == Format(window.end)
      from  == OccupiedFrom(start, window.offset)
  IN
  /\ stage = "allowed"
  /\ IF end > start
       THEN /\ view' = FreeIntervals(start, end, from, from + HalfHour)
            /\ stage' = "checking"
       ELSE /\ stage' = "failed"
            /\ UNCHANGED view
  /\ UNCHANGED window

\* Faulty variant of ValidView: no interval may begin with the window.
ValidViewStrict ==
  \A i \in 1..Len(view) :
    /\ view[i].start > window.start /\ view[i].end <= window.end
    /\ view[i].end > view[i].start

\* The gateway's loop: intervals lie in the window, are not empty, and are in
\* order.
ValidView ==
  \A i \in 1..Len(view) :
    /\ view[i].start >= window.start /\ view[i].end <= window.end
    /\ view[i].end > view[i].start
    /\ i > 1 => view[i].start >= view[i - 1].end

Validate ==
  /\ stage = "checking"
  /\ stage' = IF ValidView THEN "answered" ELSE "malformed"
  /\ UNCHANGED <<window, view>>

Init ==
  /\ stage = "idle"
  /\ window = [start |-> 0, end |-> 0, offset |-> 0, formatted |-> FALSE]
  /\ view = <<>>

Next ==
  \/ \E start \in Starts, end \in Ends, offset \in Offsets, f \in BOOLEAN :
       Ask(start, end, offset, f)
  \/ Authorize \/ FindAvailability \/ Validate

Spec == Init /\ [][Next]_vars

-----------------------------------------------------------------------------
(* Properties *)

\* t is in one of the intervals of v.
Within(t, v) == \E i \in 1..Len(v) : v[i].start <= t /\ t < v[i].end

\* What the calendar has on the day of t, in UTC.
Busy(t) == Clock(t) >= 21 * HalfHour /\ Clock(t) < 22 * HalfHour

WorkingTime(t) ==
  Weekday(t) \in 0..4 /\ Clock(t) >= 9 * Hour /\ Clock(t) < 17 * Hour

\* For every window, whatever its zone and its length, the answer is exact, to
\* the second: an instant is reported free if and only if it is in the window
\* and not in the half hour of the one date the calendar looks at, the date of
\* the start in its own zone.  (Busy time of another date is thus reported
\* free.)  A window within one day of UTC has nothing but working time in it.
ExactView ==
  stage = "answered" =>
    \A t \in Format(window.start)..window.end :
      /\ Within(t, view) <=>
           /\ t < Format(window.end)
           /\ ~( /\ Busy(t)
                 /\ DayOf(t) = DayOf(Format(window.start) + window.offset) )
      /\ DayOf(window.start) = DayOf(window.end) /\ Within(t, view)
           => WorkingTime(t)

\* The gateway's validation raises no false alarm: a window in whole seconds,
\* which is all the adapter sends, is never answered with "malformed", and the
\* calendar never refuses one the gateway has accepted.
NoFalseAlarm ==
  stage \in {"malformed", "failed"} =>
    ~window.formatted /\ ( \/ Format(window.start) # window.start
                           \/ Format(window.end) # window.end )

\* The policy constrains execution to weekdays, 09:00 to 17:00 UTC: every
\* instant reported as free is working time.
WithinWorkingHours ==
  stage = "answered" =>
    \A t \in window.start..window.end : Within(t, view) => WorkingTime(t)

=============================================================================
