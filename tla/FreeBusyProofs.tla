--------------------------- MODULE FreeBusyProofs ---------------------------
(***************************************************************************)
(* The calendar's interval computation is right for every window and every *)
(* occupied time, and the answer to a query is exact: for every length of  *)
(* a second and of half an hour, and all instants and offsets.             *)
(***************************************************************************)
EXTENDS FreeBusy, SequenceTheorems, TLAPS

\* An instant in a list of one or of two intervals.
LEMMA WithinOne ==
  ASSUME NEW a \in Int, NEW b \in Int, NEW t \in Int
  PROVE  Within(t, <<Interval(a, b)>>) <=> a <= t /\ t < b
<1>. DEFINE v == <<Interval(a, b)>>
<1>1. Len(v) = 1 /\ v[1].start = a /\ v[1].end = b
  BY DEF Interval
<1>. HIDE DEF v
<1>2. Within(t, v) <=> a <= t /\ t < b
  BY <1>1 DEF Within
<1>. QED
  BY <1>2 DEF v

LEMMA WithinTwo ==
  ASSUME NEW a \in Int, NEW b \in Int, NEW c \in Int, NEW d \in Int,
         NEW t \in Int
  PROVE  Within(t, <<Interval(a, b)>> \o <<Interval(c, d)>>)
           <=> (a <= t /\ t < b) \/ (c <= t /\ t < d)
<1>. DEFINE S == [start : Int, end : Int]
<1>. DEFINE x == Interval(a, b)
<1>. DEFINE y == Interval(c, d)
<1>. DEFINE v == <<x>> \o <<y>>
<1>1. x \in S /\ y \in S
  BY DEF Interval
<1>2. x.start = a /\ x.end = b /\ y.start = c /\ y.end = d
  BY DEF Interval
<1>. HIDE DEF S, x, y
<1>3. <<x>> \in Seq(S) /\ <<y>> \in Seq(S) /\ Len(<<x>>) = 1 /\ Len(<<y>>) = 1
  BY <1>1
<1>4. Len(v) = 2 /\ v[1] = x /\ v[2] = y
  BY <1>1, <1>3, ConcatProperties
<1>. HIDE DEF v
<1>5. Within(t, v) <=> (a <= t /\ t < b) \/ (c <= t /\ t < d)
  BY <1>2, <1>4 DEF Within
<1>. QED
  BY <1>5 DEF v, x, y

\* Joining lists of at most one element.
LEMMA JoinOne ==
  ASSUME NEW S, NEW x \in S
  PROVE  <<x>> \o <<>> = <<x>> /\ <<>> \o <<x>> = <<x>> /\ <<>> \o <<>> = <<>>
<1>1. <<x>> \in Seq(S) /\ <<>> \in Seq(S)
  OBVIOUS
<1>. QED
  BY <1>1, ConcatEmptySeq

\* The five ways a window can lie to the occupied time, and the intervals v
\* each leaves.
Shape(start, end, from, to, v) ==
  \/ (start >= to \/ end <= from) /\ v = <<Interval(start, end)>>
  \/ start >= from /\ end <= to /\ v = <<>>
  \/ start < from /\ end > from /\ end <= to /\ v = <<Interval(start, from)>>
  \/ start >= from /\ start < to /\ end > to /\ v = <<Interval(to, end)>>
  \/ start < from /\ end > to
       /\ v = <<Interval(start, from)>> \o <<Interval(to, end)>>

LEMMA Shapes ==
  ASSUME NEW start \in Int, NEW end \in Int, NEW from \in Int, NEW to \in Int,
         start < end, from < to
  PROVE  Shape(start, end, from, to, FreeIntervals(start, end, from, to))
<1>. DEFINE v == FreeIntervals(start, end, from, to)
<1>1. CASE start >= to \/ end <= from
  BY <1>1 DEF FreeIntervals, Shape
<1>2. CASE start < to /\ end > from
  <2>1. v = Before(start, end, from) \o After(start, end, to)
    BY <1>2 DEF FreeIntervals
  <2>2. start < from => Before(start, end, from) = <<Interval(start, from)>>
    BY <1>2 DEF Before, Least
  <2>3. start >= from => Before(start, end, from) = <<>>
    BY DEF Before
  <2>4. end > to => After(start, end, to) = <<Interval(to, end)>>
    BY <1>2 DEF After, Greatest
  <2>5. end <= to => After(start, end, to) = <<>>
    BY DEF After
  <2>6. /\ Interval(start, from) \in [start : Int, end : Int]
        /\ Interval(to, end) \in [start : Int, end : Int]
    BY DEF Interval
  <2>. HIDE DEF v
  <2>7. CASE start < from /\ end > to
    <3>1. v = <<Interval(start, from)>> \o <<Interval(to, end)>>
      BY <2>1, <2>2, <2>4, <2>7
    <3>. QED
      BY <2>7, <3>1 DEF v, Shape
  <2>8. CASE start < from /\ end <= to
    <3>1. v = <<Interval(start, from)>> \o <<>>
      BY <2>1, <2>2, <2>5, <2>8
    <3>. QED
      BY <1>2, <2>6, <2>8, <3>1, JoinOne DEF v, Shape
  <2>9. CASE start >= from /\ end > to
    <3>1. v = <<>> \o <<Interval(to, end)>>
      BY <2>1, <2>3, <2>4, <2>9
    <3>. QED
      BY <1>2, <2>6, <2>9, <3>1, JoinOne DEF v, Shape
  <2>10. CASE start >= from /\ end <= to
    <3>1. v = <<>> \o <<>>
      BY <2>1, <2>3, <2>5, <2>10
    <3>. QED
      BY <2>10, <3>1, JoinOne DEF v, Shape
  <2>. QED
    BY <2>7, <2>8, <2>9, <2>10
<1>. QED
  BY <1>1, <1>2

\* An instant is in the computed intervals exactly if it is in the window and
\* not in the occupied time.
THEOREM FreeIntervalsExact ==
  ASSUME NEW start \in Int, NEW end \in Int, NEW from \in Int, NEW to \in Int,
         start < end, from < to, NEW t \in Int
  PROVE  Within(t, FreeIntervals(start, end, from, to))
           <=> start <= t /\ t < end /\ ~(from <= t /\ t < to)
<1>. DEFINE v == FreeIntervals(start, end, from, to)
<1>0. ~Within(t, <<>>)
  BY DEF Within
<1>. SUFFICES Within(t, v) <=> start <= t /\ t < end /\ ~(from <= t /\ t < to)
  OBVIOUS
<1>1. Shape(start, end, from, to, v)
  BY Shapes
<1>. HIDE DEF v
<1>2. CASE (start >= to \/ end <= from) /\ v = <<Interval(start, end)>>
  BY <1>2, WithinOne
<1>3. CASE start >= from /\ end <= to /\ v = <<>>
  BY <1>0, <1>3
<1>4. CASE start < from /\ end > from /\ end <= to
           /\ v = <<Interval(start, from)>>
  BY <1>4, WithinOne
<1>5. CASE start >= from /\ start < to /\ end > to /\ v = <<Interval(to, end)>>
  BY <1>5, WithinOne
<1>6. CASE start < from /\ end > to
           /\ v = <<Interval(start, from)>> \o <<Interval(to, end)>>
  <2>1. Within(t, v) <=> (start <= t /\ t < from) \/ (to <= t /\ t < end)
    BY <1>6, WithinTwo
  <2>. QED
    BY <1>6, <2>1
<1>. QED
  BY <1>1, <1>2, <1>3, <1>4, <1>5, <1>6 DEF Shape

-----------------------------------------------------------------------------
(* Days, clocks and whole seconds *)

LEMMA DivMod ==
  ASSUME NEW t \in Int, NEW d \in Nat \ {0}
  PROVE  /\ t \div d \in Int /\ t % d \in Int
         /\ 0 <= t % d /\ t % d < d
         /\ t = (t \div d) * d + (t % d)
OBVIOUS

\* The quotient is the one multiple of d that is d or less below t.
LEMMA DivUnique ==
  ASSUME NEW t \in Int, NEW d \in Nat \ {0}, NEW q \in Int,
         q * d <= t, t < q * d + d
  PROVE  t \div d = q /\ t % d = t - q * d
<1>. DEFINE p == t \div d
            r == t % d
<1>1. /\ p \in Int /\ r \in Int /\ 0 <= r /\ r < d /\ t = p * d + r
  BY DivMod
<1>. HIDE DEF p, r
<1>2. p * d \in Int /\ q * d \in Int
  BY <1>1
<1>3. CASE p > q
  <2>1. (p - q - 1) * d >= 0
    BY <1>1, <1>3
  <2>2. (p - q - 1) * d = p * d - q * d - d
    BY <1>1
  <2>. QED
    BY <1>1, <1>2, <2>1, <2>2
<1>4. CASE p < q
  <2>1. (q - p - 1) * d >= 0
    BY <1>1, <1>4
  <2>2. (q - p - 1) * d = q * d - p * d - d
    BY <1>1
  <2>. QED
    BY <1>1, <1>2, <2>1, <2>2
<1>5. p = q
  BY <1>1, <1>3, <1>4
<1>6. r = t - q * d
  BY <1>1, <1>2, <1>5
<1>. QED
  BY <1>5, <1>6 DEF p, r

LEMMA FormatFacts ==
  ASSUME NEW t \in Int
  PROVE  Format(t) \in Int /\ Format(t) <= t /\ t < Format(t) + Second
<1>. DEFINE p == t \div Second
            r == t % Second
<1>1. /\ p \in Int /\ r \in Int /\ 0 <= r /\ r < Second
      /\ t = p * Second + r
  BY DivMod, TimeAssumption
<1>2. Format(t) = p * Second
  BY DEF Format
<1>. HIDE DEF p, r
<1>3. p * Second \in Int /\ Second \in Int
  BY <1>1, TimeAssumption
<1>. QED
  BY <1>1, <1>2, <1>3

\* A whole number of seconds.
Whole(x) == \E m \in Int : x = m * Second

\* Formatting does not take an instant below a whole second, and does not
\* depend on whole seconds that are added.
LEMMA FormatWhole ==
  ASSUME NEW x, Whole(x), NEW t \in Int
  PROVE  /\ x \in Int
         /\ x <= t => x <= Format(t)
         /\ Format(x + t) = x + Format(t)
<1>1. PICK m \in Int : x = m * Second
  BY DEF Whole
<1>2. Second \in Nat \ {0} /\ Second \in Int /\ x \in Int
  BY <1>1, TimeAssumption
<1>. DEFINE k == t \div Second
<1>3. k \in Int /\ Format(t) = k * Second
  BY <1>2, DivMod DEF Format
<1>4. k * Second <= t /\ t < k * Second + Second
  BY <1>3, FormatFacts
<1>. HIDE DEF k
<1>5. k * Second \in Int /\ m * Second \in Int
  BY <1>2, <1>3
<1>6. ASSUME x <= t PROVE x <= Format(t)
  <2>1. CASE m > k
    <3>1. (m - k - 1) * Second >= 0
      BY <1>2, <1>3, <2>1
    <3>2. (m - k - 1) * Second = m * Second - k * Second - Second
      BY <1>2, <1>3
    <3>. QED
      BY <1>1, <1>2, <1>4, <1>5, <1>6, <3>1, <3>2
  <2>2. CASE m <= k
    <3>1. (k - m) * Second >= 0
      BY <1>2, <1>3, <2>2
    <3>2. (k - m) * Second = k * Second - m * Second
      BY <1>2, <1>3
    <3>. QED
      BY <1>1, <1>3, <1>5, <3>1, <3>2
  <2>. QED
    BY <1>3, <2>1, <2>2
<1>7. Format(x + t) = x + Format(t)
  <2>1. (m + k) * Second = m * Second + k * Second
    BY <1>2, <1>3
  <2>2. /\ (m + k) * Second <= x + t /\ x + t < (m + k) * Second + Second
        /\ x + t \in Int /\ m + k \in Int
    BY <1>1, <1>2, <1>3, <1>4, <1>5, <2>1
  <2>3. (x + t) \div Second = m + k
    BY <1>2, <2>2, DivUnique
  <2>. QED
    BY <1>1, <1>3, <2>1, <2>3 DEF Format
<1>. QED
  BY <1>2, <1>6, <1>7

\* Half hours are whole seconds.
LEMMA HalfHoursWhole ==
  ASSUME NEW n \in Int
  PROVE  Whole(n * HalfHour)
<1>. DEFINE h == HalfHour \div Second
<1>1. h \in Int /\ HalfHour = h * Second + (HalfHour % Second)
  BY DivMod, TimeAssumption
<1>. HIDE DEF h
<1>2. HalfHour = h * Second /\ Second \in Int
  BY <1>1, TimeAssumption
<1>3. n * HalfHour = (n * h) * Second /\ n * h \in Int
  BY <1>1, <1>2
<1>. QED
  BY <1>3 DEF Whole

\* The instants of a day.
LEMMA DayFacts ==
  ASSUME NEW t \in Int
  PROVE  /\ DayOf(t) \in Int /\ Clock(t) \in Int
         /\ 0 <= Clock(t) /\ Clock(t) < Day
         /\ t = DayOf(t) * Day + Clock(t)
<1>1. Day \in Nat \ {0}
  BY TimeAssumption DEF Day, Hour
<1>. QED
  BY <1>1, DivMod DEF DayOf, Clock

LEMMA SameDay ==
  ASSUME NEW t \in Int, NEW d \in Int, d * Day <= t, t < d * Day + Day
  PROVE  DayOf(t) = d /\ Clock(t) = t - d * Day
<1>1. Day \in Nat \ {0}
  BY TimeAssumption DEF Day, Hour
<1>. QED
  BY <1>1, DivUnique DEF DayOf, Clock

-----------------------------------------------------------------------------
(* The query *)

Accepted ==
  stage \in {"allowed", "checking", "answered", "malformed", "failed"}

Viewed == stage \in {"checking", "answered", "malformed"}

WindowOK ==
  /\ window.start \in Int /\ window.end \in Int /\ window.offset \in Int
  /\ window.formatted => /\ Format(window.start) = window.start
                         /\ Format(window.end) = window.end

\* What the calendar answers to this window.
Computed ==
  LET from == OccupiedFrom(Format(window.start), window.offset) IN
  FreeIntervals(Format(window.start), Format(window.end), from, from + HalfHour)

\* The later steps see the window the policy has allowed, and the view the
\* calendar has computed for it.
IInv ==
  /\ WindowOK
  /\ Accepted => WindowAllowed(window.start, window.end)
  /\ Viewed => /\ Format(window.start) < Format(window.end)
               /\ view = Computed
  /\ stage = "malformed" => ~ValidView
  /\ stage = "failed" => ~(Format(window.end) > Format(window.start))

LEMMA FormatTwice ==
  ASSUME NEW t \in Int
  PROVE  Format(t) \in Int /\ Format(Format(t)) = Format(t)
<1>1. Second \in Nat \ {0} /\ t \div Second \in Int
  BY DivMod, TimeAssumption
<1>2. Format(0) = 0
  <2>1. 0 * Second = 0 /\ Second > 0 /\ Second \in Int
    BY <1>1
  <2>2. 0 \div Second = 0
    BY <1>1, <2>1, DivUnique
  <2>. QED
    BY <2>1, <2>2 DEF Format
<1>3. Whole(Format(t))
  BY <1>1 DEF Whole, Format
<1>4. Format(t) \in Int
  BY FormatFacts
<1>. QED
  BY <1>2, <1>3, <1>4, FormatWhole

LEMMA InitIInv == Init => IInv
<1>1. ASSUME Init PROVE WindowOK
  BY <1>1 DEF Init, WindowOK
<1>. QED
  BY <1>1 DEF Init, IInv, Accepted, Viewed

LEMMA NextIInv == IInv /\ [Next]_vars => IInv'
<1>. SUFFICES ASSUME IInv, [Next]_vars PROVE IInv'
  OBVIOUS
<1>1. ASSUME NEW start \in Starts, NEW end \in Ends, NEW offset \in Offsets,
             NEW f \in BOOLEAN, Ask(start, end, offset, f)
      PROVE  IInv'
  <2>1. start \in Int /\ end \in Int /\ offset \in Int
    BY TimeAssumption
  <2>2. /\ window'.start = IF f THEN Format(start) ELSE start
        /\ window'.end = IF f THEN Format(end) ELSE end
        /\ window'.offset = offset /\ window'.formatted = f
        /\ stage' = "asked"
    BY <1>1 DEF Ask
  <2>3. WindowOK'
    BY <2>1, <2>2, FormatTwice DEF WindowOK
  <2>. QED
    BY <2>2, <2>3 DEF IInv, Accepted, Viewed
<1>2. CASE Authorize
  <2>1. WindowOK'
    BY <1>2 DEF Authorize, IInv, WindowOK
  <2>. QED
    BY <1>2, <2>1 DEF Authorize, IInv, Accepted, Viewed
<1>3. CASE FindAvailability
  <2>1. WindowOK'
    BY <1>3 DEF FindAvailability, IInv, WindowOK
  <2>2. WindowAllowed(window.start, window.end)'
    BY <1>3 DEF FindAvailability, IInv, Accepted
  <2>3. \/ /\ stage' = "checking" /\ Format(window.end) > Format(window.start)
           /\ view' = Computed
        \/ stage' = "failed" /\ ~(Format(window.end) > Format(window.start))
    BY <1>3 DEF FindAvailability, Computed
  <2>4. window' = window /\ Computed' = Computed
    BY <1>3 DEF FindAvailability, Computed
  <2>5. Format(window.start) \in Int /\ Format(window.end) \in Int
    BY FormatFacts DEF IInv, WindowOK
  <2>. QED
    BY <2>1, <2>2, <2>3, <2>4, <2>5 DEF IInv, Accepted, Viewed
<1>4. CASE Validate
  <2>1. UNCHANGED <<window, view>> /\ stage = "checking"
        /\ stage' = (IF ValidView THEN "answered" ELSE "malformed")
    BY <1>4 DEF Validate
  <2>2. WindowOK' /\ Computed' = Computed /\ (ValidView' <=> ValidView)
    BY <2>1 DEF IInv, WindowOK, Computed, ValidView
  <2>. QED
    BY <2>1, <2>2 DEF IInv, Accepted, Viewed
<1>5. CASE UNCHANGED vars
  <2>1. UNCHANGED <<window, view, stage>>
    BY <1>5 DEF vars
  <2>2. WindowOK' /\ Computed' = Computed /\ (ValidView' <=> ValidView)
    BY <2>1 DEF IInv, WindowOK, Computed, ValidView
  <2>. QED
    BY <2>1, <2>2 DEF IInv, Accepted, Viewed
<1>. QED
  BY <1>1, <1>2, <1>3, <1>4, <1>5 DEF Next

\* The steps of a query keep the invariant.
THEOREM Inductive == Spec => []IInv
BY InitIInv, NextIInv, PTL DEF Spec

\* The calendar's occupied time is an instant, and not empty.
LEMMA Occupied ==
  ASSUME WindowOK
  PROVE  LET from == OccupiedFrom(Format(window.start), window.offset) IN
         /\ Format(window.start) \in Int /\ Format(window.end) \in Int
         /\ from \in Int /\ from + HalfHour \in Int /\ from < from + HalfHour
<1>1. Format(window.start) \in Int /\ Format(window.end) \in Int
  BY FormatFacts DEF WindowOK
<1>2. Format(window.start) + window.offset \in Int
  BY <1>1 DEF WindowOK
<1>3. DayOf(Format(window.start) + window.offset) \in Int
  BY <1>2, DayFacts
<1>4. Day \in Int /\ HalfHour \in Nat \ {0}
  BY TimeAssumption DEF Day, Hour
<1>5. OccupiedFrom(Format(window.start), window.offset) \in Int
  BY <1>3, <1>4 DEF OccupiedFrom
<1>. QED
  BY <1>1, <1>4, <1>5

\* The intervals around the occupied time are in the window and in order: what
\* the gateway demands of a view holds of what the calendar computes.
LEMMA ShapeValid ==
  ASSUME window.start \in Int, window.end \in Int, window.start < window.end,
         NEW from \in Int, NEW to \in Int, from < to,
         Shape(window.start, window.end, from, to, view)
  PROVE  ValidView
<1>. DEFINE s == window.start
            e == window.end
<1>. HIDE DEF s, e
<1>1. ASSUME NEW a \in Int, NEW b \in Int, s <= a, a < b, b <= e,
             view = <<Interval(a, b)>>
      PROVE  ValidView
  <2>1. Len(view) = 1 /\ view[1].start = a /\ view[1].end = b
    BY <1>1 DEF Interval
  <2>. QED
    BY <1>1, <2>1 DEF ValidView, s, e
<1>2. ASSUME view = <<>>
      PROVE  ValidView
  BY <1>2 DEF ValidView
<1>3. ASSUME s < from, e > to,
             view = <<Interval(s, from)>> \o <<Interval(to, e)>>
      PROVE  ValidView
  <2>1. Interval(s, from) \in [start : Int, end : Int]
        /\ Interval(to, e) \in [start : Int, end : Int]
    BY DEF Interval, s, e
  <2>2. /\ Len(view) = 2
        /\ view[1] = Interval(s, from) /\ view[2] = Interval(to, e)
    <3>1. /\ <<Interval(s, from)>> \in Seq([start : Int, end : Int])
          /\ <<Interval(to, e)>> \in Seq([start : Int, end : Int])
          /\ Len(<<Interval(s, from)>>) = 1 /\ Len(<<Interval(to, e)>>) = 1
      BY <2>1
    <3>. QED
      BY <1>3, <2>1, <3>1, ConcatProperties
  <2>3. /\ view[1].start = s /\ view[1].end = from
        /\ view[2].start = to /\ view[2].end = e
    BY <2>2 DEF Interval
  <2>. QED
    BY <1>3, <2>2, <2>3 DEF ValidView, s, e
<1>. QED
  BY <1>1, <1>2, <1>3 DEF Shape, s, e

\* The gateway calls no view malformed, and the calendar refuses no window,
\* when the window is in whole seconds.
THEOREM NoFalseAlarms == Spec => []NoFalseAlarm
<1>1. ASSUME IInv, stage \in {"malformed", "failed"},
             Format(window.start) = window.start,
             Format(window.end) = window.end
      PROVE  FALSE
  <2>. DEFINE from == OccupiedFrom(Format(window.start), window.offset)
  <2>1. /\ window.start \in Int /\ window.end \in Int
        /\ window.start < window.end
    BY <1>1 DEF IInv, WindowOK, Accepted, WindowAllowed
  <2>2. from \in Int /\ from + HalfHour \in Int /\ from < from + HalfHour
    BY <1>1, Occupied DEF IInv
  <2>3. stage = "malformed" /\ view = Computed /\ ~ValidView
    BY <1>1, <2>1 DEF IInv, Viewed
  <2>4. view = FreeIntervals(window.start, window.end, from, from + HalfHour)
    BY <1>1, <2>3 DEF Computed
  <2>. HIDE DEF from
  <2>5. Shape(window.start, window.end, from, from + HalfHour, view)
    BY <2>1, <2>2, <2>4, Shapes
  <2>. QED
    BY <2>1, <2>2, <2>3, <2>5, ShapeValid
<1>2. IInv => NoFalseAlarm
  BY <1>1 DEF IInv, WindowOK, NoFalseAlarm
<1>. QED
  BY <1>2, Inductive, PTL

\* An allowed window of one day, and any instant of it: the day is the same,
\* formatting takes nothing out of the day or before nine, and what is before
\* the formatted end is before five.
LEMMA WorkingWindow ==
  ASSUME NEW s \in Int, NEW e \in Int, WindowAllowed(s, e),
         DayOf(s) = DayOf(e), NEW t \in Format(s)..e
  PROVE  /\ DayOf(t) = DayOf(s) /\ Clock(t) = t - DayOf(s) * Day
         /\ t < Format(e) => WorkingTime(t)
<1>. DEFINE d == DayOf(s)
            base == d * Day
<1>1. /\ d \in Int /\ Day = 48 * HalfHour /\ HalfHour \in Nat \ {0}
      /\ Hour = 2 * HalfHour
  BY DayFacts, TimeAssumption DEF Day, Hour
<1>2. base = (48 * d) * HalfHour
      /\ base + 9 * Hour = (48 * d + 18) * HalfHour
  BY <1>1
<1>3. Whole(base) /\ Whole(base + 9 * Hour)
  <2>1. 48 * d \in Int /\ 48 * d + 18 \in Int
    BY <1>1
  <2>2. Whole((48 * d) * HalfHour) /\ Whole((48 * d + 18) * HalfHour)
    BY <2>1, HalfHoursWhole, Zenon
  <2>. QED
    BY <1>2, <2>2, Zenon
<1>4. /\ Clock(s) \in Int /\ Clock(e) \in Int
      /\ s = base + Clock(s) /\ e = base + Clock(e)
      /\ Clock(e) < Day /\ Clock(s) >= 9 * Hour
  BY DayFacts DEF WindowAllowed
<1>5. base \in Int /\ Hour \in Int /\ Day \in Int
  BY <1>1
<1>. HIDE DEF d, base
<1>6. base + 9 * Hour <= Format(s)
  BY <1>3, <1>4, <1>5, FormatWhole
<1>7. t \in Int /\ base + 9 * Hour <= t /\ t <= e
  BY <1>5, <1>6, FormatFacts
<1>8. DayOf(t) = d /\ Clock(t) = t - base
  <2>1. base <= t /\ t < base + Day
    BY <1>1, <1>4, <1>5, <1>7
  <2>. QED
    BY <1>1, <1>7, <2>1, SameDay DEF base
<1>9. ASSUME t < Format(e)
      PROVE  WorkingTime(t)
  <2>1. Format(e) \in Int /\ Format(e) <= e
    BY FormatFacts
  <2>2. Format(e) = base + Format(Clock(e))
    BY <1>3, <1>4, FormatWhole
  <2>3. Format(Clock(e)) \in Int /\ Format(Clock(e)) <= Clock(e)
    BY <1>4, FormatFacts
  <2>4. Clock(e) < 17 * Hour \/ Format(Clock(e)) = 17 * Hour
    BY DEF WindowAllowed, WorkingDayEnd, AtFive
  <2>5. t < base + 17 * Hour
    BY <1>5, <1>7, <1>9, <2>2, <2>3, <2>4, <1>4
  <2>6. Weekday(t) \in 0..4
    BY <1>8 DEF WindowAllowed, Weekday, d
  <2>. QED
    BY <1>5, <1>7, <1>8, <2>5, <2>6 DEF WorkingTime
<1>. QED
  BY <1>8, <1>9 DEF d, base

\* The busy time of day d is the half hour from 10:30 on.
LEMMA BusyOn ==
  ASSUME NEW t \in Int, NEW d \in Int
  PROVE  Busy(t) /\ DayOf(t) = d <=>
           /\ d * Day + 21 * HalfHour <= t
           /\ t < d * Day + 21 * HalfHour + HalfHour
<1>. DEFINE base == d * Day
<1>1. Day \in Int /\ HalfHour \in Nat \ {0} /\ Day = 48 * HalfHour
  BY TimeAssumption DEF Day, Hour
<1>2. base \in Int
  BY <1>1
<1>3. ASSUME Busy(t), DayOf(t) = d
      PROVE  base + 21 * HalfHour <= t /\ t < base + 21 * HalfHour + HalfHour
  <2>1. t = base + Clock(t) /\ Clock(t) \in Int
    BY <1>3, DayFacts
  <2>. HIDE DEF base
  <2>. QED
    BY <1>1, <1>2, <1>3, <2>1 DEF Busy
<1>4. ASSUME base + 21 * HalfHour <= t, t < base + 21 * HalfHour + HalfHour
      PROVE  Busy(t) /\ DayOf(t) = d
  <2>1. base <= t /\ t < base + Day
    <3>. HIDE DEF base
    <3>. QED
      BY <1>1, <1>2, <1>4
  <2>2. DayOf(t) = d /\ Clock(t) = t - base
    BY <2>1, SameDay
  <2>. HIDE DEF base
  <2>. QED
    BY <1>1, <1>2, <1>4, <2>2 DEF Busy
<1>. QED
  BY <1>3, <1>4

\* The answer is exact for every window in every zone: what is reported free
\* is what is in the window and not in the half hour of the date the start has
\* in its zone, to the second; within one day it is working time.
THEOREM ViewExact == Spec => []ExactView
<1>1. ASSUME IInv, stage = "answered",
             NEW t \in Format(window.start)..window.end
      PROVE  /\ Within(t, view) <=>
                  /\ t < Format(window.end)
                  /\ ~( /\ Busy(t)
                        /\ DayOf(t) =
                             DayOf(Format(window.start) + window.offset) )
             /\ DayOf(window.start) = DayOf(window.end) /\ Within(t, view)
                  => WorkingTime(t)
  <2>. DEFINE S == Format(window.start)
              E == Format(window.end)
              d == DayOf(S + window.offset)
              from == OccupiedFrom(S, window.offset)
              to == from + HalfHour
  <2>1. /\ window.start \in Int /\ window.end \in Int
        /\ WindowAllowed(window.start, window.end)
        /\ S < E /\ view = FreeIntervals(S, E, from, to)
    BY <1>1 DEF IInv, WindowOK, Accepted, Viewed, Computed
  <2>2. S \in Int /\ E \in Int /\ from \in Int /\ to \in Int /\ from < to
    BY <1>1, Occupied DEF IInv
  <2>3. d \in Int
    BY <1>1, <2>2, DayFacts DEF IInv, WindowOK
  <2>4. from = d * Day + 21 * HalfHour
    BY DEF OccupiedFrom
  <2>5. DayOf(window.start) = DayOf(window.end) /\ t < E => WorkingTime(t)
    BY <1>1, <2>1, WorkingWindow
  <2>6. t \in Int /\ S <= t
    BY <2>1, <2>2
  <2>7. Busy(t) /\ DayOf(t) = d <=> from <= t /\ t < to
    BY <2>3, <2>4, <2>6, BusyOn
  <2>. HIDE DEF S, E, d, from, to
  <2>8. Within(t, view) <=> S <= t /\ t < E /\ ~(from <= t /\ t < to)
    BY <2>1, <2>2, <2>6, FreeIntervalsExact
  <2>. QED
    BY <2>5, <2>6, <2>7, <2>8 DEF S, E, d
<1>2. IInv => ExactView
  BY <1>1 DEF ExactView
<1>. QED
  BY <1>2, Inductive, PTL

=============================================================================
