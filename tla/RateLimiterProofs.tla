------------------------- MODULE RateLimiterProofs -------------------------
(***************************************************************************)
(* Proofs about RateLimiter, for every set of subjects and actions, every  *)
(* limit and every window.                                                 *)
(***************************************************************************)
EXTENDS RateLimiter, TLAPS

-----------------------------------------------------------------------------
(* Facts about one list of admissions *)

\* What one more admission does to a list.
LEMMA OneMore ==
  ASSUME NEW h \in Seq(Admission), NEW x \in Admission
  PROVE  /\ Append(h, x) \in Seq(Admission)
         /\ Len(h) \in Nat /\ Len(Append(h, x)) = Len(h) + 1
         /\ Append(h, x)[Len(h) + 1] = x
         /\ \A i \in 1..Len(h) : h[i] \in Admission /\ Append(h, x)[i] = h[i]
  OBVIOUS

\* The parts of an admission are numbers.
LEMMA Parts ==
  ASSUME NEW x \in Admission
  PROVE  x.at \in Nat /\ x.process \in Nat
  BY DEF Admission

\* It takes more admissions where more restarts come between them, and two
\* limits of them where none does.
LEMMA NeededGrows ==
  ASSUME NEW limit \in Nat, NEW a \in Nat, NEW b \in Nat, a <= b
  PROVE  /\ Needed(limit, a) \in Nat
         /\ 2 * limit <= Needed(limit, a)
         /\ Needed(limit, a) <= Needed(limit, b)
         /\ Needed(limit, a + 1) = Needed(limit, a) + limit
         /\ Needed(limit, 0) = 2 * limit
<1>1. PICK d \in Nat : b = a + d
  <2>1. b - a \in Nat /\ b = a + (b - a)
    OBVIOUS
  <2>. QED
    BY <2>1
<1>2. /\ limit * a \in Nat /\ limit * d \in Nat
      /\ limit * (2 + a) = 2 * limit + limit * a
      /\ limit * (2 + (a + 1)) = 3 * limit + limit * a
      /\ limit * (2 + b) = 2 * limit + limit * a + limit * d
  BY <1>1
<1>3. limit * (2 + 0) = 2 * limit
  OBVIOUS
<1>. QED
  BY <1>2, <1>3 DEF Needed

\* Admitting a request now keeps the list in order.
LEMMA OrderedMore ==
  ASSUME NEW h \in Seq(Admission), NEW x \in Admission,
         Ordered(h, x.at, x.process)
  PROVE  Ordered(Append(h, x), x.at, x.process)
<1>. DEFINE g == Append(h, x)
<1>. DEFINE n == Len(h)
<1>1. /\ n \in Nat /\ Len(g) = n + 1 /\ g[n + 1] = x
      /\ \A i \in 1..n : h[i] \in Admission /\ g[i] = h[i]
  BY OneMore
<1>2. \A i, j \in 1..n :
        i <= j => /\ h[i].at <= h[j].at /\ h[j].at <= x.at
                  /\ h[i].process <= h[j].process
                  /\ h[j].process <= x.process
  BY DEF Ordered
<1>3. x.at <= x.at /\ x.process <= x.process
  BY Parts
<1>. HIDE DEF g, n
<1>4. \A i, j \in 1..(n + 1) :
        i <= j => /\ g[i].at <= g[j].at /\ g[j].at <= x.at
                  /\ g[i].process <= g[j].process
                  /\ g[j].process <= x.process
  <2>. SUFFICES ASSUME NEW i \in 1..(n + 1), NEW j \in 1..(n + 1), i <= j
                PROVE  /\ g[i].at <= g[j].at /\ g[j].at <= x.at
                       /\ g[i].process <= g[j].process
                       /\ g[j].process <= x.process
    OBVIOUS
  <2>1. CASE j \in 1..n
    BY <1>1, <1>2, <2>1
  <2>2. CASE j = n + 1 /\ i \in 1..n
    BY <1>1, <1>2, <1>3, <2>2
  <2>3. CASE j = n + 1 /\ i = n + 1
    BY <1>1, <1>3, <2>3
  <2>. QED
    BY <1>1, <2>1, <2>2, <2>3
<1>. QED
  BY <1>1, <1>4 DEF Ordered, g

\* The new last admission x is far enough from the earlier ones.
FarEnough(h, x, limit) ==
  \A i \in 1..Len(h) :
    Len(h) + 1 - i + 1 >= Needed(limit, x.process - h[i].process)
      => x.at - h[i].at >= Window

\* A longer list is spread out if its new last element is.
LEMMA SpreadMore ==
  ASSUME NEW h \in Seq(Admission), NEW x \in Admission,
         NEW limit \in Nat, limit >= 1,
         Spread(h, limit), FarEnough(h, x, limit)
  PROVE  Spread(Append(h, x), limit)
<1>. DEFINE g == Append(h, x)
<1>. DEFINE n == Len(h)
<1>1. /\ n \in Nat /\ Len(g) = n + 1 /\ g[n + 1] = x
      /\ \A i \in 1..n : h[i] \in Admission /\ g[i] = h[i]
  BY OneMore
<1>2. /\ \A i, j \in 1..n :
           i <= j /\ j - i + 1 >= Needed(limit, h[j].process - h[i].process)
             => h[j].at - h[i].at >= Window
      /\ \A i \in 1..n :
           n + 1 - i + 1 >= Needed(limit, x.process - h[i].process)
             => x.at - h[i].at >= Window
  BY DEF Spread, FarEnough
<1>. HIDE DEF g, n
<1>3. \A i, j \in 1..(n + 1) :
        i <= j /\ j - i + 1 >= Needed(limit, g[j].process - g[i].process)
          => g[j].at - g[i].at >= Window
  <2>. SUFFICES ASSUME NEW i \in 1..(n + 1), NEW j \in 1..(n + 1), i <= j,
                       j - i + 1 >= Needed(limit, g[j].process - g[i].process)
                PROVE  g[j].at - g[i].at >= Window
    OBVIOUS
  <2>1. CASE j \in 1..n
    BY <1>1, <1>2, <2>1
  <2>2. CASE j = n + 1 /\ i \in 1..n
    BY <1>1, <1>2, <2>2
  <2>3. CASE j = n + 1 /\ i = n + 1
    <3>1. x.process \in Nat /\ x.process - x.process = 0
      BY Parts
    <3>2. g[j].process - g[i].process = 0
      BY <1>1, <2>3, <3>1
    <3>3. Needed(limit, 0) = 2 * limit
      <4>1. 0 \in Nat /\ 0 <= 0
        OBVIOUS
      <4>. QED
        BY <4>1, NeededGrows
    <3>4. j - i + 1 >= 2 * limit
      BY <3>2, <3>3
    <3>. QED
      BY <1>1, <2>3, <3>4
  <2>. QED
    BY <1>1, <2>1, <2>2, <2>3
<1>. QED
  BY <1>1, <1>3 DEF Spread, g

\* Across a restart: m is an admission of an earlier process, and no more than
\* limit admissions come after it.  Then a restart makes up for them.
LEMMA AcrossRestart ==
  ASSUME NEW h \in Seq(Admission), NEW x \in Admission,
         NEW limit \in Nat, limit >= 1,
         Ordered(h, x.at, x.process), Spread(h, limit),
         NEW m \in 1..Len(h), h[m].process < x.process,
         Len(h) + 1 - m <= limit,
         NEW i \in 1..m,
         Len(h) + 1 - i + 1 >= Needed(limit, x.process - h[i].process)
  PROVE  x.at - h[i].at >= Window
<1>. DEFINE n == Len(h)
<1>1. n \in Nat /\ i \in 1..n /\ i <= m
      /\ \A k \in 1..n : h[k] \in Admission
  BY OneMore
<1>2. /\ h[i].process <= h[m].process /\ h[i].at <= h[m].at
      /\ h[m].at <= x.at
  BY <1>1 DEF Ordered
<1>3. /\ h[i].at \in Nat /\ h[m].at \in Nat /\ x.at \in Nat
      /\ h[i].process \in Nat /\ h[m].process \in Nat /\ x.process \in Nat
  BY <1>1, Parts
<1>. DEFINE a == h[m].process - h[i].process
            b == x.process - h[i].process
<1>4. a \in Nat /\ b \in Nat /\ a + 1 \in Nat /\ a + 1 <= b
      /\ a <= a /\ b <= b
  <2>1. \A u, v, w \in Nat :
          u <= v /\ v < w => /\ v - u \in Nat /\ w - u \in Nat
                             /\ (v - u) + 1 \in Nat /\ (v - u) + 1 <= w - u
                             /\ v - u <= v - u /\ w - u <= w - u
    OBVIOUS
  <2>. QED
    BY <1>2, <1>3, <2>1
<1>5. i <= m /\ m - i + 1 >= Needed(limit, a) => h[m].at - h[i].at >= Window
  BY <1>1 DEF Spread
<1>6. n + 1 - i + 1 >= Needed(limit, b)
  OBVIOUS
<1>. HIDE DEF a, b, n
<1>7. Needed(limit, a + 1) <= Needed(limit, b)
  BY <1>4, NeededGrows
<1>8. /\ Needed(limit, a) \in Nat /\ Needed(limit, b) \in Nat
      /\ Needed(limit, a + 1) = Needed(limit, a) + limit
  BY <1>4, NeededGrows
<1>9. m - i + 1 >= Needed(limit, a)
  BY <1>1, <1>6, <1>7, <1>8 DEF n
<1>10. h[m].at - h[i].at >= Window
  BY <1>1, <1>5, <1>9
<1>11. \A u, v, w, d \in Nat : v <= w /\ v - u >= d => w - u >= d
  OBVIOUS
<1>. QED
  BY <1>2, <1>3, <1>10, <1>11, LimitAssumption

\* As many admissions as it takes reach back at least two limits.
LEMMA TwoLimits ==
  ASSUME NEW h \in Seq(Admission), NEW x \in Admission, NEW limit \in Nat,
         Ordered(h, x.at, x.process), NEW i \in 1..Len(h),
         Len(h) + 1 - i + 1 >= Needed(limit, x.process - h[i].process)
  PROVE  Len(h) + 1 - i + 1 >= 2 * limit
<1>1. Len(h) \in Nat /\ h[i] \in Admission
  BY OneMore
<1>2. /\ h[i].process <= x.process
      /\ h[i].process \in Nat /\ x.process \in Nat
  BY <1>1, Parts DEF Ordered
<1>. DEFINE a == x.process - h[i].process
<1>3. a \in Nat /\ a <= a
  <2>1. \A u, w \in Nat : u <= w => w - u \in Nat /\ w - u <= w - u
    OBVIOUS
  <2>. QED
    BY <1>2, <2>1
<1>. HIDE DEF a
<1>4. Needed(limit, a) \in Nat /\ 2 * limit <= Needed(limit, a)
  BY <1>3, NeededGrows
<1>. QED
  BY <1>1, <1>4 DEF a

\* A request that starts a window: Entry holds of the new window, and an
\* admission that is as many places back as it takes is at most as late as the
\* start of the last window, which ran out, or was before a restart.
LEMMA StartsWindow ==
  ASSUME NEW h \in Seq(Admission), NEW x \in Admission,
         NEW s \in Nat, NEW c \in Nat, NEW limit \in Nat, limit >= 1,
         Ordered(h, x.at, x.process), Spread(h, limit),
         Entry(h, s, c, limit, x.process), c = 0 \/ x.at - s >= Window
  PROVE  /\ Entry(Append(h, x), x.at, 1, limit, x.process)
         /\ FarEnough(h, x, limit)
<1>. DEFINE g == Append(h, x)
<1>. DEFINE n == Len(h)
<1>. DEFINE t == x.at
<1>. DEFINE first == n - c + 1
<1>1. /\ n \in Nat /\ Len(g) = n + 1 /\ g[n + 1] = x /\ t \in Nat
      /\ \A i \in 1..n : h[i] \in Admission /\ g[i] = h[i]
  BY OneMore, Parts
<1>2. \A i, j \in 1..n : i <= j => h[i].at <= h[j].at /\ h[j].at <= t
  BY DEF Ordered
<1>3. c <= limit /\ c <= n /\ (c > 0 => h[first].at = s)
  BY DEF Entry
<1>4. c = 0 => \A i \in 1..n : h[i].process < x.process
  <2>. SUFFICES ASSUME c = 0 PROVE \A i \in 1..n : h[i].process < x.process
    OBVIOUS
  <2>1. first - 1 = n /\ ~(c > 0)
    BY <1>1
  <2>. QED
    BY <2>1 DEF Entry
<1>5. Window \in Nat
  BY LimitAssumption
<1>. HIDE DEF g, n, t
<1>6. ASSUME c > 0, t - s >= Window
      PROVE  /\ first \in 1..n /\ n + 1 - first <= limit
             /\ g[first].at + Window <= t /\ h[first].at = s
  <2>1. first \in 1..n /\ n + 1 - first <= limit
    BY <1>1, <1>3, <1>6
  <2>2. g[first].at = s /\ h[first].at = s
    BY <1>1, <1>3, <1>6, <2>1
  <2>. QED
    BY <1>1, <1>5, <1>6, <2>1, <2>2
<1>7. \A i \in 1..n :
        n + 1 - i + 1 >= Needed(limit, x.process - h[i].process)
          => t - h[i].at >= Window
  <2>. SUFFICES ASSUME NEW i \in 1..n,
                       n + 1 - i + 1 >=
                         Needed(limit, x.process - h[i].process)
                PROVE  t - h[i].at >= Window
    OBVIOUS
  <2>1. CASE c = 0
    <3>1. n \in 1..Len(h) /\ i \in 1..n /\ Len(h) + 1 - n <= limit
      BY <1>1 DEF n
    <3>2. h[n].process < x.process
      BY <1>1, <1>4, <2>1
    <3>3. Len(h) + 1 - i + 1 >= Needed(limit, x.process - h[i].process)
      BY DEF n
    <3>. QED
      BY <3>1, <3>2, <3>3, AcrossRestart DEF t
  <2>2. CASE c > 0
    <3>1. n + 1 - i + 1 >= 2 * limit
      BY TwoLimits DEF n
    <3>2. t - s >= Window
      BY <2>2 DEF t
    <3>3. first \in 1..n /\ i <= first /\ h[first].at = s
      BY <1>1, <1>3, <1>6, <2>2, <3>1, <3>2
    <3>4. h[i].at <= s /\ h[i].at \in Nat
      BY <1>1, <1>2, <3>3, Parts
    <3>. QED
      BY <1>1, <1>5, <3>2, <3>4
  <2>. QED
    BY <2>1, <2>2
<1>8. Entry(g, t, 1, limit, x.process)
  <2>1. Len(g) - 1 + 1 = n + 1 /\ n + 1 - 1 = n /\ 1 <= Len(g) /\ 1 <= limit
    BY <1>1
  <2>2. \/ \A i \in 1..n : g[i].process < x.process
        \/ \E q \in 1..n : n + 1 - q <= limit /\ g[q].at + Window <= t
    <3>1. CASE c = 0
      BY <1>1, <1>4, <3>1
    <3>2. CASE c > 0
      BY <1>6, <3>2 DEF t
    <3>. QED
      BY <3>1, <3>2
  <2>3. g[n + 1].at = t /\ g[n + 1].process = x.process
    BY <1>1 DEF t
  <2>. DEFINE d == 1
              f == n + 1
  <2>4. /\ Len(g) - d + 1 = f /\ f - 1 = n /\ d <= Len(g) /\ d > 0
        /\ d <= limit /\ g[f].at = t /\ g[f].process = x.process
    <3>1. /\ Len(g) - d + 1 = f /\ f - 1 = n /\ d <= Len(g) /\ d > 0
          /\ d <= limit
      BY <1>1
    <3>. QED
      BY <2>3, <3>1
  <2>5. \/ \A i \in 1..(f - 1) : g[i].process < x.process
        \/ \E q \in 1..(f - 1) : f - q <= limit /\ g[q].at + Window <= t
    BY <2>2, <2>4
  <2>. HIDE DEF d, f
  <2>6. Entry(g, t, d, limit, x.process)
    BY <2>4, <2>5 DEF Entry
  <2>. QED
    BY <2>6 DEF d
<1>. QED
  BY <1>7, <1>8 DEF g, n, t, FarEnough

\* A request counted in the running window: an admission that is as many places
\* back as it takes is at most as late as the start of the window before the
\* running one, or was before a restart.
LEMMA CountsInWindow ==
  ASSUME NEW h \in Seq(Admission), NEW x \in Admission,
         NEW s \in Nat, NEW c \in Nat, NEW limit \in Nat, limit >= 1,
         Ordered(h, x.at, x.process), Spread(h, limit),
         Entry(h, s, c, limit, x.process), c > 0, c < limit
  PROVE  /\ Entry(Append(h, x), s, c + 1, limit, x.process)
         /\ FarEnough(h, x, limit)
<1>. DEFINE g == Append(h, x)
<1>. DEFINE n == Len(h)
<1>. DEFINE t == x.at
<1>. DEFINE first == n - c + 1
<1>1. /\ n \in Nat /\ Len(g) = n + 1 /\ g[n + 1] = x /\ t \in Nat
      /\ \A i \in 1..n : h[i] \in Admission /\ g[i] = h[i]
  BY OneMore, Parts
<1>2. \A i, j \in 1..n : i <= j => h[i].at <= h[j].at /\ h[j].at <= t
  BY DEF Ordered
<1>3. c <= n /\ h[first].at = s /\ h[first].process = x.process
  BY DEF Entry
<1>4. \/ \A i \in 1..(first - 1) : h[i].process < x.process
      \/ \E q \in 1..(first - 1) :
           first - q <= limit /\ h[q].at + Window <= s
  BY DEF Entry
<1>5. Window \in Nat
  BY LimitAssumption
<1>. HIDE DEF g, n, t
<1>6. first \in 1..n /\ (n + 1) - (c + 1) + 1 = first
  BY <1>1, <1>3
<1>7. \A i \in 1..n :
        n + 1 - i + 1 >= Needed(limit, x.process - h[i].process)
          => t - h[i].at >= Window
  <2>. SUFFICES ASSUME NEW i \in 1..n,
                       n + 1 - i + 1 >=
                         Needed(limit, x.process - h[i].process)
                PROVE  t - h[i].at >= Window
    OBVIOUS
  <2>1. n + 1 - i + 1 >= 2 * limit
    BY TwoLimits DEF n
  <2>2. i <= first - limit
    BY <1>1, <1>3, <2>1
  <2>3. CASE \A k \in 1..(first - 1) : h[k].process < x.process
    <3>. DEFINE m == first - 1
    <3>1. m \in 1..n /\ i \in 1..m /\ n + 1 - m <= limit
      BY <1>1, <1>6, <2>2
    <3>2. h[m].process < x.process
      BY <2>3, <3>1
    <3>. HIDE DEF m, first
    <3>. QED
      BY <3>1, <3>2, AcrossRestart DEF n, t
  <2>4. CASE \E q \in 1..(first - 1) :
               first - q <= limit /\ h[q].at + Window <= s
    <3>1. PICK q \in 1..(first - 1) :
                 first - q <= limit /\ h[q].at + Window <= s
      BY <2>4
    <3>2. q \in 1..n /\ i <= q
      BY <1>1, <1>6, <2>2, <3>1
    <3>3. /\ h[i].at <= h[q].at /\ s <= t
          /\ h[i].at \in Nat /\ h[q].at \in Nat
      <4>1. h[i].at <= h[q].at
        BY <1>2, <3>2
      <4>2. s <= t
        BY <1>2, <1>3, <1>6
      <4>. QED
        BY <1>1, <3>2, <4>1, <4>2, Parts
    <3>4. \A a, b, w \in Nat : a <= b /\ b + w <= s /\ s <= t => t - a >= w
      BY <1>1
    <3>. QED
      BY <1>5, <3>1, <3>3, <3>4
  <2>. QED
    BY <1>4, <2>3, <2>4
<1>8. Entry(g, s, c + 1, limit, x.process)
  <2>1. /\ c + 1 <= limit /\ c + 1 <= n + 1 /\ c + 1 > 0
        /\ g[first].at = s /\ g[first].process = x.process
    BY <1>1, <1>3, <1>6
  <2>2. \A i \in 1..(first - 1) : g[i] = h[i]
    BY <1>1, <1>6
  <2>3. \/ \A i \in 1..(first - 1) : g[i].process < x.process
        \/ \E q \in 1..(first - 1) :
             first - q <= limit /\ g[q].at + Window <= s
    BY <1>4, <2>2
  <2>4. Len(g) - (c + 1) + 1 = first /\ c + 1 <= Len(g)
    BY <1>1, <1>6, <2>1
  <2>. HIDE DEF first
  <2>. DEFINE d == c + 1
  <2>5. Len(g) - d + 1 = first /\ d <= Len(g) /\ d > 0 /\ d <= limit
    BY <2>1, <2>4
  <2>. HIDE DEF d
  <2>6. Entry(g, s, d, limit, x.process)
    BY <2>1, <2>3, <2>5 DEF Entry
  <2>. QED
    BY <2>6 DEF d
<1>. QED
  BY <1>7, <1>8 DEF g, n, t, FarEnough

-----------------------------------------------------------------------------
(* The limiter *)

\* What the invariant says of one key.
KeyInv(k) ==
  /\ Ordered(admitted[k], now, process)
  /\ Entry(admitted[k], started[k], count[k], LimitOf(k), process)
  /\ Spread(admitted[k], LimitOf(k))

\* The parts of a key have their types, and its limit is positive.
LEMMA KeyTypes ==
  ASSUME TypeOK, NEW k \in Keys
  PROVE  /\ admitted[k] \in Seq(Admission) /\ now \in Nat /\ process \in Nat
         /\ started[k] \in Nat /\ count[k] \in Nat
         /\ LimitOf(k) \in Nat /\ LimitOf(k) >= 1
  BY LimitAssumption DEF TypeOK, Keys, LimitOf

\* An admitted request keeps the types and the invariant of its key.
LEMMA AdmitStep ==
  ASSUME TypeOK, NEW k \in Keys, KeyInv(k), Start(k) \/ Count(k)
  PROVE  TypeOK' /\ KeyInv(k)'
<1>. DEFINE x == [at |-> now, process |-> process]
<1>1. /\ admitted[k] \in Seq(Admission) /\ now \in Nat /\ process \in Nat
      /\ started[k] \in Nat /\ count[k] \in Nat
      /\ LimitOf(k) \in Nat /\ LimitOf(k) >= 1
  BY KeyTypes
<1>2. /\ Ordered(admitted[k], x.at, x.process)
      /\ Spread(admitted[k], LimitOf(k))
      /\ Entry(admitted[k], started[k], count[k], LimitOf(k), x.process)
  BY DEF KeyInv
<1>3. /\ admitted'[k] = Append(admitted[k], x)
      /\ now' = now /\ process' = process
  BY DEF Start, Count, Admit, TypeOK
<1>0. x \in Admission /\ x.at = now /\ x.process = process
  BY <1>1 DEF Admission
<1>4. TypeOK'
  <2>1. admitted' \in [Keys -> Seq(Admission)]
    <3>1. admitted' = [admitted EXCEPT ![k] = Append(admitted[k], x)]
      BY DEF Start, Count, Admit
    <3>2. admitted \in [Keys -> Seq(Admission)]
      BY DEF TypeOK
    <3>3. Append(admitted[k], x) \in Seq(Admission)
      BY <1>0, <1>1, OneMore
    <3>. DEFINE a == Append(admitted[k], x)
    <3>. HIDE DEF a
    <3>. QED
      BY <3>1, <3>2, <3>3 DEF a
  <2>2. started' \in [Keys -> Nat] /\ count' \in [Keys -> Nat]
    <3>1. CASE Start(k)
      BY <1>1, <3>1 DEF Start, TypeOK
    <3>2. CASE Count(k)
      <4>1. count[k] + 1 \in Nat
        BY <1>1
      <4>. QED
        BY <3>2, <4>1 DEF Count, TypeOK
    <3>. QED
      BY <3>1, <3>2
  <2>. QED
    BY <1>1, <1>3, <2>1, <2>2 DEF TypeOK
<1>. HIDE DEF x
<1>5. /\ Entry(admitted'[k], started'[k], count'[k], LimitOf(k), x.process)
      /\ FarEnough(admitted[k], x, LimitOf(k))
  <2>1. CASE Start(k)
    <3>1. /\ started'[k] = now /\ count'[k] = 1
          /\ count[k] = 0 \/ now - started[k] >= Window
      BY <2>1 DEF Start, NewWindow, TypeOK
    <3>. QED
      BY <1>0, <1>1, <1>2, <1>3, <3>1, StartsWindow
  <2>2. CASE Count(k)
    <3>1. /\ started'[k] = started[k] /\ count'[k] = count[k] + 1
          /\ count[k] # 0 /\ ~(count[k] >= LimitOf(k))
      BY <2>2 DEF Count, NewWindow, Full, TypeOK
    <3>2. count[k] > 0 /\ count[k] < LimitOf(k)
      BY <1>1, <3>1
    <3>. QED
      BY <1>0, <1>1, <1>2, <1>3, <3>1, <3>2, CountsInWindow
  <2>. QED
    BY <2>1, <2>2
<1>6. /\ Ordered(admitted'[k], x.at, x.process)
      /\ Spread(admitted'[k], LimitOf(k))
  BY <1>0, <1>1, <1>2, <1>3, <1>5, OrderedMore, SpreadMore
<1>. QED
  BY <1>0, <1>3, <1>4, <1>5, <1>6 DEF KeyInv, LimitOf

\* A key no request was made for, and every key when time passes.
LEMMA QuietStep ==
  ASSUME TypeOK, NEW k \in Keys, KeyInv(k), now' \in Nat, now <= now',
         started'[k] = started[k], count'[k] = count[k],
         admitted'[k] = admitted[k], process' = process
  PROVE  KeyInv(k)'
<1>1. \A i \in 1..Len(admitted[k]) : admitted[k][i].at \in Nat
  BY KeyTypes, OneMore, Parts
<1>2. Ordered(admitted[k], now', process)
  BY <1>1, KeyTypes DEF KeyInv, Ordered
<1>. QED
  BY <1>2 DEF KeyInv, LimitOf

\* A restart: no entry is left, and all admissions are of earlier processes.
LEMMA RestartStep ==
  ASSUME TypeOK, NEW k \in Keys, KeyInv(k), Restart
  PROVE  KeyInv(k)'
<1>. DEFINE h == admitted[k]
            n == Len(h)
<1>1. /\ h \in Seq(Admission) /\ n \in Nat /\ process \in Nat
      /\ LimitOf(k) \in Nat
  BY KeyTypes
<1>2. \A i \in 1..n : h[i] \in Admission
  BY <1>1
<1>3. \A i \in 1..n : h[i].process \in Nat
  BY <1>2, Parts
<1>4. /\ admitted' = admitted /\ now' = now /\ process' = process + 1
      /\ count'[k] = 0 /\ started'[k] = 0
  BY DEF Restart
<1>5. \A i, j \in 1..n :
        i <= j => /\ h[i].at <= h[j].at /\ h[j].at <= now
                  /\ h[i].process <= h[j].process /\ h[j].process <= process
  BY DEF KeyInv, Ordered
<1>. HIDE DEF n, h
<1>6. \A i \in 1..n : h[i].process < process + 1 /\ h[i].process <= process + 1
  <2>. SUFFICES ASSUME NEW i \in 1..n
                PROVE  h[i].process < process + 1
                       /\ h[i].process <= process + 1
    OBVIOUS
  <2>1. i <= i
    OBVIOUS
  <2>2. h[i].process <= process /\ h[i].process \in Nat
    BY <1>3, <1>5, <2>1
  <2>. QED
    BY <1>1, <2>2
<1>7. Ordered(h, now, process + 1)
  BY <1>5, <1>6 DEF Ordered, n
<1>8. Entry(h, 0, 0, LimitOf(k), process + 1)
  <2>1. /\ Len(h) - 0 + 1 = n + 1 /\ (n + 1) - 1 = n
        /\ 0 <= LimitOf(k) /\ 0 <= Len(h) /\ ~(0 > 0)
    BY <1>1 DEF n
  <2>. QED
    BY <1>6, <2>1 DEF Entry
<1>. QED
  BY <1>4, <1>7, <1>8 DEF KeyInv, LimitOf, h

\* IInv is an invariant of the limiter.
THEOREM Inductive == Spec => []IInv
<1>1. Init => IInv
  <2>. SUFFICES ASSUME Init PROVE IInv
    OBVIOUS
  <2>1. TypeOK
    BY DEF Init, TypeOK
  <2>2. ASSUME NEW k \in Keys PROVE KeyInv(k)
    <3>1. admitted[k] = <<>> /\ count[k] = 0
      BY DEF Init
    <3>. QED
      BY <2>1, <3>1, KeyTypes DEF KeyInv, Ordered, Entry, Spread
  <2>. QED
    BY <2>1, <2>2 DEF IInv, KeyInv, SlidingBound
<1>2. IInv /\ [Next]_vars => IInv'
  <2>. SUFFICES ASSUME TypeOK, \A k \in Keys : KeyInv(k), [Next]_vars
                PROVE  TypeOK' /\ \A k \in Keys : KeyInv(k)'
    BY DEF IInv, KeyInv, SlidingBound
  <2>1. ASSUME NEW k \in Keys, Start(k) \/ Count(k)
        PROVE  TypeOK' /\ \A j \in Keys : KeyInv(j)'
    <3>1. TypeOK' /\ KeyInv(k)'
      BY <2>1, AdmitStep
    <3>2. ASSUME NEW j \in Keys, j # k
          PROVE  KeyInv(j)'
      <4>1. /\ started'[j] = started[j] /\ count'[j] = count[j]
            /\ admitted'[j] = admitted[j] /\ now' = now /\ now \in Nat
            /\ process' = process
        BY <2>1, <3>2 DEF Start, Count, Admit, TypeOK
      <4>2. now' \in Nat /\ now <= now'
        BY <4>1
      <4>. QED
        BY <4>1, <4>2, QuietStep
    <3>. QED
      BY <3>1, <3>2
  <2>2. CASE Tick \/ UNCHANGED vars
    <3>1. /\ now' \in Nat /\ now <= now'
          /\ UNCHANGED <<started, count, admitted, process>>
      BY <2>2 DEF Tick, vars, TypeOK
    <3>. QED
      BY <3>1, QuietStep DEF TypeOK
  <2>3. CASE Restart
    BY <2>3, RestartStep DEF Restart, TypeOK
  <2>. QED
    BY <2>1, <2>2, <2>3 DEF Next
<1>. QED
  BY <1>1, <1>2, PTL DEF Spec

\* Types: times and counts.
THEOREM TypeCorrect == Spec => []TypeOK
<1>1. IInv => TypeOK
  BY DEF IInv
<1>. QED
  BY <1>1, Inductive, PTL

\* Fewer than 2 * limit admissions in any interval shorter than a window, and
\* no more than limit more for each restart of the adapter within it.
THEOREM Bounded == Spec => []SlidingBound
<1>1. IInv => SlidingBound
  BY DEF IInv
<1>. QED
  BY <1>1, Inductive, PTL

\* A refused Subject had its limit within the last window.
THEOREM Justified == Spec => []RefusalJustified
<1>1. IInv => RefusalJustified
  <2>. SUFFICES ASSUME IInv, NEW k \in Keys, Refused(k)
                PROVE  /\ Len(admitted[k]) - LimitOf(k) + 1 >= 1
                       /\ now - admitted[k][Len(admitted[k]) - LimitOf(k) + 1]
                                  .at < Window
                       /\ admitted[k][Len(admitted[k]) - LimitOf(k) + 1]
                            .process = process
    BY DEF RefusalJustified
  <2>1. /\ admitted[k] \in Seq(Admission) /\ now \in Nat /\ started[k] \in Nat
        /\ count[k] \in Nat /\ LimitOf(k) \in Nat /\ LimitOf(k) >= 1
    BY KeyTypes DEF IInv
  <2>2. /\ count[k] <= LimitOf(k) /\ count[k] <= Len(admitted[k])
        /\ count[k] > 0 =>
             /\ admitted[k][Len(admitted[k]) - count[k] + 1].at = started[k]
             /\ admitted[k][Len(admitted[k]) - count[k] + 1].process = process
    BY DEF IInv, Entry
  <2>3. /\ count[k] # 0 /\ ~(now - started[k] >= Window)
        /\ count[k] >= LimitOf(k)
    BY DEF Refused, NewWindow, Full
  <2>4. count[k] = LimitOf(k) /\ now - started[k] < Window
    BY <2>1, <2>2, <2>3, LimitAssumption
  <2>. QED
    BY <2>1, <2>2, <2>4
<1>. QED
  BY <1>1, Inductive, PTL

=============================================================================
