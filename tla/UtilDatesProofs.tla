-------------------------- MODULE UtilDatesProofs --------------------------
(***************************************************************************)
(* Facts about the date helpers, for any resolution of the clock and any   *)
(* length of the day.                                                      *)
(***************************************************************************)
EXTENDS UtilDates, TLAPS

LEMMA DivMod ==
    ASSUME NEW a \in Int, NEW d \in Nat \ {0}
    PROVE  /\ a \div d \in Int
           /\ d * (a \div d) <= a
           /\ a < d * (a \div d) + d
  BY Z3

LEMMA DivMonotone ==
    ASSUME NEW a \in Int, NEW b \in Int, a <= b, NEW d \in Nat \ {0}
    PROVE  a \div d <= b \div d
<1>1. SUFFICES ASSUME b \div d + 1 <= a \div d PROVE FALSE
  BY DivMod
<1>2. d * (b \div d + 1) <= d * (a \div d)
  BY <1>1, DivMod
<1> QED
  BY <1>2, DivMod

LEMMA SameQuotient ==
    ASSUME NEW a \in Int, NEW b \in Int, NEW d \in Nat \ {0}, a \div d = b \div d
    PROVE  a - b < d
  BY DivMod

LEMMA TicksPerDayPositive == TicksPerDay \in Nat \ {0}
  BY DatesAssumption DEF TicksPerDay

\* A date that is written as text and read back is no later than it was.
THEOREM TextNotLater ==
    ASSUME NEW t \in Nat
    PROVE  /\ DateToString(t) \in Nat
           /\ StringToDate(DateToString(t)) \in Nat
           /\ StringToDate(DateToString(t)) <= t
<1>1. DateToString(t) \in Nat
  BY DatesAssumption DEF DateToString
<1>2. StringToDate(DateToString(t)) = TicksPerSecond * (t \div TicksPerSecond)
  BY <1>1, DatesAssumption DEF DateToString, StringToDate
<1> QED
  BY <1>1, <1>2, DatesAssumption, DivMod

\* An earlier instant is not on a later day, in any zone.
THEOREM DaysMonotone ==
    ASSUME NEW s \in Nat, NEW t \in Nat, s <= t, NEW offset \in Nat
    PROVE  dayBetweenDates(t, s, offset) <= 0
<1>1. (s + offset) \div TicksPerDay <= (t + offset) \div TicksPerDay
  BY DivMonotone, TicksPerDayPositive
<1> QED
  BY <1>1, TicksPerDayPositive, DivMod DEF dayBetweenDates, LocalDay

\* Instants of one day are less than a day apart.
THEOREM SameDayIsClose ==
    ASSUME NEW s \in Nat, NEW t \in Nat, NEW offset \in Nat,
           dayBetweenDates(s, t, offset) = 0
    PROVE  s - t < TicksPerDay /\ t - s < TicksPerDay
<1> DEFINE a == s + offset
           b == t + offset
<1>1. a \div TicksPerDay = b \div TicksPerDay
  BY TicksPerDayPositive, DivMod DEF dayBetweenDates, LocalDay
<1>2. a - b < TicksPerDay /\ b - a < TicksPerDay
  BY <1>1, SameQuotient, TicksPerDayPositive
<1> QED
  BY <1>2, TicksPerDayPositive

---------------------------------------------------------------------------
(***************************************************************************)
(* What the text form of a date loses.                                     *)
(***************************************************************************)
LEMMA TextIsSecond ==
    ASSUME NEW t \in Nat
    PROVE  /\ t \div TicksPerSecond \in Nat
           /\ DateToString(t) = t \div TicksPerSecond
           /\ StringToDate(DateToString(t)) = TicksPerSecond * (t \div TicksPerSecond)
<1>1. t \div TicksPerSecond \in Nat
  BY DatesAssumption
<1> QED
  BY <1>1, DatesAssumption DEF DateToString, StringToDate

\* Written as text and read back, a date is less than a second early.
THEOREM TextKeepsTheSecond ==
    ASSUME NEW t \in Nat
    PROVE  t < StringToDate(DateToString(t)) + TicksPerSecond
  BY TextIsSecond, DatesAssumption, DivMod

\* A text read as a date and written again is the same text: the dates in the
\* suite do not creep, however often they are read and written.
THEOREM TextRoundTrip ==
    ASSUME NEW s \in Nat
    PROVE  DateToString(StringToDate(s)) = s
<1> DEFINE q == (s * TicksPerSecond) \div TicksPerSecond
<1>0. s * TicksPerSecond \in Int /\ TicksPerSecond \in Nat \ {0}
  BY DatesAssumption
<1>1. /\ q \in Int
      /\ TicksPerSecond * q <= s * TicksPerSecond
      /\ s * TicksPerSecond < TicksPerSecond * q + TicksPerSecond
  BY <1>0, DivMod
<1>2. ~(q < s) /\ ~(q > s)
  <2> HIDE DEF q
  <2>1. ASSUME q + 1 <= s PROVE FALSE
    <3>1. TicksPerSecond * (q + 1) <= TicksPerSecond * s
      BY <1>0, <1>1, <2>1
    <3> QED
      BY <1>0, <1>1, <3>1
  <2>2. ASSUME s + 1 <= q PROVE FALSE
    <3>1. TicksPerSecond * (s + 1) <= TicksPerSecond * q
      BY <1>0, <1>1, <2>2
    <3> QED
      BY <1>0, <1>1, <3>1
  <2> QED
    BY <1>1, <2>1, <2>2
<1> QED
  BY <1>1, <1>2 DEF DateToString, StringToDate

\* Of two dates a second or more apart the texts are in the same order: a
\* comparison of texts overlooks what happens within a second and no more.
THEOREM LaterSecondLaterText ==
    ASSUME NEW s \in Nat, NEW t \in Nat, s + TicksPerSecond <= t
    PROVE  /\ DateToString(s) < DateToString(t)
           /\ StringToDate(DateToString(s)) < StringToDate(DateToString(t))
<1> DEFINE p == s \div TicksPerSecond
           q == t \div TicksPerSecond
<1>0. TicksPerSecond \in Nat \ {0}
  BY DatesAssumption
<1>1. /\ p \in Nat /\ TicksPerSecond * p <= s
      /\ q \in Nat /\ t < TicksPerSecond * q + TicksPerSecond
  BY <1>0, DivMod, TextIsSecond
<1>2. TicksPerSecond * p < TicksPerSecond * q
  BY <1>0, <1>1
<1>3. p < q
  <2> HIDE DEF p, q
  <2>1. ASSUME q <= p PROVE FALSE
    <3>1. TicksPerSecond * q <= TicksPerSecond * p
      BY <1>0, <1>1, <2>1
    <3> QED
      BY <1>0, <1>1, <1>2, <3>1
  <2> QED
    BY <1>1, <2>1
<1> QED
  BY <1>2, <1>3, TextIsSecond

---------------------------------------------------------------------------
(***************************************************************************)
(* Days.                                                                   *)
(***************************************************************************)
\* The days between two instants are off by less than one from the time that
\* passed.
THEOREM DaysMeasureTime ==
    ASSUME NEW s \in Nat, NEW t \in Nat, NEW offset \in Nat
    PROVE  LET n == dayBetweenDates(s, t, offset)
           IN  /\ n \in Int
               /\ TicksPerDay * n < (t - s) + TicksPerDay
               /\ t - s < TicksPerDay * n + TicksPerDay
<1> DEFINE p == (s + offset) \div TicksPerDay
           q == (t + offset) \div TicksPerDay
<1>1. /\ p \in Int /\ TicksPerDay * p <= s + offset /\ s + offset < TicksPerDay * p + TicksPerDay
      /\ q \in Int /\ TicksPerDay * q <= t + offset /\ t + offset < TicksPerDay * q + TicksPerDay
  BY TicksPerDayPositive, DivMod
<1>2. dayBetweenDates(s, t, offset) = q - p
  BY DEF dayBetweenDates, LocalDay
<1> HIDE DEF p, q
<1>3. TicksPerDay * (q - p) = TicksPerDay * q - TicksPerDay * p
  BY <1>1, TicksPerDayPositive
<1> QED
  BY <1>1, <1>2, <1>3, TicksPerDayPositive

\* Whatever the zones, they disagree about the days between two instants by
\* one at most: that is all a journey changes in what the SDK decides.
THEOREM ZonesDisagreeByADay ==
    ASSUME NEW s \in Nat, NEW t \in Nat, NEW o1 \in Nat, NEW o2 \in Nat
    PROVE  dayBetweenDates(s, t, o1) - dayBetweenDates(s, t, o2) <= 1
<1> DEFINE m == dayBetweenDates(s, t, o1)
           n == dayBetweenDates(s, t, o2)
<1>1. /\ m \in Int /\ TicksPerDay * m < (t - s) + TicksPerDay
      /\ n \in Int /\ t - s < TicksPerDay * n + TicksPerDay
  BY DaysMeasureTime
<1> HIDE DEF m, n
<1>2. ASSUME n + 2 <= m PROVE FALSE
  <2>1. TicksPerDay * (n + 2) <= TicksPerDay * m
    BY <1>1, <1>2, TicksPerDayPositive
  <2>2. TicksPerDay * (n + 2) = TicksPerDay * n + TicksPerDay + TicksPerDay
    BY <1>1, TicksPerDayPositive
  <2> QED
    BY <1>1, <2>1, <2>2, TicksPerDayPositive
<1>3. m - n <= 1
  BY <1>1, <1>2
<1> QED
  BY <1>3 DEF m, n

===========================================================================
