------------------------------- MODULE Calendar -------------------------------
(***************************************************************************)
(* Dates as Go's time package computes them, for the rules of              *)
(* internal/ingest/line that borrow a date or a year from a file.  A time  *)
(* is a number of units since the first instant of FirstYear in UTC; what  *)
(* the clocks of a time zone show at a time, its reading there, is counted *)
(* the same way, and the calendar is that of readings.                     *)
(***************************************************************************)
EXTENDS Integers, FiniteSetsExt

CONSTANTS
  FirstYear,  \* the year times are counted from
  Years,      \* how many years the calendar covers
  DayLen,     \* units in a day, an even number
  Zones       \* time zones: the offset from UTC before the first change of the
              \* clocks, and after each

\* The offsets of the zone z.
Offsets(z) == {z.base} \cup {z.changes[c] : c \in DOMAIN z.changes}

\* An offset is less than a day, and a change of the clocks not more; there are
\* four days at least between two of them.
ASSUME CalendarAssumption ==
  /\ FirstYear \in Nat /\ Years \in Nat \ {0}
  /\ DayLen \in Nat \ {0} /\ DayLen % 2 = 0
  /\ \A z \in Zones :
       /\ IsFiniteSet(DOMAIN z.changes) /\ DOMAIN z.changes \subseteq Int
       /\ Offsets(z) \subseteq 1 - DayLen .. DayLen - 1
       /\ \A o, p \in Offsets(z) : o - p <= DayLen
       /\ \A c, d \in DOMAIN z.changes : c < d => c + 4 * DayLen < d

Leap(y) == (y % 4 = 0 /\ y % 100 # 0) \/ y % 400 = 0

DaysIn(y, m) ==
  CASE m = 2 -> IF Leap(y) THEN 29 ELSE 28
    [] m \in {4, 6, 9, 11} -> 30
    [] OTHER -> 31

\* Days between the first day of FirstYear and that of y.
YearStart(y) ==
  LET days[k \in FirstYear .. FirstYear + Years] ==
        IF k = FirstYear THEN 0
        ELSE days[k - 1] + (IF Leap(k - 1) THEN 366 ELSE 365)
  IN days[y]

MonthStart(y, m) ==
  LET days[k \in 1 .. 12] == IF k = 1 THEN 0 ELSE days[k - 1] + DaysIn(y, k - 1)
  IN days[m]

\* time.Date: a day the month does not have runs over into the next month.
Day(y, m, d) == YearStart(y) + MonthStart(y, m) + d - 1

DayOf(t) == t \div DayLen

TimeOfDay(t) == t % DayLen

YearOf(t) == CHOOSE y \in FirstYear .. FirstYear + Years - 1 :
               YearStart(y) <= DayOf(t) /\ DayOf(t) < YearStart(y + 1)

MonthOf(t) == CHOOSE m \in 1 .. 12 :
  LET into == DayOf(t) - YearStart(YearOf(t)) - MonthStart(YearOf(t), m)
  IN 0 <= into /\ into < DaysIn(YearOf(t), m)

DayOfMonth(t) ==
  DayOf(t) - YearStart(YearOf(t)) - MonthStart(YearOf(t), MonthOf(t)) + 1

\* The times of the years covered.
Instants == 0 .. YearStart(FirstYear + Years) * DayLen - 1

\* The month, day and time of day of t in the year y.
InYear(t, y) == Day(y, MonthOf(t), DayOfMonth(t)) * DayLen + TimeOfDay(t)

-----------------------------------------------------------------------------
\* Time zones: Location.lookup, Time.In, and time.Date, which takes the offset
\* there would be if the offset at the reading were right.
Offset(z, t) ==
  LET past == {c \in DOMAIN z.changes : c <= t} IN
  IF past = {} THEN z.base ELSE z.changes[Max(past)]

ToClock(z, t) == t + Offset(z, t)

FromClock(z, w) == w - Offset(z, w - Offset(z, w))

\* The beginning of the day of t, or about it: clocks may skip midnight.
Midnight(z, t) == FromClock(z, DayOf(ToClock(z, t)) * DayLen)

\* The clocks show the reading w, as FromClock has it.
Shown(z, w) == ToClock(z, FromClock(z, w)) = w

\* The clocks show at no other time what they show at t.
Unambiguous(z, t) ==
  \A s \in t - 2 * DayLen .. t + 2 * DayLen : ToClock(z, s) = ToClock(z, t) => s = t
===============================================================================
