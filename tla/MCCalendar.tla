----------------------------- MODULE MCCalendar -----------------------------
(***************************************************************************)
(* Calendar and the monthly periods of VestingMath against the Gregorian   *)
(* calendar, day after day: the reference date advances by the rules every *)
(* calendar follows, and the code's formulas are evaluated on the same     *)
(* day.  On one of StartDays a monthly grant may start.                    *)
(***************************************************************************)
EXTENDS VestingMath

CONSTANTS LastDay,     \* the run stops after this many days
          StartDays,   \* days a monthly grant may start on
          Span         \* days such a grant is followed for

\* The calendars part on 29 February 2100, which the Gregorian one does not have.
ASSUME CalendarAssumption ==
    LastDay \in Nat /\ LastDay =< 47540 /\ StartDays \subseteq Nat /\ Span \in Nat

VARIABLES day,         \* days since 1970-01-01
          date,        \* the reference date of that day
          start        \* day and date of the start of the grant

NotStarted == [day |-> -1]

GregorianLeap(y) == y % 4 = 0 /\ (y % 100 # 0 \/ y % 400 = 0)

MonthLength(y, m) ==
    CASE m \in {4, 6, 9, 11} -> 30
      [] m = 2 -> IF GregorianLeap(y) THEN 29 ELSE 28
      [] OTHER -> 31

NextDate(d) ==
    IF d.mday < MonthLength(d.year, d.mon)
    THEN [d EXCEPT !.mday = @ + 1]
    ELSE IF d.mon < 12
    THEN [d EXCEPT !.mon = @ + 1, !.mday = 1]
    ELSE [year |-> d.year + 1, mon |-> 1, mday |-> 1]

CalendarInit ==
    /\ day = 0
    /\ date = [year |-> 1970, mon |-> 1, mday |-> 1]
    /\ start = NotStarted

NextDay ==
    /\ day < LastDay
    /\ start # NotStarted => day < start.day + Span
    /\ day' = day + 1
    /\ date' = NextDate(date)
    /\ UNCHANGED start

Start ==
    /\ day \in StartDays /\ start = NotStarted
    /\ start' = [day |-> day, date |-> date]
    /\ UNCHANGED <<day, date>>

calendar == <<day, date, start>>

CalendarSpec == CalendarInit /\ [][NextDay \/ Start]_calendar

-----------------------------------------------------------------------------
LastDayOfLeapYear == date.mon = 12 /\ date.mday = 31 /\ GregorianLeap(date.year)

\* The first and the last second of today.
Today == {day * SecondsPerDay, day * SecondsPerDay + SecondsPerDay - 1}

\* tm_get gives every instant the date of its day.  The printed dates and the
\* month lengths in tm_get, 29 days of February when the year is divisible by 4
\* and 31 of December, say so; 31 December of a leap year comes out as
\* 1 January of the same year.
TmGetGregorian == \A t \in Today : tm_get(t) = date

\* On every other day it does.
TmGetRight == ~ LastDayOfLeapYear => TmGetGregorian

\* The k-th monthly anniversary of the start: its day has come, is over.
Reached(k) == \/ MonthsBetween(start.date, date) > k
              \/ MonthsBetween(start.date, date) = k /\ date.mday >= start.date.mday

Over(k) == Reached(k) /\ ~ (MonthsBetween(start.date, date) = k /\ date.mday = start.date.mday)

\* The months elapsed of a monthly grant are the anniversaries whose day and time
\* have come, and a grant that ends today has as many months as it takes
\* anniversaries to reach today; whatever the time of day of both.
MonthsCounted ==
    (start # NotStarted /\ ~ LastDayOfLeapYear) =>
        LET months == 0 .. 12 * (Span \div 365 + 1)
            first  == start.day * SecondsPerDay
        IN  \A begin \in {first, first + SecondsPerDay - 1}, t \in Today :
                t >= begin =>
                LET HasCome(k) == Over(k) \/ (Reached(k) /\ TimeOfDay(t) >= TimeOfDay(begin))
                IN  /\ MonthsElapsed(begin, t)
                         = CHOOSE k \in months : HasCome(k) /\ ~ HasCome(k + 1)
                    /\ MonthsTotal(begin, t)
                         = CHOOSE k \in months : ~ Over(k) /\ (k = 0 \/ Over(k - 1))
=============================================================================
