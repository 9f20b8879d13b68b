------------------------------ MODULE Calendar ------------------------------
(***************************************************************************)
(* Dates as the contract sees them: eosdt/eosdt.hpp turns a time in        *)
(* seconds into year, month and day with a closed formula (tm_get), and    *)
(* the same formula prints a time (utils.hpp).  A day has SecondsPerDay    *)
(* ticks (86400 in the code).                                              *)
(***************************************************************************)
EXTENDS Integers

CONSTANT SecondsPerDay

ASSUME SecondsPerDayAssumption == SecondsPerDay \in Nat \ {0}

DayNumber(t) == t \div SecondsPerDay
TimeOfDay(t) == t % SecondsPerDay

\* Sunday is 0, and 1970-01-01 was a Thursday.
day_of_week(t) == (DayNumber(t) + 4) % 7

\* 29 February is day 60 of the years tm_get takes for leap years.
IsLeap(year) == year % 4 = 0

\* Days of the year before month m; DaysBefore(year, 13) is its length.
DaysBefore(year, m) ==
    <<0, 31, 59, 90, 120, 151, 181, 212, 243, 273, 304, 334, 365>>[m]
      + (IF IsLeap(year) /\ m > 2 THEN 1 ELSE 0)

\* Mutation: the leap day is taken off at the start of the leap year.
YearTooEarly(days) == 1970 + ((days - ((days + 731) \div 1461)) \div 365)

YearOf(days) == 1970 + ((days - ((days + 730) \div 1461)) \div 365)

\* days -= days / 365 * 365 + (days + 365) / 1461; if (days < 0) days += 365;
DayOfYear(days) ==
    LET d == (days % 365) - ((days + 365) \div 1461)
    IN  IF d < 0 THEN d + 365 ELSE d

\* year, month (1..12) and day of the month (1..31), as tm_get computes them;
\* the chain of mm() calls takes off one month after the other.
tm_get(t) ==
    LET days  == DayNumber(t)
        year  == YearOf(days)
        yday  == DayOfYear(days)
        month == CHOOSE m \in 1 .. 12 :
                     /\ m = 1 \/ DaysBefore(year, m) =< yday
                     /\ yday < DaysBefore(year, m + 1)
    IN  [year |-> year, mon |-> month, mday |-> yday - DaysBefore(year, month) + 1]
=============================================================================
