------------------------- MODULE VestingMathProofs -------------------------
(***************************************************************************)
(* What the sums of VestingMath return, for every size of a day, of the    *)
(* clock and of a weight.                                                  *)
(***************************************************************************)
EXTENDS VestingMath, SumsProofs

\* The integer quotients of the code are natural numbers.
LEMMA DivNat ==
    ASSUME NEW a \in Nat, NEW b \in Nat \ {0}
    PROVE  a \div b \in Nat
OBVIOUS

\* The remainder of a difference is a natural number, in 32 bits or any other.
LEMMA ModNat ==
    ASSUME NEW a \in Int, NEW b \in Nat \ {0}
    PROVE  a % b \in Nat
OBVIOUS

\* Products of natural numbers are natural numbers.
LEMMA MulNat ==
    ASSUME NEW a \in Nat, NEW b \in Nat
    PROVE  a * b \in Nat /\ (a # 0 /\ b # 0 => a * b # 0)
OBVIOUS

\* The day of the year that tm_get computes is below 365.
LEMMA DayOfYearType ==
    ASSUME NEW days \in Nat
    PROVE  DayOfYear(days) \in Int /\ DayOfYear(days) < 365
<1>1. (days % 365) \in 0 .. 364 /\ (days + 365) \div 1461 \in Nat
    OBVIOUS
<1> DEFINE d == (days % 365) - ((days + 365) \div 1461)
<1>2. d \in Int /\ d < 365
    BY <1>1
<1> HIDE DEF d
<1> QED BY <1>2 DEF DayOfYear, d

\* The chain of mm() calls finds a month for every day below 365.
LEMMA MonthExists ==
    ASSUME NEW year \in Int, NEW yday \in Int, yday < 365
    PROVE  \E m \in 1 .. 12 :
               /\ m = 1 \/ DaysBefore(year, m) =< yday
               /\ yday < DaysBefore(year, m + 1)
<1> DEFINE D(m) == DaysBefore(year, m)
<1>1. D(2) \in Int /\ D(3) \in Int /\ D(4) \in Int /\ D(5) \in Int /\ D(6) \in Int
    BY DEF DaysBefore, IsLeap
<1>2. D(7) \in Int /\ D(8) \in Int /\ D(9) \in Int /\ D(10) \in Int /\ D(11) \in Int
    BY DEF DaysBefore, IsLeap
<1>3. D(12) \in Int /\ D(13) \in Int /\ D(13) >= 365
    BY DEF DaysBefore, IsLeap
<1> HIDE DEF D
<1> DEFINE In(m) == (m = 1 \/ D(m) =< yday) /\ yday < D(m + 1)
<1>4. \/ In(1) \/ In(2) \/ In(3) \/ In(4) \/ In(5) \/ In(6)
      \/ In(7) \/ In(8) \/ In(9) \/ In(10) \/ In(11) \/ In(12)
    BY <1>1, <1>2, <1>3
<1>5. \E m \in 1 .. 12 : In(m)
  <2> HIDE DEF In
  <2> QED BY <1>4
<1> QED BY <1>5 DEF D

\* tm_get gives every time a year, one of the twelve months and a day.
LEMMA TmGetType ==
    ASSUME NEW t \in Nat
    PROVE  /\ tm_get(t).year \in Int
           /\ tm_get(t).mon \in 1 .. 12
           /\ tm_get(t).mday \in Int
<1> DEFINE days  == DayNumber(t)
           year  == YearOf(days)
           yday  == DayOfYear(days)
           Found(m) == /\ m = 1 \/ DaysBefore(year, m) =< yday
                       /\ yday < DaysBefore(year, m + 1)
           month == CHOOSE m \in 1 .. 12 : Found(m)
<1>1. days \in Nat
    BY DivNat, SecondsPerDayAssumption DEF DayNumber
<1> HIDE DEF days
<1>2. year \in Int
    BY <1>1 DEF YearOf
<1>3. yday \in Int /\ yday < 365
    BY <1>1, DayOfYearType
<1> HIDE DEF year, yday
<1>4. \E m \in 1 .. 12 : Found(m)
    BY <1>2, <1>3, MonthExists
<1>5. month \in 1 .. 12
  <2> HIDE DEF Found
  <2> QED BY <1>4
<1> HIDE DEF month
<1>6. DaysBefore(year, month) \in Int
    BY <1>2, <1>5 DEF DaysBefore, IsLeap
<1>7. tm_get(t) = [year |-> year, mon |-> month, mday |-> yday - DaysBefore(year, month) + 1]
    BY DEF tm_get, days, year, yday, month
<1> QED BY <1>2, <1>3, <1>5, <1>6, <1>7

\* Both counts of periods are integers, whatever the period.
LEMMA PeriodsType ==
    ASSUME NEW period \in VestingPeriods, NEW start \in Nat, NEW end \in Nat, NEW curr \in Nat
    PROVE  /\ PeriodsTotal(period, start, end) \in Int
           /\ PeriodsElapsed(period, start, curr) \in Int
<1>1. /\ SecondsPerDay \in Nat \ {0} /\ 7 * SecondsPerDay \in Nat \ {0}
      /\ 30 * SecondsPerDay \in Nat \ {0}
    BY SecondsPerDayAssumption
<1>2. vesting_period_size(period) \in Nat
    BY <1>1 DEF vesting_period_size, Weekly, Daily, Secondly, Daily30
<1>3. ASSUME vesting_period_size(period) # 0
      PROVE  /\ (end - start) \div vesting_period_size(period) \in Int
             /\ (curr - start) \div vesting_period_size(period) \in Int
    BY <1>2, <1>3
<1>4. MonthsTotal(start, end) \in Int /\ MonthsElapsed(start, curr) \in Int
  <2>1. /\ tm_get(start).year \in Int /\ tm_get(start).mon \in Int /\ tm_get(start).mday \in Int
        /\ tm_get(end).year \in Int /\ tm_get(end).mon \in Int /\ tm_get(end).mday \in Int
        /\ tm_get(curr).year \in Int /\ tm_get(curr).mon \in Int /\ tm_get(curr).mday \in Int
      BY TmGetType
  <2>2. /\ MonthsBetween(tm_get(start), tm_get(end)) \in Int
        /\ MonthsBetween(tm_get(start), tm_get(curr)) \in Int
      BY <2>1 DEF MonthsBetween
  <2> QED BY <2>2 DEF MonthsTotal, MonthsElapsed
<1>5. PeriodsTotal(period, start, end) \in Int
    BY <1>3, <1>4 DEF PeriodsTotal
<1>6. PeriodsElapsed(period, start, curr) \in Int
    BY <1>3, <1>4 DEF PeriodsElapsed
<1> QED BY <1>5, <1>6

\* No more periods have ended than the grant has, unless none has.
LEMMA PercentType ==
    ASSUME NEW period \in VestingPeriods, NEW start \in Nat, NEW end \in Nat, NEW curr \in Nat
    PROVE  LET percent == calc_vesting_percent(period, start, end, curr)
           IN  /\ percent.total \in Int /\ percent.elapsed \in Nat
               /\ percent.elapsed # 0 => percent.elapsed =< percent.total
<1> DEFINE total == PeriodsTotal(period, start, end)
           ran   == PeriodsElapsed(period, start, curr)
<1>1. total \in Int /\ ran \in Int
    BY PeriodsType
<1> HIDE DEF total, ran
<1> DEFINE elapsed == IF ran < total /\ curr < end THEN ran ELSE total
<1>2. elapsed \in Int /\ elapsed =< total
    BY <1>1
<1> HIDE DEF elapsed
<1>3. calc_vesting_percent(period, start, end, curr)
          = [total |-> total, elapsed |-> IF elapsed < 0 THEN 0 ELSE elapsed]
    BY DEF calc_vesting_percent, total, ran, elapsed
<1> QED BY <1>1, <1>2, <1>3

\* op_mul_div returns a natural number for what the sums give it.
LEMMA OpMulDivType ==
    ASSUME NEW quantity \in Nat, NEW mul \in Nat, NEW div \in Nat \ {0}
    PROVE  op_mul_div(quantity, mul, div) \in Nat
<1>1. WeightUnit \in Nat \ {0}
    BY VestingMathAssumption
<1>2. quantity * mul \in Nat /\ div * WeightUnit \in Nat \ {0}
    BY <1>1, MulNat
<1> QED BY <1>2, DivNat DEF op_mul_div

\* The part that accrues by periods is a natural number.
LEMMA LinearPartType ==
    ASSUME NEW amount \in Nat, NEW weight \in 0 .. WeightUnit, NEW percent,
           percent.total \in Int, percent.elapsed \in Nat,
           percent.elapsed # 0 => percent.elapsed =< percent.total
    PROVE  LinearPart(amount, weight, percent) \in Nat
<1>1. CASE percent.elapsed = 0
    BY <1>1 DEF LinearPart
<1>2. CASE percent.elapsed # 0
  <2>1. WeightUnit - weight \in Nat
      BY VestingMathAssumption
  <2>2. percent.total \in Nat \ {0}
      BY <1>2
  <2>3. percent.elapsed * (WeightUnit - weight) \in Nat
      BY <2>1, MulNat
  <2> QED BY <1>2, <2>2, <2>3, OpMulDivType DEF LinearPart
<1> QED BY <1>1, <1>2

\* A grant has the fields the sums read.
IsGrant(v) ==
    /\ v.vesting_period \in VestingPeriods /\ v.vesting_amount \in Nat
    /\ v.cliff_weight \in 0 .. WeightUnit
    /\ v.cliff_date \in Nat /\ v.end_date \in Nat

\* Never less than nothing and never more than the grant has vested, for every
\* grant and all dates: claim and cancelvesting rely on both bounds.
THEOREM VestedWithinGrant ==
    ASSUME NEW v, IsGrant(v), NEW curr \in Nat, NEW now \in Nat
    PROVE  Vested(v, curr, now) \in 0 .. v.vesting_amount
<1> DEFINE percent == calc_vesting_percent(v.vesting_period, v.cliff_date, v.end_date, curr)
           linear  == LinearPart(v.vesting_amount, v.cliff_weight, percent)
           cliff   == IF v.cliff_date < now /\ v.cliff_weight > 0
                      THEN CliffPart(v.vesting_amount, v.cliff_weight) ELSE 0
<1>1. /\ percent.total \in Int /\ percent.elapsed \in Nat
      /\ percent.elapsed # 0 => percent.elapsed =< percent.total
    BY PercentType DEF IsGrant
<1> HIDE DEF percent
<1>2. linear \in Nat
    BY <1>1, LinearPartType DEF IsGrant
<1>3. CliffPart(v.vesting_amount, v.cliff_weight) \in Nat
  <2>1. v.vesting_amount \in Nat /\ v.cliff_weight \in Nat /\ 1 \in Nat \ {0}
      BY VestingMathAssumption DEF IsGrant
  <2> QED BY <2>1, OpMulDivType DEF CliffPart
<1>4. cliff \in Nat
    BY <1>3
<1> HIDE DEF linear, cliff
<1>5. Vested(v, curr, now) = IF \/ linear + cliff > v.vesting_amount
                                \/ percent.total = percent.elapsed /\ v.cliff_date < now
                             THEN v.vesting_amount
                             ELSE linear + cliff
    BY DEF Vested, percent, linear, cliff
<1> QED BY <1>2, <1>4, <1>5 DEF IsGrant

\* The clock of a grant shows a time, even when its pauses exceed what has gone
\* by since 1970 and the 32 bits wrap around.
LEMMA FixedNowType ==
    ASSUME NEW v, NEW now \in Nat, v.pause_start \in Nat, v.pause_time \in Nat
    PROVE  now_fixed_by_pause(v, now) \in Nat
<1>1. PausedFor(v, now) \in Nat
    BY DEF PausedFor
<1>2. now - PausedFor(v, now) \in Int /\ TimeWrap \in Nat \ {0}
    BY <1>1, VestingMathAssumption
<1> QED BY <1>2, ModNat DEF now_fixed_by_pause

-----------------------------------------------------------------------------
(* The calendar. *)

\* The number of 1 January of a year, in days since 1970.
FirstDay(year) == 365 * (year - 1970) + ((year - 1969) \div 4)

\* YearOf and DayOfYear split the days since 1970 into years that begin on FirstDay, but on
\* the last day of a leap year, which DayOfYear takes for the first of the year.
LEMMA YearAndDay ==
    ASSUME NEW days \in Nat, days < 364 * 1461
    PROVE  /\ YearOf(days) \in Nat
           /\ days - FirstDay(YearOf(days)) \in 0 .. 365
           /\ days % 1461 # 1095 =>
                /\ days - FirstDay(YearOf(days)) < 365
                /\ DayOfYear(days) = days - FirstDay(YearOf(days))
           /\ days % 1461 = 1095 => DayOfYear(days) = 0
<1> DEFINE k == days \div 1461
           r == days % 1461
<1>1. k \in 0 .. 363 /\ r \in 0 .. 1460 /\ days = 1461 * k + r
    OBVIOUS
<1>0. days % 1461 = r
    OBVIOUS
<1> HIDE DEF k, r
<1>2. ASSUME r < 730
      PROVE  (days + 730) \div 1461 = k /\ (days + 365) \div 1461 = k
    BY <1>1, <1>2
<1>3. ASSUME 730 =< r, r < 731
      PROVE  (days + 730) \div 1461 = k /\ (days + 365) \div 1461 = k
    BY <1>1, <1>3
<1>4. ASSUME 731 =< r, r < 1096
      PROVE  (days + 730) \div 1461 = k + 1 /\ (days + 365) \div 1461 = k
    BY <1>1, <1>4
<1>5. ASSUME 1096 =< r
      PROVE  (days + 730) \div 1461 = k + 1 /\ (days + 365) \div 1461 = k + 1
    BY <1>1, <1>5
<1>6. CASE r < 365
  <2>1. YearOf(days) = 1970 + 4 * k BY <1>1, <1>2, <1>6 DEF YearOf
  <2>2. days - FirstDay(YearOf(days)) = r BY <1>1, <2>1 DEF FirstDay
  <2>3. days % 365 = IF k + r < 365 THEN k + r ELSE k + r - 365
      BY <1>1, <1>6
  <2>4. DayOfYear(days) = r BY <1>1, <1>2, <1>6, <2>3 DEF DayOfYear
  <2> QED BY <1>0, <1>1, <2>1, <2>2, <2>4, <1>6
<1>7. CASE 365 =< r /\ r < 730
  <2>1. YearOf(days) = 1971 + 4 * k BY <1>1, <1>2, <1>7 DEF YearOf
  <2>2. days - FirstDay(YearOf(days)) = r - 365 BY <1>1, <2>1 DEF FirstDay
  <2>3. days % 365 = IF k + r < 730 THEN k + r - 365 ELSE k + r - 730
      BY <1>1, <1>7
  <2>4. DayOfYear(days) = r - 365 BY <1>1, <1>2, <1>7, <2>3 DEF DayOfYear
  <2> QED BY <1>0, <1>1, <2>1, <2>2, <2>4, <1>7
<1>8. CASE 730 =< r /\ r < 1095
  <2>1. YearOf(days) = 1972 + 4 * k BY <1>1, <1>3, <1>4, <1>8 DEF YearOf
  <2>2. days - FirstDay(YearOf(days)) = r - 730 BY <1>1, <2>1 DEF FirstDay
  <2>3. days % 365 = IF k + r < 1095 THEN k + r - 730 ELSE k + r - 1095
      BY <1>1, <1>8
  <2>4. DayOfYear(days) = r - 730 BY <1>1, <1>3, <1>4, <1>8, <2>3 DEF DayOfYear
  <2> QED BY <1>0, <1>1, <2>1, <2>2, <2>4, <1>8
<1>9. CASE r = 1095
  <2>1. YearOf(days) = 1972 + 4 * k BY <1>1, <1>4, <1>9 DEF YearOf
  <2>2. days - FirstDay(YearOf(days)) = 365 BY <1>1, <1>9, <2>1 DEF FirstDay
  <2>3. days % 365 = k
      BY <1>1, <1>9
  <2>4. DayOfYear(days) = 0 BY <1>1, <1>4, <1>9, <2>3 DEF DayOfYear
  <2> QED BY <1>0, <1>1, <2>1, <2>2, <2>4, <1>9
<1>10. CASE 1096 =< r
  <2>1. YearOf(days) = 1973 + 4 * k BY <1>1, <1>5, <1>10 DEF YearOf
  <2>2. days - FirstDay(YearOf(days)) = r - 1096 BY <1>1, <2>1 DEF FirstDay
  <2>3. days % 365 = IF k + r < 1460 THEN k + r - 1095 ELSE k + r - 1460
      BY <1>1, <1>10
  <2>4. DayOfYear(days) = r - 1096 BY <1>1, <1>5, <1>10, <2>3 DEF DayOfYear
  <2> QED BY <1>0, <1>1, <2>1, <2>2, <2>4, <1>10
<1> QED BY <1>1, <1>6, <1>7, <1>8, <1>9, <1>10

\* The month tm_get finds is the one the day of the year is in.
LEMMA TmGetIs ==
    ASSUME NEW t \in Nat, DayOfYear(DayNumber(t)) \in Nat
    PROVE  LET date == tm_get(t)
               year == YearOf(DayNumber(t))
               yday == DayOfYear(DayNumber(t))
           IN  /\ date.year = year /\ date.mon \in 1 .. 12
               /\ date.mday = yday - DaysBefore(year, date.mon) + 1
               /\ DaysBefore(year, date.mon) =< yday
               /\ yday < DaysBefore(year, date.mon + 1)
<1> DEFINE days  == DayNumber(t)
           year  == YearOf(days)
           yday  == DayOfYear(days)
           Found(m) == /\ m = 1 \/ DaysBefore(year, m) =< yday
                       /\ yday < DaysBefore(year, m + 1)
           month == CHOOSE m \in 1 .. 12 : Found(m)
<1>1. days \in Nat
    BY DivNat, SecondsPerDayAssumption DEF DayNumber
<1> HIDE DEF days
<1>2. year \in Int /\ yday \in Nat /\ yday < 365
    BY <1>1, DayOfYearType DEF YearOf, days
<1> HIDE DEF year, yday
<1>3. month \in 1 .. 12 /\ Found(month)
  <2>1. \E m \in 1 .. 12 : Found(m)
    BY <1>2, MonthExists
  <2> HIDE DEF Found
  <2> QED BY <2>1
<1>4. DaysBefore(year, 1) = 0
    BY <1>2 DEF DaysBefore
<1> HIDE DEF month
<1>5. DaysBefore(year, month) =< yday
    BY <1>2, <1>3, <1>4
<1>6. tm_get(t) = [year |-> year, mon |-> month, mday |-> yday - DaysBefore(year, month) + 1]
    BY DEF tm_get, days, year, yday, month
<1> QED BY <1>3, <1>5, <1>6 DEF days, year, yday

\* A later month begins later.
LEMMA MonthsInOrder ==
    ASSUME NEW year \in Int, NEW m \in 1 .. 13, NEW n \in 1 .. 13, m =< n
    PROVE  /\ DaysBefore(year, m) \in Nat /\ DaysBefore(year, n) \in Nat
           /\ DaysBefore(year, m) =< DaysBefore(year, n)
BY DEF DaysBefore, IsLeap

\* The months of two days of a year, and the days in the same month, are in their order.
LEMMA DaysInOrder ==
    ASSUME NEW year \in Int, NEW i \in Nat, NEW j \in Nat, i < j,
           NEW m \in 1 .. 12, NEW n \in 1 .. 12,
           DaysBefore(year, m) =< i, j < DaysBefore(year, n + 1)
    PROVE  \/ m < n
           \/ m = n /\ i - DaysBefore(year, m) + 1 < j - DaysBefore(year, n) + 1
<1>1. ASSUME n + 1 =< m PROVE FALSE
  <2>1. n + 1 \in 1 .. 13 /\ m \in 1 .. 13
      OBVIOUS
  <2>2. DaysBefore(year, n + 1) =< DaysBefore(year, m)
      BY <1>1, <2>1, MonthsInOrder
  <2>3. DaysBefore(year, n + 1) \in Nat /\ DaysBefore(year, m) \in Nat
      BY <1>1, <2>1, MonthsInOrder
  <2> QED BY <2>2, <2>3
<1>2. DaysBefore(year, n) \in Nat
  <2>1. n \in 1 .. 13 /\ n =< n
      OBVIOUS
  <2> QED BY <2>1, MonthsInOrder
<1> QED BY <1>1, <1>2

\* tm_get gets the date of the time t right: t is not on 31 December of a leap year, and not
\* centuries away.
DateRight(t) == DayNumber(t) < 364 * 1461 /\ DayNumber(t) % 1461 # 1095

\* An earlier time has an earlier date, unless the later one is on the last day of a
\* leap year; of the same date are only times of the same day.
LEMMA DatesInOrder ==
    ASSUME NEW a \in Nat, NEW b \in Nat, a =< b, DateRight(b)
    PROVE  LET x == tm_get(a)
               y == tm_get(b)
           IN  \/ x.year < y.year
               \/ x.year = y.year /\ x.mon < y.mon
               \/ x.year = y.year /\ x.mon = y.mon /\ x.mday < y.mday
               \/ x = y /\ DayNumber(a) = DayNumber(b)
<1> DEFINE p == DayNumber(a)
           q == DayNumber(b)
<1>1. p \in Nat /\ q \in Nat /\ p =< q
  <2>1. SecondsPerDay \in Nat \ {0} BY SecondsPerDayAssumption
  <2> QED BY <2>1 DEF DayNumber
<1>2. CASE p = q
    BY <1>2 DEF tm_get
<1> DEFINE x == tm_get(a)
           y == tm_get(b)
           Earlier == \/ x.year < y.year
                      \/ x.year = y.year /\ x.mon < y.mon
                      \/ x.year = y.year /\ x.mon = y.mon /\ x.mday < y.mday
<1> SUFFICES ASSUME p < q PROVE Earlier
    BY <1>1, <1>2
<1> HIDE DEF p, q
<1>3. /\ YearOf(p) \in Nat /\ DayOfYear(p) \in Nat /\ p - FirstDay(YearOf(p)) \in 0 .. 365
      /\ DayOfYear(p) =< p - FirstDay(YearOf(p))
    BY <1>1, YearAndDay, SMTT(30) DEF q, DateRight
<1>4. /\ YearOf(q) \in Nat /\ DayOfYear(q) \in Nat
      /\ DayOfYear(q) = q - FirstDay(YearOf(q))
    BY <1>1, YearAndDay, SMTT(30) DEF q, DateRight
<1>5. YearOf(p) =< YearOf(q)
    BY <1>1 DEF YearOf
<1>6. x.year = YearOf(p) /\ y.year = YearOf(q)
    BY <1>3, <1>4, TmGetIs DEF p, q
<1>7. CASE YearOf(p) = YearOf(q)
  <2>1. DayOfYear(p) < DayOfYear(q)
      BY <1>1, <1>3, <1>4, <1>7 DEF FirstDay
  <2>2. /\ x.mon \in 1 .. 12 /\ y.mon \in 1 .. 12
        /\ x.mday = DayOfYear(p) - DaysBefore(YearOf(q), x.mon) + 1
        /\ y.mday = DayOfYear(q) - DaysBefore(YearOf(q), y.mon) + 1
        /\ DaysBefore(YearOf(q), x.mon) =< DayOfYear(p)
        /\ DayOfYear(q) < DaysBefore(YearOf(q), y.mon + 1)
      BY <1>3, <1>4, <1>7, TmGetIs DEF p, q
  <2> HIDE DEF x, y
  <2>3. YearOf(q) \in Int /\ DayOfYear(p) \in Nat /\ DayOfYear(q) \in Nat
      BY <1>3, <1>4
  <2>4. \/ x.mon < y.mon
        \/ /\ x.mon = y.mon
           /\ DayOfYear(p) - DaysBefore(YearOf(q), x.mon) + 1
                < DayOfYear(q) - DaysBefore(YearOf(q), y.mon) + 1
      BY <2>1, <2>2, <2>3, DaysInOrder
  <2> QED BY <1>6, <1>7, <2>2, <2>4
<1> QED
  <2> HIDE DEF x, y
  <2> QED BY <1>3, <1>4, <1>5, <1>6, <1>7

\* The months that have ended do not become fewer, unless the later time is on the last day
\* of a leap year.
LEMMA MonthsNeverDrop ==
    ASSUME NEW start \in Nat, NEW a \in Nat, NEW b \in Nat, a =< b, DateRight(b)
    PROVE  MonthsElapsed(start, a) =< MonthsElapsed(start, b)
<1> DEFINE s == tm_get(start)
           x == tm_get(a)
           y == tm_get(b)
           Unfinished(d, t) == \/ d.mday < s.mday
                               \/ d.mday = s.mday /\ TimeOfDay(t) < TimeOfDay(start)
<1>1. /\ s.year \in Int /\ s.mon \in 1 .. 12 /\ s.mday \in Int
      /\ x.year \in Int /\ x.mon \in 1 .. 12 /\ x.mday \in Int
      /\ y.year \in Int /\ y.mon \in 1 .. 12 /\ y.mday \in Int
    BY TmGetType
<1>2. /\ TimeOfDay(start) \in Int /\ TimeOfDay(a) \in Int /\ TimeOfDay(b) \in Int
      /\ DayNumber(a) = DayNumber(b) => TimeOfDay(a) =< TimeOfDay(b)
  <2>1. SecondsPerDay \in Nat \ {0} BY SecondsPerDayAssumption
  <2> QED BY <2>1 DEF DayNumber, TimeOfDay
<1>3. \/ x.year < y.year
      \/ x.year = y.year /\ x.mon < y.mon
      \/ x.year = y.year /\ x.mon = y.mon /\ x.mday < y.mday
      \/ x = y /\ DayNumber(a) = DayNumber(b)
    BY DatesInOrder
<1> DEFINE i == IF Unfinished(x, a) THEN 1 ELSE 0
           j == IF Unfinished(y, b) THEN 1 ELSE 0
<1>4. /\ MonthsElapsed(start, a) = ((x.year - s.year) * 12 + (x.mon - s.mon)) - i
      /\ MonthsElapsed(start, b) = ((y.year - s.year) * 12 + (y.mon - s.mon)) - j
    BY DEF MonthsElapsed, MonthsBetween
<1> HIDE DEF s, x, y
<1>5. i \in {0, 1} /\ j \in {0, 1}
    OBVIOUS
<1>6. x = y /\ DayNumber(a) = DayNumber(b) => j =< i
    BY <1>1, <1>2
<1>7. x.year = y.year /\ x.mon = y.mon /\ x.mday < y.mday => j =< i
    BY <1>1, <1>2
<1> HIDE DEF i, j
<1>8. i \in 0 .. 1 /\ j \in 0 .. 1
    BY <1>5
<1>9. CASE x.year < y.year
    BY <1>1, <1>4, <1>8, <1>9
<1>10. CASE x.year = y.year /\ x.mon < y.mon
    BY <1>1, <1>4, <1>8, <1>10
<1>11. CASE x.year = y.year /\ x.mon = y.mon /\ j =< i
    BY <1>1, <1>4, <1>8, <1>11
<1> QED BY <1>3, <1>6, <1>7, <1>9, <1>10, <1>11

-----------------------------------------------------------------------------
(* Time goes by. *)

\* The periods of a grant are counted right at the time t: all but months always are.
CountsRight(period, t) == period = Monthly => DateRight(t)

\* The periods that have ended do not become fewer.
LEMMA PeriodsNeverDrop ==
    ASSUME NEW period \in VestingPeriods, NEW start \in Nat,
           NEW a \in Nat, NEW b \in Nat, a =< b, CountsRight(period, b)
    PROVE  PeriodsElapsed(period, start, a) =< PeriodsElapsed(period, start, b)
<1> DEFINE size == vesting_period_size(period)
<1>1. size \in Nat
    BY SecondsPerDayAssumption DEF vesting_period_size, Weekly, Daily, Secondly, Daily30
<1>2. CASE size # 0
  <2>1. a - start \in Int /\ b - start \in Int /\ a - start =< b - start /\ size \in Nat \ {0}
      BY <1>1, <1>2
  <2> HIDE DEF size
  <2>2. (a - start) \div size =< (b - start) \div size
      BY <2>1, QuotientMonotone
  <2> QED BY <1>2, <2>2 DEF PeriodsElapsed, size
<1>3. CASE size = 0 /\ period = Locked
    BY <1>3 DEF PeriodsElapsed
<1>4. CASE size = 0 /\ period # Locked
  <2>1. period = Monthly
      BY <1>4, SecondsPerDayAssumption
         DEF vesting_period_size, VestingPeriods, Monthly, Weekly, Daily, Secondly, Locked, Daily30
  <2>2. MonthsElapsed(start, a) =< MonthsElapsed(start, b)
      BY <2>1, MonthsNeverDrop DEF CountsRight
  <2> QED BY <1>4, <2>2 DEF PeriodsElapsed
<1> QED BY <1>2, <1>3, <1>4

\* Nor does the number of them that counts, which is that of the whole grant at its end.
LEMMA ElapsedNeverDrops ==
    ASSUME NEW period \in VestingPeriods, NEW start \in Nat, NEW end \in Nat,
           NEW a \in Nat, NEW b \in Nat, a =< b, CountsRight(period, b)
    PROVE  LET p == calc_vesting_percent(period, start, end, a)
               q == calc_vesting_percent(period, start, end, b)
           IN  p.total = q.total /\ p.elapsed =< q.elapsed
<1> DEFINE total == PeriodsTotal(period, start, end)
           Ran(t) == PeriodsElapsed(period, start, t)
           Counted(t) == IF Ran(t) < total /\ t < end THEN Ran(t) ELSE total
<1>1. total \in Int /\ Ran(a) \in Int /\ Ran(b) \in Int
    BY PeriodsType
<1>2. Ran(a) =< Ran(b)
    BY PeriodsNeverDrop
<1> HIDE DEF total, Ran
<1>3. Counted(a) \in Int /\ Counted(b) \in Int /\ Counted(a) =< Counted(b)
    BY <1>1, <1>2
<1>4. \A t : calc_vesting_percent(period, start, end, t)
                 = [total |-> total, elapsed |-> IF Counted(t) < 0 THEN 0 ELSE Counted(t)]
    BY DEF calc_vesting_percent, total, Ran
<1> HIDE DEF Counted
<1> QED BY <1>3, <1>4

\* More periods are worth more.
LEMMA LinearPartMonotone ==
    ASSUME NEW amount \in Nat, NEW weight \in 0 .. WeightUnit, NEW p, NEW q,
           p.total \in Int, p.elapsed \in Nat, q.elapsed \in Nat, p.total = q.total,
           p.elapsed =< q.elapsed, q.elapsed # 0 => q.elapsed =< q.total
    PROVE  LinearPart(amount, weight, p) =< LinearPart(amount, weight, q)
<1>1. LinearPart(amount, weight, q) \in Nat
    BY LinearPartType
<1>2. CASE p.elapsed = 0
    BY <1>1, <1>2 DEF LinearPart
<1>3. CASE p.elapsed # 0
  <2> DEFINE rest == WeightUnit - weight
             x    == p.elapsed * rest
             y    == q.elapsed * rest
             unit == p.total * WeightUnit
  <2>1. /\ q.elapsed # 0 /\ p.total \in Nat \ {0}
        /\ rest \in Nat /\ WeightUnit \in Nat \ {0}
      BY <1>3, VestingMathAssumption
  <2>2. x \in Nat /\ y \in Nat /\ x =< y
    <3> HIDE DEF rest
    <3> QED BY <2>1, TimesMonotone
  <2>3. unit \in Nat \ {0}
      BY <2>1, MulNat
  <2>4. /\ LinearPart(amount, weight, p) = (amount * x) \div unit
        /\ LinearPart(amount, weight, q) = (amount * y) \div unit
      BY <1>3, <2>1 DEF LinearPart, op_mul_div
  <2> HIDE DEF x, y, unit
  <2>5. x * amount \in Nat /\ y * amount \in Nat /\ x * amount =< y * amount
      BY <2>2, TimesMonotone
  <2>6. amount * x = x * amount /\ amount * y = y * amount
      BY <2>2
  <2>7. (x * amount) \div unit =< (y * amount) \div unit
      BY <2>3, <2>5, QuotientMonotone
  <2> QED BY <2>4, <2>6, <2>7
<1> QED BY <1>2, <1>3

\* What has vested never drops as time goes by, neither by counting the periods up
\* to a later time nor by testing the cliff against one, across the cliff, the end
\* of a period and the end of the grant: for every grant, as long as tm_get gets
\* the date of the later time right.
THEOREM VestedNeverDrops ==
    ASSUME NEW v, IsGrant(v), NEW a \in Nat, NEW b \in Nat, a =< b,
           NEW m \in Nat, NEW n \in Nat, m =< n, CountsRight(v.vesting_period, b)
    PROVE  Vested(v, a, m) =< Vested(v, b, n)
<1> DEFINE Percent(t) == calc_vesting_percent(v.vesting_period, v.cliff_date, v.end_date, t)
           Linear(t)  == LinearPart(v.vesting_amount, v.cliff_weight, Percent(t))
           Cliff(t)   == IF v.cliff_date < t /\ v.cliff_weight > 0
                         THEN CliffPart(v.vesting_amount, v.cliff_weight) ELSE 0
           All(c, t)  == \/ Linear(c) + Cliff(t) > v.vesting_amount
                         \/ Percent(c).total = Percent(c).elapsed /\ v.cliff_date < t
<1>1. /\ v.vesting_amount \in Nat /\ v.cliff_date \in Nat /\ v.end_date \in Nat
      /\ v.cliff_weight \in 0 .. WeightUnit /\ v.vesting_period \in VestingPeriods
    BY DEF IsGrant
<1>2. \A t \in Nat : /\ Percent(t).total \in Int /\ Percent(t).elapsed \in Nat
                     /\ Percent(t).elapsed # 0 => Percent(t).elapsed =< Percent(t).total
    BY <1>1, PercentType
<1>3. Percent(a).total = Percent(b).total /\ Percent(a).elapsed =< Percent(b).elapsed
    BY <1>1, ElapsedNeverDrops
<1>4. Vested(v, a, m) \in 0 .. v.vesting_amount /\ Vested(v, b, n) \in 0 .. v.vesting_amount
    BY VestedWithinGrant
<1>5. \A c, t : Vested(v, c, t) = IF All(c, t) THEN v.vesting_amount ELSE Linear(c) + Cliff(t)
    BY DEF Vested
<1> HIDE DEF Percent
<1>6. Linear(a) \in Nat /\ Linear(b) \in Nat /\ Linear(a) =< Linear(b)
    BY <1>1, <1>2, <1>3, LinearPartType, LinearPartMonotone
<1>7. CliffPart(v.vesting_amount, v.cliff_weight) \in Nat
  <2>1. v.vesting_amount \in Nat /\ v.cliff_weight \in Nat /\ 1 \in Nat \ {0}
      BY <1>1, VestingMathAssumption
  <2> QED BY <2>1, OpMulDivType DEF CliffPart
<1>8. Cliff(m) \in Nat /\ Cliff(n) \in Nat /\ Cliff(m) =< Cliff(n)
    BY <1>1, <1>7
<1> HIDE DEF Linear, Cliff
<1>9. All(a, m) => All(b, n)
    BY <1>1, <1>2, <1>3, <1>6, <1>8
<1> HIDE DEF All
<1>10. CASE All(b, n)
    BY <1>4, <1>5, <1>10
<1>11. CASE ~ All(b, n)
    BY <1>5, <1>6, <1>8, <1>9, <1>11
<1> QED BY <1>10, <1>11
=============================================================================
