-------------------------- MODULE AlgorithmsProofs --------------------------
(***************************************************************************)
(* The calendar and the accrual against their references, for any size of  *)
(* a day, any grant and any instant; and a relay that never gives more     *)
(* than its price allows, for every reserve, every supply and every        *)
(* sequence of trades, in either direction and by either conversion.       *)
(***************************************************************************)
EXTENDS MCCalendar, MCMath, MCExchange, VestingMathProofs

-----------------------------------------------------------------------------
(* One grant, instant after instant. *)

AccrualTypeOK ==
    /\ IsGrant(v) /\ v.cliff_date < v.end_date /\ v.vesting_period # Monthly
    /\ t \in Nat

\* The grant stays what it is while the clock goes on.
LEMMA AccrualType ==
    /\ AccrualInit => AccrualTypeOK
    /\ AccrualTypeOK /\ [NextInstant]_accrual => AccrualTypeOK'
<1>1. ASSUME AccrualInit PROVE AccrualTypeOK
  <2>1. PICK period \in VestingPeriods \ {Monthly}, amount \in GrantAmounts,
             weight \in 0 .. WeightUnit, cliff \in CliffDates, duration \in Durations :
            v = [vesting_period |-> period, vesting_amount |-> amount,
                 cliff_date |-> cliff, cliff_weight |-> weight, end_date |-> cliff + duration]
      BY <1>1 DEF AccrualInit
  <2>2. amount \in Nat /\ cliff \in Nat /\ duration \in Nat \ {0}
      BY MathAssumption
  <2>3. t = 0
      BY <1>1 DEF AccrualInit
  <2> QED BY <2>1, <2>2, <2>3 DEF AccrualTypeOK, IsGrant
<1>2. ASSUME AccrualTypeOK, [NextInstant]_accrual PROVE AccrualTypeOK'
    BY <1>2 DEF AccrualTypeOK, NextInstant, accrual
<1> QED BY <1>1, <1>2

\* For every grant that does not vest by months, what has vested never drops from one
\* instant to the next.
THEOREM AccrualOnlyGrows == AccrualSpec => AccrualNeverDrops
<1>1. ASSUME AccrualTypeOK, NextInstant PROVE Vested(v', t', t') >= Vested(v, t, t)
  <2>1. t \in Nat /\ t + 1 \in Nat /\ t =< t + 1 /\ IsGrant(v) /\ v' = v /\ t' = t + 1
      BY <1>1 DEF AccrualTypeOK, NextInstant
  <2>2. CountsRight(v.vesting_period, t + 1)
      BY <1>1 DEF AccrualTypeOK, CountsRight
  <2>3. Vested(v, t, t) =< Vested(v, t + 1, t + 1)
      BY <2>1, <2>2, VestedNeverDrops
  <2>4. Vested(v, t, t) \in Int /\ Vested(v, t + 1, t + 1) \in Int
    <3>1. v.vesting_amount \in Nat
        BY <2>1 DEF IsGrant
    <3>2. \A u \in Nat : Vested(v, u, u) \in 0 .. v.vesting_amount
        BY <2>1, VestedWithinGrant
    <3> QED BY <2>1, <3>1, <3>2
  <2> QED BY <2>1, <2>3, <2>4
<1>2. AccrualTypeOK /\ [NextInstant]_accrual => [Vested(v', t', t') >= Vested(v, t, t)]_accrual
    BY <1>1
<1> QED BY <1>2, AccrualType, PTL DEF AccrualSpec, AccrualNeverDrops

\* A grant that does not vest by months has at least one period, and before its end not all
\* of them are over; those that are fit into the time that has passed.
LEMMA PeriodsBetween ==
    ASSUME NEW period \in VestingPeriods \ {Monthly}, NEW begin \in Nat, NEW end \in Nat,
           NEW curr \in Nat, begin < end
    PROVE  LET percent == calc_vesting_percent(period, begin, end, curr)
           IN  /\ percent.total \in Nat \ {0} /\ percent.elapsed \in 0 .. percent.total
               /\ curr =< begin => percent.elapsed = 0
               /\ end =< curr => percent.elapsed = percent.total
               /\ begin < curr /\ curr < end =>
                      /\ percent.elapsed < percent.total
                      /\ percent.elapsed * (end - begin) =< (curr - begin) * percent.total
<1> DEFINE size == vesting_period_size(period)
           all == PeriodsTotal(period, begin, end)
           ran == PeriodsElapsed(period, begin, curr)
           percent == calc_vesting_percent(period, begin, end, curr)
<1>1. CASE size = 0
  <2>1. period = Locked
      BY <1>1, SecondsPerDayAssumption DEF vesting_period_size, VestingPeriods, Monthly,
                                           Weekly, Daily, Secondly, Locked, Daily30
  <2>2. all = 1 /\ ran = 0
      BY <1>1, <2>1 DEF PeriodsTotal, PeriodsElapsed
  <2>3. percent.total = 1 /\ percent.elapsed = IF curr < end THEN 0 ELSE 1
      BY <2>2 DEF calc_vesting_percent
  <2> QED BY <2>3
<1>2. CASE size # 0
  <2>1. size \in Nat \ {0}
      BY <1>2, SecondsPerDayAssumption DEF vesting_period_size, Weekly, Daily, Secondly, Daily30
  <2> DEFINE D == end - begin
             e == curr - begin
  <2>2. D \in Nat \ {0} /\ e \in Int
      OBVIOUS
  <2>3. all = D \div size + 1 /\ ran = e \div size
      BY <1>2 DEF PeriodsTotal, PeriodsElapsed
  <2>4. percent.total = all
        /\ percent.elapsed = IF ran < all /\ curr < end
                             THEN IF ran < 0 THEN 0 ELSE ran
                             ELSE IF all < 0 THEN 0 ELSE all
      BY DEF calc_vesting_percent
  <2> HIDE DEF size, all, ran, percent
  <2>5. D \div size \in Nat /\ D < (D \div size + 1) * size
      BY <2>1, <2>2
  <2>6. all \in Nat \ {0} /\ D < all * size
      BY <2>3, <2>5
  <2>7. ran \in Int /\ (e < 0 => ran < 0) /\ (e = 0 => ran = 0)
      BY <2>1, <2>2, <2>3
  <2>8. CASE curr =< begin
    <3>1. e =< 0 /\ ran =< 0
        BY <2>7, <2>8
    <3> QED BY <2>4, <2>6, <2>7, <2>8, <3>1 DEF percent
  <2>9. CASE end =< curr
      BY <2>4, <2>6, <2>7, <2>9 DEF percent
  <2>10. CASE begin < curr /\ curr < end
    <3>1. e \in Nat \ {0} /\ e < D
        BY <2>10
    <3>2. ran \in Nat /\ ran * size =< e
        BY <2>1, <2>3, <3>1, Quotient
    <3>3. e \div size =< D \div size
        BY <2>1, <2>2, <3>1, QuotientMonotone
    <3>4. ran < all
        BY <2>3, <2>5, <3>2, <3>3
    <3>5. percent.elapsed = ran
        BY <2>4, <2>10, <3>2, <3>4
    <3> HIDE DEF D, e
    <3>6. ran * D =< e * all
      <4>1. D * ran =< (all * size) * ran
        <5>1. all * size \in Nat /\ D \in Nat /\ D =< all * size
            BY <2>1, <2>2, <2>6
        <5> QED BY <3>2, <5>1, TimesMonotone
      <4>2. (ran * size) * all =< e * all
        <5>1. ran * size \in Nat /\ e \in Nat
            BY <2>1, <3>1, <3>2
        <5> QED BY <2>6, <3>2, <5>1, TimesMonotone
      <4>3. (all * size) * ran = (ran * size) * all /\ D * ran = ran * D
          BY <2>1, <2>2, <2>6, <3>2
      <4>4. ran * D \in Int /\ (ran * size) * all \in Int /\ e * all \in Int
          BY <2>1, <2>2, <2>6, <3>1, <3>2
      <4> QED BY <4>1, <4>2, <4>3, <4>4
    <3> QED BY <2>4, <2>6, <2>10, <3>2, <3>4, <3>5, <3>6 DEF D, e, percent
  <2> QED BY <2>8, <2>9, <2>10
<1> QED BY <1>1, <1>2

\* What is paid for the elapsed ones of total periods is no more than their share.
LEMMA ShareOfPeriods ==
    ASSUME NEW amount \in Nat, NEW weight \in 0 .. WeightUnit, NEW percent,
           percent.total \in Nat \ {0}, percent.elapsed \in Nat,
           NEW D \in Nat, NEW e \in Nat, percent.elapsed * D =< e * percent.total
    PROVE  LET linear == LinearPart(amount, weight, percent)
           IN  linear \in Nat /\ linear * WeightUnit * D =< amount * (WeightUnit - weight) * e
<1> DEFINE linear == LinearPart(amount, weight, percent)
           n == percent.elapsed
           all == percent.total
           share == amount * (WeightUnit - weight)
<1>1. WeightUnit \in Nat \ {0} /\ WeightUnit - weight \in Nat
    BY VestingMathAssumption
<1>2. share \in Nat
    BY <1>1, MulNat
<1>3. CASE n = 0
  <2>1. linear = 0
      BY <1>3 DEF LinearPart
  <2>2. share * e \in Nat
      BY <1>2, MulNat
  <2> HIDE DEF linear
  <2>3. linear * WeightUnit * D = 0
      BY <1>1, <2>1
  <2> QED BY <2>1, <2>2, <2>3 DEF linear
<1>4. CASE n # 0
  <2> DEFINE rest == WeightUnit - weight
             unit == all * WeightUnit
  <2>1. linear = (amount * (n * rest)) \div unit
      BY <1>4 DEF LinearPart, op_mul_div
  <2>2. unit \in Nat \ {0} /\ amount * (n * rest) \in Nat
      BY <1>1, MulNat
  <2>3. linear \in Nat /\ linear * unit =< amount * (n * rest)
    <3> HIDE DEF unit, rest
    <3> QED BY <2>1, <2>2, Quotient
  <2>4. amount * (n * rest) = share * n
      BY <1>1
  <2> HIDE DEF linear, unit, share, rest
  <2>5. (linear * unit) * D =< (share * n) * D
    <3>1. linear * unit \in Nat /\ share * n \in Nat /\ linear * unit =< share * n
        BY <1>2, <2>2, <2>3, <2>4, MulNat
    <3> QED BY <3>1, TimesMonotone
  <2>6. (n * D) * share =< (e * all) * share
    <3>1. n * D \in Nat /\ e * all \in Nat
        OBVIOUS
    <3> QED BY <1>2, <3>1, TimesMonotone
  <2> DEFINE x == linear * WeightUnit * D
             y == share * e
  <2>7. x \in Nat /\ y \in Nat
      BY <1>1, <1>2, <2>3, MulNat
  <2>8. x * all = (linear * unit) * D
      BY <1>1, <2>3 DEF unit
  <2>9. (share * n) * D = (n * D) * share /\ (e * all) * share = y * all
      BY <1>2
  <2>10. x * all =< y * all
    <3>1. (linear * unit) * D \in Int /\ (share * n) * D \in Int /\ (e * all) * share \in Int
        BY <1>2, <2>2, <2>3
    <3> QED BY <2>5, <2>6, <2>8, <2>9, <3>1
  <2> HIDE DEF x, y
  <2>11. x =< y
      BY <2>7, <2>10, TimesCancel
  <2> QED BY <2>3, <2>11 DEF x, y, linear, share, rest
<1> QED BY <1>3, <1>4

\* For every grant that does not vest by months: nothing up to the cliff, everything from
\* the end on, and in between never more than the time that has passed is worth.
THEOREM AccrualAlwaysBounded == AccrualSpec => []AccrualBounded
<1>1. ASSUME AccrualTypeOK PROVE AccrualBounded
  <2> DEFINE amount == v.vesting_amount
             weight == v.cliff_weight
             percent == calc_vesting_percent(v.vesting_period, v.cliff_date, v.end_date, t)
             linear == LinearPart(amount, weight, percent)
             cliff == IF v.cliff_date < t /\ v.cliff_weight > 0 THEN CliffPart(amount, weight) ELSE 0
             D == v.end_date - v.cliff_date
             e == t - v.cliff_date
  <2>1. /\ amount \in Nat /\ weight \in 0 .. WeightUnit /\ v.cliff_date \in Nat
        /\ v.end_date \in Nat /\ v.cliff_date < v.end_date /\ t \in Nat
        /\ v.vesting_period \in VestingPeriods \ {Monthly}
      BY <1>1 DEF AccrualTypeOK, IsGrant
  <2>2. /\ percent.total \in Nat \ {0} /\ percent.elapsed \in 0 .. percent.total
        /\ t =< v.cliff_date => percent.elapsed = 0
        /\ v.end_date =< t => percent.elapsed = percent.total
        /\ v.cliff_date < t /\ t < v.end_date =>
               percent.elapsed < percent.total /\ percent.elapsed * D =< e * percent.total
      BY <2>1, PeriodsBetween
  <2>3. Vested(v, t, t) = IF \/ linear + cliff > amount
                             \/ percent.total = percent.elapsed /\ v.cliff_date < t
                          THEN amount ELSE linear + cliff
      BY DEF Vested
  <2> HIDE DEF percent
  <2>4. ASSUME t =< v.cliff_date PROVE Vested(v, t, t) = 0
    <3>1. linear = 0 /\ cliff = 0
        BY <2>1, <2>2, <2>4 DEF LinearPart
    <3> HIDE DEF linear, cliff
    <3> QED BY <2>1, <2>3, <2>4, <3>1
  <2>5. ASSUME t >= v.end_date PROVE Vested(v, t, t) = amount
    <3> HIDE DEF linear, cliff
    <3> QED BY <2>1, <2>2, <2>3, <2>5
  <2>6. ASSUME v.cliff_date < t, t < v.end_date
        PROVE  Vested(v, t, t) * WeightUnit * D =< amount * (WeightUnit - weight) * e + amount * weight * D
    <3>1. D \in Nat /\ e \in Nat /\ WeightUnit \in Nat \ {0} /\ weight \in Nat
        BY <2>1, <2>6, VestingMathAssumption
    <3>2. linear \in Nat /\ linear * WeightUnit * D =< amount * (WeightUnit - weight) * e
      <4>1. percent.elapsed \in Nat /\ percent.elapsed * D =< e * percent.total
          BY <2>2, <2>6
      <4> HIDE DEF D, e, amount, weight
      <4> QED BY <2>1, <2>2, <3>1, <4>1, ShareOfPeriods
    <3>3. cliff \in Nat /\ cliff * WeightUnit =< amount * weight
      <4>1. CliffPart(amount, weight) = (amount * weight) \div WeightUnit
          BY <3>1 DEF CliffPart, op_mul_div
      <4>2. amount * weight \in Nat
          BY <2>1, <3>1, MulNat
      <4>3. CliffPart(amount, weight) \in Nat /\ CliffPart(amount, weight) * WeightUnit =< amount * weight
        <5> HIDE DEF amount, weight
        <5> QED BY <3>1, <4>1, <4>2, Quotient
      <4> QED BY <3>1, <4>2, <4>3
    <3>4. Vested(v, t, t) \in Nat /\ Vested(v, t, t) =< linear + cliff
        BY <2>1, <2>2, <2>3, <2>6, <3>2, <3>3
    <3> HIDE DEF D, e, linear, cliff, amount, weight
    <3> DEFINE got == Vested(v, t, t)
    <3>5. got * (WeightUnit * D) =< (linear + cliff) * (WeightUnit * D)
      <4>1. linear + cliff \in Nat /\ WeightUnit * D \in Nat /\ got \in Nat
          BY <3>1, <3>2, <3>3, <3>4
      <4> QED BY <3>4, <4>1, TimesMonotone
    <3>6. (cliff * WeightUnit) * D =< (amount * weight) * D
      <4>1. cliff * WeightUnit \in Nat /\ amount * weight \in Nat
          BY <2>1, <3>1, <3>3, MulNat
      <4> QED BY <3>1, <3>3, <4>1, TimesMonotone
    <3> HIDE DEF got
    <3>7. (linear + cliff) * (WeightUnit * D) = linear * WeightUnit * D + (cliff * WeightUnit) * D
        BY <3>1, <3>2, <3>3
    <3>8. got * (WeightUnit * D) = got * WeightUnit * D
        BY <3>1, <3>4 DEF got
    <3> DEFINE x == got * (WeightUnit * D)
               y == linear * WeightUnit * D
               z == (cliff * WeightUnit) * D
               p == amount * (WeightUnit - weight) * e
               q == (amount * weight) * D
    <3>9. x \in Int /\ y \in Int /\ z \in Int /\ p \in Int /\ q \in Int
        BY <2>1, <3>1, <3>2, <3>3, <3>4 DEF got
    <3>10. x =< y + z /\ y =< p /\ z =< q
        BY <3>2, <3>5, <3>6, <3>7
    <3>11. x =< p + q
      <4> HIDE DEF x, y, z, p, q
      <4> QED BY <3>9, <3>10
    <3> QED BY <3>8, <3>11 DEF got
  <2> QED BY <2>1, <2>4, <2>5, <2>6 DEF AccrualBounded
<1> QED BY <1>1, AccrualType, PTL DEF AccrualSpec

-----------------------------------------------------------------------------
(* The calendar, day after day. *)

\* The years in which tm_get is right, but for the last days of leap years.
Years == {y \in Nat : 1970 =< y /\ y =< 2100}

\* The day of the year of a date, from 0.
DayOf(d) == DaysBefore(d.year, d.mon) + d.mday - 1

\* d is a date of the Gregorian calendar, and the n-th day since 1970.
IsDate(d, n) ==
    /\ d \in [year : Years, mon : 1 .. 12, mday : Nat \ {0}]
    /\ d.mday =< MonthLength(d.year, d.mon)
    /\ n = FirstDay(d.year) + DayOf(d)

\* The lengths of the months, in the years that tm_get is right about.
LEMMA Lengths ==
    ASSUME NEW y \in Years, NEW m \in 1 .. 12
    PROVE  /\ MonthLength(y, m) \in {28, 29, 30, 31}
           /\ y < 2100 \/ m # 2 => DaysBefore(y, m + 1) = DaysBefore(y, m) + MonthLength(y, m)
           /\ DaysBefore(y, m) + MonthLength(y, m) =< DaysBefore(y, m + 1)
           /\ DaysBefore(y, m) \in Nat /\ DaysBefore(y, m) =< 335 /\ DaysBefore(y, m + 1) \in Nat
<1>1. GregorianLeap(y) = (IsLeap(y) /\ y # 2100)
    BY DEF GregorianLeap, IsLeap, Years
<1> DEFINE leap == IsLeap(y)
<1>2. leap \in BOOLEAN
    BY DEF IsLeap
<1>3. MonthLength(y, m) = CASE m \in {4, 6, 9, 11} -> 30
                            [] m = 2 -> IF leap /\ y # 2100 THEN 29 ELSE 28
                            [] OTHER -> 31
    BY <1>1 DEF MonthLength
<1>4. \A k \in 1 .. 13 : DaysBefore(y, k) =
          <<0, 31, 59, 90, 120, 151, 181, 212, 243, 273, 304, 334, 365>>[k]
             + (IF leap /\ k > 2 THEN 1 ELSE 0)
    BY DEF DaysBefore
<1> HIDE DEF leap
<1>5. m + 1 \in 1 .. 13 /\ m \in 1 .. 13 /\ y \in Nat /\ y =< 2100
    BY DEF Years
<1>6. MonthLength(y, m) \in {28, 29, 30, 31}
    BY <1>3
<1>7. DaysBefore(y, m) \in Nat /\ DaysBefore(y, m) =< 335 /\ DaysBefore(y, m + 1) \in Nat
    BY <1>4, <1>5
<1>8. y < 2100 \/ m # 2 => DaysBefore(y, m + 1) = DaysBefore(y, m) + MonthLength(y, m)
    BY <1>3, <1>4, <1>5
<1>9. DaysBefore(y, m) + MonthLength(y, m) =< DaysBefore(y, m + 1)
    BY <1>3, <1>4, <1>5
<1> QED BY <1>6, <1>7, <1>8, <1>9

\* The years follow one another.
LEMMA YearsFollow ==
    ASSUME NEW y \in Years
    PROVE  /\ FirstDay(y) \in Nat
           /\ FirstDay(y + 1) = FirstDay(y) + DaysBefore(y, 13)
           /\ y >= 2100 => FirstDay(y) >= 47482
           /\ DaysBefore(y, 13) \in {365, 366}
BY DEF FirstDay, DaysBefore, IsLeap, Years

\* The day after a date has the next date.
LEMMA NextDateRight ==
    ASSUME NEW d, NEW n, IsDate(d, n), n < 47540
    PROVE  IsDate(NextDate(d), n + 1)
<1>0. PICK y \in Years, m \in 1 .. 12, k \in Nat \ {0} : d = [year |-> y, mon |-> m, mday |-> k]
    BY DEF IsDate
<1>1. /\ y \in Years /\ y \in Nat /\ 1970 =< y /\ y =< 2100
      /\ m \in 1 .. 12 /\ k \in Nat \ {0} /\ k =< MonthLength(y, m)
      /\ n = FirstDay(y) + (DaysBefore(y, m) + k - 1)
    BY <1>0 DEF IsDate, DayOf, Years
<1>2. /\ MonthLength(y, m) \in {28, 29, 30, 31} /\ DaysBefore(y, m) \in Nat /\ DaysBefore(y, m) =< 335
      /\ y < 2100 \/ m # 2 => DaysBefore(y, m + 1) = DaysBefore(y, m) + MonthLength(y, m)
      /\ FirstDay(y) \in Nat /\ FirstDay(y + 1) = FirstDay(y) + DaysBefore(y, 13)
      /\ y >= 2100 => FirstDay(y) >= 47482
    BY <1>1, Lengths, YearsFollow
<1>3. CASE k < MonthLength(y, m)
  <2>1. NextDate(d) = [d EXCEPT !.mday = @ + 1]
      BY <1>0, <1>3 DEF NextDate
  <2>2. NextDate(d) = [year |-> y, mon |-> m, mday |-> k + 1]
      BY <1>0, <2>1
  <2>3. n + 1 = FirstDay(y) + (DaysBefore(y, m) + (k + 1) - 1)
      BY <1>1, <1>2
  <2> QED BY <1>1, <1>2, <1>3, <2>2, <2>3 DEF IsDate, DayOf
<1>4. CASE k = MonthLength(y, m) /\ m < 12
  <2>1. NextDate(d) = [d EXCEPT !.mon = @ + 1, !.mday = 1]
      BY <1>0, <1>2, <1>4 DEF NextDate
  <2>2. NextDate(d) = [year |-> y, mon |-> m + 1, mday |-> 1]
    <3>1. [d EXCEPT !.mon = @ + 1] = [year |-> y, mon |-> m + 1, mday |-> k]
        BY <1>0
    <3> DEFINE next == [d EXCEPT !.mon = @ + 1]
    <3>2. NextDate(d) = [next EXCEPT !.mday = 1]
        BY <2>1
    <3> HIDE DEF next
    <3>3. next = [year |-> y, mon |-> m + 1, mday |-> k]
        BY <3>1 DEF next
    <3> QED BY <3>2, <3>3
  <2>3. ASSUME y >= 2100, m = 2 PROVE FALSE
    <3>1. y = 2100 /\ DaysBefore(2100, 2) = 31 /\ MonthLength(2100, 2) = 28
        BY <1>1, <2>3 DEF DaysBefore, MonthLength, GregorianLeap
    <3> QED BY <1>1, <1>2, <1>4, <2>3, <3>1
  <2>4. n + 1 = FirstDay(y) + (DaysBefore(y, m + 1) + 1 - 1)
      BY <1>1, <1>2, <1>4, <2>3
  <2>5. MonthLength(y, m + 1) \in {28, 29, 30, 31}
    <3>1. m + 1 \in 1 .. 12
        BY <1>1, <1>4
    <3> QED BY <1>1, <3>1, Lengths
  <2> QED BY <1>1, <1>4, <2>2, <2>4, <2>5 DEF IsDate, DayOf
<1>5. CASE k = MonthLength(y, m) /\ m = 12
  <2>1. NextDate(d) = [year |-> y + 1, mon |-> 1, mday |-> 1]
      BY <1>0, <1>2, <1>5 DEF NextDate
  <2>2. DaysBefore(y, 13) = DaysBefore(y, m) + MonthLength(y, m)
      BY <1>1, <1>2, <1>5
  <2>3. n + 1 = FirstDay(y + 1)
      BY <1>1, <1>2, <1>5, <2>2
  <2>4. y + 1 \in Years /\ y + 1 \in Nat
    <3>1. DaysBefore(2100, 12) = 335 
        BY DEF DaysBefore, IsLeap
    <3>2. y # 2100
        BY <1>1, <1>2, <1>5, <3>1
    <3> QED BY <1>1, <3>2 DEF Years
  <2>5. MonthLength(y + 1, 1) = 31 /\ DaysBefore(y + 1, 1) = 0
      BY <2>4 DEF MonthLength, DaysBefore
  <2> QED BY <1>1, <2>1, <2>3, <2>4, <2>5 DEF IsDate, DayOf
<1> QED BY <1>1, <1>2, <1>3, <1>4, <1>5

\* A day is in the year it is a day of, which is that of YearOf; it is the last day of a leap
\* year in none but the 1096th day of four years.
LEMMA DateOfDay ==
    ASSUME NEW d, NEW n, IsDate(d, n)
    PROVE  /\ n \in Nat /\ n < 50000
           /\ DayOf(d) \in Nat /\ DayOf(d) =< 365 /\ DayOf(d) < DaysBefore(d.year, d.mon + 1)
           /\ DaysBefore(d.year, d.mon) =< DayOf(d)
           /\ n % 1461 = 1095 => d.mon = 12 /\ d.mday = 31 /\ IsLeap(d.year)
           /\ n % 1461 # 1095 => DayOf(d) < 365
<1> DEFINE y == d.year
           m == d.mon
           x == DayOf(d)
<1>1. /\ y \in Years /\ y \in Nat /\ 1970 =< y /\ y =< 2100
      /\ m \in 1 .. 12 /\ d.mday \in 1 .. MonthLength(y, m)
      /\ n = FirstDay(y) + x /\ x = DaysBefore(y, m) + d.mday - 1
    BY DEF IsDate, DayOf, Years
<1>2. /\ DaysBefore(y, m) \in Nat /\ DaysBefore(y, m) =< 335 /\ MonthLength(y, m) \in {28, 29, 30, 31}
      /\ DaysBefore(y, m) + MonthLength(y, m) =< DaysBefore(y, m + 1)
      /\ DaysBefore(y, m + 1) \in Nat
    BY <1>1, Lengths
<1> HIDE DEF x, y, m
<1>3. x \in Nat /\ x =< 365 /\ x < DaysBefore(y, m + 1) /\ DaysBefore(y, m) =< x
    BY <1>1, <1>2
<1>4. x = 365 => m = 12 /\ d.mday = 31 /\ IsLeap(y)
  <2>1. m < 12 => DaysBefore(y, m) =< 305
      BY <1>1 DEF DaysBefore, IsLeap
  <2>2. ~ IsLeap(y) => DaysBefore(y, m) =< 334
      BY <1>1 DEF DaysBefore, IsLeap
  <2> QED BY <1>1, <1>2, <2>1, <2>2
<1>5. n % 1461 = 1095 <=> x = 365
  <2> DEFINE q == (y - 1970) \div 4
             j == (y - 1970) % 4
  <2>1. q \in Nat /\ q =< 32 /\ j \in 0 .. 3 /\ y = 1970 + 4 * q + j
    <3>1. ASSUME NEW k \in Nat, k =< 130
          PROVE  /\ k \div 4 \in Nat /\ k \div 4 =< 32 /\ k % 4 \in 0 .. 3
                 /\ k = 4 * (k \div 4) + (k % 4)
        BY <3>1
    <3>2. y - 1970 \in Nat /\ y - 1970 =< 130
        BY <1>1
    <3> QED BY <1>1, <3>1, <3>2
  <2>2. IsLeap(y) <=> j = 2
      BY <1>1, <2>1 DEF IsLeap
  <2>3. FirstDay(y) = 1461 * q + (IF j = 3 THEN 1096 ELSE 365 * j)
      BY <2>1 DEF FirstDay
  <2>4. x = 365 => j = 2
      BY <1>4, <2>2
  <2> HIDE DEF q, j
  <2> QED BY <1>1, <1>3, <2>1, <2>3, <2>4
<1>6. n \in Nat /\ n < 50000
    BY <1>1, <1>3 DEF FirstDay
<1> QED BY <1>3, <1>4, <1>5, <1>6 DEF x, y, m

\* A day of the year is in one month.
LEMMA OneMonth ==
    ASSUME NEW year \in Int, NEW x \in Nat, NEW a \in 1 .. 12, NEW b \in 1 .. 12,
           DaysBefore(year, a) =< x, x < DaysBefore(year, a + 1),
           DaysBefore(year, b) =< x, x < DaysBefore(year, b + 1)
    PROVE  a = b
<1>1. ASSUME NEW p \in 1 .. 12, NEW q \in 1 .. 12, p + 1 =< q
      PROVE  ~ (DaysBefore(year, q) =< x /\ x < DaysBefore(year, p + 1))
  <2>1. p + 1 \in 1 .. 13 /\ q \in 1 .. 13
      OBVIOUS
  <2>2. DaysBefore(year, p + 1) =< DaysBefore(year, q)
      BY <1>1, <2>1, MonthsInOrder
  <2>3. DaysBefore(year, p + 1) \in Nat /\ DaysBefore(year, q) \in Nat
      BY <1>1, <2>1, MonthsInOrder
  <2> QED BY <2>2, <2>3
<1> QED BY <1>1

\* tm_get gives every instant of a day its date, unless it is 31 December of a leap year.
LEMMA TmGetOfDay ==
    ASSUME NEW d, NEW n, IsDate(d, n), n % 1461 # 1095, NEW at \in Nat, DayNumber(at) = n
    PROVE  tm_get(at) = d /\ DateRight(at)
<1> DEFINE y == d.year
           year == YearOf(n)
<1>1. /\ n \in Nat /\ n < 50000 /\ DayOf(d) \in Nat /\ DayOf(d) < 365
      /\ DayOf(d) < DaysBefore(y, d.mon + 1) /\ DaysBefore(y, d.mon) =< DayOf(d)
      /\ n = FirstDay(y) + DayOf(d)
      /\ y \in Years /\ y \in Nat /\ d.mon \in 1 .. 12
    BY DateOfDay DEF IsDate, Years
<1>2. /\ year \in Nat /\ n - FirstDay(year) \in Nat /\ n - FirstDay(year) < 365
      /\ DayOfYear(n) = n - FirstDay(year)
    BY <1>1, YearAndDay, SMTT(30)
<1>3. year = y
  <2> HIDE DEF year
  <2>1. \A a, b \in Nat : a < b => FirstDay(a) + 365 =< FirstDay(b)
      BY DEF FirstDay
  <2>2. FirstDay(y) \in Int /\ FirstDay(year) \in Int
      BY <1>1, <1>2 DEF FirstDay
  <2> QED BY <1>1, <1>2, <2>1, <2>2
<1>4. DayOfYear(n) = DayOf(d)
  <2>1. FirstDay(y) \in Int
      BY <1>1 DEF FirstDay
  <2> QED BY <1>1, <1>2, <1>3, <2>1
<1> DEFINE g == tm_get(at)
<1>5. /\ g.year = y /\ g.mon \in 1 .. 12
      /\ g.mday = DayOf(d) - DaysBefore(y, g.mon) + 1
      /\ DaysBefore(y, g.mon) =< DayOf(d)
      /\ DayOf(d) < DaysBefore(y, g.mon + 1)
    BY <1>1, <1>3, <1>4, TmGetIs
<1>6. g = [year |-> g.year, mon |-> g.mon, mday |-> g.mday]
    BY DEF tm_get
<1> HIDE DEF g
<1>7. g.mon = d.mon
  <2>1. y \in Int /\ DayOf(d) \in Nat
      BY <1>1
  <2> HIDE DEF y
  <2> QED BY <1>1, <1>5, <2>1, OneMonth, SMTT(30)
<1>8. g.mday = d.mday
  <2>1. DaysBefore(y, d.mon) \in Nat /\ d.mday \in Int
      BY <1>1, Lengths DEF IsDate
  <2> QED BY <1>1, <1>5, <1>7, <2>1 DEF DayOf
<1>9. d = [year |-> d.year, mon |-> d.mon, mday |-> d.mday]
    BY DEF IsDate
<1>10. tm_get(at) = d
    BY <1>5, <1>6, <1>7, <1>8, <1>9 DEF g
<1> QED BY <1>1, <1>10 DEF DateRight

CalendarInv ==
    /\ IsDate(date, day) /\ day =< LastDay
    /\ start # NotStarted =>
          /\ IsDate(start.date, start.day) /\ start.day \in StartDays
          /\ start.day =< day /\ day =< start.day + Span

\* Day after day the reference date is that of the day.
LEMMA CalendarInvStep ==
    /\ CalendarInit => CalendarInv
    /\ CalendarInv /\ [NextDay \/ Start]_calendar => CalendarInv'
<1>1. ASSUME CalendarInit PROVE CalendarInv
  <2>1. FirstDay(1970) = 0 /\ DaysBefore(1970, 1) = 0 /\ MonthLength(1970, 1) = 31
      BY DEF FirstDay, DaysBefore, MonthLength
  <2> QED BY <1>1, <2>1, CalendarAssumption DEF CalendarInit, CalendarInv, IsDate, DayOf, Years
<1>2. ASSUME CalendarInv, NextDay PROVE CalendarInv'
  <2>1. /\ IsDate(date, day) /\ day < 47540 /\ day \in Nat /\ day' = day + 1
        /\ date' = NextDate(date) /\ start' = start
      BY <1>2, DateOfDay, CalendarAssumption DEF CalendarInv, NextDay
  <2>2. IsDate(date', day')
      BY <2>1, NextDateRight
  <2>3. start # NotStarted => start.day \in Nat /\ start.day =< day
    <3>1. StartDays \subseteq Nat
        BY CalendarAssumption
    <3> QED BY <1>2, <3>1 DEF CalendarInv
  <2>4. day' =< LastDay
      BY <1>2, <2>1, CalendarAssumption DEF NextDay
  <2>5. start # NotStarted => start.day =< day' /\ day' =< start.day + Span
      BY <1>2, <2>1, <2>3, CalendarAssumption DEF NextDay, CalendarInv
  <2> QED BY <1>2, <2>1, <2>2, <2>4, <2>5 DEF CalendarInv
<1>3. ASSUME CalendarInv, Start PROVE CalendarInv'
  <2>1. day \in Nat /\ day' = day /\ date' = date /\ start' = [day |-> day, date |-> date]
        /\ day \in StartDays
      BY <1>3, DateOfDay DEF CalendarInv, Start
  <2> QED BY <1>3, <2>1, CalendarAssumption DEF CalendarInv
<1>4. ASSUME CalendarInv, UNCHANGED calendar PROVE CalendarInv'
    BY <1>4 DEF CalendarInv, calendar
<1> QED BY <1>1, <1>2, <1>3, <1>4

\* The day number of an instant of today is today's.
LEMMA InstantsOfDay ==
    ASSUME NEW n \in Nat, NEW at \in {n * SecondsPerDay, n * SecondsPerDay + SecondsPerDay - 1}
    PROVE  at \in Nat /\ DayNumber(at) = n
<1> DEFINE size == SecondsPerDay
<1>1. size \in Nat \ {0}
    BY SecondsPerDayAssumption
<1> HIDE DEF size
<1>2. n * size \in Nat /\ (n + 1) * size = n * size + size
    BY <1>1
<1>3. at \in Nat /\ n * size =< at /\ at < (n + 1) * size
    BY <1>1, <1>2 DEF size
<1> DEFINE q == at \div size
<1>4. q \in Nat /\ q * size =< at /\ at < (q + 1) * size /\ n =< q
  <2>1. q \in Nat /\ q * size =< at /\ n =< q
      BY <1>1, <1>3, Quotient
  <2>2. at < (q + 1) * size
      BY <1>1, <1>3
  <2> QED BY <2>1, <2>2
<1>5. q =< n
  <2> HIDE DEF q
  <2>1. ASSUME n + 1 =< q PROVE FALSE
    <3>1. (n + 1) * size \in Nat /\ q * size \in Nat /\ (n + 1) * size =< q * size
        BY <1>1, <1>4, <2>1, TimesMonotone
    <3> QED BY <1>3, <1>4, <3>1
  <2> QED BY <1>4, <2>1
<1>6. q = n
    BY <1>4, <1>5
<1> QED BY <1>3, <1>6 DEF DayNumber, size

\* Today is the odd one of its four years on the last day of a leap year only.
LEMMA RegularDay ==
    ASSUME IsDate(date, day), day =< 47540, ~ LastDayOfLeapYear
    PROVE  day % 1461 # 1095
<1>1. date.year = 2100 /\ date.mon = 12 => FALSE
  <2>1. FirstDay(2100) = 47482 /\ DaysBefore(2100, 12) = 335
      BY DEF FirstDay, DaysBefore, IsLeap
  <2> QED BY <2>1 DEF IsDate, DayOf
<1>2. date.year \in Nat /\ 1970 =< date.year /\ date.year =< 2100
    BY DEF IsDate, Years
<1>3. IsLeap(date.year) /\ date.mon = 12 => GregorianLeap(date.year)
    BY <1>1, <1>2 DEF GregorianLeap, IsLeap
<1> QED BY <1>3, DateOfDay DEF LastDayOfLeapYear

\* From 1970 to February 2100, tm_get gives the first and the last second of every day its
\* Gregorian date, but for 31 December of a leap year.
THEOREM TmGetAlwaysRight == CalendarSpec => []TmGetRight
<1>1. ASSUME CalendarInv PROVE TmGetRight
  <2>1. ASSUME ~ LastDayOfLeapYear, NEW at \in Today PROVE tm_get(at) = date
    <3>1. IsDate(date, day) /\ day \in Nat /\ day =< 47540
        BY <1>1, DateOfDay, CalendarAssumption DEF CalendarInv
    <3>2. day % 1461 # 1095
        BY <2>1, <3>1, RegularDay
    <3>3. at \in Nat /\ DayNumber(at) = day
        BY <3>1, InstantsOfDay DEF Today
    <3> QED BY <3>1, <3>2, <3>3, TmGetOfDay
  <2> QED BY <2>1 DEF TmGetRight, TmGetGregorian
<1> QED BY <1>1, CalendarInvStep, PTL DEF CalendarSpec

\* The same day of the year is at most one day later in one year than in another.
LEMMA LeapApart ==
    ASSUME NEW y \in Int, NEW z \in Int, NEW m \in 1 .. 13
    PROVE  /\ DaysBefore(y, m) \in Nat /\ DaysBefore(z, m) \in Nat
           /\ DaysBefore(y, m) =< DaysBefore(z, m) + 1
BY DEF DaysBefore

\* The months between two dates are in the order of the days, and no more than fit between.
LEMMA DatesApart ==
    ASSUME NEW s, NEW m, NEW c, NEW n, IsDate(s, m), IsDate(c, n), m =< n,
           NEW q \in Nat, n - m < 365 * (q + 1)
    PROVE  LET between == MonthsBetween(s, c)
           IN  /\ between \in Nat
               /\ between = 0 => s.mday < c.mday \/ (s.mday = c.mday /\ m = n)
               /\ between =< 12 * (q + 1)
               /\ between = 12 * (q + 1) => c.mday =< s.mday
<1> DEFINE between == MonthsBetween(s, c)
<1>0. PICK y \in Years, i \in 1 .. 12, k \in Nat \ {0} : s = [year |-> y, mon |-> i, mday |-> k]
    BY DEF IsDate
<1>1. PICK z \in Years, j \in 1 .. 12, l \in Nat \ {0} : c = [year |-> z, mon |-> j, mday |-> l]
    BY DEF IsDate
<1>2. between = (z - y) * 12 + (j - i) /\ y \in Nat /\ z \in Nat /\ y \in Int /\ z \in Int
    BY <1>0, <1>1 DEF MonthsBetween, Years
<1> DEFINE a == DaysBefore(y, i)
           b == DaysBefore(z, j)
           u == FirstDay(y)
           w == FirstDay(z)
           g == DaysBefore(y, i + 1)
<1>3. /\ m \in Nat /\ n \in Nat
      /\ m = u + (a + k - 1) /\ n = w + (b + l - 1)
      /\ a + k - 1 \in Nat /\ b + l - 1 \in Nat /\ a + k - 1 =< 365 /\ b + l - 1 =< 365
      /\ a + k - 1 < g
    BY <1>0, <1>1, DateOfDay DEF IsDate, DayOf
<1>4. /\ i \in 1 .. 13 /\ j \in 1 .. 13 /\ i + 1 \in 1 .. 13
    OBVIOUS
<1>5. /\ a \in Nat /\ b \in Nat /\ g \in Nat
  <2>1. a \in Nat BY <1>2, <1>4, LeapApart
  <2>2. b \in Nat BY <1>2, <1>4, LeapApart
  <2>3. g \in Nat BY <1>2, <1>4, LeapApart
  <2> QED BY <2>1, <2>2, <2>3
<1>6. u \in Int /\ w \in Int /\ (y =< z => w - u >= 365 * (z - y)) /\ (z < y => u - w >= 365 * (y - z))
  <2>1. \A e, f \in Nat : e =< f => (e - 1969) \div 4 =< (f - 1969) \div 4
      OBVIOUS
  <2> QED BY <1>2, <2>1 DEF FirstDay
<1>7. /\ i < j => g =< b + 1
      /\ i = j => a =< b + 1 /\ b =< a + 1
      /\ j < i => b =< a
  <2>1. ASSUME i < j PROVE g =< b + 1
    <3>1. DaysBefore(y, i + 1) =< DaysBefore(z, i + 1) + 1 /\ DaysBefore(z, i + 1) \in Nat
        BY <1>2, <1>4, LeapApart
    <3>2. DaysBefore(z, i + 1) =< DaysBefore(z, j)
      <4>1. i + 1 \in 1 .. 13 /\ j \in 1 .. 13 /\ i + 1 =< j
          BY <2>1
      <4> QED BY <1>2, <4>1, MonthsInOrder
    <3> QED BY <1>5, <3>1, <3>2
  <2>2. ASSUME i = j PROVE a =< b + 1 /\ b =< a + 1
      BY <1>2, <1>4, <2>2, LeapApart
  <2>3. ASSUME j < i PROVE b =< a
      BY <1>2, <1>4, <2>3 DEF DaysBefore
  <2> QED BY <2>1, <2>2, <2>3
<1>8. y = z /\ i < j => g =< b
  <2>1. ASSUME i < j PROVE DaysBefore(z, i + 1) =< DaysBefore(z, j)
    <3>1. i + 1 \in 1 .. 13 /\ j \in 1 .. 13 /\ i + 1 =< j
        BY <2>1
    <3> QED BY <1>2, <3>1, MonthsInOrder
  <2> QED BY <2>1
<1>9. y = z /\ i = j => a = b
    OBVIOUS
<1>10. y = z => i =< j /\ (i = j => k =< l /\ (k = l => m = n))
  <2>1. ASSUME y = z, j < i PROVE FALSE
    <3>1. DaysBefore(z, j + 1) =< DaysBefore(y, i) /\ DaysBefore(z, j + 1) \in Nat
      <4>1. j + 1 \in 1 .. 13 /\ i \in 1 .. 13 /\ j + 1 =< i
          BY <2>1
      <4> QED BY <1>2, <2>1, <4>1, MonthsInOrder
    <3>2. b + l - 1 < DaysBefore(z, j + 1)
        BY <1>1, DateOfDay DEF DayOf
    <3> QED BY <1>3, <1>5, <1>6, <2>1, <3>1, <3>2
  <2> HIDE DEF u, w
  <2>2. y = z => u = w
      BY DEF u, w
  <2> QED BY <1>3, <1>5, <1>6, <1>9, <2>1, <2>2
<1>11. y =< z
  <2>1. ASSUME z < y PROVE FALSE
    <3> DEFINE h == DaysBefore(z, 13)
               next == FirstDay(z + 1)
    <3>1. next = w + h
        BY YearsFollow
    <3>2. b + l - 1 < DaysBefore(z, j + 1)
        BY <1>1, DateOfDay DEF DayOf
    <3>3. DaysBefore(z, j + 1) =< h /\ DaysBefore(z, j + 1) \in Nat /\ h \in Nat
      <4>1. j + 1 \in 1 .. 13 /\ 13 \in 1 .. 13 /\ j + 1 =< 13
          OBVIOUS
      <4> QED BY <1>2, <4>1, MonthsInOrder
    <3>4. next =< u
        BY <1>2, <2>1 DEF FirstDay
    <3> HIDE DEF h, next, u, w, a, b
    <3> QED BY <1>3, <1>5, <1>6, <3>1, <3>2, <3>3, <3>4
  <2> QED BY <1>2, <2>1
<1> HIDE DEF a, b, u, w, g, between
<1>12. z - y =< q + 1
    BY <1>2, <1>3, <1>5, <1>6, <1>11
<1>13. z - y = q + 1 => b + l < a + k
    BY <1>2, <1>3, <1>5, <1>6
<1>14. z - y = q + 1 => j =< i /\ (i = j => l =< k)
    BY <1>3, <1>5, <1>7, <1>13
<1>15. between \in Nat /\ (between = 0 => y = z /\ i = j)
    BY <1>2, <1>10, <1>11
<1>16. between =< 12 * (q + 1) /\ (between = 12 * (q + 1) => z - y = q + 1 /\ i = j)
    BY <1>2, <1>11, <1>12, <1>14
<1>17. s.mday = k /\ c.mday = l
    BY <1>0, <1>1
<1>18. between = 0 => s.mday < c.mday \/ (s.mday = c.mday /\ m = n)
    BY <1>10, <1>15, <1>17
<1>19. between = 12 * (q + 1) => c.mday =< s.mday
    BY <1>14, <1>16, <1>17
<1> QED BY <1>15, <1>16, <1>18, <1>19 DEF between

\* The anniversaries that have come, and those there are until today, are as many as counted.
LEMMA AnniversariesCounted ==
    ASSUME CalendarInv, start # NotStarted, ~ LastDayOfLeapYear, start.day % 1461 # 1095,
           NEW begin \in {start.day * SecondsPerDay, start.day * SecondsPerDay + SecondsPerDay - 1},
           NEW at \in Today, at >= begin
    PROVE  LET months == 0 .. 12 * (Span \div 365 + 1)
               HasCome(k) == Over(k) \/ (Reached(k) /\ TimeOfDay(at) >= TimeOfDay(begin))
           IN  /\ MonthsElapsed(begin, at)
                    = CHOOSE k \in months : HasCome(k) /\ ~ HasCome(k + 1)
               /\ MonthsTotal(begin, at)
                    = CHOOSE k \in months : ~ Over(k) /\ (k = 0 \/ Over(k - 1))
<1> DEFINE s == start.date
           c == date
           q == Span \div 365
           between == MonthsBetween(s, c)
           months == 0 .. 12 * (q + 1)
           HasCome(k) == Over(k) \/ (Reached(k) /\ TimeOfDay(at) >= TimeOfDay(begin))
           unfinished == c.mday < s.mday \/ (c.mday = s.mday /\ TimeOfDay(at) < TimeOfDay(begin))
           elapsed == MonthsElapsed(begin, at)
           total == MonthsTotal(begin, at)
<1>1. /\ IsDate(s, start.day) /\ IsDate(c, day) /\ start.day \in Nat /\ day \in Nat
      /\ start.day =< day /\ day =< start.day + Span
    BY DateOfDay DEF CalendarInv
<1>2. q \in Nat /\ Span < 365 * (q + 1) /\ Span \in Nat
    BY CalendarAssumption
<1> HIDE DEF q
<1>3. day - start.day < 365 * (q + 1)
    BY <1>1, <1>2
<1>4. /\ between \in Nat
      /\ between = 0 => s.mday < c.mday \/ (s.mday = c.mday /\ start.day = day)
      /\ between =< 12 * (q + 1)
      /\ between = 12 * (q + 1) => c.mday =< s.mday
    BY <1>1, <1>2, <1>3, DatesApart
<1>5. day % 1461 # 1095
    BY <1>1, CalendarAssumption, RegularDay DEF CalendarInv
<1>6. /\ begin \in Nat /\ DayNumber(begin) = start.day /\ tm_get(begin) = s
      /\ at \in Nat /\ DayNumber(at) = day /\ tm_get(at) = c
  <2>1. begin \in Nat /\ DayNumber(begin) = start.day
      BY <1>1, InstantsOfDay
  <2>2. at \in Nat /\ DayNumber(at) = day
      BY <1>1, InstantsOfDay DEF Today
  <2> QED BY <1>1, <1>5, <2>1, <2>2, TmGetOfDay
<1>7. /\ TimeOfDay(begin) \in Int /\ TimeOfDay(at) \in Int
      /\ start.day = day => TimeOfDay(at) >= TimeOfDay(begin)
  <2>1. SecondsPerDay \in Nat \ {0} BY SecondsPerDayAssumption
  <2> QED BY <1>6, <2>1 DEF DayNumber, TimeOfDay
<1>8. s.mday \in Int /\ c.mday \in Int
    BY <1>1 DEF IsDate
<1>9. elapsed = between - (IF unfinished THEN 1 ELSE 0)
    BY <1>6 DEF MonthsElapsed
<1>10. total = between + (IF c.mday > s.mday THEN 1 ELSE 0)
    BY <1>6 DEF MonthsTotal
<1>11. \A k \in Int : Over(k) <=> (k < between \/ (k = between /\ c.mday > s.mday))
    BY <1>4, <1>8 DEF Over, Reached
<1>12. \A k \in Int : HasCome(k) <=> (k < between \/ (k = between /\ ~ unfinished))
    BY <1>4, <1>7, <1>8 DEF Over, Reached
<1> HIDE DEF HasCome, unfinished, between, elapsed, total
<1>13. elapsed \in months /\ \A k \in Int : HasCome(k) <=> k =< elapsed
    <2>1. between = 0 => ~ unfinished
        BY <1>4, <1>7, <1>8 DEF unfinished
    <2> QED BY <1>2, <1>4, <1>9, <1>12, <2>1
<1>14. total \in months /\ \A k \in Int : Over(k) <=> k < total
    BY <1>2, <1>4, <1>8, <1>10, <1>11
<1>15. elapsed = CHOOSE k \in months : HasCome(k) /\ ~ HasCome(k + 1)
  <2>1. \A k \in months : (HasCome(k) /\ ~ HasCome(k + 1)) <=> k = elapsed
    <3>1. \A k \in months : k \in Int /\ k + 1 \in Int
        BY <1>2
    <3>2. elapsed \in Int
        BY <1>2, <1>13
    <3> QED BY <1>13, <3>1, <3>2
  <2> QED BY <1>13, <2>1
<1>16. total = CHOOSE k \in months : ~ Over(k) /\ (k = 0 \/ Over(k - 1))
  <2>1. \A k \in months : (~ Over(k) /\ (k = 0 \/ Over(k - 1))) <=> k = total
    <3>1. \A k \in months : k \in Nat /\ k - 1 \in Int
        BY <1>2
    <3>2. total \in Nat
        BY <1>2, <1>14
    <3> QED BY <1>14, <3>1, <3>2
  <2> QED BY <1>14, <2>1
<1> QED BY <1>15, <1>16 DEF HasCome, elapsed, total, q

\* Between any two instants that are not on 31 December of a leap year, a monthly grant has
\* as many periods, and as many of them have ended, as there are monthly anniversaries.
THEOREM MonthsAlwaysCounted ==
    ASSUME \A n \in StartDays : n % 1461 # 1095
    PROVE  CalendarSpec => []MonthsCounted
<1>1. ASSUME CalendarInv PROVE MonthsCounted
  <2>1. start # NotStarted => start.day % 1461 # 1095
      BY <1>1 DEF CalendarInv
  <2> QED BY <1>1, <2>1, AnniversariesCounted DEF MonthsCounted
<1> QED BY <1>1, CalendarInvStep, PTL DEF CalendarSpec

-----------------------------------------------------------------------------
(* A relay, trade after trade. *)

\* Every natural number has a truncated root.
LEMMA RootType ==
    ASSUME NEW n \in Nat
    PROVE  /\ Root(n) \in Nat /\ Root(n) * Root(n) =< n
           /\ n < (Root(n) + 1) * (Root(n) + 1)
<1> DEFINE T == {k \in Nat : n < (k + 1) * (k + 1)}
<1>1. n \in T
  <2>1. (n + 1) * (n + 1) = n * n + n + n + 1 /\ n * n \in Nat
      OBVIOUS
  <2> QED BY <2>1
<1>2. PICK m \in T : \A k \in T : m =< k
  <2>1. T \in SUBSET Nat /\ T # {}
      BY <1>1
  <2> HIDE DEF T
  <2> QED BY <2>1, NatMin
<1>3. m \in 0 .. n
    BY <1>1, <1>2
<1>4. m * m =< n
  <2>1. CASE m = 0
      BY <2>1
  <2>2. CASE m # 0
    <3>1. m - 1 \in Nat /\ m - 1 \notin T
        BY <1>2, <2>2
    <3>2. ((m - 1) + 1) * ((m - 1) + 1) = m * m /\ m * m \in Nat
        BY <1>3
    <3> QED BY <3>1, <3>2
  <2> QED BY <2>1, <2>2
<1>5. \E r \in 0 .. n : r * r =< n /\ n < (r + 1) * (r + 1)
    BY <1>2, <1>3, <1>4
<1>6. Root(n) \in 0 .. n /\ Root(n) * Root(n) =< n /\ n < (Root(n) + 1) * (Root(n) + 1)
    BY <1>5 DEF Root
<1> QED BY <1>6

-----------------------------------------------------------------------------
\* What is taken out of a side of q for a put into a side of b is below the price
\* of the reserves after the trade.
Fair(b, q, a, out) == out \in Nat /\ out * (b + a) =< a * q

\* The direct conversion is at that price.
LEMMA DirectIsFair ==
    ASSUME NEW b \in Nat \ {0}, NEW q \in Nat \ {0}, NEW a \in Nat \ {0}
    PROVE  /\ Fair(b, q, a, get_bancor_output(b, q, a))
           /\ \A out \in Nat : out * (b + a) =< a * q => out =< get_bancor_output(b, q, a)
<1>1. a * q \in Nat /\ b + a \in Nat \ {0}
    BY TimesMonotone
<1> DEFINE n == a * q
           d == b + a
<1>2. /\ n \div d \in Nat /\ (n \div d) * d =< n
      /\ \A k \in Nat : k * d =< n => k =< n \div d
  <2>1. n \in Nat /\ d \in Nat \ {0}
      BY <1>1
  <2> HIDE DEF n, d
  <2> QED BY <2>1, Quotient
<1>3. get_bancor_output(b, q, a) = n \div d
    BY <1>2 DEF get_bancor_output, AtLeastZero
<1> QED BY <1>2, <1>3 DEF Fair

\* A trade at a fair price leaves something and does not lower the product.
LEMMA FairKeepsProduct ==
    ASSUME NEW b \in Nat \ {0}, NEW q \in Nat \ {0}, NEW a \in Nat \ {0}, NEW out,
           Fair(b, q, a, out)
    PROVE  /\ b + a \in Nat \ {0} /\ q - out \in Nat \ {0}
           /\ (b + a) * (q - out) >= b * q
<1>1. out \in Nat /\ out * (b + a) =< a * q /\ b + a \in Nat \ {0}
    BY DEF Fair
<1>2. q * (b + a) = b * q + a * q /\ b * q \in Nat \ {0} /\ a * q \in Nat
    OBVIOUS
<1>3. out < q
  <2>1. CASE q =< out
    <3>1. q * (b + a) =< out * (b + a) /\ out * (b + a) \in Nat
        BY <1>1, <2>1, TimesMonotone
    <3> QED BY <1>1, <1>2, <3>1
  <2> QED BY <1>1, <2>1
<1>4. (b + a) * (q - out) = q * (b + a) - out * (b + a) /\ out * (b + a) \in Nat
    BY <1>1
<1> QED BY <1>1, <1>2, <1>3, <1>4

\* Minting RAMCORE for p, by a truncated root.
LEMMA Minted ==
    ASSUME NEW S \in Nat \ {0}, NEW R \in Nat \ {0}, NEW p \in Nat \ {0}
    PROVE  LET into == convert_to_exchange(S, R, p)
           IN  /\ into.out \in Nat /\ into.supply \in Nat \ {0}
               /\ into.supply = S + into.out /\ into.reserve = R + p
               /\ (into.supply * into.supply) * R =< (S * S) * (R + p)
<1> DEFINE n == S * S * (R + p)
           f == n \div R
           r == Root(f)
<1>1. S * S \in Nat \ {0} /\ n = (S * S) * (R + p) /\ n \in Nat
    OBVIOUS
<1>2. f \in Nat /\ f * R =< n /\ S * S =< f
  <2>1. (S * S) * R =< n
    <3>1. n = (S * S) * R + (S * S) * p /\ (S * S) * p \in Nat /\ (S * S) * R \in Nat
        BY <1>1
    <3> HIDE DEF n
    <3> QED BY <3>1
  <2> HIDE DEF n
  <2> QED BY <1>1, <2>1, Quotient
<1>3. r \in Nat /\ r * r =< f /\ f < (r + 1) * (r + 1)
  <2> HIDE DEF f
  <2> QED BY <1>2, RootType
<1>4. S =< r
  <2>1. CASE r + 1 =< S
    <3>1. (r + 1) * (r + 1) =< S * S
      <4>1. (r + 1) * (r + 1) =< S * (r + 1) /\ (r + 1) * S =< S * S
          BY <1>3, <2>1, TimesMonotone
      <4>2. S * (r + 1) = (r + 1) * S /\ S * (r + 1) \in Nat
            /\ (r + 1) * (r + 1) \in Nat
          BY <1>3
      <4> QED BY <1>1, <4>1, <4>2
    <3>2. (r + 1) * (r + 1) \in Nat
        BY <1>3
    <3> QED BY <1>1, <1>2, <1>3, <3>1, <3>2
  <2> QED BY <1>3, <2>1
<1>5. (r * r) * R =< n
  <2>1. (r * r) * R =< f * R /\ (r * r) * R \in Nat /\ f * R \in Nat
    <3>1. r * r \in Nat
        BY <1>3
    <3> QED BY <1>2, <1>3, <3>1, TimesMonotone
  <2> QED BY <1>1, <1>2, <2>1
<1>6. convert_to_exchange(S, R, p) = [out |-> r - S, supply |-> S + (r - S), reserve |-> R + p]
    BY DEF convert_to_exchange
<1>7. S + (r - S) = r /\ r - S \in Nat /\ r \in Nat \ {0}
    BY <1>3, <1>4
<1> QED
  <2> HIDE DEF r, n
  <2> QED BY <1>1, <1>5, <1>6, <1>7

\* Burning it again from the other side, by a truncated square: less than the
\* direct conversion would give.
LEMMA TwoStepIsFair ==
    ASSUME NEW S \in Nat \ {0}, NEW R \in Nat \ {0}, NEW Q \in Nat \ {0}, NEW p \in Nat \ {0}
    PROVE  LET into  == convert_to_exchange(S, R, p)
               outof == convert_from_exchange(into.supply, Q, into.out)
           IN  /\ Fair(R, Q, p, outof.out)
               /\ outof.supply = S /\ outof.reserve = Q - outof.out
<1> DEFINE into == convert_to_exchange(S, R, p)
           N == into.supply
           M == into.out
           u == N * N
           w == S * S
           paid == (Q * (u - w)) \div u
<1>1. /\ M \in Nat /\ N \in Nat \ {0} /\ N = S + M /\ u * R =< w * (R + p)
    BY Minted
<1> HIDE DEF into, N, M
<1>2. N - M = S
    BY <1>1
<1>3. convert_from_exchange(N, Q, M) = [out |-> paid, supply |-> S, reserve |-> Q - paid]
    BY <1>2 DEF convert_from_exchange
<1>4. u \in Nat \ {0} /\ w \in Nat \ {0} /\ w =< u
  <2>1. S =< N /\ S * S =< N * S /\ S * N =< N * N /\ S * N = N * S
      BY <1>1, TimesMonotone
  <2>2. S * S \in Nat \ {0} /\ N * N \in Nat \ {0} /\ N * S \in Nat
      BY <1>1
  <2> QED BY <2>1, <2>2
<1> HIDE DEF u, w
<1>5. paid \in Nat /\ paid * u =< Q * (u - w)
  <2>1. Q * (u - w) \in Nat
      BY <1>4, TimesMonotone
  <2> QED BY <1>4, <2>1, Quotient
<1> HIDE DEF paid
<1>6. paid =< Q
  <2>1. Q * (u - w) = Q * u - Q * w /\ Q * w \in Nat /\ Q * u \in Nat /\ paid * u \in Nat
      BY <1>4, <1>5
  <2> QED BY <1>4, <1>5, <2>1, TimesCancel
<1> DEFINE kept == Q - paid
<1>7. kept \in Nat /\ paid = Q - kept
    BY <1>5, <1>6
<1> HIDE DEF kept
<1>8. Q * w =< kept * u
  <2>1. paid * u = Q * u - kept * u /\ Q * (u - w) = Q * u - Q * w
      BY <1>4, <1>7
  <2>2. Q * u \in Nat /\ kept * u \in Nat /\ Q * w \in Nat
      BY <1>4, <1>7
  <2> QED BY <1>5, <2>1, <2>2
<1>9. Q * R =< kept * (R + p)
  <2>1. (Q * w) * R =< (kept * u) * R
      BY <1>4, <1>7, <1>8, TimesMonotone
  <2>2. (u * R) * kept =< (w * (R + p)) * kept
      BY <1>1, <1>4, <1>7, TimesMonotone
  <2>3. /\ (kept * u) * R = (u * R) * kept /\ (Q * w) * R = (Q * R) * w
        /\ (w * (R + p)) * kept = (kept * (R + p)) * w
      BY <1>4, <1>7
  <2>4. (Q * R) * w =< (kept * (R + p)) * w
    <3>1. (Q * R) * w \in Nat /\ (kept * (R + p)) * w \in Nat /\ (u * R) * kept \in Nat
        BY <1>4, <1>7
    <3> QED BY <2>1, <2>2, <2>3, <3>1
  <2>5. Q * R \in Nat /\ kept * (R + p) \in Nat
      BY <1>7
  <2> QED BY <1>4, <2>4, <2>5, TimesCancel
<1>10. paid * (R + p) =< p * Q
  <2>1. paid * (R + p) = Q * R + p * Q - kept * (R + p)
      BY <1>7
  <2>2. Q * R \in Nat /\ p * Q \in Nat /\ kept * (R + p) \in Nat
      BY <1>7
  <2> QED BY <1>9, <2>1, <2>2
<1>11. Fair(R, Q, p, paid)
    BY <1>5, <1>10 DEF Fair
<1> QED BY <1>3, <1>11 DEF into, N, M

-----------------------------------------------------------------------------
Markets == [supply : {Supply}, base : Nat \ {0}, quote : Nat \ {0}]

\* A relay with all three of its fields replaced.
LEMMA MarketReplaced ==
    ASSUME NEW m \in Markets, NEW supply \in Int, NEW base \in Int, NEW quote \in Int
    PROVE  /\ [m EXCEPT !.supply = supply, !["base"] = base, !["quote"] = quote]
                  = [supply |-> supply, base |-> base, quote |-> quote]
           /\ [m EXCEPT !.supply = supply, !["quote"] = quote, !["base"] = base]
                  = [supply |-> supply, base |-> base, quote |-> quote]
<1> DEFINE Ints == [supply : Int, base : Int, quote : Int]
           one == [m EXCEPT !.supply = supply, !["base"] = base, !["quote"] = quote]
           two == [m EXCEPT !.supply = supply, !["quote"] = quote, !["base"] = base]
<1>1. m \in Ints
    BY MarketAssumption DEF Markets
<1>2. one \in Ints /\ one.supply = supply /\ one.base = base /\ one.quote = quote
    BY <1>1
<1>3. two \in Ints /\ two.supply = supply /\ two.base = base /\ two.quote = quote
    BY <1>1
<1> HIDE DEF one, two
<1>4. one = [supply |-> supply, base |-> base, quote |-> quote]
    BY <1>2
<1>5. two = [supply |-> supply, base |-> base, quote |-> quote]
    BY <1>3
<1> QED BY <1>4, <1>5 DEF one, two

\* A trade keeps a relay a relay and does not lower the product, in every
\* direction and by both conversions.
LEMMA TradeKeepsProduct ==
    ASSUME NEW m \in Markets, NEW side \in Sides, NEW amount \in Nat \ {0},
           NEW after \in {direct_convert(m, side, amount).market,
                          convert(m, side, amount).market}
    PROVE  after \in Markets /\ after.base * after.quote >= m.base * m.quote
<1>1. /\ m.supply = Supply /\ Supply \in Nat \ {0}
      /\ m.base \in Nat \ {0} /\ m.quote \in Nat \ {0}
      /\ m = [supply |-> m.supply, base |-> m.base, quote |-> m.quote]
    BY MarketAssumption DEF Markets
<1>2. CASE side = "base"
  <2> DEFINE Sold(out) == [supply |-> Supply, base |-> m.base + amount, quote |-> m.quote - out]
  <2>1. PICK out : Fair(m.base, m.quote, amount, out) /\ after = Sold(out)
    <3>1. direct_convert(m, side, amount).market
              = Sold(get_bancor_output(m.base, m.quote, amount))
        BY <1>1, <1>2 DEF direct_convert, SellBase
    <3>2. /\ Fair(m.base, m.quote, amount, convert(m, side, amount).out)
          /\ convert(m, side, amount).market = Sold(convert(m, side, amount).out)
      <4> DEFINE into  == convert_to_exchange(Supply, m.base, amount)
                 outof == convert_from_exchange(into.supply, m.quote, into.out)
      <4>1. /\ Fair(m.base, m.quote, amount, outof.out)
            /\ outof.supply = Supply /\ outof.reserve = m.quote - outof.out
          BY <1>1, TwoStepIsFair, SMTT(30)
      <4>2. into.reserve = m.base + amount
          BY DEF convert_to_exchange
      <4> HIDE DEF into
      <4>3. convert(m, side, amount) =
                [out |-> outof.out,
                 market |-> [m EXCEPT !.supply = outof.supply,
                                      !["base"] = into.reserve, !["quote"] = outof.reserve]]
          BY <1>1, <1>2 DEF convert, into
      <4> HIDE DEF outof
      <4>4. [m EXCEPT !.supply = outof.supply,
                      !["base"] = into.reserve, !["quote"] = outof.reserve] = Sold(outof.out)
        <5>1. outof.supply \in Int /\ into.reserve \in Int /\ outof.reserve \in Int
            BY <1>1, <4>1, <4>2 DEF Fair
        <5>2. [m EXCEPT !.supply = outof.supply,
                        !["base"] = into.reserve, !["quote"] = outof.reserve]
                  = [supply |-> outof.supply, base |-> into.reserve, quote |-> outof.reserve]
            BY <5>1, MarketReplaced, ZenonT(60)
        <5> QED BY <4>1, <4>2, <5>2
      <4> HIDE DEF Sold
      <4> QED BY <4>1, <4>3, <4>4
    <3> QED BY <1>1, <3>1, <3>2, DirectIsFair
  <2>2. /\ m.base + amount \in Nat \ {0} /\ m.quote - out \in Nat \ {0}
        /\ (m.base + amount) * (m.quote - out) >= m.base * m.quote
      BY <1>1, <2>1, FairKeepsProduct
  <2> QED BY <1>1, <2>1, <2>2 DEF Markets
<1>3. CASE side = "quote"
  <2> DEFINE Sold(out) == [supply |-> Supply, base |-> m.base - out, quote |-> m.quote + amount]
  <2>1. PICK out : Fair(m.quote, m.base, amount, out) /\ after = Sold(out)
    <3>1. direct_convert(m, side, amount).market
              = Sold(get_bancor_output(m.quote, m.base, amount))
        BY <1>1, <1>3 DEF direct_convert, SellQuote
    <3>2. /\ Fair(m.quote, m.base, amount, convert(m, side, amount).out)
          /\ convert(m, side, amount).market = Sold(convert(m, side, amount).out)
      <4> DEFINE into  == convert_to_exchange(Supply, m.quote, amount)
                 outof == convert_from_exchange(into.supply, m.base, into.out)
      <4>1. /\ Fair(m.quote, m.base, amount, outof.out)
            /\ outof.supply = Supply /\ outof.reserve = m.base - outof.out
          BY <1>1, TwoStepIsFair, SMTT(30)
      <4>2. into.reserve = m.quote + amount
          BY DEF convert_to_exchange
      <4> HIDE DEF into
      <4>3. convert(m, side, amount) =
                [out |-> outof.out,
                 market |-> [m EXCEPT !.supply = outof.supply,
                                      !["quote"] = into.reserve, !["base"] = outof.reserve]]
          BY <1>1, <1>3 DEF convert, into
      <4> HIDE DEF outof
      <4>4. [m EXCEPT !.supply = outof.supply,
                      !["quote"] = into.reserve, !["base"] = outof.reserve] = Sold(outof.out)
        <5>1. outof.supply \in Int /\ into.reserve \in Int /\ outof.reserve \in Int
            BY <1>1, <4>1, <4>2 DEF Fair
        <5>2. [m EXCEPT !.supply = outof.supply,
                        !["quote"] = into.reserve, !["base"] = outof.reserve]
                  = [supply |-> outof.supply, base |-> outof.reserve, quote |-> into.reserve]
            BY <5>1, MarketReplaced, ZenonT(60)
        <5> QED BY <4>1, <4>2, <5>2
      <4> HIDE DEF Sold
      <4> QED BY <4>1, <4>3, <4>4
    <3> QED BY <1>1, <3>1, <3>2, DirectIsFair
  <2>2. /\ m.quote + amount \in Nat \ {0} /\ m.base - out \in Nat \ {0}
        /\ (m.quote + amount) * (m.base - out) >= m.quote * m.base
      BY <1>1, <2>1, FairKeepsProduct
  <2>3. (m.base - out) * (m.quote + amount) >= m.base * m.quote
      BY <1>1, <2>1, <2>2
  <2> QED BY <1>1, <2>1, <2>2, <2>3 DEF Markets
<1> QED BY <1>2, <1>3 DEF Sides

\* What is fair is no more than the direct conversion gives.
LEMMA FairBelowDirect ==
    ASSUME NEW b \in Nat \ {0}, NEW q \in Nat \ {0}, NEW a \in Nat \ {0}, NEW out,
           Fair(b, q, a, out)
    PROVE  out =< get_bancor_output(b, q, a)
<1>1. out \in Nat /\ out * (b + a) =< a * q
    BY DEF Fair
<1> QED BY <1>1, DirectIsFair

\* The two-step conversion gives no more than the direct one.
LEMMA TwoStepBelowDirect ==
    ASSUME NEW m \in Markets, NEW side \in Sides, NEW amount \in Nat \ {0}
    PROVE  convert(m, side, amount).out =< direct_convert(m, side, amount).out
<1>1. /\ m.supply = Supply /\ Supply \in Nat \ {0}
      /\ m.base \in Nat \ {0} /\ m.quote \in Nat \ {0}
    BY MarketAssumption DEF Markets
<1>2. CASE side = "base"
  <2> DEFINE into  == convert_to_exchange(Supply, m.base, amount)
             outof == convert_from_exchange(into.supply, m.quote, into.out)
  <2>1. Fair(m.base, m.quote, amount, outof.out)
      BY <1>1, TwoStepIsFair, SMTT(30)
  <2>2. convert(m, side, amount).out = outof.out
      BY <1>1, <1>2 DEF convert
  <2>3. direct_convert(m, side, amount).out = get_bancor_output(m.base, m.quote, amount)
      BY <1>2 DEF direct_convert, SellBase
  <2> HIDE DEF outof
  <2>4. outof.out =< get_bancor_output(m.base, m.quote, amount)
      BY <1>1, <2>1, FairBelowDirect
  <2> QED BY <2>2, <2>3, <2>4
<1>3. CASE side = "quote"
  <2> DEFINE into  == convert_to_exchange(Supply, m.quote, amount)
             outof == convert_from_exchange(into.supply, m.base, into.out)
  <2>1. Fair(m.quote, m.base, amount, outof.out)
      BY <1>1, TwoStepIsFair, SMTT(30)
  <2>2. convert(m, side, amount).out = outof.out
      BY <1>1, <1>3 DEF convert
  <2>3. direct_convert(m, side, amount).out = get_bancor_output(m.quote, m.base, amount)
      BY <1>3 DEF direct_convert, SellQuote
  <2> HIDE DEF outof
  <2>4. outof.out =< get_bancor_output(m.quote, m.base, amount)
      BY <1>1, <2>1, FairBelowDirect
  <2> QED BY <2>2, <2>3, <2>4
<1> QED BY <1>2, <1>3 DEF Sides

\* What is asked for a number of bytes buys no more of them.
LEMMA BytesPaidFor ==
    ASSUME NEW base \in Nat \ {0}, NEW quote \in Nat \ {0}, NEW bytes \in 1 .. base - 1
    PROVE  LET cost == get_bancor_input(base, quote, bytes)
           IN  get_bancor_output(quote, base, cost) =< bytes
<1> DEFINE cost == (quote * bytes) \div (base - bytes)
           out  == (cost * base) \div (quote + cost)
<1>1. get_bancor_input(base, quote, bytes) = cost
    BY DEF get_bancor_input
<1>2. cost \in Nat /\ cost * (base - bytes) =< quote * bytes
  <2>1. quote * bytes \in Nat /\ base - bytes \in Nat \ {0}
      BY TimesMonotone
  <2> QED BY <2>1, Quotient
<1> HIDE DEF cost
<1>3. out \in Nat /\ out * (quote + cost) =< cost * base
  <2>1. cost * base \in Nat /\ quote + cost \in Nat \ {0}
      BY <1>2, TimesMonotone
  <2> QED BY <2>1, Quotient
<1> HIDE DEF out
<1>4. cost * base =< bytes * (quote + cost)
  <2>1. /\ cost * (base - bytes) = cost * base - cost * bytes
        /\ bytes * (quote + cost) = quote * bytes + cost * bytes
      BY <1>2
  <2>2. cost * base \in Nat /\ cost * bytes \in Nat /\ quote * bytes \in Nat
      BY <1>2, TimesMonotone
  <2> QED BY <1>2, <2>1, <2>2
<1>5. out =< bytes
  <2>1. out * (quote + cost) =< bytes * (quote + cost) /\ quote + cost \in Nat \ {0}
    <3>1. out * (quote + cost) \in Nat /\ cost * base \in Nat /\ bytes * (quote + cost) \in Nat
        BY <1>2, <1>3, TimesMonotone
    <3> QED BY <1>2, <1>3, <1>4, <3>1
  <2> QED BY <1>3, <2>1, TimesCancel
<1>6. get_bancor_output(quote, base, cost) = out
    BY <1>2, <1>3 DEF get_bancor_output, AtLeastZero, out
<1> QED BY <1>1, <1>5, <1>6

-----------------------------------------------------------------------------
\* Each step trades, and so keeps the relay and its product.
LEMMA MarketStepKeeps ==
    market \in Markets /\ [DirectTrade \/ TwoStepTrade]_market
        => market' \in Markets /\ market'.base * market'.quote >= market.base * market.quote
<1> SUFFICES ASSUME market \in Markets, [DirectTrade \/ TwoStepTrade]_market
             PROVE  /\ market' \in Markets
                    /\ market'.base * market'.quote >= market.base * market.quote
    OBVIOUS
<1>1. CASE DirectTrade
    BY <1>1, TradeKeepsProduct, MarketAssumption DEF DirectTrade, Trade
<1>2. CASE TwoStepTrade
    BY <1>2, TradeKeepsProduct, MarketAssumption DEF TwoStepTrade, Trade
<1>3. CASE UNCHANGED market
  <2>1. market.base * market.quote \in Nat
      BY DEF Markets
  <2> QED BY <1>3, <2>1
<1> QED BY <1>1, <1>2, <1>3

\* The relay the trades start from.
LEMMA MarketInitType == MarketInit => market \in Markets
BY MarketAssumption DEF MarketInit, Markets

\* No sequence of trades takes more out of a relay than its price allows.
THEOREM ProductKept == MarketSpec => ProductNeverFalls
<1>1. MarketInit => market \in Markets
    BY MarketInitType
<1>2. market \in Markets /\ [DirectTrade \/ TwoStepTrade]_market
          => /\ (market \in Markets)'
             /\ [market'.base * market'.quote >= market.base * market.quote]_market
    BY MarketStepKeeps
<1> QED BY <1>1, <1>2, PTL DEF MarketSpec, ProductNeverFalls

\* Whatever the reserves have become: bytes are never sold below their price, and
\* the older two-step conversion never gives more than the direct one.
THEOREM PricesAlwaysAgree == MarketSpec => []PricesAgree
<1>1. MarketInit => market \in Markets
    BY MarketInitType
<1>2. market \in Markets /\ [DirectTrade \/ TwoStepTrade]_market => (market \in Markets)'
    BY MarketStepKeeps
<1>3. market \in Markets => PricesAgree
  <2> SUFFICES ASSUME market \in Markets PROVE PricesAgree
      OBVIOUS
  <2>1. market.base \in Nat \ {0} /\ market.quote \in Nat \ {0}
      BY DEF Markets
  <2>2. ASSUME NEW bytes \in 1 .. market.base - 1
        PROVE  LET cost == get_bancor_input(market.base, market.quote, bytes)
               IN  get_bancor_output(market.quote, market.base, cost) =< bytes
      BY <2>1, BytesPaidFor
  <2>3. ASSUME NEW side \in Sides, NEW amount \in TradeSizes
        PROVE  convert(market, side, amount).out =< direct_convert(market, side, amount).out
      BY TwoStepBelowDirect, MarketAssumption
  <2> QED BY <2>2, <2>3 DEF PricesAgree
<1> QED BY <1>1, <1>2, <1>3, PTL DEF MarketSpec
=============================================================================
