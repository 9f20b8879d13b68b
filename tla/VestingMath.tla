---------------------------- MODULE VestingMath ----------------------------
(***************************************************************************)
(* How much of a grant has vested: calculation.cpp, the sums claims.cpp    *)
(* and cancel.cpp make of it, and the clock of pause.cpp they read.        *)
(*                                                                         *)
(* A cliff weight is a fraction of WeightUnit.  The code computes with     *)
(* long double (128 bits on EOSIO) and truncates, so for weights that a    *)
(* double represents the quotient is the integer one used here.            *)
(***************************************************************************)
EXTENDS Calendar

CONSTANTS TimeWrap,      \* 2^32: ds_time counts seconds in 32 bits
          WeightUnit     \* a cliff_weight of 1.0

ASSUME VestingMathAssumption == TimeWrap \in Nat \ {0} /\ WeightUnit \in Nat \ {0}

\* 2^32 seconds are 49711 days, far from where the formula of tm_get drifts.
ASSUME TimeWrapAssumption == TimeWrap =< 364 * 1461 * SecondsPerDay

Monthly  == 1
Weekly   == 2
Daily    == 3
Secondly == 4
Locked   == 5
Daily30  == 6
VestingPeriods == 1 .. 6

Active    == 1
Paused    == 2
Cancelled == 3       \* also a grant that is paid in full

\* 0 stands for the periods that have no fixed size.
vesting_period_size(period) ==
    CASE period = Weekly   -> 7 * SecondsPerDay
      [] period = Daily    -> SecondsPerDay
      [] period = Secondly -> 1
      [] period = Daily30  -> 30 * SecondsPerDay
      [] OTHER             -> 0

MonthsBetween(a, b) == (b.year - a.year) * 12 + (b.mon - a.mon)

\* Months of the whole grant; one that has begun counts.
MonthsTotal(start, end) ==
    LET s == tm_get(start)
        e == tm_get(end)
    IN  MonthsBetween(s, e) + (IF e.mday > s.mday THEN 1 ELSE 0)

\* Mutation: the time of the day does not count.
MonthsElapsedByDay(start, curr) ==
    MonthsBetween(tm_get(start), tm_get(curr))
      - (IF tm_get(curr).mday < tm_get(start).mday THEN 1 ELSE 0)

\* Months that have ended by curr.
MonthsElapsed(start, curr) ==
    LET s == tm_get(start)
        c == tm_get(curr)
        unfinished == \/ c.mday < s.mday
                      \/ c.mday = s.mday /\ TimeOfDay(curr) < TimeOfDay(start)
    IN  MonthsBetween(s, c) - (IF unfinished THEN 1 ELSE 0)

\* Periods of the whole grant, and periods that have ended by curr.  The code
\* rounds end - start up to a multiple of size after adding one to it, so a
\* grant of exactly n periods has n + 1.
PeriodsTotal(period, start, end) ==
    IF vesting_period_size(period) # 0
    THEN (end - start) \div vesting_period_size(period) + 1
    ELSE IF period = Locked THEN 1
    ELSE MonthsTotal(start, end)

PeriodsElapsed(period, start, curr) ==
    IF vesting_period_size(period) # 0
    THEN (curr - start) \div vesting_period_size(period)
    ELSE IF period = Locked THEN 0
    ELSE MonthsElapsed(start, curr)

\* Mutation: the end of the grant does not complete the last period.
PercentWithoutEnd(period, start, end, curr) ==
    LET total == PeriodsTotal(period, start, end)
        ran   == PeriodsElapsed(period, start, curr)
    IN  [total |-> total, elapsed |-> IF ran < 0 THEN 0 ELSE IF ran < total THEN ran ELSE total]

\* The tuple calc_vesting_percent returns; its assertion is CanCalc.
calc_vesting_percent(period, start, end, curr) ==
    LET total   == PeriodsTotal(period, start, end)
        ran     == PeriodsElapsed(period, start, curr)
        elapsed == IF ran < total /\ curr < end THEN ran ELSE total
    IN  [total |-> total, elapsed |-> IF elapsed < 0 THEN 0 ELSE elapsed]

\* start < end is asserted.  A total of 0 makes op_mul_div divide 0.0 by 0.0
\* and build an asset from the integer that NaN converts to: out of range, so
\* the asset's own check aborts the action.
CanCalc(period, start, end) ==
    /\ start < end
    /\ PeriodsTotal(period, start, end) # 0

-----------------------------------------------------------------------------
\* quantity * mul / div for a mul that counts in fractions of WeightUnit.
op_mul_div(quantity, mul, div) == (quantity * mul) \div (div * WeightUnit)

\* Mutation: the cliff is not taken out of what accrues by periods.
LinearWithCliff(amount, weight, percent) ==
    IF percent.elapsed = 0 THEN 0 ELSE (amount * percent.elapsed) \div percent.total

LinearPart(amount, weight, percent) ==
    IF percent.elapsed = 0
    THEN 0
    ELSE op_mul_div(amount, percent.elapsed * (WeightUnit - weight), percent.total)

CliffPart(amount, weight) == op_mul_div(amount, weight, 1)

\* Mutation: the cliff is paid until the first period has ended.
VestedCliffOnce(v, curr, now) ==
    LET percent == calc_vesting_percent(v.vesting_period, v.cliff_date, v.end_date, curr)
    IN  IF percent.elapsed > 0
        THEN LinearPart(v.vesting_amount, v.cliff_weight, percent)
        ELSE IF v.cliff_date < now THEN CliffPart(v.vesting_amount, v.cliff_weight) ELSE 0

\* Mutation: what the divisions cut off is never paid.
VestedTruncated(v, curr, now) ==
    LET percent == calc_vesting_percent(v.vesting_period, v.cliff_date, v.end_date, curr)
    IN  LinearPart(v.vesting_amount, v.cliff_weight, percent)
          + (IF v.cliff_date < now THEN CliffPart(v.vesting_amount, v.cliff_weight) ELSE 0)

\* What has vested of the grant v when the periods are counted up to curr and
\* the cliff is tested against now.
Vested(v, curr, now) ==
    LET percent == calc_vesting_percent(v.vesting_period, v.cliff_date, v.end_date, curr)
        linear  == LinearPart(v.vesting_amount, v.cliff_weight, percent)
        cliff   == IF v.cliff_date < now /\ v.cliff_weight > 0
                   THEN CliffPart(v.vesting_amount, v.cliff_weight) ELSE 0
    IN  IF \/ linear + cliff > v.vesting_amount
           \/ percent.total = percent.elapsed /\ v.cliff_date < now
        THEN v.vesting_amount
        ELSE linear + cliff

-----------------------------------------------------------------------------
\* Mutation: a pause counts when it is over only.
PausedBefore(v, now) == v.pause_time

\* Mutation: a pause announced for later counts already.
PausedInAdvance(v, now) ==
    v.pause_time + (IF v.status = Paused THEN now - v.pause_start ELSE 0)

\* Seconds a grant has been paused for at time now.
PausedFor(v, now) ==
    v.pause_time
      + (IF v.status = Paused /\ v.pause_start < now THEN now - v.pause_start ELSE 0)

\* The clock of one grant: the time less the pauses, in 32 bits.
now_fixed_by_pause(v, now) == (now - PausedFor(v, now)) % TimeWrap
=============================================================================
