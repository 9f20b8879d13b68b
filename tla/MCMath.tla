------------------------------- MODULE MCMath -------------------------------
(***************************************************************************)
(* The accrual of one grant, from before its cliff until after its end:    *)
(* VestingMath over all grants of a small range and every instant, with no *)
(* pauses (now_fixed_by_pause is the instant itself).                      *)
(***************************************************************************)
EXTENDS VestingMath

CONSTANTS GrantAmounts, CliffDates, Durations, LastInstant

ASSUME MathAssumption ==
    /\ GrantAmounts \subseteq Nat /\ CliffDates \subseteq Nat
    /\ Durations \subseteq Nat \ {0} /\ LastInstant \in Nat

VARIABLES v,           \* the grant
          t            \* the instant

AccrualInit ==
    /\ t = 0
    /\ \E period \in VestingPeriods \ {Monthly}, amount \in GrantAmounts,
          weight \in 0 .. WeightUnit, cliff \in CliffDates, duration \in Durations :
        v = [vesting_period |-> period, vesting_amount |-> amount,
             cliff_date |-> cliff, cliff_weight |-> weight, end_date |-> cliff + duration]

accrual == <<v, t>>

NextInstant == t < LastInstant /\ t' = t + 1 /\ UNCHANGED v

AccrualSpec == AccrualInit /\ [][NextInstant]_accrual

\* What a claim would find vested never drops as time goes by, across the cliff,
\* the end of a period and the end of the grant.
AccrualNeverDrops == [][Vested(v', t', t') >= Vested(v, t, t)]_accrual

\* Nothing has vested up to the cliff, everything has from the end on, and in
\* between never more than the time that has passed is worth: a period is never
\* counted before it is over.
AccrualBounded ==
    LET linear == v.vesting_amount * (WeightUnit - v.cliff_weight)
        cliff  == v.vesting_amount * v.cliff_weight
    IN  /\ t =< v.cliff_date => Vested(v, t, t) = 0
        /\ t >= v.end_date => Vested(v, t, t) = v.vesting_amount
        /\ v.cliff_date < t /\ t < v.end_date =>
               Vested(v, t, t) * WeightUnit * (v.end_date - v.cliff_date)
                   =< linear * (t - v.cliff_date) + cliff * (v.end_date - v.cliff_date)
=============================================================================
