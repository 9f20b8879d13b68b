---------------------------- MODULE MCAlgorithms ----------------------------
(***************************************************************************)
(* The pure computations, each against its reference: the calendar day     *)
(* after day, the accrual of a grant instant after instant, and a relay    *)
(* trade after trade.  A behaviour follows one of the three.               *)
(***************************************************************************)
EXTENDS MCCalendar, MCMath, MCExchange

VARIABLE followed

vars == <<calendar, accrual, market, followed>>

\* What the components that are not followed stand at.
NoGrant == [vesting_period |-> Locked, vesting_amount |-> 0,
            cliff_date |-> 0, cliff_weight |-> 0, end_date |-> 1]
NoMarket == [supply |-> Supply, base |-> 1, quote |-> 1]

Init ==
    /\ CalendarInit
    /\ \/ followed = "calendar" /\ v = NoGrant /\ t = 0 /\ market = NoMarket
       \/ followed = "accrual" /\ AccrualInit /\ market = NoMarket
       \/ followed = "market" /\ MarketInit /\ v = NoGrant /\ t = 0

CalendarStep == followed = "calendar" /\ (NextDay \/ Start) /\ UNCHANGED <<accrual, market>>

AccrualStep == followed = "accrual" /\ NextInstant /\ UNCHANGED <<calendar, market>>

MarketStep == followed = "market" /\ (DirectTrade \/ TwoStepTrade) /\ UNCHANGED <<calendar, accrual>>

Next == (CalendarStep \/ AccrualStep \/ MarketStep) /\ UNCHANGED followed

Spec == Init /\ [][Next]_vars
=============================================================================
