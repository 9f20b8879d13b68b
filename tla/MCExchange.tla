----------------------------- MODULE MCExchange -----------------------------
(***************************************************************************)
(* A relay of Exchange under any sequence of small trades in either        *)
(* direction, through both conversions.                                    *)
(***************************************************************************)
EXTENDS Exchange

CONSTANTS Reserves,      \* what a side may hold at first
          Supply,        \* of RAMCORE
          TradeSizes,
          MaxReserve     \* trades stop where a side would exceed it

ASSUME MarketAssumption ==
    /\ Reserves \subseteq Nat \ {0} /\ Supply \in Nat \ {0} /\ TradeSizes \subseteq Nat \ {0}

VARIABLE market

Sides == {"base", "quote"}

MarketInit == \E base, quote \in Reserves :
    market = [supply |-> Supply, base |-> base, quote |-> quote]

Trade(after) == after.base =< MaxReserve /\ after.quote =< MaxReserve /\ market' = after

DirectTrade ==
    \E side \in Sides, amount \in TradeSizes :
        Trade(direct_convert(market, side, amount).market)

TwoStepTrade ==
    \E side \in Sides, amount \in TradeSizes :
        Trade(convert(market, side, amount).market)

MarketSpec == MarketInit /\ [][DirectTrade \/ TwoStepTrade]_market

-----------------------------------------------------------------------------
\* No trade, in whatever size, direction and conversion, takes more out of the
\* relay than the price allows: the product of the reserves never falls, so no
\* sequence of trades that comes back to one side's balance costs the other.
ProductNeverFalls == [][market'.base * market'.quote >= market.base * market.quote]_market

\* What buyrambytes pays never buys more bytes than were asked for, and the
\* two-step conversion never pays more than the direct one that replaced it.
PricesAgree ==
    /\ \A bytes \in 1 .. market.base - 1 :
           LET cost == get_bancor_input(market.base, market.quote, bytes)
           IN  get_bancor_output(market.quote, market.base, cost) =< bytes
    /\ \A side \in Sides, amount \in TradeSizes :
           convert(market, side, amount).out =< direct_convert(market, side, amount).out
=============================================================================
