------------------------------ MODULE Exchange ------------------------------
(***************************************************************************)
(* Bancor relays (exchange_state.cpp): the market for RAM, and the prices  *)
(* of REX loans.  Amounts are integers; a quotient in double is the exact  *)
(* quotient, truncated.                                                    *)
(***************************************************************************)
EXTENDS Integers

AtLeastZero(n) == IF n < 0 THEN 0 ELSE n

\* Mutation: the price is that of the reserves before the trade.
flat_output(inp_reserve, out_reserve, inp) == (inp * out_reserve) \div inp_reserve

\* What a relay gives for inp.
get_bancor_output(inp_reserve, out_reserve, inp) ==
    AtLeastZero((inp * out_reserve) \div (inp_reserve + inp))

\* What a relay wants for out; buying the whole reserve has no price (the
\* conversion of an infinite double aborts the transaction).
CanBuy(out_reserve, out) == out # out_reserve

\* Mutation: the price is rounded up.
dear_input(out_reserve, inp_reserve, out) ==
    IF out > out_reserve THEN 0 ELSE (inp_reserve * out) \div (out_reserve - out) + 1

get_bancor_input(out_reserve, inp_reserve, out) ==
    IF out > out_reserve THEN 0 ELSE (inp_reserve * out) \div (out_reserve - out)

\* A relay between base and quote: selling to it from one side gives the other.
SellBase(market, amount) ==
    LET out == get_bancor_output(market.base, market.quote, amount)
    IN  [out |-> out, market |-> [market EXCEPT !.base = @ + amount, !.quote = @ - out]]

SellQuote(market, amount) ==
    LET out == get_bancor_output(market.quote, market.base, amount)
    IN  [out |-> out, market |-> [market EXCEPT !.quote = @ + amount, !.base = @ - out]]

direct_convert(market, side, amount) ==
    IF side = "base" THEN SellBase(market, amount) ELSE SellQuote(market, amount)

-----------------------------------------------------------------------------
(* The two-step conversion through the supply of RAMCORE, of the first     *)
(* release: both reserves have weight 1/2, so pow(_, F) is a square root   *)
(* and pow(_, 1 / F) a square.                                             *)

Root(n) == CHOOSE r \in 0 .. n : r * r =< n /\ n < (r + 1) * (r + 1)

\* S0 * (sqrt(1 + dR / R0) - 1), truncated.
convert_to_exchange(supply, reserve, payment) ==
    LET minted == Root((supply * supply * (reserve + payment)) \div reserve) - supply
    IN  [out |-> minted, supply |-> supply + minted, reserve |-> reserve + payment]

\* R0 * (1 - (1 - dS / S0)^2), truncated.
convert_from_exchange(supply, reserve, tokens) ==
    LET paid == (reserve * (supply * supply - (supply - tokens) * (supply - tokens)))
                    \div (supply * supply)
    IN  [out |-> paid, supply |-> supply - tokens, reserve |-> reserve - paid]

convert(market, side, amount) ==
    LET other == IF side = "base" THEN "quote" ELSE "base"
        into  == convert_to_exchange(market.supply, market[side], amount)
        outof == convert_from_exchange(into.supply, market[other], into.out)
    IN  [out |-> outof.out,
         market |-> [market EXCEPT !.supply = outof.supply,
                                   ![side] = into.reserve, ![other] = outof.reserve]]
=============================================================================
