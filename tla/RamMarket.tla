----------------------------- MODULE RamMarket ------------------------------
(***************************************************************************)
(* RAM bought and sold against a relay (delegate_bandwidth.cpp), whose     *)
(* supply eosio raises at once or by the block (eosio.system.cpp).         *)
(***************************************************************************)
EXTENDS SystemContract

CONSTANTS Payments,          \* of buyram
          Bytes,             \* of buyrambytes and sellram
          Rates,             \* of setramrate
          RamSizes,          \* of setram
          RamWrap            \* 2^32: RAM of one update_ram_supply

VARIABLE ram                 \* the row of rammarket; max_ram_size, what of it is
                             \* reserved (total_ram_bytes_reserved), the tokens paid
                             \* for that (total_ram_stake), and the rate of new RAM

\* init: the relay starts with all RAM and a thousandth of the tokens.
init(max_ram_size, supply, ct) ==
    [base |-> max_ram_size, quote |-> supply \div 1000, max_ram_size |-> max_ram_size,
     reserved |-> 0, stake |-> 0, new_ram_per_block |-> 0, last_ram_increase |-> ct]

update_ram_supply(r, ct) ==
    LET new_ram == ((ct - r.last_ram_increase) * r.new_ram_per_block) % RamWrap
    IN  IF ct =< r.last_ram_increase THEN r
        ELSE [r EXCEPT !.max_ram_size = @ + new_ram, !.base = @ + new_ram, !.last_ram_increase = ct]

Relay(r) == [base |-> r.base, quote |-> r.quote]

\* Half a percent, rounded up.
Fee(amount) == (amount + 199) \div 200

\* The limit follows the RAM of x, unless it is managed.
SetRamLimit(w, x) ==
    IF "ram" \in Managed(w.elect, x) THEN w
    ELSE [w EXCEPT !.bw.limits[x].ram = w.bw.userres[x].ram + ram_gift_bytes]

\* bytes more for x (sold ones are negative, and leave the row, be it empty).
HoldRam(w, x, bytes) ==
    LET row == Resources(w.bw, x)
    IN  SetRamLimit([w EXCEPT !.bw.userres = Put(@, x, [row EXCEPT !.ram = row.ram + bytes])], x)

PayFee(w, x, fee) == channel_to_rex(Transfer(w, x, ramfee_account, fee), ramfee_account, fee, now)

\* The relay has given bytes_out for quant (negative: has taken and paid).
trade(r, quant, bytes_out, market) ==
    [r EXCEPT !.base = market.base, !.quote = market.quote,
              !.reserved = @ + bytes_out, !.stake = @ + quant]

BuyRam(payer, receiver, quant) ==
    LET after == quant - Fee(quant)
        grown == update_ram_supply(ram, now)
        sale  == direct_convert(Relay(grown), "quote", after)
        paid  == PayFee(Transfer(World, payer, ram_account, after), payer, Fee(quant))
    IN  /\ quant > 0 /\ after > 0
        /\ sale.out > 0
        /\ ram' = trade(grown, after, sale.out, sale.market)
        /\ Become(HoldRam(paid, receiver, sale.out))

\* The price is that of the relay as it is before it grows.
BuyRamBytes(payer, receiver, bytes) ==
    LET cost == get_bancor_input(ram.base, ram.quote, bytes)
    IN  CanBuy(ram.base, bytes) /\ BuyRam(payer, receiver, (cost * 200) \div 199)

SellRam(x, bytes) ==
    LET grown == update_ram_supply(ram, now)
        sale  == direct_convert(Relay(grown), "base", bytes)
        sold  == trade(grown, - sale.out, - bytes, sale.market)
        paid  == Transfer(HoldRam(World, x, - bytes), ram_account, x, sale.out)
    IN  /\ bytes > 0
        /\ x \in DOMAIN bw.userres /\ bw.userres[x].ram >= bytes
        /\ sale.out > 1
        /\ sold.stake >= 0
        /\ ram' = sold
        /\ Become(PayFee(paid, x, Fee(sale.out)))

SetRam(max_ram_size) ==
    /\ ram.max_ram_size < max_ram_size /\ max_ram_size > ram.reserved
    /\ ram' = [ram EXCEPT !.base = @ + max_ram_size - ram.max_ram_size, !.max_ram_size = max_ram_size]
    /\ UNCHANGED system

SetRamRate(bytes_per_block) ==
    /\ ram' = [update_ram_supply(ram, now) EXCEPT !.new_ram_per_block = bytes_per_block]
    /\ UNCHANGED system

-----------------------------------------------------------------------------
RamStep(x) ==
    \/ \E receiver \in Users : \/ \E quant \in Payments : BuyRam(x, receiver, quant)
                               \/ \E bytes \in Bytes : BuyRamBytes(x, receiver, bytes)
    \/ \E bytes \in Bytes : SellRam(x, bytes)

RamSupplyStep ==
    \/ \E size \in RamSizes : SetRam(size)
    \/ \E rate \in Rates : SetRamRate(rate)

-----------------------------------------------------------------------------
\* All RAM is on the relay or reserved, reserved RAM is that of the accounts,
\* and the tokens paid for it are there.
RamBooks ==
    /\ ram.base + ram.reserved = ram.max_ram_size
    /\ ram.reserved = TotalOf([x \in DOMAIN bw.userres |-> bw.userres[x].ram], DOMAIN bw.userres)
    /\ ram.stake = core[ram_account]

\* Whoever holds RAM can sell it, however its size is raised between trades and
\* whoever buys for whom: the tokens paid cover what the relay would give for all
\* of it at once, so "attempt to unstake more tokens than previously staked" is
\* never reached, although RAM gets cheaper each time its size is raised.
RamSolvent ==
    RamBooks /\ get_bancor_output(ram.base, ram.quote, ram.reserved) =< ram.stake
=============================================================================
