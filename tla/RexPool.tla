------------------------------ MODULE RexPool -------------------------------
(***************************************************************************)
(* The tables of the resource exchange (rex.cpp) and what its helpers do   *)
(* with them alone, as operators on one record:                            *)
(*   pool, ret          rexpool and rexretpool, at most one row each       *)
(*   buckets            retbuckets: start of a bucket -> its rate          *)
(*   funds, balances, orders     by owner                                  *)
(*   loans              cpuloan and netloan in one: loan_num is unique     *)
(* The savings bucket, the maturity time_point_sec::maximum(), is a field  *)
(* of its own, so that reading it out of the maturities and putting it     *)
(* back needs no operator.                                                 *)
(***************************************************************************)
EXTENDS Exchange, Election

CONSTANTS DistInterval,      \* 10 minutes
          TotalIntervals,    \* of them are 30 days
          BucketInterval,    \* 12 hours
          MaturityDays,      \* 5
          RexRatio,          \* REX for a token, at first
          InitTotalRent,
          Never,             \* time_point_sec::maximum()
          NameValue          \* account -> its name as a number

ASSUME RexAssumption ==
    /\ {DistInterval, TotalIntervals, BucketInterval, RexRatio, InitTotalRent} \subseteq Nat \ {0}
    /\ BucketInterval % DistInterval = 0 /\ MaturityDays \in Nat

Term == TotalIntervals * DistInterval     \* of a loan, and of a bucket of returns

Kinds == {"cpu", "net"}

NoPool == [exists |-> FALSE, total_lent |-> 0, total_unlent |-> 0, total_rent |-> 0,
           total_lendable |-> 0, total_rex |-> 0, namebid_proceeds |-> 0, loan_num |-> 0]

NoReturns == [exists |-> FALSE, last_dist_time |-> 0, pending_bucket_time |-> Never,
              oldest_bucket_time |-> 0, pending_bucket_proceeds |-> 0,
              current_rate_of_increase |-> 0, proceeds |-> 0]

NewBalance == [vote_stake |-> 0, rex_balance |-> 0, matured_rex |-> 0,
               maturities |-> EmptyTable, savings |-> 0]

EmptyRex == [pool |-> NoPool, ret |-> NoReturns, buckets |-> EmptyTable, funds |-> EmptyTable,
             balances |-> EmptyTable, loans |-> EmptyTable, orders |-> EmptyTable]

rex_available(r) == r.pool.exists /\ r.pool.total_rex > 0

OpenOrders(r) == {x \in DOMAIN r.orders : r.orders[x].is_open}

rex_loans_available(r) == rex_available(r) /\ OpenOrders(r) = {}

\* The tokens that rex is worth.
WorthOf(pool, rex) == (rex * pool.total_lendable) \div pool.total_rex

-----------------------------------------------------------------------------
(* Returns: what is paid into the pool is spread over the Term that        *)
(* follows the half day it was paid in.                                    *)

Intervals(t1, t0) == (t1 - t0) \div DistInterval

RateOf(proceeds) == proceeds \div TotalIntervals

\* What buckets pay from the last time until effective: the started ones their
\* rate for each interval, and a pending one whose half day is over what its rate
\* leaves and its rate since then.
PaidUntil(ret, effective) ==
    ret.current_rate_of_increase * Intervals(effective, ret.last_dist_time)
      + (IF ret.pending_bucket_time =< effective
         THEN (ret.pending_bucket_proceeds % TotalIntervals)
                + RateOf(ret.pending_bucket_proceeds)
                    * Intervals(effective, ret.pending_bucket_time)
         ELSE 0)

\* The pending bucket becomes one that pays.
Started(ret, start, rate) ==
    [ret EXCEPT !.oldest_bucket_time = IF start < @ THEN start ELSE @,
                !.current_rate_of_increase = @ + rate,
                !.pending_bucket_time = Never,
                !.pending_bucket_proceeds = 0]

StartBucket(r, start, rate) ==
    [r EXCEPT !.buckets = Put(@, start, rate), !.ret = Started(@, start, rate)]

StartPending(r, effective) ==
    IF r.ret.pending_bucket_time =< effective
    THEN StartBucket(r, r.ret.pending_bucket_time, RateOf(r.ret.pending_bucket_proceeds))
    ELSE r

\* Buckets whose Term is over are looked for only when the cached time of the
\* oldest says so.
Over(r, effective) ==
    {b \in DOMAIN r.buckets : /\ r.ret.oldest_bucket_time =< effective - Term
                              /\ b + Term =< effective}

\* Mutation: what they have paid after their Term is kept.
nothing_taken_back(buckets, over, effective) == 0

\* What they have paid after their Term is taken back.
Surplus(buckets, over, effective) ==
    TotalOf([b \in over |-> buckets[b] * Intervals(effective, b + Term)], over)

Dropped(ret, oldest, rates) ==
    [ret EXCEPT !.oldest_bucket_time = oldest, !.current_rate_of_increase = @ - rates]

DropBuckets(r, over, effective) ==
    IF r.ret.oldest_bucket_time > effective - Term THEN r
    ELSE [r EXCEPT !.buckets = [b \in DOMAIN @ \ over |-> @[b]],
                   !.ret = Dropped(@, IF DOMAIN r.buckets = over THEN 0
                                      ELSE Min(DOMAIN r.buckets \ over),
                                   TotalOf(r.buckets, over))]

\* No more reaches the pool than there are proceeds.
Earned(net, proceeds) == IF net > 0 /\ net > proceeds THEN proceeds ELSE net

Distributed(ret, earned, effective) ==
    [ret EXCEPT !.proceeds = @ - earned, !.last_dist_time = effective]

Earning(pool, earned) ==
    IF earned =< 0 THEN pool
    ELSE [pool EXCEPT !.total_unlent = @ + earned,
                      !.total_lendable = pool.total_unlent + earned + pool.total_lent]

Distribute(r, earned, effective) ==
    [r EXCEPT !.ret = Distributed(@, earned, effective), !.pool = Earning(@, earned)]

\* started is r after its pending bucket has started.
DropAndDistribute(r, started, over, effective) ==
    Distribute(DropBuckets(started, over, effective),
               Earned(PaidUntil(r.ret, effective) - Surplus(started.buckets, over, effective),
                      r.ret.proceeds),
               effective)

DistributeReturns(r, started, effective) ==
    DropAndDistribute(r, started, Over(started, effective), effective)

update_rex_pool_at(r, effective) ==
    IF ~ r.ret.exists \/ effective =< r.ret.last_dist_time THEN r
    ELSE DistributeReturns(r, StartPending(r, effective), effective)

update_rex_pool(r, ct) == update_rex_pool_at(r, ct - (ct % DistInterval))

\* The pending bucket starts to pay with the next half day.
PaidInto(ret, fee, ends) ==
    IF ~ ret.exists
    THEN [NoReturns EXCEPT !.exists = TRUE, !.last_dist_time = ends, !.pending_bucket_time = ends,
                           !.pending_bucket_proceeds = fee, !.proceeds = fee]
    ELSE [ret EXCEPT !.pending_bucket_proceeds = @ + fee, !.proceeds = @ + fee,
                     !.pending_bucket_time = IF @ = Never THEN ends ELSE @]

AddReturn(r, fee, ends) ==
    IF fee =< 0 THEN r ELSE [r EXCEPT !.ret = PaidInto(@, fee, ends)]

add_to_rex_return_pool(r, fee, ct) ==
    AddReturn(update_rex_pool(r, ct), fee, ct - (ct % BucketInterval) + BucketInterval)

-----------------------------------------------------------------------------
(* Shares: REX bought and sold at what the pool is worth.                  *)

CanAddToPool(r) == rex_available(r) => r.pool.total_lendable > 0

\* Mutation: the buyer's REX is rounded up.
add_to_rex_pool_rounded_up(pool, payment) ==
    LET S1 == pool.total_lendable + payment
        R1 == (S1 * pool.total_rex + pool.total_lendable - 1) \div pool.total_lendable
    IN  IF pool.exists /\ pool.total_rex > 0
        THEN [pool EXCEPT !.total_lendable = S1, !.total_rex = R1,
                          !.total_unlent = S1 - pool.total_lent]
        ELSE [pool EXCEPT !.exists = TRUE, !.total_lendable = payment, !.total_lent = 0,
                          !.total_unlent = payment, !.total_rent = InitTotalRent,
                          !.total_rex = payment * RexRatio]

\* The pool after a purchase; a first purchase, and one from an empty pool, sets it.
add_to_rex_pool(pool, payment) ==
    LET S1 == pool.total_lendable + payment
        R1 == (S1 * pool.total_rex) \div pool.total_lendable
    IN  IF pool.exists /\ pool.total_rex > 0
        THEN [pool EXCEPT !.total_lendable = S1, !.total_rex = R1,
                          !.total_unlent = S1 - pool.total_lent]
        ELSE [pool EXCEPT !.exists = TRUE, !.total_lendable = payment, !.total_lent = 0,
                          !.total_unlent = payment, !.total_rent = InitTotalRent,
                          !.total_rex = payment * RexRatio]

get_rex_maturity(ct) == ct - (ct % Day) + MaturityDays * Day

process_rex_maturities(balance, ct) ==
    LET over == {t \in DOMAIN balance.maturities : t =< ct}
    IN  [balance EXCEPT !.matured_rex = @ + TotalOf(balance.maturities, over),
                        !.maturities = [t \in DOMAIN @ \ over |-> @[t]]]

\* rex more in the bucket of today.
AddMaturity(balance, rex, ct) ==
    LET due == get_rex_maturity(ct)
    IN  [balance EXCEPT !.maturities =
            Put(@, due, rex + (IF due \in DOMAIN @ THEN @[due] ELSE 0))]

\* After a purchase: the pool is the new one.
add_to_rex_balance(r, owner, payment, rex, ct) ==
    LET old    == IF owner \in DOMAIN r.balances THEN r.balances[owner] ELSE NewBalance
        total  == old.rex_balance + rex
        worth  == IF owner \in DOMAIN r.balances THEN WorthOf(r.pool, total) ELSE payment
        bought == process_rex_maturities([old EXCEPT !.rex_balance = total, !.vote_stake = worth], ct)
    IN  [r EXCEPT !.balances = Put(@, owner, AddMaturity(bought, rex, ct))]

VoteStake(r, owner) == IF owner \in DOMAIN r.balances THEN r.balances[owner].vote_stake ELSE 0

\* Mutation: the REX of an order that waits matures again.
consolidate_ordered_too(balance, rex_in_sell_order, ct) ==
    LET total == balance.matured_rex + TotalOf(balance.maturities, DOMAIN balance.maturities)
        one   == [balance EXCEPT !.matured_rex = 0, !.maturities = EmptyTable]
    IN  IF total > 0 THEN AddMaturity(one, total, ct) ELSE one

consolidate_rex_balance(balance, rex_in_sell_order, ct) ==
    LET total == balance.matured_rex - rex_in_sell_order
                   + TotalOf(balance.maturities, DOMAIN balance.maturities)
        one   == [balance EXCEPT !.matured_rex = rex_in_sell_order, !.maturities = EmptyTable]
    IN  IF total > 0 THEN AddMaturity(one, total, ct) ELSE one

\* rex moves to savings from the bucket that matures last, then from the one
\* before, and from what has matured at the end.
MoveToSavings(balance, rex) ==
    LET later(t) == {u \in DOMAIN balance.maturities : u > t}
        taken == [t \in DOMAIN balance.maturities |->
                     LET left == Positive(rex - TotalOf(balance.maturities, later(t)))
                     IN  IF left < balance.maturities[t] THEN left ELSE balance.maturities[t]]
        rest  == rex - TotalOf(taken, DOMAIN taken)
        kept  == {t \in DOMAIN taken : taken[t] < balance.maturities[t]}
    IN  [balance EXCEPT !.maturities = [t \in kept |-> @[t] - taken[t]],
                        !.matured_rex = @ - rest, !.savings = @ + rex]

\* What selling rex of owner comes to, if the tokens that are not lent (but for
\* a tenth of the lent ones) pay for it.
ProceedsOf(pool, rex) == WorthOf(pool, rex)

CanFill(pool, rex) == ProceedsOf(pool, rex) =< pool.total_unlent - pool.total_lent \div 10

Redeemed(pool, rex, lendable) ==
    [pool EXCEPT !.total_rex = @ - rex, !.total_lendable = lendable,
                 !.total_unlent = lendable - pool.total_lent]

Sold(balance, rex, stake) ==
    [balance EXCEPT !.vote_stake = stake, !.rex_balance = @ - rex, !.matured_rex = @ - rex]

fill_rex_order(r, owner, rex) ==
    LET proceeds == ProceedsOf(r.pool, rex)
        balance  == r.balances[owner]
        stake    == WorthOf(r.pool, balance.rex_balance) - proceeds
        lendable == r.pool.total_lendable - proceeds
    IN  IF ~ CanFill(r.pool, rex)
        THEN [success |-> FALSE, proceeds |-> 0, stake_change |-> 0, rex |-> r]
        ELSE [success |-> TRUE, proceeds |-> proceeds, stake_change |-> stake - balance.vote_stake,
              rex |-> [r EXCEPT !.pool = Redeemed(@, rex, lendable),
                                !.balances[owner] = Sold(@, rex, stake)]]

\* A queued order: filled, it waits for its owner with what it brought.
CloseOrder(outcome, owner) ==
    IF ~ outcome.success THEN outcome.rex
    ELSE [outcome.rex EXCEPT !.orders[owner] =
             [@ EXCEPT !.is_open = FALSE, !.proceeds = outcome.proceeds,
                       !.stake_change = outcome.stake_change]]

FillQueued(r, owner) ==
    CloseOrder(fill_rex_order(r, owner, r.orders[owner].rex_requested), owner)

\* The open order that n others came before.
QueuedAt(r, n) ==
    LET Earlier(x, y) == \/ r.orders[x].order_time < r.orders[y].order_time
                         \/ /\ r.orders[x].order_time = r.orders[y].order_time
                            /\ NameValue[x] < NameValue[y]
    IN  CHOOSE x \in OpenOrders(r) : Cardinality({y \in OpenOrders(r) : Earlier(y, x)}) = n

\* Orders are looked at in the order they came in, the first max of them; one
\* that cannot be filled does not hold up the next.
FillOrders(r, max) ==
    LET queued == Cardinality(OpenOrders(r))
        after[n \in Nat] == IF n = 0 THEN r ELSE FillQueued(after[n - 1], QueuedAt(r, n - 1))
    IN  after[IF max < queued THEN max ELSE queued]

-----------------------------------------------------------------------------
(* Funds and loans.                                                        *)

CanTransferFromFund(r, owner, amount) ==
    amount > 0 /\ owner \in DOMAIN r.funds /\ amount =< r.funds[owner]

transfer_from_fund(r, owner, amount) == [r EXCEPT !.funds[owner] = @ - amount]

transfer_to_fund(r, owner, amount) ==
    [r EXCEPT !.funds = Put(@, owner, amount + (IF owner \in DOMAIN @ THEN @[owner] ELSE 0))]

CollectInFund(r, owner, amount) ==
    IF amount > 0 THEN transfer_to_fund(r, owner, amount) ELSE r

\* Tokens lent for a payment, at the price of the pool.
RentedTokens(pool, payment) == get_bancor_output(pool.total_rent, pool.total_unlent, payment)

Lent(pool, payment, rented_tokens, new_loan) ==
    [pool EXCEPT !.total_rent = @ + payment, !.total_unlent = @ - rented_tokens,
                 !.total_lent = @ + rented_tokens,
                 !.loan_num = @ + (IF new_loan THEN 1 ELSE 0)]

add_loan_to_rex_pool(r, payment, rented_tokens, new_loan, ct) ==
    [add_to_rex_return_pool(r, payment, ct) EXCEPT
        !.pool = Lent(@, payment, rented_tokens, new_loan)]

remove_loan_from_rex_pool(pool, loan) ==
    [pool EXCEPT
        !.total_rent = @ - get_bancor_output(pool.total_unlent, pool.total_rent, loan.total_staked),
        !.total_unlent = @ + loan.total_staked,
        !.total_lent = @ - loan.total_staked,
        !.total_lendable = pool.total_unlent + pool.total_lent]

\* The loan of a kind that has expired first; loans that expire together go by
\* their number.
Expired(r, kind, ct) ==
    {n \in DOMAIN r.loans : r.loans[n].kind = kind /\ r.loans[n].expiration =< ct}

FirstExpired(r, kind, ct) ==
    CHOOSE n \in Expired(r, kind, ct) : \A k \in Expired(r, kind, ct) \ {n} :
        \/ r.loans[n].expiration < r.loans[k].expiration
        \/ r.loans[n].expiration = r.loans[k].expiration /\ n < k

\* Mutation: the payment is not taken from the balance.
renew_unpaid(loan, rented_tokens) ==
    [loan EXCEPT !.total_staked = rented_tokens, !.expiration = @ + Term]

update_renewed_loan(loan, rented_tokens) ==
    [loan EXCEPT !.total_staked = rented_tokens, !.expiration = @ + Term, !.balance = @ - loan.payment]

\* Mutation: a loan is renewed although somebody waits to sell.
renewable_before_orders(r, loan, rented_tokens) ==
    loan.payment =< loan.balance /\ loan.payment < rented_tokens

\* The balance covers the payment, renting still pays and nobody waits to sell.
Renewable(r, loan, rented_tokens) ==
    /\ loan.payment =< loan.balance
    /\ loan.payment < rented_tokens
    /\ rex_loans_available(r)

\* Mutation: what a renewed loan is larger or smaller by is not passed on.
renew_quietly(r, num, loan, rented_tokens, ct) ==
    [rex |-> [add_loan_to_rex_pool(r, loan.payment, rented_tokens, FALSE, ct) EXCEPT
                 !.loans[num] = update_renewed_loan(@, rented_tokens)],
     delta_stake |-> 0]

RenewLoan(r, num, loan, rented_tokens, ct) ==
    [rex |-> [add_loan_to_rex_pool(r, loan.payment, rented_tokens, FALSE, ct) EXCEPT
                 !.loans[num] = update_renewed_loan(@, rented_tokens)],
     delta_stake |-> rented_tokens - loan.total_staked]

\* What is left of its balance goes back to the fund it came from.
CloseLoan(r, num, loan) ==
    [rex |-> CollectInFund([r EXCEPT !.loans = Erase(@, num)], loan.from, loan.balance),
     delta_stake |-> - loan.total_staked]

RenewOrClose(r, num, loan, rented_tokens, ct) ==
    IF Renewable(r, loan, rented_tokens)
    THEN RenewLoan(r, num, loan, rented_tokens, ct)
    ELSE CloseLoan(r, num, loan)

AfterReturn(r, num, loan, ct) ==
    RenewOrClose(r, num, loan, RentedTokens(r.pool, loan.payment), ct)

\* An expired loan: its tokens are back in the pool when it is renewed or closed.
process_expired_loan(r, num, ct) ==
    AfterReturn([r EXCEPT !.pool = remove_loan_from_rex_pool(@, r.loans[num])],
                num, r.loans[num], ct)
=============================================================================
