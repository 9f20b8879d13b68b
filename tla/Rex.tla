-------------------------------- MODULE Rex ---------------------------------
(***************************************************************************)
(* The actions of the resource exchange (rex.cpp).  Most begin with the    *)
(* maintenance of runrex(2), which may close loans and fill orders of      *)
(* others.                                                                 *)
(***************************************************************************)
EXTENDS SystemContract

CONSTANTS Amounts,           \* of tokens in one action
          RexAmounts,        \* of REX in one action
          MaxExecs           \* the maxima given to rexexec

\* The end of an action of x on w.
Done(w, x) == ResourcesCovered(w) /\ (w.elect # elect => StakeCovered(w, x, now)) /\ Become(w)

\* x deposits tokens in its fund, withdraws them.
Deposit(x, amount) ==
    /\ amount > 0
    /\ Become([Transfer(World, x, rex_account, amount) EXCEPT !.rex = transfer_to_fund(@, x, amount)])

WithdrawFrom(w, x, amount) ==
    /\ CanTransferFromFund(w.rex, x, amount)
    /\ Done([Transfer(w, rex_account, x, amount) EXCEPT !.rex = transfer_from_fund(@, x, amount)], x)

Withdraw(x, amount) ==
    amount > 0 /\ WithdrawFrom(update_rex_account(World, x, 0, 0, FALSE, now), x, amount)

\* REX for a payment, at the price the pool has before its returns come in.
BoughtFrom(r, x, payment, pool, ct) ==
    add_to_rex_balance([r EXCEPT !.pool = pool], x, payment, pool.total_rex - r.pool.total_rex, ct)

Bought(r, x, payment, ct) == BoughtFrom(r, x, payment, add_to_rex_pool(r.pool, payment), ct)

\* What follows a purchase, after which the exchange is r.
BuyRexDone(r, x) ==
    Done(update_rex_account(runrex([World EXCEPT !.rex = r], 2, now),
                            x, 0, VoteStake(r, x) - VoteStake(rex, x), FALSE, now), x)

BuyRex(x, amount) ==
    /\ check_voting_requirement(elect, x)
    /\ CanTransferFromFund(rex, x, amount)
    /\ CanAddToPool(rex)
    /\ BuyRexDone(Bought(transfer_from_fund(rex, x, amount), x, amount, now), x)

\* Staked tokens leave what x has staked for receiver.
Unstaked(row, net, cpu) == [row EXCEPT !.net = @ - net, !.cpu = @ - cpu]

StakeTaken(w, x, receiver, left) ==
    [w EXCEPT !.bw.delband = IF left.net = 0 /\ left.cpu = 0 THEN Erase(@, <<x, receiver>>)
                             ELSE Put(@, <<x, receiver>>, left)]

StakeFreed(w, x, receiver, net, cpu) ==
    Transfer(update_resource_limits(
                 StakeTaken(w, x, receiver, Unstaked(bw.delband[<<x, receiver>>], net, cpu)),
                 receiver, - net, - cpu),
             stake_account, rex_account, net + cpu)

\* Staked tokens become REX.  What add_to_rex_balance says of the change of the
\* vote's stake is not looked at.
UnstakeToRex(x, receiver, net, cpu) ==
    /\ net >= 0 /\ cpu >= 0 /\ net + cpu > 0
    /\ check_voting_requirement(elect, x)
    /\ <<x, receiver>> \in DOMAIN bw.delband
    /\ net =< bw.delband[<<x, receiver>>].net /\ cpu =< bw.delband[<<x, receiver>>].cpu
    /\ CanAddToPool(rex)
    /\ Done(update_rex_account(
                runrex([StakeFreed(World, x, receiver, net, cpu) EXCEPT
                           !.rex = Bought(@, x, net + cpu, now)], 2, now),
                x, 0, 0, TRUE, now), x)

\* An order that cannot be filled waits, together with what x has asked for
\* before and keeping its time.
Queue(r, x, amount) ==
    LET queued == IF x \in DOMAIN r.orders
                  THEN [r.orders[x] EXCEPT !.rex_requested = @ + amount]
                  ELSE [rex_requested |-> amount, is_open |-> TRUE, proceeds |-> 0,
                        stake_change |-> 0, order_time |-> now]
    IN  [r EXCEPT !.orders = Put(@, x, queued)]

Matured(w, x) == [w EXCEPT !.rex.balances[x] = process_rex_maturities(@, now)]

\* A sale ends: x collects what it brought, or its order waits.
SellRexDone(w, x, amount, filled) ==
    /\ SellOrder(w.rex, x) + (IF filled THEN 0 ELSE amount) =< w.rex.balances[x].matured_rex
    /\ Done(IF filled THEN w ELSE [w EXCEPT !.rex = Queue(@, x, amount)], x)

SellRexOutcome(w, x, amount, outcome) ==
    /\ IF outcome.success THEN outcome.proceeds > 0 ELSE x # B1
    /\ SellRexDone(update_rex_account([w EXCEPT !.rex = outcome.rex], x,
                                      outcome.proceeds, outcome.stake_change, FALSE, now),
                   x, amount, outcome.success)

SellRexFrom(w, x, amount) ==
    /\ amount =< w.rex.balances[x].matured_rex
    /\ SellRexOutcome(w, x, amount, fill_rex_order(w.rex, x, amount))

SellRex(x, amount) ==
    /\ rex.pool.exists /\ x \in DOMAIN rex.balances
    /\ amount > 0
    /\ SellRexFrom(Matured(runrex(World, 2, now), x), x, amount)

CnclRexOrder(x) ==
    /\ x \in OpenOrders(rex)
    /\ Become([World EXCEPT !.rex.orders = Erase(@, x)])

\* r after the pool has counted the loan.
AddLoan(r, loan) == [r EXCEPT !.loans = Put(@, r.pool.loan_num, loan)]

RentTokens(w, kind, x, receiver, payment, fund, rented) ==
    /\ payment < rented
    /\ Done(update_resource_limits(
                [w EXCEPT !.rex =
                    AddLoan(add_loan_to_rex_pool(transfer_from_fund(@, x, payment + fund),
                                                 payment, rented, TRUE, now),
                            [kind |-> kind, from |-> x, receiver |-> receiver, payment |-> payment,
                             balance |-> fund, total_staked |-> rented, expiration |-> now + Term])],
                receiver, IF kind = "net" THEN rented ELSE 0, IF kind = "cpu" THEN rented ELSE 0), x)

RentRexFrom(w, kind, x, receiver, payment, fund) ==
    /\ rex_loans_available(w.rex)
    /\ CanTransferFromFund(w.rex, x, payment + fund)
    /\ RentTokens(w, kind, x, receiver, payment, fund, RentedTokens(w.rex.pool, payment))

\* rentcpu, rentnet.
RentRex(kind, x, receiver, payment, fund) ==
    /\ rex.pool.exists
    /\ payment > 0 /\ fund >= 0
    /\ RentRexFrom(runrex(World, 2, now), kind, x, receiver, payment, fund)

\* The loan num of x, of that kind and still running.
IsLoanOf(kind, x, num) ==
    /\ num \in DOMAIN rex.loans
    /\ rex.loans[num].kind = kind /\ rex.loans[num].from = x /\ rex.loans[num].expiration > now

\* r with amount more in the balance of a loan.
LoanFunded(r, num, amount) == [r EXCEPT !.loans[num].balance = @ + amount]

\* fundcpuloan, fundnetloan.
FundLoan(kind, x, num, payment) ==
    /\ CanTransferFromFund(rex, x, payment)
    /\ IsLoanOf(kind, x, num)
    /\ Become([World EXCEPT !.rex = LoanFunded(transfer_from_fund(@, x, payment), num, payment)])

\* defcpuloan, defnetloan.
DefundLoan(kind, x, num, amount) ==
    /\ IsLoanOf(kind, x, num)
    /\ amount > 0 /\ rex.loans[num].balance >= amount
    /\ Become([World EXCEPT !.rex = transfer_to_fund(LoanFunded(@, num, - amount), x, amount)])

\* The REX of x, now worth stake.
Revalued(w, x, stake) ==
    update_rex_account([w EXCEPT !.rex.balances[x].vote_stake = stake], x,
                       0, stake - w.rex.balances[x].vote_stake, TRUE, now)

WorthNow(r, x) == IF r.pool.total_rex > 0 THEN WorthOf(r.pool, r.balances[x].rex_balance) ELSE 0

UpdateRexFrom(w, x) == Done(Matured(Revalued(w, x, WorthNow(w.rex, x)), x), x)

UpdateRex(x) ==
    /\ rex.pool.exists /\ x \in DOMAIN rex.balances
    /\ UpdateRexFrom(runrex(World, 2, now), x)

\* By eosio.
SetRex(balance) ==
    /\ balance > 0 /\ rex.pool.exists
    /\ Become([World EXCEPT !.rex.pool.total_rent = balance])

\* By anybody.
RexExecDone(w) == ResourcesCovered(w) /\ Become(w)

RexExec(max) == rex.pool.exists /\ RexExecDone(runrex(World, max, now))

\* The balance of x after maintenance and settling.
Maintained(x) == update_rex_account(runrex(World, 2, now), x, 0, 0, FALSE, now)

ConsolidateFrom(w, x) ==
    Done([w EXCEPT !.rex.balances[x] = consolidate_rex_balance(@, SellOrder(w.rex, x), now)], x)

Consolidate(x) ==
    /\ rex.pool.exists /\ x \in DOMAIN rex.balances
    /\ ConsolidateFrom(Maintained(x), x)

SaveRex(w, x, order, before, after) ==
    /\ after.matured_rex < before.matured_rex => order =< after.matured_rex
    /\ Done([w EXCEPT !.rex.balances[x] = after], x)

MvToSavingsFrom(w, x, amount, order, balance) ==
    /\ amount + order + balance.savings =< balance.rex_balance
    /\ SaveRex(w, x, order, balance, MoveToSavings(balance, amount))

SettledMvToSavings(w, x, amount) ==
    MvToSavingsFrom(w, x, amount, SellOrder(w.rex, x), process_rex_maturities(w.rex.balances[x], now))

MvToSavings(x, amount) ==
    /\ rex.pool.exists /\ x \in DOMAIN rex.balances
    /\ amount > 0
    /\ SettledMvToSavings(Maintained(x), x, amount)

FromSavings(balance, rex_saved, ct) ==
    [AddMaturity(balance, rex_saved, ct) EXCEPT !.savings = @ - rex_saved]

MvFrSavingsFrom(w, x, amount) ==
    /\ amount =< w.rex.balances[x].savings
    /\ Done(update_rex_account(
                [w EXCEPT !.rex.balances[x] = FromSavings(@, amount, now)], x, 0, 0, FALSE, now), x)

MvFrSavings(x, amount) ==
    /\ rex.pool.exists /\ x \in DOMAIN rex.balances
    /\ amount > 0
    /\ MvFrSavingsFrom(Matured(runrex(World, 2, now), x), x, amount)

\* The fund of x goes if it is empty and x has no loans; REX must be sold first.
Unused(r, x) ==
    /\ x \in DOMAIN r.funds /\ r.funds[x] = 0
    /\ \A n \in DOMAIN r.loans : r.loans[n].from # x

CloseRexFrom(w, x) ==
    /\ x \in DOMAIN w.rex.balances => w.rex.balances[x].rex_balance = 0
    /\ Done([w EXCEPT !.rex.funds = IF Unused(w.rex, x) THEN Erase(@, x) ELSE @,
                      !.rex.balances = Erase(@, x)], x)

CloseRex(x) ==
    CloseRexFrom(update_rex_account(IF rex.pool.exists THEN runrex(World, 2, now) ELSE World,
                                    x, 0, 0, FALSE, now), x)

-----------------------------------------------------------------------------
RexOwnerStep(x) ==
    \/ \E amount \in Amounts :
           Deposit(x, amount) \/ Withdraw(x, amount) \/ BuyRex(x, amount)
    \/ \E amount \in RexAmounts :
           SellRex(x, amount) \/ MvToSavings(x, amount) \/ MvFrSavings(x, amount)
    \/ CnclRexOrder(x)
    \/ UpdateRex(x)
    \/ Consolidate(x)
    \/ CloseRex(x)

RexLoanStep(x, kind) ==
    \/ \E receiver \in Users, payment \in Amounts, fund \in Amounts \cup {0} :
           RentRex(kind, x, receiver, payment, fund)
    \/ \E num \in DOMAIN rex.loans, amount \in Amounts :
           FundLoan(kind, x, num, amount) \/ DefundLoan(kind, x, num, amount)

RexUnstakeStep(x) ==
    \E receiver \in Users, net, cpu \in Amounts \cup {0} : UnstakeToRex(x, receiver, net, cpu)

-----------------------------------------------------------------------------
Balances(r) == {r.balances[x] : x \in DOMAIN r.balances}

HeldBy(balance) ==
    balance.matured_rex + balance.savings + TotalOf(balance.maturities, DOMAIN balance.maturities)

LentBy(r) == Sum(r.loans, "total_staked")

\* The REX of an order that waits is still its owner's, and matured.
OrderCovered ==
    \A x \in OpenOrders(rex) :
        x \in DOMAIN rex.balances /\ rex.orders[x].rex_requested =< rex.balances[x].matured_rex

\* The pool and the tables it sums up agree, whatever was bought, sold, lent,
\* renewed and closed in between, by the owner's own actions or in passing by
\* those of others: lent tokens are those of the loans, REX is that of the
\* owners, and theirs is matured, maturing or saved; no sale, move to savings,
\* consolidation or closing takes it away from under an order.
RexBooks ==
    LET pool == rex.pool
    IN  /\ pool.total_lendable = pool.total_unlent + pool.total_lent
        /\ pool.total_lent = LentBy(rex) /\ pool.total_unlent >= 0
        /\ pool.total_rex = Sum(rex.balances, "rex_balance")
        /\ \A b \in Balances(rex) : b.rex_balance = HeldBy(b) /\ b.matured_rex >= 0 /\ b.savings >= 0
        /\ OrderCovered

\* Tokens of the exchange's account that none of its tables accounts for.
Unaccounted(r, c) ==
    c[rex_account] - (TotalOf(r.funds, DOMAIN r.funds)
                        + Sum(r.loans, "balance")
                        + r.pool.total_lendable + r.ret.proceeds + Sum(r.orders, "proceeds"))

\* Funds, loan balances, lendable tokens, returns on their way and proceeds of
\* filled orders are all there, and no step makes tokens appear in or vanish
\* from them.  One thing does: returns that reach the pool after everybody has
\* sold belong to no one, and the next purchase sets the pool without them.
RexBooksBalance ==
    [][ LET before == Unaccounted(rex, core)
            after  == Unaccounted(rex', core')
        IN  /\ after >= 0
            /\ after = before \/ (after > before /\ ~ rex_available(rex) /\ rex_available(rex'))
      ]_system

\* What is paid into the pool comes out as returns, all of it and in time: the
\* proceeds still to come are what the pending bucket holds and what the started
\* ones have not paid yet.  update_rex_pool computes them from a rate it keeps
\* up to date with the buckets and from a cached time of the oldest.
ReturnsAccounted ==
    LET ret == rex.ret
        left == [b \in DOMAIN rex.buckets |->
                    rex.buckets[b] * (TotalIntervals - Intervals(ret.last_dist_time, b))]
    IN  /\ ret.proceeds = ret.pending_bucket_proceeds + TotalOf(left, DOMAIN rex.buckets)
        /\ ret.current_rate_of_increase = TotalOf(rex.buckets, DOMAIN rex.buckets)
        /\ \A b \in DOMAIN rex.buckets : left[b] >= 0

\* A REX token never loses worth: not by rounding in a purchase or a sale, not
\* by a loan and not by the correction of returns that ran over.
SharePriceNeverFalls ==
    [][ rex_available(rex) /\ rex_available(rex') =>
            rex'.pool.total_lendable * rex.pool.total_rex >= rex.pool.total_lendable * rex'.pool.total_rex
      ]_system

\* An order that waits is filled or cancelled in the end, if the loans that hold
\* its tokens expire: none is made or renewed before.
OrdersFilled ==
    \A x \in Users :
        (/\ x \in OpenOrders(rex)
         /\ \A n \in DOMAIN rex.loans : rex.loans[n].expiration =< Max(Times))
            ~> x \notin OpenOrders(rex)
=============================================================================
