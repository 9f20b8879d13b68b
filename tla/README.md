# A model of the eos-vesting contract

The repository holds `cmkryvesting`, an EOSIO contract that keeps tokens for an
administrator and releases them to beneficiaries over time; the header library
`eosdt` it is written with; and a copy of the system contracts a test chain is
booted with, of which `eosio.token` is the one the vesting contract works
through. This directory models the contract, its calendar and arithmetic, the
token ledgers, the multisignature contract `eosio.msig` and the system contract
`eosio.system` (votes, stakes, markets, auctions, pay) in TLA+, checks them with
TLC and proves most of the safety properties with TLAPS.

Contents: [inventory](#inventory), [plan](#plan), [modules](#modules-and-code),
[abstractions](#abstractions), [runs](#runs), [fairness](#fairness),
[proofs](#proofs), [findings](#findings), [what is left out](#not-modelled).

## Inventory

| component | state | operations | how it interacts |
|---|---|---|---|
| cmkryvesting assets (`assets.cpp`) | `cmkassets`: per symbol the token contract, `asset_balance` (what is held), `unallocated_balance` (what is not promised) | `addasset`, `deposit`, `withdraw`, `assets_move_balance` | reads the live balance of the account from the token contract; `withdraw` sends an inline transfer |
| transfers (`transfers.cpp`) | none | `on_transfer` | notified by every token contract, whichever it is, of transfers from or to the account |
| vestings (`vestings.cpp`) | `cmkvestings`: per id a grant | `addvesting`, `assert_dates`, `removevesting` | takes from `unallocated_balance` |
| pauses (`pause.cpp`) | status, `pause_start`, `pause_time` of a grant | `pausevesting`, `unpausevestng`, `setpausetime`, `now_fixed_by_pause` | give each grant a clock of its own |
| cancels (`cancel.cpp`) | amount, end, status | `cancelvesting` | returns what has not vested to `unallocated_balance` |
| claims (`claims.cpp`) | `vested_amount`, status | `claim` | inline transfer to the beneficiary, both books |
| calculation (`calculation.cpp`) | none | `calc_vesting_percent` and helpers | used by claim, cancel and addvesting |
| eosdt (`eosdt/*.hpp`) | none | `tm_get`, `day_of_week`, `op_mul_div`, `balance_get_by_ctract`, `max_supply_get_by_ctract`, `trans_by_ctract`, `time_get` | library of the contract |
| eosio.token | `stat` and `accounts`, per contract | `create`, `issue`, `retire`, `transfer`, `open`, `close` | notifies sender and receiver of a transfer |
| eosio.msig | `proposal`, `approvals2`, the older release's `approvals`, `invals` | `propose`, `approve`, `unapprove`, `cancel`, `exec`, `invalidate` | asks the chain whether levels authorize a transaction, hands it transactions to run later; any account with shared control, the administrator's too, can act through it |
| eosio.system voting (`voting.cpp`) | `voters`, `producers`, `producers2`, sums of votes, of activated stake and of vote-pay shares | `voteproducer`, `regproxy`, `regproducer`, `unregprod`, `rmvproducer` | a stake, in whatever form, is a vote: staking and REX call `update_voting_power`, votes change the shares that pay is divided by |
| staking and limits (`delegate_bandwidth.cpp`, `eosio.system.cpp`) | `delband`, `userres`, `refunds`, the limits of the chain, refund transactions | `delegatebw`, `undelegatebw`, `refund`, `setalimits`, `setacctram`, `setacctnet`, `setacctcpu` | limits are what is staked, plus what is rented, plus RAM, plus a gift, unless an account is managed |
| RAM market (`delegate_bandwidth.cpp`) | `rammarket`, bytes reserved, `userres.ram_bytes` | `init`, `buyram`, `buyrambytes`, `sellram`, `setram`, `setramrate` | trades through the exchange; its fees go to REX |
| exchange (`exchange_state.cpp`) | a relay's supply and two reserves | `direct_convert`, `convert`, `get_bancor_output`, `get_bancor_input` | RAM prices, REX rents |
| resource exchange (`rex.cpp`) | `rexpool`, `rexretpool`, `retbuckets`, `rexbal`, `rexfund`, `rexqueue`, loans | 19 actions, `runrex` before most of them | rents resources, pays out what fees and names bring, is a vote stake |
| name auctions (`name_bidding.cpp`) | `namebids`, `bidrefunds`, refund transactions | `bidname`, `bidrefund`; the close of an auction a day in `onblock`; `newaccount` | the price of a closed auction goes to REX |
| producer pay (`producer_pay.cpp`) | buckets, unpaid blocks, times of claims, `last_pervote_bucket_fill` | `onblock`, `claimrewards`, `setinflation`, `updtrevision` | updates the schedule, reads the shares voting keeps |
| eosio.system administration, eosio.wrap, eosio.bios | hashes, or none | their own | not modelled |

Who acts: the administrator (whoever holds the key of the contract's account)
signs every action but `claim`; a beneficiary signs `claim`; anybody transfers
tokens to the account; token issuers act on the ledgers without the contract
being told; time passes.

What is hard here, and hard to test:

- two books per symbol, a table of grants and a balance in another contract are
  moved by five handlers in separate amounts, and nothing in the code ties them
  together;
- the order of pausing, unpausing, claiming, cancelling and time passing, each
  of which changes what the others compute;
- a deposit is booked in a notification of a contract that may not be the one
  the symbol was registered with;
- truncating divisions, periods rounded up and down, months counted on a
  calendar that is a closed formula, a 32-bit clock;
- something that must eventually happen: a beneficiary must be able to get
  everything in the end;
- proposals that are cancelled and made anew under the same name, approvals that
  are taken back or invalidated while others come in, and expire, over rows in
  four tables of two releases;
- in the system contract, one token is at once a stake, a vote along a chain of
  proxies, a resource limit and part of a producer's pay, each in a row and in
  running sums that are moved by differences: a difference that is dropped stays
  for ever;
- caches that age: when a bucket of returns expires, when a share stops to grow,
  which REX has matured, what the last update of a rate was;
- deferred refunds that are scheduled, replaced and cancelled while their rows
  change, in staking and in auctions;
- queues (sell orders) and loans that compete for the same tokens, in the
  maintenance that other actions run in passing.

There is no concurrency inside a transaction and no crash to recover from: EOSIO
runs actions one after the other and reverts the whole transaction when a check
fails. Interleaving is that of transactions of different actors, and that is
what `Next` is.

What makes each component correct: the books are covered by the balance
(`Backed`), agree with the grants (`Conservation`) and only lose what is paid
(`BooksFollowPayments`); ids name one grant (`IdsNeverReused`); settled grants
stay settled (`SettledStays`); a grant's clock stands during a pause
(`PausedClockStands`) and never goes back (`ClockNeverBack`); a cancel takes
nothing that has vested (`CancelKeepsVested`); nobody is overpaid
(`PaidWithinGrant`), everybody is paid (`PaidAtTheEnd`); accrual is monotone and
never ahead of time (`AccrualNeverDrops`, `AccrualBounded`); dates and months are
right (`TmGetRight`, `MonthsCounted`); token supplies are what holders hold
(`SuppliesMatch`). The abstract statement of it all is `Escrow`. For eosio.msig: a
proposal and its approvals come and go together (`TablesMatch`), the levels asked
for are never lost or doubled (`AskedForStays`), an approval with a hash counts
for that transaction only (`SignedAsRead`), what is withdrawn does not count
(`WithdrawalCounts`), and what is executed had the consent it needs; the abstract
statement is `Consent`. For eosio.system: the votes of producers and proxies are
the sums of what their voters' stakes weigh (`VotesAddUp`), proxies make no cycle
(`NoProxyCycle`); a voter's stake is what is staked, lent and being sold
(`StakedAddsUp`), every stake and refund has its tokens (`StakeBacked`), resources
and limits are what was staked, bought and rented (`ResourcesAddUp`); RAM can be
sold back (`RamSolvent`), no trade takes out more than its price (`ProductNeverFalls`,
`PricesAgree`); the REX of everybody is all the REX there is and its tokens are there
(`RexBooks`, `RexBooksBalance`), what comes in is paid out once (`ReturnsAccounted`),
a share never loses worth (`SharePriceNeverFalls`), an order is filled in the end
(`OrdersFilled`); buckets cover what may be claimed (`PayBacked`) and shares are
divided exactly (`SharesAddUp`); bids and refunds have their tokens (`NamesBacked`), no
bidder loses one (`BiddersWhole`), whoever is outbid is paid back (`OutbidPaid`).

## Plan

Done, in this order: `MultiIndex`, `Token`, `Calendar`, `VestingMath`, `Vesting`
(the core), `CarefulVesting` and `Escrow` (the abstract specification it is shown
to implement), the MC modules, then `Sums` and the proofs of the core; `Multisig` and
`Consent` (its abstract specification). Then the system contract: `Exchange`,
`Election`, `RexPool` and `SystemContract` (tables and what one part calls of
another), `Rex`, `Bandwidth`, `Voting`, `RamMarket`, `NameAuction` and `ProducerPay`
(the actions), composed in `System`, of which `MCMarkets` and `MCGovernance` check
scenarios. Then the proofs: `MultisigProofs` for `eosio.msig`, `AlgorithmsProofs` for
calendar, accrual and exchange, `VestingProofs` up to the refinement of `Escrow`
under a careful administrator, `SystemProofs` for the RAM market, stakes and
auctions, `RexProofs` for the resource exchange, and `AccountProofs` for votes and for what
accounts may use.

Left: proofs of `SharesAddUp` and `PayBacked`, for which the tally of `AccountProofs` is the
beginning (see [below](#only-model-checked)).

## Modules and code

| module | models | notes |
|---|---|---|
| `MultiIndex` | `eosio::multi_index`, from its uses | a table is a function from primary keys to rows |
| `Token` | `eosio.token.cpp` | one action per action of the contract; the row key starts with the contract, since several contracts may run this code |
| `Calendar` | `eosdt.hpp` 113-145, `utils.hpp` | the formulas as written; the chain of `mm()` calls is "the month whose days these are" |
| `VestingMath` | `calculation.cpp`, the sums of `claims.cpp` 15-27 and `cancel.cpp` 20-34, `now_fixed_by_pause` | pure operators |
| `Vesting` | all actions of `cmkryvesting` with the transfers they send and receive | the component that composes everything |
| `CarefulVesting` | the same, the administrator restricted to what messages and comments of the code ask for | fairness, liveness, refinement |
| `Escrow` | what the contract promises, without dates | abstract |
| `Multisig` | `eosio.msig.cpp`, all actions | the chain it runs on (authorization, deferred transactions, blocks) is external |
| `Consent` | what proposals promise, without lists, times and releases | abstract |
| `Exchange` | `exchange_state.cpp`, `get_bancor_output` and `get_bancor_input` | pure operators; `pow` is the truncated root or square |
| `Election` | the tables and helpers of `voting.cpp` | pure operators over one record, `e`; propagation along proxies is a recursive function of the chain |
| `RexPool` | the tables and helpers of `rex.cpp` | pure operators over one record, `r`: returns, buckets, maturities, loans, orders |
| `SystemContract` | what the parts share: core balances, limits, `update_voting_power`, `update_resource_limits`, `runrex`, fees to REX | a helper takes a world and returns the next |
| `Rex`, `Bandwidth`, `Voting`, `RamMarket` | the actions of REX, staking and limits, votes, RAM | |
| `NameAuction`, `ProducerPay` | auctions, and `onblock` with pay | `ProducerPay` extends `NameAuction`, as `onblock` closes an auction |
| `System` | all of eosio.system, from the launch on | one step per action of a user, of `eosio` or of the chain; what the theorems are about |
| `Sums` | the sum that compares books with grants | recursion as a function, so that it can be proved about |
| `MCVesting`, `MCCareful`, `MCFindings` | constants for TLC, the findings | |
| `MCMath`, `MCCalendar` | drivers for the pure operators: every instant of a grant, every day of 130 years | the reference calendar counts days by the Gregorian rules |
| `MCMultisig` | constants, and which hash each approver gave | `signed` is a history variable: it records and restrains nothing |
| `MCExchange`, `MCAlgorithms` | a relay under any trades; it together with `MCMath` and `MCCalendar` as one machine with one part per initial state | |
| `MCGovernance`, `MCMarkets` | constants and scenarios of the system contract | an initial state fixes the scenario, which says what may happen; the steps are steps of `System` |
| `SumsProofs` | sums, products and quotients | lemmas the others share |
| `VestingMathProofs`, `VestingProofs` | theorems of accrual and of the vesting contract | see [proofs](#proofs) |
| `MultisigProofs` | theorems of eosio.msig | |
| `AlgorithmsProofs` | theorems of calendar, accrual and exchange | |
| `SystemProofs`, `RexProofs`, `AccountProofs` | theorems of eosio.system | each builds on the one before |

Actions and operators have the names of the code's functions. A few are worth
explaining:

- `MoveBalance` is `assets_move_balance` with all five assertions, the two
  comparisons with the live balance first, and the two range checks of
  `asset::operator+=`.
- `Transfer` is a token transfer together with `on_transfer`. The handler runs
  with the authorities of the transfer's signers (`signers`), because `deposit`
  calls `require_auth(_self)`; it sees the balance after the transfer
  (`accounts'`).
- `Claim` and `Withdraw` contain the inline transfer they send. It runs after the
  handler, so `assets_move_balance` sees the balance before it; its notification
  comes back to the contract as sender and only prints. When it fails, the whole
  transaction is reverted, so its checks are guards. `PayOut` is
  `trans_by_ctract`, which sends nothing for a quantity that is not positive.
- `AddVesting` ends with `calc_vesting_percent`, only to print it, but its
  assertion `start < end` can abort the action; that is the guard
  `cliff_date < end`. It leaves `pause_time` unset in the code; `NewPauseTimes`
  is the set of values it may then have.
- `CancelVesting` counts periods up to `cancel_start` but tests the cliff against
  now, as the code does (`Vested(v, cancel_start, FixedNow(id))`); a cancel
  before the cliff with a `cancel_start` after it drops the cliff part.
- `Propose`, `Approve` and the other actions of `Multisig` are the contract's, with
  every row they touch; `EraseApprovals` is the end of `cancel` and, inlined, of
  `exec`. `Provide` and `TakeBack` move the first entry of a level, as
  `std::find` finds it.
- The handlers of the system contract chain helpers that change several tables. An
  action is a chain of worlds: a helper operator whose parameter is the world
  after the previous call (`WithdrawFrom(update_rex_account(World, ...), x, amount)`),
  ending in `Become`, which makes the last one the new state. What the code checks
  on the way is a conjunct there (`ResourcesCovered`, `StakeCovered`); `Solvent`
  says that the inline transfers found their tokens. Actions of the exchange end with `Done`,
  which looks at the stake only when the election has changed; an update that the code is
  told to make anyway checks it always, so with a stake below zero already the model allows more.
- `runrex` closes loans and fills orders of others, at most as many as it is told,
  and moves returns first, as the code does; loans of net and of cpu are two kinds
  of one table.
- The refund transactions of staking (`deferred`) and of auctions (`paybacks`) are
  kept as what the chain has scheduled: scheduled, replaced and cancelled by the
  handlers, run by the chain from their time on.
- `OnBlock` is the whole of `onblock`: counting the block, updating the schedule
  and, once a day, closing the highest bid.
- `TimeMove` exists because `defines.hpp` defines `TESTNET`, with which
  `time_get` adds a shift another contract keeps.

## Abstractions

- A symbol stands for code and precision, since every entry point compares both.
- `start_date` is dropped after the checks of `addvesting`: nothing reads it.
- Time is in ticks, `SecondsPerDay` of them a day (86400 in the code); the
  proofs hold for any number. `TimeWrap` is 2^32.
- A cliff weight is a fraction of `WeightUnit`. The code multiplies and divides
  in 128-bit floats and truncates; for weights that are dyadic fractions the
  result is the integer quotient used here. What a weight such as 0.1 rounds to
  in the last unit is not modelled.
- A grant of zero periods makes the code divide zero by zero and build an asset
  from what the NaN converts to, which the asset's range check refuses:
  `CanCalc` is false.
- A packed transaction of a proposal, and so its hash, is a model value with an
  expiration. `Sufficient` gives the sets of levels that authorize it; more levels
  always authorize as well. The lists of levels keep their order and repetitions.
  The times of requested approvals are left out, since nothing reads them.
- The weight of a vote, a double in the code, is the stake times `WeightAt`, which
  grows with time as `stake2vote` does. Its values are even, so that sums are exact
  and no change but zero is below the 1 that `propagate_weight_change` ignores. What
  rounding of doubles does to the sums is not modelled.
- Integer quotients stand for the products and quotients in doubles of producer
  pay and vote-pay shares; inflation is a function (`ContinuousRate`) by value.
- Blocks are looked at at a few instants (`Times`), all after the first `Term` of
  a loan or a maturity, since the code subtracts those from the time.
  `DistInterval`, `BucketInterval`, `Day`, `TotalIntervals`, `MaturityDays` are the
  intervals of `rex.cpp` in these ticks; `Seats` is the 21 of a schedule, 1 in the
  runs, so that two producers compete.
- Savings are a field of a balance rather than a last maturity far in the future.
- Bounds of the instances: `MaxVestings` (ids), `MaxPauseTime`, and the finite
  sets `Times`, `Dates`, `Quantities`, `Periods`, `Weights`. The proofs assume
  only their types (`VestingAssumption`).

## Runs

Two accounts, the contract's and one that issues, holds and earns tokens, are
enough for every order of the handlers: no handler compares two beneficiaries.
An amount of 1 or 2 with a cliff of one half makes every division round.
`CHECK_DEADLOCK FALSE` everywhere: clocks and ids are bounded, so the instances
do end.

| run | checks | bounds and what it shows |
|---|---|---|
| `algorithms` | `TmGetRight`, `MonthsCounted`, `AccrualBounded`, `AccrualNeverDrops`, `ProductNeverFalls`, `PricesAgree` | calendar: first and last tick of each day from 1970 to 28 February 2100 (where the formula's rule of four would fail first); monthly grants that start on 11 days at the ends of short and long months, before and after leap days and in 2080, followed for 1500 days, so over a leap year; accrual: each period but months, amounts 1, 5 and 12, weights 0 to 4 quarters, durations around one and two sizes of a period (1, 7, 30 ticks) and every instant to beyond the end; exchange: small reserves, any sequence of trades of a few sizes through both conversions |
| `vesting` | `TypeOK`, `Conservation`, `IdsNeverReused`, `SettledStays`, `PausedClockStands`, `BooksFollowPayments` | two ids, so a grant can be made, settled and removed while another stays; two instants and the clock moved back between them, pauses at, before and after now, `setpausetime` to a value that wraps the clock, negative quantities; the administrator is unrestricted |
| `careful` | `PaidWithinGrant`, `ClockNeverBack`, `CancelKeepsVested`, `PaidAtTheEnd` | one grant with months, seconds or locked on the real calendar (January to end of February 1970 at two ticks a day), a careful administrator, fairness |
| `escrow` | `IsEscrow`, `Backed`, `SuppliesMatch` | two grants, and two token contracts with one symbol, one of them issued by anybody: each step of the contract is a step of the escrow or none, and a deposit of the other contract's tokens is not booked |
| `multisig` | `TablesMatch`, `SignedAsRead`, `AskedForStays`, `WithdrawalCounts`, `IsAgreement` | a proposer, a name that a proposal of the older release has at the beginning and new ones take later, two levels of two accounts; one transaction both must approve and one either may; a list of requests that names a level twice; five half-second blocks, so that invalidations fall before, into and after the block of an approval and one transaction expires between two blocks |
| `governance` | `VotesAddUp`, `NoProxyCycle`, `PayBacked`, `SharesAddUp`, `NamesBacked`, `BiddersWhole`, `OutbidPaid` | three users, two of them producers. *votes*: two proxies one of which is followed, four actions of anybody, time moved over a change of weight. *launch*: nothing voted, so that activation by stake happens. *pay*: blocks, three claims and votes among them, over the days after which a share stops to grow and a claim is due. *legacy*: a producer who was there before vote-pay shares. *names*: four names, one a suffix of another, bids of three amounts, the exchange with and without owners, the close of an auction and the refund of those outbid; of the ways from one of its four instants to a later one, that from the second to the third is left out there (`now' - now # 4`), which keeps the scenario small |
| `markets` | `RexBooks`, `ReturnsAccounted`, `RexBooksBalance`, `SharePriceNeverFalls`, `OrdersFilled`, `StakeBacked`, `ResourcesAddUp`, `StakedAddsUp`, `RamSolvent` | two users who have voted, staked and bought REX once. *rex*: one invests, the other rents and sells, four actions and any maintenance, three instants between which loans expire, intervals pass, buckets end and REX matures. *stakes*: three of stake, unstake, refund, sale of REX, votes and limits. *ram*: five of the market's trades, supply growing by block |
| `leap_day`, `negative_withdraw`, `announced_pause`, `same_day_cancel`, `owner_deposit` | one property each, violated | see [findings](#findings) |

Mutants: for every property `PROJECT.json` names a change of one definition (a
dropped guard, a comparison on the wrong side, a book not moved) under which
the run must fail; they are the operators commented "Mutation".

The runs of the system contract give each part the scenarios in which it meets
the others, and a number of user actions (`MaxActions`) that reaches what the
properties are about; a product of all parts would not be finite in any useful
time. In *names* and *pay* the block begins with `OnBlock`, as on the chain.
`StakedAddsUp` is not checked where `unstaketorex` follows a change of the price of
REX: there the code really drops a difference, see [findings](#findings).

## Fairness

`FairSpec` assumes weak fairness of the clock (blocks keep coming) and of each
beneficiary's claim (`PaidAtTheEnd` is a promise to one who keeps asking). The
administrator has no fairness: nothing obliges them to unpause or remove.
`Claim` needs no strong fairness, because once the grant's own clock is beyond
its end no action of a careful administrator disables it for good.

`OrdersFilled` assumes that blocks go on, and that somebody calls `rexexec` again
and again while it has something to do: any account may, and every other action
of the exchange does it in passing. It is written as "infinitely often nothing is
due, or infinitely often maintenance runs". `OutbidPaid` assumes that the chain
runs the refund transaction it has scheduled, and that blocks begin.

## Proofs

What follows holds for every value of the constants that the assumptions allow;
[below](#assumptions) they are listed. A table of what each theorem states is in
`PROJECT.json`, under "theorems".

### The vesting contract, under any administrator (`VestingProofs`)

- `InvHolds`: `Spec => []Inv`. `Inv` is `TypeOK` with `Conservation`. Neither is
  inductive alone: that books stay natural numbers needs the assertions of
  `MoveBalance` and that what vested is bounded (`VestedWithinGrant`), and
  `Conservation` needs the types of the rows to compute with. The proof has one
  lemma per action, and each says what the action does to what is owed
  (`OwedUpdate`, `OwedPut`, `OwedErase`), which are facts about sums from
  `SumsProofs`.
- `TypeCorrect`, `BooksConserved`: the two invariants.
- `IdsGivenOnce`, `SettledForEver`, `PausedClock`, `NothingWrittenOff`: the action
  properties, each from `Inv` by a case per action.
- `SuppliesAlwaysMatch`: balances add up to the supply, in every token contract.
  `SupplyInv` compares the supply with a sum over `Accounts`; each action of the
  token credits and debits rows (`Credited`), and a row that is created with
  nothing or erased when empty does not count.

### The vesting contract, under a careful administrator (`VestingProofs`)

`CarefulSpec` is `Spec` restricted, so `Inv` holds in it (`CarefulInvHolds`). Three
invariants are built on it, one on top of the other:

1. `ClockInv` (`ClocksInOrder`): a grant's pauses are no longer than the time gone
   by, and a pause under way began in the past. So the subtraction in
   `now_fixed_by_pause` does not wrap, and `ClocksNeverBack` follows.
2. `AccrualInv` (`AccrualHolds`): whatever date a grant may still be cancelled as
   of, it keeps what was paid of it. "Paid is at most vested now" would not do: a
   cancel as of a date counts periods up to that date. The step needs that `Vested`
   is monotone in the clock (`VestedNeverDrops`, in `VestingMathProofs`), for months
   too, hence that `tm_get` is monotone on the days it gets right. `NeverOverpaid`
   (`PaidWithinGrant`) and `CancelTakesNothingVested` (`CancelKeepsVested`) follow.
3. `Covered` (`AlwaysCovered`): the escrow's balance in the contract a symbol is
   registered with covers `asset_balance`. With what the grants have to be paid this
   is `Backed` (`AlwaysBacked`).

`ContractIsEscrow`: `CarefulSpec => IsEscrow`. `PromisesIn` maps the table of grants to
the promises of `Escrow`; every action has a lemma that says which step of `Escrow` it
is, or none. `AccrualInv` is needed in the step of a cancel, which must leave a
promise that is no smaller than what was paid, and `Inv` in that of a claim.

### Calendar, accrual and exchange (`VestingMathProofs`, `AlgorithmsProofs`)

`VestingMathProofs` proves that dates have their ranges, that no more periods have
ended than a grant has, that what has vested lies between nothing and the whole
grant (`VestedWithinGrant`), and `VestedNeverDrops`.

`AlgorithmsProofs` proves `TmGetAlwaysRight`: the closed formula of `tm_get` agrees
with counting days by the Gregorian rules until 28 February 2100, but for 31 December of leap
years. `CalendarInv` says that the counted date and the number of the day belong
together (`IsDate`), which pins the year between two multiples of 1461 and leaves
linear arithmetic. `MonthsAlwaysCounted` compares the months the code counts, from
years, months, days and times of day, with anniversaries; it assumes that no grant
starts on 31 December of a leap year. `AccrualOnlyGrows` and `AccrualAlwaysBounded` are the
accrual properties for all amounts, cliffs and durations.

`ProductKept` and `PricesAlwaysAgree` are about a relay, for every reserve and trade.
The leaves are products of numbers, which the solver does not find by itself, so
they rest on lemmas on products, quotients and roots (`TimesMonotone`, `TimesCancel`,
`Quotient`, `RootType`).

### eosio.msig (`MultisigProofs`)

`TablesAlwaysMatch`: `TablesMatch` is inductive by itself, because `propose` finds no
proposal of the name and hence no approvals in either table, and the table
`EraseApprovals` erases from is the only one that has the key.

`ContractAgrees`: `Spec => IsAgreement`, so `eosio.msig` implements `Consent`. The
inductive invariant is `IInv`: `TypeOK`, `TablesMatch` and `TimesPassed` (no approval
is later than now). The last is why an invalidation, made now, withdraws every
approval its account has given. The mapping takes a proposal to its transaction
and the set of levels that count. Each action has a lemma that says what it does
to that set; `approve` adds one entry to a list (`AppendMembers`), `unapprove` takes
one out and loses no other (`RemoveAtMembers`); `propose` needs that the name has no
approvals left from a proposal before it (`TablesMatch`), `invalidate` needs
`TimesPassed`.

`AskedForAlways` and `WithdrawalAlwaysCounts` are about how often a level is in two
lists: an entry that moves from one to the other rearranges their concatenation
(`MovedBack`, `MovedForth` give the rearrangement and its inverse), and a
rearrangement keeps the bag (`SameBag`, by a bijection of the places of each level).
A level that is in the lists once, and at the end of those requested, is not among
the approvals. `AlwaysAsRead` is about `ReadSpec`, the contract with a record of what
approvers had read; its invariant `SignedInv` looks at all approvals and not only
those that count, and each of its actions is one of `Multisig`, so that `IInv` holds.

### eosio.system: RAM, stakes and auctions (`SystemProofs`)

`SystemInvariant`: `SystemSpec => []SysInv`, about the whole contract, with every action
of `System`. From it follow `RamAlwaysSolvent`, `StakesAlwaysBacked` and
`NamesAlwaysBacked`, that is `RamSolvent`, `StakeBacked` and `NamesBacked`.

`SysInv` has three books, each for a world, so that they can be carried through
a handler:

- `RamBooksOf`. `RamSolvent` is about a quotient, and it is not inductive: the price of
  RAM falls when `setram` or a block raises its size, and what is sold later counts
  on tokens paid before. `RelayCovers` is the form that every step keeps:
  `max_ram_size * (quote - stake) =< base * quote`. A purchase keeps it because the
  product of the reserves does not fall, a sale because it gets at most its
  price, growth because it adds to `base` and to the size alike. That reserved
  bytes are those of users (`RamTable`) rules out bytes in rows that no sale reaches.
- `StakeBooks`. The two tables of stakes and refunds add up to the tokens of
  `eosio.stake`; `changebw` moves up to two rows and a transfer, whose sum must vanish
  (`Debt`).
- `NameBooks`. Bids that stand and refunds (`Due`) are covered by the tokens of
  `eosio.names` less what is promised to the exchange (`Slack`).

A handler is a chain of helpers from world to world. Most helpers leave all three
books alone: they are `Aside`, which is transitive, and so are the maintenance of the
exchange, votes and limits, each proved once and passed over wherever a handler
calls it. The loops of `runrex` (`FillOrders`, `ProcessLoans`) are recursive functions;
that functions with these equations exist is proved too (`Fills`, `Processes`), as a `CHOOSE` without
it would say nothing. Then every action is one of five kinds of steps: it is
`Quiet`, a stake moves and is `Settled`, RAM is traded (`RamTraded`), an auction goes on (`NamesSettled`),
or what it touches is none of these (`Unrelated`); and each kind keeps `SysInv`.

`BiddersAlwaysWhole` (`BiddersWhole`): no step that changes the tables of the auctions costs
a bidder a token, unless it creates the account it won. What a bidder has is the
tokens on its account, its refunds and the worth of its bids. Its invariant, `Bidding`, gives
the rows of bids their fields and makes balances and refunds natural numbers. `RefundPut`
and `BidOf` say what one write or one removal of a row does to each part, so that in
`bidname` the tokens paid in return as a bid, those of the bidder before become a
refund, and `bidrefund` turns a refund into tokens. A step changes these tables only if it
is one of the auction's own actions, or `onblock`, which closes an auction: the bid
is paid then, and the name is worth as much to who may now create it (`NamesChange`).

`MCMarkets` and `MCGovernance` start from states in the middle of a chain's life, with
votes, stakes and REX; `SystemSpec` starts at the launch. No configuration checks
`SysInv`, which is part of the proofs. That `SystemNext` has every action that `MCMarkets` and
`MCGovernance` take is seen by reading them: they choose among its disjuncts and
restrict when each is taken. What is proved of a step so holds of theirs; while the proofs
were written TLC was run with `SysInv` as an invariant of both modules, the quantifier of
`RamTable` over users only, and found it to hold.

### eosio.system: the resource exchange (`RexProofs`)

`RexInvariant`: `SystemSpec => [](RexInv /\ SysInv)`. From it follow `RexBooksAlways`
(`RexBooks`), `ReturnsAlwaysAccounted` (`ReturnsAccounted`), and the two action properties
`RexBooksAlwaysBalance` (`RexBooksBalance`) and `SharePriceHolds`
(`SharePriceNeverFalls`).

`RexInv` says that the tables of the exchange are `Sound`, that orders are `Covered`, and
that the account holds at least what the tables say the exchange has (`Assets`).
What `RexBooks` and `ReturnsAccounted` say is in it, and what makes it inductive:

- `PoolSound`: the pool's amounts are natural numbers, and with no REX nothing is lent, so
  that the first purchase may set the pool.
- `OwnersSound`, `LoansSound`, `OrdersSound`: every row of a balance, a loan and an order has its
  shape, the pool's sums are those of the tables, and loans are numbered
  up to `loan_num`, so that a new one replaces none.
- `ReturnsSound`: buckets begin at full ten minutes, none is older than its term or than the
  cached time of the oldest, and the rate is the sum of the buckets. That proceeds are
  what buckets have still to pay (`LeftOf`) is kept because between two times of
  distribution each bucket pays its amount once for each interval
  (`IntervalsBetween`), and a bucket that ends in between is paid to its end and
  taken out of the rate.
- `Covered`: a sale in passing takes matured REX from its owner, so what an order asks
  for must be there when it is filled, whatever the owner has moved since.

`Goes(r, q, d, ct)` says of a helper that it keeps the exchange sound, makes it `d` tokens
richer and REX no cheaper; it composes. Each helper of `RexPool` has a lemma of that
form, the loops too (`FillOrders`, `ProcessLoans`, by the least number of rounds for which it
would fail). `Comes(w, u, d, ct)` says it of worlds, with the tokens of the exchange's
account. `RexMoves` and `RexMoved` say it of an action: the exchange and its account grow by
the same. A price is compared by products of four amounts, so that the leaves need
lemmas on products and truncated quotients (`TimesMonotone`, `DivMod`, `DivUnique`). Of time
passing `SoundLater` says that `Sound` does not depend on the clock but for
buckets not beginning in the future.

While the proofs were written TLC found `RexInv` to hold in all states of `MCMarkets` and
`MCGovernance`; it is no invariant of their configurations, which check the properties themselves.

### eosio.system: votes and resources (`AccountProofs`)

`NoProxyCycleAlways`: `SystemSpec => []NoProxyCycle`. The property speaks of a recursive
function, the chain of proxies from a voter on. `Proxies` is inductive and speaks of rows only:
whom a voter follows has a row, a proxy follows nobody, and voters can be ranked so that
each is above the proxy it follows. From a rank, `ChainIs` gets that the chain ends, so
that the recursion of `propagate_weight_change` does.

What can break it is a vote for a proxy, and a voter that becomes a proxy. The first asks for
a proxy, which follows nobody then, and puts the voter and everybody else above
it; the second asks the voter to follow nobody. Everything else changes stakes and weights:
propagation of a weight `Reweighed` the rows along a chain and leaves `proxy` and `is_proxy`
alone, as does `Recast`, the vote that every change of a stake casts again. `Votable`
carries this through the helpers from world to world and the loops of `runrex`, and `Polled` is what
each action ends with. `regproxy` and `voteproducer` each check the field that the other sets, and it is
this pair of checks that the proof uses. They do not keep chains short: a proxy that
resigns keeps its followers and may then follow another, so that ranks are needed.

`ResourcesAlwaysAddUp`: `SystemSpec => []ResourcesAddUp`. The property compares a row of
`userres` with a sum over all stakes and loans with that receiver. The sum is dealt with
once for each way a table can change: `StakePutStaked` when a row of `delband` is written,
`LoanPutLent` and `LoanEraseLent` when a loan begins, is renewed or ends, each saying that the sums of
the receiver change by one term and those of all others not at all. Loans and the resources of
their receivers change in two calls, and `runrex`, which almost every action begins with,
does so for loans of anybody. So within an action an account may lack something: `Lacks` says
how much, `Short` that nobody else lacks anything, and `Wanting` is `Votable` but for that. `LentShort`
and `StakedShort` bring about such a world, and `MadeUp` ends it: `update_resource_limits`
adds what is lacking and sets the limits by the rule that `Follows` names. All
helpers that change the exchange without its loans are shown to do so (`SameLoans`). `Votable`
has both parts, of votes and of resources, since a limit that the account manages itself
(`managed`, a field of its voter row) is not to follow. `RexInvariant` is
needed for the amounts of loans to be numbers, and the one of the RAM market for what `sellram` leaves.
`ResourcesAddUp`, and so what `Votable` says of resources between actions, is an invariant that TLC
checks in all states of `MCMarkets`.

`VotesAlwaysAddUp`: `SystemSpec /\ []StakesStand => []VotesAddUp`, where `StakesStand` says that no
voter's stake is negative. The property compares the votes of a producer, and what a proxy was given, with sums
over all voters, and these are moved by differences in several calls: a vote is first taken
back, from the old proxy along its chain or from the old producers, then the row of the
voter is written, then the vote is cast. Between these calls the sums are not those of the rows, so `Poll(e, x, b)`
says that the sums of the election `e` count each voter as its row has it (`Ballot`), but `x` as the ballot `b`, and
`Tallied`, the invariant, that they count all voters as their rows. `ChangeVotesCounts`,
`LeavePolls`, `JoinPolls` and their like say of each call how it changes `b`. Along a chain
of proxies, `propagate_weight_change` gives each proxy the weight it has now and passes on the difference, after
which all rows are in order but the next proxy's (`LinkPolls`, `PropagatePolls`): `CurrentBut(e, t, S)` says that what
a vote weighs is its voter's stake, with what followers give it, at the rate of some time up to `t`, unless its
voter is in `S`. A chain that came back to the voter would find a ballot that is not its row; that it
does not (`ChainAvoids`) is what `NoProxyCycle` is needed for.

Two things in the code could spoil the sums. `propagate_weight_change` and `update_voting_power` pass
on no difference smaller than one: weights being even, such a difference is zero (`EvenNumbers`; for
doubles, see [abstractions](#abstractions)). And `update_votes` sets a producer's votes to zero where they would
become negative: they never do, being a sum of weights, as long as no stake is negative.
That is the condition, and no more than this is asked: TLC finds it to hold in all
states of `MCMarkets` and `MCGovernance`.

### How sums and loops are proved

`SumsProofs` proves that the recursive function `SumTo` computes with exists
(`SumToRecursion`): the induction is made with least elements of sets of numbers
(`NatMin`), since the induction theorems of the library cannot be instantiated. The same is
done for the folds of the community modules (`MapThenSumSet`, `SumFunctionOnSet`):
a sum over a finite set changes by what one term changes (`SumExtends` and its
neighbours), which is all the proofs use of it.

### Assumptions

All are stated with `ASSUME` in the module that declares the constants and evaluated by TLC
in the runs, or are hypotheses of a theorem.

- Types: `SecondsPerDayAssumption`, `VestingMathAssumption`, `MaxAmountAssumption`,
  `VestingAssumption`, `MultisigAssumption`, `MarketAssumption`, `MathAssumption`,
  `CalendarAssumption` (days up to 28 February 2100), `ElectionAssumption`, `RexAssumption`.
- `TimeWrapAssumption`, `ClockAssumption`: the clock and all dates are 32-bit
  numbers of seconds, which ends before the formula of `tm_get` drifts.
- `CarefulAssumption`: the contract's own account is not among those that issue,
  retire and pass on tokens at will, and new rows have a `pause_time` of zero.
- `SystemAssumption`: users are not accounts of the contract (whose keys only `eosio` has) and not names under
  auction, and the empty name, which a voter without a proxy has in its row, is nobody's; both are finite sets;
  the bytes of RAM every account is given are a natural number, and limits, which are `int64_t`, integers; two names are two numbers, as `name` is a 64-bit number;
  `Never`, the largest time there is, is later than any instant and the bucket after it; at every
  instant a stake has a weight.
- `RegularDates`, in the theorems on overpayment and coverage: no monthly grant
  is cancelled as of 31 December of a leap year. That is the finding `leap_day`: without it they are
  false.
- `StakesStand`, in `VotesAlwaysAddUp`: no voter's stake is negative. Why it is asked is said
  [below](#only-model-checked).
- `IsFiniteSet(Accounts)`, where balances are added up.

### Only model-checked

`PaidAtTheEnd`, `OrdersFilled` and `OutbidPaid` are liveness and beyond this prover. Of
eosio.system, `PayBacked`, `SharesAddUp` and `StakedAddsUp` are checked
and not proved, and `VotesAddUp` is proved under a condition. `StakedAddsUp` is not true of the whole system:
it fails where `unstaketorex` follows a change of the price of
REX (see the end of [findings](#findings)). `VotesAddUp` needs that no voter's stake is ever negative. Not every change
of a stake checks that: `update_rex_stake`, which a vote calls, sets the stake to
what is staked and what REX is worth, and the rounding of filled orders can leave the record of
that worth one unit above it. `SharesAddUp` and the part of `PayBacked` about vote-pay shares need the
same, and a tally of shares by producers, each growing at its own rate up to its own threshold.

## Findings

1. `leap_day`: `tm_get` returns 1 January of the same year for 31 December of a
   leap year; the dates the contract prints have the same error.
2. `negative_withdraw`: a withdrawal of a negative quantity raises the books
   although nothing comes in; the assertions of `assets_move_balance` then stop
   the symbol.
3. `announced_pause`: a pause ended in advance, as a test does, sets the clock of
   the grant back; a cancel then returns tokens to the unallocated book that were
   paid already.
4. `same_day_cancel`: a monthly grant cancelled on the day of its cliff has zero
   months, and no claim of it ever succeeds.
5. `owner_deposit`: a deposit signed by the owner of the tokens alone is refused,
   although header and tests expect it to be booked.

Not findings, but to be known: a grant whose duration is a multiple of its period
has one period more than one would expect (the last one is completed by the end
date); `setpausetime` with more seconds than have passed since 1970 wraps the
clock of the grant past now; after a cancel the amount accrued at an instant may
be lower than before, though never what had vested when it was cancelled; a grant
to the contract's own account can never be claimed, as the token contract refuses a transfer to
oneself (`PaidAtTheEnd` leaves such grants out). The header of eosio.msig says
that `exec` needs "all requested approvals" and accounts that "are not found in
invalidations table" (`eosio.msig.hpp:87-89`); the code needs approvals that
suffice for the transaction, and an invalidation only counts against earlier
ones. A level that a proposal requests twice can be approved twice, and still
counts when one of the two is taken back.

In the system contract, where no document says otherwise: `unstaketorex` takes the
whole stake from the voter and drops the change of the vote stake of the REX it
buys (`rex.cpp:89`), so that what REX has gained since the owner's last vote is
missing from the voter's stake for good; a refund whose transaction was cancelled by a
later delegation stays until its owner asks for it; returns
that reach the pool after everybody has sold belong to no one, since the next
purchase sets the pool anew (`RexBooksBalance` allows just that); when `eosio` itself creates an
account whose name was auctioned, the row of the bid stays.

## Not modelled

- `versions.cpp`, printing and the texts of assertions: no state.
- eosdt beyond what the contract calls: it serves contracts that are not here.
- Tests, build files, ABIs, scripts. `old.system` and `old.bios` have no source.
- eosio.wrap and eosio.bios: no table of their own but a hash; they pass on what
  they are given.
- Of eosio.system: `setparams`, `setpriv`, `activate`, `setabi` and the other actions
  that pass their arguments on to the host; the `onblock` header fields nothing
  reads; the encoding of names (a suffix is given by a constant).
- That the chain runs a deferred transaction, and what it does then: `RunDeferred`
  only frees its id.
- RAM payers and resource limits; permissions beyond "who signed".
