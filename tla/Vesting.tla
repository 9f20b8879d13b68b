------------------------------ MODULE Vesting ------------------------------
(***************************************************************************)
(* The cmkryvesting contract, deployed on the account Self, together with  *)
(* the token contracts it is paid by and pays through.                     *)
(*                                                                         *)
(* Every action of the contract is one transaction: its inline transfer    *)
(* and the notifications run before anything else does, and a check that   *)
(* fails in any of them reverts the whole.  An action below is therefore   *)
(* the handler with the transfer it sends, and its checks are its guard.   *)
(* Whatever require_auth(_self) protects is done by the administrator, a   *)
(* claim by the beneficiary; both choose their arguments freely.           *)
(***************************************************************************)
EXTENDS Token, VestingMath, Sums

CONSTANTS Self,          \* the account of the contract
          Genesis,       \* <<contract, symbol>> pairs issued before it is deployed,
          GenesisIssuer, \* all to this account,
          GenesisSupply, \* as much of each
          TokenUsers,    \* accounts that issue and retire tokens, open and close rows
          Times,         \* the instants the chain's clock may show
          Dates,         \* dates the administrator writes into an action
          Periods,       \* vesting periods it asks for
          Quantities,    \* amounts of tokens an action may name
          Weights,       \* cliff weights, as fractions of WeightUnit
          PauseTimes,    \* arguments of setpausetime
          NewPauseTimes, \* what addvesting may leave in pause_time
          TimeMoves,     \* instants timemove may set the clock back to
          MaxPauseTime,  \* bound on pause_time (64 bits in the code)
          MaxVestings    \* bound on vesting ids: ids are below it

ASSUME VestingAssumption ==
    /\ Self \in Accounts /\ GenesisIssuer \in Accounts /\ TokenUsers \subseteq Accounts
    /\ Genesis \subseteq Contracts \X Symbols /\ GenesisSupply \in 1 .. MaxAmount
    /\ Times \subseteq Nat /\ Dates \subseteq Nat /\ Periods \subseteq Int
    /\ Quantities \subseteq Int /\ Weights \subseteq Int
    /\ PauseTimes \subseteq Nat /\ NewPauseTimes \subseteq Nat
    /\ TimeMoves \subseteq Nat /\ MaxPauseTime \in Nat /\ MaxVestings \in Nat

\* The clock and the dates are ds_time.
ASSUME ClockAssumption == Times \cup Dates \subseteq 0 .. TimeWrap - 1

VARIABLES now,           \* time_get()
          cmkassets,     \* symbol -> what the contract tracks of that asset
          cmkvestings    \* vesting id -> grant

ledger == <<cmkassets, cmkvestings>>
vars == <<now, cmkassets, cmkvestings, stat, accounts>>

Memos == {"deposit", "init", "other"}

AssetRows == [asset_contract : Contracts,
              asset_balance : 0 .. MaxAmount, unallocated_balance : 0 .. MaxAmount]

\* start_date is checked by addvesting and never read again: it is left out.
VestingRows == [account_id : Accounts, vesting_period : VestingPeriods,
                symbol : Symbols, vesting_amount : Nat, vested_amount : Nat,
                cliff_date : Nat, cliff_weight : 0 .. WeightUnit, end_date : Nat,
                status : {Active, Paused, Cancelled},
                pause_start : Nat, pause_time : Nat]

Ids == DOMAIN cmkvestings

FixedNow(id) == now_fixed_by_pause(cmkvestings[id], now)

-----------------------------------------------------------------------------
\* Mutation: nobody asks whether the books have that much.
MoveUncovered(s, asset_change, unallocated_change, balance) ==
    /\ s \in DOMAIN cmkassets
    /\ cmkassets' = [cmkassets EXCEPT ![s].asset_balance = @ + asset_change,
                                      ![s].unallocated_balance = @ + unallocated_change]

\* assets_move_balance: adds to both books of a symbol.  balance is what the
\* asset's contract reports of Self when the books move.
MoveBalance(s, asset_change, unallocated_change, balance) ==
    /\ s \in DOMAIN cmkassets
    /\ cmkassets[s].asset_balance =< balance
    /\ cmkassets[s].unallocated_balance =< balance
    /\ asset_change >= 0 \/ cmkassets[s].asset_balance >= - asset_change
    /\ unallocated_change >= 0 \/ cmkassets[s].unallocated_balance >= - unallocated_change
    /\ cmkassets[s].asset_balance + asset_change =< MaxAmount
    /\ cmkassets[s].unallocated_balance + unallocated_change =< MaxAmount
    /\ cmkassets' = [cmkassets EXCEPT ![s].asset_balance = @ + asset_change,
                                      ![s].unallocated_balance = @ + unallocated_change]

\* The balance of Self on the contract the asset was registered with.
BookedBalance(table, s) == BalanceIn(table, cmkassets[s].asset_contract, Self, s)

AddAsset(c, s) ==
    /\ <<c, s>> \in DOMAIN stat          \* max_supply is positive once created
    /\ s \notin DOMAIN cmkassets
    /\ cmkassets' = Put(cmkassets, s, [asset_contract |-> c, asset_balance |-> 0,
                                       unallocated_balance |-> 0])
    /\ UNCHANGED <<now, cmkvestings, stat, accounts>>

\* Mutation: tokens of any contract count.
DepositFromAny(c, signers, s, q) ==
    Self \in signers /\ MoveBalance(s, q, q, BookedBalance(accounts', s))

\* Mutation: the tokens are not there to be granted.
DepositUnallocatedLost(c, signers, s, q) ==
    /\ Self \in signers
    /\ MoveBalance(s, q, 0, BookedBalance(accounts', s))
    /\ cmkassets[s].asset_contract = c

deposit(c, signers, s, q) ==
    /\ Self \in signers
    /\ MoveBalance(s, q, q, BookedBalance(accounts', s))
    /\ cmkassets[s].asset_contract = c

\* The handler of the notification of a transfer, which runs after it and with the
\* authority of those who signed the transfer.
on_transfer(c, signers, to, s, q, memo) ==
    \/ to # Self /\ UNCHANGED cmkassets
    \/ to = Self /\ memo = "deposit" /\ deposit(c, signers, s, q)
    \/ to = Self /\ memo = "init" /\ UNCHANGED cmkassets

Transfer(c, signers, from, to, s, q, memo) ==
    /\ from \in signers
    /\ TokenTransfer(c, from, to, s, q)
    /\ on_transfer(c, signers, to, s, q, memo)
    /\ UNCHANGED <<now, cmkvestings>>

\* Mutation: a single unit is not sent.
PayOutMany(to, s, q) ==
    IF q > 1
    THEN TokenTransfer(cmkassets[s].asset_contract, Self, to, s, q)
    ELSE UNCHANGED tokenVars

\* trans_by_ctract sends nothing for a quantity that is not positive.  It prints
\* the balance less the quantity, and an asset refuses to hold too much.
PayOut(to, s, q) ==
    /\ BookedBalance(accounts, s) - q =< MaxAmount
    /\ IF q > 0
       THEN TokenTransfer(cmkassets[s].asset_contract, Self, to, s, q)
       ELSE UNCHANGED tokenVars

Withdraw(to, s, q) ==
    /\ MoveBalance(s, -q, -q, BookedBalance(accounts, s))
    /\ PayOut(to, s, q)
    /\ UNCHANGED <<now, cmkvestings>>

-----------------------------------------------------------------------------
assert_dates(period, cliff, start, end) ==
    /\ end >= now
    /\ start < end
    /\ start =< cliff /\ cliff =< end
    /\ period \in {Monthly, Weekly, Daily, Daily30} =>
           \A t \in {start, cliff, end} : TimeOfDay(t) = 0
    /\ period = Monthly => tm_get(start).mday = tm_get(end).mday
    /\ period = Weekly => day_of_week(start) = day_of_week(end)

AddVesting(account, period, s, amount, cliff, weight, start, end, pause_time) ==
    LET id == available_primary_key(cmkvestings)
        cliff_date == IF weight = 0 THEN start ELSE cliff
    IN  /\ period \in VestingPeriods
        /\ amount > 0
        /\ 0 =< weight /\ weight =< WeightUnit
        /\ assert_dates(period, cliff_date, start, end)
        /\ cliff_date < end                  \* calc_vesting_percent asserts it
        /\ MoveBalance(s, 0, -amount, BookedBalance(accounts, s))
        /\ id < MaxVestings
        /\ cmkvestings' = Put(cmkvestings, id,
               [account_id |-> account, vesting_period |-> period, symbol |-> s,
                vesting_amount |-> amount, vested_amount |-> 0,
                cliff_date |-> cliff_date, cliff_weight |-> weight, end_date |-> end,
                status |-> Active, pause_start |-> 0, pause_time |-> pause_time])
        /\ UNCHANGED <<now, stat, accounts>>

\* Mutation: the last row may be removed too.
RemoveAnyVesting(id) ==
    /\ cmkvestings[id].vesting_amount = cmkvestings[id].vested_amount
    /\ cmkvestings' = Erase(cmkvestings, id)
    /\ UNCHANGED <<now, cmkassets, stat, accounts>>

RemoveVesting(id) ==
    /\ cmkvestings[id].vesting_amount = cmkvestings[id].vested_amount
    /\ id + 1 < available_primary_key(cmkvestings)
    /\ cmkvestings' = Erase(cmkvestings, id)
    /\ UNCHANGED <<now, cmkassets, stat, accounts>>

-----------------------------------------------------------------------------
\* Mutation: any grant is paused, whatever its status.
PauseAnyVesting(id, pause_start) ==
    /\ pause_start >= now
    /\ cmkvestings' = [cmkvestings EXCEPT ![id].status = Paused,
                                          ![id].pause_start = pause_start]
    /\ UNCHANGED <<now, cmkassets, stat, accounts>>

PauseVesting(id, pause_start) ==
    /\ pause_start >= now
    /\ cmkvestings[id].status = Active
    /\ cmkvestings' = [cmkvestings EXCEPT ![id].status = Paused,
                                          ![id].pause_start = pause_start]
    /\ UNCHANGED <<now, cmkassets, stat, accounts>>

UnpauseVestng(id, pause_end) ==
    /\ pause_end >= now
    /\ cmkvestings[id].status = Paused
    /\ LET start  == cmkvestings[id].pause_start
           paused == IF start < pause_end THEN pause_end - start ELSE 0
       IN  /\ cmkvestings[id].pause_time + paused =< MaxPauseTime
           /\ cmkvestings' = [cmkvestings EXCEPT ![id].status = Active,
                                                 ![id].pause_time = @ + paused]
    /\ UNCHANGED <<now, cmkassets, stat, accounts>>

SetPauseTime(id, pause_time) ==
    /\ pause_time > 0
    /\ cmkvestings' = [cmkvestings EXCEPT ![id].pause_time = pause_time]
    /\ UNCHANGED <<now, cmkassets, stat, accounts>>

-----------------------------------------------------------------------------
\* Mutation: what was paid already is paid again.
ClaimableAgain(v, fixed) == Vested(v, fixed, fixed)

\* What a claim pays of the grant v when its clock shows fixed.
Claimable(v, fixed) == Vested(v, fixed, fixed) - v.vested_amount

\* There is no check of the status: a cancelled grant is claimed the same way.
Claim(id) ==
    LET v == cmkvestings[id]
    IN  /\ CanCalc(v.vesting_period, v.cliff_date, v.end_date)
        /\ \E quantity \in {Claimable(v, FixedNow(id))} :
               /\ quantity > 0
               /\ MoveBalance(v.symbol, -quantity, 0, BookedBalance(accounts, v.symbol))
               /\ PayOut(v.account_id, v.symbol, quantity)
               /\ cmkvestings' =
                      [cmkvestings EXCEPT
                          ![id].vested_amount = @ + quantity,
                          ![id].status = IF v.vesting_amount = v.vested_amount + quantity
                                         THEN Cancelled ELSE @]
        /\ UNCHANGED now

\* Mutation: a grant is cancelled as of any date.
CanCancelInThePast(id, cancel_start) ==
    /\ cmkvestings[id].status \in {Active, Paused}
    /\ cancel_start < cmkvestings[id].end_date

CanCancel(id, cancel_start) ==
    /\ cancel_start >= FixedNow(id)
    /\ cmkvestings[id].status \in {Active, Paused}
    /\ cancel_start < cmkvestings[id].end_date

CancelVesting(id, cancel_start) ==
    LET v       == cmkvestings[id]
        vesting == Vested(v, cancel_start, FixedNow(id))
    IN  /\ CanCancel(id, cancel_start)
        /\ CanCalc(v.vesting_period, v.cliff_date, v.end_date)
        /\ IF vesting < v.vesting_amount
           THEN MoveBalance(v.symbol, 0, v.vesting_amount - vesting,
                            BookedBalance(accounts, v.symbol))
           ELSE UNCHANGED cmkassets
        /\ cmkvestings' = [cmkvestings EXCEPT ![id].status = Cancelled,
                                              ![id].vesting_amount = vesting,
                                              ![id].end_date = cancel_start]
        /\ UNCHANGED <<now, stat, accounts>>

-----------------------------------------------------------------------------
\* The chain's clock.
Tick(t) == t > now /\ now' = t /\ UNCHANGED <<cmkassets, cmkvestings, stat, accounts>>

\* The build of the repository defines TESTNET: time_get() adds a shift that the
\* eosdtcntract contract keeps and its timemove action sets, backwards too.
TimeMove(t) == t < now /\ now' = t /\ UNCHANGED <<cmkassets, cmkvestings, stat, accounts>>

Init ==
    /\ stat = [k \in Genesis |-> [supply |-> GenesisSupply, max_supply |-> GenesisSupply,
                                  issuer |-> GenesisIssuer]]
    /\ accounts = [k \in {<<k[1], GenesisIssuer, k[2]>> : k \in Genesis} |-> GenesisSupply]
    /\ now \in Times
    /\ cmkassets = EmptyTable
    /\ cmkvestings = EmptyTable

\* What the token contracts do without the contract being told.
TokenStep ==
    /\ \E c \in Contracts, s \in Symbols :
           \E user \in TokenUsers :
               \/ \E q \in Quantities :
                      Create(c, user, s, q) \/ Issue(c, user, s, q) \/ Retire(c, user, s, q)
               \/ Open(c, user, s)
               \/ Close(c, user, s)
    /\ UNCHANGED <<now, cmkassets, cmkvestings>>

\* The administrator makes a grant.
AddStep ==
    \E account \in Accounts, period \in Periods, s \in Symbols, amount \in Quantities,
       cliff, start, end \in Dates, weight \in Weights, pause_time \in NewPauseTimes :
        AddVesting(account, period, s, amount, cliff, weight, start, end, pause_time)

\* Whoever holds tokens sends them, the administrator those of Self; a transfer
\* of others may carry the administrator's signature too.
TransferStep ==
    \E c \in Contracts, s \in Symbols, from, to \in Accounts, q \in Quantities,
       memo \in Memos : \/ Transfer(c, {from}, from, to, s, q, memo)
                        \/ Transfer(c, {from, Self}, from, to, s, q, memo)

WithdrawStep ==
    \E s \in Symbols, to \in Accounts, q \in Quantities : Withdraw(to, s, q)

\* The administrator and the beneficiary of an existing grant.
GrantStep(id) ==
    \/ RemoveVesting(id)
    \/ \E t \in Dates : \/ PauseVesting(id, t)
                        \/ UnpauseVestng(id, t)
                        \/ CancelVesting(id, t)
    \/ \E t \in PauseTimes : SetPauseTime(id, t)
    \/ Claim(id)

Next ==
    \/ TokenStep
    \/ \E c \in Contracts, s \in Symbols : AddAsset(c, s)
    \/ TransferStep
    \/ WithdrawStep
    \/ AddStep
    \/ \E id \in Ids : GrantStep(id)
    \/ \E t \in Times : Tick(t)
    \/ \E t \in TimeMoves : TimeMove(t)

Spec == Init /\ [][Next]_vars

-----------------------------------------------------------------------------
\* Every row has its fields, no book is negative or beyond what an asset holds,
\* and a grant is in a symbol that was added.
TypeOK ==
    /\ TokenTypeOK
    /\ now \in Nat
    /\ DOMAIN cmkassets \subseteq Symbols
    /\ \A s \in DOMAIN cmkassets : cmkassets[s] \in AssetRows
    /\ DOMAIN cmkvestings \subseteq 0 .. MaxVestings - 1
    /\ \A id \in Ids : cmkvestings[id] \in VestingRows /\ cmkvestings[id].symbol \in DOMAIN cmkassets

\* What a table of grants leaves to be paid of each grant in symbol s, and of all.
Due(table, s) ==
    [id \in Nat |-> IF id \in DOMAIN table /\ table[id].symbol = s
                    THEN table[id].vesting_amount - table[id].vested_amount
                    ELSE 0]

Owed(table, s) == SumTo(Due(table, s), available_primary_key(table))

\* The two books of a symbol differ by exactly what the grants in that symbol
\* have still to be paid, whatever the administrator does.  deposit, withdraw,
\* addvesting, claim and cancelvesting each move the books and the grants by
\* separate amounts; nothing in the code ties them together.
Conservation ==
    \A s \in DOMAIN cmkassets :
        cmkassets[s].asset_balance - cmkassets[s].unallocated_balance
            = Owed(cmkvestings, s)

\* A vesting id names one grant for ever: the next id never decreases and a new
\* grant gets an id that was not given before.  removevesting keeps the last row
\* of the table for this, since available_primary_key forgets erased rows.
IdsNeverReused ==
    [][ LET next == available_primary_key(cmkvestings)
        IN  /\ available_primary_key(cmkvestings') >= next
            /\ \A id \in DOMAIN cmkvestings' \ Ids : id >= next ]_vars

\* A cancelled or fully paid grant is never reopened, and neither its amount nor
\* its end moves again: pausevesting, unpausevestng and cancelvesting look at
\* the status, claim and setpausetime do not.
SettledStays ==
    [][ \A id \in Ids \cap DOMAIN cmkvestings' :
            cmkvestings[id].status = Cancelled =>
                /\ cmkvestings'[id].status = Cancelled
                /\ cmkvestings'[id].vesting_amount = cmkvestings[id].vesting_amount
                /\ cmkvestings'[id].end_date = cmkvestings[id].end_date ]_vars

\* While a grant is paused its clock stands still: as the time advances,
\* now_fixed_by_pause takes off exactly what went by.
PausedClockStands ==
    [][ \A id \in Ids \cap DOMAIN cmkvestings' :
            /\ cmkvestings[id].status = Paused /\ cmkvestings[id].pause_start =< now
            /\ cmkvestings'[id] = cmkvestings[id]
            /\ now =< now'
            => now_fixed_by_pause(cmkvestings'[id], now') = FixedNow(id) ]_vars

\* Whenever the books of a symbol lose tokens, Self has paid out as many from
\* the contract the symbol is registered with: nothing is written off.
BooksFollowPayments ==
    [][ \A s \in DOMAIN cmkassets :
            cmkassets'[s].asset_balance < cmkassets[s].asset_balance =>
                BookedBalance(accounts, s) - BookedBalance(accounts', s)
                    = cmkassets[s].asset_balance - cmkassets'[s].asset_balance ]_vars
=============================================================================
