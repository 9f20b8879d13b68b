--------------------------- MODULE CarefulVesting ---------------------------
(***************************************************************************)
(* The contract under an administrator who keeps to what the code asks for *)
(* in its messages and comments but does not enforce:                      *)
(*   - withdraw is given positive quantities;                              *)
(*   - tokens of Self leave through withdraw only ("If you will withdraw   *)
(*     more tokens than on vesting_balance contract will stop working");   *)
(*   - a pause is ended when it ends, not announced for later;             *)
(*   - setpausetime is not used, and nobody moves the clock back.          *)
(* The claims of the beneficiaries are fair: each keeps trying.            *)
(***************************************************************************)
EXTENDS Vesting

ASSUME CarefulAssumption ==
    /\ Self \notin TokenUsers
    /\ NewPauseTimes \subseteq {0}

CarefulTransferStep ==
    \E c \in Contracts, s \in Symbols, from \in Accounts \ {Self}, to \in Accounts,
       q \in Quantities, memo \in Memos : \/ Transfer(c, {from}, from, to, s, q, memo)
                                          \/ Transfer(c, {from, Self}, from, to, s, q, memo)

CarefulWithdrawStep ==
    \E s \in Symbols, to \in Accounts, q \in Quantities : q > 0 /\ Withdraw(to, s, q)

CarefulGrantStep(id) ==
    \/ RemoveVesting(id)
    \/ \E t \in Dates : PauseVesting(id, t) \/ CancelVesting(id, t)
    \/ UnpauseVestng(id, now)
    \/ Claim(id)

CarefulNext ==
    \/ TokenStep
    \/ \E c \in Contracts, s \in Symbols : AddAsset(c, s)
    \/ CarefulTransferStep
    \/ CarefulWithdrawStep
    \/ AddStep
    \/ \E id \in Ids : CarefulGrantStep(id)
    \/ \E t \in Times : Tick(t)

CarefulSpec == Init /\ [][CarefulNext]_vars

\* Blocks keep coming, and a beneficiary who can claim does so in the end.
FairSpec ==
    /\ CarefulSpec
    /\ WF_vars(\E t \in Times : Tick(t))
    /\ \A id \in 0 .. MaxVestings - 1 : WF_vars(id \in Ids /\ Claim(id))

-----------------------------------------------------------------------------
\* What can have vested of grant id so far.
VestedNow(id) == Vested(cmkvestings[id], FixedNow(id), FixedNow(id))

Both == Ids \cap DOMAIN cmkvestings'

\* Self always holds the tokens the books say it has, on the contract they came
\* from: the assertions assets_move_balance starts with never fail, and every
\* promise can be paid.  A deposit from another contract must not be booked.
Backed ==
    \A s \in DOMAIN cmkassets :
        /\ cmkassets[s].asset_balance =< BookedBalance(accounts, s)
        /\ cmkassets[s].unallocated_balance =< cmkassets[s].asset_balance

\* Nobody is paid more than the grant, not even when it is cancelled after a
\* part of it was claimed: cancelvesting does not look at vested_amount.
PaidWithinGrant ==
    \A id \in Ids : cmkvestings[id].vested_amount =< cmkvestings[id].vesting_amount

\* The clock of a grant never goes back: not when a pause is announced for
\* later, begins, or ends.
ClockNeverBack ==
    [][ \A id \in Both : now_fixed_by_pause(cmkvestings'[id], now') >= FixedNow(id) ]_vars

\* Cancelling a grant takes nothing that had vested by then.
CancelKeepsVested ==
    [][ \A id \in Both :
            cmkvestings'[id].end_date # cmkvestings[id].end_date =>
                cmkvestings'[id].vesting_amount >= VestedNow(id) ]_vars

Settled(id) ==
    id \notin Ids \/ cmkvestings[id].vested_amount = cmkvestings[id].vesting_amount

\* A grant is paid in full once its own clock has reached its end, cancelled or
\* not, paused or not; no check on the way of a claim can stop it for ever.
PaidAtTheEnd ==
    \A id \in 0 .. MaxVestings - 1 :
        (id \in Ids /\ FixedNow(id) >= cmkvestings[id].end_date
                    /\ cmkvestings[id].account_id # Self) ~> Settled(id)

-----------------------------------------------------------------------------
\* The contract as an escrow.
Contract == INSTANCE Escrow WITH
    Amounts <- Quantities,
    vault <- [s \in DOMAIN cmkassets |-> cmkassets[s].asset_balance],
    free  <- [s \in DOMAIN cmkassets |-> cmkassets[s].unallocated_balance],
    due   <- [id \in Ids |->
                 [to     |-> cmkvestings[id].account_id,
                  symbol |-> cmkvestings[id].symbol,
                  owed   |-> cmkvestings[id].vesting_amount - cmkvestings[id].vested_amount,
                  open   |-> cmkvestings[id].status # Cancelled]],
    next  <- available_primary_key(cmkvestings)

\* Every step of the contract is a step of the escrow, or none: all that dates,
\* cliffs and pauses decide is when a promise is paid and how much of an open
\* one a cancel may take back.
IsEscrow == Contract!Spec
=============================================================================
