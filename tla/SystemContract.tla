--------------------------- MODULE SystemContract ---------------------------
(***************************************************************************)
(* The state that the parts of eosio.system share, and the helpers by      *)
(* which one part changes what another keeps: a stake is a vote, rented    *)
(* bandwidth a resource, a fee a return of the resource exchange.          *)
(*                                                                         *)
(* A helper takes a world, the tables as a handler leaves them so far, and *)
(* returns the next one; a handler chains them as its code does, and its   *)
(* action makes the last one the new state, if the checks on the way       *)
(* passed.  Inline transfers run after the handler; they are the last      *)
(* changes of core, and Solvent says that each found its tokens.           *)
(***************************************************************************)
EXTENDS RexPool

CONSTANTS Users,             \* accounts that act
          Times,             \* instants at which blocks are looked at
          ram_gift_bytes,
          Seats,             \* 21: producers of a schedule
          B1,                \* the account whose stake is released over ten years
          B1Locked           \* time -> what it must still have staked

VARIABLES now,               \* current_time_point()
          core,              \* balances of the core token
          elect,             \* Election
          bw,                \* delband, userres and refunds, the limits of the
                             \* chain, and the refund transactions it has scheduled
          rex                \* RexPool

system == <<now, core, elect, bw, rex>>

system_account == "eosio"
ram_account    == "eosio.ram"
ramfee_account == "eosio.ramfee"
stake_account  == "eosio.stake"
bpay_account   == "eosio.bpay"
vpay_account   == "eosio.vpay"
names_account  == "eosio.names"
saving_account == "eosio.saving"
rex_account    == "eosio.rex"

SystemAccounts == {ram_account, ramfee_account, stake_account, bpay_account, vpay_account,
                   names_account, saving_account, rex_account}

EmptyElection ==
    [voters |-> EmptyTable, producers |-> EmptyTable, producers2 |-> EmptyTable,
     total_producer_vote_weight |-> 0, total_producer_votepay_share |-> 0,
     total_vpay_share_change_rate |-> 0, last_vpay_state_update |-> NoTime,
     total_activated_stake |-> 0, thresh_activated_stake_time |-> NoTime]

NoResources == [net |-> 0, cpu |-> 0, ram |-> 0]
Unlimited   == [net |-> -1, cpu |-> -1, ram |-> -1]

EmptyBandwidth == [delband |-> EmptyTable, userres |-> EmptyTable, refunds |-> EmptyTable,
                   limits |-> [x \in Users |-> Unlimited], deferred |-> EmptyTable]

World == [elect |-> elect, bw |-> bw, rex |-> rex, core |-> core]

\* The new state, when every transfer found its tokens.
Solvent(w) == \A a \in DOMAIN w.core : w.core[a] \in Nat

Become(w) ==
    /\ Solvent(w)
    /\ elect' = w.elect /\ bw' = w.bw /\ rex' = w.rex /\ core' = w.core
    /\ UNCHANGED now

Transfer(w, from, to, amount) ==
    [w EXCEPT !.core[from] = @ - amount, !.core[to] = @ + amount]

Tick ==
    \E t \in Times : t > now /\ now' = t /\ UNCHANGED <<core, elect, bw, rex>>

-----------------------------------------------------------------------------
(* Resources. *)

Resources(b, x) == IF x \in DOMAIN b.userres THEN b.userres[x] ELSE NoResources

Managed(e, x) == IF x \in DOMAIN e.voters THEN e.voters[x].managed ELSE {}

\* The row of x; an empty one is erased.
PutResources(table, x, row) == IF row = NoResources THEN Erase(table, x) ELSE Put(table, x, row)

\* The limits that follow a row, those of managed resources apart.
LimitsOf(limits, row, managed) ==
    IF {"net", "cpu"} \subseteq managed THEN limits
    ELSE [limits EXCEPT !.net = IF "net" \in managed THEN @ ELSE row.net,
                        !.cpu = IF "cpu" \in managed THEN @ ELSE row.cpu]

\* Loans and staked tokens that become REX change what x may use.
update_resource_limits(w, x, delta_net, delta_cpu) ==
    LET old == Resources(w.bw, x)
        row == [old EXCEPT !.net = @ + delta_net, !.cpu = @ + delta_cpu]
    IN  IF delta_net = 0 /\ delta_cpu = 0 THEN w
        ELSE [w EXCEPT !.bw.userres = PutResources(@, x, row),
                       !.bw.limits[x] = LimitsOf(@, row, Managed(w.elect, x))]

\* "insufficient staked total net (cpu) bandwidth"
ResourcesCovered(w) ==
    \A x \in DOMAIN w.bw.userres : w.bw.userres[x].net >= 0 /\ w.bw.userres[x].cpu >= 0

-----------------------------------------------------------------------------
(* The stake of a voter, to which the worth of its REX belongs. *)

VoterRow(e, x) == IF x \in DOMAIN e.voters THEN e.voters[x] ELSE NewVoter

\* row is that of x in e, but for its stake.
VoteAgain(e, x, row, ct) ==
    IF row.producers # {} \/ row.proxy # Nobody
    THEN update_votes(e, x, row.proxy, row.producers, ct)
    ELSE e

\* The vote of x is cast again with a new stake; what update_votes checks held
\* when it was cast.
Recast(e, x, stake, ct) ==
    VoteAgain([e EXCEPT !.voters = Put(@, x, [VoterRow(e, x) EXCEPT !.staked = stake])],
              x, VoterRow(e, x), ct)

update_voting_power(w, x, total_update, ct) ==
    [w EXCEPT !.elect = Recast(@, x, VoterRow(@, x).staked + total_update, ct)]

\* validate_b1_vesting and the check before it, on the row that is left.
StakeCovered(w, x, ct) ==
    x \in DOMAIN w.elect.voters =>
        /\ w.elect.voters[x].staked >= 0
        /\ x = B1 => w.elect.voters[x].staked >= B1Locked[ct]

\* Mutation: the new worth is not kept, and counts again the next time.
update_rex_stake_again(w, x) ==
    IF x \in DOMAIN w.rex.balances /\ rex_available(w.rex) /\ x \in DOMAIN w.elect.voters
    THEN [w EXCEPT !.elect.voters[x].staked =
                       @ + WorthOf(w.rex.pool, w.rex.balances[x].rex_balance)
                         - w.rex.balances[x].vote_stake]
    ELSE w

\* The REX of a voter is worth what it is worth now (vote_stake_updater).
update_rex_stake(w, x) ==
    IF x \in DOMAIN w.rex.balances /\ rex_available(w.rex)
    THEN LET worth == WorthOf(w.rex.pool, w.rex.balances[x].rex_balance)
             delta == worth - w.rex.balances[x].vote_stake
             kept  == [w EXCEPT !.rex.balances[x].vote_stake = worth]
         IN  IF x \in DOMAIN w.elect.voters
             THEN [kept EXCEPT !.elect.voters[x].staked = @ + delta]
             ELSE kept
    ELSE w

\* Who holds REX votes for a proxy or for a whole schedule.
check_voting_requirement(e, x) ==
    /\ x \in DOMAIN e.voters
    /\ e.voters[x].proxy # Nobody \/ Cardinality(e.voters[x].producers) >= Seats

-----------------------------------------------------------------------------
(* What the other parts call of the resource exchange. *)

channel_to_rex(w, from, amount, ct) ==
    IF rex_available(w.rex)
    THEN Transfer([w EXCEPT !.rex = add_to_rex_return_pool(@, amount, ct)], from, rex_account, amount)
    ELSE w

channel_namebid_to_rex(r, highest_bid) ==
    IF rex_available(r) THEN [r EXCEPT !.pool.namebid_proceeds = @ + highest_bid] ELSE r

SellOrder(r, owner) ==
    IF owner \in OpenOrders(r) THEN r.orders[owner].rex_requested ELSE 0

\* The order of owner that was filled, of which it has not collected what it brought.
FilledOrder(r, owner) ==
    IF owner \in DOMAIN r.orders \ OpenOrders(r) THEN r.orders[owner]
    ELSE [proceeds |-> 0, stake_change |-> 0]

CollectOrder(r, owner, to_fund) ==
    CollectInFund([r EXCEPT !.orders = IF owner \in OpenOrders(r) THEN @ ELSE Erase(@, owner)],
                  owner, to_fund)

ChangeStake(w, owner, to_stake, force_vote_update, ct) ==
    IF force_vote_update \/ to_stake # 0 THEN update_voting_power(w, owner, to_stake, ct) ELSE w

\* The owner collects what a filled order brought, together with proceeds and
\* delta_stake.
update_rex_account(w, owner, proceeds, delta_stake, force_vote_update, ct) ==
    ChangeStake([w EXCEPT !.rex = CollectOrder(@, owner, proceeds + FilledOrder(@, owner).proceeds)],
                owner, delta_stake + FilledOrder(w.rex, owner).stake_change, force_vote_update, ct)

\* Proceeds of closed names come in.
CollectNameBids(w, ct) ==
    IF w.rex.pool.namebid_proceeds > 0
    THEN [channel_to_rex(w, names_account, w.rex.pool.namebid_proceeds, ct) EXCEPT
             !.rex.pool.namebid_proceeds = 0]
    ELSE w

\* What has become of a loan changes the resources it was lent to.
LoanProcessed(w, kind, receiver, outcome) ==
    update_resource_limits([w EXCEPT !.rex = outcome.rex], receiver,
                           IF kind = "net" THEN outcome.delta_stake ELSE 0,
                           IF kind = "cpu" THEN outcome.delta_stake ELSE 0)

ProcessLoanOf(w, kind, num, ct) ==
    LoanProcessed(w, kind, w.rex.loans[num].receiver, process_expired_loan(w.rex, num, ct))

ProcessLoan(w, kind, ct) ==
    IF Expired(w.rex, kind, ct) = {} THEN w
    ELSE ProcessLoanOf(w, kind, FirstExpired(w.rex, kind, ct), ct)

\* The first max of them.
ProcessLoans(w, kind, max, ct) ==
    LET after[n \in Nat] == IF n = 0 THEN w ELSE ProcessLoan(after[n - 1], kind, ct)
    IN  after[max]

\* The maintenance every operation on REX starts with.
runrex(w, max, ct) ==
    [ProcessLoans(
        ProcessLoans(CollectNameBids([w EXCEPT !.rex = update_rex_pool(@, ct)], ct), "cpu", max, ct),
        "net", max, ct) EXCEPT !.rex = FillOrders(@, max)]
=============================================================================
