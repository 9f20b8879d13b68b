----------------------------- MODULE Bandwidth ------------------------------
(***************************************************************************)
(* Staking for bandwidth, refunds (delegate_bandwidth.cpp) and the limits  *)
(* an administrator sets (eosio.system.cpp).  A refund comes by a deferred *)
(* transaction, or when the owner asks for it.                             *)
(***************************************************************************)
EXTENDS SystemContract

CONSTANTS Stakes,            \* net or cpu in one action
          Limits,            \* values of setalimits and setacct*
          refund_delay_sec

NoStake == [net |-> 0, cpu |-> 0]

Delegated(b, from, to) ==
    IF <<from, to>> \in DOMAIN b.delband THEN b.delband[<<from, to>>] ELSE NoStake

\* Tokens on their way back to x; none is a row of zeros.
NoRefund == [net |-> 0, cpu |-> 0, request_time |-> 0]
RefundOf(b, x) == IF x \in DOMAIN b.refunds THEN b.refunds[x] ELSE NoRefund

\* The stake that from has with receiver, the receiver's resources and limits.
StakeMoved(w, from, receiver, net, cpu) ==
    LET old     == Delegated(w.bw, from, receiver)
        stake   == [net |-> old.net + net, cpu |-> old.cpu + cpu]
        total   == Resources(w.bw, receiver)
        row     == [total EXCEPT !.net = @ + net, !.cpu = @ + cpu]
        managed == Managed(w.elect, receiver)
        limits  == w.bw.limits[receiver]
        ram     == IF {"net", "cpu"} \subseteq managed \/ "ram" \in managed THEN limits.ram
                   ELSE IF row.ram + ram_gift_bytes > limits.ram THEN row.ram + ram_gift_bytes
                   ELSE limits.ram
    IN  [w EXCEPT !.bw.delband = IF stake = NoStake THEN Erase(@, <<from, receiver>>)
                                 ELSE Put(@, <<from, receiver>>, stake),
                  !.bw.userres = PutResources(@, receiver, row),
                  !.bw.limits[receiver] = [LimitsOf(limits, row, managed) EXCEPT !.ram = ram]]

\* Mutation: what a refund covers is paid from the account again.
RefundChangedPaidTwice(w, x, net, cpu) ==
    LET old == RefundOf(w.bw, x)
        row == [net |-> Positive(old.net - net), cpu |-> Positive(old.cpu - cpu),
                request_time |-> IF net < 0 \/ cpu < 0 THEN now ELSE old.request_time]
    IN  [w |-> [w EXCEPT !.bw.refunds = IF row.net + row.cpu = 0 THEN Erase(@, x) ELSE Put(@, x, row)],
         due |-> Positive(net) + Positive(cpu),
         pending |-> row.net + row.cpu > 0]

\* What is unstaked goes into the refund of x, and starts its delay again; what
\* is staked is taken out of it first, and only the rest is due from the account.
RefundChanged(w, x, net, cpu) ==
    LET old == RefundOf(w.bw, x)
        row == [net |-> Positive(old.net - net), cpu |-> Positive(old.cpu - cpu),
                request_time |-> IF net < 0 \/ cpu < 0 THEN now ELSE old.request_time]
    IN  [w |-> [w EXCEPT !.bw.refunds = IF row.net + row.cpu = 0 THEN Erase(@, x) ELSE Put(@, x, row)],
         due |-> Positive(net - old.net) + Positive(cpu - old.cpu),
         pending |-> row.net + row.cpu > 0]

NoRefundChange(w, net, cpu) == [w |-> w, due |-> Positive(net + cpu), pending |-> FALSE]

\* The deferred transaction of x, replaced or cancelled.
Schedule(w, x, pending) ==
    [w EXCEPT !.bw.deferred = IF pending THEN Put(@, x, now + refund_delay_sec) ELSE Erase(@, x)]

RefundPaid(change, payer) ==
    IF change.due > 0 THEN Transfer(change.w, payer, stake_account, change.due) ELSE change.w

WithVotes(w, from, total) == update_voting_power(update_rex_stake(w, from), from, total, now)

RefundFor(moved, from, net, cpu, to_self) ==
    IF to_self \/ net + cpu < 0 THEN RefundChanged(moved, from, net, cpu)
    ELSE NoRefundChange(moved, net, cpu)

\* A stake for somebody else leaves a refund alone but cancels its transaction.
RefundScheduled(change, payer, from) == Schedule(RefundPaid(change, payer), from, change.pending)

StakeDone(w, from) == StakeCovered(w, from, now) /\ Become(w)

changebw_moved(moved, payer, from, net, cpu, to_self) ==
    /\ ResourcesCovered(moved)
    /\ StakeDone(WithVotes(RefundScheduled(RefundFor(moved, from, net, cpu, to_self), payer, from),
                           from, net + cpu), from)

changebw_from(payer, from, receiver, net, cpu, transfer) ==
    /\ Delegated(bw, from, receiver).net + net >= 0
    /\ Delegated(bw, from, receiver).cpu + cpu >= 0
    /\ changebw_moved(StakeMoved(World, from, receiver, net, cpu), payer, from, net, cpu,
                      ~ transfer /\ from = receiver)

\* payer stakes for receiver (or, with transfer, gives the stake away).
changebw(payer, receiver, net, cpu, transfer) ==
    changebw_from(payer, IF transfer THEN receiver ELSE payer, receiver, net, cpu, transfer)

DelegateBw(from, receiver, net, cpu, transfer) ==
    /\ net >= 0 /\ cpu >= 0 /\ net + cpu > 0
    /\ transfer => from # receiver
    /\ changebw(from, receiver, net, cpu, transfer)

UndelegateBw(from, receiver, net, cpu) ==
    /\ net >= 0 /\ cpu >= 0 /\ net + cpu > 0
    /\ elect.thresh_activated_stake_time # NoTime
    /\ changebw(from, receiver, - net, - cpu, FALSE)

CanRefund(x) == x \in DOMAIN bw.refunds /\ bw.refunds[x].request_time + refund_delay_sec =< now

Refunded(w, x) ==
    Transfer([w EXCEPT !.bw.refunds = Erase(@, x)], stake_account, x,
             w.bw.refunds[x].net + w.bw.refunds[x].cpu)

Refund(x) == CanRefund(x) /\ Become(Refunded(World, x))

\* The chain runs the scheduled transaction; one that fails is gone.
RunDeferred(x) ==
    LET gone == [World EXCEPT !.bw.deferred = Erase(@, x)]
    IN  /\ x \in DOMAIN bw.deferred /\ bw.deferred[x] =< now
        /\ Become(IF CanRefund(x) THEN Refunded(gone, x) ELSE gone)

-----------------------------------------------------------------------------
(* Limits, by eosio. *)

SetALimits(x, ram, net, cpu) ==
    /\ x \notin DOMAIN bw.userres
    /\ Managed(elect, x) = {}
    /\ Become([World EXCEPT !.bw.limits[x] = [net |-> net, cpu |-> cpu, ram |-> ram]])

\* setacctram, setacctnet, setacctcpu with a value: the resource is managed.
SetAcct(x, resource, value) ==
    /\ value >= (IF resource = "ram" THEN 0 ELSE -1)
    /\ Become([World EXCEPT
                  !.elect.voters = Put(@, x, [VoterRow(elect, x) EXCEPT
                                                 !.managed = Managed(elect, x) \cup {resource}]),
                  !.bw.limits[x][resource] = value])

\* Without a value: the limit follows the account's resources again.
UnsetAcct(x, resource) ==
    LET own == Resources(bw, x)[resource]
    IN  /\ resource \in Managed(elect, x)
        /\ Become([World EXCEPT !.elect.voters[x].managed = @ \ {resource},
                                !.bw.limits[x][resource] =
                                    IF resource = "ram" THEN own + ram_gift_bytes ELSE own])

-----------------------------------------------------------------------------
StakeStep(x) ==
    \/ \E receiver \in Users, net, cpu \in Stakes, transfer \in BOOLEAN :
           DelegateBw(x, receiver, net, cpu, transfer)
    \/ \E receiver \in Users, net, cpu \in Stakes : UndelegateBw(x, receiver, net, cpu)
    \/ Refund(x)
    \/ RunDeferred(x)

LimitStep(x) ==
    \/ \E ram, net, cpu \in Limits : SetALimits(x, ram, net, cpu)
    \/ \E resource \in {"ram", "net", "cpu"} :
           \/ \E value \in Limits : SetAcct(x, resource, value)
           \/ UnsetAcct(x, resource)

-----------------------------------------------------------------------------
\* What eosio.stake holds is what accounts have staked and what is on its way
\* back, whoever stakes for whom, with a refund under way or none, and whether
\* the transaction of a refund or its owner is first.
StakeBacked ==
    core[stake_account] = Sum(bw.delband, "net") + Sum(bw.delband, "cpu")
                            + Sum(bw.refunds, "net") + Sum(bw.refunds, "cpu")

\* Staked for x; lent to x, of a kind.
StakesFor(b, x) == [k \in {k \in DOMAIN b.delband : k[2] = x} |-> b.delband[k]]
LoansTo(r, x, kind) ==
    [n \in {n \in DOMAIN r.loans : r.loans[n].receiver = x /\ r.loans[n].kind = kind} |-> r.loans[n]]

\* What x may use of a kind.
Usable(b, r, x, kind) == Sum(StakesFor(b, x), kind) + Sum(LoansTo(r, x, kind), "total_staked")

\* Where a resource is not managed, the limit the chain enforces is what the
\* account has, and for RAM no less than that and the gift.  (An account eosio has
\* given limits keeps those for bandwidth as long as it has none of its own.)
LimitsFollow ==
    \A x \in DOMAIN bw.userres :
        LET own == bw.userres[x]
            limits == bw.limits[x]
            managed == Managed(elect, x)
        IN  /\ own.net + own.cpu > 0 =>
                   \A resource \in {"net", "cpu"} \ managed : limits[resource] = own[resource]
            /\ "ram" \notin managed /\ own.ram > 0 => limits.ram >= own.ram + ram_gift_bytes

\* What an account may use is what others and itself have staked for it and what
\* is lent to it, whoever has unstaked, turned a stake into REX, or called the
\* operation that has renewed or closed a loan in passing.
ResourcesAddUp ==
    /\ \A x \in Users :
           /\ Resources(bw, x).net = Usable(bw, rex, x, "net")
           /\ Resources(bw, x).cpu = Usable(bw, rex, x, "cpu")
    /\ LimitsFollow

\* A voter's stake is what the account has staked, for itself and for others,
\* and what its REX was worth the last time it was looked at; of a filled order
\* whose owner has not come, what is still to be taken off.
StakedAddsUp ==
    \A x \in Users :
        LET own == {k \in DOMAIN bw.delband : k[1] = x}
            pending == IF x \in DOMAIN rex.orders THEN rex.orders[x].stake_change ELSE 0
        IN  (IF x \in DOMAIN elect.voters THEN elect.voters[x].staked ELSE 0)
              = MapThenSumSet(LAMBDA k : bw.delband[k].net + bw.delband[k].cpu, own)
                  + VoteStake(rex, x) - pending
=============================================================================
