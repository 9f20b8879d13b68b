------------------------------ MODULE Election ------------------------------
(***************************************************************************)
(* Voters, producers and the global sums about them (voting.cpp), as       *)
(* operators on one record:                                                *)
(*   voters, producers, producers2     the tables                          *)
(*   total_producer_vote_weight, total_producer_votepay_share,             *)
(*   total_vpay_share_change_rate, last_vpay_state_update,                 *)
(*   total_activated_stake, thresh_activated_stake_time    the globals     *)
(* A weight is a double in the code; here stake times an even WeightAt, so *)
(* that sums are exact and no change but a zero one is below the 1 that    *)
(* propagate_weight_change ignores.                                        *)
(***************************************************************************)
EXTENDS MultiIndex, Naturals, Sequences, FiniteSets, FiniteSetsExt, SequencesExt

CONSTANTS Nobody,            \* name(0)
          WeightAt,          \* time -> 2^(years since launch), by the week, scaled
          MinActivatedStake, \* 15% of all tokens
          MaxVotes,          \* 30
          Day                \* ticks of a day

ASSUME ElectionAssumption ==
    /\ Day \in Nat \ {0} /\ MinActivatedStake \in Nat \ {0} /\ MaxVotes \in Nat
    /\ \A t \in DOMAIN WeightAt : WeightAt[t] \in Nat \ {0} /\ WeightAt[t] % 2 = 0

NoTime == 0                  \* time_point()

TotalOf(f, keys) == MapThenSumSet(LAMBDA k : f[k], keys)
Sum(table, field) == TotalOf([k \in DOMAIN table |-> table[k][field]], DOMAIN table)
Positive(n) == IF n < 0 THEN 0 ELSE n

NewVoter == [staked |-> 0, producers |-> {}, proxy |-> Nobody, is_proxy |-> FALSE,
             last_vote_weight |-> 0, proxied_vote_weight |-> 0, managed |-> {}]

NewProducer(ct) ==
    [total_votes |-> 0, is_active |-> TRUE, unpaid_blocks |-> 0, last_claim_time |-> ct]

NewProducer2(ct) == [votepay_share |-> 0, last_votepay_share_update |-> ct]

stake2vote(staked, ct) == staked * WeightAt[ct]

VoteWeight(voter, ct) ==
    stake2vote(voter.staked, ct) + (IF voter.is_proxy THEN voter.proxied_vote_weight ELSE 0)

\* Shares grow at the rate since the last update; neither goes below zero.
update_total_votepay_share(e, ct, additional_shares_delta, shares_rate_delta) ==
    LET grown == IF ct > e.last_vpay_state_update
                 THEN e.total_vpay_share_change_rate * (ct - e.last_vpay_state_update)
                 ELSE 0
    IN  [e EXCEPT !.total_producer_votepay_share = Positive(@ + grown + additional_shares_delta),
                  !.total_vpay_share_change_rate = Positive(@ + shares_rate_delta),
                  !.last_vpay_state_update = ct]

\* What a producer's share has grown to.
ShareNow(producer2, ct, shares_rate) ==
    producer2.votepay_share
      + (IF shares_rate > 0 /\ ct > producer2.last_votepay_share_update
         THEN shares_rate * (ct - producer2.last_votepay_share_update)
         ELSE 0)

update_producer_votepay_share(producer2, ct, shares_rate, reset_to_zero) ==
    [votepay_share |-> IF reset_to_zero THEN 0 ELSE ShareNow(producer2, ct, shares_rate),
     last_votepay_share_update |-> ct]

\* A producer that has not claimed for three days stops earning shares.
ClaimPlus3Days(producer) == producer.last_claim_time + 3 * Day
CrossedThreshold(producer, ct) == ClaimPlus3Days(producer) =< ct
UpdatedAfterThreshold(producer, producer2) ==
    ClaimPlus3Days(producer) =< producer2.last_votepay_share_update

\* The rate at which p, which has a row of shares, earns them.
EarningRate(e, p) ==
    IF UpdatedAfterThreshold(e.producers[p], e.producers2[p]) THEN 0 ELSE e.producers[p].total_votes

EarnedShare(e, p, ct) == ShareNow(e.producers2[p], ct, EarningRate(e, p))

\* Producers whose threshold has passed since their last update.
Late(e, sharing, ct) ==
    {p \in sharing : /\ CrossedThreshold(e.producers[p], ct)
                     /\ ~ UpdatedAfterThreshold(e.producers[p], e.producers2[p])}

\* Mutation: a producer's share stays although the total has lost it.
WithSharesKept(e, ct, sharing, late) ==
    [p \in DOMAIN e.producers2 |->
        IF p \in sharing
        THEN update_producer_votepay_share(e.producers2[p], ct, EarningRate(e, p), FALSE)
        ELSE e.producers2[p]]

SharesUpdated(e, ct, sharing, late) ==
    [p \in DOMAIN e.producers2 |->
        IF p \in sharing
        THEN update_producer_votepay_share(e.producers2[p], ct, EarningRate(e, p), p \in late)
        ELSE e.producers2[p]]

\* Negative sums are cut in update_votes only.
VotesChanged(e, delta, counted, clamped) ==
    [p \in DOMAIN e.producers |->
        IF p \in counted
        THEN [e.producers[p] EXCEPT !.total_votes = IF clamped THEN Positive(@ + delta[p])
                                                    ELSE @ + delta[p]]
        ELSE e.producers[p]]

ChangeVotesOf(e, ct, delta, clamped, counted, sharing, late) ==
    update_total_votepay_share(
        [e EXCEPT !.producers = VotesChanged(e, delta, counted, clamped),
                  !.producers2 = SharesUpdated(e, ct, sharing, late),
                  !.total_producer_vote_weight = @ + TotalOf(delta, counted)],
        ct,
        - MapThenSumSet(LAMBDA p : EarnedShare(e, p, ct), late),
        TotalOf(delta, {p \in sharing : ~ CrossedThreshold(e.producers[p], ct)})
          - MapThenSumSet(LAMBDA p : e.producers[p].total_votes, late))

ChangeVotesOfCounted(e, ct, delta, clamped, counted, sharing) ==
    ChangeVotesOf(e, ct, delta, clamped, counted, sharing, Late(e, sharing, ct))

\* delta[p] votes more for each producer p, and what that means for the shares:
\* those of a producer whose threshold has passed since its last update are
\* taken out of the total, once.
ChangeVotes(e, ct, delta, clamped) ==
    ChangeVotesOfCounted(e, ct, delta, clamped, DOMAIN delta \cap DOMAIN e.producers,
                         DOMAIN delta \cap DOMAIN e.producers \cap DOMAIN e.producers2)

-----------------------------------------------------------------------------
\* x, its proxy, the proxy of that one (which was no proxy any more when it
\* chose one), and so on.
ProxyChain(voters, x) ==
    LET up[n \in Nat] == IF n = 0 THEN x
                         ELSE IF up[n - 1] = Nobody THEN Nobody ELSE voters[up[n - 1]].proxy
        length == Cardinality({n \in 0 .. Cardinality(DOMAIN voters) : up[n] # Nobody})
    IN  [i \in 1 .. length |-> up[i - 1]]

\* A change that is not worth it is kept to oneself.
Matters(change) == change > 1 \/ change < -1

\* The change of a voter's weight goes to its proxy, or to its producers.
PassOn(e, voter, change, ct) ==
    IF ~ Matters(change) THEN e
    ELSE IF voter.proxy # Nobody
    THEN [e EXCEPT !.voters[voter.proxy].proxied_vote_weight = @ + change]
    ELSE ChangeVotes(e, ct, [p \in voter.producers |-> change], FALSE)

Link(e, y, voter, weight, ct) ==
    [e |-> [PassOn(e, voter, weight - voter.last_vote_weight, ct) EXCEPT
               !.voters[y].last_vote_weight = weight],
     on |-> Matters(weight - voter.last_vote_weight)]

\* One link.  Its check that nobody both is and uses a proxy never fails.
PropagateLink(state, y, ct) ==
    IF ~ state.on THEN state
    ELSE Link(state.e, y, state.e.voters[y], VoteWeight(state.e.voters[y], ct), ct)

propagate_weight_change(e, x, ct) ==
    LET chain == ProxyChain(e.voters, x)
        after[n \in Nat] == IF n = 0 THEN [e |-> e, on |-> TRUE]
                            ELSE PropagateLink(after[n - 1], chain[n], ct)
    IN  after[Len(chain)].e

\* weight comes to (or, negative, goes from) a proxy.
AddProxied(e, proxy, weight, ct) ==
    propagate_weight_change([e EXCEPT !.voters[proxy].proxied_vote_weight = @ + weight], proxy, ct)

CanVote(e, x, proxy, producers, voting) ==
    /\ x \in DOMAIN e.voters
    /\ IF proxy # Nobody
       THEN /\ producers = {} /\ x # proxy /\ ~ e.voters[x].is_proxy
            /\ proxy \in DOMAIN e.voters /\ (voting => e.voters[proxy].is_proxy)
       ELSE Cardinality(producers) =< MaxVotes
    /\ producers \subseteq DOMAIN e.producers
    /\ voting => \A p \in producers : e.producers[p].is_active

\* The first vote of a voter activates its stake.
ActivateStake(e, x, ct) ==
    LET activated == e.total_activated_stake + e.voters[x].staked
    IN  IF e.thresh_activated_stake_time = NoTime /\ e.voters[x].last_vote_weight =< 0
        THEN [e EXCEPT !.total_activated_stake = activated,
                       !.thresh_activated_stake_time =
                            IF activated >= MinActivatedStake THEN ct ELSE @]
        ELSE e

\* Mutation: the weight taken back from the old proxy is the new one.
LeaveProxyNewWeight(e, voter, ct) ==
    IF voter.last_vote_weight > 0 /\ voter.proxy # Nobody
    THEN AddProxied(e, voter.proxy, - VoteWeight(voter, ct), ct)
    ELSE e

LeaveProxy(e, voter, ct) ==
    IF voter.last_vote_weight > 0 /\ voter.proxy # Nobody
    THEN AddProxied(e, voter.proxy, - voter.last_vote_weight, ct)
    ELSE e

JoinProxy(e, proxy, weight, ct) ==
    IF proxy # Nobody /\ weight >= 0 THEN AddProxied(e, proxy, weight, ct) ELSE e

\* The votes that a new vote takes back, and those it gives.
OldVotes(voter) ==
    IF voter.last_vote_weight > 0 /\ voter.proxy = Nobody THEN voter.producers ELSE {}

VoteChanges(old, last, new, weight) ==
    [p \in old \cup new |-> (IF p \in new THEN weight ELSE 0) - (IF p \in old THEN last ELSE 0)]

CastVote(e, x, voter, weight, proxy, producers, ct) ==
    [ChangeVotes(JoinProxy(LeaveProxy(ActivateStake(e, x, ct), voter, ct), proxy, weight, ct),
                 ct,
                 VoteChanges(OldVotes(voter), voter.last_vote_weight,
                             IF weight >= 0 THEN producers ELSE {}, weight),
                 TRUE) EXCEPT
        !.voters[x] = [@ EXCEPT !.last_vote_weight = weight,
                                !.producers = producers, !.proxy = proxy]]

\* Undo the last vote of x, then cast the new one.
update_votes(e, x, proxy, producers, ct) ==
    CastVote(e, x, e.voters[x], VoteWeight(e.voters[x], ct), proxy, producers, ct)

-----------------------------------------------------------------------------
\* Mutation: who follows a proxy may become one.
CanRegProxyFollowing(e, x, isproxy) == x \in DOMAIN e.voters => isproxy # e.voters[x].is_proxy

CanRegProxy(e, x, isproxy) ==
    x \in DOMAIN e.voters =>
        /\ isproxy # e.voters[x].is_proxy
        /\ isproxy => e.voters[x].proxy = Nobody

regproxy(e, x, isproxy, ct) ==
    IF x \in DOMAIN e.voters
    THEN propagate_weight_change([e EXCEPT !.voters[x].is_proxy = isproxy], x, ct)
    ELSE [e EXCEPT !.voters = Put(@, x, [NewVoter EXCEPT !.is_proxy = isproxy])]

\* A producer of the first release gets its row of producers2, and its votes
\* count for the shares from then on.
register_producer(e, x, ct) ==
    IF x \in DOMAIN e.producers
    THEN LET since == e.producers[x].last_claim_time
             back  == [e EXCEPT !.producers[x] =
                           [@ EXCEPT !.is_active = TRUE,
                                     !.last_claim_time = IF since = NoTime THEN ct ELSE since]]
         IN  IF x \in DOMAIN e.producers2 THEN back
             ELSE update_total_votepay_share(
                      [back EXCEPT !.producers2 = Put(@, x, NewProducer2(ct))],
                      ct, 0, e.producers[x].total_votes)
    ELSE [e EXCEPT !.producers = Put(@, x, NewProducer(ct)),
                   !.producers2 = Put(@, x, NewProducer2(ct))]

deactivate(e, x) == [e EXCEPT !.producers[x].is_active = FALSE]

\* The 21 (here: seats) producers with the most votes, among equals any.
MayBeElected(e, seats, elected) ==
    LET running == {p \in DOMAIN e.producers : e.producers[p].is_active /\ e.producers[p].total_votes > 0}
    IN  /\ elected \subseteq running
        /\ Cardinality(elected) = (IF Cardinality(running) < seats THEN Cardinality(running) ELSE seats)
        /\ \A p \in elected, q \in running \ elected :
               e.producers[p].total_votes >= e.producers[q].total_votes
=============================================================================
