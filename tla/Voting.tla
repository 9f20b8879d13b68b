------------------------------- MODULE Voting -------------------------------
(***************************************************************************)
(* Who produces blocks: voters, proxies and producers (voting.cpp).        *)
(***************************************************************************)
EXTENDS SystemContract

CONSTANT Ballots             \* sets of producers to vote for

\* The vote is cast with what the REX of x is worth now.
VoteProducer(x, proxy, producers) ==
    LET valued == update_rex_stake(World, x)
        w      == [valued EXCEPT !.elect = update_votes(@, x, proxy, producers, now)]
    IN  /\ CanVote(valued.elect, x, proxy, producers, TRUE)
        /\ x \in DOMAIN rex.balances /\ rex.balances[x].rex_balance > 0 =>
               check_voting_requirement(w.elect, x)
        /\ Become(w)

RegProxy(x, isproxy) ==
    /\ CanRegProxy(elect, x, isproxy)
    /\ Become([World EXCEPT !.elect = regproxy(@, x, isproxy, now)])

\* regproducer, regproducer2: keys, url and location are left out.
RegProducer(x) == Become([World EXCEPT !.elect = register_producer(@, x, now)])

\* unregprod, and rmvproducer by eosio.
UnregProd(x) ==
    /\ x \in DOMAIN elect.producers
    /\ Become([World EXCEPT !.elect = deactivate(@, x)])

-----------------------------------------------------------------------------
VoterStep(x) ==
    \/ \E proxy \in Users : VoteProducer(x, proxy, {})
    \/ \E producers \in Ballots : VoteProducer(x, Nobody, producers)
    \/ \E isproxy \in BOOLEAN : RegProxy(x, isproxy)

ProducerStep(x) == RegProducer(x) \/ UnregProd(x)

-----------------------------------------------------------------------------
Weights(voters) == TotalOf([v \in voters |-> elect.voters[v].last_vote_weight], voters)

\* What a producer has is what those give it that vote for it directly.
ProducersCounted ==
    LET Voters(p) == {v \in DOMAIN elect.voters : p \in elect.voters[v].producers}
        producers == DOMAIN elect.producers
    IN  /\ \A p \in producers : elect.producers[p].total_votes = Weights(Voters(p))
        /\ elect.total_producer_vote_weight = Sum(elect.producers, "total_votes")

\* What a proxy votes with is what those who follow it have given it.
ProxiesCounted ==
    \A x \in DOMAIN elect.voters :
        elect.voters[x].proxied_vote_weight
            = Weights({v \in DOMAIN elect.voters : elect.voters[v].proxy = x})

\* A vote weighs what its voter's stake weighed at some time, with what a proxy's
\* followers give it now; who has ceased to be a proxy has its own stake only.
WeightCurrent ==
    \A x \in DOMAIN elect.voters :
        LET v == elect.voters[x]
        IN  v.producers # {} \/ v.proxy # Nobody =>
                \E t \in Times : t =< now /\ v.last_vote_weight = VoteWeight(v, t)

\* Every vote counts once, with no more and no less than is the voter's: it is
\* taken back with the weight it was cast with, although the stake, the time and
\* the proxies that add to it have changed since, and also after a proxy has
\* ceased to be one, followed another and come back.
VotesAddUp == ProducersCounted /\ ProxiesCounted /\ WeightCurrent

\* Following proxies never leads back: the recursion of propagate_weight_change
\* ends, although a former proxy may follow one while others still follow it.
NoProxyCycle ==
    \A x \in DOMAIN elect.voters :
        LET chain == ProxyChain(elect.voters, x)
        IN  elect.voters[chain[Len(chain)]].proxy = Nobody
=============================================================================
