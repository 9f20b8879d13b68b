----------------------------- MODULE MCMarkets ------------------------------
(***************************************************************************)
(* The resource exchange, staking and the RAM market with what they do to  *)
(* each other, on a small instance: two users who vote and hold tokens, a  *)
(* loan of two intervals, and blocks at a few instants.  What may happen   *)
(* depends on the scenario an initial state fixes.                         *)
(***************************************************************************)
EXTENDS System

CONSTANTS Scenarios,
          MaxActions         \* scenario -> actions of users in a behaviour

VARIABLES scenario,
          left               \* actions of users that may follow

Start == Min(Times)

EachInstant   == [t \in Times |-> 2]
NothingLocked == [t \in Times |-> 0]
ByName        == ("alice" :> 1) @@ ("bob" :> 2)
Budget        == [rex |-> 4, stakes |-> 3, ram |-> 5]
OneBallot     == {{"bob"}}
NoFunction    == EmptyTable

\* What they have in their funds, have bought REX for, and have staked.
Fund     == ("alice" :> 3) @@ ("bob" :> 6)
Invested == ("alice" :> 5) @@ ("bob" :> 3)
Staked   == 3
Tokens   == 3
RamSize  == 16
RamPrice == 8

-----------------------------------------------------------------------------
(* The tables as the handlers leave them: both have voted for a producer,  *)
(* bob himself, have staked for themselves and have bought REX once.       *)

VotedForBob ==
    [EmptyElection EXCEPT
        !.voters = [x \in Users |-> [NewVoter EXCEPT !.producers = {"bob"}]],
        !.producers = "bob" :> NewProducer(Start), !.producers2 = "bob" :> NewProducer2(Start),
        !.thresh_activated_stake_time = Start]

Stake(w, x) ==
    update_voting_power(
        [update_resource_limits(w, x, Staked, 0) EXCEPT
            !.bw.delband = Put(@, <<x, x>>, [net |-> Staked, cpu |-> 0])],
        x, Staked, Start)

Invest(w, x) ==
    update_rex_account([w EXCEPT !.rex = Bought(@, x, Invested[x], Start)],
                       x, 0, Invested[x], FALSE, Start)

Booted ==
    LET held(a) == IF a = rex_account THEN TotalOf(Fund, Users) + TotalOf(Invested, Users)
                   ELSE IF a = stake_account THEN 2 * Staked
                   ELSE IF a \in Users THEN Tokens ELSE 0
        bare    == [elect |-> VotedForBob,
                    bw |-> [EmptyBandwidth EXCEPT !.userres = [x \in Users |-> NoResources],
                                                  !.limits = [x \in Users |-> NoResources]],
                    rex |-> [EmptyRex EXCEPT !.funds = Fund],
                    core |-> [a \in Users \cup SystemAccounts |-> held(a)]]
    IN  Invest(Invest(Stake(Stake(bare, "alice"), "bob"), "alice"), "bob")

MarketsInit ==
    /\ scenario \in Scenarios /\ left = MaxActions[scenario]
    /\ now = Start
    /\ \E w \in {Booted} : elect = w.elect /\ bw = w.bw /\ rex = w.rex /\ core = w.core
    /\ ram = init(RamSize, 1000 * RamPrice, now)
    /\ names = NoNames /\ pay = NewPay(0, 0, 1, 1)

-----------------------------------------------------------------------------
\* Alice invests, bob rents and sells, eosio sets the rent.
RexAction ==
    \/ RexOwnerStep("alice")
    \/ \E kind \in Kinds : RexLoanStep("bob", kind)
    \/ \E amount \in RexAmounts : SellRex("bob", amount)
    \/ \E balance \in Amounts : SetRex(balance)

\* Both stake, unstake and sell REX, which has the price it began with.
StakeAction ==
    \/ \E x \in Users :
           \/ StakeStep(x)
           \/ \E amount \in RexAmounts : SellRex(x, amount)
           \/ \E producers \in Ballots : VoteProducer(x, Nobody, producers)
    \/ RexUnstakeStep("alice")
    \/ LimitStep("alice")

RamAction ==
    \/ \E x \in Users : RamStep(x)
    \/ RamSupplyStep
    \/ DelegateBw("alice", "bob", 1, 0, FALSE) /\ UNCHANGED ram

Action ==
    \/ UNCHANGED ram /\ \/ scenario = "rex" /\ RexAction
                        \/ scenario = "stakes" /\ StakeAction
    \/ scenario = "ram" /\ RamAction

Maintenance == scenario = "rex" /\ \E max \in MaxExecs : RexExec(max)

MarketsNext ==
    /\ UNCHANGED <<names, pay, scenario>>
    /\ \/ left > 0 /\ left' = left - 1 /\ Action
       \/ UNCHANGED <<ram, left>> /\ (Tick \/ Maintenance)

markets == <<system, ram, names, pay, scenario, left>>

\* Blocks go on, and somebody calls rexexec as long as it has something to do.
\* (The last conjunct is WF_system(Maintenance), with what disables it spelt out.)
NothingDue == scenario # "rex" \/ \A max \in MaxExecs : runrex(World, max, now) = World

MarketsSpec ==
    /\ MarketsInit /\ [][MarketsNext]_markets
    /\ WF_system(Tick)
    /\ []<> NothingDue \/ []<><<Maintenance>>_system
=============================================================================
