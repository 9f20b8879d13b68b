---------------------------- MODULE MCGovernance ----------------------------
(***************************************************************************)
(* Votes, the pay of producers and name auctions, each with the parts it   *)
(* interacts with, as one behaviour after another: what may happen depends *)
(* on the scenario an initial state fixes.                                 *)
(***************************************************************************)
EXTENDS System

CONSTANTS Scenarios, MaxActions    \* scenario -> actions of users in a behaviour

VARIABLES scenario,
          left               \* actions of users that may follow

Start == Min(Times)
Tokens == 6
Staked == 1

WeightAtInstant == [t \in Times |-> IF t =< Start + 3 THEN 2 ELSE 4]
Locked          == [t \in Times |-> IF t =< Start + 3 THEN Staked ELSE 0]
ByName          == ("alice" :> 1) @@ ("bob" :> 2) @@ ("carol" :> 3) @@ ("io" :> 4) @@ ("eos" :> 5)
                   @@ ("a.io" :> 6) @@ ("twelveletter" :> 7)
SuffixOf        == ("io" :> "io") @@ ("eos" :> "eos") @@ ("a.io" :> "io") @@ ("twelveletter" :> "twelveletter")
BidsFor         == [name \in Names |-> IF name = "io" THEN 1 .. 4 ELSE {2}]
LogRate         == (0 :> 0) @@ (1 :> 1)
Budget          == [votes |-> 4, launch |-> 2, pay |-> 3, legacy |-> 3, names |-> 4]
BallotsOfTwo    == {{"alice"}, {"alice", "bob"}}

\* Everybody has staked for himself; alice and bob are producers, and carol has
\* voted for them (nobody has, where only names are looked at).
Registered(voted) ==
    LET staked == [EmptyElection EXCEPT
                      !.voters = [x \in Users |-> [NewVoter EXCEPT !.staked = Staked]],
                      !.thresh_activated_stake_time = 1]
        two    == register_producer(register_producer(staked, "alice", Start), "bob", Start)
    IN  IF voted THEN update_votes(two, "carol", Nobody, {"alice", "bob"}, Start) ELSE two

\* Besides, carol and alice are proxies, and bob follows alice.
WithProxies ==
    LET carol == regproxy(Registered(TRUE), "carol", TRUE, Start)
    IN  update_votes(regproxy(carol, "alice", TRUE, Start), "bob", "alice", {}, Start)

\* Nobody has voted, so that too little stake is activated.
Launch == [Registered(FALSE) EXCEPT !.thresh_activated_stake_time = NoTime]

\* Bob became a producer before the first row of producers2 was written.
FirstRelease ==
    [Registered(TRUE) EXCEPT !.producers2 = Erase(@, "bob"), !.producers["bob"].last_claim_time = 1,
                       !.total_vpay_share_change_rate = Registered(TRUE).producers["alice"].total_votes]

\* alice holds REX, or nobody does.
Pool(held) == IF held THEN Bought(EmptyRex, "alice", Tokens, Start) ELSE EmptyRex

GovernanceInit ==
    /\ scenario \in Scenarios /\ left = MaxActions[scenario]
    /\ now = Start
    /\ elect = CASE scenario = "legacy" -> FirstRelease
                [] scenario = "votes"  -> WithProxies
                [] scenario = "launch" -> Launch
                [] OTHER               -> Registered(scenario # "names")
    /\ bw = [EmptyBandwidth EXCEPT
                !.delband = [k \in {<<x, x>> : x \in Users} |-> [net |-> Staked, cpu |-> 0]],
                !.userres = [x \in Users |-> [NoResources EXCEPT !.net = Staked]],
                !.limits  = [x \in Users |-> [NoResources EXCEPT !.net = Staked]]]
    /\ \E held \in (IF scenario = "names" THEN BOOLEAN ELSE {FALSE}) :
          /\ rex = Pool(held)
          /\ core = [a \in Users \cup SystemAccounts |->
                        IF a \in Users THEN Tokens
                        ELSE IF a = stake_account THEN 3 * Staked
                        ELSE IF a = rex_account /\ held THEN Tokens ELSE 0]
    /\ ram = init(1, 0, now)
    /\ names = NoNames
    /\ pay = [NewPay(8, 1, 2, 2) EXCEPT !.revision = IF scenario = "pay" THEN 0 ELSE 1]

-----------------------------------------------------------------------------
VoteAction ==
    /\ \/ \E x \in Users : VoterStep(x)
       \/ ProducerStep("bob")
       \/ DelegateBw("bob", "bob", 1, 0, FALSE)
       \/ UndelegateBw("carol", "carol", 1, 0)
    /\ UNCHANGED <<names, pay>>

PayAction ==
    \/ \E x \in {"alice", "bob"} : ClaimRewards(x)
    \/ scenario = "pay" /\ PaySystemStep
    \/ /\ UNCHANGED <<names, pay>>
       /\ \/ \E producers \in Ballots : VoteProducer("carol", Nobody, producers)
          \/ ProducerStep("bob")

NameAction == NameStep /\ UNCHANGED pay

\* onblock comes first in a block, and with it what the block does.
InBlock == scenario = "votes" \/ pay.last_block_num = now

Action ==
    \/ scenario = "votes" /\ VoteAction
    \/ scenario \in {"launch", "pay", "legacy"} /\ PayAction
    \/ scenario = "names" /\ NameAction

BlockBegins ==
    /\ scenario # "votes"
    /\ \E producer \in (IF scenario = "names" THEN {"carol"} ELSE {"alice", "bob"}) : OnBlock(producer)

Chain ==
    \/ BlockBegins
    \/ /\ InBlock /\ UNCHANGED <<names, pay>>
       /\ \/ Tick /\ (scenario = "names" => now' - now # 4)
          \/ scenario = "names" /\ RexExec(2)
    \/ InBlock /\ Payback /\ UNCHANGED pay

GovernanceNext ==
    /\ UNCHANGED <<ram, scenario>>
    /\ \/ InBlock /\ left > 0 /\ left' = left - 1 /\ Action
       \/ UNCHANGED left /\ Chain

governance == <<system, ram, names, pay, scenario, left>>

\* Blocks that have come are begun, and the chain runs the transactions scheduled.
GovernanceSpec ==
    /\ GovernanceInit /\ [][GovernanceNext]_governance
    /\ WF_governance(BlockBegins /\ UNCHANGED <<ram, scenario, left>>)
    /\ \A x \in Bidders, name \in Names :
           WF_governance(InBlock /\ RunPayback(name, x) /\ UNCHANGED <<ram, pay, scenario, left>>)

-----------------------------------------------------------------------------
\* Nobody's share is diluted, unless there are producers of the first release.
SharesAddUp == scenario # "legacy" => SharesExact
=============================================================================
