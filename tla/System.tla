------------------------------- MODULE System -------------------------------
(***************************************************************************)
(* eosio.system as a whole: everything any of its parts may do, by any     *)
(* user, from the launch of the chain on.  MCMarkets and MCGovernance take *)
(* behaviours of it.                                                       *)
(***************************************************************************)
EXTENDS Voting, Rex, Bandwidth, RamMarket, ProducerPay

\* Who holds core tokens.
Holders == Users \cup SystemAccounts

\* Users are not the contract's own accounts, whose keys only eosio has.
ASSUME SystemAssumption ==
    /\ IsFiniteSet(Users) /\ IsFiniteSet(Names)
    /\ Users \cap SystemAccounts = {} /\ Users \cap Names = {} /\ Bidders \subseteq Users
    /\ Nobody \notin Users
    /\ ram_gift_bytes \in Nat /\ Limits \subseteq Int
    /\ Times \subseteq Nat /\ Times \subseteq DOMAIN WeightAt /\ MaxExecs \subseteq Nat
    /\ Never \in Nat /\ \A t \in Times : t + BucketInterval < Never
    /\ Amounts \subseteq Nat /\ RexAmounts \subseteq Nat /\ Stakes \subseteq Nat
    /\ Payments \subseteq Nat /\ Bytes \subseteq Nat
    /\ Rates \subseteq Nat /\ RamSizes \subseteq Nat \ {0} /\ RamWrap \in Nat \ {0}
    /\ Bids \in [Names -> SUBSET Nat]
    /\ \A a, b \in Users \cup Names : NameValue[a] \in Int /\ (NameValue[a] = NameValue[b] => a = b)

everything == <<system, ram, names, pay>>

SystemInit ==
    /\ now \in Times
    /\ core \in [Holders -> Nat] /\ \A a \in SystemAccounts : core[a] = 0
    /\ elect = EmptyElection /\ bw = EmptyBandwidth /\ rex = EmptyRex
    /\ \E size \in RamSizes, supply \in Nat : ram = init(size, supply, now)
    /\ names = NoNames
    /\ \E supply, rate \in Nat, f, g \in Factors : pay = NewPay(supply, rate, f, g)

\* What a user does.
UserStep(x) ==
    \/ UNCHANGED <<ram, names, pay>> /\ \/ VoterStep(x) \/ ProducerStep(x)
                                        \/ StakeStep(x)
                                        \/ RexOwnerStep(x) \/ RexUnstakeStep(x)
                                        \/ \E kind \in Kinds : RexLoanStep(x, kind)
    \/ RamStep(x) /\ UNCHANGED <<names, pay>>
    \/ ClaimRewards(x) /\ UNCHANGED ram

\* What eosio does.
SystemAccountStep ==
    \/ UNCHANGED <<ram, names, pay>> /\ \/ \E x \in Users : LimitStep(x)
                                        \/ \E balance \in Amounts : SetRex(balance)
    \/ RamSupplyStep /\ UNCHANGED <<names, pay>>
    \/ PaySystemStep /\ UNCHANGED ram

\* What comes with time and blocks; anybody may call rexexec.
ChainStep ==
    \/ UNCHANGED <<ram, names, pay>> /\ (Tick \/ \E max \in MaxExecs : RexExec(max))
    \/ \E producer \in Users : OnBlock(producer) /\ UNCHANGED ram
    \/ Payback /\ UNCHANGED <<ram, pay>>

SystemNext ==
    \/ \E x \in Users : UserStep(x)
    \/ NameStep /\ UNCHANGED <<ram, pay>>
    \/ SystemAccountStep
    \/ ChainStep

SystemSpec == SystemInit /\ [][SystemNext]_everything
=============================================================================
