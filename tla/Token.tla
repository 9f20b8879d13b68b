------------------------------- MODULE Token -------------------------------
(***************************************************************************)
(* eosio.token: the ledgers of the token contracts.  A contract keeps one  *)
(* row per symbol (stat: supply, max_supply, issuer) and one row per owner *)
(* and symbol (accounts: a balance).  Contracts is the set of accounts     *)
(* that run this code, so a row's key starts with the contract.            *)
(*                                                                         *)
(* A symbol stands for a code and its precision: every entry point refuses *)
(* a quantity whose precision is not the one of the row.  Transactions are *)
(* atomic: a check that fails reverts them, hence checks are guards.       *)
(***************************************************************************)
EXTENDS MultiIndex, Functions

CONSTANTS Contracts, Symbols, Accounts,
          MaxAmount        \* the largest amount an asset holds, 2^62 - 1

ASSUME MaxAmountAssumption == MaxAmount \in Nat

VARIABLES stat, accounts

tokenVars == <<stat, accounts>>

\* That retire leaves a supply that is not negative is a part of SuppliesMatch.
StatRows == [supply : Int, max_supply : 1 .. MaxAmount, issuer : Accounts]

\* The types of the two tables.
TokenTypeOK ==
    /\ DOMAIN stat \subseteq Contracts \X Symbols
    /\ \A k \in DOMAIN stat : stat[k] \in StatRows
    /\ DOMAIN accounts \subseteq Contracts \X Accounts \X Symbols
    /\ \A k \in DOMAIN accounts : accounts[k] \in Nat

-----------------------------------------------------------------------------
\* What balance_get_by_ctract reads: a missing row counts as zero.
BalanceIn(table, c, owner, s) ==
    IF <<c, owner, s>> \in DOMAIN table THEN table[<<c, owner, s>>] ELSE 0

BalanceOf(c, owner, s) == BalanceIn(accounts, c, owner, s)

\* sub_balance() finds the row and the row covers the amount.
Covers(c, owner, s, q) ==
    <<c, owner, s>> \in DOMAIN accounts /\ q =< accounts[<<c, owner, s>>]

sub_balance(table, c, owner, s, q) == [table EXCEPT ![<<c, owner, s>>] = @ - q]

\* Mutation: the row is written as if it were new.
overwrite_balance(table, c, owner, s, q) == Put(table, <<c, owner, s>>, q)

add_balance(table, c, owner, s, q) ==
    Put(table, <<c, owner, s>>, BalanceIn(table, c, owner, s) + q)

-----------------------------------------------------------------------------
Create(c, issuer, s, max_supply) ==
    /\ max_supply \in 1 .. MaxAmount
    /\ <<c, s>> \notin DOMAIN stat
    /\ stat' = Put(stat, <<c, s>>,
                   [supply |-> 0, max_supply |-> max_supply, issuer |-> issuer])
    /\ UNCHANGED accounts

Issue(c, to, s, q) ==
    /\ <<c, s>> \in DOMAIN stat
    /\ to = stat[<<c, s>>].issuer
    /\ q > 0
    /\ q =< stat[<<c, s>>].max_supply - stat[<<c, s>>].supply
    /\ stat' = [stat EXCEPT ![<<c, s>>].supply = @ + q]
    /\ accounts' = add_balance(accounts, c, to, s, q)

Retire(c, issuer, s, q) ==
    /\ <<c, s>> \in DOMAIN stat
    /\ issuer = stat[<<c, s>>].issuer
    /\ q > 0
    /\ Covers(c, issuer, s, q)
    /\ stat' = [stat EXCEPT ![<<c, s>>].supply = @ - q]
    /\ accounts' = sub_balance(accounts, c, issuer, s, q)

\* The checks of transfer and the balances it leaves; the recipients it then
\* notifies belong to the modules that compose with this one.
CanTransfer(c, from, to, s, q) ==
    /\ from # to
    /\ <<c, s>> \in DOMAIN stat
    /\ q > 0
    /\ Covers(c, from, s, q)

AfterTransfer(c, from, to, s, q) ==
    add_balance(sub_balance(accounts, c, from, s, q), c, to, s, q)

TokenTransfer(c, from, to, s, q) ==
    /\ CanTransfer(c, from, to, s, q)
    /\ accounts' = AfterTransfer(c, from, to, s, q)
    /\ UNCHANGED stat

Open(c, owner, s) ==
    /\ <<c, s>> \in DOMAIN stat
    /\ <<c, owner, s>> \notin DOMAIN accounts
    /\ accounts' = Put(accounts, <<c, owner, s>>, 0)
    /\ UNCHANGED stat

Close(c, owner, s) ==
    /\ <<c, owner, s>> \in DOMAIN accounts
    /\ accounts[<<c, owner, s>>] = 0
    /\ accounts' = Erase(accounts, <<c, owner, s>>)
    /\ UNCHANGED stat
-----------------------------------------------------------------------------
\* The supply of a token is what its holders have together, and never more than
\* max_supply: issue, retire, transfer, open and close each write a part of this.
SuppliesMatch ==
    \A k \in DOMAIN stat :
        /\ stat[k].supply = SumFunction([a \in Accounts |-> BalanceOf(k[1], a, k[2])])
        /\ stat[k].supply =< stat[k].max_supply
============================================================================
