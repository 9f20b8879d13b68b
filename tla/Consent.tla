------------------------------ MODULE Consent ------------------------------
(***************************************************************************)
(* What proposals of eosio.msig promise, without lists, times or blocks: a *)
(* transaction is sent when levels that suffice for it consent to it.      *)
(* Consent is given to one open proposal, may be withdrawn from it, and an *)
(* account may withdraw all of its consents at once.                       *)
(***************************************************************************)
EXTENDS MultiIndex

CONSTANTS Accounts, Keys, Levels, Transactions, Sufficient,
          Seed       \* the proposals that are open at the beginning

VARIABLES open,      \* key -> transaction
          consent,   \* key -> the levels that consent
          sent       \* key -> transaction on its way

vars == <<open, consent, sent>>

Init ==
    /\ open = Seed
    /\ consent = [k \in DOMAIN Seed |-> {}]
    /\ sent = EmptyTable

Open(k, trx) ==
    /\ k \notin DOMAIN open
    /\ open' = Put(open, k, trx)
    /\ consent' = Put(consent, k, {})
    /\ UNCHANGED sent

Agree(k, level) ==
    /\ k \in DOMAIN open
    /\ consent' = [consent EXCEPT ![k] = @ \cup {level}]
    /\ UNCHANGED <<open, sent>>

Withdraw(k, level) ==
    /\ k \in DOMAIN open
    /\ consent' = [consent EXCEPT ![k] = @ \ {level}]
    /\ UNCHANGED <<open, sent>>

WithdrawAll(account) ==
    /\ consent' = [k \in DOMAIN consent |-> {l \in consent[k] : l[1] # account}]
    /\ UNCHANGED <<open, sent>>

Close(k) ==
    /\ k \in DOMAIN open
    /\ open' = Erase(open, k)
    /\ consent' = Erase(consent, k)

Drop(k) == Close(k) /\ UNCHANGED sent

Send(k) ==
    /\ Close(k)
    /\ \E levels \in Sufficient[open[k]] : levels \subseteq consent[k]
    /\ k \notin DOMAIN sent
    /\ sent' = Put(sent, k, open[k])

Run(k) ==
    /\ k \in DOMAIN sent
    /\ sent' = Erase(sent, k)
    /\ UNCHANGED <<open, consent>>

Next ==
    \/ \E k \in Keys :
           \/ \E trx \in Transactions : Open(k, trx)
           \/ \E level \in Levels : Agree(k, level) \/ Withdraw(k, level)
           \/ Drop(k) \/ Send(k) \/ Run(k)
    \/ \E account \in Accounts : WithdrawAll(account)

Spec == Init /\ [][Next]_vars
============================================================================
