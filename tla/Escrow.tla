------------------------------- MODULE Escrow -------------------------------
(***************************************************************************)
(* What the vesting contract promises, without dates, pauses or cliffs: an *)
(* escrow.  Of each registered symbol it holds a vault; a part of it is    *)
(* free, the rest is due to somebody.  A promise is paid out piece by      *)
(* piece; as long as it is open, what is left of it may be taken back once,*)
(* which closes it.                                                        *)
(***************************************************************************)
EXTENDS MultiIndex

CONSTANTS Accounts, Symbols, Amounts

VARIABLES vault,     \* symbol -> tokens held
          free,      \* symbol -> tokens not promised to anybody
          due,       \* id -> promise
          next       \* ids below it have been given

vars == <<vault, free, due, next>>

Promises == [to : Accounts, symbol : Symbols, owed : Nat, open : BOOLEAN]

Init == vault = EmptyTable /\ free = EmptyTable /\ due = EmptyTable /\ next = 0

Register(s) ==
    /\ s \notin DOMAIN vault
    /\ vault' = Put(vault, s, 0)
    /\ free' = Put(free, s, 0)
    /\ UNCHANGED <<due, next>>

\* Tokens come in, or unpromised ones leave (q < 0).
Fund(s, q) ==
    /\ s \in DOMAIN vault /\ free[s] + q >= 0
    /\ vault' = [vault EXCEPT ![s] = @ + q]
    /\ free' = [free EXCEPT ![s] = @ + q]
    /\ UNCHANGED <<due, next>>

Promise(to, s, q) ==
    /\ s \in DOMAIN free /\ 0 < q /\ q =< free[s]
    /\ free' = [free EXCEPT ![s] = @ - q]
    /\ due' = Put(due, next, [to |-> to, symbol |-> s, owed |-> q, open |-> TRUE])
    /\ next' = next + 1
    /\ UNCHANGED vault

Pay(id, q) ==
    /\ vault' = [vault EXCEPT ![due[id].symbol] = @ - q]
    /\ due' = [due EXCEPT ![id].owed = @ - q, ![id].open = @ /\ q < due[id].owed]
    /\ UNCHANGED <<free, next>>

Release(id, q) ==
    /\ due[id].open
    /\ free' = [free EXCEPT ![due[id].symbol] = @ + q]
    /\ due' = [due EXCEPT ![id].owed = @ - q, ![id].open = FALSE]
    /\ UNCHANGED <<vault, next>>

Forget(id) ==
    /\ due[id].owed = 0
    /\ due' = Erase(due, id)
    /\ UNCHANGED <<vault, free, next>>

Next ==
    \/ \E s \in Symbols :
           \/ Register(s)
           \/ \E q \in Amounts : Fund(s, q) \/ Fund(s, -q)
           \/ \E to \in Accounts, q \in Amounts : Promise(to, s, q)
    \/ \E id \in DOMAIN due :
           \/ \E q \in 1 .. due[id].owed : Pay(id, q)
           \/ \E q \in 0 .. due[id].owed : Release(id, q)
           \/ Forget(id)

Spec == Init /\ [][Next]_vars
=============================================================================
