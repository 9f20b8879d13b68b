----------------------------- MODULE MultiIndex -----------------------------
(***************************************************************************)
(* Tables of an EOSIO contract (eosio::multi_index): a table is a function *)
(* from the primary keys of its rows to the rows.                          *)
(***************************************************************************)
EXTENDS Integers

EmptyTable == [k \in {} |-> k]

\* emplace(), or modify() when the key has a row already.
Put(table, key, row) ==
    [k \in DOMAIN table \cup {key} |-> IF k = key THEN row ELSE table[k]]

Erase(table, key) == [k \in DOMAIN table \ {key} |-> table[k]]

\* One more than the last key; 0 in an empty table.
available_primary_key(table) ==
    IF DOMAIN table = {}
    THEN 0
    ELSE 1 + CHOOSE k \in DOMAIN table : \A j \in DOMAIN table : j =< k
=============================================================================
