----------------------------- MODULE MCMultisig -----------------------------
(***************************************************************************)
(* Multisig for TLC: finitely many blocks, and a record of the transaction *)
(* each approver had read.                                                 *)
(***************************************************************************)
EXTENDS Multisig

CONSTANTS alice, bob, pay, rule, LastBlock

VARIABLE signed   \* <<key, level>> -> hash given with the last approval

AliceActive == <<alice, "active">>
BobActive   == <<bob, "active">>
BobOwner    == <<bob, "owner">>

MCLevels     == {AliceActive, BobActive}
MCExpiration == [trx \in {pay, rule} |-> IF trx = pay THEN 1 ELSE 2]
MCSufficient == [trx \in {pay, rule} |->
                    IF trx = pay THEN {{AliceActive, BobActive}} ELSE {{AliceActive}, {BobActive}}]
MCOldProposals == [k \in {<<bob, "old">>} |-> pay]
MCOldRequested == <<AliceActive, BobActive>>
MCRequests     == {<<AliceActive, BobActive>>, <<BobActive, BobActive>>}

ReadInit == Init /\ signed = EmptyTable

ReadNext ==
    \/ \E k \in Keys, level \in Levels, hash \in Transactions \cup {NoHash} :
           Approve(k, level, hash) /\ signed' = Put(signed, <<k, level>>, hash)
    \/ \E k \in Keys :
           /\ \/ \E requested \in Requests, trx \in Transactions : Propose(k[1], k[2], requested, trx)
              \/ \E level \in Levels : Unapprove(k, level)
              \/ \E account \in Accounts : Cancel(k, account) \/ Exec(k, account)
              \/ RunDeferred(k)
           /\ UNCHANGED signed
    \/ \E account \in Accounts : Invalidate(account) /\ UNCHANGED signed
    \/ now < LastBlock /\ NextBlock /\ UNCHANGED signed

ReadSpec == ReadInit /\ [][ReadNext]_<<msigVars, signed>>

\* An approval that names the hash of a transaction only ever counts for that
\* transaction, even if the proposer cancels and proposes another under the same
\* name at any moment before or after.
SignedAsRead ==
    \A k \in DOMAIN proposals : \A level \in ApprovedBy(k) :
        signed[<<k, level>>] \in {NoHash, proposals[k]}
=============================================================================
