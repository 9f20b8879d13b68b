----------------------------- MODULE MCFindings -----------------------------
(***************************************************************************)
(* The careful administrator with one freedom given back, and what the     *)
(* code says of itself that no longer holds.                               *)
(***************************************************************************)
EXTENDS MCCareful

\* withdraw is given any quantity, as the action accepts it.
AnyWithdrawSpec == Init /\ [][CarefulNext \/ WithdrawStep]_vars

\* assets.cpp asserts it before the books move: "Wrong asset_balance(%) expected
\* less or equal" the balance of the contract.  A state in which it is false is
\* one from which every deposit, withdrawal, grant and claim of the symbol fails.
AssetBalanceCovered ==
    \A s \in DOMAIN cmkassets : cmkassets[s].asset_balance =< BookedBalance(accounts, s)

\* A pause may be ended in advance, as the test of the pauses does.
AnnouncedSpec ==
    Init /\ [][ \/ CarefulNext
                \/ \E id \in Ids, t \in Dates : UnpauseVestng(id, t) ]_vars

\* assets.cpp asserts it too: "Wrong unallocated_balance(%) expected less or
\* equal" the balance of the contract.
UnallocatedCovered ==
    \A s \in DOMAIN cmkassets : cmkassets[s].unallocated_balance =< BookedBalance(accounts, s)

\* A holder's deposit is accepted when the holder signs the transfer, as it is
\* when the tests of the grants fill the contract ("Transaction must be signed by
\* tokens owner" asks for no more).  deposit() asks for the contract's authority,
\* which the notification of a transfer has only if that account signed it too.
OwnerMayDeposit ==
    \A s \in DOMAIN cmkassets, owner \in Accounts \ {Self} :
        LET c == cmkassets[s].asset_contract
        IN  Covers(c, owner, s, 1) =>
                ENABLED Transfer(c, {owner}, owner, Self, s, 1, "deposit")
=============================================================================
