------------------------------ MODULE Multisig ------------------------------
(***************************************************************************)
(* eosio.msig: proposals of transactions that need the permission of       *)
(* several accounts.  The levels a proposal asks for approve it one by one *)
(* and may take that back; an account may invalidate all it has approved   *)
(* so far; whoever executes the proposal hands the transaction to the      *)
(* chain, which runs it later (a deferred transaction).                    *)
(*                                                                         *)
(* A key <<proposer, name>> is the scope and the primary key of a row.     *)
(* Rows made by an older release are in old_approvals and keep no times.   *)
(***************************************************************************)
EXTENDS MultiIndex, Sequences, SequencesExt

CONSTANTS Accounts,        \* they approve and execute
          Proposers,       \* those who propose
          Levels,          \* permission levels, <<actor, permission>>
          ProposalNames,
          Transactions,
          Expiration,      \* transaction -> its expiration, in seconds
          Sufficient,      \* transaction -> the sets of levels that authorize it
          OldProposals,    \* key -> transaction, left by the older release,
          OldRequested,    \*   all of them with these levels to approve
          Requests,        \* lists of levels that propose is given
          SecondLength     \* ticks of the clock in a second

Keys == Proposers \X ProposalNames

ASSUME MultisigAssumption ==
    /\ Levels \subseteq Accounts \X STRING
    /\ Expiration \in [Transactions -> Nat]
    /\ Sufficient \in [Transactions -> SUBSET SUBSET Levels]
    /\ DOMAIN OldProposals \subseteq Keys
    /\ \A k \in DOMAIN OldProposals : OldProposals[k] \in Transactions
    /\ OldRequested \in Seq(Levels) /\ Requests \subseteq Seq(Levels)
    /\ SecondLength \in Nat \ {0}

VARIABLES now,
          proposals,      \* key -> transaction
          approvals,      \* key -> levels requested, levels provided with their times
          old_approvals,  \* the same of the older release, all times 0
          invals,         \* account -> last_invalidation_time
          deferred        \* key (the sender_id) -> transaction the chain will run

msigVars == <<now, proposals, approvals, old_approvals, invals, deferred>>

ApprovalRows == [requested : Seq(Levels), provided : Seq([level : Levels, time : Nat])]

NoHash == "no hash"

Seconds(t) == t \div SecondLength

Expired(trx) == Expiration[trx] < Seconds(now)

\* check_transaction_authorization, of the chain: the levels satisfy every
\* authority the actions of the transaction declare.
Authorized(trx, levels) == \E set \in Sufficient[trx] : set \subseteq levels

\* Places of a level in the two lists of a row; 0 if it is not there.
RequestedAt(row, level) == SelectInSeq(row.requested, LAMBDA l : l = level)
ProvidedAt(row, level)  == SelectInSeq(row.provided, LAMBDA a : a.level = level)

\* Mutation: the level stays on the list of those who have not approved yet.
ProvideAgain(row, level, time) ==
    [requested |-> row.requested,
     provided  |-> Append(row.provided, [level |-> level, time |-> time])]

\* The first entry of the level moves from one list to the end of the other.
Provide(row, level, time) ==
    [requested |-> RemoveAt(row.requested, RequestedAt(row, level)),
     provided  |-> Append(row.provided, [level |-> level, time |-> time])]

TakeBack(row, level) ==
    [requested |-> Append(row.requested, level),
     provided  |-> RemoveAt(row.provided, ProvidedAt(row, level))]

-----------------------------------------------------------------------------
\* Inserting a row whose key is taken fails, in either table.
Propose(proposer, name, requested, trx) ==
    LET k == <<proposer, name>>
    IN  /\ ~ Expired(trx)
        /\ k \notin DOMAIN proposals
        /\ Authorized(trx, ToSet(requested))
        /\ k \notin DOMAIN approvals
        /\ proposals' = Put(proposals, k, trx)
        /\ approvals' = Put(approvals, k, [requested |-> requested, provided |-> <<>>])
        /\ UNCHANGED <<now, old_approvals, invals, deferred>>

\* Mutation: nobody compares the hash.
AnyHash(k, hash) == hash # NoHash => k \in DOMAIN proposals

\* The optional hash is the one of the transaction the approver has read.
HashMatches(k, hash) == hash # NoHash => k \in DOMAIN proposals /\ proposals[k] = hash

Approve(k, level, hash) ==
    /\ HashMatches(k, hash)
    /\ \/ /\ k \in DOMAIN approvals
          /\ RequestedAt(approvals[k], level) # 0
          /\ approvals' = [approvals EXCEPT ![k] = Provide(@, level, now)]
          /\ UNCHANGED old_approvals
       \/ /\ k \notin DOMAIN approvals /\ k \in DOMAIN old_approvals
          /\ RequestedAt(old_approvals[k], level) # 0
          /\ old_approvals' = [old_approvals EXCEPT ![k] = Provide(@, level, 0)]
          /\ UNCHANGED approvals
    /\ UNCHANGED <<now, proposals, invals, deferred>>

Unapprove(k, level) ==
    /\ \/ /\ k \in DOMAIN approvals
          /\ ProvidedAt(approvals[k], level) # 0
          /\ approvals' = [approvals EXCEPT ![k] = TakeBack(@, level)]
          /\ UNCHANGED old_approvals
       \/ /\ k \notin DOMAIN approvals /\ k \in DOMAIN old_approvals
          /\ ProvidedAt(old_approvals[k], level) # 0
          /\ old_approvals' = [old_approvals EXCEPT ![k] = TakeBack(@, level)]
          /\ UNCHANGED approvals
    /\ UNCHANGED <<now, proposals, invals, deferred>>

\* Mutation: the table of the older release is forgotten.
EraseNewApprovals(k) ==
    /\ approvals' = Erase(approvals, k)
    /\ UNCHANGED old_approvals

\* What cancel and exec erase beside the proposal.
EraseApprovals(k) ==
    \/ /\ k \in DOMAIN approvals
       /\ approvals' = Erase(approvals, k)
       /\ UNCHANGED old_approvals
    \/ /\ k \notin DOMAIN approvals /\ k \in DOMAIN old_approvals
       /\ old_approvals' = Erase(old_approvals, k)
       /\ UNCHANGED approvals

Cancel(k, canceler) ==
    /\ k \in DOMAIN proposals
    /\ canceler # k[1] => Expired(proposals[k])
    /\ proposals' = Erase(proposals, k)
    /\ EraseApprovals(k)
    /\ UNCHANGED <<now, invals, deferred>>

\* Mutation: an approval of the block of the invalidation counts.
CountsInBlock(approval) ==
    approval.level[1] \in DOMAIN invals => invals[approval.level[1]] =< approval.time

\* An approval counts unless its account has invalidated since, or in the same
\* block; one without a time unless its account has ever invalidated.
Counts(approval) ==
    approval.level[1] \in DOMAIN invals => invals[approval.level[1]] < approval.time

CountsOld(approval) == approval.level[1] \notin DOMAIN invals

ApprovedBy(k) ==
    IF k \in DOMAIN approvals
    THEN {a.level : a \in {b \in ToSet(approvals[k].provided) : Counts(b)}}
    ELSE {a.level : a \in {b \in ToSet(old_approvals[k].provided) : CountsOld(b)}}

\* Mutation: approvals that were invalidated are counted.
CanExecInvalidated(k) ==
    /\ k \in DOMAIN proposals /\ k \in DOMAIN approvals
    /\ ~ Expired(proposals[k])
    /\ Authorized(proposals[k], {a.level : a \in ToSet(approvals[k].provided)})

CanExec(k) ==
    /\ k \in DOMAIN proposals
    /\ ~ Expired(proposals[k])
    /\ Authorized(proposals[k], ApprovedBy(k))

\* The chain refuses a deferred transaction whose sender_id is taken.
Exec(k, executer) ==
    /\ CanExec(k)
    /\ EraseApprovals(k)
    /\ k \notin DOMAIN deferred
    /\ deferred' = Put(deferred, k, proposals[k])
    /\ proposals' = Erase(proposals, k)
    /\ UNCHANGED <<now, invals>>

Invalidate(account) ==
    /\ invals' = Put(invals, account, now)
    /\ UNCHANGED <<now, proposals, approvals, old_approvals, deferred>>

-----------------------------------------------------------------------------
\* The chain runs what was deferred, or gives it up.
RunDeferred(k) ==
    /\ k \in DOMAIN deferred
    /\ deferred' = Erase(deferred, k)
    /\ UNCHANGED <<now, proposals, approvals, old_approvals, invals>>

NextBlock ==
    /\ now' = now + 1
    /\ UNCHANGED <<proposals, approvals, old_approvals, invals, deferred>>

Init ==
    /\ now = 0
    /\ proposals = OldProposals
    /\ approvals = EmptyTable
    /\ old_approvals = [k \in DOMAIN OldProposals |-> [requested |-> OldRequested,
                                                       provided |-> <<>>]]
    /\ invals = EmptyTable
    /\ deferred = EmptyTable

KeyStep(k) ==
    \/ \E requested \in Requests, trx \in Transactions : Propose(k[1], k[2], requested, trx)
    \/ \E level \in Levels : \/ \E hash \in Transactions \cup {NoHash} : Approve(k, level, hash)
                             \/ Unapprove(k, level)
    \/ \E account \in Accounts : Cancel(k, account) \/ Exec(k, account)
    \/ RunDeferred(k)

Next ==
    \/ \E k \in Keys : KeyStep(k)
    \/ \E account \in Accounts : Invalidate(account)
    \/ NextBlock

Spec == Init /\ [][Next]_msigVars

-----------------------------------------------------------------------------
\* The types of the tables.
TypeOK ==
    /\ now \in Nat
    /\ DOMAIN proposals \subseteq Keys
    /\ \A k \in DOMAIN proposals : proposals[k] \in Transactions
    /\ \A k \in DOMAIN approvals : approvals[k] \in ApprovalRows
    /\ \A k \in DOMAIN old_approvals : old_approvals[k] \in ApprovalRows
    /\ DOMAIN invals \subseteq Accounts
    /\ \A a \in DOMAIN invals : invals[a] \in 0 .. now
    /\ DOMAIN deferred \subseteq Keys
    /\ \A k \in DOMAIN deferred : deferred[k] \in Transactions

\* No approval is later than now.
TimesPassed ==
    \A k \in DOMAIN approvals : \A a \in ToSet(approvals[k].provided) : a.time =< now

\* Each proposal has its approvals in exactly one of the two tables, and approvals
\* have their proposal: propose, cancel and exec write the tables one by one, and a
\* row left behind would block the name for ever or hand old approvals to the next
\* proposal of that name.
TablesMatch ==
    /\ DOMAIN proposals = DOMAIN approvals \cup DOMAIN old_approvals
    /\ DOMAIN approvals \cap DOMAIN old_approvals = {}

\* The levels of a row, provided or still requested, each as often as it is there.
Asked(row) ==
    ToBag(row.requested \o [i \in DOMAIN row.provided |-> row.provided[i].level])

\* Nothing asked of a proposal is lost or made up: as long as it is open, approve
\* and unapprove only move the levels between its two lists.
AskedForStays ==
    [][ /\ \A k \in DOMAIN approvals \cap DOMAIN approvals' :
               Asked(approvals'[k]) = Asked(approvals[k])
        /\ \A k \in DOMAIN old_approvals \cap DOMAIN old_approvals' :
               Asked(old_approvals'[k]) = Asked(old_approvals[k]) ]_msigVars

\* The row of k, in whichever table it is.
RowOf(k) == IF k \in DOMAIN approvals THEN approvals[k] ELSE old_approvals[k]

\* What is taken back does not count any more: after an invalidation no approval
\* of the account does, in any proposal and whenever in the same block it was
\* given, and after unapprove the level does not, if it was asked for once.
WithdrawalCounts ==
    [][ \A k \in DOMAIN proposals \cap DOMAIN proposals' :
            \A level \in Levels :
                \/ Invalidate(level[1])
                \/ /\ Unapprove(k, level)
                   /\ Asked(RowOf(k))[level] = 1
                => level \notin ApprovedBy(k)' ]_msigVars

-----------------------------------------------------------------------------
\* Proposals as consents.
Agreement == INSTANCE Consent WITH
    Seed    <- OldProposals,
    open    <- proposals,
    consent <- [k \in DOMAIN proposals |-> ApprovedBy(k)],
    sent    <- deferred

\* Every step of the contract is a step of the agreement or none: an executed
\* transaction has the consent of levels that suffice, each given to this very
\* proposal and neither taken back nor invalidated since; it is sent once.
IsAgreement == Agreement!Spec
=============================================================================
