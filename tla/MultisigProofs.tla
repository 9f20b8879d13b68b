--------------------------- MODULE MultisigProofs ---------------------------
(***************************************************************************)
(* Theorems about eosio.msig, for all sets of accounts, levels, names and  *)
(* transactions, and proposals of the older release among them: its tables *)
(* match, and it implements Consent, so a transaction is sent only when    *)
(* levels that suffice for it consent to this very proposal.  Of the       *)
(* approvals: the levels asked for are neither lost nor doubled, and the   *)
(* hash an approver names binds the approval to that transaction, however  *)
(* often a name is proposed again.                                         *)
(***************************************************************************)
EXTENDS MCMultisig, SumsProofs, SequenceTheorems, FunctionTheorems, FiniteSetTheorems

-----------------------------------------------------------------------------
(* Proposals and the two tables of approvals. *)

\* Erasing the approvals of a proposal together with it keeps the tables matched:
\* the key is in exactly one of them, and that is the one it is erased from.
LEMMA CloseKeepsMatch ==
    ASSUME NEW k, TablesMatch, k \in DOMAIN proposals,
           proposals' = Erase(proposals, k), EraseApprovals(k)
    PROVE  TablesMatch'
<1>1. DOMAIN proposals' = DOMAIN proposals \ {k}
    BY DEF Erase
<1>2. CASE k \in DOMAIN approvals /\ approvals' = Erase(approvals, k) /\ UNCHANGED old_approvals
  <2>1. DOMAIN approvals' = DOMAIN approvals \ {k}
      BY <1>2 DEF Erase
  <2>2. DOMAIN old_approvals' = DOMAIN old_approvals /\ k \notin DOMAIN old_approvals
      BY <1>2 DEF TablesMatch
  <2> QED BY <1>1, <2>1, <2>2 DEF TablesMatch
<1>3. CASE /\ k \notin DOMAIN approvals /\ k \in DOMAIN old_approvals
           /\ old_approvals' = Erase(old_approvals, k) /\ UNCHANGED approvals
  <2>1. DOMAIN old_approvals' = DOMAIN old_approvals \ {k}
      BY <1>3 DEF Erase
  <2>2. DOMAIN approvals' = DOMAIN approvals
      BY <1>3
  <2> QED BY <1>1, <1>3, <2>1, <2>2 DEF TablesMatch
<1> QED BY <1>2, <1>3 DEF EraseApprovals

\* Steps that keep the keys of the three tables keep them matched.
LEMMA SameKeysMatch ==
    ASSUME TablesMatch, DOMAIN proposals' = DOMAIN proposals,
           DOMAIN approvals' = DOMAIN approvals,
           DOMAIN old_approvals' = DOMAIN old_approvals
    PROVE  TablesMatch'
BY DEF TablesMatch

\* The tables match at the beginning: only the older release has left proposals.
LEMMA InitMatch == Init => TablesMatch
BY DEF Init, TablesMatch, EmptyTable

\* Every action keeps the tables matched.
LEMMA NextMatch == TablesMatch /\ [Next]_msigVars => TablesMatch'
<1> SUFFICES ASSUME TablesMatch, [Next]_msigVars PROVE TablesMatch'
    OBVIOUS
<1>1. ASSUME NEW k, NEW requested, NEW trx, Propose(k[1], k[2], requested, trx)
      PROVE  TablesMatch'
  <2> DEFINE key == <<k[1], k[2]>>
  <2>1. /\ key \notin DOMAIN proposals /\ key \notin DOMAIN approvals
        /\ DOMAIN proposals' = DOMAIN proposals \cup {key}
        /\ DOMAIN approvals' = DOMAIN approvals \cup {key}
        /\ DOMAIN old_approvals' = DOMAIN old_approvals
      BY <1>1 DEF Propose, Put
  <2> HIDE DEF key
  <2> QED BY <2>1 DEF TablesMatch
<1>2. ASSUME NEW k, NEW level, NEW hash, Approve(k, level, hash) PROVE TablesMatch'
    BY <1>2, SameKeysMatch DEF Approve
<1>3. ASSUME NEW k, NEW level, Unapprove(k, level) PROVE TablesMatch'
    BY <1>3, SameKeysMatch DEF Unapprove
<1>4. ASSUME NEW k, NEW account, Cancel(k, account) PROVE TablesMatch'
    BY <1>4, CloseKeepsMatch DEF Cancel
<1>5. ASSUME NEW k, NEW account, Exec(k, account) PROVE TablesMatch'
    BY <1>5, CloseKeepsMatch DEF Exec, CanExec
<1>6. ASSUME NEW k, RunDeferred(k) PROVE TablesMatch'
    BY <1>6, SameKeysMatch DEF RunDeferred
<1>7. ASSUME NEW account, Invalidate(account) PROVE TablesMatch'
    BY <1>7, SameKeysMatch DEF Invalidate
<1>8. CASE NextBlock
    BY <1>8, SameKeysMatch DEF NextBlock
<1>9. CASE UNCHANGED msigVars
    BY <1>9, SameKeysMatch DEF msigVars
<1> QED BY <1>1, <1>2, <1>3, <1>4, <1>5, <1>6, <1>7, <1>8, <1>9 DEF Next, KeyStep

\* An open proposal always has its approvals in exactly one table, and there are
\* none without a proposal: a name never stays blocked, and a new proposal never
\* starts with approvals given to an earlier one.
THEOREM TablesAlwaysMatch == Spec => []TablesMatch
BY InitMatch, NextMatch, PTL DEF Spec

-----------------------------------------------------------------------------
(* The lists of a row. *)

\* What Append does to the members.
LEMMA AppendMembers ==
    ASSUME NEW S, NEW s \in Seq(S), NEW e \in S
    PROVE  /\ Append(s, e) \in Seq(S)
           /\ ToSet(Append(s, e)) = ToSet(s) \cup {e}
<1>1. /\ Append(s, e) \in Seq(S) /\ Len(s) \in Nat /\ DOMAIN s = 1 .. Len(s)
      /\ DOMAIN Append(s, e) = 1 .. Len(s) + 1
      /\ \A i \in 1 .. Len(s) : Append(s, e)[i] = s[i]
      /\ Append(s, e)[Len(s) + 1] = e
    OBVIOUS
<1>2. 1 .. Len(s) + 1 = 1 .. Len(s) \cup {Len(s) + 1}
    BY <1>1
<1> QED BY <1>1, <1>2 DEF ToSet

\* RemoveAt takes one entry out and moves those after it up.
LEMMA RemoveAtEntries ==
    ASSUME NEW S, NEW s \in Seq(S), NEW i \in 1 .. Len(s)
    PROVE  /\ RemoveAt(s, i) \in Seq(S) /\ Len(RemoveAt(s, i)) = Len(s) - 1
           /\ \A j \in 1 .. i - 1 : RemoveAt(s, i)[j] = s[j]
           /\ \A j \in i .. Len(s) - 1 : RemoveAt(s, i)[j] = s[j + 1]
<1> DEFINE low  == SubSeq(s, 1, i - 1)
           high == SubSeq(s, i + 1, Len(s))
           n    == Len(s)
<1>1. n \in Nat /\ i \in Nat /\ DOMAIN s = 1 .. n /\ \A j \in 1 .. n : s[j] \in S
    OBVIOUS
<1>2. /\ low \in Seq(S) /\ Len(low) = i - 1
      /\ \A j \in 1 .. i - 1 : low[j] = s[j]
    OBVIOUS
<1>3. /\ high \in Seq(S) /\ Len(high) = n - i
      /\ \A j \in 1 .. n - i : high[j] = s[i + j]
    OBVIOUS
<1> DEFINE rest == low \o high
<1>4. /\ rest \in Seq(S) /\ Len(rest) = n - 1 /\ DOMAIN rest = 1 .. n - 1
      /\ \A j \in 1 .. i - 1 : rest[j] = s[j]
      /\ \A j \in i .. n - 1 : rest[j] = s[j + 1]
  <2> HIDE DEF low, high, n
  <2>1. rest \in Seq(S) /\ Len(rest) = Len(low) + Len(high)
      BY <1>2, <1>3, ConcatProperties
  <2>2. \A j \in 1 .. Len(rest) :
            rest[j] = IF j =< Len(low) THEN low[j] ELSE high[j - Len(low)]
      BY <1>2, <1>3
  <2>3. ASSUME NEW j \in i .. n - 1 PROVE rest[j] = s[j + 1]
    <3>1. j - (i - 1) \in 1 .. n - i /\ i + (j - (i - 1)) = j + 1 /\ ~ (j =< i - 1)
        BY <1>1, <2>3
    <3>2. j \in 1 .. Len(rest)
        BY <1>1, <1>2, <1>3, <2>1
    <3> QED BY <1>2, <1>3, <2>2, <3>1, <3>2
  <2>4. ASSUME NEW j \in 1 .. i - 1 PROVE rest[j] = s[j]
    <3>1. j \in 1 .. Len(rest)
        BY <1>1, <1>2, <1>3, <2>1
    <3> QED BY <1>1, <1>2, <2>2, <3>1
  <2>5. Len(rest) = n - 1 /\ DOMAIN rest = 1 .. n - 1
      BY <1>1, <1>2, <1>3, <2>1
  <2> QED BY <2>1, <2>3, <2>4, <2>5
<1>5. RemoveAt(s, i) = rest
    BY DEF RemoveAt
<1> QED BY <1>4, <1>5

\* The value of the entry stays a member only if it is there twice.
LEMMA RemoveAtMembers ==
    ASSUME NEW S, NEW s \in Seq(S), NEW i \in 1 .. Len(s)
    PROVE  /\ RemoveAt(s, i) \in Seq(S)
           /\ ToSet(RemoveAt(s, i)) \subseteq ToSet(s)
           /\ ToSet(s) \subseteq ToSet(RemoveAt(s, i)) \cup {s[i]}
<1> DEFINE rest == RemoveAt(s, i)
           n    == Len(s)
<1>1. n \in Nat /\ i \in Nat /\ DOMAIN s = 1 .. n /\ \A j \in 1 .. n : s[j] \in S
    OBVIOUS
<1>2. /\ rest \in Seq(S) /\ Len(rest) = n - 1 /\ DOMAIN rest = 1 .. n - 1
      /\ \A j \in 1 .. i - 1 : rest[j] = s[j]
      /\ \A j \in i .. n - 1 : rest[j] = s[j + 1]
    BY RemoveAtEntries
<1> HIDE DEF rest, n
<1>3. ASSUME NEW e \in ToSet(rest) PROVE e \in ToSet(s)
  <2>1. PICK j \in 1 .. n - 1 : e = rest[j]
      BY <1>2, <1>3 DEF ToSet
  <2>2. CASE j < i
      BY <1>1, <1>2, <2>1, <2>2 DEF ToSet
  <2>3. CASE i =< j
    <3>1. j + 1 \in 1 .. n /\ e = s[j + 1]
        BY <1>1, <1>2, <2>1, <2>3
    <3> QED BY <1>1, <3>1 DEF ToSet
  <2> QED BY <1>1, <2>1, <2>2, <2>3
<1>4. ASSUME NEW e \in ToSet(s), e # s[i] PROVE e \in ToSet(rest)
  <2>1. PICK j \in 1 .. n : e = s[j] /\ j # i
      BY <1>1, <1>4 DEF ToSet
  <2>2. CASE j < i
    <3>1. j \in 1 .. n - 1 /\ e = rest[j]
        BY <1>1, <1>2, <2>1, <2>2
    <3> QED BY <1>2, <3>1 DEF ToSet
  <2>3. CASE i < j
    <3>1. j - 1 \in i .. n - 1 /\ (j - 1) + 1 = j /\ j - 1 \in 1 .. n - 1
        BY <1>1, <2>1, <2>3
    <3>2. e = rest[j - 1]
        BY <1>2, <2>1, <3>1
    <3> QED BY <1>2, <3>1, <3>2 DEF ToSet
  <2> QED BY <1>1, <2>1, <2>2, <2>3
<1> QED BY <1>2, <1>3, <1>4 DEF rest

\* The place of a level that is found is a place, and holds the level.
LEMMA ProvidedPlace ==
    ASSUME NEW row \in ApprovalRows, NEW level, ProvidedAt(row, level) # 0
    PROVE  /\ ProvidedAt(row, level) \in 1 .. Len(row.provided)
           /\ row.provided[ProvidedAt(row, level)].level = level
<1> DEFINE I == {i \in 1 .. Len(row.provided) : row.provided[i].level = level}
<1>1. ProvidedAt(row, level) = IF I # {} THEN Min(I) ELSE 0
    BY DEF ProvidedAt, SelectInSeq
<1>2. I \in SUBSET Nat /\ I # {}
    BY <1>1 DEF ApprovalRows
<1>3. Min(I) \in I
  <2> HIDE DEF I
  <2>1. \E m \in I : \A k \in I : m =< k
      BY <1>2, NatMin
  <2> QED BY <2>1 DEF Min
<1> QED BY <1>1, <1>2, <1>3

\* The same of the other list.
LEMMA RequestedPlace ==
    ASSUME NEW row \in ApprovalRows, NEW level, RequestedAt(row, level) # 0
    PROVE  /\ RequestedAt(row, level) \in 1 .. Len(row.requested)
           /\ row.requested[RequestedAt(row, level)] = level
<1> DEFINE I == {i \in 1 .. Len(row.requested) : row.requested[i] = level}
<1>1. RequestedAt(row, level) = IF I # {} THEN Min(I) ELSE 0
    BY DEF RequestedAt, SelectInSeq
<1>2. I \in SUBSET Nat /\ I # {}
    BY <1>1 DEF ApprovalRows
<1>3. Min(I) \in I
  <2> HIDE DEF I
  <2>1. \E m \in I : \A k \in I : m =< k
      BY <1>2, NatMin
  <2> QED BY <2>1 DEF Min
<1> QED BY <1>1, <1>2, <1>3

Approvals == [level : Levels, time : Nat]

\* Provide adds one approval, of the level and the time.
LEMMA ProvideRow ==
    ASSUME NEW row \in ApprovalRows, NEW level \in Levels, NEW time \in Nat,
           RequestedAt(row, level) # 0
    PROVE  /\ Provide(row, level, time) \in ApprovalRows
           /\ ToSet(Provide(row, level, time).provided)
                  = ToSet(row.provided) \cup {[level |-> level, time |-> time]}
<1> DEFINE i == RequestedAt(row, level)
           a == [level |-> level, time |-> time]
<1>1. row.requested \in Seq(Levels) /\ row.provided \in Seq(Approvals) /\ a \in Approvals
    BY DEF ApprovalRows, Approvals
<1>2. i \in 1 .. Len(row.requested)
    BY RequestedPlace
<1>3. RemoveAt(row.requested, i) \in Seq(Levels)
    BY <1>1, <1>2, RemoveAtMembers
<1>4. /\ Append(row.provided, a) \in Seq(Approvals)
      /\ ToSet(Append(row.provided, a)) = ToSet(row.provided) \cup {a}
    BY <1>1, AppendMembers
<1> QED BY <1>3, <1>4 DEF Provide, ApprovalRows, Approvals

\* TakeBack removes one approval of the level.
LEMMA TakeBackRow ==
    ASSUME NEW row \in ApprovalRows, NEW level \in Levels, ProvidedAt(row, level) # 0
    PROVE  /\ TakeBack(row, level) \in ApprovalRows
           /\ ToSet(TakeBack(row, level).provided) \subseteq ToSet(row.provided)
           /\ \A a \in ToSet(row.provided) :
                  a.level = level \/ a \in ToSet(TakeBack(row, level).provided)
<1> DEFINE i == ProvidedAt(row, level)
<1>1. row.requested \in Seq(Levels) /\ row.provided \in Seq(Approvals)
    BY DEF ApprovalRows, Approvals
<1>2. i \in 1 .. Len(row.provided) /\ row.provided[i].level = level
    BY ProvidedPlace
<1>3. Append(row.requested, level) \in Seq(Levels)
    BY <1>1, AppendMembers
<1>4. /\ RemoveAt(row.provided, i) \in Seq(Approvals)
      /\ ToSet(RemoveAt(row.provided, i)) \subseteq ToSet(row.provided)
      /\ ToSet(row.provided) \subseteq ToSet(RemoveAt(row.provided, i)) \cup {row.provided[i]}
    BY <1>1, <1>2, RemoveAtMembers
<1> QED BY <1>2, <1>3, <1>4 DEF TakeBack, ApprovalRows, Approvals

\* The members of what was provided are approvals.
LEMMA ProvidedMembers ==
    ASSUME NEW row \in ApprovalRows
    PROVE  ToSet(row.provided) \subseteq Approvals
<1>1. row.provided \in Seq(Approvals)
    BY DEF ApprovalRows, Approvals
<1>2. \A i \in DOMAIN row.provided : row.provided[i] \in Approvals
    BY <1>1
<1> QED BY <1>2 DEF ToSet

-----------------------------------------------------------------------------
(* The invariant: the types, with no approval later than now; without it   *)
(* an invalidation might leave approvals that count.                       *)

IInv == TypeOK /\ TablesMatch /\ TimesPassed

\* No table but the older release's has rows at the beginning.
LEMMA InitInv == Init => IInv
<1> SUFFICES ASSUME Init PROVE IInv
    OBVIOUS
<1>1. [requested |-> OldRequested, provided |-> <<>>] \in ApprovalRows
    BY MultisigAssumption DEF ApprovalRows
<1>2. TypeOK
    BY <1>1, MultisigAssumption DEF Init, TypeOK, EmptyTable
<1>3. TimesPassed
    BY DEF Init, TimesPassed, EmptyTable
<1> QED BY <1>2, <1>3, InitMatch DEF IInv

\* A key is a pair.
LEMMA KeyIsPair ==
    ASSUME NEW k \in Keys
    PROVE  <<k[1], k[2]>> = k
BY DEF Keys

\* Erasing a proposal with its approvals leaves well-typed tables.
LEMMA CloseKeepsRows ==
    ASSUME NEW k, TypeOK, TimesPassed, now' = now, EraseApprovals(k)
    PROVE  /\ \A j \in DOMAIN approvals' : approvals'[j] \in ApprovalRows
           /\ \A j \in DOMAIN old_approvals' : old_approvals'[j] \in ApprovalRows
           /\ TimesPassed'
<1>1. /\ \A j \in DOMAIN approvals' : j \in DOMAIN approvals /\ approvals'[j] = approvals[j]
      /\ \A j \in DOMAIN old_approvals' :
             j \in DOMAIN old_approvals /\ old_approvals'[j] = old_approvals[j]
    BY DEF EraseApprovals, Erase
<1> QED BY <1>1 DEF TypeOK, TimesPassed

\* One step of the invariant.
LEMMA NextInv == IInv /\ [Next]_msigVars => IInv'
<1> SUFFICES ASSUME IInv, [Next]_msigVars PROVE IInv'
    OBVIOUS
<1>0. TablesMatch'
    BY NextMatch DEF IInv
<1>t. /\ now \in Nat /\ DOMAIN proposals \subseteq Keys
      /\ \A k \in DOMAIN proposals : proposals[k] \in Transactions
      /\ \A k \in DOMAIN approvals : approvals[k] \in ApprovalRows
      /\ \A k \in DOMAIN old_approvals : old_approvals[k] \in ApprovalRows
      /\ DOMAIN invals \subseteq Accounts /\ \A a \in DOMAIN invals : invals[a] \in 0 .. now
      /\ DOMAIN deferred \subseteq Keys
      /\ \A k \in DOMAIN deferred : deferred[k] \in Transactions
    BY DEF IInv, TypeOK
<1>1. ASSUME NEW k \in Keys, NEW requested \in Requests, NEW trx \in Transactions,
             Propose(k[1], k[2], requested, trx)
      PROVE  IInv'
  <2> DEFINE row == [requested |-> requested, provided |-> <<>>]
  <2>1. /\ proposals' = Put(proposals, k, trx) /\ approvals' = Put(approvals, k, row)
        /\ UNCHANGED <<now, old_approvals, invals, deferred>>
      BY <1>1, KeyIsPair DEF Propose
  <2>2. row \in ApprovalRows /\ ToSet(row.provided) = {}
      BY MultisigAssumption DEF ApprovalRows, ToSet
  <2> HIDE DEF row
  <2>3. /\ DOMAIN approvals' = DOMAIN approvals \cup {k} /\ approvals'[k] = row
        /\ \A j \in DOMAIN approvals' : j # k => approvals'[j] = approvals[j]
        /\ DOMAIN proposals' = DOMAIN proposals \cup {k} /\ proposals'[k] = trx
        /\ \A j \in DOMAIN proposals' : j # k => proposals'[j] = proposals[j]
      BY <2>1 DEF Put
  <2>4. TypeOK'
      BY <1>t, <2>1, <2>2, <2>3 DEF TypeOK
  <2>5. TimesPassed'
      BY <2>1, <2>2, <2>3 DEF IInv, TimesPassed
  <2> QED BY <1>0, <2>4, <2>5 DEF IInv
<1>2. ASSUME NEW k \in Keys, NEW level \in Levels, NEW hash, Approve(k, level, hash)
      PROVE  IInv'
  <2>1. UNCHANGED <<now, proposals, invals, deferred>>
      BY <1>2 DEF Approve
  <2>2. CASE /\ k \in DOMAIN approvals /\ RequestedAt(approvals[k], level) # 0
             /\ approvals' = [approvals EXCEPT ![k] = Provide(@, level, now)]
             /\ UNCHANGED old_approvals
    <3>1. /\ Provide(approvals[k], level, now) \in ApprovalRows
          /\ ToSet(Provide(approvals[k], level, now).provided)
                 = ToSet(approvals[k].provided) \cup {[level |-> level, time |-> now]}
        BY <1>t, <2>2, ProvideRow
    <3>2. TypeOK'
        BY <1>t, <2>1, <2>2, <3>1 DEF TypeOK
    <3>3. TimesPassed'
        BY <1>t, <2>1, <2>2, <3>1 DEF IInv, TimesPassed
    <3> QED BY <1>0, <3>2, <3>3 DEF IInv
  <2>3. CASE /\ k \in DOMAIN old_approvals /\ RequestedAt(old_approvals[k], level) # 0
             /\ old_approvals' = [old_approvals EXCEPT ![k] = Provide(@, level, 0)]
             /\ UNCHANGED approvals
    <3>1. Provide(old_approvals[k], level, 0) \in ApprovalRows
        BY <1>t, <2>3, ProvideRow
    <3>2. TypeOK'
        BY <1>t, <2>1, <2>3, <3>1 DEF TypeOK
    <3>3. TimesPassed'
        BY <2>1, <2>3 DEF IInv, TimesPassed
    <3> QED BY <1>0, <3>2, <3>3 DEF IInv
  <2> QED BY <1>2, <2>2, <2>3 DEF Approve
<1>3. ASSUME NEW k \in Keys, NEW level \in Levels, Unapprove(k, level)
      PROVE  IInv'
  <2>1. UNCHANGED <<now, proposals, invals, deferred>>
      BY <1>3 DEF Unapprove
  <2>2. CASE /\ k \in DOMAIN approvals /\ ProvidedAt(approvals[k], level) # 0
             /\ approvals' = [approvals EXCEPT ![k] = TakeBack(@, level)]
             /\ UNCHANGED old_approvals
    <3>1. /\ TakeBack(approvals[k], level) \in ApprovalRows
          /\ ToSet(TakeBack(approvals[k], level).provided) \subseteq ToSet(approvals[k].provided)
        BY <1>t, <2>2, TakeBackRow
    <3>2. TypeOK'
        BY <1>t, <2>1, <2>2, <3>1 DEF TypeOK
    <3>3. TimesPassed'
        BY <1>t, <2>1, <2>2, <3>1 DEF IInv, TimesPassed
    <3> QED BY <1>0, <3>2, <3>3 DEF IInv
  <2>3. CASE /\ k \in DOMAIN old_approvals /\ ProvidedAt(old_approvals[k], level) # 0
             /\ old_approvals' = [old_approvals EXCEPT ![k] = TakeBack(@, level)]
             /\ UNCHANGED approvals
    <3>1. TakeBack(old_approvals[k], level) \in ApprovalRows
        BY <1>t, <2>3, TakeBackRow
    <3>2. TypeOK'
        BY <1>t, <2>1, <2>3, <3>1 DEF TypeOK
    <3>3. TimesPassed'
        BY <2>1, <2>3 DEF IInv, TimesPassed
    <3> QED BY <1>0, <3>2, <3>3 DEF IInv
  <2> QED BY <1>3, <2>2, <2>3 DEF Unapprove
<1>4. ASSUME NEW k \in Keys, NEW account, Cancel(k, account)
      PROVE  IInv'
  <2>1. /\ UNCHANGED <<now, invals, deferred>> /\ proposals' = Erase(proposals, k)
        /\ EraseApprovals(k)
      BY <1>4 DEF Cancel
  <2>2. TypeOK' /\ TimesPassed'
      BY <1>t, <2>1, CloseKeepsRows DEF IInv, TypeOK, Erase
  <2> QED BY <1>0, <2>2 DEF IInv
<1>5. ASSUME NEW k \in Keys, NEW account, Exec(k, account)
      PROVE  IInv'
  <2>1. /\ UNCHANGED <<now, invals>> /\ proposals' = Erase(proposals, k)
        /\ EraseApprovals(k) /\ k \in DOMAIN proposals
        /\ deferred' = Put(deferred, k, proposals[k])
      BY <1>5 DEF Exec, CanExec
  <2>2. /\ DOMAIN deferred' \subseteq Keys
        /\ \A j \in DOMAIN deferred' : deferred'[j] \in Transactions
      BY <1>t, <2>1 DEF Put
  <2>3. /\ DOMAIN proposals' \subseteq Keys
        /\ \A j \in DOMAIN proposals' : proposals'[j] \in Transactions
      BY <1>t, <2>1 DEF Erase
  <2>4. TypeOK' /\ TimesPassed'
      BY <1>t, <2>1, <2>2, <2>3, CloseKeepsRows DEF IInv, TypeOK
  <2> QED BY <1>0, <2>4 DEF IInv
<1>6. ASSUME NEW k \in Keys, RunDeferred(k)
      PROVE  IInv'
  <2>1. TypeOK'
      BY <1>t, <1>6 DEF RunDeferred, TypeOK, Erase
  <2>2. TimesPassed'
      BY <1>6 DEF RunDeferred, IInv, TimesPassed
  <2> QED BY <1>0, <2>1, <2>2 DEF IInv
<1>7. ASSUME NEW account \in Accounts, Invalidate(account)
      PROVE  IInv'
  <2>1. TypeOK'
      BY <1>t, <1>7 DEF Invalidate, TypeOK, Put
  <2>2. TimesPassed'
      BY <1>7 DEF Invalidate, IInv, TimesPassed
  <2> QED BY <1>0, <2>1, <2>2 DEF IInv
<1>8. CASE NextBlock
  <2>1. /\ now' = now + 1 /\ now' \in Nat
        /\ UNCHANGED <<proposals, approvals, old_approvals, invals, deferred>>
      BY <1>t, <1>8 DEF NextBlock
  <2>2. TypeOK'
      BY <1>t, <2>1 DEF TypeOK
  <2>3. TimesPassed'
    <3>1. \A k \in DOMAIN approvals : ToSet(approvals[k].provided) \subseteq Approvals
        BY <1>t, ProvidedMembers
    <3> QED BY <1>t, <2>1, <3>1 DEF IInv, TimesPassed, Approvals
  <2> QED BY <1>0, <2>2, <2>3 DEF IInv
<1>9. CASE UNCHANGED msigVars
    BY <1>0, <1>9 DEF msigVars, IInv, TypeOK, TimesPassed
<1> QED BY <1>1, <1>2, <1>3, <1>4, <1>5, <1>6, <1>7, <1>8, <1>9 DEF Next, KeyStep

\* The tables stay well typed and no approval is later than now.
THEOREM MultisigInv == Spec => []IInv
BY InitInv, NextInv, PTL DEF Spec
-----------------------------------------------------------------------------
(* The refinement: what a level consents to is what counts of its          *)
(* approvals.                                                              *)

Consents == [k \in DOMAIN proposals |-> ApprovedBy(k)]

\* Who has approved, by its members.
LEMMA ApprovedMembers ==
    ASSUME NEW k, NEW level
    PROVE  level \in ApprovedBy(k) <=>
               IF k \in DOMAIN approvals
               THEN \E a \in ToSet(approvals[k].provided) : Counts(a) /\ a.level = level
               ELSE \E a \in ToSet(old_approvals[k].provided) : CountsOld(a) /\ a.level = level
BY DEF ApprovedBy

\* The same after a step.
LEMMA ApprovedMembersNext ==
    ASSUME NEW k, NEW level
    PROVE  level \in ApprovedBy(k)' <=>
               IF k \in DOMAIN approvals'
               THEN \E a \in ToSet(approvals'[k].provided) : Counts(a)' /\ a.level = level
               ELSE \E a \in ToSet(old_approvals'[k].provided) : CountsOld(a)' /\ a.level = level
BY DEF ApprovedBy

\* A step that leaves the row and the invalidations alone leaves the consent.
LEMMA SameRow ==
    ASSUME NEW k, invals' = invals,
           k \in DOMAIN approvals' <=> k \in DOMAIN approvals,
           k \in DOMAIN approvals => approvals'[k] = approvals[k],
           k \notin DOMAIN approvals => old_approvals'[k] = old_approvals[k]
    PROVE  ApprovedBy(k)' = ApprovedBy(k)
<1>1. ASSUME NEW level PROVE level \in ApprovedBy(k)' <=> level \in ApprovedBy(k)
    BY ApprovedMembers, ApprovedMembersNext DEF Counts, CountsOld
<1> QED BY <1>1

\* A new proposal has no consent yet.
LEMMA ProposeOpens ==
    ASSUME IInv, NEW k \in Keys, NEW requested \in Requests, NEW trx \in Transactions,
           Propose(k[1], k[2], requested, trx)
    PROVE  Agreement!Open(k, trx)
<1> DEFINE row == [requested |-> requested, provided |-> <<>>]
<1>1. /\ k \notin DOMAIN proposals /\ k \notin DOMAIN approvals
      /\ proposals' = Put(proposals, k, trx) /\ approvals' = Put(approvals, k, row)
      /\ UNCHANGED <<now, old_approvals, invals, deferred>>
    BY KeyIsPair DEF Propose
<1>2. ToSet(row.provided) = {}
    BY DEF ToSet
<1> HIDE DEF row
<1>3. /\ DOMAIN approvals' = DOMAIN approvals \cup {k} /\ approvals'[k] = row
      /\ \A j \in DOMAIN approvals : j # k => approvals'[j] = approvals[j]
      /\ DOMAIN proposals' = DOMAIN proposals \cup {k}
    BY <1>1 DEF Put
<1>4. ApprovedBy(k)' = {}
    BY <1>2, <1>3, ApprovedMembersNext
<1>5. \A j \in DOMAIN proposals : j # k => ApprovedBy(j)' = ApprovedBy(j)
    BY <1>1, <1>3, SameRow
<1>6. Consents' = Put(Consents, k, {})
    BY <1>3, <1>4, <1>5 DEF Consents, Put
<1> QED BY <1>1, <1>6 DEF Consents, Agreement!Open, Agreement!Put, Put

\* Erasing a proposal and its approvals leaves the consents of the others.
LEMMA EraseCloses ==
    ASSUME IInv, NEW k \in DOMAIN proposals, proposals' = Erase(proposals, k),
           EraseApprovals(k), UNCHANGED invals
    PROVE  Agreement!Close(k)
<1>1. \A j \in DOMAIN proposals : j # k =>
          /\ j \in DOMAIN approvals' <=> j \in DOMAIN approvals
          /\ j \in DOMAIN approvals => approvals'[j] = approvals[j]
          /\ j \notin DOMAIN approvals => old_approvals'[j] = old_approvals[j]
    BY DEF EraseApprovals, Erase, IInv, TablesMatch
<1>2. \A j \in DOMAIN proposals : j # k => ApprovedBy(j)' = ApprovedBy(j)
    BY <1>1, SameRow
<1>3. Consents' = Erase(Consents, k)
    BY <1>2 DEF Consents, Erase
<1> QED BY <1>3 DEF Consents, Agreement!Close, Agreement!Erase, Erase

\* An approval is a consent, unless its account has invalidated in this block (or
\* ever, for a proposal of the older release).
LEMMA ApproveAgrees ==
    ASSUME IInv, NEW k \in Keys, NEW level \in Levels, NEW hash, Approve(k, level, hash)
    PROVE  Agreement!Agree(k, level) \/ UNCHANGED Agreement!vars
<1>t. /\ now \in Nat /\ DOMAIN proposals = DOMAIN approvals \cup DOMAIN old_approvals
      /\ \A j \in DOMAIN approvals : approvals[j] \in ApprovalRows
      /\ \A j \in DOMAIN old_approvals : old_approvals[j] \in ApprovalRows
    BY DEF IInv, TypeOK, TablesMatch
<1>1. UNCHANGED <<now, proposals, invals, deferred>>
    BY DEF Approve
<1>2. /\ k \in DOMAIN proposals
      /\ \A j \in DOMAIN proposals : j # k => ApprovedBy(j)' = ApprovedBy(j)
      /\ \/ ApprovedBy(k)' = ApprovedBy(k) \cup {level}
         \/ ApprovedBy(k)' = ApprovedBy(k)
  <2>1. CASE /\ k \in DOMAIN approvals /\ RequestedAt(approvals[k], level) # 0
             /\ approvals' = [approvals EXCEPT ![k] = Provide(@, level, now)]
             /\ UNCHANGED old_approvals
    <3> DEFINE a == [level |-> level, time |-> now]
    <3>1. /\ DOMAIN approvals' = DOMAIN approvals
          /\ \A j \in DOMAIN approvals : j # k => approvals'[j] = approvals[j]
          /\ approvals'[k] = Provide(approvals[k], level, now)
        BY <2>1
    <3>2. ToSet(approvals'[k].provided) = ToSet(approvals[k].provided) \cup {a}
        BY <1>t, <2>1, <3>1, ProvideRow
    <3>3. \A j \in DOMAIN proposals : j # k => ApprovedBy(j)' = ApprovedBy(j)
        BY <1>1, <2>1, <3>1, SameRow
    <3>4. \A b : Counts(b)' <=> Counts(b)
        BY <1>1 DEF Counts
    <3>5. a.level = level
        OBVIOUS
    <3> HIDE DEF a
    <3>6. \A l : l \in ApprovedBy(k)' <=> l \in ApprovedBy(k) \/ (Counts(a) /\ l = level)
        BY <2>1, <3>1, <3>2, <3>4, <3>5, ApprovedMembers, ApprovedMembersNext
    <3> QED BY <1>t, <2>1, <3>3, <3>6
  <2>2. CASE /\ k \notin DOMAIN approvals /\ k \in DOMAIN old_approvals
             /\ RequestedAt(old_approvals[k], level) # 0
             /\ old_approvals' = [old_approvals EXCEPT ![k] = Provide(@, level, 0)]
             /\ UNCHANGED approvals
    <3> DEFINE a == [level |-> level, time |-> 0]
    <3>1. /\ DOMAIN old_approvals' = DOMAIN old_approvals
          /\ \A j \in DOMAIN old_approvals : j # k => old_approvals'[j] = old_approvals[j]
          /\ old_approvals'[k] = Provide(old_approvals[k], level, 0)
        BY <2>2
    <3>2. ToSet(old_approvals'[k].provided) = ToSet(old_approvals[k].provided) \cup {a}
        BY <1>t, <2>2, <3>1, ProvideRow
    <3>3. \A j \in DOMAIN proposals : j # k => ApprovedBy(j)' = ApprovedBy(j)
        BY <1>t, <1>1, <2>2, <3>1, SameRow
    <3>4. \A b : CountsOld(b)' <=> CountsOld(b)
        BY <1>1 DEF CountsOld
    <3>5. a.level = level
        OBVIOUS
    <3> HIDE DEF a
    <3>6. \A l : l \in ApprovedBy(k)' <=> l \in ApprovedBy(k) \/ (CountsOld(a) /\ l = level)
        BY <2>2, <3>1, <3>2, <3>4, <3>5, ApprovedMembers, ApprovedMembersNext
    <3> QED BY <1>t, <2>2, <3>3, <3>6
  <2> QED BY <2>1, <2>2 DEF Approve
<1>3. CASE ApprovedBy(k)' = ApprovedBy(k) \cup {level}
  <2>1. Consents' = [Consents EXCEPT ![k] = @ \cup {level}]
      BY <1>1, <1>2, <1>3 DEF Consents
  <2> QED BY <1>1, <1>2, <2>1 DEF Consents, Agreement!Agree
<1>4. CASE ApprovedBy(k)' = ApprovedBy(k)
  <2>1. Consents' = Consents
      BY <1>1, <1>2, <1>4 DEF Consents
  <2> QED BY <1>1, <2>1 DEF Consents, Agreement!vars
<1> QED BY <1>2, <1>3, <1>4

\* Taking an approval back withdraws the consent, unless the level has approved
\* twice (or did not count).
LEMMA UnapproveWithdraws ==
    ASSUME IInv, NEW k \in Keys, NEW level \in Levels, Unapprove(k, level)
    PROVE  Agreement!Withdraw(k, level) \/ UNCHANGED Agreement!vars
<1>t. /\ DOMAIN proposals = DOMAIN approvals \cup DOMAIN old_approvals
      /\ \A j \in DOMAIN approvals : approvals[j] \in ApprovalRows
      /\ \A j \in DOMAIN old_approvals : old_approvals[j] \in ApprovalRows
    BY DEF IInv, TypeOK, TablesMatch
<1>1. UNCHANGED <<now, proposals, invals, deferred>>
    BY DEF Unapprove
<1>2. /\ k \in DOMAIN proposals
      /\ \A j \in DOMAIN proposals : j # k => ApprovedBy(j)' = ApprovedBy(j)
      /\ \A l : l \in ApprovedBy(k)' => l \in ApprovedBy(k)
      /\ \A l : l \in ApprovedBy(k) => l = level \/ l \in ApprovedBy(k)'
  <2>1. CASE /\ k \in DOMAIN approvals /\ ProvidedAt(approvals[k], level) # 0
             /\ approvals' = [approvals EXCEPT ![k] = TakeBack(@, level)]
             /\ UNCHANGED old_approvals
    <3>1. /\ DOMAIN approvals' = DOMAIN approvals
          /\ \A j \in DOMAIN approvals : j # k => approvals'[j] = approvals[j]
          /\ approvals'[k] = TakeBack(approvals[k], level)
        BY <2>1
    <3>2. /\ ToSet(approvals'[k].provided) \subseteq ToSet(approvals[k].provided)
          /\ \A a \in ToSet(approvals[k].provided) :
                 a.level = level \/ a \in ToSet(approvals'[k].provided)
        BY <1>t, <2>1, <3>1, TakeBackRow
    <3>3. \A j \in DOMAIN proposals : j # k => ApprovedBy(j)' = ApprovedBy(j)
        BY <1>1, <2>1, <3>1, SameRow
    <3>4. \A b : Counts(b)' <=> Counts(b)
        BY <1>1 DEF Counts
    <3>5. /\ \A l : l \in ApprovedBy(k)' => l \in ApprovedBy(k)
          /\ \A l : l \in ApprovedBy(k) => l = level \/ l \in ApprovedBy(k)'
        BY <2>1, <3>1, <3>2, <3>4, ApprovedMembers, ApprovedMembersNext
    <3> QED BY <1>t, <2>1, <3>3, <3>5
  <2>2. CASE /\ k \notin DOMAIN approvals /\ k \in DOMAIN old_approvals
             /\ ProvidedAt(old_approvals[k], level) # 0
             /\ old_approvals' = [old_approvals EXCEPT ![k] = TakeBack(@, level)]
             /\ UNCHANGED approvals
    <3>1. /\ DOMAIN old_approvals' = DOMAIN old_approvals
          /\ \A j \in DOMAIN old_approvals : j # k => old_approvals'[j] = old_approvals[j]
          /\ old_approvals'[k] = TakeBack(old_approvals[k], level)
        BY <2>2
    <3>2. /\ ToSet(old_approvals'[k].provided) \subseteq ToSet(old_approvals[k].provided)
          /\ \A a \in ToSet(old_approvals[k].provided) :
                 a.level = level \/ a \in ToSet(old_approvals'[k].provided)
        BY <1>t, <2>2, <3>1, TakeBackRow
    <3>3. \A j \in DOMAIN proposals : j # k => ApprovedBy(j)' = ApprovedBy(j)
        BY <1>t, <1>1, <2>2, <3>1, SameRow
    <3>4. \A b : CountsOld(b)' <=> CountsOld(b)
        BY <1>1 DEF CountsOld
    <3>5. /\ \A l : l \in ApprovedBy(k)' => l \in ApprovedBy(k)
          /\ \A l : l \in ApprovedBy(k) => l = level \/ l \in ApprovedBy(k)'
        BY <2>2, <3>1, <3>2, <3>4, ApprovedMembers, ApprovedMembersNext
    <3> QED BY <1>t, <2>2, <3>3, <3>5
  <2> QED BY <2>1, <2>2 DEF Unapprove
<1>3. CASE level \notin ApprovedBy(k)'
  <2>1. ApprovedBy(k)' = ApprovedBy(k) \ {level}
      BY <1>2, <1>3
  <2>2. Consents' = [Consents EXCEPT ![k] = @ \ {level}]
      BY <1>1, <1>2, <2>1 DEF Consents
  <2> QED BY <1>1, <1>2, <2>2 DEF Consents, Agreement!Withdraw
<1>4. CASE level \in ApprovedBy(k)'
  <2>1. ApprovedBy(k)' = ApprovedBy(k)
      BY <1>2, <1>4
  <2>2. Consents' = Consents
      BY <1>1, <1>2, <2>1 DEF Consents
  <2> QED BY <1>1, <2>2 DEF Consents, Agreement!vars
<1> QED BY <1>3, <1>4

\* An invalidation withdraws every consent of the account: no approval is later.
LEMMA InvalidateWithdraws ==
    ASSUME IInv, NEW account \in Accounts, Invalidate(account)
    PROVE  Agreement!WithdrawAll(account)
<1>t. /\ now \in Nat /\ TimesPassed
      /\ \A j \in DOMAIN approvals : approvals[j] \in ApprovalRows
      /\ \A a \in DOMAIN invals : invals[a] \in Nat
    BY DEF IInv, TypeOK
<1>1. /\ UNCHANGED <<now, proposals, approvals, old_approvals, deferred>>
      /\ DOMAIN invals' = DOMAIN invals \cup {account} /\ invals'[account] = now
      /\ \A a \in DOMAIN invals : a # account => invals'[a] = invals[a]
    BY DEF Invalidate, Put
<1>2. ASSUME NEW k \in DOMAIN proposals
      PROVE  ApprovedBy(k)' = {l \in ApprovedBy(k) : l[1] # account}
  <2>1. CASE k \in DOMAIN approvals
    <3>1. ASSUME NEW a \in ToSet(approvals[k].provided)
          PROVE  Counts(a)' <=> Counts(a) /\ a.level[1] # account
      <4>1. a.time \in Nat /\ a.time =< now
          BY <1>t, <2>1, ProvidedMembers DEF TimesPassed, Approvals
      <4>2. CASE a.level[1] = account
          BY <1>t, <1>1, <4>1, <4>2 DEF Counts
      <4>3. CASE a.level[1] # account
          BY <1>1, <4>3 DEF Counts
      <4> QED BY <4>2, <4>3
    <3>2. \A l : l \in ApprovedBy(k)' <=> l \in ApprovedBy(k) /\ l[1] # account
        BY <1>1, <2>1, <3>1, ApprovedMembers, ApprovedMembersNext
    <3> QED BY <3>2
  <2>2. CASE k \notin DOMAIN approvals
    <3>1. \A a : CountsOld(a)' <=> CountsOld(a) /\ a.level[1] # account
        BY <1>1 DEF CountsOld
    <3>2. \A l : l \in ApprovedBy(k)' <=> l \in ApprovedBy(k) /\ l[1] # account
        BY <1>1, <2>2, <3>1, ApprovedMembers, ApprovedMembersNext
    <3> QED BY <3>2
  <2> QED BY <2>1, <2>2
<1>3. Consents' = [k \in DOMAIN Consents |-> {l \in Consents[k] : l[1] # account}]
    BY <1>1, <1>2 DEF Consents
<1> QED BY <1>1, <1>3 DEF Consents, Agreement!WithdrawAll

\* The proposals of the older release begin without consent.
LEMMA InitAgrees == Init => Agreement!Init
<1> SUFFICES ASSUME Init PROVE Agreement!Init
    OBVIOUS
<1>1. /\ proposals = OldProposals /\ DOMAIN approvals = {} /\ deferred = EmptyTable
      /\ \A k \in DOMAIN OldProposals : old_approvals[k].provided = <<>>
    BY DEF Init, EmptyTable
<1>2. ToSet(<<>>) = {}
    BY DEF ToSet
<1>3. \A k \in DOMAIN OldProposals : ApprovedBy(k) = {}
    BY <1>1, <1>2, ApprovedMembers
<1> QED BY <1>1, <1>3 DEF Agreement!Init, Agreement!EmptyTable, EmptyTable

\* Every step is a step of the agreement or none.
LEMMA NextAgrees == IInv /\ [Next]_msigVars => [Agreement!Next]_Agreement!vars
<1> SUFFICES ASSUME IInv, [Next]_msigVars
             PROVE  Agreement!Next \/ UNCHANGED Agreement!vars
    OBVIOUS
<1>1. ASSUME NEW k \in Keys, NEW requested \in Requests, NEW trx \in Transactions,
             Propose(k[1], k[2], requested, trx)
      PROVE  Agreement!Next
    BY <1>1, ProposeOpens DEF Agreement!Next
<1>2. ASSUME NEW k \in Keys, NEW level \in Levels, NEW hash, Approve(k, level, hash)
      PROVE  Agreement!Next \/ UNCHANGED Agreement!vars
    BY <1>2, ApproveAgrees DEF Agreement!Next
<1>3. ASSUME NEW k \in Keys, NEW level \in Levels, Unapprove(k, level)
      PROVE  Agreement!Next \/ UNCHANGED Agreement!vars
    BY <1>3, UnapproveWithdraws DEF Agreement!Next
<1>4. ASSUME NEW k \in Keys, NEW account, Cancel(k, account)
      PROVE  Agreement!Next
  <2>1. Agreement!Close(k) /\ UNCHANGED deferred
      BY <1>4, EraseCloses DEF Cancel
  <2> QED BY <2>1 DEF Agreement!Next, Agreement!Drop
<1>5. ASSUME NEW k \in Keys, NEW account, Exec(k, account)
      PROVE  Agreement!Next
  <2>1. Agreement!Close(k)
      BY <1>5, EraseCloses DEF Exec, CanExec
  <2>2. /\ k \in DOMAIN proposals /\ k \notin DOMAIN deferred
        /\ deferred' = Put(deferred, k, proposals[k])
        /\ \E levels \in Sufficient[proposals[k]] : levels \subseteq ApprovedBy(k)
      BY <1>5 DEF Exec, CanExec, Authorized
  <2>3. Agreement!Send(k)
      BY <2>1, <2>2 DEF Agreement!Send, Agreement!Put, Put
  <2> QED BY <2>3 DEF Agreement!Next
<1>6. ASSUME NEW k \in Keys, RunDeferred(k)
      PROVE  Agreement!Next
  <2>1. /\ k \in DOMAIN deferred /\ deferred' = Erase(deferred, k)
        /\ UNCHANGED <<proposals, approvals, old_approvals, invals>>
      BY <1>6 DEF RunDeferred
  <2>2. Consents' = Consents
      BY <2>1, SameRow DEF Consents
  <2>3. Agreement!Run(k)
      BY <2>1, <2>2 DEF Consents, Agreement!Run, Agreement!Erase, Erase
  <2> QED BY <2>3 DEF Agreement!Next
<1>7. ASSUME NEW account \in Accounts, Invalidate(account)
      PROVE  Agreement!Next
    BY <1>7, InvalidateWithdraws DEF Agreement!Next
<1>8. CASE NextBlock \/ UNCHANGED msigVars
  <2>1. UNCHANGED <<proposals, approvals, old_approvals, invals, deferred>>
      BY <1>8 DEF NextBlock, msigVars
  <2>2. Consents' = Consents
      BY <2>1, SameRow DEF Consents
  <2> QED BY <2>1, <2>2 DEF Consents, Agreement!vars
<1> QED BY <1>1, <1>2, <1>3, <1>4, <1>5, <1>6, <1>7, <1>8 DEF Next, KeyStep

\* The contract implements the agreement: what is sent has the consent of levels
\* that suffice, each given to this proposal and not withdrawn since.
THEOREM ContractAgrees == Spec => IsAgreement
<1>1. Init => Agreement!Init
    BY InitAgrees
<1>2. IInv /\ [Next]_msigVars => [Agreement!Next]_Agreement!vars
    BY NextAgrees
<1>3. Spec => []IInv
    BY MultisigInv
<1> QED BY <1>1, <1>2, <1>3, PTL DEF Spec, IsAgreement, Agreement!Spec

-----------------------------------------------------------------------------
(* What becomes of approvals. *)

\* How often x is in a list.
Occurs(list, x) == Cardinality({i \in DOMAIN list : list[i] = x})

\* t is s in another order: entry j of t is entry f[j] of s, and g undoes f.
Rearranged(s, t, n) ==
    /\ DOMAIN s = 1 .. n /\ DOMAIN t = 1 .. n
    /\ \E f, g \in [1 .. n -> 1 .. n] :
           /\ \A j \in 1 .. n : g[f[j]] = j /\ f[g[j]] = j
           /\ \A j \in 1 .. n : t[j] = s[f[j]]

\* A sequence has the same members, each as often, in any order.
LEMMA SameBag ==
    ASSUME NEW n \in Nat, NEW s, NEW t, Rearranged(s, t, n)
    PROVE  ToBag(t) = ToBag(s)
<1>d. DOMAIN s = 1 .. n /\ DOMAIN t = 1 .. n
    BY DEF Rearranged
<1>0. PICK f, g \in [1 .. n -> 1 .. n] :
           /\ \A j \in 1 .. n : g[f[j]] = j /\ f[g[j]] = j
           /\ \A j \in 1 .. n : t[j] = s[f[j]]
    BY DEF Rearranged
<1>1. Range(t) = Range(s)
    BY <1>d, <1>0 DEF Range
<1>2. ASSUME NEW x
      PROVE  Occurs(t, x) = Occurs(s, x)
  <2> DEFINE A == {i \in 1 .. n : t[i] = x}
             B == {i \in 1 .. n : s[i] = x}
             h == [j \in A |-> f[j]]
  <2>1. h \in [A -> B] /\ \A a, b \in A : h[a] = h[b] => a = b
      BY <1>0
  <2>2. \A b \in B : \E a \in A : h[a] = b
    <3>1. ASSUME NEW b \in B PROVE g[b] \in A /\ h[g[b]] = b
        BY <1>0
    <3> QED BY <3>1
  <2>3. IsFiniteSet(A)
    <3>1. IsFiniteSet(1 .. n)
        BY FS_Interval
    <3> QED BY <3>1, FS_Subset
  <2> HIDE DEF A, B, h
  <2>4. ExistsBijection(A, B)
      BY <2>1, <2>2, Fun_IsBij DEF ExistsBijection
  <2>5. Cardinality(B) = Cardinality(A)
      BY <2>3, <2>4, FS_Bijection
  <2> QED BY <2>5, <1>d DEF A, B, Occurs
<1>3. /\ ToBag(t) = [x \in Range(t) |-> Occurs(t, x)]
      /\ ToBag(s) = [x \in Range(s) |-> Occurs(s, x)]
    BY DEF ToBag, Occurs
<1> QED BY <1>1, <1>2, <1>3

\* Moving an entry of the first of two lists to the end of the second ...
LEMMA MovedBack ==
    ASSUME NEW S, NEW s \in Seq(S), NEW p \in Seq(S), NEW i \in 1 .. Len(s)
    PROVE  ToBag(RemoveAt(s, i) \o Append(p, s[i])) = ToBag(s \o p)
<1> DEFINE m == Len(s)
           n == m + Len(p)
           less == RemoveAt(s, i)
           more == Append(p, s[i])
           before == s \o p
           after  == less \o more
           f == [j \in 1 .. n |-> IF j < i THEN j ELSE IF j < n THEN j + 1 ELSE i]
           g == [j \in 1 .. n |-> IF j < i THEN j ELSE IF j = i THEN n ELSE j - 1]
<1>1. /\ m \in Nat /\ Len(p) \in Nat /\ n \in Nat /\ i \in 1 .. m
      /\ s[i] \in S
    OBVIOUS
<1>2. /\ less \in Seq(S) /\ Len(less) = m - 1
      /\ \A j \in 1 .. i - 1 : less[j] = s[j]
      /\ \A j \in i .. m - 1 : less[j] = s[j + 1]
    BY RemoveAtEntries
<1>3. /\ more \in Seq(S) /\ Len(more) = Len(p) + 1
      /\ \A j \in 1 .. Len(p) : more[j] = p[j]
      /\ more[Len(p) + 1] = s[i]
    BY <1>1
<1> HIDE DEF less, more
<1>4. /\ Len(before) = n /\ DOMAIN before = 1 .. n
      /\ \A j \in 1 .. n : before[j] = IF j =< m THEN s[j] ELSE p[j - m]
    BY <1>1, ConcatProperties, LenProperties
<1>5. /\ Len(after) = n /\ DOMAIN after = 1 .. n
      /\ \A j \in 1 .. n : after[j] = IF j =< m - 1 THEN less[j] ELSE more[j - (m - 1)]
  <2>1. /\ after \in Seq(S) /\ Len(after) = Len(less) + Len(more)
        /\ \A j \in 1 .. Len(less) + Len(more) :
               after[j] = IF j =< Len(less) THEN less[j] ELSE more[j - Len(less)]
      BY <1>2, <1>3, ConcatProperties
  <2> HIDE DEF after, m
  <2>2. DOMAIN after = 1 .. Len(after)
      BY <2>1, LenProperties
  <2>3. Len(less) + Len(more) = n /\ Len(less) = m - 1
      BY <1>1, <1>2, <1>3
  <2> QED BY <2>1, <2>2, <2>3
<1> HIDE DEF before, after, m
<1>6. /\ f \in [1 .. n -> 1 .. n] /\ g \in [1 .. n -> 1 .. n]
      /\ \A j \in 1 .. n : g[f[j]] = j /\ f[g[j]] = j
  <2>1. \A j \in 1 .. n : f[j] \in 1 .. n /\ g[j] \in 1 .. n
      BY <1>1
  <2>2. ASSUME NEW j \in 1 .. n PROVE g[f[j]] = j /\ f[g[j]] = j
    <3>1. CASE j < i
        BY <1>1, <3>1
    <3>2. CASE i =< j /\ j < n
      <4>1. f[j] = j + 1 /\ j + 1 \in 1 .. n /\ g[j + 1] = j
          BY <1>1, <3>2
      <4>2. j = i => g[j] = n /\ n \in 1 .. n /\ f[n] = i
          BY <1>1
      <4>3. j # i => g[j] = j - 1 /\ j - 1 \in 1 .. n /\ f[j - 1] = j
          BY <1>1, <3>2
      <4> QED BY <4>1, <4>2, <4>3
    <3>3. CASE j = n
      <4>1. f[j] = i /\ i \in 1 .. n /\ g[i] = n
          BY <1>1, <3>3
      <4>2. j # i => g[j] = j - 1 /\ j - 1 \in 1 .. n /\ f[j - 1] = j
          BY <1>1, <3>3
      <4> QED BY <3>3, <4>1, <4>2
    <3>4. j < i \/ (i =< j /\ j < n) \/ j = n
        BY <1>1
    <3> QED BY <3>1, <3>2, <3>3, <3>4
  <2> QED BY <2>1, <2>2
<1>7. ASSUME NEW j \in 1 .. n PROVE after[j] = before[f[j]]
  <2>1. CASE j < i
    <3>1. f[j] = j /\ j \in 1 .. i - 1 /\ j =< m /\ j =< m - 1
        BY <1>1, <2>1
    <3> QED BY <1>2, <1>4, <1>5, <3>1
  <2>2. CASE i =< j /\ j < m
    <3>1. f[j] = j + 1 /\ j \in i .. m - 1 /\ j + 1 \in 1 .. n /\ j + 1 =< m
        BY <1>1, <2>2
    <3> QED BY SMTT(30), <1>1, <1>2, <1>4, <1>5, <3>1
  <2>3. CASE m =< j /\ j < n
    <3>1. /\ f[j] = j + 1 /\ j + 1 \in 1 .. n /\ ~ (j + 1 =< m) /\ ~ (j =< m - 1)
          /\ j - (m - 1) = (j + 1) - m /\ (j + 1) - m \in 1 .. Len(p)
        BY <1>1, <2>3
    <3>2. after[j] = more[(j + 1) - m] /\ before[j + 1] = p[(j + 1) - m]
        BY <1>4, <1>5, <3>1
    <3> QED BY <1>3, <3>1, <3>2
  <2>4. CASE j = n
    <3>1. f[j] = i /\ i \in 1 .. n /\ i =< m /\ ~ (j =< m - 1) /\ j - (m - 1) = Len(p) + 1
        BY <1>1, <2>4
    <3> QED BY <1>3, <1>4, <1>5, <3>1
  <2> QED BY <1>1, <2>1, <2>2, <2>3, <2>4
<1> HIDE DEF f, g, n
<1>8. n \in Nat /\ Rearranged(before, after, n)
    BY ZenonT(40), <1>1, <1>4, <1>5, <1>6, <1>7 DEF n, Rearranged
<1>9. ToBag(after) = ToBag(before)
    BY <1>8, SameBag
<1> QED BY <1>9 DEF after, before, less, more

\* ... or one of the second to the end of the first loses and makes up none.
LEMMA MovedForth ==
    ASSUME NEW S, NEW s \in Seq(S), NEW p \in Seq(S), NEW i \in 1 .. Len(p)
    PROVE  ToBag(Append(s, p[i]) \o RemoveAt(p, i)) = ToBag(s \o p)
<1> DEFINE m == Len(s)
           n == m + Len(p)
           more == Append(s, p[i])
           less == RemoveAt(p, i)
           before == s \o p
           after  == more \o less
           f == [j \in 1 .. n |-> IF j =< m \/ j > m + i THEN j
                                  ELSE IF j = m + 1 THEN m + i ELSE j - 1]
           g == [j \in 1 .. n |-> IF j =< m \/ j > m + i THEN j
                                  ELSE IF j = m + i THEN m + 1 ELSE j + 1]
<1>1. /\ m \in Nat /\ Len(p) \in Nat /\ n \in Nat /\ i \in 1 .. Len(p)
      /\ p[i] \in S
    OBVIOUS
<1>2. /\ less \in Seq(S) /\ Len(less) = Len(p) - 1
      /\ \A j \in 1 .. i - 1 : less[j] = p[j]
      /\ \A j \in i .. Len(p) - 1 : less[j] = p[j + 1]
    BY RemoveAtEntries
<1>3. /\ more \in Seq(S) /\ Len(more) = m + 1
      /\ \A j \in 1 .. m : more[j] = s[j]
      /\ more[m + 1] = p[i]
    BY <1>1
<1> HIDE DEF less, more
<1>4. /\ Len(before) = n /\ DOMAIN before = 1 .. n
      /\ \A j \in 1 .. n : before[j] = IF j =< m THEN s[j] ELSE p[j - m]
    BY <1>1, ConcatProperties, LenProperties
<1>5. /\ Len(after) = n /\ DOMAIN after = 1 .. n
      /\ \A j \in 1 .. n : after[j] = IF j =< m + 1 THEN more[j] ELSE less[j - (m + 1)]
  <2>1. /\ after \in Seq(S) /\ Len(after) = Len(more) + Len(less)
        /\ \A j \in 1 .. Len(more) + Len(less) :
               after[j] = IF j =< Len(more) THEN more[j] ELSE less[j - Len(more)]
      BY <1>2, <1>3, ConcatProperties
  <2> HIDE DEF after, m
  <2>2. DOMAIN after = 1 .. Len(after)
      BY <2>1, LenProperties
  <2>3. Len(more) + Len(less) = n /\ Len(more) = m + 1
      BY <1>1, <1>2, <1>3
  <2> QED BY <2>1, <2>2, <2>3
<1> HIDE DEF before, after, m
<1>6. /\ f \in [1 .. n -> 1 .. n] /\ g \in [1 .. n -> 1 .. n]
      /\ \A j \in 1 .. n : g[f[j]] = j /\ f[g[j]] = j
  <2>1. \A j \in 1 .. n : f[j] \in 1 .. n /\ g[j] \in 1 .. n
      BY <1>1
  <2>2. \A j \in 1 .. n : g[f[j]] = j /\ f[g[j]] = j
      BY <1>1, <2>1
  <2> QED BY <2>1, <2>2
<1>7. ASSUME NEW j \in 1 .. n PROVE after[j] = before[f[j]]
  <2>1. CASE j =< m
      BY <1>1, <1>3, <1>4, <1>5, <2>1
  <2>2. CASE j = m + 1
    <3>1. f[j] = m + i /\ m + i \in 1 .. n /\ ~ (m + i =< m) /\ (m + i) - m = i
        BY <1>1, <2>2
    <3> QED BY <1>1, <1>3, <1>4, <1>5, <2>2, <3>1
  <2>3. CASE m + 1 < j /\ j =< m + i
    <3>1. /\ f[j] = j - 1 /\ j - 1 \in 1 .. n /\ ~ (j - 1 =< m) /\ ~ (j =< m + 1)
          /\ j - (m + 1) = j - 1 - m /\ j - 1 - m \in 1 .. i - 1
        BY <1>1, <2>3
    <3> QED BY <1>2, <1>4, <1>5, <3>1
  <2>4. CASE m + i < j
    <3>1. /\ f[j] = j /\ ~ (j =< m) /\ ~ (j =< m + 1)
          /\ (j - (m + 1)) + 1 = j - m /\ j - (m + 1) \in i .. Len(p) - 1
        BY <1>1, <2>4
    <3> QED BY ZenonT(40), <1>2, <1>4, <1>5, <3>1
  <2> QED BY <1>1, <2>1, <2>2, <2>3, <2>4
<1> HIDE DEF f, g, n
<1>8. n \in Nat /\ Rearranged(before, after, n)
    BY <1>1, <1>4, <1>5, <1>6, <1>7 DEF n, Rearranged
<1>9. ToBag(after) = ToBag(before)
    BY <1>8, SameBag
<1> QED BY <1>9 DEF after, before, less, more

\* The levels of a list of approvals.
LevelsIn(list) == [i \in DOMAIN list |-> list[i].level]

\* They are levels, one for each approval.
LEMMA LevelsInType ==
    ASSUME NEW list \in Seq(Approvals)
    PROVE  /\ LevelsIn(list) \in Seq(Levels) /\ Len(LevelsIn(list)) = Len(list)
           /\ \A i \in 1 .. Len(list) : LevelsIn(list)[i] = list[i].level
<1>1. Len(list) \in Nat /\ DOMAIN list = 1 .. Len(list)
      /\ \A i \in 1 .. Len(list) : list[i] \in Approvals
    OBVIOUS
<1>2. LevelsIn(list) \in [1 .. Len(list) -> Levels]
    BY <1>1 DEF LevelsIn, Approvals
<1>3. LevelsIn(list) \in Seq(Levels)
    BY <1>1, <1>2
<1>4. Len(LevelsIn(list)) = Len(list)
    BY <1>1, <1>2, <1>3, LenProperties
<1> QED BY <1>1, <1>3, <1>4 DEF LevelsIn

\* An approval added adds its level ...
LEMMA LevelsAppended ==
    ASSUME NEW list \in Seq(Approvals), NEW a \in Approvals
    PROVE  LevelsIn(Append(list, a)) = Append(LevelsIn(list), a.level)
<1> DEFINE n == Len(list)
           left  == LevelsIn(Append(list, a))
           right == Append(LevelsIn(list), a.level)
<1>1. /\ n \in Nat /\ a.level \in Levels
      /\ Append(list, a) \in Seq(Approvals) /\ Len(Append(list, a)) = n + 1
      /\ \A i \in 1 .. n : Append(list, a)[i] = list[i]
      /\ Append(list, a)[n + 1] = a
    BY DEF Approvals
<1>2. /\ left \in Seq(Levels) /\ Len(left) = n + 1
      /\ \A i \in 1 .. n + 1 : left[i] = Append(list, a)[i].level
    BY <1>1, LevelsInType
<1>3. /\ LevelsIn(list) \in Seq(Levels) /\ Len(LevelsIn(list)) = n
      /\ \A i \in 1 .. n : LevelsIn(list)[i] = list[i].level
    BY LevelsInType
<1>4. /\ right \in Seq(Levels) /\ Len(right) = n + 1
      /\ \A i \in 1 .. n : right[i] = LevelsIn(list)[i]
      /\ right[n + 1] = a.level
    BY <1>1, <1>3
<1>5. \A i \in 1 .. n + 1 : left[i] = right[i]
    BY <1>1, <1>2, <1>3, <1>4
<1> HIDE DEF left, right, n
<1>6. left = right
    BY <1>2, <1>4, <1>5, SeqEqual
<1> QED BY <1>6 DEF left, right

\* ... and one taken out takes its level out.
LEMMA LevelsRemoved ==
    ASSUME NEW list \in Seq(Approvals), NEW k \in 1 .. Len(list)
    PROVE  LevelsIn(RemoveAt(list, k)) = RemoveAt(LevelsIn(list), k)
<1> DEFINE n == Len(list)
           rest  == RemoveAt(list, k)
           left  == LevelsIn(rest)
           all   == LevelsIn(list)
           right == RemoveAt(all, k)
<1>1. n \in Nat /\ k \in 1 .. n
    OBVIOUS
<1>2. /\ rest \in Seq(Approvals) /\ Len(rest) = n - 1
      /\ \A i \in 1 .. k - 1 : rest[i] = list[i]
      /\ \A i \in k .. n - 1 : rest[i] = list[i + 1]
    BY RemoveAtEntries
<1> HIDE DEF rest
<1>3. /\ left \in Seq(Levels) /\ Len(left) = n - 1
      /\ \A i \in 1 .. n - 1 : left[i] = rest[i].level
    BY <1>2, LevelsInType
<1>4. /\ all \in Seq(Levels) /\ Len(all) = n
      /\ \A i \in 1 .. n : all[i] = list[i].level
    BY LevelsInType
<1> HIDE DEF left, all
<1>5. /\ right \in Seq(Levels) /\ Len(right) = n - 1
      /\ \A i \in 1 .. k - 1 : right[i] = all[i]
      /\ \A i \in k .. n - 1 : right[i] = all[i + 1]
    BY <1>4, RemoveAtEntries
<1> HIDE DEF right, n
<1>6. ASSUME NEW i \in 1 .. n - 1 PROVE left[i] = right[i]
  <2>1. CASE i < k
    <3>1. i \in 1 .. k - 1 /\ i \in 1 .. n
        BY <1>1, <2>1
    <3> QED BY <1>2, <1>3, <1>4, <1>5, <3>1
  <2>2. CASE k =< i
    <3>1. i \in k .. n - 1 /\ i + 1 \in 1 .. n
        BY <1>1, <2>2
    <3> QED BY <1>2, <1>3, <1>4, <1>5, <3>1
  <2> QED BY <1>1, <2>1, <2>2
<1>7. left = right
    BY <1>3, <1>5, <1>6, SeqEqual
<1> QED BY <1>7 DEF left, right, rest, all

\* When a level approves it moves to the other list; the bag of both stays.
LEMMA AskedProvided ==
    ASSUME NEW row \in ApprovalRows, NEW level \in Levels, NEW time \in Nat,
           RequestedAt(row, level) # 0
    PROVE  Asked(Provide(row, level, time)) = Asked(row)
<1> DEFINE i == RequestedAt(row, level)
           a == [level |-> level, time |-> time]
<1>1. row.requested \in Seq(Levels) /\ row.provided \in Seq(Approvals) /\ a \in Approvals
    BY DEF ApprovalRows, Approvals
<1>2. i \in 1 .. Len(row.requested) /\ row.requested[i] = level
    BY RequestedPlace
<1>3. LevelsIn(Append(row.provided, a)) = Append(LevelsIn(row.provided), level)
    BY <1>1, LevelsAppended
<1>4. LevelsIn(row.provided) \in Seq(Levels)
    BY <1>1, LevelsInType
<1> HIDE DEF i, a
<1>5. ToBag(RemoveAt(row.requested, i) \o Append(LevelsIn(row.provided), level))
          = ToBag(row.requested \o LevelsIn(row.provided))
    BY <1>1, <1>2, <1>4, MovedBack
<1>6. /\ Provide(row, level, time).requested = RemoveAt(row.requested, i)
      /\ Provide(row, level, time).provided = Append(row.provided, a)
    BY DEF Provide, i, a
<1> QED BY <1>3, <1>5, <1>6 DEF Asked, LevelsIn

\* So it does when an approval is taken back.
LEMMA AskedTakenBack ==
    ASSUME NEW row \in ApprovalRows, NEW level \in Levels, ProvidedAt(row, level) # 0
    PROVE  Asked(TakeBack(row, level)) = Asked(row)
<1> DEFINE i == ProvidedAt(row, level)
<1>1. row.requested \in Seq(Levels) /\ row.provided \in Seq(Approvals)
    BY DEF ApprovalRows, Approvals
<1>2. i \in 1 .. Len(row.provided) /\ row.provided[i].level = level
    BY ProvidedPlace
<1> HIDE DEF i
<1>3. LevelsIn(RemoveAt(row.provided, i)) = RemoveAt(LevelsIn(row.provided), i)
    BY <1>1, <1>2, LevelsRemoved
<1>4. /\ LevelsIn(row.provided) \in Seq(Levels) /\ i \in 1 .. Len(LevelsIn(row.provided))
      /\ LevelsIn(row.provided)[i] = level
    BY <1>1, <1>2, LevelsInType
<1>5. ToBag(Append(row.requested, level) \o RemoveAt(LevelsIn(row.provided), i))
          = ToBag(row.requested \o LevelsIn(row.provided))
    BY <1>1, <1>4, MovedForth
<1>6. /\ TakeBack(row, level).requested = Append(row.requested, level)
      /\ TakeBack(row, level).provided = RemoveAt(row.provided, i)
    BY DEF TakeBack, i
<1> QED BY <1>3, <1>5, <1>6 DEF Asked, LevelsIn

\* What a step may do to the rows of approvals.
AskedStep ==
    /\ \A k \in DOMAIN approvals \cap DOMAIN approvals' :
           Asked(approvals'[k]) = Asked(approvals[k])
    /\ \A k \in DOMAIN old_approvals \cap DOMAIN old_approvals' :
           Asked(old_approvals'[k]) = Asked(old_approvals[k])

\* One step: only approve and unapprove touch a row that stays.
LEMMA NextAsked == IInv /\ [Next]_msigVars => AskedStep
<1> SUFFICES ASSUME IInv, [Next]_msigVars PROVE AskedStep
    OBVIOUS
<1>t. /\ now \in Nat /\ DOMAIN proposals = DOMAIN approvals \cup DOMAIN old_approvals
      /\ \A j \in DOMAIN approvals : approvals[j] \in ApprovalRows
      /\ \A j \in DOMAIN old_approvals : old_approvals[j] \in ApprovalRows
    BY DEF IInv, TypeOK, TablesMatch
<1>1. ASSUME NEW k \in Keys, NEW level \in Levels, NEW hash, Approve(k, level, hash)
      PROVE  AskedStep
  <2>1. CASE /\ k \in DOMAIN approvals /\ RequestedAt(approvals[k], level) # 0
             /\ approvals' = [approvals EXCEPT ![k] = Provide(@, level, now)]
             /\ UNCHANGED old_approvals
    <3>1. Asked(Provide(approvals[k], level, now)) = Asked(approvals[k])
        BY <1>t, <2>1, AskedProvided
    <3> QED BY <2>1, <3>1 DEF AskedStep
  <2>2. CASE /\ k \notin DOMAIN approvals /\ k \in DOMAIN old_approvals
             /\ RequestedAt(old_approvals[k], level) # 0
             /\ old_approvals' = [old_approvals EXCEPT ![k] = Provide(@, level, 0)]
             /\ UNCHANGED approvals
    <3>1. Asked(Provide(old_approvals[k], level, 0)) = Asked(old_approvals[k])
        BY <1>t, <2>2, AskedProvided
    <3> QED BY <2>2, <3>1 DEF AskedStep
  <2> QED BY <1>1, <2>1, <2>2 DEF Approve
<1>2. ASSUME NEW k \in Keys, NEW level \in Levels, Unapprove(k, level)
      PROVE  AskedStep
  <2>1. CASE /\ k \in DOMAIN approvals /\ ProvidedAt(approvals[k], level) # 0
             /\ approvals' = [approvals EXCEPT ![k] = TakeBack(@, level)]
             /\ UNCHANGED old_approvals
    <3>1. Asked(TakeBack(approvals[k], level)) = Asked(approvals[k])
        BY <1>t, <2>1, AskedTakenBack
    <3> QED BY <2>1, <3>1 DEF AskedStep
  <2>2. CASE /\ k \notin DOMAIN approvals /\ k \in DOMAIN old_approvals
             /\ ProvidedAt(old_approvals[k], level) # 0
             /\ old_approvals' = [old_approvals EXCEPT ![k] = TakeBack(@, level)]
             /\ UNCHANGED approvals
    <3>1. Asked(TakeBack(old_approvals[k], level)) = Asked(old_approvals[k])
        BY <1>t, <2>2, AskedTakenBack
    <3> QED BY <2>2, <3>1 DEF AskedStep
  <2> QED BY <1>2, <2>1, <2>2 DEF Unapprove
<1>3. ASSUME NEW k \in Keys, NEW requested \in Requests, NEW trx \in Transactions,
             Propose(k[1], k[2], requested, trx)
      PROVE  AskedStep
  <2>1. /\ k \notin DOMAIN approvals /\ UNCHANGED old_approvals
        /\ approvals' = Put(approvals, k, [requested |-> requested, provided |-> <<>>])
      BY <1>3, KeyIsPair DEF Propose
  <2> QED BY <2>1 DEF AskedStep, Put
<1>4. ASSUME NEW k, EraseApprovals(k)
      PROVE  AskedStep
    BY <1>4 DEF EraseApprovals, Erase, AskedStep
<1>5. ASSUME UNCHANGED <<approvals, old_approvals>>
      PROVE  AskedStep
    BY <1>5 DEF AskedStep
<1>6. ASSUME NEW k \in Keys, NEW account \in Accounts, Cancel(k, account) \/ Exec(k, account)
      PROVE  AskedStep
    BY <1>4, <1>6 DEF Cancel, Exec
<1>7. ASSUME NEW k \in Keys, RunDeferred(k)
      PROVE  AskedStep
    BY <1>5, <1>7 DEF RunDeferred
<1>8. ASSUME NEW account \in Accounts, Invalidate(account)
      PROVE  AskedStep
    BY <1>5, <1>8 DEF Invalidate
<1>9. CASE NextBlock \/ UNCHANGED msigVars
    BY <1>5, <1>9 DEF NextBlock, msigVars
<1> QED BY <1>1, <1>2, <1>3, <1>6, <1>7, <1>8, <1>9 DEF Next, KeyStep

\* AskedForStays, always: whatever order levels approve and take back in, none is
\* lost from the lists of a proposal, and none is there more often than asked.
THEOREM AskedForAlways == Spec => AskedForStays
<1>1. IInv /\ [Next]_msigVars => [AskedStep]_msigVars
    BY NextAsked
<1>2. Spec => [][AskedStep]_msigVars
    BY <1>1, MultisigInv, PTL DEF Spec
<1>3. AskedForStays <=> [][AskedStep]_msigVars
    BY DEF AskedForStays, AskedStep
<1> QED BY <1>2, <1>3

\* A level asked for once is not among the approvals when one was taken back: it
\* is the last of those requested, and it is there once.
LEMMA TakenBackOnce ==
    ASSUME NEW row \in ApprovalRows, NEW level \in Levels, ProvidedAt(row, level) # 0,
           Asked(row)[level] = 1
    PROVE  \A a \in ToSet(TakeBack(row, level).provided) : a.level # level
<1> DEFINE i == ProvidedAt(row, level)
           m == Len(row.requested)
           first == Append(row.requested, level)
           rest  == RemoveAt(row.provided, i)
           all   == first \o LevelsIn(rest)
           A == {q \in DOMAIN all : all[q] = level}
<1>1. /\ row.requested \in Seq(Levels) /\ row.provided \in Seq(Approvals)
      /\ i \in 1 .. Len(row.provided)
    BY ProvidedPlace DEF ApprovalRows, Approvals
<1>2. /\ first \in Seq(Levels) /\ Len(first) = m + 1 /\ first[m + 1] = level /\ m \in Nat
    BY <1>1
<1>3. rest \in Seq(Approvals)
    BY <1>1, RemoveAtEntries
<1>4. /\ TakeBack(row, level).requested = first
      /\ TakeBack(row, level).provided = rest
    BY DEF TakeBack
<1>5. ToBag(all) = Asked(row)
    BY <1>4, AskedTakenBack DEF Asked, LevelsIn
<1> HIDE DEF first, rest, m
<1>6. /\ LevelsIn(rest) \in Seq(Levels) /\ Len(LevelsIn(rest)) = Len(rest) /\ Len(rest) \in Nat
      /\ \A j \in 1 .. Len(rest) : LevelsIn(rest)[j] = rest[j].level
    BY <1>3, LevelsInType
<1>7. /\ all \in Seq(Levels) /\ Len(all) = (m + 1) + Len(rest)
      /\ \A q \in 1 .. (m + 1) + Len(rest) :
             all[q] = IF q =< m + 1 THEN first[q] ELSE LevelsIn(rest)[q - (m + 1)]
  <2>1. /\ all \in Seq(Levels) /\ Len(all) = Len(first) + Len(LevelsIn(rest))
        /\ \A q \in 1 .. Len(first) + Len(LevelsIn(rest)) :
               all[q] = IF q =< Len(first) THEN first[q] ELSE LevelsIn(rest)[q - Len(first)]
      BY <1>2, <1>6, ConcatProperties
  <2> HIDE DEF all
  <2> QED BY <1>2, <1>6, <2>1
<1> HIDE DEF all
<1>8. DOMAIN all = 1 .. (m + 1) + Len(rest)
    BY <1>7, LenProperties
<1>9. m + 1 \in A
    BY <1>2, <1>6, <1>7, <1>8
<1>10. IsFiniteSet(A) /\ Cardinality(A) = 1
  <2>1. IsFiniteSet(DOMAIN all)
    <3>1. 1 \in Int /\ (m + 1) + Len(rest) \in Int
        BY <1>2, <1>6
    <3>2. IsFiniteSet(1 .. (m + 1) + Len(rest))
        BY <3>1, FS_Interval
    <3> QED BY <1>8, <3>2
  <2>2. IsFiniteSet(A)
      BY <2>1, FS_Subset
  <2>3. ToBag(all) = [x \in Range(all) |-> Occurs(all, x)] /\ Occurs(all, level) = Cardinality(A)
      BY DEF ToBag, Occurs
  <2>4. level \in Range(all)
      BY <1>9 DEF Range
  <2> QED BY <1>5, <2>2, <2>3, <2>4
<1> HIDE DEF A
<1>11. PICK x : A = {x}
    BY <1>10, FS_Singleton
<1> USE DEF A
<1>12. ASSUME NEW a \in ToSet(rest), a.level = level PROVE FALSE
  <2>1. PICK j \in 1 .. Len(rest) : a = rest[j]
      BY <1>3, <1>12 DEF ToSet
  <2> DEFINE q == (m + 1) + j
  <2>2. q \in 1 .. (m + 1) + Len(rest) /\ ~ (q =< m + 1) /\ q - (m + 1) = j
      BY <1>2, <1>6
  <2>3. all[q] = level
      BY <1>6, <1>7, <1>12, <2>1, <2>2
  <2>4. q \in A
      BY <1>8, <2>2, <2>3
  <2>5. q = m + 1
      BY <1>9, <1>11, <2>4
  <2> QED BY <2>2, <2>5, <1>2
<1> QED BY <1>4, <1>12

\* What a step withdraws.
WithdrawnStep ==
    \A k \in DOMAIN proposals \cap DOMAIN proposals' :
        \A level \in Levels :
            \/ Invalidate(level[1])
            \/ /\ Unapprove(k, level)
               /\ Asked(RowOf(k))[level] = 1
            => level \notin ApprovedBy(k)'

\* Whatever is withdrawn does not count afterwards.
LEMMA NextWithdrawn == IInv => WithdrawnStep
<1> SUFFICES ASSUME IInv, NEW k \in DOMAIN proposals \cap DOMAIN proposals', NEW level \in Levels
             PROVE  /\ Invalidate(level[1]) => level \notin ApprovedBy(k)'
                    /\ /\ Unapprove(k, level)
                       /\ Asked(RowOf(k))[level] = 1
                       => level \notin ApprovedBy(k)'
    BY DEF WithdrawnStep
<1>t. /\ DOMAIN proposals = DOMAIN approvals \cup DOMAIN old_approvals
      /\ \A j \in DOMAIN approvals : approvals[j] \in ApprovalRows
      /\ \A j \in DOMAIN old_approvals : old_approvals[j] \in ApprovalRows
    BY DEF IInv, TypeOK, TablesMatch
<1>1. ASSUME Invalidate(level[1]) PROVE level \notin ApprovedBy(k)'
  <2>1. level[1] \in Accounts
      BY MultisigAssumption
  <2>2. Agreement!WithdrawAll(level[1]) /\ proposals' = proposals
      BY <1>1, <2>1, InvalidateWithdraws DEF Invalidate
  <2>3. Consents' = [j \in DOMAIN Consents |-> {l \in Consents[j] : l[1] # level[1]}]
      BY <2>2 DEF Agreement!WithdrawAll, Consents
  <2>4. Consents'[k] = ApprovedBy(k)' /\ k \in DOMAIN Consents
      BY <2>2 DEF Consents
  <2> QED BY <2>3, <2>4
<1>2. ASSUME Unapprove(k, level), Asked(RowOf(k))[level] = 1
      PROVE  level \notin ApprovedBy(k)'
  <2>1. CASE /\ k \in DOMAIN approvals /\ ProvidedAt(approvals[k], level) # 0
             /\ approvals' = [approvals EXCEPT ![k] = TakeBack(@, level)]
             /\ UNCHANGED old_approvals
    <3>1. RowOf(k) = approvals[k]
        BY <2>1 DEF RowOf
    <3>2. \A a \in ToSet(TakeBack(approvals[k], level).provided) : a.level # level
        BY <1>t, <1>2, <2>1, <3>1, TakenBackOnce
    <3>3. k \in DOMAIN approvals' /\ approvals'[k] = TakeBack(approvals[k], level)
        BY <2>1
    <3> QED BY <3>2, <3>3, ApprovedMembersNext
  <2>2. CASE /\ k \notin DOMAIN approvals /\ k \in DOMAIN old_approvals
             /\ ProvidedAt(old_approvals[k], level) # 0
             /\ old_approvals' = [old_approvals EXCEPT ![k] = TakeBack(@, level)]
             /\ UNCHANGED approvals
    <3>1. RowOf(k) = old_approvals[k]
        BY <2>2 DEF RowOf
    <3>2. \A a \in ToSet(TakeBack(old_approvals[k], level).provided) : a.level # level
        BY <1>t, <1>2, <2>2, <3>1, TakenBackOnce
    <3>3. k \notin DOMAIN approvals' /\ old_approvals'[k] = TakeBack(old_approvals[k], level)
        BY <2>2
    <3> QED BY <3>2, <3>3, ApprovedMembersNext
  <2> QED BY <1>2, <2>1, <2>2 DEF Unapprove
<1> QED BY <1>1, <1>2

\* WithdrawalCounts, always: an invalidation leaves no approval of its account that
\* counts, and a level that takes back what it was asked for once has none left.
THEOREM WithdrawalAlwaysCounts == Spec => WithdrawalCounts
<1>1. IInv /\ [Next]_msigVars => [WithdrawnStep]_msigVars
    BY NextWithdrawn
<1>2. Spec => [][WithdrawnStep]_msigVars
    BY <1>1, MultisigInv, PTL DEF Spec
<1>3. WithdrawalCounts <=> [][WithdrawnStep]_msigVars
    BY DEF WithdrawalCounts, WithdrawnStep
<1> QED BY <1>2, <1>3

-----------------------------------------------------------------------------
(* What was read, under the specification with the record of it.           *)

\* The approvals of a proposal, those that were invalidated included.
Given(k) == IF k \in DOMAIN approvals THEN ToSet(approvals[k].provided)
                                      ELSE ToSet(old_approvals[k].provided)

\* Invalidation depends on times, so the invariant looks at all approvals.
AllAsRead ==
    \A k \in DOMAIN proposals : \A a \in Given(k) :
        /\ <<k, a.level>> \in DOMAIN signed
        /\ signed[<<k, a.level>>] \in {NoHash, proposals[k]}

SignedInv == IInv /\ AllAsRead

\* The step of the contract that a step with the record is.
LEMMA ReadStep == [ReadNext]_<<msigVars, signed>> => [Next]_msigVars
BY DEF ReadNext, Next, KeyStep, msigVars

\* What was read of one proposal is not touched by a step that leaves its row.
LEMMA SameAsRead ==
    ASSUME AllAsRead, NEW k \in DOMAIN proposals, proposals'[k] = proposals[k],
           Given(k)' \subseteq Given(k), signed' = signed
    PROVE  \A a \in Given(k)' : /\ <<k, a.level>> \in DOMAIN signed'
                                /\ signed'[<<k, a.level>>] \in {NoHash, proposals'[k]}
BY DEF AllAsRead

\* The same row, the same approvals.
LEMMA SameGiven ==
    ASSUME NEW k,
           k \in DOMAIN approvals' <=> k \in DOMAIN approvals,
           k \in DOMAIN approvals => approvals'[k] = approvals[k],
           k \notin DOMAIN approvals => old_approvals'[k] = old_approvals[k]
    PROVE  Given(k)' = Given(k)
BY DEF Given

\* An approval adds one entry, of the level that approves, to its own proposal.
LEMMA ApproveGives ==
    ASSUME IInv, NEW k \in Keys, NEW level \in Levels, NEW hash, Approve(k, level, hash)
    PROVE  /\ k \in DOMAIN proposals
           /\ \A j \in DOMAIN proposals : j # k => Given(j)' = Given(j)
           /\ \A a \in Given(k)' : a \in Given(k) \/ a.level = level
<1>t. /\ now \in Nat /\ DOMAIN proposals = DOMAIN approvals \cup DOMAIN old_approvals
      /\ \A j \in DOMAIN approvals : approvals[j] \in ApprovalRows
      /\ \A j \in DOMAIN old_approvals : old_approvals[j] \in ApprovalRows
    BY DEF IInv, TypeOK, TablesMatch
<1>1. CASE /\ k \in DOMAIN approvals /\ RequestedAt(approvals[k], level) # 0
           /\ approvals' = [approvals EXCEPT ![k] = Provide(@, level, now)]
           /\ UNCHANGED old_approvals
  <2>1. /\ DOMAIN approvals' = DOMAIN approvals
        /\ \A j \in DOMAIN approvals : j # k => approvals'[j] = approvals[j]
        /\ approvals'[k] = Provide(approvals[k], level, now)
      BY <1>1
  <2>2. ToSet(approvals'[k].provided)
            = ToSet(approvals[k].provided) \cup {[level |-> level, time |-> now]}
      BY <1>t, <1>1, <2>1, ProvideRow
  <2>3. \A j : j # k => Given(j)' = Given(j)
      BY <1>1, <2>1, SameGiven
  <2>4. Given(k)' = Given(k) \cup {[level |-> level, time |-> now]}
      BY <1>1, <2>1, <2>2 DEF Given
  <2> QED BY <1>t, <1>1, <2>3, <2>4
<1>2. CASE /\ k \notin DOMAIN approvals /\ k \in DOMAIN old_approvals
           /\ RequestedAt(old_approvals[k], level) # 0
           /\ old_approvals' = [old_approvals EXCEPT ![k] = Provide(@, level, 0)]
           /\ UNCHANGED approvals
  <2>1. /\ DOMAIN old_approvals' = DOMAIN old_approvals
        /\ \A j \in DOMAIN old_approvals : j # k => old_approvals'[j] = old_approvals[j]
        /\ old_approvals'[k] = Provide(old_approvals[k], level, 0)
      BY <1>2
  <2>2. ToSet(old_approvals'[k].provided)
            = ToSet(old_approvals[k].provided) \cup {[level |-> level, time |-> 0]}
      BY <1>t, <1>2, <2>1, ProvideRow
  <2>3. \A j \in DOMAIN proposals : j # k => Given(j)' = Given(j)
      BY <1>t, <1>2, <2>1, SameGiven
  <2>4. Given(k)' = Given(k) \cup {[level |-> level, time |-> 0]}
      BY <1>2, <2>1, <2>2 DEF Given
  <2> QED BY <1>t, <1>2, <2>3, <2>4
<1> QED BY <1>1, <1>2 DEF Approve

\* Taking one back adds none to any proposal.
LEMMA UnapproveTakes ==
    ASSUME IInv, NEW k \in Keys, NEW level \in Levels, Unapprove(k, level)
    PROVE  \A j \in DOMAIN proposals : Given(j)' \subseteq Given(j)
<1>t. /\ DOMAIN proposals = DOMAIN approvals \cup DOMAIN old_approvals
      /\ \A j \in DOMAIN approvals : approvals[j] \in ApprovalRows
      /\ \A j \in DOMAIN old_approvals : old_approvals[j] \in ApprovalRows
    BY DEF IInv, TypeOK, TablesMatch
<1>1. CASE /\ k \in DOMAIN approvals /\ ProvidedAt(approvals[k], level) # 0
           /\ approvals' = [approvals EXCEPT ![k] = TakeBack(@, level)]
           /\ UNCHANGED old_approvals
  <2>1. /\ DOMAIN approvals' = DOMAIN approvals
        /\ \A j \in DOMAIN approvals : j # k => approvals'[j] = approvals[j]
        /\ approvals'[k] = TakeBack(approvals[k], level)
      BY <1>1
  <2>2. ToSet(approvals'[k].provided) \subseteq ToSet(approvals[k].provided)
      BY <1>t, <1>1, <2>1, TakeBackRow
  <2>3. Given(k)' \subseteq Given(k)
      BY <1>1, <2>1, <2>2 DEF Given
  <2>4. \A j : j # k => Given(j)' = Given(j)
      BY <1>1, <2>1, SameGiven
  <2> QED BY <2>3, <2>4
<1>2. CASE /\ k \notin DOMAIN approvals /\ k \in DOMAIN old_approvals
           /\ ProvidedAt(old_approvals[k], level) # 0
           /\ old_approvals' = [old_approvals EXCEPT ![k] = TakeBack(@, level)]
           /\ UNCHANGED approvals
  <2>1. /\ DOMAIN old_approvals' = DOMAIN old_approvals
        /\ \A j \in DOMAIN old_approvals : j # k => old_approvals'[j] = old_approvals[j]
        /\ old_approvals'[k] = TakeBack(old_approvals[k], level)
      BY <1>2
  <2>2. ToSet(old_approvals'[k].provided) \subseteq ToSet(old_approvals[k].provided)
      BY <1>t, <1>2, <2>1, TakeBackRow
  <2>3. Given(k)' \subseteq Given(k)
      BY <1>2, <2>1, <2>2 DEF Given
  <2>4. \A j \in DOMAIN proposals : j # k => Given(j)' = Given(j)
      BY <1>t, <1>2, <2>1, SameGiven
  <2> QED BY <2>3, <2>4
<1> QED BY <1>1, <1>2 DEF Unapprove

\* A closed proposal leaves the others, and nothing of its own.
LEMMA EraseLeaves ==
    ASSUME IInv, NEW k \in DOMAIN proposals, proposals' = Erase(proposals, k), EraseApprovals(k)
    PROVE  /\ DOMAIN proposals' = DOMAIN proposals \ {k}
           /\ \A j \in DOMAIN proposals' : proposals'[j] = proposals[j] /\ Given(j)' = Given(j)
<1>1. \A j \in DOMAIN proposals : j # k =>
          /\ j \in DOMAIN approvals' <=> j \in DOMAIN approvals
          /\ j \in DOMAIN approvals => approvals'[j] = approvals[j]
          /\ j \notin DOMAIN approvals => old_approvals'[j] = old_approvals[j]
    BY DEF EraseApprovals, Erase, IInv, TablesMatch
<1>2. \A j \in DOMAIN proposals : j # k => Given(j)' = Given(j)
    BY <1>1, SameGiven
<1> QED BY <1>2 DEF Erase

\* A new proposal begins with no approvals, of whatever was there before it.
LEMMA ProposeBare ==
    ASSUME IInv, NEW k \in Keys, NEW requested, NEW trx, Propose(k[1], k[2], requested, trx)
    PROVE  /\ DOMAIN proposals' = DOMAIN proposals \cup {k}
           /\ k \notin DOMAIN proposals /\ Given(k)' = {}
           /\ \A j \in DOMAIN proposals : proposals'[j] = proposals[j] /\ Given(j)' = Given(j)
<1> DEFINE row == [requested |-> requested, provided |-> <<>>]
<1>1. /\ k \notin DOMAIN proposals /\ k \notin DOMAIN approvals
      /\ proposals' = Put(proposals, k, trx) /\ approvals' = Put(approvals, k, row)
      /\ UNCHANGED old_approvals
    BY KeyIsPair DEF Propose
<1>2. /\ DOMAIN approvals' = DOMAIN approvals \cup {k} /\ approvals'[k] = row
      /\ \A j \in DOMAIN approvals : approvals'[j] = approvals[j]
    BY <1>1 DEF Put
<1>3. \A j : j # k => Given(j)' = Given(j)
    BY <1>1, <1>2, SameGiven
<1>4. Given(k)' = {}
    BY <1>2 DEF Given, ToSet
<1> QED BY <1>1, <1>3, <1>4 DEF Put

\* The record agrees with the approvals after every step.
LEMMA NextAsRead == SignedInv /\ [ReadNext]_<<msigVars, signed>> => SignedInv'
<1> SUFFICES ASSUME SignedInv, [ReadNext]_<<msigVars, signed>> PROVE SignedInv'
    OBVIOUS
<1>0. IInv /\ AllAsRead /\ IInv'
    BY ReadStep, NextInv DEF SignedInv
<1> SUFFICES AllAsRead'
    BY <1>0 DEF SignedInv
<1>1. ASSUME NEW k \in Keys, NEW level \in Levels, NEW hash \in Transactions \cup {NoHash},
             Approve(k, level, hash), signed' = Put(signed, <<k, level>>, hash)
      PROVE  AllAsRead'
  <2>1. /\ proposals' = proposals /\ k \in DOMAIN proposals
        /\ hash \in {NoHash, proposals[k]}
      BY <1>0, <1>1, ApproveGives DEF Approve, HashMatches
  <2>2. /\ \A j \in DOMAIN proposals : j # k => Given(j)' = Given(j)
        /\ \A a \in Given(k)' : a \in Given(k) \/ a.level = level
      BY <1>0, <1>1, ApproveGives
  <2>3. /\ DOMAIN signed' = DOMAIN signed \cup {<<k, level>>}
        /\ signed'[<<k, level>>] = hash
        /\ \A r \in DOMAIN signed : r # <<k, level>> => signed'[r] = signed[r]
      BY <1>1 DEF Put
  <2>4. ASSUME NEW j \in DOMAIN proposals, NEW a \in Given(j)'
        PROVE  /\ <<j, a.level>> \in DOMAIN signed'
               /\ signed'[<<j, a.level>>] \in {NoHash, proposals'[j]}
    <3>1. CASE j = k /\ a.level = level
        BY <2>1, <2>3, <3>1
    <3>2. CASE j # k \/ a.level # level
      <4>1. a \in Given(j)
          BY <2>2, <2>4, <3>2
      <4>2. /\ <<j, a.level>> \in DOMAIN signed
            /\ signed[<<j, a.level>>] \in {NoHash, proposals[j]}
          BY <1>0, <4>1 DEF AllAsRead
      <4>3. <<j, a.level>> # <<k, level>>
          BY <3>2
      <4> QED BY <2>1, <2>3, <4>2, <4>3
    <3> QED BY <3>1, <3>2
  <2> QED BY <2>1, <2>4 DEF AllAsRead
<1>2. ASSUME NEW k \in Keys, NEW requested \in Requests, NEW trx \in Transactions,
             Propose(k[1], k[2], requested, trx), signed' = signed
      PROVE  AllAsRead'
    BY <1>0, <1>2, ProposeBare, SameAsRead DEF AllAsRead
<1>3. ASSUME NEW k \in Keys, NEW level \in Levels, Unapprove(k, level), signed' = signed
      PROVE  AllAsRead'
  <2>1. proposals' = proposals
      BY <1>3 DEF Unapprove
  <2> QED BY <1>0, <1>3, <2>1, UnapproveTakes, SameAsRead DEF AllAsRead
<1>4. ASSUME NEW k \in DOMAIN proposals, proposals' = Erase(proposals, k), EraseApprovals(k),
             signed' = signed
      PROVE  AllAsRead'
    BY ZenonT(40), <1>0, <1>4, EraseLeaves, SameAsRead DEF AllAsRead
<1>5. ASSUME UNCHANGED <<proposals, approvals, old_approvals, signed>>
      PROVE  AllAsRead'
    BY <1>0, <1>5 DEF AllAsRead, Given
<1>6. ASSUME NEW k \in Keys, NEW account \in Accounts, Cancel(k, account), signed' = signed
      PROVE  AllAsRead'
    BY <1>4, <1>6 DEF Cancel
<1>7. ASSUME NEW k \in Keys, NEW account \in Accounts, Exec(k, account), signed' = signed
      PROVE  AllAsRead'
    BY <1>4, <1>7 DEF Exec, CanExec
<1>8. ASSUME NEW k \in Keys, RunDeferred(k), signed' = signed
      PROVE  AllAsRead'
    BY <1>5, <1>8 DEF RunDeferred
<1>9. ASSUME NEW account \in Accounts, Invalidate(account), signed' = signed
      PROVE  AllAsRead'
    BY <1>5, <1>9 DEF Invalidate
<1>10. CASE NextBlock /\ signed' = signed
    BY <1>5, <1>10 DEF NextBlock
<1>11. CASE UNCHANGED <<msigVars, signed>>
    BY <1>5, <1>11 DEF msigVars
<1> QED BY <1>1, <1>2, <1>3, <1>6, <1>7, <1>8, <1>9, <1>10, <1>11 DEF ReadNext

\* Proposals of the older release begin without approvals.
LEMMA InitAsRead == ReadInit => SignedInv
<1> SUFFICES ASSUME ReadInit PROVE SignedInv
    OBVIOUS
<1>1. Init /\ IInv
    BY InitInv DEF ReadInit
<1>2. \A k \in DOMAIN proposals : Given(k) = {}
    BY <1>1 DEF Init, EmptyTable, Given, ToSet
<1> QED BY <1>1, <1>2 DEF SignedInv, AllAsRead

\* SignedAsRead, always: cancelling and proposing another transaction under the
\* same name never turns an approval into one of what its giver has not read.
THEOREM AlwaysAsRead == ReadSpec => []SignedAsRead
<1>1. SignedInv => SignedAsRead
    BY DEF SignedInv, AllAsRead, SignedAsRead, Given, ApprovedBy
<1> QED BY <1>1, InitAsRead, NextAsRead, PTL DEF ReadSpec
=============================================================================
