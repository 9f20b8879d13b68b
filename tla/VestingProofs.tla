--------------------------- MODULE VestingProofs ---------------------------
(***************************************************************************)
(* Theorems about the vesting contract, for all sets of tokens, accounts,  *)
(* dates, periods and quantities and any number of grants: first under any *)
(* administrator, then under one who is careful, up to the refinement of   *)
(* Escrow.                                                                 *)
(***************************************************************************)
EXTENDS CarefulVesting, VestingMathProofs, SumsProofs

-----------------------------------------------------------------------------
(* The primary keys of a table. *)

\* The next key is above all keys of the table and just above one of them.
LEMMA NextKey ==
    ASSUME NEW table, NEW max \in Nat, DOMAIN table \subseteq 0 .. max - 1
    PROVE  /\ available_primary_key(table) \in 0 .. max
           /\ \A k \in DOMAIN table : k < available_primary_key(table)
           /\ DOMAIN table # {} => available_primary_key(table) - 1 \in DOMAIN table
<1> DEFINE D == DOMAIN table
<1>1. CASE D = {}
    BY <1>1 DEF available_primary_key
<1>2. CASE D # {}
  <2> DEFINE Gaps == {max - 1 - k : k \in D}
             last == CHOOSE k \in D : \A j \in D : j =< k
  <2>1. Gaps # {} /\ Gaps \in SUBSET Nat
      BY <1>2
  <2>2. PICK gap \in Gaps : \A g \in Gaps : gap =< g
      BY <2>1, NatMin
  <2>3. PICK k \in D : gap = max - 1 - k
      BY <2>2
  <2>4. \A j \in D : j =< k
      BY <2>2, <2>3
  <2>5. last \in D /\ \A j \in D : j =< last
      BY <2>4
  <2>6. available_primary_key(table) = 1 + last
      BY <1>2 DEF available_primary_key
  <2> QED BY <2>5, <2>6
<1> QED BY <1>1, <1>2

\* The next key depends only on the keys of the table.
LEMMA SameKeys ==
    ASSUME NEW t, NEW u, DOMAIN t = DOMAIN u
    PROVE  available_primary_key(t) = available_primary_key(u)
BY DEF available_primary_key

\* A row put at the next key moves it up by one.
LEMMA PutNext ==
    ASSUME NEW table, NEW max \in Nat, DOMAIN table \subseteq 0 .. max - 1, NEW row,
           available_primary_key(table) < max
    PROVE  available_primary_key(Put(table, available_primary_key(table), row))
               = available_primary_key(table) + 1
<1> DEFINE key == available_primary_key(table)
           u   == Put(table, key, row)
<1>1. key \in 0 .. max /\ \A k \in DOMAIN table : k < key
    BY NextKey
<1>2. DOMAIN u = DOMAIN table \cup {key}
    BY DEF Put
<1> HIDE DEF key, u
<1>3. DOMAIN u \subseteq 0 .. max - 1
    BY <1>1, <1>2 DEF key
<1>4. /\ available_primary_key(u) \in Nat
      /\ \A k \in DOMAIN u : k < available_primary_key(u)
      /\ available_primary_key(u) - 1 \in DOMAIN u
    BY <1>2, <1>3, NextKey
<1>5. key < available_primary_key(u)
    BY <1>2, <1>4
<1>6. available_primary_key(u) - 1 =< key
    BY <1>1, <1>2, <1>4
<1> QED BY <1>1, <1>4, <1>5, <1>6 DEF key, u

\* Erasing a row before the last one leaves the next key where it was.
LEMMA EraseInner ==
    ASSUME NEW table, NEW max \in Nat, DOMAIN table \subseteq 0 .. max - 1,
           NEW key \in DOMAIN table, key + 1 < available_primary_key(table)
    PROVE  available_primary_key(Erase(table, key)) = available_primary_key(table)
<1> DEFINE next == available_primary_key(table)
           u    == Erase(table, key)
           n    == available_primary_key(u)
<1>1. /\ next \in 0 .. max /\ next - 1 \in DOMAIN table
      /\ \A k \in DOMAIN table : k < next
    BY NextKey
<1>2. DOMAIN u = DOMAIN table \ {key}
    BY DEF Erase
<1>3. DOMAIN u \subseteq 0 .. max - 1
    BY <1>2
<1> HIDE DEF u
<1>4. next - 1 \in DOMAIN u
    BY <1>1, <1>2
<1>5. n \in 0 .. max /\ n - 1 \in DOMAIN u /\ \A k \in DOMAIN u : k < n
    BY <1>3, <1>4, NextKey
<1> HIDE DEF next, n
<1>6. next - 1 < n /\ n - 1 < next
    BY <1>1, <1>2, <1>4, <1>5
<1>7. n = next
    BY <1>1, <1>5, <1>6
<1> QED BY <1>7 DEF n, next, u

-----------------------------------------------------------------------------
(* What a table of grants leaves to be paid. *)

GrantTable(table) ==
    /\ DOMAIN table \subseteq 0 .. MaxVestings - 1
    /\ \A id \in DOMAIN table : table[id] \in VestingRows

\* The amounts due and the next id are numbers.
LEMMA DueType ==
    ASSUME NEW table, GrantTable(table), NEW s
    PROVE  /\ Due(table, s) \in [Nat -> Int]
           /\ available_primary_key(table) \in Nat
           /\ Owed(table, s) \in Int
<1>1. Due(table, s) \in [Nat -> Int]
    BY DEF GrantTable, Due, VestingRows
<1>2. available_primary_key(table) \in Nat
    BY NextKey, VestingAssumption DEF GrantTable
<1> QED BY <1>1, <1>2, SumToRecursion DEF Owed

\* Nothing is owed in a symbol no grant is in.
LEMMA OwedNone ==
    ASSUME NEW table, GrantTable(table), NEW s, \A id \in DOMAIN table : table[id].symbol # s
    PROVE  Owed(table, s) = 0
<1>1. \A i \in Nat : Due(table, s)[i] = 0
    BY DEF Due
<1> QED BY <1>1, DueType, SumOfZeros DEF Owed

\* What is owed does not change when no amount due does and the next id stays.
LEMMA OwedSame ==
    ASSUME NEW t, GrantTable(t), NEW u, GrantTable(u), NEW s,
           available_primary_key(t) = available_primary_key(u),
           \A i \in Nat : Due(t, s)[i] = Due(u, s)[i]
    PROVE  Owed(t, s) = Owed(u, s)
BY DueType, SumToEqual DEF Owed

\* A grant whose row changes changes what is owed by what its own due changes.
LEMMA OwedUpdate ==
    ASSUME NEW t, GrantTable(t), NEW u, GrantTable(u), NEW s,
           DOMAIN u = DOMAIN t, NEW id \in DOMAIN t, u[id].symbol = t[id].symbol,
           \A k \in DOMAIN t \ {id} : u[k] = t[k]
    PROVE  Owed(u, s) = Owed(t, s) + Due(u, s)[id] - Due(t, s)[id]
<1>1. /\ Due(t, s) \in [Nat -> Int] /\ Due(u, s) \in [Nat -> Int]
      /\ available_primary_key(t) \in Nat /\ Owed(t, s) \in Int
    BY DueType
<1>2. available_primary_key(u) = available_primary_key(t)
    BY SameKeys
<1>3. id \in Nat /\ id < available_primary_key(t)
    BY NextKey, VestingAssumption DEF GrantTable
<1>4. \A i \in Nat : i # id => Due(t, s)[i] = Due(u, s)[i]
    BY DEF Due
<1>5. Owed(u, s) = Owed(t, s) - Due(t, s)[id] + Due(u, s)[id]
    BY <1>1, <1>2, <1>3, <1>4, SumToUpdate DEF Owed
<1>6. Due(t, s)[id] \in Int /\ Due(u, s)[id] \in Int
    BY <1>1, <1>3
<1> HIDE DEF GrantTable
<1> QED BY <1>1, <1>5, <1>6

\* A new grant adds its own due.
LEMMA OwedPut ==
    ASSUME NEW t, GrantTable(t), NEW row \in VestingRows, NEW s,
           available_primary_key(t) < MaxVestings
    PROVE  LET u == Put(t, available_primary_key(t), row)
           IN  /\ GrantTable(u)
               /\ Owed(u, s) = Owed(t, s) + (IF row.symbol = s
                                             THEN row.vesting_amount - row.vested_amount
                                             ELSE 0)
<1> DEFINE key == available_primary_key(t)
           u   == Put(t, key, row)
<1>1. /\ key \in 0 .. MaxVestings /\ key < MaxVestings /\ MaxVestings \in Nat
      /\ \A k \in DOMAIN t : k < key
    BY NextKey, VestingAssumption DEF GrantTable
<1>2. available_primary_key(u) = key + 1
    BY PutNext, VestingAssumption DEF GrantTable
<1> HIDE DEF key
<1>3. DOMAIN u = DOMAIN t \cup {key} /\ u[key] = row /\ \A k \in DOMAIN t \ {key} : u[k] = t[k]
    BY DEF Put
<1> HIDE DEF u
<1>4. GrantTable(u)
    BY <1>1, <1>3 DEF GrantTable
<1>5. \A i \in Nat : i < key => Due(t, s)[i] = Due(u, s)[i]
    BY <1>1, <1>3 DEF Due
<1>6. /\ Due(t, s) \in [Nat -> Int] /\ Due(u, s) \in [Nat -> Int]
    BY <1>4, DueType
<1>7. SumTo(Due(u, s), key + 1) = SumTo(Due(u, s), key) + Due(u, s)[key]
    BY <1>1, <1>6, SumToRecursion
<1>8. SumTo(Due(u, s), key) = SumTo(Due(t, s), key)
    BY <1>1, <1>5, <1>6, SumToEqual
<1>9. Due(u, s)[key] = IF row.symbol = s THEN row.vesting_amount - row.vested_amount ELSE 0
    BY <1>1, <1>3 DEF Due
<1>10. Owed(t, s) = SumTo(Due(t, s), key)
    BY DEF Owed, key
<1>11. Owed(u, s) = SumTo(Due(u, s), key + 1)
    BY <1>2 DEF Owed
<1> QED BY <1>4, <1>7, <1>8, <1>9, <1>10, <1>11 DEF key, u

\* Removing a grant that is paid in full and not the last changes nothing owed.
LEMMA OwedErase ==
    ASSUME NEW t, GrantTable(t), NEW id \in DOMAIN t, NEW s,
           t[id].vesting_amount = t[id].vested_amount, id + 1 < available_primary_key(t)
    PROVE  GrantTable(Erase(t, id)) /\ Owed(Erase(t, id), s) = Owed(t, s)
<1> DEFINE u == Erase(t, id)
<1>1. DOMAIN u = DOMAIN t \ {id} /\ \A k \in DOMAIN u : u[k] = t[k]
    BY DEF Erase
<1>2. available_primary_key(u) = available_primary_key(t)
    BY EraseInner, VestingAssumption DEF GrantTable
<1> HIDE DEF u
<1>3. GrantTable(u)
    BY <1>1 DEF GrantTable
<1>4. t[id].vesting_amount - t[id].vested_amount = 0
    BY DEF GrantTable, VestingRows
<1>5. \A i \in Nat : Due(t, s)[i] = Due(u, s)[i]
    BY <1>1, <1>4 DEF Due
<1>6. Owed(t, s) = Owed(u, s)
    BY <1>2, <1>3, <1>5, OwedSame
<1> QED BY <1>3, <1>6 DEF u

-----------------------------------------------------------------------------
(* The token contracts. *)

\* A balance that add_balance leaves is a natural number.
LEMMA AddBalanceType ==
    ASSUME NEW table, DOMAIN table \subseteq Contracts \X Accounts \X Symbols,
           \A k \in DOMAIN table : table[k] \in Nat,
           NEW c \in Contracts, NEW owner \in Accounts, NEW s \in Symbols, NEW q \in Nat
    PROVE  LET u == add_balance(table, c, owner, s, q)
           IN  /\ DOMAIN u \subseteq Contracts \X Accounts \X Symbols
               /\ \A k \in DOMAIN u : u[k] \in Nat
<1>1. BalanceIn(table, c, owner, s) + q \in Nat
    BY DEF BalanceIn
<1> QED BY <1>1 DEF add_balance, Put

\* So is one that sub_balance leaves.
LEMMA SubBalanceType ==
    ASSUME TokenTypeOK,
           NEW c \in Contracts, NEW owner \in Accounts, NEW s \in Symbols, NEW q \in Nat,
           Covers(c, owner, s, q)
    PROVE  LET u == sub_balance(accounts, c, owner, s, q)
           IN  /\ DOMAIN u \subseteq Contracts \X Accounts \X Symbols
               /\ \A k \in DOMAIN u : u[k] \in Nat
BY DEF TokenTypeOK, Covers, sub_balance

\* A transfer keeps the types of the token tables.
LEMMA TransferType ==
    ASSUME TokenTypeOK,
           NEW c \in Contracts, NEW from \in Accounts, NEW to \in Accounts, NEW s \in Symbols,
           NEW q \in Int, TokenTransfer(c, from, to, s, q)
    PROVE  TokenTypeOK'
<1>1. /\ q \in Nat /\ Covers(c, from, s, q) /\ stat' = stat
      /\ accounts' = add_balance(sub_balance(accounts, c, from, s, q), c, to, s, q)
    BY DEF TokenTransfer, CanTransfer, AfterTransfer
<1>2. /\ DOMAIN accounts' \subseteq Contracts \X Accounts \X Symbols
      /\ \A k \in DOMAIN accounts' : accounts'[k] \in Nat
    BY <1>1, AddBalanceType, SubBalanceType
<1> QED BY <1>1, <1>2 DEF TokenTypeOK

\* So does every other action of a token contract.
LEMMA TokenActionType ==
    ASSUME TokenTypeOK, NEW c \in Contracts, NEW user \in Accounts, NEW s \in Symbols,
           \/ \E q \in Int : Create(c, user, s, q) \/ Issue(c, user, s, q) \/ Retire(c, user, s, q)
           \/ Open(c, user, s)
           \/ Close(c, user, s)
    PROVE  TokenTypeOK'
<1>1. ASSUME NEW q \in Int, Create(c, user, s, q) PROVE TokenTypeOK'
    BY <1>1, MaxAmountAssumption DEF TokenTypeOK, Create, Put, StatRows
<1>2. ASSUME NEW q \in Int, Issue(c, user, s, q) PROVE TokenTypeOK'
  <2>0. q \in Nat /\ accounts' = add_balance(accounts, c, user, s, q)
      BY <1>2 DEF Issue
  <2>1. /\ DOMAIN accounts' \subseteq Contracts \X Accounts \X Symbols
        /\ \A k \in DOMAIN accounts' : accounts'[k] \in Nat
      BY <2>0, AddBalanceType DEF TokenTypeOK
  <2>2. /\ DOMAIN stat' \subseteq Contracts \X Symbols
        /\ \A k \in DOMAIN stat' : stat'[k] \in StatRows
      BY <1>2 DEF TokenTypeOK, Issue, StatRows
  <2> QED BY <2>1, <2>2 DEF TokenTypeOK
<1>3. ASSUME NEW q \in Int, Retire(c, user, s, q) PROVE TokenTypeOK'
  <2>0. /\ q \in Nat /\ Covers(c, user, s, q)
        /\ accounts' = sub_balance(accounts, c, user, s, q)
      BY <1>3 DEF Retire
  <2>1. /\ DOMAIN accounts' \subseteq Contracts \X Accounts \X Symbols
        /\ \A k \in DOMAIN accounts' : accounts'[k] \in Nat
      BY <2>0, SubBalanceType
  <2>2. /\ DOMAIN stat' \subseteq Contracts \X Symbols
        /\ \A k \in DOMAIN stat' : stat'[k] \in StatRows
      BY <1>3 DEF TokenTypeOK, Retire, StatRows
  <2> QED BY <2>1, <2>2 DEF TokenTypeOK
<1>4. ASSUME Open(c, user, s) PROVE TokenTypeOK'
    BY <1>4 DEF TokenTypeOK, Open, Put
<1>5. ASSUME Close(c, user, s) PROVE TokenTypeOK'
    BY <1>5 DEF TokenTypeOK, Close, Erase
<1> QED BY <1>1, <1>2, <1>3, <1>4, <1>5

-----------------------------------------------------------------------------
(* The books. *)

BooksOK(books) ==
    /\ DOMAIN books \subseteq Symbols
    /\ \A s \in DOMAIN books : books[s] \in AssetRows

\* What the contract says it has promised in symbol s.
Promised(books, s) == books[s].asset_balance - books[s].unallocated_balance

\* Moving the books of a symbol keeps them in their bounds, and changes what is
\* promised by the difference of the two changes.
LEMMA MoveBooks ==
    ASSUME BooksOK(cmkassets), NEW s, NEW asset_change \in Int, NEW unallocated_change \in Int,
           NEW balance, MoveBalance(s, asset_change, unallocated_change, balance)
    PROVE  /\ BooksOK(cmkassets') /\ DOMAIN cmkassets' = DOMAIN cmkassets
           /\ s \in DOMAIN cmkassets
           /\ Promised(cmkassets', s)
                = Promised(cmkassets, s) + asset_change - unallocated_change
           /\ \A k \in DOMAIN cmkassets \ {s} : cmkassets'[k] = cmkassets[k]
<1>1. /\ s \in DOMAIN cmkassets /\ cmkassets[s] \in AssetRows
      /\ MaxAmount \in Nat
    BY MaxAmountAssumption DEF MoveBalance, BooksOK
<1> DEFINE row == [cmkassets[s] EXCEPT
                      !.asset_balance = @ + asset_change,
                      !.unallocated_balance = @ + unallocated_change]
<1>2. cmkassets' = [cmkassets EXCEPT ![s] = row]
    BY DEF MoveBalance
<1>3. /\ row.asset_balance = cmkassets[s].asset_balance + asset_change
      /\ row.unallocated_balance = cmkassets[s].unallocated_balance + unallocated_change
      /\ row.asset_contract = cmkassets[s].asset_contract
    BY <1>1 DEF AssetRows
<1>4. row \in AssetRows
    BY <1>1 DEF MoveBalance, AssetRows
<1> HIDE DEF row
<1>5. DOMAIN cmkassets' = DOMAIN cmkassets /\ cmkassets'[s] = row
    BY <1>1, <1>2
<1>6. \A k \in DOMAIN cmkassets \ {s} : cmkassets'[k] = cmkassets[k]
    BY <1>2
<1>7. BooksOK(cmkassets')
    BY <1>4, <1>5, <1>6 DEF BooksOK
<1>8. Promised(cmkassets', s) = Promised(cmkassets, s) + asset_change - unallocated_change
    BY <1>1, <1>3, <1>5 DEF Promised, AssetRows
<1> QED BY <1>1, <1>5, <1>6, <1>7, <1>8

-----------------------------------------------------------------------------
(* The invariant: the types, and the books that agree with the grants. *)

LedgerOK(books, grants) ==
    /\ BooksOK(books)
    /\ GrantTable(grants)
    /\ \A id \in DOMAIN grants : grants[id].symbol \in DOMAIN books
    /\ \A s \in DOMAIN books : Promised(books, s) = Owed(grants, s)

Inv == TokenTypeOK /\ now \in Nat /\ LedgerOK(cmkassets, cmkvestings)

\* Inv is TypeOK and Conservation, cut into the parts that steps change apart.
LEMMA InvIs == Inv <=> TypeOK /\ Conservation
BY DEF Inv, LedgerOK, BooksOK, GrantTable, Promised, TypeOK, Conservation, Ids

\* Rewriting the row of one grant keeps the ledger as long as the books of its
\* symbol change by as much as what is due of it.
LEMMA RewriteGrant ==
    ASSUME NEW books, NEW grants, LedgerOK(books, grants), NEW newbooks, BooksOK(newbooks),
           NEW id \in DOMAIN grants, NEW row \in VestingRows, row.symbol = grants[id].symbol,
           DOMAIN newbooks = DOMAIN books,
           \A s \in DOMAIN books \ {row.symbol} : Promised(newbooks, s) = Promised(books, s),
           Promised(newbooks, row.symbol) - Promised(books, row.symbol)
             = (row.vesting_amount - row.vested_amount)
                 - (grants[id].vesting_amount - grants[id].vested_amount)
    PROVE  LedgerOK(newbooks, [grants EXCEPT ![id] = row])
<1> DEFINE new == [grants EXCEPT ![id] = row]
<1>1. DOMAIN new = DOMAIN grants /\ new[id] = row /\ \A k \in DOMAIN grants \ {id} : new[k] = grants[k]
    OBVIOUS
<1> HIDE DEF new
<1>2. GrantTable(new)
    BY <1>1 DEF LedgerOK, GrantTable
<1>3. \A k \in DOMAIN new : new[k].symbol \in DOMAIN newbooks
    BY <1>1 DEF LedgerOK
<1>4. ASSUME NEW s \in DOMAIN newbooks PROVE Promised(newbooks, s) = Owed(new, s)
  <2>1. Owed(new, s) = Owed(grants, s) + Due(new, s)[id] - Due(grants, s)[id]
      BY <1>1, <1>2, OwedUpdate DEF LedgerOK
  <2>2. Promised(books, s) = Owed(grants, s) /\ Owed(grants, s) \in Int
      BY DueType DEF LedgerOK
  <2>3. id \in Nat /\ grants[id] \in VestingRows
      BY VestingAssumption DEF LedgerOK, GrantTable
  <2>4. CASE s # row.symbol
    <3>1. Due(new, s)[id] = 0 /\ Due(grants, s)[id] = 0
        BY <1>1, <2>3, <2>4 DEF Due
    <3> QED BY <2>1, <2>2, <2>4, <3>1
  <2>5. CASE s = row.symbol
    <3>1. /\ Due(new, s)[id] = row.vesting_amount - row.vested_amount
          /\ Due(grants, s)[id] = grants[id].vesting_amount - grants[id].vested_amount
        BY <1>1, <2>3, <2>5 DEF Due
    <3>2. /\ row.vesting_amount - row.vested_amount \in Int
          /\ grants[id].vesting_amount - grants[id].vested_amount \in Int
        BY <2>3 DEF VestingRows
    <3>3. Promised(newbooks, s) \in Int
        BY DEF BooksOK, Promised, AssetRows
    <3> QED BY <2>1, <2>2, <2>5, <3>1, <3>2, <3>3
  <2> QED BY <2>4, <2>5
<1> QED BY <1>2, <1>3, <1>4 DEF LedgerOK, new

\* Rewriting a row without touching its amounts keeps the ledger.
LEMMA RewriteTimes ==
    ASSUME NEW books, NEW grants, LedgerOK(books, grants),
           NEW id \in DOMAIN grants, NEW row \in VestingRows, row.symbol = grants[id].symbol,
           row.vesting_amount = grants[id].vesting_amount,
           row.vested_amount = grants[id].vested_amount
    PROVE  LedgerOK(books, [grants EXCEPT ![id] = row])
<1>1. /\ BooksOK(books) /\ row.symbol \in DOMAIN books
      /\ Promised(books, row.symbol) \in Int
    BY DEF LedgerOK, BooksOK, Promised, AssetRows
<1>2. row.vesting_amount \in Nat /\ row.vested_amount \in Nat
    BY DEF VestingRows
<1> QED BY <1>1, <1>2, RewriteGrant

\* Deposits and withdrawals move both books by the same amount.
LEMMA MoveTogether ==
    ASSUME LedgerOK(cmkassets, cmkvestings), NEW s, NEW q \in Int, NEW balance,
           MoveBalance(s, q, q, balance)
    PROVE  LedgerOK(cmkassets', cmkvestings)
<1>1. /\ BooksOK(cmkassets') /\ DOMAIN cmkassets' = DOMAIN cmkassets
      /\ s \in DOMAIN cmkassets
      /\ Promised(cmkassets', s) = Promised(cmkassets, s) + q - q
      /\ \A k \in DOMAIN cmkassets \ {s} : cmkassets'[k] = cmkassets[k]
    BY MoveBooks DEF LedgerOK
<1>2. Promised(cmkassets, s) \in Int
    BY <1>1 DEF LedgerOK, BooksOK, Promised, AssetRows
<1>3. \A k \in DOMAIN cmkassets : Promised(cmkassets', k) = Promised(cmkassets, k)
    BY <1>1, <1>2 DEF Promised
<1> QED BY <1>1, <1>3 DEF LedgerOK

-----------------------------------------------------------------------------
(* The actions keep the ledger. *)

\* addasset: the books of the new symbol are empty, and no grant is in it.
LEMMA AddAssetKeeps ==
    ASSUME LedgerOK(cmkassets, cmkvestings), NEW c \in Contracts, NEW s \in Symbols, AddAsset(c, s)
    PROVE  LedgerOK(cmkassets', cmkvestings')
<1> DEFINE row == [asset_contract |-> c, asset_balance |-> 0, unallocated_balance |-> 0]
<1>1. cmkvestings' = cmkvestings /\ s \notin DOMAIN cmkassets
    BY DEF AddAsset
<1>2. row \in AssetRows /\ row.asset_balance = 0 /\ row.unallocated_balance = 0
    BY MaxAmountAssumption DEF AssetRows
<1>3. cmkassets' = Put(cmkassets, s, row)
    BY DEF AddAsset
<1> HIDE DEF row
<1>4. /\ DOMAIN cmkassets' = DOMAIN cmkassets \cup {s} /\ cmkassets'[s] = row
      /\ \A k \in DOMAIN cmkassets : cmkassets'[k] = cmkassets[k]
    BY <1>1, <1>3 DEF Put
<1>5. BooksOK(cmkassets')
    BY <1>2, <1>4 DEF LedgerOK, BooksOK
<1>6. Owed(cmkvestings, s) = 0
    BY <1>1, OwedNone DEF LedgerOK
<1>7. \A k \in DOMAIN cmkassets' : Promised(cmkassets', k) = Owed(cmkvestings, k)
    BY <1>2, <1>4, <1>6 DEF LedgerOK, Promised
<1> QED BY <1>1, <1>4, <1>5, <1>7 DEF LedgerOK

\* A transfer is booked when it is a deposit of the asset's own contract.
LEMMA TransferKeeps ==
    ASSUME LedgerOK(cmkassets, cmkvestings), NEW c, NEW signers, NEW from, NEW to, NEW s,
           NEW q \in Int, NEW memo, Transfer(c, signers, from, to, s, q, memo)
    PROVE  LedgerOK(cmkassets', cmkvestings')
<1>1. cmkvestings' = cmkvestings
    BY DEF Transfer
<1>2. CASE UNCHANGED cmkassets
    BY <1>1, <1>2
<1>3. CASE deposit(c, signers, s, q)
    BY <1>1, <1>3, MoveTogether DEF deposit
<1> QED BY <1>2, <1>3 DEF Transfer, on_transfer

\* withdraw: both books lose the quantity.
LEMMA WithdrawKeeps ==
    ASSUME LedgerOK(cmkassets, cmkvestings), NEW to, NEW s, NEW q \in Int, Withdraw(to, s, q)
    PROVE  LedgerOK(cmkassets', cmkvestings')
<1>1. cmkvestings' = cmkvestings /\ -q \in Int
    BY DEF Withdraw
<1> QED BY <1>1, MoveTogether DEF Withdraw

\* addvesting: the amount leaves the unallocated book and is due to the grant.
LEMMA AddVestingKeeps ==
    ASSUME LedgerOK(cmkassets, cmkvestings), NEW account \in Accounts, NEW period \in Int,
           NEW s \in Symbols, NEW amount \in Int, NEW cliff \in Nat, NEW weight \in Int,
           NEW start \in Nat, NEW end \in Nat, NEW pause_time \in Nat,
           AddVesting(account, period, s, amount, cliff, weight, start, end, pause_time)
    PROVE  LedgerOK(cmkassets', cmkvestings')
<1> DEFINE id  == available_primary_key(cmkvestings)
           row == [account_id |-> account, vesting_period |-> period, symbol |-> s,
                   vesting_amount |-> amount, vested_amount |-> 0,
                   cliff_date |-> IF weight = 0 THEN start ELSE cliff,
                   cliff_weight |-> weight, end_date |-> end,
                   status |-> Active, pause_start |-> 0, pause_time |-> pause_time]
<1>1. /\ period \in VestingPeriods /\ amount \in Nat /\ weight \in 0 .. WeightUnit
      /\ MoveBalance(s, 0, -amount, BookedBalance(accounts, s))
      /\ id < MaxVestings /\ cmkvestings' = Put(cmkvestings, id, row)
    BY VestingMathAssumption DEF AddVesting
<1>2. row \in VestingRows /\ row.symbol = s /\ row.vesting_amount = amount /\ row.vested_amount = 0
    BY <1>1 DEF VestingRows
<1> HIDE DEF row
<1>3. /\ BooksOK(cmkassets') /\ DOMAIN cmkassets' = DOMAIN cmkassets /\ s \in DOMAIN cmkassets
      /\ Promised(cmkassets', s) = Promised(cmkassets, s) + 0 - (-amount)
      /\ \A k \in DOMAIN cmkassets \ {s} : cmkassets'[k] = cmkassets[k]
  <2>1. -amount \in Int /\ 0 \in Int
      BY <1>1
  <2> QED BY <1>1, <2>1, MoveBooks DEF LedgerOK
<1>4. /\ GrantTable(cmkvestings')
      /\ \A k : Owed(cmkvestings', k) = Owed(cmkvestings, k) + (IF k = s THEN amount - 0 ELSE 0)
    BY <1>1, <1>2, OwedPut DEF LedgerOK
<1>5. ASSUME NEW k \in DOMAIN cmkassets PROVE Promised(cmkassets', k) = Owed(cmkvestings', k)
  <2>1. Promised(cmkassets, k) = Owed(cmkvestings, k) /\ Owed(cmkvestings, k) \in Int
      BY DueType DEF LedgerOK
  <2>2. CASE k = s
      BY <1>1, <1>3, <1>4, <2>1, <2>2
  <2>3. CASE k # s
      BY <1>3, <1>4, <2>1, <2>3 DEF Promised
  <2> QED BY <2>2, <2>3
<1>6. \A k \in DOMAIN cmkvestings' : cmkvestings'[k].symbol \in DOMAIN cmkassets'
    BY <1>1, <1>2, <1>3 DEF LedgerOK, Put
<1> QED BY <1>3, <1>4, <1>5, <1>6 DEF LedgerOK

\* removevesting: nothing is due of the grant it forgets.
LEMMA RemoveVestingKeeps ==
    ASSUME LedgerOK(cmkassets, cmkvestings), NEW id \in Ids, RemoveVesting(id)
    PROVE  LedgerOK(cmkassets', cmkvestings')
<1>1. /\ cmkassets' = cmkassets /\ cmkvestings' = Erase(cmkvestings, id)
      /\ GrantTable(cmkvestings')
      /\ \A s : Owed(cmkvestings', s) = Owed(cmkvestings, s)
    BY OwedErase DEF RemoveVesting, LedgerOK, Ids
<1>2. \A k \in DOMAIN cmkvestings' : cmkvestings'[k].symbol \in DOMAIN cmkassets
    BY <1>1 DEF Erase, LedgerOK
<1> QED BY <1>1, <1>2 DEF LedgerOK

\* pausevesting, unpausevestng and setpausetime write no amount.
LEMMA PauseKeeps ==
    ASSUME LedgerOK(cmkassets, cmkvestings), NEW id \in Ids, NEW t \in Nat,
           PauseVesting(id, t) \/ UnpauseVestng(id, t) \/ SetPauseTime(id, t)
    PROVE  LedgerOK(cmkassets', cmkvestings')
<1>1. cmkvestings[id] \in VestingRows
    BY DEF LedgerOK, GrantTable, Ids
<1>2. CASE PauseVesting(id, t)
  <2> DEFINE row == [cmkvestings[id] EXCEPT !.status = Paused, !.pause_start = t]
  <2>1. /\ cmkvestings' = [cmkvestings EXCEPT ![id] = row] /\ cmkassets' = cmkassets
      BY <1>2 DEF PauseVesting
  <2>2. /\ row \in VestingRows /\ row.symbol = cmkvestings[id].symbol
        /\ row.vesting_amount = cmkvestings[id].vesting_amount
        /\ row.vested_amount = cmkvestings[id].vested_amount
      BY <1>1 DEF VestingRows
  <2> HIDE DEF row
  <2> QED BY <2>1, <2>2, RewriteTimes DEF Ids
<1>3. CASE UnpauseVestng(id, t)
  <2> DEFINE start  == cmkvestings[id].pause_start
             paused == IF start < t THEN t - start ELSE 0
             total  == cmkvestings[id].pause_time + paused
             row    == [cmkvestings[id] EXCEPT !.status = Active, !.pause_time = total]
  <2>1. /\ cmkvestings' = [cmkvestings EXCEPT ![id] = row] /\ cmkassets' = cmkassets
      BY <1>3 DEF UnpauseVestng
  <2>2. total \in Nat
      BY <1>1 DEF VestingRows
  <2> HIDE DEF paused, total
  <2>3. /\ row \in VestingRows /\ row.symbol = cmkvestings[id].symbol
        /\ row.vesting_amount = cmkvestings[id].vesting_amount
        /\ row.vested_amount = cmkvestings[id].vested_amount
      BY <1>1, <2>2 DEF VestingRows
  <2> HIDE DEF row
  <2> QED BY <2>1, <2>3, RewriteTimes DEF Ids
<1>4. CASE SetPauseTime(id, t)
  <2> DEFINE row == [cmkvestings[id] EXCEPT !.pause_time = t]
  <2>1. /\ cmkvestings' = [cmkvestings EXCEPT ![id] = row] /\ cmkassets' = cmkassets
      BY <1>4 DEF SetPauseTime
  <2>2. /\ row \in VestingRows /\ row.symbol = cmkvestings[id].symbol
        /\ row.vesting_amount = cmkvestings[id].vesting_amount
        /\ row.vested_amount = cmkvestings[id].vested_amount
      BY <1>1 DEF VestingRows
  <2> HIDE DEF row
  <2> QED BY <2>1, <2>2, RewriteTimes DEF Ids
<1> QED BY <1>2, <1>3, <1>4

\* The rows of the table are grants, and their clocks show a time.
LEMMA GrantSums ==
    ASSUME now \in Nat, GrantTable(cmkvestings), NEW id \in Ids, NEW curr \in Nat
    PROVE  /\ FixedNow(id) \in Nat
           /\ Vested(cmkvestings[id], curr, FixedNow(id)) \in 0 .. cmkvestings[id].vesting_amount
<1>1. IsGrant(cmkvestings[id]) /\ cmkvestings[id].pause_start \in Nat /\ cmkvestings[id].pause_time \in Nat
    BY DEF GrantTable, Ids, VestingRows, IsGrant
<1>2. FixedNow(id) \in Nat
    BY <1>1, FixedNowType DEF FixedNow
<1> QED BY <1>1, <1>2, VestedWithinGrant

\* claim: what is paid leaves the book of the asset and is no longer due.
LEMMA ClaimKeeps ==
    ASSUME now \in Nat, LedgerOK(cmkassets, cmkvestings), NEW id \in Ids, Claim(id)
    PROVE  LedgerOK(cmkassets', cmkvestings')
<1> DEFINE v == cmkvestings[id]
<1>1. v \in VestingRows /\ v.symbol \in DOMAIN cmkassets
    BY DEF LedgerOK, GrantTable, Ids
<1>2. PICK quantity \in {Claimable(v, FixedNow(id))} :
          /\ quantity > 0
          /\ MoveBalance(v.symbol, -quantity, 0, BookedBalance(accounts, v.symbol))
          /\ cmkvestings' =
                 [cmkvestings EXCEPT
                     ![id].vested_amount = @ + quantity,
                     ![id].status = IF v.vesting_amount = v.vested_amount + quantity
                                    THEN Cancelled ELSE @]
    BY DEF Claim
<1>3. quantity \in Nat /\ -quantity \in Int /\ 0 \in Int
  <2>1. FixedNow(id) \in Nat /\ Vested(v, FixedNow(id), FixedNow(id)) \in 0 .. v.vesting_amount
      BY GrantSums DEF LedgerOK
  <2>2. v.vesting_amount \in Nat /\ v.vested_amount \in Nat
      BY <1>1 DEF VestingRows
  <2> QED BY <1>2, <2>1, <2>2 DEF Claimable
<1> DEFINE paid   == v.vested_amount + quantity
           status == IF v.vesting_amount = paid THEN Cancelled ELSE v.status
           row    == [v EXCEPT !.vested_amount = paid, !.status = status]
<1>4. cmkvestings' = [cmkvestings EXCEPT ![id] = row]
    BY <1>2
<1>5. /\ row \in VestingRows /\ row.symbol = v.symbol /\ row.vesting_amount = v.vesting_amount
      /\ row.vested_amount = v.vested_amount + quantity
  <2>1. paid \in Nat /\ status \in {Active, Paused, Cancelled}
      BY <1>1, <1>3 DEF VestingRows
  <2> HIDE DEF status, v
  <2> QED BY <1>1, <2>1 DEF VestingRows
<1> HIDE DEF row
<1>6. /\ BooksOK(cmkassets') /\ DOMAIN cmkassets' = DOMAIN cmkassets
      /\ Promised(cmkassets', v.symbol) = Promised(cmkassets, v.symbol) + (-quantity) - 0
      /\ \A k \in DOMAIN cmkassets \ {v.symbol} : cmkassets'[k] = cmkassets[k]
    BY <1>2, <1>3, MoveBooks DEF LedgerOK
<1>7. \A k \in DOMAIN cmkassets \ {v.symbol} : Promised(cmkassets', k) = Promised(cmkassets, k)
    BY <1>6 DEF Promised
<1>8. Promised(cmkassets', v.symbol) - Promised(cmkassets, v.symbol)
        = (row.vesting_amount - row.vested_amount) - (v.vesting_amount - v.vested_amount)
  <2>1. Promised(cmkassets, v.symbol) \in Int /\ v.vesting_amount \in Nat /\ v.vested_amount \in Nat
      BY <1>1 DEF LedgerOK, BooksOK, Promised, AssetRows, VestingRows
  <2> HIDE DEF v
  <2> QED BY <1>3, <1>5, <1>6, <2>1
<1> QED BY <1>4, <1>5, <1>6, <1>7, <1>8, RewriteGrant DEF Ids

\* cancelvesting: what had not vested goes back to the unallocated book.
LEMMA CancelKeeps ==
    ASSUME now \in Nat, LedgerOK(cmkassets, cmkvestings), NEW id \in Ids, NEW t \in Nat,
           CancelVesting(id, t)
    PROVE  LedgerOK(cmkassets', cmkvestings')
<1> DEFINE v       == cmkvestings[id]
           vesting == Vested(v, t, FixedNow(id))
           row     == [v EXCEPT !.status = Cancelled, !.vesting_amount = vesting, !.end_date = t]
<1>1. v \in VestingRows /\ v.symbol \in DOMAIN cmkassets /\ v.vesting_amount \in Nat /\ v.vested_amount \in Nat
    BY DEF LedgerOK, GrantTable, Ids, VestingRows
<1>2. vesting \in 0 .. v.vesting_amount
    BY GrantSums DEF LedgerOK
<1>3. /\ cmkvestings' = [cmkvestings EXCEPT ![id] = row]
      /\ IF vesting < v.vesting_amount
         THEN MoveBalance(v.symbol, 0, v.vesting_amount - vesting, BookedBalance(accounts, v.symbol))
         ELSE UNCHANGED cmkassets
    BY DEF CancelVesting
<1> HIDE DEF vesting
<1>4. /\ row \in VestingRows /\ row.symbol = v.symbol /\ row.vesting_amount = vesting
      /\ row.vested_amount = v.vested_amount
  <2>1. vesting \in Nat
      BY <1>1, <1>2
  <2> HIDE DEF v
  <2> QED BY <1>1, <2>1 DEF VestingRows
<1> HIDE DEF row
<1>5. Promised(cmkassets, v.symbol) \in Int
    BY <1>1 DEF LedgerOK, BooksOK, Promised, AssetRows
<1>6. /\ BooksOK(cmkassets') /\ DOMAIN cmkassets' = DOMAIN cmkassets
      /\ Promised(cmkassets', v.symbol) = Promised(cmkassets, v.symbol) - (v.vesting_amount - vesting)
      /\ \A k \in DOMAIN cmkassets \ {v.symbol} : cmkassets'[k] = cmkassets[k]
  <2>1. CASE vesting < v.vesting_amount
    <3>1. v.vesting_amount - vesting \in Int /\ 0 \in Int
        BY <1>1, <1>2
    <3>2. MoveBalance(v.symbol, 0, v.vesting_amount - vesting, BookedBalance(accounts, v.symbol))
        BY <1>3, <2>1
    <3>3. /\ BooksOK(cmkassets') /\ DOMAIN cmkassets' = DOMAIN cmkassets
          /\ Promised(cmkassets', v.symbol)
               = Promised(cmkassets, v.symbol) + 0 - (v.vesting_amount - vesting)
          /\ \A k \in DOMAIN cmkassets \ {v.symbol} : cmkassets'[k] = cmkassets[k]
        BY <3>1, <3>2, MoveBooks DEF LedgerOK
    <3> HIDE DEF v
    <3> QED BY <1>5, <3>1, <3>3
  <2>2. CASE ~ (vesting < v.vesting_amount)
    <3>1. cmkassets' = cmkassets /\ vesting = v.vesting_amount
        BY <1>1, <1>2, <1>3, <2>2
    <3> QED BY <1>1, <1>5, <3>1 DEF LedgerOK
  <2> QED BY <2>1, <2>2
<1>7. \A k \in DOMAIN cmkassets \ {v.symbol} : Promised(cmkassets', k) = Promised(cmkassets, k)
    BY <1>6 DEF Promised
<1>8. Promised(cmkassets', v.symbol) - Promised(cmkassets, v.symbol)
        = (row.vesting_amount - row.vested_amount) - (v.vesting_amount - v.vested_amount)
  <2> HIDE DEF v
  <2> QED BY <1>1, <1>2, <1>4, <1>5, <1>6
<1> QED BY <1>3, <1>4, <1>6, <1>7, <1>8, RewriteGrant DEF Ids

-----------------------------------------------------------------------------
(* The steps of the system keep the invariant. *)

\* The payment of a claim or a withdrawal is a transfer, or nothing at all.
LEMMA PayOutType ==
    ASSUME TokenTypeOK, BooksOK(cmkassets), NEW s \in DOMAIN cmkassets, NEW to \in Accounts,
           NEW q \in Int, PayOut(to, s, q)
    PROVE  TokenTypeOK'
<1>1. s \in Symbols /\ cmkassets[s].asset_contract \in Contracts /\ Self \in Accounts
    BY VestingAssumption DEF BooksOK, AssetRows
<1>2. CASE TokenTransfer(cmkassets[s].asset_contract, Self, to, s, q)
    BY <1>1, <1>2, TransferType
<1>3. CASE UNCHANGED tokenVars
    BY <1>3 DEF tokenVars, TokenTypeOK
<1> QED BY <1>2, <1>3 DEF PayOut

\* The system starts in the invariant.
LEMMA InitInv == Init => Inv
<1> SUFFICES ASSUME Init PROVE Inv
    OBVIOUS
<1>1. TokenTypeOK
    BY VestingAssumption, MaxAmountAssumption DEF Init, TokenTypeOK, StatRows
<1>2. now \in Nat
    BY VestingAssumption DEF Init
<1>3. BooksOK(cmkassets) /\ DOMAIN cmkassets = {} /\ GrantTable(cmkvestings) /\ DOMAIN cmkvestings = {}
    BY DEF Init, EmptyTable, BooksOK, GrantTable
<1> QED BY <1>1, <1>2, <1>3 DEF Inv, LedgerOK

\* What anybody may do to a grant, and what may happen at all, with whatever dates
\* and amounts: the steps of every administrator, careful or not, are among these.
AnyGrantStep(id) ==
    \/ RemoveVesting(id)
    \/ \E t \in Nat : PauseVesting(id, t) \/ UnpauseVestng(id, t) \/ SetPauseTime(id, t)
    \/ \E t \in Dates : CancelVesting(id, t)
    \/ Claim(id)

AnyStep ==
    \/ TokenStep
    \/ \E c \in Contracts, s \in Symbols : AddAsset(c, s)
    \/ TransferStep
    \/ WithdrawStep
    \/ AddStep
    \/ \E id \in Ids : AnyGrantStep(id)
    \/ \E t \in Nat : Tick(t) \/ TimeMove(t)

\* The steps of the specification are among them.
LEMMA NextIsAny == [Next]_vars => [AnyStep]_vars
<1>1. \A id \in Ids : GrantStep(id) => AnyGrantStep(id)
    BY VestingAssumption DEF GrantStep, AnyGrantStep
<1> QED BY <1>1, VestingAssumption DEF Next, AnyStep

\* What is done to a grant keeps the invariant.
LEMMA GrantStepInv ==
    ASSUME Inv, NEW id \in Ids, AnyGrantStep(id)
    PROVE  Inv'
<1>1. now \in Nat /\ TokenTypeOK /\ LedgerOK(cmkassets, cmkvestings)
    BY DEF Inv
<1>2. CASE RemoveVesting(id)
  <2>1. now' = now /\ stat' = stat /\ accounts' = accounts
      BY <1>2 DEF RemoveVesting
  <2> QED BY <1>1, <1>2, <2>1, RemoveVestingKeeps DEF Inv, TokenTypeOK
<1>3. ASSUME NEW t \in Nat, PauseVesting(id, t) \/ UnpauseVestng(id, t) \/ SetPauseTime(id, t)
      PROVE  Inv'
  <2>1. now' = now /\ stat' = stat /\ accounts' = accounts
      BY <1>3 DEF PauseVesting, UnpauseVestng, SetPauseTime
  <2> QED BY <1>1, <1>3, <2>1, PauseKeeps DEF Inv, TokenTypeOK
<1>4. ASSUME NEW t \in Nat, CancelVesting(id, t) PROVE Inv'
  <2>1. now' = now /\ stat' = stat /\ accounts' = accounts
      BY <1>4 DEF CancelVesting
  <2> QED BY <1>1, <1>4, <2>1, CancelKeeps DEF Inv, TokenTypeOK
<1>5. CASE Claim(id)
  <2> DEFINE v == cmkvestings[id]
  <2>1. /\ v \in VestingRows /\ v.account_id \in Accounts /\ v.symbol \in DOMAIN cmkassets
        /\ v.vesting_amount \in Nat /\ v.vested_amount \in Nat
      BY <1>1 DEF LedgerOK, GrantTable, Ids, VestingRows
  <2>2. Claimable(v, FixedNow(id)) \in Int
    <3>1. Vested(v, FixedNow(id), FixedNow(id)) \in Int
        BY <1>1, <2>1, GrantSums DEF LedgerOK
    <3> QED BY <2>1, <3>1 DEF Claimable
  <2>3. now' = now /\ PayOut(v.account_id, v.symbol, Claimable(v, FixedNow(id)))
      BY <1>5 DEF Claim
  <2>4. TokenTypeOK'
      BY <1>1, <2>1, <2>2, <2>3, PayOutType DEF LedgerOK
  <2> QED BY <1>1, <1>5, <2>3, <2>4, ClaimKeeps DEF Inv
<1> QED BY <1>2, <1>3, <1>4, <1>5, VestingAssumption DEF AnyGrantStep

\* Every step of the system does.
LEMMA NextInv == Inv /\ [AnyStep]_vars => Inv'
<1> SUFFICES ASSUME Inv, [AnyStep]_vars PROVE Inv'
    OBVIOUS
<1>1. now \in Nat /\ TokenTypeOK /\ LedgerOK(cmkassets, cmkvestings) /\ BooksOK(cmkassets)
    BY DEF Inv, LedgerOK
<1>2. CASE TokenStep
  <2>1. now' = now /\ cmkassets' = cmkassets /\ cmkvestings' = cmkvestings
      BY <1>2 DEF TokenStep
  <2>2. TokenTypeOK'
      BY <1>1, <1>2, TokenActionType, VestingAssumption DEF TokenStep
  <2> QED BY <1>1, <2>1, <2>2 DEF Inv
<1>3. ASSUME NEW c \in Contracts, NEW s \in Symbols, AddAsset(c, s) PROVE Inv'
  <2>1. now' = now /\ stat' = stat /\ accounts' = accounts
      BY <1>3 DEF AddAsset
  <2> QED BY <1>1, <1>3, <2>1, AddAssetKeeps DEF Inv, TokenTypeOK
<1>4. CASE TransferStep
  <2>1. PICK c \in Contracts, s \in Symbols, from \in Accounts, to \in Accounts, q \in Int,
             memo \in Memos, signers \in SUBSET Accounts :
            Transfer(c, signers, from, to, s, q, memo)
      BY <1>4, VestingAssumption DEF TransferStep
  <2>2. TokenTypeOK'
      BY <1>1, <2>1, TransferType DEF Transfer
  <2>3. LedgerOK(cmkassets', cmkvestings')
      BY <1>1, <2>1, TransferKeeps
  <2>4. now' = now
      BY <2>1 DEF Transfer
  <2> QED BY <1>1, <2>2, <2>3, <2>4 DEF Inv
<1>5. CASE WithdrawStep
  <2>1. PICK s \in Symbols, to \in Accounts, q \in Int : Withdraw(to, s, q)
      BY <1>5, VestingAssumption DEF WithdrawStep
  <2>2. now' = now /\ PayOut(to, s, q) /\ s \in DOMAIN cmkassets
      BY <2>1 DEF Withdraw, MoveBalance
  <2>3. TokenTypeOK'
      BY <1>1, <2>2, PayOutType
  <2>4. LedgerOK(cmkassets', cmkvestings')
      BY <1>1, <2>1, WithdrawKeeps
  <2> QED BY <1>1, <2>2, <2>3, <2>4 DEF Inv
<1>6. CASE AddStep
  <2>1. PICK account \in Accounts, period \in Int, s \in Symbols, amount \in Int,
             cliff \in Nat, start \in Nat, end \in Nat, weight \in Int, pause_time \in Nat :
            AddVesting(account, period, s, amount, cliff, weight, start, end, pause_time)
      BY <1>6, VestingAssumption DEF AddStep
  <2>2. now' = now /\ stat' = stat /\ accounts' = accounts
      BY <2>1 DEF AddVesting
  <2>3. LedgerOK(cmkassets', cmkvestings')
      BY <1>1, <2>1, AddVestingKeeps
  <2> QED BY <1>1, <2>2, <2>3 DEF Inv, TokenTypeOK
<1>7. ASSUME NEW id \in Ids, AnyGrantStep(id) PROVE Inv'
    BY <1>7, GrantStepInv
<1>8. ASSUME NEW t \in Nat, Tick(t) \/ TimeMove(t) PROVE Inv'
    BY <1>1, <1>8 DEF Tick, TimeMove, Inv, TokenTypeOK
<1>9. CASE UNCHANGED vars
    BY <1>1, <1>9 DEF vars, Inv, TokenTypeOK
<1> QED BY <1>2, <1>3, <1>4, <1>5, <1>6, <1>7, <1>8, <1>9 DEF AnyStep

\* The inductive invariant, the types and the agreement of the books with the
\* grants, holds in every reachable state: every action keeps it.
THEOREM InvHolds == Spec => []Inv
BY InitInv, NextInv, NextIsAny, PTL DEF Spec

\* The tables always have their types and the books their bounds.
THEOREM TypeCorrect == Spec => []TypeOK
BY InvHolds, InvIs, PTL

\* The two books of every symbol always differ by what its grants are still to be
\* paid: assets_move_balance and the rewrites of the grants never get apart.
THEOREM BooksConserved == Spec => []Conservation
BY InvHolds, InvIs, PTL

-----------------------------------------------------------------------------
(* Action properties. *)

\* What the table of the grants looks like after a step: as before, with one more
\* row at the next id, without one that is not the last, or with one row rewritten.
LEMMA GrantsAfterStep ==
    ASSUME Inv, [AnyStep]_vars
    PROVE  \/ cmkvestings' = cmkvestings
           \/ /\ available_primary_key(cmkvestings) < MaxVestings
              /\ \E row \in VestingRows :
                     cmkvestings' = Put(cmkvestings, available_primary_key(cmkvestings), row)
           \/ \E id \in Ids : RemoveVesting(id)
           \/ \E id \in Ids : \/ \E t \in Nat : \/ PauseVesting(id, t)
                                                \/ UnpauseVestng(id, t)
                                                \/ SetPauseTime(id, t)
                              \/ \E t \in Dates : CancelVesting(id, t)
                              \/ Claim(id)
<1>1. CASE TokenStep \/ TransferStep \/ WithdrawStep \/ UNCHANGED vars
  <2>1. ASSUME TransferStep PROVE cmkvestings' = cmkvestings
    <3>1. \A c, signers, from, to, s, q, memo :
              Transfer(c, signers, from, to, s, q, memo) => cmkvestings' = cmkvestings
        BY DEF Transfer
    <3> QED BY <2>1, <3>1 DEF TransferStep
  <2>2. ASSUME WithdrawStep PROVE cmkvestings' = cmkvestings
      BY <2>2 DEF WithdrawStep, Withdraw
  <2>3. ASSUME TokenStep PROVE cmkvestings' = cmkvestings
      BY <2>3 DEF TokenStep
  <2>4. ASSUME UNCHANGED vars PROVE cmkvestings' = cmkvestings
      BY <2>4 DEF vars
  <2> QED BY <1>1, <2>1, <2>2, <2>3, <2>4
<1>2. CASE \E c \in Contracts, s \in Symbols : AddAsset(c, s)
    BY <1>2 DEF AddAsset
<1>3. CASE AddStep
  <2>1. PICK account \in Accounts, period \in Int, s \in Symbols, amount \in Int,
             cliff \in Nat, start \in Nat, end \in Nat, weight \in Int, pause_time \in Nat :
            AddVesting(account, period, s, amount, cliff, weight, start, end, pause_time)
      BY <1>3, VestingAssumption DEF AddStep
  <2> DEFINE row == [account_id |-> account, vesting_period |-> period, symbol |-> s,
                     vesting_amount |-> amount, vested_amount |-> 0,
                     cliff_date |-> IF weight = 0 THEN start ELSE cliff,
                     cliff_weight |-> weight, end_date |-> end,
                     status |-> Active, pause_start |-> 0, pause_time |-> pause_time]
  <2>2. /\ period \in VestingPeriods /\ amount \in Nat /\ weight \in 0 .. WeightUnit
        /\ available_primary_key(cmkvestings) < MaxVestings
        /\ cmkvestings' = Put(cmkvestings, available_primary_key(cmkvestings), row)
      BY <2>1, VestingMathAssumption DEF AddVesting
  <2>3. row \in VestingRows
      BY <2>2 DEF VestingRows
  <2> HIDE DEF row
  <2> QED BY <2>2, <2>3
<1>4. CASE \E t : Tick(t) \/ TimeMove(t)
    BY <1>4 DEF Tick, TimeMove
<1>5. CASE \E id \in Ids : AnyGrantStep(id)
    BY <1>5 DEF AnyGrantStep
<1> QED BY <1>1, <1>2, <1>3, <1>4, <1>5 DEF AnyStep

\* The ids a step adds to the table are not below the next id, which never drops.
LEMMA IdsStep ==
    ASSUME Inv, [AnyStep]_vars
    PROVE  LET next == available_primary_key(cmkvestings)
           IN  /\ available_primary_key(cmkvestings') >= next
               /\ \A id \in DOMAIN cmkvestings' \ Ids : id >= next
<1> DEFINE next == available_primary_key(cmkvestings)
<1>1. /\ DOMAIN cmkvestings \subseteq 0 .. MaxVestings - 1 /\ MaxVestings \in Nat
      /\ next \in Nat
    BY DueType, VestingAssumption DEF Inv, LedgerOK, GrantTable
<1>2. CASE DOMAIN cmkvestings' = DOMAIN cmkvestings
    BY <1>1, <1>2, SameKeys DEF Ids
<1>3. ASSUME NEW row, next < MaxVestings, cmkvestings' = Put(cmkvestings, next, row)
      PROVE  available_primary_key(cmkvestings') >= next
             /\ \A id \in DOMAIN cmkvestings' \ Ids : id >= next
  <2>1. available_primary_key(cmkvestings') = next + 1
      BY <1>1, <1>3, PutNext
  <2>2. DOMAIN cmkvestings' = DOMAIN cmkvestings \cup {next}
      BY <1>3 DEF Put
  <2> HIDE DEF next
  <2> QED BY <1>1, <2>1, <2>2 DEF Ids
<1>4. ASSUME NEW id \in Ids, RemoveVesting(id)
      PROVE  available_primary_key(cmkvestings') >= next
             /\ \A k \in DOMAIN cmkvestings' \ Ids : k >= next
  <2>1. id \in DOMAIN cmkvestings /\ cmkvestings' = Erase(cmkvestings, id) /\ id + 1 < next
      BY <1>4 DEF RemoveVesting, Ids
  <2>2. available_primary_key(cmkvestings') = next
      BY <1>1, <2>1, EraseInner
  <2>3. DOMAIN cmkvestings' \subseteq Ids
      BY <2>1 DEF Erase, Ids
  <2> HIDE DEF next
  <2> QED BY <1>1, <2>2, <2>3
<1>5. ASSUME NEW id \in Ids,
             \/ \E t : \/ PauseVesting(id, t)
                      \/ UnpauseVestng(id, t)
                      \/ CancelVesting(id, t)
                      \/ SetPauseTime(id, t)
             \/ Claim(id)
      PROVE  DOMAIN cmkvestings' = DOMAIN cmkvestings
    BY <1>5 DEF PauseVesting, UnpauseVestng, CancelVesting, SetPauseTime, Claim
<1> HIDE DEF next
<1> QED BY <1>2, <1>3, <1>4, <1>5, GrantsAfterStep DEF next

\* An id is given to one grant only, whatever is removed in between.
THEOREM IdsGivenOnce == Spec => IdsNeverReused
<1>1. Inv /\ [AnyStep]_vars =>
          [ LET next == available_primary_key(cmkvestings)
            IN  /\ available_primary_key(cmkvestings') >= next
                /\ \A id \in DOMAIN cmkvestings' \ Ids : id >= next ]_vars
    BY IdsStep
<1> QED BY <1>1, InvHolds, NextIsAny, PTL DEF Spec, IdsNeverReused

\* A settled grant is not disturbed by any step.
LEMMA SettledStep ==
    ASSUME Inv, [AnyStep]_vars, NEW id \in Ids \cap DOMAIN cmkvestings',
           cmkvestings[id].status = Cancelled
    PROVE  /\ cmkvestings'[id].status = Cancelled
           /\ cmkvestings'[id].vesting_amount = cmkvestings[id].vesting_amount
           /\ cmkvestings'[id].end_date = cmkvestings[id].end_date
<1> DEFINE Same == cmkvestings'[id] = cmkvestings[id]
<1>1. cmkvestings[id] \in VestingRows /\ id \in DOMAIN cmkvestings
    BY DEF Inv, LedgerOK, GrantTable, Ids
<1>2. ASSUME NEW row, cmkvestings' = Put(cmkvestings, available_primary_key(cmkvestings), row)
      PROVE  Same
  <2>1. DOMAIN cmkvestings \subseteq 0 .. MaxVestings - 1 /\ MaxVestings \in Nat
      BY VestingAssumption DEF Inv, LedgerOK, GrantTable
  <2>2. id < available_primary_key(cmkvestings) /\ id \in Nat
      BY <1>1, <2>1, NextKey
  <2>3. id # available_primary_key(cmkvestings)
      BY <2>2
  <2> QED BY <1>1, <1>2, <2>3 DEF Put
<1>3. ASSUME NEW k \in Ids, RemoveVesting(k) PROVE Same
    BY <1>3 DEF RemoveVesting, Erase
<1>4. ASSUME NEW k \in Ids, NEW t, PauseVesting(k, t) \/ UnpauseVestng(k, t) \/ CancelVesting(k, t)
      PROVE  Same
  <2>1. k # id
      BY <1>4 DEF PauseVesting, UnpauseVestng, CancelVesting, CanCancel, Active, Paused, Cancelled
  <2> QED BY <1>1, <1>4, <2>1 DEF PauseVesting, UnpauseVestng, CancelVesting
<1>5. ASSUME NEW k \in Ids, NEW t, SetPauseTime(k, t)
      PROVE  /\ cmkvestings'[id].status = Cancelled
             /\ cmkvestings'[id].vesting_amount = cmkvestings[id].vesting_amount
             /\ cmkvestings'[id].end_date = cmkvestings[id].end_date
  <2> DEFINE row == [cmkvestings[k] EXCEPT !.pause_time = t]
  <2>1. cmkvestings' = [cmkvestings EXCEPT ![k] = row] /\ cmkvestings[k] \in VestingRows
      BY <1>5 DEF SetPauseTime, Inv, LedgerOK, GrantTable, Ids
  <2> QED BY <1>1, <2>1 DEF VestingRows
<1>6. ASSUME NEW k \in Ids, Claim(k)
      PROVE  /\ cmkvestings'[id].status = Cancelled
             /\ cmkvestings'[id].vesting_amount = cmkvestings[id].vesting_amount
             /\ cmkvestings'[id].end_date = cmkvestings[id].end_date
  <2> DEFINE v == cmkvestings[k]
  <2>1. PICK quantity :
            cmkvestings' = [cmkvestings EXCEPT
                               ![k].vested_amount = @ + quantity,
                               ![k].status = IF v.vesting_amount = v.vested_amount + quantity
                                             THEN Cancelled ELSE @]
      BY <1>6 DEF Claim
  <2> DEFINE paid   == v.vested_amount + quantity
             status == IF v.vesting_amount = paid THEN Cancelled ELSE v.status
             row    == [v EXCEPT !.vested_amount = paid, !.status = status]
  <2>2. cmkvestings' = [cmkvestings EXCEPT ![k] = row] /\ v \in VestingRows
      BY <2>1 DEF Inv, LedgerOK, GrantTable, Ids
  <2>3. /\ row.status \in {v.status, Cancelled}
        /\ row.vesting_amount = v.vesting_amount /\ row.end_date = v.end_date
    <3> HIDE DEF paid, v
    <3> QED BY <2>2 DEF VestingRows
  <2> HIDE DEF row
  <2> QED BY <1>1, <2>2, <2>3
<1> QED BY <1>1, <1>2, <1>3, <1>4, <1>5, <1>6, GrantsAfterStep

\* A cancelled or fully paid grant keeps its status, amount and end for ever.
THEOREM SettledForEver == Spec => SettledStays
<1>1. Inv /\ [AnyStep]_vars =>
          [ \A id \in Ids \cap DOMAIN cmkvestings' :
              cmkvestings[id].status = Cancelled =>
                  /\ cmkvestings'[id].status = Cancelled
                  /\ cmkvestings'[id].vesting_amount = cmkvestings[id].vesting_amount
                  /\ cmkvestings'[id].end_date = cmkvestings[id].end_date ]_vars
    BY SettledStep
<1> QED BY <1>1, InvHolds, NextIsAny, PTL DEF Spec, SettledStays

\* The clock of a paused grant stands still while the time advances, whatever
\* its earlier pauses, and also when the 32 bits wrap around.
THEOREM PausedClock == Spec => PausedClockStands
<1>1. Inv /\ [AnyStep]_vars =>
          [ \A id \in Ids \cap DOMAIN cmkvestings' :
              /\ cmkvestings[id].status = Paused /\ cmkvestings[id].pause_start =< now
              /\ cmkvestings'[id] = cmkvestings[id]
              /\ now =< now'
              => now_fixed_by_pause(cmkvestings'[id], now') = FixedNow(id) ]_vars
  <2> SUFFICES ASSUME Inv, [AnyStep]_vars, NEW id \in Ids \cap DOMAIN cmkvestings',
                      cmkvestings[id].status = Paused, cmkvestings[id].pause_start =< now,
                      cmkvestings'[id] = cmkvestings[id], now =< now'
               PROVE  now_fixed_by_pause(cmkvestings'[id], now') = FixedNow(id)
      OBVIOUS
  <2> DEFINE v == cmkvestings[id]
  <2>1. now \in Nat /\ now' \in Nat
      BY NextInv DEF Inv
  <2>2. v \in VestingRows /\ v.pause_start \in Nat /\ v.pause_time \in Nat
      BY DEF Inv, LedgerOK, GrantTable, Ids, VestingRows
  <2> HIDE DEF v
  <2>3. v.status = Paused /\ v.pause_start =< now
      BY DEF v
  <2>4. now - PausedFor(v, now) = v.pause_start - v.pause_time
      BY <2>1, <2>2, <2>3 DEF PausedFor
  <2>5. now' - PausedFor(v, now') = v.pause_start - v.pause_time
      BY <2>1, <2>2, <2>3 DEF PausedFor
  <2>6. now_fixed_by_pause(v, now') = now_fixed_by_pause(v, now)
      BY <2>4, <2>5 DEF now_fixed_by_pause
  <2> QED BY <2>6 DEF FixedNow, v
<1> QED BY <1>1, InvHolds, NextIsAny, PTL DEF Spec, PausedClockStands

\* A transfer takes the quantity from its sender.
LEMMA SenderPays ==
    ASSUME TokenTypeOK, NEW c \in Contracts, NEW from \in Accounts, NEW to \in Accounts,
           NEW s \in Symbols, NEW q \in Int, TokenTransfer(c, from, to, s, q)
    PROVE  BalanceIn(accounts, c, from, s) - BalanceIn(accounts', c, from, s) = q
<1> DEFINE left == sub_balance(accounts, c, from, s, q)
<1>1. /\ from # to /\ <<c, from, s>> \in DOMAIN accounts
      /\ accounts' = Put(left, <<c, to, s>>, BalanceIn(left, c, to, s) + q)
    BY DEF TokenTransfer, CanTransfer, Covers, AfterTransfer, add_balance
<1>2. accounts[<<c, from, s>>] \in Nat
    BY <1>1 DEF TokenTypeOK
<1>3. DOMAIN left = DOMAIN accounts /\ left[<<c, from, s>>] = accounts[<<c, from, s>>] - q
    BY <1>1 DEF sub_balance
<1> HIDE DEF left
<1>4. /\ <<c, from, s>> \in DOMAIN accounts' /\ <<c, from, s>> # <<c, to, s>>
      /\ accounts'[<<c, from, s>>] = left[<<c, from, s>>]
    BY <1>1, <1>3 DEF Put
<1> QED BY <1>1, <1>2, <1>3, <1>4 DEF BalanceIn

\* When the books of a symbol are moved down and the amount is paid out, Self has
\* paid what they have lost; the books of other symbols do not move.
LEMMA PaidBooks ==
    ASSUME Inv, NEW k \in DOMAIN cmkassets, NEW s, NEW q \in Int, NEW to \in Accounts,
           NEW change \in Int, NEW balance, MoveBalance(s, -q, change, balance), PayOut(to, s, q),
           cmkassets'[k].asset_balance < cmkassets[k].asset_balance
    PROVE  BookedBalance(accounts, k) - BookedBalance(accounts', k)
             = cmkassets[k].asset_balance - cmkassets'[k].asset_balance
<1>1. /\ s \in DOMAIN cmkassets /\ cmkassets[s] \in AssetRows /\ cmkassets[k] \in AssetRows
      /\ s \in Symbols /\ cmkassets[s].asset_contract \in Contracts
      /\ cmkassets[k].asset_balance \in Nat
    BY DEF MoveBalance, Inv, LedgerOK, BooksOK, AssetRows
<1>2. k = s
    BY <1>1 DEF MoveBalance
<1>3. cmkassets'[s].asset_balance = cmkassets[s].asset_balance + (-q)
    BY <1>1 DEF MoveBalance, AssetRows
<1>4. q > 0
    BY <1>1, <1>2, <1>3
<1>5. TokenTransfer(cmkassets[s].asset_contract, Self, to, s, q)
    BY <1>4 DEF PayOut
<1>6. BookedBalance(accounts, s) - BookedBalance(accounts', s) = q
    BY <1>1, <1>5, SenderPays, VestingAssumption DEF Inv, BookedBalance
<1> QED BY <1>1, <1>2, <1>3, <1>6

\* Nothing is written off: what the books of a symbol lose in a step, Self pays
\* out in that step, from the contract the symbol is registered with.
THEOREM NothingWrittenOff == Spec => BooksFollowPayments
<1>1. Inv /\ [AnyStep]_vars =>
          [ \A s \in DOMAIN cmkassets :
              cmkassets'[s].asset_balance < cmkassets[s].asset_balance =>
                  BookedBalance(accounts, s) - BookedBalance(accounts', s)
                    = cmkassets[s].asset_balance - cmkassets'[s].asset_balance ]_vars
  <2> SUFFICES ASSUME Inv, [AnyStep]_vars, NEW k \in DOMAIN cmkassets,
                      cmkassets'[k].asset_balance < cmkassets[k].asset_balance
               PROVE  BookedBalance(accounts, k) - BookedBalance(accounts', k)
                        = cmkassets[k].asset_balance - cmkassets'[k].asset_balance
      OBVIOUS
  <2>1. cmkassets[k] \in AssetRows /\ cmkassets[k].asset_balance \in Nat
      BY DEF Inv, LedgerOK, BooksOK, AssetRows
  <2>2. cmkassets' # cmkassets
      BY <2>1
  <2>3. CASE \E c \in Contracts, s \in Symbols : AddAsset(c, s)
      BY <2>1, <2>3 DEF AddAsset, Put
  <2>4. CASE TransferStep
    <3>1. PICK c \in Contracts, s \in Symbols, from \in Accounts, to \in Accounts, q \in Int,
               memo \in Memos, signers \in SUBSET Accounts :
              Transfer(c, signers, from, to, s, q, memo)
        BY <2>4, VestingAssumption DEF TransferStep
    <3>2. q > 0 /\ MoveBalance(s, q, q, BookedBalance(accounts', s))
        BY <2>2, <3>1 DEF Transfer, on_transfer, deposit, TokenTransfer, CanTransfer
    <3> QED BY <2>1, <3>2 DEF MoveBalance
  <2>5. CASE WithdrawStep
    <3>1. PICK s \in Symbols, to \in Accounts, q \in Int : Withdraw(to, s, q)
        BY <2>5, VestingAssumption DEF WithdrawStep
    <3>2. MoveBalance(s, -q, -q, BookedBalance(accounts, s)) /\ PayOut(to, s, q) /\ -q \in Int
        BY <3>1 DEF Withdraw
    <3> QED BY <3>1, <3>2, PaidBooks
  <2>6. CASE AddStep
    <3>1. PICK amount \in Int, s \in Symbols : MoveBalance(s, 0, -amount, BookedBalance(accounts, s))
        BY <2>6, VestingAssumption DEF AddStep, AddVesting
    <3> QED BY <2>1, <3>1 DEF MoveBalance
  <2>7. ASSUME NEW id \in Ids, Claim(id)
        PROVE  BookedBalance(accounts, k) - BookedBalance(accounts', k)
                 = cmkassets[k].asset_balance - cmkassets'[k].asset_balance
    <3> DEFINE v == cmkvestings[id]
               quantity == Claimable(v, FixedNow(id))
    <3>1. v.account_id \in Accounts /\ v.vested_amount \in Nat /\ v.vesting_amount \in Nat
        BY DEF Inv, LedgerOK, GrantTable, Ids, VestingRows
    <3>2. Vested(v, FixedNow(id), FixedNow(id)) \in Int
        BY <3>1, GrantSums DEF Inv, LedgerOK
    <3>3. quantity \in Int
        BY <3>1, <3>2 DEF Claimable
    <3>4. /\ MoveBalance(v.symbol, -quantity, 0, BookedBalance(accounts, v.symbol))
          /\ PayOut(v.account_id, v.symbol, quantity)
        BY <2>7 DEF Claim
    <3> HIDE DEF quantity
    <3> QED BY <3>1, <3>3, <3>4, PaidBooks
  <2>8. ASSUME NEW id \in Ids, NEW t, CancelVesting(id, t)
        PROVE  FALSE
    <3>1. PICK s, q : MoveBalance(s, 0, q, BookedBalance(accounts, s))
        BY <2>2, <2>8 DEF CancelVesting
    <3> QED BY <2>1, <3>1 DEF MoveBalance
  <2>9. ASSUME NEW id \in Ids, NEW t,
               \/ RemoveVesting(id) \/ PauseVesting(id, t) \/ UnpauseVestng(id, t)
               \/ SetPauseTime(id, t)
        PROVE  FALSE
      BY <2>2, <2>9 DEF RemoveVesting, PauseVesting, UnpauseVestng, SetPauseTime
  <2>10. ASSUME NEW id \in Ids, AnyGrantStep(id)
         PROVE  BookedBalance(accounts, k) - BookedBalance(accounts', k)
                  = cmkassets[k].asset_balance - cmkassets'[k].asset_balance
      BY <2>7, <2>8, <2>9, <2>10 DEF AnyGrantStep
  <2>11. ~ (TokenStep \/ (\E t : Tick(t) \/ TimeMove(t)) \/ UNCHANGED vars)
      BY <2>2 DEF TokenStep, Tick, TimeMove, vars
  <2> QED BY <2>3, <2>4, <2>5, <2>6, <2>10, <2>11 DEF AnyStep
<1> QED BY <1>1, InvHolds, NextIsAny, PTL DEF Spec, BooksFollowPayments

-----------------------------------------------------------------------------
(* Supplies. *)

\* What each account holds of a token.
Holdings(table, c, s) == [a \in Accounts |-> BalanceIn(table, c, a, s)]

\* Every row of accounts is of a token that was created, and what its holders have is
\* the supply, within max_supply.
SupplyInv ==
    /\ \A k \in DOMAIN accounts : <<k[1], k[3]>> \in DOMAIN stat
    /\ SuppliesMatch

\* Table u is t with d more in the row of one owner.
Credited(t, u, c, owner, s, d) ==
    /\ \A k \in DOMAIN t : t[k] \in Int
    /\ \A k \in DOMAIN u : u[k] \in Int
    /\ BalanceIn(u, c, owner, s) = BalanceIn(t, c, owner, s) + d
    /\ \A e, a, r : <<e, a, r>> # <<c, owner, s>> => BalanceIn(u, e, a, r) = BalanceIn(t, e, a, r)

\* The columns of the table add up.
LEMMA HoldingsType ==
    ASSUME IsFiniteSet(Accounts), NEW table, \A k \in DOMAIN table : table[k] \in Int,
           NEW c, NEW s
    PROVE  /\ \A a \in Accounts : Holdings(table, c, s)[a] \in Int
           /\ SumFunction(Holdings(table, c, s)) \in Int
<1> DEFINE h == Holdings(table, c, s)
<1>1. DOMAIN h = Accounts /\ \A a \in Accounts : h[a] \in Int
    BY DEF Holdings, BalanceIn
<1> HIDE DEF h
<1>2. SumFunctionOnSet(h, Accounts) \in Int
    BY <1>1, SumType
<1> QED BY <1>1, <1>2 DEF SumFunction, h

\* Writing one balance changes what its token's holders have by as much, and no other token.
LEMMA HoldingsWrite ==
    ASSUME IsFiniteSet(Accounts), NEW t, NEW u, NEW d \in Int,
           NEW c, NEW owner \in Accounts, NEW s, Credited(t, u, c, owner, s, d)
    PROVE  \A e, r : SumFunction(Holdings(u, e, r))
                       = SumFunction(Holdings(t, e, r)) + IF <<e, r>> = <<c, s>> THEN d ELSE 0
<1> TAKE e, r
<1> DEFINE f == Holdings(t, e, r)
           g == Holdings(u, e, r)
<1>1. /\ DOMAIN f = Accounts /\ DOMAIN g = Accounts
      /\ \A a \in Accounts : f[a] \in Int /\ g[a] \in Int
      /\ SumFunction(f) \in Int
    BY HoldingsType DEF Holdings, Credited
<1>2. CASE <<e, r>> = <<c, s>>
  <2>1. \A a \in Accounts : a # owner => f[a] = g[a]
      BY DEF Holdings, Credited
  <2>2. g[owner] = f[owner] + d
      BY <1>2 DEF Holdings, Credited
  <2> HIDE DEF f, g
  <2>3. /\ SumFunctionOnSet(g, Accounts) = SumFunctionOnSet(f, Accounts) - f[owner] + g[owner]
        /\ SumFunctionOnSet(f, Accounts) \in Int
      BY <1>1, <2>1, SumChange
  <2>4. f[owner] \in Int
      BY <1>1
  <2>5. SumFunction(g) = SumFunction(f) + d
      BY <1>1, <2>2, <2>3, <2>4 DEF SumFunction
  <2> QED BY <1>2, <2>5 DEF f, g
<1>3. CASE <<e, r>> # <<c, s>>
  <2>1. f = g
      BY <1>3 DEF Holdings, Credited
  <2> HIDE DEF f, g
  <2>2. SumFunction(g) = SumFunction(f) + 0
      BY <1>1, <2>1
  <2> QED BY <1>3, <2>2 DEF f, g
<1> QED BY <1>2, <1>3

\* A transfer moves tokens between two holders.
LEMMA TransferSupply ==
    ASSUME IsFiniteSet(Accounts), TokenTypeOK, TokenTypeOK', SupplyInv,
           NEW c \in Contracts, NEW from \in Accounts, NEW to \in Accounts,
           NEW s \in Symbols, NEW q \in Int, TokenTransfer(c, from, to, s, q)
    PROVE  SupplyInv'
<1> DEFINE left == sub_balance(accounts, c, from, s, q)
<1>1. /\ from # to /\ q > 0 /\ Covers(c, from, s, q) /\ <<c, s>> \in DOMAIN stat /\ stat' = stat
      /\ accounts' = Put(left, <<c, to, s>>, BalanceIn(left, c, to, s) + q)
    BY DEF TokenTransfer, CanTransfer, AfterTransfer, add_balance
<1>2. /\ \A k \in DOMAIN accounts : accounts[k] \in Nat
      /\ \A k \in DOMAIN accounts' : accounts'[k] \in Nat
      /\ \A k \in DOMAIN left : left[k] \in Nat
      /\ DOMAIN left = DOMAIN accounts
  <2>1. DOMAIN left = DOMAIN accounts
      BY DEF sub_balance
  <2>2. \A k \in DOMAIN left : left[k] \in Nat
      BY <1>1, SubBalanceType
  <2> QED BY <2>1, <2>2 DEF TokenTypeOK
<1>3. /\ BalanceIn(left, c, from, s) = BalanceIn(accounts, c, from, s) - q
      /\ \A e, a, r : <<e, a, r>> # <<c, from, s>> => BalanceIn(left, e, a, r) = BalanceIn(accounts, e, a, r)
    BY <1>1 DEF sub_balance, BalanceIn, Covers
<1> HIDE DEF left
<1>4. /\ BalanceIn(accounts', c, to, s) = BalanceIn(left, c, to, s) + q
      /\ \A e, a, r : <<e, a, r>> # <<c, to, s>> => BalanceIn(accounts', e, a, r) = BalanceIn(left, e, a, r)
    BY <1>1 DEF Put, BalanceIn
<1>5. BalanceIn(accounts, c, from, s) \in Int /\ -q \in Int
    BY <1>2 DEF BalanceIn
<1>6. \A e, r : SumFunction(Holdings(left, e, r))
                  = SumFunction(Holdings(accounts, e, r)) + IF <<e, r>> = <<c, s>> THEN -q ELSE 0
  <2>1. Credited(accounts, left, c, from, s, -q)
      BY <1>2, <1>3, <1>5 DEF Credited
  <2> QED BY <1>5, <2>1, HoldingsWrite
<1>7. \A e, r : SumFunction(Holdings(accounts', e, r))
                  = SumFunction(Holdings(left, e, r)) + IF <<e, r>> = <<c, s>> THEN q ELSE 0
  <2>1. Credited(left, accounts', c, to, s, q)
      BY <1>2, <1>4 DEF Credited
  <2> QED BY <2>1, HoldingsWrite
<1>8. \A e, r : SumFunction(Holdings(accounts', e, r)) = SumFunction(Holdings(accounts, e, r))
  <2> TAKE e, r
  <2>1. SumFunction(Holdings(accounts, e, r)) \in Int
      BY <1>2, HoldingsType
  <2>2. CASE <<e, r>> = <<c, s>>
    <3>1. /\ SumFunction(Holdings(left, e, r)) = SumFunction(Holdings(accounts, e, r)) + (-q)
          /\ SumFunction(Holdings(accounts', e, r)) = SumFunction(Holdings(left, e, r)) + q
        BY <1>6, <1>7, <2>2
    <3> QED BY <2>1, <3>1
  <2>3. CASE <<e, r>> # <<c, s>>
    <3>1. /\ SumFunction(Holdings(left, e, r)) = SumFunction(Holdings(accounts, e, r)) + 0
          /\ SumFunction(Holdings(accounts', e, r)) = SumFunction(Holdings(left, e, r)) + 0
        BY <1>6, <1>7, <2>3
    <3> QED BY <2>1, <3>1
  <2> QED BY <2>2, <2>3
<1>9. DOMAIN accounts' = DOMAIN accounts \cup {<<c, to, s>>}
    BY <1>1, <1>2 DEF Put
<1>10. \A k \in DOMAIN accounts' : <<k[1], k[3]>> \in DOMAIN stat'
  <2>1. \A k : k = <<c, to, s>> => <<k[1], k[3]>> = <<c, s>>
      OBVIOUS
  <2> QED BY <1>1, <1>9, <2>1 DEF SupplyInv
<1>11. SuppliesMatch'
    BY <1>1, <1>8 DEF SupplyInv, SuppliesMatch, Holdings, BalanceOf
<1> QED BY <1>10, <1>11 DEF SupplyInv

\* What the token contracts do on their own changes a supply and a balance together.
LEMMA TokenStepSupply ==
    ASSUME IsFiniteSet(Accounts), TokenTypeOK, TokenTypeOK', SupplyInv, TokenStep
    PROVE  SupplyInv'
<1>1. PICK c \in Contracts, s \in Symbols, user \in Accounts :
          \/ \E q \in Int : Create(c, user, s, q) \/ Issue(c, user, s, q) \/ Retire(c, user, s, q)
          \/ Open(c, user, s)
          \/ Close(c, user, s)
    BY VestingAssumption DEF TokenStep
<1>2. /\ \A k \in DOMAIN accounts : accounts[k] \in Int
      /\ \A k \in DOMAIN accounts' : accounts'[k] \in Int
      /\ \A k \in DOMAIN accounts : <<k[1], k[3]>> \in DOMAIN stat
      /\ DOMAIN stat \subseteq Contracts \X Symbols
      /\ \A k \in DOMAIN stat : stat[k] \in StatRows
    BY DEF TokenTypeOK, SupplyInv
<1>3. \A k \in DOMAIN stat : /\ stat[k].supply = SumFunction(Holdings(accounts, k[1], k[2]))
                             /\ stat[k].supply =< stat[k].max_supply
                             /\ stat[k].supply \in Int /\ stat[k].max_supply \in Int
    BY <1>2, MaxAmountAssumption DEF SupplyInv, SuppliesMatch, Holdings, BalanceOf, StatRows
<1>4. ASSUME \A k \in DOMAIN accounts' : <<k[1], k[3]>> \in DOMAIN stat',
             \A k \in DOMAIN stat' : /\ stat'[k].supply = SumFunction(Holdings(accounts', k[1], k[2]))
                                     /\ stat'[k].supply =< stat'[k].max_supply
      PROVE  SupplyInv'
    BY <1>4 DEF SupplyInv, SuppliesMatch, Holdings, BalanceOf
<1>0. \A k : k = <<c, user, s>> => <<k[1], k[3]>> = <<c, s>>
    OBVIOUS
<1>5. ASSUME NEW d \in Int, stat' = [stat EXCEPT ![<<c, s>>].supply = @ + d], <<c, s>> \in DOMAIN stat,
             stat[<<c, s>>].supply + d =< stat[<<c, s>>].max_supply,
             Credited(accounts, accounts', c, user, s, d),
             DOMAIN accounts' \subseteq DOMAIN accounts \cup {<<c, user, s>>}
      PROVE  SupplyInv'
  <2>1. \A e, r : SumFunction(Holdings(accounts', e, r))
                  = SumFunction(Holdings(accounts, e, r)) + IF <<e, r>> = <<c, s>> THEN d ELSE 0
      BY <1>5, HoldingsWrite
  <2>2. \A k \in DOMAIN accounts' : <<k[1], k[3]>> \in DOMAIN stat'
      BY <1>0, <1>2, <1>5
  <2>3. ASSUME NEW k \in DOMAIN stat'
        PROVE  /\ stat'[k].supply = SumFunction(Holdings(accounts', k[1], k[2]))
               /\ stat'[k].supply =< stat'[k].max_supply
    <3>1. k \in DOMAIN stat /\ stat[k] \in StatRows /\ k = <<k[1], k[2]>>
        BY <1>2, <1>5, <2>3
    <3>2. CASE k = <<c, s>>
      <4>1. /\ stat'[k].supply = stat[k].supply + d
            /\ stat'[k].max_supply = stat[k].max_supply
          BY <1>5, <3>1, <3>2 DEF StatRows
      <4>2. k[1] = c /\ k[2] = s
          BY <3>2
      <4> QED BY <1>3, <1>5, <2>1, <3>1, <3>2, <4>1, <4>2
    <3>3. CASE k # <<c, s>>
      <4>1. stat'[k] = stat[k] /\ <<k[1], k[2]>> # <<c, s>>
          BY <1>5, <3>1, <3>3
      <4>2. SumFunction(Holdings(accounts', k[1], k[2])) = SumFunction(Holdings(accounts, k[1], k[2])) + 0
          BY <2>1, <4>1
      <4> QED BY <1>3, <3>1, <4>1, <4>2
    <3> QED BY <3>2, <3>3
  <2> QED BY <1>4, <2>2, <2>3
<1>6. ASSUME NEW q \in Int, Create(c, user, s, q) PROVE SupplyInv'
  <2> DEFINE row == [supply |-> 0, max_supply |-> q, issuer |-> user]
  <2>1. /\ accounts' = accounts /\ stat' = Put(stat, <<c, s>>, row) /\ <<c, s>> \notin DOMAIN stat
        /\ q >= 1
      BY <1>6, MaxAmountAssumption DEF Create
  <2>2. \A a \in Accounts : BalanceIn(accounts, c, a, s) = 0
    <3> SUFFICES ASSUME NEW a \in Accounts, <<c, a, s>> \in DOMAIN accounts PROVE FALSE
        BY DEF BalanceIn
    <3>1. <<(<<c, a, s>>)[1], (<<c, a, s>>)[3]>> = <<c, s>>
        OBVIOUS
    <3> QED BY <1>2, <2>1, <3>1
  <2>3. SumFunction(Holdings(accounts, c, s)) = 0
    <3> DEFINE h == Holdings(accounts, c, s)
    <3>1. DOMAIN h = Accounts /\ \A a \in Accounts : h[a] = 0
        BY <2>2 DEF Holdings
    <3> HIDE DEF h
    <3>2. SumFunctionOnSet(h, Accounts) = 0
        BY <3>1, SumOfNone
    <3> QED BY <3>1, <3>2 DEF SumFunction, h
  <2>4. DOMAIN stat' = DOMAIN stat \cup {<<c, s>>}
      BY <2>1 DEF Put
  <2>5. ASSUME NEW k \in DOMAIN stat'
        PROVE  /\ stat'[k].supply = SumFunction(Holdings(accounts', k[1], k[2]))
               /\ stat'[k].supply =< stat'[k].max_supply
    <3>1. CASE k = <<c, s>>
      <4>1. stat'[k] = row /\ k[1] = c /\ k[2] = s
          BY <2>1, <3>1 DEF Put
      <4> QED BY <2>1, <2>3, <4>1
    <3>2. CASE k # <<c, s>>
      <4>1. k \in DOMAIN stat /\ stat'[k] = stat[k]
          BY <2>1, <2>4, <3>2 DEF Put
      <4> QED BY <1>3, <2>1, <4>1
    <3> QED BY <3>1, <3>2
  <2>6. \A k \in DOMAIN accounts' : <<k[1], k[3]>> \in DOMAIN stat'
      BY <1>2, <2>1, <2>4
  <2> QED BY <1>4, <2>5, <2>6
<1>7. ASSUME NEW q \in Int, Issue(c, user, s, q) PROVE SupplyInv'
  <2>1. /\ stat' = [stat EXCEPT ![<<c, s>>].supply = @ + q] /\ <<c, s>> \in DOMAIN stat
        /\ q =< stat[<<c, s>>].max_supply - stat[<<c, s>>].supply
        /\ accounts' = Put(accounts, <<c, user, s>>, BalanceIn(accounts, c, user, s) + q)
      BY <1>7 DEF Issue, add_balance
  <2>2. stat[<<c, s>>].supply + q =< stat[<<c, s>>].max_supply
      BY <1>3, <2>1
  <2>3. /\ BalanceIn(accounts', c, user, s) = BalanceIn(accounts, c, user, s) + q
        /\ \A e, a, r : <<e, a, r>> # <<c, user, s>> =>
                              BalanceIn(accounts', e, a, r) = BalanceIn(accounts, e, a, r)
        /\ DOMAIN accounts' \subseteq DOMAIN accounts \cup {<<c, user, s>>}
      BY <2>1 DEF Put, BalanceIn
  <2>4. Credited(accounts, accounts', c, user, s, q)
      BY <1>2, <2>3 DEF Credited
  <2> QED BY <1>5, <2>1, <2>2, <2>3, <2>4
<1>8. ASSUME NEW q \in Int, Retire(c, user, s, q) PROVE SupplyInv'
  <2>1. /\ stat' = [stat EXCEPT ![<<c, s>>].supply = @ - q] /\ <<c, s>> \in DOMAIN stat
        /\ q > 0 /\ <<c, user, s>> \in DOMAIN accounts
        /\ accounts' = [accounts EXCEPT ![<<c, user, s>>] = @ - q]
      BY <1>8 DEF Retire, sub_balance, Covers
  <2>2. /\ -q \in Int /\ stat[<<c, s>>].supply + (-q) =< stat[<<c, s>>].max_supply
        /\ stat[<<c, s>>].supply - q = stat[<<c, s>>].supply + (-q)
        /\ accounts[<<c, user, s>>] - q = accounts[<<c, user, s>>] + (-q)
      BY <1>2, <1>3, <2>1
  <2>3. stat' = [stat EXCEPT ![<<c, s>>].supply = @ + (-q)]
      BY <2>1, <2>2
  <2>4. /\ BalanceIn(accounts', c, user, s) = BalanceIn(accounts, c, user, s) + (-q)
        /\ \A e, a, r : <<e, a, r>> # <<c, user, s>> =>
                              BalanceIn(accounts', e, a, r) = BalanceIn(accounts, e, a, r)
        /\ DOMAIN accounts' \subseteq DOMAIN accounts \cup {<<c, user, s>>}
      BY <2>1, <2>2 DEF BalanceIn
  <2>5. Credited(accounts, accounts', c, user, s, -q)
      BY <1>2, <2>4 DEF Credited
  <2> QED BY <1>5, <2>1, <2>2, <2>3, <2>4, <2>5
<1>9. ASSUME Open(c, user, s) \/ Close(c, user, s) PROVE SupplyInv'
  <2>1. /\ stat' = stat /\ \A e, a, r : BalanceIn(accounts', e, a, r) = BalanceIn(accounts, e, a, r)
        /\ DOMAIN accounts' \subseteq DOMAIN accounts \cup {<<c, user, s>>}
        /\ <<c, user, s>> \in DOMAIN accounts' => <<c, s>> \in DOMAIN stat
      BY <1>9, <1>2 DEF Open, Close, Put, Erase, BalanceIn
  <2>2. \A e, r : Holdings(accounts', e, r) = Holdings(accounts, e, r)
      BY <2>1 DEF Holdings
  <2>3. \A k \in DOMAIN accounts' : <<k[1], k[3]>> \in DOMAIN stat'
      BY <1>0, <1>2, <2>1
  <2> QED BY <1>3, <1>4, <2>1, <2>2, <2>3
<1> QED BY <1>1, <1>6, <1>7, <1>8, <1>9

\* What was issued before the contract was deployed matches.
LEMMA InitSupply == ASSUME IsFiniteSet(Accounts), Init PROVE SupplyInv
<1> DEFINE h(k) == Holdings(accounts, k[1], k[2])
<1>1. /\ DOMAIN stat = Genesis
      /\ \A k \in Genesis : stat[k].supply = GenesisSupply /\ stat[k].max_supply = GenesisSupply
      /\ DOMAIN accounts = {<<k[1], GenesisIssuer, k[2]>> : k \in Genesis}
      /\ \A k \in DOMAIN accounts : accounts[k] = GenesisSupply
    BY DEF Init
<1>2. \A k \in DOMAIN accounts : <<k[1], k[3]>> \in DOMAIN stat
  <2>1. \A k \in Genesis : k = <<k[1], k[2]>>
      BY VestingAssumption
  <2>2. \A k \in Genesis : LET r == <<k[1], GenesisIssuer, k[2]>> IN r[1] = k[1] /\ r[3] = k[2]
      OBVIOUS
  <2> QED BY <1>1, <2>1, <2>2
<1>3. ASSUME NEW k \in DOMAIN stat
      PROVE  stat[k].supply = SumFunction(h(k)) /\ stat[k].supply =< stat[k].max_supply
  <2> DEFINE zero == [a \in Accounts |-> 0]
             f == h(k)
  <2>1. k \in Genesis /\ GenesisSupply \in Int /\ GenesisIssuer \in Accounts
      BY <1>1, VestingAssumption
  <2>2. <<k[1], GenesisIssuer, k[2]>> \in DOMAIN accounts
      BY <1>1, <2>1
  <2>3. \A a \in Accounts : a # GenesisIssuer => <<k[1], a, k[2]>> \notin DOMAIN accounts
    <3>1. ASSUME NEW a \in Accounts, NEW j \in Genesis, <<k[1], a, k[2]>> = <<j[1], GenesisIssuer, j[2]>>
          PROVE  a = GenesisIssuer
        BY <3>1
    <3> QED BY <1>1, <3>1
  <2>4. /\ DOMAIN f = Accounts /\ f[GenesisIssuer] = GenesisSupply
        /\ \A a \in Accounts : f[a] \in Int /\ (a # GenesisIssuer => f[a] = 0)
      BY <1>1, <2>1, <2>2, <2>3 DEF Holdings, BalanceIn
  <2>5. \A a \in Accounts : zero[a] = 0
      OBVIOUS
  <2> HIDE DEF f, zero
  <2>6. SumFunctionOnSet(zero, Accounts) = 0
      BY <2>5, SumOfNone
  <2>7. SumFunctionOnSet(f, Accounts) = SumFunctionOnSet(zero, Accounts) - zero[GenesisIssuer] + f[GenesisIssuer]
    <3>1. \A a \in Accounts : zero[a] \in Int /\ f[a] \in Int /\ (a # GenesisIssuer => zero[a] = f[a])
        BY <2>4, <2>5
    <3> QED BY <2>1, <3>1, SumChange
  <2>8. SumFunction(f) = GenesisSupply
      BY <2>1, <2>4, <2>5, <2>6, <2>7 DEF SumFunction
  <2> QED BY <1>1, <2>1, <2>8 DEF f
<1> QED BY <1>2, <1>3 DEF SupplyInv, SuppliesMatch, Holdings, BalanceOf

\* Every step of the system keeps it: a transfer, whoever sends it, is the only other
\* thing that writes the tables of a token contract.
LEMMA NextSupply ==
    ASSUME IsFiniteSet(Accounts), Inv, Inv', SupplyInv, [AnyStep]_vars
    PROVE  SupplyInv'
<1>1. TokenTypeOK /\ TokenTypeOK' /\ BooksOK(cmkassets)
    BY DEF Inv, LedgerOK
<1>2. ASSUME UNCHANGED tokenVars PROVE SupplyInv'
    BY <1>2 DEF tokenVars, SupplyInv, SuppliesMatch, BalanceOf
<1>3. ASSUME NEW c \in Contracts, NEW from \in Accounts, NEW to \in Accounts,
             NEW s \in Symbols, NEW q \in Int, TokenTransfer(c, from, to, s, q)
      PROVE  SupplyInv'
    BY <1>1, <1>3, TransferSupply
<1>4. ASSUME NEW to \in Accounts, NEW s, s \in DOMAIN cmkassets, NEW q \in Int, PayOut(to, s, q)
      PROVE  SupplyInv'
  <2>1. s \in Symbols /\ cmkassets[s].asset_contract \in Contracts /\ Self \in Accounts
      BY <1>1, <1>4, VestingAssumption DEF BooksOK, AssetRows
  <2> QED BY <1>2, <1>3, <1>4, <2>1 DEF PayOut
<1>5. CASE TokenStep
    BY <1>1, <1>5, TokenStepSupply
<1>6. CASE TransferStep
    BY <1>3, <1>6, VestingAssumption DEF TransferStep, Transfer
<1>7. CASE WithdrawStep
    BY <1>4, <1>7, VestingAssumption DEF WithdrawStep, Withdraw, MoveBalance
<1>8. ASSUME NEW id \in Ids, AnyGrantStep(id) PROVE SupplyInv'
  <2>1. CASE Claim(id)
    <3> DEFINE v == cmkvestings[id]
               quantity == Claimable(v, FixedNow(id))
    <3>1. /\ v.account_id \in Accounts /\ v.vested_amount \in Nat /\ v.vesting_amount \in Nat
          /\ v.symbol \in DOMAIN cmkassets
        BY DEF Inv, LedgerOK, GrantTable, Ids, VestingRows
    <3>2. Vested(v, FixedNow(id), FixedNow(id)) \in Int
        BY <3>1, GrantSums DEF Inv, LedgerOK
    <3>3. quantity \in Int
        BY <3>1, <3>2 DEF Claimable
    <3>4. PayOut(v.account_id, v.symbol, quantity)
        BY <2>1 DEF Claim
    <3> HIDE DEF quantity, v
    <3> QED BY <1>4, <3>1, <3>3, <3>4
  <2>2. ASSUME ~ Claim(id) PROVE SupplyInv'
      BY <1>2, <1>8, <2>2 DEF AnyGrantStep, RemoveVesting, PauseVesting, UnpauseVestng,
                              SetPauseTime, CancelVesting, tokenVars
  <2> QED BY <2>1, <2>2
<1>9. ASSUME \/ \E c \in Contracts, s \in Symbols : AddAsset(c, s)
             \/ AddStep
             \/ \E t \in Nat : Tick(t) \/ TimeMove(t)
             \/ UNCHANGED vars
      PROVE  SupplyInv'
  <2>1. CASE AddStep
    <3>1. stat' = stat /\ accounts' = accounts
        BY <2>1 DEF AddStep, AddVesting
    <3> QED BY <1>2, <3>1 DEF tokenVars
  <2>2. CASE ~ AddStep
    <3>1. stat' = stat /\ accounts' = accounts
        BY <1>9, <2>2 DEF AddAsset, Tick, TimeMove, vars
    <3> QED BY <1>2, <3>1 DEF tokenVars
  <2> QED BY <2>1, <2>2
<1> QED BY <1>5, <1>6, <1>7, <1>8, <1>9 DEF AnyStep

\* For any number of holders, the supply of a token is what they have together and
\* never above max_supply, however create, issue, retire, transfer, open and close of
\* several contracts interleave with the payments of the vesting contract.
THEOREM SuppliesAlwaysMatch == ASSUME IsFiniteSet(Accounts) PROVE Spec => []SuppliesMatch
<1>1. Init => Inv /\ SupplyInv
    BY InitInv, InitSupply
<1>2. Inv /\ SupplyInv /\ [Next]_vars => (Inv /\ SupplyInv)'
    BY NextInv, NextSupply, NextIsAny
<1>3. SupplyInv => SuppliesMatch
    BY DEF SupplyInv
<1> QED BY <1>1, <1>2, <1>3, PTL DEF Spec

-----------------------------------------------------------------------------
(* The contract under a careful administrator.                             *)

\* What a careful administrator does is among what any may do.
LEMMA CarefulIsAny == Inv /\ [CarefulNext]_vars => [AnyStep]_vars
<1> SUFFICES ASSUME now \in Nat, CarefulNext PROVE AnyStep
    BY DEF Inv
<1>1. CASE TokenStep \/ (\E c \in Contracts, s \in Symbols : AddAsset(c, s)) \/ AddStep
    BY <1>1 DEF AnyStep
<1>2. CASE CarefulTransferStep
    BY <1>2 DEF CarefulTransferStep, TransferStep, AnyStep
<1>3. CASE CarefulWithdrawStep
    BY <1>3 DEF CarefulWithdrawStep, WithdrawStep, AnyStep
<1>4. ASSUME NEW t \in Times, Tick(t) PROVE AnyStep
    BY <1>4, VestingAssumption DEF AnyStep
<1>5. ASSUME NEW id \in Ids, CarefulGrantStep(id) PROVE AnyStep
  <2>1. AnyGrantStep(id)
      BY <1>5, VestingAssumption DEF CarefulGrantStep, AnyGrantStep
  <2> QED BY <2>1 DEF AnyStep
<1> QED BY <1>1, <1>2, <1>3, <1>4, <1>5 DEF CarefulNext

\* Hence the types and the books are right.
THEOREM CarefulInvHolds == CarefulSpec => []Inv
BY InitInv, NextInv, CarefulIsAny, PTL DEF CarefulSpec

\* And what the holders of a token have is its supply.
THEOREM CarefulSuppliesMatch == ASSUME IsFiniteSet(Accounts) PROVE CarefulSpec => []SuppliesMatch
<1>1. Init => Inv /\ SupplyInv
    BY InitInv, InitSupply
<1>2. Inv /\ SupplyInv /\ [CarefulNext]_vars => (Inv /\ SupplyInv)'
    BY NextInv, NextSupply, CarefulIsAny
<1>3. SupplyInv => SuppliesMatch
    BY DEF SupplyInv
<1> QED BY <1>1, <1>2, <1>3, PTL DEF CarefulSpec

-----------------------------------------------------------------------------
(* The clocks of the grants. *)

\* The pauses of a grant that are over, and those before the one that is on, are
\* not longer than the time itself: the subtraction of now_fixed_by_pause does not
\* wrap.
ClockOK(v, t) ==
    /\ v.pause_time =< t
    /\ v.status = Paused => v.pause_time =< v.pause_start

ClockInv ==
    /\ Inv
    /\ now < TimeWrap
    /\ \A id \in Ids : ClockOK(cmkvestings[id], now)

\* Reduced to 32 bits, a number that fits stays.
LEMMA ModSmall ==
    ASSUME NEW d \in Nat \ {0}, NEW n \in 0 .. d - 1
    PROVE  n % d = n
OBVIOUS

\* The clock of such a grant is the time less its pauses.
LEMMA ClockIs ==
    ASSUME NEW v, v.pause_start \in Nat, v.pause_time \in Nat,
           NEW t \in Nat, t < TimeWrap, ClockOK(v, t)
    PROVE  /\ PausedFor(v, t) \in 0 .. t
           /\ now_fixed_by_pause(v, t) = t - PausedFor(v, t)
           /\ now_fixed_by_pause(v, t) \in 0 .. t
<1>1. PausedFor(v, t) \in 0 .. t
    BY DEF PausedFor, ClockOK
<1>2. TimeWrap \in Nat \ {0} /\ t - PausedFor(v, t) \in 0 .. TimeWrap - 1
    BY <1>1, VestingMathAssumption
<1> QED BY <1>1, <1>2, ModSmall DEF now_fixed_by_pause

\* As the time advances, so does the clock, or it stands.
LEMMA ClockAdvances ==
    ASSUME NEW v, v.pause_start \in Nat, v.pause_time \in Nat,
           NEW t \in Nat, NEW u \in Nat, t =< u, u < TimeWrap, ClockOK(v, t)
    PROVE  /\ ClockOK(v, u)
           /\ now_fixed_by_pause(v, t) =< now_fixed_by_pause(v, u)
<1>1. ClockOK(v, u)
    BY DEF ClockOK
<1>2. t < TimeWrap
    BY VestingMathAssumption
<1>3. /\ now_fixed_by_pause(v, t) = t - PausedFor(v, t)
      /\ now_fixed_by_pause(v, u) = u - PausedFor(v, u)
    BY <1>1, <1>2, ClockIs
<1>4. t - PausedFor(v, t) =< u - PausedFor(v, u)
    BY DEF PausedFor
<1> QED BY <1>1, <1>3, <1>4

\* What the actions on a grant make of its row v.
RowStep(v, w) ==
    LET fixed == now_fixed_by_pause(v, now)
    IN  \/ /\ v.status = Active
           /\ \E start \in Nat : /\ start >= now
                                 /\ w = [v EXCEPT !.status = Paused, !.pause_start = start]
        \/ /\ v.status = Paused
           /\ w = [v EXCEPT !.status = Active, !.pause_time = PausedFor(v, now)]
        \/ /\ v.vested_amount < Vested(v, fixed, fixed)
           /\ \E status \in {v.status, Cancelled} :
                  w = [v EXCEPT !.vested_amount = Vested(v, fixed, fixed), !.status = status]
        \/ /\ v.status # Cancelled
           /\ \E end \in Dates :
                  /\ fixed =< end /\ end < v.end_date
                  /\ w = [v EXCEPT !.status = Cancelled,
                                   !.vesting_amount = Vested(v, end, fixed), !.end_date = end]

\* They keep its clock in order and never set it back.
LEMMA RowKeepsClock ==
    ASSUME now \in Nat, now < TimeWrap, NEW v \in VestingRows, ClockOK(v, now),
           NEW w, RowStep(v, w)
    PROVE  /\ ClockOK(w, now)
           /\ now_fixed_by_pause(v, now) =< now_fixed_by_pause(w, now)
<1>1. /\ v.pause_start \in Nat /\ v.pause_time \in Nat
      /\ PausedFor(v, now) \in 0 .. now
      /\ now_fixed_by_pause(v, now) = now - PausedFor(v, now)
    BY ClockIs DEF VestingRows
<1> DEFINE Kept == /\ w.pause_start \in Nat /\ w.pause_time \in Nat
                   /\ ClockOK(w, now) /\ PausedFor(w, now) =< PausedFor(v, now)
<1>2. ASSUME NEW start \in Nat, start >= now, v.status = Active,
             w = [v EXCEPT !.status = Paused, !.pause_start = start]
      PROVE  Kept
  <2>1. w.status = Paused /\ w.pause_start = start /\ w.pause_time = v.pause_time
      BY <1>2 DEF VestingRows
  <2> QED BY <1>1, <1>2, <2>1 DEF ClockOK, PausedFor, Active, Paused
<1>3. ASSUME v.status = Paused,
             w = [v EXCEPT !.status = Active, !.pause_time = PausedFor(v, now)]
      PROVE  Kept
  <2>1. /\ w.status = Active /\ w.pause_start = v.pause_start
        /\ w.pause_time = PausedFor(v, now)
      BY <1>3 DEF VestingRows
  <2> QED BY <1>1, <2>1 DEF ClockOK, PausedFor, Active, Paused
<1>4. ASSUME w.status \in {v.status, Cancelled},
             w.pause_start = v.pause_start, w.pause_time = v.pause_time
      PROVE  Kept
    BY <1>1, <1>4 DEF ClockOK, PausedFor, Paused, Cancelled
<1>5. ASSUME NEW vested, NEW status \in {v.status, Cancelled},
             w = [v EXCEPT !.vested_amount = vested, !.status = status]
      PROVE  Kept
  <2>1. w.status = status /\ w.pause_start = v.pause_start /\ w.pause_time = v.pause_time
      BY <1>5 DEF VestingRows
  <2> QED BY <1>4, <2>1
<1>6. ASSUME NEW amount, NEW end,
             w = [v EXCEPT !.status = Cancelled, !.vesting_amount = amount, !.end_date = end]
      PROVE  Kept
  <2>1. w.status = Cancelled /\ w.pause_start = v.pause_start /\ w.pause_time = v.pause_time
      BY <1>6 DEF VestingRows
  <2> QED BY <1>4, <2>1
<1>7. Kept
    BY <1>2, <1>3, <1>5, <1>6 DEF RowStep
<1>8. now_fixed_by_pause(w, now) = now - PausedFor(w, now) /\ PausedFor(w, now) \in 0 .. now
    BY <1>7, ClockIs
<1> QED BY <1>1, <1>7, <1>8

\* A step leaves a grant as it is, or does one of these things to it while the time
\* stands; the time never goes back, and a new grant has neither pauses nor payments.
LEMMA GrantAfterStep ==
    ASSUME Inv, [CarefulNext]_vars
    PROVE  /\ now =< now' /\ now' \in Nat /\ (now < TimeWrap => now' < TimeWrap)
           /\ \A id \in Both :
                  \/ cmkvestings'[id] = cmkvestings[id]
                  \/ now' = now /\ RowStep(cmkvestings[id], cmkvestings'[id])
           /\ \A id \in DOMAIN cmkvestings' \ Ids :
                  /\ now' = now
                  /\ cmkvestings'[id] \in VestingRows
                  /\ cmkvestings'[id].status = Active
                  /\ cmkvestings'[id].vested_amount = 0 /\ cmkvestings'[id].pause_time = 0
                  /\ cmkvestings'[id].vesting_period \in Periods
<1>1. now \in Nat /\ \A id \in Ids : cmkvestings[id] \in VestingRows
    BY DEF Inv, LedgerOK, GrantTable, Ids
<1>2. CASE \/ TokenStep \/ (\E c \in Contracts, s \in Symbols : AddAsset(c, s))
           \/ CarefulTransferStep \/ CarefulWithdrawStep \/ UNCHANGED vars
  <2>1. \A c, signers, from, to, s, q, memo :
            Transfer(c, signers, from, to, s, q, memo) => now' = now /\ cmkvestings' = cmkvestings
      BY DEF Transfer
  <2>2. ASSUME CarefulTransferStep PROVE now' = now /\ cmkvestings' = cmkvestings
      BY <2>1, <2>2 DEF CarefulTransferStep
  <2>3. ASSUME CarefulWithdrawStep PROVE now' = now /\ cmkvestings' = cmkvestings
      BY <2>3 DEF CarefulWithdrawStep, Withdraw
  <2>4. ASSUME NEW c \in Contracts, NEW s \in Symbols, AddAsset(c, s)
        PROVE  now' = now /\ cmkvestings' = cmkvestings
      BY <2>4 DEF AddAsset
  <2>5. ASSUME TokenStep \/ UNCHANGED vars PROVE now' = now /\ cmkvestings' = cmkvestings
      BY <2>5 DEF TokenStep, vars
  <2>6. now' = now /\ cmkvestings' = cmkvestings
      BY <1>2, <2>2, <2>3, <2>4, <2>5
  <2> QED BY <1>1, <2>6 DEF Both, Ids
<1>3. CASE \E t \in Times : Tick(t)
  <2>1. now' \in Nat /\ now < now' /\ now' < TimeWrap /\ cmkvestings' = cmkvestings
      BY <1>1, <1>3, VestingAssumption, VestingMathAssumption, ClockAssumption DEF Tick
  <2> QED BY <1>1, <2>1 DEF Both, Ids
<1>4. CASE AddStep
  <2>1. PICK account \in Accounts, period \in Periods, s \in Symbols, amount \in Int,
             cliff \in Nat, start \in Nat, end \in Nat, weight \in Int, pause_time \in {0} :
            AddVesting(account, period, s, amount, cliff, weight, start, end, pause_time)
      BY <1>4, VestingAssumption, CarefulAssumption DEF AddStep
  <2> DEFINE key == available_primary_key(cmkvestings)
             row == [account_id |-> account, vesting_period |-> period, symbol |-> s,
                     vesting_amount |-> amount, vested_amount |-> 0,
                     cliff_date |-> IF weight = 0 THEN start ELSE cliff,
                     cliff_weight |-> weight, end_date |-> end,
                     status |-> Active, pause_start |-> 0, pause_time |-> pause_time]
  <2>2. /\ now' = now /\ period \in VestingPeriods /\ amount \in Nat /\ weight \in 0 .. WeightUnit
        /\ cmkvestings' = Put(cmkvestings, key, row)
      BY <2>1, VestingMathAssumption DEF AddVesting
  <2>3. /\ row \in VestingRows /\ row.status = Active /\ row.vested_amount = 0
        /\ row.pause_time = 0 /\ row.vesting_period = period
      BY <2>2 DEF VestingRows
  <2>4. \A id \in Ids : id # key
    <3>1. DOMAIN cmkvestings \subseteq 0 .. MaxVestings - 1 /\ MaxVestings \in Nat
        BY VestingAssumption DEF Inv, LedgerOK, GrantTable
    <3> QED BY <3>1, NextKey DEF Ids
  <2> HIDE DEF key, row
  <2>5. /\ DOMAIN cmkvestings' = DOMAIN cmkvestings \cup {key} /\ cmkvestings'[key] = row
        /\ \A id \in Ids : cmkvestings'[id] = cmkvestings[id]
      BY <2>2, <2>4 DEF Put, Ids
  <2> QED BY <1>1, <2>2, <2>3, <2>5 DEF Both, Ids
<1>5. ASSUME NEW id \in Ids, RemoveVesting(id)
      PROVE  now' = now /\ DOMAIN cmkvestings' \subseteq Ids
             /\ \A k \in Both : cmkvestings'[k] = cmkvestings[k]
    BY <1>5 DEF RemoveVesting, Erase, Both, Ids
<1> DEFINE Rewritten(id) == /\ now' = now
                            /\ cmkvestings' = [cmkvestings EXCEPT ![id] = cmkvestings'[id]]
                            /\ RowStep(cmkvestings[id], cmkvestings'[id])
<1>6. ASSUME NEW id \in Ids, NEW t \in Nat, PauseVesting(id, t) PROVE Rewritten(id)
  <2> DEFINE v   == cmkvestings[id]
             row == [v EXCEPT !.status = Paused, !.pause_start = t]
  <2>1. /\ now' = now /\ v.status = Active /\ t >= now
        /\ cmkvestings' = [cmkvestings EXCEPT ![id] = row]
      BY <1>6 DEF PauseVesting
  <2>2. cmkvestings'[id] = row
      BY <2>1 DEF Ids
  <2> QED BY <2>1, <2>2 DEF RowStep
<1>7. ASSUME NEW id \in Ids, UnpauseVestng(id, now) PROVE Rewritten(id)
  <2> DEFINE v     == cmkvestings[id]
             total == v.pause_time + (IF v.pause_start < now THEN now - v.pause_start ELSE 0)
             row   == [v EXCEPT !.status = Active, !.pause_time = total]
  <2>1. /\ now' = now /\ v.status = Paused
        /\ cmkvestings' = [cmkvestings EXCEPT ![id] = row]
      BY <1>7 DEF UnpauseVestng
  <2>2. cmkvestings'[id] = row
      BY <2>1 DEF Ids
  <2>3. total = PausedFor(v, now)
      BY <2>1 DEF PausedFor
  <2> HIDE DEF total
  <2> QED BY <2>1, <2>2, <2>3 DEF RowStep
<1>8. ASSUME NEW id \in Ids, Claim(id) PROVE Rewritten(id)
  <2> DEFINE v      == cmkvestings[id]
             fixed  == now_fixed_by_pause(v, now)
             vested == Vested(v, fixed, fixed)
             q      == vested - v.vested_amount
             status == IF v.vesting_amount = v.vested_amount + q THEN Cancelled ELSE v.status
             row    == [v EXCEPT !.vested_amount = v.vested_amount + q, !.status = status]
  <2>1. /\ now' = now /\ q > 0
        /\ cmkvestings' = [cmkvestings EXCEPT ![id] = row]
      BY <1>8 DEF Claim, Claimable, FixedNow
  <2>2. vested \in Int /\ v.vested_amount \in Int
    <3>1. vested \in 0 .. v.vesting_amount
        BY <1>1, GrantSums DEF FixedNow, Inv, LedgerOK
    <3> QED BY <1>1, <3>1 DEF VestingRows
  <2> HIDE DEF v, vested
  <2>3. v.vested_amount < vested /\ v.vested_amount + q = vested
      BY <2>1, <2>2
  <2>4. status \in {v.status, Cancelled}
      OBVIOUS
  <2>5. cmkvestings'[id] = [v EXCEPT !.vested_amount = vested, !.status = status]
      BY <2>1, <2>3 DEF Ids
  <2> HIDE DEF status
  <2>6. RowStep(v, cmkvestings'[id])
      BY <2>3, <2>4, <2>5 DEF RowStep, vested
  <2>7. cmkvestings' = [cmkvestings EXCEPT ![id] = cmkvestings'[id]]
      BY <2>1 DEF Ids
  <2> QED BY <2>1, <2>6, <2>7 DEF v
<1>9. ASSUME NEW id \in Ids, NEW t \in Dates, CancelVesting(id, t) PROVE Rewritten(id)
  <2> DEFINE v     == cmkvestings[id]
             fixed == now_fixed_by_pause(v, now)
             row   == [v EXCEPT !.status = Cancelled, !.vesting_amount = Vested(v, t, fixed),
                                !.end_date = t]
  <2>1. /\ now' = now /\ v.status \in {Active, Paused} /\ t >= fixed /\ t < v.end_date
        /\ cmkvestings' = [cmkvestings EXCEPT ![id] = row]
      BY <1>9 DEF CancelVesting, CanCancel, FixedNow
  <2>2. cmkvestings'[id] = row
      BY <2>1 DEF Ids
  <2>3. t \in Nat /\ fixed \in Nat
      BY <1>1, GrantSums, VestingAssumption DEF FixedNow, Inv, LedgerOK
  <2>4. fixed =< t /\ v.status # Cancelled
      BY <2>1, <2>3 DEF Active, Paused, Cancelled
  <2> QED BY <2>1, <2>2, <2>4 DEF RowStep
<1>10. ASSUME NEW id \in Ids, Rewritten(id)
       PROVE  DOMAIN cmkvestings' = Ids /\ \A k \in Both : \/ cmkvestings'[k] = cmkvestings[k]
                                                           \/ now' = now /\ RowStep(cmkvestings[k], cmkvestings'[k])
    BY <1>10 DEF Both, Ids
<1>11. ASSUME NEW id \in Ids, CarefulGrantStep(id)
       PROVE  RemoveVesting(id) \/ Rewritten(id)
  <2> HIDE DEF Rewritten
  <2> QED BY <1>6, <1>7, <1>8, <1>9, <1>11, VestingAssumption DEF CarefulGrantStep
<1>12. CASE \E id \in Ids : CarefulGrantStep(id)
  <2>1. PICK id \in Ids : RemoveVesting(id) \/ Rewritten(id)
      BY <1>11, <1>12
  <2>2. CASE RemoveVesting(id)
      BY <1>1, <1>5, <2>2
  <2>3. CASE Rewritten(id)
    <3>1. now' = now
        BY <2>3
    <3>2. DOMAIN cmkvestings' = Ids
        BY <1>10, <2>3
    <3> HIDE DEF Rewritten
    <3> QED BY <1>1, <1>10, <2>3, <3>1, <3>2
  <2> QED BY <2>1, <2>2, <2>3
<1> HIDE DEF Rewritten
<1> QED BY <1>2, <1>3, <1>4, <1>12 DEF CarefulNext

\* Every step keeps the clocks in order.
LEMMA ClockInvStep == ClockInv /\ [CarefulNext]_vars => ClockInv'
<1> SUFFICES ASSUME ClockInv, [CarefulNext]_vars PROVE ClockInv'
    OBVIOUS
<1>1. Inv /\ now < TimeWrap /\ \A id \in Ids : ClockOK(cmkvestings[id], now)
    BY DEF ClockInv
<1>2. Inv'
    BY <1>1, NextInv, CarefulIsAny
<1>3. now \in Nat /\ now' \in Nat /\ now =< now' /\ now' < TimeWrap
    BY <1>1, GrantAfterStep DEF Inv
<1>4. \A id \in Ids : cmkvestings[id] \in VestingRows
    BY <1>1 DEF Inv, LedgerOK, GrantTable, Ids
<1>5. ASSUME NEW id \in Ids' PROVE ClockOK(cmkvestings'[id], now')
  <2>1. CASE id \notin Ids
    <3>1. cmkvestings'[id].status = Active /\ cmkvestings'[id].pause_time = 0
        BY <1>1, <2>1, GrantAfterStep DEF Ids
    <3> QED BY <1>3, <3>1 DEF ClockOK, Active, Paused
  <2>2. CASE id \in Ids /\ cmkvestings'[id] = cmkvestings[id]
      BY <1>1, <1>3, <1>4, <2>2, ClockAdvances DEF VestingRows
  <2>3. CASE id \in Ids /\ now' = now /\ RowStep(cmkvestings[id], cmkvestings'[id])
      BY <1>1, <1>3, <1>4, <2>3, RowKeepsClock
  <2> QED BY <1>1, <2>1, <2>2, <2>3, GrantAfterStep DEF Both, Ids
<1> QED BY <1>2, <1>3, <1>5 DEF ClockInv

\* It holds at first: there are no grants.
LEMMA ClockInvInit == Init => ClockInv
<1> SUFFICES ASSUME Init PROVE ClockInv
    OBVIOUS
<1>1. Inv
    BY InitInv
<1>2. now < TimeWrap
    BY ClockAssumption, VestingMathAssumption DEF Init
<1>3. Ids = {}
    BY DEF Init, Ids, EmptyTable
<1> QED BY <1>1, <1>2, <1>3 DEF ClockInv

\* In every state the pauses of a grant are within the time that has gone by.
THEOREM ClocksInOrder == CarefulSpec => []ClockInv
BY ClockInvInit, ClockInvStep, PTL DEF CarefulSpec

\* The clock of a grant never goes back, whatever is paused, ended and cancelled.
THEOREM ClocksNeverBack == CarefulSpec => ClockNeverBack
<1>1. ClockInv /\ [CarefulNext]_vars =>
          [ \A id \in Both : now_fixed_by_pause(cmkvestings'[id], now') >= FixedNow(id) ]_vars
  <2> SUFFICES ASSUME ClockInv, [CarefulNext]_vars, NEW id \in Both
               PROVE  now_fixed_by_pause(cmkvestings'[id], now') >= FixedNow(id)
      OBVIOUS
  <2> DEFINE v == cmkvestings[id]
             w == cmkvestings'[id]
  <2>1. ClockInv' /\ Inv /\ Inv' /\ id \in Ids /\ id \in Ids'
      BY ClockInvStep DEF ClockInv, Both, Ids
  <2>2. /\ now \in Nat /\ now' \in Nat /\ now =< now' /\ now < TimeWrap /\ now' < TimeWrap
        /\ v \in VestingRows /\ w \in VestingRows
        /\ ClockOK(v, now) /\ ClockOK(w, now')
      BY <2>1, GrantAfterStep DEF ClockInv, Inv, LedgerOK, GrantTable, Ids
  <2>3. w = v \/ (now' = now /\ RowStep(v, w))
      BY <2>1, GrantAfterStep
  <2> HIDE DEF v, w
  <2>4. now_fixed_by_pause(v, now) =< now_fixed_by_pause(w, now')
    <3>1. CASE w = v
        BY <2>2, <3>1, ClockAdvances DEF VestingRows
    <3>2. CASE now' = now /\ RowStep(v, w)
        BY <2>2, <3>2, RowKeepsClock
    <3> QED BY <2>3, <3>1, <3>2
  <2>5. now_fixed_by_pause(v, now) \in Int /\ now_fixed_by_pause(w, now') \in Int
      BY <2>2, FixedNowType DEF VestingRows
  <2> QED BY <2>4, <2>5 DEF FixedNow, v, w
<1> QED BY <1>1, ClocksInOrder, PTL DEF CarefulSpec, ClockNeverBack

-----------------------------------------------------------------------------
(* What is paid of the grants. *)

\* No monthly grant is cancelled as of the last day of a leap year, which tm_get takes
\* for one of the next: counted up to that day there is a month more than up to the
\* day after, and a cancel would set the amount of the grant below what was paid.
RegularDates ==
    Monthly \in Periods => \A t \in Dates : DayNumber(t) % 1461 # 1095

\* Whatever date it may still be cancelled as of, the grant keeps what was paid of it.
AccrualOK(v, t) ==
    /\ v.vesting_period \in Periods
    /\ v.vested_amount =< v.vesting_amount
    /\ v.status # Cancelled =>
           \A c \in Dates : now_fixed_by_pause(v, t) =< c =>
               v.vested_amount =< Vested(v, c, now_fixed_by_pause(v, t))

AccrualInv ==
    /\ ClockInv
    /\ \A id \in Ids : AccrualOK(cmkvestings[id], now)

\* The periods of a grant are counted right on every such date.
LEMMA DatesCountRight ==
    ASSUME RegularDates, NEW period \in Periods, NEW c \in Dates
    PROVE  c \in Nat /\ CountsRight(period, c)
<1>1. c \in Nat /\ c < TimeWrap
    BY ClockAssumption, VestingMathAssumption
<1>2. DayNumber(c) < 364 * 1461
  <2> DEFINE far == 364 * 1461
  <2>1. far \in Nat /\ TimeWrap =< far * SecondsPerDay
      BY TimeWrapAssumption
  <2> HIDE DEF far
  <2>2. SecondsPerDay \in Nat \ {0} /\ c < far * SecondsPerDay
      BY <1>1, <2>1, SecondsPerDayAssumption, VestingMathAssumption
  <2>3. DayNumber(c) \in Nat /\ DayNumber(c) * SecondsPerDay =< c
      BY <1>1, <2>2, Quotient DEF DayNumber
  <2>4. ASSUME far =< DayNumber(c) PROVE FALSE
    <3>1. far * SecondsPerDay =< DayNumber(c) * SecondsPerDay
        BY <2>1, <2>2, <2>3, <2>4, TimesMonotone
    <3>2. far * SecondsPerDay \in Nat /\ DayNumber(c) * SecondsPerDay \in Nat
        BY <2>1, <2>2, <2>3
    <3> QED BY <1>1, <2>2, <2>3, <3>1, <3>2
  <2>5. DayNumber(c) < far
      BY <2>1, <2>3, <2>4
  <2> QED BY <2>5 DEF far
<1> QED BY <1>1, <1>2 DEF RegularDates, CountsRight, DateRight

\* What has vested is a number.
LEMMA VestedType ==
    ASSUME NEW v \in VestingRows, NEW c \in Nat, NEW n \in Nat
    PROVE  /\ v.vesting_amount \in Nat /\ Vested(v, c, n) \in Nat
           /\ Vested(v, c, n) =< v.vesting_amount
<1>1. IsGrant(v) /\ v.vesting_amount \in Nat
    BY DEF VestingRows, IsGrant
<1>2. Vested(v, c, n) \in 0 .. v.vesting_amount
    BY <1>1, VestedWithinGrant
<1> QED BY <1>1, <1>2

\* What has vested depends on the terms of the grant and not on its state.
LEMMA VestedSame ==
    ASSUME NEW v, NEW w, w.vesting_period = v.vesting_period,
           w.vesting_amount = v.vesting_amount, w.cliff_date = v.cliff_date,
           w.cliff_weight = v.cliff_weight, w.end_date = v.end_date
    PROVE  \A curr, n : Vested(w, curr, n) = Vested(v, curr, n)
BY DEF Vested

\* As the clock of a grant advances, what was paid of it stays covered.
LEMMA AccrualAdvances ==
    ASSUME RegularDates, NEW v \in VestingRows, NEW w \in VestingRows, NEW t, NEW u,
           AccrualOK(v, t), w.vesting_period = v.vesting_period,
           w.vesting_amount = v.vesting_amount, w.vested_amount = v.vested_amount,
           w.cliff_date = v.cliff_date, w.cliff_weight = v.cliff_weight,
           w.end_date = v.end_date, w.status # Cancelled => v.status # Cancelled,
           now_fixed_by_pause(v, t) \in Nat, now_fixed_by_pause(w, u) \in Nat,
           now_fixed_by_pause(v, t) =< now_fixed_by_pause(w, u)
    PROVE  AccrualOK(w, u)
<1> DEFINE f == now_fixed_by_pause(v, t)
           g == now_fixed_by_pause(w, u)
<1> HIDE DEF f, g
<1>1. f \in Nat /\ g \in Nat /\ f =< g
    BY DEF f, g
<1>2. ASSUME NEW c \in Dates, g =< c, w.status # Cancelled
      PROVE  w.vested_amount =< Vested(w, c, g)
  <2>1. c \in Nat /\ CountsRight(v.vesting_period, c)
      BY DatesCountRight DEF AccrualOK
  <2>2. IsGrant(v) /\ v.vested_amount \in Nat
      BY DEF VestingRows, IsGrant
  <2>3. f =< c
      BY <1>1, <1>2, <2>1
  <2>4. v.vested_amount =< Vested(v, c, f)
      BY <1>2, <2>3 DEF AccrualOK, f
  <2>5. Vested(v, c, f) =< Vested(v, c, g)
      BY <1>1, <2>1, <2>2, VestedNeverDrops
  <2>6. Vested(v, c, f) \in Nat /\ Vested(v, c, g) \in Nat
      BY <1>1, <2>1, VestedType
  <2>7. Vested(w, c, g) = Vested(v, c, g)
      BY VestedSame
  <2> QED BY <2>2, <2>4, <2>5, <2>6, <2>7
<1> QED BY <1>2 DEF AccrualOK, g

\* A cancel leaves the grant at least what had vested of it, hence what was paid.
LEMMA CancelledRow ==
    ASSUME RegularDates, NEW v \in VestingRows, v.vesting_period \in Periods,
           NEW f \in Nat, NEW end \in Dates, f =< end
    PROVE  Vested(v, f, f) \in Nat /\ Vested(v, end, f) \in Nat
           /\ Vested(v, f, f) =< Vested(v, end, f)
<1>1. end \in Nat /\ CountsRight(v.vesting_period, end)
    BY DatesCountRight
<1>2. IsGrant(v)
    BY DEF VestingRows, IsGrant
<1>3. Vested(v, f, f) \in Nat /\ Vested(v, end, f) \in Nat
    BY <1>1, VestedType
<1> QED BY <1>1, <1>2, <1>3, VestedNeverDrops

\* What the actions make of a row keeps what was paid of it covered.
LEMMA RowKeepsAccrual ==
    ASSUME RegularDates, now \in Nat, now < TimeWrap,
           NEW v \in VestingRows, ClockOK(v, now), AccrualOK(v, now),
           NEW w \in VestingRows, RowStep(v, w)
    PROVE  AccrualOK(w, now)
<1> DEFINE f == now_fixed_by_pause(v, now)
           g == now_fixed_by_pause(w, now)
<1>1. f \in Nat /\ g \in Nat /\ f =< g
    BY RowKeepsClock, FixedNowType DEF VestingRows
<1>2. ASSUME w.vesting_period = v.vesting_period, w.vesting_amount = v.vesting_amount,
             w.vested_amount = v.vested_amount, w.cliff_date = v.cliff_date,
             w.cliff_weight = v.cliff_weight, w.end_date = v.end_date,
             w.status # Cancelled => v.status # Cancelled
      PROVE  AccrualOK(w, now)
    BY <1>1, <1>2, AccrualAdvances
<1>3. ASSUME NEW start, v.status = Active,
             w = [v EXCEPT !.status = Paused, !.pause_start = start]
      PROVE  AccrualOK(w, now)
  <2>1. v.status # Cancelled
      BY <1>3 DEF Active, Cancelled
  <2> QED BY <1>2, <1>3, <2>1 DEF VestingRows
<1>4. ASSUME NEW total, v.status = Paused,
             w = [v EXCEPT !.status = Active, !.pause_time = total]
      PROVE  AccrualOK(w, now)
  <2>1. v.status # Cancelled
      BY <1>4 DEF Paused, Cancelled
  <2> QED BY <1>2, <1>4, <2>1 DEF VestingRows
<1>5. ASSUME NEW status \in {v.status, Cancelled},
             w = [v EXCEPT !.vested_amount = Vested(v, f, f), !.status = status]
      PROVE  AccrualOK(w, now)
  <2> HIDE DEF f, g
  <2>1. /\ w.vesting_period = v.vesting_period /\ w.vesting_amount = v.vesting_amount
        /\ w.vested_amount = Vested(v, f, f) /\ w.cliff_date = v.cliff_date
        /\ w.cliff_weight = v.cliff_weight /\ w.end_date = v.end_date
      BY <1>5 DEF VestingRows
  <2>2. w.vested_amount =< w.vesting_amount
      BY <1>1, <2>1, VestedType
  <2>3. ASSUME NEW c \in Dates, g =< c PROVE w.vested_amount =< Vested(w, c, g)
    <3>1. c \in Nat /\ CountsRight(v.vesting_period, c) /\ IsGrant(v)
        BY DatesCountRight DEF AccrualOK, VestingRows, IsGrant
    <3>2. f =< c
        BY <1>1, <2>3, <3>1
    <3>3. Vested(v, f, f) =< Vested(v, c, g)
        BY <1>1, <3>1, <3>2, VestedNeverDrops
    <3> QED BY <2>1, <3>3, VestedSame
  <2> QED BY <2>1, <2>2, <2>3 DEF AccrualOK, g
<1>6. ASSUME NEW end \in Dates, f =< end, v.status # Cancelled,
             w = [v EXCEPT !.status = Cancelled, !.vesting_amount = Vested(v, end, f),
                           !.end_date = end]
      PROVE  AccrualOK(w, now)
  <2> HIDE DEF f
  <2>1. /\ w.vesting_period = v.vesting_period /\ w.vesting_amount = Vested(v, end, f)
        /\ w.vested_amount = v.vested_amount /\ w.status = Cancelled
      BY <1>6 DEF VestingRows
  <2>2. v.vested_amount =< Vested(v, end, f)
      BY <1>6 DEF AccrualOK, f
  <2> QED BY <2>1, <2>2 DEF AccrualOK
<1> QED BY <1>3, <1>4, <1>5, <1>6 DEF RowStep

\* No step of the careful user breaks it.
LEMMA AccrualInvStep == RegularDates /\ AccrualInv /\ [CarefulNext]_vars => AccrualInv'
<1> SUFFICES ASSUME RegularDates, AccrualInv, [CarefulNext]_vars PROVE AccrualInv'
    OBVIOUS
<1>1. ClockInv /\ ClockInv' /\ Inv /\ Inv'
    BY ClockInvStep DEF AccrualInv, ClockInv
<1>2. now \in Nat /\ now' \in Nat /\ now =< now' /\ now < TimeWrap /\ now' < TimeWrap
    BY <1>1, GrantAfterStep DEF ClockInv, Inv
<1>3. \A id \in Ids : /\ cmkvestings[id] \in VestingRows
                       /\ ClockOK(cmkvestings[id], now) /\ AccrualOK(cmkvestings[id], now)
    BY <1>1 DEF AccrualInv, ClockInv, Inv, LedgerOK, GrantTable, Ids
<1>4. \A id \in Ids' : cmkvestings'[id] \in VestingRows
    BY <1>1 DEF Inv, LedgerOK, GrantTable, Ids
<1>5. ASSUME NEW id \in Ids' PROVE AccrualOK(cmkvestings'[id], now')
  <2> DEFINE v == cmkvestings[id]
             w == cmkvestings'[id]
             f == now_fixed_by_pause(w, now')
  <2>1. CASE id \notin Ids
    <3>1. w \in VestingRows /\ w.vested_amount = 0 /\ w.vesting_period \in Periods
        BY <1>1, <2>1, GrantAfterStep DEF Ids
    <3> HIDE DEF w
    <3>2. f \in Nat /\ w.vesting_amount \in Nat
        BY <1>2, <3>1, FixedNowType DEF VestingRows
    <3> HIDE DEF f
    <3>3. \A c \in Dates : c \in Nat /\ Vested(w, c, f) \in Nat
        BY <3>1, <3>2, VestedType, VestingAssumption
    <3>4. AccrualOK(w, now')
        BY <3>1, <3>2, <3>3 DEF AccrualOK, f
    <3> QED BY <3>4 DEF w
  <2>2. CASE id \in Ids /\ w = v
    <3>1. v \in VestingRows /\ ClockOK(v, now) /\ AccrualOK(v, now)
        BY <1>3, <2>2
    <3> HIDE DEF v
    <3>2. v.pause_start \in Nat /\ v.pause_time \in Nat
        BY <3>1 DEF VestingRows
    <3>3. /\ now_fixed_by_pause(v, now) =< now_fixed_by_pause(v, now')
          /\ now_fixed_by_pause(v, now) \in Nat /\ now_fixed_by_pause(v, now') \in Nat
        BY <1>2, <3>1, <3>2, ClockAdvances, FixedNowType
    <3>4. AccrualOK(v, now')
        BY <3>1, <3>3, AccrualAdvances
    <3> QED BY <2>2, <3>4
  <2>3. CASE id \in Ids /\ now' = now /\ RowStep(v, w)
    <3>1. /\ v \in VestingRows /\ ClockOK(v, now) /\ AccrualOK(v, now) /\ w \in VestingRows
          /\ RowStep(v, w)
        BY <1>3, <1>4, <2>3
    <3> HIDE DEF v, w
    <3>2. AccrualOK(w, now)
        BY <1>2, <3>1, RowKeepsAccrual
    <3> QED BY <2>3, <3>2 DEF w
  <2> QED BY <1>1, <2>1, <2>2, <2>3, GrantAfterStep DEF Both, Ids
<1> QED BY <1>1, <1>5 DEF AccrualInv

\* It holds at first: there are no grants.
LEMMA AccrualInvInit == Init => AccrualInv
<1> SUFFICES ASSUME Init PROVE AccrualInv
    OBVIOUS
<1> QED BY ClockInvInit DEF AccrualInv, Init, Ids, EmptyTable

\* In every state what was paid of a grant is covered, whenever it may be cancelled.
THEOREM AccrualHolds == ASSUME RegularDates PROVE CarefulSpec => []AccrualInv
<1>1. AccrualInv /\ [CarefulNext]_vars => AccrualInv'
    BY AccrualInvStep
<1> QED BY <1>1, AccrualInvInit, PTL DEF CarefulSpec

\* Nobody is paid more than the grant, not even when it is cancelled after a part of
\* it was claimed.
THEOREM NeverOverpaid == ASSUME RegularDates PROVE CarefulSpec => []PaidWithinGrant
<1>1. AccrualInv => PaidWithinGrant
    BY DEF AccrualInv, AccrualOK, PaidWithinGrant
<1> QED BY <1>1, AccrualHolds, PTL

\* A cancel takes nothing that had vested by then.
THEOREM CancelTakesNothingVested == ASSUME RegularDates PROVE CarefulSpec => CancelKeepsVested
<1>1. AccrualInv /\ [CarefulNext]_vars =>
          [ \A id \in Both :
              cmkvestings'[id].end_date # cmkvestings[id].end_date =>
                  cmkvestings'[id].vesting_amount >= VestedNow(id) ]_vars
  <2> SUFFICES ASSUME AccrualInv, [CarefulNext]_vars, NEW id \in Both,
                      cmkvestings'[id].end_date # cmkvestings[id].end_date
               PROVE  cmkvestings'[id].vesting_amount >= VestedNow(id)
      OBVIOUS
  <2> DEFINE v == cmkvestings[id]
             w == cmkvestings'[id]
             f == now_fixed_by_pause(v, now)
  <2>1. /\ Inv /\ id \in Ids /\ now \in Nat
        /\ v \in VestingRows /\ v.vesting_period \in Periods
      BY DEF AccrualInv, AccrualOK, ClockInv, Inv, LedgerOK, GrantTable, Both, Ids
  <2>2. RowStep(v, w) /\ w.end_date # v.end_date
      BY <2>1, GrantAfterStep
  <2> HIDE DEF v, w
  <2>3. f \in Nat
      BY <2>1, FixedNowType DEF VestingRows
  <2>4. PICK end \in Dates :
            /\ f =< end
            /\ w = [v EXCEPT !.status = Cancelled, !.vesting_amount = Vested(v, end, f),
                             !.end_date = end]
      BY <2>1, <2>2 DEF RowStep, VestingRows
  <2> HIDE DEF f
  <2>5. w.vesting_amount = Vested(v, end, f)
      BY <2>1, <2>4 DEF VestingRows
  <2>6. /\ Vested(v, f, f) \in Nat /\ Vested(v, end, f) \in Nat
        /\ Vested(v, f, f) =< Vested(v, end, f)
      BY <2>1, <2>3, <2>4, CancelledRow
  <2>7. VestedNow(id) = Vested(v, f, f)
      BY DEF VestedNow, FixedNow, v, f
  <2> QED BY <2>5, <2>6, <2>7 DEF w
<1> QED BY <1>1, AccrualHolds, PTL DEF CarefulSpec, CancelKeepsVested

-----------------------------------------------------------------------------
(* What Self holds. *)

\* Of every asset Self holds what the books say it has.
Covered ==
    \A s \in DOMAIN cmkassets : cmkassets[s].asset_balance =< BookedBalance(accounts, s)

\* A transfer takes the quantity from its sender and gives it to its receiver, and
\* nobody else's balance moves, nor any in another token.
LEMMA TransferMoves ==
    ASSUME TokenTypeOK, NEW c \in Contracts, NEW from \in Accounts, NEW to \in Accounts,
           NEW s \in Symbols, NEW q \in Int, TokenTransfer(c, from, to, s, q)
    PROVE  /\ q > 0 /\ from # to
           /\ BalanceIn(accounts', c, from, s) = BalanceIn(accounts, c, from, s) - q
           /\ BalanceIn(accounts', c, to, s) = BalanceIn(accounts, c, to, s) + q
           /\ \A d, owner, t : <<d, owner, t>> \notin {<<c, from, s>>, <<c, to, s>>} =>
                  BalanceIn(accounts', d, owner, t) = BalanceIn(accounts, d, owner, t)
<1> DEFINE left == sub_balance(accounts, c, from, s, q)
           has  == BalanceIn(left, c, to, s)
<1>1. /\ from # to /\ q > 0 /\ <<c, from, s>> \in DOMAIN accounts
      /\ accounts' = Put(left, <<c, to, s>>, has + q)
    BY DEF TokenTransfer, CanTransfer, Covers, AfterTransfer, add_balance
<1>2. accounts[<<c, from, s>>] \in Nat
    BY <1>1 DEF TokenTypeOK
<1>3. /\ DOMAIN left = DOMAIN accounts /\ left[<<c, from, s>>] = accounts[<<c, from, s>>] - q
      /\ \A k \in DOMAIN accounts : k # <<c, from, s>> => left[k] = accounts[k]
    BY <1>1 DEF sub_balance
<1>4. <<c, from, s>> # <<c, to, s>>
    BY <1>1
<1>5. has = BalanceIn(accounts, c, to, s)
    BY <1>3, <1>4 DEF BalanceIn
<1> HIDE DEF left, has
<1>6. /\ DOMAIN accounts' = DOMAIN accounts \cup {<<c, to, s>>}
      /\ accounts'[<<c, to, s>>] = has + q
      /\ \A k \in DOMAIN accounts : k # <<c, to, s>> => accounts'[k] = left[k]
    BY <1>1, <1>3 DEF Put
<1>7. BalanceIn(accounts', c, from, s) = BalanceIn(accounts, c, from, s) - q
    BY <1>1, <1>3, <1>4, <1>6 DEF BalanceIn
<1>8. BalanceIn(accounts', c, to, s) = BalanceIn(accounts, c, to, s) + q
    BY <1>5, <1>6 DEF BalanceIn
<1>9. ASSUME NEW d, NEW owner, NEW t, <<d, owner, t>> \notin {<<c, from, s>>, <<c, to, s>>}
      PROVE  BalanceIn(accounts', d, owner, t) = BalanceIn(accounts, d, owner, t)
    BY <1>3, <1>6, <1>9 DEF BalanceIn
<1> QED BY <1>1, <1>7, <1>8, <1>9

\* What Self holds of an asset is a number.
LEMMA BookedType ==
    ASSUME TokenTypeOK, NEW s PROVE BookedBalance(accounts, s) \in Nat
BY DEF TokenTypeOK, BookedBalance, BalanceIn

\* MoveBalance writes one row, and never the contract it is registered with.
LEMMA MovedRows ==
    ASSUME BooksOK(cmkassets), NEW s, NEW asset_change \in Int, NEW unallocated_change \in Int,
           NEW balance, MoveBalance(s, asset_change, unallocated_change, balance)
    PROVE  /\ s \in DOMAIN cmkassets /\ DOMAIN cmkassets' = DOMAIN cmkassets
           /\ cmkassets'[s].asset_contract = cmkassets[s].asset_contract
           /\ cmkassets'[s].asset_balance = cmkassets[s].asset_balance + asset_change
           /\ cmkassets'[s].unallocated_balance
                = cmkassets[s].unallocated_balance + unallocated_change
           /\ \A k \in DOMAIN cmkassets : k # s => cmkassets'[k] = cmkassets[k]
           /\ \A k \in DOMAIN cmkassets : cmkassets[k].asset_balance \in Nat
<1> DEFINE row == [cmkassets[s] EXCEPT
                      !.asset_balance = @ + asset_change,
                      !.unallocated_balance = @ + unallocated_change]
<1>1. s \in DOMAIN cmkassets /\ cmkassets[s] \in AssetRows
    BY DEF MoveBalance, BooksOK
<1>2. cmkassets' = [cmkassets EXCEPT ![s] = row]
    BY DEF MoveBalance
<1>3. /\ row.asset_balance = cmkassets[s].asset_balance + asset_change
      /\ row.unallocated_balance = cmkassets[s].unallocated_balance + unallocated_change
      /\ row.asset_contract = cmkassets[s].asset_contract
    BY <1>1 DEF AssetRows
<1> HIDE DEF row
<1>4. \A k \in DOMAIN cmkassets : cmkassets[k].asset_balance \in Nat
    BY DEF BooksOK, AssetRows
<1> QED BY <1>1, <1>2, <1>3, <1>4

\* A payment takes as much from the balance of Self as from the books of the symbol.
LEMMA PaymentCovered ==
    ASSUME Inv, Covered, NEW s, NEW q \in Int, q > 0, NEW to \in Accounts, NEW change \in Int,
           NEW balance, MoveBalance(s, -q, change, balance), PayOut(to, s, q)
    PROVE  Covered'
<1> DEFINE c == cmkassets[s].asset_contract
<1>1. /\ s \in DOMAIN cmkassets /\ s \in Symbols /\ c \in Contracts /\ TokenTypeOK
      /\ TokenTransfer(c, Self, to, s, q)
    BY DEF MoveBalance, PayOut, Inv, LedgerOK, BooksOK, AssetRows
<1>2. /\ DOMAIN cmkassets' = DOMAIN cmkassets
      /\ \A k \in DOMAIN cmkassets :
             /\ cmkassets[k].asset_balance \in Nat
             /\ cmkassets'[k].asset_contract = cmkassets[k].asset_contract
             /\ k # s => cmkassets'[k].asset_balance = cmkassets[k].asset_balance
      /\ cmkassets'[s].asset_balance = cmkassets[s].asset_balance - q
  <2>1. BooksOK(cmkassets) /\ -q \in Int
      BY DEF Inv, LedgerOK
  <2>2. /\ s \in DOMAIN cmkassets /\ DOMAIN cmkassets' = DOMAIN cmkassets
        /\ cmkassets'[s].asset_contract = cmkassets[s].asset_contract
        /\ cmkassets'[s].asset_balance = cmkassets[s].asset_balance + (-q)
        /\ \A k \in DOMAIN cmkassets : k # s => cmkassets'[k] = cmkassets[k]
        /\ \A k \in DOMAIN cmkassets : cmkassets[k].asset_balance \in Nat
      BY <2>1, MovedRows
  <2> QED BY <2>2
<1> HIDE DEF c
<1>3. /\ BalanceIn(accounts', c, Self, s) = BalanceIn(accounts, c, Self, s) - q
      /\ \A d, t : t # s => BalanceIn(accounts', d, Self, t) = BalanceIn(accounts, d, Self, t)
    BY <1>1, TransferMoves, VestingAssumption
<1>4. ASSUME NEW k \in DOMAIN cmkassets
      PROVE  cmkassets'[k].asset_balance =< BalanceIn(accounts', cmkassets[k].asset_contract, Self, k)
  <2>1. /\ BookedBalance(accounts, k) \in Nat
        /\ cmkassets[k].asset_balance =< BookedBalance(accounts, k)
      BY <1>1, BookedType DEF Covered
  <2>2. CASE k = s
      BY <1>2, <1>3, <2>1, <2>2 DEF BookedBalance, c
  <2>3. CASE k # s
      BY <1>2, <1>3, <2>1, <2>3 DEF BookedBalance
  <2> QED BY <2>2, <2>3
<1> QED BY <1>2, <1>4 DEF Covered, BookedBalance

\* Nothing that other accounts issue, retire, open or close is a balance of Self.
LEMMA TokenStepSpares ==
    ASSUME TokenStep, NEW c, NEW s
    PROVE  BalanceIn(accounts', c, Self, s) = BalanceIn(accounts, c, Self, s)
<1>1. PICK d \in Contracts, t \in Symbols, user \in TokenUsers :
          \/ \E q : Create(d, user, t, q) \/ Issue(d, user, t, q) \/ Retire(d, user, t, q)
          \/ Open(d, user, t)
          \/ Close(d, user, t)
    BY DEF TokenStep
<1>2. <<c, Self, s>> # <<d, user, t>>
    BY CarefulAssumption
<1> QED BY <1>1, <1>2 DEF Create, Issue, Retire, Open, Close, add_balance, sub_balance, Put,
                          Erase, BalanceIn

\* Every step keeps what Self holds at least what the books say.
LEMMA CoveredStep == Inv /\ Covered /\ [CarefulNext]_vars => Covered'
<1> SUFFICES ASSUME Inv, Covered, [CarefulNext]_vars PROVE Covered'
    OBVIOUS
<1>1. /\ TokenTypeOK /\ BooksOK(cmkassets) /\ now \in Nat /\ LedgerOK(cmkassets, cmkvestings)
    BY DEF Inv, LedgerOK
<1>2. \A k \in DOMAIN cmkassets : /\ cmkassets[k].asset_balance \in Nat
                                  /\ BookedBalance(accounts, k) \in Nat
    BY <1>1, BookedType DEF BooksOK, AssetRows
<1>3. ASSUME NEW s, NEW change \in Int, NEW balance, MoveBalance(s, 0, change, balance),
             accounts' = accounts
      PROVE  Covered'
  <2>1. /\ s \in DOMAIN cmkassets /\ DOMAIN cmkassets' = DOMAIN cmkassets
        /\ cmkassets'[s].asset_contract = cmkassets[s].asset_contract
        /\ cmkassets'[s].asset_balance = cmkassets[s].asset_balance + 0
        /\ \A k \in DOMAIN cmkassets : k # s => cmkassets'[k] = cmkassets[k]
      BY <1>1, <1>3, MovedRows
  <2> QED BY <1>2, <1>3, <2>1 DEF Covered, BookedBalance
<1>4. CASE TokenStep
  <2>1. cmkassets' = cmkassets
      BY <1>4 DEF TokenStep
  <2> QED BY <1>4, <2>1, TokenStepSpares DEF Covered, BookedBalance
<1>5. ASSUME NEW c \in Contracts, NEW s \in Symbols, AddAsset(c, s) PROVE Covered'
  <2> DEFINE row == [asset_contract |-> c, asset_balance |-> 0, unallocated_balance |-> 0]
  <2>1. /\ accounts' = accounts /\ s \notin DOMAIN cmkassets /\ cmkassets' = Put(cmkassets, s, row)
      BY <1>5 DEF AddAsset
  <2>2. row.asset_balance = 0
      OBVIOUS
  <2> HIDE DEF row
  <2>3. /\ DOMAIN cmkassets' = DOMAIN cmkassets \cup {s} /\ cmkassets'[s] = row
        /\ \A k \in DOMAIN cmkassets : cmkassets'[k] = cmkassets[k]
      BY <2>1 DEF Put
  <2>4. BalanceIn(accounts, row.asset_contract, Self, s) \in Nat
      BY <1>1 DEF TokenTypeOK, BalanceIn
  <2> QED BY <2>1, <2>2, <2>3, <2>4 DEF Covered, BookedBalance
<1>6. CASE CarefulTransferStep
  <2>1. PICK c \in Contracts, s \in Symbols, from \in Accounts \ {Self}, to \in Accounts,
             q \in Int, memo \in Memos, signers \in SUBSET Accounts :
            Transfer(c, signers, from, to, s, q, memo)
      BY <1>6, VestingAssumption DEF CarefulTransferStep
  <2>2. TokenTransfer(c, from, to, s, q)
      BY <2>1 DEF Transfer
  <2>3. /\ q > 0
        /\ BalanceIn(accounts', c, to, s) = BalanceIn(accounts, c, to, s) + q
        /\ \A d, owner, t : <<d, owner, t>> \notin {<<c, from, s>>, <<c, to, s>>} =>
               BalanceIn(accounts', d, owner, t) = BalanceIn(accounts, d, owner, t)
      BY <1>1, <2>1, <2>2, TransferMoves
  <2>4. \A d, t : \/ BalanceIn(accounts', d, Self, t) = BalanceIn(accounts, d, Self, t)
                  \/ BalanceIn(accounts', d, Self, t) = BalanceIn(accounts, d, Self, t) + q
      BY <2>1, <2>3
  <2>5. ASSUME NEW k \in DOMAIN cmkassets
        PROVE  cmkassets[k].asset_balance =< BookedBalance(accounts', k)
      BY <1>2, <2>3, <2>4 DEF Covered, BookedBalance
  <2>6. CASE UNCHANGED cmkassets
      BY <2>5, <2>6 DEF Covered, BookedBalance
  <2>7. CASE to = Self /\ deposit(c, signers, s, q)
    <3>1. /\ MoveBalance(s, q, q, BookedBalance(accounts', s)) /\ cmkassets[s].asset_contract = c
        BY <2>7 DEF deposit
    <3>2. /\ s \in DOMAIN cmkassets /\ DOMAIN cmkassets' = DOMAIN cmkassets
          /\ cmkassets'[s].asset_contract = cmkassets[s].asset_contract
          /\ cmkassets'[s].asset_balance = cmkassets[s].asset_balance + q
          /\ \A k \in DOMAIN cmkassets : k # s => cmkassets'[k] = cmkassets[k]
        BY <1>1, <3>1, MovedRows
    <3>3. BookedBalance(accounts', s) = BookedBalance(accounts, s) + q
        BY <2>3, <2>7, <3>1 DEF BookedBalance
    <3>4. cmkassets[s].asset_balance =< BookedBalance(accounts, s)
        BY <3>2 DEF Covered
    <3>5. cmkassets'[s].asset_balance =< BookedBalance(accounts', s)
        BY <1>2, <3>2, <3>3, <3>4
    <3> QED BY <2>5, <3>2, <3>5 DEF Covered, BookedBalance
  <2> QED BY <2>1, <2>6, <2>7 DEF Transfer, on_transfer
<1>7. CASE CarefulWithdrawStep
  <2>1. PICK s \in Symbols, to \in Accounts, q \in Int : q > 0 /\ Withdraw(to, s, q)
      BY <1>7, VestingAssumption DEF CarefulWithdrawStep
  <2>2. MoveBalance(s, -q, -q, BookedBalance(accounts, s)) /\ PayOut(to, s, q) /\ -q \in Int
      BY <2>1 DEF Withdraw
  <2> QED BY <2>1, <2>2, PaymentCovered
<1>8. CASE AddStep
  <2>1. PICK amount \in Int, s \in Symbols :
            /\ MoveBalance(s, 0, -amount, BookedBalance(accounts, s))
            /\ accounts' = accounts
      BY <1>8, VestingAssumption DEF AddStep, AddVesting
  <2>2. -amount \in Int
      OBVIOUS
  <2> QED BY <1>3, <2>1, <2>2
<1>9. ASSUME NEW id \in Ids, Claim(id) PROVE Covered'
  <2> DEFINE v == cmkvestings[id]
             quantity == Claimable(v, FixedNow(id))
  <2>1. v.account_id \in Accounts /\ v.vested_amount \in Nat /\ v.vesting_amount \in Nat
      BY <1>1 DEF LedgerOK, GrantTable, Ids, VestingRows
  <2>2. Vested(v, FixedNow(id), FixedNow(id)) \in Int
      BY <1>1, <2>1, GrantSums DEF LedgerOK
  <2>3. quantity \in Int
      BY <2>1, <2>2 DEF Claimable
  <2>4. /\ quantity > 0
        /\ MoveBalance(v.symbol, -quantity, 0, BookedBalance(accounts, v.symbol))
        /\ PayOut(v.account_id, v.symbol, quantity)
      BY <1>9 DEF Claim
  <2> HIDE DEF quantity
  <2> QED BY <2>1, <2>3, <2>4, PaymentCovered
<1>10. ASSUME NEW id \in Ids, NEW t \in Dates, CancelVesting(id, t) PROVE Covered'
  <2> DEFINE v == cmkvestings[id]
             left == v.vesting_amount - Vested(v, t, FixedNow(id))
  <2>1. v.vesting_amount \in Nat
      BY <1>1 DEF LedgerOK, GrantTable, Ids, VestingRows
  <2>2. Vested(v, t, FixedNow(id)) \in Int
      BY <1>1, <2>1, GrantSums, VestingAssumption DEF LedgerOK
  <2>3. left \in Int
      BY <2>1, <2>2
  <2>4. /\ accounts' = accounts
        /\ \/ MoveBalance(v.symbol, 0, left, BookedBalance(accounts, v.symbol))
           \/ UNCHANGED cmkassets
      BY <1>10 DEF CancelVesting
  <2> HIDE DEF left
  <2>5. CASE UNCHANGED cmkassets
      BY <2>4, <2>5 DEF Covered, BookedBalance
  <2> QED BY <1>3, <2>3, <2>4, <2>5
<1>11. ASSUME NEW id \in Ids, NEW t,
              RemoveVesting(id) \/ PauseVesting(id, t) \/ UnpauseVestng(id, t)
       PROVE  Covered'
    BY <1>11 DEF RemoveVesting, PauseVesting, UnpauseVestng, Covered, BookedBalance
<1>12. ASSUME NEW id \in Ids, CarefulGrantStep(id) PROVE Covered'
    BY <1>9, <1>10, <1>11, <1>12 DEF CarefulGrantStep
<1>13. CASE (\E t \in Times : Tick(t)) \/ UNCHANGED vars
    BY <1>13 DEF Tick, vars, Covered, BookedBalance
<1> QED BY <1>4, <1>5, <1>6, <1>7, <1>8, <1>12, <1>13 DEF CarefulNext

\* On the contract each asset is registered with, Self always holds what the books
\* say it has: no payment is ever refused for want of tokens, and tokens of another
\* contract are never booked.
THEOREM AlwaysCovered == CarefulSpec => []Covered
<1>1. Init => Covered
    BY DEF Init, Covered, EmptyTable
<1>2. Inv /\ Covered /\ [CarefulNext]_vars => Covered'
    BY CoveredStep
<1> QED BY <1>1, <1>2, CarefulInvHolds, PTL DEF CarefulSpec

\* What is owed together is not negative when nobody was paid too much.
LEMMA OwedNotNegative ==
    ASSUME NEW table, GrantTable(table), NEW s,
           \A id \in DOMAIN table : table[id].vested_amount =< table[id].vesting_amount
    PROVE  Owed(table, s) >= 0
<1>1. Due(table, s) \in [Nat -> Int] /\ available_primary_key(table) \in Nat
    BY DueType
<1>2. \A id \in DOMAIN table : table[id].vesting_amount - table[id].vested_amount >= 0
    BY DEF GrantTable, VestingRows
<1>3. \A i \in Nat : Due(table, s)[i] >= 0
    BY <1>2 DEF Due
<1> QED BY <1>1, <1>3, SumOfNats DEF Owed

\* Self holds what the books say, and the books hold all that is promised: the
\* assertions assets_move_balance starts with never fail.
THEOREM AlwaysBacked == ASSUME RegularDates PROVE CarefulSpec => []Backed
<1>1. ASSUME Inv, Covered, PaidWithinGrant PROVE Backed
  <2>1. ASSUME NEW s \in DOMAIN cmkassets
        PROVE  cmkassets[s].unallocated_balance =< cmkassets[s].asset_balance
    <3>1. Promised(cmkassets, s) = Owed(cmkvestings, s)
        BY <1>1 DEF Inv, LedgerOK
    <3>2. Owed(cmkvestings, s) >= 0
        BY <1>1, OwedNotNegative DEF Inv, LedgerOK, PaidWithinGrant, Ids
    <3>3. cmkassets[s].asset_balance \in Nat /\ cmkassets[s].unallocated_balance \in Nat
        BY <1>1 DEF Inv, LedgerOK, BooksOK, AssetRows
    <3> QED BY <3>1, <3>2, <3>3 DEF Promised
  <2> QED BY <1>1, <2>1 DEF Backed, Covered
<1>2. Inv /\ Covered /\ PaidWithinGrant => Backed
    BY <1>1
<1> QED BY <1>2, CarefulInvHolds, AlwaysCovered, NeverOverpaid, PTL

-----------------------------------------------------------------------------
(* The contract is an escrow. *)

\* What the escrow sees of the contract.
Vault(books) == [s \in DOMAIN books |-> books[s].asset_balance]
Free(books)  == [s \in DOMAIN books |-> books[s].unallocated_balance]

PromiseOf(v) == [to     |-> v.account_id,
                 symbol |-> v.symbol,
                 owed   |-> v.vesting_amount - v.vested_amount,
                 open   |-> v.status # Cancelled]

PromisesIn(grants) == [id \in DOMAIN grants |-> PromiseOf(grants[id])]

\* Moving the books of a symbol moves what the escrow holds of it, and what is free.
LEMMA EscrowBooks ==
    ASSUME BooksOK(cmkassets), NEW s, NEW asset_change \in Int, NEW unallocated_change \in Int,
           NEW balance, MoveBalance(s, asset_change, unallocated_change, balance)
    PROVE  /\ s \in DOMAIN Vault(cmkassets) /\ s \in DOMAIN Free(cmkassets) /\ s \in Symbols
           /\ Vault(cmkassets)[s] \in Nat /\ Free(cmkassets)[s] \in Nat
           /\ Free(cmkassets)[s] + unallocated_change >= 0
           /\ Vault(cmkassets') = [Vault(cmkassets) EXCEPT ![s] = @ + asset_change]
           /\ Free(cmkassets') = [Free(cmkassets) EXCEPT ![s] = @ + unallocated_change]
           /\ asset_change = 0 => Vault(cmkassets') = Vault(cmkassets)
           /\ unallocated_change = 0 => Free(cmkassets') = Free(cmkassets)
<1>1. /\ s \in DOMAIN cmkassets /\ DOMAIN cmkassets' = DOMAIN cmkassets
      /\ cmkassets'[s].asset_balance = cmkassets[s].asset_balance + asset_change
      /\ cmkassets'[s].unallocated_balance
           = cmkassets[s].unallocated_balance + unallocated_change
      /\ \A k \in DOMAIN cmkassets : k # s => cmkassets'[k] = cmkassets[k]
    BY MovedRows
<1>2. /\ s \in Symbols /\ cmkassets[s].asset_balance \in Nat
      /\ cmkassets[s].unallocated_balance \in Nat
    BY <1>1 DEF BooksOK, AssetRows
<1>3. cmkassets[s].unallocated_balance + unallocated_change >= 0
    BY <1>2 DEF MoveBalance
<1>4. Vault(cmkassets') = [Vault(cmkassets) EXCEPT ![s] = @ + asset_change]
    BY <1>1 DEF Vault
<1>5. Free(cmkassets') = [Free(cmkassets) EXCEPT ![s] = @ + unallocated_change]
    BY <1>1 DEF Free
<1>6. asset_change = 0 => Vault(cmkassets') = Vault(cmkassets)
    BY <1>1, <1>2 DEF Vault
<1>7. unallocated_change = 0 => Free(cmkassets') = Free(cmkassets)
    BY <1>1, <1>2 DEF Free
<1> QED BY <1>1, <1>2, <1>3, <1>4, <1>5, <1>6, <1>7 DEF Vault, Free

\* Rewriting one grant rewrites one promise.
LEMMA EscrowPromise ==
    ASSUME NEW id \in Ids, cmkvestings' = [cmkvestings EXCEPT ![id] = cmkvestings'[id]]
    PROVE  /\ DOMAIN PromisesIn(cmkvestings') = Ids /\ DOMAIN PromisesIn(cmkvestings) = Ids
           /\ PromisesIn(cmkvestings')
                = [PromisesIn(cmkvestings) EXCEPT ![id] = PromiseOf(cmkvestings'[id])]
           /\ available_primary_key(cmkvestings') = available_primary_key(cmkvestings)
<1>1. DOMAIN cmkvestings' = Ids
    BY DEF Ids
<1>2. available_primary_key(cmkvestings') = available_primary_key(cmkvestings)
    BY <1>1, SameKeys DEF Ids
<1> QED BY <1>1, <1>2 DEF PromisesIn, Ids

\* A step that leaves the books, and every grant its party, its symbol, what is due
\* of it and whether it is cancelled, is none of the escrow.
LEMMA EscrowStutters ==
    ASSUME cmkassets' = cmkassets, PromisesIn(cmkvestings') = PromisesIn(cmkvestings),
           available_primary_key(cmkvestings') = available_primary_key(cmkvestings)
    PROVE  UNCHANGED Contract!vars
BY DEF Contract!vars, PromisesIn, PromiseOf, Ids

\* addasset registers a symbol.
LEMMA AddAssetEscrow ==
    ASSUME NEW c \in Contracts, NEW s \in Symbols, AddAsset(c, s)
    PROVE  Contract!Register(s)
<1> DEFINE row == [asset_contract |-> c, asset_balance |-> 0, unallocated_balance |-> 0]
<1>1. /\ s \notin DOMAIN cmkassets /\ cmkassets' = Put(cmkassets, s, row)
      /\ cmkvestings' = cmkvestings
    BY DEF AddAsset
<1>2. row.asset_balance = 0 /\ row.unallocated_balance = 0
    OBVIOUS
<1> HIDE DEF row
<1>3. /\ DOMAIN cmkassets' = DOMAIN cmkassets \cup {s} /\ cmkassets'[s] = row
      /\ \A k \in DOMAIN cmkassets : cmkassets'[k] = cmkassets[k]
    BY <1>1 DEF Put
<1>4. /\ s \notin DOMAIN Vault(cmkassets)
      /\ Vault(cmkassets') = Put(Vault(cmkassets), s, 0)
    BY <1>1, <1>2, <1>3 DEF Vault, Put
<1>5. Free(cmkassets') = Put(Free(cmkassets), s, 0)
    BY <1>1, <1>2, <1>3 DEF Free, Put
<1> QED BY <1>1, <1>4, <1>5 DEF Contract!Register, Contract!Put, Put, Vault, Free, Ids

\* Deposits and withdrawals fund it.
LEMMA FundEscrow ==
    ASSUME BooksOK(cmkassets), NEW s, NEW q \in Int, NEW balance, MoveBalance(s, q, q, balance),
           cmkvestings' = cmkvestings
    PROVE  s \in Symbols /\ Contract!Fund(s, q)
<1>1. /\ s \in DOMAIN Vault(cmkassets) /\ s \in Symbols
      /\ Free(cmkassets)[s] + q >= 0
      /\ Vault(cmkassets') = [Vault(cmkassets) EXCEPT ![s] = @ + q]
      /\ Free(cmkassets') = [Free(cmkassets) EXCEPT ![s] = @ + q]
    BY EscrowBooks
<1> QED BY <1>1 DEF Contract!Fund, Vault, Free, Ids

\* addvesting promises the amount.
LEMMA AddVestingEscrow ==
    ASSUME Inv, NEW account \in Accounts, NEW period, NEW s \in Symbols, NEW amount \in Int,
           NEW cliff, NEW weight, NEW start, NEW end, NEW pause_time,
           AddVesting(account, period, s, amount, cliff, weight, start, end, pause_time)
    PROVE  Contract!Promise(account, s, amount)
<1> DEFINE key == available_primary_key(cmkvestings)
           row == [account_id |-> account, vesting_period |-> period, symbol |-> s,
                   vesting_amount |-> amount, vested_amount |-> 0,
                   cliff_date |-> IF weight = 0 THEN start ELSE cliff,
                   cliff_weight |-> weight, end_date |-> end,
                   status |-> Active, pause_start |-> 0, pause_time |-> pause_time]
           promise == [to |-> account, symbol |-> s, owed |-> amount, open |-> TRUE]
<1>1. /\ amount > 0 /\ MoveBalance(s, 0, -amount, BookedBalance(accounts, s))
      /\ key < MaxVestings /\ cmkvestings' = Put(cmkvestings, key, row)
    BY DEF AddVesting
<1>2. PromiseOf(row) = promise
  <2>1. /\ row.account_id = account /\ row.symbol = s
        /\ row.vesting_amount - row.vested_amount = amount
        /\ row.status = Active
      OBVIOUS
  <2>2. (Active # Cancelled) = TRUE
      BY DEF Active, Cancelled
  <2> HIDE DEF row
  <2> QED BY <2>1, <2>2, Zenon DEF PromiseOf
<1> HIDE DEF row, promise
<1>3. available_primary_key(cmkvestings') = key + 1
    BY <1>1, PutNext, VestingAssumption DEF Inv, LedgerOK, GrantTable
<1> HIDE DEF key
<1>4. PromisesIn(cmkvestings') = Put(PromisesIn(cmkvestings), key, promise)
    BY <1>1, <1>2 DEF PromisesIn, Put
<1>5. BooksOK(cmkassets) /\ 0 \in Int /\ -amount \in Int
    BY DEF Inv, LedgerOK
<1>6. /\ s \in DOMAIN Free(cmkassets) /\ Free(cmkassets)[s] \in Nat
      /\ Free(cmkassets)[s] + (-amount) >= 0
      /\ Free(cmkassets') = [Free(cmkassets) EXCEPT ![s] = @ + (-amount)]
      /\ Vault(cmkassets') = Vault(cmkassets)
    BY <1>1, <1>5, EscrowBooks
<1>7. amount =< Free(cmkassets)[s]
    BY <1>6
<1>8. Free(cmkassets') = [Free(cmkassets) EXCEPT ![s] = @ - amount]
  <2>1. Free(cmkassets)[s] + (-amount) = Free(cmkassets)[s] - amount
      BY <1>6
  <2> QED BY <1>6, <2>1
<1> QED BY <1>1, <1>3, <1>4, <1>6, <1>7, <1>8
        DEF Contract!Promise, Contract!Put, Put, Vault, Free, PromisesIn, PromiseOf, Ids, key, promise

\* removevesting forgets a promise that is kept.
LEMMA RemoveEscrow ==
    ASSUME Inv, NEW id \in Ids, RemoveVesting(id)
    PROVE  Contract!Forget(id)
<1>1. /\ cmkassets' = cmkassets /\ cmkvestings' = Erase(cmkvestings, id)
      /\ cmkvestings[id].vesting_amount = cmkvestings[id].vested_amount
      /\ id + 1 < available_primary_key(cmkvestings)
    BY DEF RemoveVesting
<1>2. available_primary_key(cmkvestings') = available_primary_key(cmkvestings)
    BY <1>1, EraseInner, VestingAssumption DEF Inv, LedgerOK, GrantTable, Ids
<1>3. PromisesIn(cmkvestings') = Erase(PromisesIn(cmkvestings), id)
    BY <1>1 DEF PromisesIn, Erase
<1>4. PromisesIn(cmkvestings)[id].owed = 0
    BY <1>1 DEF PromisesIn, PromiseOf, Inv, LedgerOK, GrantTable, VestingRows, Ids
<1> QED BY <1>1, <1>2, <1>3, <1>4 DEF Contract!Forget, Contract!Erase, Erase, PromisesIn, PromiseOf, Ids

\* pausevesting and unpausevestng are none of its business.
LEMMA PauseEscrow ==
    ASSUME Inv, NEW id \in Ids, NEW t, PauseVesting(id, t) \/ UnpauseVestng(id, t)
    PROVE  UNCHANGED Contract!vars
<1> DEFINE v == cmkvestings[id]
           w == cmkvestings'[id]
<1>1. cmkassets' = cmkassets /\ cmkvestings' = [cmkvestings EXCEPT ![id] = w]
    BY DEF PauseVesting, UnpauseVestng, Ids
<1>2. /\ w.account_id = v.account_id /\ w.symbol = v.symbol
      /\ w.vesting_amount = v.vesting_amount /\ w.vested_amount = v.vested_amount
      /\ v.status # Cancelled /\ w.status # Cancelled
  <2>1. v \in VestingRows
      BY DEF Inv, LedgerOK, GrantTable, Ids
  <2>2. CASE PauseVesting(id, t)
    <3>1. v.status = Active /\ w = [v EXCEPT !.status = Paused, !.pause_start = t]
        BY <2>2 DEF PauseVesting, Ids
    <3> HIDE DEF v, w
    <3> QED BY <2>1, <3>1 DEF VestingRows, Active, Paused, Cancelled
  <2>3. CASE UnpauseVestng(id, t)
    <3>1. v.status = Paused /\ \E total : w = [v EXCEPT !.status = Active, !.pause_time = total]
        BY <2>3 DEF UnpauseVestng, Ids
    <3> HIDE DEF v, w
    <3> QED BY <2>1, <3>1 DEF VestingRows, Active, Paused, Cancelled
  <2> QED BY <2>2, <2>3
<1>3. PromiseOf(w) = PromiseOf(v)
  <2> HIDE DEF v, w
  <2>1. (w.status # Cancelled) = (v.status # Cancelled)
      BY <1>2
  <2> QED BY <1>2, <2>1, Zenon DEF PromiseOf
<1>4. PromisesIn(cmkvestings)[id] = PromiseOf(v)
    BY DEF PromisesIn, Ids
<1>5. /\ PromisesIn(cmkvestings') = [PromisesIn(cmkvestings) EXCEPT ![id] = PromiseOf(w)]
      /\ available_primary_key(cmkvestings') = available_primary_key(cmkvestings)
    BY <1>1, EscrowPromise
<1>6. PromisesIn(cmkvestings') = PromisesIn(cmkvestings)
    BY <1>3, <1>4, <1>5 DEF PromisesIn
<1> QED BY <1>1, <1>5, <1>6, EscrowStutters

\* A claim pays a part of the promise, or all that is left of it.
LEMMA ClaimEscrow ==
    ASSUME Inv, NEW id \in Ids, Claim(id)
    PROVE  \E q \in 1 .. PromisesIn(cmkvestings)[id].owed : Contract!Pay(id, q)
<1> DEFINE v == cmkvestings[id]
           q == Claimable(v, FixedNow(id))
           status == IF v.vesting_amount = v.vested_amount + q THEN Cancelled ELSE v.status
           w == [v EXCEPT !.vested_amount = v.vested_amount + q, !.status = status]
           p == PromiseOf(v)
<1>1. /\ q > 0 /\ MoveBalance(v.symbol, -q, 0, BookedBalance(accounts, v.symbol))
      /\ cmkvestings' = [cmkvestings EXCEPT ![id] = w]
    BY DEF Claim
<1>2. v \in VestingRows /\ v.vesting_amount \in Nat /\ v.vested_amount \in Nat
    BY DEF Inv, LedgerOK, GrantTable, Ids, VestingRows
<1>3. q \in Nat /\ q =< v.vesting_amount - v.vested_amount
  <2>1. Vested(v, FixedNow(id), FixedNow(id)) \in 0 .. v.vesting_amount
      BY GrantSums DEF Inv, LedgerOK
  <2> QED BY <1>1, <1>2, <2>1 DEF Claimable
<1> HIDE DEF q
<1>4. cmkvestings'[id] = w
    BY <1>1 DEF Ids
<1>5. /\ p.owed = v.vesting_amount - v.vested_amount /\ p.symbol = v.symbol
      /\ p.to = v.account_id
      /\ p.open = (v.status # Cancelled)
    BY DEF PromiseOf
<1>6. PromiseOf(w) = [p EXCEPT !.owed = @ - q, !.open = @ /\ q < p.owed]
  <2>1. /\ w.account_id = v.account_id /\ w.symbol = v.symbol
        /\ w.vesting_amount = v.vesting_amount /\ w.vested_amount = v.vested_amount + q
        /\ w.status = status
      BY <1>2 DEF VestingRows
  <2>2. w.vesting_amount - w.vested_amount = p.owed - q
      BY <1>2, <1>3, <1>5, <2>1
  <2>3. (w.status # Cancelled) = (p.open /\ q < p.owed)
    <3>1. q < p.owed <=> v.vesting_amount # v.vested_amount + q
        BY <1>2, <1>3, <1>5
    <3>2. w.status # Cancelled <=> v.status # Cancelled /\ v.vesting_amount # v.vested_amount + q
        BY <2>1
    <3>3. p.open <=> v.status # Cancelled
        BY <1>5
    <3> HIDE DEF v, w, p
    <3> QED BY <3>1, <3>2, <3>3, Zenon
  <2>4. PromiseOf(w) = [to |-> w.account_id, symbol |-> w.symbol,
                        owed |-> w.vesting_amount - w.vested_amount, open |-> w.status # Cancelled]
      BY DEF PromiseOf
  <2>5. [p EXCEPT !.owed = p.owed - q, !.open = p.open /\ q < p.owed]
          = [to |-> v.account_id, symbol |-> v.symbol,
             owed |-> p.owed - q, open |-> p.open /\ q < p.owed]
    <3> DEFINE owed == p.owed - q
               open == p.open /\ q < p.owed
               part == [to |-> v.account_id, symbol |-> v.symbol, owed |-> owed, open |-> p.open]
    <3>1. p = [to |-> v.account_id, symbol |-> v.symbol, owed |-> p.owed, open |-> p.open]
        BY DEF PromiseOf
    <3> HIDE DEF v, w, p, owed, open
    <3>2. [p EXCEPT !.owed = owed, !.open = open] = [[p EXCEPT !.owed = owed] EXCEPT !.open = open]
        BY <3>1
    <3>3. [p EXCEPT !.owed = owed] = part
        BY <3>1
    <3>4. [part EXCEPT !.open = open]
            = [to |-> v.account_id, symbol |-> v.symbol, owed |-> owed, open |-> open]
        OBVIOUS
    <3> HIDE DEF part
    <3>5. [p EXCEPT !.owed = owed, !.open = open]
            = [to |-> v.account_id, symbol |-> v.symbol, owed |-> owed, open |-> open]
        BY <3>2, <3>3, <3>4
    <3> QED BY <3>5 DEF owed, open
  <2> HIDE DEF v, w, p, status
  <2> QED BY <2>1, <2>2, <2>3, <2>4, <2>5
<1>7. PromisesIn(cmkvestings)[id] = p
    BY DEF PromisesIn, Ids
<1>8. /\ PromisesIn(cmkvestings') = [PromisesIn(cmkvestings) EXCEPT ![id] = PromiseOf(w)]
      /\ available_primary_key(cmkvestings') = available_primary_key(cmkvestings)
    BY <1>1, <1>4, EscrowPromise
<1> HIDE DEF w, p
<1>9. PromisesIn(cmkvestings')
        = [PromisesIn(cmkvestings) EXCEPT ![id].owed = @ - q, ![id].open = @ /\ q < p.owed]
    BY <1>6, <1>7, <1>8
<1>10. BooksOK(cmkassets) /\ -q \in Int /\ 0 \in Int
    BY <1>3 DEF Inv, LedgerOK
<1>11. /\ Vault(cmkassets') = [Vault(cmkassets) EXCEPT ![v.symbol] = @ + (-q)]
       /\ Vault(cmkassets)[v.symbol] \in Nat /\ Free(cmkassets') = Free(cmkassets)
    BY <1>1, <1>10, EscrowBooks
<1>12. Vault(cmkassets') = [Vault(cmkassets) EXCEPT ![v.symbol] = @ - q]
  <2>1. Vault(cmkassets)[v.symbol] + (-q) = Vault(cmkassets)[v.symbol] - q
      BY <1>3, <1>11
  <2> QED BY <1>11, <2>1
<1>13. q \in 1 .. PromisesIn(cmkvestings)[id].owed
    BY <1>1, <1>2, <1>3, <1>5, <1>7
<1>14. Contract!Pay(id, q)
    BY <1>5, <1>7, <1>8, <1>9, <1>11, <1>12
       DEF Contract!Pay, Vault, Free, PromisesIn, PromiseOf, Ids, p
<1> QED BY <1>13, <1>14, Zenon DEF Contract!Pay

\* A cancel releases what has not vested of it, which is not more than is left.
LEMMA CancelEscrow ==
    ASSUME RegularDates, AccrualInv, NEW id \in Ids, NEW t \in Dates, CancelVesting(id, t)
    PROVE  \E q \in 0 .. PromisesIn(cmkvestings)[id].owed : Contract!Release(id, q)
<1> DEFINE v == cmkvestings[id]
           f == now_fixed_by_pause(v, now)
           vesting == Vested(v, t, f)
           w == [v EXCEPT !.status = Cancelled, !.vesting_amount = vesting, !.end_date = t]
           q == v.vesting_amount - vesting
           p == PromiseOf(v)
           r == PromiseOf(w)
<1>1. /\ t >= f /\ v.status \in {Active, Paused}
      /\ cmkvestings' = [cmkvestings EXCEPT ![id] = w]
      /\ IF vesting < v.vesting_amount
         THEN MoveBalance(v.symbol, 0, q, BookedBalance(accounts, v.symbol))
         ELSE UNCHANGED cmkassets
    BY DEF CancelVesting, CanCancel, FixedNow
<1>2. /\ Inv /\ now \in Nat /\ v \in VestingRows /\ AccrualOK(v, now)
      /\ v.vesting_amount \in Nat /\ v.vested_amount \in Nat
      /\ v.symbol \in DOMAIN cmkassets
    BY DEF AccrualInv, ClockInv, Inv, LedgerOK, GrantTable, Ids, VestingRows
<1> HIDE DEF v
<1>3. f \in Nat /\ t \in Nat /\ f =< t /\ v.status # Cancelled
    BY <1>1, <1>2, FixedNowType, VestingAssumption DEF VestingRows, Active, Paused, Cancelled
<1>4. vesting \in Nat /\ vesting =< v.vesting_amount
    BY <1>2, <1>3, VestedType
<1>5. v.vested_amount =< vesting
    BY <1>2, <1>3 DEF AccrualOK
<1> HIDE DEF f, vesting
<1>6. q \in Int /\ 0 =< q /\ q =< v.vesting_amount - v.vested_amount
    BY <1>2, <1>4, <1>5
<1>7. /\ p.owed = v.vesting_amount - v.vested_amount /\ p.symbol = v.symbol
      /\ p.open = (v.status # Cancelled)
    BY DEF PromiseOf
<1>8. r = [p EXCEPT !.owed = @ - q, !.open = FALSE]
  <2>1. /\ w.account_id = v.account_id /\ w.symbol = v.symbol
        /\ w.vesting_amount = vesting /\ w.vested_amount = v.vested_amount
        /\ w.status = Cancelled
      BY <1>2 DEF VestingRows
  <2>2. w.vesting_amount - w.vested_amount = p.owed - q
      BY <1>2, <1>4, <1>7, <2>1
  <2>3. (w.status # Cancelled) = FALSE
      BY <2>1
  <2>4. r = [to |-> w.account_id, symbol |-> w.symbol,
             owed |-> w.vesting_amount - w.vested_amount, open |-> w.status # Cancelled]
      BY DEF PromiseOf
  <2> DEFINE owed == p.owed - q
             open == FALSE
             part == [to |-> v.account_id, symbol |-> v.symbol, owed |-> owed, open |-> p.open]
  <2>5. p = [to |-> v.account_id, symbol |-> v.symbol, owed |-> p.owed, open |-> p.open]
      BY DEF PromiseOf
  <2> HIDE DEF w, p, r, owed, open
  <2>6. [p EXCEPT !.owed = owed, !.open = open] = [[p EXCEPT !.owed = owed] EXCEPT !.open = open]
      BY <2>5
  <2>7. [p EXCEPT !.owed = owed] = part
      BY <2>5
  <2>8. [part EXCEPT !.open = open]
          = [to |-> v.account_id, symbol |-> v.symbol, owed |-> owed, open |-> open]
      OBVIOUS
  <2> HIDE DEF part
  <2>9. [p EXCEPT !.owed = owed, !.open = open]
          = [to |-> v.account_id, symbol |-> v.symbol, owed |-> owed, open |-> open]
      BY <2>6, <2>7, <2>8
  <2>10. w.vesting_amount - w.vested_amount = owed
      BY <2>2 DEF owed
  <2>11. (w.status # Cancelled) = open
      BY <2>3 DEF open
  <2>12. r = [to |-> v.account_id, symbol |-> v.symbol, owed |-> owed, open |-> open]
      BY <2>1, <2>4, <2>10, <2>11
  <2> QED BY <2>9, <2>12 DEF owed, open
<1> HIDE DEF q
<1>9. /\ Free(cmkassets') = [Free(cmkassets) EXCEPT ![v.symbol] = @ + q]
      /\ Vault(cmkassets') = Vault(cmkassets)
  <2>1. BooksOK(cmkassets) /\ 0 \in Int
      BY <1>2 DEF Inv, LedgerOK
  <2>2. CASE MoveBalance(v.symbol, 0, q, BookedBalance(accounts, v.symbol))
      BY <1>6, <2>1, <2>2, EscrowBooks
  <2>3. CASE UNCHANGED cmkassets /\ q = 0
    <3>1. Free(cmkassets)[v.symbol] \in Int
        BY <1>2, <2>1 DEF Free, BooksOK, AssetRows
    <3>2. Free(cmkassets)[v.symbol] + 0 = Free(cmkassets)[v.symbol]
        BY <3>1
    <3>3. Free(cmkassets) = [Free(cmkassets) EXCEPT ![v.symbol] = @ + 0]
        BY <3>2 DEF Free
    <3> QED BY <2>3, <3>3
  <2>4. vesting < v.vesting_amount \/ q = 0
      BY <1>2, <1>4 DEF q
  <2> QED BY <1>1, <2>2, <2>3, <2>4
<1>10. cmkvestings'[id] = w
    BY <1>1 DEF Ids
<1>11. PromisesIn(cmkvestings)[id] = p
    BY DEF PromisesIn, Ids, v
<1>12. /\ PromisesIn(cmkvestings') = [PromisesIn(cmkvestings) EXCEPT ![id] = r]
       /\ available_primary_key(cmkvestings') = available_primary_key(cmkvestings)
    BY <1>1, <1>10, EscrowPromise
<1> HIDE DEF w, p, r
<1>13. PromisesIn(cmkvestings')
        = [PromisesIn(cmkvestings) EXCEPT ![id].owed = @ - q, ![id].open = FALSE]
    BY <1>8, <1>11, <1>12
<1>14. q \in 0 .. PromisesIn(cmkvestings)[id].owed
    BY <1>2, <1>6, <1>7, <1>11
<1>15. p.open
    BY <1>3, <1>7
<1>16. Contract!Release(id, q)
    BY <1>7, <1>9, <1>11, <1>12, <1>13, <1>15
       DEF Contract!Release, Vault, Free, PromisesIn, PromiseOf, Ids, p
<1> QED BY <1>14, <1>16, Zenon DEF Contract!Release

\* Every step of the contract is a step of the escrow, or none.
LEMMA EscrowStep ==
    ASSUME RegularDates, AccrualInv, [CarefulNext]_vars
    PROVE  [Contract!Next]_(Contract!vars)
<1>1. /\ Inv /\ BooksOK(cmkassets)
    BY DEF AccrualInv, ClockInv, Inv, LedgerOK
<1>2. ASSUME cmkassets' = cmkassets, cmkvestings' = cmkvestings
      PROVE  UNCHANGED Contract!vars
    BY <1>2 DEF Contract!vars, Ids
<1>3. ASSUME NEW c \in Contracts, NEW s \in Symbols, AddAsset(c, s) PROVE Contract!Next
  <2>1. Contract!Register(s)
      BY <1>3, AddAssetEscrow
  <2> QED BY <2>1, Zenon DEF Contract!Next, Contract!Register
<1>4. CASE CarefulTransferStep
  <2>1. PICK c \in Contracts, s \in Symbols, from \in Accounts \ {Self}, to \in Accounts,
             q \in Quantities, memo \in Memos, signers \in SUBSET Accounts :
            Transfer(c, signers, from, to, s, q, memo)
      BY <1>4, VestingAssumption DEF CarefulTransferStep
  <2>2. cmkvestings' = cmkvestings /\ q \in Int
      BY <2>1, VestingAssumption DEF Transfer
  <2>3. CASE UNCHANGED cmkassets
      BY <1>2, <2>2, <2>3
  <2>4. CASE deposit(c, signers, s, q)
    <3>1. MoveBalance(s, q, q, BookedBalance(accounts', s))
        BY <2>4 DEF deposit
    <3>2. Contract!Fund(s, q)
        BY <1>1, <2>2, <3>1, FundEscrow
    <3> QED BY <3>2, Zenon DEF Contract!Next, Contract!Fund
  <2> QED BY <2>1, <2>3, <2>4 DEF Transfer, on_transfer
<1>5. CASE CarefulWithdrawStep
  <2>1. PICK s \in Symbols, to \in Accounts, q \in Quantities : Withdraw(to, s, q)
      BY <1>5 DEF CarefulWithdrawStep
  <2>2. /\ cmkvestings' = cmkvestings /\ -q \in Int
        /\ MoveBalance(s, -q, -q, BookedBalance(accounts, s))
      BY <2>1, VestingAssumption DEF Withdraw
  <2>3. Contract!Fund(s, -q)
      BY <1>1, <2>2, FundEscrow
  <2> QED BY <2>3, Zenon DEF Contract!Next, Contract!Fund
<1>6. CASE AddStep
  <2>1. PICK account \in Accounts, period \in Periods, s \in Symbols, amount \in Quantities,
             cliff \in Dates, start \in Dates, end \in Dates, weight \in Weights,
             pause_time \in NewPauseTimes :
            AddVesting(account, period, s, amount, cliff, weight, start, end, pause_time)
      BY <1>6 DEF AddStep
  <2>2. amount \in Int
      BY VestingAssumption
  <2>3. Contract!Promise(account, s, amount)
      BY <1>1, <2>1, <2>2, AddVestingEscrow
  <2> QED BY <2>3, Zenon DEF Contract!Next, Contract!Promise
<1>7. CASE TokenStep \/ (\E t \in Times : Tick(t)) \/ UNCHANGED vars
  <2>1. cmkassets' = cmkassets /\ cmkvestings' = cmkvestings
      BY <1>7 DEF TokenStep, Tick, vars
  <2> QED BY <1>2, <2>1
<1>8. ASSUME NEW id \in Ids, Claim(id) PROVE Contract!Next
  <2>1. \E q \in 1 .. PromisesIn(cmkvestings)[id].owed : Contract!Pay(id, q)
      BY <1>1, <1>8, ClaimEscrow
  <2> QED BY <2>1, Zenon DEF Contract!Next, Contract!Pay, PromisesIn, PromiseOf, Ids
<1>9. ASSUME NEW id \in Ids, NEW t \in Dates, CancelVesting(id, t) PROVE Contract!Next
  <2>1. \E q \in 0 .. PromisesIn(cmkvestings)[id].owed : Contract!Release(id, q)
      BY <1>9, CancelEscrow
  <2> QED BY <2>1, Zenon DEF Contract!Next, Contract!Release, PromisesIn, PromiseOf, Ids
<1>10. ASSUME NEW id \in Ids, RemoveVesting(id) PROVE Contract!Next
  <2>1. Contract!Forget(id)
      BY <1>1, <1>10, RemoveEscrow
  <2> QED BY <2>1, Zenon DEF Contract!Next, Contract!Forget
<1>11. ASSUME NEW id \in Ids, NEW t, PauseVesting(id, t) \/ UnpauseVestng(id, t)
       PROVE  UNCHANGED Contract!vars
    BY <1>1, <1>11, PauseEscrow
<1>12. ASSUME NEW id \in Ids, CarefulGrantStep(id) PROVE [Contract!Next]_(Contract!vars)
    BY <1>8, <1>9, <1>10, <1>11, <1>12 DEF CarefulGrantStep
<1> QED BY <1>3, <1>4, <1>5, <1>6, <1>7, <1>12 DEF CarefulNext

\* The contract implements the escrow: whatever dates, cliffs and pauses decide, each
\* promise is paid piece by piece to the one it was made to, what is left of an open
\* one is taken back at most once, and nothing leaves the vault otherwise.
THEOREM ContractIsEscrow == ASSUME RegularDates PROVE CarefulSpec => IsEscrow
<1>1. Init => Contract!Init
    BY DEF Init, Contract!Init, Contract!EmptyTable, EmptyTable, Ids, available_primary_key
<1>2. AccrualInv /\ [CarefulNext]_vars => [Contract!Next]_(Contract!vars)
    BY EscrowStep
<1> QED BY <1>1, <1>2, AccrualHolds, PTL DEF CarefulSpec, IsEscrow, Contract!Spec
=============================================================================
