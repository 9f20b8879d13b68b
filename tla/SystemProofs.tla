---------------------------- MODULE SystemProofs ----------------------------
(***************************************************************************)
(* What is proved of eosio.system as a whole: in every behaviour of        *)
(* SystemSpec the tokens of eosio.ram, eosio.stake and eosio.names cover   *)
(* what the contract owes to holders of RAM, to those who have staked, and *)
(* to bidders.                                                             *)
(*                                                                         *)
(* A handler is a chain of helpers, each a function from worlds to worlds. *)
(* Most are Aside: they change votes, the resource exchange, bandwidth and *)
(* tokens of other accounts only, and can be passed over wherever a chain  *)
(* has them.  What is left is what each action does to the three books:    *)
(* a stake that moves is settled (Settled), RAM is traded (RamTraded),     *)
(* an auction goes on (NamesSettled), or nothing happens to them (Quiet).  *)
(***************************************************************************)
EXTENDS System, SumsProofs

\* The fields of the exchange and of its pool.
RexFields == {"pool", "ret", "buckets", "funds", "balances", "loans", "orders"}
PoolFields == {"exists", "total_lent", "total_unlent", "total_rent", "total_lendable", "total_rex",
               "namebid_proceeds", "loan_num"}

\* The tables of the exchange, as far as names, stakes and RAM depend on them.
RexShaped(r) == /\ DOMAIN r = RexFields /\ DOMAIN r.pool = PoolFields
                /\ r.pool.namebid_proceeds \in Int /\ IsFiniteSet(DOMAIN r.orders)

\* q is r but for what names have brought.
RexAside(r, q) == RexShaped(q) /\ q.pool.namebid_proceeds = r.pool.namebid_proceeds

\* A helper that calls helpers leaves aside what they leave aside.
LEMMA RexAsideTransitive ==
    ASSUME NEW r, NEW q, NEW p, RexAside(r, q), RexAside(q, p)
    PROVE  RexAside(r, p)
BY DEF RexAside

\* Another table.
LEMMA TableAside ==
    ASSUME NEW r, RexShaped(r), NEW t
    PROVE  /\ RexAside(r, r)
           /\ RexAside(r, [r EXCEPT !.ret = t]) /\ RexAside(r, [r EXCEPT !.buckets = t])
           /\ RexAside(r, [r EXCEPT !.funds = t]) /\ RexAside(r, [r EXCEPT !.balances = t])
           /\ RexAside(r, [r EXCEPT !.loans = t])
           /\ IsFiniteSet(DOMAIN t) => RexAside(r, [r EXCEPT !.orders = t])
BY DEF RexAside, RexShaped, RexFields

\* Another pool, with the same proceeds of names.
LEMMA PoolAside ==
    ASSUME NEW r, RexShaped(r), NEW p, DOMAIN p = PoolFields,
           p.namebid_proceeds = r.pool.namebid_proceeds
    PROVE  RexAside(r, [r EXCEPT !.pool = p])
BY DEF RexAside, RexShaped, RexFields

\* Returns.
LEMMA StartPendingAside ==
    ASSUME NEW r, RexShaped(r), NEW e
    PROVE  RexAside(r, StartPending(r, e))
BY DEF RexAside, RexShaped, RexFields, StartPending, StartBucket

\* Dropped buckets of returns.
LEMMA DropBucketsAside ==
    ASSUME NEW r, RexShaped(r), NEW over, NEW e
    PROVE  RexAside(r, DropBuckets(r, over, e))
BY DEF RexAside, RexShaped, RexFields, DropBuckets

\* Distributed returns.
LEMMA DistributeAside ==
    ASSUME NEW r, RexShaped(r), NEW earned, NEW e
    PROVE  RexAside(r, Distribute(r, earned, e))
BY DEF RexAside, RexShaped, RexFields, PoolFields, Distribute, Earning

\* update_rex_pool does not touch what names have brought.
LEMMA UpdateRexPoolAside ==
    ASSUME NEW r, RexShaped(r), NEW ct
    PROVE  RexAside(r, update_rex_pool(r, ct))
<1> DEFINE e == ct - (ct % DistInterval)
           s == StartPending(r, e)
           d == DropBuckets(s, Over(s, e), e)
           earned == Earned(PaidUntil(r.ret, e) - Surplus(s.buckets, Over(s, e), e), r.ret.proceeds)
<1>1. RexAside(r, s)
    BY StartPendingAside
<1>2. RexAside(s, d)
    BY <1>1, DropBucketsAside DEF RexAside
<1>3. RexAside(d, Distribute(d, earned, e))
    BY <1>2, DistributeAside DEF RexAside
<1>4. RexAside(r, Distribute(d, earned, e))
  <2> HIDE DEF s, d, earned, e
  <2> QED BY <1>1, <1>2, <1>3, RexAsideTransitive
<1>5. RexAside(r, r)
    BY TableAside
<1>6. update_rex_pool(r, ct) = IF ~ r.ret.exists \/ e =< r.ret.last_dist_time THEN r
                               ELSE Distribute(d, earned, e)
    BY Zenon DEF update_rex_pool, update_rex_pool_at, DistributeReturns, DropAndDistribute
<1> QED
  <2> HIDE DEF d, earned, e
  <2> QED BY <1>4, <1>5, <1>6

\* Nor does a payment into the returns.
LEMMA AddReturnAside ==
    ASSUME NEW r, RexShaped(r), NEW fee, NEW ct
    PROVE  RexAside(r, add_to_rex_return_pool(r, fee, ct))
<1> DEFINE u == update_rex_pool(r, ct)
           ends == ct - (ct % BucketInterval) + BucketInterval
<1>1. RexAside(r, u)
    BY UpdateRexPoolAside
<1> HIDE DEF u
<1>2. RexAside(u, AddReturn(u, fee, ends))
  <2> HIDE DEF ends
  <2> QED BY <1>1 DEF RexAside, RexShaped, RexFields, AddReturn
<1>3. RexAside(r, AddReturn(u, fee, ends))
  <2> HIDE DEF ends
  <2> QED BY <1>1, <1>2, RexAsideTransitive
<1> QED BY <1>3, Zenon DEF add_to_rex_return_pool, u

\* Shares.
LEMMA BoughtAside ==
    ASSUME NEW r, RexShaped(r), NEW x, NEW payment, NEW ct
    PROVE  RexAside(r, Bought(r, x, payment, ct))
<1> DEFINE p == add_to_rex_pool(r.pool, payment)
           q == [r EXCEPT !.pool = p]
<1>1. DOMAIN p = PoolFields /\ p.namebid_proceeds = r.pool.namebid_proceeds
    BY DEF add_to_rex_pool, RexShaped, PoolFields
<1> HIDE DEF p
<1>2. RexAside(r, q)
    BY <1>1, PoolAside
<1> HIDE DEF q
<1>3. \A rex_bought : RexAside(q, add_to_rex_balance(q, x, payment, rex_bought, ct))
    BY <1>2 DEF RexAside, RexShaped, RexFields, add_to_rex_balance
<1>4. RexAside(q, add_to_rex_balance(q, x, payment, p.total_rex - r.pool.total_rex, ct))
    BY <1>3, Zenon
<1>5. Bought(r, x, payment, ct) = add_to_rex_balance(q, x, payment, p.total_rex - r.pool.total_rex, ct)
    BY Zenon DEF Bought, BoughtFrom, p, q
<1> QED BY <1>2, <1>4, <1>5, RexAsideTransitive

\* An order that is filled.
LEMMA FillAside ==
    ASSUME NEW r, RexShaped(r), NEW x, NEW amount
    PROVE  RexAside(r, fill_rex_order(r, x, amount).rex)
BY DEF RexAside, RexShaped, RexFields, PoolFields, fill_rex_order, Redeemed

\* The next order of the queue, filled or left.
LEMMA FillQueuedAside ==
    ASSUME NEW r, RexShaped(r), NEW x
    PROVE  RexAside(r, FillQueued(r, x))
<1> DEFINE outcome == fill_rex_order(r, x, r.orders[x].rex_requested)
<1>1. RexAside(r, outcome.rex)
    BY FillAside
<1> HIDE DEF outcome
<1>2. RexAside(outcome.rex, CloseOrder(outcome, x))
    BY <1>1 DEF RexAside, RexShaped, RexFields, CloseOrder
<1> QED BY <1>1, <1>2, RexAsideTransitive DEF FillQueued, outcome

\* Funds of owners.
LEMMA FundAside ==
    ASSUME NEW r, RexShaped(r), NEW x, NEW amount
    PROVE  /\ RexAside(r, transfer_from_fund(r, x, amount))
           /\ RexAside(r, transfer_to_fund(r, x, amount))
           /\ RexAside(r, CollectInFund(r, x, amount))
<1>1. RexAside(r, transfer_from_fund(r, x, amount))
    BY DEF RexAside, RexShaped, RexFields, transfer_from_fund
<1>2. RexAside(r, transfer_to_fund(r, x, amount))
    BY TableAside DEF transfer_to_fund
<1>3. RexAside(r, CollectInFund(r, x, amount))
    BY <1>2, TableAside DEF CollectInFund
<1> QED BY <1>1, <1>2, <1>3

\* A loan that comes into the pool.
LEMMA AddLoanToPoolAside ==
    ASSUME NEW r, RexShaped(r), NEW payment, NEW rented, NEW new_loan, NEW ct
    PROVE  RexAside(r, add_loan_to_rex_pool(r, payment, rented, new_loan, ct))
<1> DEFINE u == add_to_rex_return_pool(r, payment, ct)
<1>1. RexAside(r, u)
    BY AddReturnAside
<1> HIDE DEF u
<1>2. RexAside(u, [u EXCEPT !.pool = Lent(@, payment, rented, new_loan)])
    BY <1>1 DEF RexAside, RexShaped, RexFields, PoolFields, Lent
<1> QED BY <1>1, <1>2, RexAsideTransitive DEF add_loan_to_rex_pool, u

\* A loan that expires, renewed or closed.
LEMMA ExpiredLoanAside ==
    ASSUME NEW r, RexShaped(r), NEW num, NEW ct
    PROVE  RexAside(r, process_expired_loan(r, num, ct).rex)
<1> DEFINE loan == r.loans[num]
           q == [r EXCEPT !.pool = remove_loan_from_rex_pool(@, loan)]
<1>1. RexAside(r, q)
    BY DEF RexAside, RexShaped, RexFields, PoolFields, remove_loan_from_rex_pool
<1> HIDE DEF q, loan
<1>0. RexShaped(q)
    BY <1>1 DEF RexAside
<1> DEFINE rented == RentedTokens(q.pool, loan.payment)
           renewed == add_loan_to_rex_pool(q, loan.payment, rented, FALSE, ct)
           closed == [q EXCEPT !.loans = Erase(@, num)]
<1> HIDE DEF rented
<1>2. RexAside(q, RenewLoan(q, num, loan, rented, ct).rex)
  <2>1. RexAside(q, renewed)
      BY <1>0, AddLoanToPoolAside
  <2> HIDE DEF renewed
  <2>2. RexAside(renewed, [renewed EXCEPT !.loans[num] = update_renewed_loan(@, rented)])
      BY <2>1 DEF RexAside, RexShaped, RexFields
  <2>3. RenewLoan(q, num, loan, rented, ct).rex
          = [renewed EXCEPT !.loans[num] = update_renewed_loan(@, rented)]
      BY DEF RenewLoan, renewed
  <2> QED BY <2>1, <2>2, <2>3, RexAsideTransitive
<1>3. RexAside(q, CloseLoan(q, num, loan).rex)
  <2>1. RexAside(q, closed)
      BY <1>0, TableAside
  <2> HIDE DEF closed
  <2>2. RexAside(closed, CollectInFund(closed, loan.from, loan.balance))
      BY <2>1, FundAside DEF RexAside
  <2>3. CloseLoan(q, num, loan).rex = CollectInFund(closed, loan.from, loan.balance)
      BY DEF CloseLoan, closed
  <2> QED BY <2>1, <2>2, <2>3, RexAsideTransitive
<1>4. process_expired_loan(r, num, ct) \in {RenewLoan(q, num, loan, rented, ct), CloseLoan(q, num, loan)}
    BY Zenon DEF process_expired_loan, AfterReturn, RenewOrClose, q, loan, rented
<1> QED BY <1>1, <1>2, <1>3, <1>4, RexAsideTransitive

-----------------------------------------------------------------------------
\* FillOrders is a recursive function, hence a CHOOSE.  The recursion it stands for
\* has a solution: its beginnings exist and agree where they overlap.
FillsUpTo(g, r, n) ==
    /\ g[0] = r
    /\ \A i \in 0 .. n : i # 0 => g[i] = FillQueued(g[i - 1], QueuedAt(r, i - 1))

\* f is the recursion of FillOrders.
Fills(f, r) ==
    f = [n \in Nat |-> IF n = 0 THEN r ELSE FillQueued(f[n - 1], QueuedAt(r, n - 1))]

\* The one FillOrders uses.
Filling(r) == CHOOSE f : Fills(f, r)

\* Two beginnings of the recursion agree where both are defined.
LEMMA FillsAgree ==
    ASSUME NEW r, NEW m \in Nat, NEW n \in Nat, m =< n, NEW g, NEW h,
           FillsUpTo(g, r, m), FillsUpTo(h, r, n)
    PROVE  g[m] = h[m]
<1> DEFINE Bad == {k \in Nat : k =< m /\ g[k] # h[k]}
<1> SUFFICES ASSUME Bad # {} PROVE FALSE
    OBVIOUS
<1>1. PICK b \in Bad : \A k \in Bad : b =< k
    BY NatMin
<1>2. b # 0
    BY <1>1 DEF FillsUpTo
<1>3. b - 1 \in Nat /\ b - 1 \notin Bad /\ b \in 0 .. m /\ b \in 0 .. n
    BY <1>1, <1>2
<1>4. /\ g[b] = FillQueued(g[b - 1], QueuedAt(r, b - 1))
      /\ h[b] = FillQueued(h[b - 1], QueuedAt(r, b - 1))
    BY <1>2, <1>3 DEF FillsUpTo
<1> QED BY <1>1, <1>3, <1>4

\* There is a beginning of any length.
LEMMA FillsExist ==
    ASSUME NEW r, NEW n \in Nat
    PROVE  \E g : FillsUpTo(g, r, n)
<1> DEFINE Bad == {k \in Nat : ~ \E g : FillsUpTo(g, r, k)}
<1> SUFFICES ASSUME Bad # {} PROVE FALSE
    OBVIOUS
<1>1. PICK b \in Bad : \A k \in Bad : b =< k
    BY NatMin
<1>2. b # 0
  <2>1. FillsUpTo([i \in {0} |-> r], r, 0)
    BY DEF FillsUpTo
  <2> QED BY <1>1, <2>1
<1>3. b - 1 \in Nat /\ b - 1 \notin Bad
    BY <1>1, <1>2
<1>4. PICK g : FillsUpTo(g, r, b - 1)
    BY <1>3
<1> DEFINE h == [i \in 0 .. b |-> IF i = b THEN FillQueued(g[b - 1], QueuedAt(r, b - 1)) ELSE g[i]]
<1>5. FillsUpTo(h, r, b)
  <2>1. h[0] = r
    BY <1>1, <1>2, <1>4 DEF FillsUpTo
  <2>2. ASSUME NEW i \in 0 .. b, i # 0
        PROVE  h[i] = FillQueued(h[i - 1], QueuedAt(r, i - 1))
    <3>1. CASE i = b
        BY <2>2, <3>1
    <3>2. CASE i # b
      <4>1. i \in 0 .. b - 1 /\ i - 1 \in 0 .. b /\ i - 1 # b
          BY <2>2, <3>2
      <4> QED BY <1>4, <2>2, <3>2, <4>1 DEF FillsUpTo
    <3> QED BY <3>1, <3>2
  <2> QED BY <2>1, <2>2 DEF FillsUpTo
<1> QED BY <1>1, <1>5

\* So the recursive function of FillOrders does what it says.
LEMMA FillingRecursion ==
    ASSUME NEW r, NEW n \in Nat
    PROVE  Filling(r)[n] = IF n = 0 THEN r ELSE FillQueued(Filling(r)[n - 1], QueuedAt(r, n - 1))
<1> DEFINE F(i) == (CHOOSE g : FillsUpTo(g, r, i))[i]
           it == [i \in Nat |-> F(i)]
<1>1. ASSUME NEW i \in Nat
      PROVE  F(i) = IF i = 0 THEN r ELSE FillQueued(F(i - 1), QueuedAt(r, i - 1))
  <2> DEFINE g == CHOOSE g : FillsUpTo(g, r, i)
  <2>1. FillsUpTo(g, r, i)
      BY FillsExist
  <2>2. CASE i = 0
      BY <2>1, <2>2 DEF FillsUpTo
  <2>3. CASE i # 0
    <3> DEFINE h == CHOOSE h : FillsUpTo(h, r, i - 1)
    <3>1. i - 1 \in Nat /\ i - 1 =< i /\ i \in 0 .. i
        BY <2>3
    <3>2. FillsUpTo(h, r, i - 1)
        BY <3>1, FillsExist
    <3>3. g[i] = FillQueued(g[i - 1], QueuedAt(r, i - 1))
        BY <2>1, <2>3, <3>1 DEF FillsUpTo
    <3>4. h[i - 1] = g[i - 1]
      <4> HIDE DEF g, h
      <4> QED BY <2>1, <3>1, <3>2, FillsAgree
    <3> QED BY <2>3, <3>3, <3>4
  <2> QED BY <2>2, <2>3
<1>2. Fills(it, r)
  <2>1. \A i \in Nat : it[i] = IF i = 0 THEN r ELSE FillQueued(it[i - 1], QueuedAt(r, i - 1))
    <3> TAKE i \in Nat
    <3> HIDE DEF F
    <3>1. i # 0 => i - 1 \in Nat
        OBVIOUS
    <3> QED BY <1>1, <3>1
  <2>2. it = [i \in Nat |-> it[i]]
      OBVIOUS
  <2> HIDE DEF it
  <2>3. it = [i \in Nat |-> IF i = 0 THEN r ELSE FillQueued(it[i - 1], QueuedAt(r, i - 1))]
      BY <2>1, <2>2
  <2> QED BY <2>3 DEF Fills
<1>3. Fills(Filling(r), r)
  <2> HIDE DEF it
  <2> QED BY <1>2, Zenon DEF Filling
<1> QED BY <1>3 DEF Fills

\* Any number of orders filled leaves aside what names have brought.
LEMMA FillOrdersAside ==
    ASSUME NEW r, RexShaped(r), NEW max \in Nat
    PROVE  RexAside(r, FillOrders(r, max))
<1> DEFINE queued == Cardinality(OpenOrders(r))
           n == IF max < queued THEN max ELSE queued
           Bad == {k \in Nat : ~ RexAside(r, Filling(r)[k])}
<1>1. n \in Nat
  <2>1. OpenOrders(r) \subseteq DOMAIN r.orders
      BY DEF OpenOrders
  <2>2. queued \in Nat
      BY <2>1, FS_Subset, FS_CardinalityType DEF RexShaped
  <2> QED BY <2>2
<1>2. FillOrders(r, max) = Filling(r)[n]
    BY Zenon DEF FillOrders, Filling, Fills
<1>3. ASSUME Bad # {} PROVE FALSE
  <2>1. PICK b \in Bad : \A k \in Bad : b =< k
      BY <1>3, NatMin
  <2>2. b # 0
      BY <2>1, FillingRecursion, TableAside
  <2>3. b - 1 \in Nat /\ b - 1 \notin Bad
      BY <2>1, <2>2
  <2>4. RexAside(r, Filling(r)[b - 1])
      BY <2>3
  <2>5. RexShaped(Filling(r)[b - 1])
      BY <2>4 DEF RexAside
  <2>6. RexAside(Filling(r)[b - 1], FillQueued(Filling(r)[b - 1], QueuedAt(r, b - 1)))
      BY <2>5, FillQueuedAside
  <2>7. RexAside(r, FillQueued(Filling(r)[b - 1], QueuedAt(r, b - 1)))
      BY <2>4, <2>6, RexAsideTransitive
  <2> QED BY <2>1, <2>2, <2>7, FillingRecursion
<1> QED
  <2> HIDE DEF n
  <2> QED BY <1>1, <1>2, <1>3

-----------------------------------------------------------------------------
\* The tables of a world, and their fields.
WorldFields == {"elect", "bw", "rex", "core"}
BwFields    == {"delband", "userres", "refunds", "limits", "deferred"}
RowFields   == {"net", "cpu", "ram"}

\* A table of resources.
TableShaped(t) == IsFiniteSet(DOMAIN t) /\ \A x \in DOMAIN t : DOMAIN t[x] = RowFields

\* Accounts that no helper pays from or to.
Kept == {ram_account, stake_account, bpay_account, vpay_account}

\* A world that the helpers can be applied to.
Shaped(w) ==
    /\ DOMAIN w = WorldFields /\ DOMAIN w.bw = BwFields /\ DOMAIN w.core = Holders
    /\ TableShaped(w.bw.userres) /\ RexShaped(w.rex)
    /\ w.core[names_account] \in Int

\* The RAM of x.
RamOf(t, x) == IF x \in DOMAIN t THEN t[x].ram ELSE 0

\* Everybody has the RAM it had.
SameRam(t, s) == \A x : RamOf(s, x) = RamOf(t, x)

\* What eosio.names holds besides what it has promised to the resource exchange.
Slack(w) == w.core[names_account] - w.rex.pool.namebid_proceeds

\* u is w but for votes, the resource exchange, tokens of others and bandwidth.
Aside(w, u) ==
    /\ Shaped(u)
    /\ \A a \in Kept : u.core[a] = w.core[a]
    /\ Slack(u) >= Slack(w)
    /\ u.bw.delband = w.bw.delband /\ u.bw.refunds = w.bw.refunds
    /\ SameRam(w.bw.userres, u.bw.userres)

\* Helpers one after another.
LEMMA AsideTransitive ==
    ASSUME NEW w, NEW u, NEW v, Shaped(w), Aside(w, u), Aside(u, v)
    PROVE  Aside(w, v)
<1>1. SameRam(w.bw.userres, v.bw.userres)
    BY DEF Aside, SameRam
<1>2. Slack(v) >= Slack(w)
    BY DEF Aside, Shaped, RexShaped, Slack
<1> QED BY <1>1, <1>2 DEF Aside

\* No helper at all.
LEMMA AsideReflexive ==
    ASSUME NEW w, Shaped(w)
    PROVE  Aside(w, w)
<1>1. Slack(w) >= Slack(w)
    BY DEF Shaped, RexShaped, Slack
<1> QED BY <1>1 DEF Aside, SameRam

\* Votes are aside.
LEMMA ElectAside ==
    ASSUME NEW w, Shaped(w), NEW e
    PROVE  Aside(w, [w EXCEPT !.elect = e])
BY DEF Aside, Shaped, RexShaped, WorldFields, SameRam, Slack

\* So is what the exchange does within its own tables.
LEMMA RexChangeAside ==
    ASSUME NEW w, Shaped(w), NEW r, RexAside(w.rex, r)
    PROVE  Aside(w, [w EXCEPT !.rex = r])
<1> DEFINE u == [w EXCEPT !.rex = r]
<1>1. /\ DOMAIN u = WorldFields /\ u.rex = r /\ u.bw = w.bw /\ u.core = w.core
    BY DEF Shaped, WorldFields
<1> HIDE DEF u
<1>2. Slack(u) >= Slack(w)
    BY <1>1 DEF RexAside, Shaped, RexShaped, Slack
<1> QED BY <1>1, <1>2 DEF Aside, Shaped, RexAside, SameRam, u

\* Tokens of others are moved.
LEMMA TransferAside ==
    ASSUME NEW w, Shaped(w), NEW from \in Holders \ (Kept \cup {names_account}),
           NEW to \in Holders \ (Kept \cup {names_account}), NEW amount
    PROVE  Aside(w, Transfer(w, from, to, amount))
<1> DEFINE u == Transfer(w, from, to, amount)
<1>1. /\ DOMAIN u = WorldFields /\ u.rex = w.rex /\ u.bw = w.bw /\ u.elect = w.elect
      /\ DOMAIN u.core = Holders
      /\ \A a \in Kept \cup {names_account} : u.core[a] = w.core[a]
    BY DEF Shaped, WorldFields, Transfer, Holders, SystemAccounts, Kept
<1> HIDE DEF u
<1>2. Slack(u) >= Slack(w)
    BY <1>1 DEF Shaped, RexShaped, Slack
<1> QED BY <1>1, <1>2 DEF Aside, Shaped, SameRam, u

\* update_rex_stake changes a balance and a vote.
LEMMA UpdateRexStakeAside ==
    ASSUME NEW w, Shaped(w), NEW x
    PROVE  Aside(w, update_rex_stake(w, x))
<1> DEFINE worth == WorthOf(w.rex.pool, w.rex.balances[x].rex_balance)
           r == [w.rex EXCEPT !.balances[x].vote_stake = worth]
           kept == [w EXCEPT !.rex = r]
           delta == worth - w.rex.balances[x].vote_stake
           e == [kept.elect EXCEPT !.voters[x].staked = @ + delta]
<1>1. RexAside(w.rex, r)
    BY DEF Shaped, RexShaped, RexFields, RexAside
<1>2. Aside(w, kept)
  <2> HIDE DEF r
  <2> QED BY <1>1, RexChangeAside
<1>3. Aside(w, [kept EXCEPT !.elect = e])
  <2> HIDE DEF kept, e
  <2>1. Shaped(kept)
      BY <1>2 DEF Aside
  <2>2. Aside(kept, [kept EXCEPT !.elect = e])
      BY <2>1, ElectAside
  <2> QED BY <1>2, <2>2, AsideTransitive
<1>4. Aside(w, w)
    BY AsideReflexive
<1>5. update_rex_stake(w, x) \in {w, kept, [kept EXCEPT !.elect = e]}
    BY DEF update_rex_stake
<1> QED
  <2> HIDE DEF kept, e
  <2> QED BY <1>2, <1>3, <1>4, <1>5

\* update_voting_power changes votes.
LEMMA VotingPowerAside ==
    ASSUME NEW w, Shaped(w), NEW x, NEW total, NEW ct
    PROVE  Aside(w, update_voting_power(w, x, total, ct))
BY ElectAside, Zenon DEF update_voting_power

\* A row whose RAM is kept, or an empty one erased.
LEMMA PutResourcesKeeps ==
    ASSUME NEW t, TableShaped(t), NEW x, NEW row, DOMAIN row = RowFields, row.ram = RamOf(t, x)
    PROVE  TableShaped(PutResources(t, x, row)) /\ SameRam(t, PutResources(t, x, row))
<1>1. IsFiniteSet(DOMAIN t \cup {x}) /\ IsFiniteSet(DOMAIN t \ {x})
    BY FS_AddElement, FS_RemoveElement DEF TableShaped
<1>2. CASE row = NoResources
  <2>1. RamOf(t, x) = 0
      BY <1>2 DEF NoResources
  <2> QED BY <1>1, <1>2, <2>1 DEF PutResources, Erase, SameRam, RamOf, TableShaped
<1>3. CASE row # NoResources
    BY <1>1, <1>3 DEF PutResources, Put, SameRam, RamOf, TableShaped
<1> QED BY <1>2, <1>3

\* The row of x, an empty one if there is none.
LEMMA ResourcesShape ==
    ASSUME NEW w, Shaped(w), NEW x, NEW net, NEW cpu
    PROVE  LET row == [Resources(w.bw, x) EXCEPT !.net = @ + net, !.cpu = @ + cpu]
           IN  DOMAIN row = RowFields /\ row.ram = RamOf(w.bw.userres, x)
<1>1. /\ DOMAIN Resources(w.bw, x) = RowFields
      /\ Resources(w.bw, x).ram = RamOf(w.bw.userres, x)
    BY DEF Resources, NoResources, RowFields, Shaped, TableShaped, RamOf
<1> QED BY <1>1 DEF RowFields

\* update_resource_limits changes bandwidth, not RAM.
LEMMA ResourceLimitsAside ==
    ASSUME NEW w, Shaped(w), NEW x, NEW net, NEW cpu
    PROVE  Aside(w, update_resource_limits(w, x, net, cpu))
<1> DEFINE t == w.bw.userres
           row == [Resources(w.bw, x) EXCEPT !.net = @ + net, !.cpu = @ + cpu]
           limits == [w.bw.limits EXCEPT ![x] = LimitsOf(@, row, Managed(w.elect, x))]
           u == [w EXCEPT !.bw.userres = PutResources(@, x, row), !.bw.limits = limits]
<1>1. TableShaped(t) /\ DOMAIN row = RowFields /\ row.ram = RamOf(t, x)
    BY ResourcesShape DEF Shaped
<1> HIDE DEF row
<1>2. TableShaped(PutResources(t, x, row)) /\ SameRam(t, PutResources(t, x, row))
  <2> HIDE DEF t
  <2> QED BY <1>1, PutResourcesKeeps
<1>3. /\ DOMAIN u = WorldFields /\ u.rex = w.rex /\ u.elect = w.elect /\ u.core = w.core
      /\ DOMAIN u.bw = BwFields /\ u.bw.userres = PutResources(t, x, row)
      /\ u.bw.delband = w.bw.delband /\ u.bw.refunds = w.bw.refunds
  <2> HIDE DEF limits
  <2> QED BY DEF Shaped, WorldFields, BwFields
<1>4. update_resource_limits(w, x, net, cpu) = IF net = 0 /\ cpu = 0 THEN w ELSE u
    BY DEF update_resource_limits, row
<1> HIDE DEF u
<1>5. Slack(u) >= Slack(w)
    BY <1>3 DEF Shaped, RexShaped, Slack
<1>6. Aside(w, u)
    BY <1>2, <1>3, <1>5 DEF Aside, Shaped
<1> QED BY <1>4, <1>6, AsideReflexive

\* Fees go from eosio.ramfee to the exchange.
LEMMA ChannelAside ==
    ASSUME NEW w, Shaped(w), NEW amount, NEW ct
    PROVE  Aside(w, channel_to_rex(w, ramfee_account, amount, ct))
<1> DEFINE u == [w EXCEPT !.rex = add_to_rex_return_pool(@, amount, ct)]
<1>1. Aside(w, u)
  <2>1. RexAside(w.rex, add_to_rex_return_pool(w.rex, amount, ct))
      BY AddReturnAside DEF Shaped
  <2> QED BY <2>1, RexChangeAside
<1> HIDE DEF u
<1>2. Shaped(u)
    BY <1>1 DEF Aside
<1>3. /\ ramfee_account \in Holders \ (Kept \cup {names_account})
      /\ rex_account \in Holders \ (Kept \cup {names_account})
    BY DEF Holders, SystemAccounts, Kept, ramfee_account, rex_account, names_account, ram_account,
           stake_account, bpay_account, vpay_account
<1>4. Aside(u, Transfer(u, ramfee_account, rex_account, amount))
    BY <1>2, <1>3, TransferAside
<1>5. Aside(w, Transfer(u, ramfee_account, rex_account, amount))
    BY <1>1, <1>4, AsideTransitive
<1>6. channel_to_rex(w, ramfee_account, amount, ct)
        \in {w, Transfer(u, ramfee_account, rex_account, amount)}
    BY Zenon DEF channel_to_rex, u
<1> QED BY <1>5, <1>6, AsideReflexive

\* What names have brought leaves eosio.names as it leaves the promise to the exchange.
LEMMA CollectNameBidsAside ==
    ASSUME NEW w, Shaped(w), NEW ct
    PROVE  Aside(w, CollectNameBids(w, ct))
<1> SUFFICES ASSUME w.rex.pool.namebid_proceeds > 0
             PROVE  Aside(w, CollectNameBids(w, ct))
    BY AsideReflexive DEF CollectNameBids
<1> DEFINE amount == w.rex.pool.namebid_proceeds
           r == add_to_rex_return_pool(w.rex, amount, ct)
           u == [w EXCEPT !.rex = r]
           c == [w.core EXCEPT ![names_account] = @ - amount, ![rex_account] = @ + amount]
           paid == [u EXCEPT !.core = c]
           after == [paid EXCEPT !.rex.pool.namebid_proceeds = 0]
           forgotten == [w EXCEPT !.rex.pool.namebid_proceeds = 0]
<1>1. amount \in Int /\ amount > 0 /\ w.core[names_account] \in Int /\ DOMAIN w.core = Holders
    BY DEF Shaped, RexShaped
<1>2. RexShaped(r) /\ r.pool.namebid_proceeds = amount
    BY AddReturnAside DEF Shaped, RexAside
<1>3. /\ DOMAIN c = Holders /\ \A a \in Kept : c[a] = w.core[a]
      /\ c[names_account] = w.core[names_account] - amount
  <2>1. {names_account, rex_account} \cup Kept \subseteq Holders /\ names_account \notin Kept
        /\ rex_account \notin Kept /\ names_account # rex_account
      BY DEF Holders, SystemAccounts, Kept, rex_account, names_account, ram_account,
             stake_account, bpay_account, vpay_account
  <2> HIDE DEF amount
  <2> QED BY <1>1, <2>1
<1> HIDE DEF r, c
<1>4. /\ DOMAIN after = WorldFields /\ after.core = c /\ after.bw = w.bw
      /\ DOMAIN after.rex = RexFields /\ DOMAIN after.rex.pool = PoolFields
      /\ after.rex.orders = r.orders
      /\ after.rex.pool.namebid_proceeds = 0
    BY <1>2 DEF Shaped, RexShaped, WorldFields, RexFields, PoolFields
<1>5. /\ DOMAIN forgotten = WorldFields /\ forgotten.core = w.core /\ forgotten.bw = w.bw
      /\ DOMAIN forgotten.rex = RexFields /\ DOMAIN forgotten.rex.pool = PoolFields
      /\ forgotten.rex.orders = w.rex.orders
      /\ forgotten.rex.pool.namebid_proceeds = 0
    BY DEF Shaped, RexShaped, WorldFields, RexFields, PoolFields
<1>6. CollectNameBids(w, ct) = IF rex_available(w.rex) THEN after ELSE forgotten
  <2>1. w.rex.pool.namebid_proceeds > 0
      OBVIOUS
  <2>2. CollectNameBids(w, ct) = [channel_to_rex(w, names_account, amount, ct) EXCEPT
                                    !.rex.pool.namebid_proceeds = 0]
      BY <2>1, Zenon DEF CollectNameBids
  <2>3. CASE ~ rex_available(w.rex)
      BY <2>2, <2>3 DEF channel_to_rex
  <2>4. CASE rex_available(w.rex)
    <3>1. channel_to_rex(w, names_account, amount, ct) = Transfer(u, names_account, rex_account, amount)
        BY <2>4, Zenon DEF channel_to_rex, r
    <3>2. u.core = w.core /\ DOMAIN u = WorldFields
        BY DEF Shaped, WorldFields
    <3>3. Transfer(u, names_account, rex_account, amount) = paid
      <4> HIDE DEF u, amount
      <4> QED BY <3>2 DEF Transfer, WorldFields, c
    <3> QED BY <2>2, <2>4, <3>1, <3>3
  <2> QED BY <2>3, <2>4
<1> HIDE DEF after, forgotten
<1>7. Aside(w, after)
  <2>1. Slack(after) = Slack(w)
      BY <1>1, <1>3, <1>4 DEF Slack
  <2>2. Shaped(after) /\ Slack(after) >= Slack(w)
      BY <1>1, <1>2, <1>3, <1>4, <2>1 DEF Shaped, RexShaped, Slack
  <2> QED BY <1>3, <1>4, <2>2 DEF Aside, SameRam
<1>8. Aside(w, forgotten)
  <2>1. Slack(forgotten) >= Slack(w)
      BY <1>1, <1>5 DEF Slack
  <2>2. Shaped(forgotten)
      BY <1>1, <1>5 DEF Shaped, RexShaped
  <2> QED BY <1>5, <2>1, <2>2 DEF Aside, SameRam
<1> QED BY <1>6, <1>7, <1>8

\* Collecting a filled order changes funds and votes.
LEMMA UpdateRexAccountAside ==
    ASSUME NEW w, Shaped(w), NEW x, NEW proceeds, NEW delta, NEW force, NEW ct
    PROVE  Aside(w, update_rex_account(w, x, proceeds, delta, force, ct))
<1> DEFINE amount == proceeds + FilledOrder(w.rex, x).proceeds
           q == [w.rex EXCEPT !.orders = IF x \in OpenOrders(w.rex) THEN @ ELSE Erase(@, x)]
           r == CollectOrder(w.rex, x, amount)
           u == [w EXCEPT !.rex = r]
           to_stake == delta + FilledOrder(w.rex, x).stake_change
<1>1. RexAside(w.rex, q)
  <2> DEFINE t == IF x \in OpenOrders(w.rex) THEN w.rex.orders ELSE Erase(w.rex.orders, x)
  <2>1. IsFiniteSet(DOMAIN t)
      BY FS_RemoveElement DEF Shaped, RexShaped, Erase
  <2> HIDE DEF t
  <2>2. RexAside(w.rex, [w.rex EXCEPT !.orders = t])
      BY <2>1, TableAside DEF Shaped
  <2> QED BY <2>2 DEF t
<1>2. RexAside(w.rex, r)
  <2>0. RexShaped(q)
      BY <1>1 DEF RexAside
  <2>1. RexAside(q, CollectInFund(q, x, amount))
    <3> HIDE DEF q, amount
    <3> QED BY <2>0, FundAside
  <2>2. r = CollectInFund(q, x, amount)
      BY Zenon DEF CollectOrder
  <2> HIDE DEF r, q, amount
  <2> QED BY <1>1, <2>1, <2>2, RexAsideTransitive
<1> HIDE DEF r
<1>3. Aside(w, u)
    BY <1>2, RexChangeAside
<1> HIDE DEF u
<1>4. Aside(u, ChangeStake(u, x, to_stake, force, ct))
  <2>1. Shaped(u)
      BY <1>3 DEF Aside
  <2> HIDE DEF to_stake
  <2>2. Aside(u, u) /\ Aside(u, update_voting_power(u, x, to_stake, ct))
      BY <2>1, AsideReflexive, VotingPowerAside
  <2> QED BY <2>2, Zenon DEF ChangeStake
<1>5. update_rex_account(w, x, proceeds, delta, force, ct) = ChangeStake(u, x, to_stake, force, ct)
    BY Zenon DEF update_rex_account, u, r
<1> QED
  <2> HIDE DEF to_stake
  <2> QED BY <1>3, <1>4, <1>5, AsideTransitive

\* A loan that expires changes the exchange and bandwidth.
LEMMA ProcessLoanAside ==
    ASSUME NEW w, Shaped(w), NEW kind, NEW ct
    PROVE  Aside(w, ProcessLoan(w, kind, ct))
<1> DEFINE num == FirstExpired(w.rex, kind, ct)
           receiver == w.rex.loans[num].receiver
           outcome == process_expired_loan(w.rex, num, ct)
           u == [w EXCEPT !.rex = outcome.rex]
           net == IF kind = "net" THEN outcome.delta_stake ELSE 0
           cpu == IF kind = "cpu" THEN outcome.delta_stake ELSE 0
<1>1. RexAside(w.rex, outcome.rex)
    BY ExpiredLoanAside DEF Shaped
<1>2. Aside(w, u)
  <2> HIDE DEF outcome
  <2> QED BY <1>1, RexChangeAside
<1>3. Aside(u, update_resource_limits(u, receiver, net, cpu))
  <2>1. Shaped(u)
      BY <1>2 DEF Aside
  <2> HIDE DEF u, receiver, net, cpu
  <2> QED BY <2>1, ResourceLimitsAside
<1>4. ProcessLoan(w, kind, ct) \in {w, update_resource_limits(u, receiver, net, cpu)}
    BY Zenon DEF ProcessLoan, ProcessLoanOf, LoanProcessed
<1> QED
  <2> HIDE DEF u, receiver, net, cpu
  <2> QED BY <1>2, <1>3, <1>4, AsideReflexive, AsideTransitive
-----------------------------------------------------------------------------
\* ProcessLoans is a recursive function, hence a CHOOSE.  The recursion it stands for
\* has a solution: its beginnings exist and agree where they overlap.
ProcessedUpTo(g, w, kind, ct, n) ==
    /\ g[0] = w
    /\ \A i \in 0 .. n : i # 0 => g[i] = ProcessLoan(g[i - 1], kind, ct)

\* f is the recursion of ProcessLoans.
Processes(f, w, kind, ct) ==
    f = [n \in Nat |-> IF n = 0 THEN w ELSE ProcessLoan(f[n - 1], kind, ct)]

\* The one ProcessLoans uses.
Processing(w, kind, ct) == CHOOSE f : Processes(f, w, kind, ct)

\* Two beginnings of it agree where both are defined.
LEMMA LoansAgree ==
    ASSUME NEW w, NEW kind, NEW ct, NEW m \in Nat, NEW n \in Nat, m =< n, NEW g, NEW h,
           ProcessedUpTo(g, w, kind, ct, m), ProcessedUpTo(h, w, kind, ct, n)
    PROVE  g[m] = h[m]
<1> DEFINE Bad == {k \in Nat : k =< m /\ g[k] # h[k]}
<1> SUFFICES ASSUME Bad # {} PROVE FALSE
    OBVIOUS
<1>1. PICK b \in Bad : \A k \in Bad : b =< k
    BY NatMin
<1>2. b # 0
    BY <1>1 DEF ProcessedUpTo
<1>3. b - 1 \in Nat /\ b - 1 \notin Bad /\ b \in 0 .. m /\ b \in 0 .. n
    BY <1>1, <1>2
<1>4. /\ g[b] = ProcessLoan(g[b - 1], kind, ct)
      /\ h[b] = ProcessLoan(h[b - 1], kind, ct)
    BY <1>2, <1>3 DEF ProcessedUpTo
<1> QED BY <1>1, <1>3, <1>4

\* There is a beginning of any length.
LEMMA LoansExist ==
    ASSUME NEW w, NEW kind, NEW ct, NEW n \in Nat
    PROVE  \E g : ProcessedUpTo(g, w, kind, ct, n)
<1> DEFINE Bad == {k \in Nat : ~ \E g : ProcessedUpTo(g, w, kind, ct, k)}
<1> SUFFICES ASSUME Bad # {} PROVE FALSE
    OBVIOUS
<1>1. PICK b \in Bad : \A k \in Bad : b =< k
    BY NatMin
<1>2. b # 0
  <2>1. ProcessedUpTo([i \in {0} |-> w], w, kind, ct, 0)
    BY DEF ProcessedUpTo
  <2> QED BY <1>1, <2>1
<1>3. b - 1 \in Nat /\ b - 1 \notin Bad
    BY <1>1, <1>2
<1>4. PICK g : ProcessedUpTo(g, w, kind, ct, b - 1)
    BY <1>3
<1> DEFINE h == [i \in 0 .. b |-> IF i = b THEN ProcessLoan(g[b - 1], kind, ct) ELSE g[i]]
<1>5. ProcessedUpTo(h, w, kind, ct, b)
  <2>1. h[0] = w
    BY <1>1, <1>2, <1>4 DEF ProcessedUpTo
  <2>2. ASSUME NEW i \in 0 .. b, i # 0
        PROVE  h[i] = ProcessLoan(h[i - 1], kind, ct)
    <3>1. CASE i = b
        BY <2>2, <3>1
    <3>2. CASE i # b
      <4>1. i \in 0 .. b - 1 /\ i - 1 \in 0 .. b /\ i - 1 # b
          BY <2>2, <3>2
      <4> QED BY <1>4, <2>2, <3>2, <4>1 DEF ProcessedUpTo
    <3> QED BY <3>1, <3>2
  <2> QED BY <2>1, <2>2 DEF ProcessedUpTo
<1> QED BY <1>1, <1>5

\* So the recursive function of ProcessLoans does what it says.
LEMMA ProcessingRecursion ==
    ASSUME NEW w, NEW kind, NEW ct, NEW n \in Nat
    PROVE  Processing(w, kind, ct)[n] = IF n = 0 THEN w ELSE ProcessLoan(Processing(w, kind, ct)[n - 1], kind, ct)
<1> DEFINE F(i) == (CHOOSE g : ProcessedUpTo(g, w, kind, ct, i))[i]
           it == [i \in Nat |-> F(i)]
<1>1. ASSUME NEW i \in Nat
      PROVE  F(i) = IF i = 0 THEN w ELSE ProcessLoan(F(i - 1), kind, ct)
  <2> DEFINE g == CHOOSE g : ProcessedUpTo(g, w, kind, ct, i)
  <2>1. ProcessedUpTo(g, w, kind, ct, i)
      BY LoansExist
  <2>2. CASE i = 0
      BY <2>1, <2>2 DEF ProcessedUpTo
  <2>3. CASE i # 0
    <3> DEFINE h == CHOOSE h : ProcessedUpTo(h, w, kind, ct, i - 1)
    <3>1. i - 1 \in Nat /\ i - 1 =< i /\ i \in 0 .. i
        BY <2>3
    <3>2. ProcessedUpTo(h, w, kind, ct, i - 1)
        BY <3>1, LoansExist
    <3>3. g[i] = ProcessLoan(g[i - 1], kind, ct)
        BY <2>1, <2>3, <3>1 DEF ProcessedUpTo
    <3>4. h[i - 1] = g[i - 1]
      <4> HIDE DEF g, h
      <4> QED BY <2>1, <3>1, <3>2, LoansAgree
    <3> QED BY <2>3, <3>3, <3>4
  <2> QED BY <2>2, <2>3
<1>2. Processes(it, w, kind, ct)
  <2>1. \A i \in Nat : it[i] = IF i = 0 THEN w ELSE ProcessLoan(it[i - 1], kind, ct)
    <3> TAKE i \in Nat
    <3> HIDE DEF F
    <3>1. i # 0 => i - 1 \in Nat
        OBVIOUS
    <3> QED BY <1>1, <3>1
  <2>2. it = [i \in Nat |-> it[i]]
      OBVIOUS
  <2> HIDE DEF it
  <2>3. it = [i \in Nat |-> IF i = 0 THEN w ELSE ProcessLoan(it[i - 1], kind, ct)]
      BY <2>1, <2>2
  <2> QED BY <2>3 DEF Processes
<1>3. Processes(Processing(w, kind, ct), w, kind, ct)
  <2> HIDE DEF it
  <2> QED BY <1>2, Zenon DEF Processing
<1> QED BY <1>3 DEF Processes

\* Any number of expired loans.
LEMMA ProcessLoansAside ==
    ASSUME NEW w, Shaped(w), NEW kind, NEW max \in Nat, NEW ct
    PROVE  Aside(w, ProcessLoans(w, kind, max, ct))
<1> DEFINE it == Processing(w, kind, ct)
           Bad == {k \in Nat : ~ Aside(w, it[k])}
<1>1. ProcessLoans(w, kind, max, ct) = it[max]
    BY Zenon DEF ProcessLoans, Processing, Processes
<1>2. it[0] = w /\ \A n \in Nat : n # 0 => it[n] = ProcessLoan(it[n - 1], kind, ct)
    BY ProcessingRecursion
<1> HIDE DEF it
<1>3. ASSUME Bad # {} PROVE FALSE
  <2>1. PICK b \in Bad : \A k \in Bad : b =< k
      BY <1>3, NatMin
  <2>2. b # 0
      BY <1>2, <2>1, AsideReflexive
  <2>3. b - 1 \in Nat /\ b - 1 \notin Bad
      BY <2>1, <2>2
  <2>4. Aside(w, it[b - 1])
      BY <2>3
  <2>5. Shaped(it[b - 1])
      BY <2>4 DEF Aside
  <2>6. Aside(it[b - 1], ProcessLoan(it[b - 1], kind, ct))
      BY <2>5, ProcessLoanAside
  <2>7. Aside(w, ProcessLoan(it[b - 1], kind, ct))
      BY <2>4, <2>6, AsideTransitive
  <2> QED BY <1>2, <2>1, <2>2, <2>7
<1> QED BY <1>1, <1>3

\* The maintenance of the exchange leaves RAM, stakes and open bids alone.
LEMMA RunrexAside ==
    ASSUME NEW w, Shaped(w), NEW max \in Nat, NEW ct
    PROVE  Aside(w, runrex(w, max, ct))
<1> DEFINE w1 == [w EXCEPT !.rex = update_rex_pool(@, ct)]
           w2 == CollectNameBids(w1, ct)
           w3 == ProcessLoans(w2, "cpu", max, ct)
           w4 == ProcessLoans(w3, "net", max, ct)
           w5 == [w4 EXCEPT !.rex = FillOrders(@, max)]
<1>1. Aside(w, w1)
  <2>1. RexAside(w.rex, update_rex_pool(w.rex, ct))
      BY UpdateRexPoolAside DEF Shaped
  <2> QED BY <2>1, RexChangeAside
<1>2. Aside(w, w2)
  <2> HIDE DEF w1
  <2>1. Shaped(w1)
      BY <1>1 DEF Aside
  <2>2. Aside(w1, w2)
      BY <2>1, CollectNameBidsAside
  <2> HIDE DEF w2
  <2> QED BY <1>1, <2>2, AsideTransitive
<1>3. Aside(w, w3)
  <2> HIDE DEF w2
  <2>1. Shaped(w2)
      BY <1>2 DEF Aside
  <2>2. Aside(w2, w3)
      BY <2>1, ProcessLoansAside
  <2> HIDE DEF w3
  <2> QED BY <1>2, <2>2, AsideTransitive
<1>4. Aside(w, w4)
  <2> HIDE DEF w3
  <2>1. Shaped(w3)
      BY <1>3 DEF Aside
  <2>2. Aside(w3, w4)
      BY <2>1, ProcessLoansAside
  <2> HIDE DEF w4
  <2> QED BY <1>3, <2>2, AsideTransitive
<1>5. Aside(w, w5)
  <2> HIDE DEF w4
  <2>1. Shaped(w4)
      BY <1>4 DEF Aside
  <2>2. RexAside(w4.rex, FillOrders(w4.rex, max))
      BY <2>1, FillOrdersAside DEF Shaped
  <2>3. Aside(w4, w5)
      BY <2>1, <2>2, RexChangeAside
  <2> HIDE DEF w5
  <2> QED BY <1>4, <2>3, AsideTransitive
<1>6. runrex(w, max, ct) = w5
    BY Zenon DEF runrex
<1> QED
  <2> HIDE DEF w5
  <2> QED BY <1>5, <1>6

-----------------------------------------------------------------------------
\* Tables of integers.
IntTable(t) == IsFiniteSet(DOMAIN t) /\ \A k \in DOMAIN t : t[k] \in Int
At(t, k) == IF k \in DOMAIN t THEN t[k] ELSE 0
Total(t) == TotalOf(t, DOMAIN t)

\* TotalOf is the sum the lemmas about sums are stated for.
LEMMA TotalIs == \A f, S : TotalOf(f, S) = SumFunctionOnSet(f, S)
BY DEF TotalOf, SumFunctionOnSet, MapThenSumSet, FoldFunctionOnSet

\* The total of a table of integers is one.
LEMMA TotalType ==
    ASSUME NEW t, IntTable(t)
    PROVE  Total(t) \in Int
BY TotalIs, SumType DEF IntTable, Total

\* An entry erased leaves the total.
LEMMA TotalErase ==
    ASSUME NEW t, IntTable(t), NEW key
    PROVE  IntTable(Erase(t, key)) /\ Total(Erase(t, key)) = Total(t) - At(t, key)
<1> DEFINE e == Erase(t, key)
           D == DOMAIN t
<1>1. DOMAIN e = D \ {key} /\ \A k \in D \ {key} : e[k] = t[k]
    BY DEF Erase
<1> HIDE DEF e
<1>2. IntTable(e)
    BY <1>1, FS_RemoveElement DEF IntTable
<1>3. SumFunctionOnSet(e, D \ {key}) = SumFunctionOnSet(t, D \ {key})
  <2>1. IsFiniteSet(D \ {key})
      BY FS_RemoveElement DEF IntTable
  <2> QED BY <1>1, <2>1, SumEqual
<1>4. CASE key \in D
  <2>1. SumFunctionOnSet(t, D) = t[key] + SumFunctionOnSet(t, D \ {key})
      BY <1>4, SumWithout DEF IntTable
  <2>2. t[key] \in Int /\ Total(e) \in Int
      BY <1>2, <1>4, TotalType DEF IntTable
  <2> QED BY <1>1, <1>2, <1>3, <1>4, <2>1, <2>2, TotalIs DEF Total, At, e
<1>5. CASE key \notin D
  <2>1. D \ {key} = D
      BY <1>5
  <2> QED BY <1>1, <1>2, <1>3, <1>5, <2>1, TotalIs, TotalType DEF Total, At, e
<1> QED BY <1>4, <1>5

\* An entry put replaces what was there.
LEMMA TotalPut ==
    ASSUME NEW t, IntTable(t), NEW key, NEW v \in Int
    PROVE  IntTable(Put(t, key, v)) /\ Total(Put(t, key, v)) = Total(t) - At(t, key) + v
<1> DEFINE p == Put(t, key, v)
           e == Erase(t, key)
           D == DOMAIN t \ {key}
<1>1. DOMAIN p = D \cup {key} /\ p[key] = v /\ \A k \in D : p[k] = e[k] /\ p[k] = t[k]
    BY DEF Put, Erase
<1>2. DOMAIN e = D /\ IntTable(e) /\ Total(e) = Total(t) - At(t, key) /\ Total(e) \in Int
    BY TotalErase, TotalType DEF Erase
<1> HIDE DEF p, e
<1>3. IsFiniteSet(D) /\ \A k \in D \cup {key} : p[k] \in Int
    BY <1>1, <1>2 DEF IntTable
<1>4. IntTable(p)
    BY <1>1, <1>3, FS_AddElement DEF IntTable
<1>5. SumFunctionOnSet(p, D \cup {key}) = p[key] + SumFunctionOnSet(p, D)
    BY <1>3, SumWith
<1>6. SumFunctionOnSet(p, D) = SumFunctionOnSet(e, D)
    BY <1>1, <1>3, SumEqual
<1> QED BY <1>1, <1>2, <1>4, <1>5, <1>6, TotalIs, TotalType DEF Total, p

-----------------------------------------------------------------------------
\* Fields of the rows of a table.
FieldTable(t, f) == [k \in DOMAIN t |-> t[k][f]]

\* Sum adds up a field.
LEMMA SumIsTotal == \A t, f : Sum(t, f) = Total(FieldTable(t, f))
BY DEF Sum, Total, FieldTable

\* Staked tokens, or tokens on their way back: of both kinds.
StakeRow(row) == {"net", "cpu"} \subseteq DOMAIN row /\ row.net \in Nat /\ row.cpu \in Nat
StakeTable(t) == IsFiniteSet(DOMAIN t) /\ \A k \in DOMAIN t : StakeRow(t[k])

\* What row k counts, and what all rows count.
BothOf(t, k) == IF k \in DOMAIN t THEN t[k].net + t[k].cpu ELSE 0
Both(t) == Sum(t, "net") + Sum(t, "cpu")

\* A row put replaces what it counted.
LEMMA BothPut ==
    ASSUME NEW t, StakeTable(t), NEW key, NEW row, StakeRow(row)
    PROVE  /\ StakeTable(Put(t, key, row)) /\ Both(t) \in Int
           /\ Both(Put(t, key, row)) = Both(t) - BothOf(t, key) + row.net + row.cpu
<1> DEFINE p == Put(t, key, row)
<1>1. StakeTable(p)
    BY FS_AddElement DEF StakeTable, Put
<1>2. /\ FieldTable(p, "net") = Put(FieldTable(t, "net"), key, row.net)
      /\ FieldTable(p, "cpu") = Put(FieldTable(t, "cpu"), key, row.cpu)
    BY DEF FieldTable, Put
<1>3. IntTable(FieldTable(t, "net")) /\ IntTable(FieldTable(t, "cpu"))
    BY DEF IntTable, FieldTable, StakeTable, StakeRow
<1>4. /\ Total(FieldTable(p, "net")) = Total(FieldTable(t, "net")) - At(FieldTable(t, "net"), key) + row.net
      /\ Total(FieldTable(p, "cpu")) = Total(FieldTable(t, "cpu")) - At(FieldTable(t, "cpu"), key) + row.cpu
      /\ Total(FieldTable(t, "net")) \in Int /\ Total(FieldTable(t, "cpu")) \in Int
    BY <1>2, <1>3, TotalPut, TotalType DEF StakeRow
<1>5. /\ BothOf(t, key) = At(FieldTable(t, "net"), key) + At(FieldTable(t, "cpu"), key)
      /\ At(FieldTable(t, "net"), key) \in Int /\ At(FieldTable(t, "cpu"), key) \in Int
    BY DEF BothOf, At, FieldTable, StakeTable, StakeRow
<1> HIDE DEF p
<1> QED BY <1>1, <1>4, <1>5, SumIsTotal DEF Both, StakeRow, p

\* A row erased counts no more.
LEMMA BothErase ==
    ASSUME NEW t, StakeTable(t), NEW key
    PROVE  /\ StakeTable(Erase(t, key)) /\ Both(t) \in Int
           /\ Both(Erase(t, key)) = Both(t) - BothOf(t, key)
<1> DEFINE p == Erase(t, key)
<1>1. StakeTable(p)
    BY FS_RemoveElement DEF StakeTable, Erase
<1>2. /\ FieldTable(p, "net") = Erase(FieldTable(t, "net"), key)
      /\ FieldTable(p, "cpu") = Erase(FieldTable(t, "cpu"), key)
    BY DEF FieldTable, Erase
<1>3. IntTable(FieldTable(t, "net")) /\ IntTable(FieldTable(t, "cpu"))
    BY DEF IntTable, FieldTable, StakeTable, StakeRow
<1>4. /\ Total(FieldTable(p, "net")) = Total(FieldTable(t, "net")) - At(FieldTable(t, "net"), key)
      /\ Total(FieldTable(p, "cpu")) = Total(FieldTable(t, "cpu")) - At(FieldTable(t, "cpu"), key)
      /\ Total(FieldTable(t, "net")) \in Int /\ Total(FieldTable(t, "cpu")) \in Int
    BY <1>2, <1>3, TotalErase, TotalType
<1>5. /\ BothOf(t, key) = At(FieldTable(t, "net"), key) + At(FieldTable(t, "cpu"), key)
      /\ At(FieldTable(t, "net"), key) \in Int /\ At(FieldTable(t, "cpu"), key) \in Int
    BY DEF BothOf, At, FieldTable, StakeTable, StakeRow
<1> HIDE DEF p
<1> QED BY <1>1, <1>4, <1>5, SumIsTotal DEF Both, p

\* The RAM that users hold, each and all.
Held(t) == [x \in Users |-> RamOf(t, x)]
RamHeld(t) == SumFunctionOnSet(Held(t), Users)

\* Only users hold RAM.
RamTable(t) == \A x : RamOf(t, x) \in Nat /\ (RamOf(t, x) # 0 => x \in Users)

\* The row of rammarket.
Markets == [base : Nat, quote : Nat, max_ram_size : Nat \ {0}, reserved : Nat, stake : Nat,
            new_ram_per_block : Nat, last_ram_increase : Nat]

\* What the tokens paid for RAM must cover, in a form that every trade and every
\* growth of the relay keeps.
RelayCovers(r) ==
    /\ r.base + r.reserved = r.max_ram_size /\ r.stake =< r.quote
    /\ r.max_ram_size * (r.quote - r.stake) =< r.base * r.quote

\* The invariant of the RAM market: the relay covers what is reserved, which is what accounts hold.
RamBooksOf(w, r) ==
    /\ r \in Markets /\ RelayCovers(r)
    /\ RamTable(w.bw.userres)
    /\ r.reserved = RamHeld(w.bw.userres) /\ r.stake = w.core[ram_account]

\* What RamBooks adds up is what users hold.
LEMMA RamHeldIs ==
    ASSUME NEW t, TableShaped(t), RamTable(t)
    PROVE  RamHeld(t) = TotalOf([x \in DOMAIN t |-> t[x].ram], DOMAIN t)
<1> DEFINE D == DOMAIN t
           f == [x \in D |-> t[x].ram]
           g == Held(t)
           I == D \cap Users
<1>1. IsFiniteSet(D) /\ IsFiniteSet(Users) /\ IsFiniteSet(I)
    BY SystemAssumption, FS_Intersection DEF TableShaped
<1>2. /\ \A x \in D : f[x] \in Int /\ (x \notin I => f[x] = 0)
      /\ \A x \in Users : g[x] \in Int /\ (x \notin I => g[x] = 0)
      /\ \A x \in I : f[x] = g[x]
    BY DEF RamTable, RamOf, Held
<1> HIDE DEF f, g
<1>3. SumFunctionOnSet(f, D) = SumFunctionOnSet(f, I)
    BY <1>1, <1>2, SumExtends
<1>4. SumFunctionOnSet(g, Users) = SumFunctionOnSet(g, I)
  <2>1. I \in SUBSET Users /\ \A x \in Users \ I : g[x] = 0
      BY <1>2
  <2> HIDE DEF I
  <2> QED BY <1>1, <1>2, <2>1, SumExtends
<1>5. SumFunctionOnSet(f, I) = SumFunctionOnSet(g, I)
  <2> HIDE DEF I
  <2> QED BY <1>1, <1>2, SumEqual
<1> QED BY <1>3, <1>4, <1>5, TotalIs DEF RamHeld, f, g

\* The books of RAM depend on the RAM of accounts and on eosio.ram alone.
LEMMA RamBooksAside ==
    ASSUME NEW w, NEW u, NEW r, RamBooksOf(w, r), SameRam(w.bw.userres, u.bw.userres),
           u.core[ram_account] = w.core[ram_account]
    PROVE  RamBooksOf(u, r)
<1>1. RamTable(u.bw.userres) /\ Held(u.bw.userres) = Held(w.bw.userres)
    BY DEF RamBooksOf, SameRam, RamTable, Held
<1> QED BY <1>1 DEF RamBooksOf, RamHeld

\* Nobody holds more than all do.
LEMMA UserHolds ==
    ASSUME NEW t, RamTable(t), NEW x \in Users
    PROVE  /\ RamHeld(t) \in Nat /\ RamOf(t, x) \in Nat /\ RamOf(t, x) =< RamHeld(t)
<1>1. \A y \in Users : Held(t)[y] \in Nat
    BY DEF RamTable, Held
<1>2. Held(t)[x] = RamOf(t, x)
    BY DEF Held
<1> QED BY <1>1, <1>2, SumOfNaturals, SystemAssumption DEF RamHeld

\* A sum over users in which one term changes.
LEMMA UserSumChanges ==
    ASSUME NEW f, NEW g, NEW x \in Users,
           \A y \in Users : f[y] \in Int /\ g[y] \in Int /\ (y # x => f[y] = g[y])
    PROVE  /\ SumFunctionOnSet(f, Users) \in Int
           /\ SumFunctionOnSet(g, Users) = SumFunctionOnSet(f, Users) - f[x] + g[x]
<1>1. IsFiniteSet(Users)
    BY SystemAssumption
<1> QED BY <1>1, SumChange

\* RAM that one account gets or gives changes what all hold by as much.
LEMMA RamChanged ==
    ASSUME NEW t, NEW s, RamTable(t), NEW x \in Users, NEW bytes \in Int,
           RamOf(s, x) = RamOf(t, x) + bytes, RamOf(s, x) \in Nat,
           \A y : y # x => RamOf(s, y) = RamOf(t, y)
    PROVE  RamTable(s) /\ RamHeld(s) = RamHeld(t) + bytes
<1>1. RamTable(s)
    BY DEF RamTable
<1>2. /\ \A y \in Users : Held(t)[y] \in Int /\ Held(s)[y] \in Int /\ (y # x => Held(t)[y] = Held(s)[y])
      /\ Held(s)[x] = Held(t)[x] + bytes
    BY <1>1 DEF RamTable, Held
<1> HIDE DEF Held
<1>3. /\ SumFunctionOnSet(Held(t), Users) \in Int
      /\ SumFunctionOnSet(Held(s), Users)
           = SumFunctionOnSet(Held(t), Users) - Held(t)[x] + Held(s)[x]
  <2> DEFINE f == Held(t)
             g == Held(s)
  <2>1. \A y \in Users : f[y] \in Int /\ g[y] \in Int /\ (y # x => f[y] = g[y])
      BY <1>2
  <2> HIDE DEF f, g
  <2>2. /\ SumFunctionOnSet(f, Users) \in Int
        /\ SumFunctionOnSet(g, Users) = SumFunctionOnSet(f, Users) - f[x] + g[x]
      BY <2>1, UserSumChanges
  <2> QED BY <2>2 DEF f, g
<1> QED BY <1>1, <1>2, <1>3 DEF RamHeld

-----------------------------------------------------------------------------
\* The relay grows.
LEMMA GrowthCovers ==
    ASSUME NEW b \in Nat, NEW q \in Nat, NEW m \in Nat, NEW s \in Nat, NEW d \in Nat,
           s =< q, m * (q - s) =< b * q
    PROVE  (m + d) * (q - s) =< (b + d) * q
<1>1. PICK c \in Nat : q = s + c
  <2>1. q - s \in Nat /\ q = s + (q - s)
      OBVIOUS
  <2> QED BY <2>1
<1>2. q - s = c
    BY <1>1
<1>3. (m + d) * c = m * c + d * c /\ (b + d) * q = b * q + d * q /\ d * q = d * s + d * c
    BY <1>1
<1>4. d * s \in Nat /\ m * c \in Nat /\ d * c \in Nat /\ b * q \in Nat
    BY <1>1
<1> QED BY <1>2, <1>3, <1>4

\* A relay that grows by its supply still covers.
LEMMA SupplyGrows ==
    ASSUME NEW r \in Markets, RelayCovers(r), NEW d \in Nat, NEW g \in Markets,
           g.base = r.base + d, g.max_ram_size = r.max_ram_size + d, g.quote = r.quote,
           g.stake = r.stake, g.reserved = r.reserved
    PROVE  RelayCovers(g)
<1>1. r.base \in Nat /\ r.quote \in Nat /\ r.max_ram_size \in Nat /\ r.stake \in Nat /\ r.reserved \in Nat
    BY DEF Markets
<1>2. (r.max_ram_size + d) * (r.quote - r.stake) =< (r.base + d) * r.quote
    BY <1>1, GrowthCovers DEF RelayCovers
<1> QED BY <1>1, <1>2 DEF RelayCovers

\* So does one that grows by the block, at any rate (the product is cut to 32 bits).
LEMMA UpdateRamSupply ==
    ASSUME NEW r \in Markets, RelayCovers(r), NEW ct \in Nat
    PROVE  /\ update_ram_supply(r, ct) \in Markets /\ RelayCovers(update_ram_supply(r, ct))
           /\ update_ram_supply(r, ct).reserved = r.reserved
           /\ update_ram_supply(r, ct).stake = r.stake
<1> SUFFICES ASSUME ct > r.last_ram_increase
             PROVE  /\ update_ram_supply(r, ct) \in Markets /\ RelayCovers(update_ram_supply(r, ct))
                    /\ update_ram_supply(r, ct).reserved = r.reserved
                    /\ update_ram_supply(r, ct).stake = r.stake
  <2>1. r.last_ram_increase \in Nat
      BY DEF Markets
  <2> QED BY <2>1 DEF update_ram_supply
<1> DEFINE new_ram == ((ct - r.last_ram_increase) * r.new_ram_per_block) % RamWrap
           g == [r EXCEPT !.max_ram_size = @ + new_ram, !.base = @ + new_ram, !.last_ram_increase = ct]
<1>1. new_ram \in Nat
  <2>1. ct - r.last_ram_increase \in Nat /\ r.new_ram_per_block \in Nat
      BY DEF Markets
  <2>2. (ct - r.last_ram_increase) * r.new_ram_per_block \in Nat
      BY <2>1, TimesMonotone
  <2> QED BY <2>2, SystemAssumption
<1> HIDE DEF new_ram
<1>2. /\ g \in Markets /\ g.base = r.base + new_ram /\ g.max_ram_size = r.max_ram_size + new_ram
      /\ g.quote = r.quote /\ g.stake = r.stake /\ g.reserved = r.reserved
  <2>1. /\ r.base + new_ram \in Nat /\ r.max_ram_size + new_ram \in Nat \ {0}
        /\ ct \in Nat
      BY <1>1 DEF Markets
  <2>2. g = [r EXCEPT !.max_ram_size = r.max_ram_size + new_ram, !.base = r.base + new_ram,
                      !.last_ram_increase = ct]
      BY DEF Markets
  <2> HIDE DEF g
  <2> QED BY <2>1, <2>2 DEF Markets
<1> HIDE DEF g
<1>3. RelayCovers(g)
    BY <1>1, <1>2, SupplyGrows
<1>4. update_ram_supply(r, ct) = g
    BY DEF update_ram_supply, g, new_ram, Markets
<1> QED BY <1>2, <1>3, <1>4

\* A trade leaves the product of the reserves no smaller.
LEMMA Traded ==
    ASSUME NEW inp \in Nat, NEW outp \in Nat, NEW a \in Nat \ {0}
    PROVE  /\ get_bancor_output(inp, outp, a) \in Nat /\ get_bancor_output(inp, outp, a) =< outp
           /\ inp * outp =< (inp + a) * (outp - get_bancor_output(inp, outp, a))
<1> DEFINE n == a * outp
           d == inp + a
           q == n \div d
<1>1. n \in Nat /\ d \in Nat \ {0} /\ d * outp = inp * outp + n /\ inp * outp \in Nat
  <2>1. a * outp \in Nat /\ inp * outp \in Nat
      BY TimesMonotone
  <2> QED BY <2>1
<1>2. q \in Nat /\ q * d =< n
  <2> HIDE DEF n, d
  <2> QED BY <1>1, Quotient
<1>3. (inp * outp) \in Nat /\ (a * outp) = n /\ n = outp * a
    BY <1>1
<1> HIDE DEF q
<1>4. q =< outp
  <2>1. q * d =< outp * d
    <3>1. outp * d = inp * outp + n
        BY <1>1
    <3>2. q * d \in Nat
        BY <1>1, <1>2
    <3> HIDE DEF n, d
    <3> QED BY <1>1, <1>2, <3>1, <3>2
  <2> HIDE DEF n, d
  <2> QED BY <1>1, <1>2, <2>1, TimesCancel
<1>5. inp * outp =< d * (outp - q)
  <2>1. d * (outp - q) = d * outp - q * d
      BY <1>1, <1>2
  <2>2. q * d \in Int
      BY <1>1, <1>2
  <2> HIDE DEF n, d
  <2> QED BY <1>1, <1>2, <2>1, <2>2
<1>6. get_bancor_output(inp, outp, a) = q
    BY <1>2 DEF get_bancor_output, AtLeastZero, q
<1> QED BY <1>2, <1>4, <1>5, <1>6

\* RAM sold to a user raises the tokens paid by as much as the reserve, so the relay still covers.
LEMMA BuyCovers ==
    ASSUME NEW r \in Markets, RelayCovers(r), NEW after \in Nat \ {0}
    PROVE  LET sale == direct_convert(Relay(r), "quote", after)
               sold == trade(r, after, sale.out, sale.market)
           IN  /\ sold \in Markets /\ RelayCovers(sold) /\ sale.out \in Nat
               /\ sold.reserved = r.reserved + sale.out /\ sold.stake = r.stake + after
<1> DEFINE out == get_bancor_output(r.quote, r.base, after)
           sale == direct_convert(Relay(r), "quote", after)
           sold == trade(r, after, sale.out, sale.market)
<1>1. /\ r.base \in Nat /\ r.quote \in Nat /\ r.max_ram_size \in Nat /\ r.stake \in Nat
      /\ r.reserved \in Nat
    BY DEF Markets
<1>2. out \in Nat /\ out =< r.base /\ r.quote * r.base =< (r.quote + after) * (r.base - out)
    BY <1>1, Traded
<1>3. /\ sale.out = out
      /\ sale.market = [base |-> r.base - out, quote |-> r.quote + after]
    BY DEF direct_convert, SellQuote, Relay
<1> HIDE DEF out, sale
<1>4. /\ sold \in Markets /\ sold.base = r.base - out /\ sold.quote = r.quote + after
      /\ sold.reserved = r.reserved + out /\ sold.stake = r.stake + after
      /\ sold.max_ram_size = r.max_ram_size
  <2>1. /\ r.base - out \in Nat /\ r.quote + after \in Nat /\ r.reserved + out \in Nat
        /\ r.stake + after \in Nat
      BY <1>1, <1>2
  <2>2. sold = [r EXCEPT !.base = r.base - out, !.quote = r.quote + after,
                         !.reserved = r.reserved + out, !.stake = r.stake + after]
      BY <1>3 DEF trade, Markets
  <2> HIDE DEF sold
  <2> QED BY <2>1, <2>2 DEF Markets
<1> HIDE DEF sold
<1>5. RelayCovers(sold)
  <2>1. sold.quote - sold.stake = r.quote - r.stake /\ sold.stake =< sold.quote
      BY <1>1, <1>4 DEF RelayCovers
  <2>2. sold.base + sold.reserved = r.max_ram_size
      BY <1>1, <1>2, <1>4 DEF RelayCovers
  <2>3. r.base * r.quote =< sold.base * sold.quote
    <3>1. r.base - out \in Nat /\ r.quote + after \in Nat
        BY <1>1, <1>2
    <3>2. (r.quote + after) * (r.base - out) = sold.base * sold.quote /\ r.quote * r.base = r.base * r.quote
        BY <1>1, <1>4, <3>1
    <3> QED BY <1>2, <3>2
  <2>4. r.max_ram_size * (r.quote - r.stake) =< r.base * r.quote
      BY DEF RelayCovers
  <2>5. /\ r.max_ram_size * (r.quote - r.stake) \in Int /\ r.base * r.quote \in Int
        /\ sold.base * sold.quote \in Int
      BY <1>1, <1>4 DEF Markets
  <2>6. sold.max_ram_size * (sold.quote - sold.stake) = r.max_ram_size * (r.quote - r.stake)
      BY <1>4, <2>1
  <2>7. sold.max_ram_size * (sold.quote - sold.stake) =< sold.base * sold.quote
      BY <2>3, <2>4, <2>5, <2>6
  <2> QED BY <1>4, <2>1, <2>2, <2>7 DEF RelayCovers
<1> QED BY <1>2, <1>3, <1>4, <1>5 DEF sale, sold

\* RAM bought back: what is paid for it is at most what the relay covers.
LEMMA SellCovers ==
    ASSUME NEW r \in Markets, RelayCovers(r), NEW bytes \in Nat \ {0}, bytes =< r.reserved
    PROVE  LET sale == direct_convert(Relay(r), "base", bytes)
               sold == trade(r, - sale.out, - bytes, sale.market)
           IN  sold.stake >= 0 =>
               /\ sold \in Markets /\ RelayCovers(sold) /\ sale.out \in Nat
               /\ sold.reserved = r.reserved - bytes /\ sold.stake = r.stake - sale.out
<1> DEFINE out == get_bancor_output(r.base, r.quote, bytes)
           sale == direct_convert(Relay(r), "base", bytes)
           sold == trade(r, - sale.out, - bytes, sale.market)
<1> SUFFICES ASSUME sold.stake >= 0
             PROVE  /\ sold \in Markets /\ RelayCovers(sold) /\ sale.out \in Nat
                    /\ sold.reserved = r.reserved - bytes /\ sold.stake = r.stake - sale.out
    OBVIOUS
<1>1. /\ r.base \in Nat /\ r.quote \in Nat /\ r.max_ram_size \in Nat /\ r.stake \in Nat
      /\ r.reserved \in Nat
    BY DEF Markets
<1>2. out \in Nat /\ out =< r.quote /\ r.base * r.quote =< (r.base + bytes) * (r.quote - out)
    BY <1>1, Traded
<1>3. /\ sale.out = out
      /\ sale.market = [base |-> r.base + bytes, quote |-> r.quote - out]
    BY DEF direct_convert, SellBase, Relay
<1> HIDE DEF out, sale
<1>4. /\ sold \in Markets /\ sold.base = r.base + bytes /\ sold.quote = r.quote - out
      /\ sold.reserved = r.reserved - bytes /\ sold.stake = r.stake - out
      /\ sold.max_ram_size = r.max_ram_size
  <2>0. sold.stake = r.stake + (- out)
      BY <1>3 DEF trade, Markets
  <2>1. /\ r.base + bytes \in Nat /\ r.quote - out \in Nat /\ r.reserved - bytes \in Nat
        /\ r.stake - out \in Nat /\ r.reserved + (- bytes) = r.reserved - bytes
        /\ r.stake + (- out) = r.stake - out
      BY <1>1, <1>2, <2>0
  <2>2. sold = [r EXCEPT !.base = r.base + bytes, !.quote = r.quote - out,
                         !.reserved = r.reserved - bytes, !.stake = r.stake - out]
    <3>1. sold = [r EXCEPT !.base = r.base + bytes, !.quote = r.quote - out,
                           !.reserved = r.reserved + (- bytes), !.stake = r.stake + (- out)]
        BY <1>3 DEF trade, Markets
    <3> HIDE DEF sold
    <3> QED BY <2>1, <3>1
  <2> HIDE DEF sold
  <2> QED BY <2>1, <2>2 DEF Markets
<1> HIDE DEF sold
<1>5. RelayCovers(sold)
  <2>1. sold.quote - sold.stake = r.quote - r.stake /\ sold.stake =< sold.quote
      BY <1>1, <1>2, <1>4 DEF RelayCovers
  <2>2. sold.base + sold.reserved = r.max_ram_size
      BY <1>1, <1>2, <1>4 DEF RelayCovers
  <2>3. r.base * r.quote =< sold.base * sold.quote
      BY <1>2, <1>4
  <2>4. r.max_ram_size * (r.quote - r.stake) =< r.base * r.quote
      BY DEF RelayCovers
  <2>5. /\ r.max_ram_size * (r.quote - r.stake) \in Int /\ r.base * r.quote \in Int
        /\ sold.base * sold.quote \in Int
      BY <1>1, <1>4 DEF Markets
  <2>6. sold.max_ram_size * (sold.quote - sold.stake) = r.max_ram_size * (r.quote - r.stake)
      BY <1>4, <2>1
  <2>7. sold.max_ram_size * (sold.quote - sold.stake) =< sold.base * sold.quote
      BY <2>3, <2>4, <2>5, <2>6
  <2> QED BY <1>4, <2>1, <2>2, <2>7 DEF RelayCovers
<1> QED BY <1>2, <1>3, <1>4, <1>5 DEF sale, sold

\* A relay that covers can buy back all that is reserved for what was paid for it.
LEMMA CoversSolvent ==
    ASSUME NEW r \in Markets, RelayCovers(r)
    PROVE  get_bancor_output(r.base, r.quote, r.reserved) =< r.stake
<1> DEFINE m == r.max_ram_size
           n == r.reserved * r.quote
<1>1. /\ r.base \in Nat /\ r.quote \in Nat /\ m \in Nat \ {0} /\ r.stake \in Nat
      /\ r.reserved \in Nat /\ r.base + r.reserved = m /\ r.stake =< r.quote
      /\ m * (r.quote - r.stake) =< r.base * r.quote
    BY DEF Markets, RelayCovers
<1>2. n \in Nat /\ n =< r.stake * m
  <2>1. m * (r.quote - r.stake) = m * r.quote - r.stake * m
      BY <1>1
  <2>2. m * r.quote = r.base * r.quote + n
      BY <1>1
  <2>3. /\ m * r.quote \in Int /\ r.base * r.quote \in Int /\ r.stake * m \in Int /\ n \in Nat
      BY <1>1
  <2> HIDE DEF n, m
  <2> QED BY <1>1, <2>1, <2>2, <2>3
<1> HIDE DEF n, m
<1>3. n \div m \in Nat /\ (n \div m) * m =< n
    BY <1>1, <1>2, Quotient
<1>4. (n \div m) * m =< r.stake * m
  <2>1. (n \div m) * m \in Nat /\ r.stake * m \in Nat
      BY <1>1, <1>3
  <2> QED BY <1>2, <1>3, <2>1
<1>5. n \div m =< r.stake
    BY <1>1, <1>3, <1>4, TimesCancel
<1>6. get_bancor_output(r.base, r.quote, r.reserved) = AtLeastZero(n \div m)
    BY <1>1 DEF get_bancor_output, n
<1> QED BY <1>3, <1>5, <1>6 DEF AtLeastZero

\* u has the books of RAM, of names and of stakes that w has.
KeepsRam(w, u) ==
    u.core[ram_account] = w.core[ram_account] /\ SameRam(w.bw.userres, u.bw.userres)
KeepsNames(w, u) == Slack(u) >= Slack(w)
KeepsStakes(w, u) ==
    /\ u.core[stake_account] = w.core[stake_account]
    /\ u.bw.delband = w.bw.delband /\ u.bw.refunds = w.bw.refunds

\* What is aside leaves the three books alone.
LEMMA AsideKeeps ==
    ASSUME NEW w, NEW u, Aside(w, u)
    PROVE  Shaped(u) /\ KeepsRam(w, u) /\ KeepsNames(w, u) /\ KeepsStakes(w, u)
BY DEF Aside, KeepsRam, KeepsNames, KeepsStakes, Kept

\* Two steps that keep.
LEMMA KeepsTransitive ==
    ASSUME NEW w, Shaped(w), NEW u, Shaped(u), NEW v, Shaped(v),
           KeepsRam(w, u), KeepsNames(w, u), KeepsRam(u, v), KeepsNames(u, v)
    PROVE  KeepsRam(w, v) /\ KeepsNames(w, v)
<1>1. KeepsRam(w, v)
    BY DEF KeepsRam, SameRam
<1>2. KeepsNames(w, v)
    BY DEF KeepsNames, Slack, Shaped, RexShaped
<1> QED BY <1>1, <1>2

\* What eosio.stake lacks.
Debt(w) == Both(w.bw.delband) + Both(w.bw.refunds) - w.core[stake_account]

\* The tables of stakes are tables of stakes.
StakeTables(w) ==
    StakeTable(w.bw.delband) /\ StakeTable(w.bw.refunds) /\ w.core[stake_account] \in Int

\* The invariant of staking: eosio.stake holds what is staked and what is on its way back.
StakeBooks(w) == StakeTables(w) /\ Debt(w) = 0

\* What stakes count is an integer.
LEMMA BothType ==
    ASSUME NEW t, StakeTable(t)
    PROVE  Both(t) \in Int
BY BothErase

\* Stakes that are kept leave the debt as it was.
LEMMA StakesKept ==
    ASSUME NEW w, NEW u, KeepsStakes(w, u), StakeTables(w)
    PROVE  StakeTables(u) /\ Debt(u) = Debt(w)
BY DEF KeepsStakes, StakeTables, Debt

\* A world with another table of stakes, or of refunds.
WithDelband(w, t) == [w EXCEPT !.bw.delband = t]
WithRefunds(w, t) == [w EXCEPT !.bw.refunds = t]

\* Other stakes change neither RAM nor names.
LEMMA DelbandReplaced ==
    ASSUME NEW w, Shaped(w), NEW t
    PROVE  LET u == WithDelband(w, t)
           IN  /\ Shaped(u) /\ KeepsRam(w, u) /\ KeepsNames(w, u)
               /\ u.core = w.core /\ u.bw.refunds = w.bw.refunds /\ u.bw.delband = t
               /\ u.rex = w.rex /\ u.elect = w.elect /\ u.bw.userres = w.bw.userres
<1> DEFINE u == WithDelband(w, t)
<1>1. /\ DOMAIN u = WorldFields /\ DOMAIN u.bw = BwFields /\ u.bw.userres = w.bw.userres
      /\ u.core = w.core /\ u.bw.refunds = w.bw.refunds /\ u.bw.delband = t
      /\ u.rex = w.rex /\ u.elect = w.elect
    BY DEF Shaped, WorldFields, BwFields, WithDelband
<1> HIDE DEF u
<1>2. Shaped(u)
    BY <1>1 DEF Shaped
<1>3. KeepsRam(w, u) /\ KeepsNames(w, u)
    BY <1>1, <1>2 DEF KeepsRam, KeepsNames, SameRam, Slack, Shaped, RexShaped
<1> QED BY <1>1, <1>2, <1>3 DEF u

\* The same for refunds.
LEMMA RefundsReplaced ==
    ASSUME NEW w, Shaped(w), NEW t
    PROVE  LET u == WithRefunds(w, t)
           IN  /\ Shaped(u) /\ KeepsRam(w, u) /\ KeepsNames(w, u)
               /\ u.core = w.core /\ u.bw.refunds = t /\ u.bw.delband = w.bw.delband
               /\ u.rex = w.rex /\ u.elect = w.elect /\ u.bw.userres = w.bw.userres
<1> DEFINE u == WithRefunds(w, t)
<1>1. /\ DOMAIN u = WorldFields /\ DOMAIN u.bw = BwFields /\ u.bw.userres = w.bw.userres
      /\ u.core = w.core /\ u.bw.refunds = t /\ u.bw.delband = w.bw.delband
      /\ u.rex = w.rex /\ u.elect = w.elect
    BY DEF Shaped, WorldFields, BwFields, WithRefunds
<1> HIDE DEF u
<1>2. Shaped(u)
    BY <1>1 DEF Shaped
<1>3. KeepsRam(w, u) /\ KeepsNames(w, u)
    BY <1>1, <1>2 DEF KeepsRam, KeepsNames, SameRam, Slack, Shaped, RexShaped
<1> QED BY <1>1, <1>2, <1>3 DEF u

\* Scheduled transactions are aside.
LEMMA DeferredAside ==
    ASSUME NEW w, Shaped(w), NEW t
    PROVE  Aside(w, [w EXCEPT !.bw.deferred = t])
<1> DEFINE u == [w EXCEPT !.bw.deferred = t]
<1>1. /\ DOMAIN u = WorldFields /\ DOMAIN u.bw = BwFields /\ u.bw.userres = w.bw.userres
      /\ u.core = w.core /\ u.bw.refunds = w.bw.refunds /\ u.bw.delband = w.bw.delband
      /\ u.rex = w.rex /\ u.elect = w.elect
    BY DEF Shaped, WorldFields, BwFields
<1> HIDE DEF u
<1>2. Shaped(u)
    BY <1>1 DEF Shaped
<1> QED BY <1>1, <1>2 DEF Aside, SameRam, Slack, Shaped, RexShaped, u

\* Tokens go to eosio.stake, or come from it.
Others == Holders \ {ram_account, stake_account, names_account}

\* A transfer to eosio.stake pays the debt, one from it incurs it.
LEMMA StakeTransfer ==
    ASSUME NEW w, Shaped(w), NEW x \in Others, NEW amount \in Int, StakeTables(w)
    PROVE  /\ LET u == Transfer(w, x, stake_account, amount)
              IN  /\ Shaped(u) /\ KeepsRam(w, u) /\ KeepsNames(w, u)
                  /\ StakeTables(u) /\ Debt(u) = Debt(w) - amount
           /\ LET u == Transfer(w, stake_account, x, amount)
              IN  /\ Shaped(u) /\ KeepsRam(w, u) /\ KeepsNames(w, u)
                  /\ StakeTables(u) /\ Debt(u) = Debt(w) + amount
<1>0. /\ {stake_account, names_account, ram_account} \subseteq Holders
      /\ stake_account # names_account /\ stake_account # ram_account
      /\ Both(w.bw.delband) \in Int /\ Both(w.bw.refunds) \in Int /\ w.core[stake_account] \in Int
    BY BothType DEF Holders, SystemAccounts, stake_account, names_account, ram_account, StakeTables
<1>1. ASSUME NEW u, DOMAIN u = WorldFields, u.bw = w.bw, u.rex = w.rex, DOMAIN u.core = Holders,
             u.core[ram_account] = w.core[ram_account],
             u.core[names_account] = w.core[names_account],
             u.core[stake_account] \in Int
      PROVE  Shaped(u) /\ KeepsRam(w, u) /\ KeepsNames(w, u) /\ StakeTables(u)
  <2>1. Shaped(u)
      BY <1>1 DEF Shaped
  <2>2. KeepsRam(w, u)
      BY <1>1 DEF KeepsRam, SameRam
  <2>3. KeepsNames(w, u)
      BY <1>1 DEF KeepsNames, Slack, Shaped, RexShaped
  <2> QED BY <1>1, <2>1, <2>2, <2>3 DEF StakeTables
<1>2. LET u == Transfer(w, x, stake_account, amount)
      IN  /\ Shaped(u) /\ KeepsRam(w, u) /\ KeepsNames(w, u)
          /\ StakeTables(u) /\ Debt(u) = Debt(w) - amount
  <2> DEFINE u == Transfer(w, x, stake_account, amount)
  <2>1. /\ DOMAIN u = WorldFields /\ u.bw = w.bw /\ u.rex = w.rex /\ DOMAIN u.core = Holders
        /\ u.core[ram_account] = w.core[ram_account] /\ u.core[names_account] = w.core[names_account]
        /\ u.core[stake_account] = w.core[stake_account] + amount
      BY <1>0 DEF Transfer, Shaped, WorldFields, Others
  <2> HIDE DEF u
  <2>2. u.core[stake_account] \in Int
      BY <1>0, <2>1
  <2>3. Shaped(u) /\ KeepsRam(w, u) /\ KeepsNames(w, u) /\ StakeTables(u)
      BY <1>1, <2>1, <2>2
  <2>4. Debt(u) = Debt(w) - amount
      BY <1>0, <2>1 DEF Debt
  <2> QED BY <2>3, <2>4 DEF u
<1>3. LET u == Transfer(w, stake_account, x, amount)
      IN  /\ Shaped(u) /\ KeepsRam(w, u) /\ KeepsNames(w, u)
          /\ StakeTables(u) /\ Debt(u) = Debt(w) + amount
  <2> DEFINE u == Transfer(w, stake_account, x, amount)
  <2>1. /\ DOMAIN u = WorldFields /\ u.bw = w.bw /\ u.rex = w.rex /\ DOMAIN u.core = Holders
        /\ u.core[ram_account] = w.core[ram_account] /\ u.core[names_account] = w.core[names_account]
        /\ u.core[stake_account] = w.core[stake_account] - amount
      BY <1>0 DEF Transfer, Shaped, WorldFields, Others
  <2> HIDE DEF u
  <2>2. u.core[stake_account] \in Int
      BY <1>0, <2>1
  <2>3. Shaped(u) /\ KeepsRam(w, u) /\ KeepsNames(w, u) /\ StakeTables(u)
      BY <1>1, <2>1, <2>2
  <2>4. Debt(u) = Debt(w) + amount
      BY <1>0, <2>1 DEF Debt
  <2> QED BY <2>3, <2>4 DEF u
<1> QED BY <1>2, <1>3

\* Stake that is delegated or taken back is owed, before any tokens move.
LEMMA StakeMovedKeeps ==
    ASSUME NEW w, Shaped(w), StakeTables(w), NEW from, NEW receiver, NEW net \in Int, NEW cpu \in Int,
           Delegated(w.bw, from, receiver).net + net >= 0,
           Delegated(w.bw, from, receiver).cpu + cpu >= 0
    PROVE  LET u == StakeMoved(w, from, receiver, net, cpu)
           IN  /\ Shaped(u) /\ KeepsRam(w, u) /\ KeepsNames(w, u)
               /\ StakeTables(u) /\ Debt(u) = Debt(w) + net + cpu /\ u.bw.refunds = w.bw.refunds
<1> DEFINE key     == <<from, receiver>>
           d       == w.bw.delband
           old     == Delegated(w.bw, from, receiver)
           stake   == [net |-> old.net + net, cpu |-> old.cpu + cpu]
           total   == Resources(w.bw, receiver)
           row     == [total EXCEPT !.net = @ + net, !.cpu = @ + cpu]
           t       == w.bw.userres
           e       == IF stake = NoStake THEN Erase(d, key) ELSE Put(d, key, stake)
           managed == Managed(w.elect, receiver)
           limits  == w.bw.limits[receiver]
           ram_now == IF {"net", "cpu"} \subseteq managed \/ "ram" \in managed THEN limits.ram
                      ELSE IF row.ram + ram_gift_bytes > limits.ram THEN row.ram + ram_gift_bytes
                      ELSE limits.ram
           after   == [LimitsOf(limits, row, managed) EXCEPT !.ram = ram_now]
           u       == [w EXCEPT !.bw.delband = e, !.bw.userres = PutResources(t, receiver, row),
                                !.bw.limits[receiver] = after]
<1>1. TableShaped(t) /\ DOMAIN row = RowFields /\ row.ram = RamOf(t, receiver)
    BY ResourcesShape DEF Shaped
<1>2. StakeTable(e) /\ Both(e) = Both(d) + net + cpu
  <2>1. old.net + cpu \in Int /\ old.net \in Int /\ old.cpu \in Int /\ BothOf(d, key) = old.net + old.cpu
      BY DEF Delegated, StakeTables, StakeTable, StakeRow, NoStake, BothOf
  <2>2. StakeTable(d) /\ StakeRow(stake)
        /\ stake.net = old.net + net /\ stake.cpu = old.cpu + cpu
      BY <2>1 DEF StakeTables, StakeRow
  <2> HIDE DEF old, stake, d, key
  <2>3. CASE stake = NoStake
    <3>1. stake.net = 0 /\ stake.cpu = 0
        BY <2>3 DEF NoStake
    <3>2. StakeTable(Erase(d, key)) /\ Both(d) \in Int /\ Both(Erase(d, key)) = Both(d) - BothOf(d, key)
        BY <2>2, BothErase
    <3> QED BY <2>1, <2>2, <2>3, <3>1, <3>2
  <2>4. CASE stake # NoStake
    <3>1. /\ StakeTable(Put(d, key, stake)) /\ Both(d) \in Int
          /\ Both(Put(d, key, stake)) = Both(d) - BothOf(d, key) + stake.net + stake.cpu
        BY <2>2, BothPut
    <3> QED BY <2>1, <2>2, <2>4, <3>1
  <2> QED BY <2>3, <2>4
<1> HIDE DEF row, e, after
<1>3. TableShaped(PutResources(t, receiver, row)) /\ SameRam(t, PutResources(t, receiver, row))
  <2> HIDE DEF t
  <2> QED BY <1>1, PutResourcesKeeps
<1>4. /\ DOMAIN u = WorldFields /\ u.rex = w.rex /\ u.core = w.core
      /\ DOMAIN u.bw = BwFields /\ u.bw.userres = PutResources(t, receiver, row)
      /\ u.bw.delband = e /\ u.bw.refunds = w.bw.refunds
    BY DEF Shaped, WorldFields, BwFields
<1>5. StakeMoved(w, from, receiver, net, cpu) = u
    BY DEF StakeMoved, row, e, after
<1> HIDE DEF u
<1>6. Shaped(u)
    BY <1>3, <1>4 DEF Shaped
<1>7. KeepsRam(w, u) /\ KeepsNames(w, u)
    BY <1>3, <1>4 DEF KeepsRam, KeepsNames, Slack, Shaped, RexShaped
<1>8. StakeTables(u) /\ Debt(u) = Debt(w) + net + cpu
    BY <1>2, <1>4, BothType DEF StakeTables, Debt
<1> QED BY <1>4, <1>5, <1>6, <1>7, <1>8

\* A change of stake comes out of a refund under way, or starts one; what is left is due.
LEMMA RefundChangedKeeps ==
    ASSUME NEW w, Shaped(w), StakeTables(w), NEW x, NEW net \in Int, NEW cpu \in Int
    PROVE  LET change == RefundChanged(w, x, net, cpu)
           IN  /\ Shaped(change.w) /\ KeepsRam(w, change.w) /\ KeepsNames(w, change.w)
               /\ StakeTables(change.w) /\ change.due \in Nat
               /\ Debt(change.w) = Debt(w) - net - cpu + change.due
<1> DEFINE old == RefundOf(w.bw, x)
           t   == w.bw.refunds
           row == [net |-> Positive(old.net - net), cpu |-> Positive(old.cpu - cpu),
                   request_time |-> IF net < 0 \/ cpu < 0 THEN now ELSE old.request_time]
           e   == IF row.net + row.cpu = 0 THEN Erase(t, x) ELSE Put(t, x, row)
           due == Positive(net - old.net) + Positive(cpu - old.cpu)
           u   == WithRefunds(w, e)
<1>1. old.net \in Int /\ old.cpu \in Int /\ BothOf(t, x) = old.net + old.cpu /\ StakeTable(t)
    BY DEF RefundOf, StakeTables, StakeTable, StakeRow, NoRefund, BothOf
<1>2. /\ StakeRow(row) /\ due \in Nat
      /\ row.net + row.cpu = old.net + old.cpu - net - cpu + due
  <2> HIDE DEF old
  <2> QED BY <1>1 DEF Positive, StakeRow
<1> HIDE DEF row, due
<1>3. StakeTable(e) /\ Both(e) = Both(t) - net - cpu + due /\ Both(t) \in Int
  <2> HIDE DEF old, t
  <2>1. CASE row.net + row.cpu = 0
    <3>1. StakeTable(Erase(t, x)) /\ Both(t) \in Int /\ Both(Erase(t, x)) = Both(t) - BothOf(t, x)
        BY <1>1, BothErase
    <3> QED BY <1>1, <1>2, <2>1, <3>1
  <2>2. CASE row.net + row.cpu # 0
    <3>1. /\ StakeTable(Put(t, x, row)) /\ Both(t) \in Int
          /\ Both(Put(t, x, row)) = Both(t) - BothOf(t, x) + row.net + row.cpu
        BY <1>1, <1>2, BothPut
    <3> QED BY <1>1, <1>2, <2>2, <3>1 DEF StakeRow
  <2> QED BY <2>1, <2>2
<1> HIDE DEF e
<1>4. /\ Shaped(u) /\ KeepsRam(w, u) /\ KeepsNames(w, u)
      /\ u.core = w.core /\ u.bw.refunds = e /\ u.bw.delband = w.bw.delband
    BY RefundsReplaced
<1>5. RefundChanged(w, x, net, cpu).w = u /\ RefundChanged(w, x, net, cpu).due = due
    BY DEF RefundChanged, WithRefunds, e, row, due
<1> HIDE DEF u
<1>6. StakeTables(u) /\ Debt(u) = Debt(w) - net - cpu + due
    BY <1>2, <1>3, <1>4, BothType DEF StakeTables, Debt
<1> QED BY <1>2, <1>4, <1>5, <1>6

\* What every stake and unstake does to the books.
LEMMA StakeChangeKeeps ==
    ASSUME NEW w, Shaped(w), StakeTables(w), NEW payer \in Users, NEW from, NEW receiver,
           NEW net \in Int, NEW cpu \in Int, NEW to_self,
           Delegated(w.bw, from, receiver).net + net >= 0,
           Delegated(w.bw, from, receiver).cpu + cpu >= 0
    PROVE  LET moved == StakeMoved(w, from, receiver, net, cpu)
               f == WithVotes(RefundScheduled(RefundFor(moved, from, net, cpu, to_self), payer, from),
                              from, net + cpu)
           IN  /\ Shaped(f) /\ KeepsRam(w, f) /\ KeepsNames(w, f)
               /\ StakeTables(f) /\ Debt(f) = Debt(w)
<1> DEFINE moved  == StakeMoved(w, from, receiver, net, cpu)
           change == RefundFor(moved, from, net, cpu, to_self)
           paid   == RefundPaid(change, payer)
           sched  == Schedule(paid, from, change.pending)
           f      == WithVotes(sched, from, net + cpu)
<1>1. /\ Shaped(moved) /\ KeepsRam(w, moved) /\ KeepsNames(w, moved)
      /\ StakeTables(moved) /\ Debt(moved) = Debt(w) + net + cpu
    BY StakeMovedKeeps
<1>d. Debt(w) \in Int /\ Debt(moved) \in Int
  <2> HIDE DEF moved
  <2> QED BY <1>1, BothType DEF StakeTables, Debt
<1> HIDE DEF moved
<1>2. /\ Shaped(change.w) /\ KeepsRam(moved, change.w) /\ KeepsNames(moved, change.w)
      /\ StakeTables(change.w) /\ change.due \in Nat
      /\ Debt(change.w) = Debt(w) + change.due
  <2>1. CASE to_self \/ net + cpu < 0
    <3>1. change = RefundChanged(moved, from, net, cpu)
        BY <2>1 DEF RefundFor
    <3> DEFINE c == RefundChanged(moved, from, net, cpu)
    <3>2. /\ Shaped(c.w) /\ KeepsRam(moved, c.w) /\ KeepsNames(moved, c.w)
          /\ StakeTables(c.w) /\ c.due \in Nat
          /\ Debt(c.w) = Debt(moved) - net - cpu + c.due
        BY <1>1, RefundChangedKeeps
    <3> HIDE DEF c
    <3> QED BY <1>1, <1>d, <3>1, <3>2 DEF c
  <2>2. CASE ~ (to_self \/ net + cpu < 0)
    <3>1. change.w = moved /\ change.due = net + cpu /\ net + cpu \in Nat
        BY <2>2 DEF RefundFor, NoRefundChange, Positive
    <3>2. KeepsRam(moved, moved) /\ KeepsNames(moved, moved)
        BY <1>1 DEF KeepsRam, KeepsNames, SameRam, Slack, Shaped, RexShaped
    <3> HIDE DEF change
    <3> QED BY <1>1, <1>d, <3>1, <3>2
  <2> QED BY <2>1, <2>2
<1>3. KeepsRam(w, change.w) /\ KeepsNames(w, change.w)
  <2> HIDE DEF change
  <2> QED BY <1>1, <1>2, KeepsTransitive
<1> HIDE DEF change
<1>e. Debt(change.w) \in Int
    BY <1>2, <1>d
<1>4. /\ Shaped(paid) /\ KeepsRam(w, paid) /\ KeepsNames(w, paid)
      /\ StakeTables(paid) /\ Debt(paid) = Debt(w)
  <2>1. CASE change.due > 0
    <3> DEFINE u == Transfer(change.w, payer, stake_account, change.due)
    <3>1. payer \in Others
        BY SystemAssumption DEF Others, Holders, SystemAccounts
    <3>2. change.due \in Int
        BY <1>2
    <3>3. /\ Shaped(u) /\ KeepsRam(change.w, u) /\ KeepsNames(change.w, u)
          /\ StakeTables(u) /\ Debt(u) = Debt(change.w) - change.due
        BY <1>2, <3>1, <3>2, StakeTransfer
    <3>4. paid = u
        BY <2>1 DEF RefundPaid
    <3> HIDE DEF u, paid
    <3>5. KeepsRam(w, u) /\ KeepsNames(w, u)
        BY <1>2, <1>3, <3>3, KeepsTransitive
    <3> QED BY <1>2, <1>d, <1>e, <3>3, <3>4, <3>5
  <2>2. CASE ~ (change.due > 0)
    <3>1. paid = change.w /\ change.due = 0
        BY <1>2, <2>2 DEF RefundPaid
    <3> HIDE DEF paid
    <3> QED BY <1>2, <1>3, <1>d, <3>1
  <2> QED BY <2>1, <2>2
<1> HIDE DEF paid
<1>5. Aside(paid, sched)
    BY <1>4, DeferredAside DEF Schedule
<1> HIDE DEF sched
<1>6. Aside(sched, f)
  <2>1. Shaped(sched)
      BY <1>5, AsideKeeps
  <2> DEFINE v == update_rex_stake(sched, from)
  <2>2. Aside(sched, v)
      BY <2>1, UpdateRexStakeAside
  <2> HIDE DEF v
  <2>3. Shaped(v)
      BY <2>2, AsideKeeps
  <2>4. Aside(v, update_voting_power(v, from, net + cpu, now))
      BY <2>3, VotingPowerAside
  <2>5. f = update_voting_power(v, from, net + cpu, now)
      BY DEF WithVotes, v
  <2> HIDE DEF f
  <2> QED BY <2>1, <2>2, <2>4, <2>5, AsideTransitive
<1>7. Aside(paid, f)
  <2> HIDE DEF f
  <2> QED BY <1>4, <1>5, <1>6, AsideTransitive
<1> HIDE DEF f
<1>8. Shaped(f) /\ KeepsRam(paid, f) /\ KeepsNames(paid, f) /\ KeepsStakes(paid, f)
    BY <1>7, AsideKeeps
<1>9. StakeTables(f) /\ Debt(f) = Debt(paid)
    BY <1>4, <1>8, StakesKept
<1>10. KeepsRam(w, f) /\ KeepsNames(w, f)
    BY <1>4, <1>8, KeepsTransitive
<1>11. f = WithVotes(RefundScheduled(RefundFor(StakeMoved(w, from, receiver, net, cpu),
                                               from, net, cpu, to_self), payer, from),
                     from, net + cpu)
    BY Zenon DEF f, sched, paid, change, moved, RefundScheduled
<1> QED BY <1>4, <1>8, <1>9, <1>10, <1>11

\* A refund erased and paid.
LEMMA RefundErased ==
    ASSUME NEW w, Shaped(w), StakeTables(w), NEW x \in Users, NEW amount \in Int,
           BothOf(w.bw.refunds, x) = amount
    PROVE  LET f == Transfer([w EXCEPT !.bw.refunds = Erase(@, x)], stake_account, x, amount)
           IN  /\ Shaped(f) /\ KeepsRam(w, f) /\ KeepsNames(w, f)
               /\ StakeTables(f) /\ Debt(f) = Debt(w)
<1> DEFINE e == Erase(w.bw.refunds, x)
           u == WithRefunds(w, e)
           f == Transfer(u, stake_account, x, amount)
<1>1. /\ StakeTable(e) /\ Both(w.bw.refunds) \in Int /\ Both(e) = Both(w.bw.refunds) - amount
    BY BothErase DEF StakeTables
<1> HIDE DEF e
<1>2. /\ Shaped(u) /\ KeepsRam(w, u) /\ KeepsNames(w, u)
      /\ u.core = w.core /\ u.bw.refunds = e /\ u.bw.delband = w.bw.delband
    BY RefundsReplaced
<1> HIDE DEF u
<1>3. StakeTables(u) /\ Debt(u) = Debt(w) - amount /\ Debt(w) \in Int
    BY <1>1, <1>2, BothType DEF StakeTables, Debt
<1>4. x \in Others
    BY SystemAssumption DEF Others, Holders, SystemAccounts
<1>5. /\ Shaped(f) /\ KeepsRam(u, f) /\ KeepsNames(u, f)
      /\ StakeTables(f) /\ Debt(f) = Debt(u) + amount
    BY <1>2, <1>3, <1>4, StakeTransfer
<1> HIDE DEF f
<1>7. KeepsRam(w, f) /\ KeepsNames(w, f)
    BY <1>2, <1>5, KeepsTransitive
<1> QED BY <1>3, <1>5, <1>7 DEF WithRefunds, f, u, e

\* A refund that is paid leaves the table.
LEMMA RefundedKeeps ==
    ASSUME NEW w, Shaped(w), StakeTables(w), NEW x \in Users, x \in DOMAIN w.bw.refunds
    PROVE  LET f == Refunded(w, x)
           IN  /\ Shaped(f) /\ KeepsRam(w, f) /\ KeepsNames(w, f)
               /\ StakeTables(f) /\ Debt(f) = Debt(w)
<1> DEFINE amount == w.bw.refunds[x].net + w.bw.refunds[x].cpu
<1>1. BothOf(w.bw.refunds, x) = amount /\ amount \in Int
    BY DEF StakeTables, StakeTable, StakeRow, BothOf
<1> HIDE DEF amount
<1>2. Refunded(w, x) = Transfer([w EXCEPT !.bw.refunds = Erase(@, x)], stake_account, x, amount)
    BY DEF Refunded, amount
<1> QED BY <1>1, <1>2, RefundErased

-----------------------------------------------------------------------------
\* A handler's next helper leaves the books alone, too.
LEMMA ThenRex ==
    ASSUME NEW v, Shaped(v), NEW w, Aside(v, w), NEW r, RexAside(w.rex, r)
    PROVE  Aside(v, [w EXCEPT !.rex = r])
<1>1. Shaped(w)
    BY DEF Aside
<1>2. Aside(w, [w EXCEPT !.rex = r])
    BY <1>1, RexChangeAside
<1> QED BY <1>2, AsideTransitive

\* First the maintenance.
LEMMA ThenRunrex ==
    ASSUME NEW v, Shaped(v), NEW w, Aside(v, w), NEW max \in Nat, NEW ct
    PROVE  Aside(v, runrex(w, max, ct))
<1>1. Shaped(w)
    BY DEF Aside
<1>2. Aside(w, runrex(w, max, ct))
    BY <1>1, RunrexAside
<1> QED BY <1>2, AsideTransitive

\* The account of an owner.
LEMMA ThenAccount ==
    ASSUME NEW v, Shaped(v), NEW w, Aside(v, w), NEW x, NEW proceeds, NEW delta, NEW force, NEW ct
    PROVE  Aside(v, update_rex_account(w, x, proceeds, delta, force, ct))
<1>1. Shaped(w)
    BY DEF Aside
<1>2. Aside(w, update_rex_account(w, x, proceeds, delta, force, ct))
    BY <1>1, UpdateRexAccountAside
<1> QED BY <1>2, AsideTransitive

\* The limits of a receiver.
LEMMA ThenLimits ==
    ASSUME NEW v, Shaped(v), NEW w, Aside(v, w), NEW x, NEW net, NEW cpu
    PROVE  Aside(v, update_resource_limits(w, x, net, cpu))
<1>1. Shaped(w)
    BY DEF Aside
<1>2. Aside(w, update_resource_limits(w, x, net, cpu))
    BY <1>1, ResourceLimitsAside
<1> QED BY <1>2, AsideTransitive

\* Tokens of a user and of the exchange.
LEMMA ThenTransfer ==
    ASSUME NEW v, Shaped(v), NEW w, Aside(v, w), NEW x \in Users, NEW amount
    PROVE  /\ Aside(v, Transfer(w, x, rex_account, amount))
           /\ Aside(v, Transfer(w, rex_account, x, amount))
<1>1. Shaped(w)
    BY DEF Aside
<1>2. /\ x \in Holders \ (Kept \cup {names_account})
      /\ rex_account \in Holders \ (Kept \cup {names_account})
    BY SystemAssumption DEF Holders, SystemAccounts, Kept, rex_account, names_account, ram_account,
             stake_account, bpay_account, vpay_account
<1>3. Aside(w, Transfer(w, x, rex_account, amount)) /\ Aside(w, Transfer(w, rex_account, x, amount))
    BY <1>1, <1>2, TransferAside
<1> QED BY <1>3, AsideTransitive

\* Another balance, or another order, of x.
LEMMA BalanceAside ==
    ASSUME NEW r, RexShaped(r), NEW x, NEW b
    PROVE  RexAside(r, [r EXCEPT !.balances[x] = b])
BY DEF RexAside, RexShaped, RexFields

\* The balance of an owner, within a world.
LEMMA ThenBalance ==
    ASSUME NEW v, Shaped(v), NEW w, Aside(v, w), NEW x, NEW b
    PROVE  Aside(v, [w EXCEPT !.rex.balances[x] = b])
<1>1. RexShaped(w.rex)
    BY DEF Aside, Shaped
<1>2. RexAside(w.rex, [w.rex EXCEPT !.balances[x] = b])
    BY <1>1, BalanceAside
<1>3. Aside(v, [w EXCEPT !.rex = [w.rex EXCEPT !.balances[x] = b]])
    BY <1>2, ThenRex
<1> QED BY <1>3

-----------------------------------------------------------------------------
\* The actions of the exchange.
LEMMA DepositAside ==
    ASSUME Shaped(World), NEW x \in Users, NEW amount
    PROVE  Aside(World, [Transfer(World, x, rex_account, amount) EXCEPT !.rex = transfer_to_fund(@, x, amount)])
<1> DEFINE w1 == Transfer(World, x, rex_account, amount)
           r == transfer_to_fund(w1.rex, x, amount)
<1>1. Aside(World, w1)
    BY AsideReflexive, ThenTransfer
<1> HIDE DEF w1
<1>2. RexAside(w1.rex, r)
    BY <1>1, FundAside DEF Aside, Shaped
<1> HIDE DEF r
<1>3. Aside(World, [w1 EXCEPT !.rex = r])
    BY <1>1, <1>2, ThenRex
<1> QED BY <1>3 DEF r, w1

\* The tables after withdraw.
LEMMA WithdrawAside ==
    ASSUME Shaped(World), NEW x \in Users, NEW amount
    PROVE  LET w == update_rex_account(World, x, 0, 0, FALSE, now)
           IN  Aside(World, [Transfer(w, rex_account, x, amount) EXCEPT !.rex = transfer_from_fund(@, x, amount)])
<1> DEFINE w0 == update_rex_account(World, x, 0, 0, FALSE, now)
           w1 == Transfer(w0, rex_account, x, amount)
           r == transfer_from_fund(w1.rex, x, amount)
<1>1. Aside(World, w0)
    BY AsideReflexive, ThenAccount
<1> HIDE DEF w0
<1>2. Aside(World, w1)
    BY <1>1, ThenTransfer
<1> HIDE DEF w1
<1>3. RexAside(w1.rex, r)
    BY <1>2, FundAside DEF Aside, Shaped
<1> HIDE DEF r
<1>4. Aside(World, [w1 EXCEPT !.rex = r])
    BY <1>2, <1>3, ThenRex
<1> QED BY <1>4 DEF r, w1, w0

\* A step that leaves the books alone.
Quiet == \E w : Aside(World, w) /\ Become(w)

\* An action on the exchange that ends in a world aside.
LEMMA DoneQuiet ==
    ASSUME NEW w, Aside(World, w), NEW x, Done(w, x)
    PROVE  Quiet
BY DEF Quiet, Done

\* deposit.
LEMMA DepositQuiet ==
    ASSUME Shaped(World), NEW x \in Users, NEW amount, Deposit(x, amount)
    PROVE  Quiet
BY DepositAside DEF Quiet, Deposit

\* withdraw.
LEMMA WithdrawQuiet ==
    ASSUME Shaped(World), NEW x \in Users, NEW amount, Withdraw(x, amount)
    PROVE  Quiet
<1> DEFINE w == update_rex_account(World, x, 0, 0, FALSE, now)
           f == [Transfer(w, rex_account, x, amount) EXCEPT !.rex = transfer_from_fund(@, x, amount)]
<1>1. Aside(World, f)
    BY WithdrawAside
<1>2. Done(f, x)
    BY Zenon DEF Withdraw, WithdrawFrom
<1> HIDE DEF f
<1> QED BY <1>1, <1>2, DoneQuiet

\* buyrex.
LEMMA BuyRexQuiet ==
    ASSUME Shaped(World), NEW x \in Users, NEW amount, BuyRex(x, amount)
    PROVE  Quiet
<1> DEFINE q == transfer_from_fund(rex, x, amount)
           r == Bought(q, x, amount, now)
           w1 == [World EXCEPT !.rex = r]
           w2 == runrex(w1, 2, now)
           delta == VoteStake(r, x) - VoteStake(rex, x)
           w3 == update_rex_account(w2, x, 0, delta, FALSE, now)
<1>1. RexAside(rex, r)
  <2>1. RexAside(rex, q)
      BY FundAside DEF Shaped, World
  <2> HIDE DEF q
  <2>2. RexAside(q, r)
      BY <2>1, BoughtAside DEF RexAside
  <2> HIDE DEF r
  <2> QED BY <2>1, <2>2, RexAsideTransitive
<1>d. Done(w3, x)
    BY Zenon DEF BuyRex, BuyRexDone
<1> HIDE DEF r, delta
<1>2. Aside(World, w1)
    BY <1>1, AsideReflexive, ThenRex DEF World
<1> HIDE DEF w1
<1>3. Aside(World, w2)
    BY <1>2, ThenRunrex
<1> HIDE DEF w2
<1>4. Aside(World, w3)
    BY <1>3, ThenAccount
<1> HIDE DEF w3
<1> QED BY <1>d, <1>4, DoneQuiet

\* Matured REX of an owner.
LEMMA ThenMatured ==
    ASSUME NEW v, Shaped(v), NEW w, Aside(v, w), NEW x
    PROVE  Aside(v, Matured(w, x))
<1> DEFINE b == process_rex_maturities(w.rex.balances[x], now)
<1>1. Aside(v, [w EXCEPT !.rex.balances[x] = b])
    BY ThenBalance
<1>2. Matured(w, x) = [w EXCEPT !.rex.balances[x] = b]
    BY DEF Matured
<1> QED BY <1>1, <1>2

\* An order that waits.
LEMMA QueueAside ==
    ASSUME NEW r, RexShaped(r), NEW x, NEW amount
    PROVE  RexAside(r, Queue(r, x, amount))
<1> DEFINE row == IF x \in DOMAIN r.orders
                  THEN [r.orders[x] EXCEPT !.rex_requested = @ + amount]
                  ELSE [rex_requested |-> amount, is_open |-> TRUE, proceeds |-> 0,
                        stake_change |-> 0, order_time |-> now]
           t == Put(r.orders, x, row)
<1>1. Queue(r, x, amount) = [r EXCEPT !.orders = t]
    BY DEF Queue
<1> HIDE DEF row
<1>2. IsFiniteSet(DOMAIN t)
    BY FS_AddElement DEF Put, RexShaped
<1> HIDE DEF t
<1>3. RexAside(r, [r EXCEPT !.orders = t])
    BY <1>2, TableAside
<1> QED BY <1>1, <1>3

\* sellrex: an order that is filled or waits.
LEMMA SellRexQuiet ==
    ASSUME Shaped(World), NEW x \in Users, NEW amount, SellRex(x, amount)
    PROVE  Quiet
<1> DEFINE w1 == runrex(World, 2, now)
           w2 == Matured(w1, x)
           outcome == fill_rex_order(w2.rex, x, amount)
           w3 == [w2 EXCEPT !.rex = outcome.rex]
           w4 == update_rex_account(w3, x, outcome.proceeds, outcome.stake_change, FALSE, now)
           w5 == [w4 EXCEPT !.rex = Queue(@, x, amount)]
<1>d. Done(IF outcome.success THEN w4 ELSE w5, x)
    BY Zenon DEF SellRex, SellRexFrom, SellRexOutcome, SellRexDone
<1>1. Aside(World, w1)
    BY AsideReflexive, ThenRunrex
<1> HIDE DEF w1
<1>2. Aside(World, w2)
    BY <1>1, ThenMatured
<1> HIDE DEF w2
<1>3. Aside(World, w3)
  <2>1. RexAside(w2.rex, outcome.rex)
      BY <1>2, FillAside DEF Aside, Shaped
  <2> HIDE DEF outcome
  <2> QED BY <1>2, <2>1, ThenRex
<1> HIDE DEF w3, outcome
<1>4. Aside(World, w4)
    BY <1>3, ThenAccount
<1> HIDE DEF w4
<1>5. Aside(World, w5)
  <2> DEFINE q == Queue(w4.rex, x, amount)
  <2>1. RexAside(w4.rex, q)
      BY <1>4, QueueAside DEF Aside, Shaped
  <2> HIDE DEF q
  <2>2. Aside(World, [w4 EXCEPT !.rex = q])
      BY <1>4, <2>1, ThenRex
  <2> QED BY <2>2 DEF q
<1> HIDE DEF w5
<1> QED BY <1>d, <1>4, <1>5, DoneQuiet

\* cnclrexorder.
LEMMA CnclRexOrderQuiet ==
    ASSUME Shaped(World), NEW x \in Users, CnclRexOrder(x)
    PROVE  Quiet
<1> DEFINE t == Erase(rex.orders, x)
           r == [rex EXCEPT !.orders = t]
<1>1. RexAside(rex, r)
  <2>1. IsFiniteSet(DOMAIN t) /\ RexShaped(rex)
      BY FS_RemoveElement DEF Erase, Shaped, RexShaped, World
  <2> HIDE DEF t
  <2> QED BY <2>1, TableAside
<1>2. Aside(World, [World EXCEPT !.rex = r])
    BY <1>1, AsideReflexive, ThenRex DEF World
<1>3. [World EXCEPT !.rex = r] = [World EXCEPT !.rex.orders = Erase(@, x)]
    BY DEF World
<1> QED BY <1>2, <1>3 DEF Quiet, CnclRexOrder

\* rentcpu and rentnet.
LEMMA RentRexQuiet ==
    ASSUME Shaped(World), NEW kind, NEW x \in Users, NEW receiver, NEW payment, NEW fund,
           RentRex(kind, x, receiver, payment, fund)
    PROVE  Quiet
<1> DEFINE w == runrex(World, 2, now)
           rented == RentedTokens(w.rex.pool, payment)
           loan == [kind |-> kind, from |-> x, receiver |-> receiver, payment |-> payment,
                    balance |-> fund, total_staked |-> rented, expiration |-> now + Term]
           q == transfer_from_fund(w.rex, x, payment + fund)
           r == add_loan_to_rex_pool(q, payment, rented, TRUE, now)
           s == AddLoan(r, loan)
           net == IF kind = "net" THEN rented ELSE 0
           cpu == IF kind = "cpu" THEN rented ELSE 0
           w1 == [w EXCEPT !.rex = s]
           w2 == update_resource_limits(w1, receiver, net, cpu)
<1>d. Done(w2, x)
  <2>1. Done(update_resource_limits(
                [w EXCEPT !.rex =
                    AddLoan(add_loan_to_rex_pool(transfer_from_fund(@, x, payment + fund),
                                                 payment, rented, TRUE, now), loan)],
                receiver, net, cpu), x)
      BY Zenon DEF RentRex, RentRexFrom, RentTokens
  <2>2. [w EXCEPT !.rex =
            AddLoan(add_loan_to_rex_pool(transfer_from_fund(@, x, payment + fund),
                                         payment, rented, TRUE, now), loan)] = w1
    <3> HIDE DEF w, rented, loan
    <3> QED OBVIOUS
  <2> HIDE DEF w1, net, cpu, w, rented, loan
  <2> QED BY <2>1, <2>2
<1>1. Aside(World, w)
    BY AsideReflexive, ThenRunrex
<1> HIDE DEF w, rented, loan, net, cpu
<1>2. RexAside(w.rex, q)
    BY <1>1, FundAside DEF Aside, Shaped
<1> HIDE DEF q
<1>3. RexAside(q, r)
  <2>1. RexShaped(q)
      BY <1>2 DEF RexAside
  <2> QED BY <2>1, AddLoanToPoolAside
<1> HIDE DEF r
<1>4. RexAside(r, s)
    BY <1>3, TableAside DEF RexAside, AddLoan
<1> HIDE DEF s
<1>5. RexAside(w.rex, s)
    BY <1>2, <1>3, <1>4, RexAsideTransitive
<1>6. Aside(World, w1)
    BY <1>1, <1>5, ThenRex
<1> HIDE DEF w1
<1>7. Aside(World, w2)
    BY <1>6, ThenLimits
<1> HIDE DEF w2
<1> QED BY <1>d, <1>7, DoneQuiet

\* Funds of a loan, into it and out of it.
LEMMA LoanFundsQuiet ==
    ASSUME Shaped(World), NEW kind, NEW x \in Users, NEW num, NEW amount,
           FundLoan(kind, x, num, amount) \/ DefundLoan(kind, x, num, amount)
    PROVE  Quiet
<1>0. RexShaped(rex)
    BY DEF Shaped, World
<1>1. CASE FundLoan(kind, x, num, amount)
  <2> DEFINE q == transfer_from_fund(rex, x, amount)
             r == LoanFunded(q, num, amount)
  <2>1. RexAside(rex, q)
      BY <1>0, FundAside
  <2> HIDE DEF q
  <2>2. RexAside(q, r)
      BY <2>1 DEF RexAside, RexShaped, RexFields, LoanFunded
  <2> HIDE DEF r
  <2>3. Aside(World, [World EXCEPT !.rex = r])
      BY <2>1, <2>2, RexAsideTransitive, AsideReflexive, ThenRex DEF World
  <2>4. [World EXCEPT !.rex = r] = [World EXCEPT !.rex = LoanFunded(transfer_from_fund(@, x, amount), num, amount)]
      BY DEF World, r, q
  <2> QED BY <1>1, <2>3, <2>4 DEF Quiet, FundLoan
<1>2. CASE DefundLoan(kind, x, num, amount)
  <2> DEFINE q == LoanFunded(rex, num, - amount)
             r == transfer_to_fund(q, x, amount)
  <2>1. RexAside(rex, q)
      BY <1>0 DEF RexAside, RexShaped, RexFields, LoanFunded
  <2> HIDE DEF q
  <2>2. RexAside(q, r)
      BY <2>1, FundAside DEF RexAside
  <2> HIDE DEF r
  <2>3. Aside(World, [World EXCEPT !.rex = r])
      BY <2>1, <2>2, RexAsideTransitive, AsideReflexive, ThenRex DEF World
  <2>4. [World EXCEPT !.rex = r] = [World EXCEPT !.rex =
            transfer_to_fund(LoanFunded(@, num, - amount), x, amount)]
      BY DEF World, r, q
  <2> QED BY <1>2, <2>3, <2>4 DEF Quiet, DefundLoan
<1> QED BY <1>1, <1>2

\* updaterex.
LEMMA UpdateRexQuiet ==
    ASSUME Shaped(World), NEW x \in Users, UpdateRex(x)
    PROVE  Quiet
<1> DEFINE w1 == runrex(World, 2, now)
           worth == WorthNow(w1.rex, x)
           w2 == [w1 EXCEPT !.rex.balances[x].vote_stake = worth]
           delta == worth - w1.rex.balances[x].vote_stake
           w3 == update_rex_account(w2, x, 0, delta, TRUE, now)
           w4 == Matured(w3, x)
<1>d. Done(w4, x)
    BY Zenon DEF UpdateRex, UpdateRexFrom, Revalued
<1>1. Aside(World, w1)
    BY AsideReflexive, ThenRunrex
<1> HIDE DEF w1, worth, delta
<1>2. Aside(World, w2)
  <2> DEFINE b == [w1.rex.balances[x] EXCEPT !.vote_stake = worth]
  <2>1. Aside(World, [w1 EXCEPT !.rex.balances[x] = b])
      BY <1>1, ThenBalance
  <2>2. w2 = [w1 EXCEPT !.rex.balances[x] = b]
      OBVIOUS
  <2> QED BY <2>1, <2>2
<1> HIDE DEF w2
<1>3. Aside(World, w3)
    BY <1>2, ThenAccount
<1> HIDE DEF w3
<1>4. Aside(World, w4)
    BY <1>3, ThenMatured
<1> HIDE DEF w4
<1> QED BY <1>d, <1>4, DoneQuiet

\* setrex.
LEMMA SetRexQuiet ==
    ASSUME Shaped(World), NEW balance, SetRex(balance)
    PROVE  Quiet
<1> DEFINE p == [rex.pool EXCEPT !.total_rent = balance]
           r == [rex EXCEPT !.pool = p]
<1>1. RexShaped(rex) /\ DOMAIN p = PoolFields /\ p.namebid_proceeds = rex.pool.namebid_proceeds
    BY DEF Shaped, RexShaped, World, PoolFields
<1> HIDE DEF p
<1>2. RexAside(rex, r)
    BY <1>1, PoolAside
<1>3. Aside(World, [World EXCEPT !.rex = r])
    BY <1>2, AsideReflexive, ThenRex DEF World
<1>4. [World EXCEPT !.rex = r] = [World EXCEPT !.rex.pool.total_rent = balance]
    BY DEF World, p
<1> QED BY <1>3, <1>4 DEF Quiet, SetRex

\* rexexec, by anybody.
LEMMA RexExecQuiet ==
    ASSUME Shaped(World), NEW max \in MaxExecs, RexExec(max)
    PROVE  Quiet
<1>1. max \in Nat
    BY SystemAssumption
<1>2. Aside(World, runrex(World, max, now))
    BY <1>1, AsideReflexive, ThenRunrex
<1>3. Become(runrex(World, max, now))
    BY Zenon DEF RexExec, RexExecDone
<1> QED BY <1>2, <1>3, Zenon DEF Quiet

\* Maintenance and collecting, with which moves of REX begin.
LEMMA MaintainedAside ==
    ASSUME Shaped(World), NEW x
    PROVE  Aside(World, Maintained(x))
<1> DEFINE w == runrex(World, 2, now)
<1>1. Aside(World, w)
    BY AsideReflexive, ThenRunrex
<1> HIDE DEF w
<1>2. Aside(World, update_rex_account(w, x, 0, 0, FALSE, now))
    BY <1>1, ThenAccount
<1> QED BY <1>2 DEF Maintained, w

\* consolidate.
LEMMA ConsolidateQuiet ==
    ASSUME Shaped(World), NEW x \in Users, Consolidate(x)
    PROVE  Quiet
<1> DEFINE w == Maintained(x)
           b == consolidate_rex_balance(w.rex.balances[x], SellOrder(w.rex, x), now)
           f == [w EXCEPT !.rex.balances[x] = b]
<1>d. Done(f, x)
    BY DEF Consolidate, ConsolidateFrom
<1>1. Aside(World, w)
    BY MaintainedAside
<1> HIDE DEF w, b
<1>2. Aside(World, f)
    BY <1>1, ThenBalance
<1> HIDE DEF f
<1> QED BY <1>d, <1>2, DoneQuiet

\* mvtosavings.
LEMMA MvToSavingsQuiet ==
    ASSUME Shaped(World), NEW x \in Users, NEW amount, MvToSavings(x, amount)
    PROVE  Quiet
<1> DEFINE w == Maintained(x)
           b == MoveToSavings(process_rex_maturities(w.rex.balances[x], now), amount)
           f == [w EXCEPT !.rex.balances[x] = b]
<1>d. Done(f, x)
    BY Zenon DEF MvToSavings, SettledMvToSavings, MvToSavingsFrom, SaveRex
<1>1. Aside(World, w)
    BY MaintainedAside
<1> HIDE DEF w, b
<1>2. Aside(World, f)
    BY <1>1, ThenBalance
<1> HIDE DEF f
<1> QED BY <1>d, <1>2, DoneQuiet

\* mvfrsavings.
LEMMA MvFrSavingsQuiet ==
    ASSUME Shaped(World), NEW x \in Users, NEW amount, MvFrSavings(x, amount)
    PROVE  Quiet
<1> DEFINE w1 == runrex(World, 2, now)
           w2 == Matured(w1, x)
           b  == FromSavings(w2.rex.balances[x], amount, now)
           w3 == [w2 EXCEPT !.rex.balances[x] = b]
           f  == update_rex_account(w3, x, 0, 0, FALSE, now)
<1>d. Done(f, x)
  <2> DEFINE u == [w2 EXCEPT !.rex.balances[x] = FromSavings(@, amount, now)]
  <2>1. Done(update_rex_account(u, x, 0, 0, FALSE, now), x)
      BY Zenon DEF MvFrSavings, MvFrSavingsFrom
  <2>2. u = w3
    <3> HIDE DEF w2
    <3> QED OBVIOUS
  <2> HIDE DEF u, w3
  <2> QED BY <2>1, <2>2
<1>1. Aside(World, w1)
    BY AsideReflexive, ThenRunrex
<1> HIDE DEF w1
<1>2. Aside(World, w2)
    BY <1>1, ThenMatured
<1> HIDE DEF w2, b
<1>3. Aside(World, w3)
    BY <1>2, ThenBalance
<1> HIDE DEF w3
<1>4. Aside(World, f)
    BY <1>3, ThenAccount
<1> HIDE DEF f
<1> QED BY <1>d, <1>4, DoneQuiet

\* closerex.
LEMMA CloseRexQuiet ==
    ASSUME Shaped(World), NEW x \in Users, CloseRex(x)
    PROVE  Quiet
<1> DEFINE w0 == IF rex.pool.exists THEN runrex(World, 2, now) ELSE World
           w1 == update_rex_account(w0, x, 0, 0, FALSE, now)
           f  == [w1 EXCEPT !.rex.funds = IF Unused(w1.rex, x) THEN Erase(@, x) ELSE @,
                            !.rex.balances = Erase(@, x)]
<1>d. Done(f, x)
    BY Zenon DEF CloseRex, CloseRexFrom
<1>1. Aside(World, w0)
  <2>1. Aside(World, World) /\ Aside(World, runrex(World, 2, now))
      BY AsideReflexive, ThenRunrex
  <2> QED BY <2>1
<1> HIDE DEF w0
<1>2. Aside(World, w1)
    BY <1>1, ThenAccount
<1> HIDE DEF w1
<1>3. Aside(World, f)
  <2> DEFINE funds == IF Unused(w1.rex, x) THEN Erase(w1.rex.funds, x) ELSE w1.rex.funds
             balances == Erase(w1.rex.balances, x)
             q == [w1.rex EXCEPT !.funds = funds]
             r == [q EXCEPT !.balances = balances]
  <2>1. DOMAIN w1 = WorldFields /\ RexShaped(w1.rex)
      BY <1>2 DEF Aside, Shaped
  <2>2. RexAside(w1.rex, q)
    <3> HIDE DEF funds
    <3> QED BY <2>1, TableAside
  <2>3. RexAside(q, r)
    <3>1. RexShaped(q)
        BY <2>2 DEF RexAside
    <3> HIDE DEF balances, q
    <3> QED BY <3>1, TableAside
  <2>4. RexAside(w1.rex, r)
    <3> HIDE DEF q, r
    <3> QED BY <2>2, <2>3, RexAsideTransitive
  <2>5. f = [w1 EXCEPT !.rex = r]
      BY <2>1 DEF RexShaped, WorldFields, RexFields
  <2> HIDE DEF r, f
  <2> QED BY <1>2, <2>4, <2>5, ThenRex
<1> HIDE DEF f
<1> QED BY <1>d, <1>3, DoneQuiet

-----------------------------------------------------------------------------
\* The other steps that leave the books alone: votes, limits and pay.
LEMMA ElectQuiet ==
    ASSUME Shaped(World), NEW w, Aside(World, w), NEW e, Become([w EXCEPT !.elect = e])
    PROVE  Quiet
<1>1. Shaped(w)
    BY DEF Aside
<1>2. Aside(w, [w EXCEPT !.elect = e])
    BY <1>1, ElectAside
<1>3. Aside(World, [w EXCEPT !.elect = e])
    BY <1>2, AsideTransitive
<1> QED BY <1>3 DEF Quiet

\* Votes, proxies and producers.
LEMMA VoterQuiet ==
    ASSUME Shaped(World), NEW x \in Users, VoterStep(x) \/ ProducerStep(x)
    PROVE  Quiet
<1>1. ASSUME NEW proxy, NEW producers, VoteProducer(x, proxy, producers)
      PROVE  Quiet
  <2> DEFINE valued == update_rex_stake(World, x)
             e == update_votes(valued.elect, x, proxy, producers, now)
  <2>1. Aside(World, valued)
      BY UpdateRexStakeAside
  <2>2. Become([valued EXCEPT !.elect = e])
      BY <1>1 DEF VoteProducer
  <2> HIDE DEF valued, e
  <2> QED BY <2>1, <2>2, ElectQuiet
<1>2. ASSUME NEW e, Become([World EXCEPT !.elect = e])
      PROVE  Quiet
    BY <1>2, AsideReflexive, ElectQuiet
<1>3. ASSUME NEW isproxy, RegProxy(x, isproxy)
      PROVE  Quiet
  <2> DEFINE e == regproxy(elect, x, isproxy, now)
  <2>1. Become([World EXCEPT !.elect = e])
      BY <1>3 DEF RegProxy, World
  <2> HIDE DEF e
  <2> QED BY <2>1, <1>2
<1>4. ASSUME RegProducer(x)
      PROVE  Quiet
  <2> DEFINE e == register_producer(elect, x, now)
  <2>1. Become([World EXCEPT !.elect = e])
      BY <1>4 DEF RegProducer, World
  <2> HIDE DEF e
  <2> QED BY <2>1, <1>2
<1>5. ASSUME UnregProd(x)
      PROVE  Quiet
  <2> DEFINE e == deactivate(elect, x)
  <2>1. Become([World EXCEPT !.elect = e])
      BY <1>5 DEF UnregProd, World
  <2> HIDE DEF e
  <2> QED BY <2>1, <1>2
<1> QED BY <1>1, <1>3, <1>4, <1>5 DEF VoterStep, ProducerStep

\* Other limits, and another election.
LEMMA LimitsAside ==
    ASSUME NEW w, Shaped(w), NEW limits
    PROVE  Aside(w, [w EXCEPT !.bw.limits = limits])
<1> DEFINE u == [w EXCEPT !.bw.limits = limits]
<1>1. /\ DOMAIN u = WorldFields /\ DOMAIN u.bw = BwFields /\ u.bw.userres = w.bw.userres
      /\ u.core = w.core /\ u.bw.refunds = w.bw.refunds /\ u.bw.delband = w.bw.delband
      /\ u.rex = w.rex /\ u.elect = w.elect
    BY DEF Shaped, WorldFields, BwFields
<1> HIDE DEF u
<1>2. Shaped(u)
    BY <1>1 DEF Shaped
<1> QED BY <1>1, <1>2 DEF Aside, SameRam, Slack, Shaped, RexShaped, u

\* setalimits, setacctram and the like.
LEMMA LimitQuiet ==
    ASSUME Shaped(World), NEW x \in Users, LimitStep(x)
    PROVE  Quiet
<1>1. ASSUME NEW e, NEW limits, Become([World EXCEPT !.elect = e, !.bw.limits = limits])
      PROVE  Quiet
  <2> DEFINE w == [World EXCEPT !.bw.limits = limits]
  <2>1. Aside(World, w)
      BY LimitsAside
  <2>2. [World EXCEPT !.elect = e, !.bw.limits = limits] = [w EXCEPT !.elect = e]
      BY DEF World
  <2> HIDE DEF w
  <2> QED BY <1>1, <2>1, <2>2, ElectQuiet
<1>2. ASSUME NEW ram_, NEW net, NEW cpu, SetALimits(x, ram_, net, cpu)
      PROVE  Quiet
  <2> DEFINE row == [net |-> net, cpu |-> cpu, ram |-> ram_]
             limits == [bw.limits EXCEPT ![x] = row]
             w == [World EXCEPT !.bw.limits[x] = row]
  <2>1. [World EXCEPT !.bw.limits = limits] = w
    <3> HIDE DEF row
    <3> QED BY DEF World
  <2>2. Aside(World, [World EXCEPT !.bw.limits = limits])
    <3> HIDE DEF limits
    <3> QED BY LimitsAside
  <2>3. Become(w)
      BY <1>2 DEF SetALimits
  <2> HIDE DEF w, limits
  <2> QED BY <2>1, <2>2, <2>3 DEF Quiet
<1>3. ASSUME NEW resource, NEW value, SetAcct(x, resource, value)
      PROVE  Quiet
  <2> DEFINE limits == [bw.limits EXCEPT ![x][resource] = value]
             row == [VoterRow(elect, x) EXCEPT !.managed = Managed(elect, x) \cup {resource}]
             e == [elect EXCEPT !.voters = Put(@, x, row)]
  <2>1. Become([World EXCEPT !.elect = e, !.bw.limits = limits])
    <3>1. [World EXCEPT !.elect = e, !.bw.limits = limits]
            = [World EXCEPT !.elect.voters = Put(@, x, row), !.bw.limits[x][resource] = value]
      <4> HIDE DEF row
      <4> QED BY DEF World
    <3> QED BY <1>3, <3>1 DEF SetAcct
  <2> HIDE DEF limits, e
  <2> QED BY <1>1, <2>1
<1>4. ASSUME NEW resource, UnsetAcct(x, resource)
      PROVE  Quiet
  <2> DEFINE own == Resources(bw, x)[resource]
             value == IF resource = "ram" THEN own + ram_gift_bytes ELSE own
             limits == [bw.limits EXCEPT ![x][resource] = value]
             e == [elect EXCEPT !.voters[x].managed = @ \ {resource}]
  <2>1. Become([World EXCEPT !.elect = e, !.bw.limits = limits])
    <3>1. [World EXCEPT !.elect = e, !.bw.limits = limits]
            = [World EXCEPT !.elect.voters[x].managed = @ \ {resource}, !.bw.limits[x][resource] = value]
      <4> HIDE DEF value
      <4> QED BY DEF World
    <3> QED BY <1>4, <3>1 DEF UnsetAcct
  <2> HIDE DEF limits, e
  <2> QED BY <1>1, <2>1
<1> QED BY <1>2, <1>3, <1>4 DEF LimitStep

\* u is w but for votes, the exchange, tokens of others and stakes; due is owed.
Settles(w, u, due) ==
    /\ Shaped(u) /\ KeepsRam(w, u) /\ KeepsNames(w, u)
    /\ StakeTables(u) /\ Debt(u) = Debt(w) + due

\* A step that leaves RAM alone and settles its stakes.
Settled == \E w : Settles(World, w, 0) /\ Become(w)

\* What is aside does not change what is due.
LEMMA ThenAside ==
    ASSUME NEW v, Shaped(v), NEW w, NEW due, Settles(v, w, due), NEW u, Aside(w, u)
    PROVE  Settles(v, u, due)
<1>1. Shaped(u) /\ KeepsRam(w, u) /\ KeepsNames(w, u) /\ KeepsStakes(w, u)
    BY AsideKeeps
<1>2. StakeTables(u) /\ Debt(u) = Debt(w)
    BY <1>1, StakesKept DEF Settles
<1>3. KeepsRam(v, u) /\ KeepsNames(v, u)
    BY <1>1, KeepsTransitive DEF Settles
<1> QED BY <1>1, <1>2, <1>3 DEF Settles

\* The debt is an integer.
LEMMA DebtType ==
    ASSUME NEW w, StakeTables(w)
    PROVE  Debt(w) \in Int
BY BothType DEF StakeTables, Debt

\* delegatebw and undelegatebw settle: with a refund under way or none, for oneself or another.
LEMMA DelegateSettled ==
    ASSUME Shaped(World), StakeTables(World), NEW x \in Users, NEW receiver \in Users,
           NEW net \in Nat, NEW cpu \in Nat, NEW transfer \in BOOLEAN,
           DelegateBw(x, receiver, net, cpu, transfer) \/ UndelegateBw(x, receiver, net, cpu)
    PROVE  Settled
<1>1. ASSUME NEW from, NEW n \in Int, NEW c \in Int, NEW give,
             changebw_from(x, from, receiver, n, c, give)
      PROVE  Settled
  <2> DEFINE to_self == ~ give /\ from = receiver
             moved == StakeMoved(World, from, receiver, n, c)
             f == WithVotes(RefundScheduled(RefundFor(moved, from, n, c, to_self), x, from), from, n + c)
  <2>1. /\ Delegated(World.bw, from, receiver).net + n >= 0
        /\ Delegated(World.bw, from, receiver).cpu + c >= 0
      BY <1>1 DEF changebw_from, World
  <2>2. Become(f)
      BY <1>1, Zenon DEF changebw_from, changebw_moved, StakeDone
  <2> HIDE DEF to_self
  <2>3. /\ Shaped(f) /\ KeepsRam(World, f) /\ KeepsNames(World, f)
        /\ StakeTables(f) /\ Debt(f) = Debt(World)
      BY <2>1, StakeChangeKeeps
  <2> HIDE DEF f
  <2>4. Settles(World, f, 0)
      BY <2>3, DebtType DEF Settles
  <2> QED BY <2>2, <2>4 DEF Settled
<1>2. CASE DelegateBw(x, receiver, net, cpu, transfer)
    BY <1>1, <1>2 DEF DelegateBw, changebw
<1>3. CASE UndelegateBw(x, receiver, net, cpu)
  <2>1. - net \in Int /\ - cpu \in Int
      OBVIOUS
  <2> QED BY <1>1, <1>3, <2>1 DEF UndelegateBw, changebw
<1> QED BY <1>2, <1>3

\* A refund, asked for or scheduled, pays what was on its way back.
LEMMA RefundSettled ==
    ASSUME Shaped(World), StakeTables(World), NEW x \in Users, Refund(x) \/ RunDeferred(x)
    PROVE  Settled
<1>1. ASSUME NEW w, Aside(World, w), x \in DOMAIN w.bw.refunds
      PROVE  Settles(World, Refunded(w, x), 0)
  <2>1. Shaped(w) /\ KeepsRam(World, w) /\ KeepsNames(World, w) /\ KeepsStakes(World, w)
      BY <1>1, AsideKeeps
  <2>2. StakeTables(w) /\ Debt(w) = Debt(World)
      BY <2>1, StakesKept
  <2> DEFINE f == Refunded(w, x)
  <2>3. /\ Shaped(f) /\ KeepsRam(w, f) /\ KeepsNames(w, f) /\ StakeTables(f) /\ Debt(f) = Debt(w)
      BY <1>1, <2>1, <2>2, RefundedKeeps
  <2> HIDE DEF f
  <2>4. KeepsRam(World, f) /\ KeepsNames(World, f)
      BY <2>1, <2>3, KeepsTransitive
  <2>5. Settles(World, f, 0)
      BY <2>2, <2>3, <2>4, DebtType DEF Settles
  <2> QED BY <2>5 DEF f
<1>2. CASE Refund(x)
  <2>1. x \in DOMAIN World.bw.refunds /\ Become(Refunded(World, x))
      BY <1>2 DEF Refund, CanRefund, World
  <2>2. Settles(World, Refunded(World, x), 0)
      BY <1>1, <2>1, AsideReflexive
  <2> QED BY <2>1, <2>2 DEF Settled
<1>3. CASE RunDeferred(x)
  <2> DEFINE t == Erase(bw.deferred, x)
             gone == [World EXCEPT !.bw.deferred = t]
             gone2 == [World EXCEPT !.bw.deferred = Erase(@, x)]
  <2>0. gone = gone2
      BY DEF World
  <2>1. Aside(World, gone)
    <3> HIDE DEF t
    <3> QED BY DeferredAside
  <2>2. gone.bw.refunds = bw.refunds
      BY <2>1 DEF Aside, World
  <2>3. Become(IF CanRefund(x) THEN Refunded(gone, x) ELSE gone)
      BY <1>3, <2>0, Zenon DEF RunDeferred
  <2> HIDE DEF gone
  <2>4. CASE CanRefund(x)
    <3>1. x \in DOMAIN gone.bw.refunds /\ Become(Refunded(gone, x))
        BY <2>2, <2>3, <2>4 DEF CanRefund
    <3>2. Settles(World, Refunded(gone, x), 0)
        BY <1>1, <2>1, <3>1
    <3> QED BY <3>1, <3>2 DEF Settled
  <2>5. CASE ~ CanRefund(x)
    <3>1. Become(gone)
        BY <2>3, <2>5
    <3>2. Shaped(gone) /\ KeepsRam(World, gone) /\ KeepsNames(World, gone) /\ KeepsStakes(World, gone)
        BY <2>1, AsideKeeps
    <3>3. Settles(World, gone, 0)
        BY <3>2, StakesKept, DebtType DEF Settles
    <3> QED BY <3>1, <3>3 DEF Settled
  <2> QED BY <2>4, <2>5
<1> QED BY <1>2, <1>3

\* Staked tokens leave the table of stakes.
LEMMA StakeTakenSettles ==
    ASSUME NEW w, Shaped(w), StakeTables(w), NEW x, NEW receiver,
           NEW left, StakeRow(left), NEW amount \in Int,
           left.net + left.cpu = BothOf(w.bw.delband, <<x, receiver>>) - amount
    PROVE  Settles(w, StakeTaken(w, x, receiver, left), - amount)
<1> DEFINE key == <<x, receiver>>
           d == w.bw.delband
           e == IF left.net = 0 /\ left.cpu = 0 THEN Erase(d, key) ELSE Put(d, key, left)
           u == WithDelband(w, e)
<1>1. BothOf(d, key) = left.net + left.cpu + amount /\ StakeTable(d)
      /\ left.net \in Nat /\ left.cpu \in Nat
  <2>1. BothOf(d, key) \in Int
      BY DEF BothOf, StakeTables, StakeTable, StakeRow
  <2> QED BY <2>1 DEF StakeTables, StakeRow
<1>2. StakeTable(e) /\ Both(e) = Both(d) - amount
  <2> HIDE DEF d, key
  <2>1. CASE left.net = 0 /\ left.cpu = 0
    <3>1. StakeTable(Erase(d, key)) /\ Both(d) \in Int /\ Both(Erase(d, key)) = Both(d) - BothOf(d, key)
        BY <1>1, BothErase
    <3> QED BY <1>1, <2>1, <3>1
  <2>2. CASE ~ (left.net = 0 /\ left.cpu = 0)
    <3>1. /\ StakeTable(Put(d, key, left)) /\ Both(d) \in Int
          /\ Both(Put(d, key, left)) = Both(d) - BothOf(d, key) + left.net + left.cpu
        BY <1>1, BothPut
    <3> QED BY <1>1, <2>2, <3>1
  <2> QED BY <2>1, <2>2
<1>3. StakeTaken(w, x, receiver, left) = u
    BY DEF StakeTaken, WithDelband
<1> HIDE DEF e
<1>4. /\ Shaped(u) /\ KeepsRam(w, u) /\ KeepsNames(w, u)
      /\ u.core = w.core /\ u.bw.refunds = w.bw.refunds /\ u.bw.delband = e
    BY DelbandReplaced
<1> HIDE DEF u
<1>5. StakeTables(u) /\ Debt(u) = Debt(w) + (- amount)
    BY <1>2, <1>4, BothType DEF StakeTables, Debt
<1> QED BY <1>3, <1>4, <1>5 DEF Settles

\* unstaketorex: stake that leaves eosio.stake for the exchange.
LEMMA UnstakeToRexSettled ==
    ASSUME Shaped(World), StakeTables(World), NEW x \in Users, NEW receiver, NEW net \in Nat, NEW cpu \in Nat,
           UnstakeToRex(x, receiver, net, cpu)
    PROVE  Settled
<1> DEFINE row  == bw.delband[<<x, receiver>>]
           left == Unstaked(row, net, cpu)
           amount == net + cpu
           w1 == StakeTaken(World, x, receiver, left)
           w2 == update_resource_limits(w1, receiver, - net, - cpu)
           w3 == Transfer(w2, stake_account, rex_account, amount)
           r  == Bought(w3.rex, x, amount, now)
           w4 == [w3 EXCEPT !.rex = r]
           w5 == runrex(w4, 2, now)
           w6 == update_rex_account(w5, x, 0, 0, TRUE, now)
<1>d. Become(w6)
  <2> DEFINE u == [StakeFreed(World, x, receiver, net, cpu) EXCEPT !.rex = Bought(@, x, net + cpu, now)]
  <2>1. Done(update_rex_account(runrex(u, 2, now), x, 0, 0, TRUE, now), x)
      BY Zenon DEF UnstakeToRex
  <2>2. u = w4
    <3>1. StakeFreed(World, x, receiver, net, cpu) = w3
        BY Zenon DEF StakeFreed
    <3> HIDE DEF w3
    <3> QED BY <3>1
  <2> HIDE DEF u, w4
  <2> QED BY <2>1, <2>2, Zenon DEF Done
<1>0. /\ <<x, receiver>> \in DOMAIN World.bw.delband /\ World.bw.delband = bw.delband
      /\ net =< row.net /\ cpu =< row.cpu
    BY DEF UnstakeToRex, World
<1>1. /\ StakeRow(left)
      /\ left.net + left.cpu = BothOf(World.bw.delband, <<x, receiver>>) - amount
  <2>1. StakeRow(row) /\ BothOf(World.bw.delband, <<x, receiver>>) = row.net + row.cpu
      BY <1>0 DEF StakeTables, StakeTable, BothOf
  <2> HIDE DEF row
  <2>2. left.net = row.net - net /\ left.cpu = row.cpu - cpu /\ DOMAIN left = DOMAIN row
      BY <2>1 DEF Unstaked, StakeRow
  <2> HIDE DEF left
  <2> QED BY <1>0, <2>1, <2>2 DEF StakeRow
<1>2. Settles(World, w1, - amount)
  <2>1. amount \in Int
      OBVIOUS
  <2> HIDE DEF left, amount
  <2> QED BY <1>1, <2>1, StakeTakenSettles
<1> HIDE DEF w1, left, row
<1>3. Settles(World, w2, - amount)
  <2>1. Aside(w1, w2)
      BY <1>2, ResourceLimitsAside DEF Settles
  <2> HIDE DEF w2, amount
  <2> QED BY <1>2, <2>1, ThenAside
<1> HIDE DEF w2
<1>4. Settles(World, w3, 0)
  <2>1. rex_account \in Others /\ amount \in Int
      BY DEF Others, Holders, SystemAccounts, ram_account, stake_account, names_account, rex_account
  <2> HIDE DEF amount
  <2>2. /\ Shaped(w3) /\ KeepsRam(w2, w3) /\ KeepsNames(w2, w3)
        /\ StakeTables(w3) /\ Debt(w3) = Debt(w2) + amount
      BY <1>3, <2>1, StakeTransfer DEF Settles
  <2> HIDE DEF w3
  <2>3. KeepsRam(World, w3) /\ KeepsNames(World, w3)
      BY <1>3, <2>2, KeepsTransitive DEF Settles
  <2>4. Debt(w3) = Debt(World) + 0
      BY <1>3, <2>1, <2>2, DebtType DEF Settles
  <2> QED BY <2>2, <2>3, <2>4 DEF Settles
<1> HIDE DEF w3, amount
<1>5. Settles(World, w4, 0)
  <2>1. Shaped(w3) /\ RexShaped(w3.rex)
      BY <1>4 DEF Settles, Shaped
  <2>2. RexAside(w3.rex, r)
      BY <2>1, BoughtAside
  <2> HIDE DEF r
  <2>3. Aside(w3, w4)
      BY <2>1, <2>2, RexChangeAside
  <2> HIDE DEF w4
  <2> QED BY <1>4, <2>3, ThenAside
<1> HIDE DEF w4
<1>6. Settles(World, w5, 0)
  <2>1. Aside(w4, w5)
      BY <1>5, RunrexAside DEF Settles
  <2> HIDE DEF w5
  <2> QED BY <1>5, <2>1, ThenAside
<1> HIDE DEF w5
<1>7. Settles(World, w6, 0)
  <2>1. Aside(w5, w6)
      BY <1>6, UpdateRexAccountAside DEF Settles
  <2> HIDE DEF w6
  <2> QED BY <1>6, <2>1, ThenAside
<1> HIDE DEF w6
<1> QED BY <1>d, <1>7 DEF Settled

-----------------------------------------------------------------------------
\* RAM.
RamMoves(w, u, dram, dcore) ==
    /\ Shaped(u) /\ KeepsNames(w, u) /\ KeepsStakes(w, u)
    /\ u.core[ram_account] = w.core[ram_account] + dcore
    /\ RamTable(u.bw.userres) /\ RamHeld(u.bw.userres) = RamHeld(w.bw.userres) + dram

\* RAM of x changes, and nothing else of the three books.
LEMMA HoldRamMoves ==
    ASSUME NEW w, Shaped(w), RamTable(w.bw.userres), w.core[ram_account] \in Int, NEW x \in Users,
           NEW bytes \in Int, RamOf(w.bw.userres, x) + bytes >= 0
    PROVE  RamMoves(w, HoldRam(w, x, bytes), bytes, 0)
<1> DEFINE t == w.bw.userres
           old == Resources(w.bw, x)
           row == [old EXCEPT !.ram = old.ram + bytes]
           s == Put(t, x, row)
           v == [w EXCEPT !.bw.userres = s]
           limits == [w.bw.limits EXCEPT ![x].ram = row.ram + ram_gift_bytes]
           limited == [v EXCEPT !.bw.limits = limits]
           f == HoldRam(w, x, bytes)
<1>1. DOMAIN old = RowFields /\ old.ram = RamOf(t, x) /\ old.ram \in Nat
    BY DEF Shaped, TableShaped, Resources, NoResources, RowFields, RamOf, RamTable
<1> HIDE DEF old
<1>2. DOMAIN row = RowFields /\ row.ram = RamOf(t, x) + bytes
    BY <1>1 DEF RowFields
<1> HIDE DEF row
<1>3. TableShaped(s) /\ RamOf(s, x) = row.ram /\ \A y : y # x => RamOf(s, y) = RamOf(t, y)
  <2>1. IsFiniteSet(DOMAIN s)
      BY FS_AddElement DEF Shaped, TableShaped, Put
  <2>2. \A y \in DOMAIN s : DOMAIN s[y] = RowFields
      BY <1>2 DEF Shaped, TableShaped, Put
  <2>3. RamOf(s, x) = row.ram /\ \A y : y # x => RamOf(s, y) = RamOf(t, y)
      BY DEF RamOf, Put
  <2> HIDE DEF s
  <2> QED BY <2>1, <2>2, <2>3 DEF TableShaped
<1>4. RamTable(s) /\ RamHeld(s) = RamHeld(t) + bytes
  <2>0. RamTable(t)
      OBVIOUS
  <2>1. RamOf(s, x) = RamOf(t, x) + bytes /\ RamOf(s, x) \in Nat
      BY <1>1, <1>2, <1>3
  <2> HIDE DEF s, t
  <2> QED BY <1>3, <2>0, <2>1, RamChanged
<1>5. f \in {v, limited}
  <2>1. f = SetRamLimit(v, x)
      BY DEF HoldRam, row, old
  <2>2. v.bw.userres[x].ram = row.ram /\ v.bw.limits = w.bw.limits /\ DOMAIN v = WorldFields
        /\ DOMAIN v.bw = BwFields
    <3>1. s[x] = row
        BY DEF Put
    <3> HIDE DEF s
    <3> QED BY <3>1 DEF Shaped, WorldFields, BwFields
  <2> HIDE DEF v, f
  <2>3. SetRamLimit(v, x) \in {v, [v EXCEPT !.bw.limits[x].ram = row.ram + ram_gift_bytes]}
      BY <2>2 DEF SetRamLimit
  <2>4. [v EXCEPT !.bw.limits[x].ram = row.ram + ram_gift_bytes] = limited
      BY <2>2 DEF WorldFields, BwFields
  <2> QED BY <2>1, <2>3, <2>4
<1>6. \A u \in {v, limited} : /\ DOMAIN u = WorldFields /\ DOMAIN u.bw = BwFields /\ u.bw.userres = s
                              /\ u.core = w.core /\ u.rex = w.rex
                              /\ u.bw.delband = w.bw.delband /\ u.bw.refunds = w.bw.refunds
  <2> HIDE DEF s, limits
  <2>1. /\ DOMAIN v = WorldFields /\ DOMAIN v.bw = BwFields /\ v.bw.userres = s
        /\ v.core = w.core /\ v.rex = w.rex
        /\ v.bw.delband = w.bw.delband /\ v.bw.refunds = w.bw.refunds
      BY DEF Shaped, WorldFields, BwFields
  <2> HIDE DEF v
  <2>2. /\ DOMAIN limited = WorldFields /\ DOMAIN limited.bw = BwFields
        /\ limited.bw.userres = v.bw.userres
        /\ limited.core = v.core /\ limited.rex = v.rex
        /\ limited.bw.delband = v.bw.delband /\ limited.bw.refunds = v.bw.refunds
      BY <2>1 DEF WorldFields, BwFields
  <2> HIDE DEF limited
  <2> QED BY <2>1, <2>2
<1> HIDE DEF f, v, limited, s
<1>7. ASSUME NEW u \in {v, limited}
      PROVE  RamMoves(w, u, bytes, 0)
  <2>1. Shaped(u)
      BY <1>3, <1>6 DEF Shaped
  <2>2. KeepsNames(w, u) /\ KeepsStakes(w, u)
      BY <1>6 DEF KeepsNames, KeepsStakes, Slack, Shaped, RexShaped
  <2> QED BY <1>4, <1>6, <2>1, <2>2 DEF RamMoves
<1> QED BY <1>5, <1>7 DEF f

\* Then what is aside.
LEMMA RamThenAside ==
    ASSUME NEW w, Shaped(w), NEW u, NEW dram, NEW dcore, RamMoves(w, u, dram, dcore),
           NEW v, Aside(u, v)
    PROVE  RamMoves(w, v, dram, dcore)
<1>1. Shaped(v) /\ KeepsRam(u, v) /\ KeepsNames(u, v) /\ KeepsStakes(u, v)
    BY AsideKeeps
<1>2. KeepsNames(w, v)
    BY <1>1 DEF RamMoves, KeepsNames, Slack, Shaped, RexShaped
<1>3. KeepsStakes(w, v)
    BY <1>1 DEF RamMoves, KeepsStakes
<1>4. RamTable(v.bw.userres) /\ Held(v.bw.userres) = Held(u.bw.userres)
    BY <1>1 DEF RamMoves, KeepsRam, SameRam, RamTable, Held
<1> QED BY <1>1, <1>2, <1>3, <1>4 DEF RamMoves, RamHeld, KeepsRam

\* Two moves add up.
LEMMA RamThenRam ==
    ASSUME NEW w, Shaped(w), w.core[ram_account] \in Int, RamHeld(w.bw.userres) \in Int,
           NEW u, NEW d1 \in Int, NEW c1 \in Int, RamMoves(w, u, d1, c1),
           NEW v, NEW d2 \in Int, NEW c2 \in Int, RamMoves(u, v, d2, c2)
    PROVE  RamMoves(w, v, d1 + d2, c1 + c2)
<1>2. KeepsNames(w, v)
    BY DEF RamMoves, KeepsNames, Slack, Shaped, RexShaped
<1>3. KeepsStakes(w, v)
    BY DEF RamMoves, KeepsStakes
<1> QED BY <1>2, <1>3 DEF RamMoves

\* Tokens to eosio.ram, or from it.
LEMMA RamTransfer ==
    ASSUME NEW w, Shaped(w), RamTable(w.bw.userres), w.core[ram_account] \in Int,
           NEW x \in Users, NEW amount \in Int
    PROVE  /\ RamMoves(w, Transfer(w, x, ram_account, amount), 0, amount)
           /\ RamMoves(w, Transfer(w, ram_account, x, amount), 0, - amount)
<1>0. /\ {stake_account, names_account, ram_account} \subseteq Holders /\ x \in Holders
      /\ stake_account # names_account /\ stake_account # ram_account /\ ram_account # names_account
      /\ x \notin {stake_account, names_account, ram_account}
      /\ RamHeld(w.bw.userres) \in Int
  <2>1. RamHeld(w.bw.userres) \in Int
      BY UserHolds
  <2> QED BY <2>1, SystemAssumption DEF Holders, SystemAccounts, stake_account, names_account, ram_account
<1>1. ASSUME NEW u, NEW d \in Int, DOMAIN u = WorldFields, u.bw = w.bw, u.rex = w.rex,
             DOMAIN u.core = Holders,
             u.core[ram_account] = w.core[ram_account] + d,
             u.core[names_account] = w.core[names_account],
             u.core[stake_account] = w.core[stake_account]
      PROVE  RamMoves(w, u, 0, d)
  <2>1. Shaped(u)
      BY <1>1 DEF Shaped
  <2>2. KeepsStakes(w, u)
      BY <1>1 DEF KeepsStakes
  <2>3. KeepsNames(w, u)
      BY <1>1 DEF KeepsNames, Slack, Shaped, RexShaped
  <2>4. RamTable(u.bw.userres) /\ RamHeld(u.bw.userres) = RamHeld(w.bw.userres) + 0
      BY <1>0, <1>1
  <2> QED BY <1>1, <2>1, <2>2, <2>3, <2>4 DEF RamMoves
<1>2. RamMoves(w, Transfer(w, x, ram_account, amount), 0, amount)
  <2> DEFINE u == Transfer(w, x, ram_account, amount)
  <2>1. /\ DOMAIN u = WorldFields /\ u.bw = w.bw /\ u.rex = w.rex /\ DOMAIN u.core = Holders
        /\ u.core[ram_account] = w.core[ram_account] + amount
        /\ u.core[names_account] = w.core[names_account]
        /\ u.core[stake_account] = w.core[stake_account]
      BY <1>0 DEF Transfer, Shaped, WorldFields
  <2> HIDE DEF u
  <2> QED BY <1>1, <2>1 DEF u
<1>3. RamMoves(w, Transfer(w, ram_account, x, amount), 0, - amount)
  <2> DEFINE u == Transfer(w, ram_account, x, amount)
  <2>1. /\ DOMAIN u = WorldFields /\ u.bw = w.bw /\ u.rex = w.rex /\ DOMAIN u.core = Holders
        /\ u.core[ram_account] = w.core[ram_account] - amount
        /\ u.core[names_account] = w.core[names_account]
        /\ u.core[stake_account] = w.core[stake_account]
      BY <1>0 DEF Transfer, Shaped, WorldFields
  <2>2. u.core[ram_account] = w.core[ram_account] + (- amount) /\ - amount \in Int
      BY <2>1
  <2> HIDE DEF u
  <2> QED BY <1>1, <2>1, <2>2 DEF u
<1> QED BY <1>2, <1>3

\* The fee of a trade goes to the resource exchange.
LEMMA PayFeeAside ==
    ASSUME NEW w, Shaped(w), NEW x \in Users, NEW fee
    PROVE  Aside(w, PayFee(w, x, fee))
<1> DEFINE u == Transfer(w, x, ramfee_account, fee)
<1>1. /\ x \in Holders \ (Kept \cup {names_account})
      /\ ramfee_account \in Holders \ (Kept \cup {names_account})
    BY SystemAssumption DEF Holders, SystemAccounts, Kept, ramfee_account, names_account, ram_account,
             stake_account, bpay_account, vpay_account
<1>2. Aside(w, u)
    BY <1>1, TransferAside
<1> HIDE DEF u
<1>3. Shaped(u)
    BY <1>2 DEF Aside
<1>4. Aside(u, channel_to_rex(u, ramfee_account, fee, now))
    BY <1>3, ChannelAside
<1> QED BY <1>2, <1>4, AsideTransitive DEF PayFee, u

\* A trade of RAM.
RamTraded ==
    \E w : /\ Shaped(w) /\ KeepsNames(World, w) /\ KeepsStakes(World, w)
           /\ RamBooksOf(w, ram') /\ Become(w)

\* buyram, at whatever the relay has grown to.
LEMMA BuyRamTraded ==
    ASSUME Shaped(World), RamBooksOf(World, ram), now \in Nat, NEW payer \in Users,
           NEW receiver \in Users, NEW quant \in Int, BuyRam(payer, receiver, quant)
    PROVE  RamTraded
<1> DEFINE fee == Fee(quant)
           after == quant - fee
           grown == update_ram_supply(ram, now)
           sale  == direct_convert(Relay(grown), "quote", after)
           sold  == trade(grown, after, sale.out, sale.market)
           w1 == Transfer(World, payer, ram_account, after)
           w2 == PayFee(w1, payer, fee)
           w3 == HoldRam(w2, receiver, sale.out)
<1>d. after > 0 /\ ram' = sold /\ Become(w3)
    BY Zenon DEF BuyRam
<1>1. after \in Nat \ {0} /\ after \in Int
  <2>1. fee \in Int
      BY DEF Fee
  <2> HIDE DEF fee
  <2> QED BY <1>d, <2>1
<1>2. /\ World.core[ram_account] = ram.stake /\ RamHeld(World.bw.userres) = ram.reserved
      /\ RamTable(World.bw.userres) /\ ram \in Markets /\ RelayCovers(ram)
      /\ ram.stake \in Int /\ ram.reserved \in Int
    BY DEF RamBooksOf, Markets
<1>3. /\ grown \in Markets /\ RelayCovers(grown) /\ grown.reserved = ram.reserved
      /\ grown.stake = ram.stake
    BY <1>2, UpdateRamSupply
<1> HIDE DEF after, fee, grown
<1>4. /\ sold \in Markets /\ RelayCovers(sold) /\ sale.out \in Nat
      /\ sold.reserved = ram.reserved + sale.out /\ sold.stake = ram.stake + after
    BY <1>1, <1>3, BuyCovers
<1> HIDE DEF sold, sale
<1>5. RamMoves(World, w1, 0, after)
    BY <1>1, <1>2, RamTransfer
<1> HIDE DEF w1
<1>6. RamMoves(World, w2, 0, after)
  <2>1. Aside(w1, w2)
      BY <1>5, PayFeeAside DEF RamMoves
  <2> HIDE DEF w2
  <2> QED BY <1>5, <2>1, RamThenAside
<1> HIDE DEF w2
<1>7. RamMoves(World, w3, 0 + sale.out, after + 0)
  <2>1. Shaped(w2) /\ RamTable(w2.bw.userres) /\ w2.core[ram_account] \in Int
      BY <1>1, <1>2, <1>6 DEF RamMoves
  <2>2. RamOf(w2.bw.userres, receiver) + sale.out >= 0 /\ sale.out \in Int
      BY <1>4, <2>1, UserHolds
  <2>3. RamMoves(w2, w3, sale.out, 0)
      BY <2>1, <2>2, HoldRamMoves
  <2> HIDE DEF w3
  <2>4. World.core[ram_account] \in Int /\ RamHeld(World.bw.userres) \in Int
      BY <1>2
  <2> QED BY <1>1, <1>6, <2>2, <2>3, <2>4, RamThenRam
<1> HIDE DEF w3
<1>8. RamBooksOf(w3, sold)
    BY <1>1, <1>2, <1>4, <1>7 DEF RamMoves, RamBooksOf
<1> QED BY <1>d, <1>7, <1>8 DEF RamTraded, RamMoves

\* sellram.
LEMMA SellRamTraded ==
    ASSUME Shaped(World), RamBooksOf(World, ram), now \in Nat, NEW x \in Users,
           NEW bytes \in Nat, SellRam(x, bytes)
    PROVE  RamTraded
<1> DEFINE grown == update_ram_supply(ram, now)
           sale  == direct_convert(Relay(grown), "base", bytes)
           sold  == trade(grown, - sale.out, - bytes, sale.market)
           w1 == HoldRam(World, x, - bytes)
           w2 == Transfer(w1, ram_account, x, sale.out)
           w3 == PayFee(w2, x, Fee(sale.out))
<1>d. /\ bytes > 0 /\ x \in DOMAIN bw.userres /\ bw.userres[x].ram >= bytes
      /\ sold.stake >= 0 /\ ram' = sold /\ Become(w3)
    BY Zenon DEF SellRam
<1>1. /\ World.core[ram_account] = ram.stake /\ RamHeld(World.bw.userres) = ram.reserved
      /\ RamTable(World.bw.userres) /\ ram \in Markets /\ RelayCovers(ram)
      /\ ram.stake \in Int /\ ram.reserved \in Int
    BY DEF RamBooksOf, Markets
<1>2. /\ RamOf(World.bw.userres, x) \in Nat /\ RamOf(World.bw.userres, x) >= bytes
      /\ bytes =< ram.reserved /\ bytes \in Nat \ {0} /\ - bytes \in Int
  <2>1. RamOf(World.bw.userres, x) = bw.userres[x].ram
      BY <1>d DEF RamOf, World
  <2>2. RamOf(World.bw.userres, x) \in Nat /\ RamOf(World.bw.userres, x) =< ram.reserved
      BY <1>1, UserHolds
  <2> QED BY <1>d, <1>1, <2>1, <2>2
<1>3. /\ grown \in Markets /\ RelayCovers(grown) /\ grown.reserved = ram.reserved
      /\ grown.stake = ram.stake
    BY <1>1, UpdateRamSupply
<1> HIDE DEF grown
<1>4. /\ sold \in Markets /\ RelayCovers(sold) /\ sale.out \in Nat
      /\ sold.reserved = ram.reserved - bytes /\ sold.stake = ram.stake - sale.out
    BY <1>d, <1>2, <1>3, SellCovers
<1> HIDE DEF sold, sale
<1>5. RamMoves(World, w1, - bytes, 0)
  <2>1. RamOf(World.bw.userres, x) + (- bytes) >= 0
      BY <1>2
  <2>2. World.core[ram_account] \in Int
      BY <1>1
  <2> QED BY <1>1, <1>2, <2>1, <2>2, HoldRamMoves
<1> HIDE DEF w1
<1>6. RamMoves(World, w2, (- bytes) + 0, 0 + (- sale.out))
  <2>1. Shaped(w1) /\ RamTable(w1.bw.userres) /\ w1.core[ram_account] \in Int
      BY <1>1, <1>5 DEF RamMoves
  <2>2. sale.out \in Int /\ - sale.out \in Int
      BY <1>4
  <2>3. RamMoves(w1, w2, 0, - sale.out)
      BY <2>1, <2>2, RamTransfer
  <2> HIDE DEF w2
  <2>4. World.core[ram_account] \in Int /\ RamHeld(World.bw.userres) \in Int
      BY <1>1
  <2> DEFINE d == - bytes
             c == - sale.out
  <2>5. RamMoves(World, w1, d, 0) /\ RamMoves(w1, w2, 0, c) /\ d \in Int /\ c \in Int
      BY <1>2, <1>5, <2>2, <2>3
  <2> HIDE DEF d, c
  <2>6. RamMoves(World, w2, d + 0, 0 + c)
      BY <2>4, <2>5, RamThenRam
  <2> QED BY <2>6 DEF d, c
<1> HIDE DEF w2
<1>7. RamMoves(World, w3, (- bytes) + 0, 0 + (- sale.out))
  <2>1. Aside(w2, w3)
      BY <1>6, PayFeeAside DEF RamMoves
  <2> HIDE DEF w3
  <2> QED BY <1>6, <2>1, RamThenAside
<1> HIDE DEF w3
<1>8. RamBooksOf(w3, sold)
    BY <1>1, <1>2, <1>4, <1>7 DEF RamMoves, RamBooksOf
<1> QED BY <1>d, <1>7, <1>8 DEF RamTraded, RamMoves

\* What buyrambytes pays for is a number of tokens.
LEMMA BytesCost ==
    ASSUME RamBooksOf(World, ram), NEW x, NEW receiver, NEW bytes \in Bytes,
           BuyRamBytes(x, receiver, bytes)
    PROVE  (get_bancor_input(ram.base, ram.quote, bytes) * 200) \div 199 \in Int
<1> DEFINE cost == get_bancor_input(ram.base, ram.quote, bytes)
<1>1. cost \in Int
  <2>1. ram.base \in Nat /\ ram.quote \in Nat /\ bytes \in Nat
      BY SystemAssumption DEF RamBooksOf, Markets
  <2>2. CASE bytes > ram.base
      BY <2>2 DEF get_bancor_input
  <2>3. CASE ~ (bytes > ram.base)
    <3>1. ram.base - bytes \in Nat \ {0}
        BY <2>1, <2>3 DEF BuyRamBytes, CanBuy
    <3>2. ram.quote * bytes \in Nat
        BY <2>1, TimesMonotone
    <3>3. (ram.quote * bytes) \div (ram.base - bytes) \in Int
        BY <3>1, <3>2, Quotient
    <3> QED BY <2>3, <3>3 DEF get_bancor_input
  <2> QED BY <2>2, <2>3
<1> HIDE DEF cost
<1>2. (cost * 200) \div 199 \in Int
    BY <1>1
<1> QED BY <1>2 DEF cost

\* Any trade of RAM; buyrambytes is a buyram.
LEMMA RamStepTraded ==
    ASSUME Shaped(World), RamBooksOf(World, ram), now \in Nat, NEW x \in Users, RamStep(x)
    PROVE  RamTraded
<1>1. ASSUME NEW receiver \in Users, NEW quant \in Payments, BuyRam(x, receiver, quant)
      PROVE  RamTraded
  <2>1. quant \in Int
      BY SystemAssumption
  <2> QED BY <1>1, <2>1, BuyRamTraded
<1>2. ASSUME NEW receiver \in Users, NEW bytes \in Bytes, BuyRamBytes(x, receiver, bytes)
      PROVE  RamTraded
  <2> DEFINE quant == (get_bancor_input(ram.base, ram.quote, bytes) * 200) \div 199
  <2>1. quant \in Int
      BY <1>2, BytesCost
  <2>2. BuyRam(x, receiver, quant)
      BY <1>2 DEF BuyRamBytes
  <2> HIDE DEF quant
  <2> QED BY <2>1, <2>2, BuyRamTraded
<1>3. ASSUME NEW bytes \in Bytes, SellRam(x, bytes)
      PROVE  RamTraded
  <2>1. bytes \in Nat
      BY SystemAssumption
  <2> QED BY <1>3, <2>1, SellRamTraded
<1> QED BY <1>1, <1>2, <1>3 DEF RamStep

\* More RAM, and RAM by the block.
LEMMA RamSupplyCovers ==
    ASSUME Shaped(World), RamBooksOf(World, ram), now \in Nat, RamSupplyStep
    PROVE  RamBooksOf(World, ram') /\ UNCHANGED system
<1>0. /\ ram \in Markets /\ RelayCovers(ram)
      /\ ram.base \in Nat /\ ram.max_ram_size \in Nat /\ ram.reserved \in Nat /\ ram.stake \in Nat
    BY DEF RamBooksOf, Markets
<1>1. ASSUME NEW size \in RamSizes, SetRam(size)
      PROVE  RamBooksOf(World, ram') /\ UNCHANGED system
  <2> DEFINE d == size - ram.max_ram_size
             g == [ram EXCEPT !.base = @ + size - ram.max_ram_size, !.max_ram_size = size]
  <2>1. d \in Nat /\ size \in Nat \ {0} /\ size = ram.max_ram_size + d
      BY <1>0, <1>1, SystemAssumption DEF SetRam
  <2>2. g = [ram EXCEPT !.base = ram.base + d, !.max_ram_size = size]
      BY <1>0, <2>1 DEF Markets
  <2>3. /\ g \in Markets /\ g.base = ram.base + d /\ g.max_ram_size = ram.max_ram_size + d
        /\ g.quote = ram.quote /\ g.stake = ram.stake /\ g.reserved = ram.reserved
    <3>1. ram.base + d \in Nat
        BY <1>0, <2>1
    <3> HIDE DEF d, g
    <3> QED BY <1>0, <2>1, <2>2, <3>1 DEF Markets
  <2>4. ram' = g
      BY <1>1 DEF SetRam
  <2> HIDE DEF d, g
  <2>5. RelayCovers(g)
      BY <1>0, <2>1, <2>3, SupplyGrows
  <2> QED BY <1>1, <2>3, <2>4, <2>5 DEF RamBooksOf, SetRam
<1>2. ASSUME NEW rate \in Rates, SetRamRate(rate)
      PROVE  RamBooksOf(World, ram') /\ UNCHANGED system
  <2> DEFINE u == update_ram_supply(ram, now)
             g == [u EXCEPT !.new_ram_per_block = rate]
  <2>1. u \in Markets /\ RelayCovers(u) /\ u.reserved = ram.reserved /\ u.stake = ram.stake
      BY <1>0, UpdateRamSupply
  <2>2. ram' = g
      BY <1>2 DEF SetRamRate
  <2> HIDE DEF u
  <2>3. rate \in Nat
      BY SystemAssumption
  <2>4. /\ g \in Markets /\ g.base = u.base /\ g.max_ram_size = u.max_ram_size
        /\ g.quote = u.quote /\ g.stake = u.stake /\ g.reserved = u.reserved
      BY <2>1, <2>3 DEF Markets
  <2> HIDE DEF g
  <2>5. RelayCovers(g)
      BY <2>1, <2>4 DEF RelayCovers
  <2> QED BY <1>2, <2>1, <2>2, <2>4, <2>5 DEF RamBooksOf, SetRamRate
<1> QED BY <1>1, <1>2 DEF RamSupplyStep

-----------------------------------------------------------------------------
\* Names.  A bid that is open is owed until it is outbid or wins.
Owed(n) == [name \in DOMAIN n.bids |-> IF n.bids[name].high_bid > 0 THEN n.bids[name].high_bid ELSE 0]

\* The table of bids.
BidTable(t) ==
    /\ IsFiniteSet(DOMAIN t) /\ DOMAIN t \subseteq Names
    /\ \A name \in DOMAIN t : "high_bid" \in DOMAIN t[name] /\ t[name].high_bid \in Int

\* The fields of the names.
NamesFields == {"bids", "bid_refunds", "accounts", "paybacks"}

\* The names as far as tokens are concerned.
Auctions(n) == DOMAIN n = NamesFields /\ BidTable(n.bids) /\ IntTable(n.bid_refunds)

\* What bidders may get back.
Due(n) == Total(Owed(n)) + Total(n.bid_refunds)

\* The invariant of auctions: eosio.names, less what it promised to the exchange,
\* covers what bidders may get back.
NameBooks(w, n) == Auctions(n) /\ Slack(w) >= Due(n)

\* What is owed adds up.
LEMMA OwedTable ==
    ASSUME NEW n, Auctions(n)
    PROVE  IntTable(Owed(n)) /\ Total(Owed(n)) \in Int /\ Total(n.bid_refunds) \in Int /\ Due(n) \in Int
<1>1. IntTable(Owed(n))
    BY DEF IntTable, Owed, Auctions, BidTable
<1> QED BY <1>1, TotalType DEF Due, Auctions

\* Steps of others never take from eosio.names.
LEMMA NameBooksKept ==
    ASSUME NEW w, Shaped(w), NEW n, NameBooks(w, n), NEW u, Shaped(u), KeepsNames(w, u)
    PROVE  NameBooks(u, n)
BY OwedTable DEF NameBooks, KeepsNames, Slack, Shaped, RexShaped

\* Other bids, or other refunds.
LEMMA BidPut ==
    ASSUME NEW n, Auctions(n), NEW name \in Names, NEW row, "high_bid" \in DOMAIN row,
           row.high_bid \in Int
    PROVE  LET m == [n EXCEPT !.bids = Put(@, name, row)]
           IN  /\ Auctions(m)
               /\ Due(m) = Due(n) - At(Owed(n), name) + (IF row.high_bid > 0 THEN row.high_bid ELSE 0)
<1> DEFINE t == Put(n.bids, name, row)
           m == [n EXCEPT !.bids = t]
           v == IF row.high_bid > 0 THEN row.high_bid ELSE 0
<1>1. BidTable(t)
    BY FS_AddElement DEF Auctions, BidTable, Put
<1>2. DOMAIN m = NamesFields /\ m.bids = t /\ m.bid_refunds = n.bid_refunds
    BY DEF Auctions, NamesFields
<1>3. Auctions(m)
    BY <1>1, <1>2 DEF Auctions
<1>4. Owed(m) = Put(Owed(n), name, v)
    BY <1>2 DEF Owed, Put
<1>5. v \in Int
    OBVIOUS
<1> HIDE DEF m, v
<1>6. Total(Owed(m)) = Total(Owed(n)) - At(Owed(n), name) + v
    BY <1>4, <1>5, OwedTable, TotalPut
<1>7. At(Owed(n), name) \in Int
    BY OwedTable DEF At, IntTable
<1>8. Due(m) = Due(n) - At(Owed(n), name) + v
    BY <1>2, <1>5, <1>6, <1>7, OwedTable DEF Due
<1> QED BY <1>3, <1>8 DEF m, v

\* A bid that leaves the table is not owed any more.
LEMMA BidErased ==
    ASSUME NEW n, Auctions(n), NEW name
    PROVE  LET m == [n EXCEPT !.bids = Erase(@, name)]
           IN  Auctions(m) /\ Due(m) = Due(n) - At(Owed(n), name)
<1> DEFINE t == Erase(n.bids, name)
           m == [n EXCEPT !.bids = t]
<1>1. BidTable(t)
    BY FS_RemoveElement DEF Auctions, BidTable, Erase
<1>2. DOMAIN m = NamesFields /\ m.bids = t /\ m.bid_refunds = n.bid_refunds
    BY DEF Auctions, NamesFields
<1>3. Auctions(m)
    BY <1>1, <1>2 DEF Auctions
<1>4. Owed(m) = Erase(Owed(n), name)
    BY <1>2 DEF Owed, Erase
<1> HIDE DEF m
<1>6. Total(Owed(m)) = Total(Owed(n)) - At(Owed(n), name)
    BY <1>4, OwedTable, TotalErase
<1>7. At(Owed(n), name) \in Int
    BY OwedTable DEF At, IntTable
<1>8. Due(m) = Due(n) - At(Owed(n), name)
    BY <1>2, <1>6, <1>7, OwedTable DEF Due
<1> QED BY <1>3, <1>8 DEF m

\* Other refunds.
LEMMA RefundsChanged ==
    ASSUME NEW n, Auctions(n), NEW t, IntTable(t), NEW paybacks
    PROVE  LET m == [n EXCEPT !.bid_refunds = t, !.paybacks = paybacks]
           IN  /\ Auctions(m) /\ m.bids = n.bids /\ Due(m) = Due(n) - Total(n.bid_refunds) + Total(t)
               /\ Owed(m) = Owed(n)
<1> DEFINE m == [n EXCEPT !.bid_refunds = t, !.paybacks = paybacks]
<1>1. DOMAIN m = NamesFields /\ m.bids = n.bids /\ m.bid_refunds = t
    BY DEF Auctions, NamesFields
<1> HIDE DEF m
<1>2. Auctions(m) /\ Owed(m) = Owed(n)
    BY <1>1 DEF Auctions, Owed
<1>3. Due(m) = Due(n) - Total(n.bid_refunds) + Total(t)
    BY <1>1, <1>2, OwedTable, TotalType DEF Due
<1> QED BY <1>1, <1>2, <1>3 DEF m

\* Tokens go to eosio.names, or come from it.
LEMMA NamesTransfer ==
    ASSUME NEW w, Shaped(w), NEW x \in Users, NEW amount \in Int
    PROVE  /\ LET u == Transfer(w, x, names_account, amount)
              IN  Shaped(u) /\ KeepsRam(w, u) /\ KeepsStakes(w, u) /\ Slack(u) = Slack(w) + amount
           /\ LET u == Transfer(w, names_account, x, amount)
              IN  Shaped(u) /\ KeepsRam(w, u) /\ KeepsStakes(w, u) /\ Slack(u) = Slack(w) - amount
<1>0. /\ {stake_account, names_account, ram_account} \subseteq Holders /\ x \in Holders
      /\ stake_account # names_account /\ ram_account # names_account
      /\ x \notin {stake_account, names_account, ram_account}
    BY SystemAssumption DEF Holders, SystemAccounts, stake_account, names_account, ram_account
<1>1. ASSUME NEW u, NEW d \in Int, DOMAIN u = WorldFields, u.bw = w.bw, u.rex = w.rex,
             DOMAIN u.core = Holders,
             u.core[ram_account] = w.core[ram_account],
             u.core[stake_account] = w.core[stake_account],
             u.core[names_account] = w.core[names_account] + d
      PROVE  Shaped(u) /\ KeepsRam(w, u) /\ KeepsStakes(w, u) /\ Slack(u) = Slack(w) + d
  <2>1. Shaped(u)
      BY <1>1 DEF Shaped
  <2>2. KeepsRam(w, u) /\ KeepsStakes(w, u)
      BY <1>1 DEF KeepsRam, KeepsStakes, SameRam
  <2>3. Slack(u) = Slack(w) + d
      BY <1>1 DEF Slack, Shaped, RexShaped
  <2> QED BY <2>1, <2>2, <2>3
<1>2. LET u == Transfer(w, x, names_account, amount)
      IN  Shaped(u) /\ KeepsRam(w, u) /\ KeepsStakes(w, u) /\ Slack(u) = Slack(w) + amount
  <2> DEFINE u == Transfer(w, x, names_account, amount)
  <2>1. /\ DOMAIN u = WorldFields /\ u.bw = w.bw /\ u.rex = w.rex /\ DOMAIN u.core = Holders
        /\ u.core[ram_account] = w.core[ram_account]
        /\ u.core[stake_account] = w.core[stake_account]
        /\ u.core[names_account] = w.core[names_account] + amount
      BY <1>0 DEF Transfer, Shaped, WorldFields
  <2> HIDE DEF u
  <2>2. Shaped(u) /\ KeepsRam(w, u) /\ KeepsStakes(w, u) /\ Slack(u) = Slack(w) + amount
      BY <1>1, <2>1
  <2> QED BY <2>2 DEF u
<1>3. LET u == Transfer(w, names_account, x, amount)
      IN  Shaped(u) /\ KeepsRam(w, u) /\ KeepsStakes(w, u) /\ Slack(u) = Slack(w) - amount
  <2> DEFINE u == Transfer(w, names_account, x, amount)
             d == - amount
  <2>1. /\ DOMAIN u = WorldFields /\ u.bw = w.bw /\ u.rex = w.rex /\ DOMAIN u.core = Holders
        /\ u.core[ram_account] = w.core[ram_account]
        /\ u.core[stake_account] = w.core[stake_account]
        /\ u.core[names_account] = w.core[names_account] - amount
      BY <1>0 DEF Transfer, Shaped, WorldFields
  <2>2. u.core[names_account] = w.core[names_account] + d /\ d \in Int
      BY <2>1 DEF Shaped
  <2> HIDE DEF u, d
  <2>3. Shaped(u) /\ KeepsRam(w, u) /\ KeepsStakes(w, u) /\ Slack(u) = Slack(w) + d
      BY <1>1, <2>1, <2>2
  <2>4. Slack(w) + d = Slack(w) - amount
      BY DEF Shaped, RexShaped, Slack, d
  <2> QED BY <2>3, <2>4 DEF u
<1> QED BY <1>2, <1>3

\* A step of an auction.
NamesSettled ==
    \E w : /\ Shaped(w) /\ KeepsRam(World, w) /\ KeepsStakes(World, w)
           /\ NameBooks(w, names') /\ Become(w)

\* bidname: the new bid comes in, the old one becomes a refund of whoever is outbid.
LEMMA BidNameSettled ==
    ASSUME Shaped(World), NameBooks(World, names), NEW bidder \in Users, NEW name \in Names,
           NEW bid \in Nat, BidName(bidder, name, bid)
    PROVE  NamesSettled
<1> DEFINE before == IF name \in DOMAIN names.bids THEN outbid(names, name) ELSE names
           row == [high_bidder |-> bidder, high_bid |-> bid, last_bid_time |-> now]
           m == [before EXCEPT !.bids = Put(@, name, row)]
           w == Transfer(World, bidder, names_account, bid)
<1>d. /\ bid > 0 /\ names' = m /\ Become(w)
      /\ name \in DOMAIN names.bids => names.bids[name].high_bid > 0
    BY Zenon DEF BidName
<1>0. Auctions(names)
    BY DEF NameBooks
<1>1. Auctions(before) /\ Due(before) = Due(names) + At(Owed(names), name) /\ Owed(before) = Owed(names)
  <2>1. CASE name \notin DOMAIN names.bids
    <3>1. before = names /\ At(Owed(names), name) = 0
        BY <2>1 DEF At, Owed
    <3> QED BY <1>0, <3>1, OwedTable
  <2>2. CASE name \in DOMAIN names.bids
    <3> DEFINE current == names.bids[name]
               who == <<name, current.high_bidder>>
               amount == current.high_bid + At(names.bid_refunds, who)
               t == Put(names.bid_refunds, who, amount)
               after == [names EXCEPT !.bid_refunds = t, !.paybacks = names.paybacks \cup {who}]
    <3>1. /\ current.high_bid \in Int /\ current.high_bid = At(Owed(names), name)
          /\ At(names.bid_refunds, who) \in Int
      <4>1. current.high_bid \in Int /\ current.high_bid > 0
          BY <1>0, <1>d, <2>2 DEF Auctions, BidTable
      <4>2. current.high_bid = At(Owed(names), name)
          BY <4>1, <2>2 DEF At, Owed
      <4>3. At(names.bid_refunds, who) \in Int
          BY <1>0 DEF Auctions, IntTable, At
      <4> QED BY <4>1, <4>2, <4>3
    <3>2. outbid(names, name) = after
        BY <1>0 DEF outbid, Refundable, At, Auctions, NamesFields
    <3> HIDE DEF current, who
    <3>3. amount \in Int
        BY <3>1
    <3> HIDE DEF amount
    <3>4. IntTable(t) /\ Total(t) = Total(names.bid_refunds) - At(names.bid_refunds, who) + amount
        BY <1>0, <3>3, TotalPut DEF Auctions
    <3> HIDE DEF t
    <3>5. /\ Auctions(after) /\ Owed(after) = Owed(names)
          /\ Due(after) = Due(names) - Total(names.bid_refunds) + Total(t)
        BY <1>0, <3>4, RefundsChanged
    <3>6. Total(t) = Total(names.bid_refunds) + At(Owed(names), name) /\ Total(names.bid_refunds) \in Int
          /\ Due(names) \in Int
        BY <1>0, <3>1, <3>4, OwedTable DEF amount
    <3>7. before = after
        BY <2>2, <3>2
    <3> HIDE DEF after, before
    <3> QED BY <3>1, <3>5, <3>6, <3>7
  <2> QED BY <2>1, <2>2
<1> HIDE DEF before
<1>2. Auctions(m) /\ Due(m) = Due(before) - At(Owed(before), name) + bid
  <2>1. "high_bid" \in DOMAIN row /\ row.high_bid = bid
      OBVIOUS
  <2> HIDE DEF row
  <2>2. /\ Auctions(m)
        /\ Due(m) = Due(before) - At(Owed(before), name)
                      + (IF row.high_bid > 0 THEN row.high_bid ELSE 0)
      BY <1>1, <2>1, BidPut
  <2> HIDE DEF m
  <2> QED BY <1>d, <2>1, <2>2
<1> HIDE DEF m
<1>3. Due(m) = Due(names) + bid /\ Due(names) \in Int
  <2>1. At(Owed(names), name) \in Int /\ Due(names) \in Int
      BY <1>0, OwedTable DEF At, IntTable
  <2> QED BY <1>1, <1>2, <2>1
<1>4. Shaped(w) /\ KeepsRam(World, w) /\ KeepsStakes(World, w) /\ Slack(w) = Slack(World) + bid
    BY NamesTransfer
<1> HIDE DEF w
<1>5. NameBooks(w, m)
    BY <1>2, <1>3, <1>4 DEF NameBooks, Slack, Shaped, RexShaped
<1> QED BY <1>d, <1>4, <1>5 DEF NamesSettled

\* A refund is paid.
LEMMA PaidBack ==
    ASSUME Shaped(World), NameBooks(World, names), NEW bidder \in Users, NEW who, NEW paybacks,
           NEW amount, amount = At(names.bid_refunds, who),
           names' = [names EXCEPT !.bid_refunds = Erase(names.bid_refunds, who), !.paybacks = paybacks],
           Become(Transfer(World, names_account, bidder, amount))
    PROVE  NamesSettled
<1> DEFINE t == Erase(names.bid_refunds, who)
           m == [names EXCEPT !.bid_refunds = t, !.paybacks = paybacks]
           w == Transfer(World, names_account, bidder, amount)
<1>0. Auctions(names) /\ amount \in Int
  <2>1. Auctions(names) /\ amount = At(names.bid_refunds, who)
      BY DEF NameBooks
  <2> QED BY <2>1 DEF Auctions, IntTable, At
<1>1. IntTable(t) /\ Total(t) = Total(names.bid_refunds) - amount
    BY <1>0, TotalErase DEF Auctions
<1> HIDE DEF t
<1>2. Auctions(m) /\ Due(m) = Due(names) - Total(names.bid_refunds) + Total(t)
    BY <1>0, <1>1, RefundsChanged
<1> HIDE DEF m
<1>3. Due(m) = Due(names) - amount /\ Due(names) \in Int
    BY <1>0, <1>1, <1>2, OwedTable
<1>4. Shaped(w) /\ KeepsRam(World, w) /\ KeepsStakes(World, w) /\ Slack(w) = Slack(World) - amount
    BY <1>0, NamesTransfer
<1>d. Become(w)
    OBVIOUS
<1> HIDE DEF w
<1>5. NameBooks(w, m)
    BY <1>0, <1>2, <1>3, <1>4 DEF NameBooks, Slack, Shaped, RexShaped
<1>6. names' = m
    BY DEF m, t
<1> QED BY <1>d, <1>4, <1>5, <1>6 DEF NamesSettled

\* A refund asked for, or paid by the transaction outbidding has scheduled.
LEMMA RefundsSettled ==
    ASSUME Shaped(World), NameBooks(World, names), NEW bidder \in Users, NEW name \in Names,
           BidRefund(name, bidder) \/ RunPayback(name, bidder)
    PROVE  NamesSettled
<1> DEFINE who == <<name, bidder>>
           t == Erase(names.bid_refunds, who)
<1>0. DOMAIN names = NamesFields
    BY DEF NameBooks, Auctions
<1>1. CASE BidRefund(name, bidder)
  <2>1. names' = [names EXCEPT !.bid_refunds = t, !.paybacks = names.paybacks]
      BY <1>0, <1>1 DEF BidRefund, NamesFields
  <2>2. names.bid_refunds[who] = At(names.bid_refunds, who)
      BY <1>1 DEF BidRefund, At
  <2>3. Become(Transfer(World, names_account, bidder, names.bid_refunds[who]))
      BY <1>1 DEF BidRefund
  <2> QED BY <2>1, <2>2, <2>3, PaidBack
<1>2. CASE RunPayback(name, bidder)
  <2>1. names' = [names EXCEPT !.bid_refunds = t, !.paybacks = names.paybacks \ {who}]
      BY <1>0, <1>2 DEF RunPayback, NamesFields
  <2>2. Refundable(names, name, bidder) = At(names.bid_refunds, who)
      BY DEF Refundable, At
  <2>3. Become(Transfer(World, names_account, bidder, Refundable(names, name, bidder)))
      BY <1>2 DEF RunPayback
  <2> QED BY <2>1, <2>2, <2>3, PaidBack
<1> QED BY <1>1, <1>2

\* Any other names leave the bids alone; an auction that is won owes nothing.
LEMMA NewAccountSettled ==
    ASSUME Shaped(World), RamTable(World.bw.userres), NameBooks(World, names),
           NEW creator, NEW name \in Names, NewAccount(creator, name)
    PROVE  NamesSettled
<1> DEFINE created == [names EXCEPT !.accounts = names.accounts \cup {name}]
           erased == [created EXCEPT !.bids = Erase(@, name)]
           s == Put(bw.userres, name, NoResources)
           limits == Put(bw.limits, name, NoResources)
           w == [World EXCEPT !.bw.userres = s, !.bw.limits = limits]
<1>0. Auctions(names)
    BY DEF NameBooks
<1>1. Auctions(created) /\ Due(created) = Due(names) /\ created.bids = names.bids
  <2>1. DOMAIN created = NamesFields /\ created.bids = names.bids /\ created.bid_refunds = names.bid_refunds
      BY <1>0 DEF Auctions, NamesFields
  <2> HIDE DEF created
  <2> QED BY <1>0, <2>1 DEF Auctions, Due, Owed
<1>2. /\ names' = created \/ (names' = erased /\ name \in DOMAIN names.bids /\ names.bids[name].high_bid < 0)
      /\ Become([World EXCEPT !.bw.userres = Put(@, name, NoResources),
                              !.bw.limits = Put(@, name, NoResources)])
  <2>1. created = [names EXCEPT !.accounts = @ \cup {name}]
      OBVIOUS
  <2> HIDE DEF created
  <2> QED BY <2>1, Zenon DEF NewAccount
<1> HIDE DEF created
<1>3. Auctions(names') /\ Due(names') = Due(names)
  <2>1. CASE names' = created
      BY <1>1, <2>1
  <2>2. CASE names' = erased /\ name \in DOMAIN names.bids /\ names.bids[name].high_bid < 0
    <3>1. At(Owed(created), name) = 0
      <4>1. name \in DOMAIN created.bids /\ created.bids[name].high_bid < 0
            /\ created.bids[name].high_bid \in Int
          BY <1>0, <1>1, <2>2 DEF Auctions, BidTable
      <4> QED BY <4>1 DEF At, Owed
    <3>2. Auctions(erased) /\ Due(erased) = Due(created) - At(Owed(created), name)
        BY <1>1, BidErased
    <3> HIDE DEF erased
    <3> QED BY <1>0, <1>1, <2>2, <3>1, <3>2, OwedTable
  <2> QED BY <1>2, <2>1, <2>2
<1>4. [World EXCEPT !.bw.userres = Put(@, name, NoResources), !.bw.limits = Put(@, name, NoResources)] = w
    BY DEF World
<1>5. /\ DOMAIN w = WorldFields /\ DOMAIN w.bw = BwFields /\ w.bw.userres = s
      /\ w.core = core /\ w.rex = rex /\ w.bw.delband = bw.delband /\ w.bw.refunds = bw.refunds
  <2> HIDE DEF s, limits
  <2> QED BY DEF Shaped, World, WorldFields, BwFields
<1>6. TableShaped(s) /\ SameRam(bw.userres, s)
  <2>0. World.bw = bw
      BY DEF World
  <2>1. IsFiniteSet(DOMAIN s)
      BY <2>0, FS_AddElement DEF Shaped, TableShaped, Put
  <2>2. \A y \in DOMAIN s : DOMAIN s[y] = RowFields
      BY <2>0 DEF Shaped, TableShaped, Put, NoResources, RowFields
  <2>3. RamOf(bw.userres, name) = 0
      BY <2>0, SystemAssumption DEF RamTable
  <2>4. RamOf(s, name) = 0 /\ \A y : y # name => RamOf(s, y) = RamOf(bw.userres, y)
      BY DEF RamOf, Put, NoResources
  <2> HIDE DEF s
  <2> QED BY <2>1, <2>2, <2>3, <2>4 DEF TableShaped, SameRam
<1> HIDE DEF s, w
<1>7. Shaped(w) /\ KeepsRam(World, w) /\ KeepsStakes(World, w) /\ KeepsNames(World, w)
  <2>1. Shaped(w)
      BY <1>5, <1>6 DEF Shaped, World
  <2> QED BY <1>5, <1>6, <2>1 DEF KeepsRam, KeepsStakes, KeepsNames, Slack, World, Shaped, RexShaped
<1>8. NameBooks(w, names')
  <2>1. NameBooks(w, names)
      BY <1>7, NameBooksKept
  <2> QED BY <1>3, <2>1 DEF NameBooks
<1> QED BY <1>2, <1>4, <1>7, <1>8 DEF NamesSettled

\* Any step of names.
LEMMA NameStepSettled ==
    ASSUME Shaped(World), RamTable(World.bw.userres), NameBooks(World, names), NameStep \/ Payback
    PROVE  NamesSettled
<1>1. ASSUME NEW x \in Bidders, NEW name \in Names, NEW bid \in Bids[name], BidName(x, name, bid)
      PROVE  NamesSettled
  <2>1. x \in Users /\ bid \in Nat
      BY SystemAssumption
  <2> QED BY <1>1, <2>1, BidNameSettled
<1>2. ASSUME NEW x \in Bidders, NEW name \in Names, BidRefund(name, x) \/ RunPayback(name, x)
      PROVE  NamesSettled
  <2>1. x \in Users
      BY SystemAssumption
  <2> QED BY <1>2, <2>1, RefundsSettled
<1> QED BY <1>1, <1>2, NewAccountSettled DEF NameStep, Payback

-----------------------------------------------------------------------------
\* Of the bids that are open one is the highest.
Above(n, a, b) ==
    \/ n.bids[a].high_bid > n.bids[b].high_bid
    \/ n.bids[a].high_bid = n.bids[b].high_bid /\ NameValue[a] < NameValue[b]

\* There is a highest one, since names differ as numbers.
LEMMA HighestIsOpen ==
    ASSUME NEW n, Auctions(n), Open(n) # {}
    PROVE  Highest(n) \in Open(n)
<1> DEFINE O == Open(n)
           Up(x) == {y \in O : Above(n, y, x)}
           B == {Up(x) : x \in O}
<1>0. /\ IsFiniteSet(O) /\ O \subseteq Names
      /\ \A x \in O : n.bids[x].high_bid \in Int /\ NameValue[x] \in Int
  <2>1. IsFiniteSet(O)
      BY FS_Subset DEF Auctions, BidTable, Open
  <2> QED BY <2>1, SystemAssumption DEF Auctions, BidTable, Open
<1>1. /\ \A x \in O : ~ Above(n, x, x)
      /\ \A x, y, z \in O : Above(n, x, y) /\ Above(n, y, z) => Above(n, x, z)
      /\ \A x, y \in O : x = y \/ Above(n, x, y) \/ Above(n, y, x)
  <2>1. \A x \in O : ~ Above(n, x, x)
      BY <1>0 DEF Above
  <2>2. \A x, y, z \in O : Above(n, x, y) /\ Above(n, y, z) => Above(n, x, z)
      BY <1>0 DEF Above
  <2>3. \A x, y \in O : x = y \/ Above(n, x, y) \/ Above(n, y, x)
    <3>1. \A x, y \in O : NameValue[x] = NameValue[y] => x = y
        BY <1>0, SystemAssumption
    <3> QED BY <1>0, <3>1 DEF Above
  <2> QED BY <2>1, <2>2, <2>3
<1> HIDE DEF O
<1>2. PICK m \in O : \A x \in O : Up(x) \subseteq Up(m) => Up(x) = Up(m)
  <2>1. O # {}
      BY DEF O
  <2>2. B \in SUBSET (SUBSET O) /\ B # {}
      BY <2>1
  <2>3. PICK T \in B : \A U \in B : U \subseteq T => U = T
    <3> HIDE DEF B
    <3> QED BY <1>0, <2>2, SmallestSet
  <2>4. PICK m \in O : T = Up(m)
      OBVIOUS
  <2>5. \A x \in O : Up(x) \in B
      OBVIOUS
  <2> HIDE DEF B, Up
  <2> QED BY <2>3, <2>4, <2>5
<1>3. \A y \in O : ~ Above(n, y, m)
  <2> SUFFICES ASSUME NEW y \in O, Above(n, y, m) PROVE FALSE
      OBVIOUS
  <2>1. Up(y) \subseteq Up(m)
      BY <1>1
  <2>2. y \in Up(m) /\ y \notin Up(y)
      BY <1>1
  <2> HIDE DEF Up
  <2> QED BY <1>2, <2>1, <2>2
<1>4. \A y \in O \ {m} : Above(n, m, y)
    BY <1>1, <1>3
<1>5. Highest(n) = CHOOSE x \in O : \A y \in O \ {x} : Above(n, x, y)
    BY Zenon DEF Highest, Above, O
<1>6. (CHOOSE x \in O : \A y \in O \ {x} : Above(n, x, y)) \in O
    BY <1>4, Zenon
<1> QED BY <1>5, <1>6 DEF O

\* An auction that closes: the bid is not owed any more.
LEMMA CloseHighest ==
    ASSUME NEW n, Auctions(n), Open(n) # {}
    PROVE  LET high == n.bids[Highest(n)].high_bid
           IN  /\ high \in Int /\ Auctions(close_highest(n))
               /\ Due(close_highest(n)) = Due(n) - high
<1> DEFINE h == Highest(n)
           row == [n.bids[h] EXCEPT !.high_bid = - n.bids[h].high_bid]
           m == [n EXCEPT !.bids = Put(@, h, row)]
           high == n.bids[h].high_bid
<1>1. h \in Names /\ h \in DOMAIN n.bids /\ high \in Int /\ high > 0 /\ At(Owed(n), h) = high
  <2>1. h \in Open(n)
      BY HighestIsOpen
  <2> HIDE DEF h
  <2> QED BY <2>1 DEF Open, Auctions, BidTable, At, Owed
<1> HIDE DEF h
<1>2. "high_bid" \in DOMAIN row /\ row.high_bid = - high
    BY <1>1 DEF Auctions, BidTable
<1>3. [n EXCEPT !.bids[h].high_bid = - @] = m
  <2>1. [n.bids EXCEPT ![h].high_bid = - @] = Put(n.bids, h, row)
      BY <1>1 DEF Put
  <2> QED BY <2>1 DEF Auctions, NamesFields
<1> HIDE DEF row, high
<1>4. row.high_bid \in Int /\ ~ (row.high_bid > 0)
    BY <1>1, <1>2
<1>5. /\ Auctions(m)
      /\ Due(m) = Due(n) - At(Owed(n), h) + (IF row.high_bid > 0 THEN row.high_bid ELSE 0)
    BY <1>1, <1>2, <1>4, BidPut
<1> HIDE DEF m
<1>6. Due(m) = Due(n) - high
    BY <1>1, <1>4, <1>5, OwedTable
<1>7. close_highest(n) = m
    BY <1>3 DEF close_highest, h
<1> QED BY <1>1, <1>5, <1>6, <1>7 DEF high, h

\* A block: an auction may close, and what it has brought is promised.
LEMMA OnBlockSettled ==
    ASSUME Shaped(World), NameBooks(World, names), NEW producer, OnBlock(producer)
    PROVE  NamesSettled \/ UNCHANGED <<system, names>>
<1> DEFINE closes == /\ now - pay.last_producer_schedule_update > ScheduleInterval
                     /\ ClosesName(pay)
           high == names.bids[Highest(names)].high_bid
           r == IF closes THEN channel_namebid_to_rex(rex, high) ELSE rex
           counted == CountBlock(elect, producer)
           w == [World EXCEPT !.elect = counted, !.rex = r]
           m == IF closes THEN close_highest(names) ELSE names
<1>1. (names' = m /\ Become(w)) \/ UNCHANGED <<system, names>>
  <2>1. w = [World EXCEPT !.elect = counted,
                          !.rex = IF closes THEN channel_namebid_to_rex(@, high) ELSE @]
    <3> HIDE DEF closes, counted, high
    <3> QED BY DEF World
  <2> HIDE DEF w
  <2> QED BY <2>1, Zenon DEF OnBlock
<1> SUFFICES ASSUME names' = m, Become(w)
             PROVE  NamesSettled
    BY <1>1
<1>0. Auctions(names) /\ Due(names) \in Int
    BY OwedTable DEF NameBooks
<1>2. closes => high \in Int /\ Auctions(close_highest(names)) /\ Due(close_highest(names)) = Due(names) - high
  <2>1. closes => Open(names) # {}
      BY DEF ClosesName, MayClose
  <2> HIDE DEF closes
  <2> QED BY <1>0, <2>1, CloseHighest
<1>3. Auctions(m) /\ Due(m) = Due(names) - (IF closes THEN high ELSE 0)
  <2> HIDE DEF closes, high
  <2> QED BY <1>0, <1>2
<1>4. /\ RexShaped(r)
      /\ r.pool.namebid_proceeds \in {rex.pool.namebid_proceeds,
                                      rex.pool.namebid_proceeds + (IF closes THEN high ELSE 0)}
  <2>1. RexShaped(rex)
      BY DEF Shaped, World
  <2> HIDE DEF closes, high
  <2>2. CASE ~ closes
      BY <2>1, <2>2
  <2>3. CASE closes
    <3> DEFINE q == [rex EXCEPT !.pool.namebid_proceeds = @ + high]
    <3>1. DOMAIN q = DOMAIN rex /\ DOMAIN q.pool = DOMAIN rex.pool /\ q.orders = rex.orders
          /\ q.pool.namebid_proceeds = rex.pool.namebid_proceeds + high
        BY <2>1 DEF RexShaped, RexFields, PoolFields
    <3> HIDE DEF q
    <3>2. RexShaped(q)
        BY <1>2, <2>1, <2>3, <3>1 DEF RexShaped
    <3>3. r \in {rex, q}
        BY <2>3 DEF channel_namebid_to_rex, q
    <3> HIDE DEF r
    <3> QED BY <2>1, <2>3, <3>1, <3>2, <3>3
  <2> QED BY <2>2, <2>3
<1>9. closes => high >= 0
  <2>1. closes => Open(names) # {}
      BY DEF ClosesName, MayClose
  <2> HIDE DEF closes
  <2>2. closes => Highest(names) \in Open(names)
      BY <1>0, <2>1, HighestIsOpen
  <2> QED BY <1>0, <1>2, <2>2 DEF Open
<1>5. high \in Int \/ ~ closes
    BY <1>2
<1> HIDE DEF closes, high, r, counted, m
<1>6. DOMAIN w = WorldFields /\ w.rex = r /\ w.bw = bw /\ w.core = core
    BY DEF World, WorldFields
<1> HIDE DEF w
<1>7. Shaped(w) /\ KeepsRam(World, w) /\ KeepsStakes(World, w)
  <2>1. Shaped(w)
      BY <1>4, <1>6 DEF Shaped, World
  <2> QED BY <1>6, <2>1 DEF KeepsRam, KeepsStakes, SameRam, World
<1>8. NameBooks(w, m)
  <2>1. Slack(w) >= Slack(World) - (IF closes THEN high ELSE 0)
    <3>1. /\ core[names_account] \in Int /\ rex.pool.namebid_proceeds \in Int
          /\ Slack(w) = core[names_account] - r.pool.namebid_proceeds
          /\ Slack(World) = core[names_account] - rex.pool.namebid_proceeds
        BY <1>6 DEF Shaped, RexShaped, World, Slack
    <3> QED BY <1>4, <1>5, <1>9, <3>1
  <2>2. Slack(World) \in Int /\ Slack(w) \in Int /\ Slack(World) >= Due(names)
      BY <1>7 DEF Shaped, RexShaped, Slack, NameBooks
  <2> QED BY <1>0, <1>3, <1>5, <2>1, <2>2 DEF NameBooks
<1>10. Become(w) /\ names' = m
    OBVIOUS
<1> QED BY <1>7, <1>8, <1>10 DEF NamesSettled

\* Inflation and pay leave RAM, stakes and names alone.
Unrelated == \E w : /\ Shaped(w) /\ KeepsRam(World, w) /\ KeepsStakes(World, w)
                    /\ KeepsNames(World, w) /\ Become(w)

\* claimrewards issues tokens and pays others than the three accounts.
LEMMA ClaimUnrelated ==
    ASSUME Shaped(World), NEW x \in Users, ClaimRewards(x)
    PROVE  Unrelated /\ UNCHANGED names
<1> DEFINE claimed == Claimed(elect, x, now)
           issued == [World EXCEPT !.core = Issued(@, Inflation(pay, now)), !.elect = claimed.elect]
<1>1. PICK blocks, votes :
          Become(Transfer(Transfer(issued, bpay_account, x, blocks), vpay_account, x, votes))
          /\ UNCHANGED names
    BY Zenon DEF ClaimRewards
<1> DEFINE paid == Transfer(issued, bpay_account, x, blocks)
           w == Transfer(paid, vpay_account, x, votes)
           Mine == {ram_account, stake_account, names_account}
<1>0. /\ Mine \subseteq Holders /\ x \in Holders \ Mine
      /\ {bpay_account, vpay_account, saving_account} \subseteq Holders \ Mine
    BY SystemAssumption DEF Holders, SystemAccounts, ram_account, stake_account, names_account,
             bpay_account, vpay_account, saving_account
<1> HIDE DEF claimed, Mine
<1>2. /\ DOMAIN issued = WorldFields /\ issued.bw = bw /\ issued.rex = rex
      /\ DOMAIN issued.core = Holders /\ \A a \in Mine : issued.core[a] = core[a]
  <2> DEFINE c == Issued(core, Inflation(pay, now))
  <2>1. DOMAIN c = Holders /\ \A a \in Mine : c[a] = core[a]
      BY <1>0 DEF Issued, Shaped, World
  <2>2. issued = [World EXCEPT !.core = c, !.elect = claimed.elect]
      BY DEF World
  <2> HIDE DEF c, issued
  <2> QED BY <2>1, <2>2 DEF World, WorldFields
<1> HIDE DEF issued
<1>3. /\ DOMAIN paid = WorldFields /\ paid.bw = bw /\ paid.rex = rex
      /\ DOMAIN paid.core = Holders /\ \A a \in Mine : paid.core[a] = core[a]
    BY <1>0, <1>2 DEF Transfer, WorldFields
<1> HIDE DEF paid
<1>4. /\ DOMAIN w = WorldFields /\ w.bw = bw /\ w.rex = rex
      /\ DOMAIN w.core = Holders /\ \A a \in Mine : w.core[a] = core[a]
    BY <1>0, <1>3 DEF Transfer, WorldFields
<1>d. Become(w)
    BY <1>1 DEF paid
<1> HIDE DEF w
<1>5. /\ w.core[ram_account] = core[ram_account] /\ w.core[stake_account] = core[stake_account]
      /\ w.core[names_account] = core[names_account]
    BY <1>4 DEF Mine
<1>6. Shaped(w)
    BY <1>4, <1>5 DEF Shaped, World
<1>7. KeepsRam(World, w) /\ KeepsStakes(World, w) /\ KeepsNames(World, w)
    BY <1>4, <1>5, <1>6 DEF KeepsRam, KeepsStakes, KeepsNames, SameRam, Slack, Shaped, RexShaped, World
<1> QED BY <1>1, <1>6, <1>7, <1>d DEF Unrelated

-----------------------------------------------------------------------------
\* The books of RAM, of stakes and of names.
Books(w, r, n) == Shaped(w) /\ RamBooksOf(w, r) /\ StakeBooks(w) /\ NameBooks(w, n)

\* The inductive invariant of the system contract.
SysInv == Books(World, ram, names) /\ now \in Nat

\* A step to w keeps the invariant, if the books of w are in order.
LEMMA BecomeInv ==
    ASSUME now \in Nat, NEW w, Become(w), Books(w, ram', names')
    PROVE  SysInv'
<1> DEFINE u == [elect |-> elect', bw |-> bw', rex |-> rex', core |-> core']
<1>1. /\ DOMAIN u = WorldFields /\ u.bw = w.bw /\ u.rex = w.rex /\ u.core = w.core
      /\ now' = now
    BY DEF Become, WorldFields
<1>2. World' = u
    BY DEF World
<1> HIDE DEF u
<1>3. Shaped(u)
    BY <1>1 DEF Books, Shaped
<1>4. RamBooksOf(u, ram')
    BY <1>1 DEF Books, RamBooksOf
<1>5. StakeBooks(u)
    BY <1>1 DEF Books, StakeBooks, StakeTables, Debt
<1>6. NameBooks(u, names')
    BY <1>1 DEF Books, NameBooks, Slack
<1>7. Books(World', ram', names')
    BY <1>2, <1>3, <1>4, <1>5, <1>6 DEF Books
<1>8. Books(World, ram, names)'
    BY <1>7 DEF Books, Shaped, RamBooksOf, StakeBooks, NameBooks, StakeTables, Debt, Slack
<1> QED BY <1>1, <1>8 DEF SysInv

\* Each kind of step keeps the books.
LEMMA QuietInv ==
    ASSUME SysInv, Quiet, UNCHANGED <<ram, names>>
    PROVE  SysInv'
<1>1. PICK w : Aside(World, w) /\ Become(w)
    BY DEF Quiet
<1>2. Shaped(w) /\ KeepsRam(World, w) /\ KeepsNames(World, w) /\ KeepsStakes(World, w)
    BY <1>1, AsideKeeps
<1>3. /\ Shaped(World) /\ RamBooksOf(World, ram) /\ StakeTables(World) /\ Debt(World) = 0
      /\ NameBooks(World, names) /\ now \in Nat
    BY DEF SysInv, Books, StakeBooks
<1>4. RamBooksOf(w, ram)
    BY <1>2, <1>3, RamBooksAside DEF KeepsRam
<1>5. StakeTables(w) /\ Debt(w) = 0
    BY <1>2, <1>3, StakesKept
<1>6. NameBooks(w, names)
    BY <1>2, <1>3, NameBooksKept
<1>7. Books(w, ram', names')
    BY <1>2, <1>4, <1>5, <1>6 DEF Books, StakeBooks
<1> QED BY <1>1, <1>3, <1>7, BecomeInv

\* A step that settles its stakes.
LEMMA SettledInv ==
    ASSUME SysInv, Settled, UNCHANGED <<ram, names>>
    PROVE  SysInv'
<1>1. PICK w : Settles(World, w, 0) /\ Become(w)
    BY DEF Settled
<1>2. Shaped(w) /\ KeepsRam(World, w) /\ KeepsNames(World, w)
    BY <1>1 DEF Settles
<1>3. /\ Shaped(World) /\ RamBooksOf(World, ram) /\ Debt(World) = 0
      /\ NameBooks(World, names) /\ now \in Nat
    BY DEF SysInv, Books, StakeBooks
<1>4. RamBooksOf(w, ram)
    BY <1>2, <1>3, RamBooksAside DEF KeepsRam
<1>5. StakeTables(w) /\ Debt(w) = 0
    BY <1>1, <1>3 DEF Settles
<1>6. NameBooks(w, names)
    BY <1>2, <1>3, NameBooksKept
<1>7. Books(w, ram', names')
    BY <1>2, <1>4, <1>5, <1>6 DEF Books, StakeBooks
<1> QED BY <1>1, <1>3, <1>7, BecomeInv

\* A trade of RAM.
LEMMA RamTradedInv ==
    ASSUME SysInv, RamTraded, UNCHANGED names
    PROVE  SysInv'
<1>1. PICK w : /\ Shaped(w) /\ KeepsNames(World, w) /\ KeepsStakes(World, w)
               /\ RamBooksOf(w, ram') /\ Become(w)
    BY DEF RamTraded
<1>3. /\ Shaped(World) /\ StakeTables(World) /\ Debt(World) = 0
      /\ NameBooks(World, names) /\ now \in Nat
    BY DEF SysInv, Books, StakeBooks
<1>5. StakeTables(w) /\ Debt(w) = 0
    BY <1>1, <1>3, StakesKept
<1>6. NameBooks(w, names)
    BY <1>1, <1>3, NameBooksKept
<1>7. Books(w, ram', names')
    BY <1>1, <1>5, <1>6 DEF Books, StakeBooks
<1> QED BY <1>1, <1>3, <1>7, BecomeInv

\* A step of an auction.
LEMMA NamesSettledInv ==
    ASSUME SysInv, NamesSettled, UNCHANGED ram
    PROVE  SysInv'
<1>1. PICK w : /\ Shaped(w) /\ KeepsRam(World, w) /\ KeepsStakes(World, w)
               /\ NameBooks(w, names') /\ Become(w)
    BY DEF NamesSettled
<1>3. /\ RamBooksOf(World, ram) /\ StakeTables(World) /\ Debt(World) = 0 /\ now \in Nat
    BY DEF SysInv, Books, StakeBooks
<1>4. RamBooksOf(w, ram)
    BY <1>1, <1>3, RamBooksAside DEF KeepsRam
<1>5. StakeTables(w) /\ Debt(w) = 0
    BY <1>1, <1>3, StakesKept
<1>7. Books(w, ram', names')
    BY <1>1, <1>4, <1>5 DEF Books, StakeBooks
<1> QED BY <1>1, <1>3, <1>7, BecomeInv

\* Pay.
LEMMA UnrelatedInv ==
    ASSUME SysInv, Unrelated, UNCHANGED <<ram, names>>
    PROVE  SysInv'
<1>1. PICK w : /\ Shaped(w) /\ KeepsRam(World, w) /\ KeepsStakes(World, w)
               /\ KeepsNames(World, w) /\ Become(w)
    BY DEF Unrelated
<1>3. /\ Shaped(World) /\ RamBooksOf(World, ram) /\ StakeTables(World) /\ Debt(World) = 0
      /\ NameBooks(World, names) /\ now \in Nat
    BY DEF SysInv, Books, StakeBooks
<1>4. RamBooksOf(w, ram)
    BY <1>1, <1>3, RamBooksAside DEF KeepsRam
<1>5. StakeTables(w) /\ Debt(w) = 0
    BY <1>1, <1>3, StakesKept
<1>6. NameBooks(w, names)
    BY <1>1, <1>3, NameBooksKept
<1>7. Books(w, ram', names')
    BY <1>1, <1>4, <1>5, <1>6 DEF Books, StakeBooks
<1> QED BY <1>1, <1>3, <1>7, BecomeInv

\* The tables do not change, but maybe the clock and the relay.
LEMMA StillInv ==
    ASSUME SysInv, UNCHANGED <<core, elect, bw, rex, names>>, now' \in Nat,
           RamBooksOf(World, ram')
    PROVE  SysInv'
<1>1. Books(World, ram', names)
    BY DEF SysInv, Books
<1>2. Books(World, ram, names)'
    BY <1>1 DEF Books, Shaped, RamBooksOf, StakeBooks, NameBooks, StakeTables, Debt, Slack, World
<1> QED BY <1>2 DEF SysInv

-----------------------------------------------------------------------------
\* Any step of staking settles.
LEMMA StakeStepSettled ==
    ASSUME Shaped(World), StakeTables(World), NEW x \in Users, StakeStep(x)
    PROVE  Settled
<1>1. ASSUME NEW receiver \in Users, NEW net \in Stakes, NEW cpu \in Stakes, NEW transfer \in BOOLEAN,
             DelegateBw(x, receiver, net, cpu, transfer) \/ UndelegateBw(x, receiver, net, cpu)
      PROVE  Settled
  <2>1. net \in Nat /\ cpu \in Nat
      BY SystemAssumption
  <2> QED BY <1>1, <2>1, DelegateSettled
<1> QED BY <1>1, RefundSettled, Zenon DEF StakeStep

\* Owners of REX.
LEMMA RexOwnerQuiet ==
    ASSUME Shaped(World), NEW x \in Users, RexOwnerStep(x)
    PROVE  Quiet
BY DepositQuiet, WithdrawQuiet, BuyRexQuiet, SellRexQuiet, CnclRexOrderQuiet, UpdateRexQuiet,
   ConsolidateQuiet, MvToSavingsQuiet, MvFrSavingsQuiet, CloseRexQuiet, Zenon DEF RexOwnerStep

\* Loans.
LEMMA RexLoanQuiet ==
    ASSUME Shaped(World), NEW x \in Users, NEW kind, RexLoanStep(x, kind)
    PROVE  Quiet
BY RentRexQuiet, LoanFundsQuiet, Zenon DEF RexLoanStep

\* unstaketorex.
LEMMA RexUnstakeSettled ==
    ASSUME Shaped(World), StakeTables(World), NEW x \in Users, RexUnstakeStep(x)
    PROVE  Settled
<1>1. \A a \in Amounts \cup {0} : a \in Nat
    BY SystemAssumption
<1> QED BY <1>1, UnstakeToRexSettled DEF RexUnstakeStep

\* What a user does keeps the invariant.
LEMMA UserStepInv ==
    ASSUME SysInv, NEW x \in Users, UserStep(x)
    PROVE  SysInv'
<1>0. /\ Shaped(World) /\ RamBooksOf(World, ram) /\ StakeTables(World) /\ now \in Nat
    BY DEF SysInv, Books, StakeBooks
<1>1. CASE UNCHANGED <<ram, names, pay>> /\ (VoterStep(x) \/ ProducerStep(x))
    BY <1>0, <1>1, VoterQuiet, QuietInv
<1>2. CASE UNCHANGED <<ram, names, pay>> /\ StakeStep(x)
    BY <1>0, <1>2, StakeStepSettled, SettledInv
<1>3. CASE UNCHANGED <<ram, names, pay>> /\ RexOwnerStep(x)
    BY <1>0, <1>3, RexOwnerQuiet, QuietInv
<1>4. CASE UNCHANGED <<ram, names, pay>> /\ RexUnstakeStep(x)
    BY <1>0, <1>4, RexUnstakeSettled, SettledInv
<1>5. CASE UNCHANGED <<ram, names, pay>> /\ \E kind \in Kinds : RexLoanStep(x, kind)
    BY <1>0, <1>5, RexLoanQuiet, QuietInv
<1>6. CASE RamStep(x) /\ UNCHANGED <<names, pay>>
    BY <1>0, <1>6, RamStepTraded, RamTradedInv
<1>7. CASE ClaimRewards(x) /\ UNCHANGED ram
    BY <1>0, <1>7, ClaimUnrelated, UnrelatedInv
<1> QED BY <1>1, <1>2, <1>3, <1>4, <1>5, <1>6, <1>7, Zenon DEF UserStep

\* So does what eosio does,
LEMMA SystemAccountStepInv ==
    ASSUME SysInv, SystemAccountStep
    PROVE  SysInv'
<1>0. /\ Shaped(World) /\ RamBooksOf(World, ram) /\ StakeTables(World) /\ now \in Nat
    BY DEF SysInv, Books, StakeBooks
<1>1. CASE UNCHANGED <<ram, names, pay>> /\ \E x \in Users : LimitStep(x)
    BY <1>0, <1>1, LimitQuiet, QuietInv
<1>2. CASE UNCHANGED <<ram, names, pay>> /\ \E balance \in Amounts : SetRex(balance)
    BY <1>0, <1>2, SetRexQuiet, QuietInv
<1>3. CASE RamSupplyStep /\ UNCHANGED <<names, pay>>
  <2>1. RamBooksOf(World, ram') /\ UNCHANGED system
      BY <1>0, <1>3, RamSupplyCovers
  <2> QED BY <1>0, <1>3, <2>1, StillInv DEF system
<1>4. CASE PaySystemStep /\ UNCHANGED ram
  <2>1. UNCHANGED <<system, names>>
      BY <1>4, Zenon DEF PaySystemStep, UpdtRevision, SetInflation
  <2>2. RamBooksOf(World, ram') /\ UNCHANGED <<core, elect, bw, rex, names, now>>
      BY <1>0, <1>4, <2>1 DEF system
  <2> QED BY <1>0, <2>2, StillInv
<1> QED BY <1>1, <1>2, <1>3, <1>4, Zenon DEF SystemAccountStep

\* and what comes with time and blocks;
LEMMA ChainStepInv ==
    ASSUME SysInv, ChainStep
    PROVE  SysInv'
<1>0. /\ Shaped(World) /\ RamBooksOf(World, ram) /\ StakeTables(World) /\ now \in Nat
      /\ NameBooks(World, names) /\ RamTable(World.bw.userres)
    BY DEF SysInv, Books, StakeBooks, RamBooksOf
<1>1. CASE UNCHANGED <<ram, names, pay>> /\ Tick
  <2>1. now' \in Nat /\ UNCHANGED <<core, elect, bw, rex, names>> /\ ram' = ram
      BY <1>1, SystemAssumption DEF Tick
  <2>2. RamBooksOf(World, ram')
      BY <1>0, <2>1
  <2> QED BY <2>1, <2>2, StillInv
<1>2. CASE UNCHANGED <<ram, names, pay>> /\ \E max \in MaxExecs : RexExec(max)
    BY <1>0, <1>2, RexExecQuiet, QuietInv
<1>3. CASE \E producer \in Users : OnBlock(producer) /\ UNCHANGED ram
  <2>1. (NamesSettled \/ UNCHANGED <<system, names>>) /\ ram' = ram
      BY <1>0, <1>3, OnBlockSettled
  <2>2. CASE NamesSettled
      BY <2>1, <2>2, NamesSettledInv
  <2>3. CASE UNCHANGED <<system, names>>
    <3>1. RamBooksOf(World, ram') /\ UNCHANGED <<core, elect, bw, rex, names, now>>
        BY <1>0, <2>1, <2>3 DEF system
    <3> QED BY <1>0, <3>1, StillInv
  <2> QED BY <2>1, <2>2, <2>3
<1>4. CASE Payback /\ UNCHANGED <<ram, pay>>
    BY <1>0, <1>4, NameStepSettled, NamesSettledInv
<1> QED BY <1>1, <1>2, <1>3, <1>4, Zenon DEF ChainStep

\* and so does every step.
LEMMA NextInv ==
    ASSUME SysInv, [SystemNext]_everything
    PROVE  SysInv'
<1>0. /\ Shaped(World) /\ RamBooksOf(World, ram) /\ NameBooks(World, names)
      /\ RamTable(World.bw.userres) /\ now \in Nat
    BY DEF SysInv, Books, StakeBooks, RamBooksOf
<1>1. CASE \E x \in Users : UserStep(x)
    BY <1>1, UserStepInv
<1>2. CASE NameStep /\ UNCHANGED <<ram, pay>>
    BY <1>0, <1>2, NameStepSettled, NamesSettledInv
<1>3. CASE SystemAccountStep
    BY <1>3, SystemAccountStepInv
<1>4. CASE ChainStep
    BY <1>4, ChainStepInv
<1>5. CASE UNCHANGED everything
  <2>1. RamBooksOf(World, ram') /\ UNCHANGED <<core, elect, bw, rex, names, now>>
      BY <1>0, <1>5 DEF everything, system
  <2> QED BY <1>0, <2>1, StillInv
<1> QED BY <1>1, <1>2, <1>3, <1>4, <1>5, Zenon DEF SystemNext

\* An empty table adds up to nothing.
LEMMA TotalEmpty == \A f : TotalOf(f, {}) = 0
BY TotalIs, SumOfNone, FS_EmptySet

\* Empty tables are in order.
LEMMA EmptyBooks ==
    /\ RamTable(EmptyTable) /\ TableShaped(EmptyTable) /\ RamHeld(EmptyTable) = 0
    /\ StakeTable(EmptyTable) /\ Both(EmptyTable) = 0
<1>1. DOMAIN EmptyTable = {} /\ IsFiniteSet({})
    BY FS_EmptySet DEF EmptyTable
<1>2. RamTable(EmptyTable) /\ TableShaped(EmptyTable) /\ StakeTable(EmptyTable)
    BY <1>1 DEF RamTable, RamOf, TableShaped, StakeTable
<1>3. RamHeld(EmptyTable) = 0
  <2>1. \A x \in Users : Held(EmptyTable)[x] = 0
      BY <1>1 DEF Held, RamOf
  <2> QED BY <2>1, SumOfNone, SystemAssumption DEF RamHeld
<1>4. Both(EmptyTable) = 0
  <2>1. \A f : Sum(EmptyTable, f) = 0
      BY <1>1, TotalEmpty DEF Sum
  <2> QED BY <2>1 DEF Both
<1> QED BY <1>2, <1>3, <1>4

\* The launch of the chain: nothing is staked, held or bid.
LEMMA InitInv ==
    ASSUME SystemInit
    PROVE  SysInv
<1>1. /\ now \in Nat /\ DOMAIN core = Holders /\ \A a \in SystemAccounts : core[a] = 0
      /\ bw = EmptyBandwidth /\ rex = EmptyRex /\ names = NoNames
    BY SystemAssumption DEF SystemInit
<1>a. /\ core[ram_account] = 0 /\ core[stake_account] = 0 /\ core[names_account] = 0
    BY <1>1 DEF SystemAccounts
<1>2. /\ DOMAIN World = WorldFields /\ World.bw = EmptyBandwidth /\ World.rex = EmptyRex /\ World.core = core
    BY <1>1 DEF World, WorldFields
<1>3. RexShaped(EmptyRex) /\ EmptyRex.pool.namebid_proceeds = 0
  <2>1. IsFiniteSet(DOMAIN EmptyTable)
      BY FS_EmptySet DEF EmptyTable
  <2> QED BY <2>1 DEF RexShaped, EmptyRex, NoPool, RexFields, PoolFields
<1>4. /\ DOMAIN EmptyBandwidth = BwFields /\ EmptyBandwidth.userres = EmptyTable
      /\ EmptyBandwidth.delband = EmptyTable /\ EmptyBandwidth.refunds = EmptyTable
    BY DEF EmptyBandwidth, BwFields
<1>5. Shaped(World)
    BY <1>1, <1>a, <1>2, <1>3, <1>4, EmptyBooks DEF Shaped
<1>6. RamBooksOf(World, ram)
  <2>1. PICK size \in RamSizes, supply \in Nat : ram = init(size, supply, now)
      BY DEF SystemInit
  <2>2. /\ size \in Nat \ {0} /\ supply \div 1000 \in Nat
      BY SystemAssumption
  <2> DEFINE q == supply \div 1000
  <2>3. ram = [base |-> size, quote |-> q, max_ram_size |-> size,
               reserved |-> 0, stake |-> 0, new_ram_per_block |-> 0, last_ram_increase |-> now]
      BY <2>1 DEF init
  <2>q. q \in Nat
      BY <2>2
  <2> HIDE DEF q
  <2>4. ram \in Markets
      BY <1>1, <2>2, <2>3, <2>q DEF Markets
  <2>5. RelayCovers(ram)
      BY <2>2, <2>3, <2>q DEF RelayCovers
  <2> QED BY <1>a, <1>2, <1>4, <2>3, <2>4, <2>5, EmptyBooks DEF RamBooksOf
<1>7. StakeBooks(World)
    BY <1>a, <1>2, <1>4, EmptyBooks DEF StakeBooks, StakeTables, Debt
<1>8. NameBooks(World, names)
  <2>1. /\ DOMAIN NoNames = NamesFields /\ NoNames.bids = EmptyTable /\ NoNames.bid_refunds = EmptyTable
      BY DEF NoNames, NamesFields
  <2>2. DOMAIN EmptyTable = {} /\ IsFiniteSet({})
      BY FS_EmptySet DEF EmptyTable
  <2>3. Auctions(NoNames)
      BY <2>1, <2>2 DEF Auctions, BidTable, IntTable
  <2>4. DOMAIN Owed(NoNames) = {}
      BY <2>1, <2>2 DEF Owed
  <2>5. Due(NoNames) = 0
      BY <2>1, <2>2, <2>4, TotalEmpty DEF Due, Total
  <2> QED BY <1>1, <1>a, <1>2, <1>3, <2>3, <2>5 DEF NameBooks, Slack
<1> QED BY <1>1, <1>5, <1>6, <1>7, <1>8 DEF SysInv, Books

-----------------------------------------------------------------------------
\* What stakes count, of either kind.
LEMMA SumsInt ==
    ASSUME NEW t, StakeTable(t)
    PROVE  Sum(t, "net") \in Int /\ Sum(t, "cpu") \in Int
<1>1. IntTable(FieldTable(t, "net")) /\ IntTable(FieldTable(t, "cpu"))
    BY DEF IntTable, FieldTable, StakeTable, StakeRow
<1> QED BY <1>1, TotalType, SumIsTotal

\* The invariant implies what the runs check.
LEMMA SysInvImplies ==
    ASSUME SysInv
    PROVE  RamSolvent /\ StakeBacked /\ NamesBacked
<1>1. /\ Shaped(World) /\ RamBooksOf(World, ram) /\ StakeTables(World) /\ Debt(World) = 0
      /\ NameBooks(World, names)
    BY DEF SysInv, Books, StakeBooks
<1>2. World.bw = bw /\ World.core = core /\ World.rex = rex
    BY DEF World
<1>3. RamSolvent
  <2>1. RamHeld(bw.userres) = TotalOf([x \in DOMAIN bw.userres |-> bw.userres[x].ram], DOMAIN bw.userres)
      BY <1>1, <1>2, RamHeldIs DEF Shaped, RamBooksOf
  <2>2. get_bancor_output(ram.base, ram.quote, ram.reserved) =< ram.stake
      BY <1>1, CoversSolvent DEF RamBooksOf
  <2> QED BY <1>1, <1>2, <2>1, <2>2 DEF RamSolvent, RamBooks, RamBooksOf, RelayCovers
<1>4. StakeBacked
  <2> DEFINE a == Sum(bw.delband, "net")
             b == Sum(bw.delband, "cpu")
             c == Sum(bw.refunds, "net")
             d == Sum(bw.refunds, "cpu")
  <2>1. a \in Int /\ b \in Int /\ c \in Int /\ d \in Int
      BY <1>1, <1>2, SumsInt DEF StakeTables
  <2> HIDE DEF a, b, c, d
  <2>2. Both(bw.delband) = a + b /\ Both(bw.refunds) = c + d
      BY DEF Both, a, b, c, d
  <2>3. core[stake_account] = Both(bw.delband) + Both(bw.refunds)
    <3> DEFINE p == Both(bw.delband)
               q == Both(bw.refunds)
               m == core[stake_account]
    <3>1. p \in Int /\ q \in Int /\ m \in Int
        BY <1>1, <1>2, BothType DEF StakeTables
    <3>2. p + q - m = 0
        BY <1>1, <1>2 DEF Debt
    <3>3. m = p + q
      <4> HIDE DEF p, q, m
      <4> QED BY <3>1, <3>2
    <3> QED BY <3>3
  <2>4. core[stake_account] = (a + b) + (c + d)
      BY <2>2, <2>3
  <2>5. (a + b) + (c + d) = a + b + c + d
      BY <2>1
  <2> QED BY <2>4, <2>5 DEF StakeBacked, a, b, c, d
<1>5. NamesBacked
  <2> DEFINE o == Owed(names)
             f == [name \in Open(names) |-> names.bids[name].high_bid]
  <2>1. /\ Auctions(names) /\ core[names_account] - rex.pool.namebid_proceeds >= Due(names)
        /\ core[names_account] \in Int /\ rex.pool.namebid_proceeds \in Int
      BY <1>1, <1>2 DEF NameBooks, Slack, Shaped, RexShaped
  <2>2. /\ IntTable(o) /\ Total(o) \in Int /\ Total(names.bid_refunds) \in Int
      BY <2>1, OwedTable
  <2>3. Total(o) = TotalOf(f, Open(names))
    <3>1. /\ DOMAIN o = DOMAIN names.bids /\ Open(names) \subseteq DOMAIN o
          /\ \A name \in Open(names) : o[name] = f[name]
          /\ \A name \in DOMAIN o \ Open(names) : o[name] = 0
        BY DEF Owed, Open
    <3> HIDE DEF o, f
    <3>2. SumFunctionOnSet(o, DOMAIN o) = SumFunctionOnSet(o, Open(names))
        BY <2>2, <3>1, SumExtends DEF IntTable
    <3>3. IsFiniteSet(Open(names)) /\ \A name \in Open(names) : o[name] \in Int
        BY <2>2, <3>1, FS_Subset DEF IntTable
    <3>4. SumFunctionOnSet(o, Open(names)) = SumFunctionOnSet(f, Open(names))
        BY <3>1, <3>3, SumEqual
    <3> QED BY <3>2, <3>4, TotalIs DEF Total
  <2>4. Total(names.bid_refunds) = TotalOf(names.bid_refunds, DOMAIN names.bid_refunds)
      BY DEF Total
  <2>5. TotalOf(f, Open(names)) \in Int
      BY <2>2, <2>3
  <2> HIDE DEF o, f
  <2>6. core[names_account] >= TotalOf(f, Open(names)) + Total(names.bid_refunds) + rex.pool.namebid_proceeds
      BY <2>1, <2>2, <2>3, <2>5 DEF Due, o
  <2> QED BY <2>4, <2>6 DEF NamesBacked, f
<1> QED BY <1>3, <1>4, <1>5

-----------------------------------------------------------------------------
\* Whatever users, eosio and the chain do, in whatever order, from the launch on,
\* the books of RAM, of stakes and of names stay in order.
THEOREM SystemInvariant == SystemSpec => []SysInv
<1>1. SystemInit => SysInv
    BY InitInv
<1>2. SysInv /\ [SystemNext]_everything => SysInv'
    BY NextInv
<1> QED BY <1>1, <1>2, PTL DEF SystemSpec

\* Whoever holds RAM can sell it (RamSolvent): the tokens paid for it cover what the
\* relay would give for all of it at once, and RAM on the relay and RAM of accounts
\* make up its size (delegate_bandwidth.cpp, eosio.system.cpp).
THEOREM RamAlwaysSolvent == SystemSpec => []RamSolvent
<1>1. SysInv => RamSolvent
    BY SysInvImplies
<1> QED BY <1>1, SystemInvariant, PTL

\* eosio.stake holds what accounts have staked and what is on its way back to them
\* (StakeBacked), though delegatebw, undelegatebw, refunds and unstaketorex each
\* move it in their own way (delegate_bandwidth.cpp, rex.cpp).
THEOREM StakesAlwaysBacked == SystemSpec => []StakeBacked
<1>1. SysInv => StakeBacked
    BY SysInvImplies
<1> QED BY <1>1, SystemInvariant, PTL

\* eosio.names can pay every refund, every bid that may become one, and what it has
\* promised to the resource exchange (NamesBacked; name_bidding.cpp, rex.cpp).
THEOREM NamesAlwaysBacked == SystemSpec => []NamesBacked
<1>1. SysInv => NamesBacked
    BY SysInvImplies
<1> QED BY <1>1, SystemInvariant, PTL

-----------------------------------------------------------------------------
\* Bidders.  A part of the entries of a table is added up; one that is put may
\* join the part, or leave it.
InPart(t, S, key) == IF key \in S THEN t[key] ELSE 0

LEMMA PartPut ==
    ASSUME NEW t, IntTable(t), NEW S \in SUBSET DOMAIN t, NEW key, NEW v \in Int
    PROVE  /\ TotalOf(t, S) \in Int /\ InPart(t, S, key) \in Int
           /\ TotalOf(Put(t, key, v), S \cup {key}) = TotalOf(t, S) - InPart(t, S, key) + v
           /\ TotalOf(Put(t, key, v), S \ {key}) = TotalOf(t, S) - InPart(t, S, key)
           /\ TotalOf(Erase(t, key), S \ {key}) = TotalOf(t, S) - InPart(t, S, key)
<1> DEFINE old == InPart(t, S, key)
           p == Put(t, key, v)
           e == Erase(t, key)
           R == S \ {key}
<1>1. IsFiniteSet(S) /\ IsFiniteSet(R) /\ key \notin R /\ S \cup {key} = R \cup {key}
      /\ \A k \in S : t[k] \in Int
    BY FS_Subset, FS_RemoveElement DEF IntTable
<1>2. /\ p[key] = v /\ \A k \in R : p[k] = t[k] /\ e[k] = t[k] /\ t[k] \in Int
    BY DEF Put, Erase, IntTable
<1>d. old = IF key \in S THEN t[key] ELSE 0
    BY DEF InPart
<1> HIDE DEF p, e, old
<1>3. SumFunctionOnSet(t, S) \in Int /\ SumFunctionOnSet(t, R) \in Int
    BY <1>1, SumType
<1>4. old \in Int /\ SumFunctionOnSet(t, R) = SumFunctionOnSet(t, S) - old
  <2>1. CASE key \in S
    <3>1. SumFunctionOnSet(t, S) = t[key] + SumFunctionOnSet(t, R)
        BY <1>1, <2>1, SumWithout
    <3> HIDE DEF R
    <3> QED BY <1>1, <1>3, <1>d, <2>1, <3>1
  <2>2. CASE key \notin S
    <3>1. R = S
        BY <2>2
    <3> HIDE DEF R
    <3> QED BY <1>3, <1>d, <2>2, <3>1
  <2> QED BY <2>1, <2>2
<1> HIDE DEF R
<1>5. /\ SumFunctionOnSet(p, R) = SumFunctionOnSet(t, R)
      /\ SumFunctionOnSet(e, R) = SumFunctionOnSet(t, R)
    BY <1>1, <1>2, SumEqual
<1>6. SumFunctionOnSet(p, R \cup {key}) = p[key] + SumFunctionOnSet(p, R)
    BY <1>1, <1>2, SumWith
<1>7. SumFunctionOnSet(p, S \cup {key}) = SumFunctionOnSet(t, S) - old + v
  <2>1. SumFunctionOnSet(p, S \cup {key}) = v + SumFunctionOnSet(t, R)
      BY <1>1, <1>2, <1>5, <1>6
  <2> QED BY <1>3, <1>4, <2>1
<1> QED BY <1>3, <1>4, <1>5, <1>7, TotalIs DEF p, e, R, old

\* The row of a bid.
BidFields == {"high_bidder", "high_bid", "last_bid_time"}
BidRows(n) == \A name \in DOMAIN n.bids : DOMAIN n.bids[name] = BidFields

\* What x may get back, and what its bids have taken from it.
ToRefund(n, x) == TotalOf(n.bid_refunds, Refunds(n, x))
OnBids(n, x) == TotalOf(Worth(n), BidsOf(n, x))

\* A refund is put, or erased, for b.
LEMMA RefundPut ==
    ASSUME NEW n, Auctions(n), NEW key, NEW b, key[2] = b, NEW m, NEW x, NEW v \in Int
    PROVE  /\ ToRefund(n, x) \in Int /\ At(n.bid_refunds, key) \in Int
           /\ m.bid_refunds = Put(n.bid_refunds, key, v) =>
                  ToRefund(m, x) = ToRefund(n, x)
                                     + (IF x = b THEN v - At(n.bid_refunds, key) ELSE 0)
           /\ m.bid_refunds = Erase(n.bid_refunds, key) =>
                  ToRefund(m, x) = ToRefund(n, x)
                                     - (IF x = b THEN At(n.bid_refunds, key) ELSE 0)
<1> DEFINE t == n.bid_refunds
           S == Refunds(n, x)
           old == InPart(t, S, key)
<1>1. IntTable(t) /\ S \in SUBSET DOMAIN t
    BY DEF Auctions, Refunds
<1>3. /\ x = b => old = At(t, key)
      /\ x # b => key \notin S /\ old = 0
    BY DEF At, Refunds, InPart
<1>4. At(t, key) \in Int
    BY <1>1 DEF At, IntTable
<1>5. ASSUME m.bid_refunds = Put(t, key, v)
      PROVE  ToRefund(m, x) = ToRefund(n, x) + (IF x = b THEN v - At(t, key) ELSE 0)
  <2>1. Refunds(m, x) = IF x = b THEN S \cup {key} ELSE S \ {key}
    <3>1. DOMAIN m.bid_refunds = DOMAIN t \cup {key}
        BY <1>5 DEF Put
    <3> QED BY <3>1 DEF Refunds
  <2> HIDE DEF S, t
  <2>2. /\ TotalOf(Put(t, key, v), S \cup {key}) = TotalOf(t, S) - old + v
        /\ TotalOf(Put(t, key, v), S \ {key}) = TotalOf(t, S) - old
        /\ TotalOf(t, S) \in Int
      BY <1>1, PartPut
  <2> QED BY <1>3, <1>4, <1>5, <2>1, <2>2 DEF ToRefund, S, t
<1>6. ASSUME m.bid_refunds = Erase(t, key)
      PROVE  ToRefund(m, x) = ToRefund(n, x) - (IF x = b THEN At(t, key) ELSE 0)
  <2>1. Refunds(m, x) = S \ {key}
    <3>1. DOMAIN m.bid_refunds = DOMAIN t \ {key}
        BY <1>6 DEF Erase
    <3> QED BY <3>1 DEF Refunds
  <2> HIDE DEF S, t
  <2>2. TotalOf(Erase(t, key), S \ {key}) = TotalOf(t, S) - old /\ TotalOf(t, S) \in Int
      BY <1>1, 0 \in Int, PartPut
  <2> QED BY <1>3, <1>4, <1>6, <2>1, <2>2 DEF ToRefund, S, t
<1>7. ToRefund(n, x) \in Int
  <2> HIDE DEF S, t
  <2>1. TotalOf(t, S) \in Int
      BY <1>1, 0 \in Int, PartPut
  <2> QED BY <2>1 DEF ToRefund, S, t
<1>8. ToRefund(n, x) \in Int /\ At(n.bid_refunds, key) \in Int
    BY <1>4, <1>7
<1>9. m.bid_refunds = Put(n.bid_refunds, key, v) =>
          ToRefund(m, x) = ToRefund(n, x) + (IF x = b THEN v - At(n.bid_refunds, key) ELSE 0)
    BY <1>5
<1>10. m.bid_refunds = Erase(n.bid_refunds, key) =>
          ToRefund(m, x) = ToRefund(n, x) - (IF x = b THEN At(n.bid_refunds, key) ELSE 0)
    BY <1>6
<1> QED BY <1>8, <1>9, <1>10

\* What the bid on a name has taken from x.
Standing(n, name, x) == InPart(Worth(n), BidsOf(n, x), name)

\* A bid is put, or erased.
LEMMA BidOf ==
    ASSUME NEW n, Auctions(n), NEW name, NEW m, NEW x
    PROVE  /\ OnBids(n, x) \in Int /\ Standing(n, name, x) \in Int
           /\ \A row : m.bids = Put(n.bids, name, row) /\ row.high_bid \in Int =>
                  LET worth == IF row.high_bid < 0 THEN - row.high_bid ELSE row.high_bid
                  IN  OnBids(m, x) = OnBids(n, x) - Standing(n, name, x)
                                       + (IF row.high_bidder = x THEN worth ELSE 0)
           /\ m.bids = Erase(n.bids, name) => OnBids(m, x) = OnBids(n, x) - Standing(n, name, x)
<1> DEFINE t == Worth(n)
           S == BidsOf(n, x)
           old == InPart(t, S, name)
<1>1. DOMAIN t = DOMAIN n.bids /\ IntTable(t) /\ S \in SUBSET DOMAIN t
  <2>1. \A k \in DOMAIN n.bids : n.bids[k].high_bid \in Int
      BY DEF Auctions, BidTable
  <2> QED BY <2>1 DEF Worth, BidsOf, IntTable, Auctions, BidTable
<1>2. TotalOf(t, S) \in Int /\ old \in Int
  <2> HIDE DEF t, S
  <2> QED BY <1>1, 0 \in Int, PartPut
<1>3. ASSUME NEW row, m.bids = Put(n.bids, name, row), row.high_bid \in Int
      PROVE  LET worth == IF row.high_bid < 0 THEN - row.high_bid ELSE row.high_bid
             IN  OnBids(m, x) = OnBids(n, x) - Standing(n, name, x)
                                  + (IF row.high_bidder = x THEN worth ELSE 0)
  <2> DEFINE worth == IF row.high_bid < 0 THEN - row.high_bid ELSE row.high_bid
  <2>1. Worth(m) = Put(t, name, worth)
      BY <1>3 DEF Worth, Put
  <2>2. BidsOf(m, x) = IF row.high_bidder = x THEN S \cup {name} ELSE S \ {name}
      BY <1>3 DEF BidsOf, Put
  <2>3. worth \in Int
      BY <1>3
  <2>s. IntTable(t) /\ S \in SUBSET DOMAIN t
      BY <1>1
  <2> HIDE DEF t, S, worth
  <2>4. /\ TotalOf(Put(t, name, worth), S \cup {name}) = TotalOf(t, S) - old + worth
        /\ TotalOf(Put(t, name, worth), S \ {name}) = TotalOf(t, S) - old
      BY <2>s, <2>3, PartPut
  <2>5. OnBids(m, x) = OnBids(n, x) - Standing(n, name, x) + (IF row.high_bidder = x THEN worth ELSE 0)
      BY <1>2, <2>1, <2>2, <2>3, <2>4 DEF OnBids, Standing, t, S
  <2> QED BY <2>5 DEF worth
<1>4. ASSUME m.bids = Erase(n.bids, name)
      PROVE  OnBids(m, x) = OnBids(n, x) - Standing(n, name, x)
  <2>1. Worth(m) = Erase(t, name)
      BY <1>4 DEF Worth, Erase
  <2>2. BidsOf(m, x) = S \ {name}
      BY <1>4 DEF BidsOf, Erase
  <2>s. IntTable(t) /\ S \in SUBSET DOMAIN t
      BY <1>1
  <2> HIDE DEF t, S
  <2>4. TotalOf(Erase(t, name), S \ {name}) = TotalOf(t, S) - old
      BY <2>s, 0 \in Int, PartPut
  <2> QED BY <2>1, <2>2, <2>4 DEF OnBids, Standing, t, S
<1>5. OnBids(n, x) \in Int /\ Standing(n, name, x) \in Int
    BY <1>2 DEF OnBids, Standing
<1> QED BY <1>3, <1>4, <1>5

\* Tokens of x, in a step that moves amount from one account to another.
PaidTo(x, from, to, amount) ==
    core'[x] = core[x] + (IF x = to THEN amount ELSE 0) - (IF x = from THEN amount ELSE 0)

\* A transfer, seen by x.
LEMMA TransferPaid ==
    ASSUME Shaped(World), \A a \in DOMAIN core : core[a] \in Nat, NEW from \in Holders, NEW to \in Holders,
           from # to, NEW amount \in Int, Become(Transfer(World, from, to, amount)), NEW x \in Holders
    PROVE  core[x] \in Nat /\ PaidTo(x, from, to, amount)
<1>1. DOMAIN core = Holders /\ World.core = core /\ DOMAIN World = WorldFields
    BY DEF Shaped, World
<1>2. core' = [core EXCEPT ![from] = @ - amount, ![to] = @ + amount]
    BY <1>1 DEF Become, Transfer, World
<1>3. core[x] \in Nat /\ core[from] \in Nat /\ core[to] \in Nat
    BY <1>1
<1> QED BY <1>1, <1>2, <1>3 DEF PaidTo

\* x is whole, where no name is claimed.
LEMMA WholeIs ==
    ASSUME NEW x, DOMAIN names.bids \subseteq DOMAIN names'.bids,
           Holding(names', core', x) = Holding(names, core, x), Holding(names, core, x) \in Int
    PROVE  BidderWhole(x)
<1> DEFINE claimed == {name \in BidsOf(names, x) : name \notin DOMAIN names'.bids}
           f == [name \in claimed |-> names.bids[name].high_bid]
<1>1. claimed = {}
    BY DEF BidsOf
<1>2. TotalOf(f, claimed) = 0
  <2> HIDE DEF f, claimed
  <2> QED BY <1>1, TotalEmpty
<1> HIDE DEF f, claimed
<1>3. Holding(names', core', x) = Holding(names, core, x) + TotalOf(f, claimed)
    BY <1>2
<1> QED BY <1>3, Zenon DEF BidderWhole, f, claimed

\* The three parts of a holding.
LEMMA HoldingIs ==
    \A n, c, x : Holding(n, c, x) = c[x] + ToRefund(n, x) + OnBids(n, x)
BY DEF Holding, ToRefund, OnBids

\* bidname: whoever is outbid has a refund for its bid, the bidder a bid for its tokens.
LEMMA BidNameWhole ==
    ASSUME Shaped(World), Auctions(names), BidRows(names), \A a \in DOMAIN core : core[a] \in Nat,
           NEW bidder \in Users, NEW name \in Names, NEW bid \in Nat, BidName(bidder, name, bid),
           NEW x \in Users
    PROVE  BidderWhole(x) /\ BidRows(names')
<1> DEFINE current == names.bids[name]
           key == <<name, current.high_bidder>>
           amount == current.high_bid + At(names.bid_refunds, key)
           row == [high_bidder |-> bidder, high_bid |-> bid, last_bid_time |-> now]
           stood == name \in DOMAIN names.bids
<1>1. /\ DOMAIN names' = NamesFields /\ names'.bids = Put(names.bids, name, row)
      /\ stood => names'.bid_refunds = Put(names.bid_refunds, key, amount)
      /\ ~ stood => names'.bid_refunds = names.bid_refunds
    BY DEF BidName, outbid, Refundable, At, Auctions, NamesFields
<1>2. /\ bid > 0
      /\ stood => current.high_bid > 0 /\ current.high_bidder # bidder
      /\ Become(Transfer(World, bidder, names_account, bid))
    BY Zenon DEF BidName
<1>3. PaidTo(x, bidder, names_account, bid) /\ core[x] \in Nat /\ x # names_account
    BY <1>2, SystemAssumption, TransferPaid DEF Holders, SystemAccounts
<1>4. core'[x] = core[x] - (IF x = bidder THEN bid ELSE 0)
    BY <1>3 DEF PaidTo
<1>5. /\ Standing(names, name, x) = (IF stood /\ current.high_bidder = x THEN current.high_bid ELSE 0)
      /\ stood => current.high_bid \in Int
  <2>1. stood => current.high_bid \in Int /\ ~ (current.high_bid < 0)
      BY <1>2 DEF Auctions, BidTable
  <2>2. /\ name \in BidsOf(names, x) <=> stood /\ current.high_bidder = x
        /\ stood => Worth(names)[name] = IF current.high_bid < 0 THEN - current.high_bid
                                         ELSE current.high_bid
      BY DEF BidsOf, Worth
  <2> HIDE DEF stood, current
  <2> QED BY <2>1, <2>2 DEF Standing, InPart
<1>6. ToRefund(names', x) = ToRefund(names, x)
                              + (IF stood /\ current.high_bidder = x THEN current.high_bid ELSE 0)
      /\ ToRefund(names, x) \in Int
  <2>1. CASE stood
    <3>1. key[2] = current.high_bidder
        OBVIOUS
    <3>2. At(names.bid_refunds, key) \in Int
        BY DEF At, Auctions, IntTable
    <3>3. amount \in Int
        BY <1>5, <2>1, <3>2
    <3> HIDE DEF key, amount, current
    <3>4. /\ ToRefund(names, x) \in Int
          /\ ToRefund(names', x) = ToRefund(names, x)
                 + (IF x = current.high_bidder THEN amount - At(names.bid_refunds, key) ELSE 0)
        BY <1>1, <2>1, <3>1, <3>3, RefundPut
    <3>5. amount - At(names.bid_refunds, key) = current.high_bid
        BY <1>5, <2>1, <3>2 DEF amount
    <3> QED BY <2>1, <3>4, <3>5
  <2>2. CASE ~ stood
    <3>1. ToRefund(names', x) = ToRefund(names, x)
        BY <1>1, <2>2 DEF ToRefund, Refunds
    <3>2. ToRefund(names, x) \in Int
      <4>1. <<name, x>>[2] = x
          OBVIOUS
      <4> QED BY <4>1, 0 \in Int, RefundPut
    <3> QED BY <2>2, <3>1, <3>2
  <2> QED BY <2>1, <2>2
<1> HIDE DEF current, key, amount
<1>7. OnBids(names', x) = OnBids(names, x) - Standing(names, name, x) + (IF x = bidder THEN bid ELSE 0)
      /\ OnBids(names, x) \in Int
  <2>1. row.high_bid = bid /\ row.high_bidder = bidder /\ ~ (bid < 0) /\ row.high_bid \in Int
      OBVIOUS
  <2> HIDE DEF row
  <2> QED BY <1>1, <2>1, BidOf
<1>8. Holding(names', core', x) = Holding(names, core, x) /\ Holding(names, core, x) \in Int
  <2> HIDE DEF stood
  <2> QED BY <1>2, <1>3, <1>4, <1>5, <1>6, <1>7, HoldingIs
<1>9. DOMAIN names.bids \subseteq DOMAIN names'.bids
    BY <1>1 DEF Put
<1>10. BidRows(names')
    BY <1>1 DEF BidRows, BidFields, Put
<1> QED BY <1>8, <1>9, <1>10, WholeIs

\* bidrefund, asked for or run by the chain.
LEMMA RefundWhole ==
    ASSUME Shaped(World), Auctions(names), BidRows(names), \A a \in DOMAIN core : core[a] \in Nat,
           NEW bidder \in Users, NEW name \in Names,
           BidRefund(name, bidder) \/ RunPayback(name, bidder), NEW x \in Users
    PROVE  BidderWhole(x) /\ BidRows(names')
<1> DEFINE key == <<name, bidder>>
           amount == At(names.bid_refunds, key)
<1>1. /\ names'.bids = names.bids /\ names'.bid_refunds = Erase(names.bid_refunds, key)
      /\ Become(Transfer(World, names_account, bidder, amount))
    BY DEF BidRefund, RunPayback, Refundable, At, Auctions, NamesFields
<1>2. amount \in Int /\ key[2] = bidder
    BY DEF At, Auctions, IntTable
<1> HIDE DEF amount, key
<1>3. PaidTo(x, names_account, bidder, amount) /\ core[x] \in Nat /\ x # names_account
    BY <1>1, <1>2, SystemAssumption, TransferPaid DEF Holders, SystemAccounts
<1>4. /\ ToRefund(names', x) = ToRefund(names, x) - (IF x = bidder THEN amount ELSE 0)
      /\ ToRefund(names, x) \in Int
    BY <1>1, <1>2, 0 \in Int, RefundPut DEF amount
<1>5. OnBids(names', x) = OnBids(names, x)
    BY <1>1 DEF OnBids, BidsOf, Worth
<1>6. OnBids(names, x) \in Int
    BY BidOf
<1>7. Holding(names', core', x) = Holding(names, core, x) /\ Holding(names, core, x) \in Int
    BY <1>2, <1>3, <1>4, <1>5, <1>6, HoldingIs DEF PaidTo
<1> QED BY <1>1, <1>7, WholeIs DEF BidRows

\* newaccount: only who creates the account it has won pays for it.
LEMMA NewAccountWhole ==
    ASSUME Shaped(World), Auctions(names), BidRows(names), \A a \in DOMAIN core : core[a] \in Nat,
           NEW creator, NEW name \in Names, NewAccount(creator, name), NEW x \in Holders
    PROVE  BidderWhole(x) /\ BidRows(names')
<1> DEFINE won == /\ name \in DOMAIN names.bids /\ names.bids[name].high_bidder = creator
                  /\ names.bids[name].high_bid < 0
<1>1. /\ names'.bid_refunds = names.bid_refunds /\ core' = core
      /\ \/ names'.bids = names.bids
         \/ names'.bids = Erase(names.bids, name) /\ won
  <2> DEFINE created == [names EXCEPT !.accounts = @ \cup {name}]
             v == [World EXCEPT !.bw.userres = Put(@, name, NoResources),
                                !.bw.limits = Put(@, name, NoResources)]
  <2>1. /\ names' = created \/ (names' = [created EXCEPT !.bids = Erase(@, name)] /\ won)
        /\ core' = v.core
      BY Zenon DEF NewAccount, Become
  <2>2. v.core = core
      BY DEF World
  <2>3. /\ created.bids = names.bids /\ created.bid_refunds = names.bid_refunds
        /\ DOMAIN created = NamesFields
      BY DEF Auctions, NamesFields
  <2> HIDE DEF created, v, won
  <2> QED BY <2>1, <2>2, <2>3 DEF NamesFields
<1>2. /\ ToRefund(names', x) = ToRefund(names, x) /\ ToRefund(names, x) \in Int
      /\ core'[x] = core[x] /\ core[x] \in Nat
  <2>1. ToRefund(names', x) = ToRefund(names, x)
      BY <1>1 DEF ToRefund, Refunds
  <2>2. <<name, x>>[2] = x
      OBVIOUS
  <2>3. ToRefund(names, x) \in Int
      BY <2>2, 0 \in Int, RefundPut
  <2> QED BY <1>1, <2>1, <2>3 DEF Shaped, World, Holders
<1>3. OnBids(names, x) \in Int
    BY BidOf
<1>4. CASE names'.bids = names.bids
  <2>1. OnBids(names', x) = OnBids(names, x)
      BY <1>4 DEF OnBids, BidsOf, Worth
  <2>2. Holding(names', core', x) = Holding(names, core, x) /\ Holding(names, core, x) \in Int
      BY <1>2, <1>3, <2>1, HoldingIs
  <2> QED BY <1>4, <2>2, WholeIs DEF BidRows
<1>5. CASE names'.bids = Erase(names.bids, name) /\ won
  <2> DEFINE claimed == {k \in BidsOf(names, x) : k \notin DOMAIN names'.bids}
             f == [k \in claimed |-> names.bids[k].high_bid]
  <2>1. OnBids(names', x) = OnBids(names, x) - Standing(names, name, x)
      BY <1>5, BidOf
  <2>2. names.bids[name].high_bid \in Int
      BY <1>5 DEF Auctions, BidTable
  <2>3. TotalOf(f, claimed) = - Standing(names, name, x) /\ Standing(names, name, x) \in Int
    <3>1. CASE creator = x
      <4>1. claimed = {name} /\ f[name] = names.bids[name].high_bid
          BY <1>5, <3>1 DEF BidsOf, Erase
      <4>2. Standing(names, name, x) = - names.bids[name].high_bid
          BY <1>5, <3>1 DEF Standing, InPart, BidsOf, Worth
      <4> HIDE DEF claimed, f
      <4>3. TotalOf(f, {name}) = f[name]
        <5>1. IsFiniteSet({}) /\ name \notin {} /\ {} \cup {name} = {name}
            BY FS_EmptySet
        <5>2. SumFunctionOnSet(f, {} \cup {name}) = f[name] + SumFunctionOnSet(f, {})
            BY <2>2, <4>1, <5>1, SumWith
        <5>3. SumFunctionOnSet(f, {}) = 0
            BY TotalEmpty, TotalIs
        <5> QED BY <2>2, <4>1, <5>1, <5>2, <5>3, TotalIs
      <4> QED BY <2>2, <4>1, <4>2, <4>3
    <3>2. CASE creator # x
      <4>1. claimed = {}
          BY <1>5, <3>2 DEF BidsOf, Erase
      <4>2. Standing(names, name, x) = 0
          BY <1>5, <3>2 DEF Standing, InPart, BidsOf
      <4> HIDE DEF claimed, f
      <4> QED BY <4>1, <4>2, TotalEmpty
    <3> QED BY <3>1, <3>2
  <2> HIDE DEF claimed, f
  <2>4. Holding(names', core', x) = Holding(names, core, x) + TotalOf(f, claimed)
      BY <1>2, <1>3, <2>1, <2>3, HoldingIs
  <2>5. BidderWhole(x)
      BY <2>4, Zenon DEF BidderWhole, f, claimed
  <2>6. BidRows(names')
      BY <1>5 DEF BidRows, Erase
  <2> QED BY <2>5, <2>6
<1> QED BY <1>1, <1>4, <1>5

\* onblock: an auction that closes is still the bid of who has won it.
LEMMA OnBlockWhole ==
    ASSUME Shaped(World), Auctions(names), BidRows(names), \A a \in DOMAIN core : core[a] \in Nat,
           NEW producer, OnBlock(producer), names' # names, NEW x \in Users
    PROVE  BidderWhole(x) /\ BidRows(names')
<1> DEFINE h == Highest(names)
           row == [names.bids[h] EXCEPT !.high_bid = - names.bids[h].high_bid]
<1>1. names' = close_highest(names) /\ Open(names) # {} /\ core' = core
    BY DEF OnBlock, Become, World, ClosesName, MayClose
<1>2. h \in DOMAIN names.bids /\ names.bids[h].high_bid > 0 /\ names.bids[h].high_bid \in Int
    BY <1>1, HighestIsOpen DEF Open, Auctions, BidTable
<1>3. names'.bids = Put(names.bids, h, row) /\ names'.bid_refunds = names.bid_refunds
    BY <1>1, <1>2 DEF close_highest, Auctions, NamesFields, Put
<1>4. /\ row.high_bid = - names.bids[h].high_bid /\ row.high_bidder = names.bids[h].high_bidder
      /\ DOMAIN row = BidFields
    BY <1>2 DEF BidRows, BidFields
<1> DEFINE high == names.bids[h].high_bid
           worth == IF row.high_bid < 0 THEN - row.high_bid ELSE row.high_bid
<1>5. worth = high /\ row.high_bid \in Int /\ high \in Int
  <2> HIDE DEF row
  <2> QED BY <1>2, <1>4
<1>6. Standing(names, h, x) = IF row.high_bidder = x THEN high ELSE 0
  <2>1. /\ h \in BidsOf(names, x) <=> row.high_bidder = x
        /\ Worth(names)[h] = high
      BY <1>2, <1>4 DEF BidsOf, Worth
  <2> QED BY <2>1 DEF Standing, InPart
<1> HIDE DEF h, row
<1>7. /\ OnBids(names', x) = OnBids(names, x) - Standing(names, h, x)
                              + (IF row.high_bidder = x THEN worth ELSE 0)
      /\ OnBids(names, x) \in Int
    BY <1>3, <1>5, BidOf
<1>8. OnBids(names', x) = OnBids(names, x)
  <2> HIDE DEF worth, high
  <2> QED BY <1>5, <1>6, <1>7
<1>9. /\ ToRefund(names', x) = ToRefund(names, x) /\ ToRefund(names, x) \in Int
      /\ core'[x] = core[x] /\ core[x] \in Nat
  <2>1. ToRefund(names', x) = ToRefund(names, x)
      BY <1>3 DEF ToRefund, Refunds
  <2>2. <<h, x>>[2] = x
      OBVIOUS
  <2>3. ToRefund(names, x) \in Int
      BY <2>2, 0 \in Int, RefundPut
  <2> QED BY <1>1, <2>1, <2>3 DEF Shaped, World, Holders
<1>10. Holding(names', core', x) = Holding(names, core, x) /\ Holding(names, core, x) \in Int
    BY <1>7, <1>8, <1>9, HoldingIs
<1>11. DOMAIN names.bids \subseteq DOMAIN names'.bids
    BY <1>3 DEF Put
<1>12. BidRows(names')
    BY <1>3, <1>4 DEF BidRows, Put
<1> QED BY <1>10, <1>11, <1>12, WholeIs

\* Bids have their fields, and nobody owes tokens.
Bidding == BidRows(names) /\ \A a \in DOMAIN core : core[a] \in Nat

\* Balances are natural numbers after every action that changes them.
LEMMA BecomeNat ==
    ASSUME NEW w, Become(w)
    PROVE  \A a \in DOMAIN core' : core'[a] \in Nat
BY DEF Become, Solvent

\* The auctions change by their own steps only.
LEMMA NamesChange ==
    ASSUME SysInv, SystemNext, names' # names
    PROVE  NameStep \/ Payback \/ \E producer \in Users : OnBlock(producer)
<1>1. \A x \in Users : ClaimRewards(x) => names' = names
    BY ClaimUnrelated DEF SysInv, Books
<1> QED BY <1>1, Zenon DEF SystemNext, UserStep, SystemAccountStep, ChainStep, PaySystemStep,
           UpdtRevision, SetInflation

\* Every step either ends with Become, or leaves all tokens where they are.
LEMMA TokensMove ==
    ASSUME SysInv, SystemNext
    PROVE  (\E w : Become(w)) \/ UNCHANGED core
<1>0. /\ Shaped(World) /\ RamBooksOf(World, ram) /\ StakeTables(World) /\ now \in Nat
      /\ NameBooks(World, names) /\ RamTable(World.bw.userres)
    BY DEF SysInv, Books, StakeBooks, RamBooksOf
<1>1. ASSUME NEW x \in Users, UserStep(x)
      PROVE  \E w : Become(w)
  <2>1. CASE VoterStep(x) \/ ProducerStep(x)
      BY <1>0, <2>1, VoterQuiet DEF Quiet
  <2>2. CASE StakeStep(x)
      BY <1>0, <2>2, StakeStepSettled DEF Settled
  <2>3. CASE RexOwnerStep(x)
      BY <1>0, <2>3, RexOwnerQuiet DEF Quiet
  <2>4. CASE RexUnstakeStep(x)
      BY <1>0, <2>4, RexUnstakeSettled DEF Settled
  <2>5. CASE \E kind \in Kinds : RexLoanStep(x, kind)
      BY <1>0, <2>5, RexLoanQuiet DEF Quiet
  <2>6. CASE RamStep(x)
      BY <1>0, <2>6, RamStepTraded DEF RamTraded
  <2>7. CASE ClaimRewards(x)
      BY <1>0, <2>7, ClaimUnrelated DEF Unrelated
  <2> QED BY <1>1, <2>1, <2>2, <2>3, <2>4, <2>5, <2>6, <2>7, Zenon DEF UserStep
<1>2. CASE NameStep \/ Payback
    BY <1>0, <1>2, NameStepSettled DEF NamesSettled
<1>3. CASE SystemAccountStep
  <2>1. CASE \E x \in Users : LimitStep(x)
      BY <1>0, <2>1, LimitQuiet DEF Quiet
  <2>2. CASE \E balance \in Amounts : SetRex(balance)
      BY <1>0, <2>2, SetRexQuiet DEF Quiet
  <2>3. CASE RamSupplyStep
      BY <1>0, <2>3, RamSupplyCovers DEF system
  <2>4. CASE PaySystemStep
      BY <2>4, Zenon DEF PaySystemStep, UpdtRevision, SetInflation, system
  <2> QED BY <1>3, <2>1, <2>2, <2>3, <2>4, Zenon DEF SystemAccountStep
<1>4. CASE ChainStep
  <2>1. CASE Tick
      BY <2>1 DEF Tick
  <2>2. CASE \E max \in MaxExecs : RexExec(max)
      BY <1>0, <2>2, RexExecQuiet DEF Quiet
  <2>3. CASE \E producer \in Users : OnBlock(producer)
      BY <1>0, <2>3, OnBlockSettled DEF NamesSettled, system
  <2>4. CASE Payback
      BY <1>2, <2>4
  <2> QED BY <1>4, <2>1, <2>2, <2>3, <2>4, Zenon DEF ChainStep
<1> QED BY <1>1, <1>2, <1>3, <1>4, Zenon DEF SystemNext

\* A step of an auction leaves bidders whole.
LEMMA AuctionWhole ==
    ASSUME SysInv, Bidding, SystemNext, names' # names
    PROVE  (\A x \in Users : BidderWhole(x)) /\ BidRows(names')
<1>0. Shaped(World) /\ Auctions(names) /\ BidRows(names) /\ \A a \in DOMAIN core : core[a] \in Nat
    BY DEF SysInv, Books, NameBooks, Bidding
<1>1. CASE \E producer \in Users : OnBlock(producer)
    BY <1>0, <1>1, OnBlockWhole
<1>2. CASE Payback
  <2>1. PICK bidder \in Users, name \in Names : RunPayback(name, bidder)
      BY <1>2, SystemAssumption DEF Payback
  <2> QED BY <1>0, <2>1, RefundWhole
<1>3. CASE NameStep
  <2>1. ASSUME NEW bidder \in Users, NEW name \in Names, NEW bid \in Nat, BidName(bidder, name, bid)
        PROVE  (\A x \in Users : BidderWhole(x)) /\ BidRows(names')
      BY <1>0, <2>1, BidNameWhole
  <2>2. ASSUME NEW bidder \in Users, NEW name \in Names, BidRefund(name, bidder)
        PROVE  (\A x \in Users : BidderWhole(x)) /\ BidRows(names')
      BY <1>0, <2>2, RefundWhole
  <2>3. ASSUME NEW creator \in Creators, NEW name \in Names, NewAccount(creator, name)
        PROVE  (\A x \in Users : BidderWhole(x)) /\ BidRows(names')
    <3>1. \A x \in Holders : BidderWhole(x) /\ BidRows(names')
        BY <1>0, <2>3, NewAccountWhole
    <3> QED BY <3>1 DEF Holders, SystemAccounts
  <2>4. Bidders \subseteq Users /\ \A name \in Names : Bids[name] \subseteq Nat
      BY SystemAssumption
  <2> QED BY <1>3, <2>1, <2>2, <2>3, <2>4, Zenon DEF NameStep
<1> QED BY <1>1, <1>2, <1>3, NamesChange

\* The bids and the balances stay in order.
LEMMA BiddingNext ==
    ASSUME SysInv, Bidding, [SystemNext]_everything
    PROVE  Bidding'
<1>1. CASE SystemNext
  <2>1. \A a \in DOMAIN core' : core'[a] \in Nat
      BY <1>1, TokensMove, BecomeNat DEF Bidding
  <2>2. BidRows(names')
      BY <1>1, AuctionWhole DEF Bidding
  <2> QED BY <2>1, <2>2 DEF Bidding, BidRows
<1>2. CASE UNCHANGED everything
    BY <1>2 DEF everything, system, Bidding, BidRows
<1> QED BY <1>1, <1>2

\* In auctions nobody loses a token but for a name it has created (BiddersWhole),
\* whoever bids for how many names, is outbid and bids again, and whether it
\* collects its refunds or the chain pays them (name_bidding.cpp): a refund that
\* waits is added to, never replaced, and is paid once.
THEOREM BiddersAlwaysWhole == SystemSpec => BiddersWhole
<1>1. SystemInit => Bidding
  <2> SUFFICES ASSUME SystemInit PROVE Bidding
      OBVIOUS
  <2>1. names = NoNames /\ core \in [Holders -> Nat]
      BY DEF SystemInit
  <2> QED BY <2>1 DEF Bidding, BidRows, NoNames, EmptyTable
<1>2. SysInv /\ Bidding /\ [SystemNext]_everything => Bidding'
    BY BiddingNext
<1>3. SysInv /\ Bidding /\ [SystemNext]_everything => [\A x \in Bidders : BidderWhole(x)]_names
  <2> SUFFICES ASSUME SysInv, Bidding, [SystemNext]_everything, names' # names
               PROVE  \A x \in Bidders : BidderWhole(x)
      OBVIOUS
  <2>1. SystemNext
      BY DEF everything
  <2> QED BY <2>1, AuctionWhole, SystemAssumption
<1> QED BY <1>1, <1>2, <1>3, SystemInvariant, PTL DEF SystemSpec, BiddersWhole
=============================================================================
