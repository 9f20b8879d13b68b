----------------------------- MODULE RexProofs ------------------------------
(***************************************************************************)
(* What is proved of the resource exchange: in every behaviour of          *)
(* SystemSpec its pool agrees with the tables it sums up (RexBooks),       *)
(* returns come out as they were paid in (ReturnsAccounted), no step       *)
(* creates or loses tokens (RexBooksBalance), and a REX token never loses  *)
(* worth (SharePriceNeverFalls).                                           *)
(*                                                                         *)
(* Sound is the inductive invariant: what the books say, and what each     *)
(* helper relies on.  Goes(r, q, d, ct) says of one helper after another   *)
(* that it keeps the exchange sound, makes it d tokens richer and its REX  *)
(* no cheaper.                                                             *)
(***************************************************************************)
EXTENDS SystemProofs

-----------------------------------------------------------------------------
\* A table whose rows have an integer field.
IntField(t, f) == IsFiniteSet(DOMAIN t) /\ \A k \in DOMAIN t : t[k][f] \in Int
FieldAt(t, k, f) == IF k \in DOMAIN t THEN t[k][f] ELSE 0

\* A sum over such a table.
LEMMA FieldSum ==
    ASSUME NEW t, NEW f, IntField(t, f)
    PROVE  IntTable(FieldTable(t, f)) /\ Sum(t, f) \in Int
<1>1. IntTable(FieldTable(t, f))
    BY DEF IntField, IntTable, FieldTable
<1> QED BY <1>1, TotalType, SumIsTotal

\* A row put counts instead of the one that was there.
LEMMA FieldPut ==
    ASSUME NEW t, NEW f, IntField(t, f), NEW key, NEW row, row[f] \in Int
    PROVE  /\ IntField(Put(t, key, row), f)
           /\ Sum(Put(t, key, row), f) = Sum(t, f) - FieldAt(t, key, f) + row[f]
<1>1. IntField(Put(t, key, row), f)
    BY FS_AddElement DEF IntField, Put
<1>2. FieldTable(Put(t, key, row), f) = Put(FieldTable(t, f), key, row[f])
    BY DEF FieldTable, Put
<1>3. Total(Put(FieldTable(t, f), key, row[f])) = Total(FieldTable(t, f)) - At(FieldTable(t, f), key) + row[f]
    BY FieldSum, TotalPut
<1>4. At(FieldTable(t, f), key) = FieldAt(t, key, f)
    BY DEF At, FieldAt, FieldTable
<1> QED BY <1>1, <1>2, <1>3, <1>4, SumIsTotal

\* A row erased counts no more.
LEMMA FieldErase ==
    ASSUME NEW t, NEW f, IntField(t, f), NEW key
    PROVE  /\ IntField(Erase(t, key), f)
           /\ Sum(Erase(t, key), f) = Sum(t, f) - FieldAt(t, key, f)
<1>1. IntField(Erase(t, key), f)
    BY FS_RemoveElement DEF IntField, Erase
<1>2. FieldTable(Erase(t, key), f) = Erase(FieldTable(t, f), key)
    BY DEF FieldTable, Erase
<1>3. Total(Erase(FieldTable(t, f), key)) = Total(FieldTable(t, f)) - At(FieldTable(t, f), key)
    BY FieldSum, TotalErase
<1>4. At(FieldTable(t, f), key) = FieldAt(t, key, f)
    BY DEF At, FieldAt, FieldTable
<1> QED BY <1>1, <1>2, <1>3, <1>4, SumIsTotal

\* modify() of a row that is there.
LEMMA ExceptIsPut ==
    ASSUME NEW t, NEW key \in DOMAIN t, NEW row, t = [k \in DOMAIN t |-> t[k]]
    PROVE  [t EXCEPT ![key] = row] = Put(t, key, row)
BY DEF Put

\* Sums of sums.
LEMMA SumPlus ==
    ASSUME NEW S, IsFiniteSet(S), NEW f, NEW g, NEW h,
           \A x \in S : f[x] \in Int /\ g[x] \in Int /\ h[x] = f[x] + g[x]
    PROVE  SumFunctionOnSet(h, S) = SumFunctionOnSet(f, S) + SumFunctionOnSet(g, S)
<1> DEFINE B == {T \in SUBSET S : SumFunctionOnSet(h, T) # SumFunctionOnSet(f, T) + SumFunctionOnSet(g, T)}
<1> SUFFICES ASSUME B # {} PROVE FALSE
    OBVIOUS
<1>0. B \in SUBSET (SUBSET S)
    OBVIOUS
<1>1. PICK T \in B : \A U \in B : U \subseteq T => U = T
  <2> HIDE DEF B
  <2> QED BY <1>0, SmallestSet
<1>2. IsFiniteSet(T)
    BY <1>1, FS_Subset
<1>3. T # {}
  <2>1. \A e : SumFunctionOnSet(e, {}) = 0
      BY FS_EmptySet, SumRest
  <2>2. SumFunctionOnSet(h, {}) = SumFunctionOnSet(f, {}) + SumFunctionOnSet(g, {})
      BY <2>1
  <2> QED BY <1>1, <2>2
<1>4. PICK y : y \in T
    BY <1>3
<1> DEFINE U == T \ {y}
<1>5. U \notin B /\ U \in SUBSET S /\ IsFiniteSet(U)
    BY <1>1, <1>2, <1>4, FS_RemoveElement
<1>6. SumFunctionOnSet(h, U) = SumFunctionOnSet(f, U) + SumFunctionOnSet(g, U)
    BY <1>5
<1>7. /\ SumFunctionOnSet(f, T) = f[y] + SumFunctionOnSet(f, U)
      /\ SumFunctionOnSet(g, T) = g[y] + SumFunctionOnSet(g, U)
      /\ SumFunctionOnSet(h, T) = h[y] + SumFunctionOnSet(h, U)
    BY <1>2, <1>4, SumWithout
<1>8. SumFunctionOnSet(f, U) \in Int /\ SumFunctionOnSet(g, U) \in Int
    BY <1>5, SumType
<1>9. f[y] \in Int /\ g[y] \in Int /\ h[y] = f[y] + g[y]
    BY <1>4
<1> QED
  <2> HIDE DEF U
  <2> QED BY <1>1, <1>6, <1>7, <1>8, <1>9

\* A sum of multiples.
LEMMA SumTimes ==
    ASSUME NEW S, IsFiniteSet(S), NEW f, NEW c \in Int, NEW h,
           \A x \in S : f[x] \in Int /\ h[x] = f[x] * c
    PROVE  SumFunctionOnSet(h, S) = SumFunctionOnSet(f, S) * c
<1> DEFINE B == {T \in SUBSET S : SumFunctionOnSet(h, T) # SumFunctionOnSet(f, T) * c}
<1> SUFFICES ASSUME B # {} PROVE FALSE
    OBVIOUS
<1>0. B \in SUBSET (SUBSET S)
    OBVIOUS
<1>1. PICK T \in B : \A U \in B : U \subseteq T => U = T
  <2> HIDE DEF B
  <2> QED BY <1>0, SmallestSet
<1>2. IsFiniteSet(T)
    BY <1>1, FS_Subset
<1>3. T # {}
  <2>1. \A e : SumFunctionOnSet(e, {}) = 0
      BY FS_EmptySet, SumRest
  <2>2. SumFunctionOnSet(h, {}) = SumFunctionOnSet(f, {}) * c
      BY <2>1
  <2> QED BY <1>1, <2>2
<1>4. PICK y : y \in T
    BY <1>3
<1> DEFINE U == T \ {y}
<1>5. U \notin B /\ U \in SUBSET S /\ IsFiniteSet(U)
    BY <1>1, <1>2, <1>4, FS_RemoveElement
<1>6. SumFunctionOnSet(h, U) = SumFunctionOnSet(f, U) * c
    BY <1>5
<1>7. /\ SumFunctionOnSet(f, T) = f[y] + SumFunctionOnSet(f, U)
      /\ SumFunctionOnSet(h, T) = h[y] + SumFunctionOnSet(h, U)
    BY <1>2, <1>4, SumWithout
<1>8. SumFunctionOnSet(f, U) \in Int
    BY <1>5, SumType
<1>9. f[y] \in Int /\ h[y] = f[y] * c
    BY <1>4
<1>10. \A a, b \in Int : (a + b) * c = a * c + b * c
    OBVIOUS
<1> QED
  <2> HIDE DEF U
  <2> QED BY <1>1, <1>6, <1>7, <1>8, <1>9, <1>10

\* A sum in two parts.
LEMMA SumParts ==
    ASSUME NEW S, IsFiniteSet(S), NEW R \in SUBSET S, NEW f, \A x \in S : f[x] \in Int
    PROVE  /\ SumFunctionOnSet(f, R) \in Int /\ SumFunctionOnSet(f, S \ R) \in Int
           /\ SumFunctionOnSet(f, S) = SumFunctionOnSet(f, R) + SumFunctionOnSet(f, S \ R)
<1> DEFINE g == [x \in S |-> IF x \in R THEN f[x] ELSE 0]
           h == [x \in S |-> IF x \in R THEN 0 ELSE f[x]]
<1>1. IsFiniteSet(R) /\ IsFiniteSet(S \ R)
    BY FS_Subset
<1>2. SumFunctionOnSet(f, S) = SumFunctionOnSet(g, S) + SumFunctionOnSet(h, S)
  <2>1. \A x \in S : g[x] \in Int /\ h[x] \in Int /\ f[x] = g[x] + h[x]
      OBVIOUS
  <2> HIDE DEF g, h
  <2> QED BY <2>1, SumPlus
<1>3. SumFunctionOnSet(g, S) = SumFunctionOnSet(g, R) /\ SumFunctionOnSet(g, R) = SumFunctionOnSet(f, R)
  <2>1. (\A x \in S : g[x] \in Int) /\ (\A x \in S \ R : g[x] = 0) /\ (\A x \in R : g[x] = f[x])
      OBVIOUS
  <2> HIDE DEF g
  <2> QED BY <1>1, <2>1, SumExtends, SumEqual
<1>4. SumFunctionOnSet(h, S) = SumFunctionOnSet(h, S \ R) /\ SumFunctionOnSet(h, S \ R) = SumFunctionOnSet(f, S \ R)
  <2>1. (\A x \in S : h[x] \in Int) /\ (\A x \in S \ (S \ R) : h[x] = 0) /\ (\A x \in S \ R : h[x] = f[x])
      OBVIOUS
  <2> HIDE DEF h
  <2> QED BY <1>1, <2>1, SumExtends, SumEqual
<1>5. SumFunctionOnSet(f, R) \in Int /\ SumFunctionOnSet(f, S \ R) \in Int
    BY <1>1, SumType
<1> QED BY <1>2, <1>3, <1>4, <1>5

-----------------------------------------------------------------------------
\* Those before x.
Before(S, R, x) == {y \in S : <<y, x>> \in R}

\* R is a strict order on S in which any two are comparable.
Ordered(S, R) ==
    /\ \A x \in S : <<x, x>> \notin R
    /\ \A x, y, z \in S : <<x, y>> \in R /\ <<y, z>> \in R => <<x, z>> \in R
    /\ \A x, y \in S : x = y \/ <<x, y>> \in R \/ <<y, x>> \in R

\* In a finite set with an order, for each number smaller than its size there is
\* one that so many come before.
LEMMA RankExists ==
    ASSUME NEW S, IsFiniteSet(S), NEW R, Ordered(S, R), NEW n \in Nat, n < Cardinality(S)
    PROVE  \E x \in S : Cardinality(Before(S, R, x)) = n
<1> DEFINE c == Cardinality(S)
           f == [x \in S |-> Cardinality(Before(S, R, x))]
           N == 0 .. (c - 1)
<1>1. c \in Nat
    BY FS_CardinalityType
<1>2. ASSUME NEW x \in S
      PROVE  /\ IsFiniteSet(Before(S, R, x)) /\ Cardinality(Before(S, R, x)) \in Nat
             /\ Cardinality(Before(S, R, x)) < c
  <2>1. Before(S, R, x) \in SUBSET S /\ x \notin Before(S, R, x)
      BY DEF Before, Ordered
  <2>2. IsFiniteSet(Before(S, R, x)) /\ Cardinality(Before(S, R, x)) \in Nat
      BY <2>1, FS_Subset, FS_CardinalityType
  <2>3. Cardinality(Before(S, R, x)) =< c /\ Cardinality(Before(S, R, x)) # c
      BY <2>1, FS_Subset
  <2> QED BY <1>1, <2>2, <2>3
<1>3. f \in [S -> N]
    BY <1>1, <1>2
<1>4. ASSUME NEW x \in S, NEW y \in S, <<x, y>> \in R
      PROVE  Cardinality(Before(S, R, x)) < Cardinality(Before(S, R, y))
  <2>1. Before(S, R, x) \in SUBSET Before(S, R, y) /\ x \in Before(S, R, y) /\ x \notin Before(S, R, x)
      BY <1>4 DEF Before, Ordered
  <2>2. /\ Cardinality(Before(S, R, x)) =< Cardinality(Before(S, R, y))
        /\ Cardinality(Before(S, R, x)) # Cardinality(Before(S, R, y))
      BY <1>2, <2>1, FS_Subset
  <2> QED BY <1>2, <2>2
<1>5. f \in Injection(S, N)
  <2>1. ASSUME NEW x \in S, NEW y \in S, f[x] = f[y] PROVE x = y
    <3>1. f[x] = Cardinality(Before(S, R, x)) /\ f[y] = Cardinality(Before(S, R, y))
        OBVIOUS
    <3>2. f[x] \in Int /\ f[y] \in Int
        BY <1>2
    <3>3. x = y \/ <<x, y>> \in R \/ <<y, x>> \in R
        BY DEF Ordered
    <3>4. ~ f[x] < f[y] /\ ~ f[y] < f[x]
        BY <2>1, <3>2
    <3>5. <<x, y>> \notin R /\ <<y, x>> \notin R
        BY <1>4, <3>1, <3>4
    <3> QED BY <3>3, <3>5
  <2> HIDE DEF f, N
  <2> QED BY <1>3, <2>1 DEF Injection, IsInjective
<1>6. IsFiniteSet(N) /\ Cardinality(N) = c
  <2> HIDE DEF c
  <2>1. 0 \in Int /\ c - 1 \in Int
      BY <1>1
  <2>2. IsFiniteSet(0 .. (c - 1)) /\ Cardinality(0 .. (c - 1)) = IF 0 > c - 1 THEN 0 ELSE c - 1 - 0 + 1
      BY <2>1, FS_Interval
  <2> QED BY <1>1, <2>2
<1>7. f \in Surjection(S, N)
  <2> HIDE DEF f, N
  <2> QED BY <1>5, <1>6, FS_Injection
<1>8. n \in N
    BY <1>1
<1>9. \E x \in S : f[x] = n
    BY <1>7, <1>8 DEF Surjection
<1> QED BY <1>9

\* So there is a first one.
LEMMA FirstExists ==
    ASSUME NEW S, IsFiniteSet(S), S # {}, NEW R, Ordered(S, R)
    PROVE  \E x \in S : \A y \in S \ {x} : <<x, y>> \in R
<1>1. Cardinality(S) \in Nat /\ 0 < Cardinality(S)
    BY FS_CardinalityType, FS_EmptySet
<1>2. PICK x \in S : Cardinality(Before(S, R, x)) = 0
    BY <1>1, RankExists
<1>3. Before(S, R, x) = {}
  <2>1. Before(S, R, x) \in SUBSET S
      BY DEF Before
  <2> QED BY <1>2, <2>1, FS_Subset, FS_EmptySet
<1> QED BY <1>2, <1>3 DEF Before, Ordered

\* Tables of tokens, or of REX.
NatTable(t) == IsFiniteSet(DOMAIN t) /\ \A k \in DOMAIN t : t[k] \in Nat

\* Rows of the tables.
BalanceFields == {"vote_stake", "rex_balance", "matured_rex", "maturities", "savings"}
LoanFields    == {"kind", "from", "receiver", "payment", "balance", "total_staked", "expiration"}
OrderFields   == {"rex_requested", "is_open", "proceeds", "stake_change", "order_time"}
ReturnFields  == {"exists", "last_dist_time", "pending_bucket_time", "oldest_bucket_time",
                  "pending_bucket_proceeds", "current_rate_of_increase", "proceeds"}

\* An owner has what has matured, matures or is saved.
BalanceSound(b) ==
    /\ DOMAIN b = BalanceFields
    /\ b.vote_stake \in Int
    /\ b.matured_rex \in Nat /\ b.savings \in Nat /\ NatTable(b.maturities)
    /\ b.rex_balance = HeldBy(b)

LoanSound(loan) ==
    /\ DOMAIN loan = LoanFields
    /\ loan.total_staked \in Nat \ {0} /\ loan.payment \in Nat \ {0} /\ loan.balance \in Nat
    /\ loan.expiration \in Int /\ loan.receiver \in Users /\ loan.kind \in Kinds

\* What a filled order has brought; of one that waits, how much it is for.
OrderSound(order) ==
    /\ DOMAIN order = OrderFields
    /\ order.is_open \in BOOLEAN /\ order.proceeds \in Nat
    /\ order.rex_requested \in Nat \ {0} /\ order.order_time \in Int
    /\ order.stake_change \in Int
    /\ order.is_open => order.proceeds = 0

\* The pool as it is when nobody is at it: with no REX there is nothing lent, so
\* that a first purchase may set it.
PoolSound(p) ==
    /\ DOMAIN p = PoolFields /\ p.exists \in BOOLEAN
    /\ p.total_lent \in Nat /\ p.total_unlent \in Nat /\ p.total_rent \in Nat /\ p.total_rex \in Nat
    /\ p.loan_num \in Nat /\ p.namebid_proceeds \in Int
    /\ p.total_lendable = p.total_unlent + p.total_lent
    /\ p.total_rex > 0 => p.exists
    /\ p.total_rex = 0 => p.total_lent = 0

OwnersSound(r) ==
    /\ IsFiniteSet(DOMAIN r.balances) /\ \A x \in DOMAIN r.balances : BalanceSound(r.balances[x])
    /\ r.pool.total_rex = Sum(r.balances, "rex_balance")

\* Loans are numbered from 1 on.
LoansSound(r) ==
    /\ IsFiniteSet(DOMAIN r.loans) /\ \A n \in DOMAIN r.loans : LoanSound(r.loans[n])
    /\ \A n \in DOMAIN r.loans : n \in Nat /\ n =< r.pool.loan_num
    /\ r.pool.total_lent = Sum(r.loans, "total_staked")

OrdersSound(r) == DOMAIN r.orders \subseteq Users /\ \A x \in DOMAIN r.orders : OrderSound(r.orders[x])

\* The REX of an order that waits has matured, and its owner has it still.
Covered(r) ==
    \A x \in OpenOrders(r) :
        x \in DOMAIN r.balances /\ r.orders[x].rex_requested =< r.balances[x].matured_rex

\* What a bucket has still to pay.
LeftOf(buckets, last) == [b \in DOMAIN buckets |-> buckets[b] * (TotalIntervals - Intervals(last, b))]

\* Buckets have started, at the full ten minutes, and none is over.
BucketsSound(buckets, ret, ct) ==
    /\ NatTable(buckets)
    /\ \A b \in DOMAIN buckets :
           /\ b \in Nat /\ b % DistInterval = 0
           /\ b =< ct /\ b =< ret.last_dist_time /\ ret.last_dist_time =< b + Term
           /\ ret.oldest_bucket_time =< b
           /\ ret.pending_bucket_time # Never => b < ret.pending_bucket_time

ReturnsSound(r, ct) ==
    LET ret == r.ret
    IN  /\ DOMAIN ret = ReturnFields /\ ret.exists \in BOOLEAN
        /\ ret.last_dist_time \in Nat /\ ret.last_dist_time % DistInterval = 0
        /\ ret.oldest_bucket_time \in Int
        /\ ret.pending_bucket_time \in Nat /\ ret.pending_bucket_proceeds \in Nat
        /\ ret.pending_bucket_time # Never => ret.pending_bucket_time % DistInterval = 0
        /\ ret.pending_bucket_time = Never => ret.pending_bucket_proceeds = 0
        /\ ~ ret.exists => DOMAIN r.buckets = {} /\ ret.pending_bucket_time = Never
        /\ BucketsSound(r.buckets, ret, ct)
        /\ ret.current_rate_of_increase = Total(r.buckets)
        /\ ret.proceeds = ret.pending_bucket_proceeds + Total(LeftOf(r.buckets, ret.last_dist_time))

\* The books of the exchange at the time ct.
Sound(r, ct) ==
    /\ DOMAIN r = RexFields
    /\ PoolSound(r.pool) /\ OwnersSound(r) /\ LoansSound(r) /\ OrdersSound(r)
    /\ ReturnsSound(r, ct) /\ NatTable(r.funds)

\* All that the tables say the exchange has.
Assets(r) ==
    Total(r.funds) + Sum(r.loans, "balance") + r.pool.total_lendable + r.ret.proceeds
      + Sum(r.orders, "proceeds")

RexInv ==
    /\ now \in Times /\ Sound(rex, now) /\ Covered(rex)
    /\ core[rex_account] \in Int /\ core[rex_account] >= Assets(rex)
-----------------------------------------------------------------------------
\* A quotient and its remainder.
LEMMA DivMod ==
    ASSUME NEW n \in Int, NEW d \in Nat \ {0}
    PROVE  /\ n \div d \in Int /\ n % d \in Nat /\ n % d < d
           /\ n = (n \div d) * d + (n % d)
OBVIOUS

\* It is determined by that.
LEMMA DivUnique ==
    ASSUME NEW n \in Int, NEW d \in Nat \ {0}, NEW k \in Int, NEW m \in Nat, m < d, n = k * d + m
    PROVE  n \div d = k /\ n % d = m
<1> DEFINE q == n \div d
           r == n % d
<1>1. q \in Int /\ r \in Nat /\ r < d /\ n = q * d + r
    BY DivMod
<1> HIDE DEF q, r
<1>2. ~ (k - q >= 1)
  <2> SUFFICES ASSUME k - q >= 1 PROVE FALSE
      OBVIOUS
  <2>1. (k - q) * d = r - m
    <3>1. (k - q) * d = k * d - q * d
        BY <1>1
    <3>2. k * d \in Int /\ q * d \in Int
        BY <1>1
    <3> QED BY <1>1, <3>1, <3>2
  <2>2. k - q \in Nat /\ 1 * d =< (k - q) * d
      BY <1>1, TimesMonotone
  <2> QED BY <1>1, <2>1, <2>2
<1>3. ~ (q - k >= 1)
  <2> SUFFICES ASSUME q - k >= 1 PROVE FALSE
      OBVIOUS
  <2>1. (q - k) * d = m - r
    <3>1. (q - k) * d = q * d - k * d
        BY <1>1
    <3>2. k * d \in Int /\ q * d \in Int
        BY <1>1
    <3> QED BY <1>1, <3>1, <3>2
  <2>2. q - k \in Nat /\ 1 * d =< (q - k) * d
      BY <1>1, TimesMonotone
  <2> QED BY <1>1, <2>1, <2>2
<1>4. q = k
    BY <1>1, <1>2, <1>3
<1>5. r = m
  <2>1. k * d \in Int
      OBVIOUS
  <2> QED BY <1>1, <1>4, <2>1
<1> QED BY <1>4, <1>5 DEF q, r

\* Times are multiples of ten minutes: instants at which returns are looked at.
Slot(t) == t \in Nat /\ t % DistInterval = 0

\* Between two of them there is a whole number of intervals, and a Term is one more.
LEMMA IntervalsBetween ==
    ASSUME NEW t, NEW u, Slot(t), Slot(u)
    PROVE  /\ Intervals(t, u) \in Int /\ Intervals(t, u) * DistInterval = t - u
           /\ (u =< t) <=> (Intervals(t, u) >= 0)
           /\ Intervals(t, u + Term) = Intervals(t, u) - TotalIntervals
           /\ (t =< u + Term) <=> (Intervals(t, u) =< TotalIntervals)
<1>0. DistInterval \in Nat \ {0} /\ TotalIntervals \in Nat \ {0}
    BY RexAssumption
<1> DEFINE i == t \div DistInterval
           j == u \div DistInterval
<1>1. i \in Int /\ j \in Int /\ t = i * DistInterval /\ u = j * DistInterval
    BY <1>0, DivMod DEF Slot
<1> HIDE DEF i, j
<1>2. t - u = (i - j) * DistInterval + 0
    BY <1>0, <1>1
<1>3. Intervals(t, u) = i - j
    BY <1>0, <1>1, <1>2, DivUnique DEF Intervals, Slot
<1>4. t - (u + Term) = (i - j - TotalIntervals) * DistInterval + 0
  <2>1. (i - j - TotalIntervals) * DistInterval = (i - j) * DistInterval - TotalIntervals * DistInterval
      BY <1>0, <1>1
  <2>2. (i - j) * DistInterval \in Int /\ TotalIntervals * DistInterval \in Int /\ t \in Int /\ u \in Int
      BY <1>0, <1>1 DEF Slot
  <2> QED BY <1>2, <2>1, <2>2 DEF Term
<1>5. Intervals(t, u + Term) = i - j - TotalIntervals
  <2>1. u + Term \in Int /\ t \in Int /\ t - (u + Term) \in Int /\ i - j - TotalIntervals \in Int
      BY <1>0, <1>1 DEF Slot, Term
  <2> QED BY <1>0, <1>4, <2>1, DivUnique DEF Intervals
<1>6. (u =< t) <=> (i - j >= 0)
  <2>1. CASE i - j >= 0
    <3>1. 0 * DistInterval =< (i - j) * DistInterval
        BY <1>0, <1>1, <2>1, TimesMonotone
    <3>2. (i - j) * DistInterval \in Int /\ 0 * DistInterval = 0
        BY <1>0, <1>1
    <3>3. t \in Int /\ u \in Int /\ u =< t
        BY <1>2, <3>1, <3>2 DEF Slot
    <3> QED BY <2>1, <3>3
  <2>2. CASE j - i >= 1
    <3>1. 1 * DistInterval =< (j - i) * DistInterval
        BY <1>0, <1>1, <2>2, TimesMonotone
    <3>2. u - t = (j - i) * DistInterval
        BY <1>0, <1>1
    <3> QED BY <1>0, <1>1, <2>2, <3>1, <3>2 DEF Slot
  <2>3. i - j >= 0 \/ j - i >= 1
      BY <1>1
  <2> QED BY <2>1, <2>2, <2>3
<1>7. (t =< u + Term) <=> (i - j =< TotalIntervals)
  <2> DEFINE n == i - j - TotalIntervals
  <2>0. n \in Int /\ t - (u + Term) = n * DistInterval /\ t - (u + Term) \in Int /\ Term \in Int
      BY <1>0, <1>1, <1>4 DEF Slot, Term
  <2> HIDE DEF n
  <2>1. CASE n =< 0
    <3>1. 0 * DistInterval =< (0 - n) * DistInterval
        BY <1>0, <2>0, <2>1, TimesMonotone
    <3>2. (0 - n) * DistInterval = 0 - n * DistInterval
        BY <1>0, <2>0
    <3> QED BY <1>0, <1>1, <2>0, <2>1, <3>1, <3>2 DEF Slot, n
  <2>2. CASE n >= 1
    <3>1. 1 * DistInterval =< n * DistInterval
        BY <1>0, <2>0, <2>2, TimesMonotone
    <3> QED BY <1>0, <1>1, <2>0, <2>2, <3>1 DEF Slot, n
  <2> QED BY <2>0, <2>1, <2>2
<1>8. Intervals(t, u) * DistInterval = t - u
    BY <1>0, <1>1, <1>2, <1>3
<1> QED BY <1>1, <1>3, <1>5, <1>6, <1>7, <1>8

\* Intervals add up.
LEMMA IntervalsAdd ==
    ASSUME NEW t, NEW u, NEW v, Slot(t), Slot(u), Slot(v)
    PROVE  Intervals(t, v) = Intervals(t, u) + Intervals(u, v)
<1>0. DistInterval \in Nat \ {0}
    BY RexAssumption
<1> DEFINE i == t \div DistInterval
           j == u \div DistInterval
           k == v \div DistInterval
<1>1. /\ i \in Int /\ j \in Int /\ k \in Int
      /\ t = i * DistInterval /\ u = j * DistInterval /\ v = k * DistInterval
    BY <1>0, DivMod DEF Slot
<1> HIDE DEF i, j, k
<1>2. /\ t - u = (i - j) * DistInterval + 0 /\ u - v = (j - k) * DistInterval + 0
      /\ t - v = (i - k) * DistInterval + 0
    BY <1>0, <1>1
<1>3. /\ Intervals(t, u) = i - j /\ Intervals(u, v) = j - k /\ Intervals(t, v) = i - k
    BY <1>0, <1>1, <1>2, DivUnique DEF Intervals, Slot
<1> QED BY <1>1, <1>3

-----------------------------------------------------------------------------
\* What the buckets B have still to pay from the time last on.
LEMMA LeftAt ==
    ASSUME NEW B, NEW last, NEW b \in DOMAIN B, B[b] \in Nat, Slot(b), Slot(last), last =< b + Term
    PROVE  LeftOf(B, last)[b] = B[b] * (TotalIntervals - Intervals(last, b)) /\ LeftOf(B, last)[b] \in Nat
<1>1. TotalIntervals - Intervals(last, b) \in Nat
  <2>1. TotalIntervals \in Nat /\ Intervals(last, b) \in Int /\ Intervals(last, b) =< TotalIntervals
      BY IntervalsBetween, RexAssumption
  <2> QED BY <2>1
<1> DEFINE n == TotalIntervals - Intervals(last, b)
<1>2. LeftOf(B, last)[b] = B[b] * n
    BY DEF LeftOf
<1>3. B[b] * n \in Nat
  <2> HIDE DEF n
  <2>1. n \in Nat
      BY <1>1 DEF n
  <2> QED BY <2>1, TimesMonotone
<1> QED BY <1>2, <1>3

\* What B pays until e, each bucket from its last time; what each has still to pay then.
Paid(B, from, e) == [b \in DOMAIN B |-> B[b] * Intervals(e, from[b])]
LeftFrom(B, from) == [b \in DOMAIN B |-> B[b] * (TotalIntervals - Intervals(from[b], b))]

\* Buckets whose Term is over, and those that go on.
TermOver(B, e) == {b \in DOMAIN B : b + Term =< e}
Going(B, e) == [b \in DOMAIN B \ TermOver(B, e) |-> B[b]]

\* Their times are in order.
Flows(B, from, e) ==
    \A b \in DOMAIN B : Slot(b) /\ Slot(from[b]) /\ from[b] =< e /\ from[b] =< b + Term

\* Buckets pay from their last time until e, each its rate for each interval; those
\* whose Term is over take back what was too much.  What they had still to pay is
\* what they have paid and what the rest has still to pay.
LEMMA ReturnsFlow ==
    ASSUME NEW B, NatTable(B), NEW from, NEW e, Slot(e), Flows(B, from, e)
    PROVE  LET net == Total(Paid(B, from, e)) - Surplus(B, TermOver(B, e), e)
           IN  /\ Total(Paid(B, from, e)) \in Int /\ Surplus(B, TermOver(B, e), e) \in Int /\ net \in Nat
               /\ Total(LeftOf(Going(B, e), e)) \in Nat
               /\ Total(LeftFrom(B, from)) = net + Total(LeftOf(Going(B, e), e))
               /\ Total(Going(B, e)) = Total(B) - TotalOf(B, TermOver(B, e))
<1> DEFINE S     == DOMAIN B
           left  == [b \in S |-> B[b] * (TotalIntervals - Intervals(from[b], b))]
           paid  == [b \in S |-> B[b] * Intervals(e, from[b])]
           over  == {b \in S : b + Term =< e}
           R     == S \ over
           rest  == [b \in R |-> B[b]]
           then  == [b \in S |-> B[b] * (TotalIntervals - Intervals(e, b))]
           extra == [b \in over |-> B[b] * Intervals(e, b + Term)]
           given == [b \in S |-> IF b \in over THEN left[b] ELSE paid[b]]
<1>0. TotalIntervals \in Nat \ {0} /\ IsFiniteSet(S) /\ over \in SUBSET S /\ \A b \in S : B[b] \in Nat
    BY RexAssumption DEF NatTable
<1>1. ASSUME NEW b \in S
      PROVE  /\ left[b] \in Nat /\ paid[b] \in Nat /\ then[b] \in Int
             /\ left[b] = paid[b] + then[b]
             /\ b \in R => then[b] \in Nat
             /\ b \in over => extra[b] \in Int /\ then[b] = 0 - extra[b]
  <2> DEFINE i == Intervals(e, from[b])
             j == Intervals(from[b], b)
             k == Intervals(e, b)
             n == TotalIntervals
  <2>1. Slot(b) /\ Slot(from[b]) /\ from[b] =< e /\ from[b] =< b + Term
      BY DEF Flows
  <2>2. /\ i \in Nat /\ j \in Int /\ k \in Int /\ k = i + j /\ n - j \in Nat
        /\ b \in R => n - k \in Nat
        /\ Intervals(e, b + Term) = k - n
    <3>1. i \in Int /\ j \in Int /\ k \in Int /\ i >= 0 /\ j =< n
        BY <2>1, IntervalsBetween
    <3>2. k = i + j
        BY <2>1, IntervalsAdd
    <3>3. Intervals(e, b + Term) = k - n
        BY <2>1, IntervalsBetween
    <3>4. b \in R => k =< n
      <4>1. b \in R => e =< b + Term
        <5>1. b \in Int /\ e \in Int /\ Term \in Int
            BY <1>0, <2>1, RexAssumption DEF Slot, Term
        <5> QED BY <5>1
      <4> QED BY <2>1, <4>1, IntervalsBetween
    <3> HIDE DEF i, j, k, n, R
    <3>5. n \in Nat
        BY <1>0 DEF n
    <3> QED BY <3>1, <3>2, <3>3, <3>4, <3>5
  <2>3. left[b] = B[b] * (n - j) /\ paid[b] = B[b] * i /\ then[b] = B[b] * (n - k)
      OBVIOUS
  <2>4. b \in over => extra[b] = B[b] * (k - n)
      BY <2>2
  <2>5. B[b] \in Nat /\ n \in Nat
      BY <1>0
  <2> HIDE DEF i, j, k, n, left, paid, then, extra, R, over
  <2>6. B[b] * (n - j) = B[b] * i + B[b] * (n - k) /\ B[b] * (n - k) = 0 - B[b] * (k - n)
    <3>1. n - j = i + (n - k) /\ n - k = 0 - (k - n) /\ k - n \in Int /\ n - k \in Int
        BY <2>2, <2>5
    <3>2. \A u, v, w \in Int : u * (v + w) = u * v + u * w /\ u * (0 - v) = 0 - u * v
        OBVIOUS
    <3> QED BY <2>2, <2>5, <3>1, <3>2
  <2>7. B[b] * (n - j) \in Nat /\ B[b] * i \in Nat /\ B[b] * (k - n) \in Int
        /\ (b \in R => B[b] * (n - k) \in Nat)
    <3>1. \A u, v \in Nat : u * v \in Nat
        BY TimesMonotone
    <3>2. k - n \in Int
        BY <2>2, <2>5
    <3> QED BY <2>2, <2>5, <3>1, <3>2
  <2>8. B[b] * (n - k) \in Int
      BY <2>2, <2>5
  <2> QED BY <2>3, <2>4, <2>6, <2>7, <2>8
<1> HIDE DEF left, paid, then, extra
<1>2. SumFunctionOnSet(left, S) = SumFunctionOnSet(paid, S) + SumFunctionOnSet(then, S)
    BY <1>0, <1>1, SumPlus
<1>3. /\ SumFunctionOnSet(then, over) \in Int /\ SumFunctionOnSet(then, R) \in Int
      /\ SumFunctionOnSet(then, S) = SumFunctionOnSet(then, over) + SumFunctionOnSet(then, R)
    BY <1>0, <1>1, SumParts
<1>4. IsFiniteSet(over) /\ IsFiniteSet(R) /\ R \in SUBSET S
    BY <1>0, FS_Subset
<1>5. /\ SumFunctionOnSet(then, over) = SumFunctionOnSet(extra, over) * (-1)
      /\ SumFunctionOnSet(extra, over) \in Int
  <2>1. \A b \in over : extra[b] \in Int /\ then[b] = extra[b] * (-1)
      BY <1>1
  <2> HIDE DEF over
  <2>2. -1 \in Int
      OBVIOUS
  <2> QED BY <1>4, <2>1, <2>2, SumTimes, SumType
<1>6. SumFunctionOnSet(then, R) \in Nat
    BY <1>1, <1>4, SumOfNaturals
<1>7. SumFunctionOnSet(paid, S) \in Int /\ SumFunctionOnSet(left, S) \in Int
    BY <1>0, <1>1, SumType
<1>8. SumFunctionOnSet(given, S) \in Nat /\ SumFunctionOnSet(given, S) + SumFunctionOnSet(then, R) = SumFunctionOnSet(left, S)
  <2> DEFINE later == [b \in S |-> IF b \in over THEN 0 ELSE then[b]]
  <2>1. \A b \in S : given[b] \in Nat /\ later[b] \in Int /\ left[b] = given[b] + later[b]
      BY <1>1
  <2>2. (\A b \in S \ R : later[b] = 0) /\ (\A b \in R : later[b] = then[b])
      BY <1>0
  <2> HIDE DEF given, later
  <2>3. SumFunctionOnSet(given, S) \in Nat
      BY <1>0, <2>1, SumOfNaturals
  <2>4. SumFunctionOnSet(left, S) = SumFunctionOnSet(given, S) + SumFunctionOnSet(later, S)
      BY <1>0, <2>1, SumPlus
  <2>5. SumFunctionOnSet(later, S) = SumFunctionOnSet(later, R)
      BY <1>0, <1>4, <2>1, <2>2, SumExtends
  <2>6. SumFunctionOnSet(later, R) = SumFunctionOnSet(then, R)
      BY <1>4, <2>2, SumEqual
  <2> QED BY <2>3, <2>4, <2>5, <2>6
<1>9. Surplus(B, over, e) = SumFunctionOnSet(extra, over)
    BY TotalIs DEF Surplus, extra
<1>10. Total(LeftOf(rest, e)) = SumFunctionOnSet(then, R)
  <2>1. DOMAIN LeftOf(rest, e) = R /\ \A b \in R : LeftOf(rest, e)[b] = then[b]
      BY DEF LeftOf, then
  <2>2. SumFunctionOnSet(LeftOf(rest, e), R) = SumFunctionOnSet(then, R)
      BY <1>4, <2>1, SumEqual
  <2> QED BY <2>1, <2>2, TotalIs DEF Total
<1>11. Total(paid) = SumFunctionOnSet(paid, S) /\ Total(left) = SumFunctionOnSet(left, S)
    BY TotalIs DEF Total, paid, left
<1>12. Total(rest) = Total(B) - TotalOf(B, over)
  <2>1. SumFunctionOnSet(B, over) \in Int /\ SumFunctionOnSet(B, R) \in Int
        /\ SumFunctionOnSet(B, S) = SumFunctionOnSet(B, over) + SumFunctionOnSet(B, R)
    <3>1. \A b \in S : B[b] \in Int
        BY <1>0
    <3> HIDE DEF S, over
    <3> QED BY <1>0, <3>1, SumParts
  <2>2. SumFunctionOnSet(rest, R) = SumFunctionOnSet(B, R)
      BY <1>4, SumEqual
  <2>3. DOMAIN rest = R
      OBVIOUS
  <2> HIDE DEF rest, R, over
  <2> QED BY <2>1, <2>2, <2>3, TotalIs DEF Total
<1>13. Total(paid) - Surplus(B, over, e) = SumFunctionOnSet(given, S)
  <2> DEFINE p == SumFunctionOnSet(paid, S)
             l == SumFunctionOnSet(left, S)
             t == SumFunctionOnSet(then, S)
             o == SumFunctionOnSet(then, over)
             u == SumFunctionOnSet(then, R)
             x == SumFunctionOnSet(extra, over)
             g == SumFunctionOnSet(given, S)
  <2>1. /\ l = p + t /\ t = o + u /\ o = x * (-1) /\ g + u = l
        /\ p \in Int /\ l \in Int /\ o \in Int /\ u \in Int /\ x \in Int /\ g \in Int
      BY <1>2, <1>3, <1>5, <1>6, <1>7, <1>8
  <2>2. Total(paid) - Surplus(B, over, e) = p - x
      BY <1>9, <1>11
  <2> HIDE DEF p, l, t, o, u, x, g
  <2>3. p - x = g
      BY <2>1
  <2> QED BY <2>2, <2>3 DEF g
<1> HIDE DEF over, given, R, rest
<1>14. Total(left) = (Total(paid) - Surplus(B, over, e)) + Total(LeftOf(rest, e))
    BY <1>8, <1>10, <1>11, <1>13
<1>15. /\ Paid(B, from, e) = paid /\ LeftFrom(B, from) = left /\ TermOver(B, e) = over
       /\ Going(B, e) = rest
    BY DEF Paid, LeftFrom, TermOver, Going, over, rest, left, paid, R
<1> QED BY <1>5, <1>6, <1>7, <1>8, <1>9, <1>10, <1>11, <1>12, <1>13, <1>14, <1>15

-----------------------------------------------------------------------------
\* A time long before time_point_sec::maximum().
Clock(ct) == ct \in Nat /\ ct + BucketInterval < Never /\ Never \in Nat

\* The times at which returns are looked at and buckets start.
LEMMA Slots ==
    ASSUME NEW ct, Clock(ct)
    PROVE  LET e    == ct - (ct % DistInterval)
               ends == ct - (ct % BucketInterval) + BucketInterval
           IN  /\ Slot(e) /\ e =< ct /\ e < Never
               /\ Slot(ends) /\ ct < ends /\ ends # Never
<1> DEFINE D == DistInterval
           I == BucketInterval
           q == ct \div D
           m == I \div D
           k == ct \div I
<1>0. D \in Nat \ {0} /\ I \in Nat \ {0} /\ I % D = 0 /\ ct \in Nat /\ ct + I < Never /\ Never \in Nat
    BY RexAssumption DEF Clock
<1>1. /\ q \in Int /\ ct % D \in Nat /\ ct = q * D + (ct % D)
      /\ k \in Int /\ ct % I \in Nat /\ ct % I < I /\ ct = k * I + (ct % I)
      /\ m \in Int /\ I = m * D
  <2> HIDE DEF D, I
  <2>1. I \in Int /\ ct \in Int
      BY <1>0
  <2>2. m \in Int /\ I = m * D + (I % D)
      BY <1>0, <2>1, DivMod
  <2>3. m * D \in Int
      BY <1>0, <2>2
  <2>4. q \in Int /\ ct % D \in Nat /\ ct = q * D + (ct % D)
      BY <1>0, <2>1, DivMod
  <2>5. k \in Int /\ ct % I \in Nat /\ ct % I < I /\ ct = k * I + (ct % I)
      BY <1>0, <2>1, DivMod
  <2> QED BY <1>0, <2>2, <2>3, <2>4, <2>5
<1> HIDE DEF D, I, q, m, k
<1>2. ct - (ct % D) = q * D + 0 /\ ct - (ct % D) =< ct /\ ct - (ct % D) \in Nat
  <2>1. q * D \in Int
      BY <1>0, <1>1
  <2>2. q >= 0
    <3>1. q = ct \div D
        BY DEF q
    <3> QED BY <1>0, <3>1, Quotient
  <2>3. q * D \in Nat
      BY <1>0, <1>1, <2>2, TimesMonotone
  <2> QED BY <1>0, <1>1, <2>1, <2>3
<1>3. (ct - (ct % D)) % D = 0
  <2> DEFINE n == ct - (ct % D)
  <2>1. n \in Int /\ n = q * D + 0 /\ q \in Int /\ 0 < D
      BY <1>0, <1>1, <1>2
  <2> HIDE DEF n
  <2>2. n % D = 0
      BY <1>0, <2>1, DivUnique
  <2> QED BY <2>2 DEF n
<1>4. /\ ct - (ct % I) + I = ((k + 1) * m) * D + 0
      /\ ct - (ct % I) + I \in Nat /\ ct < ct - (ct % I) + I /\ ct - (ct % I) + I # Never
  <2>1. ct - (ct % I) + I = k * I + I /\ k * I \in Int
    <3> DEFINE x == ct % I
               y == k * I
    <3>1. ct \in Int /\ x \in Int /\ y \in Int /\ ct = y + x
        BY <1>0, <1>1
    <3> HIDE DEF x, y
    <3>2. (ct - x) + I = y + I
        BY <1>0, <3>1
    <3> QED BY <3>1, <3>2 DEF x, y
  <2>2. k * I + I = (k + 1) * I
      BY <1>0, <1>1
  <2>3. (k + 1) * (m * D) = ((k + 1) * m) * D
    <3>1. \A x, y, z \in Int : x * (y * z) = (x * y) * z
        OBVIOUS
    <3> QED BY <1>0, <1>1, <3>1
  <2>4. ct - (ct % I) + I \in Nat /\ ct < ct - (ct % I) + I /\ ct - (ct % I) + I # Never
      BY <1>0, <1>1
  <2>5. ct - (ct % I) + I = ((k + 1) * m) * D
      BY <1>1, <2>1, <2>2, <2>3
  <2>6. ((k + 1) * m) * D \in Int
      BY <2>4, <2>5
  <2> QED BY <2>4, <2>5, <2>6
<1>5. (ct - (ct % I) + I) % D = 0
  <2>1. (k + 1) * m \in Int
      BY <1>1
  <2> QED BY <1>0, <1>4, <2>1, DivUnique
<1> QED BY <1>0, <1>2, <1>3, <1>4, <1>5 DEF Slot, D, I

\* The invariant of returns in other words.
LEMMA ReturnsAre ==
    ASSUME NEW r, NEW ct, ReturnsSound(r, ct), Clock(ct)
    PROVE  /\ DOMAIN r.ret = ReturnFields /\ Slot(r.ret.last_dist_time) /\ NatTable(r.buckets)
           /\ r.ret.pending_bucket_time \in Nat /\ r.ret.pending_bucket_proceeds \in Nat
           /\ r.ret.pending_bucket_time # Never => Slot(r.ret.pending_bucket_time)
           /\ \A b \in DOMAIN r.buckets : Slot(b) /\ r.ret.last_dist_time =< b + Term
           /\ r.ret.current_rate_of_increase = Total(r.buckets)
           /\ Total(r.buckets) \in Int /\ Total(LeftOf(r.buckets, r.ret.last_dist_time)) \in Nat
           /\ r.ret.proceeds \in Nat
<1>1. /\ DOMAIN r.ret = ReturnFields /\ Slot(r.ret.last_dist_time) /\ NatTable(r.buckets)
      /\ r.ret.pending_bucket_time \in Nat /\ r.ret.pending_bucket_proceeds \in Nat
      /\ r.ret.pending_bucket_time # Never => Slot(r.ret.pending_bucket_time)
      /\ \A b \in DOMAIN r.buckets : Slot(b) /\ r.ret.last_dist_time =< b + Term
      /\ r.ret.current_rate_of_increase = Total(r.buckets)
      /\ r.ret.proceeds = r.ret.pending_bucket_proceeds + Total(LeftOf(r.buckets, r.ret.last_dist_time))
    BY DEF ReturnsSound, BucketsSound, Slot
<1>2. IntTable(r.buckets)
    BY <1>1 DEF IntTable, NatTable
<1> DEFINE left == LeftOf(r.buckets, r.ret.last_dist_time)
<1>3. DOMAIN left = DOMAIN r.buckets /\ \A b \in DOMAIN left : left[b] \in Nat
  <2>1. DOMAIN left = DOMAIN r.buckets
      BY DEF LeftOf
  <2>2. ASSUME NEW b \in DOMAIN r.buckets PROVE left[b] \in Nat
      BY <1>1, LeftAt DEF NatTable
  <2> QED BY <2>1, <2>2
<1>4. Total(left) \in Nat
  <2> HIDE DEF left
  <2>1. IsFiniteSet(DOMAIN left)
      BY <1>1, <1>3 DEF NatTable
  <2> QED BY <1>3, <2>1, SumOfNaturals, TotalIs DEF Total
<1>5. Total(r.buckets) \in Int
    BY <1>2, TotalType
<1> QED BY <1>1, <1>4, <1>5

-----------------------------------------------------------------------------
\* A pending bucket becomes one that pays.
LEMMA BucketStarted ==
    ASSUME NEW r, DOMAIN r = RexFields, DOMAIN r.ret = ReturnFields, NEW start, NEW rate
    PROVE  LET s == StartBucket(r, start, rate)
           IN  /\ DOMAIN s = RexFields /\ s.pool = r.pool /\ s.funds = r.funds
               /\ s.balances = r.balances /\ s.loans = r.loans /\ s.orders = r.orders
               /\ s.buckets = Put(r.buckets, start, rate)
               /\ DOMAIN s.ret = ReturnFields /\ s.ret.exists = r.ret.exists
               /\ s.ret.last_dist_time = r.ret.last_dist_time /\ s.ret.proceeds = r.ret.proceeds
               /\ s.ret.oldest_bucket_time = (IF start < r.ret.oldest_bucket_time THEN start
                                              ELSE r.ret.oldest_bucket_time)
               /\ s.ret.current_rate_of_increase = r.ret.current_rate_of_increase + rate
               /\ s.ret.pending_bucket_time = Never /\ s.ret.pending_bucket_proceeds = 0
BY DEF StartBucket, Started, RexFields, ReturnFields

\* The exchange after its pending bucket has started, if it has: what buckets pay
\* until e, and what is left of the proceeds when they have.
LEMMA StartedReturns ==
    ASSUME NEW r, NEW ct, DOMAIN r = RexFields, ReturnsSound(r, ct), Clock(ct), r.ret.exists,
           NEW e, Slot(e), e =< ct, r.ret.last_dist_time < e
    PROVE  LET s == StartPending(r, e)
           IN  /\ DOMAIN s = RexFields /\ s.pool = r.pool /\ s.funds = r.funds
               /\ s.balances = r.balances /\ s.loans = r.loans /\ s.orders = r.orders
               /\ DOMAIN s.ret = ReturnFields /\ s.ret.exists
               /\ s.ret.proceeds = r.ret.proceeds
               /\ s.ret.oldest_bucket_time \in Int
               /\ s.ret.pending_bucket_time \in Nat /\ s.ret.pending_bucket_proceeds \in Nat
               /\ s.ret.pending_bucket_time # Never => s.ret.pending_bucket_time % DistInterval = 0
               /\ s.ret.pending_bucket_time = Never => s.ret.pending_bucket_proceeds = 0
               /\ NatTable(s.buckets)
               /\ \A b \in DOMAIN s.buckets :
                      /\ Slot(b) /\ b =< e /\ s.ret.oldest_bucket_time =< b
                      /\ s.ret.pending_bucket_time # Never => b < s.ret.pending_bucket_time
               /\ s.ret.current_rate_of_increase = Total(s.buckets)
               /\ \E from : \E rem \in Nat :
                      /\ Flows(s.buckets, from, e)
                      /\ PaidUntil(r.ret, e) = Total(Paid(s.buckets, from, e)) + rem
                      /\ r.ret.proceeds = s.ret.pending_bucket_proceeds + rem
                                            + Total(LeftFrom(s.buckets, from))
<1> DEFINE s == StartPending(r, e)
           B == r.buckets
           last == r.ret.last_dist_time
           p == r.ret.pending_bucket_time
           P == r.ret.pending_bucket_proceeds
<1>0. /\ DOMAIN r.ret = ReturnFields /\ Slot(last) /\ NatTable(B) /\ IntTable(B)
      /\ p \in Nat /\ P \in Nat /\ (p # Never => Slot(p)) /\ (p = Never => P = 0)
      /\ \A b \in DOMAIN B : /\ Slot(b) /\ b =< last /\ last =< b + Term
                             /\ r.ret.oldest_bucket_time =< b /\ (p # Never => b < p)
      /\ r.ret.oldest_bucket_time \in Int
      /\ r.ret.current_rate_of_increase = Total(B) /\ Total(B) \in Int
      /\ r.ret.proceeds = P + Total(LeftOf(B, last))
      /\ Total(LeftOf(B, last)) \in Nat
  <2>1. NatTable(B) /\ IntTable(B)
      BY DEF ReturnsSound, BucketsSound, NatTable, IntTable
  <2> QED BY <2>1, ReturnsAre DEF ReturnsSound, BucketsSound
<1>1. e \in Nat /\ last \in Nat /\ TotalIntervals \in Nat \ {0} /\ e < Never
  <2>1. BucketInterval \in Nat /\ TotalIntervals \in Nat \ {0}
      BY RexAssumption
  <2> QED BY <1>0, <2>1 DEF Slot, Clock
<1> DEFINE early == [b \in DOMAIN B |-> last]
           d == Intervals(e, last)
<1>2. Flows(B, early, e) /\ IntTable(Paid(B, early, e)) /\ Total(Paid(B, early, e)) = Total(B) * d
  <2>1. Flows(B, early, e)
      BY <1>0, <1>1 DEF Flows
  <2>2. d \in Int
      BY <1>0, IntervalsBetween
  <2>3. DOMAIN Paid(B, early, e) = DOMAIN B /\ \A b \in DOMAIN B : Paid(B, early, e)[b] = B[b] * d
      BY DEF Paid
  <2> HIDE DEF early, d
  <2>4. IntTable(Paid(B, early, e))
      BY <1>0, <2>2, <2>3 DEF IntTable
  <2>5. SumFunctionOnSet(Paid(B, early, e), DOMAIN B) = SumFunctionOnSet(B, DOMAIN B) * d
      BY <1>0, <2>2, <2>3, SumTimes DEF IntTable
  <2> QED BY <2>1, <2>3, <2>4, <2>5, TotalIs DEF Total
<1>3. LeftFrom(B, early) = LeftOf(B, last)
    BY DEF LeftFrom, LeftOf
<1>4. CASE ~ p =< e
  <2>1. s = r
      BY <1>4 DEF StartPending
  <2>2. PaidUntil(r.ret, e) = Total(B) * d + 0
      BY <1>0, <1>4 DEF PaidUntil
  <2>4. PaidUntil(r.ret, e) = Total(Paid(B, early, e)) + 0
      BY <1>2, <2>2
  <2>5. r.ret.proceeds = P + 0 + Total(LeftFrom(B, early))
      BY <1>0, <1>3
  <2>6. \E from : \E rem \in Nat :
                      /\ Flows(B, from, e)
                      /\ PaidUntil(r.ret, e) = Total(Paid(B, from, e)) + rem
                      /\ r.ret.proceeds = P + rem + Total(LeftFrom(B, from))
    <3> HIDE DEF early
    <3> QED BY <1>2, <2>4, <2>5
  <2>7. \A b \in DOMAIN B : b =< e
      BY <1>0, <1>1 DEF Slot
  <2>8. p # Never => p % DistInterval = 0
      BY <1>0 DEF Slot
  <2> QED BY <1>0, <2>1, <2>6, <2>7, <2>8
<1>5. CASE p =< e
  <2> DEFINE rate == RateOf(P)
             rem == P % TotalIntervals
             C == Put(B, p, rate)
             from == [b \in DOMAIN C |-> IF b = p THEN p ELSE last]
             then == s.ret
  <2>1. s = StartBucket(r, p, rate)
      BY <1>5, Zenon DEF StartPending
  <2>2. /\ s.buckets = C
        /\ DOMAIN s = RexFields /\ s.pool = r.pool /\ s.funds = r.funds
        /\ s.balances = r.balances /\ s.loans = r.loans /\ s.orders = r.orders
    <3> HIDE DEF rate, s
    <3> QED BY <1>0, <2>1, BucketStarted
  <2>3. p # Never /\ Slot(p) /\ p \notin DOMAIN B
      BY <1>0, <1>1, <1>5 DEF Clock
  <2>4. rate \in Nat /\ rem \in Nat /\ P = rate * TotalIntervals + rem
    <3>1. rate = P \div TotalIntervals
        BY DEF RateOf
    <3>2. rate \in Nat
        BY <1>0, <1>1, <3>1, Quotient
    <3>3. P \in Int
        BY <1>0
    <3> QED BY <1>1, <3>1, <3>2, <3>3, DivMod
  <2>5. NatTable(C) /\ Total(C) = Total(B) + rate
    <3>1. IntTable(C) /\ Total(C) = Total(B) - At(B, p) + rate
        BY <1>0, <2>4, TotalPut
    <3>2. At(B, p) = 0
        BY <2>3 DEF At
    <3>3. NatTable(C)
      <4> HIDE DEF rate
      <4>1. \A k \in DOMAIN C : C[k] \in Nat
          BY <1>0, <2>4 DEF NatTable, Put
      <4> QED BY <3>1, <4>1 DEF NatTable, IntTable
    <3> HIDE DEF C, rate
    <3>4. rate \in Int
        BY <2>4
    <3> QED BY <1>0, <3>1, <3>2, <3>3, <3>4
  <2>6. DOMAIN C = DOMAIN B \cup {p}
      BY DEF Put
  <2>7. Flows(C, from, e)
    <3>1. p =< p + Term
        BY <1>0, RexAssumption DEF Term
    <3> HIDE DEF C
    <3> QED BY <1>0, <1>1, <1>5, <2>3, <2>6, <3>1 DEF Flows
  <2>8. Total(Paid(C, from, e)) = Total(B) * d + rate * Intervals(e, p)
    <3>1. Paid(C, from, e) = Put(Paid(B, early, e), p, rate * Intervals(e, p))
        BY <2>3 DEF Paid, Put
    <3>2. rate * Intervals(e, p) \in Int
      <4>1. Intervals(e, p) \in Int
          BY <2>3, IntervalsBetween
      <4> QED BY <2>4, <4>1
    <3>3. At(Paid(B, early, e), p) = 0
        BY <2>3 DEF At, Paid
    <3> HIDE DEF C, from, rate, early
    <3> DEFINE v == rate * Intervals(e, p)
               t == Paid(B, early, e)
    <3>4. Total(Put(t, p, v)) = Total(t) - At(t, p) + v /\ Total(t) \in Int
      <4> HIDE DEF t, v
      <4>1. v \in Int /\ IntTable(t)
          BY <1>2, <3>2 DEF v, t
      <4> QED BY <4>1, TotalPut, TotalType
    <3>5. v \in Int
        BY <3>2
    <3> HIDE DEF v
    <3>6. Total(Put(t, p, v)) = Total(t) + v
        BY <3>3, <3>4, <3>5
    <3> QED BY <1>2, <3>1, <3>6 DEF v
  <2>9. Total(LeftFrom(C, from)) = Total(LeftOf(B, last)) + rate * TotalIntervals
    <3>1. Intervals(p, p) = 0
      <4>1. Intervals(p, p) \in Int /\ Intervals(p, p) = Intervals(p, p) + Intervals(p, p)
          BY <2>3, IntervalsBetween, IntervalsAdd
      <4>2. \A x \in Int : x = x + x => x = 0
          OBVIOUS
      <4> QED BY <4>1, <4>2
    <3>2. LeftFrom(C, from) = Put(LeftOf(B, last), p, rate * (TotalIntervals - Intervals(p, p)))
        BY <2>3 DEF LeftFrom, LeftOf, Put
    <3>3. rate * (TotalIntervals - Intervals(p, p)) = rate * TotalIntervals
        BY <1>1, <3>1
    <3>4. rate * TotalIntervals \in Int
        BY <1>1, <2>4
    <3>5. At(LeftOf(B, last), p) = 0
        BY <2>3 DEF At, LeftOf
    <3>6. IntTable(LeftOf(B, last))
      <4>1. DOMAIN LeftOf(B, last) = DOMAIN B
          BY DEF LeftOf
      <4>2. ASSUME NEW b \in DOMAIN B PROVE LeftOf(B, last)[b] \in Int
          BY <1>0, LeftAt DEF NatTable
      <4> QED BY <1>0, <4>1, <4>2 DEF IntTable
    <3> HIDE DEF C, from, rate
    <3> DEFINE v == rate * TotalIntervals
               t == LeftOf(B, last)
    <3>7. Total(Put(t, p, v)) = Total(t) - At(t, p) + v /\ Total(t) \in Int
      <4> HIDE DEF t, v
      <4>1. v \in Int /\ IntTable(t)
          BY <3>4, <3>6 DEF v, t
      <4> QED BY <4>1, TotalPut, TotalType
    <3>8. v \in Int
        BY <3>4
    <3> HIDE DEF v
    <3>9. Total(Put(t, p, v)) = Total(t) + v
        BY <3>5, <3>7, <3>8
    <3> QED BY <3>2, <3>3, <3>9 DEF v
  <2>10. PaidUntil(r.ret, e) = Total(Paid(C, from, e)) + rem
    <3>1. PaidUntil(r.ret, e) = Total(B) * d + (rem + rate * Intervals(e, p))
        BY <1>0, <1>5 DEF PaidUntil
    <3>2. rate * Intervals(e, p) \in Int /\ Total(B) * d \in Int
      <4>1. Intervals(e, p) \in Int /\ d \in Int
          BY <1>0, <2>3, IntervalsBetween
      <4> HIDE DEF d
      <4> QED BY <1>0, <2>4, <4>1
    <3> HIDE DEF C, from, rem, rate, d
    <3> DEFINE u == rate * Intervals(e, p)
               v == Total(B) * d
    <3>3. u \in Int /\ v \in Int /\ rem \in Int
        BY <2>4, <3>2
    <3>4. PaidUntil(r.ret, e) = v + (rem + u) /\ Total(Paid(C, from, e)) = v + u
        BY <2>8, <3>1
    <3> HIDE DEF u, v
    <3> QED BY <3>3, <3>4
  <2>11. r.ret.proceeds = 0 + rem + Total(LeftFrom(C, from))
    <3> HIDE DEF C, from, rem, rate
    <3> DEFINE u == rate * TotalIntervals
               t == Total(LeftOf(B, last))
    <3>1. u \in Int /\ t \in Int /\ rem \in Int
        BY <1>0, <1>1, <2>4
    <3>2. r.ret.proceeds = (u + rem) + t /\ Total(LeftFrom(C, from)) = t + u
        BY <1>0, <2>4, <2>9
    <3> HIDE DEF u, t
    <3> QED BY <3>1, <3>2
  <2>12. \E f : \E m \in Nat :
                      /\ Flows(C, f, e)
                      /\ PaidUntil(r.ret, e) = Total(Paid(C, f, e)) + m
                      /\ r.ret.proceeds = 0 + m + Total(LeftFrom(C, f))
    <3> HIDE DEF C, from, rem
    <3> QED BY <2>4, <2>7, <2>10, <2>11
  <2>13. /\ DOMAIN then = ReturnFields /\ then.exists /\ then.proceeds = r.ret.proceeds
         /\ then.oldest_bucket_time = (IF p < r.ret.oldest_bucket_time THEN p ELSE r.ret.oldest_bucket_time)
         /\ then.pending_bucket_time = Never /\ then.pending_bucket_proceeds = 0
         /\ then.current_rate_of_increase = Total(B) + rate
    <3> HIDE DEF rate, s
    <3> QED BY <1>0, <2>1, BucketStarted
  <2>14. \A b \in DOMAIN C : Slot(b) /\ b =< e /\ then.oldest_bucket_time =< b
    <3> TAKE b \in DOMAIN C
    <3> HIDE DEF C, then
    <3>1. CASE b = p
        BY <1>0, <1>5, <2>3, <2>13, <3>1
    <3>2. CASE b \in DOMAIN B
        BY <1>0, <1>1, <2>13, <3>2 DEF Slot
    <3> QED BY <2>6, <3>1, <3>2
  <2> HIDE DEF C, from, rem, rate
  <2>15. then.oldest_bucket_time \in Int /\ Never \in Nat
      BY <1>0, <2>13 DEF Clock
  <2>16. Total(C) = then.current_rate_of_increase
      BY <2>5, <2>13
  <2> HIDE DEF s
  <2>17. /\ DOMAIN s = RexFields /\ s.pool = r.pool /\ s.funds = r.funds
         /\ s.balances = r.balances /\ s.loans = r.loans /\ s.orders = r.orders
         /\ DOMAIN s.ret = ReturnFields /\ s.ret.exists
         /\ s.ret.proceeds = r.ret.proceeds /\ s.ret.oldest_bucket_time \in Int
         /\ s.ret.pending_bucket_time = Never /\ s.ret.pending_bucket_proceeds = 0
         /\ NatTable(s.buckets) /\ s.ret.current_rate_of_increase = Total(s.buckets)
      BY <2>2, <2>5, <2>13, <2>15, <2>16
  <2>18. \A b \in DOMAIN s.buckets : Slot(b) /\ b =< e /\ s.ret.oldest_bucket_time =< b
      BY <2>2, <2>14
  <2>19. \E f : \E m \in Nat :
                      /\ Flows(s.buckets, f, e)
                      /\ PaidUntil(r.ret, e) = Total(Paid(s.buckets, f, e)) + m
                      /\ r.ret.proceeds = s.ret.pending_bucket_proceeds + m + Total(LeftFrom(s.buckets, f))
      BY <2>2, <2>12, <2>17
  <2>20. s.ret.pending_bucket_time \in Nat /\ s.ret.pending_bucket_proceeds \in Nat
      BY <2>15, <2>17
  <2> QED BY <2>17, <2>18, <2>19, <2>20 DEF s
<1> QED BY <1>4, <1>5

-----------------------------------------------------------------------------
\* Fields of the pool that returns leave as they are.
SamePool(p, q) ==
    /\ q.exists = p.exists /\ q.total_lent = p.total_lent /\ q.total_rent = p.total_rent
    /\ q.total_rex = p.total_rex /\ q.loan_num = p.loan_num
    /\ q.namebid_proceeds = p.namebid_proceeds

\* q is r after returns have come in or been paid, with d tokens more.
Returned(r, q, d, ct) ==
    /\ DOMAIN q = RexFields /\ PoolSound(q.pool) /\ ReturnsSound(q, ct)
    /\ q.funds = r.funds /\ q.balances = r.balances /\ q.loans = r.loans /\ q.orders = r.orders
    /\ SamePool(r.pool, q.pool) /\ q.pool.total_unlent >= r.pool.total_unlent
    /\ q.pool.total_lendable + q.ret.proceeds = r.pool.total_lendable + r.ret.proceeds + d

\* Two tables with the same rows have the same sums.
LEMMA SameTotal ==
    ASSUME NEW t, IsFiniteSet(DOMAIN t), NEW u, DOMAIN u = DOMAIN t, \A k \in DOMAIN t : u[k] = t[k]
    PROVE  Total(u) = Total(t)
<1>1. SumFunctionOnSet(u, DOMAIN t) = SumFunctionOnSet(t, DOMAIN t)
    BY SumEqual
<1> QED BY <1>1, TotalIs DEF Total

\* Buckets whose Term is over are dropped, whether or not the cached time of the
\* oldest says that there may be any.
LEMMA BucketsDropped ==
    ASSUME NEW s, DOMAIN s = RexFields, DOMAIN s.ret = ReturnFields, NatTable(s.buckets),
           s.ret.oldest_bucket_time \in Int, NEW e \in Nat,
           \A b \in DOMAIN s.buckets : b \in Nat /\ s.ret.oldest_bucket_time =< b,
           s.ret.current_rate_of_increase \in Int, TotalOf(s.buckets, TermOver(s.buckets, e)) \in Int
    PROVE  LET d == DropBuckets(s, Over(s, e), e)
           IN  /\ Over(s, e) = TermOver(s.buckets, e)
               /\ DOMAIN d = RexFields /\ d.pool = s.pool /\ d.funds = s.funds
               /\ d.balances = s.balances /\ d.loans = s.loans /\ d.orders = s.orders
               /\ DOMAIN d.buckets = DOMAIN Going(s.buckets, e)
               /\ \A b \in DOMAIN d.buckets : d.buckets[b] = Going(s.buckets, e)[b]
               /\ DOMAIN d.ret = ReturnFields /\ d.ret.exists = s.ret.exists
               /\ d.ret.last_dist_time = s.ret.last_dist_time /\ d.ret.proceeds = s.ret.proceeds
               /\ d.ret.pending_bucket_time = s.ret.pending_bucket_time
               /\ d.ret.pending_bucket_proceeds = s.ret.pending_bucket_proceeds
               /\ d.ret.oldest_bucket_time \in Int
               /\ \A b \in DOMAIN d.buckets : d.ret.oldest_bucket_time =< b
               /\ d.ret.current_rate_of_increase
                    = s.ret.current_rate_of_increase - TotalOf(s.buckets, TermOver(s.buckets, e))
<1> DEFINE over == Over(s, e)
           d == DropBuckets(s, over, e)
           B == s.buckets
<1>0. Term \in Nat
    BY RexAssumption, TimesMonotone DEF Term
<1>1. CASE s.ret.oldest_bucket_time > e - Term
  <2>1. over = {}
      BY <1>0, <1>1 DEF Over
  <2>2. TermOver(B, e) = {}
    <3>1. \A b \in DOMAIN B : ~ b + Term =< e
        BY <1>0, <1>1
    <3> QED BY <3>1 DEF TermOver
  <2>3. d = s
      BY <1>1 DEF DropBuckets
  <2>4. TotalOf(B, {}) = 0
      BY TotalIs, SumRest, FS_EmptySet
  <2>5. DOMAIN Going(B, e) = DOMAIN B /\ \A b \in DOMAIN B : Going(B, e)[b] = B[b]
      BY <2>2 DEF Going
  <2> HIDE DEF d, over
  <2> QED BY <2>1, <2>2, <2>3, <2>4, <2>5 DEF d, over
<1>2. CASE ~ s.ret.oldest_bucket_time > e - Term
  <2> DEFINE oldest == IF DOMAIN B = over THEN 0 ELSE Min(DOMAIN B \ over)
             rates == TotalOf(B, over)
  <2>1. over = TermOver(B, e)
      BY <1>0, <1>2 DEF Over, TermOver
  <2>2. d = [s EXCEPT !.buckets = [b \in DOMAIN B \ over |-> B[b]], !.ret = Dropped(s.ret, oldest, rates)]
      BY <1>2, Zenon DEF DropBuckets
  <2>3. oldest \in Int /\ \A b \in DOMAIN B \ over : oldest =< b
    <3>1. CASE DOMAIN B = over
        BY <3>1
    <3>2. CASE DOMAIN B # over
      <4>1. DOMAIN B \ over \in SUBSET Nat /\ DOMAIN B \ over # {}
          BY <2>1, <3>2 DEF TermOver
      <4>2. \E m \in DOMAIN B \ over : \A k \in DOMAIN B \ over : m =< k
        <5> HIDE DEF over
        <5> QED BY <4>1, NatMin
      <4>3. oldest \in DOMAIN B \ over /\ \A k \in DOMAIN B \ over : oldest =< k
          BY <3>2, <4>2 DEF Min
      <4> QED BY <4>1, <4>3
    <3> QED BY <3>1, <3>2
  <2> HIDE DEF oldest, d
  <2>4. /\ DOMAIN d = RexFields /\ d.pool = s.pool /\ d.funds = s.funds
        /\ d.balances = s.balances /\ d.loans = s.loans /\ d.orders = s.orders
        /\ d.buckets = [b \in DOMAIN B \ over |-> B[b]]
        /\ d.ret = Dropped(s.ret, oldest, rates)
    <3> HIDE DEF over, rates
    <3> QED BY <2>2 DEF RexFields
  <2>5. /\ DOMAIN d.ret = ReturnFields /\ d.ret.exists = s.ret.exists
        /\ d.ret.last_dist_time = s.ret.last_dist_time /\ d.ret.proceeds = s.ret.proceeds
        /\ d.ret.pending_bucket_time = s.ret.pending_bucket_time
        /\ d.ret.pending_bucket_proceeds = s.ret.pending_bucket_proceeds
        /\ d.ret.oldest_bucket_time = oldest
        /\ d.ret.current_rate_of_increase = s.ret.current_rate_of_increase - rates
    <3> HIDE DEF over, rates
    <3> QED BY <2>4 DEF Dropped, ReturnFields
  <2>6. d.buckets = Going(B, e) /\ DOMAIN d.buckets = DOMAIN B \ over
      BY <2>1, <2>4 DEF Going
  <2> HIDE DEF over
  <2> QED BY <2>1, <2>3, <2>4, <2>5, <2>6 DEF d, over
<1> QED BY <1>1, <1>2

\* Returns that have been earned reach the pool.
LEMMA ReturnsDistributed ==
    ASSUME NEW d, DOMAIN d = RexFields, DOMAIN d.ret = ReturnFields, PoolSound(d.pool),
           NEW earned \in Nat, NEW e, d.ret.proceeds \in Int
    PROVE  LET q == Distribute(d, earned, e)
           IN  /\ DOMAIN q = RexFields /\ q.buckets = d.buckets /\ q.funds = d.funds
               /\ q.balances = d.balances /\ q.loans = d.loans /\ q.orders = d.orders
               /\ PoolSound(q.pool) /\ SamePool(d.pool, q.pool)
               /\ q.pool.total_unlent = d.pool.total_unlent + earned
               /\ q.pool.total_lendable = d.pool.total_lendable + earned
               /\ DOMAIN q.ret = ReturnFields /\ q.ret.exists = d.ret.exists
               /\ q.ret.last_dist_time = e /\ q.ret.proceeds = d.ret.proceeds - earned
               /\ q.ret.pending_bucket_time = d.ret.pending_bucket_time
               /\ q.ret.pending_bucket_proceeds = d.ret.pending_bucket_proceeds
               /\ q.ret.oldest_bucket_time = d.ret.oldest_bucket_time
               /\ q.ret.current_rate_of_increase = d.ret.current_rate_of_increase
<1> DEFINE q == Distribute(d, earned, e)
<1>1. /\ DOMAIN q = RexFields /\ q.buckets = d.buckets /\ q.funds = d.funds
      /\ q.balances = d.balances /\ q.loans = d.loans /\ q.orders = d.orders
      /\ q.pool = Earning(d.pool, earned) /\ q.ret = Distributed(d.ret, earned, e)
    BY DEF Distribute, RexFields
<1> HIDE DEF q
<1>2. /\ DOMAIN q.ret = ReturnFields /\ q.ret.exists = d.ret.exists
      /\ q.ret.last_dist_time = e /\ q.ret.proceeds = d.ret.proceeds - earned
      /\ q.ret.pending_bucket_time = d.ret.pending_bucket_time
      /\ q.ret.pending_bucket_proceeds = d.ret.pending_bucket_proceeds
      /\ q.ret.oldest_bucket_time = d.ret.oldest_bucket_time
      /\ q.ret.current_rate_of_increase = d.ret.current_rate_of_increase
    BY <1>1 DEF Distributed, ReturnFields
<1>3. /\ DOMAIN q.pool = PoolFields /\ SamePool(d.pool, q.pool)
      /\ q.pool.total_unlent = d.pool.total_unlent + earned
      /\ q.pool.total_lendable = d.pool.total_lendable + earned
  <2>1. CASE earned = 0
    <3>1. q.pool = d.pool
        BY <1>1, <2>1 DEF Earning
    <3> QED BY <2>1, <3>1 DEF PoolSound, SamePool
  <2>2. CASE earned > 0
    <3>1. q.pool = [d.pool EXCEPT !.total_unlent = d.pool.total_unlent + earned,
                      !.total_lendable = d.pool.total_unlent + earned + d.pool.total_lent]
        BY <1>1, <2>2 DEF Earning
    <3> QED BY <3>1 DEF PoolSound, PoolFields, SamePool
  <2> QED BY <2>1, <2>2
<1>4. PoolSound(q.pool)
    BY <1>3 DEF PoolSound, SamePool
<1> QED BY <1>1, <1>2, <1>3, <1>4 DEF q

\* update_rex_pool: what the returns lose the pool gains, and what is left is what
\* buckets have still to pay.
LEMMA UpdateReturns ==
    ASSUME NEW r, DOMAIN r = RexFields, PoolSound(r.pool), NEW ct, Clock(ct), ReturnsSound(r, ct)
    PROVE  Returned(r, update_rex_pool(r, ct), 0, ct)
<1> DEFINE e == ct - (ct % DistInterval)
<1>0. Slot(e) /\ e =< ct
    BY Slots
<1> HIDE DEF e
<1>1. CASE ~ r.ret.exists \/ e =< r.ret.last_dist_time
  <2>1. update_rex_pool(r, ct) = r
      BY <1>1, Zenon DEF update_rex_pool, update_rex_pool_at, e
  <2>2. r.pool.total_unlent >= r.pool.total_unlent
        /\ r.pool.total_lendable + r.ret.proceeds = r.pool.total_lendable + r.ret.proceeds + 0
      BY ReturnsAre DEF PoolSound
  <2> QED BY <2>1, <2>2 DEF Returned, SamePool
<1>2. CASE r.ret.exists /\ ~ e =< r.ret.last_dist_time
  <2> DEFINE s == StartPending(r, e)
             over == Over(s, e)
             d == DropBuckets(s, over, e)
             net == PaidUntil(r.ret, e) - Surplus(s.buckets, over, e)
             q == Distribute(d, Earned(net, r.ret.proceeds), e)
             B == s.buckets
  <2>1. update_rex_pool(r, ct) = q
      BY <1>2, Zenon DEF update_rex_pool, update_rex_pool_at, DistributeReturns, DropAndDistribute, e
  <2>2. r.ret.last_dist_time < e
      BY <1>0, <1>2, ReturnsAre DEF Slot
  <2>3. /\ DOMAIN s = RexFields /\ s.pool = r.pool /\ s.funds = r.funds
        /\ s.balances = r.balances /\ s.loans = r.loans /\ s.orders = r.orders
        /\ DOMAIN s.ret = ReturnFields /\ s.ret.exists
        /\ s.ret.proceeds = r.ret.proceeds
        /\ s.ret.oldest_bucket_time \in Int
        /\ s.ret.pending_bucket_time \in Nat /\ s.ret.pending_bucket_proceeds \in Nat
        /\ s.ret.pending_bucket_time # Never => s.ret.pending_bucket_time % DistInterval = 0
        /\ s.ret.pending_bucket_time = Never => s.ret.pending_bucket_proceeds = 0
        /\ NatTable(B)
        /\ \A b \in DOMAIN B :
               /\ Slot(b) /\ b =< e /\ s.ret.oldest_bucket_time =< b
               /\ s.ret.pending_bucket_time # Never => b < s.ret.pending_bucket_time
        /\ s.ret.current_rate_of_increase = Total(B)
        /\ \E from : \E rem \in Nat :
               /\ Flows(B, from, e)
               /\ PaidUntil(r.ret, e) = Total(Paid(B, from, e)) + rem
               /\ r.ret.proceeds = s.ret.pending_bucket_proceeds + rem + Total(LeftFrom(B, from))
    <3> HIDE DEF s
    <3> QED BY <1>0, <1>2, <2>2, StartedReturns DEF s
  <2>4. PICK from : \E rem \in Nat :
               /\ Flows(B, from, e)
               /\ PaidUntil(r.ret, e) = Total(Paid(B, from, e)) + rem
               /\ r.ret.proceeds = s.ret.pending_bucket_proceeds + rem + Total(LeftFrom(B, from))
      BY <2>3
  <2>5. PICK rem \in Nat :
               /\ Flows(B, from, e)
               /\ PaidUntil(r.ret, e) = Total(Paid(B, from, e)) + rem
               /\ r.ret.proceeds = s.ret.pending_bucket_proceeds + rem + Total(LeftFrom(B, from))
      BY <2>4
  <2> DEFINE paid == Total(Paid(B, from, e))
             back == Surplus(B, TermOver(B, e), e)
             still == Total(LeftOf(Going(B, e), e))
             rates == TotalOf(B, TermOver(B, e))
  <2> HIDE DEF s
  <2>6. /\ paid \in Int /\ back \in Int /\ paid - back \in Nat /\ still \in Nat
        /\ Total(LeftFrom(B, from)) = (paid - back) + still
        /\ Total(Going(B, e)) = Total(B) - rates
    <3> HIDE DEF B
    <3> QED BY <1>0, <2>3, <2>5, ReturnsFlow
  <2>7. Total(B) \in Int /\ rates \in Int /\ e \in Nat
    <3>1. IntTable(B)
        BY <2>3 DEF IntTable, NatTable
    <3>2. TermOver(B, e) \in SUBSET DOMAIN B
        BY DEF TermOver
    <3>3. IsFiniteSet(TermOver(B, e))
        BY <3>1, <3>2, FS_Subset DEF IntTable
    <3>4. \A b \in TermOver(B, e) : B[b] \in Int
        BY <3>1, <3>2 DEF IntTable
    <3> QED BY <1>0, <3>1, <3>3, <3>4, TotalType, SumType, TotalIs DEF Slot
  <2>8. /\ over = TermOver(B, e)
        /\ DOMAIN d = RexFields /\ d.pool = s.pool /\ d.funds = s.funds
        /\ d.balances = s.balances /\ d.loans = s.loans /\ d.orders = s.orders
        /\ DOMAIN d.buckets = DOMAIN Going(B, e)
        /\ \A b \in DOMAIN d.buckets : d.buckets[b] = Going(B, e)[b]
        /\ DOMAIN d.ret = ReturnFields /\ d.ret.exists = s.ret.exists
        /\ d.ret.last_dist_time = s.ret.last_dist_time /\ d.ret.proceeds = s.ret.proceeds
        /\ d.ret.pending_bucket_time = s.ret.pending_bucket_time
        /\ d.ret.pending_bucket_proceeds = s.ret.pending_bucket_proceeds
        /\ d.ret.oldest_bucket_time \in Int
        /\ \A b \in DOMAIN d.buckets : d.ret.oldest_bucket_time =< b
        /\ d.ret.current_rate_of_increase = s.ret.current_rate_of_increase - rates
    <3>1. \A b \in DOMAIN B : b \in Nat /\ s.ret.oldest_bucket_time =< b
        BY <2>3 DEF Slot
    <3>2. s.ret.current_rate_of_increase \in Int
        BY <2>3, <2>7
    <3> HIDE DEF d, over
    <3> QED BY <2>3, <2>7, <3>1, <3>2, BucketsDropped DEF d, over
  <2>9. r.ret.proceeds \in Nat
      BY ReturnsAre
  <2>10. /\ net \in Nat /\ Earned(net, r.ret.proceeds) = net
         /\ r.ret.proceeds - net = s.ret.pending_bucket_proceeds + still
    <3> DEFINE P == s.ret.pending_bucket_proceeds
               l == Total(LeftFrom(B, from))
    <3>1. /\ net = (paid + rem) - back
          /\ r.ret.proceeds = P + rem + l /\ l = (paid - back) + still
          /\ P \in Nat /\ rem \in Nat
      <4> HIDE DEF over, paid, back, still
      <4>1. net = PaidUntil(r.ret, e) - back
          BY <2>8 DEF back
      <4> HIDE DEF net
      <4> QED BY <2>3, <2>5, <2>6, <4>1 DEF paid
    <3> HIDE DEF net, paid, back, still, P, l
    <3>2. /\ net = (paid - back) + rem /\ net \in Nat
          /\ r.ret.proceeds = P + rem + (paid - back) + still
        BY <2>6, <3>1
    <3>3. net =< r.ret.proceeds /\ r.ret.proceeds - net = P + still
        BY <2>6, <3>1, <3>2
    <3>4. Earned(net, r.ret.proceeds) = net
        BY <2>9, <3>2, <3>3 DEF Earned
    <3> QED BY <3>2, <3>3, <3>4 DEF P
  <2>11. q = Distribute(d, net, e)
    <3> HIDE DEF net, d
    <3> QED BY <2>10
  <2> HIDE DEF net, d, over, q
  <2>12. /\ DOMAIN q = RexFields /\ q.buckets = d.buckets /\ q.funds = d.funds
         /\ q.balances = d.balances /\ q.loans = d.loans /\ q.orders = d.orders
         /\ PoolSound(q.pool) /\ SamePool(d.pool, q.pool)
         /\ q.pool.total_unlent = d.pool.total_unlent + net
         /\ q.pool.total_lendable = d.pool.total_lendable + net
         /\ DOMAIN q.ret = ReturnFields /\ q.ret.exists = d.ret.exists
         /\ q.ret.last_dist_time = e /\ q.ret.proceeds = d.ret.proceeds - net
         /\ q.ret.pending_bucket_time = d.ret.pending_bucket_time
         /\ q.ret.pending_bucket_proceeds = d.ret.pending_bucket_proceeds
         /\ q.ret.oldest_bucket_time = d.ret.oldest_bucket_time
         /\ q.ret.current_rate_of_increase = d.ret.current_rate_of_increase
    <3>1. PoolSound(d.pool) /\ d.ret.proceeds \in Int
        BY <2>3, <2>8, <2>9
    <3> QED BY <2>8, <2>10, <2>11, <3>1, ReturnsDistributed
  <2>13. DOMAIN q.buckets \subseteq DOMAIN B /\ \A b \in DOMAIN q.buckets : q.buckets[b] = B[b] /\ ~ b + Term =< e
    <3>1. DOMAIN Going(B, e) = DOMAIN B \ TermOver(B, e)
          /\ \A b \in DOMAIN Going(B, e) : Going(B, e)[b] = B[b]
        BY DEF Going
    <3>2. DOMAIN q.buckets = DOMAIN B \ TermOver(B, e)
        BY <2>8, <2>12, <3>1
    <3>3. \A b \in DOMAIN q.buckets : q.buckets[b] = B[b]
        BY <2>8, <2>12, <3>1
    <3> HIDE DEF B
    <3> QED BY <3>2, <3>3 DEF TermOver
  <2>14. NatTable(q.buckets)
    <3>1. IsFiniteSet(DOMAIN q.buckets)
        BY <2>3, <2>13, FS_Subset DEF NatTable
    <3> QED BY <2>3, <2>13, <3>1 DEF NatTable
  <2>15. BucketsSound(q.buckets, q.ret, ct)
    <3>1. ASSUME NEW b \in DOMAIN q.buckets
          PROVE  /\ b \in Nat /\ b % DistInterval = 0
                 /\ b =< ct /\ b =< q.ret.last_dist_time /\ q.ret.last_dist_time =< b + Term
                 /\ q.ret.oldest_bucket_time =< b
                 /\ q.ret.pending_bucket_time # Never => b < q.ret.pending_bucket_time
      <4>1. b \in DOMAIN B /\ ~ b + Term =< e /\ Slot(b) /\ b =< e
            /\ (s.ret.pending_bucket_time # Never => b < s.ret.pending_bucket_time)
          BY <2>3, <2>13
      <4>2. Term \in Nat /\ ct \in Nat
          BY RexAssumption, TimesMonotone DEF Term, Clock
      <4>3. e =< b + Term /\ b =< ct
          BY <1>0, <4>1, <4>2 DEF Slot
      <4> QED BY <2>8, <2>12, <4>1, <4>3 DEF Slot
    <3> QED BY <2>14, <3>1 DEF BucketsSound
  <2>16. q.ret.current_rate_of_increase = Total(q.buckets)
    <3>1. Total(q.buckets) = Total(Going(B, e))
      <4>1. IsFiniteSet(DOMAIN Going(B, e))
          BY <2>8, <2>12, <2>14 DEF NatTable
      <4> QED BY <2>8, <2>12, <4>1, SameTotal
    <3> QED BY <2>3, <2>6, <2>8, <2>12, <3>1
  <2>17. q.ret.proceeds = q.ret.pending_bucket_proceeds + Total(LeftOf(q.buckets, q.ret.last_dist_time))
    <3>1. LeftOf(q.buckets, e) = LeftOf(Going(B, e), e)
        BY <2>8, <2>12 DEF LeftOf
    <3> QED BY <2>3, <2>8, <2>10, <2>12, <3>1
  <2>18. ReturnsSound(q, ct)
    <3>1. e \in Nat /\ e % DistInterval = 0
        BY <1>0 DEF Slot
    <3>2. q.ret.exists = TRUE
        BY <2>3, <2>8, <2>12
    <3>3. /\ DOMAIN q.ret = ReturnFields /\ q.ret.last_dist_time \in Nat
          /\ q.ret.last_dist_time % DistInterval = 0 /\ q.ret.oldest_bucket_time \in Int
        BY <2>8, <2>12, <3>1
    <3>4. /\ q.ret.pending_bucket_time \in Nat /\ q.ret.pending_bucket_proceeds \in Nat
          /\ q.ret.pending_bucket_time # Never => q.ret.pending_bucket_time % DistInterval = 0
          /\ q.ret.pending_bucket_time = Never => q.ret.pending_bucket_proceeds = 0
        BY <2>3, <2>8, <2>12
    <3> QED BY <2>15, <2>16, <2>17, <3>2, <3>3, <3>4 DEF ReturnsSound
  <2>19. q.pool.total_unlent >= r.pool.total_unlent
         /\ q.pool.total_lendable + q.ret.proceeds = r.pool.total_lendable + r.ret.proceeds + 0
    <3>1. r.pool.total_unlent \in Int /\ r.pool.total_lendable \in Int
        BY DEF PoolSound
    <3> QED BY <2>3, <2>8, <2>9, <2>10, <2>12, <3>1
  <2>20. SamePool(r.pool, q.pool)
      BY <2>3, <2>8, <2>12
  <2>21. Returned(r, q, 0, ct)
      BY <2>3, <2>8, <2>12, <2>18, <2>19, <2>20 DEF Returned
  <2> QED BY <2>1, <2>21
<1> QED BY <1>1, <1>2


-----------------------------------------------------------------------------
\* add_to_rex_return_pool: what is paid in is a return on its way.
LEMMA AddReturned ==
    ASSUME NEW r, DOMAIN r = RexFields, PoolSound(r.pool), NEW ct, Clock(ct), ReturnsSound(r, ct),
           NEW fee \in Nat \ {0}
    PROVE  Returned(r, add_to_rex_return_pool(r, fee, ct), fee, ct)
<1> DEFINE p    == update_rex_pool(r, ct)
           ends == ct - (ct % BucketInterval) + BucketInterval
           q    == AddReturn(p, fee, ends)
<1>1. q = add_to_rex_return_pool(r, fee, ct)
    BY Zenon DEF add_to_rex_return_pool
<1>2. Slot(ends) /\ ct < ends /\ ends # Never
    BY Slots
<1>3. Returned(r, p, 0, ct)
    BY UpdateReturns
<1> HIDE DEF p, ends
<1>4. /\ DOMAIN p = RexFields /\ PoolSound(p.pool) /\ ReturnsSound(p, ct) /\ BucketsSound(p.buckets, p.ret, ct)
      /\ p.funds = r.funds /\ p.balances = r.balances /\ p.loans = r.loans /\ p.orders = r.orders
      /\ SamePool(r.pool, p.pool) /\ p.pool.total_unlent >= r.pool.total_unlent
      /\ p.pool.total_lendable + p.ret.proceeds = r.pool.total_lendable + r.ret.proceeds + 0
    BY <1>3 DEF Returned, ReturnsSound
<1>5. /\ DOMAIN p.ret = ReturnFields /\ p.ret.exists \in BOOLEAN
      /\ p.ret.last_dist_time \in Nat /\ p.ret.last_dist_time % DistInterval = 0
      /\ p.ret.oldest_bucket_time \in Int
      /\ p.ret.pending_bucket_time \in Nat /\ p.ret.pending_bucket_proceeds \in Nat
      /\ p.ret.pending_bucket_time # Never => p.ret.pending_bucket_time % DistInterval = 0
      /\ p.ret.pending_bucket_time = Never => p.ret.pending_bucket_proceeds = 0
      /\ ~ p.ret.exists => DOMAIN p.buckets = {} /\ p.ret.pending_bucket_time = Never
      /\ p.ret.current_rate_of_increase = Total(p.buckets)
      /\ p.ret.proceeds = p.ret.pending_bucket_proceeds + Total(LeftOf(p.buckets, p.ret.last_dist_time))
    BY <1>4 DEF ReturnsSound
<1>6. /\ DOMAIN q = RexFields /\ q.pool = p.pool /\ q.funds = p.funds /\ q.balances = p.balances
      /\ q.loans = p.loans /\ q.orders = p.orders /\ q.buckets = p.buckets
      /\ q.ret = PaidInto(p.ret, fee, ends)
    BY <1>4 DEF AddReturn, RexFields
<1> HIDE DEF q
<1>7. ends \in Nat /\ ends % DistInterval = 0
    BY <1>2 DEF Slot
<1>8. ReturnsSound(q, ct) /\ q.ret.proceeds = p.ret.proceeds + fee
  <2>1. CASE ~ p.ret.exists
    <3>1. q.ret = [NoReturns EXCEPT !.exists = TRUE, !.last_dist_time = ends, !.pending_bucket_time = ends,
                           !.pending_bucket_proceeds = fee, !.proceeds = fee]
        BY <1>6, <2>1 DEF PaidInto
    <3>2. /\ DOMAIN q.ret = ReturnFields /\ q.ret.exists = TRUE /\ q.ret.last_dist_time = ends
          /\ q.ret.pending_bucket_time = ends /\ q.ret.pending_bucket_proceeds = fee
          /\ q.ret.proceeds = fee /\ q.ret.oldest_bucket_time = 0 /\ q.ret.current_rate_of_increase = 0
        BY <3>1 DEF NoReturns, ReturnFields
    <3>3. DOMAIN q.buckets = {} /\ DOMAIN p.buckets = {}
        BY <1>5, <1>6, <2>1
    <3>4. \A l : Total(LeftOf(q.buckets, l)) = 0 /\ Total(LeftOf(p.buckets, l)) = 0
      <4>1. \A l : DOMAIN LeftOf(q.buckets, l) = {} /\ DOMAIN LeftOf(p.buckets, l) = {}
          BY <3>3 DEF LeftOf
      <4> QED BY <4>1, TotalEmpty, Zenon DEF Total
    <3>5. Total(q.buckets) = 0
        BY <3>3, TotalEmpty, Zenon DEF Total
    <3>6. BucketsSound(q.buckets, q.ret, ct)
      <4>1. NatTable(q.buckets)
          BY <3>3, FS_EmptySet DEF NatTable
      <4> QED BY <3>3, <4>1 DEF BucketsSound
    <3>7. p.ret.proceeds = 0
        BY <1>5, <2>1, <3>4
    <3>8. q.ret.proceeds = q.ret.pending_bucket_proceeds + Total(LeftOf(q.buckets, q.ret.last_dist_time))
          /\ q.ret.proceeds = p.ret.proceeds + fee
        BY <3>2, <3>4, <3>7
    <3>9. /\ q.ret.exists \in BOOLEAN /\ q.ret.last_dist_time \in Nat
          /\ q.ret.last_dist_time % DistInterval = 0 /\ q.ret.oldest_bucket_time \in Int
          /\ q.ret.pending_bucket_time \in Nat /\ q.ret.pending_bucket_proceeds \in Nat
          /\ q.ret.pending_bucket_time % DistInterval = 0 /\ q.ret.pending_bucket_time # Never
      <4>1. 0 \in Int /\ fee \in Nat /\ TRUE \in BOOLEAN
          OBVIOUS
      <4> QED BY <1>2, <1>7, <3>2, <4>1, Zenon
    <3>10. q.ret.current_rate_of_increase = Total(q.buckets)
        BY <3>2, <3>5
    <3> QED BY <3>2, <3>6, <3>8, <3>9, <3>10 DEF ReturnsSound
  <2>2. CASE p.ret.exists
    <3>1. q.ret = [p.ret EXCEPT !.pending_bucket_proceeds = @ + fee, !.proceeds = @ + fee,
                     !.pending_bucket_time = IF @ = Never THEN ends ELSE @]
        BY <1>6, <2>2 DEF PaidInto
    <3>2. /\ DOMAIN q.ret = ReturnFields /\ q.ret.exists = p.ret.exists
          /\ q.ret.last_dist_time = p.ret.last_dist_time
          /\ q.ret.pending_bucket_time = (IF p.ret.pending_bucket_time = Never THEN ends
                                          ELSE p.ret.pending_bucket_time)
          /\ q.ret.pending_bucket_proceeds = p.ret.pending_bucket_proceeds + fee
          /\ q.ret.proceeds = p.ret.proceeds + fee
          /\ q.ret.oldest_bucket_time = p.ret.oldest_bucket_time
          /\ q.ret.current_rate_of_increase = p.ret.current_rate_of_increase
        BY <1>5, <3>1 DEF ReturnFields
    <3>3. BucketsSound(q.buckets, q.ret, ct)
      <4>1. ASSUME NEW b \in DOMAIN p.buckets
            PROVE  q.ret.pending_bucket_time # Never => b < q.ret.pending_bucket_time
        <5>1. b \in Nat /\ b =< ct /\ (p.ret.pending_bucket_time # Never => b < p.ret.pending_bucket_time)
            BY <1>4 DEF BucketsSound
        <5> QED BY <1>2, <1>7, <3>2, <5>1 DEF Clock
      <4> QED BY <1>4, <1>6, <3>2, <4>1 DEF BucketsSound
    <3>4. Total(LeftOf(p.buckets, p.ret.last_dist_time)) \in Nat
        BY <1>4, ReturnsAre
    <3>5. /\ q.ret.pending_bucket_time \in Nat /\ q.ret.pending_bucket_proceeds \in Nat
          /\ q.ret.pending_bucket_time # Never => q.ret.pending_bucket_time % DistInterval = 0
          /\ q.ret.pending_bucket_time # Never
        BY <1>2, <1>5, <1>7, <3>2
    <3>6. q.ret.proceeds = q.ret.pending_bucket_proceeds + Total(LeftOf(q.buckets, q.ret.last_dist_time))
      <4> DEFINE l == Total(LeftOf(p.buckets, p.ret.last_dist_time))
      <4>1. l \in Nat /\ p.ret.proceeds = p.ret.pending_bucket_proceeds + l
          BY <1>5, <3>4
      <4> HIDE DEF l
      <4>2. q.ret.proceeds = q.ret.pending_bucket_proceeds + l
          BY <1>5, <3>2, <4>1
      <4> QED BY <1>6, <3>2, <4>2 DEF l
    <3> QED BY <1>5, <1>6, <2>2, <3>2, <3>3, <3>5, <3>6 DEF ReturnsSound
  <2> QED BY <1>5, <2>1, <2>2
<1>9. /\ p.pool.total_lendable \in Int /\ r.pool.total_lendable \in Int
      /\ p.ret.proceeds \in Int /\ r.ret.proceeds \in Int
    BY <1>4, ReturnsAre DEF PoolSound
<1>10. q.pool.total_lendable + q.ret.proceeds = r.pool.total_lendable + r.ret.proceeds + fee
    BY <1>4, <1>6, <1>8, <1>9
<1> QED BY <1>1, <1>4, <1>6, <1>8, <1>10 DEF Returned

-----------------------------------------------------------------------------
\* A REX token is worth no less: no REX comes from nowhere, and what there is of
\* it is worth at least as much.
Dearer(p, q) ==
    /\ q.total_rex > 0 => p.total_rex > 0
    /\ p.total_rex > 0 /\ q.total_rex > 0 =>
           q.total_lendable * p.total_rex >= p.total_lendable * q.total_rex

\* From r the exchange has come to q with d tokens more.
Goes(r, q, d, ct) == Sound(q, ct) /\ Assets(q) = Assets(r) + d /\ Dearer(r.pool, q.pool)

\* Owners stay, orders that wait keep their REX, and without any nothing is sold.
Still(r, q) ==
    /\ DOMAIN r.balances \subseteq DOMAIN q.balances
    /\ Covered(r) => Covered(q)
    /\ OpenOrders(r) = {} => OpenOrders(q) = {} /\ q.pool.total_rex = r.pool.total_rex

\* A sum over rows with a natural field.
LEMMA NatSum ==
    ASSUME NEW t, NEW f, IsFiniteSet(DOMAIN t), \A k \in DOMAIN t : t[k][f] \in Nat
    PROVE  IntField(t, f) /\ Sum(t, f) \in Nat /\ \A k \in DOMAIN t : t[k][f] =< Sum(t, f)
<1> DEFINE g == FieldTable(t, f)
<1>1. DOMAIN g = DOMAIN t /\ \A k \in DOMAIN t : g[k] = t[k][f]
    BY DEF FieldTable
<1>2. Sum(t, f) = SumFunctionOnSet(g, DOMAIN t)
    BY <1>1, SumIsTotal, TotalIs, Zenon DEF Total
<1>3. \A k \in DOMAIN t : g[k] \in Nat
    BY <1>1
<1> HIDE DEF g
<1>4. /\ SumFunctionOnSet(g, DOMAIN t) \in Nat
      /\ \A k \in DOMAIN t : g[k] =< SumFunctionOnSet(g, DOMAIN t)
    BY <1>3, SumOfNaturals
<1> QED BY <1>1, <1>2, <1>4 DEF IntField

\* The same of a table of tokens.
LEMMA NatTotal ==
    ASSUME NEW t, NatTable(t)
    PROVE  IntTable(t) /\ Total(t) \in Nat /\ \A k \in DOMAIN t : t[k] =< Total(t)
<1>1. IntTable(t)
    BY DEF NatTable, IntTable
<1>2. SumFunctionOnSet(t, DOMAIN t) \in Nat /\ \A k \in DOMAIN t : t[k] =< SumFunctionOnSet(t, DOMAIN t)
    BY SumOfNaturals DEF NatTable
<1>3. Total(t) = SumFunctionOnSet(t, DOMAIN t)
    BY TotalIs, Zenon DEF Total
<1> QED BY <1>1, <1>2, <1>3

\* The sums of a sound exchange.
LEMMA SoundSums ==
    ASSUME NEW r, NEW ct, Sound(r, ct), Clock(ct)
    PROVE  /\ IntTable(r.funds) /\ Total(r.funds) \in Nat
           /\ IntField(r.loans, "balance") /\ Sum(r.loans, "balance") \in Nat
           /\ IntField(r.loans, "total_staked") /\ Sum(r.loans, "total_staked") \in Nat
           /\ IntField(r.orders, "proceeds") /\ Sum(r.orders, "proceeds") \in Nat
           /\ IntField(r.balances, "rex_balance") /\ Sum(r.balances, "rex_balance") \in Nat
           /\ r.pool.total_lendable \in Nat /\ r.ret.proceeds \in Nat
           /\ Assets(r) \in Nat
<1>1. IntTable(r.funds) /\ Total(r.funds) \in Nat
    BY NatTotal DEF Sound
<1>2. /\ IntField(r.loans, "balance") /\ Sum(r.loans, "balance") \in Nat
      /\ IntField(r.loans, "total_staked") /\ Sum(r.loans, "total_staked") \in Nat
  <2>1. IsFiniteSet(DOMAIN r.loans) /\ \A n \in DOMAIN r.loans : r.loans[n].balance \in Nat /\ r.loans[n].total_staked \in Nat
      BY DEF Sound, LoansSound, LoanSound
  <2> QED BY <2>1, NatSum
<1>3. IntField(r.orders, "proceeds") /\ Sum(r.orders, "proceeds") \in Nat
  <2>1. IsFiniteSet(DOMAIN r.orders)
      BY SystemAssumption, FS_Subset DEF Sound, OrdersSound
  <2>2. \A x \in DOMAIN r.orders : r.orders[x].proceeds \in Nat
      BY DEF Sound, OrdersSound, OrderSound
  <2> QED BY <2>1, <2>2, NatSum
<1>4. IntField(r.balances, "rex_balance") /\ Sum(r.balances, "rex_balance") \in Nat
  <2>1. IsFiniteSet(DOMAIN r.balances) /\ \A x \in DOMAIN r.balances : BalanceSound(r.balances[x])
      BY DEF Sound, OwnersSound
  <2>2. \A x \in DOMAIN r.balances : r.balances[x].rex_balance \in Nat
    <3>1. ASSUME NEW x \in DOMAIN r.balances PROVE r.balances[x].rex_balance \in Nat
      <4>1. BalanceSound(r.balances[x])
          BY <2>1
      <4>2. Total(r.balances[x].maturities) \in Nat
          BY <4>1, NatTotal DEF BalanceSound
      <4> QED BY <4>1, <4>2 DEF BalanceSound, HeldBy, Total
    <3> QED BY <3>1
  <2> QED BY <2>1, <2>2, NatSum
<1>5. r.pool.total_lendable \in Nat /\ r.ret.proceeds \in Nat
  <2>1. r.ret.proceeds \in Nat
      BY ReturnsAre DEF Sound
  <2> QED BY <2>1 DEF Sound, PoolSound
<1> QED BY <1>1, <1>2, <1>3, <1>4, <1>5 DEF Assets

\* Products in another order.
LEMMA TimesThree ==
    ASSUME NEW a \in Nat, NEW b \in Nat, NEW c \in Nat
    PROVE  (a * b) * c = (a * c) * b /\ (a * b) * c = a * (c * b) /\ a * b \in Nat /\ a * b = b * a
<1>1. (a * b) * c = a * (b * c) /\ (a * c) * b = a * (c * b) /\ b * c = c * b
    OBVIOUS
<1> QED BY <1>1, TimesMonotone

\* One helper after another.
LEMMA DearerTransitive ==
    ASSUME NEW p, NEW q, NEW s, PoolSound(p), PoolSound(q), PoolSound(s), Dearer(p, q), Dearer(q, s)
    PROVE  Dearer(p, s)
<1> SUFFICES ASSUME p.total_rex > 0, s.total_rex > 0
             PROVE  s.total_lendable * p.total_rex >= p.total_lendable * s.total_rex
    BY DEF Dearer, PoolSound
<1> DEFINE a == p.total_rex
           b == q.total_rex
           c == s.total_rex
           l == p.total_lendable
           m == q.total_lendable
           n == s.total_lendable
<1>1. a \in Nat /\ b \in Nat \ {0} /\ c \in Nat /\ l \in Nat /\ m \in Nat /\ n \in Nat
    BY DEF PoolSound, Dearer
<1>2. l * b =< m * a /\ m * c =< n * b
  <2>1. a > 0 /\ b > 0 /\ c > 0
      BY <1>1
  <2>2. m * a >= l * b /\ n * b >= m * c
      BY <2>1 DEF Dearer
  <2>3. m * a \in Nat /\ l * b \in Nat /\ n * b \in Nat /\ m * c \in Nat
    <3> HIDE DEF a, b, c, l, m, n
    <3> QED BY <1>1, TimesThree
  <2> HIDE DEF a, b, c, l, m, n
  <2> QED BY <2>2, <2>3
<1> HIDE DEF a, b, c, l, m, n
<1>3. (l * b) * c =< (m * a) * c /\ (m * c) * a =< (n * b) * a
    BY <1>1, <1>2, TimesThree, TimesMonotone
<1>4. (l * b) * c = (l * c) * b /\ (m * a) * c = (m * c) * a /\ (n * b) * a = (n * a) * b
    BY <1>1, TimesThree
<1>5. l * c \in Nat /\ n * a \in Nat /\ (l * c) * b \in Nat /\ (m * c) * a \in Nat /\ (n * a) * b \in Nat
    BY <1>1, TimesThree
<1>6. (l * c) * b =< (n * a) * b
    BY <1>3, <1>4, <1>5
<1>7. l * c =< n * a
    BY <1>1, <1>5, <1>6, TimesCancel
<1>8. n * a >= l * c
    BY <1>5, <1>7
<1> QED BY <1>8 DEF a, c, l, n

\* So do their tokens add up.
LEMMA GoesTransitive ==
    ASSUME NEW ct, Clock(ct), NEW r, NEW q, NEW s, Sound(r, ct), NEW d \in Int, NEW e \in Int,
           Goes(r, q, d, ct), Goes(q, s, e, ct)
    PROVE  Goes(r, s, d + e, ct)
<1>1. PoolSound(r.pool) /\ PoolSound(q.pool) /\ PoolSound(s.pool)
    BY DEF Goes, Sound
<1>2. Dearer(r.pool, s.pool)
    BY <1>1, DearerTransitive DEF Goes
<1>3. Assets(r) \in Nat
    BY SoundSums
<1>4. Assets(s) = Assets(r) + (d + e)
    BY <1>3 DEF Goes
<1> QED BY <1>2, <1>4 DEF Goes

\* Nothing at all.
LEMMA GoesReflexive ==
    ASSUME NEW ct, Clock(ct), NEW r, Sound(r, ct)
    PROVE  Goes(r, r, 0, ct) /\ Still(r, r)
<1>1. Assets(r) = Assets(r) + 0
    BY SoundSums
<1>2. r.pool.total_lendable * r.pool.total_rex >= r.pool.total_lendable * r.pool.total_rex
  <2>1. r.pool.total_lendable * r.pool.total_rex \in Nat
      BY TimesThree DEF Sound, PoolSound
  <2> QED BY <2>1
<1> QED BY <1>1, <1>2 DEF Goes, Dearer, Still

\* Nothing is sold in two steps if in neither.
LEMMA StillTransitive ==
    ASSUME NEW r, NEW q, NEW s, Still(r, q), Still(q, s)
    PROVE  Still(r, s)
BY DEF Still

\* More tokens, as much REX.
LEMMA MoreIsDearer ==
    ASSUME NEW p, NEW q, PoolSound(p), PoolSound(q), q.total_rex = p.total_rex,
           q.total_lendable >= p.total_lendable
    PROVE  Dearer(p, q)
<1>1. p.total_lendable * p.total_rex =< q.total_lendable * p.total_rex
      /\ q.total_lendable * p.total_rex \in Nat /\ p.total_lendable * p.total_rex \in Nat
    BY TimesMonotone DEF PoolSound
<1>2. q.total_lendable * p.total_rex >= p.total_lendable * p.total_rex
    BY <1>1
<1> QED BY <1>2 DEF Dearer

\* Returns come in, or reach the pool.
LEMMA ReturnedGoes ==
    ASSUME NEW ct, Clock(ct), NEW r, Sound(r, ct), NEW d \in Nat, NEW q, Returned(r, q, d, ct)
    PROVE  Goes(r, q, d, ct) /\ Still(r, q)
<1>1. /\ DOMAIN q = RexFields /\ PoolSound(q.pool) /\ ReturnsSound(q, ct)
      /\ q.funds = r.funds /\ q.balances = r.balances /\ q.loans = r.loans /\ q.orders = r.orders
      /\ SamePool(r.pool, q.pool) /\ q.pool.total_unlent >= r.pool.total_unlent
      /\ q.pool.total_lendable + q.ret.proceeds = r.pool.total_lendable + r.ret.proceeds + d
    BY DEF Returned
<1>2. OpenOrders(q) = OpenOrders(r)
    BY <1>1 DEF OpenOrders
<1>3. Sound(q, ct)
  <2>1. OwnersSound(q) /\ LoansSound(q)
      BY <1>1 DEF Sound, OwnersSound, LoansSound, SamePool
  <2>2. OrdersSound(q)
      BY <1>1, <1>2 DEF Sound, OrdersSound
  <2> QED BY <1>1, <2>1, <2>2 DEF Sound
<1>4. Assets(q) = Assets(r) + d
  <2> DEFINE f == Total(r.funds)
             b == Sum(r.loans, "balance")
             o == Sum(r.orders, "proceeds")
             l == r.pool.total_lendable
             p == r.ret.proceeds
             m == q.pool.total_lendable
             n == q.ret.proceeds
  <2>1. f \in Nat /\ b \in Nat /\ o \in Nat /\ l \in Nat /\ p \in Nat
      BY SoundSums
  <2>2. m \in Nat /\ n \in Nat
      BY <1>3, SoundSums
  <2>3. Assets(q) = f + b + m + n + o /\ Assets(r) = f + b + l + p + o
      BY <1>1 DEF Assets
  <2>4. m + n = l + p + d
      BY <1>1
  <2> HIDE DEF f, b, o, l, p, m, n
  <2>5. f + b + m + n + o = f + b + l + p + o + d
      BY <2>1, <2>2, <2>4
  <2> QED BY <2>3, <2>5
<1>5. Dearer(r.pool, q.pool)
  <2>1. q.pool.total_rex = r.pool.total_rex /\ q.pool.total_lent = r.pool.total_lent
      BY <1>1 DEF SamePool
  <2>2. q.pool.total_lendable >= r.pool.total_lendable
      BY <1>1, <2>1 DEF PoolSound, Sound
  <2> QED BY <1>1, <2>1, <2>2, MoreIsDearer DEF Sound
<1>6. Still(r, q)
    BY <1>1, <1>2 DEF Still, SamePool, Covered
<1> QED BY <1>3, <1>4, <1>5, <1>6 DEF Goes

-----------------------------------------------------------------------------
\* What REX is worth is a number of tokens.
LEMMA WorthType ==
    ASSUME NEW p, p.total_rex \in Nat \ {0}, p.total_lendable \in Int, NEW n \in Int
    PROVE  WorthOf(p, n) \in Int
<1>1. n * p.total_lendable \in Int
    OBVIOUS
<1> QED BY <1>1, DivMod DEF WorthOf

\* What an owner has is conserved, whatever it does with it.
\*
BalanceShaped(b) ==
    /\ DOMAIN b = BalanceFields /\ b.vote_stake \in Int
    /\ b.matured_rex \in Nat /\ b.savings \in Nat /\ NatTable(b.maturities)

\* What is due matures.
LEMMA RexMatures ==
    ASSUME NEW b, BalanceShaped(b), NEW ct
    PROVE  LET c == process_rex_maturities(b, ct)
           IN  /\ BalanceShaped(c) /\ c.rex_balance = b.rex_balance /\ c.matured_rex >= b.matured_rex
               /\ HeldBy(c) = HeldBy(b)
<1> DEFINE m    == b.maturities
           over == {t \in DOMAIN m : t =< ct}
           rest == [t \in DOMAIN m \ over |-> m[t]]
           c    == process_rex_maturities(b, ct)
<1>1. c = [b EXCEPT !.matured_rex = @ + TotalOf(m, over), !.maturities = rest]
    BY DEF process_rex_maturities
<1>2. /\ TotalOf(m, over) \in Nat /\ Total(rest) \in Int /\ NatTable(rest)
      /\ Total(m) = TotalOf(m, over) + Total(rest)
  <2>1. NatTable(m) /\ over \in SUBSET DOMAIN m
      BY DEF BalanceShaped
  <2>2. IsFiniteSet(over) /\ IsFiniteSet(DOMAIN m \ over)
      BY <2>1, FS_Subset DEF NatTable
  <2>3. DOMAIN rest = DOMAIN m \ over /\ \A t \in DOMAIN m \ over : rest[t] = m[t]
      OBVIOUS
  <2> HIDE DEF over, rest
  <2>4. SumFunctionOnSet(m, over) \in Nat
      BY <2>1, <2>2, SumOfNaturals DEF NatTable
  <2>5. /\ SumFunctionOnSet(m, DOMAIN m \ over) \in Int
        /\ SumFunctionOnSet(m, DOMAIN m) = SumFunctionOnSet(m, over) + SumFunctionOnSet(m, DOMAIN m \ over)
    <3> DEFINE S == DOMAIN m
    <3>1. IsFiniteSet(S) /\ over \in SUBSET S /\ \A t \in S : m[t] \in Int
        BY <2>1 DEF NatTable
    <3> HIDE DEF S
    <3> QED BY <3>1, SumParts DEF S
  <2>6. SumFunctionOnSet(rest, DOMAIN m \ over) = SumFunctionOnSet(m, DOMAIN m \ over)
      BY <2>2, <2>3, SumEqual
  <2>7. NatTable(rest)
      BY <2>1, <2>2, <2>3 DEF NatTable
  <2> QED BY <2>3, <2>4, <2>5, <2>6, <2>7, TotalIs DEF Total
<1> HIDE DEF over, rest, c
<1>3. /\ DOMAIN c = BalanceFields /\ c.rex_balance = b.rex_balance /\ c.savings = b.savings
      /\ c.matured_rex = b.matured_rex + TotalOf(m, over) /\ c.maturities = rest
      /\ c.vote_stake \in Int
    BY <1>1 DEF BalanceShaped, BalanceFields
<1>4. b.matured_rex \in Nat /\ b.savings \in Nat /\ HeldBy(b) = b.matured_rex + b.savings + Total(m)
    BY DEF BalanceShaped, HeldBy, Total
<1>5. HeldBy(c) = HeldBy(b)
  <2>1. HeldBy(c) = b.matured_rex + TotalOf(m, over) + b.savings + Total(rest)
      BY <1>3 DEF HeldBy, Total
  <2> QED BY <1>2, <1>3, <1>4, <2>1
<1>6. c.matured_rex \in Nat /\ c.matured_rex >= b.matured_rex
    BY <1>2, <1>3, <1>4
<1> QED BY <1>2, <1>3, <1>4, <1>5, <1>6 DEF BalanceShaped, c

\* So a sound balance stays sound.
LEMMA BalanceMatures ==
    ASSUME NEW b, BalanceSound(b), NEW ct
    PROVE  LET c == process_rex_maturities(b, ct)
           IN  BalanceSound(c) /\ c.rex_balance = b.rex_balance /\ c.matured_rex >= b.matured_rex
<1> DEFINE c == process_rex_maturities(b, ct)
<1>1. /\ BalanceShaped(c) /\ c.rex_balance = b.rex_balance /\ c.matured_rex >= b.matured_rex
      /\ HeldBy(c) = HeldBy(b)
    BY RexMatures DEF BalanceShaped, BalanceSound
<1> HIDE DEF c
<1> QED BY <1>1 DEF BalanceShaped, BalanceSound, c

\* REX comes into the bucket of today.
LEMMA BalanceBucket ==
    ASSUME NEW b, DOMAIN b = BalanceFields, NatTable(b.maturities), NEW rex1 \in Nat, NEW ct
    PROVE  LET c == AddMaturity(b, rex1, ct)
           IN  /\ DOMAIN c = BalanceFields /\ NatTable(c.maturities)
               /\ c.rex_balance = b.rex_balance /\ c.matured_rex = b.matured_rex
               /\ c.savings = b.savings /\ c.vote_stake = b.vote_stake
               /\ Total(b.maturities) \in Nat /\ Total(c.maturities) = Total(b.maturities) + rex1
<1> DEFINE due == get_rex_maturity(ct)
           m   == b.maturities
           v   == rex1 + (IF due \in DOMAIN m THEN m[due] ELSE 0)
           c   == AddMaturity(b, rex1, ct)
<1>1. /\ DOMAIN c = BalanceFields /\ c.maturities = Put(m, due, v)
      /\ c.rex_balance = b.rex_balance /\ c.matured_rex = b.matured_rex /\ c.savings = b.savings
      /\ c.vote_stake = b.vote_stake
    BY DEF AddMaturity, BalanceFields
<1> HIDE DEF c, due
<1>2. v \in Nat /\ v = rex1 + At(m, due) /\ At(m, due) \in Nat
    BY DEF NatTable, At
<1>3. NatTable(Put(m, due, v))
  <2>1. IsFiniteSet(DOMAIN m \cup {due})
      BY FS_AddElement DEF NatTable
  <2> HIDE DEF v
  <2> QED BY <1>2, <2>1 DEF Put, NatTable
<1>4. Total(m) \in Nat /\ IntTable(m)
    BY NatTotal
<1>5. Total(Put(m, due, v)) = Total(m) - At(m, due) + v
  <2> HIDE DEF v
  <2> QED BY <1>2, <1>4, TotalPut
<1>6. Total(Put(m, due, v)) = Total(m) + rex1
  <2> HIDE DEF v
  <2> QED BY <1>2, <1>4, <1>5
<1> QED BY <1>1, <1>3, <1>4, <1>6 DEF c

\* Buckets and what has matured become one bucket, but for what an order asks for.
LEMMA BalanceConsolidated ==
    ASSUME NEW b, BalanceSound(b), NEW order \in Nat, order =< b.matured_rex, NEW ct
    PROVE  LET c == consolidate_rex_balance(b, order, ct)
           IN  BalanceSound(c) /\ c.rex_balance = b.rex_balance /\ c.matured_rex = order
<1> DEFINE total == b.matured_rex - order + TotalOf(b.maturities, DOMAIN b.maturities)
           one   == [b EXCEPT !.matured_rex = order, !.maturities = EmptyTable]
           c     == consolidate_rex_balance(b, order, ct)
<1>1. c = IF total > 0 THEN AddMaturity(one, total, ct) ELSE one
    BY Zenon DEF consolidate_rex_balance
<1>2. /\ DOMAIN one = BalanceFields /\ one.matured_rex = order /\ one.maturities = EmptyTable
      /\ one.rex_balance = b.rex_balance /\ one.savings = b.savings /\ one.vote_stake = b.vote_stake
      /\ b.vote_stake \in Int
    BY DEF BalanceSound, BalanceFields
<1>3. NatTable(EmptyTable) /\ Total(EmptyTable) = 0
  <2>1. DOMAIN EmptyTable = {}
      BY DEF EmptyTable
  <2> QED BY <2>1, FS_EmptySet, TotalEmpty DEF NatTable, Total
<1>4. /\ b.matured_rex \in Nat /\ b.savings \in Nat /\ b.rex_balance = b.matured_rex + b.savings + Total(b.maturities)
      /\ Total(b.maturities) \in Nat /\ total = b.matured_rex - order + Total(b.maturities)
    BY NatTotal DEF BalanceSound, HeldBy, Total
<1> HIDE DEF total, one, c
<1>5. total \in Nat /\ b.rex_balance = order + b.savings + total
    BY <1>4
<1>6. CASE total > 0
  <2>1. /\ DOMAIN c = BalanceFields /\ NatTable(c.maturities)
        /\ c.rex_balance = one.rex_balance /\ c.matured_rex = one.matured_rex /\ c.savings = one.savings
        /\ c.vote_stake = one.vote_stake
        /\ Total(c.maturities) = Total(one.maturities) + total
      BY <1>1, <1>2, <1>3, <1>5, <1>6, BalanceBucket
  <2>2. HeldBy(c) = order + b.savings + (0 + total)
      BY <1>2, <1>3, <2>1 DEF HeldBy, Total
  <2>3. c.rex_balance = HeldBy(c)
      BY <1>2, <1>4, <1>5, <2>1, <2>2
  <2> QED BY <1>2, <1>4, <2>1, <2>3 DEF BalanceSound, c
<1>7. CASE ~ total > 0
  <2>1. c = one /\ total = 0
      BY <1>1, <1>5, <1>7
  <2>2. HeldBy(c) = order + b.savings + 0
      BY <1>2, <1>3, <2>1 DEF HeldBy, Total
  <2>3. c.rex_balance = HeldBy(c)
      BY <1>2, <1>4, <1>5, <2>1, <2>2
  <2> QED BY <1>2, <1>3, <1>4, <2>1, <2>3 DEF BalanceSound, c
<1> QED BY <1>6, <1>7

\* Savings take from the buckets, the last first, and from what has matured: what
\* is there is neither more nor less.
LEMMA BalanceSaved ==
    ASSUME NEW b, BalanceSound(b), NEW rex1 \in Nat, NEW order \in Nat, order =< b.matured_rex,
           LET c == MoveToSavings(b, rex1) IN c.matured_rex < b.matured_rex => order =< c.matured_rex
    PROVE  LET c == MoveToSavings(b, rex1)
           IN  BalanceSound(c) /\ c.rex_balance = b.rex_balance /\ order =< c.matured_rex
<1> DEFINE m == b.maturities
           later(t) == {u \in DOMAIN m : u > t}
           taken == [t \in DOMAIN m |->
                        LET left == Positive(rex1 - TotalOf(m, later(t)))
                        IN  IF left < m[t] THEN left ELSE m[t]]
           rest  == rex1 - TotalOf(taken, DOMAIN taken)
           kept  == {t \in DOMAIN taken : taken[t] < m[t]}
           new   == [t \in kept |-> m[t] - taken[t]]
           c     == MoveToSavings(b, rex1)
<1>1. c = [b EXCEPT !.maturities = new, !.matured_rex = @ - rest, !.savings = @ + rex1]
    BY DEF MoveToSavings
<1>2. NatTable(m) /\ IsFiniteSet(DOMAIN m) /\ \A t \in DOMAIN m : m[t] \in Nat
    BY DEF BalanceSound, NatTable
<1>3. DOMAIN taken = DOMAIN m /\ \A t \in DOMAIN m : taken[t] \in Nat /\ taken[t] =< m[t]
  <2>1. ASSUME NEW t \in DOMAIN m PROVE taken[t] \in Nat /\ taken[t] =< m[t]
    <3>1. IsFiniteSet(later(t))
      <4>1. later(t) \in SUBSET DOMAIN m
          OBVIOUS
      <4> QED BY <1>2, <4>1, FS_Subset
    <3>2. TotalOf(m, later(t)) \in Int
      <4>1. \A u \in later(t) : m[u] \in Int
          BY <1>2
      <4> HIDE DEF later
      <4> QED BY <3>1, <4>1, SumType, TotalIs
    <3> DEFINE left == Positive(rex1 - TotalOf(m, later(t)))
    <3>3. left \in Nat
      <4> HIDE DEF later
      <4> QED BY <3>2 DEF Positive
    <3>4. taken[t] = IF left < m[t] THEN left ELSE m[t]
        OBVIOUS
    <3> HIDE DEF left, taken
    <3> QED BY <1>2, <3>3, <3>4
  <2>2. DOMAIN taken = DOMAIN m
      OBVIOUS
  <2> HIDE DEF taken
  <2> QED BY <2>1, <2>2
<1> HIDE DEF taken
<1> DEFINE left == [t \in DOMAIN m |-> m[t] - taken[t]]
           T == SumFunctionOnSet(taken, DOMAIN m)
<1>4. /\ T \in Int /\ SumFunctionOnSet(left, DOMAIN m) \in Int
      /\ SumFunctionOnSet(m, DOMAIN m) = SumFunctionOnSet(taken, DOMAIN m) + SumFunctionOnSet(left, DOMAIN m)
  <2>1. \A t \in DOMAIN m : taken[t] \in Int /\ left[t] \in Int /\ m[t] = taken[t] + left[t]
      BY <1>2, <1>3
  <2> HIDE DEF left
  <2> QED BY <1>2, <2>1, SumPlus, SumType
<1>5. NatTable(new) /\ Total(new) = SumFunctionOnSet(left, DOMAIN m)
  <2>1. kept \in SUBSET DOMAIN m /\ IsFiniteSet(kept)
      BY <1>2, <1>3, FS_Subset
  <2>2. /\ \A t \in DOMAIN m : left[t] \in Int
        /\ \A t \in DOMAIN m \ kept : left[t] = 0
        /\ \A t \in kept : new[t] = left[t] /\ new[t] \in Nat
        /\ DOMAIN new = kept
      BY <1>2, <1>3
  <2> HIDE DEF left, new, kept
  <2>3. SumFunctionOnSet(left, DOMAIN m) = SumFunctionOnSet(left, kept)
      BY <1>2, <2>1, <2>2, SumExtends
  <2>4. SumFunctionOnSet(new, kept) = SumFunctionOnSet(left, kept)
      BY <2>1, <2>2, SumEqual
  <2>5. NatTable(new)
      BY <2>1, <2>2 DEF NatTable
  <2> QED BY <2>2, <2>3, <2>4, <2>5, TotalIs DEF Total
<1>6. rest = rex1 - T
    BY <1>3, TotalIs
<1> HIDE DEF left, new, kept, rest, c
<1>7. /\ DOMAIN c = BalanceFields /\ c.maturities = new /\ c.matured_rex = b.matured_rex - rest
      /\ c.savings = b.savings + rex1 /\ c.rex_balance = b.rex_balance /\ c.vote_stake \in Int
    BY <1>1 DEF BalanceSound, BalanceFields
<1>8. /\ b.matured_rex \in Nat /\ b.savings \in Nat
      /\ b.rex_balance = b.matured_rex + b.savings + SumFunctionOnSet(m, DOMAIN m)
    BY TotalIs DEF BalanceSound, HeldBy
<1>9. HeldBy(c) = c.rex_balance
  <2> DEFINE l == SumFunctionOnSet(left, DOMAIN m)
             s == SumFunctionOnSet(m, DOMAIN m)
  <2>1. HeldBy(c) = (b.matured_rex - rest) + (b.savings + rex1) + l
      BY <1>5, <1>7 DEF HeldBy, Total
  <2>2. l \in Int /\ T \in Int /\ s = T + l
      BY <1>4
  <2> HIDE DEF l, s, T
  <2> QED BY <1>6, <1>7, <1>8, <2>1, <2>2 DEF s
<1>10. c.matured_rex \in Int
    BY <1>4, <1>6, <1>7, <1>8
<1>11. order =< c.matured_rex
  <2>1. c.matured_rex < b.matured_rex => order =< c.matured_rex
      BY DEF c
  <2> QED BY <1>8, <1>10, <2>1
<1>12. c.matured_rex \in Nat /\ c.savings \in Nat
    BY <1>7, <1>8, <1>10, <1>11
<1> QED BY <1>5, <1>7, <1>9, <1>11, <1>12 DEF BalanceSound, c

\* What comes from savings matures again.
LEMMA BalanceUnsaved ==
    ASSUME NEW b, BalanceSound(b), NEW rex1 \in Nat, rex1 =< b.savings, NEW ct
    PROVE  LET c == FromSavings(b, rex1, ct)
           IN  BalanceSound(c) /\ c.rex_balance = b.rex_balance /\ c.matured_rex = b.matured_rex
<1> DEFINE a == AddMaturity(b, rex1, ct)
           c == FromSavings(b, rex1, ct)
<1>1. /\ DOMAIN a = BalanceFields /\ NatTable(a.maturities)
      /\ a.rex_balance = b.rex_balance /\ a.matured_rex = b.matured_rex /\ a.savings = b.savings
      /\ a.vote_stake = b.vote_stake
      /\ Total(b.maturities) \in Nat /\ Total(a.maturities) = Total(b.maturities) + rex1
    BY BalanceBucket DEF BalanceSound
<1>2. c = [a EXCEPT !.savings = @ - rex1]
    BY DEF FromSavings
<1> HIDE DEF a, c
<1>3. /\ DOMAIN c = BalanceFields /\ c.maturities = a.maturities /\ c.matured_rex = b.matured_rex
      /\ c.savings = b.savings - rex1 /\ c.rex_balance = b.rex_balance /\ c.vote_stake = b.vote_stake
    BY <1>1, <1>2 DEF BalanceFields
<1>4. /\ b.matured_rex \in Nat /\ b.savings \in Nat /\ b.vote_stake \in Int
      /\ b.rex_balance = b.matured_rex + b.savings + Total(b.maturities)
    BY DEF BalanceSound, HeldBy, Total
<1>5. HeldBy(c) = b.matured_rex + (b.savings - rex1) + (Total(b.maturities) + rex1)
    BY <1>1, <1>3 DEF HeldBy, Total
<1>6. HeldBy(c) = c.rex_balance /\ c.savings \in Nat
    BY <1>1, <1>3, <1>4, <1>5
<1> QED BY <1>1, <1>3, <1>4, <1>6 DEF BalanceSound, c

\* What is sold has matured.
LEMMA BalanceSold ==
    ASSUME NEW b, BalanceSound(b), NEW rex1 \in Nat, rex1 =< b.matured_rex, NEW stake \in Int
    PROVE  LET c == Sold(b, rex1, stake)
           IN  /\ BalanceSound(c) /\ c.rex_balance = b.rex_balance - rex1
               /\ c.matured_rex = b.matured_rex - rex1
<1> DEFINE c == Sold(b, rex1, stake)
<1>1. /\ DOMAIN c = BalanceFields /\ c.maturities = b.maturities /\ c.matured_rex = b.matured_rex - rex1
      /\ c.savings = b.savings /\ c.rex_balance = b.rex_balance - rex1 /\ c.vote_stake \in Int
    BY DEF Sold, BalanceSound, BalanceFields
<1> HIDE DEF c
<1>2. /\ b.matured_rex \in Nat /\ b.savings \in Nat /\ Total(b.maturities) \in Nat
      /\ b.rex_balance = b.matured_rex + b.savings + Total(b.maturities)
    BY NatTotal DEF BalanceSound, HeldBy, Total
<1>3. HeldBy(c) = (b.matured_rex - rex1) + b.savings + Total(b.maturities)
    BY <1>1 DEF HeldBy, Total
<1>4. HeldBy(c) = c.rex_balance /\ c.matured_rex \in Nat
    BY <1>1, <1>2, <1>3
<1> QED BY <1>1, <1>2, <1>4 DEF BalanceSound, c

-----------------------------------------------------------------------------
\* modify() puts a row that is there.
LEMMA ModifyPuts ==
    ASSUME NEW t, NEW key \in DOMAIN t, NEW row
    PROVE  [t EXCEPT ![key] = row] = Put(t, key, row)
BY DEF Put

\* What the tables but the returns hold.
Holdings(r) == Total(r.funds) + Sum(r.loans, "balance") + r.pool.total_lendable + Sum(r.orders, "proceeds")

\* Tables but the returns have changed.
LEMMA TablesChanged ==
    ASSUME NEW ct, Clock(ct), NEW r, Sound(r, ct), NEW d \in Int, NEW q,
           DOMAIN q = RexFields, PoolSound(q.pool), OwnersSound(q), LoansSound(q), OrdersSound(q),
           NatTable(q.funds), q.ret = r.ret, q.buckets = r.buckets,
           Holdings(q) = Holdings(r) + d
    PROVE  Sound(q, ct) /\ Assets(q) = Assets(r) + d /\ (Dearer(r.pool, q.pool) => Goes(r, q, d, ct))
<1>1. Sound(q, ct)
    BY DEF Sound, ReturnsSound
<1>2. Assets(q) = Assets(r) + d
  <2> DEFINE f == Total(r.funds)
             b == Sum(r.loans, "balance")
             o == Sum(r.orders, "proceeds")
             l == r.pool.total_lendable
             p == r.ret.proceeds
             g == Total(q.funds)
             c == Sum(q.loans, "balance")
             u == Sum(q.orders, "proceeds")
             m == q.pool.total_lendable
  <2>1. f \in Nat /\ b \in Nat /\ o \in Nat /\ l \in Nat /\ p \in Nat
      BY SoundSums
  <2>2. g \in Nat /\ c \in Nat /\ u \in Nat /\ m \in Nat
      BY <1>1, SoundSums
  <2>3. Assets(r) = f + b + l + p + o /\ Assets(q) = g + c + m + p + u
      BY DEF Assets
  <2>4. g + c + m + u = f + b + l + o + d
      BY DEF Holdings
  <2> HIDE DEF f, b, o, l, p, g, c, u, m
  <2>5. g + c + m + p + u = f + b + l + p + o + d
      BY <2>1, <2>2, <2>4
  <2> QED BY <2>3, <2>5
<1> QED BY <1>1, <1>2 DEF Goes

\* Holdings are an integer.
LEMMA HoldingsType ==
    ASSUME NEW r, NEW ct, Sound(r, ct), Clock(ct)
    PROVE  Holdings(r) \in Int
BY SoundSums DEF Holdings

\* The pool is no cheaper than itself.
LEMMA SameIsDearer ==
    ASSUME NEW p, PoolSound(p)
    PROVE  Dearer(p, p)
<1>1. p.total_lendable >= p.total_lendable
    BY DEF PoolSound
<1> QED BY <1>1, MoreIsDearer

\* Another table of funds.
LEMMA FundsChanged ==
    ASSUME NEW ct, Clock(ct), NEW r, Sound(r, ct), NEW d \in Int, NEW t, NatTable(t),
           Total(t) = Total(r.funds) + d
    PROVE  LET q == [r EXCEPT !.funds = t] IN Goes(r, q, d, ct) /\ Still(r, q)
<1> DEFINE q == [r EXCEPT !.funds = t]
<1>1. /\ DOMAIN q = RexFields /\ q.pool = r.pool /\ q.ret = r.ret /\ q.buckets = r.buckets
      /\ q.funds = t /\ q.balances = r.balances /\ q.loans = r.loans /\ q.orders = r.orders
    BY DEF Sound, RexFields
<1> HIDE DEF q
<1>2. /\ PoolSound(q.pool) /\ OwnersSound(q) /\ LoansSound(q) /\ OrdersSound(q) /\ Dearer(r.pool, q.pool)
    BY <1>1, SameIsDearer DEF Sound, OwnersSound, LoansSound, OrdersSound
<1>3. Holdings(q) = Holdings(r) + d
  <2> DEFINE f == Total(r.funds)
             b == Sum(r.loans, "balance")
             o == Sum(r.orders, "proceeds")
             l == r.pool.total_lendable
             g == Total(t)
  <2>1. f \in Nat /\ b \in Nat /\ o \in Nat /\ l \in Nat
      BY SoundSums
  <2>2. g = f + d
      OBVIOUS
  <2>3. Holdings(q) = g + b + l + o /\ Holdings(r) = f + b + l + o
      BY <1>1 DEF Holdings
  <2> HIDE DEF f, b, o, l, g
  <2> QED BY <2>1, <2>2, <2>3
<1>4. Goes(r, q, d, ct)
    BY <1>1, <1>2, <1>3, TablesChanged
<1>5. Still(r, q)
    BY <1>1 DEF Still, OpenOrders, Covered
<1> QED BY <1>4, <1>5 DEF q

\* transfer_from_fund, transfer_to_fund and what collects with it.
LEMMA FundGoes ==
    ASSUME NEW ct, Clock(ct), NEW r, Sound(r, ct), NEW x, NEW amount \in Nat
    PROVE  /\ CanTransferFromFund(r, x, amount) =>
                  LET q == transfer_from_fund(r, x, amount) IN Goes(r, q, - amount, ct) /\ Still(r, q)
           /\ LET q == transfer_to_fund(r, x, amount) IN Goes(r, q, amount, ct) /\ Still(r, q)
           /\ LET q == CollectInFund(r, x, amount) IN Goes(r, q, amount, ct) /\ Still(r, q)
<1>0. NatTable(r.funds) /\ IntTable(r.funds) /\ Total(r.funds) \in Nat
    BY SoundSums DEF Sound
<1>1. ASSUME NEW v \in Nat PROVE NatTable(Put(r.funds, x, v))
  <2>1. IsFiniteSet(DOMAIN r.funds \cup {x})
      BY <1>0, FS_AddElement DEF NatTable
  <2> QED BY <1>0, <2>1 DEF NatTable, Put
<1>2. ASSUME CanTransferFromFund(r, x, amount)
      PROVE  LET q == transfer_from_fund(r, x, amount) IN Goes(r, q, - amount, ct) /\ Still(r, q)
  <2> DEFINE v == r.funds[x] - amount
             t == [r.funds EXCEPT ![x] = v]
  <2>1. v \in Nat /\ At(r.funds, x) = v + amount /\ x \in DOMAIN r.funds
      BY <1>0, <1>2 DEF CanTransferFromFund, NatTable, At
  <2> HIDE DEF v
  <2>2. t = Put(r.funds, x, v)
      BY <2>1, ModifyPuts
  <2> HIDE DEF t
  <2>3. NatTable(t) /\ Total(t) = Total(r.funds) + (- amount)
    <3>1. Total(t) = Total(r.funds) - (v + amount) + v
        BY <1>0, <2>1, <2>2, TotalPut
    <3> QED BY <1>0, <1>1, <2>1, <2>2, <3>1
  <2>4. transfer_from_fund(r, x, amount) = [r EXCEPT !.funds = t]
      BY DEF transfer_from_fund, t, v
  <2>5. - amount \in Int
      OBVIOUS
  <2> QED BY <2>3, <2>4, <2>5, FundsChanged
<1>3. LET q == transfer_to_fund(r, x, amount) IN Goes(r, q, amount, ct) /\ Still(r, q)
  <2> DEFINE v == amount + (IF x \in DOMAIN r.funds THEN r.funds[x] ELSE 0)
             t == Put(r.funds, x, v)
  <2>1. v \in Nat /\ v = At(r.funds, x) + amount /\ At(r.funds, x) \in Nat
      BY <1>0 DEF NatTable, At
  <2>2. transfer_to_fund(r, x, amount) = [r EXCEPT !.funds = t]
      BY DEF transfer_to_fund
  <2> HIDE DEF v
  <2>3. NatTable(t) /\ Total(t) = Total(r.funds) + amount
    <3>1. Total(t) = Total(r.funds) - At(r.funds, x) + v
        BY <1>0, <2>1, TotalPut
    <3> QED BY <1>0, <1>1, <2>1, <3>1
  <2> HIDE DEF t
  <2> QED BY <2>2, <2>3, FundsChanged
<1>4. LET q == CollectInFund(r, x, amount) IN Goes(r, q, amount, ct) /\ Still(r, q)
  <2>1. CASE amount > 0
      BY <1>3, <2>1, Zenon DEF CollectInFund
  <2>2. CASE amount = 0
    <3>1. ~ amount > 0
        BY <2>2
    <3>2. CollectInFund(r, x, amount) = r
        BY <3>1, Zenon DEF CollectInFund
    <3> QED BY <2>2, <3>2, GoesReflexive
  <2> QED BY <2>1, <2>2
<1> QED BY <1>2, <1>3, <1>4

\* The balance of an owner, new or not.
LEMMA OwnersPut ==
    ASSUME NEW r, OwnersSound(r), NEW x, NEW b, BalanceSound(b), NEW q, q.balances = Put(r.balances, x, b),
           q.pool.total_rex = r.pool.total_rex - FieldAt(r.balances, x, "rex_balance") + b.rex_balance
    PROVE  OwnersSound(q)
<1>1. IsFiniteSet(DOMAIN r.balances \cup {x})
    BY FS_AddElement DEF OwnersSound
<1>2. IsFiniteSet(DOMAIN q.balances) /\ \A y \in DOMAIN q.balances : BalanceSound(q.balances[y])
    BY <1>1 DEF OwnersSound, Put
<1>3. \A c : BalanceSound(c) => c.rex_balance \in Nat
  <2> SUFFICES ASSUME NEW c, BalanceSound(c) PROVE c.rex_balance \in Nat
      OBVIOUS
  <2>1. Total(c.maturities) \in Nat
      BY NatTotal DEF BalanceSound
  <2> QED BY <2>1 DEF BalanceSound, HeldBy, Total
<1>4. IntField(r.balances, "rex_balance")
    BY <1>3 DEF IntField, OwnersSound
<1>5. Sum(q.balances, "rex_balance") = Sum(r.balances, "rex_balance") - FieldAt(r.balances, x, "rex_balance") + b.rex_balance
    BY <1>3, <1>4, FieldPut
<1> QED BY <1>2, <1>5 DEF OwnersSound

\* The balance of an owner that has as much REX as before.
LEMMA BalanceGoes ==
    ASSUME NEW ct, Clock(ct), NEW r, Sound(r, ct), NEW x \in DOMAIN r.balances, NEW b, BalanceSound(b),
           b.rex_balance = r.balances[x].rex_balance
    PROVE  LET q == [r EXCEPT !.balances[x] = b]
           IN  /\ Goes(r, q, 0, ct) /\ q.orders = r.orders
               /\ q.balances[x] = b /\ DOMAIN q.balances = DOMAIN r.balances /\ q.pool = r.pool
               /\ \A y \in DOMAIN r.balances \ {x} : q.balances[y] = r.balances[y]
               /\ (x \in OpenOrders(r) => r.orders[x].rex_requested =< b.matured_rex) => Still(r, q)
<1> DEFINE t == [r.balances EXCEPT ![x] = b]
           q == [r EXCEPT !.balances = t]
<1>0. q = [r EXCEPT !.balances[x] = b]
    OBVIOUS
<1>1. /\ DOMAIN q = RexFields /\ q.pool = r.pool /\ q.ret = r.ret /\ q.buckets = r.buckets
      /\ q.funds = r.funds /\ q.balances = t /\ q.loans = r.loans /\ q.orders = r.orders
    BY DEF Sound, RexFields
<1>2. /\ t = Put(r.balances, x, b) /\ t[x] = b /\ DOMAIN t = DOMAIN r.balances
      /\ \A y \in DOMAIN r.balances \ {x} : t[y] = r.balances[y]
    BY ModifyPuts
<1> HIDE DEF q, t
<1>3. q.pool.total_rex = r.pool.total_rex - FieldAt(r.balances, x, "rex_balance") + b.rex_balance
  <2>1. FieldAt(r.balances, x, "rex_balance") = b.rex_balance
      BY DEF FieldAt
  <2>2. b.rex_balance \in Nat
    <3>1. Total(b.maturities) \in Nat
        BY NatTotal DEF BalanceSound
    <3> QED BY <3>1 DEF BalanceSound, HeldBy, Total
  <2>3. r.pool.total_rex \in Nat
      BY DEF Sound, PoolSound
  <2> QED BY <1>1, <2>1, <2>2, <2>3
<1>4. OwnersSound(q)
    BY <1>1, <1>2, <1>3, OwnersPut DEF Sound
<1>5. /\ PoolSound(q.pool) /\ LoansSound(q) /\ OrdersSound(q) /\ NatTable(q.funds) /\ Dearer(r.pool, q.pool)
    BY <1>1, SameIsDearer DEF Sound, LoansSound, OrdersSound
<1>6. Holdings(q) = Holdings(r) + 0
  <2>1. Holdings(q) = Holdings(r)
      BY <1>1 DEF Holdings
  <2> QED BY <2>1, HoldingsType
<1>7. Goes(r, q, 0, ct)
    BY <1>1, <1>4, <1>5, <1>6, TablesChanged
<1>8. (x \in OpenOrders(r) => r.orders[x].rex_requested =< b.matured_rex) => Still(r, q)
    BY <1>1, <1>2 DEF Still, OpenOrders, Covered
<1> QED BY <1>0, <1>1, <1>2, <1>7, <1>8

-----------------------------------------------------------------------------
\* Shares bought and sold.
\*
\* The pool after a purchase.
LEMMA PoolBought ==
    ASSUME NEW p, PoolSound(p), NEW payment \in Nat \ {0},
           p.exists /\ p.total_rex > 0 => p.total_lendable > 0
    PROVE  LET q == add_to_rex_pool(p, payment)
           IN  /\ PoolSound(q) /\ q.total_rex > 0 /\ q.total_rex >= p.total_rex
               /\ q.total_lent = p.total_lent /\ q.loan_num = p.loan_num
               /\ p.total_rex > 0 => q.total_lendable = p.total_lendable + payment /\ Dearer(p, q)
               /\ p.total_rex = 0 => q.total_lendable = payment
<1> DEFINE S0 == p.total_lendable
           R0 == p.total_rex
           S1 == S0 + payment
           R1 == (S1 * R0) \div S0
           q  == add_to_rex_pool(p, payment)
<1>1. S0 \in Nat /\ R0 \in Nat /\ DOMAIN p = PoolFields /\ p.total_lent \in Nat
    BY DEF PoolSound
<1>2. CASE R0 > 0
  <2>1. S0 \in Nat \ {0} /\ p.exists
      BY <1>1, <1>2 DEF PoolSound
  <2>2. q = [p EXCEPT !.total_lendable = S1, !.total_rex = R1, !.total_unlent = S1 - p.total_lent]
      BY <1>2, <2>1 DEF add_to_rex_pool
  <2>3. /\ DOMAIN q = PoolFields /\ q.exists = p.exists /\ q.total_lendable = S1 /\ q.total_rex = R1
        /\ q.total_unlent = S1 - p.total_lent /\ q.total_lent = p.total_lent
        /\ q.total_rent = p.total_rent /\ q.loan_num = p.loan_num /\ q.namebid_proceeds = p.namebid_proceeds
      BY <1>1, <2>2 DEF PoolFields
  <2>4. S1 * R0 \in Nat /\ S0 * R0 \in Nat /\ S1 * R0 >= R0 * S0 /\ S0 * R0 = R0 * S0
    <3> HIDE DEF S0, R0
    <3>1. payment * R0 \in Nat /\ S1 * R0 = S0 * R0 + payment * R0 /\ S0 * R0 = R0 * S0 /\ S0 * R0 \in Nat
        BY <1>1
    <3> QED BY <3>1
  <2>5. R1 \in Nat /\ R1 * S0 =< S1 * R0 /\ R1 >= R0
    <3> DEFINE n == S1 * R0
    <3>1. n \in Nat /\ R0 * S0 =< n
        BY <2>4
    <3> HIDE DEF S0, R0, n
    <3>2. n \div S0 \in Nat /\ (n \div S0) * S0 =< n /\ R0 =< n \div S0
        BY <1>1, <2>1, <3>1, Quotient
    <3> QED BY <3>2 DEF n
  <2>6. p.total_lent =< S0
      BY DEF PoolSound
  <2>7. PoolSound(q)
    <3> HIDE DEF q, R1
    <3> QED BY <1>1, <1>2, <2>1, <2>3, <2>5, <2>6 DEF PoolSound
  <2>8. q.total_lendable * p.total_rex >= p.total_lendable * q.total_rex
    <3> HIDE DEF q
    <3>1. q.total_lendable * p.total_rex = S1 * R0 /\ p.total_lendable * q.total_rex = S0 * R1
        BY <2>3
    <3> HIDE DEF R1, S1, S0, R0
    <3>2. S0 * R1 = R1 * S0
        BY <1>1, <2>5
    <3>3. S1 * R0 \in Nat /\ R1 * S0 \in Nat
        BY <1>1, <2>4, <2>5
    <3> QED BY <2>5, <3>1, <3>2, <3>3
  <2>9. Dearer(p, q)
      BY <1>2, <2>8 DEF Dearer
  <2>10. q.total_rex > 0 /\ q.total_rex >= R0
    <3> HIDE DEF q, R1, R0
    <3> QED BY <1>1, <1>2, <2>3, <2>5
  <2> QED BY <1>2, <2>3, <2>7, <2>9, <2>10
<1>3. CASE R0 = 0
  <2>1. ~ (p.exists /\ p.total_rex > 0)
      BY <1>3
  <2>2. q = [p EXCEPT !.exists = TRUE, !.total_lendable = payment, !.total_lent = 0,
                      !.total_unlent = payment, !.total_rent = InitTotalRent,
                      !.total_rex = payment * RexRatio]
      BY <2>1, Zenon DEF add_to_rex_pool
  <2>3. /\ DOMAIN q = PoolFields /\ q.exists = TRUE /\ q.total_lendable = payment
        /\ q.total_rex = payment * RexRatio /\ q.total_unlent = payment /\ q.total_lent = 0
        /\ q.total_rent = InitTotalRent /\ q.loan_num = p.loan_num
        /\ q.namebid_proceeds = p.namebid_proceeds
      BY <1>1, <2>2 DEF PoolFields
  <2>4. payment * RexRatio \in Nat \ {0} /\ InitTotalRent \in Nat
    <3>1. RexRatio \in Nat \ {0} /\ InitTotalRent \in Nat
        BY RexAssumption
    <3> QED BY <3>1
  <2>5. p.total_lent = 0 /\ p.loan_num \in Nat /\ p.namebid_proceeds \in Int
      BY <1>3 DEF PoolSound
  <2> DEFINE R == payment * RexRatio
  <2>6. q.total_rex = R /\ R \in Nat \ {0}
      BY <2>3, <2>4
  <2> HIDE DEF q, R, R0
  <2>7. PoolSound(q)
    <3>1. q.exists \in BOOLEAN /\ (q.total_rex > 0 => q.exists)
        BY <2>3
    <3>2. q.total_lent \in Nat /\ q.total_unlent \in Nat /\ q.total_rent \in Nat /\ q.total_rex \in Nat
        BY <2>3, <2>4, <2>6
    <3>3. q.total_lendable = q.total_unlent + q.total_lent /\ q.loan_num \in Nat /\ q.namebid_proceeds \in Int
        BY <2>3, <2>5
    <3> QED BY <2>3, <3>1, <3>2, <3>3 DEF PoolSound
  <2>8. q.total_rex > 0 /\ q.total_rex >= R0
      BY <1>3, <2>6
  <2> QED BY <1>3, <2>3, <2>5, <2>7, <2>8 DEF q, R0
<1> QED BY <1>1, <1>2, <1>3

\* A purchase.
LEMMA BoughtGoes ==
    ASSUME NEW ct, Clock(ct), NEW r, Sound(r, ct), NEW x, NEW payment \in Nat \ {0}, CanAddToPool(r)
    PROVE  LET q    == Bought(r, x, payment, ct)
               lost == IF r.pool.total_rex > 0 THEN 0 ELSE r.pool.total_lendable
           IN  /\ Sound(q, ct) /\ Assets(q) = Assets(r) + (payment - lost)
               /\ q.pool.total_rex > 0 /\ q.orders = r.orders
               /\ r.pool.total_rex > 0 => Dearer(r.pool, q.pool)
               /\ Covered(r) => Covered(q)
<1> DEFINE p     == add_to_rex_pool(r.pool, payment)
           rex1  == p.total_rex - r.pool.total_rex
           old   == IF x \in DOMAIN r.balances THEN r.balances[x] ELSE NewBalance
           total == old.rex_balance + rex1
           worth == IF x \in DOMAIN r.balances THEN WorthOf(p, total) ELSE payment
           first == [old EXCEPT !.rex_balance = total, !.vote_stake = worth]
           due   == process_rex_maturities(first, ct)
           b     == AddMaturity(due, rex1, ct)
           q     == Bought(r, x, payment, ct)
           lost  == IF r.pool.total_rex > 0 THEN 0 ELSE r.pool.total_lendable
<1>1. DOMAIN r = RexFields /\ PoolSound(r.pool) /\ r.pool.total_rex \in Nat /\ r.pool.total_lendable \in Nat
    BY SoundSums DEF Sound, PoolSound
<1>2. r.pool.exists /\ r.pool.total_rex > 0 => r.pool.total_lendable > 0
    BY DEF CanAddToPool, rex_available
<1>3. /\ PoolSound(p) /\ p.total_rex > 0 /\ p.total_rex >= r.pool.total_rex
      /\ p.total_lent = r.pool.total_lent /\ p.loan_num = r.pool.loan_num
      /\ r.pool.total_rex > 0 => p.total_lendable = r.pool.total_lendable + payment /\ Dearer(r.pool, p)
      /\ r.pool.total_rex = 0 => p.total_lendable = payment
    BY <1>1, <1>2, PoolBought
<1>4. q = [r EXCEPT !.pool = p, !.balances = Put(r.balances, x, b)]
  <2>1. q = add_to_rex_balance([r EXCEPT !.pool = p], x, payment, rex1, ct)
      BY Zenon DEF Bought, BoughtFrom
  <2>2. LET s == [r EXCEPT !.pool = p] IN s.balances = r.balances /\ s.pool = p
      BY <1>1 DEF RexFields
  <2> HIDE DEF p
  <2> QED BY <2>1, <2>2, <1>1 DEF add_to_rex_balance, RexFields
<1> HIDE DEF p
<1>5. rex1 \in Nat /\ p.total_rex \in Nat
    BY <1>1, <1>3 DEF PoolSound
<1>6. BalanceSound(old) /\ old.rex_balance = FieldAt(r.balances, x, "rex_balance")
  <2>1. CASE x \in DOMAIN r.balances
      BY <2>1 DEF Sound, OwnersSound, FieldAt
  <2>2. CASE x \notin DOMAIN r.balances
    <3>1. old = NewBalance
        BY <2>2
    <3>2. DOMAIN EmptyTable = {}
        BY DEF EmptyTable
    <3>3. NatTable(EmptyTable) /\ TotalOf(EmptyTable, DOMAIN EmptyTable) = 0
        BY <3>2, FS_EmptySet, TotalEmpty DEF NatTable
    <3>4. BalanceSound(NewBalance) /\ NewBalance.rex_balance = 0
        BY <3>3 DEF BalanceSound, NewBalance, BalanceFields, HeldBy
    <3> QED BY <2>2, <3>1, <3>4 DEF FieldAt
  <2> QED BY <2>1, <2>2
<1>w. worth \in Int
  <2>1. old.rex_balance \in Int
      BY <1>6, NatTotal DEF BalanceSound, HeldBy, Total
  <2>2. total \in Int /\ p.total_rex \in Nat \ {0} /\ p.total_lendable \in Int
      BY <1>1, <1>3, <1>5, <2>1 DEF PoolSound
  <2>3. WorthOf(p, total) \in Int
      BY <2>2, WorthType
  <2> QED BY <2>3
<1> HIDE DEF old, worth, rex1
<1>7. /\ BalanceShaped(first) /\ first.rex_balance = total /\ HeldBy(first) = HeldBy(old)
      /\ first.matured_rex = old.matured_rex
    BY <1>6, <1>w DEF BalanceSound, BalanceShaped, BalanceFields, HeldBy
<1> HIDE DEF first
<1>8. /\ BalanceShaped(due) /\ due.rex_balance = total /\ due.matured_rex >= old.matured_rex
      /\ HeldBy(due) = HeldBy(old)
    BY <1>7, RexMatures
<1> HIDE DEF due
<1>9. BalanceSound(b) /\ b.rex_balance = old.rex_balance + rex1 /\ b.matured_rex >= old.matured_rex
  <2>1. /\ DOMAIN b = BalanceFields /\ NatTable(b.maturities)
        /\ b.rex_balance = due.rex_balance /\ b.matured_rex = due.matured_rex /\ b.savings = due.savings
        /\ b.vote_stake = due.vote_stake
        /\ Total(due.maturities) \in Nat /\ Total(b.maturities) = Total(due.maturities) + rex1
      BY <1>5, <1>8, BalanceBucket DEF BalanceShaped
  <2> HIDE DEF b
  <2>2. due.matured_rex \in Nat /\ due.savings \in Nat /\ due.vote_stake \in Int
      BY <1>8 DEF BalanceShaped
  <2>3. HeldBy(b) = HeldBy(due) + rex1
    <3>1. HeldBy(b) = b.matured_rex + b.savings + Total(b.maturities)
          /\ HeldBy(due) = due.matured_rex + due.savings + Total(due.maturities)
        BY DEF HeldBy, Total
    <3> QED BY <1>5, <2>1, <2>2, <3>1
  <2>4. b.rex_balance = HeldBy(b)
      BY <1>6, <1>8, <2>1, <2>3 DEF BalanceSound
  <2> QED BY <1>8, <2>1, <2>2, <2>4 DEF BalanceSound
<1>10. /\ DOMAIN q = RexFields /\ q.pool = p /\ q.ret = r.ret /\ q.buckets = r.buckets
       /\ q.funds = r.funds /\ q.balances = Put(r.balances, x, b) /\ q.loans = r.loans /\ q.orders = r.orders
    BY <1>1, <1>4 DEF RexFields
<1> HIDE DEF q, b
<1>11. OwnersSound(q)
  <2>1. old.rex_balance \in Nat
    <3>1. Total(old.maturities) \in Nat
        BY <1>6, NatTotal DEF BalanceSound
    <3> QED BY <1>6, <3>1 DEF BalanceSound, HeldBy, Total
  <2>2. q.pool.total_rex = r.pool.total_rex - FieldAt(r.balances, x, "rex_balance") + b.rex_balance
      BY <1>1, <1>5, <1>6, <1>9, <1>10, <2>1 DEF rex1
  <2> QED BY <1>9, <1>10, <2>2, OwnersPut DEF Sound
<1>12. LoansSound(q) /\ OrdersSound(q) /\ NatTable(q.funds) /\ PoolSound(q.pool)
    BY <1>3, <1>10 DEF Sound, LoansSound, OrdersSound
<1>13. payment - lost \in Int /\ p.total_lendable = r.pool.total_lendable + (payment - lost)
    BY <1>1, <1>3
<1>14. Holdings(q) = Holdings(r) + (payment - lost)
  <2> DEFINE f == Total(r.funds)
             l == Sum(r.loans, "balance")
             o == Sum(r.orders, "proceeds")
             v == r.pool.total_lendable
             d == payment - lost
  <2>1. f \in Nat /\ l \in Nat /\ o \in Nat /\ v \in Nat
      BY SoundSums
  <2>2. Holdings(q) = f + l + p.total_lendable + o /\ Holdings(r) = f + l + v + o
      BY <1>10 DEF Holdings
  <2> HIDE DEF f, l, o, v, lost
  <2> QED BY <1>13, <2>1, <2>2 DEF v
<1>15. Sound(q, ct) /\ Assets(q) = Assets(r) + (payment - lost)
    BY <1>10, <1>11, <1>12, <1>13, <1>14, TablesChanged
<1>16. Covered(r) => Covered(q)
  <2>1. ASSUME Covered(r), NEW y \in OpenOrders(q)
        PROVE  y \in DOMAIN q.balances /\ q.orders[y].rex_requested =< q.balances[y].matured_rex
    <3>1. y \in DOMAIN r.balances /\ q.orders[y].rex_requested =< r.balances[y].matured_rex
        BY <1>10, <2>1 DEF Covered, OpenOrders
    <3>2. CASE y # x
        BY <1>10, <3>1, <3>2 DEF Put
    <3>3. CASE y = x
      <4>1. q.balances[x] = b /\ x \in DOMAIN q.balances
          BY <1>10 DEF Put
      <4>2. old = r.balances[x]
          BY <3>1, <3>3 DEF old
      <4>3. q.orders[y].rex_requested \in Int /\ old.matured_rex \in Nat /\ b.matured_rex \in Nat
          BY <1>6, <1>9, <1>10, <2>1 DEF Sound, OrdersSound, OrderSound, OpenOrders, BalanceSound
      <4> QED BY <1>9, <3>1, <3>3, <4>1, <4>2, <4>3
    <3> QED BY <3>2, <3>3
  <2> QED BY <2>1 DEF Covered
<1> QED BY <1>3, <1>10, <1>15, <1>16 DEF q, lost

\* The pool after a sale.
LEMMA PoolRedeemed ==
    ASSUME NEW p, PoolSound(p), NEW amount \in Nat \ {0}, amount =< p.total_rex, CanFill(p, amount)
    PROVE  LET paid == ProceedsOf(p, amount)
               q    == Redeemed(p, amount, p.total_lendable - paid)
           IN  /\ PoolSound(q) /\ Dearer(p, q) /\ paid \in Nat
               /\ q.total_lendable = p.total_lendable - paid /\ q.total_rex = p.total_rex - amount
               /\ q.total_lent = p.total_lent /\ q.loan_num = p.loan_num
<1> DEFINE S    == p.total_lendable
           R    == p.total_rex
           paid == ProceedsOf(p, amount)
           q    == Redeemed(p, amount, S - paid)
           n    == amount * S
<1>1. /\ S \in Nat /\ R \in Nat \ {0} /\ p.total_lent \in Nat /\ p.total_unlent \in Nat
      /\ S = p.total_unlent + p.total_lent /\ DOMAIN p = PoolFields
    BY DEF PoolSound
<1>2. paid = n \div R
    BY DEF ProceedsOf, WorthOf
<1>3. n \in Nat
    BY <1>1
<1>4. paid \in Nat /\ paid * R =< n
  <2> HIDE DEF S, R, n, paid
  <2> QED BY <1>1, <1>2, <1>3, Quotient
<1>5. /\ paid =< p.total_unlent /\ paid =< S
      /\ paid = S => p.total_lent = 0
  <2> DEFINE tenth == p.total_lent \div 10
  <2>1. paid =< p.total_unlent - tenth /\ tenth \in Nat
      BY <1>1 DEF CanFill
  <2>2. paid \in Nat
      BY <1>4
  <2> HIDE DEF tenth, paid, S
  <2> QED BY <1>1, <2>1, <2>2
<1>6. amount = R => paid = S
  <2>1. ASSUME amount = R PROVE paid = S
    <3>1. S * R = n
      <4> HIDE DEF S, R
      <4> QED BY <1>1, <2>1
    <3>2. S =< paid
      <4> HIDE DEF S, R, n, paid
      <4>1. S * R =< n
          BY <1>3, <3>1
      <4> QED BY <1>1, <1>2, <1>3, <4>1, Quotient
    <3>3. S \in Nat /\ paid \in Nat /\ paid =< S
        BY <1>1, <1>4, <1>5
    <3> HIDE DEF paid, n, S, R
    <3> QED BY <3>2, <3>3
  <2> QED BY <2>1
<1>7. /\ DOMAIN q = PoolFields /\ q.exists = p.exists /\ q.total_lendable = S - paid /\ q.total_rex = R - amount
      /\ q.total_unlent = S - paid - p.total_lent /\ q.total_lent = p.total_lent
      /\ q.total_rent = p.total_rent /\ q.loan_num = p.loan_num /\ q.namebid_proceeds = p.namebid_proceeds
    BY <1>1 DEF Redeemed, PoolFields
<1>8. PoolSound(q)
  <2>1. R \in Nat /\ amount =< R /\ p.exists /\ p.exists \in BOOLEAN /\ p.total_rent \in Nat
        /\ p.loan_num \in Nat /\ p.namebid_proceeds \in Int
      BY <1>1 DEF PoolSound
  <2> HIDE DEF q, paid, n, S, R
  <2>2. q.total_rex \in Nat /\ q.total_unlent \in Nat /\ q.total_lendable = q.total_unlent + q.total_lent
      BY <1>1, <1>4, <1>5, <1>7, <2>1
  <2>3. q.total_rex = 0 => q.total_lent = 0
    <3>1. ASSUME q.total_rex = 0 PROVE q.total_lent = 0
      <4>1. paid = S
          BY <1>1, <1>6, <1>7, <2>1, <3>1
      <4>2. p.total_lent = 0
          BY <1>5, <4>1
      <4> QED BY <1>7, <4>2
    <3> QED BY <3>1
  <2> QED BY <1>1, <1>7, <2>1, <2>2, <2>3 DEF PoolSound
<1>9. Dearer(p, q)
  <2>1. (S - paid) * R >= S * (R - amount)
    <3> HIDE DEF paid, S, R
    <3>1. (S - paid) * R = S * R - paid * R /\ S * (R - amount) = S * R - amount * S
          /\ S * R \in Nat /\ paid * R \in Nat /\ amount * S \in Nat
        BY <1>1, <1>4
    <3> QED BY <1>4, <3>1 DEF n
  <2>2. q.total_lendable * p.total_rex >= p.total_lendable * q.total_rex
    <3> HIDE DEF q
    <3> QED BY <1>7, <2>1
  <2>3. p.total_rex > 0
    <3> HIDE DEF q, paid, n
    <3> QED BY <1>1
  <2> QED BY <2>2, <2>3 DEF Dearer
<1> HIDE DEF paid, n
<1> QED BY <1>4, <1>7, <1>8, <1>9 DEF paid, S, R

\* The owner of a balance owns no more REX than there is.
LEMMA OwnsNoMore ==
    ASSUME NEW r, OwnersSound(r), NEW x \in DOMAIN r.balances
    PROVE  /\ r.balances[x].rex_balance \in Nat /\ r.balances[x].rex_balance =< r.pool.total_rex
           /\ r.balances[x].matured_rex \in Nat
           /\ r.balances[x].matured_rex =< r.balances[x].rex_balance
<1>1. ASSUME NEW y \in DOMAIN r.balances
      PROVE  /\ r.balances[y].rex_balance \in Nat /\ r.balances[y].matured_rex \in Nat
             /\ r.balances[y].matured_rex =< r.balances[y].rex_balance
  <2> DEFINE b == r.balances[y]
  <2>1. BalanceSound(b)
      BY <1>1 DEF OwnersSound
  <2> HIDE DEF b
  <2>2. Total(b.maturities) \in Nat /\ b.matured_rex \in Nat /\ b.savings \in Nat
        /\ b.rex_balance = b.matured_rex + b.savings + Total(b.maturities)
      BY <2>1, NatTotal DEF BalanceSound, HeldBy, Total
  <2>3. b.rex_balance \in Nat /\ b.matured_rex \in Nat /\ b.matured_rex =< b.rex_balance
      BY <2>2
  <2> QED BY <2>3 DEF b
<1>2. r.balances[x].rex_balance =< Sum(r.balances, "rex_balance")
  <2>1. IsFiniteSet(DOMAIN r.balances) /\ \A y \in DOMAIN r.balances : r.balances[y]["rex_balance"] \in Nat
      BY <1>1 DEF OwnersSound
  <2> QED BY <2>1, NatSum
<1> QED BY <1>1, <1>2 DEF OwnersSound

\* An order of x on amount that is filled, or not.
LEMMA FillGoes ==
    ASSUME NEW ct, Clock(ct), NEW r, Sound(r, ct), NEW x \in DOMAIN r.balances,
           NEW amount \in Nat \ {0}, amount =< r.balances[x].matured_rex
    PROVE  LET outcome == fill_rex_order(r, x, amount)
               q       == outcome.rex
           IN  /\ outcome.proceeds \in Nat /\ outcome.stake_change \in Int
               /\ ~ outcome.success => q = r /\ outcome.proceeds = 0
               /\ Goes(r, q, 0 - outcome.proceeds, ct) /\ q.orders = r.orders
               /\ DOMAIN q.balances = DOMAIN r.balances
               /\ \A y \in DOMAIN r.balances \ {x} : q.balances[y] = r.balances[y]
<1> DEFINE outcome == fill_rex_order(r, x, amount)
           paid    == ProceedsOf(r.pool, amount)
           b       == r.balances[x]
           stake   == WorthOf(r.pool, b.rex_balance) - paid
           p       == Redeemed(r.pool, amount, r.pool.total_lendable - paid)
           c       == Sold(b, amount, stake)
           q       == [r EXCEPT !.pool = p, !.balances[x] = c]
<1>1. CASE ~ CanFill(r.pool, amount)
  <2>1. outcome.success = FALSE /\ outcome.proceeds = 0 /\ outcome.rex = r /\ outcome.stake_change = 0
      BY <1>1 DEF fill_rex_order
  <2> HIDE DEF outcome
  <2>2. Goes(r, r, 0, ct)
      BY GoesReflexive
  <2>3. 0 - outcome.proceeds = 0
      BY <2>1
  <2>4. Goes(r, outcome.rex, 0 - outcome.proceeds, ct)
      BY <2>1, <2>2, <2>3, Zenon
  <2>5. outcome.proceeds \in Nat /\ outcome.rex.orders = r.orders /\ outcome.stake_change \in Int
      BY <2>1
  <2> QED BY <2>1, <2>4, <2>5 DEF outcome
<1>2. CASE CanFill(r.pool, amount)
  <2>1. outcome.success = TRUE /\ outcome.proceeds = paid /\ outcome.rex = q
        /\ outcome.stake_change = stake - b.vote_stake
      BY <1>2 DEF fill_rex_order
  <2> HIDE DEF outcome
  <2>2. PoolSound(r.pool) /\ OwnersSound(r) /\ DOMAIN r = RexFields /\ BalanceSound(b)
      BY DEF Sound, OwnersSound
  <2>3. amount =< r.pool.total_rex
    <3>1. r.pool.total_rex \in Nat
        BY <2>2 DEF PoolSound
    <3> QED BY <2>2, <3>1, OwnsNoMore
  <2>4. /\ PoolSound(p) /\ Dearer(r.pool, p) /\ paid \in Nat
        /\ p.total_lendable = r.pool.total_lendable - paid /\ p.total_rex = r.pool.total_rex - amount
        /\ p.total_lent = r.pool.total_lent /\ p.loan_num = r.pool.loan_num
      BY <1>2, <2>2, <2>3, PoolRedeemed
  <2>s. stake \in Int /\ b.vote_stake \in Int
    <3>1. r.pool.total_rex \in Nat \ {0} /\ r.pool.total_lendable \in Int /\ b.rex_balance \in Int
        BY <2>2, <2>3, OwnsNoMore DEF PoolSound
    <3>2. WorthOf(r.pool, b.rex_balance) \in Int
        BY <3>1, WorthType
    <3> HIDE DEF paid, b
    <3> QED BY <2>2, <2>4, <3>2 DEF BalanceSound
  <2>5. BalanceSound(c) /\ c.rex_balance = b.rex_balance - amount
    <3> HIDE DEF stake
    <3> QED BY <2>2, <2>s, BalanceSold
  <2> HIDE DEF stake
  <2> HIDE DEF p, c, paid, b
  <2>6. /\ DOMAIN q = RexFields /\ q.pool = p /\ q.ret = r.ret /\ q.buckets = r.buckets
        /\ q.funds = r.funds /\ q.balances = [r.balances EXCEPT ![x] = c] /\ q.loans = r.loans
        /\ q.orders = r.orders
      BY <2>2 DEF RexFields
  <2> HIDE DEF q
  <2>7. OwnersSound(q)
    <3>1. q.balances = Put(r.balances, x, c)
        BY <2>6, ModifyPuts
    <3>2. FieldAt(r.balances, x, "rex_balance") = b.rex_balance
        BY DEF FieldAt, b
    <3>3. q.pool.total_rex = r.pool.total_rex - FieldAt(r.balances, x, "rex_balance") + c.rex_balance
      <4>1. b.rex_balance \in Nat /\ r.pool.total_rex \in Nat
          BY <2>2, OwnsNoMore DEF b, PoolSound
      <4> QED BY <2>4, <2>5, <2>6, <3>2, <4>1
    <3> QED BY <2>2, <2>5, <3>1, <3>3, OwnersPut
  <2>8. LoansSound(q) /\ OrdersSound(q) /\ NatTable(q.funds) /\ PoolSound(q.pool)
      BY <2>4, <2>6 DEF Sound, LoansSound, OrdersSound
  <2>9. Holdings(q) = Holdings(r) + (0 - paid)
    <3> DEFINE f == Total(r.funds)
               l == Sum(r.loans, "balance")
               o == Sum(r.orders, "proceeds")
               v == r.pool.total_lendable
    <3>1. f \in Nat /\ l \in Nat /\ o \in Nat /\ v \in Nat
        BY SoundSums
    <3>2. Holdings(q) = f + l + p.total_lendable + o /\ Holdings(r) = f + l + v + o
        BY <2>6 DEF Holdings
    <3>3. p.total_lendable = v - paid
        BY <2>4
    <3> HIDE DEF f, l, o, v
    <3> QED BY <2>4, <3>1, <3>2, <3>3
  <2>10. 0 - paid \in Int
      BY <2>4
  <2>11. Goes(r, q, 0 - paid, ct)
      BY <2>4, <2>6, <2>7, <2>8, <2>9, <2>10, TablesChanged
  <2>12. /\ DOMAIN q.balances = DOMAIN r.balances
         /\ \A y \in DOMAIN r.balances \ {x} : q.balances[y] = r.balances[y]
      BY <2>6
  <2> QED BY <2>1, <2>4, <2>6, <2>11, <2>12, <2>s DEF outcome
<1> QED BY <1>1, <1>2

-----------------------------------------------------------------------------
\* Orders that wait.
\*
\* Another table of orders.
LEMMA OrdersChanged ==
    ASSUME NEW ct, Clock(ct), NEW r, Sound(r, ct), NEW d \in Int, NEW t,
           DOMAIN t \subseteq Users, \A x \in DOMAIN t : OrderSound(t[x]),
           Sum(t, "proceeds") = Sum(r.orders, "proceeds") + d
    PROVE  LET q == [r EXCEPT !.orders = t]
           IN  /\ Goes(r, q, d, ct)
               /\ q.pool = r.pool /\ q.balances = r.balances /\ q.orders = t
<1> DEFINE q == [r EXCEPT !.orders = t]
<1>1. /\ DOMAIN q = RexFields /\ q.pool = r.pool /\ q.ret = r.ret /\ q.buckets = r.buckets
      /\ q.funds = r.funds /\ q.balances = r.balances /\ q.loans = r.loans /\ q.orders = t
    BY DEF Sound, RexFields
<1> HIDE DEF q
<1>2. /\ PoolSound(q.pool) /\ OwnersSound(q) /\ LoansSound(q) /\ OrdersSound(q) /\ NatTable(q.funds)
      /\ Dearer(r.pool, q.pool)
    BY <1>1, SameIsDearer DEF Sound, OwnersSound, LoansSound, OrdersSound
<1>3. Holdings(q) = Holdings(r) + d
  <2> DEFINE f == Total(r.funds)
             b == Sum(r.loans, "balance")
             o == Sum(r.orders, "proceeds")
             l == r.pool.total_lendable
  <2>1. f \in Nat /\ b \in Nat /\ o \in Nat /\ l \in Nat
      BY SoundSums
  <2>2. Holdings(q) = f + b + l + (o + d) /\ Holdings(r) = f + b + l + o
      BY <1>1 DEF Holdings
  <2> HIDE DEF f, b, o, l
  <2> QED BY <2>1, <2>2
<1>4. Goes(r, q, d, ct)
    BY <1>1, <1>2, <1>3, TablesChanged
<1> QED BY <1>1, <1>4 DEF q

\* What the order of a user has brought.
LEMMA OrderBrought ==
    ASSUME NEW ct, Clock(ct), NEW r, Sound(r, ct), NEW x
    PROVE  /\ FieldAt(r.orders, x, "proceeds") \in Nat
           /\ IntField(r.orders, "proceeds") /\ Sum(r.orders, "proceeds") \in Nat
           /\ DOMAIN r.orders \subseteq Users /\ \A y \in DOMAIN r.orders : OrderSound(r.orders[y])
<1>1. /\ IntField(r.orders, "proceeds") /\ Sum(r.orders, "proceeds") \in Nat
      /\ DOMAIN r.orders \subseteq Users /\ \A y \in DOMAIN r.orders : OrderSound(r.orders[y])
    BY SoundSums DEF Sound, OrdersSound
<1>2. FieldAt(r.orders, x, "proceeds") \in Nat
    BY <1>1 DEF OrderSound, FieldAt
<1> QED BY <1>1, <1>2

\* The order of a user, new or not.
LEMMA OrderGoes ==
    ASSUME NEW ct, Clock(ct), NEW r, Sound(r, ct), NEW x \in Users, NEW order, OrderSound(order)
    PROVE  LET q == [r EXCEPT !.orders = Put(r.orders, x, order)]
           IN  /\ Goes(r, q, order.proceeds - FieldAt(r.orders, x, "proceeds"), ct)
               /\ q.pool = r.pool /\ q.balances = r.balances /\ q.orders = Put(r.orders, x, order)
<1> DEFINE was == FieldAt(r.orders, x, "proceeds")
           t   == Put(r.orders, x, order)
           d   == order.proceeds - was
<1>1. /\ was \in Nat /\ IntField(r.orders, "proceeds") /\ Sum(r.orders, "proceeds") \in Nat
      /\ DOMAIN r.orders \subseteq Users /\ \A y \in DOMAIN r.orders : OrderSound(r.orders[y])
    BY OrderBrought
<1>2. order.proceeds \in Nat
    BY DEF OrderSound
<1>3. Sum(t, "proceeds") = Sum(r.orders, "proceeds") - was + order.proceeds
    BY <1>1, <1>2, FieldPut
<1>4. DOMAIN t \subseteq Users /\ \A y \in DOMAIN t : OrderSound(t[y])
    BY <1>1 DEF Put
<1> HIDE DEF t, was
<1>5. d \in Int /\ Sum(t, "proceeds") = Sum(r.orders, "proceeds") + d
    BY <1>1, <1>2, <1>3
<1> HIDE DEF d
<1>6. LET q == [r EXCEPT !.orders = t]
      IN  /\ Goes(r, q, d, ct) /\ q.pool = r.pool /\ q.balances = r.balances /\ q.orders = t
    BY <1>4, <1>5, OrdersChanged
<1> QED BY <1>6 DEF t, d, was

\* An order that goes.
LEMMA OrderErased ==
    ASSUME NEW ct, Clock(ct), NEW r, Sound(r, ct), NEW x
    PROVE  LET q == [r EXCEPT !.orders = Erase(r.orders, x)]
           IN  /\ Goes(r, q, 0 - FieldAt(r.orders, x, "proceeds"), ct)
               /\ q.pool = r.pool /\ q.balances = r.balances /\ q.orders = Erase(r.orders, x)
<1> DEFINE was == FieldAt(r.orders, x, "proceeds")
           t   == Erase(r.orders, x)
           d   == 0 - was
<1>1. /\ was \in Nat /\ IntField(r.orders, "proceeds") /\ Sum(r.orders, "proceeds") \in Nat
      /\ DOMAIN r.orders \subseteq Users /\ \A y \in DOMAIN r.orders : OrderSound(r.orders[y])
    BY OrderBrought
<1>2. Sum(t, "proceeds") = Sum(r.orders, "proceeds") - was
    BY <1>1, FieldErase
<1>3. DOMAIN t \subseteq Users /\ \A y \in DOMAIN t : OrderSound(t[y])
    BY <1>1 DEF Erase
<1> HIDE DEF t, was
<1>4. d \in Int /\ Sum(t, "proceeds") = Sum(r.orders, "proceeds") + d
    BY <1>1, <1>2
<1> HIDE DEF d
<1>5. LET q == [r EXCEPT !.orders = t]
      IN  /\ Goes(r, q, d, ct) /\ q.pool = r.pool /\ q.balances = r.balances /\ q.orders = t
    BY <1>3, <1>4, OrdersChanged
<1> QED BY <1>5 DEF t, d, was

\* An order that waits is filled, or goes on waiting, and so do all others.
LEMMA FillQueuedGoes ==
    ASSUME NEW ct, Clock(ct), NEW r, Sound(r, ct), Covered(r), NEW x \in OpenOrders(r)
    PROVE  LET q == FillQueued(r, x)
           IN  /\ Goes(r, q, 0, ct) /\ Covered(q) /\ DOMAIN q.balances = DOMAIN r.balances
               /\ OpenOrders(q) \subseteq OpenOrders(r) /\ OpenOrders(r) \ {x} \subseteq OpenOrders(q)
<1> DEFINE amount  == r.orders[x].rex_requested
           outcome == fill_rex_order(r, x, amount)
           s       == outcome.rex
           paid    == outcome.proceeds
           closed  == [r.orders[x] EXCEPT !.is_open = FALSE, !.proceeds = paid,
                                          !.stake_change = outcome.stake_change]
           filled  == [s EXCEPT !.orders[x] = closed]
           q       == FillQueued(r, x)
<1>1. /\ x \in DOMAIN r.orders /\ x \in DOMAIN r.balances /\ amount =< r.balances[x].matured_rex
      /\ amount \in Nat \ {0} /\ r.orders[x].proceeds = 0 /\ OrderSound(r.orders[x]) /\ x \in Users
    BY DEF Covered, OpenOrders, Sound, OrdersSound, OrderSound
<1>2. /\ paid \in Nat /\ outcome.stake_change \in Int /\ (~ outcome.success => s = r)
      /\ Goes(r, s, 0 - paid, ct) /\ s.orders = r.orders /\ DOMAIN s.balances = DOMAIN r.balances
      /\ \A y \in DOMAIN r.balances \ {x} : s.balances[y] = r.balances[y]
  <2> HIDE DEF amount
  <2> QED BY <1>1, FillGoes
<1>3. q = IF ~ outcome.success THEN s ELSE [s EXCEPT !.orders[x] = [s.orders[x] EXCEPT
               !.is_open = FALSE, !.proceeds = paid, !.stake_change = outcome.stake_change]]
    BY DEF FillQueued, CloseOrder
<1>4. q = IF ~ outcome.success THEN s ELSE filled
    BY <1>2, <1>3
<1> HIDE DEF outcome, q
<1>5. CASE ~ outcome.success
    BY <1>2, <1>4, <1>5, GoesReflexive DEF q
<1>6. CASE outcome.success
  <2>1. OrderSound(closed) /\ closed.proceeds = paid /\ closed.is_open = FALSE
      BY <1>1, <1>2 DEF OrderSound, OrderFields
  <2>2. Sound(s, ct)
      BY <1>2 DEF Goes
  <2>3. filled = [s EXCEPT !.orders = Put(s.orders, x, closed)]
    <3>1. [s.orders EXCEPT ![x] = closed] = Put(s.orders, x, closed)
        BY <1>1, <1>2, ModifyPuts
    <3> HIDE DEF closed
    <3> QED BY <3>1
  <2>4. FieldAt(s.orders, x, "proceeds") = 0
      BY <1>1, <1>2 DEF FieldAt
  <2> HIDE DEF closed, s, filled
  <2>5. /\ Goes(s, filled, closed.proceeds - FieldAt(s.orders, x, "proceeds"), ct)
        /\ filled.pool = s.pool /\ filled.balances = s.balances /\ filled.orders = Put(s.orders, x, closed)
    <3>1. x \in Users /\ OrderSound(closed)
        BY <1>1, <2>1
    <3>2. LET q1 == [s EXCEPT !.orders = Put(s.orders, x, closed)]
          IN  /\ Goes(s, q1, closed.proceeds - FieldAt(s.orders, x, "proceeds"), ct)
              /\ q1.pool = s.pool /\ q1.balances = s.balances
              /\ q1.orders = Put(s.orders, x, closed)
        BY <2>2, <3>1, OrderGoes
    <3> QED BY <2>3, <3>2, Zenon
  <2>6. closed.proceeds - FieldAt(s.orders, x, "proceeds") = paid /\ (0 - paid) + paid = 0
        /\ 0 - paid \in Int /\ paid \in Int
      BY <1>2, <2>1, <2>4
  <2>7. Goes(s, filled, paid, ct)
      BY <2>5, <2>6, Zenon
  <2>8. Goes(r, filled, (0 - paid) + paid, ct)
      BY <1>2, <2>6, <2>7, GoesTransitive
  <2>9. Goes(r, filled, 0, ct)
      BY <2>6, <2>8, Zenon
  <2>10. /\ DOMAIN filled.orders = DOMAIN r.orders /\ filled.orders[x].is_open = FALSE
         /\ \A y \in DOMAIN r.orders \ {x} : filled.orders[y] = r.orders[y]
      BY <1>1, <1>2, <2>1, <2>5 DEF Put
  <2>11. OpenOrders(filled) = OpenOrders(r) \ {x}
      BY <2>10 DEF OpenOrders
  <2>12. Covered(filled)
    <3>1. ASSUME NEW y \in OpenOrders(r) \ {x}
          PROVE  /\ y \in DOMAIN filled.balances
                 /\ filled.orders[y].rex_requested =< filled.balances[y].matured_rex
      <4>1. y \in DOMAIN r.balances /\ r.orders[y].rex_requested =< r.balances[y].matured_rex
            /\ y \in DOMAIN r.orders
          BY <3>1 DEF Covered, OpenOrders
      <4> QED BY <1>2, <2>5, <2>10, <3>1, <4>1
    <3> QED BY <2>11, <3>1 DEF Covered
  <2>13. q = filled
      BY <1>4, <1>6
  <2> QED BY <1>2, <2>5, <2>9, <2>11, <2>12, <2>13 DEF q
<1> QED BY <1>5, <1>6

\* The order before which another came in.
CameBefore(r) ==
    {p \in Users \X Users :
        \/ r.orders[p[1]].order_time < r.orders[p[2]].order_time
        \/ r.orders[p[1]].order_time = r.orders[p[2]].order_time /\ NameValue[p[1]] < NameValue[p[2]]}

\* How many orders came in before that of x.
Rank(r, x) == Cardinality(Before(OpenOrders(r), CameBefore(r), x))

\* There is one order in each place of the queue.
LEMMA QueuedIs ==
    ASSUME NEW ct, NEW r, Sound(r, ct), NEW n \in Nat, n < Cardinality(OpenOrders(r))
    PROVE  QueuedAt(r, n) \in OpenOrders(r) /\ Rank(r, QueuedAt(r, n)) = n
<1> DEFINE S == OpenOrders(r)
           R == CameBefore(r)
           Earlier(x, y) == \/ r.orders[x].order_time < r.orders[y].order_time
                            \/ /\ r.orders[x].order_time = r.orders[y].order_time
                               /\ NameValue[x] < NameValue[y]
<1>1. /\ S \subseteq Users /\ IsFiniteSet(S)
      /\ \A x \in S : r.orders[x].order_time \in Int
    BY SystemAssumption, FS_Subset DEF Sound, OrdersSound, OrderSound, OpenOrders
<1>2. /\ \A x \in Users : NameValue[x] \in Int
      /\ \A x, y \in Users : NameValue[x] = NameValue[y] => x = y
    BY SystemAssumption
<1>3. \A x, y \in S : <<x, y>> \in R <=> Earlier(x, y)
    BY <1>1 DEF CameBefore
<1> HIDE DEF S, R
<1>4. Ordered(S, R)
  <2>1. \A x \in S : <<x, x>> \notin R
      BY <1>1, <1>2, <1>3
  <2>2. \A x, y, z \in S : <<x, y>> \in R /\ <<y, z>> \in R => <<x, z>> \in R
    <3> SUFFICES ASSUME NEW x \in S, NEW y \in S, NEW z \in S, <<x, y>> \in R, <<y, z>> \in R
                 PROVE  <<x, z>> \in R
        OBVIOUS
    <3>1. Earlier(x, y) /\ Earlier(y, z)
        BY <1>3
    <3>2. Earlier(x, z)
        BY <1>1, <1>2, <3>1
    <3> QED BY <1>3, <3>2
  <2>3. \A x, y \in S : x = y \/ <<x, y>> \in R \/ <<y, x>> \in R
    <3> SUFFICES ASSUME NEW x \in S, NEW y \in S, x # y PROVE <<x, y>> \in R \/ <<y, x>> \in R
        OBVIOUS
    <3>1. Earlier(x, y) \/ Earlier(y, x)
        BY <1>1, <1>2
    <3> QED BY <1>3, <3>1
  <2> QED BY <2>1, <2>2, <2>3 DEF Ordered
<1>5. \E x \in S : Cardinality(Before(S, R, x)) = n
    BY <1>1, <1>4, RankExists DEF S
<1>6. \A x \in S : Before(S, R, x) = {y \in S : Earlier(y, x)}
    BY <1>3 DEF Before
<1>7. \E x \in S : Cardinality({y \in S : Earlier(y, x)}) = n
    BY <1>5, <1>6
<1>8. QueuedAt(r, n) = CHOOSE x \in S : Cardinality({y \in S : Earlier(y, x)}) = n
    BY Zenon DEF QueuedAt, S
<1>9. /\ QueuedAt(r, n) \in S
      /\ Cardinality({y \in S : Earlier(y, QueuedAt(r, n))}) = n
    BY <1>7, <1>8
<1>10. Cardinality(Before(S, R, QueuedAt(r, n))) = n
    BY <1>6, <1>9
<1> QED BY <1>9, <1>10 DEF Rank, S, R

\* Orders are filled: those not looked at yet wait as before.
FilledUpTo(r, n, q, ct) ==
    /\ Goes(r, q, 0, ct) /\ Covered(q) /\ OpenOrders(q) \subseteq OpenOrders(r)
    /\ DOMAIN q.balances = DOMAIN r.balances
    /\ \A x \in OpenOrders(r) : Rank(r, x) >= n => x \in OpenOrders(q)

\* Whatever the maximum.
LEMMA FillOrdersGoes ==
    ASSUME NEW ct, Clock(ct), NEW r, Sound(r, ct), Covered(r), NEW max \in Nat
    PROVE  Goes(r, FillOrders(r, max), 0, ct) /\ Still(r, FillOrders(r, max))
<1> DEFINE queued == Cardinality(OpenOrders(r))
           n  == IF max < queued THEN max ELSE queued
           it == Filling(r)
           Bad == {k \in Nat : k =< n /\ ~ FilledUpTo(r, k, it[k], ct)}
<1>0. IsFiniteSet(OpenOrders(r)) /\ queued \in Nat
  <2>1. OpenOrders(r) \subseteq Users
      BY DEF OpenOrders, Sound, OrdersSound
  <2> QED BY <2>1, SystemAssumption, FS_Subset, FS_CardinalityType
<1>1. n \in Nat /\ n =< queued
    BY <1>0
<1>2. FillOrders(r, max) = it[n]
    BY Zenon DEF FillOrders, Filling, Fills
<1>3. it[0] = r /\ \A k \in Nat : k # 0 => it[k] = FillQueued(it[k - 1], QueuedAt(r, k - 1))
    BY FillingRecursion
<1>4. \A x : Rank(r, x) \in Nat
  <2>1. \A x : Before(OpenOrders(r), CameBefore(r), x) \subseteq OpenOrders(r)
      BY DEF Before
  <2> QED BY <1>0, <2>1, FS_Subset, FS_CardinalityType DEF Rank
<1> HIDE DEF it, n, queued
<1>5. ASSUME Bad # {} PROVE FALSE
  <2>1. PICK b \in Bad : \A k \in Bad : b =< k
      BY <1>5, NatMin
  <2>2. b # 0
    <3>1. FilledUpTo(r, 0, it[0], ct)
        BY <1>3, GoesReflexive DEF FilledUpTo
    <3> QED BY <2>1, <3>1
  <2> DEFINE a == b - 1
             s == it[a]
             x == QueuedAt(r, a)
             q == FillQueued(s, x)
  <2>3. a \in Nat /\ b = a + 1 /\ a < queued /\ a \notin Bad /\ a =< n
      BY <1>0, <1>1, <2>1, <2>2
  <2>4. FilledUpTo(r, a, s, ct)
      BY <2>3
  <2>5. x \in OpenOrders(r) /\ Rank(r, x) = a
      BY <2>3, QueuedIs DEF queued
  <2> HIDE DEF a, s, x, q
  <2>6. x \in OpenOrders(s)
      BY <2>3, <2>4, <2>5 DEF FilledUpTo
  <2>7. Sound(s, ct) /\ Covered(s) /\ Goes(r, s, 0, ct)
      BY <2>4 DEF FilledUpTo, Goes
  <2>8. /\ Goes(s, q, 0, ct) /\ Covered(q) /\ DOMAIN q.balances = DOMAIN s.balances
        /\ OpenOrders(q) \subseteq OpenOrders(s) /\ OpenOrders(s) \ {x} \subseteq OpenOrders(q)
      BY <2>6, <2>7, FillQueuedGoes DEF q
  <2>9. Goes(r, q, 0, ct)
    <3>1. Goes(r, q, 0 + 0, ct)
        BY <2>7, <2>8, GoesTransitive
    <3> QED BY <3>1
  <2>10. ASSUME NEW y \in OpenOrders(r), Rank(r, y) >= b PROVE y \in OpenOrders(q)
    <3>1. Rank(r, y) >= a /\ y # x
        BY <1>4, <2>3, <2>5, <2>10
    <3>2. y \in OpenOrders(s)
        BY <2>4, <3>1 DEF FilledUpTo
    <3> QED BY <2>8, <3>1, <3>2
  <2>11. FilledUpTo(r, b, q, ct)
      BY <2>4, <2>8, <2>9, <2>10 DEF FilledUpTo
  <2>12. it[b] = q
    <3>1. b \in Nat
        BY <2>1
    <3> QED BY <1>3, <2>2, <3>1 DEF q, s, x, a
  <2> QED BY <2>1, <2>11, <2>12
<1>6. FilledUpTo(r, n, it[n], ct)
  <2>1. n \notin Bad
      BY <1>5
  <2> QED BY <1>1, <2>1
<1>7. Still(r, it[n])
  <2>1. CASE OpenOrders(r) = {}
    <3>1. n = 0
        BY <2>1, FS_EmptySet DEF n, queued
    <3> QED BY <1>3, <3>1 DEF Still
  <2>2. CASE OpenOrders(r) # {}
      BY <1>6, <2>2 DEF Still, FilledUpTo
  <2> QED BY <2>1, <2>2
<1> QED BY <1>2, <1>6, <1>7 DEF FilledUpTo

-----------------------------------------------------------------------------
\* Loans.
\*
\* The row of a loan, new or not.
LEMMA LoanPut ==
    ASSUME NEW r, LoansSound(r), NEW num \in Nat, NEW loan, LoanSound(loan), NEW q,
           q.loans = Put(r.loans, num, loan), num =< q.pool.loan_num,
           q.pool.loan_num \in Nat, r.pool.loan_num \in Nat, r.pool.loan_num =< q.pool.loan_num,
           q.pool.total_lent = r.pool.total_lent - FieldAt(r.loans, num, "total_staked") + loan.total_staked
    PROVE  /\ LoansSound(q) /\ Sum(r.loans, "balance") \in Nat
           /\ FieldAt(r.loans, num, "balance") \in Nat
           /\ Sum(q.loans, "balance")
                = Sum(r.loans, "balance") - FieldAt(r.loans, num, "balance") + loan.balance
<1>1. /\ IsFiniteSet(DOMAIN r.loans) /\ \A n \in DOMAIN r.loans : LoanSound(r.loans[n])
      /\ \A n \in DOMAIN r.loans : n \in Nat /\ n =< r.pool.loan_num
      /\ r.pool.total_lent = Sum(r.loans, "total_staked")
    BY DEF LoansSound
<1>2. /\ IntField(r.loans, "balance") /\ Sum(r.loans, "balance") \in Nat
      /\ FieldAt(r.loans, num, "balance") \in Nat
  <2>1. \A n \in DOMAIN r.loans : r.loans[n]["balance"] \in Nat
      BY <1>1 DEF LoanSound
  <2> QED BY <1>1, <2>1, NatSum DEF FieldAt
<1>3. IntField(r.loans, "total_staked")
  <2>1. \A n \in DOMAIN r.loans : r.loans[n]["total_staked"] \in Nat
      BY <1>1 DEF LoanSound
  <2> QED BY <1>1, <2>1, NatSum
<1>4. loan.balance \in Int /\ loan.total_staked \in Int
    BY DEF LoanSound
<1>5. Sum(q.loans, "total_staked")
        = Sum(r.loans, "total_staked") - FieldAt(r.loans, num, "total_staked") + loan.total_staked
    BY <1>3, <1>4, FieldPut
<1>6. Sum(q.loans, "balance")
        = Sum(r.loans, "balance") - FieldAt(r.loans, num, "balance") + loan.balance
    BY <1>2, <1>4, FieldPut
<1>7. /\ IsFiniteSet(DOMAIN q.loans) /\ \A n \in DOMAIN q.loans : LoanSound(q.loans[n])
      /\ \A n \in DOMAIN q.loans : n \in Nat /\ n =< q.pool.loan_num
  <2>1. IsFiniteSet(DOMAIN r.loans \cup {num})
      BY <1>1, FS_AddElement
  <2> QED BY <1>1, <2>1 DEF Put
<1> QED BY <1>1, <1>2, <1>5, <1>6, <1>7 DEF LoansSound

\* A loan that goes.
LEMMA LoanErased ==
    ASSUME NEW r, LoansSound(r), NEW num \in DOMAIN r.loans, NEW q,
           q.loans = Erase(r.loans, num), q.pool.loan_num = r.pool.loan_num,
           q.pool.total_lent = r.pool.total_lent - r.loans[num].total_staked
    PROVE  /\ LoansSound(q) /\ Sum(r.loans, "balance") \in Nat
           /\ Sum(q.loans, "balance") = Sum(r.loans, "balance") - r.loans[num].balance
<1>1. /\ IsFiniteSet(DOMAIN r.loans) /\ \A n \in DOMAIN r.loans : LoanSound(r.loans[n])
      /\ \A n \in DOMAIN r.loans : n \in Nat /\ n =< r.pool.loan_num
      /\ r.pool.total_lent = Sum(r.loans, "total_staked")
    BY DEF LoansSound
<1>2. IntField(r.loans, "balance") /\ Sum(r.loans, "balance") \in Nat
  <2>1. \A n \in DOMAIN r.loans : r.loans[n]["balance"] \in Nat
      BY <1>1 DEF LoanSound
  <2> QED BY <1>1, <2>1, NatSum
<1>3. IntField(r.loans, "total_staked")
  <2>1. \A n \in DOMAIN r.loans : r.loans[n]["total_staked"] \in Nat
      BY <1>1 DEF LoanSound
  <2> QED BY <1>1, <2>1, NatSum
<1>4. /\ FieldAt(r.loans, num, "balance") = r.loans[num].balance
      /\ FieldAt(r.loans, num, "total_staked") = r.loans[num].total_staked
    BY DEF FieldAt
<1>5. Sum(q.loans, "total_staked") = Sum(r.loans, "total_staked") - r.loans[num].total_staked
    BY <1>3, <1>4, FieldErase
<1>6. Sum(q.loans, "balance") = Sum(r.loans, "balance") - r.loans[num].balance
    BY <1>2, <1>4, FieldErase
<1>7. /\ IsFiniteSet(DOMAIN q.loans) /\ \A n \in DOMAIN q.loans : LoanSound(q.loans[n])
      /\ \A n \in DOMAIN q.loans : n \in Nat /\ n =< q.pool.loan_num
  <2>1. IsFiniteSet(DOMAIN r.loans \ {num})
      BY <1>1, FS_Subset
  <2> QED BY <1>1, <2>1 DEF Erase
<1> QED BY <1>1, <1>2, <1>5, <1>6, <1>7 DEF LoansSound

\* No loan is for more than is lent, and where something is lent there is REX.
LEMMA LoanIsLent ==
    ASSUME NEW r, LoansSound(r), PoolSound(r.pool), NEW num \in DOMAIN r.loans
    PROVE  /\ LoanSound(r.loans[num]) /\ num \in Nat /\ num =< r.pool.loan_num
           /\ r.loans[num].total_staked =< r.pool.total_lent /\ r.pool.total_rex > 0
<1>1. LoanSound(r.loans[num]) /\ num \in Nat /\ num =< r.pool.loan_num
    BY DEF LoansSound
<1>2. r.loans[num].total_staked =< r.pool.total_lent
  <2>1. \A n \in DOMAIN r.loans : r.loans[n]["total_staked"] \in Nat
      BY DEF LoansSound, LoanSound
  <2> QED BY <2>1, NatSum DEF LoansSound
<1>3. r.pool.total_rex > 0
    BY <1>1, <1>2 DEF LoanSound, PoolSound
<1> QED BY <1>1, <1>2, <1>3

\* The pool with the tokens of a loan back.
LEMMA PoolGetsBack ==
    ASSUME NEW p, PoolSound(p), p.total_rex > 0, NEW loan, LoanSound(loan),
           loan.total_staked =< p.total_lent
    PROVE  LET q == remove_loan_from_rex_pool(p, loan)
           IN  /\ PoolSound(q) /\ q.total_lent = p.total_lent - loan.total_staked
               /\ q.total_lendable = p.total_lendable /\ q.total_rex = p.total_rex
               /\ q.loan_num = p.loan_num
<1> DEFINE staked == loan.total_staked
           rent   == get_bancor_output(p.total_unlent, p.total_rent, staked)
           q      == remove_loan_from_rex_pool(p, loan)
<1>1. /\ staked \in Nat \ {0} /\ DOMAIN p = PoolFields /\ p.total_unlent \in Nat /\ p.total_rent \in Nat
      /\ p.total_lent \in Nat /\ p.total_lendable = p.total_unlent + p.total_lent
    BY DEF LoanSound, PoolSound
<1>2. rent \in Nat /\ rent =< p.total_rent
    BY <1>1, Traded
<1> HIDE DEF rent
<1>3. /\ DOMAIN q = PoolFields /\ q.exists = p.exists /\ q.total_rent = p.total_rent - rent
      /\ q.total_unlent = p.total_unlent + staked /\ q.total_lent = p.total_lent - staked
      /\ q.total_lendable = p.total_unlent + p.total_lent /\ q.total_rex = p.total_rex
      /\ q.loan_num = p.loan_num /\ q.namebid_proceeds = p.namebid_proceeds
    BY <1>1 DEF remove_loan_from_rex_pool, PoolFields, rent
<1> HIDE DEF q
<1>4. PoolSound(q)
    BY <1>1, <1>2, <1>3 DEF PoolSound
<1> QED BY <1>1, <1>3, <1>4 DEF q

\* The pool with tokens lent.
LEMMA PoolLends ==
    ASSUME NEW p, PoolSound(p), p.total_rex > 0, NEW payment \in Nat, NEW rented \in Nat,
           rented =< p.total_unlent, NEW new_loan \in BOOLEAN
    PROVE  LET q == Lent(p, payment, rented, new_loan)
           IN  /\ PoolSound(q) /\ q.total_lent = p.total_lent + rented
               /\ q.total_lendable = p.total_lendable /\ q.total_rex = p.total_rex
               /\ q.loan_num = IF new_loan THEN p.loan_num + 1 ELSE p.loan_num
<1> DEFINE q == Lent(p, payment, rented, new_loan)
<1>1. /\ DOMAIN p = PoolFields /\ p.total_unlent \in Nat /\ p.total_rent \in Nat /\ p.loan_num \in Nat
      /\ p.total_lent \in Nat /\ p.total_lendable = p.total_unlent + p.total_lent
    BY DEF PoolSound
<1>2. /\ DOMAIN q = PoolFields /\ q.exists = p.exists /\ q.total_rent = p.total_rent + payment
      /\ q.total_unlent = p.total_unlent - rented /\ q.total_lent = p.total_lent + rented
      /\ q.total_lendable = p.total_lendable /\ q.total_rex = p.total_rex
      /\ q.loan_num = p.loan_num + (IF new_loan THEN 1 ELSE 0)
      /\ q.namebid_proceeds = p.namebid_proceeds
    BY <1>1 DEF Lent, PoolFields
<1> HIDE DEF q
<1>3. PoolSound(q)
    BY <1>1, <1>2 DEF PoolSound
<1> QED BY <1>1, <1>2, <1>3 DEF q

\* What a payment rents is there to be lent.
LEMMA RentedIsThere ==
    ASSUME NEW p, PoolSound(p), NEW payment \in Nat \ {0}
    PROVE  RentedTokens(p, payment) \in Nat /\ RentedTokens(p, payment) =< p.total_unlent
BY Traded DEF RentedTokens, PoolSound

\* An expired loan that is closed; p is the pool with its tokens back.
LEMMA ClosedGoes ==
    ASSUME NEW ct, Clock(ct), NEW r, Sound(r, ct), NEW num \in DOMAIN r.loans
    PROVE  LET back == [r EXCEPT !.pool = remove_loan_from_rex_pool(r.pool, r.loans[num])]
               q    == CloseLoan(back, num, r.loans[num]).rex
           IN  Goes(r, q, 0, ct) /\ Still(r, q)
<1> DEFINE loan == r.loans[num]
           p    == remove_loan_from_rex_pool(r.pool, loan)
           back == [r EXCEPT !.pool = p]
           s    == [back EXCEPT !.loans = Erase(@, num)]
           q    == CloseLoan(back, num, loan).rex
<1>1. /\ DOMAIN r = RexFields /\ PoolSound(r.pool) /\ LoansSound(r)
    BY DEF Sound
<1>2. /\ LoanSound(loan) /\ loan.total_staked =< r.pool.total_lent /\ r.pool.total_rex > 0
    BY <1>1, LoanIsLent
<1>3. /\ PoolSound(p) /\ p.total_lent = r.pool.total_lent - loan.total_staked
      /\ p.total_lendable = r.pool.total_lendable /\ p.total_rex = r.pool.total_rex
      /\ p.loan_num = r.pool.loan_num
  <2> HIDE DEF loan
  <2> QED BY <1>1, <1>2, PoolGetsBack
<1>4. q = CollectInFund(s, loan.from, loan.balance)
    BY DEF CloseLoan
<1> HIDE DEF p, q
<1>5. /\ DOMAIN s = RexFields /\ s.pool = p /\ s.ret = r.ret /\ s.buckets = r.buckets
      /\ s.funds = r.funds /\ s.balances = r.balances /\ s.loans = Erase(r.loans, num)
      /\ s.orders = r.orders
    BY <1>1 DEF RexFields
<1> HIDE DEF s
<1>6. /\ LoansSound(s) /\ Sum(r.loans, "balance") \in Nat
      /\ Sum(s.loans, "balance") = Sum(r.loans, "balance") - loan.balance
    BY <1>1, <1>3, <1>5, LoanErased
<1> HIDE DEF loan
<1>7. /\ OwnersSound(s) /\ OrdersSound(s) /\ NatTable(s.funds) /\ PoolSound(s.pool)
    BY <1>3, <1>5 DEF Sound, OwnersSound, OrdersSound
<1>8. loan.balance \in Nat
    BY <1>2 DEF LoanSound
<1>9. Holdings(s) = Holdings(r) + (0 - loan.balance)
  <2> DEFINE f == Total(r.funds)
             b == Sum(r.loans, "balance")
             c == Sum(s.loans, "balance")
             o == Sum(r.orders, "proceeds")
             l == r.pool.total_lendable
             a == loan.balance
  <2>1. f \in Nat /\ o \in Nat /\ l \in Nat /\ b \in Nat /\ c = b - a
      BY <1>6, SoundSums
  <2>2. Holdings(s) = f + c + l + o /\ Holdings(r) = f + b + l + o
      BY <1>3, <1>5 DEF Holdings
  <2>3. a \in Nat
      BY <1>8
  <2> HIDE DEF f, b, c, o, l, a
  <2>4. f + c + l + o = f + b + l + o + (0 - a)
      BY <2>1, <2>3
  <2> QED BY <2>2, <2>4 DEF a
<1>10. Dearer(r.pool, s.pool)
  <2>1. s.pool.total_lendable >= r.pool.total_lendable
      BY <1>1, <1>3, <1>5 DEF PoolSound
  <2> QED BY <1>1, <1>3, <1>5, <2>1, MoreIsDearer
<1> DEFINE d == 0 - loan.balance
<1>11. d \in Int /\ d + loan.balance = 0
    BY <1>8
<1>12. Goes(r, s, d, ct)
    BY <1>5, <1>6, <1>7, <1>9, <1>10, <1>11, TablesChanged
<1>13. Still(r, s)
    BY <1>3, <1>5 DEF Still, OpenOrders, Covered
<1> HIDE DEF d
<1>14. Goes(s, q, loan.balance, ct) /\ Still(s, q)
  <2>1. Sound(s, ct)
      BY <1>12 DEF Goes
  <2> QED BY <1>4, <1>8, <2>1, FundGoes
<1>15. Goes(r, q, d + loan.balance, ct)
  <2>1. loan.balance \in Int
      BY <1>8
  <2> QED BY <1>11, <1>12, <1>14, <2>1, GoesTransitive
<1>16. Goes(r, q, 0, ct) /\ Still(r, q)
    BY <1>11, <1>13, <1>14, <1>15, StillTransitive, Zenon
<1> QED BY <1>16 DEF q, loan, p

\* One that is renewed.
LEMMA RenewedGoes ==
    ASSUME NEW ct, Clock(ct), NEW r, Sound(r, ct), NEW num \in DOMAIN r.loans,
           NEW back, back = [r EXCEPT !.pool = remove_loan_from_rex_pool(r.pool, r.loans[num])],
           NEW rented, rented = RentedTokens(back.pool, r.loans[num].payment),
           Renewable(back, r.loans[num], rented)
    PROVE  LET q == RenewLoan(back, num, r.loans[num], rented, ct).rex
           IN  Goes(r, q, 0, ct) /\ Still(r, q)
<1> DEFINE loan == r.loans[num]
           paid == loan.payment
           p    == remove_loan_from_rex_pool(r.pool, loan)
           s    == add_to_rex_return_pool(back, paid, ct)
           p2   == Lent(s.pool, paid, rented, FALSE)
           new  == update_renewed_loan(loan, rented)
           q    == RenewLoan(back, num, loan, rented, ct).rex
<1>1. /\ DOMAIN r = RexFields /\ PoolSound(r.pool) /\ LoansSound(r) /\ ReturnsSound(r, ct)
    BY DEF Sound
<1>2. /\ LoanSound(loan) /\ loan.total_staked =< r.pool.total_lent /\ r.pool.total_rex > 0
      /\ num \in Nat /\ num =< r.pool.loan_num
    BY <1>1, LoanIsLent
<1>3. /\ PoolSound(p) /\ p.total_lent = r.pool.total_lent - loan.total_staked
      /\ p.total_lendable = r.pool.total_lendable /\ p.total_rex = r.pool.total_rex
      /\ p.loan_num = r.pool.loan_num
  <2> HIDE DEF loan
  <2> QED BY <1>1, <1>2, PoolGetsBack
<1>4. /\ DOMAIN back = RexFields /\ back.pool = p /\ back.ret = r.ret /\ back.buckets = r.buckets
      /\ back.funds = r.funds /\ back.balances = r.balances /\ back.loans = r.loans
      /\ back.orders = r.orders
    BY <1>1 DEF RexFields
<1>5. paid \in Nat \ {0} /\ paid =< loan.balance /\ paid < rented /\ loan.balance \in Nat
      /\ DOMAIN loan = LoanFields /\ loan.expiration \in Int
      /\ loan.receiver \in Users /\ loan.kind \in Kinds
    BY <1>2 DEF LoanSound, Renewable
<1>6. rented \in Nat \ {0} /\ rented =< p.total_unlent
  <2> HIDE DEF loan, paid, p
  <2>1. rented \in Nat /\ rented =< p.total_unlent
      BY <1>3, <1>4, <1>5, RentedIsThere DEF paid, loan
  <2> QED BY <1>5, <2>1
<1>7. ReturnsSound(back, ct)
    BY <1>1, <1>4 DEF ReturnsSound
<1> HIDE DEF loan, paid, p
<1>8. Returned(back, s, paid, ct)
    BY <1>3, <1>4, <1>5, <1>7, AddReturned
<1> HIDE DEF s
<1>9. /\ DOMAIN s = RexFields /\ PoolSound(s.pool) /\ ReturnsSound(s, ct)
      /\ s.funds = r.funds /\ s.balances = r.balances /\ s.loans = r.loans /\ s.orders = r.orders
      /\ SamePool(p, s.pool) /\ s.pool.total_unlent >= p.total_unlent
      /\ s.pool.total_lendable + s.ret.proceeds = r.pool.total_lendable + r.ret.proceeds + paid
    BY <1>3, <1>4, <1>8 DEF Returned
<1>10. /\ PoolSound(p2) /\ p2.total_lent = s.pool.total_lent + rented
       /\ p2.total_lendable = s.pool.total_lendable /\ p2.total_rex = r.pool.total_rex
       /\ p2.loan_num = r.pool.loan_num /\ s.pool.total_lent = r.pool.total_lent - loan.total_staked
  <2>1. s.pool.total_rex = p.total_rex /\ s.pool.loan_num = p.loan_num /\ s.pool.total_lent = p.total_lent
      BY <1>9 DEF SamePool
  <2>2. rented =< s.pool.total_unlent
      BY <1>3, <1>6, <1>9 DEF PoolSound
  <2>3. s.pool.total_rex > 0
      BY <1>2, <1>3, <2>1
  <2>4. /\ PoolSound(p2) /\ p2.total_lent = s.pool.total_lent + rented
        /\ p2.total_lendable = s.pool.total_lendable /\ p2.total_rex = s.pool.total_rex
        /\ p2.loan_num = s.pool.loan_num
    <3> DEFINE fresh == FALSE
    <3>1. paid \in Nat /\ rented \in Nat /\ fresh \in BOOLEAN /\ PoolSound(s.pool)
        BY <1>5, <1>6, <1>9
    <3> HIDE DEF fresh
    <3>2. LET q1 == Lent(s.pool, paid, rented, fresh)
          IN  /\ PoolSound(q1) /\ q1.total_lent = s.pool.total_lent + rented
              /\ q1.total_lendable = s.pool.total_lendable /\ q1.total_rex = s.pool.total_rex
              /\ q1.loan_num = IF fresh THEN s.pool.loan_num + 1 ELSE s.pool.loan_num
        BY <2>2, <2>3, <3>1, PoolLends
    <3> QED BY <3>2 DEF fresh
  <2> QED BY <1>3, <2>1, <2>4
<1>11. /\ LoanSound(new) /\ new.total_staked = rented /\ new.balance = loan.balance - paid
  <2>1. /\ DOMAIN new = LoanFields /\ new.total_staked = rented /\ new.balance = loan.balance - paid
        /\ new.payment = paid /\ new.expiration = loan.expiration + Term
        /\ new.receiver = loan.receiver /\ new.kind = loan.kind
      BY <1>5 DEF update_renewed_loan, LoanFields, paid
  <2>2. Term \in Int
      BY RexAssumption DEF Term
  <2> QED BY <1>5, <1>6, <2>1, <2>2 DEF LoanSound
<1> HIDE DEF new, p2, q
<1>12. /\ DOMAIN q = RexFields /\ q.pool = p2 /\ q.ret = s.ret /\ q.buckets = s.buckets
       /\ q.funds = r.funds /\ q.balances = r.balances /\ q.loans = Put(r.loans, num, new)
       /\ q.orders = r.orders
  <2> DEFINE t == [s EXCEPT !.pool = p2]
  <2>1. q = [t EXCEPT !.loans[num] = update_renewed_loan(@, rented)]
      BY DEF RenewLoan, add_loan_to_rex_pool, q, s, p2, paid
  <2>2. /\ DOMAIN t = RexFields /\ t.pool = p2 /\ t.ret = s.ret /\ t.buckets = s.buckets
        /\ t.funds = r.funds /\ t.balances = r.balances /\ t.loans = r.loans /\ t.orders = r.orders
      BY <1>9 DEF RexFields
  <2> HIDE DEF t
  <2>3. [r.loans EXCEPT ![num] = new] = Put(r.loans, num, new)
      BY ModifyPuts
  <2> QED BY <2>1, <2>2, <2>3 DEF RexFields, new, loan
<1>13. /\ LoansSound(q) /\ Sum(r.loans, "balance") \in Nat
       /\ Sum(q.loans, "balance") = Sum(r.loans, "balance") - paid
  <2>1. FieldAt(r.loans, num, "total_staked") = loan.total_staked
        /\ FieldAt(r.loans, num, "balance") = loan.balance
      BY DEF FieldAt, loan
  <2>2. r.pool.loan_num \in Nat /\ r.pool.total_lent \in Nat /\ loan.total_staked \in Nat
      BY <1>1, <1>2 DEF PoolSound, LoanSound
  <2>3. q.pool.total_lent = r.pool.total_lent - FieldAt(r.loans, num, "total_staked") + new.total_staked
      BY <1>6, <1>10, <1>11, <1>12, <2>1, <2>2
  <2>4. /\ num =< q.pool.loan_num /\ q.pool.loan_num \in Nat /\ r.pool.loan_num =< q.pool.loan_num
      BY <1>2, <1>10, <1>12, <2>2
  <2>5. /\ LoansSound(q) /\ Sum(r.loans, "balance") \in Nat
        /\ Sum(q.loans, "balance")
             = Sum(r.loans, "balance") - FieldAt(r.loans, num, "balance") + new.balance
      BY <1>1, <1>2, <1>11, <1>12, <2>2, <2>3, <2>4, LoanPut
  <2>6. Sum(q.loans, "balance") = Sum(r.loans, "balance") - paid
    <3> DEFINE b == Sum(r.loans, "balance")
               c == Sum(q.loans, "balance")
    <3>1. b \in Nat /\ c = b - loan.balance + (loan.balance - paid)
        BY <1>11, <2>1, <2>5
    <3> HIDE DEF b, c
    <3>2. c = b - paid
        BY <1>5, <3>1
    <3> QED BY <3>2 DEF b, c
  <2> QED BY <2>5, <2>6
<1>14. Sound(q, ct)
  <2>1. OwnersSound(q) /\ OrdersSound(q) /\ NatTable(q.funds)
      BY <1>10, <1>12 DEF Sound, OwnersSound, OrdersSound
  <2>2. ReturnsSound(q, ct)
      BY <1>9, <1>12 DEF ReturnsSound
  <2> QED BY <1>10, <1>12, <1>13, <2>1, <2>2 DEF Sound
<1>15. Assets(q) = Assets(r) + 0
  <2> DEFINE f == Total(r.funds)
             b == Sum(r.loans, "balance")
             c == Sum(q.loans, "balance")
             o == Sum(r.orders, "proceeds")
             l == r.pool.total_lendable
             v == r.ret.proceeds
             m == s.pool.total_lendable
             n == s.ret.proceeds
  <2>1. f \in Nat /\ b \in Nat /\ o \in Nat /\ l \in Nat /\ v \in Nat
      BY SoundSums
  <2>2. m \in Nat /\ n \in Nat
    <3>1. q.pool.total_lendable \in Nat /\ q.ret.proceeds \in Nat
        BY <1>14, SoundSums
    <3> QED BY <1>10, <1>12, <3>1
  <2>3. Assets(q) = f + c + m + n + o /\ Assets(r) = f + b + l + v + o
      BY <1>10, <1>12 DEF Assets
  <2>4. m + n = l + v + paid /\ c = b - paid
      BY <1>9, <1>13
  <2> HIDE DEF f, b, c, o, l, v, m, n
  <2>5. f + c + m + n + o = f + b + l + v + o
      BY <1>5, <2>1, <2>2, <2>4
  <2>6. f + b + l + v + o = f + b + l + v + o + 0
      BY <2>1
  <2> QED BY <2>3, <2>5, <2>6
<1>16. Dearer(r.pool, q.pool)
  <2>1. s.pool.total_lent = p.total_lent
      BY <1>9 DEF SamePool
  <2>2. q.pool.total_lendable >= r.pool.total_lendable
      BY <1>3, <1>9, <1>10, <1>12, <2>1 DEF PoolSound
  <2> QED BY <1>1, <1>10, <1>12, <2>2, MoreIsDearer
<1>17. Still(r, q)
    BY <1>10, <1>12 DEF Still, OpenOrders, Covered
<1> QED BY <1>14, <1>15, <1>16, <1>17 DEF Goes, q, loan

\* An expired loan, renewed or closed.
LEMMA ExpiredGoes ==
    ASSUME NEW ct, Clock(ct), NEW r, Sound(r, ct), NEW num \in DOMAIN r.loans
    PROVE  LET q == process_expired_loan(r, num, ct).rex IN Goes(r, q, 0, ct) /\ Still(r, q)
<1> DEFINE loan   == r.loans[num]
           back   == [r EXCEPT !.pool = remove_loan_from_rex_pool(r.pool, loan)]
           rented == RentedTokens(back.pool, loan.payment)
<1>1. process_expired_loan(r, num, ct)
        = IF Renewable(back, loan, rented) THEN RenewLoan(back, num, loan, rented, ct)
          ELSE CloseLoan(back, num, loan)
    BY Zenon DEF process_expired_loan, AfterReturn, RenewOrClose
<1>2. CASE Renewable(back, loan, rented)
  <2> HIDE DEF back, rented
  <2>1. LET q == RenewLoan(back, num, loan, rented, ct).rex IN Goes(r, q, 0, ct) /\ Still(r, q)
      BY <1>2, RenewedGoes DEF back, rented
  <2> QED BY <1>1, <1>2, <2>1
<1>3. CASE ~ Renewable(back, loan, rented)
  <2>1. LET q == CloseLoan(back, num, loan).rex IN Goes(r, q, 0, ct) /\ Still(r, q)
      BY ClosedGoes
  <2> HIDE DEF back, rented
  <2> QED BY <1>1, <1>3, <2>1
<1> QED BY <1>2, <1>3

\* Of loans of a kind that have expired, one is the first.
LEMMA FirstIsExpired ==
    ASSUME NEW ct, NEW r, Sound(r, ct), NEW kind, Expired(r, kind, ct) # {}
    PROVE  FirstExpired(r, kind, ct) \in Expired(r, kind, ct) /\ FirstExpired(r, kind, ct) \in DOMAIN r.loans
<1> DEFINE S == Expired(r, kind, ct)
           Sooner(n, k) == \/ r.loans[n].expiration < r.loans[k].expiration
                           \/ r.loans[n].expiration = r.loans[k].expiration /\ n < k
           R == {p \in S \X S : Sooner(p[1], p[2])}
<1>1. /\ IsFiniteSet(S) /\ S \subseteq DOMAIN r.loans /\ S # {}
      /\ \A n \in S : n \in Int /\ r.loans[n].expiration \in Int
  <2>1. S \subseteq DOMAIN r.loans
      BY DEF Expired
  <2>2. IsFiniteSet(DOMAIN r.loans) /\ \A n \in DOMAIN r.loans : n \in Int /\ r.loans[n].expiration \in Int
      BY DEF Sound, LoansSound, LoanSound
  <2> QED BY <2>1, <2>2, FS_Subset
<1>2. \A n, k \in S : <<n, k>> \in R <=> Sooner(n, k)
    OBVIOUS
<1>3. FirstExpired(r, kind, ct) = CHOOSE n \in S : \A k \in S \ {n} : Sooner(n, k)
    BY Zenon DEF FirstExpired
<1> HIDE DEF S, R
<1>4. Ordered(S, R)
  <2>1. \A n \in S : <<n, n>> \notin R
      BY <1>1, <1>2
  <2>2. \A n, k, m \in S : <<n, k>> \in R /\ <<k, m>> \in R => <<n, m>> \in R
    <3> SUFFICES ASSUME NEW n \in S, NEW k \in S, NEW m \in S, <<n, k>> \in R, <<k, m>> \in R
                 PROVE  <<n, m>> \in R
        OBVIOUS
    <3>1. Sooner(n, k) /\ Sooner(k, m)
        BY <1>2
    <3>2. Sooner(n, m)
        BY <1>1, <3>1
    <3> QED BY <1>2, <3>2
  <2>3. \A n, k \in S : n = k \/ <<n, k>> \in R \/ <<k, n>> \in R
    <3> SUFFICES ASSUME NEW n \in S, NEW k \in S, n # k PROVE <<n, k>> \in R \/ <<k, n>> \in R
        OBVIOUS
    <3>1. Sooner(n, k) \/ Sooner(k, n)
        BY <1>1
    <3> QED BY <1>2, <3>1
  <2> QED BY <2>1, <2>2, <2>3 DEF Ordered
<1>5. \E n \in S : \A k \in S \ {n} : Sooner(n, k)
  <2>1. PICK n \in S : \A k \in S \ {n} : <<n, k>> \in R
      BY <1>1, <1>4, FirstExists
  <2> QED BY <1>2, <2>1
<1>6. FirstExpired(r, kind, ct) \in S
    BY <1>3, <1>5
<1> QED BY <1>1, <1>6 DEF S

\* A loan changes what is in its balance.
LEMMA LoanFundedGoes ==
    ASSUME NEW ct, Clock(ct), NEW r, Sound(r, ct), NEW num \in DOMAIN r.loans,
           NEW amount \in Int, r.loans[num].balance + amount >= 0
    PROVE  LET q == LoanFunded(r, num, amount) IN Goes(r, q, amount, ct) /\ Still(r, q)
<1> DEFINE loan == r.loans[num]
           new  == [loan EXCEPT !.balance = loan.balance + amount]
           q    == LoanFunded(r, num, amount)
<1>1. DOMAIN r = RexFields /\ PoolSound(r.pool) /\ LoansSound(r)
    BY DEF Sound
<1>2. LoanSound(loan) /\ num \in Nat /\ num =< r.pool.loan_num
    BY <1>1, LoanIsLent
<1>3. /\ LoanSound(new) /\ new.balance = loan.balance + amount /\ new.total_staked = loan.total_staked
    BY <1>2 DEF LoanSound, LoanFields
<1>4. q = [r EXCEPT !.loans = [r.loans EXCEPT ![num] = new]]
    BY DEF LoanFunded
<1> HIDE DEF new, q
<1>5. /\ DOMAIN q = RexFields /\ q.pool = r.pool /\ q.ret = r.ret /\ q.buckets = r.buckets
      /\ q.funds = r.funds /\ q.balances = r.balances /\ q.loans = Put(r.loans, num, new)
      /\ q.orders = r.orders
    BY <1>1, <1>4, ModifyPuts DEF RexFields
<1>6. FieldAt(r.loans, num, "total_staked") = loan.total_staked
      /\ FieldAt(r.loans, num, "balance") = loan.balance
    BY DEF FieldAt
<1> HIDE DEF loan
<1>7. /\ LoansSound(q) /\ Sum(r.loans, "balance") \in Nat
      /\ Sum(q.loans, "balance") = Sum(r.loans, "balance") - loan.balance + (loan.balance + amount)
  <2>1. /\ r.pool.loan_num \in Nat /\ r.pool.total_lent \in Nat /\ loan.total_staked \in Nat
        /\ loan.balance \in Nat
      BY <1>1, <1>2 DEF PoolSound, LoanSound
  <2>2. /\ num =< q.pool.loan_num /\ q.pool.loan_num \in Nat /\ r.pool.loan_num =< q.pool.loan_num
        /\ q.pool.total_lent = r.pool.total_lent - FieldAt(r.loans, num, "total_staked") + new.total_staked
      BY <1>2, <1>3, <1>5, <1>6, <2>1
  <2>3. /\ LoansSound(q) /\ Sum(r.loans, "balance") \in Nat
        /\ Sum(q.loans, "balance")
             = Sum(r.loans, "balance") - FieldAt(r.loans, num, "balance") + new.balance
    <3>1. num \in Nat /\ LoanSound(new) /\ q.loans = Put(r.loans, num, new) /\ r.pool.loan_num \in Nat
          /\ LoansSound(r)
        BY <1>1, <1>2, <1>3, <1>5, <2>1
    <3> QED BY <2>2, <3>1, LoanPut
  <2> QED BY <1>3, <1>6, <2>3
<1>8. /\ PoolSound(q.pool) /\ OwnersSound(q) /\ OrdersSound(q) /\ NatTable(q.funds)
      /\ Dearer(r.pool, q.pool)
    BY <1>5, SameIsDearer DEF Sound, OwnersSound, OrdersSound
<1>9. Holdings(q) = Holdings(r) + amount
  <2> DEFINE f == Total(r.funds)
             b == Sum(r.loans, "balance")
             c == Sum(q.loans, "balance")
             o == Sum(r.orders, "proceeds")
             l == r.pool.total_lendable
             v == loan.balance
  <2>1. f \in Nat /\ o \in Nat /\ l \in Nat /\ b \in Nat /\ v \in Nat /\ c = b - v + (v + amount)
      BY <1>2, <1>7, SoundSums DEF LoanSound
  <2>2. Holdings(q) = f + c + l + o /\ Holdings(r) = f + b + l + o
      BY <1>5 DEF Holdings
  <2> HIDE DEF f, b, c, o, l, v
  <2>3. f + c + l + o = f + b + l + o + amount
      BY <2>1
  <2> QED BY <2>2, <2>3
<1>10. Goes(r, q, amount, ct)
    BY <1>5, <1>7, <1>8, <1>9, TablesChanged
<1>11. Still(r, q)
    BY <1>5 DEF Still, OpenOrders, Covered
<1> QED BY <1>10, <1>11 DEF q

\* Tokens are lent and a loan is made.
LEMMA LentGoes ==
    ASSUME NEW ct, Clock(ct), NEW r, Sound(r, ct), r.pool.total_rex > 0, NEW payment \in Nat,
           NEW rented \in Nat \ {0}, rented =< r.pool.total_unlent, NEW loan, LoanSound(loan),
           loan.total_staked = rented
    PROVE  LET q == AddLoan([r EXCEPT !.pool = Lent(r.pool, payment, rented, TRUE)], loan)
           IN  Goes(r, q, loan.balance, ct) /\ Still(r, q)
<1> DEFINE fresh == TRUE
           p == Lent(r.pool, payment, rented, fresh)
           num == r.pool.loan_num + 1
           s == [r EXCEPT !.pool = p]
           q == AddLoan(s, loan)
<1>1. DOMAIN r = RexFields /\ PoolSound(r.pool) /\ LoansSound(r) /\ r.pool.loan_num \in Nat
      /\ r.pool.total_lent \in Nat
    BY DEF Sound, PoolSound
<1>2. /\ PoolSound(p) /\ p.total_lent = r.pool.total_lent + rented
      /\ p.total_lendable = r.pool.total_lendable /\ p.total_rex = r.pool.total_rex
      /\ p.loan_num = num
  <2>1. fresh \in BOOLEAN
      OBVIOUS
  <2> HIDE DEF fresh
  <2>2. LET q1 == Lent(r.pool, payment, rented, fresh)
        IN  /\ PoolSound(q1) /\ q1.total_lent = r.pool.total_lent + rented
            /\ q1.total_lendable = r.pool.total_lendable /\ q1.total_rex = r.pool.total_rex
            /\ q1.loan_num = IF fresh THEN r.pool.loan_num + 1 ELSE r.pool.loan_num
      BY <1>1, <2>1, PoolLends
  <2> QED BY <2>2 DEF fresh
<1> HIDE DEF p
<1>3. /\ DOMAIN q = RexFields /\ q.pool = p /\ q.ret = r.ret /\ q.buckets = r.buckets
      /\ q.funds = r.funds /\ q.balances = r.balances /\ q.loans = Put(r.loans, num, loan)
      /\ q.orders = r.orders
    BY <1>1, <1>2 DEF RexFields, AddLoan
<1> HIDE DEF q, s
<1>4. num \notin DOMAIN r.loans /\ num \in Nat
    BY <1>1 DEF LoansSound
<1>5. FieldAt(r.loans, num, "total_staked") = 0 /\ FieldAt(r.loans, num, "balance") = 0
    BY <1>4 DEF FieldAt
<1>6. r.pool.loan_num =< num /\ num =< num
    BY <1>1
<1> HIDE DEF num
<1>7. /\ LoansSound(q) /\ Sum(r.loans, "balance") \in Nat
      /\ Sum(q.loans, "balance") = Sum(r.loans, "balance") - 0 + loan.balance
  <2>1. q.pool.total_lent = r.pool.total_lent - FieldAt(r.loans, num, "total_staked") + loan.total_staked
      BY <1>1, <1>2, <1>3, <1>5
  <2>2. /\ LoansSound(q) /\ Sum(r.loans, "balance") \in Nat
        /\ Sum(q.loans, "balance")
             = Sum(r.loans, "balance") - FieldAt(r.loans, num, "balance") + loan.balance
      BY <1>1, <1>2, <1>3, <1>4, <1>6, <2>1, LoanPut
  <2> QED BY <1>5, <2>2
<1>8. /\ OwnersSound(q) /\ OrdersSound(q) /\ NatTable(q.funds)
    BY <1>2, <1>3 DEF Sound, OwnersSound, OrdersSound
<1>9. Holdings(q) = Holdings(r) + loan.balance
  <2> DEFINE f == Total(r.funds)
             b == Sum(r.loans, "balance")
             c == Sum(q.loans, "balance")
             o == Sum(r.orders, "proceeds")
             l == r.pool.total_lendable
             v == loan.balance
  <2>1. f \in Nat /\ o \in Nat /\ l \in Nat /\ b \in Nat /\ v \in Nat /\ c = b - 0 + v
      BY <1>7, SoundSums DEF LoanSound
  <2>2. Holdings(q) = f + c + l + o /\ Holdings(r) = f + b + l + o
      BY <1>2, <1>3 DEF Holdings
  <2> HIDE DEF f, b, c, o, l, v
  <2>3. f + c + l + o = f + b + l + o + v
      BY <2>1
  <2> QED BY <2>2, <2>3 DEF v
<1>10. Dearer(r.pool, q.pool)
  <2>1. q.pool.total_lendable >= r.pool.total_lendable
      BY <1>1, <1>2, <1>3 DEF PoolSound
  <2> QED BY <1>1, <1>2, <1>3, <2>1, MoreIsDearer
<1>11. loan.balance \in Int
    BY DEF LoanSound
<1>12. Goes(r, q, loan.balance, ct)
    BY <1>2, <1>3, <1>7, <1>8, <1>9, <1>10, <1>11, TablesChanged
<1>13. Still(r, q)
    BY <1>2, <1>3 DEF Still, OpenOrders, Covered
<1> QED BY <1>12, <1>13 DEF q, s, p, fresh

\* A rental: the payment becomes a return, the fund the balance of the loan.
LEMMA RentGoes ==
    ASSUME NEW ct, Clock(ct), NEW r, Sound(r, ct), rex_loans_available(r), NEW x,
           NEW payment \in Nat \ {0}, NEW fund \in Nat, CanTransferFromFund(r, x, payment + fund),
           NEW rented, rented = RentedTokens(r.pool, payment), payment < rented,
           NEW loan, DOMAIN loan = LoanFields, loan.payment = payment, loan.balance = fund,
           loan.total_staked = rented, loan.expiration \in Int,
           loan.receiver \in Users, loan.kind \in Kinds
    PROVE  LET q == AddLoan(add_loan_to_rex_pool(transfer_from_fund(r, x, payment + fund),
                                                 payment, rented, TRUE, ct), loan)
           IN  Goes(r, q, 0, ct) /\ Still(r, q)
<1> DEFINE both == payment + fund
           r1 == transfer_from_fund(r, x, both)
           r2 == add_to_rex_return_pool(r1, payment, ct)
           q  == AddLoan(add_loan_to_rex_pool(r1, payment, rented, TRUE, ct), loan)
<1>0. both \in Nat /\ - both \in Int /\ (- both + payment) + fund = 0 /\ - both + payment \in Int
    OBVIOUS
<1> HIDE DEF both
<1>1. Goes(r, r1, - both, ct) /\ Still(r, r1)
    BY <1>0, FundGoes DEF both
<1>2. r1.pool = r.pool /\ DOMAIN r1 = RexFields
    BY DEF transfer_from_fund, Sound, RexFields
<1>3. Sound(r1, ct)
    BY <1>1 DEF Goes
<1> HIDE DEF r1
<1>4. Returned(r1, r2, payment, ct)
    BY <1>3, AddReturned DEF Sound
<1> HIDE DEF r2
<1>5. Goes(r1, r2, payment, ct) /\ Still(r1, r2)
    BY <1>3, <1>4, ReturnedGoes
<1>6. Sound(r2, ct)
    BY <1>5 DEF Goes
<1>7. rented \in Nat \ {0} /\ rented =< r.pool.total_unlent /\ r.pool.total_rex > 0
  <2>1. PoolSound(r.pool)
      BY DEF Sound
  <2>2. rented \in Nat /\ rented =< r.pool.total_unlent
      BY <2>1, RentedIsThere
  <2> QED BY <2>2 DEF rex_loans_available, rex_available
<1>8. rented =< r2.pool.total_unlent /\ r2.pool.total_rex > 0
  <2>1. PoolSound(r.pool) /\ PoolSound(r2.pool)
      BY <1>6 DEF Sound
  <2> QED BY <1>2, <1>4, <1>7, <2>1 DEF Returned, SamePool, PoolSound
<1>9. LoanSound(loan)
    BY <1>7 DEF LoanSound
<1>10. q = AddLoan([r2 EXCEPT !.pool = Lent(r2.pool, payment, rented, TRUE)], loan)
    BY DEF add_loan_to_rex_pool, r2
<1> HIDE DEF q
<1>11. Goes(r2, q, fund, ct) /\ Still(r2, q)
    BY <1>6, <1>7, <1>8, <1>9, <1>10, LentGoes
<1>12. Goes(r, r2, - both + payment, ct)
    BY <1>0, <1>1, <1>5, GoesTransitive
<1>13. Goes(r, q, (- both + payment) + fund, ct)
    BY <1>0, <1>11, <1>12, GoesTransitive
<1>14. Goes(r, q, 0, ct)
    BY <1>0, <1>13, Zenon
<1>15. Still(r, q)
    BY <1>1, <1>5, <1>11, StillTransitive
<1> QED BY <1>14, <1>15 DEF q, r1, both

-----------------------------------------------------------------------------
\* Other changes of the tables.
\*
\* Fields of the pool that no table is summed up in.
LEMMA PoolChanged ==
    ASSUME NEW ct, Clock(ct), NEW r, Sound(r, ct), NEW p, PoolSound(p),
           p.total_lent = r.pool.total_lent, p.total_lendable = r.pool.total_lendable,
           p.total_rex = r.pool.total_rex, p.loan_num = r.pool.loan_num
    PROVE  LET q == [r EXCEPT !.pool = p] IN Goes(r, q, 0, ct) /\ Still(r, q)
<1> DEFINE q == [r EXCEPT !.pool = p]
<1>1. /\ DOMAIN q = RexFields /\ q.pool = p /\ q.ret = r.ret /\ q.buckets = r.buckets
      /\ q.funds = r.funds /\ q.balances = r.balances /\ q.loans = r.loans /\ q.orders = r.orders
    BY DEF Sound, RexFields
<1> HIDE DEF q
<1>2. /\ PoolSound(q.pool) /\ OwnersSound(q) /\ LoansSound(q) /\ OrdersSound(q) /\ NatTable(q.funds)
    BY <1>1 DEF Sound, OwnersSound, LoansSound, OrdersSound
<1>3. Holdings(q) = Holdings(r) + 0
  <2>1. Holdings(q) = Holdings(r)
      BY <1>1 DEF Holdings
  <2> QED BY <2>1, HoldingsType
<1>4. Dearer(r.pool, q.pool)
  <2>1. PoolSound(r.pool) /\ q.pool.total_lendable >= r.pool.total_lendable
      BY <1>1 DEF Sound, PoolSound
  <2> QED BY <1>1, <1>2, <2>1, MoreIsDearer
<1>5. Goes(r, q, 0, ct)
    BY <1>1, <1>2, <1>3, <1>4, TablesChanged
<1>6. Still(r, q)
    BY <1>1 DEF Still, OpenOrders, Covered
<1> QED BY <1>5, <1>6 DEF q

\* The order that waits is cancelled.
LEMMA CancelGoes ==
    ASSUME NEW ct, Clock(ct), NEW r, Sound(r, ct), NEW x \in OpenOrders(r)
    PROVE  LET q == [r EXCEPT !.orders = Erase(r.orders, x)] IN Goes(r, q, 0, ct) /\ Still(r, q)
<1> DEFINE q == [r EXCEPT !.orders = Erase(r.orders, x)]
<1>1. /\ Goes(r, q, 0 - FieldAt(r.orders, x, "proceeds"), ct)
      /\ q.pool = r.pool /\ q.balances = r.balances /\ q.orders = Erase(r.orders, x)
    BY OrderErased
<1> HIDE DEF q
<1>2. FieldAt(r.orders, x, "proceeds") = 0
    BY DEF FieldAt, OpenOrders, Sound, OrdersSound, OrderSound
<1>3. 0 - FieldAt(r.orders, x, "proceeds") = 0
    BY <1>2
<1>4. Goes(r, q, 0, ct)
    BY <1>1, <1>3, Zenon
<1>5. OpenOrders(q) \subseteq OpenOrders(r) /\ \A y \in OpenOrders(q) : q.orders[y] = r.orders[y]
    BY <1>1 DEF OpenOrders, Erase
<1>6. Still(r, q)
    BY <1>1, <1>5 DEF Still, Covered
<1> QED BY <1>4, <1>6 DEF q

\* What the owner of a filled order collects, together with proceeds.
LEMMA CollectGoes ==
    ASSUME NEW ct, Clock(ct), NEW r, Sound(r, ct), NEW x, NEW proceeds \in Nat
    PROVE  LET q == CollectOrder(r, x, proceeds + FilledOrder(r, x).proceeds)
           IN  /\ Goes(r, q, proceeds, ct) /\ Still(r, q)
               /\ q.pool = r.pool /\ q.balances = r.balances
               /\ q.orders = IF x \in OpenOrders(r) THEN r.orders ELSE Erase(r.orders, x)
<1> DEFINE was == FieldAt(r.orders, x, "proceeds")
           brought == FilledOrder(r, x).proceeds
           all == proceeds + brought
           s == [r EXCEPT !.orders = IF x \in OpenOrders(r) THEN @ ELSE Erase(@, x)]
           q == CollectOrder(r, x, all)
<1>1. was \in Nat
    BY OrderBrought
<1>2. brought = was
    BY DEF FilledOrder, FieldAt, OpenOrders, Sound, OrdersSound, OrderSound
<1>3. q = CollectInFund(s, x, all)
    BY DEF CollectOrder
<1>4. /\ IntField(r.orders, "proceeds") /\ Sum(r.orders, "proceeds") \in Nat
      /\ DOMAIN r.orders \subseteq Users /\ \A y \in DOMAIN r.orders : OrderSound(r.orders[y])
    BY OrderBrought
<1> HIDE DEF brought
<1>5. /\ Goes(r, s, 0 - brought, ct) /\ s.pool = r.pool /\ s.balances = r.balances
      /\ s.orders = IF x \in OpenOrders(r) THEN r.orders ELSE Erase(r.orders, x)
  <2> DEFINE t == IF x \in OpenOrders(r) THEN r.orders ELSE Erase(r.orders, x)
             d == 0 - brought
  <2>1. Sum(t, "proceeds") = Sum(r.orders, "proceeds") + d
    <3>1. CASE x \in OpenOrders(r)
      <4>1. was = 0
          BY <3>1 DEF FieldAt, OpenOrders, Sound, OrdersSound, OrderSound
      <4> QED BY <1>2, <1>4, <3>1, <4>1
    <3>2. CASE x \notin OpenOrders(r)
      <4>1. Sum(Erase(r.orders, x), "proceeds") = Sum(r.orders, "proceeds") - was
          BY <1>4, FieldErase
      <4> HIDE DEF was
      <4> QED BY <1>1, <1>2, <1>4, <3>2, <4>1
    <3> QED BY <3>1, <3>2
  <2>2. DOMAIN t \subseteq Users /\ \A y \in DOMAIN t : OrderSound(t[y])
      BY <1>4 DEF Erase
  <2>3. s = [r EXCEPT !.orders = t]
      OBVIOUS
  <2> HIDE DEF s, t, was
  <2>4. d \in Int
      BY <1>1, <1>2
  <2> HIDE DEF d
  <2>5. LET u == [r EXCEPT !.orders = t]
        IN  Goes(r, u, d, ct) /\ u.pool = r.pool /\ u.balances = r.balances /\ u.orders = t
      BY <2>1, <2>2, <2>4, OrdersChanged
  <2> QED BY <2>3, <2>5 DEF t, d
<1> HIDE DEF s, was
<1>6. Still(r, s)
    BY <1>5 DEF Still, OpenOrders, Covered, Erase
<1>7. all \in Nat /\ 0 - brought \in Int /\ (0 - brought) + all = proceeds
    BY <1>1, <1>2
<1> HIDE DEF all
<1>8. Sound(s, ct)
    BY <1>5 DEF Goes
<1>9. Goes(s, q, all, ct) /\ Still(s, q)
    BY <1>3, <1>7, <1>8, FundGoes
<1>10. Goes(r, q, (0 - brought) + all, ct)
    BY <1>5, <1>7, <1>9, GoesTransitive
<1>11. Goes(r, q, proceeds, ct)
    BY <1>7, <1>10, Zenon
<1>12. Still(r, q)
    BY <1>6, <1>9, StillTransitive
<1>13. q.pool = s.pool /\ q.balances = s.balances /\ q.orders = s.orders
    BY <1>3, <1>8 DEF CollectInFund, transfer_to_fund, Sound, RexFields
<1> QED BY <1>5, <1>11, <1>12, <1>13 DEF q, all, brought

\* An order of x comes in, or grows; the orders of others were covered, and that
\* of x is afterwards.
LEMMA QueueGoes ==
    ASSUME NEW r, now \in Nat, Clock(now), Sound(r, now), NEW x \in Users, NEW amount \in Nat \ {0}
    PROVE  /\ Goes(r, Queue(r, x, amount), 0, now)
           /\ Queue(r, x, amount).balances = r.balances /\ Queue(r, x, amount).pool = r.pool
           /\ (/\ x \in DOMAIN r.balances
               /\ \A y \in OpenOrders(r) \ {x} :
                      y \in DOMAIN r.balances /\ r.orders[y].rex_requested =< r.balances[y].matured_rex
               /\ SellOrder(r, x) + amount =< r.balances[x].matured_rex)
              => Covered(Queue(r, x, amount))
<1> DEFINE order == IF x \in DOMAIN r.orders
                    THEN [r.orders[x] EXCEPT !.rex_requested = @ + amount]
                    ELSE [rex_requested |-> amount, is_open |-> TRUE, proceeds |-> 0,
                          stake_change |-> 0, order_time |-> now]
           q == Queue(r, x, amount)
<1>1. q = [r EXCEPT !.orders = Put(r.orders, x, order)]
    BY DEF Queue
<1>2. x \in DOMAIN r.orders =>
          /\ OrderSound(r.orders[x]) /\ order.rex_requested = r.orders[x].rex_requested + amount
          /\ order.is_open = r.orders[x].is_open /\ order.proceeds = r.orders[x].proceeds
          /\ order.order_time = r.orders[x].order_time /\ DOMAIN order = OrderFields
          /\ order.stake_change \in Int
    BY DEF Sound, OrdersSound, OrderSound, OrderFields
<1>3. x \notin DOMAIN r.orders =>
          /\ order.rex_requested = amount /\ order.proceeds = 0 /\ order.order_time = now
          /\ order.is_open = TRUE /\ DOMAIN order = OrderFields /\ order.stake_change \in Int
    BY DEF OrderFields
<1> HIDE DEF order, q
<1>4. OrderSound(order)
  <2>1. CASE x \in DOMAIN r.orders
      BY <1>2, <2>1 DEF OrderSound
  <2>2. CASE x \notin DOMAIN r.orders
    <3>1. order.is_open \in BOOLEAN
        BY <1>3, <2>2, Zenon
    <3>2. order.proceeds \in Nat /\ order.proceeds = 0 /\ order.order_time \in Int
        BY <1>3, <2>2
    <3>3. order.rex_requested \in Nat \ {0}
        BY <1>3, <2>2
    <3> QED BY <1>3, <2>2, <3>1, <3>2, <3>3 DEF OrderSound
  <2> QED BY <2>1, <2>2
<1>5. order.proceeds - FieldAt(r.orders, x, "proceeds") = 0
    BY <1>2, <1>3 DEF FieldAt, OrderSound
<1>6. /\ Goes(r, q, order.proceeds - FieldAt(r.orders, x, "proceeds"), now)
      /\ q.pool = r.pool /\ q.balances = r.balances /\ q.orders = Put(r.orders, x, order)
    BY <1>1, <1>4, OrderGoes
<1>7. Goes(r, q, 0, now)
    BY <1>5, <1>6, Zenon
<1>8. ASSUME x \in DOMAIN r.balances,
             \A y \in OpenOrders(r) \ {x} :
                 y \in DOMAIN r.balances /\ r.orders[y].rex_requested =< r.balances[y].matured_rex,
             SellOrder(r, x) + amount =< r.balances[x].matured_rex
      PROVE  Covered(q)
  <2>1. ASSUME NEW y \in OpenOrders(q), y # x
        PROVE  y \in DOMAIN q.balances /\ q.orders[y].rex_requested =< q.balances[y].matured_rex
    <3>1. y \in OpenOrders(r) /\ q.orders[y] = r.orders[y]
        BY <1>6, <2>1 DEF OpenOrders, Put
    <3> QED BY <1>6, <1>8, <2>1, <3>1
  <2>2. ASSUME x \in OpenOrders(q)
        PROVE  x \in DOMAIN q.balances /\ q.orders[x].rex_requested =< q.balances[x].matured_rex
    <3>1. q.orders[x] = order /\ order.is_open
        BY <1>6, <2>2 DEF OpenOrders, Put
    <3>2. order.rex_requested = SellOrder(r, x) + amount
      <4>1. CASE x \in DOMAIN r.orders
          BY <1>2, <3>1, <4>1 DEF SellOrder, OpenOrders
      <4>2. CASE x \notin DOMAIN r.orders
          BY <1>3, <4>2 DEF SellOrder, OpenOrders
      <4> QED BY <4>1, <4>2
    <3> QED BY <1>6, <1>8, <3>1, <3>2
  <2> QED BY <2>1, <2>2 DEF Covered
<1> QED BY <1>6, <1>7, <1>8 DEF q

\* The fund and the balance of x go, if there is nothing in them.
LEMMA CloseGoes ==
    ASSUME NEW ct, Clock(ct), NEW r, Sound(r, ct), NEW x,
           x \in DOMAIN r.balances => r.balances[x].rex_balance = 0
    PROVE  LET q == [r EXCEPT !.funds = IF Unused(r, x) THEN Erase(@, x) ELSE @,
                              !.balances = Erase(@, x)]
           IN  Goes(r, q, 0, ct) /\ (Covered(r) => Covered(q))
<1> DEFINE t == IF Unused(r, x) THEN Erase(r.funds, x) ELSE r.funds
           q == [r EXCEPT !.funds = t, !.balances = Erase(r.balances, x)]
<1>1. /\ DOMAIN q = RexFields /\ q.pool = r.pool /\ q.ret = r.ret /\ q.buckets = r.buckets
      /\ q.funds = t /\ q.balances = Erase(r.balances, x) /\ q.loans = r.loans /\ q.orders = r.orders
    BY DEF Sound, RexFields
<1>2. /\ NatTable(r.funds) /\ OwnersSound(r) /\ PoolSound(r.pool) /\ Total(r.funds) \in Nat
      /\ IntTable(r.funds)
    BY SoundSums DEF Sound
<1>3. NatTable(t) /\ Total(t) = Total(r.funds)
  <2>1. CASE Unused(r, x)
    <3>1. t = Erase(r.funds, x) /\ At(r.funds, x) = 0
        BY <2>1 DEF Unused, At
    <3>2. Total(t) = Total(r.funds) - 0
        BY <1>2, <3>1, TotalErase
    <3>3. IsFiniteSet(DOMAIN r.funds \ {x})
        BY <1>2, FS_Subset DEF NatTable
    <3>4. NatTable(t)
        BY <1>2, <3>1, <3>3 DEF NatTable, Erase
    <3> QED BY <1>2, <3>2, <3>4
  <2>2. CASE ~ Unused(r, x)
      BY <1>2, <2>2
  <2> QED BY <2>1, <2>2
<1>4. OwnersSound(q)
  <2>1. IsFiniteSet(DOMAIN r.balances \ {x})
      BY <1>2, FS_Subset DEF OwnersSound
  <2>2. IsFiniteSet(DOMAIN q.balances) /\ \A y \in DOMAIN q.balances : BalanceSound(q.balances[y])
      BY <1>1, <1>2, <2>1 DEF OwnersSound, Erase
  <2>3. IntField(r.balances, "rex_balance") /\ Sum(r.balances, "rex_balance") \in Nat
      BY SoundSums
  <2>4. FieldAt(r.balances, x, "rex_balance") = 0
      BY DEF FieldAt
  <2>5. Sum(q.balances, "rex_balance") = Sum(r.balances, "rex_balance") - 0
      BY <1>1, <2>3, <2>4, FieldErase
  <2> QED BY <1>1, <1>2, <2>2, <2>3, <2>5 DEF OwnersSound
<1> HIDE DEF q, t
<1>5. /\ PoolSound(q.pool) /\ LoansSound(q) /\ OrdersSound(q) /\ NatTable(q.funds)
      /\ Dearer(r.pool, q.pool)
    BY <1>1, <1>3, SameIsDearer DEF Sound, LoansSound, OrdersSound
<1>6. Holdings(q) = Holdings(r) + 0
  <2>1. Holdings(q) = Holdings(r)
      BY <1>1, <1>3 DEF Holdings
  <2> QED BY <2>1, HoldingsType
<1>7. Goes(r, q, 0, ct)
    BY <1>1, <1>4, <1>5, <1>6, TablesChanged
<1>8. Covered(r) => Covered(q)
  <2>1. ASSUME Covered(r), NEW y \in OpenOrders(q)
        PROVE  y \in DOMAIN q.balances /\ q.orders[y].rex_requested =< q.balances[y].matured_rex
    <3>1. /\ y \in DOMAIN r.balances /\ q.orders[y].rex_requested =< r.balances[y].matured_rex
          /\ q.orders[y].rex_requested \in Nat \ {0}
        BY <1>1, <2>1 DEF Covered, OpenOrders, Sound, OrdersSound, OrderSound
    <3>2. r.balances[y].matured_rex \in Nat /\ r.balances[y].matured_rex =< r.balances[y].rex_balance
        BY <1>2, <3>1, OwnsNoMore
    <3>3. y # x
        BY <3>1, <3>2
    <3> QED BY <1>1, <3>1, <3>3 DEF Erase
  <2> QED BY <2>1 DEF Covered
<1> QED BY <1>7, <1>8 DEF q, t

\* What an owner's REX is worth.
LEMMA OwnedWorth ==
    ASSUME NEW ct, NEW r, Sound(r, ct), NEW x \in DOMAIN r.balances, r.pool.total_rex > 0
    PROVE  WorthOf(r.pool, r.balances[x].rex_balance) \in Int
<1>1. r.balances[x].rex_balance \in Int
    BY OwnsNoMore DEF Sound
<1>2. r.pool.total_rex \in Nat \ {0} /\ r.pool.total_lendable \in Int
    BY DEF Sound, PoolSound
<1> QED BY <1>1, <1>2, WorthType

\* The stake that the REX of an owner counts as.
LEMMA StakeGoes ==
    ASSUME NEW ct, Clock(ct), NEW r, Sound(r, ct), NEW x \in DOMAIN r.balances, NEW stake \in Int
    PROVE  LET q == [r EXCEPT !.balances[x].vote_stake = stake] IN Goes(r, q, 0, ct) /\ Still(r, q)
<1> DEFINE b == r.balances[x]
           c == [b EXCEPT !.vote_stake = stake]
           q == [r EXCEPT !.balances[x].vote_stake = stake]
<1>1. BalanceSound(b)
    BY DEF Sound, OwnersSound
<1>2. BalanceSound(c) /\ c.rex_balance = b.rex_balance /\ c.matured_rex = b.matured_rex
    BY <1>1 DEF BalanceSound, BalanceFields, HeldBy
<1>3. q = [r EXCEPT !.balances[x] = c]
    OBVIOUS
<1> HIDE DEF c, q
<1>4. Goes(r, q, 0, ct) /\ ((x \in OpenOrders(r) => r.orders[x].rex_requested =< c.matured_rex) => Still(r, q))
    BY <1>2, <1>3, BalanceGoes
<1>5. Still(r, q)
  <2>1. CASE Covered(r)
      BY <1>2, <1>4, <2>1 DEF Covered
  <2>2. CASE ~ Covered(r)
    <3>1. CASE x \in OpenOrders(r)
        BY <2>2, <3>1, <1>3 DEF Still, OpenOrders, Sound, RexFields
    <3>2. CASE x \notin OpenOrders(r)
        BY <1>4, <3>2
    <3> QED BY <3>1, <3>2
  <2> QED BY <2>1, <2>2
<1> QED BY <1>4, <1>5 DEF q

-----------------------------------------------------------------------------
(* The exchange within a world.  A helper may change the tables of the     *)
(* exchange before the tokens come, or after.                              *)

\* What the exchange's account holds.
Coins(w) == w.core[rex_account]

\* A world whose exchange is sound.
Booked(w, ct) ==
    DOMAIN w = WorldFields /\ DOMAIN w.core = Holders /\ Coins(w) \in Int /\ Sound(w.rex, ct)

\* After w comes u, with d tokens in the exchange's books that its account has
\* not received.
Comes(w, u, d, ct) ==
    /\ DOMAIN u = WorldFields /\ DOMAIN u.core = Holders /\ Coins(u) \in Int
    /\ Goes(w.rex, u.rex, (Coins(u) - Coins(w)) + d, ct) /\ Still(w.rex, u.rex)

\* The world that comes is sound again.
LEMMA ComesBooked ==
    ASSUME NEW ct, NEW w, NEW u, NEW d, Comes(w, u, d, ct)
    PROVE  Booked(u, ct) /\ (Covered(w.rex) => Covered(u.rex))
BY DEF Comes, Booked, Goes, Still

\* Helpers one after another.
LEMMA ComesTransitive ==
    ASSUME NEW ct, Clock(ct), NEW w, Booked(w, ct), NEW u, NEW v, NEW d \in Int, NEW e \in Int,
           Comes(w, u, d, ct), Comes(u, v, e, ct)
    PROVE  Comes(w, v, d + e, ct)
<1> DEFINE a == Coins(w)
           b == Coins(u)
           c == Coins(v)
           k == (b - a) + d
           l == (c - b) + e
<1>1. a \in Int /\ b \in Int /\ c \in Int
    BY DEF Booked, Comes
<1>2. Sound(w.rex, ct) /\ Goes(w.rex, u.rex, k, ct) /\ Goes(u.rex, v.rex, l, ct)
    BY DEF Booked, Comes
<1>3. Still(w.rex, v.rex)
    BY StillTransitive DEF Comes
<1> HIDE DEF a, b, c
<1>4. k \in Int /\ l \in Int /\ k + l = (c - a) + (d + e)
    BY <1>1
<1> HIDE DEF k, l
<1>5. Goes(w.rex, v.rex, k + l, ct)
    BY <1>2, <1>4, GoesTransitive
<1>6. Goes(w.rex, v.rex, (c - a) + (d + e), ct)
    BY <1>4, <1>5, Zenon
<1> QED BY <1>3, <1>6 DEF Comes, a, c

\* One of them with nothing outstanding.
LEMMA ComesThen ==
    ASSUME NEW ct, Clock(ct), NEW w, Booked(w, ct), NEW u, NEW v, NEW d \in Int
    PROVE  /\ Comes(w, u, d, ct) /\ Comes(u, v, 0, ct) => Comes(w, v, d, ct)
           /\ Comes(w, u, 0, ct) /\ Comes(u, v, d, ct) => Comes(w, v, d, ct)
<1>1. d + 0 = d /\ 0 + d = d /\ 0 \in Int
    OBVIOUS
<1>2. ASSUME Comes(w, u, d, ct), Comes(u, v, 0, ct)
      PROVE  Comes(w, v, d, ct)
  <2>1. Comes(w, v, d + 0, ct)
      BY <1>1, <1>2, ComesTransitive
  <2> QED BY <1>1, <2>1, Zenon
<1>3. ASSUME Comes(w, u, 0, ct), Comes(u, v, d, ct)
      PROVE  Comes(w, v, d, ct)
  <2>1. Comes(w, v, 0 + d, ct)
      BY <1>1, <1>3, ComesTransitive
  <2> QED BY <1>1, <2>1, Zenon
<1> QED BY <1>2, <1>3

\* The exchange changes, the account does not.
LEMMA RexComes ==
    ASSUME NEW ct, Clock(ct), NEW w, Booked(w, ct), NEW r, NEW d \in Int,
           Goes(w.rex, r, d, ct), Still(w.rex, r)
    PROVE  Comes(w, [w EXCEPT !.rex = r], d, ct)
<1> DEFINE u == [w EXCEPT !.rex = r]
<1>1. DOMAIN u = WorldFields /\ u.rex = r /\ u.core = w.core
    BY DEF Booked, WorldFields
<1> HIDE DEF u
<1>2. Coins(w) \in Int /\ Coins(u) = Coins(w)
    BY <1>1 DEF Booked, Coins
<1>3. (Coins(u) - Coins(w)) + d = d
    BY <1>2
<1>4. Goes(w.rex, u.rex, (Coins(u) - Coins(w)) + d, ct)
    BY <1>1, <1>3, Zenon
<1>5. Comes(w, u, d, ct)
    BY <1>1, <1>2, <1>4 DEF Comes, Booked
<1> QED BY <1>5 DEF u

\* Neither changes.
LEMMA SameComes ==
    ASSUME NEW ct, Clock(ct), NEW w, Booked(w, ct), NEW u, DOMAIN u = WorldFields,
           u.rex = w.rex, u.core = w.core
    PROVE  Comes(w, u, 0, ct)
<1>1. Coins(w) \in Int /\ Coins(u) = Coins(w)
    BY DEF Booked, Coins
<1>2. (Coins(u) - Coins(w)) + 0 = 0
    BY <1>1
<1>3. Goes(w.rex, u.rex, 0, ct) /\ Still(w.rex, u.rex)
    BY GoesReflexive DEF Booked
<1>4. Goes(w.rex, u.rex, (Coins(u) - Coins(w)) + 0, ct)
    BY <1>2, <1>3, Zenon
<1> QED BY <1>1, <1>3, <1>4 DEF Comes, Booked

\* Limits and votes do not depend on the exchange.
LEMMA LimitsComes ==
    ASSUME NEW ct, Clock(ct), NEW w, Booked(w, ct), NEW x, NEW net, NEW cpu
    PROVE  LET u == update_resource_limits(w, x, net, cpu)
           IN  Comes(w, u, 0, ct) /\ u.rex = w.rex /\ u.core = w.core
<1> DEFINE row == [Resources(w.bw, x) EXCEPT !.net = @ + net, !.cpu = @ + cpu]
           t == PutResources(w.bw.userres, x, row)
           limits == LimitsOf(w.bw.limits[x], row, Managed(w.elect, x))
           u == [w EXCEPT !.bw.userres = t, !.bw.limits[x] = limits]
<1>1. update_resource_limits(w, x, net, cpu) \in {w, u}
    BY DEF update_resource_limits
<1> HIDE DEF row, t, limits
<1>2. DOMAIN u = WorldFields /\ u.rex = w.rex /\ u.core = w.core
    BY DEF Booked, WorldFields
<1> HIDE DEF u
<1>3. Comes(w, u, 0, ct) /\ Comes(w, w, 0, ct)
    BY <1>2, SameComes DEF Booked
<1> QED BY <1>1, <1>2, <1>3

\* Other votes.
LEMMA ElectComes ==
    ASSUME NEW ct, Clock(ct), NEW w, Booked(w, ct), NEW e
    PROVE  /\ Comes(w, [w EXCEPT !.elect = e], 0, ct)
           /\ [w EXCEPT !.elect = e].rex = w.rex /\ [w EXCEPT !.elect = e].core = w.core
<1> DEFINE u == [w EXCEPT !.elect = e]
<1>1. DOMAIN u = WorldFields /\ u.rex = w.rex /\ u.core = w.core
    BY DEF Booked, WorldFields
<1> HIDE DEF u
<1>2. Comes(w, u, 0, ct)
    BY <1>1, SameComes
<1> QED BY <1>1, <1>2 DEF u

\* The stake of an owner.
LEMMA ChangeStakeComes ==
    ASSUME NEW ct, Clock(ct), NEW w, Booked(w, ct), NEW x, NEW stake, NEW force
    PROVE  LET u == ChangeStake(w, x, stake, force, ct)
           IN  Comes(w, u, 0, ct) /\ u.rex = w.rex /\ u.core = w.core
<1> DEFINE v == update_voting_power(w, x, stake, ct)
<1>1. Comes(w, v, 0, ct) /\ v.rex = w.rex /\ v.core = w.core
    BY ElectComes, Zenon DEF update_voting_power
<1>2. Comes(w, w, 0, ct)
    BY SameComes DEF Booked
<1> HIDE DEF v
<1>3. ChangeStake(w, x, stake, force, ct) \in {w, v}
    BY Zenon DEF ChangeStake, v
<1> QED BY <1>1, <1>2, <1>3

\* Tokens of an account that is not the exchange's come, or go there.
LEMMA TransferComes ==
    ASSUME NEW ct, Clock(ct), NEW w, Booked(w, ct), NEW a \in Holders \ {rex_account}, NEW amount \in Int
    PROVE  /\ Comes(w, Transfer(w, a, rex_account, amount), 0 - amount, ct)
           /\ Transfer(w, a, rex_account, amount).rex = w.rex
           /\ Comes(w, Transfer(w, rex_account, a, amount), amount, ct)
           /\ Transfer(w, rex_account, a, amount).rex = w.rex
<1>0. rex_account \in Holders
    BY DEF Holders, SystemAccounts
<1> DEFINE c == Coins(w)
<1>1. c \in Int
    BY DEF Booked
<1>2. Goes(w.rex, w.rex, 0, ct) /\ Still(w.rex, w.rex)
    BY GoesReflexive DEF Booked
<1>3. /\ Comes(w, Transfer(w, a, rex_account, amount), 0 - amount, ct)
      /\ Transfer(w, a, rex_account, amount).rex = w.rex
  <2> DEFINE u == Transfer(w, a, rex_account, amount)
  <2>1. /\ DOMAIN u = WorldFields /\ u.rex = w.rex /\ DOMAIN u.core = Holders
        /\ Coins(u) = c + amount
      BY <1>0 DEF Booked, WorldFields, Transfer, Coins
  <2> HIDE DEF u, c
  <2>2. Coins(u) \in Int /\ (Coins(u) - c) + (0 - amount) = 0
      BY <1>1, <2>1
  <2>3. Goes(w.rex, u.rex, (Coins(u) - c) + (0 - amount), ct)
      BY <1>2, <2>1, <2>2, Zenon
  <2> QED BY <1>2, <2>1, <2>2, <2>3 DEF Comes, u, c
<1>4. /\ Comes(w, Transfer(w, rex_account, a, amount), amount, ct)
      /\ Transfer(w, rex_account, a, amount).rex = w.rex
  <2> DEFINE u == Transfer(w, rex_account, a, amount)
  <2>1. /\ DOMAIN u = WorldFields /\ u.rex = w.rex /\ DOMAIN u.core = Holders
        /\ Coins(u) = c - amount
      BY <1>0 DEF Booked, WorldFields, Transfer, Coins
  <2> HIDE DEF u, c
  <2>2. Coins(u) \in Int /\ (Coins(u) - c) + amount = 0
      BY <1>1, <2>1
  <2>3. Goes(w.rex, u.rex, (Coins(u) - c) + amount, ct)
      BY <1>2, <2>1, <2>2, Zenon
  <2> QED BY <1>2, <2>1, <2>2, <2>3 DEF Comes, u, c
<1> QED BY <1>3, <1>4

\* What an owner collects.
LEMMA AccountComes ==
    ASSUME NEW ct, Clock(ct), NEW w, Booked(w, ct), NEW x, NEW proceeds \in Nat, NEW delta, NEW force
    PROVE  LET u == update_rex_account(w, x, proceeds, delta, force, ct)
           IN  /\ Comes(w, u, proceeds, ct)
               /\ u.rex.pool = w.rex.pool /\ u.rex.balances = w.rex.balances
               /\ u.rex.orders = IF x \in OpenOrders(w.rex) THEN w.rex.orders ELSE Erase(w.rex.orders, x)
               /\ u.core = w.core
<1> DEFINE r == CollectOrder(w.rex, x, proceeds + FilledOrder(w.rex, x).proceeds)
           v == [w EXCEPT !.rex = r]
           stake == delta + FilledOrder(w.rex, x).stake_change
           u == ChangeStake(v, x, stake, force, ct)
<1>1. /\ Goes(w.rex, r, proceeds, ct) /\ Still(w.rex, r)
      /\ r.pool = w.rex.pool /\ r.balances = w.rex.balances
      /\ r.orders = IF x \in OpenOrders(w.rex) THEN w.rex.orders ELSE Erase(w.rex.orders, x)
    BY CollectGoes DEF Booked
<1>2. update_rex_account(w, x, proceeds, delta, force, ct) = u
    BY Zenon DEF update_rex_account
<1> HIDE DEF r, stake
<1>3. Comes(w, v, proceeds, ct)
    BY <1>1, RexComes
<1>4. DOMAIN v = WorldFields /\ v.rex = r /\ v.core = w.core
    BY DEF Booked, WorldFields
<1> HIDE DEF v
<1>5. Booked(v, ct)
    BY <1>3, ComesBooked
<1>6. Comes(v, u, 0, ct) /\ u.rex = v.rex /\ u.core = v.core
    BY <1>5, ChangeStakeComes
<1> HIDE DEF u
<1>7. Comes(w, u, proceeds, ct)
    BY <1>3, <1>6, ComesThen
<1> QED BY <1>1, <1>2, <1>4, <1>6, <1>7

-----------------------------------------------------------------------------
\* The maintenance.
\*
\* Fees come in with the tokens that pay them.
LEMMA ReturnGoes ==
    ASSUME NEW ct, Clock(ct), NEW r, Sound(r, ct), NEW fee \in Nat
    PROVE  Goes(r, add_to_rex_return_pool(r, fee, ct), fee, ct) /\ Still(r, add_to_rex_return_pool(r, fee, ct))
<1>1. DOMAIN r = RexFields /\ PoolSound(r.pool) /\ ReturnsSound(r, ct)
    BY DEF Sound
<1>2. CASE fee = 0
  <2>1. add_to_rex_return_pool(r, fee, ct) = update_rex_pool(r, ct)
      BY <1>2 DEF add_to_rex_return_pool, AddReturn
  <2>2. Returned(r, update_rex_pool(r, ct), 0, ct)
      BY <1>1, UpdateReturns
  <2>3. Returned(r, add_to_rex_return_pool(r, fee, ct), fee, ct)
      BY <1>2, <2>1, <2>2, Zenon
  <2> QED BY <2>3, ReturnedGoes
<1>3. CASE fee # 0
  <2>1. fee \in Nat \ {0}
      BY <1>3
  <2>2. Returned(r, add_to_rex_return_pool(r, fee, ct), fee, ct)
      BY <1>1, <2>1, AddReturned
  <2> QED BY <2>2, ReturnedGoes
<1> QED BY <1>2, <1>3

\* channel_to_rex.
LEMMA ChannelComes ==
    ASSUME NEW ct, Clock(ct), NEW w, Booked(w, ct), NEW a \in Holders \ {rex_account}, NEW amount \in Nat
    PROVE  Comes(w, channel_to_rex(w, a, amount, ct), 0, ct)
<1> DEFINE r == add_to_rex_return_pool(w.rex, amount, ct)
           v == [w EXCEPT !.rex = r]
           u == Transfer(v, a, rex_account, amount)
<1>1. channel_to_rex(w, a, amount, ct) \in {w, u}
    BY Zenon DEF channel_to_rex
<1>2. Comes(w, w, 0, ct)
    BY SameComes DEF Booked
<1>3. Goes(w.rex, r, amount, ct) /\ Still(w.rex, r)
    BY ReturnGoes DEF Booked
<1> HIDE DEF r
<1>4. Comes(w, v, amount, ct)
    BY <1>3, RexComes
<1> HIDE DEF v
<1>5. Booked(v, ct) /\ amount \in Int /\ 0 - amount \in Int
    BY <1>4, ComesBooked
<1>6. Comes(v, u, 0 - amount, ct)
    BY <1>5, TransferComes
<1> HIDE DEF u
<1>7. Comes(w, u, amount + (0 - amount), ct)
    BY <1>4, <1>5, <1>6, ComesTransitive
<1>8. amount + (0 - amount) = 0
    OBVIOUS
<1>9. Comes(w, u, 0, ct)
    BY <1>7, <1>8, Zenon
<1> QED BY <1>1, <1>2, <1>9

\* What names have brought is no longer on its way.
LEMMA ForgottenComes ==
    ASSUME NEW ct, Clock(ct), NEW w, Booked(w, ct)
    PROVE  Comes(w, [w EXCEPT !.rex.pool.namebid_proceeds = 0], 0, ct)
<1> DEFINE p == [w.rex.pool EXCEPT !.namebid_proceeds = 0]
           r == [w.rex EXCEPT !.pool = p]
<1>1. PoolSound(w.rex.pool)
    BY DEF Booked, Sound
<1>2. /\ PoolSound(p) /\ p.total_lent = w.rex.pool.total_lent
      /\ p.total_lendable = w.rex.pool.total_lendable
      /\ p.total_rex = w.rex.pool.total_rex /\ p.loan_num = w.rex.pool.loan_num
    BY <1>1 DEF PoolSound, PoolFields
<1>3. [w EXCEPT !.rex.pool.namebid_proceeds = 0] = [w EXCEPT !.rex = r]
    OBVIOUS
<1> HIDE DEF p
<1>4. Goes(w.rex, r, 0, ct) /\ Still(w.rex, r)
    BY <1>2, PoolChanged DEF Booked
<1> HIDE DEF r
<1>5. Comes(w, [w EXCEPT !.rex = r], 0, ct)
    BY <1>4, RexComes
<1> QED BY <1>3, <1>5

\* Proceeds of closed names.
LEMMA NameBidsComes ==
    ASSUME NEW ct, Clock(ct), NEW w, Booked(w, ct)
    PROVE  Comes(w, CollectNameBids(w, ct), 0, ct)
<1> DEFINE amount == w.rex.pool.namebid_proceeds
           v == channel_to_rex(w, names_account, amount, ct)
           u == [v EXCEPT !.rex.pool.namebid_proceeds = 0]
<1>1. CASE amount > 0
  <2>1. CollectNameBids(w, ct) = u
      BY <1>1, Zenon DEF CollectNameBids
  <2>2. names_account \in Holders \ {rex_account} /\ amount \in Nat
      BY <1>1 DEF Holders, SystemAccounts, names_account, rex_account, Booked, Sound, PoolSound
  <2> HIDE DEF amount
  <2>3. Comes(w, v, 0, ct)
      BY <2>2, ChannelComes
  <2> HIDE DEF v
  <2>4. Comes(v, u, 0, ct)
      BY <2>3, ComesBooked, ForgottenComes
  <2> HIDE DEF u
  <2> QED BY <2>1, <2>3, <2>4, ComesThen
<1>2. CASE ~ amount > 0
  <2>1. CollectNameBids(w, ct) = w
      BY <1>2 DEF CollectNameBids
  <2> QED BY <2>1, SameComes DEF Booked
<1> QED BY <1>1, <1>2

\* A loan that expires.
LEMMA LoanComes ==
    ASSUME NEW ct, Clock(ct), NEW w, Booked(w, ct), NEW kind
    PROVE  Comes(w, ProcessLoan(w, kind, ct), 0, ct)
<1> DEFINE num == FirstExpired(w.rex, kind, ct)
           receiver == w.rex.loans[num].receiver
           outcome == process_expired_loan(w.rex, num, ct)
           r == outcome.rex
           v == [w EXCEPT !.rex = r]
           net == IF kind = "net" THEN outcome.delta_stake ELSE 0
           cpu == IF kind = "cpu" THEN outcome.delta_stake ELSE 0
           u == update_resource_limits(v, receiver, net, cpu)
<1>1. CASE Expired(w.rex, kind, ct) # {}
  <2>1. ProcessLoan(w, kind, ct) = u
      BY <1>1, Zenon DEF ProcessLoan, ProcessLoanOf, LoanProcessed
  <2>2. num \in DOMAIN w.rex.loans
      BY <1>1, FirstIsExpired DEF Booked
  <2> HIDE DEF num
  <2>3. Goes(w.rex, r, 0, ct) /\ Still(w.rex, r)
      BY <2>2, ExpiredGoes DEF Booked
  <2> HIDE DEF r, receiver, net, cpu
  <2>4. Comes(w, v, 0, ct)
      BY <2>3, RexComes
  <2> HIDE DEF v
  <2>5. Comes(v, u, 0, ct)
      BY <2>4, ComesBooked, LimitsComes
  <2> HIDE DEF u
  <2> QED BY <2>1, <2>4, <2>5, ComesThen
<1>2. CASE Expired(w.rex, kind, ct) = {}
  <2>1. ProcessLoan(w, kind, ct) = w
      BY <1>2 DEF ProcessLoan
  <2> QED BY <2>1, SameComes DEF Booked
<1> QED BY <1>1, <1>2

\* Loans that expire.
LEMMA LoansComes ==
    ASSUME NEW ct, Clock(ct), NEW w, Booked(w, ct), NEW kind, NEW max \in Nat
    PROVE  Comes(w, ProcessLoans(w, kind, max, ct), 0, ct)
<1> DEFINE it == Processing(w, kind, ct)
           Bad == {k \in Nat : ~ Comes(w, it[k], 0, ct)}
<1>1. ProcessLoans(w, kind, max, ct) = it[max]
    BY Zenon DEF ProcessLoans, Processing, Processes
<1>2. it[0] = w /\ \A n \in Nat : n # 0 => it[n] = ProcessLoan(it[n - 1], kind, ct)
    BY ProcessingRecursion
<1> HIDE DEF it
<1>3. ASSUME Bad # {} PROVE FALSE
  <2>1. PICK b \in Bad : \A k \in Bad : b =< k
      BY <1>3, NatMin
  <2>2. Comes(w, w, 0, ct)
      BY SameComes DEF Booked
  <2>3. b # 0
      BY <1>2, <2>1, <2>2
  <2>4. b - 1 \in Nat /\ b - 1 \notin Bad
      BY <2>1, <2>3
  <2>5. Comes(w, it[b - 1], 0, ct)
      BY <2>4
  <2>6. Comes(it[b - 1], ProcessLoan(it[b - 1], kind, ct), 0, ct)
      BY <2>5, ComesBooked, LoanComes
  <2>7. Comes(w, ProcessLoan(it[b - 1], kind, ct), 0, ct)
      BY <2>5, <2>6, ComesThen
  <2> QED BY <1>2, <2>1, <2>3, <2>7
<1> QED BY <1>1, <1>3

\* runrex: returns, names, loans and orders.
LEMMA RunrexComes ==
    ASSUME NEW ct, Clock(ct), NEW w, Booked(w, ct), Covered(w.rex), NEW max \in Nat
    PROVE  Comes(w, runrex(w, max, ct), 0, ct)
<1> DEFINE r1 == update_rex_pool(w.rex, ct)
           w1 == [w EXCEPT !.rex = r1]
           w2 == CollectNameBids(w1, ct)
           w3 == ProcessLoans(w2, "cpu", max, ct)
           w4 == ProcessLoans(w3, "net", max, ct)
           r5 == FillOrders(w4.rex, max)
           w5 == [w4 EXCEPT !.rex = r5]
<1>1. runrex(w, max, ct) = w5
    BY Zenon DEF runrex
<1>2. Comes(w, w1, 0, ct)
  <2>1. Returned(w.rex, r1, 0, ct)
      BY UpdateReturns DEF Booked, Sound
  <2> HIDE DEF r1
  <2>2. Goes(w.rex, r1, 0, ct) /\ Still(w.rex, r1)
      BY <2>1, ReturnedGoes DEF Booked
  <2> QED BY <2>2, RexComes
<1> HIDE DEF w1
<1>3. Comes(w, w2, 0, ct)
  <2>1. Comes(w1, w2, 0, ct)
      BY <1>2, ComesBooked, NameBidsComes
  <2> HIDE DEF w2
  <2> QED BY <1>2, <2>1, ComesThen
<1> HIDE DEF w2
<1>4. Comes(w, w3, 0, ct)
  <2>1. Comes(w2, w3, 0, ct)
      BY <1>3, ComesBooked, LoansComes
  <2> HIDE DEF w3
  <2> QED BY <1>3, <2>1, ComesThen
<1> HIDE DEF w3
<1>5. Comes(w, w4, 0, ct)
  <2>1. Comes(w3, w4, 0, ct)
      BY <1>4, ComesBooked, LoansComes
  <2> HIDE DEF w4
  <2> QED BY <1>4, <2>1, ComesThen
<1> HIDE DEF w4
<1>6. Comes(w, w5, 0, ct)
  <2>1. Booked(w4, ct) /\ Covered(w4.rex)
      BY <1>5, ComesBooked
  <2>2. Goes(w4.rex, r5, 0, ct) /\ Still(w4.rex, r5)
      BY <2>1, FillOrdersGoes DEF Booked
  <2> HIDE DEF r5
  <2>3. Comes(w4, w5, 0, ct)
      BY <2>1, <2>2, RexComes
  <2> HIDE DEF w5
  <2> QED BY <1>5, <2>3, ComesThen
<1> HIDE DEF w5
<1> QED BY <1>1, <1>6

\* update_rex_stake.
LEMMA RexStakeComes ==
    ASSUME NEW ct, Clock(ct), NEW w, Booked(w, ct), NEW x
    PROVE  Comes(w, update_rex_stake(w, x), 0, ct)
<1> DEFINE worth == WorthOf(w.rex.pool, w.rex.balances[x].rex_balance)
           delta == worth - w.rex.balances[x].vote_stake
           r == [w.rex EXCEPT !.balances[x].vote_stake = worth]
           v == [w EXCEPT !.rex = r]
           e == [v.elect EXCEPT !.voters[x].staked = @ + delta]
           u == [v EXCEPT !.elect = e]
<1>1. update_rex_stake(w, x) \in {w, v, u}
    BY DEF update_rex_stake
<1>2. Comes(w, w, 0, ct)
    BY SameComes DEF Booked
<1>3. CASE x \in DOMAIN w.rex.balances /\ rex_available(w.rex)
  <2>0. worth \in Int
      BY <1>3, OwnedWorth DEF Booked, rex_available
  <2> HIDE DEF worth, delta
  <2>1. Goes(w.rex, r, 0, ct) /\ Still(w.rex, r)
      BY <1>3, <2>0, StakeGoes DEF Booked
  <2> HIDE DEF r
  <2>2. Comes(w, v, 0, ct)
      BY <2>1, RexComes
  <2> HIDE DEF v, e
  <2>3. Comes(v, u, 0, ct)
      BY <2>2, ComesBooked, ElectComes
  <2> HIDE DEF u
  <2>4. Comes(w, u, 0, ct)
      BY <2>2, <2>3, ComesThen
  <2> QED BY <1>1, <1>2, <2>2, <2>4
<1>4. CASE ~ (x \in DOMAIN w.rex.balances /\ rex_available(w.rex))
  <2>1. update_rex_stake(w, x) = w
      BY <1>4 DEF update_rex_stake
  <2> QED BY <1>2, <2>1
<1> QED BY <1>3, <1>4

-----------------------------------------------------------------------------
(* What the actions do.                                                    *)

\* The exchange before an action.
RexReady == RexInv /\ DOMAIN core = Holders

\* The exchange goes from r to q in a step in which its account receives k
\* tokens.  Only a purchase from a pool without REX may lose some: what the pool
\* had then belongs to nobody.
RexMoved(r, q, k, ct) ==
    /\ Sound(q, ct) /\ Covered(q)
    /\ r.pool.total_rex > 0 /\ q.pool.total_rex > 0 =>
           q.pool.total_lendable * r.pool.total_rex >= r.pool.total_lendable * q.pool.total_rex
    /\ \/ Assets(q) = Assets(r) + k
       \/ Assets(q) < Assets(r) + k /\ r.pool.total_rex = 0 /\ q.pool.total_rex > 0

\* What every action does.
RexMoves ==
    /\ now' = now /\ core'[rex_account] \in Int
    /\ RexMoved(rex, rex', core'[rex_account] - core[rex_account], now)

\* The world an action starts from.
LEMMA ReadyBooked ==
    ASSUME RexReady
    PROVE  /\ Clock(now) /\ now \in Nat
           /\ Booked(World, now) /\ Covered(World.rex) /\ World.rex = rex /\ World.core = core
           /\ Sound(rex, now) /\ Covered(rex)
BY SystemAssumption DEF RexReady, RexInv, Clock, Booked, World, WorldFields, Coins

\* An action whose world comes after this one.
LEMMA Ends ==
    ASSUME RexReady, NEW w, Comes(World, w, 0, now), Become(w)
    PROVE  RexMoves
<1> DEFINE a == core[rex_account]
           b == Coins(w)
<1>1. rex' = w.rex /\ core' = w.core /\ now' = now /\ World.rex = rex /\ Coins(World) = a
    BY DEF Become, World, Coins
<1>2. /\ a \in Int /\ b \in Int /\ core'[rex_account] = b
      /\ Goes(rex, w.rex, (b - a) + 0, now) /\ Still(rex, w.rex) /\ Covered(rex)
    BY <1>1 DEF RexReady, RexInv, Comes, Coins
<1> HIDE DEF a, b
<1>3. (b - a) + 0 = b - a
    BY <1>2
<1>4. Goes(rex, w.rex, b - a, now)
    BY <1>2, <1>3, Zenon
<1>5. Covered(w.rex)
    BY <1>2 DEF Still
<1>6. RexMoved(rex, w.rex, b - a, now)
    BY <1>4, <1>5 DEF RexMoved, Goes, Dearer
<1> QED BY <1>1, <1>2, <1>6 DEF RexMoves, a

\* Most actions end with the checks of Done.
LEMMA DoneEnds ==
    ASSUME RexReady, NEW w, Comes(World, w, 0, now), NEW x, Done(w, x)
    PROVE  RexMoves
BY Ends DEF Done

\* An action that ends with the order of its owner covered again.
LEMMA CoveredEnds ==
    ASSUME RexReady, NEW w, Comes(World, w, 0, now), NEW u, Goes(w.rex, u.rex, 0, now),
           Covered(u.rex), u.core = w.core, Become(u)
    PROVE  RexMoves
<1> DEFINE a == core[rex_account]
           c == Coins(w)
<1>1. /\ rex' = u.rex /\ now' = now /\ core'[rex_account] = c /\ a \in Int /\ c \in Int
      /\ Goes(rex, w.rex, (c - a) + 0, now) /\ Sound(rex, now) /\ Clock(now)
  <2>1. World.rex = rex /\ Coins(World) = a /\ Sound(rex, now) /\ a \in Int /\ Clock(now)
      BY ReadyBooked DEF Coins, RexReady, RexInv
  <2> QED BY <2>1 DEF Become, Comes, Coins
<1> HIDE DEF a, c
<1>2. (c - a) + 0 \in Int /\ 0 \in Int /\ ((c - a) + 0) + 0 = c - a
    BY <1>1
<1>3. Goes(rex, u.rex, ((c - a) + 0) + 0, now)
    BY <1>1, <1>2, GoesTransitive
<1>4. Goes(rex, u.rex, c - a, now)
    BY <1>2, <1>3, Zenon
<1>5. RexMoved(rex, u.rex, c - a, now)
    BY <1>4 DEF RexMoved, Goes, Dearer
<1> QED BY <1>1, <1>5 DEF RexMoves, a

\* The exchange is left alone.
LEMMA Untouched ==
    ASSUME RexReady, rex' = rex, core'[rex_account] = core[rex_account], now' = now
    PROVE  RexMoves
<1>1. Goes(rex, rex, 0, now)
    BY ReadyBooked, GoesReflexive
<1>2. core[rex_account] \in Int /\ Covered(rex)
    BY DEF RexReady, RexInv
<1>3. core[rex_account] - core[rex_account] = 0
    BY <1>2
<1>4. RexMoved(rex, rex, 0, now)
    BY <1>1, <1>2 DEF RexMoved, Goes, Dearer
<1>5. RexMoved(rex, rex', core'[rex_account] - core[rex_account], now)
    BY <1>3, <1>4, Zenon
<1> QED BY <1>2, <1>5 DEF RexMoves

\* A user is not the exchange.
LEMMA UserHolder ==
    ASSUME NEW x \in Users
    PROVE  x \in Holders \ {rex_account}
BY SystemAssumption DEF Holders, SystemAccounts

\* deposit.
LEMMA DepositMoves ==
    ASSUME RexReady, NEW x \in Users, NEW amount \in Nat, Deposit(x, amount)
    PROVE  RexMoves
<1> DEFINE w1 == Transfer(World, x, rex_account, amount)
           r  == transfer_to_fund(w1.rex, x, amount)
           w2 == [w1 EXCEPT !.rex = r]
<1>1. Become(w2)
    BY Zenon DEF Deposit
<1>2. Clock(now) /\ Booked(World, now) /\ amount \in Int /\ 0 - amount \in Int
    BY ReadyBooked
<1>3. Comes(World, w1, 0 - amount, now)
    BY <1>2, UserHolder, TransferComes
<1> HIDE DEF w1
<1>4. Booked(w1, now)
    BY <1>3, ComesBooked
<1>5. Goes(w1.rex, r, amount, now) /\ Still(w1.rex, r)
    BY <1>2, <1>4, FundGoes DEF Booked
<1> HIDE DEF r
<1>6. Comes(w1, w2, amount, now)
    BY <1>2, <1>4, <1>5, RexComes
<1> HIDE DEF w2
<1>7. Comes(World, w2, (0 - amount) + amount, now)
    BY <1>2, <1>3, <1>6, ComesTransitive
<1>8. (0 - amount) + amount = 0
    OBVIOUS
<1>9. Comes(World, w2, 0, now)
    BY <1>7, <1>8, Zenon
<1> QED BY <1>1, <1>9, Ends

\* withdraw.
LEMMA WithdrawMoves ==
    ASSUME RexReady, NEW x \in Users, NEW amount \in Nat, Withdraw(x, amount)
    PROVE  RexMoves
<1> DEFINE w0 == update_rex_account(World, x, 0, 0, FALSE, now)
           w1 == Transfer(w0, rex_account, x, amount)
           r  == transfer_from_fund(w1.rex, x, amount)
           w2 == [w1 EXCEPT !.rex = r]
<1>1. CanTransferFromFund(w0.rex, x, amount) /\ Done(w2, x)
    BY Zenon DEF Withdraw, WithdrawFrom
<1>2. Clock(now) /\ Booked(World, now) /\ amount \in Int /\ - amount \in Int /\ 0 \in Nat
    BY ReadyBooked
<1>3. Comes(World, w0, 0, now)
    BY <1>2, AccountComes
<1> HIDE DEF w0
<1>4. Comes(w0, w1, amount, now) /\ w1.rex = w0.rex
    BY <1>2, <1>3, ComesBooked, UserHolder, TransferComes
<1> HIDE DEF w1
<1>5. Comes(World, w1, amount, now)
    BY <1>2, <1>3, <1>4, ComesThen
<1>6. Booked(w1, now) /\ CanTransferFromFund(w1.rex, x, amount)
    BY <1>1, <1>4, <1>5, ComesBooked
<1>7. Goes(w1.rex, r, - amount, now) /\ Still(w1.rex, r)
    BY <1>2, <1>6, FundGoes DEF Booked
<1> HIDE DEF r
<1>8. Comes(w1, w2, - amount, now)
    BY <1>2, <1>6, <1>7, RexComes
<1> HIDE DEF w2
<1>9. Comes(World, w2, amount + (- amount), now)
    BY <1>2, <1>5, <1>8, ComesTransitive
<1>10. amount + (- amount) = 0
    OBVIOUS
<1>11. Comes(World, w2, 0, now)
    BY <1>9, <1>10, Zenon
<1> QED BY <1>1, <1>11, DoneEnds

\* Another balance of x.
LEMMA BalanceComes ==
    ASSUME NEW ct, Clock(ct), NEW w, Booked(w, ct), NEW x \in DOMAIN w.rex.balances,
           NEW b, BalanceSound(b), b.rex_balance = w.rex.balances[x].rex_balance,
           SellOrder(w.rex, x) =< b.matured_rex
    PROVE  LET u == [w EXCEPT !.rex.balances[x] = b]
           IN  /\ Comes(w, u, 0, ct)
               /\ u.rex.balances[x] = b /\ x \in DOMAIN u.rex.balances /\ u.rex.orders = w.rex.orders
<1> DEFINE r == [w.rex EXCEPT !.balances[x] = b]
           u == [w EXCEPT !.rex = r]
<1>1. x \in OpenOrders(w.rex) => w.rex.orders[x].rex_requested =< b.matured_rex
    BY DEF SellOrder
<1>2. /\ Goes(w.rex, r, 0, ct) /\ Still(w.rex, r) /\ r.orders = w.rex.orders
      /\ r.balances[x] = b /\ DOMAIN r.balances = DOMAIN w.rex.balances
    BY <1>1, BalanceGoes DEF Booked
<1>3. u = [w EXCEPT !.rex.balances[x] = b]
    OBVIOUS
<1> HIDE DEF r
<1>4. Comes(w, u, 0, ct) /\ u.rex = r
    BY <1>2, RexComes DEF Booked, WorldFields
<1> QED BY <1>2, <1>3, <1>4

\* What an order that waits asks for, its owner has.
LEMMA OrderedIsHeld ==
    ASSUME NEW r, NEW ct, Sound(r, ct), Covered(r), NEW x \in DOMAIN r.balances
    PROVE  SellOrder(r, x) \in Nat /\ SellOrder(r, x) =< r.balances[x].matured_rex
<1>1. r.balances[x].matured_rex \in Nat
    BY DEF Sound, OwnersSound, BalanceSound
<1> QED BY <1>1 DEF SellOrder, Covered, OpenOrders, Sound, OrdersSound, OrderSound

\* REX matures.
LEMMA MaturedComes ==
    ASSUME RexReady, NEW w, Booked(w, now), Covered(w.rex), NEW x \in DOMAIN w.rex.balances
    PROVE  Comes(w, Matured(w, x), 0, now) /\ x \in DOMAIN Matured(w, x).rex.balances
<1> DEFINE b == process_rex_maturities(w.rex.balances[x], now)
           u == [w EXCEPT !.rex.balances[x] = b]
<1>1. Matured(w, x) = u
    BY DEF Matured
<1>2. BalanceSound(w.rex.balances[x])
    BY DEF Booked, Sound, OwnersSound
<1>3. /\ BalanceSound(b) /\ b.rex_balance = w.rex.balances[x].rex_balance
      /\ b.matured_rex >= w.rex.balances[x].matured_rex
    BY <1>2, BalanceMatures
<1> HIDE DEF b
<1>4. SellOrder(w.rex, x) \in Nat /\ SellOrder(w.rex, x) =< w.rex.balances[x].matured_rex
    BY OrderedIsHeld DEF Booked
<1>5. SellOrder(w.rex, x) =< b.matured_rex
    BY <1>2, <1>3, <1>4 DEF BalanceSound
<1>6. Clock(now)
    BY ReadyBooked
<1>7. Comes(w, u, 0, now) /\ x \in DOMAIN u.rex.balances
    BY <1>3, <1>5, <1>6, BalanceComes
<1> QED BY <1>1, <1>7

\* After the maintenance.
LEMMA MaintenanceComes ==
    ASSUME RexReady
    PROVE  /\ Comes(World, runrex(World, 2, now), 0, now)
           /\ Booked(runrex(World, 2, now), now) /\ Covered(runrex(World, 2, now).rex)
           /\ DOMAIN rex.balances \subseteq DOMAIN runrex(World, 2, now).rex.balances
<1> DEFINE w == runrex(World, 2, now)
<1>1. Comes(World, w, 0, now)
    BY ReadyBooked, RunrexComes
<1> HIDE DEF w
<1>2. Booked(w, now) /\ Covered(w.rex)
    BY <1>1, ReadyBooked, ComesBooked
<1>3. DOMAIN rex.balances \subseteq DOMAIN w.rex.balances
    BY <1>1, ReadyBooked DEF Comes, Still
<1> QED BY <1>1, <1>2, <1>3 DEF w

\* After the maintenance and collecting.
LEMMA MaintainedComes ==
    ASSUME RexReady, NEW x
    PROVE  /\ Comes(World, Maintained(x), 0, now)
           /\ Booked(Maintained(x), now) /\ Covered(Maintained(x).rex)
           /\ DOMAIN rex.balances \subseteq DOMAIN Maintained(x).rex.balances
<1> DEFINE v == runrex(World, 2, now)
           w == update_rex_account(v, x, 0, 0, FALSE, now)
<1>1. Comes(World, v, 0, now) /\ Booked(v, now)
    BY MaintenanceComes
<1>2. Maintained(x) = w
    BY DEF Maintained
<1> HIDE DEF v
<1>3. Clock(now) /\ Booked(World, now) /\ 0 \in Nat
    BY ReadyBooked
<1>4. Comes(v, w, 0, now)
    BY <1>1, <1>3, AccountComes
<1> HIDE DEF w
<1>5. Comes(World, w, 0, now)
    BY <1>1, <1>3, <1>4, ComesThen
<1>6. Booked(w, now) /\ Covered(w.rex)
    BY <1>5, ReadyBooked, ComesBooked
<1>7. DOMAIN rex.balances \subseteq DOMAIN w.rex.balances
    BY <1>5, ReadyBooked DEF Comes, Still
<1> QED BY <1>2, <1>5, <1>6, <1>7

\* updaterex.
LEMMA UpdateRexMoves ==
    ASSUME RexReady, NEW x \in Users, UpdateRex(x)
    PROVE  RexMoves
<1> DEFINE w1 == runrex(World, 2, now)
           stake == WorthNow(w1.rex, x)
           r == [w1.rex EXCEPT !.balances[x].vote_stake = stake]
           w2 == [w1 EXCEPT !.rex = r]
           delta == stake - w1.rex.balances[x].vote_stake
           w3 == update_rex_account(w2, x, 0, delta, TRUE, now)
           w4 == Matured(w3, x)
<1>1. Done(w4, x) /\ x \in DOMAIN rex.balances
    BY Zenon DEF UpdateRex, UpdateRexFrom, Revalued
<1>2. Clock(now) /\ Booked(World, now) /\ Covered(World.rex) /\ 0 \in Nat
    BY ReadyBooked
<1>3. /\ Comes(World, w1, 0, now) /\ Booked(w1, now) /\ Covered(w1.rex)
      /\ x \in DOMAIN w1.rex.balances
    BY <1>1, MaintenanceComes
<1> HIDE DEF w1
<1>s. stake \in Int
    BY <1>3, OwnedWorth DEF Booked, WorthNow
<1> HIDE DEF stake, delta
<1>4. Goes(w1.rex, r, 0, now) /\ Still(w1.rex, r)
    BY <1>2, <1>3, <1>s, StakeGoes DEF Booked
<1> HIDE DEF r
<1>5. Comes(w1, w2, 0, now)
    BY <1>2, <1>3, <1>4, RexComes
<1> HIDE DEF w2
<1>6. Booked(w2, now)
    BY <1>5, ComesBooked
<1> DEFINE forced == TRUE
<1> HIDE DEF forced
<1>7. Comes(w2, w3, 0, now)
    BY <1>2, <1>6, AccountComes
<1> HIDE DEF w3
<1>8. Comes(World, w3, 0, now) /\ Comes(w1, w3, 0, now)
  <2>1. Comes(w1, w3, 0, now)
      BY <1>2, <1>3, <1>5, <1>7, ComesThen
  <2> QED BY <1>2, <1>3, <2>1, ComesThen
<1>9. Booked(w3, now) /\ Covered(w3.rex) /\ x \in DOMAIN w3.rex.balances
    BY <1>2, <1>3, <1>8, ComesBooked DEF Comes, Still
<1>10. Comes(w3, w4, 0, now)
    BY <1>9, MaturedComes
<1> HIDE DEF w4
<1>11. Comes(World, w4, 0, now)
    BY <1>2, <1>8, <1>10, ComesThen
<1> QED BY <1>1, <1>11, DoneEnds

\* consolidate.
LEMMA ConsolidateMoves ==
    ASSUME RexReady, NEW x \in Users, Consolidate(x)
    PROVE  RexMoves
<1> DEFINE w == Maintained(x)
           order == SellOrder(w.rex, x)
           b == consolidate_rex_balance(w.rex.balances[x], order, now)
           u == [w EXCEPT !.rex.balances[x] = b]
<1>1. x \in DOMAIN rex.balances /\ Done([w EXCEPT !.rex.balances[x] =
          consolidate_rex_balance(@, SellOrder(w.rex, x), now)], x)
    BY Zenon DEF Consolidate, ConsolidateFrom
<1>2. Done(u, x)
    BY <1>1
<1>3. Clock(now) /\ Booked(World, now)
    BY ReadyBooked
<1>4. Comes(World, w, 0, now) /\ Booked(w, now) /\ Covered(w.rex) /\ x \in DOMAIN w.rex.balances
    BY <1>1, MaintainedComes
<1> HIDE DEF w
<1>5. BalanceSound(w.rex.balances[x]) /\ order \in Nat /\ order =< w.rex.balances[x].matured_rex
    BY <1>4, OrderedIsHeld DEF Booked, Sound, OwnersSound
<1>6. BalanceSound(b) /\ b.rex_balance = w.rex.balances[x].rex_balance /\ b.matured_rex = order
  <2> HIDE DEF order
  <2> QED BY <1>5, BalanceConsolidated
<1> HIDE DEF b
<1>7. SellOrder(w.rex, x) =< b.matured_rex
    BY <1>5, <1>6
<1>8. Comes(w, u, 0, now)
    BY <1>3, <1>4, <1>6, <1>7, BalanceComes
<1> HIDE DEF u
<1>9. Comes(World, u, 0, now)
    BY <1>3, <1>4, <1>8, ComesThen
<1> QED BY <1>2, <1>9, DoneEnds

\* mvtosavings.
LEMMA MvToSavingsMoves ==
    ASSUME RexReady, NEW x \in Users, NEW amount \in Nat, MvToSavings(x, amount)
    PROVE  RexMoves
<1> DEFINE w == Maintained(x)
           order == SellOrder(w.rex, x)
           before == process_rex_maturities(w.rex.balances[x], now)
           b == MoveToSavings(before, amount)
           u == [w EXCEPT !.rex.balances[x] = b]
<1>1. /\ x \in DOMAIN rex.balances
      /\ b.matured_rex < before.matured_rex => order =< b.matured_rex
      /\ Done(u, x)
    BY Zenon DEF MvToSavings, SettledMvToSavings, MvToSavingsFrom, SaveRex
<1>2. Clock(now) /\ Booked(World, now)
    BY ReadyBooked
<1>3. Comes(World, w, 0, now) /\ Booked(w, now) /\ Covered(w.rex) /\ x \in DOMAIN w.rex.balances
    BY <1>1, MaintainedComes
<1> HIDE DEF w
<1>4. BalanceSound(w.rex.balances[x]) /\ order \in Nat /\ order =< w.rex.balances[x].matured_rex
    BY <1>3, OrderedIsHeld DEF Booked, Sound, OwnersSound
<1>5. /\ BalanceSound(before) /\ before.rex_balance = w.rex.balances[x].rex_balance
      /\ before.matured_rex >= w.rex.balances[x].matured_rex
    BY <1>4, BalanceMatures
<1> HIDE DEF before
<1>6. order =< before.matured_rex
    BY <1>4, <1>5 DEF BalanceSound
<1>7. BalanceSound(b) /\ b.rex_balance = before.rex_balance /\ order =< b.matured_rex
  <2> HIDE DEF order
  <2> QED BY <1>1, <1>4, <1>5, <1>6, BalanceSaved
<1> HIDE DEF b
<1>8. Comes(w, u, 0, now)
    BY <1>2, <1>3, <1>5, <1>7, BalanceComes
<1> HIDE DEF u
<1>9. Comes(World, u, 0, now)
    BY <1>2, <1>3, <1>8, ComesThen
<1> QED BY <1>1, <1>9, DoneEnds

\* mvfrsavings.
LEMMA MvFrSavingsMoves ==
    ASSUME RexReady, NEW x \in Users, NEW amount \in Nat, MvFrSavings(x, amount)
    PROVE  RexMoves
<1> DEFINE w1 == runrex(World, 2, now)
           w2 == Matured(w1, x)
           b == FromSavings(w2.rex.balances[x], amount, now)
           w3 == [w2 EXCEPT !.rex.balances[x] = b]
           w4 == update_rex_account(w3, x, 0, 0, FALSE, now)
<1>1. /\ x \in DOMAIN rex.balances
      /\ amount =< w2.rex.balances[x].savings
      /\ Done(update_rex_account([w2 EXCEPT !.rex.balances[x] = FromSavings(@, amount, now)],
                                 x, 0, 0, FALSE, now), x)
    BY Zenon DEF MvFrSavings, MvFrSavingsFrom
<1>2. Done(w4, x)
    BY <1>1
<1>3. Clock(now) /\ Booked(World, now) /\ Covered(World.rex) /\ 0 \in Nat
    BY ReadyBooked
<1>4. /\ Comes(World, w1, 0, now) /\ Booked(w1, now) /\ Covered(w1.rex)
      /\ x \in DOMAIN w1.rex.balances
    BY <1>1, MaintenanceComes
<1> HIDE DEF w1
<1>5. Comes(w1, w2, 0, now) /\ x \in DOMAIN w2.rex.balances
    BY <1>4, MaturedComes
<1> HIDE DEF w2
<1>6. Booked(w2, now) /\ Covered(w2.rex) /\ Comes(World, w2, 0, now)
    BY <1>3, <1>4, <1>5, ComesBooked, ComesThen
<1>7. BalanceSound(w2.rex.balances[x]) /\ SellOrder(w2.rex, x) =< w2.rex.balances[x].matured_rex
    BY <1>5, <1>6, OrderedIsHeld DEF Booked, Sound, OwnersSound
<1>8. /\ BalanceSound(b) /\ b.rex_balance = w2.rex.balances[x].rex_balance
      /\ b.matured_rex = w2.rex.balances[x].matured_rex
    BY <1>1, <1>7, BalanceUnsaved
<1> HIDE DEF b
<1>9. Comes(w2, w3, 0, now)
    BY <1>3, <1>5, <1>6, <1>7, <1>8, BalanceComes
<1> HIDE DEF w3
<1>10. Booked(w3, now) /\ Comes(World, w3, 0, now)
    BY <1>3, <1>6, <1>9, ComesBooked, ComesThen
<1>11. Comes(w3, w4, 0, now)
    BY <1>3, <1>10, AccountComes
<1> HIDE DEF w4
<1>12. Comes(World, w4, 0, now)
    BY <1>3, <1>10, <1>11, ComesThen
<1> QED BY <1>2, <1>12, DoneEnds

\* cnclrexorder.
LEMMA CnclRexOrderMoves ==
    ASSUME RexReady, NEW x \in Users, CnclRexOrder(x)
    PROVE  RexMoves
<1> DEFINE r == [rex EXCEPT !.orders = Erase(rex.orders, x)]
           w == [World EXCEPT !.rex = r]
<1>1. x \in OpenOrders(rex) /\ Become(w)
    BY DEF CnclRexOrder, World
<1>2. Clock(now) /\ Booked(World, now) /\ Sound(rex, now) /\ World.rex = rex
    BY ReadyBooked
<1>3. Goes(rex, r, 0, now) /\ Still(rex, r)
    BY <1>1, <1>2, CancelGoes
<1> HIDE DEF r
<1>4. Comes(World, w, 0, now)
    BY <1>2, <1>3, RexComes
<1> HIDE DEF w
<1> QED BY <1>1, <1>4, Ends

\* setrex.
LEMMA SetRexMoves ==
    ASSUME RexReady, NEW balance \in Nat, SetRex(balance)
    PROVE  RexMoves
<1> DEFINE p == [rex.pool EXCEPT !.total_rent = balance]
           r == [rex EXCEPT !.pool = p]
           w == [World EXCEPT !.rex = r]
<1>1. Become(w)
    BY DEF SetRex, World
<1>2. Clock(now) /\ Booked(World, now) /\ Sound(rex, now) /\ World.rex = rex
    BY ReadyBooked
<1>3. PoolSound(rex.pool)
    BY <1>2 DEF Sound
<1>4. /\ PoolSound(p) /\ p.total_lent = rex.pool.total_lent
      /\ p.total_lendable = rex.pool.total_lendable
      /\ p.total_rex = rex.pool.total_rex /\ p.loan_num = rex.pool.loan_num
    BY <1>3 DEF PoolSound, PoolFields
<1> HIDE DEF p
<1>5. Goes(rex, r, 0, now) /\ Still(rex, r)
    BY <1>2, <1>4, PoolChanged
<1> HIDE DEF r
<1>6. Comes(World, w, 0, now)
    BY <1>2, <1>5, RexComes
<1> HIDE DEF w
<1> QED BY <1>1, <1>6, Ends

\* rexexec.
LEMMA RexExecMoves ==
    ASSUME RexReady, NEW max \in Nat, RexExec(max)
    PROVE  RexMoves
<1>1. Become(runrex(World, max, now))
    BY DEF RexExec, RexExecDone
<1>2. Comes(World, runrex(World, max, now), 0, now)
    BY ReadyBooked, RunrexComes
<1> QED BY <1>1, <1>2, Ends

\* closerex.
LEMMA CloseRexMoves ==
    ASSUME RexReady, NEW x \in Users, CloseRex(x)
    PROVE  RexMoves
<1> DEFINE v == IF rex.pool.exists THEN runrex(World, 2, now) ELSE World
           w == update_rex_account(v, x, 0, 0, FALSE, now)
           r == [w.rex EXCEPT !.funds = IF Unused(w.rex, x) THEN Erase(@, x) ELSE @,
                              !.balances = Erase(@, x)]
           u == [w EXCEPT !.rex = r]
<1>1. /\ x \in DOMAIN w.rex.balances => w.rex.balances[x].rex_balance = 0
      /\ Done([w EXCEPT !.rex.funds = IF Unused(w.rex, x) THEN Erase(@, x) ELSE @,
                        !.rex.balances = Erase(@, x)], x)
    BY Zenon DEF CloseRex, CloseRexFrom
<1>2. Clock(now) /\ Booked(World, now) /\ Covered(World.rex) /\ 0 \in Nat
    BY ReadyBooked
<1>3. Comes(World, v, 0, now)
  <2>1. Comes(World, World, 0, now)
      BY <1>2, SameComes DEF Booked
  <2> QED BY <2>1, MaintenanceComes
<1> HIDE DEF v
<1>4. Comes(v, w, 0, now)
    BY <1>2, <1>3, ComesBooked, AccountComes
<1> HIDE DEF w
<1>5. Comes(World, w, 0, now)
    BY <1>2, <1>3, <1>4, ComesThen
<1>6. Booked(w, now) /\ Covered(w.rex)
    BY <1>2, <1>5, ComesBooked
<1>7. Goes(w.rex, r, 0, now) /\ Covered(r)
    BY <1>1, <1>2, <1>6, CloseGoes DEF Booked
<1>8. Done(u, x)
  <2>1. [w EXCEPT !.rex.funds = IF Unused(w.rex, x) THEN Erase(@, x) ELSE @,
                  !.rex.balances = Erase(@, x)] = u
      BY <1>6 DEF Booked, WorldFields, Sound, RexFields
  <2> QED BY <1>1, <2>1
<1> HIDE DEF r
<1>9. /\ Become(u) /\ u.rex = r /\ u.core = w.core
    BY <1>6, <1>8 DEF Done, Booked, WorldFields
<1> HIDE DEF u
<1> QED BY <1>5, <1>7, <1>9, CoveredEnds

\* rentcpu and rentnet.
LEMMA RentRexMoves ==
    ASSUME RexReady, NEW kind \in Kinds, NEW x \in Users, NEW receiver \in Users,
           NEW payment \in Nat, NEW fund \in Nat, RentRex(kind, x, receiver, payment, fund)
    PROVE  RexMoves
<1> DEFINE w == runrex(World, 2, now)
           rented == RentedTokens(w.rex.pool, payment)
           loan == [kind |-> kind, from |-> x, receiver |-> receiver, payment |-> payment,
                    balance |-> fund, total_staked |-> rented, expiration |-> now + Term]
           r == AddLoan(add_loan_to_rex_pool(transfer_from_fund(w.rex, x, payment + fund),
                                             payment, rented, TRUE, now), loan)
           u == [w EXCEPT !.rex = r]
           net == IF kind = "net" THEN rented ELSE 0
           cpu == IF kind = "cpu" THEN rented ELSE 0
           v == update_resource_limits(u, receiver, net, cpu)
<1>1. /\ payment > 0 /\ rex_loans_available(w.rex)
      /\ CanTransferFromFund(w.rex, x, payment + fund) /\ payment < rented /\ Done(v, x)
    BY Zenon DEF RentRex, RentRexFrom, RentTokens
<1>2. Clock(now) /\ Booked(World, now) /\ now \in Nat
    BY ReadyBooked
<1>3. Comes(World, w, 0, now) /\ Booked(w, now)
    BY MaintenanceComes
<1> HIDE DEF w
<1>4. /\ DOMAIN loan = LoanFields /\ loan.payment = payment /\ loan.balance = fund
      /\ loan.total_staked = rented /\ loan.expiration \in Int
      /\ loan.receiver \in Users /\ loan.kind \in Kinds
  <2>1. now + Term \in Int
      BY <1>2, RexAssumption DEF Term
  <2> HIDE DEF rented
  <2> QED BY <2>1 DEF LoanFields
<1>5. payment \in Nat \ {0} /\ rented = RentedTokens(w.rex.pool, payment)
    BY <1>1
<1> HIDE DEF rented, loan
<1>6. Goes(w.rex, r, 0, now) /\ Still(w.rex, r)
    BY <1>1, <1>2, <1>3, <1>4, <1>5, RentGoes DEF Booked
<1> HIDE DEF r
<1>7. Comes(w, u, 0, now)
    BY <1>2, <1>3, <1>6, RexComes
<1> HIDE DEF u, net, cpu
<1>8. Comes(u, v, 0, now)
    BY <1>2, <1>7, ComesBooked, LimitsComes
<1> HIDE DEF v
<1>9. Comes(World, v, 0, now)
  <2>1. Comes(w, v, 0, now)
      BY <1>2, <1>3, <1>7, <1>8, ComesThen
  <2> QED BY <1>2, <1>3, <2>1, ComesThen
<1> QED BY <1>1, <1>9, DoneEnds

\* fundcpuloan and fundnetloan.
LEMMA FundLoanMoves ==
    ASSUME RexReady, NEW kind, NEW x \in Users, NEW num, NEW payment \in Nat,
           FundLoan(kind, x, num, payment)
    PROVE  RexMoves
<1> DEFINE q == transfer_from_fund(rex, x, payment)
           r == LoanFunded(q, num, payment)
           w == [World EXCEPT !.rex = r]
<1>1. CanTransferFromFund(rex, x, payment) /\ num \in DOMAIN rex.loans /\ Become(w)
    BY DEF FundLoan, IsLoanOf, World
<1>2. /\ Clock(now) /\ Booked(World, now) /\ Sound(rex, now) /\ World.rex = rex
      /\ payment \in Int /\ - payment \in Int
    BY ReadyBooked
<1>3. Goes(rex, q, - payment, now) /\ Still(rex, q) /\ q.loans = rex.loans
  <2>1. q.loans = rex.loans
      BY <1>2 DEF transfer_from_fund, Sound, RexFields
  <2> QED BY <1>1, <1>2, <2>1, FundGoes
<1> HIDE DEF q
<1>4. Sound(q, now)
    BY <1>3 DEF Goes
<1>5. q.loans[num].balance + payment >= 0 /\ num \in DOMAIN q.loans
  <2>1. q.loans[num].balance \in Nat
      BY <1>1, <1>3, <1>4 DEF Sound, LoansSound, LoanSound
  <2> QED BY <1>1, <1>3, <2>1
<1>6. Goes(q, r, payment, now) /\ Still(q, r)
    BY <1>2, <1>4, <1>5, LoanFundedGoes
<1> HIDE DEF r
<1>7. Goes(rex, r, (- payment) + payment, now) /\ Still(rex, r)
    BY <1>2, <1>3, <1>6, GoesTransitive, StillTransitive
<1>8. (- payment) + payment = 0
    OBVIOUS
<1>9. Goes(rex, r, 0, now)
    BY <1>7, <1>8, Zenon
<1>10. Comes(World, w, 0, now)
    BY <1>2, <1>7, <1>9, RexComes
<1> HIDE DEF w
<1> QED BY <1>1, <1>10, Ends

\* defcpuloan and defnetloan.
LEMMA DefundLoanMoves ==
    ASSUME RexReady, NEW kind, NEW x \in Users, NEW num, NEW amount \in Nat,
           DefundLoan(kind, x, num, amount)
    PROVE  RexMoves
<1> DEFINE q == LoanFunded(rex, num, - amount)
           r == transfer_to_fund(q, x, amount)
           w == [World EXCEPT !.rex = r]
<1>1. rex.loans[num].balance >= amount /\ num \in DOMAIN rex.loans /\ Become(w)
    BY DEF DefundLoan, IsLoanOf, World
<1>2. /\ Clock(now) /\ Booked(World, now) /\ Sound(rex, now) /\ World.rex = rex
      /\ amount \in Int /\ - amount \in Int
    BY ReadyBooked
<1>3. rex.loans[num].balance + (- amount) >= 0
  <2>1. rex.loans[num].balance \in Nat
      BY <1>1, <1>2 DEF Sound, LoansSound, LoanSound
  <2> QED BY <1>1, <2>1
<1>4. Goes(rex, q, - amount, now) /\ Still(rex, q)
  <2> DEFINE less == - amount
  <2>1. less \in Int /\ rex.loans[num].balance + less >= 0
      BY <1>2, <1>3
  <2> HIDE DEF less
  <2>2. Goes(rex, LoanFunded(rex, num, less), less, now) /\ Still(rex, LoanFunded(rex, num, less))
      BY <1>1, <1>2, <2>1, LoanFundedGoes
  <2> QED BY <2>2 DEF less
<1> HIDE DEF q
<1>5. Goes(q, r, amount, now) /\ Still(q, r)
    BY <1>2, <1>4, FundGoes DEF Goes
<1> HIDE DEF r
<1>7. Goes(rex, r, (- amount) + amount, now) /\ Still(rex, r)
    BY <1>2, <1>4, <1>5, GoesTransitive, StillTransitive
<1>8. (- amount) + amount = 0
    OBVIOUS
<1>9. Goes(rex, r, 0, now)
    BY <1>7, <1>8, Zenon
<1>10. Comes(World, w, 0, now)
    BY <1>2, <1>7, <1>9, RexComes
<1> HIDE DEF w
<1> QED BY <1>1, <1>10, Ends

\* Without REX there is no order that waits.
LEMMA NoOrders ==
    ASSUME NEW r, NEW ct, Sound(r, ct), Covered(r), r.pool.total_rex = 0
    PROVE  OpenOrders(r) = {}
<1> SUFFICES ASSUME NEW x \in OpenOrders(r) PROVE FALSE
    OBVIOUS
<1>1. /\ x \in DOMAIN r.balances /\ r.orders[x].rex_requested =< r.balances[x].matured_rex
      /\ r.orders[x].rex_requested \in Nat \ {0}
    BY DEF Covered, OpenOrders, Sound, OrdersSound, OrderSound
<1>2. /\ r.balances[x].rex_balance \in Nat /\ r.balances[x].rex_balance =< 0
      /\ r.balances[x].matured_rex \in Nat
      /\ r.balances[x].matured_rex =< r.balances[x].rex_balance
    BY <1>1, OwnsNoMore DEF Sound
<1> QED BY <1>1, <1>2

\* What tokens in a pool without REX are lost to.
LostTo(r) == IF r.pool.total_rex > 0 THEN 0 ELSE r.pool.total_lendable

\* A purchase has led to v, but for what follows it.
LEMMA BoughtEnds ==
    ASSUME RexReady, NEW v, Booked(v, now), Covered(v.rex), v.rex.orders = rex.orders,
           Assets(v.rex) = Assets(rex) + ((Coins(v) - core[rex_account]) - LostTo(rex)),
           v.rex.pool.total_rex > 0, rex.pool.total_rex > 0 => Dearer(rex.pool, v.rex.pool),
           NEW w, Comes(v, w, 0, now), Become(w)
    PROVE  RexMoves
<1> DEFINE a == core[rex_account]
           b == Coins(v)
           c == Coins(w)
           lost == LostTo(rex)
           e == Assets(rex)
           f == Assets(v.rex)
<1>1. /\ Clock(now) /\ Sound(rex, now) /\ Covered(rex) /\ a \in Int /\ b \in Int /\ c \in Int
      /\ Sound(v.rex, now) /\ Sound(w.rex, now)
    BY ReadyBooked DEF RexReady, RexInv, Booked, Comes, Goes
<1>2. rex' = w.rex /\ core'[rex_account] = c /\ now' = now
    BY DEF Become, Coins
<1>3. /\ Covered(w.rex) /\ Assets(w.rex) = f + ((c - b) + 0) /\ Dearer(v.rex.pool, w.rex.pool)
      /\ f = e + ((b - a) - lost)
    BY DEF Comes, Still, Goes
<1>4. e \in Int /\ f \in Int /\ lost \in Nat /\ (rex.pool.total_rex > 0 => lost = 0)
      /\ (lost # 0 => rex.pool.total_rex = 0)
  <2>1. e \in Nat /\ f \in Nat /\ rex.pool.total_lendable \in Nat /\ rex.pool.total_rex \in Nat
      BY <1>1, SoundSums DEF Sound, PoolSound
  <2> HIDE DEF e, f
  <2> QED BY <2>1 DEF LostTo
<1>5. rex.pool.total_rex = 0 => w.rex.pool.total_rex > 0
  <2>1. ASSUME rex.pool.total_rex = 0 PROVE w.rex.pool.total_rex > 0
    <3>1. OpenOrders(rex) = {}
        BY <1>1, <2>1, NoOrders
    <3>2. OpenOrders(v.rex) = {}
        BY <3>1 DEF OpenOrders
    <3> QED BY <3>2 DEF Comes, Still
  <2> QED BY <2>1
<1>6. rex.pool.total_rex > 0 => Dearer(rex.pool, w.rex.pool)
    BY <1>1, <1>3, DearerTransitive DEF Sound
<1> HIDE DEF a, b, c, lost, e, f
<1>7. Assets(w.rex) = e + ((c - a) - lost)
    BY <1>1, <1>3, <1>4
<1>8. \/ Assets(w.rex) = e + (c - a)
      \/ Assets(w.rex) < e + (c - a) /\ rex.pool.total_rex = 0
    BY <1>1, <1>4, <1>7
<1>9. RexMoved(rex, w.rex, c - a, now)
    BY <1>1, <1>3, <1>5, <1>6, <1>8 DEF RexMoved, Dearer, e
<1> QED BY <1>1, <1>2, <1>9 DEF RexMoves, a

\* buyrex.
LEMMA BuyRexMoves ==
    ASSUME RexReady, NEW x \in Users, NEW amount \in Nat, BuyRex(x, amount)
    PROVE  RexMoves
<1> DEFINE q == transfer_from_fund(rex, x, amount)
           r == Bought(q, x, amount, now)
           w1 == [World EXCEPT !.rex = r]
           w2 == runrex(w1, 2, now)
           delta == VoteStake(r, x) - VoteStake(rex, x)
           w3 == update_rex_account(w2, x, 0, delta, FALSE, now)
<1>1. CanTransferFromFund(rex, x, amount) /\ CanAddToPool(rex) /\ Done(w3, x)
    BY Zenon DEF BuyRex, BuyRexDone
<1>2. /\ Clock(now) /\ Booked(World, now) /\ Sound(rex, now) /\ Covered(rex) /\ World.rex = rex
      /\ World.core = core /\ 0 \in Nat /\ 2 \in Nat
    BY ReadyBooked
<1>3. amount \in Nat \ {0}
    BY <1>1 DEF CanTransferFromFund
<1>4. Goes(rex, q, - amount, now) /\ Still(rex, q) /\ q.pool = rex.pool /\ q.orders = rex.orders
  <2>1. q.pool = rex.pool /\ q.orders = rex.orders
      BY <1>2 DEF transfer_from_fund, Sound, RexFields
  <2> QED BY <1>1, <1>2, <2>1, FundGoes
<1> HIDE DEF q
<1>5. Sound(q, now) /\ CanAddToPool(q) /\ Covered(q) /\ Assets(q) = Assets(rex) + (- amount)
    BY <1>1, <1>2, <1>4 DEF CanAddToPool, rex_available, Goes, Still
<1>6. /\ Sound(r, now) /\ Assets(r) = Assets(q) + (amount - LostTo(rex)) /\ Covered(r)
      /\ r.pool.total_rex > 0 /\ r.orders = q.orders
      /\ rex.pool.total_rex > 0 => Dearer(rex.pool, r.pool)
  <2>1. LET s    == Bought(q, x, amount, now)
            lost == IF q.pool.total_rex > 0 THEN 0 ELSE q.pool.total_lendable
        IN  /\ Sound(s, now) /\ Assets(s) = Assets(q) + (amount - lost)
            /\ s.pool.total_rex > 0 /\ s.orders = q.orders
            /\ q.pool.total_rex > 0 => Dearer(q.pool, s.pool)
            /\ Covered(q) => Covered(s)
      BY <1>2, <1>3, <1>5, BoughtGoes
  <2> QED BY <1>4, <1>5, <2>1 DEF LostTo
<1> HIDE DEF r
<1>7. /\ Booked(w1, now) /\ w1.rex = r /\ Coins(w1) = core[rex_account]
    BY <1>2, <1>6 DEF Booked, WorldFields, Coins
<1> HIDE DEF w1
<1>8. Comes(w1, w2, 0, now)
    BY <1>2, <1>6, <1>7, RunrexComes
<1> HIDE DEF w2, delta
<1>9. Comes(w2, w3, 0, now)
    BY <1>2, <1>8, ComesBooked, AccountComes
<1> HIDE DEF w3
<1>10. Comes(w1, w3, 0, now)
    BY <1>2, <1>7, <1>8, <1>9, ComesThen
<1>11. Assets(r) = Assets(rex) + ((Coins(w1) - core[rex_account]) - LostTo(rex))
  <2> DEFINE e == Assets(rex)
             c == core[rex_account]
             l == LostTo(rex)
             f == Assets(q)
  <2>1. e \in Nat /\ c \in Int /\ l \in Nat /\ f \in Nat
      BY <1>2, <1>5, SoundSums DEF RexReady, RexInv, LostTo
  <2>2. Assets(r) = f + (amount - l) /\ f = e + (- amount) /\ Coins(w1) = c
      BY <1>5, <1>6, <1>7
  <2> HIDE DEF e, c, l, f
  <2>3. f + (amount - l) = e + ((c - c) - l)
      BY <2>1, <2>2
  <2> QED BY <2>2, <2>3 DEF e, c, l
<1>12. Become(w3)
    BY <1>1 DEF Done
<1> QED BY <1>4, <1>6, <1>7, <1>10, <1>11, <1>12, BoughtEnds

\* unstaketorex.
LEMMA UnstakeToRexMoves ==
    ASSUME RexReady, NEW x \in Users, NEW receiver, NEW net \in Nat, NEW cpu \in Nat,
           UnstakeToRex(x, receiver, net, cpu)
    PROVE  RexMoves
<1> DEFINE left == Unstaked(bw.delband[<<x, receiver>>], net, cpu)
           payment == net + cpu
           w1 == StakeTaken(World, x, receiver, left)
           w2 == update_resource_limits(w1, receiver, - net, - cpu)
           w3 == Transfer(w2, stake_account, rex_account, payment)
           r  == Bought(w3.rex, x, payment, now)
           w4 == [w3 EXCEPT !.rex = r]
           w5 == runrex(w4, 2, now)
           w6 == update_rex_account(w5, x, 0, 0, TRUE, now)
<1>1. payment > 0 /\ CanAddToPool(rex) /\ Done(w6, x)
    BY Zenon DEF UnstakeToRex, StakeFreed
<1>2. /\ Clock(now) /\ Booked(World, now) /\ Sound(rex, now) /\ Covered(rex) /\ World.rex = rex
      /\ World.core = core /\ 0 \in Nat /\ 2 \in Nat
    BY ReadyBooked
<1>3. payment \in Nat \ {0} /\ payment \in Int
    BY <1>1
<1> HIDE DEF left, payment
<1>4. DOMAIN w1 = WorldFields /\ w1.rex = rex /\ w1.core = core /\ Booked(w1, now)
  <2>1. DOMAIN w1 = WorldFields /\ w1.rex = rex /\ w1.core = core
      BY <1>2 DEF StakeTaken, World, WorldFields
  <2> HIDE DEF w1
  <2> QED BY <1>2, <2>1 DEF Booked, Coins
<1> HIDE DEF w1
<1>5. Comes(w1, w2, 0, now) /\ w2.rex = rex /\ w2.core = core
    BY <1>2, <1>4, LimitsComes
<1> HIDE DEF w2
<1>6. Booked(w2, now) /\ rex_account \in DOMAIN core
    BY <1>2, <1>5, ComesBooked DEF Booked, Holders, SystemAccounts
<1>7. w3.rex = rex /\ Booked(w3, now) /\ Coins(w3) = core[rex_account] + payment
  <2>1. stake_account \in Holders \ {rex_account}
      BY DEF Holders, SystemAccounts, stake_account, rex_account
  <2>2. Comes(w2, w3, 0 - payment, now) /\ w3.rex = w2.rex
      BY <1>2, <1>3, <1>6, <2>1, TransferComes
  <2>3. w3.core = [w2.core EXCEPT ![stake_account] = @ - payment, ![rex_account] = @ + payment]
      BY <1>6 DEF Booked, WorldFields, Transfer
  <2>4. Coins(w3) = core[rex_account] + payment
      BY <1>5, <1>6, <2>1, <2>3 DEF Coins
  <2> HIDE DEF w3
  <2> QED BY <1>5, <2>2, <2>4, ComesBooked
<1> HIDE DEF w3
<1>8. /\ Sound(r, now) /\ Assets(r) = Assets(rex) + (payment - LostTo(rex)) /\ Covered(r)
      /\ r.pool.total_rex > 0 /\ r.orders = rex.orders
      /\ rex.pool.total_rex > 0 => Dearer(rex.pool, r.pool)
    BY <1>1, <1>2, <1>3, <1>7, BoughtGoes DEF LostTo
<1> HIDE DEF r
<1>9. Booked(w4, now) /\ w4.rex = r /\ Coins(w4) = core[rex_account] + payment
    BY <1>7, <1>8 DEF Booked, WorldFields, Coins
<1> HIDE DEF w4
<1>10. Comes(w4, w5, 0, now)
    BY <1>2, <1>8, <1>9, RunrexComes
<1> HIDE DEF w5
<1> DEFINE forced == TRUE
<1> HIDE DEF forced
<1>11. Comes(w5, w6, 0, now)
    BY <1>2, <1>10, ComesBooked, AccountComes
<1> HIDE DEF w6
<1>12. Comes(w4, w6, 0, now)
    BY <1>2, <1>9, <1>10, <1>11, ComesThen
<1>13. Assets(r) = Assets(rex) + ((Coins(w4) - core[rex_account]) - LostTo(rex))
  <2> DEFINE c == core[rex_account]
             l == LostTo(rex)
  <2>1. c \in Int
      BY DEF RexReady, RexInv
  <2> HIDE DEF c
  <2>2. (c + payment) - c = payment
      BY <1>3, <2>1
  <2> QED BY <1>8, <1>9, <2>2 DEF c
<1>14. Become(w6)
    BY <1>1 DEF Done
<1> QED BY <1>8, <1>9, <1>12, <1>13, <1>14, BoughtEnds

\* sellrex: the order is filled, or waits.
LEMMA SellRexMoves ==
    ASSUME RexReady, NEW x \in Users, NEW amount \in Nat, SellRex(x, amount)
    PROVE  RexMoves
<1> DEFINE w1 == runrex(World, 2, now)
           w2 == Matured(w1, x)
           outcome == fill_rex_order(w2.rex, x, amount)
           paid == outcome.proceeds
           r == outcome.rex
           w3 == [w2 EXCEPT !.rex = r]
           w4 == update_rex_account(w3, x, paid, outcome.stake_change, FALSE, now)
           w5 == [w4 EXCEPT !.rex = Queue(w4.rex, x, amount)]
<1>1. /\ x \in DOMAIN rex.balances /\ amount > 0 /\ amount =< w2.rex.balances[x].matured_rex
      /\ SellOrder(w4.rex, x) + (IF outcome.success THEN 0 ELSE amount)
           =< w4.rex.balances[x].matured_rex
      /\ Done(IF outcome.success THEN w4 ELSE [w4 EXCEPT !.rex = Queue(@, x, amount)], x)
    BY Zenon DEF SellRex, SellRexFrom, SellRexOutcome, SellRexDone
<1>2. Become(IF outcome.success THEN w4 ELSE w5)
    BY <1>1 DEF Done
<1>3. Clock(now) /\ Booked(World, now) /\ now \in Nat /\ amount \in Nat \ {0}
    BY <1>1, ReadyBooked
<1>4. /\ Comes(World, w1, 0, now) /\ Booked(w1, now) /\ Covered(w1.rex)
      /\ x \in DOMAIN w1.rex.balances
    BY <1>1, MaintenanceComes
<1> HIDE DEF w1
<1>5. /\ Comes(World, w2, 0, now) /\ Booked(w2, now) /\ Covered(w2.rex)
      /\ x \in DOMAIN w2.rex.balances
  <2>1. Comes(w1, w2, 0, now) /\ x \in DOMAIN w2.rex.balances
      BY <1>4, MaturedComes
  <2> HIDE DEF w2
  <2> QED BY <1>3, <1>4, <2>1, ComesBooked, ComesThen
<1> HIDE DEF w2
<1>6. /\ paid \in Nat /\ (~ outcome.success => paid = 0)
      /\ Goes(w2.rex, r, 0 - paid, now) /\ r.orders = w2.rex.orders
      /\ DOMAIN r.balances = DOMAIN w2.rex.balances
      /\ \A y \in DOMAIN w2.rex.balances \ {x} : r.balances[y] = w2.rex.balances[y]
    BY <1>1, <1>3, <1>5, FillGoes DEF Booked
<1> HIDE DEF outcome
<1>7. /\ DOMAIN w3 = WorldFields /\ w3.rex = r /\ w3.core = w2.core /\ Booked(w3, now)
    BY <1>5, <1>6 DEF Booked, WorldFields, Goes, Coins
<1> HIDE DEF w3, r
<1> HIDE DEF paid
<1>8. /\ Comes(w3, w4, paid, now) /\ w4.rex.balances = r.balances /\ w4.core = w3.core
      /\ w4.rex.orders = IF x \in OpenOrders(r) THEN r.orders ELSE Erase(r.orders, x)
  <2> DEFINE change == outcome.stake_change
             forced == FALSE
             u == update_rex_account(w3, x, paid, change, forced, now)
  <2>1. Clock(now) /\ Booked(w3, now) /\ paid \in Nat
      BY <1>3, <1>6, <1>7
  <2> HIDE DEF change, forced
  <2>2. /\ Comes(w3, u, paid, now) /\ u.rex.balances = w3.rex.balances /\ u.core = w3.core
        /\ u.rex.orders = IF x \in OpenOrders(w3.rex) THEN w3.rex.orders ELSE Erase(w3.rex.orders, x)
      BY <2>1, AccountComes
  <2>3. u = w4
      BY DEF change, forced
  <2> HIDE DEF u
  <2> QED BY <1>7, <2>2, <2>3
<1> HIDE DEF w4
<1>9. Goes(w2.rex, w4.rex, 0, now) /\ w4.core = w2.core /\ Sound(w4.rex, now) /\ Booked(w4, now)
  <2>1. Coins(w4) = Coins(w3) /\ Coins(w3) \in Int
      BY <1>7, <1>8 DEF Coins, Booked
  <2>2. (Coins(w4) - Coins(w3)) + paid = paid /\ (0 - paid) + paid = 0 /\ 0 - paid \in Int /\ paid \in Int
      BY <1>6, <2>1
  <2>3. Goes(r, w4.rex, (Coins(w4) - Coins(w3)) + paid, now)
      BY <1>7, <1>8 DEF Comes
  <2>4. Goes(r, w4.rex, paid, now)
      BY <2>2, <2>3, Zenon
  <2>5. Sound(w2.rex, now)
      BY <1>5 DEF Booked
  <2>6. Goes(w2.rex, w4.rex, (0 - paid) + paid, now)
      BY <1>3, <1>6, <2>2, <2>4, <2>5, GoesTransitive
  <2>7. Goes(w2.rex, w4.rex, 0, now)
      BY <2>2, <2>6, Zenon
  <2> QED BY <1>7, <1>8, <2>7, ComesBooked DEF Goes
<1>10. /\ x \in DOMAIN w4.rex.balances
       /\ \A y \in OpenOrders(w4.rex) \ {x} :
              /\ y \in DOMAIN w4.rex.balances
              /\ w4.rex.orders[y].rex_requested =< w4.rex.balances[y].matured_rex
  <2>1. ASSUME NEW y \in OpenOrders(w4.rex), y # x
        PROVE  /\ y \in DOMAIN w4.rex.balances
               /\ w4.rex.orders[y].rex_requested =< w4.rex.balances[y].matured_rex
    <3>1. y \in OpenOrders(w2.rex) /\ w4.rex.orders[y] = w2.rex.orders[y]
        BY <1>6, <1>8, <2>1 DEF OpenOrders, Erase
    <3>2. y \in DOMAIN w2.rex.balances
          /\ w2.rex.orders[y].rex_requested =< w2.rex.balances[y].matured_rex
        BY <1>5, <3>1 DEF Covered
    <3> QED BY <1>6, <1>8, <2>1, <3>1, <3>2
  <2> QED BY <1>5, <1>6, <1>8, <2>1
<1>11. CASE outcome.success
  <2>1. SellOrder(w4.rex, x) =< w4.rex.balances[x].matured_rex
    <3>1. SellOrder(w4.rex, x) \in Int
        BY <1>9 DEF SellOrder, OpenOrders, Sound, OrdersSound, OrderSound
    <3> QED BY <1>1, <1>11, <3>1
  <2>2. Covered(w4.rex)
      BY <1>10, <2>1 DEF Covered, SellOrder
  <2>3. Become(w4)
      BY <1>2, <1>11
  <2> QED BY <1>5, <1>9, <2>2, <2>3, CoveredEnds
<1>12. CASE ~ outcome.success
  <2> DEFINE q == Queue(w4.rex, x, amount)
  <2>1. SellOrder(w4.rex, x) + amount =< w4.rex.balances[x].matured_rex
      BY <1>1, <1>12
  <2>2. Goes(w4.rex, q, 0, now) /\ Covered(q)
      BY <1>3, <1>9, <1>10, <2>1, QueueGoes
  <2> HIDE DEF q
  <2>3. w5.rex = q /\ w5.core = w2.core
      BY <1>9 DEF Booked, WorldFields, q
  <2>4. Become(w5)
      BY <1>2, <1>12
  <2> HIDE DEF w5
  <2>5. 0 \in Int /\ 0 + 0 = 0 /\ Sound(w2.rex, now)
      BY <1>5 DEF Booked
  <2>6. Goes(w2.rex, q, 0 + 0, now)
      BY <1>3, <1>9, <2>2, <2>5, GoesTransitive
  <2>7. Goes(w2.rex, w5.rex, 0, now)
      BY <2>3, <2>5, <2>6, Zenon
  <2> QED BY <1>5, <2>2, <2>3, <2>4, <2>7, CoveredEnds
<1> QED BY <1>11, <1>12

-----------------------------------------------------------------------------
(* The other parts of the contract.  They reach the exchange by the fees   *)
(* and the bids they channel to it and by the stake of its owners.         *)

\* Helpers that come one after another.
LEMMA ComesAfter ==
    ASSUME NEW ct, Clock(ct), NEW w, Booked(w, ct), NEW u, Comes(w, u, 0, ct), NEW v, Comes(u, v, 0, ct)
    PROVE  Comes(w, v, 0, ct) /\ Booked(v, ct)
<1>1. Comes(w, v, 0, ct)
    BY ComesThen
<1> QED BY <1>1, ComesBooked

\* Neither the exchange nor what its account holds changes.
LEMMA BesideComes ==
    ASSUME NEW ct, Clock(ct), NEW w, Booked(w, ct), NEW u, DOMAIN u = WorldFields,
           u.rex = w.rex, DOMAIN u.core = Holders, Coins(u) = Coins(w)
    PROVE  Comes(w, u, 0, ct)
<1>1. Coins(w) \in Int
    BY DEF Booked
<1>2. (Coins(u) - Coins(w)) + 0 = 0
    BY <1>1
<1>3. Goes(w.rex, u.rex, 0, ct) /\ Still(w.rex, u.rex)
    BY GoesReflexive DEF Booked
<1>4. Goes(w.rex, u.rex, (Coins(u) - Coins(w)) + 0, ct)
    BY <1>2, <1>3, Zenon
<1> QED BY <1>1, <1>3, <1>4 DEF Comes

\* Tokens of others.
LEMMA OthersComes ==
    ASSUME NEW ct, Clock(ct), NEW w, Booked(w, ct), NEW a, a # rex_account, NEW b, b # rex_account,
           NEW amount
    PROVE  Comes(w, Transfer(w, a, b, amount), 0, ct)
<1> DEFINE u == Transfer(w, a, b, amount)
<1>1. DOMAIN u = WorldFields /\ u.rex = w.rex /\ DOMAIN u.core = Holders /\ Coins(u) = Coins(w)
  <2>1. rex_account \in Holders
      BY DEF Holders, SystemAccounts
  <2> QED BY <2>1 DEF Booked, WorldFields, Transfer, Coins
<1> HIDE DEF u
<1> QED BY <1>1, BesideComes DEF u

\* The system's accounts.
LEMMA SystemHolders ==
    \A a \in {ram_account, ramfee_account, stake_account, bpay_account, vpay_account, names_account,
              saving_account} : a \in Holders /\ a # rex_account
BY DEF Holders, SystemAccounts, ram_account, ramfee_account, stake_account, bpay_account,
       vpay_account, names_account, saving_account, rex_account

\* A row of RAM and its limit.
LEMMA HoldRamComes ==
    ASSUME NEW ct, Clock(ct), NEW w, Booked(w, ct), NEW x, NEW bytes
    PROVE  Comes(w, HoldRam(w, x, bytes), 0, ct)
<1> DEFINE row == Resources(w.bw, x)
           t == Put(w.bw.userres, x, [row EXCEPT !.ram = row.ram + bytes])
           v == [w EXCEPT !.bw.userres = t]
           limit == v.bw.userres[x].ram + ram_gift_bytes
           u == [v EXCEPT !.bw.limits[x].ram = limit]
<1>1. HoldRam(w, x, bytes) \in {v, u}
    BY DEF HoldRam, SetRamLimit
<1> HIDE DEF t
<1>2. DOMAIN v = WorldFields /\ v.rex = w.rex /\ v.core = w.core
    BY DEF Booked, WorldFields
<1> HIDE DEF v, limit
<1>3. DOMAIN u = WorldFields /\ u.rex = w.rex /\ u.core = w.core
    BY <1>2 DEF WorldFields
<1> HIDE DEF u
<1>4. Comes(w, u, 0, ct) /\ Comes(w, v, 0, ct)
    BY <1>2, <1>3, SameComes
<1> QED BY <1>1, <1>4

\* The fee of a trade in RAM goes to the owners of REX.
LEMMA PayFeeComes ==
    ASSUME Clock(now), NEW w, Booked(w, now), NEW x \in Users, NEW fee \in Nat
    PROVE  Comes(w, PayFee(w, x, fee), 0, now)
<1> DEFINE v == Transfer(w, x, ramfee_account, fee)
           u == channel_to_rex(v, ramfee_account, fee, now)
<1>1. Comes(w, v, 0, now)
    BY OthersComes, SystemHolders, UserHolder
<1> HIDE DEF v
<1>2. Comes(v, u, 0, now)
    BY <1>1, ComesBooked, ChannelComes, SystemHolders
<1> HIDE DEF u
<1>3. Comes(w, u, 0, now)
    BY <1>1, <1>2, ComesAfter
<1> QED BY <1>3 DEF PayFee, u, v

\* A step that leaves the exchange and its account alone.
LEMMA AsideEnds ==
    ASSUME RexReady, NEW w, Become(w), w.rex = rex, w.core[rex_account] = core[rex_account]
    PROVE  RexMoves
BY Untouched DEF Become

\* A number of tokens has a fee.
LEMMA FeeType ==
    ASSUME NEW amount \in Int, amount > 0
    PROVE  Fee(amount) \in Nat
<1>1. (amount + 199) \div 200 \in Nat
    OBVIOUS
<1> QED BY <1>1 DEF Fee

\* buyram.
LEMMA BuyRamMoves ==
    ASSUME RexReady, NEW payer \in Users, NEW receiver, NEW quant \in Int, BuyRam(payer, receiver, quant)
    PROVE  RexMoves
<1> DEFINE fee == Fee(quant)
           after == quant - fee
           out == direct_convert(Relay(update_ram_supply(ram, now)), "quote", after).out
           w1 == Transfer(World, payer, ram_account, after)
           w2 == PayFee(w1, payer, fee)
           w3 == HoldRam(w2, receiver, out)
<1>1. quant > 0 /\ Become(w3)
    BY Zenon DEF BuyRam
<1>2. fee \in Nat
    BY <1>1, FeeType
<1>3. Clock(now) /\ Booked(World, now)
    BY ReadyBooked
<1> HIDE DEF after, fee, out
<1>4. Comes(World, w1, 0, now)
    BY <1>3, OthersComes, SystemHolders, UserHolder
<1> HIDE DEF w1
<1>5. Comes(w1, w2, 0, now)
    BY <1>2, <1>3, <1>4, ComesBooked, PayFeeComes
<1> HIDE DEF w2
<1>6. Comes(World, w2, 0, now) /\ Booked(w2, now)
    BY <1>3, <1>4, <1>5, ComesAfter
<1>7. Comes(w2, w3, 0, now)
    BY <1>3, <1>6, HoldRamComes
<1> HIDE DEF w3
<1> QED BY <1>1, <1>3, <1>6, <1>7, ComesAfter, Ends

\* sellram.
LEMMA SellRamMoves ==
    ASSUME RexReady, RamBooksOf(World, ram), NEW x \in Users, NEW bytes \in Nat, SellRam(x, bytes)
    PROVE  RexMoves
<1> DEFINE grown == update_ram_supply(ram, now)
           sale  == direct_convert(Relay(grown), "base", bytes)
           sold  == trade(grown, - sale.out, - bytes, sale.market)
           fee == Fee(sale.out)
           w1 == HoldRam(World, x, - bytes)
           w2 == Transfer(w1, ram_account, x, sale.out)
           w3 == PayFee(w2, x, fee)
<1>1. /\ bytes > 0 /\ x \in DOMAIN bw.userres /\ bw.userres[x].ram >= bytes
      /\ sold.stake >= 0 /\ sale.out > 1 /\ Become(w3)
    BY Zenon DEF SellRam
<1>2. sale.out \in Nat
  <2>1. /\ RamHeld(World.bw.userres) = ram.reserved /\ RamTable(World.bw.userres)
        /\ ram \in Markets /\ RelayCovers(ram) /\ now \in Nat
      BY ReadyBooked DEF RamBooksOf, Markets
  <2>2. RamOf(World.bw.userres, x) = bw.userres[x].ram
      BY <1>1 DEF RamOf, World
  <2>3. RamOf(World.bw.userres, x) \in Nat /\ RamOf(World.bw.userres, x) =< ram.reserved
      BY <2>1, UserHolds
  <2>4. grown \in Markets /\ RelayCovers(grown) /\ grown.reserved = ram.reserved
      BY <2>1, UpdateRamSupply
  <2>5. bytes =< grown.reserved /\ bytes \in Nat \ {0}
      BY <1>1, <2>1, <2>2, <2>3, <2>4 DEF Markets
  <2> HIDE DEF grown
  <2> QED BY <1>1, <2>4, <2>5, SellCovers
<1>3. fee \in Nat
    BY <1>1, <1>2, FeeType
<1>4. Clock(now) /\ Booked(World, now)
    BY ReadyBooked
<1> HIDE DEF fee, sale, sold
<1>5. Comes(World, w1, 0, now)
    BY <1>4, HoldRamComes
<1> HIDE DEF w1
<1>6. Comes(w1, w2, 0, now)
    BY <1>4, <1>5, ComesBooked, OthersComes, SystemHolders, UserHolder
<1> HIDE DEF w2
<1>7. Comes(World, w2, 0, now) /\ Booked(w2, now)
    BY <1>4, <1>5, <1>6, ComesAfter
<1>8. Comes(w2, w3, 0, now)
    BY <1>3, <1>4, <1>7, PayFeeComes
<1> HIDE DEF w3
<1> QED BY <1>1, <1>4, <1>7, <1>8, ComesAfter, Ends

\* Any trade of RAM.
LEMMA RamMovesRex ==
    ASSUME RexReady, RamBooksOf(World, ram), NEW x \in Users, RamStep(x)
    PROVE  RexMoves
<1>1. ASSUME NEW receiver \in Users, NEW quant \in Payments, BuyRam(x, receiver, quant)
      PROVE  RexMoves
  <2>1. quant \in Int
      BY SystemAssumption
  <2> QED BY <1>1, <2>1, BuyRamMoves
<1>2. ASSUME NEW receiver \in Users, NEW bytes \in Bytes, BuyRamBytes(x, receiver, bytes)
      PROVE  RexMoves
  <2> DEFINE quant == (get_bancor_input(ram.base, ram.quote, bytes) * 200) \div 199
  <2>1. quant \in Int
      BY <1>2, BytesCost
  <2>2. BuyRam(x, receiver, quant)
      BY <1>2 DEF BuyRamBytes
  <2> HIDE DEF quant
  <2> QED BY <2>1, <2>2, BuyRamMoves
<1>3. ASSUME NEW bytes \in Bytes, SellRam(x, bytes)
      PROVE  RexMoves
  <2>1. bytes \in Nat
      BY SystemAssumption
  <2> QED BY <1>3, <2>1, SellRamMoves
<1> QED BY <1>1, <1>2, <1>3 DEF RamStep

\* voteproducer, which looks at what the voter's REX is worth.
LEMMA VoteMoves ==
    ASSUME RexReady, NEW x, NEW proxy, NEW producers, VoteProducer(x, proxy, producers)
    PROVE  RexMoves
<1> DEFINE w == update_rex_stake(World, x)
           e == update_votes(w.elect, x, proxy, producers, now)
           u == [w EXCEPT !.elect = e]
<1>1. Become(u)
    BY Zenon DEF VoteProducer
<1>2. Clock(now) /\ Booked(World, now)
    BY ReadyBooked
<1>3. Comes(World, w, 0, now) /\ Booked(w, now)
    BY <1>2, RexStakeComes, ComesBooked
<1> HIDE DEF w, e
<1>4. Comes(w, u, 0, now)
    BY <1>2, <1>3, ElectComes
<1> HIDE DEF u
<1> QED BY <1>1, <1>2, <1>3, <1>4, ComesAfter, Ends

\* Votes, proxies and producers.
LEMMA VoterMoves ==
    ASSUME RexReady, NEW x, VoterStep(x) \/ ProducerStep(x)
    PROVE  RexMoves
<1>1. ASSUME NEW e, Become([World EXCEPT !.elect = e])
      PROVE  RexMoves
  <2> DEFINE w == [World EXCEPT !.elect = e]
  <2>1. w.rex = rex /\ w.core = core /\ Become(w)
      BY <1>1 DEF World
  <2> HIDE DEF w
  <2> QED BY <2>1, AsideEnds
<1>2. ASSUME NEW isproxy, RegProxy(x, isproxy) PROVE RexMoves
    BY <1>1, <1>2, Zenon DEF RegProxy
<1>3. ASSUME RegProducer(x) PROVE RexMoves
    BY <1>1, <1>3, Zenon DEF RegProducer
<1>4. ASSUME UnregProd(x) PROVE RexMoves
    BY <1>1, <1>4, Zenon DEF UnregProd
<1> QED BY <1>2, <1>3, <1>4, VoteMoves, Zenon DEF VoterStep, ProducerStep

\* Limits.
LEMMA LimitMoves ==
    ASSUME RexReady, NEW x, LimitStep(x)
    PROVE  RexMoves
<1>1. ASSUME NEW e, NEW limits, Become([World EXCEPT !.elect = e, !.bw.limits = limits])
      PROVE  RexMoves
  <2> DEFINE w == [World EXCEPT !.elect = e, !.bw.limits = limits]
  <2>1. w.rex = rex /\ w.core = core /\ Become(w)
      BY <1>1 DEF World
  <2> HIDE DEF w
  <2> QED BY <2>1, AsideEnds
<1>2. ASSUME NEW limit, NEW net, NEW cpu, SetALimits(x, limit, net, cpu) PROVE RexMoves
  <2> DEFINE row == [net |-> net, cpu |-> cpu, ram |-> limit]
             w == [World EXCEPT !.bw.limits[x] = row]
  <2>1. Become(w)
      BY <1>2 DEF SetALimits
  <2> HIDE DEF row
  <2>2. w.rex = rex /\ w.core = core
      BY DEF World
  <2> HIDE DEF w
  <2> QED BY <2>1, <2>2, AsideEnds
<1>3. ASSUME NEW resource, NEW value, SetAcct(x, resource, value) PROVE RexMoves
  <2> DEFINE row == [VoterRow(elect, x) EXCEPT !.managed = Managed(elect, x) \cup {resource}]
             w == [World EXCEPT !.elect.voters = Put(@, x, row), !.bw.limits[x][resource] = value]
  <2>1. Become(w)
      BY <1>3 DEF SetAcct
  <2> HIDE DEF row
  <2>2. w.rex = rex /\ w.core = core
      BY DEF World
  <2> HIDE DEF w
  <2> QED BY <2>1, <2>2, AsideEnds
<1>4. ASSUME NEW resource, UnsetAcct(x, resource) PROVE RexMoves
  <2> DEFINE own == Resources(bw, x)[resource]
             value == IF resource = "ram" THEN own + ram_gift_bytes ELSE own
             w == [World EXCEPT !.elect.voters[x].managed = @ \ {resource},
                                !.bw.limits[x][resource] = value]
  <2>1. Become(w)
      BY <1>4 DEF UnsetAcct
  <2> HIDE DEF value
  <2>2. w.rex = rex /\ w.core = core
      BY DEF World
  <2> HIDE DEF w
  <2> QED BY <2>1, <2>2, AsideEnds
<1> QED BY <1>2, <1>3, <1>4 DEF LimitStep

\* Stakes of an account, and what they change of resources and limits.
LEMMA StakeMovedComes ==
    ASSUME NEW ct, Clock(ct), NEW w, Booked(w, ct), NEW from, NEW receiver, NEW net, NEW cpu
    PROVE  Comes(w, StakeMoved(w, from, receiver, net, cpu), 0, ct)
<1> DEFINE old     == Delegated(w.bw, from, receiver)
           stake   == [net |-> old.net + net, cpu |-> old.cpu + cpu]
           total   == Resources(w.bw, receiver)
           row     == [total EXCEPT !.net = @ + net, !.cpu = @ + cpu]
           t       == PutResources(w.bw.userres, receiver, row)
           d       == w.bw.delband
           e       == IF stake = NoStake THEN Erase(d, <<from, receiver>>)
                      ELSE Put(d, <<from, receiver>>, stake)
           managed == Managed(w.elect, receiver)
           limits  == w.bw.limits[receiver]
           ram_now == IF {"net", "cpu"} \subseteq managed \/ "ram" \in managed THEN limits.ram
                      ELSE IF row.ram + ram_gift_bytes > limits.ram THEN row.ram + ram_gift_bytes
                      ELSE limits.ram
           after   == [LimitsOf(limits, row, managed) EXCEPT !.ram = ram_now]
           u       == [w EXCEPT !.bw.delband = e, !.bw.userres = t, !.bw.limits[receiver] = after]
<1>1. StakeMoved(w, from, receiver, net, cpu) = u
    BY DEF StakeMoved
<1> HIDE DEF e, t, after
<1>2. DOMAIN u = WorldFields /\ u.rex = w.rex /\ u.core = w.core
    BY DEF Booked, WorldFields
<1> HIDE DEF u
<1>3. Comes(w, u, 0, ct)
    BY <1>2, SameComes
<1> QED BY <1>1, <1>3

\* A refund that changes, or does not.
LEMMA RefundForComes ==
    ASSUME NEW ct, Clock(ct), NEW w, Booked(w, ct), NEW x, NEW net, NEW cpu, NEW to_self
    PROVE  Comes(w, RefundFor(w, x, net, cpu, to_self).w, 0, ct)
<1> DEFINE old == RefundOf(w.bw, x)
           row == [net |-> Positive(old.net - net), cpu |-> Positive(old.cpu - cpu),
                   request_time |-> IF net < 0 \/ cpu < 0 THEN now ELSE old.request_time]
           t   == w.bw.refunds
           e   == IF row.net + row.cpu = 0 THEN Erase(t, x) ELSE Put(t, x, row)
           u   == [w EXCEPT !.bw.refunds = e]
<1>1. RefundFor(w, x, net, cpu, to_self).w \in {w, u}
    BY DEF RefundFor, RefundChanged, NoRefundChange
<1> HIDE DEF e
<1>2. DOMAIN u = WorldFields /\ u.rex = w.rex /\ u.core = w.core
    BY DEF Booked, WorldFields
<1> HIDE DEF u
<1>3. Comes(w, u, 0, ct) /\ Comes(w, w, 0, ct)
    BY <1>2, SameComes DEF Booked
<1> QED BY <1>1, <1>3

\* What is due goes to the stakes' account, and the transaction is scheduled.
LEMMA RefundScheduledComes ==
    ASSUME NEW ct, Clock(ct), NEW change, Booked(change.w, ct), NEW payer \in Users, NEW x
    PROVE  Comes(change.w, RefundScheduled(change, payer, x), 0, ct)
<1> DEFINE w == change.w
           u == Transfer(w, payer, stake_account, change.due)
           v == RefundPaid(change, payer)
           d == IF change.pending THEN Put(v.bw.deferred, x, now + refund_delay_sec)
                ELSE Erase(v.bw.deferred, x)
           s == [v EXCEPT !.bw.deferred = d]
<1>1. Comes(w, w, 0, ct)
    BY SameComes DEF Booked
<1>2. Comes(w, u, 0, ct)
    BY OthersComes, SystemHolders, UserHolder
<1>3. v \in {w, u}
    BY DEF RefundPaid
<1> HIDE DEF u, v
<1>4. Comes(w, v, 0, ct)
    BY <1>1, <1>2, <1>3
<1>5. Booked(v, ct)
    BY <1>4, ComesBooked
<1>6. RefundScheduled(change, payer, x) = s
    BY DEF RefundScheduled, Schedule, v
<1> HIDE DEF d
<1>7. DOMAIN s = WorldFields /\ s.rex = v.rex /\ s.core = v.core
    BY <1>5 DEF Booked, WorldFields
<1> HIDE DEF s
<1>8. Comes(v, s, 0, ct)
    BY <1>5, <1>7, SameComes
<1>9. Comes(w, s, 0, ct)
    BY <1>4, <1>8, ComesAfter
<1> QED BY <1>6, <1>9

\* delegatebw and undelegatebw.
LEMMA DelegateMoves ==
    ASSUME RexReady, NEW x \in Users, NEW receiver, NEW net, NEW cpu, NEW transfer,
           DelegateBw(x, receiver, net, cpu, transfer) \/ UndelegateBw(x, receiver, net, cpu)
    PROVE  RexMoves
<1>1. ASSUME NEW from, NEW n, NEW c, NEW give, changebw_from(x, from, receiver, n, c, give)
      PROVE  RexMoves
  <2> DEFINE to_self == ~ give /\ from = receiver
             w1 == StakeMoved(World, from, receiver, n, c)
             change == RefundFor(w1, from, n, c, to_self)
             w2 == change.w
             w3 == RefundScheduled(change, x, from)
             w4 == update_rex_stake(w3, from)
             w5 == update_voting_power(w4, from, n + c, now)
  <2>1. Become(w5)
      BY <1>1, Zenon DEF changebw_from, changebw_moved, StakeDone, WithVotes
  <2>2. Clock(now) /\ Booked(World, now)
      BY ReadyBooked
  <2> HIDE DEF to_self
  <2>3. Comes(World, w1, 0, now)
      BY <2>2, StakeMovedComes
  <2> HIDE DEF w1
  <2>4. Comes(w1, w2, 0, now)
      BY <2>2, <2>3, ComesBooked, RefundForComes
  <2>5. Comes(World, w2, 0, now) /\ Booked(w2, now)
      BY <2>2, <2>3, <2>4, ComesAfter
  <2> HIDE DEF change
  <2>6. Comes(w2, w3, 0, now)
      BY <2>2, <2>5, RefundScheduledComes
  <2>7. Comes(World, w3, 0, now) /\ Booked(w3, now)
      BY <2>2, <2>5, <2>6, ComesAfter
  <2> HIDE DEF w2, w3
  <2>8. Comes(w3, w4, 0, now)
      BY <2>2, <2>7, RexStakeComes
  <2>9. Comes(World, w4, 0, now) /\ Booked(w4, now)
      BY <2>2, <2>7, <2>8, ComesAfter
  <2> HIDE DEF w4
  <2>10. Comes(w4, w5, 0, now)
      BY <2>2, <2>9, ElectComes, Zenon DEF update_voting_power
  <2> HIDE DEF w5
  <2> QED BY <2>1, <2>2, <2>9, <2>10, ComesAfter, Ends
<1>2. CASE DelegateBw(x, receiver, net, cpu, transfer)
    BY <1>1, <1>2 DEF DelegateBw, changebw
<1>3. CASE UndelegateBw(x, receiver, net, cpu)
    BY <1>1, <1>3 DEF UndelegateBw, changebw
<1> QED BY <1>2, <1>3

\* A refund, asked for or scheduled.
LEMMA RefundMoves ==
    ASSUME RexReady, NEW x \in Users, Refund(x) \/ RunDeferred(x)
    PROVE  RexMoves
<1> DEFINE gone == [World EXCEPT !.bw.deferred = Erase(@, x)]
<1>1. Clock(now) /\ Booked(World, now) /\ Comes(World, World, 0, now)
    BY ReadyBooked, SameComes DEF Booked
<1>2. Comes(World, gone, 0, now)
  <2> DEFINE t == Erase(World.bw.deferred, x)
             u == [World EXCEPT !.bw.deferred = t]
  <2> HIDE DEF t
  <2>1. DOMAIN u = WorldFields /\ u.rex = World.rex /\ u.core = World.core
      BY <1>1 DEF Booked, WorldFields
  <2> HIDE DEF u
  <2>2. Comes(World, u, 0, now)
      BY <1>1, <2>1, SameComes
  <2> QED BY <2>2 DEF u, t
<1> HIDE DEF gone
<1>3. ASSUME NEW w, Comes(World, w, 0, now)
      PROVE  Comes(World, Refunded(w, x), 0, now)
  <2> DEFINE t == Erase(w.bw.refunds, x)
             u == [w EXCEPT !.bw.refunds = t]
             back == w.bw.refunds[x].net + w.bw.refunds[x].cpu
             v == Transfer(u, stake_account, x, back)
  <2>1. Refunded(w, x) = v
      BY DEF Refunded
  <2> HIDE DEF t, back
  <2>2. Booked(w, now)
      BY <1>3, ComesBooked
  <2>3. DOMAIN u = WorldFields /\ u.rex = w.rex /\ u.core = w.core
      BY <2>2 DEF Booked, WorldFields
  <2> HIDE DEF u
  <2>4. Comes(w, u, 0, now)
      BY <1>1, <2>2, <2>3, SameComes
  <2>5. Comes(u, v, 0, now)
      BY <1>1, <2>4, ComesBooked, OthersComes, SystemHolders, UserHolder
  <2> HIDE DEF v
  <2> QED BY <1>1, <1>3, <2>1, <2>2, <2>4, <2>5, ComesAfter
<1>4. \E w : Comes(World, w, 0, now) /\ Become(w)
  <2>1. CASE Refund(x)
      BY <1>1, <1>3, <2>1 DEF Refund
  <2>2. CASE RunDeferred(x)
    <3>1. Become(Refunded(gone, x)) \/ Become(gone)
        BY <2>2 DEF RunDeferred, gone
    <3> QED BY <1>2, <1>3, <3>1
  <2> QED BY <2>1, <2>2
<1> QED BY <1>4, Ends

\* claimrewards.
LEMMA ClaimMoves ==
    ASSUME RexReady, NEW x \in Users, ClaimRewards(x)
    PROVE  RexMoves
<1> DEFINE claimed == Claimed(elect, x, now)
           c == Issued(core, Inflation(pay, now))
           issued == [World EXCEPT !.core = c, !.elect = claimed.elect]
<1>1. PICK blocks, votes :
          Become(Transfer(Transfer(issued, bpay_account, x, blocks), vpay_account, x, votes))
  <2>1. issued = [World EXCEPT !.core = Issued(@, Inflation(pay, now)), !.elect = claimed.elect]
    <3> HIDE DEF claimed
    <3> QED BY DEF World
  <2> HIDE DEF issued
  <2> QED BY <2>1, Zenon DEF ClaimRewards
<1> DEFINE paid == Transfer(issued, bpay_account, x, blocks)
           w == Transfer(paid, vpay_account, x, votes)
<1>2. Clock(now) /\ Booked(World, now) /\ DOMAIN core = Holders
    BY ReadyBooked DEF RexReady
<1>3. DOMAIN c = Holders /\ c[rex_account] = core[rex_account]
  <2>1. /\ rex_account \in Holders
        /\ rex_account \notin {saving_account, bpay_account, vpay_account}
      BY DEF Holders, SystemAccounts, rex_account, saving_account, bpay_account, vpay_account
  <2> QED BY <1>2, <2>1 DEF Issued
<1> HIDE DEF c, claimed
<1>4. /\ DOMAIN issued = WorldFields /\ issued.rex = World.rex /\ DOMAIN issued.core = Holders
      /\ Coins(issued) = Coins(World)
    BY <1>2, <1>3 DEF Coins, World, WorldFields
<1> HIDE DEF issued
<1>5. Comes(World, issued, 0, now) /\ Booked(issued, now)
    BY <1>2, <1>4, BesideComes, ComesBooked
<1>6. Comes(issued, paid, 0, now)
    BY <1>2, <1>5, OthersComes, SystemHolders, UserHolder
<1>7. Become(w)
    BY <1>1
<1> HIDE DEF paid
<1>8. Comes(World, paid, 0, now) /\ Booked(paid, now)
    BY <1>2, <1>5, <1>6, ComesAfter
<1>9. Comes(paid, w, 0, now)
    BY <1>2, <1>8, OthersComes, SystemHolders, UserHolder
<1> HIDE DEF w
<1> QED BY <1>2, <1>7, <1>8, <1>9, ComesAfter, Ends

\* Bids, refunds of them and new accounts.
LEMMA NamesMoves ==
    ASSUME RexReady, NameStep \/ Payback
    PROVE  RexMoves
<1>1. ASSUME NEW a, a # rex_account, NEW b, b # rex_account, NEW amount,
             Become(Transfer(World, a, b, amount))
      PROVE  RexMoves
  <2>1. Comes(World, Transfer(World, a, b, amount), 0, now)
      BY <1>1, ReadyBooked, OthersComes
  <2> QED BY <1>1, <2>1, Ends
<1>2. \A x \in Bidders : x # rex_account
    BY SystemAssumption, UserHolder
<1>3. names_account # rex_account
    BY SystemHolders
<1>4. ASSUME NEW x \in Bidders, NEW name, NEW bid, BidName(x, name, bid)
      PROVE  RexMoves
    BY <1>1, <1>2, <1>3, <1>4, Zenon DEF BidName
<1>5. ASSUME NEW x \in Bidders, NEW name, BidRefund(name, x)
      PROVE  RexMoves
    BY <1>1, <1>2, <1>3, <1>5, Zenon DEF BidRefund
<1>6. ASSUME NEW x \in Bidders, NEW name, RunPayback(name, x)
      PROVE  RexMoves
    BY <1>1, <1>2, <1>3, <1>6, Zenon DEF RunPayback
<1>7. ASSUME NEW creator, NEW name, NewAccount(creator, name)
      PROVE  RexMoves
  <2> DEFINE w == [World EXCEPT !.bw.userres = Put(@, name, NoResources),
                                !.bw.limits = Put(@, name, NoResources)]
  <2>1. Become(w)
      BY <1>7 DEF NewAccount
  <2>2. w.rex = rex /\ w.core = core
      BY DEF World
  <2> HIDE DEF w
  <2> QED BY <2>1, <2>2, AsideEnds
<1> QED BY <1>4, <1>5, <1>6, <1>7, Zenon DEF NameStep, Payback

\* A block, which may close an auction and promise its bid to the exchange.
LEMMA OnBlockMoves ==
    ASSUME RexReady, NameBooks(World, names), NEW producer, OnBlock(producer)
    PROVE  RexMoves
<1> DEFINE closes == /\ now - pay.last_producer_schedule_update > ScheduleInterval
                     /\ ClosesName(pay)
           high == names.bids[Highest(names)].high_bid
           r == IF closes THEN channel_namebid_to_rex(rex, high) ELSE rex
           counted == CountBlock(elect, producer)
           v == [World EXCEPT !.rex = r]
           w == [World EXCEPT !.elect = counted, !.rex = r]
<1>1. Become(w) \/ UNCHANGED system
  <2>1. w = [World EXCEPT !.elect = counted,
                          !.rex = IF closes THEN channel_namebid_to_rex(@, high) ELSE @]
    <3> HIDE DEF closes, counted, high
    <3> QED BY DEF World
  <2> HIDE DEF w
  <2> QED BY <2>1, Zenon DEF OnBlock
<1>2. closes => high \in Int
  <2>1. closes => Open(names) # {}
      BY DEF ClosesName, MayClose
  <2>2. Auctions(names)
      BY DEF NameBooks
  <2> HIDE DEF closes
  <2> QED BY <2>1, <2>2, CloseHighest
<1>3. Clock(now) /\ Booked(World, now) /\ World.rex = rex /\ Sound(rex, now)
    BY ReadyBooked
<1> HIDE DEF closes, high, counted
<1>4. Goes(rex, r, 0, now) /\ Still(rex, r)
  <2> DEFINE p == [rex.pool EXCEPT !.namebid_proceeds = @ + high]
             q == [rex EXCEPT !.pool = p]
  <2>1. Goes(rex, rex, 0, now) /\ Still(rex, rex)
      BY <1>3, GoesReflexive
  <2>2. CASE closes
    <3>1. r \in {rex, q}
        BY <2>2 DEF channel_namebid_to_rex
    <3>2. PoolSound(rex.pool)
        BY <1>3 DEF Sound
    <3>3. /\ PoolSound(p) /\ p.total_lent = rex.pool.total_lent
          /\ p.total_lendable = rex.pool.total_lendable
          /\ p.total_rex = rex.pool.total_rex /\ p.loan_num = rex.pool.loan_num
        BY <1>2, <2>2, <3>2 DEF PoolSound, PoolFields
    <3> HIDE DEF p, r
    <3>4. Goes(rex, q, 0, now) /\ Still(rex, q)
        BY <1>3, <3>3, PoolChanged
    <3> QED BY <2>1, <3>1, <3>4
  <2>3. CASE ~ closes
      BY <2>1, <2>3
  <2> QED BY <2>2, <2>3
<1> HIDE DEF r
<1>5. Comes(World, v, 0, now) /\ Booked(v, now)
    BY <1>3, <1>4, RexComes, ComesBooked
<1>6. w = [v EXCEPT !.elect = counted]
    BY DEF World
<1> HIDE DEF v
<1>7. Comes(v, w, 0, now)
    BY <1>3, <1>5, <1>6, ElectComes
<1> HIDE DEF w
<1>8. CASE Become(w)
    BY <1>3, <1>5, <1>7, <1>8, ComesAfter, Ends
<1>9. CASE UNCHANGED system
    BY <1>9, Untouched DEF system
<1> QED BY <1>1, <1>8, <1>9

\* The books are in order at any later time.
LEMMA SoundLater ==
    ASSUME NEW r, NEW ct \in Nat, Sound(r, ct), NEW later \in Nat, ct =< later
    PROVE  Sound(r, later)
<1>1. BucketsSound(r.buckets, r.ret, later)
  <2>1. BucketsSound(r.buckets, r.ret, ct)
      BY DEF Sound, ReturnsSound
  <2>2. \A b \in DOMAIN r.buckets : b \in Nat /\ b =< ct
      BY <2>1 DEF BucketsSound
  <2>3. \A b \in DOMAIN r.buckets : b =< later
      BY <2>2
  <2> QED BY <2>1, <2>3 DEF BucketsSound
<1>2. ReturnsSound(r, later)
  <2>1. ReturnsSound(r, ct)
      BY DEF Sound
  <2> QED BY <1>1, <2>1 DEF ReturnsSound
<1> QED BY <1>2 DEF Sound

-----------------------------------------------------------------------------
\* What the exchange has are tokens.
LEMMA AssetsType ==
    ASSUME RexInv
    PROVE  Assets(rex) \in Nat /\ core[rex_account] \in Int
<1>1. Clock(now)
    BY SystemAssumption DEF RexInv, Clock
<1> QED BY <1>1, SoundSums DEF RexInv

\* Everything users do,
LEMMA UserStepMoves ==
    ASSUME RexReady, SysInv, NEW x \in Users, UserStep(x)
    PROVE  RexMoves
<1>1. /\ \A a \in Amounts : a \in Nat
      /\ \A a \in RexAmounts : a \in Nat
      /\ \A a \in Amounts \cup {0} : a \in Nat
      /\ RamBooksOf(World, ram)
    BY SystemAssumption DEF SysInv, Books
<1>2. RexOwnerStep(x) => RexMoves
  <2>1. ASSUME NEW amount \in Amounts, Deposit(x, amount) \/ Withdraw(x, amount) \/ BuyRex(x, amount)
        PROVE  RexMoves
      BY <1>1, <2>1, DepositMoves, WithdrawMoves, BuyRexMoves
  <2>2. ASSUME NEW amount \in RexAmounts,
               SellRex(x, amount) \/ MvToSavings(x, amount) \/ MvFrSavings(x, amount)
        PROVE  RexMoves
      BY <1>1, <2>2, SellRexMoves, MvToSavingsMoves, MvFrSavingsMoves
  <2>3. CnclRexOrder(x) \/ UpdateRex(x) \/ Consolidate(x) \/ CloseRex(x) => RexMoves
      BY CnclRexOrderMoves, UpdateRexMoves, ConsolidateMoves, CloseRexMoves
  <2> QED BY <2>1, <2>2, <2>3, Zenon DEF RexOwnerStep
<1>3. ASSUME NEW kind \in Kinds, RexLoanStep(x, kind)
      PROVE  RexMoves
  <2>1. ASSUME NEW receiver \in Users, NEW payment \in Amounts, NEW fund \in Amounts \cup {0},
               RentRex(kind, x, receiver, payment, fund)
        PROVE  RexMoves
      BY <1>1, <2>1, RentRexMoves
  <2>2. ASSUME NEW num, NEW amount \in Amounts,
               FundLoan(kind, x, num, amount) \/ DefundLoan(kind, x, num, amount)
        PROVE  RexMoves
      BY <1>1, <2>2, FundLoanMoves, DefundLoanMoves
  <2> QED BY <1>3, <2>1, <2>2, Zenon DEF RexLoanStep
<1>4. RexUnstakeStep(x) => RexMoves
  <2>1. ASSUME NEW receiver \in Users, NEW net \in Amounts \cup {0}, NEW cpu \in Amounts \cup {0},
               UnstakeToRex(x, receiver, net, cpu)
        PROVE  RexMoves
      BY <1>1, <2>1, UnstakeToRexMoves
  <2> QED BY <2>1, Zenon DEF RexUnstakeStep
<1>5. StakeStep(x) => RexMoves
    BY DelegateMoves, RefundMoves, Zenon DEF StakeStep
<1> QED BY <1>1, <1>2, <1>3, <1>4, <1>5, VoterMoves, RamMovesRex, ClaimMoves, Zenon DEF UserStep

\* and everything else but a tick of the clock.
LEMMA StepMoves ==
    ASSUME RexInv, SysInv, [SystemNext]_everything
    PROVE  RexMoves \/ Tick
<1>1. /\ RexReady /\ NameBooks(World, names)
    BY DEF RexReady, SysInv, Books, Shaped, World
<1>2. (\E x \in Users : UserStep(x)) => RexMoves
    BY <1>1, UserStepMoves
<1>3. NameStep \/ Payback => RexMoves
    BY <1>1, NamesMoves
<1>4. UNCHANGED system => RexMoves
    BY <1>1, Untouched DEF system
<1>5. SystemAccountStep => RexMoves
  <2>1. ASSUME NEW balance \in Amounts, SetRex(balance)
        PROVE  RexMoves
    <3>1. balance \in Nat
        BY SystemAssumption
    <3> QED BY <1>1, <2>1, <3>1, SetRexMoves
  <2>2. RamSupplyStep \/ PaySystemStep => UNCHANGED system
      BY Zenon DEF RamSupplyStep, SetRam, SetRamRate, PaySystemStep, UpdtRevision, SetInflation, system
  <2> QED BY <1>1, <1>4, <2>1, <2>2, LimitMoves, Zenon DEF SystemAccountStep
<1>6. ChainStep => RexMoves \/ Tick
  <2>1. ASSUME NEW max \in MaxExecs, RexExec(max)
        PROVE  RexMoves
    <3>1. max \in Nat
        BY SystemAssumption
    <3> QED BY <1>1, <2>1, <3>1, RexExecMoves
  <2> QED BY <1>1, <1>3, <2>1, OnBlockMoves, Zenon DEF ChainStep
<1>7. UNCHANGED everything => RexMoves
    BY <1>4 DEF everything
<1> QED BY <1>2, <1>3, <1>5, <1>6, <1>7, Zenon DEF SystemNext

\* Whatever the step: so the exchange follows itself, at a time that may be later.
RexFollows ==
    /\ now' \in Times /\ core'[rex_account] \in Int
    /\ RexMoved(rex, rex', core'[rex_account] - core[rex_account], now')

\* It does.
LEMMA RexStep ==
    ASSUME RexInv, SysInv, [SystemNext]_everything
    PROVE  RexFollows
<1>1. CASE RexMoves
  <2>1. now' = now /\ now \in Times
      BY <1>1 DEF RexMoves, RexInv
  <2> QED BY <1>1, <2>1, Zenon DEF RexMoves, RexFollows
<1>2. CASE Tick
  <2>1. /\ now \in Nat /\ now' \in Nat /\ now =< now' /\ now' \in Times /\ Clock(now')
        /\ rex' = rex /\ core' = core /\ core[rex_account] \in Int
      BY <1>2, SystemAssumption DEF Tick, RexInv, Clock
  <2> DEFINE ct == now'
  <2>2. Sound(rex, ct)
      BY <2>1, SoundLater DEF RexInv
  <2>3. Goes(rex, rex, 0, ct)
      BY <2>1, <2>2, GoesReflexive
  <2>4. RexMoved(rex, rex, 0, ct)
      BY <2>3 DEF RexMoved, Goes, Dearer, RexInv
  <2>5. core'[rex_account] - core[rex_account] = 0
      BY <2>1
  <2>6. RexMoved(rex, rex', core'[rex_account] - core[rex_account], ct)
      BY <2>1, <2>4, <2>5, Zenon
  <2> QED BY <2>1, <2>6 DEF RexFollows
<1> QED BY <1>1, <1>2, StepMoves

\* The tokens of the exchange before and after a step.
LEMMA AssetsFollow ==
    ASSUME RexInv, RexFollows
    PROVE  /\ Assets(rex) \in Nat /\ core[rex_account] \in Int
           /\ Assets(rex') \in Nat /\ core'[rex_account] \in Int
           /\ core'[rex_account] >= Assets(rex')
<1> DEFINE a == Assets(rex)
           b == Assets(rex')
           c == core[rex_account]
           d == core'[rex_account]
<1>1. a \in Nat /\ c \in Int /\ d \in Int /\ c >= a
    BY AssetsType DEF RexFollows, RexInv
<1>2. b \in Nat
  <2> DEFINE ct == now'
             r == rex'
  <2>1. Sound(r, ct) /\ Clock(ct)
      BY SystemAssumption DEF RexFollows, RexMoved, Clock
  <2> HIDE DEF ct, r
  <2>2. Assets(r) \in Nat
      BY <2>1, SoundSums
  <2> QED BY <2>2 DEF r
<1>3. b = a + (d - c) \/ b < a + (d - c)
    BY DEF RexFollows, RexMoved
<1> HIDE DEF a, b, c, d
<1>4. d >= b
    BY <1>1, <1>2, <1>3
<1> QED BY <1>1, <1>2, <1>4 DEF a, b, c, d

\* The invariant is kept.
LEMMA RexInvStep ==
    ASSUME RexInv, SysInv, [SystemNext]_everything
    PROVE  RexInv'
<1>1. RexFollows
    BY RexStep
<1>2. core'[rex_account] >= Assets(rex') /\ core'[rex_account] \in Int
    BY <1>1, AssetsFollow
<1>3. now' \in Times /\ Sound(rex', now') /\ Covered(rex')
    BY <1>1 DEF RexFollows, RexMoved
<1> QED BY <1>2, <1>3 DEF RexInv

\* At the launch there is no exchange.
LEMMA RexInit ==
    ASSUME SystemInit
    PROVE  RexInv
<1>1. /\ now \in Times /\ rex = EmptyRex /\ core[rex_account] = 0
    BY DEF SystemInit, SystemAccounts
<1>2. DOMAIN EmptyTable = {} /\ IsFiniteSet({})
    BY FS_EmptySet DEF EmptyTable
<1>3. /\ DOMAIN EmptyRex = RexFields
      /\ EmptyRex.pool = NoPool /\ EmptyRex.ret = NoReturns /\ EmptyRex.buckets = EmptyTable
      /\ EmptyRex.funds = EmptyTable /\ EmptyRex.balances = EmptyTable
      /\ EmptyRex.loans = EmptyTable /\ EmptyRex.orders = EmptyTable
    BY DEF EmptyRex, RexFields
<1>4. Total(EmptyTable) = 0 /\ \A f : Sum(EmptyTable, f) = 0
    BY <1>2, TotalEmpty DEF Total, Sum
<1>5. NatTable(EmptyTable)
    BY <1>2 DEF NatTable
<1>6. PoolSound(NoPool)
    BY DEF PoolSound, NoPool, PoolFields
<1>7. OwnersSound(EmptyRex) /\ LoansSound(EmptyRex) /\ OrdersSound(EmptyRex)
    BY <1>2, <1>3, <1>4 DEF OwnersSound, LoansSound, OrdersSound, NoPool
<1>8. ReturnsSound(EmptyRex, now)
  <2>1. /\ DOMAIN NoReturns = ReturnFields /\ NoReturns.exists = FALSE /\ NoReturns.last_dist_time = 0
        /\ NoReturns.oldest_bucket_time = 0 /\ NoReturns.pending_bucket_time = Never
        /\ NoReturns.pending_bucket_proceeds = 0 /\ NoReturns.current_rate_of_increase = 0
        /\ NoReturns.proceeds = 0
      BY DEF NoReturns, ReturnFields
  <2>2. Total(LeftOf(EmptyTable, 0)) = 0
    <3>1. DOMAIN LeftOf(EmptyTable, 0) = {}
        BY <1>2 DEF LeftOf
    <3> QED BY <3>1, TotalEmpty DEF Total
  <2>3. 0 % DistInterval = 0
      BY RexAssumption
  <2>4. BucketsSound(EmptyTable, NoReturns, now)
      BY <1>2, <1>5 DEF BucketsSound
  <2>5. NoReturns.exists \in BOOLEAN
      BY Zenon DEF NoReturns
  <2> DEFINE ret == EmptyRex.ret
             buckets == EmptyRex.buckets
  <2>6. /\ DOMAIN ret = ReturnFields /\ ret.exists \in BOOLEAN
        /\ BucketsSound(buckets, ret, now) /\ DOMAIN buckets = {}
      BY <1>2, <1>3, <2>1, <2>4, <2>5
  <2>7. /\ ret.last_dist_time = 0 /\ ret.oldest_bucket_time = 0 /\ ret.pending_bucket_time = Never
        /\ ret.pending_bucket_proceeds = 0 /\ ret.current_rate_of_increase = 0 /\ ret.proceeds = 0
        /\ Total(buckets) = 0 /\ Total(LeftOf(buckets, ret.last_dist_time)) = 0
      BY <1>3, <1>4, <2>1, <2>2
  <2> HIDE DEF ret, buckets
  <2>8. /\ ret.last_dist_time \in Nat /\ ret.last_dist_time % DistInterval = 0
        /\ ret.oldest_bucket_time \in Int /\ ret.pending_bucket_time \in Nat
        /\ ret.pending_bucket_proceeds \in Nat
        /\ ret.proceeds = ret.pending_bucket_proceeds + Total(LeftOf(buckets, ret.last_dist_time))
        /\ ret.current_rate_of_increase = Total(buckets)
      BY <2>3, <2>7, SystemAssumption
  <2> QED BY <2>6, <2>7, <2>8 DEF ReturnsSound, ret, buckets
<1>9. Sound(EmptyRex, now)
    BY <1>3, <1>5, <1>6, <1>7, <1>8 DEF Sound
<1>10. Covered(EmptyRex)
    BY <1>2, <1>3 DEF Covered, OpenOrders
<1>11. Assets(EmptyRex) = 0
    BY <1>3, <1>4 DEF Assets, NoPool, NoReturns
<1> QED BY <1>1, <1>9, <1>10, <1>11 DEF RexInv

\* The books of the exchange stay in order in every behaviour.
THEOREM RexInvariant == SystemSpec => [](RexInv /\ SysInv)
<1>1. SystemInit => RexInv /\ SysInv
    BY RexInit, InitInv
<1>2. RexInv /\ SysInv /\ [SystemNext]_everything => (RexInv /\ SysInv)'
    BY RexInvStep, NextInv
<1> QED BY <1>1, <1>2, PTL DEF SystemSpec

\* The pool agrees with the tables it sums up, and no order loses the REX it is for
\* (RexBooks), whatever is bought, sold, rented, renewed, closed or paid in, by its
\* owner or in passing by the actions of others (rex.cpp).
THEOREM RexBooksAlways == SystemSpec => []RexBooks
<1>1. RexInv => RexBooks
  <2> SUFFICES ASSUME RexInv PROVE RexBooks
      OBVIOUS
  <2>1. /\ PoolSound(rex.pool) /\ OwnersSound(rex) /\ LoansSound(rex)
      BY DEF RexInv, Sound
  <2>2. \A b \in Balances(rex) : b.rex_balance = HeldBy(b) /\ b.matured_rex >= 0 /\ b.savings >= 0
      BY <2>1 DEF OwnersSound, BalanceSound, Balances
  <2>3. OrderCovered
      BY DEF RexInv, Covered, OrderCovered
  <2> QED BY <2>1, <2>2, <2>3 DEF RexBooks, PoolSound, OwnersSound, LoansSound, LentBy
<1> QED BY <1>1, RexInvariant, PTL

\* All that is paid into the pool of returns comes out of it, and in time
\* (ReturnsAccounted): the proceeds that update_rex_pool keeps by a rate and a cached
\* time are what its buckets have still to pay (rex.cpp).
THEOREM ReturnsAlwaysAccounted == SystemSpec => []ReturnsAccounted
<1>1. RexInv => ReturnsAccounted
  <2> SUFFICES ASSUME RexInv PROVE ReturnsAccounted
      OBVIOUS
  <2> DEFINE ret == rex.ret
             left == [b \in DOMAIN rex.buckets |->
                        rex.buckets[b] * (TotalIntervals - Intervals(ret.last_dist_time, b))]
  <2>1. /\ ret.current_rate_of_increase = Total(rex.buckets)
        /\ ret.proceeds = ret.pending_bucket_proceeds + Total(LeftOf(rex.buckets, ret.last_dist_time))
        /\ Slot(ret.last_dist_time) /\ BucketsSound(rex.buckets, ret, now)
      BY DEF RexInv, Sound, ReturnsSound, Slot
  <2>2. left = LeftOf(rex.buckets, ret.last_dist_time) /\ DOMAIN left = DOMAIN rex.buckets
      BY DEF LeftOf
  <2>3. ASSUME NEW b \in DOMAIN rex.buckets
        PROVE  left[b] >= 0
    <3> DEFINE i == Intervals(ret.last_dist_time, b)
               k == TotalIntervals - i
    <3>1. Slot(b) /\ ret.last_dist_time =< b + Term /\ rex.buckets[b] \in Nat
        BY <2>1 DEF BucketsSound, NatTable, Slot
    <3>2. i \in Int /\ i =< TotalIntervals
        BY <2>1, <3>1, IntervalsBetween
    <3>3. k \in Nat
        BY <3>2, RexAssumption
    <3> HIDE DEF i, k
    <3>4. rex.buckets[b] * k >= 0
        BY <3>1, <3>3, TimesMonotone
    <3> QED BY <3>4 DEF i, k
  <2> QED BY <2>1, <2>2, <2>3 DEF ReturnsAccounted, Total
<1> QED BY <1>1, RexInvariant, PTL

\* No step makes tokens appear in the exchange or vanish from it, but for a purchase
\* that sets a pool whose REX has all been sold (RexBooksBalance; rex.cpp).
THEOREM RexBooksAlwaysBalance == SystemSpec => RexBooksBalance
<1>1. RexInv /\ SysInv /\ [SystemNext]_everything =>
          [ LET before == Unaccounted(rex, core)
                after  == Unaccounted(rex', core')
            IN  /\ after >= 0
                /\ after = before \/ (after > before /\ ~ rex_available(rex) /\ rex_available(rex'))
          ]_system
  <2> SUFFICES ASSUME RexInv, SysInv, [SystemNext]_everything
               PROVE  LET before == Unaccounted(rex, core)
                          after  == Unaccounted(rex', core')
                      IN  /\ after >= 0
                          /\ \/ after = before
                             \/ after > before /\ ~ rex_available(rex) /\ rex_available(rex')
      OBVIOUS
  <2> DEFINE a == Assets(rex)
             b == Assets(rex')
             c == core[rex_account]
             d == core'[rex_account]
  <2>1. RexFollows
      BY RexStep
  <2>2. a \in Nat /\ b \in Nat /\ c \in Int /\ d \in Int /\ d >= b
      BY <2>1, AssetsFollow
  <2>3. Unaccounted(rex, core) = c - a /\ Unaccounted(rex', core') = d - b
      BY DEF Unaccounted, Assets, Total
  <2>4. \/ b = a + (d - c)
        \/ b < a + (d - c) /\ rex.pool.total_rex = 0 /\ rex'.pool.total_rex > 0
      BY <2>1 DEF RexFollows, RexMoved
  <2>5. /\ rex.pool.total_rex = 0 => ~ rex_available(rex)
        /\ rex'.pool.total_rex > 0 => rex_available(rex')
      BY <2>1 DEF rex_available, RexFollows, RexMoved, Sound, PoolSound
  <2> HIDE DEF a, b, c, d
  <2> QED BY <2>2, <2>3, <2>4, <2>5
<1> QED BY <1>1, RexInvariant, PTL DEF SystemSpec, RexBooksBalance

\* A REX token never loses worth (SharePriceNeverFalls): by no rounding, loan, sale
\* or correction of returns that ran over (rex.cpp).
THEOREM SharePriceHolds == SystemSpec => SharePriceNeverFalls
<1>1. RexInv /\ SysInv /\ [SystemNext]_everything =>
          [ rex_available(rex) /\ rex_available(rex') =>
                rex'.pool.total_lendable * rex.pool.total_rex
                  >= rex.pool.total_lendable * rex'.pool.total_rex ]_system
    BY RexStep DEF RexFollows, RexMoved, rex_available
<1> QED BY <1>1, RexInvariant, PTL DEF SystemSpec, SharePriceNeverFalls
=============================================================================
