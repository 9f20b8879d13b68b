----------------------------- MODULE SumsProofs -----------------------------
(***************************************************************************)
(* Arithmetic the other proofs share: products and truncated quotients;    *)
(* that SumTo adds up the terms of a function (the recursion it is written *)
(* with holds) and what follows from it about the books of the contract's  *)
(* grants; the same for the sums over finite sets of the community         *)
(* modules, from which supplies and stakes are compared with balances.     *)
(***************************************************************************)
EXTENDS Sums, Functions, TLAPS, FiniteSetTheorems, WellFoundedInduction

\* A product grows with its factor.
LEMMA TimesMonotone ==
    ASSUME NEW a \in Nat, NEW b \in Nat, a =< b, NEW c \in Nat
    PROVE  /\ a * c \in Nat /\ b * c \in Nat /\ a * c =< b * c
           /\ c # 0 /\ a # b => a * c < b * c
<1>1. PICK d \in Nat : b = a + d
    <2>1. b - a \in Nat /\ b = a + (b - a)
        OBVIOUS
    <2> QED BY <2>1
<1>2. b * c = a * c + d * c
    BY <1>1
<1>3. a * c \in Nat /\ d * c \in Nat
    OBVIOUS
<1>4. c # 0 /\ d # 0 => d * c # 0
    OBVIOUS
<1> QED BY <1>1, <1>2, <1>3, <1>4

\* So it can be cancelled on both sides.
LEMMA TimesCancel ==
    ASSUME NEW a \in Nat, NEW b \in Nat, NEW c \in Nat \ {0}, a * c =< b * c
    PROVE  a =< b
<1>1. CASE b < a
  <2>1. b * c \in Nat /\ a * c \in Nat /\ b * c < a * c
      BY <1>1, TimesMonotone
  <2> QED BY <2>1
<1> QED BY <1>1

\* A truncated quotient is a natural number that comes back to no more than the
\* dividend, and is the greatest such.
LEMMA Quotient ==
    ASSUME NEW n \in Nat, NEW d \in Nat \ {0}
    PROVE  /\ n \div d \in Nat /\ (n \div d) * d =< n
           /\ \A k \in Nat : k * d =< n => k =< n \div d
<1>1. n \div d \in Nat /\ (n \div d) * d =< n /\ n < (n \div d) * d + d
    OBVIOUS
<1>2. ASSUME NEW k \in Nat, k * d =< n PROVE k =< n \div d
  <2> DEFINE q == n \div d
  <2>1. CASE q + 1 =< k
    <3>1. (q + 1) * d =< k * d /\ (q + 1) * d = q * d + d
        BY <1>1, <2>1, TimesMonotone
    <3>2. (q + 1) * d \in Nat /\ k * d \in Nat /\ q * d \in Nat
        BY <1>1
    <3> QED BY <1>1, <1>2, <3>1, <3>2
  <2> QED BY <1>1, <2>1
<1> QED BY <1>1, <1>2

\* Quotients by the same number are in the order of the dividends, negative ones too.
LEMMA QuotientMonotone ==
    ASSUME NEW a \in Int, NEW b \in Int, a =< b, NEW d \in Nat \ {0}
    PROVE  a \div d \in Int /\ b \div d \in Int /\ a \div d =< b \div d
<1> DEFINE p == a \div d
           q == b \div d
<1>1. p \in Int /\ q \in Int /\ p * d =< a /\ b < (q + 1) * d
    OBVIOUS
<1> HIDE DEF p, q
<1>2. ASSUME q + 1 =< p PROVE FALSE
  <2>1. PICK k \in Nat : p = (q + 1) + k
    <3>1. p - (q + 1) \in Nat /\ p = (q + 1) + (p - (q + 1))
        BY <1>1, <1>2
    <3> QED BY <3>1
  <2>2. p * d = (q + 1) * d + k * d /\ k * d \in Nat /\ (q + 1) * d \in Int
      BY <1>1, <2>1
  <2> QED BY <1>1, <2>2
<1> QED BY <1>1, <1>2 DEF p, q

-----------------------------------------------------------------------------
\* A set of natural numbers that is not empty has a least one.  The segments
\* below its elements are finite, and inclusion is well-founded on them.
LEMMA NatMin ==
    ASSUME NEW T \in SUBSET Nat, T # {}
    PROVE  \E m \in T : \A k \in T : m =< k
<1>1. PICK t \in T : TRUE
    OBVIOUS
<1> DEFINE Box == 0 .. t
           Segments == {0 .. (k - 1) : k \in T \cap Box}
<1>2. IsFiniteSet(Box)
    BY <1>1, FS_Interval
<1>3. IsWellFoundedOn(StrictSubsetOrdering(Box), SUBSET Box)
    BY <1>2, FS_StrictSubsetOrderingWellFounded, FS_FiniteSubsetsOfFinite
<1>4. Segments \subseteq SUBSET Box
    BY <1>1
<1>5. Segments # {}
    BY <1>1
<1>6. \E x \in Segments : \A y \in Segments : <<y, x>> \notin StrictSubsetOrdering(Box)
  <2> HIDE DEF Segments, Box
  <2> QED BY <1>3, <1>4, <1>5, WFMin
<1>7. PICK m \in T \cap Box : \A k \in T \cap Box :
              <<0 .. (k - 1), 0 .. (m - 1)>> \notin StrictSubsetOrdering(Box)
    BY <1>6
<1>8. ASSUME NEW k \in T, k < m PROVE FALSE
  <2>1. k \in T \cap Box
    BY <1>8
  <2>2. /\ 0 .. (k - 1) \in SUBSET Box
        /\ 0 .. (m - 1) \in SUBSET Box
    BY <2>1
  <2>3. 0 .. (k - 1) \subseteq 0 .. (m - 1)
    BY <1>8
  <2>4. k \in 0 .. (m - 1) /\ k \notin 0 .. (k - 1)
    BY <1>8
  <2>5. <<0 .. (k - 1), 0 .. (m - 1)>> \in StrictSubsetOrdering(Box)
    BY <2>2, <2>3, <2>4 DEF StrictSubsetOrdering
  <2> QED BY <2>1, <2>5, <1>7
<1> QED BY <1>8

-----------------------------------------------------------------------------
\* SumTo is a recursive function, hence a CHOOSE.  The recursion it stands for
\* has a solution: the finite approximations exist and agree where they overlap.
SumFcn(f) == CHOOSE s : s = [i \in Nat |-> IF i = 0 THEN 0 ELSE s[i - 1] + f[i - 1]]

Approximates(g, f, n) ==
    /\ g \in [0 .. n -> Int]
    /\ g[0] = 0
    /\ \A i \in 1 .. n : g[i] = g[i - 1] + f[i - 1]

\* For each n some function adds up the terms below n.
LEMMA ApproximationExists ==
    ASSUME NEW f \in [Nat -> Int]
    PROVE  \A n \in Nat : \E g : Approximates(g, f, n)
<1> DEFINE Bad == {n \in Nat : ~ \E g : Approximates(g, f, n)}
<1> SUFFICES ASSUME Bad # {} PROVE FALSE
    OBVIOUS
<1>1. PICK m \in Bad : \A k \in Bad : m =< k
    BY NatMin
<1>2. Approximates([i \in 0 .. 0 |-> 0], f, 0)
    BY DEF Approximates
<1>3. m # 0
    BY <1>1, <1>2
<1>4. m - 1 \in Nat /\ m - 1 \notin Bad
    BY <1>1, <1>3
<1>5. PICK g : Approximates(g, f, m - 1)
    BY <1>4
<1> DEFINE h == [i \in 0 .. m |-> IF i = m THEN g[m - 1] + f[m - 1] ELSE g[i]]
<1>6. h \in [0 .. m -> Int]
    BY <1>4, <1>5 DEF Approximates
<1>7. h[0] = 0
    BY <1>1, <1>3, <1>5 DEF Approximates
<1>8. ASSUME NEW i \in 1 .. m PROVE h[i] = h[i - 1] + f[i - 1]
  <2>1. m \in Nat /\ i \in 0 .. m /\ i - 1 \in 0 .. m /\ i - 1 # m
    BY <1>1
  <2>2. h[i - 1] = g[i - 1]
    BY <2>1
  <2>3. CASE i = m
    BY <2>1, <2>2, <2>3
  <2>4. CASE i # m
    <3>1. i \in 1 .. (m - 1)
      BY <2>1, <2>4
    <3>2. g[i] = g[i - 1] + f[i - 1]
      BY <3>1, <1>5 DEF Approximates
    <3> QED BY <2>1, <2>2, <2>4, <3>2
  <2> QED BY <2>3, <2>4
<1>9. Approximates(h, f, m)
    BY <1>6, <1>7, <1>8 DEF Approximates
<1> QED BY <1>1, <1>9

\* Two such functions agree as far as both go.
LEMMA ApproximationsAgree ==
    ASSUME NEW f \in [Nat -> Int], NEW m \in Nat, NEW n \in Nat, NEW g, NEW h,
           Approximates(g, f, m), Approximates(h, f, n)
    PROVE  \A k \in Nat : k =< m /\ k =< n => g[k] = h[k]
<1> DEFINE Bad == {k \in Nat : k =< m /\ k =< n /\ g[k] # h[k]}
<1> SUFFICES ASSUME Bad # {} PROVE FALSE
    OBVIOUS
<1>1. PICK b \in Bad : \A k \in Bad : b =< k
    BY NatMin
<1>2. b # 0
    BY <1>1 DEF Approximates
<1>3. b - 1 \in Nat /\ b - 1 \notin Bad
    BY <1>1, <1>2
<1>4. g[b - 1] = h[b - 1]
    BY <1>1, <1>3
<1> QED BY <1>1, <1>2, <1>4 DEF Approximates

\* The function SumTo chooses satisfies the recursion for all natural numbers.
LEMMA SumFcnRecursion ==
    ASSUME NEW f \in [Nat -> Int]
    PROVE  SumFcn(f) = [i \in Nat |-> IF i = 0 THEN 0 ELSE SumFcn(f)[i - 1] + f[i - 1]]
<1> DEFINE A(n) == CHOOSE g : Approximates(g, f, n)
           G == [n \in Nat |-> A(n)[n]]
<1>1. ASSUME NEW n \in Nat PROVE Approximates(A(n), f, n)
    BY ApproximationExists
<1>2. ASSUME NEW n \in Nat \ {0} PROVE G[n] = G[n - 1] + f[n - 1]
  <2>1. n - 1 \in Nat
    OBVIOUS
  <2>2. Approximates(A(n), f, n) /\ Approximates(A(n - 1), f, n - 1)
    BY <1>1, <2>1
  <2> HIDE DEF A
  <2>3. A(n)[n - 1] = A(n - 1)[n - 1]
    BY <2>1, <2>2, ApproximationsAgree
  <2>4. A(n)[n] = A(n)[n - 1] + f[n - 1]
    BY <2>2 DEF Approximates
  <2> QED BY <2>1, <2>3, <2>4
<1>3. G[0] = 0
    BY <1>1 DEF Approximates
<1>4. G = [i \in Nat |-> IF i = 0 THEN 0 ELSE G[i - 1] + f[i - 1]]
  <2> HIDE DEF A
  <2> SUFFICES ASSUME NEW i \in Nat
               PROVE  G[i] = IF i = 0 THEN 0 ELSE G[i - 1] + f[i - 1]
    OBVIOUS
  <2> QED BY <1>2, <1>3
<1> QED
  <2> HIDE DEF G
  <2> QED BY <1>4 DEF SumFcn

\* SumTo satisfies the recursion it is written with, and is an integer.
LEMMA SumToRecursion ==
    ASSUME NEW f \in [Nat -> Int]
    PROVE  /\ SumTo(f, 0) = 0
           /\ \A n \in Nat : SumTo(f, n) \in Int
           /\ \A n \in Nat : SumTo(f, n + 1) = SumTo(f, n) + f[n]
<1>1. \A n : SumTo(f, n) = SumFcn(f)[n]
    BY DEF SumTo, SumFcn
<1>2. SumFcn(f)[0] = 0
    BY SumFcnRecursion
<1>3. ASSUME NEW n \in Nat PROVE SumFcn(f)[n + 1] = SumFcn(f)[n] + f[n]
  <2>1. SumFcn(f)[n + 1] = IF n + 1 = 0 THEN 0 ELSE SumFcn(f)[n + 1 - 1] + f[n + 1 - 1]
    BY SumFcnRecursion
  <2>2. n + 1 # 0 /\ n + 1 - 1 = n
    OBVIOUS
  <2> QED BY <2>1, <2>2
<1>4. \A n \in Nat : SumFcn(f)[n] \in Int
  <2> DEFINE Bad == {n \in Nat : SumFcn(f)[n] \notin Int}
  <2> SUFFICES ASSUME Bad # {} PROVE FALSE
    OBVIOUS
  <2>1. PICK m \in Bad : \A k \in Bad : m =< k
    BY NatMin
  <2>2. m # 0
    BY <2>1, <1>2
  <2>3. m - 1 \in Nat /\ m - 1 \notin Bad /\ m = (m - 1) + 1
    BY <2>1, <2>2
  <2>4. SumFcn(f)[m] = SumFcn(f)[m - 1] + f[m - 1]
    BY <2>3, <1>3
  <2> QED BY <2>1, <2>3, <2>4
<1> QED BY <1>1, <1>2, <1>3, <1>4

-----------------------------------------------------------------------------
\* A sum depends only on the terms it adds up.
LEMMA SumToEqual ==
    ASSUME NEW f \in [Nat -> Int], NEW g \in [Nat -> Int], NEW n \in Nat,
           \A i \in Nat : i < n => f[i] = g[i]
    PROVE  SumTo(f, n) = SumTo(g, n)
<1> DEFINE Bad == {k \in Nat : k =< n /\ SumTo(f, k) # SumTo(g, k)}
<1> SUFFICES ASSUME Bad # {} PROVE FALSE
    OBVIOUS
<1>1. PICK b \in Bad : \A k \in Bad : b =< k
    BY NatMin
<1>2. b # 0
    BY <1>1, SumToRecursion
<1>3. b - 1 \in Nat /\ b - 1 \notin Bad /\ b = (b - 1) + 1 /\ b - 1 < n
    BY <1>1, <1>2
<1>4. SumTo(f, b) = SumTo(f, b - 1) + f[b - 1] /\ SumTo(g, b) = SumTo(g, b - 1) + g[b - 1]
    BY <1>3, SumToRecursion
<1> QED BY <1>1, <1>3, <1>4

\* Where all terms are zero, so is the sum.
LEMMA SumOfZeros ==
    ASSUME NEW f \in [Nat -> Int], NEW n \in Nat, \A i \in Nat : i < n => f[i] = 0
    PROVE  SumTo(f, n) = 0
<1> DEFINE Bad == {k \in Nat : k =< n /\ SumTo(f, k) # 0}
<1> SUFFICES ASSUME Bad # {} PROVE FALSE
    OBVIOUS
<1>1. PICK b \in Bad : \A k \in Bad : b =< k
    BY NatMin
<1>2. b # 0
    BY <1>1, SumToRecursion
<1>3. b - 1 \in Nat /\ b - 1 \notin Bad /\ b = (b - 1) + 1 /\ b - 1 < n
    BY <1>1, <1>2
<1>4. SumTo(f, b) = SumTo(f, b - 1) + f[b - 1]
    BY <1>3, SumToRecursion
<1> QED BY <1>1, <1>3, <1>4

\* Where no term is negative, neither is the sum.
LEMMA SumOfNats ==
    ASSUME NEW f \in [Nat -> Int], NEW n \in Nat, \A i \in Nat : i < n => f[i] >= 0
    PROVE  SumTo(f, n) >= 0
<1> DEFINE Bad == {k \in Nat : k =< n /\ ~ (SumTo(f, k) >= 0)}
<1> SUFFICES ASSUME Bad # {} PROVE FALSE
    OBVIOUS
<1>1. PICK b \in Bad : \A k \in Bad : b =< k
    BY NatMin
<1>2. b # 0
    BY <1>1, SumToRecursion
<1>3. b - 1 \in Nat /\ b - 1 \notin Bad /\ b = (b - 1) + 1 /\ b - 1 < n
    BY <1>1, <1>2
<1>4. /\ SumTo(f, b) = SumTo(f, b - 1) + f[b - 1]
      /\ SumTo(f, b - 1) \in Int /\ f[b - 1] \in Int
    BY <1>3, SumToRecursion
<1> QED BY <1>1, <1>3, <1>4

\* Changing one term of a sum changes the sum by as much.
LEMMA SumToUpdate ==
    ASSUME NEW f \in [Nat -> Int], NEW g \in [Nat -> Int], NEW n \in Nat, NEW k \in Nat,
           k < n, \A i \in Nat : i # k => f[i] = g[i]
    PROVE  SumTo(g, n) = SumTo(f, n) - f[k] + g[k]
<1> DEFINE Bad == {j \in Nat : k < j /\ SumTo(g, j) # SumTo(f, j) - f[k] + g[k]}
<1> SUFFICES ASSUME Bad # {} PROVE FALSE
    BY Zenon
<1>1. PICK b \in Bad : \A j \in Bad : b =< j
    BY NatMin
<1>2. b - 1 \in Nat /\ b - 1 \notin Bad /\ b = (b - 1) + 1
    BY <1>1
<1>3. /\ SumTo(f, b) = SumTo(f, b - 1) + f[b - 1]
      /\ SumTo(g, b) = SumTo(g, b - 1) + g[b - 1]
      /\ SumTo(f, b - 1) \in Int /\ SumTo(g, b - 1) \in Int
    BY <1>2, SumToRecursion
<1>4. CASE b - 1 = k
  <2>1. SumTo(f, k) = SumTo(g, k)
    BY SumToEqual
  <2> QED BY <1>1, <1>3, <1>4, <2>1
<1>5. CASE b - 1 # k
  <2>1. k < b - 1 /\ f[b - 1] = g[b - 1]
    BY <1>1, <1>2, <1>5
  <2>2. SumTo(g, b - 1) = SumTo(f, b - 1) - f[k] + g[k]
    BY <1>2, <2>1
  <2> QED BY <1>1, <1>3, <2>1, <2>2
<1> QED BY <1>4, <1>5

-----------------------------------------------------------------------------
\* A set of subsets of a finite set that is not empty has a smallest one.
LEMMA SmallestSet ==
    ASSUME NEW S, IsFiniteSet(S), NEW B \in SUBSET (SUBSET S), B # {}
    PROVE  \E T \in B : \A U \in B : U \subseteq T => U = T
<1>1. IsWellFoundedOn(StrictSubsetOrdering(S), SUBSET S)
    BY FS_StrictSubsetOrderingWellFounded, FS_FiniteSubsetsOfFinite
<1>2. PICK T \in B : \A U \in B : <<U, T>> \notin StrictSubsetOrdering(S)
    BY <1>1, WFMin
<1> QED BY <1>2 DEF StrictSubsetOrdering

\* SumFunctionOnSet is a fold, hence a CHOOSE too: of a function that adds up the terms
\* of each subset one by one.
Some(s) == CHOOSE x \in s : TRUE

\* it[s] is the sum of the terms of s, for all subsets s of S.
AddsUp(it, f, S) ==
    it = [s \in SUBSET S |-> IF s = {} THEN 0 ELSE f[Some(s)] + it[s \ {Some(s)}]]

\* The function SumFunctionOnSet chooses.
Adder(f, S) == CHOOSE it : AddsUp(it, f, S)

\* Its value at the whole set is the sum.
LEMMA SumIs == \A f, S : SumFunctionOnSet(f, S) = Adder(f, S)[S]
BY DEF SumFunctionOnSet, FoldFunctionOnSet, MapThenFoldSet, AddsUp, Adder, Some

\* Two such functions agree on the subsets both know.
LEMMA AddersAgree ==
    ASSUME NEW S, IsFiniteSet(S), NEW f, NEW T \in SUBSET S, NEW U \in SUBSET S,
           NEW g, NEW h, AddsUp(g, f, T), AddsUp(h, f, U), NEW s, s \in SUBSET T, s \in SUBSET U
    PROVE  g[s] = h[s]
<1> DEFINE Bad == {r \in SUBSET S : r \subseteq T /\ r \subseteq U /\ g[r] # h[r]}
<1> SUFFICES ASSUME Bad # {} PROVE FALSE
    OBVIOUS
<1>0. Bad \in SUBSET (SUBSET S)
    OBVIOUS
<1>1. PICK r \in Bad : \A q \in Bad : q \subseteq r => q = r
  <2> HIDE DEF Bad
  <2> QED BY <1>0, SmallestSet
<1> DEFINE x == Some(r)
<1>2. r \in SUBSET T /\ r \in SUBSET U /\ g[r] # h[r]
    BY <1>1
<1>3. r # {} /\ g[r] = f[x] + g[r \ {x}] /\ h[r] = f[x] + h[r \ {x}]
    BY <1>2 DEF AddsUp
<1>4. x \in r
    BY <1>3 DEF Some
<1>5. r \ {x} \notin Bad /\ r \ {x} \in SUBSET S
    BY <1>1, <1>4
<1> QED BY <1>2, <1>3, <1>5

\* There is such a function for every finite set.
LEMMA AdderExists ==
    ASSUME NEW S, IsFiniteSet(S), NEW f
    PROVE  AddsUp(Adder(f, S), f, S)
<1> DEFINE Bad == {T \in SUBSET S : ~ AddsUp(Adder(f, T), f, T)}
<1> SUFFICES ASSUME Bad # {} PROVE FALSE
    OBVIOUS
<1>0. Bad \in SUBSET (SUBSET S)
    OBVIOUS
<1>1. PICK T \in Bad : \A U \in Bad : U \subseteq T => U = T
  <2> HIDE DEF Bad
  <2> QED BY <1>0, SmallestSet
<1> DEFINE Rest(s) == s \ {Some(s)}
           Value(s) == IF s = {} THEN 0 ELSE f[Some(s)] + Adder(f, Rest(s))[Rest(s)]
           it == [s \in SUBSET T |-> Value(s)]
<1>2. ASSUME NEW s \in SUBSET T, s # {}
      PROVE  /\ Rest(s) \in SUBSET T /\ Rest(s) \in SUBSET s
             /\ AddsUp(Adder(f, Rest(s)), f, Rest(s))
    BY <1>1, <1>2 DEF Some
<1>3. ASSUME NEW r \in SUBSET T, AddsUp(Adder(f, r), f, r)
      PROVE  Value(r) = Adder(f, r)[r]
  <2>1. CASE r = {}
      BY <1>3, <2>1 DEF AddsUp
  <2>2. CASE r # {}
    <3>1. /\ Rest(r) \in SUBSET T /\ AddsUp(Adder(f, Rest(r)), f, Rest(r))
          /\ Rest(r) \in SUBSET r
        BY <1>2, <2>2
    <3>2. Adder(f, r)[r] = f[Some(r)] + Adder(f, r)[Rest(r)]
        BY <1>3, <2>2 DEF AddsUp
    <3>3. Adder(f, r)[Rest(r)] = Adder(f, Rest(r))[Rest(r)]
      <4> HIDE DEF Rest
      <4>1. r \in SUBSET S /\ Rest(r) \in SUBSET S
          BY <1>1, <3>1
      <4> QED BY <1>3, <3>1, <4>1, AddersAgree
    <3> QED BY <2>2, <3>2, <3>3
  <2> QED BY <2>1, <2>2
<1>4. AddsUp(it, f, T)
  <2>1. \A s \in SUBSET T : it[s] = IF s = {} THEN 0 ELSE f[Some(s)] + it[Rest(s)]
    <3> SUFFICES ASSUME NEW s \in SUBSET T, s # {}
                 PROVE  it[s] = f[Some(s)] + it[Rest(s)]
        OBVIOUS
    <3>1. Rest(s) \in SUBSET T /\ Value(Rest(s)) = Adder(f, Rest(s))[Rest(s)]
        BY <1>2, <1>3
    <3> QED BY <3>1
  <2>2. it = [s \in SUBSET T |-> it[s]]
      OBVIOUS
  <2> HIDE DEF it
  <2>3. it = [s \in SUBSET T |-> IF s = {} THEN 0 ELSE f[Some(s)] + it[Rest(s)]]
      BY <2>1, <2>2
  <2> QED BY <2>3 DEF AddsUp
<1>5. AddsUp(Adder(f, T), f, T)
  <2> HIDE DEF it
  <2> QED BY <1>4, Zenon DEF Adder
<1> QED BY <1>1, <1>5

\* The sum over a set is that over all but one element, and this one's term.
LEMMA SumRest ==
    ASSUME NEW S, IsFiniteSet(S), NEW f
    PROVE  /\ SumFunctionOnSet(f, {}) = 0
           /\ S # {} => /\ Some(S) \in S
                        /\ SumFunctionOnSet(f, S)
                             = f[Some(S)] + SumFunctionOnSet(f, S \ {Some(S)})
<1>1. AddsUp(Adder(f, {}), f, {}) /\ AddsUp(Adder(f, S), f, S)
    BY AdderExists, FS_EmptySet
<1>2. SumFunctionOnSet(f, {}) = 0
    BY <1>1, SumIs DEF AddsUp
<1>3. ASSUME S # {}
      PROVE  /\ Some(S) \in S
             /\ SumFunctionOnSet(f, S) = f[Some(S)] + SumFunctionOnSet(f, S \ {Some(S)})
  <2> DEFINE r == S \ {Some(S)}
  <2>1. r \in SUBSET S /\ S \in SUBSET S /\ IsFiniteSet(r)
      BY FS_Subset
  <2>2. AddsUp(Adder(f, r), f, r)
      BY <2>1, AdderExists
  <2>3. Adder(f, S)[S] = f[Some(S)] + Adder(f, S)[r]
      BY <1>1, <1>3 DEF AddsUp
  <2>4. Adder(f, S)[r] = Adder(f, r)[r]
    <3> HIDE DEF r
    <3> QED BY <1>1, <2>1, <2>2, AddersAgree
  <2> QED BY <1>3, <2>3, <2>4, SumIs DEF Some
<1> QED BY <1>2, <1>3

\* A sum of integers is one.
LEMMA SumType ==
    ASSUME NEW S, IsFiniteSet(S), NEW f, \A x \in S : f[x] \in Int
    PROVE  SumFunctionOnSet(f, S) \in Int
<1> DEFINE Bad == {T \in SUBSET S : SumFunctionOnSet(f, T) \notin Int}
<1> SUFFICES ASSUME Bad # {} PROVE FALSE
    OBVIOUS
<1>0. Bad \in SUBSET (SUBSET S)
    OBVIOUS
<1>1. PICK T \in Bad : \A U \in Bad : U \subseteq T => U = T
  <2> HIDE DEF Bad
  <2> QED BY <1>0, SmallestSet
<1>2. T \in SUBSET S /\ IsFiniteSet(T) /\ SumFunctionOnSet(f, T) \notin Int
    BY <1>1, FS_Subset
<1>3. /\ T # {} => /\ Some(T) \in T
                  /\ SumFunctionOnSet(f, T) = f[Some(T)] + SumFunctionOnSet(f, T \ {Some(T)})
      /\ SumFunctionOnSet(f, {}) = 0
    BY <1>2, SumRest
<1>4. T # {}
  <2>1. SumFunctionOnSet(f, {}) \in Int
      BY <1>3
  <2> QED BY <1>2, <2>1, Zenon
<1>5. f[Some(T)] \in Int
    BY <1>2, <1>3, <1>4
<1>6. T \ {Some(T)} \notin Bad /\ T \ {Some(T)} \in SUBSET S
    BY <1>1, <1>2, <1>3, <1>4
<1> QED BY <1>2, <1>3, <1>4, <1>5, <1>6

\* It does not matter which element is counted last.
LEMMA SumWithout ==
    ASSUME NEW S, IsFiniteSet(S), NEW f, \A x \in S : f[x] \in Int, NEW y \in S
    PROVE  SumFunctionOnSet(f, S) = f[y] + SumFunctionOnSet(f, S \ {y})
<1> DEFINE Total(T) == SumFunctionOnSet(f, T)
           Bad == {T \in SUBSET S : \E x \in T : Total(T) # f[x] + Total(T \ {x})}
<1> SUFFICES ASSUME Bad # {} PROVE FALSE
    OBVIOUS
<1>0. Bad \in SUBSET (SUBSET S)
    OBVIOUS
<1>1. PICK T \in Bad : \A U \in Bad : U \subseteq T => U = T
  <2> HIDE DEF Bad
  <2> QED BY <1>0, SmallestSet
<1>2. PICK x \in T : Total(T) # f[x] + Total(T \ {x})
    BY <1>1
<1> DEFINE z == Some(T)
<1>3. \A U \in SUBSET S : IsFiniteSet(U) /\ Total(U) \in Int
  <2> TAKE U \in SUBSET S
  <2>1. IsFiniteSet(U) /\ \A u \in U : f[u] \in Int
      BY FS_Subset
  <2> QED BY <2>1, SumType
<1>4. T \in SUBSET S /\ z \in T /\ Total(T) = f[z] + Total(T \ {z})
    BY <1>1, <1>2, <1>3, SumRest
<1> HIDE DEF Total, z
<1>5. x # z
    BY <1>2, <1>4
<1>6. T \ {z} \notin Bad /\ T \ {x} \notin Bad
    BY <1>1, <1>4
<1>7. T \ {z} \in SUBSET S /\ T \ {x} \in SUBSET S /\ x \in T \ {z} /\ z \in T \ {x}
    BY <1>4, <1>5
<1>8. /\ Total(T \ {z}) = f[x] + Total((T \ {z}) \ {x})
      /\ Total(T \ {x}) = f[z] + Total((T \ {x}) \ {z})
    BY <1>6, <1>7
<1>9. (T \ {z}) \ {x} = (T \ {x}) \ {z} /\ (T \ {x}) \ {z} \in SUBSET S
    BY <1>4
<1>10. f[x] \in Int /\ f[z] \in Int /\ Total((T \ {x}) \ {z}) \in Int
    BY <1>3, <1>4, <1>9
<1> DEFINE rest == Total((T \ {x}) \ {z})
<1>11. Total(T) = f[z] + (f[x] + rest)
    BY <1>4, <1>8, <1>9, Zenon
<1>12. Total(T \ {x}) = f[z] + rest
    BY <1>8
<1> HIDE DEF rest
<1> QED BY <1>2, <1>10, <1>11, <1>12 DEF rest

\* An element that is not in the set adds its term.
LEMMA SumWith ==
    ASSUME NEW S, IsFiniteSet(S), NEW y, y \notin S, NEW f, \A x \in S \cup {y} : f[x] \in Int
    PROVE  SumFunctionOnSet(f, S \cup {y}) = f[y] + SumFunctionOnSet(f, S)
<1> DEFINE T == S \cup {y}
<1>1. IsFiniteSet(T) /\ y \in T /\ T \ {y} = S
    BY FS_AddElement
<1> HIDE DEF T
<1>2. SumFunctionOnSet(f, T) = f[y] + SumFunctionOnSet(f, T \ {y})
    BY <1>1, SumWithout DEF T
<1> QED BY <1>1, <1>2 DEF T

\* Sums over the same set of functions that agree there are equal.
LEMMA SumEqual ==
    ASSUME NEW S, IsFiniteSet(S), NEW f, NEW g, \A x \in S : f[x] = g[x]
    PROVE  SumFunctionOnSet(f, S) = SumFunctionOnSet(g, S)
<1> DEFINE Bad == {T \in SUBSET S : SumFunctionOnSet(f, T) # SumFunctionOnSet(g, T)}
<1> SUFFICES ASSUME Bad # {} PROVE FALSE
    OBVIOUS
<1>0. Bad \in SUBSET (SUBSET S)
    OBVIOUS
<1>1. PICK T \in Bad : \A U \in Bad : U \subseteq T => U = T
  <2> HIDE DEF Bad
  <2> QED BY <1>0, SmallestSet
<1>2. T \in SUBSET S /\ IsFiniteSet(T) /\ SumFunctionOnSet(f, T) # SumFunctionOnSet(g, T)
    BY <1>1, FS_Subset
<1>3. /\ SumFunctionOnSet(f, {}) = 0 /\ SumFunctionOnSet(g, {}) = 0
      /\ T # {} => /\ Some(T) \in T
                   /\ SumFunctionOnSet(f, T) = f[Some(T)] + SumFunctionOnSet(f, T \ {Some(T)})
                   /\ SumFunctionOnSet(g, T) = g[Some(T)] + SumFunctionOnSet(g, T \ {Some(T)})
    BY <1>2, SumRest
<1>4. T # {} /\ f[Some(T)] = g[Some(T)]
    BY <1>2, <1>3
<1>5. T \ {Some(T)} \notin Bad /\ T \ {Some(T)} \in SUBSET S
    BY <1>1, <1>2, <1>3, <1>4
<1> QED BY <1>2, <1>3, <1>4, <1>5

\* A sum of zeros is zero.
LEMMA SumOfNone ==
    ASSUME NEW S, IsFiniteSet(S), NEW f, \A x \in S : f[x] = 0
    PROVE  SumFunctionOnSet(f, S) = 0
<1> DEFINE Bad == {T \in SUBSET S : SumFunctionOnSet(f, T) # 0}
<1> SUFFICES ASSUME Bad # {} PROVE FALSE
    OBVIOUS
<1>0. Bad \in SUBSET (SUBSET S)
    OBVIOUS
<1>1. PICK T \in Bad : \A U \in Bad : U \subseteq T => U = T
  <2> HIDE DEF Bad
  <2> QED BY <1>0, SmallestSet
<1>2. T \in SUBSET S /\ IsFiniteSet(T) /\ SumFunctionOnSet(f, T) # 0
    BY <1>1, FS_Subset
<1>3. /\ T # {} => /\ Some(T) \in T
                  /\ SumFunctionOnSet(f, T) = f[Some(T)] + SumFunctionOnSet(f, T \ {Some(T)})
      /\ SumFunctionOnSet(f, {}) = 0
    BY <1>2, SumRest
<1>4. T # {} /\ f[Some(T)] = 0
    BY <1>2, <1>3
<1>5. T \ {Some(T)} \notin Bad /\ T \ {Some(T)} \in SUBSET S
    BY <1>1, <1>2, <1>3, <1>4
<1> QED BY <1>2, <1>3, <1>4, <1>5

\* Changing the term of one element changes the sum by as much.
LEMMA SumChange ==
    ASSUME NEW S, IsFiniteSet(S), NEW f, NEW g, NEW y \in S,
           \A x \in S : f[x] \in Int /\ g[x] \in Int /\ (x # y => f[x] = g[x])
    PROVE  /\ SumFunctionOnSet(f, S) \in Int
           /\ SumFunctionOnSet(g, S) = SumFunctionOnSet(f, S) - f[y] + g[y]
<1> DEFINE R == S \ {y}
<1>1. IsFiniteSet(R) /\ \A x \in R : f[x] \in Int /\ f[x] = g[x]
    BY FS_Subset
<1> HIDE DEF R
<1>2. SumFunctionOnSet(f, R) = SumFunctionOnSet(g, R) /\ SumFunctionOnSet(f, R) \in Int
    BY <1>1, SumEqual, SumType
<1>3. /\ SumFunctionOnSet(f, S) = f[y] + SumFunctionOnSet(f, R)
      /\ SumFunctionOnSet(g, S) = g[y] + SumFunctionOnSet(g, R)
    BY SumWithout DEF R
<1>4. f[y] \in Int /\ g[y] \in Int
    OBVIOUS
<1> QED BY <1>2, <1>3, <1>4

\* A sum of terms that are not negative is not, and is at least each of them.
LEMMA SumOfNaturals ==
    ASSUME NEW S, IsFiniteSet(S), NEW f, \A x \in S : f[x] \in Nat
    PROVE  /\ SumFunctionOnSet(f, S) \in Nat
           /\ \A x \in S : f[x] =< SumFunctionOnSet(f, S)
<1> DEFINE Bad == {T \in SUBSET S : SumFunctionOnSet(f, T) \notin Nat}
<1>1. ASSUME Bad # {} PROVE FALSE
  <2>0. Bad \in SUBSET (SUBSET S)
      OBVIOUS
  <2>1. PICK T \in Bad : \A U \in Bad : U \subseteq T => U = T
    <3> HIDE DEF Bad
    <3> QED BY <1>1, <2>0, SmallestSet
  <2>2. T \in SUBSET S /\ IsFiniteSet(T) /\ SumFunctionOnSet(f, T) \notin Nat
      BY <2>1, FS_Subset
  <2>3. /\ T # {} => /\ Some(T) \in T
                    /\ SumFunctionOnSet(f, T) = f[Some(T)] + SumFunctionOnSet(f, T \ {Some(T)})
        /\ SumFunctionOnSet(f, {}) = 0
      BY <2>2, SumRest
  <2>4. T # {}
    <3>1. SumFunctionOnSet(f, {}) \in Nat
        BY <2>3
    <3> QED BY <2>2, <3>1, Zenon
  <2>5. f[Some(T)] \in Nat
      BY <2>2, <2>3, <2>4
  <2>6. T \ {Some(T)} \notin Bad /\ T \ {Some(T)} \in SUBSET S
      BY <2>1, <2>2, <2>3, <2>4
  <2> QED BY <2>2, <2>3, <2>4, <2>5, <2>6
<1>2. ASSUME NEW x \in S PROVE f[x] =< SumFunctionOnSet(f, S)
  <2>1. SumFunctionOnSet(f, S) = f[x] + SumFunctionOnSet(f, S \ {x})
      BY SumWithout
  <2>2. SumFunctionOnSet(f, S \ {x}) \in Nat
      BY <1>1
  <2> QED BY <2>1, <2>2
<1>3. SumFunctionOnSet(f, S) \in Nat
    BY <1>1
<1> QED BY <1>2, <1>3

\* Terms that are zero do not count.
LEMMA SumExtends ==
    ASSUME NEW S, IsFiniteSet(S), NEW T \in SUBSET S, NEW f, \A x \in S : f[x] \in Int,
           \A x \in S \ T : f[x] = 0
    PROVE  SumFunctionOnSet(f, S) = SumFunctionOnSet(f, T)
<1> DEFINE Bad == {U \in SUBSET S : T \subseteq U /\ SumFunctionOnSet(f, U) # SumFunctionOnSet(f, T)}
<1> SUFFICES ASSUME Bad # {} PROVE FALSE
    OBVIOUS
<1>0. Bad \in SUBSET (SUBSET S)
    OBVIOUS
<1>1. PICK U \in Bad : \A V \in Bad : V \subseteq U => V = U
  <2> HIDE DEF Bad
  <2> QED BY <1>0, SmallestSet
<1>2. PICK y \in U : y \notin T
  <2>1. T \subseteq U /\ U # T
      BY <1>1, Zenon
  <2> QED BY <2>1
<1>3. IsFiniteSet(U) /\ (\A x \in U : f[x] \in Int) /\ f[y] = 0
    BY <1>1, <1>2, FS_Subset
<1>4. SumFunctionOnSet(f, U) = f[y] + SumFunctionOnSet(f, U \ {y})
    BY <1>2, <1>3, SumWithout
<1>5. U \ {y} \notin Bad /\ U \ {y} \in SUBSET S /\ T \subseteq U \ {y}
    BY <1>1, <1>2
<1>6. SumFunctionOnSet(f, U \ {y}) = SumFunctionOnSet(f, T) /\ SumFunctionOnSet(f, U \ {y}) \in Int
  <2>1. IsFiniteSet(U \ {y}) /\ \A x \in U \ {y} : f[x] \in Int
      BY <1>3, FS_RemoveElement
  <2> QED BY <1>5, <2>1, SumType
<1> QED BY <1>1, <1>3, <1>4, <1>6
=============================================================================
