---------------------------- MODULE AccountProofs ---------------------------
(***************************************************************************)
(* What is proved of accounts, of their votes and of what they may use: in *)
(* every behaviour of SystemSpec following proxies never leads back        *)
(* (NoProxyCycle), so that the recursion of propagate_weight_change ends;  *)
(* the resources of an account are what is staked for it and what is       *)
(* lent to it, which the limits of the chain follow (ResourcesAddUp); and, *)
(* where no stake is negative, producers and proxies have the votes that   *)
(* voters have cast (VotesAddUp).                                          *)
(*                                                                         *)
(* Votable is the inductive invariant.  Of votes: voters can be ranked so  *)
(* that each one is above the proxy it follows; a vote for a proxy, which  *)
(* follows nobody, puts the voter and everybody else above it.  Of         *)
(* resources: nobody lacks any, and limits follow.  Within an action       *)
(* somebody may (Wanting), when a loan has begun or ended and the          *)
(* resources of its receiver have not changed yet.                         *)
(*                                                                         *)
(* Tallied is the one of what votes add up to.  Within an action the sums  *)
(* count one ballot that differs from the voter's row (Poll), that of a    *)
(* vote taken back, or of a weight that is not passed on yet.              *)
(***************************************************************************)
EXTENDS RexProofs

-----------------------------------------------------------------------------
\* The tables and sums of an election, and the fields of a voter.
ElectionFields ==
    {"voters", "producers", "producers2", "total_producer_vote_weight",
     "total_producer_votepay_share", "total_vpay_share_change_rate", "last_vpay_state_update",
     "total_activated_stake", "thresh_activated_stake_time"}
VoterFields ==
    {"staked", "producers", "proxy", "is_proxy", "last_vote_weight", "proxied_vote_weight", "managed"}

\* An election that the helpers can be applied to.
ElectShaped(e) ==
    /\ DOMAIN e = ElectionFields
    /\ IsFiniteSet(DOMAIN e.voters) /\ DOMAIN e.voters \subseteq Users
    /\ \A x \in DOMAIN e.voters : DOMAIN e.voters[x] = VoterFields

\* Rows of a voter that differ in the weight of its vote only.
SameVoter(a, b) ==
    /\ DOMAIN b = VoterFields
    /\ a.staked = b.staked /\ a.producers = b.producers /\ a.proxy = b.proxy
    /\ a.is_proxy = b.is_proxy /\ a.managed = b.managed

\* f is e but for weights, and votes for producers.
Reweighed(e, f) ==
    /\ DOMAIN f = ElectionFields
    /\ DOMAIN f.voters = DOMAIN e.voters
    /\ \A x \in DOMAIN e.voters : SameVoter(e.voters[x], f.voters[x])

\* Voters follow voters, no proxy follows any, and everybody ranks above its proxy.
Ranked(voters, rank) ==
    \A x \in DOMAIN voters : voters[x].proxy # Nobody => rank[voters[x].proxy] < rank[x]

Proxies(e) ==
    /\ ElectShaped(e)
    /\ \A x \in DOMAIN e.voters : /\ e.voters[x].proxy \in DOMAIN e.voters \cup {Nobody}
                                  /\ e.voters[x].is_proxy => e.voters[x].proxy = Nobody
    /\ \E rank \in [DOMAIN e.voters -> Nat] : Ranked(e.voters, rank)

\* Helpers one after another.
LEMMA ReweighedTransitive ==
    ASSUME NEW e, NEW f, NEW g, Reweighed(e, f), Reweighed(f, g)
    PROVE  Reweighed(e, g)
BY DEF Reweighed, SameVoter

\* No helper at all.
LEMMA ReweighedReflexive ==
    ASSUME NEW e, ElectShaped(e)
    PROVE  Reweighed(e, e)
BY DEF Reweighed, SameVoter, ElectShaped

\* Weights do not tell who follows whom.
LEMMA ReweighedProxies ==
    ASSUME NEW e, NEW f, Reweighed(e, f)
    PROVE  /\ ElectShaped(e) => ElectShaped(f)
           /\ Proxies(e) => Proxies(f)
<1>1. ElectShaped(e) => ElectShaped(f)
    BY DEF Reweighed, SameVoter, ElectShaped
<1>2. ASSUME Proxies(e) PROVE Proxies(f)
  <2>1. PICK rank \in [DOMAIN e.voters -> Nat] : Ranked(e.voters, rank)
      BY <1>2 DEF Proxies
  <2>2. Ranked(f.voters, rank) /\ rank \in [DOMAIN f.voters -> Nat]
      BY <2>1 DEF Ranked, Reweighed, SameVoter
  <2>3. \A x \in DOMAIN f.voters : /\ f.voters[x].proxy \in DOMAIN f.voters \cup {Nobody}
                                   /\ f.voters[x].is_proxy => f.voters[x].proxy = Nobody
      BY <1>2 DEF Proxies, Reweighed, SameVoter
  <2> QED BY <1>1, <1>2, <2>2, <2>3 DEF Proxies
<1> QED BY <1>1, <1>2

-----------------------------------------------------------------------------
(* The helpers that change weights.                                        *)

\* A count of votes.
LEMMA ChangeVotesReweighs ==
    ASSUME NEW e, ElectShaped(e), NEW ct, NEW delta, NEW clamped
    PROVE  /\ ChangeVotes(e, ct, delta, clamped).voters = e.voters
           /\ Reweighed(e, ChangeVotes(e, ct, delta, clamped))
<1> DEFINE counted == DOMAIN delta \cap DOMAIN e.producers
           sharing == counted \cap DOMAIN e.producers2
           late == Late(e, sharing, ct)
           a == VotesChanged(e, delta, counted, clamped)
           b == SharesUpdated(e, ct, sharing, late)
           c == TotalOf(delta, counted)
           g == [e EXCEPT !.producers = a, !.producers2 = b, !.total_producer_vote_weight = @ + c]
           m == - MapThenSumSet(LAMBDA p : EarnedShare(e, p, ct), late)
           n == TotalOf(delta, {p \in sharing : ~ CrossedThreshold(e.producers[p], ct)})
                  - MapThenSumSet(LAMBDA p : e.producers[p].total_votes, late)
           f == update_total_votepay_share(g, ct, m, n)
<1>1. ChangeVotes(e, ct, delta, clamped) = f
    BY Zenon DEF ChangeVotes, ChangeVotesOfCounted, ChangeVotesOf
<1> HIDE DEF a, b, c, m, n
<1>2. DOMAIN g = ElectionFields /\ g.voters = e.voters
    BY DEF ElectShaped, ElectionFields
<1> HIDE DEF g
<1>3. DOMAIN f = ElectionFields /\ f.voters = g.voters
    BY <1>2, Zenon DEF update_total_votepay_share, ElectionFields
<1> HIDE DEF f
<1> QED BY <1>1, <1>2, <1>3, ReweighedReflexive DEF Reweighed

\* A weight put into a row.
LEMMA WeightPut ==
    ASSUME NEW e, ElectShaped(e), NEW y, NEW weight
    PROVE  /\ Reweighed(e, [e EXCEPT !.voters[y].last_vote_weight = weight])
           /\ Reweighed(e, [e EXCEPT !.voters[y].proxied_vote_weight = @ + weight])
BY DEF ElectShaped, ElectionFields, VoterFields, Reweighed, SameVoter

\* One link of propagate_weight_change.
LEMMA LinkReweighs ==
    ASSUME NEW e, ElectShaped(e), NEW y, NEW voter, NEW weight, NEW ct
    PROVE  /\ \A d : Reweighed(e, PassOn(e, voter, d, ct))
           /\ Reweighed(e, Link(e, y, voter, weight, ct).e)
<1>1. ASSUME NEW d
      PROVE  Reweighed(e, PassOn(e, voter, d, ct))
  <2> DEFINE delta == [p \in voter.producers |-> d]
  <2>1. Reweighed(e, ChangeVotes(e, ct, delta, FALSE))
    <3> DEFINE no == FALSE
    <3> HIDE DEF delta, no
    <3>1. Reweighed(e, ChangeVotes(e, ct, delta, no))
        BY ChangeVotesReweighs
    <3> QED BY <3>1 DEF no
  <2>2. Reweighed(e, [e EXCEPT !.voters[voter.proxy].proxied_vote_weight = @ + d])
      BY WeightPut
  <2> QED BY <2>1, <2>2, ReweighedReflexive, Zenon DEF PassOn
<1> DEFINE f == PassOn(e, voter, weight - voter.last_vote_weight, ct)
<1>2. Reweighed(e, f)
    BY <1>1
<1> HIDE DEF f
<1>3. Reweighed(f, [f EXCEPT !.voters[y].last_vote_weight = weight])
    BY <1>2, ReweighedProxies, WeightPut
<1>4. Link(e, y, voter, weight, ct).e = [f EXCEPT !.voters[y].last_vote_weight = weight]
    BY DEF Link, f
<1> QED BY <1>1, <1>2, <1>3, <1>4, ReweighedTransitive

\* The same as a step of the recursion.
LEMMA PropagateLinkReweighs ==
    ASSUME NEW e, ElectShaped(e), NEW state, Reweighed(e, state.e), NEW y, NEW ct
    PROVE  Reweighed(e, PropagateLink(state, y, ct).e)
<1> DEFINE voter == state.e.voters[y]
           weight == VoteWeight(voter, ct)
           f == state.e
<1>1. ElectShaped(f)
    BY ReweighedProxies
<1>2. PropagateLink(state, y, ct) = IF ~ state.on THEN state ELSE Link(f, y, voter, weight, ct)
    BY Zenon DEF PropagateLink
<1>3. Reweighed(e, f)
    OBVIOUS
<1> HIDE DEF voter, weight, f
<1>4. Reweighed(f, Link(f, y, voter, weight, ct).e)
    BY <1>1, LinkReweighs
<1>5. Reweighed(e, Link(f, y, voter, weight, ct).e)
    BY <1>3, <1>4, ReweighedTransitive
<1> QED BY <1>2, <1>5

-----------------------------------------------------------------------------
\* propagate_weight_change is a recursive function, hence a CHOOSE.  The recursion it
\* stands for has a solution: its beginnings exist and agree where they overlap.
PropagatedUpTo(g, e, chain, ct, n) ==
    /\ g[0] = [e |-> e, on |-> TRUE]
    /\ \A i \in 0 .. n : i # 0 => g[i] = PropagateLink(g[i - 1], chain[i], ct)

\* f is the recursion of propagate_weight_change.
Propagates(f, e, chain, ct) ==
    f = [n \in Nat |-> IF n = 0 THEN [e |-> e, on |-> TRUE]
                       ELSE PropagateLink(f[n - 1], chain[n], ct)]

\* The one it uses.
Propagating(e, chain, ct) == CHOOSE f : Propagates(f, e, chain, ct)

\* Two beginnings of it agree where both are defined.
LEMMA PropagatedAgree ==
    ASSUME NEW e, NEW chain, NEW ct, NEW m \in Nat, NEW n \in Nat, m =< n, NEW g, NEW h,
           PropagatedUpTo(g, e, chain, ct, m), PropagatedUpTo(h, e, chain, ct, n)
    PROVE  g[m] = h[m]
<1> DEFINE Bad == {k \in Nat : k =< m /\ g[k] # h[k]}
<1> SUFFICES ASSUME Bad # {} PROVE FALSE
    OBVIOUS
<1>1. PICK b \in Bad : \A k \in Bad : b =< k
    BY NatMin
<1>2. b # 0
    BY <1>1 DEF PropagatedUpTo
<1>3. b - 1 \in Nat /\ b - 1 \notin Bad /\ b \in 0 .. m /\ b \in 0 .. n
    BY <1>1, <1>2
<1>4. /\ g[b] = PropagateLink(g[b - 1], chain[b], ct)
      /\ h[b] = PropagateLink(h[b - 1], chain[b], ct)
    BY <1>2, <1>3 DEF PropagatedUpTo
<1> QED BY <1>1, <1>3, <1>4

\* There is a beginning of any length.
LEMMA PropagatedExist ==
    ASSUME NEW e, NEW chain, NEW ct, NEW n \in Nat
    PROVE  \E g : PropagatedUpTo(g, e, chain, ct, n)
<1> DEFINE Bad == {k \in Nat : ~ \E g : PropagatedUpTo(g, e, chain, ct, k)}
<1> SUFFICES ASSUME Bad # {} PROVE FALSE
    OBVIOUS
<1>1. PICK b \in Bad : \A k \in Bad : b =< k
    BY NatMin
<1>2. b # 0
  <2>1. PropagatedUpTo([i \in {0} |-> [e |-> e, on |-> TRUE]], e, chain, ct, 0)
    BY DEF PropagatedUpTo
  <2> QED BY <1>1, <2>1
<1>3. b - 1 \in Nat /\ b - 1 \notin Bad
    BY <1>1, <1>2
<1>4. PICK g : PropagatedUpTo(g, e, chain, ct, b - 1)
    BY <1>3
<1> DEFINE h == [i \in 0 .. b |-> IF i = b THEN PropagateLink(g[b - 1], chain[b], ct) ELSE g[i]]
<1>5. PropagatedUpTo(h, e, chain, ct, b)
  <2>1. h[0] = [e |-> e, on |-> TRUE]
    BY <1>1, <1>2, <1>4 DEF PropagatedUpTo
  <2>2. ASSUME NEW i \in 0 .. b, i # 0
        PROVE  h[i] = PropagateLink(h[i - 1], chain[i], ct)
    <3>1. CASE i = b
        BY <2>2, <3>1
    <3>2. CASE i # b
      <4>1. i \in 0 .. b - 1 /\ i - 1 \in 0 .. b /\ i - 1 # b
          BY <2>2, <3>2
      <4> QED BY <1>4, <2>2, <3>2, <4>1 DEF PropagatedUpTo
    <3> QED BY <3>1, <3>2
  <2> QED BY <2>1, <2>2 DEF PropagatedUpTo
<1> QED BY <1>1, <1>5

\* So the recursive function of propagate_weight_change does what it says.
LEMMA PropagatingRecursion ==
    ASSUME NEW e, NEW chain, NEW ct, NEW n \in Nat
    PROVE  Propagating(e, chain, ct)[n]
               = IF n = 0 THEN [e |-> e, on |-> TRUE]
                 ELSE PropagateLink(Propagating(e, chain, ct)[n - 1], chain[n], ct)
<1> DEFINE F(i) == (CHOOSE g : PropagatedUpTo(g, e, chain, ct, i))[i]
           it == [i \in Nat |-> F(i)]
<1>1. ASSUME NEW i \in Nat
      PROVE  F(i) = IF i = 0 THEN [e |-> e, on |-> TRUE] ELSE PropagateLink(F(i - 1), chain[i], ct)
  <2> DEFINE g == CHOOSE g : PropagatedUpTo(g, e, chain, ct, i)
  <2>1. PropagatedUpTo(g, e, chain, ct, i)
      BY PropagatedExist
  <2>2. CASE i = 0
      BY <2>1, <2>2 DEF PropagatedUpTo
  <2>3. CASE i # 0
    <3> DEFINE h == CHOOSE h : PropagatedUpTo(h, e, chain, ct, i - 1)
    <3>1. i - 1 \in Nat /\ i - 1 =< i /\ i \in 0 .. i
        BY <2>3
    <3>2. PropagatedUpTo(h, e, chain, ct, i - 1)
        BY <3>1, PropagatedExist
    <3>3. g[i] = PropagateLink(g[i - 1], chain[i], ct)
        BY <2>1, <2>3, <3>1 DEF PropagatedUpTo
    <3>4. h[i - 1] = g[i - 1]
      <4> HIDE DEF g, h
      <4> QED BY <2>1, <3>1, <3>2, PropagatedAgree
    <3> QED BY <2>3, <3>3, <3>4
  <2> QED BY <2>2, <2>3
<1>2. Propagates(it, e, chain, ct)
  <2>1. \A i \in Nat : it[i] = IF i = 0 THEN [e |-> e, on |-> TRUE]
                               ELSE PropagateLink(it[i - 1], chain[i], ct)
    <3> TAKE i \in Nat
    <3> HIDE DEF F
    <3>1. i # 0 => i - 1 \in Nat
        OBVIOUS
    <3> QED BY <1>1, <3>1
  <2>2. it = [i \in Nat |-> it[i]]
      OBVIOUS
  <2> HIDE DEF it
  <2>3. it = [i \in Nat |-> IF i = 0 THEN [e |-> e, on |-> TRUE]
                            ELSE PropagateLink(it[i - 1], chain[i], ct)]
      BY <2>1, <2>2
  <2> QED BY <2>3 DEF Propagates
<1>3. Propagates(Propagating(e, chain, ct), e, chain, ct)
  <2> HIDE DEF it
  <2> QED BY <1>2, Zenon DEF Propagating
<1> QED BY <1>3 DEF Propagates

-----------------------------------------------------------------------------
(* The chain of proxies, a recursive function as well.                     *)

\* Who comes after y.
Following(voters, y) == IF y = Nobody THEN Nobody ELSE voters[y].proxy

\* A beginning of the chain from x.
ClimbsUpTo(g, voters, x, n) ==
    g[0] = x /\ \A i \in 0 .. n : i # 0 => g[i] = Following(voters, g[i - 1])

\* f is the recursion of ProxyChain.
Climbs(f, voters, x) ==
    f = [n \in Nat |-> IF n = 0 THEN x
                       ELSE IF f[n - 1] = Nobody THEN Nobody ELSE voters[f[n - 1]].proxy]

\* The one it uses.
Climbing(voters, x) == CHOOSE f : Climbs(f, voters, x)

\* Two beginnings of it agree where both are defined.
LEMMA ClimbsAgree ==
    ASSUME NEW voters, NEW x, NEW m \in Nat, NEW n \in Nat, m =< n, NEW g, NEW h,
           ClimbsUpTo(g, voters, x, m), ClimbsUpTo(h, voters, x, n)
    PROVE  g[m] = h[m]
<1> DEFINE Bad == {k \in Nat : k =< m /\ g[k] # h[k]}
<1> SUFFICES ASSUME Bad # {} PROVE FALSE
    OBVIOUS
<1>1. PICK b \in Bad : \A k \in Bad : b =< k
    BY NatMin
<1>2. b # 0
    BY <1>1 DEF ClimbsUpTo
<1>3. b - 1 \in Nat /\ b - 1 \notin Bad /\ b \in 0 .. m /\ b \in 0 .. n
    BY <1>1, <1>2
<1>4. g[b] = Following(voters, g[b - 1]) /\ h[b] = Following(voters, h[b - 1])
    BY <1>2, <1>3 DEF ClimbsUpTo
<1> QED BY <1>1, <1>3, <1>4

\* There is a beginning of any length.
LEMMA ClimbsExist ==
    ASSUME NEW voters, NEW x, NEW n \in Nat
    PROVE  \E g : ClimbsUpTo(g, voters, x, n)
<1> DEFINE Bad == {k \in Nat : ~ \E g : ClimbsUpTo(g, voters, x, k)}
<1> SUFFICES ASSUME Bad # {} PROVE FALSE
    OBVIOUS
<1>1. PICK b \in Bad : \A k \in Bad : b =< k
    BY NatMin
<1>2. b # 0
  <2>1. ClimbsUpTo([i \in {0} |-> x], voters, x, 0)
    BY DEF ClimbsUpTo
  <2> QED BY <1>1, <2>1
<1>3. b - 1 \in Nat /\ b - 1 \notin Bad
    BY <1>1, <1>2
<1>4. PICK g : ClimbsUpTo(g, voters, x, b - 1)
    BY <1>3
<1> DEFINE h == [i \in 0 .. b |-> IF i = b THEN Following(voters, g[b - 1]) ELSE g[i]]
<1>5. ClimbsUpTo(h, voters, x, b)
  <2>1. h[0] = x
    BY <1>1, <1>2, <1>4 DEF ClimbsUpTo
  <2>2. ASSUME NEW i \in 0 .. b, i # 0
        PROVE  h[i] = Following(voters, h[i - 1])
    <3>1. CASE i = b
        BY <2>2, <3>1
    <3>2. CASE i # b
      <4>1. i \in 0 .. b - 1 /\ i - 1 \in 0 .. b /\ i - 1 # b
          BY <2>2, <3>2
      <4> QED BY <1>4, <2>2, <3>2, <4>1 DEF ClimbsUpTo
    <3> QED BY <3>1, <3>2
  <2> QED BY <2>1, <2>2 DEF ClimbsUpTo
<1> QED BY <1>1, <1>5

\* So the recursive function of ProxyChain does what it says.
LEMMA ClimbingRecursion ==
    ASSUME NEW voters, NEW x, NEW n \in Nat
    PROVE  Climbing(voters, x)[n] = IF n = 0 THEN x ELSE Following(voters, Climbing(voters, x)[n - 1])
<1> DEFINE F(i) == (CHOOSE g : ClimbsUpTo(g, voters, x, i))[i]
           it == [i \in Nat |-> F(i)]
<1>1. ASSUME NEW i \in Nat
      PROVE  F(i) = IF i = 0 THEN x ELSE Following(voters, F(i - 1))
  <2> DEFINE g == CHOOSE g : ClimbsUpTo(g, voters, x, i)
  <2>1. ClimbsUpTo(g, voters, x, i)
      BY ClimbsExist
  <2>2. CASE i = 0
      BY <2>1, <2>2 DEF ClimbsUpTo
  <2>3. CASE i # 0
    <3> DEFINE h == CHOOSE h : ClimbsUpTo(h, voters, x, i - 1)
    <3>1. i - 1 \in Nat /\ i - 1 =< i /\ i \in 0 .. i
        BY <2>3
    <3>2. ClimbsUpTo(h, voters, x, i - 1)
        BY <3>1, ClimbsExist
    <3>3. g[i] = Following(voters, g[i - 1])
        BY <2>1, <2>3, <3>1 DEF ClimbsUpTo
    <3>4. h[i - 1] = g[i - 1]
      <4> HIDE DEF g, h
      <4> QED BY <2>1, <3>1, <3>2, ClimbsAgree
    <3> QED BY <2>3, <3>3, <3>4
  <2> QED BY <2>2, <2>3
<1>2. Climbs(it, voters, x)
  <2>1. \A i \in Nat : it[i] = IF i = 0 THEN x ELSE Following(voters, it[i - 1])
    <3> TAKE i \in Nat
    <3> HIDE DEF F
    <3>1. i # 0 => i - 1 \in Nat
        OBVIOUS
    <3> QED BY <1>1, <3>1
  <2>2. it = [i \in Nat |-> it[i]]
      OBVIOUS
  <2> HIDE DEF it
  <2>3. it = [i \in Nat |-> IF i = 0 THEN x
                            ELSE IF it[i - 1] = Nobody THEN Nobody ELSE voters[it[i - 1]].proxy]
      BY <2>1, <2>2 DEF Following
  <2> QED BY <2>3 DEF Climbs
<1>3. Climbs(Climbing(voters, x), voters, x)
  <2> HIDE DEF it
  <2> QED BY <1>2, Zenon DEF Climbing
<1> QED BY <1>3 DEF Climbs, Following

\* ProxyChain is a sequence: of those the climb meets before it meets nobody.
LEMMA ChainLength ==
    ASSUME NEW voters, IsFiniteSet(DOMAIN voters), NEW x
    PROVE  LET met == {n \in 0 .. Cardinality(DOMAIN voters) : Climbing(voters, x)[n] # Nobody}
           IN  /\ Cardinality(met) \in Nat
               /\ ProxyChain(voters, x) = [i \in 1 .. Cardinality(met) |-> Climbing(voters, x)[i - 1]]
               /\ Len(ProxyChain(voters, x)) = Cardinality(met)
<1> DEFINE most == Cardinality(DOMAIN voters)
           met == {n \in 0 .. most : Climbing(voters, x)[n] # Nobody}
           length == Cardinality(met)
           chain == [i \in 1 .. length |-> Climbing(voters, x)[i - 1]]
<1>1. most \in Nat
    BY FS_CardinalityType
<1>2. IsFiniteSet(0 .. most)
    BY <1>1, FS_Interval
<1>3. length \in Nat
  <2>1. met \subseteq 0 .. most
      OBVIOUS
  <2> HIDE DEF met
  <2> QED BY <1>2, <2>1, FS_Subset, FS_CardinalityType
<1>4. ProxyChain(voters, x) = chain
    BY Zenon DEF ProxyChain, Climbing, Climbs
<1>5. Len(chain) = length
  <2> DEFINE up == Climbing(voters, x)
  <2>1. chain = [i \in 1 .. length |-> up[i - 1]]
      OBVIOUS
  <2> HIDE DEF length, up, chain
  <2> QED BY <1>3, <2>1
<1> QED
  <2> HIDE DEF chain, length
  <2> QED BY <1>3, <1>4, <1>5 DEF chain, length

\* The climb stays among the voters until it meets nobody, and comes down in rank.
LEMMA ClimbingRank ==
    ASSUME NEW e, Proxies(e), Nobody \notin Users, NEW x \in DOMAIN e.voters,
           NEW rank \in [DOMAIN e.voters -> Nat], Ranked(e.voters, rank)
    PROVE  LET up == Climbing(e.voters, x)
           IN  /\ \A n \in Nat : up[n] \in DOMAIN e.voters \cup {Nobody}
               /\ \A i, j \in Nat : i < j /\ up[j] # Nobody =>
                      up[i] # Nobody /\ rank[up[j]] < rank[up[i]]
<1> DEFINE up == Climbing(e.voters, x)
<1>0. /\ Nobody \notin DOMAIN e.voters
      /\ \A y \in DOMAIN e.voters : e.voters[y].proxy \in DOMAIN e.voters \cup {Nobody}
    BY DEF Proxies, ElectShaped
<1>1. up[0] = x /\ \A n \in Nat : n # 0 => up[n] = Following(e.voters, up[n - 1])
    BY ClimbingRecursion
<1> HIDE DEF up
<1>2. \A n \in Nat : up[n] \in DOMAIN e.voters \cup {Nobody}
  <2> DEFINE Bad == {n \in Nat : up[n] \notin DOMAIN e.voters \cup {Nobody}}
  <2> SUFFICES ASSUME Bad # {} PROVE FALSE
      OBVIOUS
  <2>1. PICK b \in Bad : \A k \in Bad : b =< k
      BY NatMin
  <2>2. b # 0
      BY <1>1, <2>1
  <2>3. b - 1 \in Nat /\ b - 1 \notin Bad
      BY <2>1, <2>2
  <2>4. up[b - 1] \in DOMAIN e.voters \cup {Nobody}
      BY <2>3
  <2>5. up[b] = Following(e.voters, up[b - 1])
      BY <1>1, <2>1, <2>2
  <2> QED BY <1>0, <2>1, <2>4, <2>5 DEF Following
<1>3. ASSUME NEW n \in Nat, n # 0, up[n] # Nobody
      PROVE  up[n - 1] # Nobody /\ rank[up[n]] < rank[up[n - 1]]
  <2>1. up[n] = Following(e.voters, up[n - 1]) /\ n - 1 \in Nat
      BY <1>1, <1>3
  <2>2. up[n - 1] # Nobody /\ up[n] = e.voters[up[n - 1]].proxy
      BY <1>3, <2>1 DEF Following
  <2>3. up[n - 1] \in DOMAIN e.voters
      BY <1>2, <2>1, <2>2
  <2> QED BY <1>3, <2>2, <2>3 DEF Ranked
<1>4. ASSUME NEW i \in Nat, NEW j \in Nat, i < j, up[j] # Nobody
      PROVE  up[i] # Nobody /\ rank[up[j]] < rank[up[i]]
  <2> DEFINE Bad == {k \in Nat : i < k /\ up[k] # Nobody
                                 /\ ~ (up[i] # Nobody /\ rank[up[k]] < rank[up[i]])}
  <2> SUFFICES ASSUME Bad # {} PROVE FALSE
      BY <1>4
  <2>1. PICK b \in Bad : \A k \in Bad : b =< k
      BY NatMin
  <2>2. b # 0 /\ b \in Nat /\ up[b] # Nobody /\ i < b
      BY <2>1
  <2>3. up[b - 1] # Nobody /\ rank[up[b]] < rank[up[b - 1]]
      BY <1>3, <2>2
  <2>4. b - 1 \in Nat /\ b - 1 \notin Bad
      BY <2>1, <2>2
  <2>5. b - 1 # i
      BY <2>1, <2>2, <2>3
  <2>6. i < b - 1
      BY <2>2, <2>5
  <2>7. up[i] # Nobody /\ rank[up[b - 1]] < rank[up[i]]
      BY <2>3, <2>4, <2>6
  <2>8. /\ up[b] \in DOMAIN e.voters /\ up[b - 1] \in DOMAIN e.voters /\ up[i] \in DOMAIN e.voters
      BY <1>2, <2>2, <2>3, <2>4, <2>7
  <2>9. rank[up[b]] \in Nat /\ rank[up[b - 1]] \in Nat /\ rank[up[i]] \in Nat
      BY <2>8
  <2>10. rank[up[b]] < rank[up[i]]
      BY <2>3, <2>7, <2>9
  <2> QED BY <2>1, <2>7, <2>10
<1> QED BY <1>2, <1>4 DEF up

\* So it ends: with somebody who follows nobody, after no one twice.
LEMMA ChainIs ==
    ASSUME NEW e, Proxies(e), Nobody \notin Users, NEW x \in DOMAIN e.voters
    PROVE  LET chain == ProxyChain(e.voters, x)
           IN  /\ Len(chain) \in Nat \ {0}
               /\ chain[1] = x
               /\ \A i \in 1 .. Len(chain) : chain[i] \in DOMAIN e.voters
               /\ \A i \in 1 .. Len(chain) - 1 : e.voters[chain[i]].proxy = chain[i + 1]
               /\ e.voters[chain[Len(chain)]].proxy = Nobody
               /\ \A i, j \in 1 .. Len(chain) : i # j => chain[i] # chain[j]
<1> DEFINE voters == e.voters
           up == Climbing(voters, x)
           most == Cardinality(DOMAIN voters)
           met == {n \in 0 .. most : up[n] # Nobody}
<1>0. IsFiniteSet(DOMAIN voters) /\ most \in Nat /\ Nobody \notin DOMAIN voters
    BY FS_CardinalityType DEF Proxies, ElectShaped
<1>1. PICK rank \in [DOMAIN voters -> Nat] : Ranked(voters, rank)
    BY DEF Proxies
<1>2. /\ \A n \in Nat : up[n] \in DOMAIN voters \cup {Nobody}
      /\ \A i, j \in Nat : i < j /\ up[j] # Nobody => up[i] # Nobody /\ rank[up[j]] < rank[up[i]]
    BY <1>1, ClimbingRank
<1>3. up[0] = x /\ \A n \in Nat : n # 0 => up[n] = Following(voters, up[n - 1])
    BY ClimbingRecursion
<1>4. /\ Cardinality(met) \in Nat
      /\ ProxyChain(voters, x) = [i \in 1 .. Cardinality(met) |-> up[i - 1]]
      /\ Len(ProxyChain(voters, x)) = Cardinality(met)
    BY <1>0, ChainLength, SMTT(60)
<1> HIDE DEF up
<1>5. ASSUME NEW i \in Nat, NEW j \in Nat, i < j, up[j] # Nobody
      PROVE  up[i] # up[j]
  <2>1. up[i] # Nobody /\ rank[up[j]] < rank[up[i]]
      BY <1>2, <1>5
  <2>2. up[i] \in DOMAIN voters /\ rank[up[i]] \in Nat
      BY <1>2, <2>1
  <2> QED BY <2>1, <2>2
<1> HIDE DEF most
<1>6. \E n \in 0 .. most : up[n] = Nobody
  <2> SUFFICES ASSUME \A n \in 0 .. most : up[n] # Nobody PROVE FALSE
      OBVIOUS
  <2> DEFINE f == [n \in 0 .. most |-> up[n]]
  <2>1. f \in [0 .. most -> DOMAIN voters]
      BY <1>0, <1>2
  <2>2. IsFiniteSet(0 .. most) /\ Cardinality(0 .. most) = most + 1
      BY <1>0, FS_Interval
  <2>3. Cardinality(DOMAIN voters) < Cardinality(0 .. most)
      BY <1>0, <2>2 DEF most
  <2> HIDE DEF f
  <2>4. PICK i, j \in 0 .. most : i # j /\ f[i] = f[j]
      BY <1>0, <2>1, <2>2, <2>3, FS_PigeonHole
  <2>5. up[i] = up[j] /\ i \in Nat /\ j \in Nat
      BY <1>0, <2>4 DEF f
  <2>6. i < j \/ j < i
      BY <2>4, <2>5
  <2> QED BY <1>5, <2>5, <2>6
<1>7. PICK m \in {n \in Nat : up[n] = Nobody} : \A k \in {n \in Nat : up[n] = Nobody} : m =< k
  <2> DEFINE T == {n \in Nat : up[n] = Nobody}
  <2>1. T # {} /\ T \in SUBSET Nat
      BY <1>0, <1>6
  <2> HIDE DEF T
  <2>2. \E n \in T : \A k \in T : n =< k
      BY <2>1, NatMin
  <2> QED BY <2>2 DEF T
<1>8. m \in Nat \ {0} /\ m =< most
  <2>1. m # 0
      BY <1>0, <1>3, <1>7
  <2>2. m =< most
      BY <1>0, <1>6, <1>7
  <2> QED BY <1>7, <2>1, <2>2
<1>9. \A n \in Nat : n < m <=> up[n] # Nobody
  <2>1. \A n \in Nat : n < m => up[n] # Nobody
      BY <1>7, <1>8
  <2>2. \A n \in Nat : m < n => up[n] = Nobody
      BY <1>2, <1>7, <1>8
  <2> QED BY <1>7, <1>8, <2>1, <2>2
<1>10. Cardinality(met) = m
  <2>1. met = 0 .. m - 1
      BY <1>0, <1>8, <1>9
  <2>2. m - 1 \in Nat
      BY <1>8
  <2>3. Cardinality(0 .. m - 1) = m
      BY <1>8, <2>2, FS_Interval
  <2> HIDE DEF met
  <2> QED BY <2>1, <2>3
<1> DEFINE chain == ProxyChain(voters, x)
<1>11. Len(chain) = m /\ \A i \in 1 .. m : chain[i] = up[i - 1]
    BY <1>4, <1>8, <1>10
<1> HIDE DEF chain
<1>12. \A i \in 1 .. m : chain[i] \in DOMAIN voters
  <2> SUFFICES ASSUME NEW i \in 1 .. m PROVE chain[i] \in DOMAIN voters
      OBVIOUS
  <2>1. i - 1 \in Nat /\ i - 1 < m
      BY <1>8
  <2>2. up[i - 1] # Nobody /\ up[i - 1] \in DOMAIN voters \cup {Nobody}
      BY <1>2, <1>9, <2>1
  <2> QED BY <1>11, <2>2
<1>13. \A i \in 1 .. m : voters[chain[i]].proxy = up[i]
  <2> SUFFICES ASSUME NEW i \in 1 .. m PROVE voters[chain[i]].proxy = up[i]
      OBVIOUS
  <2>1. i \in Nat /\ i # 0 /\ up[i] = Following(voters, up[i - 1]) /\ i - 1 \in Nat /\ i - 1 < m
      BY <1>3, <1>8
  <2> QED BY <1>9, <1>11, <2>1 DEF Following
<1>14. voters[chain[m]].proxy = Nobody
    BY <1>7, <1>8, <1>13
<1>15. \A i, j \in 1 .. m : i # j => chain[i] # chain[j]
  <2> SUFFICES ASSUME NEW i \in 1 .. m, NEW j \in 1 .. m, i # j PROVE chain[i] # chain[j]
      OBVIOUS
  <2>1. /\ i - 1 \in Nat /\ j - 1 \in Nat /\ (i - 1 < j - 1 \/ j - 1 < i - 1)
        /\ up[i - 1] # Nobody /\ up[j - 1] # Nobody
      BY <1>8, <1>9
  <2> QED BY <1>5, <1>11, <2>1
<1>16. \A i \in 1 .. m - 1 : voters[chain[i]].proxy = chain[i + 1]
    BY <1>8, <1>11, <1>13
<1>17. chain[1] = x
    BY <1>3, <1>8, <1>11
<1> QED BY <1>8, <1>11, <1>12, <1>14, <1>15, <1>16, <1>17 DEF chain

-----------------------------------------------------------------------------
(* What votes do with rows.                                                *)

\* propagate_weight_change changes weights.
LEMMA PropagateReweighs ==
    ASSUME NEW e, ElectShaped(e), NEW x, NEW ct
    PROVE  Reweighed(e, propagate_weight_change(e, x, ct))
<1> DEFINE chain == ProxyChain(e.voters, x)
           it == Propagating(e, chain, ct)
           Bad == {n \in Nat : ~ Reweighed(e, it[n].e)}
<1>1. Len(chain) \in Nat
    BY ChainLength DEF ElectShaped
<1>2. propagate_weight_change(e, x, ct) = it[Len(chain)].e
    BY Zenon DEF propagate_weight_change, Propagating, Propagates
<1> HIDE DEF chain
<1>3. it[0] = [e |-> e, on |-> TRUE]
    BY PropagatingRecursion
<1>4. \A n \in Nat : n # 0 => it[n] = PropagateLink(it[n - 1], chain[n], ct)
    BY PropagatingRecursion
<1> HIDE DEF it
<1>5. ASSUME Bad # {} PROVE FALSE
  <2>1. PICK b \in Bad : \A k \in Bad : b =< k
      BY <1>5, NatMin
  <2>2. b # 0
      BY <1>3, <2>1, ReweighedReflexive
  <2>3. b - 1 \in Nat /\ b - 1 \notin Bad
      BY <2>1, <2>2
  <2>4. Reweighed(e, it[b - 1].e)
      BY <2>3
  <2>5. Reweighed(e, PropagateLink(it[b - 1], chain[b], ct).e)
      BY <2>4, PropagateLinkReweighs
  <2> QED BY <1>4, <2>1, <2>2, <2>5
<1> QED BY <1>1, <1>2, <1>5

\* So do leaving a proxy and joining one.
LEMMA AddProxiedReweighs ==
    ASSUME NEW e, ElectShaped(e), NEW y, NEW weight, NEW ct
    PROVE  Reweighed(e, AddProxied(e, y, weight, ct))
<1> DEFINE f == [e EXCEPT !.voters[y].proxied_vote_weight = @ + weight]
<1>1. Reweighed(e, f)
    BY WeightPut
<1> HIDE DEF f
<1>2. Reweighed(f, propagate_weight_change(f, y, ct))
    BY <1>1, ReweighedProxies, PropagateReweighs
<1>3. AddProxied(e, y, weight, ct) = propagate_weight_change(f, y, ct)
    BY DEF AddProxied, f
<1> QED BY <1>1, <1>2, <1>3, ReweighedTransitive

\* The helpers of a vote before its row is written.
LEMMA VoteHelpersReweigh ==
    ASSUME NEW e, ElectShaped(e), NEW x, NEW voter, NEW proxy, NEW weight, NEW ct
    PROVE  /\ Reweighed(e, ActivateStake(e, x, ct))
           /\ Reweighed(e, LeaveProxy(e, voter, ct))
           /\ Reweighed(e, JoinProxy(e, proxy, weight, ct))
<1>1. Reweighed(e, ActivateStake(e, x, ct))
  <2> DEFINE activated == e.total_activated_stake + e.voters[x].staked
             at == IF activated >= MinActivatedStake THEN ct ELSE e.thresh_activated_stake_time
             f == [e EXCEPT !.total_activated_stake = activated, !.thresh_activated_stake_time = at]
  <2>1. ActivateStake(e, x, ct) \in {e, f}
      BY DEF ActivateStake
  <2>2. Reweighed(e, f)
    <3> HIDE DEF activated, at
    <3> QED BY DEF ElectShaped, Reweighed, SameVoter, ElectionFields
  <2> QED BY <2>1, <2>2, ReweighedReflexive
<1>2. \A y, d : Reweighed(e, AddProxied(e, y, d, ct)) /\ Reweighed(e, e)
    BY AddProxiedReweighs, ReweighedReflexive
<1> QED BY <1>1, <1>2, Zenon DEF LeaveProxy, JoinProxy

\* A row of x that chooses no other proxy, none, or one that follows nobody.
MayChoose(e, x, row) ==
    /\ DOMAIN row = VoterFields
    /\ row.is_proxy => row.proxy = Nobody
    /\ \/ row.proxy \in {Nobody, VoterRow(e, x).proxy}
       \/ /\ row.proxy \in DOMAIN e.voters \ {x} /\ e.voters[row.proxy].proxy = Nobody

\* It can be ranked.
LEMMA RowPutProxies ==
    ASSUME NEW e, Proxies(e), Nobody \notin Users, NEW x \in Users, NEW row, MayChoose(e, x, row)
    PROVE  Proxies([e EXCEPT !.voters = Put(@, x, row)])
<1> DEFINE t == e.voters
           s == Put(t, x, row)
           f == [e EXCEPT !.voters = s]
<1>1. /\ ElectShaped(e) /\ IsFiniteSet(DOMAIN t) /\ DOMAIN t \subseteq Users /\ Nobody \notin DOMAIN t
      /\ \A y \in DOMAIN t : DOMAIN t[y] = VoterFields
      /\ \A y \in DOMAIN t : t[y].proxy \in DOMAIN t \cup {Nobody} /\ (t[y].is_proxy => t[y].proxy = Nobody)
    BY DEF Proxies, ElectShaped
<1>2. /\ DOMAIN s = DOMAIN t \cup {x} /\ s[x] = row /\ \A y \in DOMAIN t \ {x} : s[y] = t[y]
      /\ IsFiniteSet(DOMAIN s)
    BY <1>1, FS_AddElement DEF Put
<1>3. DOMAIN f = ElectionFields /\ f.voters = s
    BY <1>1 DEF ElectShaped, ElectionFields
<1> HIDE DEF s, f
<1>4. VoterRow(e, x).proxy = IF x \in DOMAIN t THEN t[x].proxy ELSE Nobody
    BY DEF VoterRow, NewVoter
<1>5. ElectShaped(f)
    BY <1>1, <1>2, <1>3 DEF ElectShaped, MayChoose
<1>6. \A y \in DOMAIN s : s[y].proxy \in DOMAIN s \cup {Nobody} /\ (s[y].is_proxy => s[y].proxy = Nobody)
    BY <1>1, <1>2, <1>4 DEF MayChoose
<1>7. PICK rank \in [DOMAIN t -> Nat] : Ranked(t, rank)
    BY DEF Proxies
<1>8. \E up \in [DOMAIN s -> Nat] : Ranked(s, up)
  <2>1. CASE row.proxy \in {Nobody, VoterRow(e, x).proxy}
    <3> DEFINE up == [y \in DOMAIN s |-> IF y \in DOMAIN t THEN rank[y] ELSE 0]
    <3>1. up \in [DOMAIN s -> Nat]
        OBVIOUS
    <3>2. Ranked(s, up)
      <4> SUFFICES ASSUME NEW y \in DOMAIN s, s[y].proxy # Nobody
                   PROVE  up[s[y].proxy] < up[y]
          BY DEF Ranked
      <4>1. y \in DOMAIN t /\ s[y].proxy = t[y].proxy
          BY <1>2, <1>4, <2>1
      <4>2. t[y].proxy \in DOMAIN t
          BY <1>1, <4>1
      <4> QED BY <1>2, <1>7, <4>1, <4>2 DEF Ranked
    <3> QED BY <3>1, <3>2
  <2>2. CASE row.proxy \in DOMAIN t \ {x} /\ t[row.proxy].proxy = Nobody
    <3> DEFINE q == row.proxy
               up == [y \in DOMAIN s |-> IF y = q THEN 0 ELSE IF y \in DOMAIN t THEN rank[y] + 1 ELSE 1]
    <3>1. up \in [DOMAIN s -> Nat]
        OBVIOUS
    <3>2. Ranked(s, up)
      <4> SUFFICES ASSUME NEW y \in DOMAIN s, s[y].proxy # Nobody
                   PROVE  up[s[y].proxy] < up[y]
          BY DEF Ranked
      <4>1. y # q
          BY <1>2, <2>2
      <4>2. up[y] \in Nat \ {0}
          BY <1>7, <4>1
      <4>3. CASE s[y].proxy = q
          BY <1>2, <2>2, <4>2, <4>3
      <4>4. CASE s[y].proxy # q
        <5>1. y # x /\ y \in DOMAIN t /\ s[y] = t[y]
            BY <1>2, <4>4
        <5>2. t[y].proxy \in DOMAIN t /\ rank[t[y].proxy] < rank[y]
            BY <1>1, <1>7, <5>1 DEF Ranked
        <5>3. up[t[y].proxy] = rank[t[y].proxy] + 1 /\ up[y] = rank[y] + 1
            BY <1>2, <4>1, <4>4, <5>1, <5>2
        <5>4. rank[t[y].proxy] \in Nat /\ rank[y] \in Nat
            BY <1>7, <5>1, <5>2
        <5> QED BY <5>1, <5>2, <5>3, <5>4
      <4> QED BY <4>3, <4>4
    <3> QED BY <3>1, <3>2
  <2> QED BY <2>1, <2>2 DEF MayChoose
<1>9. Proxies(f)
    BY <1>3, <1>5, <1>6, <1>8 DEF Proxies
<1> QED BY <1>9 DEF f, s

\* Who has eosio manage what.
SameManaged(e, f) == \A x : Managed(f, x) = Managed(e, x)

\* Weights do not change it, nor does a row that has it.
LEMMA ManagedKept ==
    ASSUME NEW e
    PROVE  /\ \A f : Reweighed(e, f) => SameManaged(e, f)
           /\ \A f, g : SameManaged(e, f) /\ SameManaged(f, g) => SameManaged(e, g)
           /\ \A f, x, row : /\ f.voters = Put(e.voters, x, row)
                            /\ row.managed = Managed(e, x)
                            => SameManaged(e, f)
           /\ \A f : f.voters = e.voters => SameManaged(e, f)
<1>1. ASSUME NEW f, Reweighed(e, f) PROVE SameManaged(e, f)
    BY <1>1 DEF Reweighed, SameVoter, SameManaged, Managed
<1>2. ASSUME NEW f, NEW x, NEW row, f.voters = Put(e.voters, x, row), row.managed = Managed(e, x)
      PROVE  SameManaged(e, f)
    BY <1>2 DEF SameManaged, Managed, Put
<1> QED BY <1>1, <1>2, Zenon DEF SameManaged, Managed

\* A row of voters that is modified is a row put.
LEMMA RowModified ==
    ASSUME NEW e, ElectShaped(e), NEW x \in DOMAIN e.voters, NEW row
    PROVE  [e EXCEPT !.voters[x] = row] = [e EXCEPT !.voters = Put(@, x, row)]
<1>1. [e.voters EXCEPT ![x] = row] = Put(e.voters, x, row)
    BY DEF Put
<1> QED BY <1>1 DEF ElectShaped, ElectionFields

\* The row of x after a vote, and the election with it.
CastRow(row, weight, proxy, producers) ==
    [row EXCEPT !.last_vote_weight = weight, !.producers = producers, !.proxy = proxy]

CastOn(e, x, weight, proxy, producers) ==
    [e EXCEPT !.voters = Put(@, x, CastRow(e.voters[x], weight, proxy, producers))]

\* A vote changes weights, and then the choice in its voter's row.
LEMMA VoteIsCast ==
    ASSUME NEW e, ElectShaped(e), NEW x \in DOMAIN e.voters, NEW proxy, NEW producers, NEW ct
    PROVE  \E g, weight :
               /\ Reweighed(e, g)
               /\ update_votes(e, x, proxy, producers, ct) = CastOn(g, x, weight, proxy, producers)
<1> DEFINE voter == e.voters[x]
           weight == VoteWeight(voter, ct)
           e1 == ActivateStake(e, x, ct)
           e2 == LeaveProxy(e1, voter, ct)
           e3 == JoinProxy(e2, proxy, weight, ct)
           delta == VoteChanges(OldVotes(voter), voter.last_vote_weight,
                                IF weight >= 0 THEN producers ELSE {}, weight)
           g == ChangeVotes(e3, ct, delta, TRUE)
           row == CastRow(g.voters[x], weight, proxy, producers)
<1>1. update_votes(e, x, proxy, producers, ct) = [g EXCEPT !.voters[x] = row]
    BY Zenon DEF update_votes, CastVote, CastRow
<1> HIDE DEF weight, voter
<1>2. Reweighed(e, e1)
    BY VoteHelpersReweigh
<1> HIDE DEF e1
<1>3. Reweighed(e1, e2)
    BY <1>2, ReweighedProxies, VoteHelpersReweigh
<1> HIDE DEF e2
<1>4. Reweighed(e2, e3)
    BY <1>2, <1>3, ReweighedProxies, VoteHelpersReweigh
<1> HIDE DEF e3, delta
<1>5. Reweighed(e3, g)
  <2> DEFINE yes == TRUE
  <2> HIDE DEF yes
  <2>1. Reweighed(e3, ChangeVotes(e3, ct, delta, yes))
      BY <1>2, <1>3, <1>4, ReweighedProxies, ChangeVotesReweighs
  <2> QED BY <2>1 DEF yes
<1> HIDE DEF g
<1>6. Reweighed(e, g)
    BY <1>2, <1>3, <1>4, <1>5, ReweighedTransitive
<1>7. ElectShaped(g) /\ x \in DOMAIN g.voters
    BY <1>6, ReweighedProxies DEF Reweighed
<1> HIDE DEF row
<1>8. [g EXCEPT !.voters[x] = row] = [g EXCEPT !.voters = Put(@, x, row)]
    BY <1>7, RowModified
<1> QED BY <1>1, <1>6, <1>8 DEF row, CastOn

\* A proxy that x may choose.
Choosable(e, x, proxy) ==
    \/ proxy \in {Nobody, e.voters[x].proxy}
    \/ /\ proxy \in DOMAIN e.voters \ {x} /\ e.voters[proxy].is_proxy /\ ~ e.voters[x].is_proxy

\* A vote for it keeps the ranks.
LEMMA UpdateVotesProxies ==
    ASSUME NEW e, Proxies(e), Nobody \notin Users, NEW x \in DOMAIN e.voters,
           NEW proxy, Choosable(e, x, proxy), NEW producers, NEW ct
    PROVE  /\ Proxies(update_votes(e, x, proxy, producers, ct))
           /\ SameManaged(e, update_votes(e, x, proxy, producers, ct))
<1>1. ElectShaped(e) /\ x \in Users
    BY DEF Proxies, ElectShaped
<1>2. PICK g, weight :
          /\ Reweighed(e, g)
          /\ update_votes(e, x, proxy, producers, ct) = CastOn(g, x, weight, proxy, producers)
    BY <1>1, VoteIsCast
<1> DEFINE row == CastRow(g.voters[x], weight, proxy, producers)
<1>3. Proxies(g) /\ ElectShaped(g)
    BY <1>2, ReweighedProxies DEF Proxies
<1>4. /\ DOMAIN row = VoterFields /\ row.proxy = proxy /\ row.is_proxy = e.voters[x].is_proxy
      /\ x \in DOMAIN g.voters /\ row.managed = Managed(g, x)
    BY <1>1, <1>2 DEF Reweighed, SameVoter, ElectShaped, VoterFields, CastRow, Managed
<1> HIDE DEF row
<1>5. VoterRow(g, x).proxy = e.voters[x].proxy
    BY <1>2, <1>4 DEF VoterRow, Reweighed, SameVoter
<1>6. \A y \in DOMAIN e.voters : /\ y \in DOMAIN g.voters /\ g.voters[y].proxy = e.voters[y].proxy
                                 /\ e.voters[y].is_proxy => e.voters[y].proxy = Nobody
    BY <1>2 DEF Reweighed, SameVoter, Proxies
<1>7. MayChoose(g, x, row)
    BY <1>4, <1>5, <1>6 DEF MayChoose, Choosable
<1> DEFINE f == [g EXCEPT !.voters = Put(@, x, row)]
<1>8. Proxies(f)
    BY <1>1, <1>3, <1>7, RowPutProxies
<1>9. f.voters = Put(g.voters, x, row)
    BY <1>3 DEF ElectShaped, ElectionFields
<1>10. update_votes(e, x, proxy, producers, ct) = f
    BY <1>2 DEF row, CastOn
<1> HIDE DEF f
<1>11. SameManaged(e, g) /\ SameManaged(g, f)
    BY <1>2, <1>4, <1>9, ManagedKept
<1> QED BY <1>8, <1>10, <1>11, ManagedKept

\* A row of x as it is but for what x has staked.
LEMMA RowKept ==
    ASSUME NEW e, Proxies(e), Nobody \notin Users, NEW x \in Users
    PROVE  /\ DOMAIN VoterRow(e, x) = VoterFields
           /\ \A stake :
                  LET f == [e EXCEPT !.voters = Put(@, x, [VoterRow(e, x) EXCEPT !.staked = stake])]
                  IN  /\ Proxies(f) /\ x \in DOMAIN f.voters /\ SameManaged(e, f)
                      /\ f.voters[x] = [VoterRow(e, x) EXCEPT !.staked = stake]
<1> DEFINE row == VoterRow(e, x)
<1>1. /\ DOMAIN row = VoterFields /\ row.managed = Managed(e, x)
      /\ row.is_proxy => row.proxy = Nobody
    BY DEF VoterRow, NewVoter, VoterFields, Proxies, ElectShaped, Managed
<1>2. ASSUME NEW stake
      PROVE  LET f == [e EXCEPT !.voters = Put(@, x, [VoterRow(e, x) EXCEPT !.staked = stake])]
             IN  /\ Proxies(f) /\ x \in DOMAIN f.voters /\ SameManaged(e, f)
                 /\ f.voters[x] = [VoterRow(e, x) EXCEPT !.staked = stake]
  <2> DEFINE new == [row EXCEPT !.staked = stake]
             f == [e EXCEPT !.voters = Put(@, x, new)]
  <2>1. MayChoose(e, x, new) /\ new.managed = Managed(e, x)
    <3> HIDE DEF row
    <3>1. /\ DOMAIN new = VoterFields /\ new.staked = stake /\ new.proxy = row.proxy
          /\ new.is_proxy = row.is_proxy /\ new.managed = row.managed
        BY <1>1 DEF VoterFields
    <3> HIDE DEF new
    <3> QED BY <1>1, <3>1 DEF MayChoose, row
  <2> HIDE DEF new
  <2>2. Proxies(f)
      BY <2>1, RowPutProxies
  <2>3. f.voters = Put(e.voters, x, new)
      BY DEF Proxies, ElectShaped, ElectionFields
  <2>4. x \in DOMAIN f.voters /\ f.voters[x] = new
      BY <2>3 DEF Put
  <2>5. SameManaged(e, f)
      BY <2>1, <2>3, ManagedKept
  <2> QED BY <2>2, <2>4, <2>5 DEF new
<1> QED BY <1>1, <1>2

\* Or what of its resources is managed.
LEMMA RowManaged ==
    ASSUME NEW e, Proxies(e), Nobody \notin Users, NEW x \in Users, NEW managed,
           NEW new, new = [VoterRow(e, x) EXCEPT !.managed = managed],
           NEW f, f = [e EXCEPT !.voters = Put(@, x, new)]
    PROVE  Proxies(f) /\ \A y : Managed(f, y) = IF y = x THEN managed ELSE Managed(e, y)
<1> DEFINE row == VoterRow(e, x)
<1>1. DOMAIN row = VoterFields /\ (row.is_proxy => row.proxy = Nobody)
    BY DEF VoterRow, NewVoter, VoterFields, Proxies, ElectShaped
<1>2. MayChoose(e, x, new) /\ new.managed = managed
  <2>1. new = [row EXCEPT !.managed = managed]
      OBVIOUS
  <2> HIDE DEF row
  <2>2. /\ DOMAIN new = VoterFields /\ new.staked = row.staked /\ new.proxy = row.proxy
        /\ new.is_proxy = row.is_proxy /\ new.managed = managed
      BY <1>1, <2>1 DEF VoterFields
  <2> QED BY <1>1, <2>2 DEF MayChoose, row
<1>3. Proxies(f)
    BY <1>2, RowPutProxies
<1>4. f.voters = Put(e.voters, x, new)
    BY DEF Proxies, ElectShaped, ElectionFields
<1>5. \A y : Managed(f, y) = IF y = x THEN managed ELSE Managed(e, y)
    BY <1>2, <1>4 DEF Managed, Put
<1> QED BY <1>3, <1>5

\* Casting a vote again keeps the ranks.
LEMMA RecastProxies ==
    ASSUME NEW e, Proxies(e), Nobody \notin Users, NEW x \in Users, NEW stake, NEW ct
    PROVE  Proxies(Recast(e, x, stake, ct)) /\ SameManaged(e, Recast(e, x, stake, ct))
<1> DEFINE row == VoterRow(e, x)
           new == [row EXCEPT !.staked = stake]
           f == [e EXCEPT !.voters = Put(@, x, new)]
<1>1. /\ Proxies(f) /\ x \in DOMAIN f.voters /\ f.voters[x] = new /\ DOMAIN row = VoterFields
      /\ SameManaged(e, f)
    BY RowKept
<1>2. Recast(e, x, stake, ct) = VoteAgain(f, x, row, ct)
    BY DEF Recast
<1> HIDE DEF f, row
<1>3. f.voters[x].proxy = row.proxy
    BY <1>1 DEF VoterFields
<1> DEFINE g == update_votes(f, x, row.proxy, row.producers, ct)
<1>4. Proxies(g) /\ SameManaged(f, g)
    BY <1>1, <1>3, UpdateVotesProxies DEF Choosable
<1>5. Recast(e, x, stake, ct) \in {f, g}
    BY <1>2, Zenon DEF VoteAgain
<1> HIDE DEF g
<1>6. SameManaged(e, g)
    BY <1>1, <1>4, ManagedKept
<1> QED BY <1>1, <1>4, <1>5, <1>6

\* So does becoming a proxy or ceasing to be one.
LEMMA RegProxyProxies ==
    ASSUME NEW e, Proxies(e), Nobody \notin Users, NEW x \in Users, NEW isproxy \in BOOLEAN,
           CanRegProxy(e, x, isproxy), NEW ct
    PROVE  Proxies(regproxy(e, x, isproxy, ct)) /\ SameManaged(e, regproxy(e, x, isproxy, ct))
<1>0. ElectShaped(e)
    BY DEF Proxies
<1>1. CASE x \in DOMAIN e.voters
  <2> DEFINE row == [e.voters[x] EXCEPT !.is_proxy = isproxy]
             f == [e EXCEPT !.voters = Put(@, x, row)]
  <2>1. /\ DOMAIN e.voters[x] = VoterFields
        /\ isproxy => e.voters[x].proxy = Nobody
        /\ VoterRow(e, x).proxy = e.voters[x].proxy
      BY <1>0, <1>1 DEF ElectShaped, CanRegProxy, VoterRow
  <2>2. /\ DOMAIN row = VoterFields /\ row.proxy = e.voters[x].proxy
        /\ row.is_proxy = isproxy /\ row.managed = Managed(e, x)
      BY <1>1, <2>1 DEF VoterFields, Managed
  <2>3. [e EXCEPT !.voters[x].is_proxy = isproxy] = [e EXCEPT !.voters[x] = row]
      OBVIOUS
  <2> HIDE DEF row
  <2>4. MayChoose(e, x, row)
      BY <2>1, <2>2 DEF MayChoose
  <2>5. Proxies(f)
      BY <2>4, RowPutProxies
  <2>6. [e EXCEPT !.voters[x] = row] = f
      BY <1>0, <1>1, RowModified
  <2>m. f.voters = Put(e.voters, x, row)
      BY <1>0 DEF ElectShaped, ElectionFields
  <2>7. regproxy(e, x, isproxy, ct) = propagate_weight_change(f, x, ct)
    <3>1. regproxy(e, x, isproxy, ct)
            = propagate_weight_change([e EXCEPT !.voters[x].is_proxy = isproxy], x, ct)
        BY <1>1, Zenon DEF regproxy
    <3> QED BY <2>3, <2>6, <3>1
  <2> HIDE DEF f
  <2>n. SameManaged(e, f)
      BY <2>2, <2>m, ManagedKept
  <2>8. Reweighed(f, propagate_weight_change(f, x, ct))
      BY <2>5, PropagateReweighs DEF Proxies
  <2> DEFINE g == propagate_weight_change(f, x, ct)
  <2> HIDE DEF g
  <2>9. Proxies(g) /\ SameManaged(f, g)
      BY <2>5, <2>8, ReweighedProxies, ManagedKept DEF g
  <2>10. SameManaged(e, g)
      BY <2>n, <2>9, ManagedKept
  <2> QED BY <2>7, <2>9, <2>10 DEF g
<1>2. CASE x \notin DOMAIN e.voters
  <2> DEFINE row == [NewVoter EXCEPT !.is_proxy = isproxy]
             f == [e EXCEPT !.voters = Put(@, x, row)]
  <2>1. MayChoose(e, x, row) /\ row.managed = {}
      BY DEF MayChoose, NewVoter, VoterFields
  <2> HIDE DEF row
  <2>2. Proxies(f)
      BY <2>1, RowPutProxies
  <2>3. regproxy(e, x, isproxy, ct) = f
      BY <1>2, Zenon DEF regproxy, row
  <2>4. f.voters = Put(e.voters, x, row) /\ row.managed = Managed(e, x)
      BY <1>0, <1>2, <2>1 DEF ElectShaped, ElectionFields, Managed
  <2> HIDE DEF f
  <2>5. SameManaged(e, f)
      BY <2>4, ManagedKept
  <2> QED BY <2>2, <2>3, <2>5
<1> QED BY <1>1, <1>2

\* Producers that register, are paid or counted leave the voters alone.
LEMMA SameVoters ==
    ASSUME NEW e, Proxies(e), NEW f, DOMAIN f = ElectionFields, f.voters = e.voters
    PROVE  Proxies(f) /\ SameManaged(e, f)
<1>1. Proxies(f)
    BY DEF Proxies, ElectShaped
<1> QED BY <1>1, ManagedKept

-----------------------------------------------------------------------------
(* What accounts may use.                                                  *)

\* A row of resources, or of limits.
ResourceRow(row) == DOMAIN row = RowFields /\ row.net \in Int /\ row.cpu \in Int /\ row.ram \in Int

\* Stakes of integers.
StakeInts(t) ==
    /\ IsFiniteSet(DOMAIN t)
    /\ \A k \in DOMAIN t : {"net", "cpu"} \subseteq DOMAIN t[k] /\ t[k].net \in Int /\ t[k].cpu \in Int

\* Tables of stakes, resources and limits; a name that is none of the users has no resources.
BandwidthShaped(b) ==
    /\ DOMAIN b = BwFields /\ StakeInts(b.delband)
    /\ \A x \in DOMAIN b.userres : /\ ResourceRow(b.userres[x])
                                   /\ x \notin Users => b.userres[x] = NoResources
    /\ \A x \in Users : x \in DOMAIN b.limits /\ ResourceRow(b.limits[x])

\* Limits follow what an account has of its own.
Follows(own, limits, managed) ==
    /\ own.net + own.cpu > 0 =>
           \A resource \in {"net", "cpu"} \ managed : limits[resource] = own[resource]
    /\ "ram" \notin managed /\ own.ram > 0 => limits.ram >= own.ram + ram_gift_bytes

Limited(b, e) ==
    \A x \in Users : x \in DOMAIN b.userres => Follows(b.userres[x], b.limits[x], Managed(e, x))

\* The resources of x are net and cpu less than what it may use.
Lacks(b, r, x, net, cpu) ==
    /\ Usable(b, r, x, "net") = Resources(b, x).net + net
    /\ Usable(b, r, x, "cpu") = Resources(b, x).cpu + cpu

\* Those of nobody else are.
Short(b, r, x, net, cpu) ==
    \A y \in Users : Lacks(b, r, y, IF y = x THEN net ELSE 0, IF y = x THEN cpu ELSE 0)

Resourced(b, r, e) == BandwidthShaped(b) /\ Limited(b, e) /\ \A x \in Users : Lacks(b, r, x, 0, 0)

\* Whatever else changes.
LEMMA ResourcedBeside ==
    ASSUME NEW b, NEW r, NEW e, Resourced(b, r, e),
           NEW c, DOMAIN c = BwFields, c.delband = b.delband, c.userres = b.userres, c.limits = b.limits,
           NEW q, q.loans = r.loans, NEW f, SameManaged(e, f)
    PROVE  Resourced(c, q, f)
<1>1. BandwidthShaped(c)
    BY DEF Resourced, BandwidthShaped
<1>2. Limited(c, f)
    BY DEF Resourced, Limited, SameManaged
<1>3. \A x \in Users : Lacks(c, q, x, 0, 0)
  <2>1. ASSUME NEW x, NEW kind
        PROVE  Usable(c, q, x, kind) = Usable(b, r, x, kind) /\ Resources(c, x) = Resources(b, x)
    <3>1. StakesFor(c, x) = StakesFor(b, x) /\ LoansTo(q, x, kind) = LoansTo(r, x, kind)
        BY DEF StakesFor, LoansTo
    <3> QED BY <3>1, Zenon DEF Usable, Resources
  <2>2. \A x \in Users : Lacks(b, r, x, 0, 0)
      BY DEF Resourced
  <2> QED BY <2>1, <2>2, Zenon DEF Lacks
<1> QED BY <1>1, <1>2, <1>3 DEF Resourced

\* Nobody lacks anything.
LEMMA ResourcedShort ==
    ASSUME NEW b, NEW r, NEW e
    PROVE  Resourced(b, r, e)
             <=> BandwidthShaped(b) /\ Limited(b, e) /\ \A x : Short(b, r, x, 0, 0)
BY DEF Resourced, Short

\* A loan put counts for its receiver instead of the one that was there.
LEMMA LoanPutLent ==
    ASSUME NEW r, IntField(r.loans, "total_staked"), NEW num, NEW loan, loan.total_staked \in Int,
           num \in DOMAIN r.loans => /\ r.loans[num].receiver = loan.receiver
                                     /\ r.loans[num].kind = loan.kind,
           NEW q, q.loans = Put(r.loans, num, loan), NEW x, NEW kind
    PROVE  LET before == Sum(LoansTo(r, x, kind), "total_staked")
               gain == loan.total_staked - FieldAt(r.loans, num, "total_staked")
           IN  /\ before \in Int /\ gain \in Int
               /\ Sum(LoansTo(q, x, kind), "total_staked")
                    = before + (IF x = loan.receiver /\ kind = loan.kind THEN gain ELSE 0)
<1> DEFINE t == LoansTo(r, x, kind)
           u == LoansTo(q, x, kind)
           old == FieldAt(r.loans, num, "total_staked")
<1>1. IntField(t, "total_staked")
  <2>1. DOMAIN t \subseteq DOMAIN r.loans /\ \A n \in DOMAIN t : t[n] = r.loans[n]
      BY DEF LoansTo
  <2> HIDE DEF t
  <2> QED BY <2>1, FS_Subset DEF IntField
<1>2. old \in Int
    BY DEF IntField, FieldAt
<1>3. Sum(t, "total_staked") \in Int
  <2> HIDE DEF t
  <2> QED BY <1>1, FieldSum
<1>4. CASE x = loan.receiver /\ kind = loan.kind
  <2>1. u = Put(t, num, loan)
    <3>1. DOMAIN u = DOMAIN t \cup {num}
        BY <1>4 DEF LoansTo, Put
    <3>2. \A n \in DOMAIN u : u[n] = IF n = num THEN loan ELSE t[n]
        BY <1>4 DEF LoansTo, Put
    <3>3. u = [n \in DOMAIN u |-> u[n]]
        BY DEF LoansTo
    <3> HIDE DEF u, t
    <3> QED BY <3>1, <3>2, <3>3 DEF Put
  <2>2. FieldAt(t, num, "total_staked") = old
      BY <1>4 DEF LoansTo, FieldAt
  <2> HIDE DEF t, u, old
  <2>3. loan["total_staked"] \in Int
      OBVIOUS
  <2>4. Sum(u, "total_staked") = Sum(t, "total_staked") - old + loan.total_staked
      BY <1>1, <2>1, <2>2, <2>3, FieldPut
  <2>5. Sum(u, "total_staked") = Sum(t, "total_staked") + (loan.total_staked - old)
      BY <1>2, <1>3, <2>4
  <2> QED BY <1>2, <1>3, <1>4, <2>5 DEF t, u, old
<1>5. CASE ~ (x = loan.receiver /\ kind = loan.kind)
  <2>1. u = t
    <3>1. DOMAIN u = DOMAIN t
        BY <1>5 DEF LoansTo, Put
    <3>2. \A n \in DOMAIN u : u[n] = t[n]
        BY <1>5 DEF LoansTo, Put
    <3>3. u = [n \in DOMAIN u |-> u[n]] /\ t = [n \in DOMAIN t |-> t[n]]
        BY DEF LoansTo
    <3> HIDE DEF u, t
    <3> QED BY <3>1, <3>2, <3>3
  <2> HIDE DEF t, u, old
  <2>2. Sum(u, "total_staked") = Sum(t, "total_staked") + 0
      BY <1>3, <2>1
  <2> QED BY <1>2, <1>3, <1>5, <2>2 DEF t, u, old
<1> QED BY <1>4, <1>5

\* A loan erased counts no more.
LEMMA LoanEraseLent ==
    ASSUME NEW r, IntField(r.loans, "total_staked"), NEW num \in DOMAIN r.loans,
           NEW q, q.loans = Erase(r.loans, num), NEW x, NEW kind
    PROVE  LET before == Sum(LoansTo(r, x, kind), "total_staked")
               loan == r.loans[num]
           IN  /\ before \in Int /\ loan.total_staked \in Int
               /\ Sum(LoansTo(q, x, kind), "total_staked")
                    = before + (IF x = loan.receiver /\ kind = loan.kind THEN - loan.total_staked ELSE 0)
<1> DEFINE loan == r.loans[num]
           t == LoansTo(r, x, kind)
           u == LoansTo(q, x, kind)
           old == loan.total_staked
<1>1. IntField(t, "total_staked")
  <2>1. DOMAIN t \subseteq DOMAIN r.loans /\ \A n \in DOMAIN t : t[n] = r.loans[n]
      BY DEF LoansTo
  <2> HIDE DEF t
  <2> QED BY <2>1, FS_Subset DEF IntField
<1>2. old \in Int
    BY DEF IntField
<1>3. Sum(t, "total_staked") \in Int
  <2> HIDE DEF t
  <2> QED BY <1>1, FieldSum
<1>t. u = Erase(t, num)
  <2>1. DOMAIN u = DOMAIN t \ {num}
      BY DEF LoansTo, Erase
  <2>2. \A n \in DOMAIN u : u[n] = t[n]
      BY DEF LoansTo, Erase
  <2>3. u = [n \in DOMAIN u |-> u[n]]
      BY DEF LoansTo
  <2> HIDE DEF u, t
  <2> QED BY <2>1, <2>2, <2>3 DEF Erase
<1>4. FieldAt(t, num, "total_staked") = IF x = loan.receiver /\ kind = loan.kind THEN old ELSE 0
    BY DEF LoansTo, FieldAt
<1> HIDE DEF t, u, old
<1>5. Sum(u, "total_staked") = Sum(t, "total_staked") - FieldAt(t, num, "total_staked")
    BY <1>1, <1>t, FieldErase
<1>6. CASE x = loan.receiver /\ kind = loan.kind
  <2>1. Sum(u, "total_staked") = Sum(t, "total_staked") + (- old)
      BY <1>2, <1>3, <1>4, <1>5, <1>6
  <2> QED BY <1>2, <1>3, <1>6, <2>1 DEF t, u, old
<1>7. CASE ~ (x = loan.receiver /\ kind = loan.kind)
  <2>1. Sum(u, "total_staked") = Sum(t, "total_staked") + 0
      BY <1>2, <1>3, <1>4, <1>5, <1>7
  <2> QED BY <1>2, <1>3, <1>7, <2>1 DEF t, u, old
<1> QED BY <1>6, <1>7

\* A stake put, or erased as there is none left, counts for its receiver.
LEMMA StakePutStaked ==
    ASSUME NEW b, StakeInts(b.delband), NEW from, NEW to,
           NEW row, {"net", "cpu"} \subseteq DOMAIN row, row.net \in Int, row.cpu \in Int,
           NEW c, \/ c.delband = Put(b.delband, <<from, to>>, row)
                  \/ row.net = 0 /\ row.cpu = 0 /\ c.delband = Erase(b.delband, <<from, to>>)
    PROVE  /\ StakeInts(c.delband)
           /\ \A x, f : f \in {"net", "cpu"} =>
                  LET before == Sum(StakesFor(b, x), f)
                      gain == row[f] - Delegated(b, from, to)[f]
                  IN  /\ before \in Int /\ gain \in Int
                      /\ Sum(StakesFor(c, x), f) = before + (IF x = to THEN gain ELSE 0)
<1> DEFINE key == <<from, to>>
<1>1. StakeInts(c.delband)
  <2> DEFINE t == b.delband
  <2>1. IsFiniteSet(DOMAIN t) /\ IsFiniteSet(DOMAIN t \cup {key}) /\ IsFiniteSet(DOMAIN t \ {key})
      BY FS_AddElement, FS_RemoveElement DEF StakeInts
  <2>2. \A k \in DOMAIN t : {"net", "cpu"} \subseteq DOMAIN t[k] /\ t[k].net \in Int /\ t[k].cpu \in Int
      BY DEF StakeInts
  <2> HIDE DEF t, key
  <2>3. StakeInts(Put(t, key, row)) /\ StakeInts(Erase(t, key))
    <3>1. StakeInts(Put(t, key, row))
        BY <2>1, <2>2 DEF StakeInts, Put
    <3>2. StakeInts(Erase(t, key))
        BY <2>1, <2>2 DEF StakeInts, Erase
    <3> QED BY <3>1, <3>2
  <2> QED BY <2>3 DEF t, key
<1>2. ASSUME NEW x, NEW f \in {"net", "cpu"}
      PROVE  LET before == Sum(StakesFor(b, x), f)
                 gain == row[f] - Delegated(b, from, to)[f]
             IN  /\ before \in Int /\ gain \in Int
                 /\ Sum(StakesFor(c, x), f) = before + (IF x = to THEN gain ELSE 0)
  <2> DEFINE t == StakesFor(b, x)
             u == StakesFor(c, x)
             old == Delegated(b, from, to)[f]
  <2>1. IntField(t, f)
    <3>1. DOMAIN t \subseteq DOMAIN b.delband /\ \A n \in DOMAIN t : t[n] = b.delband[n]
        BY DEF StakesFor
    <3> HIDE DEF t
    <3> QED BY <3>1, FS_Subset DEF IntField, StakeInts
  <2>2. old \in Int /\ row[f] \in Int
      BY DEF StakeInts, Delegated, NoStake
  <2>3. Sum(t, f) \in Int
    <3> HIDE DEF t
    <3> QED BY <2>1, FieldSum
  <2>4. key[2] = to
      OBVIOUS
  <2>5. ASSUME x = to
        PROVE  /\ FieldAt(t, key, f) = old
               /\ u = Put(t, key, row) \/ (row[f] = 0 /\ u = Erase(t, key))
    <3>1. FieldAt(t, key, f) = old
        BY <2>4, <2>5 DEF StakesFor, FieldAt, Delegated, NoStake
    <3>2. u = [k \in DOMAIN u |-> u[k]]
        BY DEF StakesFor
    <3>3. CASE c.delband = Put(b.delband, key, row)
      <4>1. DOMAIN u = DOMAIN t \cup {key}
          BY <2>4, <2>5, <3>3 DEF StakesFor, Put
      <4>2. \A k \in DOMAIN u : u[k] = IF k = key THEN row ELSE t[k]
          BY <2>4, <2>5, <3>3 DEF StakesFor, Put
      <4> HIDE DEF u, t, key
      <4> QED BY <3>1, <3>2, <4>1, <4>2 DEF Put
    <3>4. CASE row.net = 0 /\ row.cpu = 0 /\ c.delband = Erase(b.delband, key)
      <4>1. DOMAIN u = DOMAIN t \ {key}
          BY <2>4, <2>5, <3>4 DEF StakesFor, Erase
      <4>2. \A k \in DOMAIN u : u[k] = t[k]
          BY <2>4, <2>5, <3>4 DEF StakesFor, Erase
      <4>3. row[f] = 0
          BY <3>4
      <4> HIDE DEF u, t, key
      <4> QED BY <3>1, <3>2, <4>1, <4>2, <4>3 DEF Erase
    <3> QED BY <3>3, <3>4
  <2>6. ASSUME x # to
        PROVE  u = t
    <3>1. DOMAIN u = DOMAIN t
        BY <2>4, <2>6 DEF StakesFor, Put, Erase
    <3>2. \A k \in DOMAIN u : u[k] = t[k]
        BY <2>4, <2>6 DEF StakesFor, Put, Erase
    <3>3. u = [k \in DOMAIN u |-> u[k]] /\ t = [k \in DOMAIN t |-> t[k]]
        BY DEF StakesFor
    <3> HIDE DEF u, t
    <3> QED BY <3>1, <3>2, <3>3
  <2>7. Sum(u, f) = Sum(t, f) + (IF x = to THEN row[f] - old ELSE 0)
    <3> HIDE DEF t, u, old, key
    <3>1. CASE x = to /\ u = Put(t, key, row)
      <4>1. Sum(u, f) = Sum(t, f) - FieldAt(t, key, f) + row[f]
          BY <2>1, <2>2, <3>1, FieldPut
      <4> QED BY <2>2, <2>3, <2>5, <3>1, <4>1
    <3>2. CASE x = to /\ row[f] = 0 /\ u = Erase(t, key)
      <4>1. Sum(u, f) = Sum(t, f) - FieldAt(t, key, f)
          BY <2>1, <3>2, FieldErase
      <4> QED BY <2>2, <2>3, <2>5, <3>2, <4>1
    <3>3. CASE x # to
        BY <2>3, <2>6, <3>3
    <3> QED BY <2>5, <3>1, <3>2, <3>3
  <2> QED BY <2>2, <2>3, <2>7
<1> QED BY <1>1, <1>2

\* Limits follow the row they are made for.
LEMMA LimitsOfFollow ==
    ASSUME NEW own, NEW limits, ResourceRow(limits), NEW managed, Follows(own, limits, managed),
           NEW row, ResourceRow(row), row.ram = own.ram
    PROVE  LET after == LimitsOf(limits, row, managed)
           IN  ResourceRow(after) /\ after.ram = limits.ram /\ Follows(row, after, managed)
BY DEF ResourceRow, RowFields, LimitsOf, Follows

\* What a user has, and how its limits follow it.
LEMMA ResourcesType ==
    ASSUME NEW b, NEW e, BandwidthShaped(b), Limited(b, e), NEW x \in Users
    PROVE  /\ ResourceRow(Resources(b, x)) /\ x \in DOMAIN b.limits /\ ResourceRow(b.limits[x])
           /\ Follows(Resources(b, x), b.limits[x], Managed(e, x))
<1>1. ResourceRow(Resources(b, x))
    BY DEF BandwidthShaped, Resources, NoResources, ResourceRow, RowFields
<1>2. Follows(Resources(b, x), b.limits[x], Managed(e, x))
  <2>1. Follows(NoResources, b.limits[x], Managed(e, x))
      BY DEF Follows, NoResources
  <2> QED BY <2>1 DEF Limited, Resources
<1> QED BY <1>1, <1>2 DEF BandwidthShaped

\* What x lacks is made up for, and its limits follow.
LEMMA MadeUp ==
    ASSUME NEW b, NEW r, NEW e, BandwidthShaped(b), Limited(b, e),
           NEW x \in Users, NEW net \in Int, NEW cpu \in Int, Short(b, r, x, net, cpu),
           NEW row, ResourceRow(row),
           row.net = Resources(b, x).net + net, row.cpu = Resources(b, x).cpu + cpu,
           NEW limits, ResourceRow(limits), Follows(row, limits, Managed(e, x)),
           NEW c, DOMAIN c = BwFields, c.delband = b.delband,
           c.userres \in {PutResources(b.userres, x, row), Put(b.userres, x, row)},
           \A y \in Users : y \in DOMAIN c.limits /\ c.limits[y] = IF y = x THEN limits ELSE b.limits[y]
    PROVE  Resourced(c, r, e)
<1>1. \A y : Resources(c, y) = IF y = x THEN row ELSE Resources(b, y)
    BY DEF Resources, PutResources, Put, Erase
<1>2. \A y \in DOMAIN c.userres : y # x => y \in DOMAIN b.userres /\ c.userres[y] = b.userres[y]
    BY DEF PutResources, Put, Erase
<1>3. x \in DOMAIN c.userres => c.userres[x] = row
    BY DEF PutResources, Put, Erase
<1>4. BandwidthShaped(c)
    BY <1>2, <1>3 DEF BandwidthShaped
<1>5. Limited(c, e)
    BY <1>2, <1>3 DEF Limited
<1>6. ASSUME NEW y \in Users
      PROVE  Lacks(c, r, y, 0, 0)
  <2>1. \A kind : Usable(c, r, y, kind) = Usable(b, r, y, kind)
    <3>1. StakesFor(c, y) = StakesFor(b, y)
        BY DEF StakesFor
    <3> QED BY <3>1, Zenon DEF Usable
  <2>2. ResourceRow(Resources(c, y)) /\ ResourceRow(Resources(b, y))
    <3>1. ResourceRow(Resources(b, y))
        BY ResourcesType
    <3> QED BY <1>1, <3>1
  <2>3. CASE y = x
    <3>1. Lacks(b, r, y, net, cpu)
      <4>1. Lacks(b, r, y, IF y = x THEN net ELSE 0, IF y = x THEN cpu ELSE 0)
          BY DEF Short
      <4> QED BY <2>3, <4>1
    <3>2. Resources(c, y) = row
        BY <1>1, <2>3
    <3> QED BY <2>1, <2>2, <2>3, <3>1, <3>2 DEF Lacks, ResourceRow
  <2>4. CASE y # x
    <3>1. Lacks(b, r, y, 0, 0)
      <4>1. Lacks(b, r, y, IF y = x THEN net ELSE 0, IF y = x THEN cpu ELSE 0)
          BY DEF Short
      <4> QED BY <2>4, <4>1
    <3>2. Resources(c, y) = Resources(b, y)
        BY <1>1, <2>4
    <3> QED BY <2>1, <3>1, <3>2, Zenon DEF Lacks
  <2> QED BY <2>3, <2>4
<1> QED BY <1>4, <1>5, <1>6 DEF Resourced

\* The limits of x change, and what of them is managed.
LEMMA LimitsResourced ==
    ASSUME NEW b, NEW r, NEW e, Resourced(b, r, e), NEW x \in Users,
           NEW limits, ResourceRow(limits),
           NEW f, \A y : y # x => Managed(f, y) = Managed(e, y),
           x \in DOMAIN b.userres => Follows(b.userres[x], limits, Managed(f, x)),
           NEW c, DOMAIN c = BwFields, c.delband = b.delband, c.userres = b.userres,
           c.limits = [b.limits EXCEPT ![x] = limits]
    PROVE  Resourced(c, r, f)
<1>1. \A y \in Users : y \in DOMAIN c.limits /\ c.limits[y] = IF y = x THEN limits ELSE b.limits[y]
    BY DEF Resourced, BandwidthShaped
<1>2. BandwidthShaped(c)
    BY <1>1 DEF Resourced, BandwidthShaped
<1>3. Limited(c, f)
    BY <1>1 DEF Resourced, Limited
<1>4. \A y \in Users : Lacks(c, r, y, 0, 0)
  <2>1. \A y, kind : Usable(c, r, y, kind) = Usable(b, r, y, kind) /\ Resources(c, y) = Resources(b, y)
    <3>1. \A y : StakesFor(c, y) = StakesFor(b, y)
        BY DEF StakesFor
    <3> QED BY <3>1, Zenon DEF Usable, Resources
  <2>2. \A y \in Users : Lacks(b, r, y, 0, 0)
      BY DEF Resourced
  <2> QED BY <2>1, <2>2, Zenon DEF Lacks
<1> QED BY <1>2, <1>3, <1>4 DEF Resourced

-----------------------------------------------------------------------------
\* What the exchange does leaves the loans alone, but for a loan that begins or ends.
SameLoans(r, q) == DOMAIN r = RexFields => DOMAIN q = RexFields /\ q.loans = r.loans

\* One helper after another, and another table.
LEMMA LoansBeside ==
    ASSUME NEW r
    PROVE  /\ SameLoans(r, r)
           /\ \A q, p : SameLoans(r, q) /\ SameLoans(q, p) => SameLoans(r, p)
           /\ \A t : /\ SameLoans(r, [r EXCEPT !.pool = t]) /\ SameLoans(r, [r EXCEPT !.ret = t])
                     /\ SameLoans(r, [r EXCEPT !.buckets = t]) /\ SameLoans(r, [r EXCEPT !.funds = t])
                     /\ SameLoans(r, [r EXCEPT !.balances = t]) /\ SameLoans(r, [r EXCEPT !.orders = t])
<1>1. \A q, p : SameLoans(r, q) /\ SameLoans(q, p) => SameLoans(r, p)
    BY DEF SameLoans
<1>2. \A t : /\ SameLoans(r, [r EXCEPT !.pool = t]) /\ SameLoans(r, [r EXCEPT !.ret = t])
             /\ SameLoans(r, [r EXCEPT !.buckets = t]) /\ SameLoans(r, [r EXCEPT !.funds = t])
    BY DEF SameLoans, RexFields
<1>3. \A t : SameLoans(r, [r EXCEPT !.balances = t]) /\ SameLoans(r, [r EXCEPT !.orders = t])
    BY DEF SameLoans, RexFields
<1> QED BY <1>1, <1>2, <1>3 DEF SameLoans

\* Returns.
LEMMA ReturnsKeepLoans ==
    ASSUME NEW r, NEW ct
    PROVE  /\ SameLoans(r, update_rex_pool(r, ct))
           /\ \A fee : SameLoans(r, add_to_rex_return_pool(r, fee, ct))
<1>1. SameLoans(r, update_rex_pool(r, ct))
  <2> DEFINE e == ct - (ct % DistInterval)
             s == StartPending(r, e)
             over == Over(s, e)
             d == DropBuckets(s, over, e)
             earned == Earned(PaidUntil(r.ret, e) - Surplus(s.buckets, over, e), r.ret.proceeds)
             q == Distribute(d, earned, e)
  <2>1. update_rex_pool(r, ct) \in {r, q}
      BY Zenon DEF update_rex_pool, update_rex_pool_at, DistributeReturns, DropAndDistribute
  <2> HIDE DEF e
  <2>2. SameLoans(r, s)
      BY DEF SameLoans, RexFields, StartPending, StartBucket
  <2> HIDE DEF s, over
  <2>3. SameLoans(s, d)
      BY DEF SameLoans, RexFields, DropBuckets
  <2> HIDE DEF d, earned
  <2>4. SameLoans(d, q)
      BY DEF SameLoans, RexFields, Distribute
  <2> HIDE DEF q
  <2> QED BY <2>1, <2>2, <2>3, <2>4, LoansBeside
<1>2. ASSUME NEW fee
      PROVE  SameLoans(r, add_to_rex_return_pool(r, fee, ct))
  <2> DEFINE u == update_rex_pool(r, ct)
             ends == ct - (ct % BucketInterval) + BucketInterval
             q == AddReturn(u, fee, ends)
  <2>1. add_to_rex_return_pool(r, fee, ct) = q
      BY Zenon DEF add_to_rex_return_pool
  <2> HIDE DEF u, ends
  <2>2. SameLoans(u, q)
      BY DEF SameLoans, RexFields, AddReturn
  <2> HIDE DEF q
  <2>3. SameLoans(r, u)
      BY <1>1 DEF u
  <2> QED BY <2>1, <2>2, <2>3, LoansBeside
<1> QED BY <1>1, <1>2

\* Funds, and orders collected or queued.
LEMMA FundsKeepLoans ==
    ASSUME NEW r, NEW x, NEW amount
    PROVE  /\ SameLoans(r, transfer_from_fund(r, x, amount))
           /\ SameLoans(r, transfer_to_fund(r, x, amount))
           /\ SameLoans(r, CollectInFund(r, x, amount))
           /\ SameLoans(r, CollectOrder(r, x, amount))
           /\ SameLoans(r, Queue(r, x, amount))
<1>1. \A q : SameLoans(q, transfer_to_fund(q, x, amount))
    BY DEF SameLoans, RexFields, transfer_to_fund
<1>2. \A q : SameLoans(q, CollectInFund(q, x, amount))
    BY <1>1, LoansBeside, Zenon DEF CollectInFund
<1>3. SameLoans(r, CollectOrder(r, x, amount))
  <2> DEFINE t == IF x \in OpenOrders(r) THEN r.orders ELSE Erase(r.orders, x)
             q == [r EXCEPT !.orders = t]
  <2>1. CollectOrder(r, x, amount) = CollectInFund(q, x, amount)
      BY DEF CollectOrder
  <2>2. SameLoans(r, q)
      BY LoansBeside
  <2> HIDE DEF q
  <2>3. SameLoans(q, CollectInFund(q, x, amount))
      BY <1>2
  <2> QED BY <2>1, <2>2, <2>3, LoansBeside
<1>4. SameLoans(r, transfer_from_fund(r, x, amount))
    BY DEF SameLoans, RexFields, transfer_from_fund
<1>5. SameLoans(r, Queue(r, x, amount))
    BY DEF SameLoans, RexFields, Queue
<1> QED BY <1>1, <1>2, <1>3, <1>4, <1>5

\* Shares.
LEMMA SharesKeepLoans ==
    ASSUME NEW r, NEW x, NEW amount
    PROVE  /\ \A ct : SameLoans(r, Bought(r, x, amount, ct))
           /\ SameLoans(r, fill_rex_order(r, x, amount).rex)
           /\ SameLoans(r, FillQueued(r, x))
<1>1. ASSUME NEW ct
      PROVE  SameLoans(r, Bought(r, x, amount, ct))
  <2> DEFINE p == add_to_rex_pool(r.pool, amount)
             q == [r EXCEPT !.pool = p]
             bought == p.total_rex - r.pool.total_rex
  <2>1. Bought(r, x, amount, ct) = add_to_rex_balance(q, x, amount, bought, ct)
      BY Zenon DEF Bought, BoughtFrom
  <2>2. SameLoans(r, q)
      BY LoansBeside
  <2> HIDE DEF q, bought
  <2>3. SameLoans(q, add_to_rex_balance(q, x, amount, bought, ct))
      BY DEF SameLoans, RexFields, add_to_rex_balance
  <2> QED BY <2>1, <2>2, <2>3, LoansBeside
<1>2. \A n : SameLoans(r, fill_rex_order(r, x, n).rex)
    BY DEF SameLoans, RexFields, fill_rex_order
<1>3. SameLoans(r, FillQueued(r, x))
  <2> DEFINE outcome == fill_rex_order(r, x, r.orders[x].rex_requested)
  <2>1. SameLoans(r, outcome.rex)
      BY <1>2
  <2> HIDE DEF outcome
  <2>2. SameLoans(outcome.rex, CloseOrder(outcome, x))
      BY DEF SameLoans, RexFields, CloseOrder
  <2>3. FillQueued(r, x) = CloseOrder(outcome, x)
      BY DEF FillQueued, outcome
  <2> QED BY <2>1, <2>2, <2>3, LoansBeside
<1> QED BY <1>1, <1>2, <1>3

\* Orders.
LEMMA OrdersKeepLoans ==
    ASSUME NEW r, IsFiniteSet(DOMAIN r.orders), NEW max \in Nat
    PROVE  SameLoans(r, FillOrders(r, max))
<1> DEFINE queued == Cardinality(OpenOrders(r))
           n == IF max < queued THEN max ELSE queued
           Bad == {k \in Nat : ~ SameLoans(r, Filling(r)[k])}
<1>1. n \in Nat
  <2>1. OpenOrders(r) \subseteq DOMAIN r.orders
      BY DEF OpenOrders
  <2>2. queued \in Nat
      BY <2>1, FS_Subset, FS_CardinalityType
  <2> QED BY <2>2
<1>2. FillOrders(r, max) = Filling(r)[n]
    BY Zenon DEF FillOrders, Filling, Fills
<1>3. ASSUME Bad # {} PROVE FALSE
  <2>1. PICK b \in Bad : \A k \in Bad : b =< k
      BY <1>3, NatMin
  <2>2. b # 0
      BY <2>1, FillingRecursion, LoansBeside
  <2>3. b - 1 \in Nat /\ b - 1 \notin Bad
      BY <2>1, <2>2
  <2> DEFINE q == Filling(r)[b - 1]
             p == FillQueued(q, QueuedAt(r, b - 1))
  <2>4. SameLoans(r, q)
      BY <2>3
  <2>5. Filling(r)[b] = p
      BY <2>1, <2>2, FillingRecursion
  <2> HIDE DEF q
  <2>6. SameLoans(q, p)
      BY SharesKeepLoans
  <2> HIDE DEF p
  <2>7. SameLoans(r, p)
      BY <2>4, <2>6, LoansBeside
  <2> QED BY <2>1, <2>5, <2>7
<1> QED
  <2> HIDE DEF n
  <2> QED BY <1>1, <1>2, <1>3

\* A loan that comes into the pool is entered afterwards.
LEMMA PoolKeepsLoans ==
    ASSUME NEW r, NEW payment, NEW rented, NEW new_loan, NEW ct
    PROVE  SameLoans(r, add_loan_to_rex_pool(r, payment, rented, new_loan, ct))
<1> DEFINE u == add_to_rex_return_pool(r, payment, ct)
           p == Lent(u.pool, payment, rented, new_loan)
<1>1. add_loan_to_rex_pool(r, payment, rented, new_loan, ct) = [u EXCEPT !.pool = p]
    BY Zenon DEF add_loan_to_rex_pool
<1>2. SameLoans(r, u)
    BY ReturnsKeepLoans
<1> HIDE DEF u, p
<1> QED BY <1>1, <1>2, LoansBeside

\* A loan that expires is renewed or ends.
LEMMA ExpiredLoans ==
    ASSUME NEW r, DOMAIN r = RexFields, NEW num \in DOMAIN r.loans, LoanSound(r.loans[num]), NEW ct
    PROVE  LET outcome == process_expired_loan(r, num, ct)
               loan == r.loans[num]
           IN  /\ DOMAIN outcome.rex = RexFields
               /\ \/ /\ outcome.rex.loans = Erase(r.loans, num)
                     /\ outcome.delta_stake = - loan.total_staked
                  \/ \E new : /\ outcome.rex.loans = Put(r.loans, num, new)
                              /\ new.receiver = loan.receiver /\ new.kind = loan.kind
                              /\ outcome.delta_stake = new.total_staked - loan.total_staked
<1> DEFINE loan == r.loans[num]
           back == [r EXCEPT !.pool = remove_loan_from_rex_pool(@, loan)]
           rented == RentedTokens(back.pool, loan.payment)
           outcome == process_expired_loan(r, num, ct)
<1>1. outcome \in {RenewLoan(back, num, loan, rented, ct), CloseLoan(back, num, loan)}
    BY Zenon DEF process_expired_loan, AfterReturn, RenewOrClose
<1>2. DOMAIN back = RexFields /\ back.loans = r.loans
    BY DEF RexFields
<1> HIDE DEF back, rented
<1>3. CASE outcome = RenewLoan(back, num, loan, rented, ct)
  <2> DEFINE no == FALSE
             u == add_loan_to_rex_pool(back, loan.payment, rented, no, ct)
             new == update_renewed_loan(loan, rented)
             q == [u EXCEPT !.loans[num] = new]
  <2>0. SameLoans(back, u)
    <3> HIDE DEF no
    <3> QED BY PoolKeepsLoans
  <2>1. DOMAIN u = RexFields /\ u.loans = r.loans
    <3> HIDE DEF u
    <3> QED BY <1>2, <2>0 DEF SameLoans
  <2>2. outcome.rex = [u EXCEPT !.loans[num] = update_renewed_loan(@, rented)]
        /\ outcome.delta_stake = rented - loan.total_staked
    <3>1. outcome = [rex |-> [u EXCEPT !.loans[num] = update_renewed_loan(@, rented)],
                     delta_stake |-> rented - loan.total_staked]
        BY <1>3, Zenon DEF RenewLoan
    <3> HIDE DEF u, outcome
    <3> QED BY <3>1
  <2> HIDE DEF u
  <2>3. outcome.rex = q
      BY <2>1, <2>2
  <2>4. new.receiver = loan.receiver /\ new.kind = loan.kind /\ new.total_staked = rented
      BY DEF update_renewed_loan, LoanSound, LoanFields
  <2> HIDE DEF new
  <2>5. DOMAIN q = RexFields /\ q.loans = Put(r.loans, num, new)
    <3>1. [r.loans EXCEPT ![num] = new] = Put(r.loans, num, new)
        BY DEF Put
    <3> QED BY <2>1, <3>1 DEF RexFields
  <2> HIDE DEF q, outcome, loan
  <2> QED BY <2>2, <2>3, <2>4, <2>5 DEF loan, outcome
<1>4. CASE outcome = CloseLoan(back, num, loan)
  <2> DEFINE q == [back EXCEPT !.loans = Erase(@, num)]
             p == CollectInFund(q, loan.from, loan.balance)
  <2>1. outcome.rex = p /\ outcome.delta_stake = - loan.total_staked
    <3>1. outcome = [rex |-> p, delta_stake |-> - loan.total_staked]
        BY <1>4, Zenon DEF CloseLoan
    <3> HIDE DEF p, outcome
    <3> QED BY <3>1
  <2>2. DOMAIN q = RexFields /\ q.loans = Erase(r.loans, num)
      BY <1>2 DEF RexFields
  <2> HIDE DEF q
  <2>3. SameLoans(q, p)
      BY FundsKeepLoans
  <2> HIDE DEF p
  <2>4. DOMAIN p = RexFields /\ p.loans = Erase(r.loans, num)
      BY <2>2, <2>3 DEF SameLoans
  <2> QED BY <2>1, <2>4
<1> QED BY <1>1, <1>3, <1>4

\* What is lent to somebody, and what is staked for it, are integers.
LEMMA LentStakedInt ==
    ASSUME NEW b, StakeInts(b.delband), NEW r, IntField(r.loans, "total_staked"), NEW x, NEW f \in {"net", "cpu"}
    PROVE  Sum(StakesFor(b, x), f) \in Int /\ Sum(LoansTo(r, x, f), "total_staked") \in Int
<1> DEFINE t == StakesFor(b, x)
           u == LoansTo(r, x, f)
<1>1. DOMAIN t \subseteq DOMAIN b.delband /\ \A n \in DOMAIN t : t[n] = b.delband[n]
    BY DEF StakesFor
<1>2. DOMAIN u \subseteq DOMAIN r.loans /\ \A n \in DOMAIN u : u[n] = r.loans[n]
    BY DEF LoansTo
<1> HIDE DEF t, u
<1>3. IntField(t, f)
    BY <1>1, FS_Subset DEF IntField, StakeInts
<1>4. IntField(u, "total_staked")
    BY <1>2, FS_Subset DEF IntField
<1>5. Sum(t, f) \in Int /\ Sum(u, "total_staked") \in Int
    BY <1>3, <1>4, FieldSum
<1> QED BY <1>5 DEF t, u

\* What is lent to x changes.
LEMMA LentShort ==
    ASSUME NEW b, NEW r, NEW e, Resourced(b, r, e), NEW q, NEW kind \in Kinds, NEW x, NEW gain \in Int,
           IntField(r.loans, "total_staked"),
           \A y, k : Sum(LoansTo(q, y, k), "total_staked")
                       = Sum(LoansTo(r, y, k), "total_staked") + (IF y = x /\ k = kind THEN gain ELSE 0)
    PROVE  Short(b, q, x, IF kind = "net" THEN gain ELSE 0, IF kind = "cpu" THEN gain ELSE 0)
<1> SUFFICES ASSUME NEW y \in Users
             PROVE  Lacks(b, q, y, IF y = x THEN IF kind = "net" THEN gain ELSE 0 ELSE 0,
                                   IF y = x THEN IF kind = "cpu" THEN gain ELSE 0 ELSE 0)
    BY DEF Short
<1>1. BandwidthShaped(b) /\ Limited(b, e) /\ Lacks(b, r, y, 0, 0)
    BY DEF Resourced
<1>2. ResourceRow(Resources(b, y))
    BY <1>1, ResourcesType
<1>3. ASSUME NEW k \in {"net", "cpu"}
      PROVE  Usable(b, q, y, k) = Usable(b, r, y, k) + (IF y = x /\ k = kind THEN gain ELSE 0)
  <2>1. Sum(StakesFor(b, y), k) \in Int /\ Sum(LoansTo(r, y, k), "total_staked") \in Int
      BY <1>1, LentStakedInt DEF BandwidthShaped
  <2>2. Sum(LoansTo(q, y, k), "total_staked")
          = Sum(LoansTo(r, y, k), "total_staked") + (IF y = x /\ k = kind THEN gain ELSE 0)
      OBVIOUS
  <2> QED BY <2>1, <2>2 DEF Usable
<1>4. kind \in {"net", "cpu"}
    BY DEF Kinds
<1> QED BY <1>1, <1>2, <1>3, <1>4 DEF Lacks, ResourceRow

\* What is staked for x changes.
LEMMA StakedShort ==
    ASSUME NEW b, NEW r, NEW e, Resourced(b, r, e), NEW c, c.userres = b.userres,
           NEW x, NEW net \in Int, NEW cpu \in Int, IntField(r.loans, "total_staked"),
           \A y : /\ Sum(StakesFor(c, y), "net") = Sum(StakesFor(b, y), "net") + (IF y = x THEN net ELSE 0)
                  /\ Sum(StakesFor(c, y), "cpu") = Sum(StakesFor(b, y), "cpu") + (IF y = x THEN cpu ELSE 0)
    PROVE  Short(c, r, x, net, cpu)
<1> SUFFICES ASSUME NEW y \in Users
             PROVE  Lacks(c, r, y, IF y = x THEN net ELSE 0, IF y = x THEN cpu ELSE 0)
    BY DEF Short
<1>1. BandwidthShaped(b) /\ Limited(b, e) /\ Lacks(b, r, y, 0, 0)
    BY DEF Resourced
<1>2. ResourceRow(Resources(b, y)) /\ Resources(c, y) = Resources(b, y)
    BY <1>1, ResourcesType DEF Resources
<1>3. \A k \in {"net", "cpu"} :
          Sum(StakesFor(b, y), k) \in Int /\ Sum(LoansTo(r, y, k), "total_staked") \in Int
    BY <1>1, LentStakedInt DEF BandwidthShaped
<1>4. /\ Usable(c, r, y, "net") = Usable(b, r, y, "net") + (IF y = x THEN net ELSE 0)
      /\ Usable(c, r, y, "cpu") = Usable(b, r, y, "cpu") + (IF y = x THEN cpu ELSE 0)
    BY <1>3 DEF Usable
<1> QED BY <1>1, <1>2, <1>4 DEF Lacks, ResourceRow

-----------------------------------------------------------------------------
(* What the actions do to votes and to resources.  A helper takes one      *)
(* world whose voters can be ranked and whose resources add up to another  *)
(* one.                                                                    *)

Votable(w) ==
    /\ DOMAIN w = WorldFields /\ Proxies(w.elect)
    /\ DOMAIN w.rex = RexFields /\ Resourced(w.bw, w.rex, w.elect)

\* Such a world, but for what x lacks.
Wanting(w, x, net, cpu) ==
    /\ DOMAIN w = WorldFields /\ Proxies(w.elect) /\ DOMAIN w.rex = RexFields
    /\ BandwidthShaped(w.bw) /\ Limited(w.bw, w.elect) /\ Short(w.bw, w.rex, x, net, cpu)

\* Whatever else changes.
LEMMA VotableBeside ==
    ASSUME NEW w, Votable(w)
    PROVE  /\ \A r : SameLoans(w.rex, r) => Votable([w EXCEPT !.rex = r])
           /\ \A c : Votable([w EXCEPT !.core = c])
           /\ \A e : Proxies(e) /\ SameManaged(w.elect, e) => Votable([w EXCEPT !.elect = e])
           /\ \A b : /\ DOMAIN b = BwFields /\ b.delband = w.bw.delband
                     /\ b.userres = w.bw.userres /\ b.limits = w.bw.limits
                     => Votable([w EXCEPT !.bw = b])
<1>0. /\ DOMAIN w = WorldFields /\ Proxies(w.elect) /\ DOMAIN w.rex = RexFields
      /\ Resourced(w.bw, w.rex, w.elect) /\ DOMAIN w.bw = BwFields /\ SameManaged(w.elect, w.elect)
    BY DEF Votable, Resourced, BandwidthShaped, SameManaged
<1>1. ASSUME NEW r, SameLoans(w.rex, r)
      PROVE  Votable([w EXCEPT !.rex = r])
  <2>1. DOMAIN r = RexFields /\ r.loans = w.rex.loans
      BY <1>0, <1>1 DEF SameLoans
  <2>2. Resourced(w.bw, r, w.elect)
      BY <1>0, <2>1, ResourcedBeside
  <2> QED BY <1>0, <2>1, <2>2 DEF Votable, WorldFields
<1>2. ASSUME NEW c
      PROVE  Votable([w EXCEPT !.core = c])
    BY <1>0 DEF Votable, WorldFields
<1>3. ASSUME NEW e, Proxies(e), SameManaged(w.elect, e)
      PROVE  Votable([w EXCEPT !.elect = e])
  <2>1. Resourced(w.bw, w.rex, e)
      BY <1>0, <1>3, ResourcedBeside
  <2> QED BY <1>0, <1>3, <2>1 DEF Votable, WorldFields
<1>4. ASSUME NEW b, DOMAIN b = BwFields, b.delband = w.bw.delband,
             b.userres = w.bw.userres, b.limits = w.bw.limits
      PROVE  Votable([w EXCEPT !.bw = b])
  <2>1. Resourced(b, w.rex, w.elect)
      BY <1>0, <1>4, ResourcedBeside
  <2> QED BY <1>0, <2>1 DEF Votable, WorldFields
<1> QED BY <1>1, <1>2, <1>3, <1>4

\* Tokens.
LEMMA TransferVotable ==
    ASSUME NEW w, Votable(w)
    PROVE  \A a, b, n : Votable(Transfer(w, a, b, n))
<1> SUFFICES ASSUME NEW a, NEW b, NEW n
             PROVE  Votable(Transfer(w, a, b, n))
    OBVIOUS
<1> DEFINE u == Transfer(w, a, b, n)
<1>1. DOMAIN w = WorldFields
    BY DEF Votable
<1>2. DOMAIN u = WorldFields /\ u.elect = w.elect /\ u.bw = w.bw /\ u.rex = w.rex
    BY <1>1 DEF Transfer, WorldFields
<1> HIDE DEF u
<1> QED BY <1>2 DEF Votable, u

\* What x lacks it gets.
LEMMA LimitsVotable ==
    ASSUME NEW w, NEW x \in Users, NEW net \in Int, NEW cpu \in Int, Wanting(w, x, net, cpu)
    PROVE  Votable(update_resource_limits(w, x, net, cpu))
<1> DEFINE old == Resources(w.bw, x)
           row == [old EXCEPT !.net = @ + net, !.cpu = @ + cpu]
           managed == Managed(w.elect, x)
           limits == LimitsOf(w.bw.limits[x], row, managed)
           t == PutResources(w.bw.userres, x, row)
           l == [w.bw.limits EXCEPT ![x] = limits]
           c == [w.bw EXCEPT !.userres = t, !.limits = l]
           u == [w EXCEPT !.bw = c]
<1>0. /\ DOMAIN w = WorldFields /\ Proxies(w.elect) /\ DOMAIN w.rex = RexFields
      /\ BandwidthShaped(w.bw) /\ Limited(w.bw, w.elect) /\ Short(w.bw, w.rex, x, net, cpu)
      /\ DOMAIN w.bw = BwFields
    BY DEF Wanting, BandwidthShaped
<1>1. CASE net = 0 /\ cpu = 0
  <2>1. update_resource_limits(w, x, net, cpu) = w
      BY <1>1 DEF update_resource_limits
  <2>2. \A y \in Users : Lacks(w.bw, w.rex, y, 0, 0)
    <3>1. \A y \in Users : Lacks(w.bw, w.rex, y, IF y = x THEN net ELSE 0, IF y = x THEN cpu ELSE 0)
        BY <1>0 DEF Short
    <3>2. \A y : (IF y = x THEN net ELSE 0) = 0 /\ (IF y = x THEN cpu ELSE 0) = 0
        BY <1>1
    <3> QED BY <3>1, <3>2, Zenon
  <2>3. Votable(w)
      BY <1>0, <2>2 DEF Votable, Resourced
  <2> QED BY <2>1, <2>3
<1>2. CASE ~ (net = 0 /\ cpu = 0)
  <2>1. update_resource_limits(w, x, net, cpu)
          = [w EXCEPT !.bw.userres = t, !.bw.limits[x] = limits]
      BY <1>2, Zenon DEF update_resource_limits
  <2>2. /\ ResourceRow(old) /\ x \in DOMAIN w.bw.limits /\ ResourceRow(w.bw.limits[x])
        /\ Follows(old, w.bw.limits[x], managed)
      BY <1>0, ResourcesType
  <2>3. ResourceRow(row) /\ row.net = old.net + net /\ row.cpu = old.cpu + cpu /\ row.ram = old.ram
    <3> HIDE DEF old
    <3> QED BY <2>2 DEF ResourceRow, RowFields
  <2> HIDE DEF row, managed
  <2>4. ResourceRow(limits) /\ Follows(row, limits, managed)
      BY <2>2, <2>3, LimitsOfFollow
  <2> HIDE DEF limits, t
  <2>5. [w EXCEPT !.bw.userres = t, !.bw.limits[x] = limits] = u
      BY <1>0 DEF WorldFields, BwFields
  <2>6. DOMAIN c = BwFields /\ c.delband = w.bw.delband /\ c.userres = t /\ c.limits = l
      BY <1>0 DEF BwFields
  <2> HIDE DEF c
  <2>7. Resourced(c, w.rex, w.elect)
    <3>1. /\ Follows(row, limits, Managed(w.elect, x))
          /\ c.userres \in {PutResources(w.bw.userres, x, row), Put(w.bw.userres, x, row)}
          /\ row.net = Resources(w.bw, x).net + net /\ row.cpu = Resources(w.bw, x).cpu + cpu
        BY <2>3, <2>4, <2>6 DEF t, managed
    <3>4. \A y \in Users : y \in DOMAIN c.limits /\ c.limits[y] = IF y = x THEN limits ELSE w.bw.limits[y]
        BY <1>0, <2>6 DEF BandwidthShaped
    <3>2. DOMAIN c = BwFields /\ c.delband = w.bw.delband
        BY <2>6
    <3>3. BandwidthShaped(w.bw) /\ Limited(w.bw, w.elect) /\ Short(w.bw, w.rex, x, net, cpu)
        BY <1>0
    <3> QED BY <2>3, <2>4, <3>1, <3>2, <3>3, <3>4, MadeUp, SMTT(60)
  <2>8. Votable(u)
      BY <1>0, <2>7 DEF Votable, WorldFields
  <2> QED BY <2>1, <2>5, <2>8
<1> QED BY <1>1, <1>2

\* Nobody is no user.
LEMMA NobodyNoUser == Nobody \notin Users
BY SystemAssumption

\* A stake changes, and the vote with it.
LEMMA VotingPowerVotable ==
    ASSUME NEW w, Votable(w), NEW x \in Users, NEW stake, NEW ct
    PROVE  Votable(update_voting_power(w, x, stake, ct))
<1> DEFINE e == Recast(w.elect, x, VoterRow(w.elect, x).staked + stake, ct)
<1>1. update_voting_power(w, x, stake, ct) = [w EXCEPT !.elect = e]
    BY Zenon DEF update_voting_power
<1>2. Proxies(e) /\ SameManaged(w.elect, e)
    BY NobodyNoUser, RecastProxies DEF Votable
<1> HIDE DEF e
<1> QED BY <1>1, <1>2, VotableBeside

\* The worth of REX changes, which no vote is cast again for yet.
LEMMA RexStakeVotable ==
    ASSUME NEW w, Votable(w), NEW x \in Users
    PROVE  Votable(update_rex_stake(w, x))
<1> DEFINE worth == WorthOf(w.rex.pool, w.rex.balances[x].rex_balance)
           delta == worth - w.rex.balances[x].vote_stake
           v == [w EXCEPT !.rex.balances[x].vote_stake = worth]
           e == [w.elect EXCEPT !.voters[x].staked = @ + delta]
           u == [v EXCEPT !.elect.voters[x].staked = @ + delta]
<1>1. update_rex_stake(w, x) \in {w, v} \/ (x \in DOMAIN w.elect.voters /\ update_rex_stake(w, x) = u)
    BY DEF update_rex_stake
<1>2. Votable(v) /\ v.elect = w.elect
  <2> DEFINE b == [w.rex.balances EXCEPT ![x].vote_stake = worth]
             r == [w.rex EXCEPT !.balances = b]
  <2>1. v = [w EXCEPT !.rex = r]
    <3> HIDE DEF worth
    <3> QED BY DEF Votable, WorldFields, RexFields
  <2> HIDE DEF b, v, worth
  <2>2. SameLoans(w.rex, r)
      BY LoansBeside
  <2> HIDE DEF r
  <2> QED BY <2>1, <2>2, VotableBeside DEF Votable, WorldFields
<1>3. u = [v EXCEPT !.elect = e]
  <2> HIDE DEF worth, v
  <2> QED BY <1>2
<1>4. ASSUME x \in DOMAIN w.elect.voters
      PROVE  Proxies(e) /\ SameManaged(w.elect, e)
  <2> DEFINE stake == w.elect.voters[x].staked + delta
             row == [w.elect.voters[x] EXCEPT !.staked = stake]
  <2>1. ElectShaped(w.elect) /\ VoterRow(w.elect, x) = w.elect.voters[x]
      BY <1>4 DEF Votable, Proxies, VoterRow
  <2>2. e = [w.elect EXCEPT !.voters[x] = row]
      OBVIOUS
  <2> HIDE DEF stake
  <2> DEFINE f == [w.elect EXCEPT !.voters = Put(@, x, row)]
  <2>3. Proxies(f) /\ SameManaged(w.elect, f)
      BY <2>1, NobodyNoUser, RowKept DEF Votable
  <2> HIDE DEF row, e
  <2>4. [w.elect EXCEPT !.voters[x] = row] = f
      BY <1>4, <2>1, RowModified
  <2> QED BY <2>2, <2>3, <2>4
<1> HIDE DEF v, e, u
<1> QED BY <1>1, <1>2, <1>3, <1>4, VotableBeside

\* What an owner collects.
LEMMA AccountVotable ==
    ASSUME NEW w, Votable(w), NEW x \in Users, NEW proceeds, NEW delta, NEW force, NEW ct
    PROVE  Votable(update_rex_account(w, x, proceeds, delta, force, ct))
<1> DEFINE r == CollectOrder(w.rex, x, proceeds + FilledOrder(w.rex, x).proceeds)
           v == [w EXCEPT !.rex = r]
           stake == delta + FilledOrder(w.rex, x).stake_change
           u == update_voting_power(v, x, stake, ct)
<1>1. update_rex_account(w, x, proceeds, delta, force, ct) \in {v, u}
  <2>1. update_rex_account(w, x, proceeds, delta, force, ct) = ChangeStake(v, x, stake, force, ct)
      BY Zenon DEF update_rex_account
  <2> HIDE DEF v, stake
  <2> QED BY <2>1, Zenon DEF ChangeStake
<1>2. Votable(v)
  <2>1. SameLoans(w.rex, r)
      BY FundsKeepLoans
  <2> HIDE DEF r
  <2> QED BY <2>1, VotableBeside
<1> HIDE DEF v, stake
<1>3. Votable(u)
    BY <1>2, VotingPowerVotable
<1> HIDE DEF u
<1> QED BY <1>1, <1>2, <1>3

-----------------------------------------------------------------------------
\* The maintenance leaves votes alone, and passes on what loans bring.
\*
\* Fees and the proceeds of names.
LEMMA ChannelVotable ==
    ASSUME NEW w, Votable(w), NEW ct
    PROVE  /\ \A a, n : Votable(channel_to_rex(w, a, n, ct))
           /\ Votable(CollectNameBids(w, ct))
<1>1. ASSUME NEW a, NEW n
      PROVE  Votable(channel_to_rex(w, a, n, ct))
  <2> DEFINE r == add_to_rex_return_pool(w.rex, n, ct)
             v == [w EXCEPT !.rex = r]
  <2>1. channel_to_rex(w, a, n, ct) \in {w, Transfer(v, a, rex_account, n)}
      BY Zenon DEF channel_to_rex
  <2>2. Votable(v)
    <3>1. SameLoans(w.rex, r)
        BY ReturnsKeepLoans
    <3> HIDE DEF r
    <3> QED BY <3>1, VotableBeside
  <2> HIDE DEF v
  <2>3. Votable(Transfer(v, a, rex_account, n))
      BY <2>2, TransferVotable
  <2> QED BY <2>1, <2>3
<1>2. Votable(CollectNameBids(w, ct))
  <2> DEFINE v == channel_to_rex(w, names_account, w.rex.pool.namebid_proceeds, ct)
             u == [v EXCEPT !.rex.pool.namebid_proceeds = 0]
  <2>1. CollectNameBids(w, ct) \in {w, u}
      BY Zenon DEF CollectNameBids
  <2>2. Votable(v)
      BY <1>1
  <2> HIDE DEF v
  <2>3. Votable(u)
    <3> DEFINE p == [v.rex.pool EXCEPT !.namebid_proceeds = 0]
               r == [v.rex EXCEPT !.pool = p]
    <3>1. u = [v EXCEPT !.rex = r]
        BY <2>2 DEF Votable, WorldFields, RexFields
    <3> HIDE DEF p, u
    <3>2. SameLoans(v.rex, r)
        BY LoansBeside
    <3> HIDE DEF r
    <3> QED BY <2>2, <3>1, <3>2, VotableBeside
  <2> QED BY <2>1, <2>3
<1> QED BY <1>1, <1>2

\* Loans and their tokens.
LEMMA BookedLoans ==
    ASSUME NEW ct, NEW w, Booked(w, ct)
    PROVE  /\ IntField(w.rex.loans, "total_staked") /\ IsFiniteSet(DOMAIN w.rex.orders)
           /\ \A n \in DOMAIN w.rex.loans : LoanSound(w.rex.loans[n])
<1>1. LoansSound(w.rex) /\ OrdersSound(w.rex)
    BY DEF Booked, Sound
<1>2. IntField(w.rex.loans, "total_staked")
    BY <1>1 DEF LoansSound, LoanSound, IntField
<1>3. IsFiniteSet(DOMAIN w.rex.orders)
    BY <1>1, SystemAssumption, FS_Subset DEF OrdersSound
<1> QED BY <1>1, <1>2, <1>3 DEF LoansSound

\* A loan that expires.
LEMMA LoanVotable ==
    ASSUME NEW ct, Clock(ct), NEW w, Votable(w), Booked(w, ct), NEW kind
    PROVE  Votable(ProcessLoan(w, kind, ct))
<1> DEFINE num == FirstExpired(w.rex, kind, ct)
           loan == w.rex.loans[num]
           outcome == process_expired_loan(w.rex, num, ct)
           r == outcome.rex
           gain == outcome.delta_stake
           v == [w EXCEPT !.rex = r]
           net == IF kind = "net" THEN gain ELSE 0
           cpu == IF kind = "cpu" THEN gain ELSE 0
           u == update_resource_limits(v, loan.receiver, net, cpu)
<1>1. CASE Expired(w.rex, kind, ct) # {}
  <2>1. ProcessLoan(w, kind, ct) = u
      BY <1>1, Zenon DEF ProcessLoan, ProcessLoanOf, LoanProcessed
  <2>2. num \in DOMAIN w.rex.loans /\ loan.kind = kind
      BY <1>1, FirstIsExpired DEF Booked, Expired
  <2> HIDE DEF num
  <2>3. /\ IntField(w.rex.loans, "total_staked") /\ LoanSound(loan)
        /\ DOMAIN w = WorldFields /\ DOMAIN w.rex = RexFields /\ Proxies(w.elect)
        /\ Resourced(w.bw, w.rex, w.elect)
      BY <2>2, BookedLoans DEF Votable
  <2>4. loan.receiver \in Users /\ kind \in Kinds
      BY <2>2, <2>3 DEF LoanSound
  <2>5. LoansSound(r)
      BY <2>2, ExpiredGoes DEF Booked, Goes, Sound
  <2>6. /\ DOMAIN r = RexFields
        /\ \/ /\ r.loans = Erase(w.rex.loans, num) /\ gain = - loan.total_staked
           \/ \E new : /\ r.loans = Put(w.rex.loans, num, new)
                       /\ new.receiver = loan.receiver /\ new.kind = loan.kind
                       /\ gain = new.total_staked - loan.total_staked
      BY <2>2, <2>3, ExpiredLoans
  <2> HIDE DEF r, gain
  <2>7. /\ gain \in Int
        /\ \A y, k : Sum(LoansTo(r, y, k), "total_staked")
                       = Sum(LoansTo(w.rex, y, k), "total_staked")
                           + (IF y = loan.receiver /\ k = kind THEN gain ELSE 0)
    <3>1. CASE r.loans = Erase(w.rex.loans, num) /\ gain = - loan.total_staked
        BY <2>2, <2>3, <3>1, LoanEraseLent
    <3>2. ASSUME NEW new, r.loans = Put(w.rex.loans, num, new), new.receiver = loan.receiver,
                 new.kind = loan.kind, gain = new.total_staked - loan.total_staked
          PROVE  /\ gain \in Int
                 /\ \A y, k : Sum(LoansTo(r, y, k), "total_staked")
                                = Sum(LoansTo(w.rex, y, k), "total_staked")
                                    + (IF y = loan.receiver /\ k = kind THEN gain ELSE 0)
      <4>1. new.total_staked \in Int
        <5>1. num \in DOMAIN r.loans /\ r.loans[num] = new
            BY <3>2 DEF Put
        <5> QED BY <2>5, <5>1 DEF LoansSound, LoanSound
      <4>2. FieldAt(w.rex.loans, num, "total_staked") = loan.total_staked
          BY <2>2 DEF FieldAt
      <4> QED BY <2>2, <2>3, <3>2, <4>1, <4>2, LoanPutLent
    <3> QED BY <2>6, <3>1, <3>2
  <2>8. Short(w.bw, r, loan.receiver, net, cpu)
      BY <2>3, <2>4, <2>7, LentShort
  <2>9. net \in Int /\ cpu \in Int
      BY <2>7
  <2> HIDE DEF loan, net, cpu
  <2>10. Wanting(v, loan.receiver, net, cpu)
      BY <2>3, <2>6, <2>8 DEF Wanting, Resourced, WorldFields
  <2> HIDE DEF v
  <2> QED BY <2>1, <2>4, <2>9, <2>10, LimitsVotable
<1>2. CASE Expired(w.rex, kind, ct) = {}
    BY <1>2 DEF ProcessLoan
<1> QED BY <1>1, <1>2

\* Loans that expire.
LEMMA LoansVotable ==
    ASSUME NEW ct, Clock(ct), NEW w, Votable(w), Booked(w, ct), NEW kind, NEW max \in Nat
    PROVE  Votable(ProcessLoans(w, kind, max, ct))
<1> DEFINE it == Processing(w, kind, ct)
           Bad == {k \in Nat : ~ (Votable(it[k]) /\ Booked(it[k], ct))}
<1>1. ProcessLoans(w, kind, max, ct) = it[max]
    BY Zenon DEF ProcessLoans, Processing, Processes
<1>2. it[0] = w /\ \A n \in Nat : n # 0 => it[n] = ProcessLoan(it[n - 1], kind, ct)
    BY ProcessingRecursion
<1> HIDE DEF it
<1>3. ASSUME Bad # {} PROVE FALSE
  <2>1. PICK b \in Bad : \A k \in Bad : b =< k
      BY <1>3, NatMin
  <2>2. b # 0
      BY <1>2, <2>1
  <2>3. b - 1 \in Nat /\ b - 1 \notin Bad
      BY <2>1, <2>2
  <2> DEFINE u == it[b - 1]
             v == ProcessLoan(u, kind, ct)
  <2>4. Votable(u) /\ Booked(u, ct) /\ it[b] = v
      BY <1>2, <2>1, <2>2, <2>3
  <2> HIDE DEF u
  <2>5. Votable(v) /\ Comes(u, v, 0, ct)
      BY <2>4, LoanVotable, LoanComes
  <2> HIDE DEF v
  <2>6. Booked(v, ct)
      BY <2>5, ComesBooked
  <2> QED BY <2>1, <2>4, <2>5, <2>6
<1> QED BY <1>1, <1>3

\* runrex.
LEMMA RunrexVotable ==
    ASSUME NEW ct, Clock(ct), NEW w, Votable(w), Booked(w, ct), NEW max \in Nat
    PROVE  Votable(runrex(w, max, ct))
<1> DEFINE r1 == update_rex_pool(w.rex, ct)
           w1 == [w EXCEPT !.rex = r1]
           w2 == CollectNameBids(w1, ct)
           w3 == ProcessLoans(w2, "cpu", max, ct)
           w4 == ProcessLoans(w3, "net", max, ct)
           r5 == FillOrders(w4.rex, max)
           w5 == [w4 EXCEPT !.rex = r5]
<1>1. runrex(w, max, ct) = w5
    BY Zenon DEF runrex
<1>2. Votable(w1) /\ Booked(w1, ct)
  <2>1. Returned(w.rex, r1, 0, ct) /\ SameLoans(w.rex, r1)
      BY UpdateReturns, ReturnsKeepLoans DEF Booked, Sound
  <2> HIDE DEF r1
  <2>2. Goes(w.rex, r1, 0, ct) /\ Still(w.rex, r1)
      BY <2>1, ReturnedGoes DEF Booked
  <2>3. Comes(w, w1, 0, ct)
      BY <2>2, RexComes
  <2>4. Votable(w1)
      BY <2>1, VotableBeside
  <2> HIDE DEF w1
  <2> QED BY <2>3, <2>4, ComesBooked
<1> HIDE DEF w1
<1>3. Votable(w2) /\ Booked(w2, ct)
  <2>1. Votable(w2) /\ Comes(w1, w2, 0, ct)
      BY <1>2, ChannelVotable, NameBidsComes
  <2> HIDE DEF w2
  <2> QED BY <2>1, ComesBooked
<1> HIDE DEF w2
<1>4. Votable(w3) /\ Booked(w3, ct)
  <2>1. Votable(w3) /\ Comes(w2, w3, 0, ct)
      BY <1>3, LoansVotable, LoansComes
  <2> HIDE DEF w3
  <2> QED BY <2>1, ComesBooked
<1> HIDE DEF w3
<1>5. Votable(w4) /\ Booked(w4, ct)
  <2>1. Votable(w4) /\ Comes(w3, w4, 0, ct)
      BY <1>4, LoansVotable, LoansComes
  <2> HIDE DEF w4
  <2> QED BY <2>1, ComesBooked
<1> HIDE DEF w4
<1>6. SameLoans(w4.rex, r5)
    BY <1>5, BookedLoans, OrdersKeepLoans
<1> HIDE DEF r5
<1>7. Votable(w5)
    BY <1>5, <1>6, VotableBeside
<1> HIDE DEF w5
<1> QED BY <1>1, <1>7

-----------------------------------------------------------------------------
\* The actions of the resource exchange, which cast the vote of an owner again.

\* A step to a world whose voters can be ranked.
Polled == \E w : Votable(w) /\ Become(w)

\* An action ends with it.
LEMMA DonePolled ==
    ASSUME NEW w, Votable(w), NEW x, Done(w, x) \/ RexExecDone(w) \/ Become(w)
    PROVE  Polled
BY DEF Polled, Done, RexExecDone

\* Rows of the exchange.
LEMMA BalanceVotable ==
    ASSUME NEW w, Votable(w), NEW x
    PROVE  /\ \A b : Votable([w EXCEPT !.rex.balances[x] = b])
           /\ \A s : Votable([w EXCEPT !.rex.balances[x].vote_stake = s])
           /\ Votable(Matured(w, x))
<1>0. DOMAIN w = WorldFields /\ DOMAIN w.rex = RexFields
    BY DEF Votable
<1>1. \A t : Votable([w EXCEPT !.rex.balances = t])
  <2> SUFFICES ASSUME NEW t PROVE Votable([w EXCEPT !.rex.balances = t])
      OBVIOUS
  <2> DEFINE r == [w.rex EXCEPT !.balances = t]
  <2>1. [w EXCEPT !.rex.balances = t] = [w EXCEPT !.rex = r]
      BY <1>0 DEF WorldFields, RexFields
  <2>2. SameLoans(w.rex, r)
      BY LoansBeside
  <2> HIDE DEF r
  <2> QED BY <2>1, <2>2, VotableBeside
<1>2. ASSUME NEW b
      PROVE  Votable([w EXCEPT !.rex.balances[x] = b])
  <2> DEFINE t == [w.rex.balances EXCEPT ![x] = b]
  <2>1. [w EXCEPT !.rex.balances[x] = b] = [w EXCEPT !.rex.balances = t]
      BY <1>0 DEF WorldFields, RexFields
  <2> HIDE DEF t
  <2> QED BY <1>1, <2>1
<1>3. ASSUME NEW s
      PROVE  Votable([w EXCEPT !.rex.balances[x].vote_stake = s])
  <2> DEFINE t == [w.rex.balances EXCEPT ![x].vote_stake = s]
  <2>1. [w EXCEPT !.rex.balances[x].vote_stake = s] = [w EXCEPT !.rex.balances = t]
      BY <1>0 DEF WorldFields, RexFields
  <2> HIDE DEF t
  <2> QED BY <1>1, <2>1
<1>4. Votable(Matured(w, x))
  <2> DEFINE b == process_rex_maturities(w.rex.balances[x], now)
  <2>1. Matured(w, x) = [w EXCEPT !.rex.balances[x] = b]
      BY Zenon DEF Matured
  <2> QED BY <1>2, <2>1
<1> QED BY <1>2, <1>3, <1>4

\* The maintenance an action starts with.
LEMMA MaintenanceVotable ==
    ASSUME RexReady, Votable(World), NEW max \in Nat
    PROVE  Votable(runrex(World, max, now))
BY ReadyBooked, RunrexVotable

\* deposit and withdraw.
LEMMA FundPolled ==
    ASSUME Votable(World), NEW x \in Users, NEW amount, Deposit(x, amount) \/ Withdraw(x, amount)
    PROVE  Polled
<1>1. CASE Deposit(x, amount)
  <2> DEFINE v == Transfer(World, x, rex_account, amount)
             r == transfer_to_fund(v.rex, x, amount)
             u == [v EXCEPT !.rex = r]
  <2>1. Become(u)
      BY <1>1, Zenon DEF Deposit
  <2>2. Votable(v) /\ SameLoans(v.rex, r)
      BY TransferVotable, FundsKeepLoans
  <2> HIDE DEF v, r
  <2>3. Votable(u)
      BY <2>2, VotableBeside
  <2> QED BY <2>1, <2>3, DonePolled
<1>2. CASE Withdraw(x, amount)
  <2> DEFINE w == update_rex_account(World, x, 0, 0, FALSE, now)
             v == Transfer(w, rex_account, x, amount)
             r == transfer_from_fund(v.rex, x, amount)
             u == [v EXCEPT !.rex = r]
  <2>1. Done(u, x)
      BY <1>2, Zenon DEF Withdraw, WithdrawFrom
  <2>2. Votable(w)
      BY AccountVotable
  <2> HIDE DEF w
  <2>3. Votable(v) /\ SameLoans(v.rex, r)
      BY <2>2, TransferVotable, FundsKeepLoans
  <2> HIDE DEF v, r
  <2>4. Votable(u)
      BY <2>3, VotableBeside
  <2> QED BY <2>1, <2>4, DonePolled
<1> QED BY <1>1, <1>2

\* buyrex.
LEMMA BuyRexPolled ==
    ASSUME RexReady, Votable(World), NEW x \in Users, NEW amount \in Nat, BuyRex(x, amount)
    PROVE  Polled
<1> DEFINE q == transfer_from_fund(rex, x, amount)
           r == Bought(q, x, amount, now)
           w == [World EXCEPT !.rex = r]
           v == runrex(w, 2, now)
           delta == VoteStake(r, x) - VoteStake(rex, x)
           u == update_rex_account(v, x, 0, delta, FALSE, now)
<1>1. CanTransferFromFund(rex, x, amount) /\ CanAddToPool(rex) /\ Done(u, x)
    BY Zenon DEF BuyRex, BuyRexDone
<1>2. Clock(now) /\ Booked(World, now) /\ Sound(rex, now) /\ World.rex = rex /\ 2 \in Nat
    BY ReadyBooked
<1>3. amount \in Nat \ {0}
    BY <1>1 DEF CanTransferFromFund
<1>4. Sound(q, now) /\ q.pool = rex.pool /\ SameLoans(rex, q)
    BY <1>1, <1>2, FundGoes, FundsKeepLoans DEF Goes, transfer_from_fund, Sound, RexFields
<1> HIDE DEF q
<1>5. CanAddToPool(q)
    BY <1>1, <1>4 DEF CanAddToPool, rex_available
<1>6. Sound(r, now) /\ SameLoans(q, r)
    BY <1>2, <1>3, <1>4, <1>5, BoughtGoes, SharesKeepLoans
<1> HIDE DEF r, delta
<1>7. SameLoans(rex, r)
    BY <1>4, <1>6, LoansBeside
<1>8. Votable(w) /\ Booked(w, now)
  <2>1. Votable(w)
      BY <1>2, <1>7, VotableBeside
  <2>2. Booked(w, now)
      BY <1>2, <1>6 DEF Booked, WorldFields, Coins
  <2> QED BY <2>1, <2>2
<1> HIDE DEF w
<1>9. Votable(v)
    BY <1>2, <1>8, RunrexVotable
<1> HIDE DEF v
<1>10. Votable(u)
    BY <1>9, AccountVotable
<1> QED BY <1>1, <1>10, DonePolled

\* unstaketorex: what is staked no more, the receiver may use no more.
LEMMA UnstakeToRexPolled ==
    ASSUME RexReady, Votable(World), NEW x \in Users, NEW receiver \in Users,
           NEW net \in Nat, NEW cpu \in Nat, UnstakeToRex(x, receiver, net, cpu)
    PROVE  Polled
<1> DEFINE left == Unstaked(bw.delband[<<x, receiver>>], net, cpu)
           payment == net + cpu
           t == IF left.net = 0 /\ left.cpu = 0 THEN Erase(World.bw.delband, <<x, receiver>>)
                ELSE Put(World.bw.delband, <<x, receiver>>, left)
           c  == [World.bw EXCEPT !.delband = t]
           w1 == StakeTaken(World, x, receiver, left)
           w2 == update_resource_limits(w1, receiver, - net, - cpu)
           w3 == Transfer(w2, stake_account, rex_account, payment)
           r  == Bought(w3.rex, x, payment, now)
           w4 == [w3 EXCEPT !.rex = r]
           w5 == runrex(w4, 2, now)
           w6 == update_rex_account(w5, x, 0, 0, TRUE, now)
<1>1. /\ payment > 0 /\ CanAddToPool(rex) /\ <<x, receiver>> \in DOMAIN bw.delband
      /\ Done(w6, x)
    BY Zenon DEF UnstakeToRex, StakeFreed
<1>2. /\ Clock(now) /\ Booked(World, now) /\ World.rex = rex /\ World.bw = bw /\ World.elect = elect
      /\ Sound(rex, now) /\ 2 \in Nat /\ payment \in Nat \ {0} /\ payment \in Int
      /\ - net \in Int /\ - cpu \in Int /\ IntField(rex.loans, "total_staked")
    BY <1>1, ReadyBooked, BookedLoans DEF World
<1>3. /\ DOMAIN World = WorldFields /\ Proxies(elect) /\ DOMAIN rex = RexFields
      /\ Resourced(bw, rex, elect) /\ BandwidthShaped(bw) /\ Limited(bw, elect)
      /\ DOMAIN bw = BwFields /\ StakeInts(bw.delband)
    BY <1>2 DEF Votable, Resourced, BandwidthShaped
<1>4. /\ {"net", "cpu"} \subseteq DOMAIN left /\ left.net \in Int /\ left.cpu \in Int
      /\ left.net - Delegated(bw, x, receiver).net = - net
      /\ left.cpu - Delegated(bw, x, receiver).cpu = - cpu
    BY <1>1, <1>3 DEF Unstaked, StakeInts, Delegated
<1>5. w1 = [World EXCEPT !.bw = c] /\ DOMAIN c = BwFields /\ c.delband = t /\ c.userres = bw.userres
      /\ c.limits = bw.limits
  <2>1. w1 = [World EXCEPT !.bw.delband = t]
      BY DEF StakeTaken
  <2> HIDE DEF t, w1
  <2> QED BY <1>2, <1>3, <2>1 DEF BwFields, WorldFields
<1> HIDE DEF left, payment, w1, c
<1>6. /\ StakeInts(c.delband)
      /\ \A y : /\ Sum(StakesFor(c, y), "net") = Sum(StakesFor(bw, y), "net") + (IF y = receiver THEN - net ELSE 0)
                /\ Sum(StakesFor(c, y), "cpu") = Sum(StakesFor(bw, y), "cpu") + (IF y = receiver THEN - cpu ELSE 0)
    BY <1>2, <1>3, <1>4, <1>5, StakePutStaked
<1>7. Short(c, rex, receiver, - net, - cpu)
    BY <1>2, <1>3, <1>5, <1>6, StakedShort
<1>8. Wanting(w1, receiver, - net, - cpu)
  <2>1. BandwidthShaped(c) /\ Limited(c, elect)
      BY <1>3, <1>5, <1>6 DEF BandwidthShaped, Limited
  <2> QED BY <1>2, <1>3, <1>5, <1>7, <2>1 DEF Wanting, WorldFields
<1>9. Booked(w1, now)
    BY <1>2, <1>5 DEF Booked, Coins, WorldFields
<1>10. Votable(w2) /\ Comes(w1, w2, 0, now) /\ w2.rex = w1.rex
    BY <1>2, <1>8, <1>9, LimitsVotable, LimitsComes
<1>11. w2.rex = rex /\ Booked(w2, now)
    BY <1>2, <1>3, <1>5, <1>10, ComesBooked DEF WorldFields
<1> HIDE DEF w2
<1>12. Votable(w3) /\ w3.rex = rex /\ Booked(w3, now)
  <2>1. stake_account \in Holders \ {rex_account}
      BY DEF Holders, SystemAccounts, stake_account, rex_account
  <2>2. Comes(w2, w3, 0 - payment, now) /\ w3.rex = w2.rex
      BY <1>2, <1>11, <2>1, TransferComes
  <2>3. Votable(w3)
      BY <1>10, TransferVotable
  <2> HIDE DEF w3
  <2> QED BY <1>11, <2>2, <2>3, ComesBooked
<1> HIDE DEF w3
<1>13. Sound(r, now) /\ SameLoans(w3.rex, r)
    BY <1>1, <1>2, <1>12, BoughtGoes, SharesKeepLoans
<1> HIDE DEF r
<1>14. Votable(w4) /\ Booked(w4, now)
  <2>1. Votable(w4)
      BY <1>12, <1>13, VotableBeside
  <2>2. Booked(w4, now)
      BY <1>12, <1>13 DEF Booked, WorldFields, Coins
  <2> QED BY <2>1, <2>2
<1> HIDE DEF w4
<1>15. Votable(w5)
    BY <1>2, <1>14, RunrexVotable
<1> HIDE DEF w5
<1>16. Votable(w6)
    BY <1>15, AccountVotable
<1> QED BY <1>1, <1>16, DonePolled

\* sellrex, and an order cancelled.
LEMMA SellRexPolled ==
    ASSUME RexReady, Votable(World), NEW x \in Users, NEW amount, SellRex(x, amount) \/ CnclRexOrder(x)
    PROVE  Polled
<1>1. CASE SellRex(x, amount)
  <2> DEFINE w1 == runrex(World, 2, now)
             w2 == Matured(w1, x)
             outcome == fill_rex_order(w2.rex, x, amount)
             w3 == [w2 EXCEPT !.rex = outcome.rex]
             w4 == update_rex_account(w3, x, outcome.proceeds, outcome.stake_change, FALSE, now)
             r == Queue(w4.rex, x, amount)
             w5 == [w4 EXCEPT !.rex = r]
  <2>1. Done(w4, x) \/ Done(w5, x)
    <3>1. SellRexDone(w4, x, amount, outcome.success)
        BY <1>1, Zenon DEF SellRex, SellRexFrom, SellRexOutcome
    <3> HIDE DEF w4, outcome
    <3> QED BY <3>1, Zenon DEF SellRexDone
  <2>2. Votable(w1)
      BY MaintenanceVotable
  <2> HIDE DEF w1
  <2>3. Votable(w2) /\ SameLoans(w2.rex, outcome.rex)
      BY <2>2, BalanceVotable, SharesKeepLoans
  <2> HIDE DEF w2, outcome
  <2>4. Votable(w3)
      BY <2>3, VotableBeside
  <2> HIDE DEF w3
  <2>5. Votable(w4) /\ SameLoans(w4.rex, r)
      BY <2>4, AccountVotable, FundsKeepLoans
  <2> HIDE DEF w4, r
  <2>6. Votable(w5)
      BY <2>5, VotableBeside
  <2> HIDE DEF w5
  <2> QED BY <2>1, <2>5, <2>6, DonePolled
<1>2. CASE CnclRexOrder(x)
  <2> DEFINE t == Erase(World.rex.orders, x)
             w == [World EXCEPT !.rex.orders = t]
             r == [World.rex EXCEPT !.orders = t]
  <2>1. Become(w)
      BY <1>2, Zenon DEF CnclRexOrder
  <2> HIDE DEF t
  <2>2. w = [World EXCEPT !.rex = r]
      BY DEF World
  <2>3. SameLoans(World.rex, r)
      BY LoansBeside
  <2> HIDE DEF r, w
  <2>4. Votable(w)
      BY <2>2, <2>3, VotableBeside
  <2> QED BY <2>1, <2>4, DonePolled
<1> QED BY <1>1, <1>2

\* What rentcpu and rentnet make of the exchange.
Renting(r, x, both, payment, rented, loan, ct) ==
    AddLoan(add_loan_to_rex_pool(transfer_from_fund(r, x, both), payment, rented, TRUE, ct), loan)

\* A loan gets a new number.
LEMMA RentedLoans ==
    ASSUME NEW ct, Clock(ct), NEW r, Sound(r, ct), NEW x, NEW both \in Nat, CanTransferFromFund(r, x, both),
           NEW payment \in Nat \ {0}, NEW rented, NEW loan,
           NEW num, num = r.pool.loan_num + 1,
           NEW q, q = Renting(r, x, both, payment, rented, loan, ct)
    PROVE  DOMAIN q = RexFields /\ num \notin DOMAIN r.loans /\ q.loans = Put(r.loans, num, loan)
<1> DEFINE r1 == transfer_from_fund(r, x, both)
           r2 == add_to_rex_return_pool(r1, payment, ct)
           new_loan == TRUE
           p  == Lent(r2.pool, payment, rented, new_loan)
           r3 == [r2 EXCEPT !.pool = p]
<1>1. Sound(r1, ct) /\ r1.pool = r.pool /\ r1.loans = r.loans
    BY FundGoes DEF Goes, transfer_from_fund, Sound, RexFields
<1> HIDE DEF r1
<1>2. Returned(r1, r2, payment, ct)
    BY <1>1, AddReturned DEF Sound
<1> HIDE DEF r2
<1>3. DOMAIN r2 = RexFields /\ r2.pool.loan_num = r.pool.loan_num /\ r2.loans = r.loans
      /\ DOMAIN r2.pool = PoolFields
    BY <1>1, <1>2 DEF Returned, SamePool, PoolSound
<1>4. p.loan_num = num
    BY <1>3 DEF Lent, PoolFields
<1>5. num \notin DOMAIN r.loans
    BY DEF Sound, LoansSound, PoolSound
<1>6. add_loan_to_rex_pool(r1, payment, rented, new_loan, ct) = r3
    BY Zenon DEF add_loan_to_rex_pool, r2
<1> HIDE DEF p
<1>7. DOMAIN AddLoan(r3, loan) = RexFields /\ AddLoan(r3, loan).loans = Put(r.loans, num, loan)
    BY <1>3, <1>4 DEF AddLoan, RexFields
<1> HIDE DEF r3
<1>8. q = AddLoan(add_loan_to_rex_pool(r1, payment, rented, new_loan, ct), loan)
    BY Zenon DEF Renting, r1
<1> HIDE DEF new_loan
<1> QED BY <1>5, <1>6, <1>7, <1>8

\* rentcpu and rentnet.
LEMMA RentRexPolled ==
    ASSUME RexReady, Votable(World), NEW kind \in Kinds, NEW x \in Users, NEW receiver \in Users,
           NEW payment \in Nat, NEW fund \in Nat, RentRex(kind, x, receiver, payment, fund)
    PROVE  Polled
<1> DEFINE w == runrex(World, 2, now)
           rented == RentedTokens(w.rex.pool, payment)
           loan == [kind |-> kind, from |-> x, receiver |-> receiver, payment |-> payment,
                    balance |-> fund, total_staked |-> rented, expiration |-> now + Term]
           both == payment + fund
           r == AddLoan(add_loan_to_rex_pool(transfer_from_fund(w.rex, x, both),
                                             payment, rented, TRUE, now), loan)
           u == [w EXCEPT !.rex = r]
           net == IF kind = "net" THEN rented ELSE 0
           cpu == IF kind = "cpu" THEN rented ELSE 0
           v == update_resource_limits(u, receiver, net, cpu)
<1>1. /\ payment > 0 /\ rex_loans_available(w.rex)
      /\ CanTransferFromFund(w.rex, x, both) /\ payment < rented /\ Done(v, x)
    BY Zenon DEF RentRex, RentRexFrom, RentTokens
<1>2. Clock(now) /\ Booked(World, now) /\ now \in Nat
    BY ReadyBooked
<1>3. Booked(w, now) /\ Votable(w)
    BY MaintenanceComes, MaintenanceVotable
<1> HIDE DEF w
<1>4. /\ DOMAIN loan = LoanFields /\ loan.payment = payment /\ loan.balance = fund
      /\ loan.total_staked = rented /\ loan.expiration \in Int
      /\ loan.receiver = receiver /\ loan.kind = kind
  <2>1. now + Term \in Int
      BY <1>2, RexAssumption DEF Term
  <2> HIDE DEF rented
  <2> QED BY <2>1 DEF LoanFields
<1>5. payment \in Nat \ {0} /\ rented = RentedTokens(w.rex.pool, payment) /\ both \in Nat
    BY <1>1
<1> HIDE DEF rented, loan
<1>6. Sound(r, now)
    BY <1>1, <1>2, <1>3, <1>4, <1>5, RentGoes DEF Booked, Goes
<1> DEFINE num == w.rex.pool.loan_num + 1
<1>7. DOMAIN r = RexFields /\ num \notin DOMAIN w.rex.loans /\ r.loans = Put(w.rex.loans, num, loan)
  <2>1. Sound(w.rex, now) /\ both \in Nat /\ CanTransferFromFund(w.rex, x, both)
      BY <1>1, <1>3, <1>5 DEF Booked
  <2> HIDE DEF both
  <2>2. r = Renting(w.rex, x, both, payment, rented, loan, now)
      BY Zenon DEF Renting
  <2> HIDE DEF r, num
  <2>3. num = w.rex.pool.loan_num + 1
      BY DEF num
  <2>4. Clock(now) /\ payment \in Nat \ {0}
      BY <1>2, <1>5
  <2> QED BY <2>1, <2>2, <2>3, <2>4, RentedLoans, SMTT(60)
<1> HIDE DEF r, both, num
<1>8. rented \in Int
  <2>1. num \in DOMAIN r.loans /\ r.loans[num] = loan
      BY <1>7 DEF Put
  <2> QED BY <1>4, <1>6, <2>1 DEF Sound, LoansSound, LoanSound
<1>9. /\ IntField(w.rex.loans, "total_staked") /\ Resourced(w.bw, w.rex, w.elect)
      /\ DOMAIN w = WorldFields /\ Proxies(w.elect)
    BY <1>3, BookedLoans DEF Votable
<1>10. \A y, k : Sum(LoansTo(r, y, k), "total_staked")
                   = Sum(LoansTo(w.rex, y, k), "total_staked")
                       + (IF y = receiver /\ k = kind THEN rented ELSE 0)
  <2>1. FieldAt(w.rex.loans, num, "total_staked") = 0
      BY <1>7 DEF FieldAt
  <2>2. loan.total_staked - FieldAt(w.rex.loans, num, "total_staked") = rented
      BY <1>4, <1>8, <2>1
  <2>3. loan.total_staked \in Int
      BY <1>4, <1>8
  <2>4. \A y, k : Sum(LoansTo(r, y, k), "total_staked")
                    = Sum(LoansTo(w.rex, y, k), "total_staked")
                        + (IF y = loan.receiver /\ k = loan.kind
                           THEN loan.total_staked - FieldAt(w.rex.loans, num, "total_staked") ELSE 0)
      BY <1>7, <1>9, <2>3, LoanPutLent
  <2> QED BY <1>4, <2>2, <2>4, Zenon
<1>11. Short(w.bw, r, receiver, net, cpu)
    BY <1>8, <1>9, <1>10, LentShort
<1>12. net \in Int /\ cpu \in Int
    BY <1>8
<1> HIDE DEF net, cpu
<1>13. Wanting(u, receiver, net, cpu)
    BY <1>7, <1>9, <1>11 DEF Wanting, Resourced, WorldFields
<1> HIDE DEF u
<1>14. Votable(v)
    BY <1>12, <1>13, LimitsVotable
<1> QED BY <1>1, <1>14, DonePolled

\* What is in the balance of a loan does not matter to who it is lent to.
LEMMA LoanFundedVotable ==
    ASSUME NEW w, Votable(w), IntField(w.rex.loans, "total_staked"),
           NEW num \in DOMAIN w.rex.loans, LoanSound(w.rex.loans[num]), NEW amount,
           NEW r, DOMAIN r = RexFields, r.loans = LoanFunded(w.rex, num, amount).loans
    PROVE  Votable([w EXCEPT !.rex = r])
<1> DEFINE loan == w.rex.loans[num]
           balance == loan.balance + amount
           new == [loan EXCEPT !.balance = balance]
<1>1. /\ DOMAIN w = WorldFields /\ Proxies(w.elect) /\ DOMAIN w.rex = RexFields
      /\ Resourced(w.bw, w.rex, w.elect)
    BY DEF Votable
<1>2. r.loans = [w.rex.loans EXCEPT ![num] = new]
    BY <1>1 DEF LoanFunded, RexFields
<1>3. /\ new.receiver = loan.receiver /\ new.kind = loan.kind /\ new.total_staked = loan.total_staked
      /\ loan.total_staked \in Int
  <2> HIDE DEF balance
  <2> QED BY DEF LoanSound, LoanFields
<1> HIDE DEF new
<1>4. [w.rex.loans EXCEPT ![num] = new] = Put(w.rex.loans, num, new)
    BY DEF Put
<1>5. new.total_staked - FieldAt(w.rex.loans, num, "total_staked") = 0
    BY <1>3 DEF FieldAt
<1>6. \A y, k : LET before == Sum(LoansTo(w.rex, y, k), "total_staked")
                IN  before \in Int /\ Sum(LoansTo(r, y, k), "total_staked") = before
  <2>1. new.total_staked \in Int
      BY <1>3
  <2>2. r.loans = Put(w.rex.loans, num, new)
      BY <1>2, <1>4
  <2> DEFINE gain == new.total_staked - FieldAt(w.rex.loans, num, "total_staked")
  <2>3. \A y, k : /\ Sum(LoansTo(w.rex, y, k), "total_staked") \in Int
                  /\ Sum(LoansTo(r, y, k), "total_staked")
                       = Sum(LoansTo(w.rex, y, k), "total_staked")
                           + (IF y = new.receiver /\ k = new.kind THEN gain ELSE 0)
    <3>1. /\ w.rex.loans[num].receiver = new.receiver /\ w.rex.loans[num].kind = new.kind
          /\ IntField(w.rex.loans, "total_staked")
        BY <1>3
    <3> QED BY <2>1, <2>2, <3>1, LoanPutLent, SMTT(60)
  <2> HIDE DEF gain
  <2>4. gain = 0
      BY <1>5 DEF gain
  <2> QED BY <2>3, <2>4
<1>7. \A y \in Users : Lacks(w.bw, r, y, 0, 0)
  <2>1. \A y, k : Usable(w.bw, r, y, k) = Usable(w.bw, w.rex, y, k)
      BY <1>6, Zenon DEF Usable
  <2> QED BY <1>1, <2>1, Zenon DEF Resourced, Lacks
<1>8. Resourced(w.bw, r, w.elect)
    BY <1>1, <1>7 DEF Resourced
<1> QED BY <1>1, <1>8 DEF Votable, WorldFields

\* fundcpuloan, fundnetloan, defcpuloan and defnetloan.
LEMMA LoanFundsPolled ==
    ASSUME RexReady, Votable(World), NEW kind, NEW x, NEW num, NEW amount,
           FundLoan(kind, x, num, amount) \/ DefundLoan(kind, x, num, amount)
    PROVE  Polled
<1> DEFINE f == transfer_from_fund(rex, x, amount)
           r == LoanFunded(f, num, amount)
           g == LoanFunded(rex, num, - amount)
           q == transfer_to_fund(g, x, amount)
<1>0. World.rex = rex /\ Booked(World, now) /\ DOMAIN rex = RexFields
    BY ReadyBooked DEF Sound
<1>1. num \in DOMAIN rex.loans /\ (Become([World EXCEPT !.rex = r]) \/ Become([World EXCEPT !.rex = q]))
    BY <1>0, Zenon DEF FundLoan, DefundLoan, IsLoanOf
<1>2. DOMAIN r = RexFields /\ r.loans = LoanFunded(rex, num, amount).loans
    BY <1>0 DEF LoanFunded, transfer_from_fund, RexFields
<1>3. DOMAIN q = RexFields /\ q.loans = g.loans
  <2>1. DOMAIN g = RexFields
      BY <1>0 DEF LoanFunded, RexFields
  <2> HIDE DEF g
  <2> QED BY <2>1, FundsKeepLoans DEF SameLoans
<1> HIDE DEF r, q
<1>4. IntField(rex.loans, "total_staked") /\ LoanSound(rex.loans[num])
    BY <1>0, <1>1, BookedLoans
<1>5. Votable([World EXCEPT !.rex = r]) /\ Votable([World EXCEPT !.rex = q])
    BY <1>0, <1>1, <1>2, <1>3, <1>4, LoanFundedVotable
<1> QED BY <1>1, <1>5, DonePolled

\* updaterex.
LEMMA UpdateRexPolled ==
    ASSUME RexReady, Votable(World), NEW x \in Users, UpdateRex(x)
    PROVE  Polled
<1> DEFINE w1 == runrex(World, 2, now)
           stake == WorthNow(w1.rex, x)
           w2 == [w1 EXCEPT !.rex.balances[x].vote_stake = stake]
           delta == stake - w1.rex.balances[x].vote_stake
           w3 == update_rex_account(w2, x, 0, delta, TRUE, now)
           w4 == Matured(w3, x)
<1>1. Done(w4, x)
    BY Zenon DEF UpdateRex, UpdateRexFrom, Revalued
<1>2. Votable(w1)
    BY MaintenanceVotable
<1> HIDE DEF w1, stake
<1>3. Votable(w2)
    BY <1>2, BalanceVotable
<1> HIDE DEF w2, delta
<1>4. Votable(w3)
    BY <1>3, AccountVotable
<1> HIDE DEF w3
<1>5. Votable(w4)
    BY <1>4, BalanceVotable
<1> QED BY <1>1, <1>5, DonePolled

\* setrex and rexexec.
LEMMA RexExecPolled ==
    ASSUME RexReady, Votable(World)
    PROVE  /\ \A balance : SetRex(balance) => Polled
           /\ \A max \in Nat : RexExec(max) => Polled
<1>1. ASSUME NEW balance, SetRex(balance)
      PROVE  Polled
  <2> DEFINE p == [World.rex.pool EXCEPT !.total_rent = balance]
             r == [World.rex EXCEPT !.pool = p]
             w == [World EXCEPT !.rex = r]
  <2>1. Become(w)
    <3>1. w = [World EXCEPT !.rex.pool.total_rent = balance]
        BY DEF World
    <3> HIDE DEF w
    <3> QED BY <1>1, <3>1 DEF SetRex
  <2>2. SameLoans(World.rex, r)
    <3> HIDE DEF p
    <3> QED BY LoansBeside
  <2> HIDE DEF r
  <2>3. Votable(w)
      BY <2>2, VotableBeside
  <2> QED BY <2>1, <2>3, DonePolled
<1>2. ASSUME NEW max \in Nat, RexExec(max)
      PROVE  Polled
    BY <1>2, MaintenanceVotable, DonePolled DEF RexExec
<1> QED BY <1>1, <1>2

\* consolidate and mvtosavings.
LEMMA SavingsPolled ==
    ASSUME RexReady, Votable(World), NEW x \in Users, NEW amount, Consolidate(x) \/ MvToSavings(x, amount)
    PROVE  Polled
<1> DEFINE w1 == runrex(World, 2, now)
           w2 == Maintained(x)
           b == consolidate_rex_balance(w2.rex.balances[x], SellOrder(w2.rex, x), now)
           c == MoveToSavings(process_rex_maturities(w2.rex.balances[x], now), amount)
<1>1. Votable(w2)
  <2>1. w2 = update_rex_account(w1, x, 0, 0, FALSE, now)
      BY Zenon DEF Maintained
  <2>2. Votable(w1)
      BY MaintenanceVotable
  <2> HIDE DEF w1, w2
  <2> QED BY <2>1, <2>2, AccountVotable
<1>2. Done([w2 EXCEPT !.rex.balances[x] = b], x) \/ Done([w2 EXCEPT !.rex.balances[x] = c], x)
    BY Zenon DEF Consolidate, ConsolidateFrom, MvToSavings, SettledMvToSavings, MvToSavingsFrom, SaveRex
<1> HIDE DEF w2, b, c
<1> QED BY <1>1, <1>2, BalanceVotable, DonePolled

\* mvfrsavings.
LEMMA MvFrSavingsPolled ==
    ASSUME RexReady, Votable(World), NEW x \in Users, NEW amount, MvFrSavings(x, amount)
    PROVE  Polled
<1> DEFINE w1 == runrex(World, 2, now)
           w2 == Matured(w1, x)
           b == FromSavings(w2.rex.balances[x], amount, now)
           w3 == [w2 EXCEPT !.rex.balances[x] = b]
           w4 == update_rex_account(w3, x, 0, 0, FALSE, now)
<1>1. Done(w4, x)
    BY Zenon DEF MvFrSavings, MvFrSavingsFrom
<1>2. Votable(w1)
    BY MaintenanceVotable
<1> HIDE DEF w1
<1>3. Votable(w2)
    BY <1>2, BalanceVotable
<1> HIDE DEF w2, b
<1>4. Votable(w3)
    BY <1>3, BalanceVotable
<1> HIDE DEF w3
<1>5. Votable(w4)
    BY <1>4, AccountVotable
<1> QED BY <1>1, <1>5, DonePolled

\* closerex.
LEMMA CloseRexPolled ==
    ASSUME RexReady, Votable(World), NEW x \in Users, CloseRex(x)
    PROVE  Polled
<1> DEFINE w1 == IF rex.pool.exists THEN runrex(World, 2, now) ELSE World
           w2 == update_rex_account(w1, x, 0, 0, FALSE, now)
           f == IF Unused(w2.rex, x) THEN Erase(w2.rex.funds, x) ELSE w2.rex.funds
           b == Erase(w2.rex.balances, x)
           r == [w2.rex EXCEPT !.funds = f, !.balances = b]
           w3 == [w2 EXCEPT !.rex.funds = f, !.rex.balances = b]
<1>1. Done(w3, x)
    BY Zenon DEF CloseRex, CloseRexFrom
<1>2. Votable(w1)
    BY MaintenanceVotable
<1> HIDE DEF w1
<1>3. Votable(w2)
    BY <1>2, AccountVotable
<1> HIDE DEF w2, f, b
<1>4. Votable(w3)
  <2>1. w3 = [w2 EXCEPT !.rex = r]
      BY <1>3 DEF Votable, WorldFields, RexFields
  <2>2. SameLoans(w2.rex, r)
      BY DEF SameLoans, RexFields
  <2> HIDE DEF r, w3
  <2> QED BY <1>3, <2>1, <2>2, VotableBeside
<1> QED BY <1>1, <1>4, DonePolled

-----------------------------------------------------------------------------
\* The other actions.

\* voteproducer: a proxy that is chosen is one, and its voter is none.
LEMMA VotePolled ==
    ASSUME Votable(World), NEW x \in Users, NEW proxy, NEW producers, VoteProducer(x, proxy, producers)
    PROVE  Polled
<1> DEFINE w == update_rex_stake(World, x)
           e == update_votes(w.elect, x, proxy, producers, now)
           u == [w EXCEPT !.elect = e]
<1>1. Become(u) /\ CanVote(w.elect, x, proxy, producers, TRUE)
    BY Zenon DEF VoteProducer
<1>2. Votable(w)
    BY RexStakeVotable
<1> HIDE DEF w
<1>3. x \in DOMAIN w.elect.voters /\ Choosable(w.elect, x, proxy)
    BY <1>1 DEF CanVote, Choosable
<1>4. Proxies(e) /\ SameManaged(w.elect, e)
    BY <1>2, <1>3, NobodyNoUser, UpdateVotesProxies DEF Votable
<1> HIDE DEF e
<1>5. Votable(u)
    BY <1>2, <1>4, VotableBeside
<1> QED BY <1>1, <1>5, DonePolled

\* Proxies and producers.
LEMMA VoterPolled ==
    ASSUME Votable(World), NEW x \in Users, VoterStep(x) \/ ProducerStep(x)
    PROVE  Polled
<1>1. Proxies(elect) /\ World.elect = elect /\ ElectShaped(elect)
    BY DEF Votable, World, Proxies
<1>2. ASSUME NEW e, Proxies(e), SameManaged(elect, e), Become([World EXCEPT !.elect = e])
      PROVE  Polled
    BY <1>1, <1>2, VotableBeside, DonePolled
<1>3. ASSUME NEW isproxy \in BOOLEAN, RegProxy(x, isproxy)
      PROVE  Polled
  <2> DEFINE e == regproxy(elect, x, isproxy, now)
  <2>1. Become([World EXCEPT !.elect = e]) /\ CanRegProxy(elect, x, isproxy)
      BY <1>1, <1>3, Zenon DEF RegProxy
  <2>2. Proxies(e) /\ SameManaged(elect, e)
      BY <1>1, <2>1, NobodyNoUser, RegProxyProxies
  <2> HIDE DEF e
  <2> QED BY <1>2, <2>1, <2>2
<1>4. ASSUME RegProducer(x)
      PROVE  Polled
  <2> DEFINE e == register_producer(elect, x, now)
  <2>1. Become([World EXCEPT !.elect = e])
      BY <1>1, <1>4, Zenon DEF RegProducer
  <2>2. DOMAIN e = ElectionFields /\ e.voters = elect.voters
      BY <1>1 DEF register_producer, update_total_votepay_share, ElectShaped, ElectionFields
  <2> HIDE DEF e
  <2>3. Proxies(e) /\ SameManaged(elect, e)
      BY <1>1, <2>2, SameVoters
  <2> QED BY <1>2, <2>1, <2>3
<1>5. ASSUME UnregProd(x)
      PROVE  Polled
  <2> DEFINE e == deactivate(elect, x)
  <2>1. Become([World EXCEPT !.elect = e])
      BY <1>1, <1>5, Zenon DEF UnregProd
  <2>2. DOMAIN e = ElectionFields /\ e.voters = elect.voters
      BY <1>1 DEF deactivate, ElectShaped, ElectionFields
  <2> HIDE DEF e
  <2>3. Proxies(e) /\ SameManaged(elect, e)
      BY <1>1, <2>2, SameVoters
  <2> QED BY <1>2, <2>1, <2>3
<1> QED BY <1>3, <1>4, <1>5, VotePolled, Zenon DEF VoterStep, ProducerStep

\* What setalimits and setacct* make of the world.
Limiting(f, x, limits) == [World EXCEPT !.elect = f, !.bw.limits[x] = limits]

\* The limits of x are set, and it is said whether eosio manages one of them.
LEMMA SetVotable ==
    ASSUME Votable(World), NEW x \in Users, NEW f, Proxies(f),
           \A y : y # x => Managed(f, y) = Managed(elect, y),
           NEW limits, ResourceRow(limits),
           x \in DOMAIN bw.userres => Follows(bw.userres[x], limits, Managed(f, x)),
           NEW u, u = Limiting(f, x, limits)
    PROVE  Votable(u)
<1> DEFINE l == [bw.limits EXCEPT ![x] = limits]
           c == [bw EXCEPT !.limits = l]
           w == [World EXCEPT !.elect = f, !.bw = c]
<1>1. /\ World.bw = bw /\ World.rex = rex /\ World.elect = elect /\ DOMAIN World = WorldFields
      /\ DOMAIN rex = RexFields /\ Resourced(bw, rex, elect) /\ DOMAIN bw = BwFields
    BY DEF Votable, World, Resourced, BandwidthShaped
<1>2. u = w
    BY <1>1 DEF World, BwFields, Limiting
<1>3. /\ DOMAIN c = BwFields /\ c.delband = bw.delband /\ c.userres = bw.userres
      /\ c.limits = [bw.limits EXCEPT ![x] = limits]
    BY <1>1 DEF BwFields
<1> HIDE DEF c
<1>4. Resourced(c, rex, f)
    BY <1>1, <1>3, LimitsResourced, SMTT(60)
<1>5. DOMAIN w = WorldFields /\ w.elect = f /\ w.bw = c /\ w.rex = rex
    BY <1>1 DEF WorldFields
<1> HIDE DEF w
<1>6. Votable(w)
    BY <1>1, <1>4, <1>5 DEF Votable
<1> QED BY <1>2, <1>6

\* The limits of an account, and which of them are managed.
LEMMA LimitPolled ==
    ASSUME Votable(World), NEW x \in Users, LimitStep(x)
    PROVE  Polled
<1>1. /\ Proxies(elect) /\ World.elect = elect /\ ElectShaped(elect) /\ World.bw = bw
      /\ Resourced(bw, rex, elect) /\ BandwidthShaped(bw) /\ Limited(bw, elect)
    BY DEF Votable, World, Proxies, Resourced
<1>0. /\ ResourceRow(Resources(bw, x)) /\ ResourceRow(bw.limits[x])
      /\ Follows(Resources(bw, x), bw.limits[x], Managed(elect, x))
      /\ x \in DOMAIN bw.userres => bw.userres[x] = Resources(bw, x)
    BY <1>1, ResourcesType DEF Resources
<1>2. ASSUME NEW limit \in Limits, NEW net \in Limits, NEW cpu \in Limits, SetALimits(x, limit, net, cpu)
      PROVE  Polled
  <2> DEFINE row == [net |-> net, cpu |-> cpu, ram |-> limit]
             w == [World EXCEPT !.elect = elect, !.bw.limits[x] = row]
  <2>1. Become([World EXCEPT !.bw.limits[x] = row]) /\ x \notin DOMAIN bw.userres
      BY <1>2 DEF SetALimits
  <2>2. ResourceRow(row)
      BY SystemAssumption DEF ResourceRow, RowFields
  <2> HIDE DEF row
  <2>3. [World EXCEPT !.bw.limits[x] = row] = w
      BY <1>1 DEF World
  <2>4. w = Limiting(elect, x, row)
      BY Zenon DEF Limiting
  <2> HIDE DEF w
  <2>5. Votable(w)
    <3>1. /\ Proxies(elect) /\ ResourceRow(row)
          /\ \A y : y # x => Managed(elect, y) = Managed(elect, y)
          /\ x \in DOMAIN bw.userres => Follows(bw.userres[x], row, Managed(elect, x))
        BY <1>1, <2>1, <2>2, <2>4
    <3> QED BY <3>1, <2>4, SetVotable, SMTT(60)
  <2> QED BY <2>1, <2>3, <2>5, DonePolled
<1>3. ASSUME NEW resource \in {"ram", "net", "cpu"}, NEW value \in Limits, SetAcct(x, resource, value)
      PROVE  Polled
  <2> DEFINE managed == Managed(elect, x) \cup {resource}
             row == [VoterRow(elect, x) EXCEPT !.managed = managed]
             e == [elect EXCEPT !.voters = Put(@, x, row)]
             limits == [bw.limits[x] EXCEPT ![resource] = value]
             w == [World EXCEPT !.elect = e, !.bw.limits[x] = limits]
  <2>1. Become(w)
    <3>1. Become([World EXCEPT !.elect.voters = Put(@, x, row), !.bw.limits[x][resource] = value])
        BY <1>3 DEF SetAcct
    <3> HIDE DEF row
    <3>2. w = [World EXCEPT !.elect.voters = Put(@, x, row), !.bw.limits[x][resource] = value]
        BY DEF World
    <3> QED BY <3>1, <3>2
  <2>e. e = [elect EXCEPT !.voters = Put(@, x, row)] /\ row = [VoterRow(elect, x) EXCEPT !.managed = managed]
      OBVIOUS
  <2> HIDE DEF e, row
  <2>2. Proxies(e) /\ \A y : Managed(e, y) = IF y = x THEN managed ELSE Managed(elect, y)
    <3> HIDE DEF managed
    <3> QED BY <1>1, <2>e, NobodyNoUser, RowManaged
  <2>3. ResourceRow(limits) /\ \A k \in RowFields \ {resource} : limits[k] = bw.limits[x][k]
    <3>1. value \in Int
        BY SystemAssumption
    <3> QED BY <1>0, <3>1 DEF ResourceRow, RowFields
  <2> HIDE DEF limits
  <2>4. Follows(Resources(bw, x), limits, Managed(e, x))
    <3>1. Managed(e, x) = managed
        BY <2>2
    <3> QED BY <1>0, <2>3, <3>1 DEF Follows, RowFields
  <2>5. w = Limiting(e, x, limits)
      BY Zenon DEF Limiting
  <2> HIDE DEF w
  <2>6. Votable(w)
    <3>1. /\ Proxies(e) /\ ResourceRow(limits)
          /\ \A y : y # x => Managed(e, y) = Managed(elect, y)
          /\ x \in DOMAIN bw.userres => Follows(bw.userres[x], limits, Managed(e, x))
        BY <1>0, <2>2, <2>3, <2>4, <2>5
    <3> QED BY <3>1, <2>5, SetVotable, SMTT(60)
  <2> QED BY <2>1, <2>6, DonePolled
<1>4. ASSUME NEW resource \in {"ram", "net", "cpu"}, UnsetAcct(x, resource) PROVE Polled
  <2> DEFINE own == Resources(bw, x)[resource]
             value == IF resource = "ram" THEN own + ram_gift_bytes ELSE own
             managed == elect.voters[x].managed \ {resource}
             row == [VoterRow(elect, x) EXCEPT !.managed = managed]
             e == [elect EXCEPT !.voters[x] = row]
             f == [elect EXCEPT !.voters = Put(@, x, row)]
             limits == [bw.limits[x] EXCEPT ![resource] = value]
             w == [World EXCEPT !.elect = e, !.bw.limits[x] = limits]
  <2>1. x \in DOMAIN elect.voters /\ VoterRow(elect, x) = elect.voters[x]
        /\ Managed(elect, x) = elect.voters[x].managed
      BY <1>4 DEF UnsetAcct, Managed, VoterRow
  <2>2. Become(w)
    <3>1. Become([World EXCEPT !.elect.voters[x].managed = @ \ {resource},
                               !.bw.limits[x][resource] = value])
        BY <1>4 DEF UnsetAcct
    <3> HIDE DEF value
    <3>2. w = [World EXCEPT !.elect.voters[x].managed = @ \ {resource},
                            !.bw.limits[x][resource] = value]
        BY <2>1 DEF World
    <3> QED BY <3>1, <3>2
  <2>f. f = [elect EXCEPT !.voters = Put(@, x, row)] /\ row = [VoterRow(elect, x) EXCEPT !.managed = managed]
      OBVIOUS
  <2>4. e = f
    <3> HIDE DEF row
    <3> QED BY <1>1, <2>1, RowModified
  <2> HIDE DEF e, f, row
  <2>3. Proxies(f) /\ \A y : Managed(f, y) = IF y = x THEN managed ELSE Managed(elect, y)
    <3> HIDE DEF managed
    <3> QED BY <1>1, <2>f, NobodyNoUser, RowManaged
  <2>5. /\ ResourceRow(limits) /\ limits[resource] = value
        /\ \A k \in RowFields \ {resource} : limits[k] = bw.limits[x][k]
    <3>1. value \in Int
        BY <1>0, SystemAssumption DEF ResourceRow
    <3> HIDE DEF value
    <3> QED BY <1>0, <3>1 DEF ResourceRow, RowFields
  <2> HIDE DEF limits
  <2>6. Follows(Resources(bw, x), limits, Managed(e, x))
    <3>1. Managed(e, x) = Managed(elect, x) \ {resource}
        BY <2>1, <2>3, <2>4
    <3>2. own \in Int /\ ram_gift_bytes \in Int
        BY <1>0, SystemAssumption DEF ResourceRow
    <3> QED BY <1>0, <2>5, <3>1, <3>2 DEF Follows, RowFields
  <2>7. w = Limiting(e, x, limits)
      BY Zenon DEF Limiting
  <2> HIDE DEF w
  <2>8. Votable(w)
    <3>1. /\ Proxies(e) /\ ResourceRow(limits)
          /\ \A y : y # x => Managed(e, y) = Managed(elect, y)
          /\ x \in DOMAIN bw.userres => Follows(bw.userres[x], limits, Managed(e, x))
        BY <1>0, <2>3, <2>4, <2>5, <2>6, <2>7
    <3> QED BY <3>1, <2>7, SetVotable, SMTT(60)
  <2> QED BY <2>2, <2>8, DonePolled
<1> QED BY <1>2, <1>3, <1>4 DEF LimitStep

\* Refunds and their transactions are no resources.
LEMMA RefundsVotable ==
    ASSUME NEW w, Votable(w)
    PROVE  \A t : Votable([w EXCEPT !.bw.refunds = t]) /\ Votable([w EXCEPT !.bw.deferred = t])
<1> SUFFICES ASSUME NEW t
             PROVE  Votable([w EXCEPT !.bw.refunds = t]) /\ Votable([w EXCEPT !.bw.deferred = t])
    OBVIOUS
<1> DEFINE b == [w.bw EXCEPT !.refunds = t]
           c == [w.bw EXCEPT !.deferred = t]
<1>1. DOMAIN w = WorldFields /\ DOMAIN w.bw = BwFields
    BY DEF Votable, Resourced, BandwidthShaped
<1>2. /\ [w EXCEPT !.bw.refunds = t] = [w EXCEPT !.bw = b]
      /\ [w EXCEPT !.bw.deferred = t] = [w EXCEPT !.bw = c]
    BY <1>1 DEF WorldFields, BwFields
<1>3. /\ DOMAIN b = BwFields /\ b.delband = w.bw.delband
      /\ b.userres = w.bw.userres /\ b.limits = w.bw.limits
      /\ DOMAIN c = BwFields /\ c.delband = w.bw.delband
      /\ c.userres = w.bw.userres /\ c.limits = w.bw.limits
    BY <1>1 DEF BwFields
<1> HIDE DEF b, c
<1>4. Votable([w EXCEPT !.bw = b]) /\ Votable([w EXCEPT !.bw = c])
    BY <1>3, VotableBeside
<1> QED BY <1>2, <1>4

\* The tables after a stake has moved; its parts.
NewStake(b, from, receiver, net, cpu) ==
    LET old == Delegated(b, from, receiver) IN [net |-> old.net + net, cpu |-> old.cpu + cpu]

NewStakes(b, from, receiver, stake) ==
    IF stake = NoStake THEN Erase(b.delband, <<from, receiver>>)
    ELSE Put(b.delband, <<from, receiver>>, stake)

RamAfter(limits, row, managed) ==
    IF {"net", "cpu"} \subseteq managed \/ "ram" \in managed THEN limits.ram
    ELSE IF row.ram + ram_gift_bytes > limits.ram THEN row.ram + ram_gift_bytes
    ELSE limits.ram

\* A stake that moves is made up for in the resources of its receiver.
LEMMA StakeVotable ==
    ASSUME NEW ct, NEW w, Votable(w), Booked(w, ct), NEW from, NEW receiver \in Users,
           NEW net \in Int, NEW cpu \in Int
    PROVE  Votable(StakeMoved(w, from, receiver, net, cpu))
<1> DEFINE stake   == NewStake(w.bw, from, receiver, net, cpu)
           total   == Resources(w.bw, receiver)
           row     == [total EXCEPT !.net = @ + net, !.cpu = @ + cpu]
           t       == PutResources(w.bw.userres, receiver, row)
           d       == NewStakes(w.bw, from, receiver, stake)
           managed == Managed(w.elect, receiver)
           limits  == w.bw.limits[receiver]
           follow  == LimitsOf(limits, row, managed)
           ram_now == RamAfter(limits, row, managed)
           after   == [follow EXCEPT !.ram = ram_now]
           l       == [w.bw.limits EXCEPT ![receiver] = after]
           b       == [w.bw EXCEPT !.delband = d]
           c       == [b EXCEPT !.userres = t, !.limits = l]
           u       == [w EXCEPT !.bw = c]
<1>0. /\ DOMAIN w = WorldFields /\ Proxies(w.elect) /\ DOMAIN w.rex = RexFields
      /\ Resourced(w.bw, w.rex, w.elect) /\ BandwidthShaped(w.bw) /\ Limited(w.bw, w.elect)
      /\ DOMAIN w.bw = BwFields /\ StakeInts(w.bw.delband)
    BY DEF Votable, Resourced, BandwidthShaped
<1>1. StakeMoved(w, from, receiver, net, cpu) = u
  <2>1. StakeMoved(w, from, receiver, net, cpu)
          = [w EXCEPT !.bw.delband = d, !.bw.userres = t, !.bw.limits[receiver] = after]
      BY Zenon DEF StakeMoved, NewStake, NewStakes, RamAfter
  <2> HIDE DEF d, t, after
  <2>2. [w EXCEPT !.bw.delband = d, !.bw.userres = t, !.bw.limits[receiver] = after] = u
      BY <1>0 DEF WorldFields, BwFields
  <2> HIDE DEF u
  <2> QED BY <2>1, <2>2
<1>2. /\ DOMAIN stake = {"net", "cpu"} /\ stake.net \in Int /\ stake.cpu \in Int
      /\ stake.net - Delegated(w.bw, from, receiver).net = net
      /\ stake.cpu - Delegated(w.bw, from, receiver).cpu = cpu
  <2>1. Delegated(w.bw, from, receiver).net \in Int /\ Delegated(w.bw, from, receiver).cpu \in Int
      BY <1>0 DEF StakeInts, Delegated, NoStake
  <2> QED BY <2>1 DEF NewStake
<1> HIDE DEF stake
<1>3. /\ DOMAIN b = BwFields /\ b.delband = d /\ b.userres = w.bw.userres /\ b.limits = w.bw.limits
    BY <1>0 DEF BwFields
<1> HIDE DEF b
<1>4. /\ StakeInts(b.delband)
      /\ \A x, f : f \in {"net", "cpu"} =>
             LET before == Sum(StakesFor(w.bw, x), f)
                 gain == stake[f] - Delegated(w.bw, from, receiver)[f]
             IN  /\ before \in Int /\ gain \in Int
                 /\ Sum(StakesFor(b, x), f) = before + (IF x = receiver THEN gain ELSE 0)
  <2>1. \/ b.delband = Put(w.bw.delband, <<from, receiver>>, stake)
        \/ stake.net = 0 /\ stake.cpu = 0 /\ b.delband = Erase(w.bw.delband, <<from, receiver>>)
      BY <1>3 DEF NewStakes, NoStake
  <2> QED BY <1>0, <1>2, <2>1, StakePutStaked
<1> HIDE DEF d
<1>5. \A y : /\ Sum(StakesFor(b, y), "net") = Sum(StakesFor(w.bw, y), "net") + (IF y = receiver THEN net ELSE 0)
             /\ Sum(StakesFor(b, y), "cpu") = Sum(StakesFor(w.bw, y), "cpu") + (IF y = receiver THEN cpu ELSE 0)
    BY <1>2, <1>4
<1>6. Short(b, w.rex, receiver, net, cpu)
    BY <1>0, <1>3, <1>5, BookedLoans, StakedShort
<1>7. BandwidthShaped(b) /\ Limited(b, w.elect)
    BY <1>0, <1>3, <1>4 DEF BandwidthShaped, Limited
<1>8. /\ ResourceRow(total) /\ ResourceRow(limits) /\ Follows(total, limits, managed)
      /\ total = Resources(b, receiver)
    BY <1>0, <1>3, ResourcesType DEF Resources
<1>9. ResourceRow(row) /\ row.net = total.net + net /\ row.cpu = total.cpu + cpu /\ row.ram = total.ram
  <2> HIDE DEF total
  <2> QED BY <1>8 DEF ResourceRow, RowFields
<1> HIDE DEF row, managed, limits
<1>10. ResourceRow(follow) /\ follow.ram = limits.ram /\ Follows(row, follow, managed)
    BY <1>8, <1>9, LimitsOfFollow
<1> HIDE DEF follow
<1>11. ResourceRow(after) /\ Follows(row, after, managed)
  <2>1. ram_gift_bytes \in Int
      BY SystemAssumption
  <2>2. ram_now \in Int /\ ("ram" \notin managed /\ row.ram > 0 => ram_now >= row.ram + ram_gift_bytes)
      BY <1>8, <1>9, <1>10, <2>1 DEF ResourceRow, RamAfter, Follows
  <2> HIDE DEF ram_now
  <2>3. /\ DOMAIN after = RowFields /\ after.net = follow.net /\ after.cpu = follow.cpu /\ after.ram = ram_now
      BY <1>10 DEF ResourceRow, RowFields
  <2> HIDE DEF after
  <2>4. \A k \in {"net", "cpu"} : after[k] = follow[k]
      BY <2>3
  <2>5. ResourceRow(after)
      BY <1>10, <2>2, <2>3 DEF ResourceRow
  <2> QED BY <1>10, <2>2, <2>3, <2>4, <2>5 DEF Follows
<1> HIDE DEF after, t
<1>12. /\ DOMAIN c = BwFields /\ c.delband = b.delband /\ c.userres = t /\ c.limits = l
    BY <1>3 DEF BwFields
<1> HIDE DEF c
<1>13. Resourced(c, w.rex, w.elect)
  <2>1. c.userres \in {PutResources(b.userres, receiver, row), Put(b.userres, receiver, row)}
      BY <1>3, <1>12 DEF t
  <2>2. \A y \in Users : /\ y \in DOMAIN c.limits
                          /\ c.limits[y] = IF y = receiver THEN after ELSE b.limits[y]
      BY <1>0, <1>3, <1>12 DEF BandwidthShaped
  <2>3. /\ row.net = Resources(b, receiver).net + net /\ row.cpu = Resources(b, receiver).cpu + cpu
        /\ Follows(row, after, Managed(w.elect, receiver))
      BY <1>8, <1>9, <1>11 DEF managed
  <2> QED BY <1>6, <1>7, <1>9, <1>11, <1>12, <2>1, <2>2, <2>3, MadeUp, SMTT(60)
<1>14. Votable(u)
    BY <1>0, <1>13 DEF Votable, WorldFields
<1> HIDE DEF u
<1> QED BY <1>1, <1>14

\* delegatebw and undelegatebw.
LEMMA DelegatePolled ==
    ASSUME RexReady, Votable(World), NEW x \in Users, NEW receiver \in Users,
           NEW net \in Int, NEW cpu \in Int, NEW transfer,
           DelegateBw(x, receiver, net, cpu, transfer) \/ UndelegateBw(x, receiver, net, cpu)
    PROVE  Polled
<1>1. ASSUME NEW from \in Users, NEW n \in Int, NEW c \in Int, NEW give,
             changebw_from(x, from, receiver, n, c, give)
      PROVE  Polled
  <2> DEFINE to_self == ~ give /\ from = receiver
             w1 == StakeMoved(World, from, receiver, n, c)
             change == RefundFor(w1, from, n, c, to_self)
             w2 == change.w
             w3 == RefundScheduled(change, x, from)
             w4 == update_rex_stake(w3, from)
             w5 == update_voting_power(w4, from, n + c, now)
  <2>1. Become(w5)
      BY <1>1, Zenon DEF changebw_from, changebw_moved, StakeDone, WithVotes
  <2>2. Votable(w1)
    <3>1. Booked(World, now)
        BY ReadyBooked
    <3> QED BY <3>1, StakeVotable
  <2> HIDE DEF w1, to_self
  <2>3. Votable(w2)
    <3> DEFINE old == RefundOf(w1.bw, from)
               row == [net |-> Positive(old.net - n), cpu |-> Positive(old.cpu - c),
                       request_time |-> IF n < 0 \/ c < 0 THEN now ELSE old.request_time]
               t   == IF row.net + row.cpu = 0 THEN Erase(w1.bw.refunds, from)
                      ELSE Put(w1.bw.refunds, from, row)
               u   == [w1 EXCEPT !.bw.refunds = t]
    <3>1. w2 \in {w1, u}
        BY DEF RefundFor, RefundChanged, NoRefundChange
    <3> HIDE DEF t, w2
    <3>2. Votable(u)
        BY <2>2, RefundsVotable
    <3> QED BY <2>2, <3>1, <3>2
  <2> HIDE DEF change
  <2>4. Votable(w3)
    <3> DEFINE v == RefundPaid(change, x)
               d == IF change.pending THEN Put(v.bw.deferred, from, now + refund_delay_sec)
                    ELSE Erase(v.bw.deferred, from)
    <3>1. v \in {w2, Transfer(w2, x, stake_account, change.due)}
        BY DEF RefundPaid
    <3>2. Votable(v)
        BY <2>3, <3>1, TransferVotable
    <3>3. w3 = [v EXCEPT !.bw.deferred = d]
        BY DEF RefundScheduled, Schedule
    <3> HIDE DEF v, d, w3
    <3>4. Votable([v EXCEPT !.bw.deferred = d])
        BY <3>2, RefundsVotable
    <3> QED BY <3>3, <3>4
  <2> HIDE DEF w3
  <2>5. Votable(w4)
      BY <2>4, RexStakeVotable
  <2> HIDE DEF w4
  <2>6. Votable(w5)
      BY <2>5, VotingPowerVotable
  <2> QED BY <2>1, <2>6, DonePolled
<1>2. CASE DelegateBw(x, receiver, net, cpu, transfer)
  <2> DEFINE from == IF transfer THEN receiver ELSE x
  <2>1. from \in Users /\ changebw_from(x, from, receiver, net, cpu, transfer)
      BY <1>2 DEF DelegateBw, changebw
  <2> HIDE DEF from
  <2> QED BY <1>1, <2>1
<1>3. CASE UndelegateBw(x, receiver, net, cpu)
  <2> DEFINE give == FALSE
  <2>1. changebw_from(x, x, receiver, - net, - cpu, give)
      BY <1>3 DEF UndelegateBw, changebw
  <2>2. - net \in Int /\ - cpu \in Int
      OBVIOUS
  <2> HIDE DEF give
  <2> QED BY <1>1, <2>1, <2>2
<1> QED BY <1>2, <1>3

\* A refund, asked for or scheduled.
LEMMA RefundPolled ==
    ASSUME Votable(World), NEW x, Refund(x) \/ RunDeferred(x)
    PROVE  Polled
<1>1. ASSUME NEW w, Votable(w)
      PROVE  Votable(Refunded(w, x))
  <2> DEFINE t == Erase(w.bw.refunds, x)
             u == [w EXCEPT !.bw.refunds = t]
             back == w.bw.refunds[x].net + w.bw.refunds[x].cpu
  <2>1. Refunded(w, x) = Transfer(u, stake_account, x, back)
      BY DEF Refunded
  <2> HIDE DEF t, back
  <2>2. Votable(u)
      BY <1>1, RefundsVotable
  <2> HIDE DEF u
  <2> QED BY <2>1, <2>2, TransferVotable
<1> DEFINE gone == [World EXCEPT !.bw.deferred = Erase(@, x)]
<1>2. Votable(gone)
  <2> DEFINE t == Erase(World.bw.deferred, x)
  <2>1. gone = [World EXCEPT !.bw.deferred = t]
      OBVIOUS
  <2> HIDE DEF t, gone
  <2> QED BY <2>1, RefundsVotable
<1>3. Become(Refunded(World, x)) \/ Become(Refunded(gone, x)) \/ Become(gone)
    BY DEF Refund, RunDeferred
<1> HIDE DEF gone
<1> QED BY <1>1, <1>2, <1>3, DonePolled

\* The fee of a trade goes to the exchange.
LEMMA FeeVotable ==
    ASSUME NEW w, Votable(w), NEW payer, NEW fee
    PROVE  Votable(PayFee(w, payer, fee))
<1> DEFINE v == Transfer(w, payer, ramfee_account, fee)
<1>1. Votable(v)
    BY TransferVotable
<1> HIDE DEF v
<1>2. Votable(channel_to_rex(v, ramfee_account, fee, now))
    BY <1>1, ChannelVotable
<1> QED BY <1>2 DEF PayFee, v

\* RAM changes hands, and the limit follows it.
LEMMA HoldVotable ==
    ASSUME NEW w, Votable(w), NEW x \in Users, NEW bytes \in Int
    PROVE  Votable(HoldRam(w, x, bytes))
<1> DEFINE total   == Resources(w.bw, x)
           row     == [total EXCEPT !.ram = total.ram + bytes]
           t       == Put(w.bw.userres, x, row)
           managed == Managed(w.elect, x)
           old     == w.bw.limits[x]
           b       == [w.bw EXCEPT !.userres = t]
           v       == [w EXCEPT !.bw = b]
           more    == row.ram + ram_gift_bytes
           risen   == [old EXCEPT !.ram = more]
           limits  == IF "ram" \in managed THEN old ELSE risen
           l       == IF "ram" \in managed THEN w.bw.limits ELSE [w.bw.limits EXCEPT ![x] = risen]
           c       == [b EXCEPT !.limits = l]
           u       == [w EXCEPT !.bw = c]
<1>0. /\ DOMAIN w = WorldFields /\ Proxies(w.elect) /\ DOMAIN w.rex = RexFields
      /\ Resourced(w.bw, w.rex, w.elect) /\ BandwidthShaped(w.bw) /\ Limited(w.bw, w.elect)
      /\ DOMAIN w.bw = BwFields
    BY DEF Votable, Resourced, BandwidthShaped
<1>1. /\ ResourceRow(total) /\ x \in DOMAIN w.bw.limits /\ ResourceRow(old)
      /\ Follows(total, old, managed)
    BY <1>0, ResourcesType
<1>2. ResourceRow(row) /\ row.net = total.net + 0 /\ row.cpu = total.cpu + 0 /\ row.ram = total.ram + bytes
  <2> HIDE DEF total
  <2> QED BY <1>1 DEF ResourceRow, RowFields
<1>3. HoldRam(w, x, bytes) = IF "ram" \in managed THEN v ELSE [v EXCEPT !.bw.limits[x].ram = more]
  <2>1. HoldRam(w, x, bytes) = SetRamLimit([w EXCEPT !.bw.userres = t], x)
      BY Zenon DEF HoldRam
  <2> HIDE DEF row
  <2>2. [w EXCEPT !.bw.userres = t] = v
      BY <1>0 DEF WorldFields, BwFields
  <2>3. v.elect = w.elect /\ v.bw.userres[x].ram = row.ram
      BY <1>0 DEF WorldFields, BwFields, Put
  <2> HIDE DEF v, t
  <2> QED BY <2>1, <2>2, <2>3 DEF SetRamLimit
<1>4. ResourceRow(limits) /\ Follows(row, limits, managed)
  <2>1. ram_gift_bytes \in Int
      BY SystemAssumption
  <2> HIDE DEF row, managed, old
  <2>2. ResourceRow(risen) /\ risen.net = old.net /\ risen.cpu = old.cpu /\ risen.ram = more /\ more \in Int
      BY <1>1, <1>2, <2>1 DEF ResourceRow, RowFields
  <2> HIDE DEF risen
  <2>3. \A k \in {"net", "cpu"} : risen[k] = old[k] /\ row[k] = total[k]
      BY <1>1, <1>2, <2>2 DEF ResourceRow
  <2>4. row.net + row.cpu = total.net + total.cpu
      BY <1>1, <1>2 DEF ResourceRow
  <2>5. CASE "ram" \in managed
      BY <1>1, <2>3, <2>4, <2>5 DEF Follows
  <2>6. CASE "ram" \notin managed
    <3>1. ResourceRow(risen) /\ Follows(row, risen, managed)
        BY <1>1, <2>2, <2>3, <2>4, <2>6 DEF Follows
    <3> QED BY <2>6, <3>1
  <2> QED BY <2>5, <2>6
<1>5. u = IF "ram" \in managed THEN v ELSE [v EXCEPT !.bw.limits[x].ram = more]
  <2> HIDE DEF more, t, managed
  <2>1. CASE "ram" \in managed
    <3>1. l = w.bw.limits
        BY <2>1
    <3> HIDE DEF l
    <3>2. c = b
        BY <1>0, <3>1 DEF BwFields
    <3> QED BY <2>1, <3>2
  <2>2. CASE "ram" \notin managed
    <3>1. l = [w.bw.limits EXCEPT ![x] = risen]
        BY <2>2
    <3> HIDE DEF l
    <3>2. [v EXCEPT !.bw.limits[x].ram = more] = u
        BY <1>0, <3>1 DEF WorldFields, BwFields
    <3> QED BY <2>2, <3>2
  <2> QED BY <2>1, <2>2
<1>6. /\ DOMAIN c = BwFields /\ c.delband = w.bw.delband /\ c.userres = t /\ c.limits = l
    BY <1>0 DEF BwFields
<1> HIDE DEF c
<1>7. Resourced(c, w.rex, w.elect)
  <2>1. c.userres \in {PutResources(w.bw.userres, x, row), Put(w.bw.userres, x, row)}
      BY <1>6
  <2>2. \A y \in Users : y \in DOMAIN c.limits /\ c.limits[y] = IF y = x THEN limits ELSE w.bw.limits[y]
    <3> HIDE DEF risen, managed
    <3> QED BY <1>0, <1>6 DEF BandwidthShaped
  <2> HIDE DEF limits
  <2>3. Short(w.bw, w.rex, x, 0, 0)
      BY <1>0, ResourcedShort
  <2> HIDE DEF row, t, l
  <2> QED BY <1>0, <1>2, <1>4, <1>6, <2>1, <2>2, <2>3, MadeUp, SMTT(60)
<1>8. Votable(u)
    BY <1>0, <1>7 DEF Votable, WorldFields
<1> QED BY <1>3, <1>5, <1>8

\* buyram, at whatever the relay has grown to.
LEMMA BuyRamPolled ==
    ASSUME Votable(World), RamBooksOf(World, ram), now \in Nat, NEW x, NEW receiver \in Users,
           NEW quant \in Int, BuyRam(x, receiver, quant)
    PROVE  Polled
<1> DEFINE fee == Fee(quant)
           after == quant - fee
           grown == update_ram_supply(ram, now)
           sale == direct_convert(Relay(grown), "quote", after)
           out == sale.out
           w1 == Transfer(World, x, ram_account, after)
           w2 == PayFee(w1, x, fee)
           w3 == HoldRam(w2, receiver, out)
<1>1. Become(w3) /\ after > 0
    BY Zenon DEF BuyRam
<1>2. out \in Int
  <2>1. after \in Nat \ {0}
    <3>1. fee \in Int
        BY DEF Fee
    <3> HIDE DEF fee
    <3> QED BY <1>1, <3>1
  <2>2. ram \in Markets /\ RelayCovers(ram)
      BY DEF RamBooksOf
  <2>3. grown \in Markets /\ RelayCovers(grown)
      BY <2>2, UpdateRamSupply
  <2> HIDE DEF after, grown
  <2>4. sale.out \in Nat
      BY <2>1, <2>3, BuyCovers
  <2> QED BY <2>4
<1> HIDE DEF after, fee, out
<1>3. Votable(w1)
    BY TransferVotable
<1> HIDE DEF w1
<1>4. Votable(w2)
    BY <1>3, FeeVotable
<1> HIDE DEF w2
<1>5. Votable(w3)
    BY <1>2, <1>4, HoldVotable
<1> QED BY <1>1, <1>5, DonePolled

\* RAM bought or sold.
LEMMA RamPolled ==
    ASSUME Votable(World), RamBooksOf(World, ram), now \in Nat, NEW x \in Users, RamStep(x)
    PROVE  Polled
<1>1. ASSUME NEW receiver \in Users, NEW quant \in Payments, BuyRam(x, receiver, quant)
      PROVE  Polled
  <2>1. quant \in Int
      BY SystemAssumption
  <2> QED BY <1>1, <2>1, BuyRamPolled
<1>2. ASSUME NEW receiver \in Users, NEW bytes \in Bytes, BuyRamBytes(x, receiver, bytes)
      PROVE  Polled
  <2> DEFINE quant == (get_bancor_input(ram.base, ram.quote, bytes) * 200) \div 199
  <2>1. quant \in Int
      BY <1>2, BytesCost
  <2>2. BuyRam(x, receiver, quant)
      BY <1>2 DEF BuyRamBytes
  <2> HIDE DEF quant
  <2> QED BY <2>1, <2>2, BuyRamPolled
<1>3. ASSUME NEW bytes \in Bytes, SellRam(x, bytes)
      PROVE  Polled
  <2> DEFINE sale == direct_convert(Relay(update_ram_supply(ram, now)), "base", bytes)
             fee == Fee(sale.out)
             w1 == HoldRam(World, x, - bytes)
             w2 == Transfer(w1, ram_account, x, sale.out)
             w3 == PayFee(w2, x, fee)
  <2>1. Become(w3)
      BY <1>3, Zenon DEF SellRam
  <2> HIDE DEF fee, sale
  <2>2. - bytes \in Int
      BY SystemAssumption
  <2>3. Votable(w1)
      BY <2>2, HoldVotable
  <2> HIDE DEF w1
  <2>4. Votable(w2)
      BY <2>3, TransferVotable
  <2> HIDE DEF w2
  <2>5. Votable(w3)
      BY <2>4, FeeVotable
  <2> QED BY <2>1, <2>5, DonePolled
<1> QED BY <1>1, <1>2, <1>3 DEF RamStep

\* claimrewards.
LEMMA ClaimPolled ==
    ASSUME Votable(World), NEW x, ClaimRewards(x)
    PROVE  Polled
<1> DEFINE claimed == Claimed(elect, x, now)
           e == claimed.elect
           c == Issued(core, Inflation(pay, now))
           issued == [World EXCEPT !.core = c, !.elect = e]
<1>1. PICK blocks, votes :
          Become(Transfer(Transfer(issued, bpay_account, x, blocks), vpay_account, x, votes))
  <2>1. issued = [World EXCEPT !.core = Issued(@, Inflation(pay, now)), !.elect = claimed.elect]
    <3> HIDE DEF claimed
    <3> QED BY DEF World
  <2> HIDE DEF issued
  <2> QED BY <2>1, Zenon DEF ClaimRewards
<1>2. Proxies(elect) /\ ElectShaped(elect)
    BY DEF Votable, World, Proxies
<1>3. DOMAIN e = ElectionFields /\ e.voters = elect.voters
  <2>1. PICK a, b, s, f :
            e = update_total_votepay_share([elect EXCEPT !.producers = a, !.producers2 = b], now, s, f)
    <3> DEFINE p == [elect.producers[x] EXCEPT !.last_claim_time = now, !.unpaid_blocks = 0]
               a == [elect.producers EXCEPT ![x] = p]
               b == Put(elect.producers2, x, NewProducer2(now))
               g == [elect EXCEPT !.producers = a, !.producers2 = b]
    <3>1. g = [elect EXCEPT !.producers[x] = [@ EXCEPT !.last_claim_time = now, !.unpaid_blocks = 0],
                            !.producers2 = Put(@, x, NewProducer2(now))]
        OBVIOUS
    <3> HIDE DEF g
    <3>2. \E s, f : e = update_total_votepay_share(g, now, s, f)
        BY <3>1, Zenon DEF Claimed
    <3>3. g = [elect EXCEPT !.producers = a, !.producers2 = b]
        BY Zenon DEF g
    <3> HIDE DEF e, a, b
    <3> QED BY <3>2, <3>3, Zenon
  <2> HIDE DEF e
  <2> QED BY <1>2, <2>1 DEF update_total_votepay_share, ElectShaped, ElectionFields
<1> HIDE DEF e, c
<1>4. Proxies(e) /\ SameManaged(elect, e)
    BY <1>2, <1>3, SameVoters
<1>5. Votable(issued)
  <2> DEFINE v == [World EXCEPT !.core = c]
  <2>1. Votable(v) /\ v.elect = elect
    <3>1. v.elect = elect
        BY DEF World
    <3> QED BY <3>1, VotableBeside
  <2>2. issued = [v EXCEPT !.elect = e]
      OBVIOUS
  <2> HIDE DEF v, issued
  <2>3. Votable([v EXCEPT !.elect = e])
      BY <1>4, <2>1, VotableBeside
  <2> QED BY <2>2, <2>3
<1> DEFINE paid == Transfer(issued, bpay_account, x, blocks)
           w == Transfer(paid, vpay_account, x, votes)
<1>6. Become(w)
    BY <1>1
<1> HIDE DEF issued
<1>7. Votable(paid)
    BY <1>5, TransferVotable
<1> HIDE DEF paid
<1>8. Votable(w)
    BY <1>7, TransferVotable
<1> QED BY <1>6, <1>8, DonePolled

\* Bids, refunds of them and new accounts.
LEMMA NamesPolled ==
    ASSUME Votable(World), NameStep \/ Payback
    PROVE  Polled
<1>1. \A a, b, n : Become(Transfer(World, a, b, n)) => Polled
    BY TransferVotable, DonePolled
<1>2. ASSUME NEW creator, NEW name, NewAccount(creator, name)
      PROVE  Polled
  <2> DEFINE t == Put(World.bw.userres, name, NoResources)
             limits == Put(World.bw.limits, name, NoResources)
             w == [World EXCEPT !.bw.userres = t, !.bw.limits = limits]
  <2>1. Become(w)
      BY <1>2 DEF NewAccount
  <2>2. name \notin Users
      BY <1>2, SystemAssumption DEF NewAccount
  <2> DEFINE b == [bw EXCEPT !.userres = t, !.limits = limits]
  <2>3. /\ World.bw = bw /\ World.elect = elect /\ World.rex = rex /\ DOMAIN World = WorldFields
        /\ Proxies(elect) /\ DOMAIN rex = RexFields /\ Resourced(bw, rex, elect) /\ DOMAIN bw = BwFields
      BY DEF Votable, World, Resourced, BandwidthShaped
  <2>4. DOMAIN b = BwFields /\ b.delband = bw.delband /\ b.userres = t /\ b.limits = limits
      BY <2>3 DEF BwFields
  <2>5. w = [World EXCEPT !.bw = b]
    <3> HIDE DEF t, limits
    <3> QED BY <2>3 DEF World, BwFields
  <2> HIDE DEF b, w
  <2>6. \A x \in Users : x \in DOMAIN b.userres <=> x \in DOMAIN bw.userres
      BY <2>2, <2>3, <2>4 DEF Put
  <2>7. \A x \in Users : /\ x \in DOMAIN bw.userres => b.userres[x] = bw.userres[x]
                         /\ x \in DOMAIN bw.limits => x \in DOMAIN b.limits /\ b.limits[x] = bw.limits[x]
      BY <2>2, <2>3, <2>4 DEF Put
  <2>8. \A x \in DOMAIN b.userres : \/ x \in DOMAIN bw.userres /\ b.userres[x] = bw.userres[x]
                                    \/ x \notin Users /\ b.userres[x] = NoResources
    <3> DEFINE none == NoResources
    <3>1. DOMAIN b.userres = DOMAIN bw.userres \cup {name}
        BY <2>3, <2>4 DEF Put
    <3>2. \A x \in DOMAIN b.userres : b.userres[x] = IF x = name THEN none ELSE bw.userres[x]
      <4> HIDE DEF none
      <4>1. b.userres = Put(bw.userres, name, none)
          BY <2>3, <2>4 DEF none
      <4> QED BY <4>1 DEF Put
    <3> QED BY <2>2, <3>1, <3>2
  <2> HIDE DEF t, limits
  <2>9. Resourced(b, rex, elect)
    <3>1. ResourceRow(NoResources)
        BY DEF ResourceRow, NoResources, RowFields
    <3>2. BandwidthShaped(b)
        BY <2>3, <2>4, <2>7, <2>8, <3>1 DEF Resourced, BandwidthShaped
    <3>3. Limited(b, elect)
        BY <2>3, <2>6, <2>7 DEF Resourced, BandwidthShaped, Limited
    <3>4. \A y \in Users : Lacks(b, rex, y, 0, 0)
      <4>1. ASSUME NEW y \in Users, NEW kind
            PROVE  Usable(b, rex, y, kind) = Usable(bw, rex, y, kind) /\ Resources(b, y) = Resources(bw, y)
        <5>1. StakesFor(b, y) = StakesFor(bw, y)
            BY <2>4 DEF StakesFor
        <5>2. Resources(b, y) = Resources(bw, y)
            BY <2>6, <2>7 DEF Resources
        <5> QED BY <5>1, <5>2, Zenon DEF Usable
      <4>2. \A y \in Users : Lacks(bw, rex, y, 0, 0)
          BY <2>3 DEF Resourced
      <4> QED BY <4>1, <4>2, Zenon DEF Lacks
    <3> QED BY <3>2, <3>3, <3>4 DEF Resourced
  <2>10. Votable(w)
      BY <2>3, <2>5, <2>9 DEF Votable, WorldFields
  <2> QED BY <2>1, <2>10, DonePolled
<1> QED BY <1>1, <1>2, Zenon DEF NameStep, Payback, BidName, BidRefund, RunPayback

\* A block, which is counted for its producer.
LEMMA OnBlockPolled ==
    ASSUME Votable(World), NEW producer, OnBlock(producer)
    PROVE  Polled \/ UNCHANGED system
<1> DEFINE closes == /\ now - pay.last_producer_schedule_update > ScheduleInterval
                     /\ ClosesName(pay)
           high == names.bids[Highest(names)].high_bid
           r == IF closes THEN channel_namebid_to_rex(rex, high) ELSE rex
           e == CountBlock(elect, producer)
           w == [World EXCEPT !.elect = e, !.rex = r]
<1>1. Become(w) \/ UNCHANGED system
  <2>1. w = [World EXCEPT !.elect = e,
                          !.rex = IF closes THEN channel_namebid_to_rex(@, high) ELSE @]
    <3> HIDE DEF closes, e, high
    <3> QED BY DEF World
  <2> HIDE DEF w
  <2> QED BY <2>1, Zenon DEF OnBlock
<1>2. Proxies(elect) /\ ElectShaped(elect)
    BY DEF Votable, World, Proxies
<1>3. DOMAIN e = ElectionFields /\ e.voters = elect.voters
    BY <1>2 DEF CountBlock, ElectShaped, ElectionFields
<1> HIDE DEF e
<1>4. Proxies(e) /\ SameManaged(elect, e)
    BY <1>2, <1>3, SameVoters
<1>5. Votable(w)
  <2>1. World.rex = rex /\ World.elect = elect
      BY DEF World
  <2>2. SameLoans(rex, r)
    <3> DEFINE p == [rex.pool EXCEPT !.namebid_proceeds = @ + high]
               q == [rex EXCEPT !.pool = p]
    <3>1. r \in {rex, q}
      <4> HIDE DEF closes, high
      <4> QED BY DEF channel_namebid_to_rex
    <3> HIDE DEF p, r
    <3>2. SameLoans(rex, q) /\ SameLoans(rex, rex)
        BY LoansBeside
    <3> HIDE DEF q
    <3> QED BY <3>1, <3>2
  <2> HIDE DEF r
  <2> DEFINE v == [World EXCEPT !.elect = e]
  <2>3. Votable(v) /\ v.rex = rex
    <3>1. v.rex = rex
        BY DEF World
    <3> QED BY <1>4, <2>1, <3>1, VotableBeside
  <2>4. w = [v EXCEPT !.rex = r]
      OBVIOUS
  <2> HIDE DEF v, w
  <2>5. Votable([v EXCEPT !.rex = r])
      BY <2>2, <2>3, VotableBeside
  <2> QED BY <2>4, <2>5
<1> HIDE DEF w
<1> QED BY <1>1, <1>5, DonePolled

-----------------------------------------------------------------------------
\* Whatever users do,
LEMMA UserStepPolled ==
    ASSUME RexReady, SysInv, Votable(World), NEW x \in Users, UserStep(x)
    PROVE  Polled
<1>1. /\ \A a \in Amounts : a \in Nat
      /\ \A a \in Amounts \cup {0} : a \in Nat
      /\ \A a \in Stakes : a \in Int
      /\ RamBooksOf(World, ram) /\ now \in Nat
    BY SystemAssumption DEF SysInv, Books
<1>2. RexOwnerStep(x) => Polled
    BY <1>1, FundPolled, BuyRexPolled, SellRexPolled, SavingsPolled, MvFrSavingsPolled, UpdateRexPolled,
       CloseRexPolled, Zenon DEF RexOwnerStep
<1>3. \A kind \in Kinds : RexLoanStep(x, kind) => Polled
    BY <1>1, RentRexPolled, LoanFundsPolled, Zenon DEF RexLoanStep
<1>4. RexUnstakeStep(x) => Polled
    BY <1>1, UnstakeToRexPolled, Zenon DEF RexUnstakeStep
<1>5. StakeStep(x) => Polled
  <2>1. ASSUME NEW receiver \in Users, NEW net \in Stakes, NEW cpu \in Stakes, NEW transfer,
               DelegateBw(x, receiver, net, cpu, transfer) \/ UndelegateBw(x, receiver, net, cpu)
        PROVE  Polled
      BY <1>1, <2>1, DelegatePolled
  <2> QED BY <2>1, RefundPolled, Zenon DEF StakeStep
<1> QED BY <1>1, <1>2, <1>3, <1>4, <1>5, VoterPolled, RamPolled, ClaimPolled, Zenon DEF UserStep

\* and whatever else happens, voters can be ranked and resources add up.
LEMMA VotableStep ==
    ASSUME Votable(World), RexInv, SysInv, [SystemNext]_everything
    PROVE  Votable(World)'
<1>1. RexReady
    BY DEF RexReady, SysInv, Books, Shaped, World
<1>2. CASE Polled
  <2>1. PICK w : Votable(w) /\ Become(w)
      BY <1>2 DEF Polled
  <2>2. DOMAIN World' = WorldFields /\ World'.elect = w.elect /\ World'.bw = w.bw /\ World'.rex = w.rex
      BY <2>1 DEF Become, World, WorldFields
  <2> QED BY <2>1, <2>2 DEF Votable
<1>3. CASE UNCHANGED <<core, elect, bw, rex>>
  <2>1. World' = World
      BY <1>3 DEF World
  <2> QED BY <2>1, Zenon DEF Votable
<1>4. UNCHANGED system => UNCHANGED <<core, elect, bw, rex>>
    BY DEF system
<1>5. (\E x \in Users : UserStep(x)) => Polled
    BY <1>1, UserStepPolled
<1>6. NameStep \/ Payback => Polled
    BY NamesPolled
<1>7. \A max \in MaxExecs : max \in Nat
    BY SystemAssumption
<1>8. SystemAccountStep => Polled \/ UNCHANGED <<core, elect, bw, rex>>
  <2>1. RamSupplyStep \/ PaySystemStep => UNCHANGED system
      BY Zenon DEF RamSupplyStep, SetRam, SetRamRate, PaySystemStep, UpdtRevision, SetInflation, system
  <2>2. \A balance \in Amounts : SetRex(balance) => Polled
      BY <1>1, RexExecPolled
  <2> QED BY <1>4, <2>1, <2>2, LimitPolled, Zenon DEF SystemAccountStep
<1>9. ChainStep => Polled \/ UNCHANGED <<core, elect, bw, rex>>
  <2>1. Tick => UNCHANGED <<core, elect, bw, rex>>
      BY DEF Tick
  <2>2. \A max \in MaxExecs : RexExec(max) => Polled
      BY <1>1, <1>7, RexExecPolled
  <2> QED BY <1>4, <1>6, <2>1, <2>2, OnBlockPolled, Zenon DEF ChainStep
<1>10. UNCHANGED everything => UNCHANGED <<core, elect, bw, rex>>
    BY DEF everything, system
<1> QED BY <1>2, <1>3, <1>5, <1>6, <1>8, <1>9, <1>10, Zenon DEF SystemNext

\* At the launch there are no voters, no stakes and no loans.
LEMMA VotableInit ==
    ASSUME SystemInit
    PROVE  Votable(World)
<1>1. /\ elect = EmptyElection /\ bw = EmptyBandwidth /\ rex = EmptyRex
      /\ DOMAIN EmptyTable = {} /\ IsFiniteSet({})
    BY FS_EmptySet DEF SystemInit, EmptyTable
<1>2. Proxies(elect)
  <2>1. DOMAIN elect = ElectionFields /\ elect.voters = EmptyTable
      BY <1>1 DEF EmptyElection, ElectionFields
  <2>2. ElectShaped(elect)
      BY <1>1, <2>1 DEF ElectShaped
  <2>3. [x \in {} |-> 0] \in [DOMAIN elect.voters -> Nat] /\ Ranked(elect.voters, [x \in {} |-> 0])
      BY <1>1, <2>1 DEF Ranked
  <2> QED BY <2>2, <2>3 DEF Proxies
<1>3. DOMAIN rex = RexFields /\ rex.loans = EmptyTable
    BY <1>1 DEF EmptyRex, RexFields
<1>4. /\ DOMAIN bw = BwFields /\ bw.delband = EmptyTable /\ bw.userres = EmptyTable
      /\ bw.limits = [x \in Users |-> Unlimited]
    BY <1>1 DEF EmptyBandwidth, BwFields
<1>5. BandwidthShaped(bw) /\ Limited(bw, elect)
  <2>1. ResourceRow(Unlimited)
      BY DEF ResourceRow, Unlimited, RowFields
  <2> QED BY <1>1, <1>4, <2>1 DEF BandwidthShaped, StakeInts, Limited
<1>6. ASSUME NEW x \in Users
      PROVE  Lacks(bw, rex, x, 0, 0)
  <2>1. ASSUME NEW kind
        PROVE  Usable(bw, rex, x, kind) = 0
    <3>1. DOMAIN StakesFor(bw, x) = {} /\ DOMAIN LoansTo(rex, x, kind) = {}
        BY <1>1, <1>3, <1>4 DEF StakesFor, LoansTo
    <3>2. Sum(StakesFor(bw, x), kind) = 0 /\ Sum(LoansTo(rex, x, kind), "total_staked") = 0
        BY <3>1, TotalEmpty DEF Sum
    <3> QED BY <3>2 DEF Usable
  <2>2. Resources(bw, x) = NoResources
      BY <1>1, <1>4 DEF Resources
  <2> QED BY <2>1, <2>2 DEF Lacks, NoResources
<1>7. Resourced(bw, rex, elect)
    BY <1>5, <1>6 DEF Resourced
<1> QED BY <1>2, <1>3, <1>7 DEF Votable, World, WorldFields

\* Votes and resources in every behaviour.
THEOREM VotableInvariant == SystemSpec => []Votable(World)
<1>1. SystemInit => Votable(World)
    BY VotableInit
<1>2. Votable(World) /\ (RexInv /\ SysInv) /\ [SystemNext]_everything => Votable(World)'
    BY VotableStep
<1> QED BY <1>1, <1>2, RexInvariant, PTL DEF SystemSpec

\* Following proxies never leads back, so that the recursion of
\* propagate_weight_change ends (voting.cpp): a former proxy may follow one while
\* others still follow it, but nobody can come to follow who follows it, by any
\* chain of proxies and in however many votes.
THEOREM NoProxyCycleAlways == SystemSpec => []NoProxyCycle
<1>1. Votable(World) => NoProxyCycle
  <2> SUFFICES ASSUME Votable(World) PROVE NoProxyCycle
      OBVIOUS
  <2>1. Proxies(elect)
      BY DEF Votable, World
  <2> QED BY <2>1, NobodyNoUser, ChainIs DEF NoProxyCycle
<1> QED BY <1>1, VotableInvariant, PTL

\* What an account may use is what is staked for it and what is lent to it, and the
\* limits of the chain follow (ResourcesAddUp): whoever stakes for whom, turns a
\* stake into REX, or calls the operation that has renewed or closed the loan of
\* somebody else in passing (delegate_bandwidth.cpp, rex.cpp).
THEOREM ResourcesAlwaysAddUp == SystemSpec => []ResourcesAddUp
<1>1. Votable(World) => ResourcesAddUp
  <2> SUFFICES ASSUME Votable(World) PROVE ResourcesAddUp
      OBVIOUS
  <2>1. BandwidthShaped(bw) /\ Limited(bw, elect) /\ \A x \in Users : Lacks(bw, rex, x, 0, 0)
      BY DEF Votable, World, Resourced
  <2>2. ASSUME NEW x \in Users
        PROVE  /\ Resources(bw, x).net = Usable(bw, rex, x, "net")
               /\ Resources(bw, x).cpu = Usable(bw, rex, x, "cpu")
    <3>1. ResourceRow(Resources(bw, x))
        BY <2>1, ResourcesType
    <3> QED BY <2>1, <3>1 DEF Lacks, ResourceRow
  <2>3. ASSUME NEW x \in DOMAIN bw.userres
        PROVE  Follows(bw.userres[x], bw.limits[x], Managed(elect, x))
    <3>1. Follows(NoResources, bw.limits[x], Managed(elect, x))
        BY DEF Follows, NoResources
    <3> QED BY <2>1, <3>1 DEF BandwidthShaped, Limited
  <2>4. LimitsFollow
      BY <2>3, Zenon DEF LimitsFollow, Follows
  <2> QED BY <2>2, <2>4 DEF ResourcesAddUp
<1> QED BY <1>1, VotableInvariant, PTL

-----------------------------------------------------------------------------
(* What votes add up to, as long as no stake is negative.  A vote is taken *)
(* back and cast in several steps, between which the sums are those of     *)
(* other ballots than the rows of voters show: Poll says of which.         *)

\* Weights are even, as the model has them.
Even == {n \in Nat : n % 2 = 0}

\* Even numbers add up to one, and their differences are worth passing on or zero.
LEMMA EvenNumbers ==
    /\ 0 \in Even /\ Even \subseteq Nat /\ \A n \in Even : n \in Int
    /\ \A m, n \in Even : m + n \in Even /\ m - n \in Int /\ (~ Matters(m - n) => m = n)
    /\ \A m \in Nat, n \in Even : m * n \in Even
<1>1. 0 \in Even /\ Even \subseteq Nat /\ \A n \in Even : n \in Int
    BY DEF Even
<1>2. ASSUME NEW n \in Even
      PROVE  \E k \in Nat : n = 2 * k
  <2>1. n \in Nat /\ n % 2 = 0
      BY DEF Even
  <2>2. n \div 2 \in Nat /\ n = 2 * (n \div 2)
      BY <2>1
  <2> QED BY <2>2
<1>3. \A k \in Nat : 2 * k \in Even
    BY DEF Even
<1>4. ASSUME NEW m \in Even, NEW n \in Even
      PROVE  m + n \in Even /\ m - n \in Int /\ (~ Matters(m - n) => m = n)
  <2>1. PICK j \in Nat, k \in Nat : m = 2 * j /\ n = 2 * k
      BY <1>2
  <2>2. m + n = 2 * (j + k) /\ j + k \in Nat
      BY <2>1
  <2> QED BY <1>3, <2>1, <2>2 DEF Matters
<1>5. ASSUME NEW m \in Nat, NEW n \in Even
      PROVE  m * n \in Even
  <2>1. PICK k \in Nat : n = 2 * k
      BY <1>2
  <2>2. m * n = 2 * (m * k) /\ m * k \in Nat
    <3>1. m * k \in Nat
        BY TimesMonotone
    <3>2. m * (2 * k) = 2 * (m * k)
        OBVIOUS
    <3> QED BY <2>1, <3>1, <3>2
  <2> QED BY <1>3, <2>2
<1> QED BY <1>1, <1>4, <1>5

\* So do sums of them.
LEMMA SumOfEven ==
    ASSUME NEW S, IsFiniteSet(S), NEW f, \A x \in S : f[x] \in Even
    PROVE  SumFunctionOnSet(f, S) \in Even
<1> DEFINE Bad == {T \in SUBSET S : SumFunctionOnSet(f, T) \notin Even}
<1> SUFFICES ASSUME Bad # {} PROVE FALSE
    OBVIOUS
<1>0. Bad \in SUBSET (SUBSET S)
    OBVIOUS
<1>1. PICK T \in Bad : \A U \in Bad : U \subseteq T => U = T
  <2> HIDE DEF Bad
  <2> QED BY <1>0, SmallestSet
<1>2. T \in SUBSET S /\ IsFiniteSet(T) /\ SumFunctionOnSet(f, T) \notin Even
    BY <1>1, FS_Subset
<1>3. /\ T # {} => /\ Some(T) \in T
                  /\ SumFunctionOnSet(f, T) = f[Some(T)] + SumFunctionOnSet(f, T \ {Some(T)})
      /\ SumFunctionOnSet(f, {}) = 0
    BY <1>2, SumRest
<1>4. T # {}
    BY <1>2, <1>3, EvenNumbers, Zenon
<1>5. f[Some(T)] \in Even
    BY <1>2, <1>3, <1>4
<1>6. T \ {Some(T)} \notin Bad /\ T \ {Some(T)} \in SUBSET S
    BY <1>1, <1>2, <1>3, <1>4
<1>7. SumFunctionOnSet(f, T \ {Some(T)}) \in Even
    BY <1>6
<1>8. f[Some(T)] + SumFunctionOnSet(f, T \ {Some(T)}) \in Even
    BY <1>5, <1>7, EvenNumbers
<1> QED BY <1>2, <1>3, <1>4, <1>8, Zenon

\* What counts of a row of voters: whom it votes for with which weight, and whom it
\* follows, who is given which weight.
Ballot(row) == [producers |-> row.producers, weight |-> row.last_vote_weight,
                proxy |-> row.proxy, passed |-> row.last_vote_weight]

\* What a ballot gives to a producer, and to a proxy.
ForProducer(b, p) == IF p \in b.producers THEN b.weight ELSE 0
ForProxy(b, y) == IF b.proxy = y THEN b.passed ELSE 0

\* The ballots of all voters, with b for that of x.
BallotsOf(e, x, b) == [v \in DOMAIN e.voters |-> IF v = x THEN b ELSE Ballot(e.voters[v])]

\* What all of them give.
Given(V, p) == Total([v \in DOMAIN V |-> ForProducer(V[v], p)])
Followed(V, y) == Total([v \in DOMAIN V |-> ForProxy(V[v], y)])

\* Ballots with weights that count.
EvenBallot(b) == b.weight \in Even /\ b.passed \in Even

\* Finitely many of them.
EvenBallots(V) == IsFiniteSet(DOMAIN V) /\ \A v \in DOMAIN V : EvenBallot(V[v])

\* What they give is even as well, and changes with one ballot by what this one gives.
LEMMA BallotChange ==
    ASSUME NEW V, EvenBallots(V)
    PROVE  /\ \A p : Given(V, p) \in Even /\ Followed(V, p) \in Even
           /\ \A W, y : /\ DOMAIN W = DOMAIN V /\ y \in DOMAIN V /\ EvenBallot(W[y])
                        /\ \A v \in DOMAIN V : v # y => W[v] = V[v]
                        => /\ EvenBallots(W)
                           /\ \A p : /\ Given(W, p) = Given(V, p) - ForProducer(V[y], p) + ForProducer(W[y], p)
                                     /\ Followed(W, p) = Followed(V, p) - ForProxy(V[y], p) + ForProxy(W[y], p)
<1> DEFINE D == DOMAIN V
           G(U, p) == [v \in DOMAIN U |-> ForProducer(U[v], p)]
           F(U, p) == [v \in DOMAIN U |-> ForProxy(U[v], p)]
<1>0. IsFiniteSet(D) /\ Even \subseteq Int /\ 0 \in Even
    BY EvenNumbers DEF EvenBallots
<1>1. ASSUME NEW b, EvenBallot(b), NEW p
      PROVE  ForProducer(b, p) \in Even /\ ForProxy(b, p) \in Even
    BY <1>1, EvenNumbers DEF EvenBallot, ForProducer, ForProxy
<1>2. \A U, p : /\ Given(U, p) = SumFunctionOnSet(G(U, p), DOMAIN U)
                /\ Followed(U, p) = SumFunctionOnSet(F(U, p), DOMAIN U)
    BY TotalIs DEF Given, Followed, Total
<1>3. ASSUME NEW p
      PROVE  Given(V, p) \in Even /\ Followed(V, p) \in Even
  <2> DEFINE g == G(V, p)
             f == F(V, p)
  <2>1. \A v \in D : g[v] \in Even /\ f[v] \in Even
      BY <1>1 DEF EvenBallots
  <2>2. Given(V, p) = SumFunctionOnSet(g, D) /\ Followed(V, p) = SumFunctionOnSet(f, D)
      BY <1>2
  <2> HIDE DEF g, f
  <2> QED BY <1>0, <2>1, <2>2, SumOfEven
<1>4. ASSUME NEW W, NEW y \in D, DOMAIN W = D, EvenBallot(W[y]), \A v \in D : v # y => W[v] = V[v]
      PROVE  /\ EvenBallots(W)
             /\ \A p : /\ Given(W, p) = Given(V, p) - ForProducer(V[y], p) + ForProducer(W[y], p)
                       /\ Followed(W, p) = Followed(V, p) - ForProxy(V[y], p) + ForProxy(W[y], p)
  <2>1. EvenBallots(W)
      BY <1>4 DEF EvenBallots
  <2>2. ASSUME NEW p
        PROVE  /\ Given(W, p) = Given(V, p) - ForProducer(V[y], p) + ForProducer(W[y], p)
               /\ Followed(W, p) = Followed(V, p) - ForProxy(V[y], p) + ForProxy(W[y], p)
    <3> DEFINE g == G(V, p)
               h == G(W, p)
               f == F(V, p)
               k == F(W, p)
    <3>1. /\ \A v \in D : g[v] \in Int /\ h[v] \in Int /\ (v # y => g[v] = h[v])
          /\ \A v \in D : f[v] \in Int /\ k[v] \in Int /\ (v # y => f[v] = k[v])
          /\ g[y] = ForProducer(V[y], p) /\ h[y] = ForProducer(W[y], p)
          /\ f[y] = ForProxy(V[y], p) /\ k[y] = ForProxy(W[y], p)
      <4>1. \A v \in D : /\ g[v] = ForProducer(V[v], p) /\ h[v] = ForProducer(W[v], p)
                         /\ f[v] = ForProxy(V[v], p) /\ k[v] = ForProxy(W[v], p)
          BY <1>4
      <4>2. \A v \in D : EvenBallot(V[v]) /\ EvenBallot(W[v])
          BY <1>4, <2>1 DEF EvenBallots
      <4>3. \A v \in D : g[v] \in Even /\ h[v] \in Even /\ f[v] \in Even /\ k[v] \in Even
          BY <1>1, <4>1, <4>2
      <4> HIDE DEF g, h, f, k
      <4>4. \A v \in D : v # y => g[v] = h[v] /\ f[v] = k[v]
          BY <1>4, <4>1
      <4> QED BY <1>0, <4>1, <4>3, <4>4
    <3>2. /\ Given(V, p) = SumFunctionOnSet(g, D) /\ Followed(V, p) = SumFunctionOnSet(f, D)
          /\ Given(W, p) = SumFunctionOnSet(h, D) /\ Followed(W, p) = SumFunctionOnSet(k, D)
        BY <1>2, <1>4
    <3> HIDE DEF g, h, f, k
    <3> DEFINE S == D
    <3>3. /\ IsFiniteSet(S) /\ y \in S
          /\ \A v \in S : g[v] \in Int /\ h[v] \in Int /\ (v # y => g[v] = h[v])
          /\ \A v \in S : f[v] \in Int /\ k[v] \in Int /\ (v # y => f[v] = k[v])
        BY <1>0, <1>4, <3>1
    <3> HIDE DEF S
    <3>4. SumFunctionOnSet(h, S) = SumFunctionOnSet(g, S) - g[y] + h[y]
        BY <3>3, SumChange
    <3>5. SumFunctionOnSet(k, S) = SumFunctionOnSet(f, S) - f[y] + k[y]
        BY <3>3, SumChange
    <3> QED BY <3>1, <3>2, <3>4, <3>5 DEF S
  <2> QED BY <2>1, <2>2
<1> QED BY <1>3, <1>4

\* The producers of an election, and their votes.
ProducerFields == {"total_votes", "is_active", "unpaid_blocks", "last_claim_time"}

\* The votes of each producer.
VotesOf(e) == [p \in DOMAIN e.producers |-> e.producers[p].total_votes]

\* Producers are users, and their rows have these fields.
ProducersShaped(e) ==
    /\ DOMAIN e.producers \subseteq Users
    /\ \A p \in DOMAIN e.producers : DOMAIN e.producers[p] = ProducerFields

\* Rows of a producer that differ in its votes only.
SameProducer(a, b) ==
    /\ DOMAIN b = ProducerFields
    /\ a.is_active = b.is_active /\ a.unpaid_blocks = b.unpaid_blocks
    /\ a.last_claim_time = b.last_claim_time

\* The whole number of votes is that of the producers.
Whole(e) ==
    /\ \A p \in DOMAIN e.producers : e.producers[p].total_votes \in Int
    /\ e.total_producer_vote_weight = Total(VotesOf(e))

\* What a change of votes holds for one producer.
DeltaAt(delta, p) == IF p \in DOMAIN delta THEN delta[p] ELSE 0

\* The votes of all producers change by delta, and nothing else of them does.
Elected(e, f, delta) ==
    /\ DOMAIN f.producers = DOMAIN e.producers
    /\ \A p \in DOMAIN e.producers :
           /\ SameProducer(e.producers[p], f.producers[p])
           /\ f.producers[p].total_votes = e.producers[p].total_votes + DeltaAt(delta, p)

\* A count of votes: every producer gets its own, and the sum follows.
LEMMA ChangeVotesCounts ==
    ASSUME NEW e, ElectShaped(e), ProducersShaped(e), Whole(e), NEW ct,
           NEW delta, DOMAIN delta \subseteq DOMAIN e.producers, \A p \in DOMAIN delta : delta[p] \in Int,
           NEW clamped \in BOOLEAN,
           clamped => \A p \in DOMAIN e.producers : e.producers[p].total_votes + DeltaAt(delta, p) >= 0
    PROVE  LET f == ChangeVotes(e, ct, delta, clamped)
           IN  Elected(e, f, delta) /\ Whole(f) /\ ProducersShaped(f)
<1> DEFINE P == DOMAIN e.producers
           counted == DOMAIN delta \cap P
           sharing == counted \cap DOMAIN e.producers2
           late == Late(e, sharing, ct)
           a == VotesChanged(e, delta, counted, clamped)
           b == SharesUpdated(e, ct, sharing, late)
           c == TotalOf(delta, counted)
           g == [e EXCEPT !.producers = a, !.producers2 = b, !.total_producer_vote_weight = @ + c]
           m == - MapThenSumSet(LAMBDA p : EarnedShare(e, p, ct), late)
           n == TotalOf(delta, {p \in sharing : ~ CrossedThreshold(e.producers[p], ct)})
                  - MapThenSumSet(LAMBDA p : e.producers[p].total_votes, late)
           f == update_total_votepay_share(g, ct, m, n)
<1>1. ChangeVotes(e, ct, delta, clamped) = f
    BY Zenon DEF ChangeVotes, ChangeVotesOfCounted, ChangeVotesOf
<1>0. IsFiniteSet(P) /\ counted = DOMAIN delta /\ P \subseteq Users
    BY SystemAssumption, FS_Subset DEF ProducersShaped
<1>2. /\ DOMAIN a = P
      /\ \A p \in P : /\ SameProducer(e.producers[p], a[p])
                      /\ a[p].total_votes = e.producers[p].total_votes + DeltaAt(delta, p)
  <2> SUFFICES ASSUME NEW p \in P
               PROVE  /\ SameProducer(e.producers[p], a[p])
                      /\ a[p].total_votes = e.producers[p].total_votes + DeltaAt(delta, p)
      BY DEF VotesChanged
  <2> DEFINE row == e.producers[p]
             votes == row.total_votes + delta[p]
             kept == IF clamped THEN Positive(votes) ELSE votes
  <2>1. DOMAIN row = ProducerFields /\ row.total_votes \in Int
      BY DEF ProducersShaped, Whole
  <2>2. CASE p \in DOMAIN delta
    <3>1. a[p] = [row EXCEPT !.total_votes = kept]
        BY <1>0, <2>2 DEF VotesChanged
    <3>2. DeltaAt(delta, p) = delta[p] /\ votes \in Int
        BY <2>1, <2>2 DEF DeltaAt
    <3>3. kept = votes
      <4>1. clamped => votes >= 0
          BY <3>2
      <4> HIDE DEF votes
      <4> QED BY <3>2, <4>1 DEF Positive
    <3> HIDE DEF row, kept
    <3>4. SameProducer(row, a[p]) /\ a[p].total_votes = kept
        BY <2>1, <3>1 DEF SameProducer, ProducerFields
    <3> QED BY <3>2, <3>3, <3>4 DEF row
  <2>3. CASE p \notin DOMAIN delta
    <3>1. a[p] = row /\ DeltaAt(delta, p) = 0
        BY <1>0, <2>3 DEF VotesChanged, DeltaAt
    <3> QED BY <2>1, <3>1 DEF SameProducer
  <2> QED BY <2>2, <2>3
<1> HIDE DEF a, b, m, n
<1>3. g.producers = a /\ g.total_producer_vote_weight = e.total_producer_vote_weight + c
      /\ DOMAIN g = ElectionFields
    BY DEF ElectShaped, ElectionFields
<1> HIDE DEF g
<1>4. f.producers = g.producers /\ f.total_producer_vote_weight = g.total_producer_vote_weight
    BY <1>3, Zenon DEF update_total_votepay_share, ElectionFields
<1> HIDE DEF f
<1>5. Elected(e, f, delta)
    BY <1>2, <1>3, <1>4 DEF Elected
<1>6. ProducersShaped(f)
    BY <1>0, <1>5 DEF Elected, SameProducer, ProducersShaped
<1>7. Whole(f)
  <2> DEFINE h == VotesOf(e)
             d == [p \in P |-> DeltaAt(delta, p)]
             k == VotesOf(f)
  <2>1. /\ DOMAIN k = P /\ DOMAIN h = P
        /\ \A p \in P : h[p] \in Int /\ d[p] \in Int /\ k[p] = h[p] + d[p] /\ k[p] = f.producers[p].total_votes
      BY <1>5 DEF Elected, VotesOf, Whole, DeltaAt
  <2>2. \A p \in P : p \notin counted => d[p] = 0
      BY DEF DeltaAt
  <2>3. \A p \in counted : d[p] = delta[p]
      BY DEF DeltaAt
  <2>4. f.total_producer_vote_weight = SumFunctionOnSet(h, P) + SumFunctionOnSet(delta, counted)
      BY <1>3, <1>4, <2>1, TotalIs DEF Whole, Total
  <2> HIDE DEF h, d, k
  <2>5. SumFunctionOnSet(k, P) = SumFunctionOnSet(h, P) + SumFunctionOnSet(d, P)
      BY <1>0, <2>1, SumPlus
  <2>6. SumFunctionOnSet(d, P) = SumFunctionOnSet(d, counted)
      BY <1>0, <2>1, <2>2, SumExtends
  <2>7. SumFunctionOnSet(d, counted) = SumFunctionOnSet(delta, counted)
    <3>1. IsFiniteSet(counted)
        BY <1>0, FS_Subset
    <3> HIDE DEF counted
    <3> QED BY <2>3, <3>1, SumEqual
  <2>8. f.total_producer_vote_weight = Total(k)
      BY <2>1, <2>4, <2>5, <2>6, <2>7, TotalIs DEF Total
  <2>9. \A p \in DOMAIN f.producers : f.producers[p].total_votes \in Int
      BY <1>5, <2>1 DEF Elected
  <2> QED BY <2>8, <2>9 DEF Whole, k
<1> QED BY <1>1, <1>5, <1>6, <1>7

\* The rows of voters in f are those in e, but that proxy has gained change.
Gained(e, f, proxy, change) ==
    /\ Reweighed(e, f)
    /\ \A v \in DOMAIN e.voters :
           /\ f.voters[v].last_vote_weight = e.voters[v].last_vote_weight
           /\ f.voters[v].proxied_vote_weight
                = e.voters[v].proxied_vote_weight + (IF v = proxy THEN change ELSE 0)

\* A change goes to the proxy of a voter, or to all of its producers.
LEMMA PassOnCounts ==
    ASSUME NEW e, ElectShaped(e), ProducersShaped(e), Whole(e), NEW ct, NEW voter, NEW change \in Int,
           voter.producers \subseteq DOMAIN e.producers, ~ Matters(change) => change = 0,
           voter.proxy # Nobody => voter.producers = {}, Nobody \notin DOMAIN e.voters,
           \A v \in DOMAIN e.voters : e.voters[v].proxied_vote_weight \in Int
    PROVE  LET f == PassOn(e, voter, change, ct)
           IN  /\ Gained(e, f, voter.proxy, change)
               /\ Elected(e, f, [p \in voter.producers |-> change])
               /\ Whole(f) /\ ProducersShaped(f)
<1> DEFINE delta == [p \in voter.producers |-> change]
           f == PassOn(e, voter, change, ct)
<1>0. /\ \A p \in DOMAIN e.producers : e.producers[p].total_votes \in Int /\ SameProducer(e.producers[p], e.producers[p])
      /\ Reweighed(e, e)
    BY ReweighedReflexive DEF Whole, SameProducer, ProducersShaped
<1>1. CASE ~ Matters(change)
  <2>1. f = e /\ change = 0
      BY <1>1 DEF PassOn
  <2>2. \A p : DeltaAt(delta, p) = 0
      BY <2>1 DEF DeltaAt
  <2>3. Elected(e, e, delta)
    <3> HIDE DEF delta
    <3> QED BY <1>0, <2>2 DEF Elected
  <2>4. Gained(e, e, voter.proxy, change)
      BY <1>0, <2>1 DEF Gained
  <2> HIDE DEF f, delta
  <2> QED BY <2>1, <2>3, <2>4 DEF f, delta
<1>2. CASE Matters(change) /\ voter.proxy # Nobody
  <2> DEFINE g == [e EXCEPT !.voters[voter.proxy].proxied_vote_weight = @ + change]
  <2>1. f = g /\ voter.producers = {}
      BY <1>2, Zenon DEF PassOn
  <2>2. \A p : DeltaAt(delta, p) = 0
      BY <2>1 DEF DeltaAt
  <2>3. /\ Reweighed(e, g) /\ g.producers = e.producers
        /\ g.total_producer_vote_weight = e.total_producer_vote_weight
      BY WeightPut DEF ElectShaped, ElectionFields
  <2>4. Gained(e, g, voter.proxy, change)
      BY <2>3 DEF Gained, ElectShaped, ElectionFields, VoterFields
  <2> HIDE DEF g, delta, f
  <2>5. Elected(e, g, delta) /\ Whole(g) /\ ProducersShaped(g)
      BY <1>0, <2>2, <2>3 DEF Elected, Whole, ProducersShaped, VotesOf
  <2> QED BY <2>1, <2>4, <2>5 DEF f, delta
<1>3. CASE Matters(change) /\ voter.proxy = Nobody
  <2> DEFINE no == FALSE
             g == ChangeVotes(e, ct, delta, no)
  <2>1. f = g
      BY <1>3, Zenon DEF PassOn
  <2>2. /\ DOMAIN delta \subseteq DOMAIN e.producers /\ \A p \in DOMAIN delta : delta[p] \in Int
        /\ no \in BOOLEAN /\ ~ no
      OBVIOUS
  <2> HIDE DEF delta, no
  <2>3. Elected(e, g, delta) /\ Whole(g) /\ ProducersShaped(g)
      BY <2>2, ChangeVotesCounts
  <2>4. Reweighed(e, g) /\ g.voters = e.voters
      BY ChangeVotesReweighs
  <2> HIDE DEF g, f
  <2>5. Gained(e, g, voter.proxy, change)
      BY <1>3, <2>4 DEF Gained
  <2> QED BY <2>1, <2>3, <2>5 DEF f, delta
<1> QED BY <1>1, <1>2, <1>3

\* The sums of e are those of the ballots V.
Counted(e, V) ==
    /\ \A p \in DOMAIN e.producers : e.producers[p].total_votes = Given(V, p)
    /\ \A y \in DOMAIN e.voters : e.voters[y].proxied_vote_weight = Followed(V, y)

\* A row of voters with a vote for producers, or for a proxy.
VoterSound(e, row) ==
    /\ row.staked \in Nat /\ row.last_vote_weight \in Even
    /\ row.producers \subseteq DOMAIN e.producers
    /\ row.proxy # Nobody => row.producers = {}

\* An election within a vote of x, whose ballot counts as b.
Poll(e, x, b) ==
    /\ Proxies(e) /\ ProducersShaped(e) /\ Whole(e)
    /\ \A v \in DOMAIN e.voters : VoterSound(e, e.voters[v])
    /\ EvenBallot(b)
    /\ Counted(e, BallotsOf(e, x, b))

\* What a vote weighs is what its voter's stake weighed at some time, but for those who are in S.
CurrentBut(e, ct, S) ==
    \A x \in DOMAIN e.voters \ S :
        LET v == e.voters[x]
        IN  v.producers # {} \/ v.proxy # Nobody =>
                \E t \in Times : t =< ct /\ v.last_vote_weight = VoteWeight(v, t)

\* The ballots within a vote have even weights.
LEMMA PollBallots ==
    ASSUME NEW e, NEW x, NEW b, Poll(e, x, b)
    PROVE  /\ EvenBallots(BallotsOf(e, x, b)) /\ DOMAIN BallotsOf(e, x, b) = DOMAIN e.voters
           /\ Nobody \notin DOMAIN e.voters
           /\ \A v \in DOMAIN e.voters : /\ e.voters[v].proxied_vote_weight \in Even
                                         /\ DOMAIN e.voters[v] = VoterFields
           /\ \A p \in DOMAIN e.producers : e.producers[p].total_votes \in Even
<1>1. /\ ElectShaped(e) /\ EvenBallot(b) /\ Nobody \notin DOMAIN e.voters
      /\ \A v \in DOMAIN e.voters : e.voters[v].last_vote_weight \in Even
    BY NobodyNoUser DEF Poll, Proxies, ElectShaped, VoterSound
<1>2. EvenBallots(BallotsOf(e, x, b)) /\ DOMAIN BallotsOf(e, x, b) = DOMAIN e.voters
    BY <1>1 DEF BallotsOf, EvenBallots, EvenBallot, Ballot, ElectShaped
<1>3. \A p : Given(BallotsOf(e, x, b), p) \in Even /\ Followed(BallotsOf(e, x, b), p) \in Even
    BY <1>2, BallotChange
<1> QED BY <1>1, <1>2, <1>3 DEF Poll, Counted, ElectShaped

\* What a voter's stake weighs is even.
LEMMA WeightEven ==
    ASSUME NEW row, row.staked \in Nat, row.proxied_vote_weight \in Even, NEW ct \in Times
    PROVE  VoteWeight(row, ct) \in Even
<1>1. WeightAt[ct] \in Even
    BY SystemAssumption, ElectionAssumption DEF Even
<1>2. row.staked * WeightAt[ct] \in Even
    BY <1>1, EvenNumbers
<1>3. (IF row.is_proxy THEN row.proxied_vote_weight ELSE 0) \in Even
    BY EvenNumbers
<1> QED BY <1>2, <1>3, EvenNumbers DEF VoteWeight, stake2vote

\* y is given the weight its stake has now, and its proxy or its producers the
\* difference: after that all is as before, but its proxy may be given another weight.
LEMMA LinkPolls ==
    ASSUME NEW e, NEW x, NEW b, Poll(e, x, b), NEW ct \in Times, NEW y \in DOMAIN e.voters, y # x,
           CurrentBut(e, ct, {x, y})
    PROVE  LET voter == e.voters[y]
               l == Link(e, y, voter, VoteWeight(voter, ct), ct)
           IN  /\ Poll(l.e, x, b) /\ Reweighed(e, l.e) /\ DOMAIN l.e.producers = DOMAIN e.producers
               /\ CurrentBut(l.e, ct, IF l.on /\ voter.proxy # Nobody THEN {x, voter.proxy} ELSE {x})
               /\ x \in DOMAIN e.voters /\ voter.proxy # x =>
                      l.e.voters[x].proxied_vote_weight = e.voters[x].proxied_vote_weight
<1> DEFINE voter == e.voters[y]
           weight == VoteWeight(voter, ct)
           change == weight - voter.last_vote_weight
           g == PassOn(e, voter, change, ct)
           f == [g EXCEPT !.voters[y].last_vote_weight = weight]
           l == Link(e, y, voter, weight, ct)
           delta == [p \in voter.producers |-> change]
           V == BallotsOf(e, x, b)
           W == BallotsOf(f, x, b)
<1>1. l = [e |-> f, on |-> Matters(change)]
    BY DEF Link
<1>2. /\ ElectShaped(e) /\ Proxies(e) /\ ProducersShaped(e) /\ Whole(e) /\ VoterSound(e, voter) /\ EvenBallot(b)
      /\ Nobody \notin DOMAIN e.voters /\ voter.proxied_vote_weight \in Even
      /\ \A v \in DOMAIN e.voters : e.voters[v].proxied_vote_weight \in Int
      /\ EvenBallots(V) /\ DOMAIN V = DOMAIN e.voters /\ Counted(e, V)
  <2>1. \A v \in DOMAIN e.voters : /\ e.voters[v].proxied_vote_weight \in Even
                                   /\ e.voters[v].proxied_vote_weight \in Int
      BY PollBallots, EvenNumbers
  <2> QED BY <2>1, PollBallots DEF Poll, Proxies
<1>3. weight \in Even /\ voter.last_vote_weight \in Even
    BY <1>2, WeightEven DEF VoterSound
<1>4. change \in Int /\ (~ Matters(change) => weight = voter.last_vote_weight /\ change = 0)
  <2> HIDE DEF weight
  <2> QED BY <1>3, EvenNumbers
<1>5. Gained(e, g, voter.proxy, change) /\ Elected(e, g, delta) /\ Whole(g) /\ ProducersShaped(g)
  <2>1. voter.producers \subseteq DOMAIN e.producers /\ (voter.proxy # Nobody => voter.producers = {})
      BY <1>2 DEF VoterSound
  <2> HIDE DEF change, voter
  <2> QED BY <1>2, <1>4, <2>1, PassOnCounts
<1> HIDE DEF g
<1>6. /\ DOMAIN g = ElectionFields /\ DOMAIN g.voters = DOMAIN e.voters
      /\ \A v \in DOMAIN e.voters : DOMAIN g.voters[v] = VoterFields /\ SameVoter(e.voters[v], g.voters[v])
      /\ Reweighed(e, g)
    BY <1>5 DEF Gained, Reweighed, SameVoter
<1>7. /\ DOMAIN f = ElectionFields /\ DOMAIN f.voters = DOMAIN e.voters /\ f.producers = g.producers
      /\ f.total_producer_vote_weight = g.total_producer_vote_weight
      /\ \A v \in DOMAIN e.voters :
             /\ SameVoter(e.voters[v], f.voters[v])
             /\ f.voters[v].last_vote_weight = IF v = y THEN weight ELSE e.voters[v].last_vote_weight
             /\ f.voters[v].proxied_vote_weight
                  = e.voters[v].proxied_vote_weight + (IF v = voter.proxy THEN change ELSE 0)
  <2> HIDE DEF weight, change
  <2>1. \A v \in DOMAIN e.voters : /\ g.voters[v].last_vote_weight = e.voters[v].last_vote_weight
                                   /\ g.voters[v].proxied_vote_weight
                                        = e.voters[v].proxied_vote_weight + (IF v = voter.proxy THEN change ELSE 0)
      BY <1>5 DEF Gained
  <2> DEFINE row == [g.voters[y] EXCEPT !.last_vote_weight = weight]
  <2>2. /\ f.voters = [g.voters EXCEPT ![y] = row] /\ DOMAIN f = ElectionFields /\ f.producers = g.producers
        /\ f.total_producer_vote_weight = g.total_producer_vote_weight
      BY <1>6 DEF ElectionFields
  <2>3. /\ DOMAIN row = VoterFields /\ row.last_vote_weight = weight
        /\ row.proxied_vote_weight = g.voters[y].proxied_vote_weight
        /\ row.staked = g.voters[y].staked /\ row.producers = g.voters[y].producers
        /\ row.proxy = g.voters[y].proxy /\ row.is_proxy = g.voters[y].is_proxy
        /\ row.managed = g.voters[y].managed
      BY <1>6 DEF VoterFields
  <2> HIDE DEF row, f, voter
  <2>4. DOMAIN f.voters = DOMAIN e.voters
      BY <1>6, <2>2
  <2>5. \A v \in DOMAIN e.voters : f.voters[v] = IF v = y THEN row ELSE g.voters[v]
      BY <1>6, <2>2
  <2> QED BY <1>6, <2>1, <2>2, <2>3, <2>4, <2>5 DEF SameVoter
<1> HIDE DEF f, weight
<1>8. Reweighed(e, f)
    BY <1>7 DEF Reweighed
<1>9. Proxies(f)
    BY <1>2, <1>8, ReweighedProxies
<1>10. /\ DOMAIN f.producers = DOMAIN e.producers /\ ProducersShaped(f) /\ Whole(f)
       /\ \A p \in DOMAIN e.producers : f.producers[p].total_votes = e.producers[p].total_votes + DeltaAt(delta, p)
    BY <1>5, <1>7 DEF Elected, ProducersShaped, Whole, VotesOf
<1>11. \A v \in DOMAIN f.voters : VoterSound(f, f.voters[v])
    BY <1>3, <1>7, <1>10 DEF Poll, VoterSound, SameVoter
<1>12. /\ DOMAIN W = DOMAIN V /\ EvenBallot(W[y])
       /\ \A v \in DOMAIN V : v # y => W[v] = V[v]
       /\ V[y] = Ballot(voter) /\ W[y] = Ballot(f.voters[y])
    BY <1>2, <1>3, <1>7 DEF BallotsOf, Ballot, SameVoter, EvenBallot
<1>13. \A p : /\ Given(W, p) = Given(V, p) - ForProducer(V[y], p) + ForProducer(W[y], p)
              /\ Followed(W, p) = Followed(V, p) - ForProxy(V[y], p) + ForProxy(W[y], p)
              /\ Given(V, p) \in Int /\ Followed(V, p) \in Int
  <2>1. y \in DOMAIN V
      BY <1>2
  <2> HIDE DEF V, W
  <2>2. \A p : Given(V, p) \in Int /\ Followed(V, p) \in Int
      BY <1>2, BallotChange, EvenNumbers
  <2>3. \A p : /\ Given(W, p) = Given(V, p) - ForProducer(V[y], p) + ForProducer(W[y], p)
               /\ Followed(W, p) = Followed(V, p) - ForProxy(V[y], p) + ForProxy(W[y], p)
      BY <1>2, <1>12, <2>1, BallotChange
  <2> QED BY <2>2, <2>3
<1>14. \A p : /\ ForProducer(V[y], p) + DeltaAt(delta, p) = ForProducer(W[y], p)
              /\ ForProxy(V[y], p) + (IF p = voter.proxy THEN change ELSE 0) = ForProxy(W[y], p)
              /\ ForProducer(V[y], p) \in Int /\ ForProducer(W[y], p) \in Int /\ DeltaAt(delta, p) \in Int
              /\ ForProxy(V[y], p) \in Int /\ ForProxy(W[y], p) \in Int
  <2>1. /\ V[y].producers = voter.producers /\ W[y].producers = voter.producers
        /\ V[y].proxy = voter.proxy /\ W[y].proxy = voter.proxy
        /\ V[y].weight = voter.last_vote_weight /\ V[y].passed = voter.last_vote_weight
        /\ W[y].weight = weight /\ W[y].passed = weight
      BY <1>7, <1>12 DEF Ballot, SameVoter
  <2>2. \A p : DeltaAt(delta, p) = IF p \in voter.producers THEN change ELSE 0
      BY DEF DeltaAt
  <2>3. weight \in Int /\ voter.last_vote_weight \in Int
      BY <1>3, EvenNumbers
  <2> HIDE DEF V, W, delta, voter
  <2> QED BY <2>1, <2>2, <2>3 DEF ForProducer, ForProxy
<1>15. Counted(f, W)
  <2>1. ASSUME NEW p \in DOMAIN f.producers
        PROVE  f.producers[p].total_votes = Given(W, p)
    <3>1. e.producers[p].total_votes = Given(V, p) /\ f.producers[p].total_votes = e.producers[p].total_votes + DeltaAt(delta, p)
        BY <1>2, <1>10, <2>1 DEF Counted
    <3> HIDE DEF V, W, delta
    <3> QED BY <1>13, <1>14, <3>1
  <2>2. ASSUME NEW v \in DOMAIN f.voters
        PROVE  f.voters[v].proxied_vote_weight = Followed(W, v)
    <3>1. /\ e.voters[v].proxied_vote_weight = Followed(V, v)
          /\ f.voters[v].proxied_vote_weight
               = e.voters[v].proxied_vote_weight + (IF v = voter.proxy THEN change ELSE 0)
        BY <1>2, <1>7, <2>2 DEF Counted
    <3>2. change \in Int
        BY <1>4
    <3> HIDE DEF V, W, change, voter
    <3> QED BY <1>13, <1>14, <3>1, <3>2
  <2> QED BY <2>1, <2>2 DEF Counted
<1>16. Poll(f, x, b)
    BY <1>2, <1>9, <1>10, <1>11, <1>15 DEF Poll
<1>17. CurrentBut(f, ct, IF Matters(change) /\ voter.proxy # Nobody THEN {x, voter.proxy} ELSE {x})
  <2> DEFINE S == IF Matters(change) /\ voter.proxy # Nobody THEN {x, voter.proxy} ELSE {x}
  <2> SUFFICES ASSUME NEW v \in DOMAIN f.voters \ S,
                      f.voters[v].producers # {} \/ f.voters[v].proxy # Nobody
               PROVE  \E t \in Times : t =< ct /\ f.voters[v].last_vote_weight = VoteWeight(f.voters[v], t)
      BY DEF CurrentBut
  <2>1. v \in DOMAIN e.voters /\ v # x
      BY <1>7
  <2>2. f.voters[v].proxied_vote_weight = e.voters[v].proxied_vote_weight
    <3>1. v = voter.proxy => change = 0
        BY <1>2, <1>4, <2>1
    <3> HIDE DEF change, voter
    <3> QED BY <1>2, <1>7, <2>1, <3>1
  <2>3. \A t : VoteWeight(f.voters[v], t) = VoteWeight(e.voters[v], t)
      BY <1>7, <2>1, <2>2 DEF VoteWeight, SameVoter
  <2>4. CASE v = y
    <3>1. f.voters[v].last_vote_weight = VoteWeight(e.voters[v], ct)
        BY <1>7, <2>4 DEF weight
    <3>2. ct =< ct
        BY SystemAssumption
    <3> QED BY <2>3, <3>1, <3>2
  <2>5. CASE v # y
    <3>1. f.voters[v].last_vote_weight = e.voters[v].last_vote_weight /\ SameVoter(e.voters[v], f.voters[v])
        BY <1>7, <2>1, <2>5
    <3>2. \E t \in Times : t =< ct /\ e.voters[v].last_vote_weight = VoteWeight(e.voters[v], t)
        BY <2>1, <2>5, <3>1 DEF CurrentBut, SameVoter
    <3> QED BY <2>3, <3>1, <3>2
  <2> QED BY <2>4, <2>5
<1>18. x \in DOMAIN e.voters /\ voter.proxy # x =>
           f.voters[x].proxied_vote_weight = e.voters[x].proxied_vote_weight
  <2> HIDE DEF change, voter
  <2> QED BY <1>2, <1>7
<1>19. l.e = f /\ l.on = Matters(change)
    BY <1>1
<1> QED BY <1>8, <1>10, <1>16, <1>17, <1>18, <1>19 DEF weight

\* f comes after e within a vote of x, whose ballot counts as b then.
Polls(e, f, x, b, ct) ==
    /\ Poll(f, x, b) /\ Reweighed(e, f) /\ DOMAIN f.producers = DOMAIN e.producers
    /\ CurrentBut(f, ct, {x})
    /\ x \in DOMAIN e.voters => f.voters[x].proxied_vote_weight = e.voters[x].proxied_vote_weight

\* A change of weight goes up the chain until it ends, or until it makes no difference.
LEMMA PropagatePolls ==
    ASSUME NEW e, NEW x, NEW b, Poll(e, x, b), NEW ct \in Times, NEW y \in DOMAIN e.voters,
           CurrentBut(e, ct, {x, y}),
           \A i \in 1 .. Len(ProxyChain(e.voters, y)) : ProxyChain(e.voters, y)[i] # x
    PROVE  Polls(e, propagate_weight_change(e, y, ct), x, b, ct)
<1> DEFINE chain == ProxyChain(e.voters, y)
           m == Len(chain)
           it == Propagating(e, chain, ct)
           S(n) == IF it[n].on /\ n < m THEN {x, chain[n + 1]} ELSE {x}
           Good(n) == /\ Poll(it[n].e, x, b) /\ Reweighed(e, it[n].e)
                      /\ DOMAIN it[n].e.producers = DOMAIN e.producers
                      /\ CurrentBut(it[n].e, ct, S(n))
                      /\ x \in DOMAIN e.voters =>
                             it[n].e.voters[x].proxied_vote_weight = e.voters[x].proxied_vote_weight
           Bad == {n \in Nat : n =< m /\ ~ Good(n)}
<1>1. /\ m \in Nat \ {0} /\ chain[1] = y
      /\ \A i \in 1 .. m : chain[i] \in DOMAIN e.voters /\ chain[i] # x
      /\ \A i \in 1 .. m - 1 : e.voters[chain[i]].proxy = chain[i + 1]
      /\ e.voters[chain[m]].proxy = Nobody
      /\ Nobody \notin DOMAIN e.voters
    BY NobodyNoUser, ChainIs DEF Poll, Proxies, ElectShaped
<1>2. propagate_weight_change(e, y, ct) = it[m].e
    BY Zenon DEF propagate_weight_change, Propagating, Propagates
<1> HIDE DEF chain
<1>3. it[0] = [e |-> e, on |-> TRUE]
    BY PropagatingRecursion
<1>4. \A n \in Nat : n # 0 => it[n] = PropagateLink(it[n - 1], chain[n], ct)
    BY PropagatingRecursion
<1> HIDE DEF it, m
<1>5. Good(0)
  <2>1. it[0].e = e /\ it[0].on
      BY <1>3
  <2>2. S(0) = {x, y}
      BY <1>1, <2>1
  <2>3. Reweighed(e, e)
      BY ReweighedReflexive DEF Poll, Proxies
  <2> QED BY <2>1, <2>2, <2>3
<1>6. ASSUME NEW n \in Nat, n + 1 =< m, Good(n)
      PROVE  Good(n + 1)
  <2> DEFINE f == it[n].e
             z == chain[n + 1]
             voter == f.voters[z]
             l == Link(f, z, voter, VoteWeight(voter, ct), ct)
  <2>1. it[n + 1] = IF ~ it[n].on THEN it[n] ELSE l
    <3>1. n + 1 \in Nat /\ n + 1 # 0 /\ (n + 1) - 1 = n
        OBVIOUS
    <3>2. it[n + 1] = PropagateLink(it[n], z, ct)
        BY <1>4, <3>1
    <3> QED BY <3>2, Zenon DEF PropagateLink
  <2>2. CASE ~ it[n].on
    <3>1. it[n + 1] = it[n] /\ S(n) = {x} /\ S(n + 1) = {x}
        BY <2>1, <2>2
    <3> HIDE DEF S
    <3> QED BY <1>6, <3>1
  <2>3. CASE it[n].on
    <3>1. it[n + 1] = l
        BY <2>1, <2>3
    <3>2. /\ Poll(f, x, b) /\ Reweighed(e, f) /\ DOMAIN f.producers = DOMAIN e.producers
          /\ CurrentBut(f, ct, {x, z})
          /\ x \in DOMAIN e.voters => f.voters[x].proxied_vote_weight = e.voters[x].proxied_vote_weight
        BY <1>6, <2>3, <1>1
    <3>3. n + 1 \in 1 .. m /\ z \in DOMAIN e.voters /\ z # x
        BY <1>1, <1>6
    <3>4. z \in DOMAIN f.voters /\ voter.proxy = e.voters[z].proxy
        BY <3>2, <3>3 DEF Reweighed, SameVoter
    <3>5. IF n + 1 < m THEN voter.proxy = chain[(n + 1) + 1] /\ voter.proxy # x /\ voter.proxy # Nobody
                       ELSE voter.proxy = Nobody
      <4>1. CASE n + 1 < m
        <5>1. n + 1 \in 1 .. m - 1 /\ (n + 1) + 1 \in 1 .. m
            BY <1>1, <4>1
        <5>2. e.voters[z].proxy = chain[(n + 1) + 1] /\ chain[(n + 1) + 1] \in DOMAIN e.voters
              /\ chain[(n + 1) + 1] # x
            BY <1>1, <5>1
        <5> QED BY <1>1, <3>4, <4>1, <5>2
      <4>2. CASE ~ n + 1 < m
        <5>1. n + 1 = m
            BY <1>1, <1>6, <4>2
        <5> QED BY <1>1, <3>4, <4>2, <5>1
      <4> QED BY <4>1, <4>2
    <3> HIDE DEF z, f
    <3>6. /\ Poll(l.e, x, b) /\ Reweighed(f, l.e) /\ DOMAIN l.e.producers = DOMAIN f.producers
          /\ CurrentBut(l.e, ct, IF l.on /\ voter.proxy # Nobody THEN {x, voter.proxy} ELSE {x})
          /\ x \in DOMAIN f.voters /\ voter.proxy # x =>
                 l.e.voters[x].proxied_vote_weight = f.voters[x].proxied_vote_weight
        BY <3>2, <3>3, <3>4, LinkPolls
    <3>7. S(n + 1) = IF l.on /\ voter.proxy # Nobody THEN {x, voter.proxy} ELSE {x}
      <4> HIDE DEF l, voter
      <4> QED BY <3>1, <3>5
    <3>8. Reweighed(e, l.e)
        BY <3>2, <3>6, ReweighedTransitive
    <3>9. x \in DOMAIN e.voters =>
              l.e.voters[x].proxied_vote_weight = e.voters[x].proxied_vote_weight
      <4>1. x \in DOMAIN e.voters => x \in DOMAIN f.voters /\ voter.proxy # x
        <5> HIDE DEF voter
        <5> QED BY <1>1, <3>2, <3>5 DEF Reweighed
      <4> HIDE DEF l, voter
      <4> QED BY <3>2, <3>6, <4>1
    <3> HIDE DEF l, S
    <3> QED BY <3>1, <3>2, <3>6, <3>7, <3>8, <3>9
  <2> QED BY <2>2, <2>3
<1>7. Good(m)
  <2> HIDE DEF Good
  <2> SUFFICES ASSUME Bad # {} PROVE FALSE
      BY <1>1
  <2>1. PICK n \in Bad : \A k \in Bad : n =< k
      BY NatMin
  <2>2. n # 0
      BY <1>5, <2>1
  <2>3. n - 1 \in Nat /\ (n - 1) + 1 = n /\ n =< m /\ n - 1 =< m
      BY <1>1, <2>1, <2>2
  <2>4. Good(n - 1)
      BY <2>1, <2>3
  <2>5. Good((n - 1) + 1)
      BY <1>6, <2>3, <2>4
  <2> QED BY <2>1, <2>3, <2>5
<1>8. S(m) = {x}
    BY <1>1
<1> HIDE DEF S
<1> QED BY <1>2, <1>7, <1>8 DEF Polls

\* The chain from the proxy of x, or from one that follows nobody, never comes to x.
LEMMA ChainAvoids ==
    ASSUME NEW e, Proxies(e), NEW x \in DOMAIN e.voters, NEW y \in DOMAIN e.voters,
           y = e.voters[x].proxy \/ (y # x /\ e.voters[y].proxy = Nobody)
    PROVE  \A i \in 1 .. Len(ProxyChain(e.voters, y)) : ProxyChain(e.voters, y)[i] # x
<1> DEFINE chain == ProxyChain(e.voters, y)
           m == Len(chain)
<1>1. /\ m \in Nat \ {0} /\ chain[1] = y
      /\ \A i \in 1 .. m : chain[i] \in DOMAIN e.voters
      /\ \A i \in 1 .. m - 1 : e.voters[chain[i]].proxy = chain[i + 1]
      /\ e.voters[chain[m]].proxy = Nobody
      /\ \A i, j \in 1 .. m : i # j => chain[i] # chain[j]
      /\ Nobody \notin DOMAIN e.voters
    BY NobodyNoUser, ChainIs DEF Proxies, ElectShaped
<1> HIDE DEF chain
<1> SUFFICES ASSUME NEW i \in 1 .. m, chain[i] = x PROVE FALSE
    BY DEF chain
<1>2. CASE y = e.voters[x].proxy
  <2>1. i # m
      BY <1>1, <1>2
  <2>2. i \in 1 .. m - 1 /\ i + 1 \in 1 .. m /\ i + 1 # 1 /\ 1 \in 1 .. m
      BY <1>1, <2>1
  <2>3. chain[i + 1] = chain[1]
      BY <1>1, <1>2, <2>2
  <2> QED BY <1>1, <2>2, <2>3
<1>3. CASE y # x /\ e.voters[y].proxy = Nobody
  <2>1. i # 1
      BY <1>1, <1>3
  <2>2. 1 \in 1 .. m - 1 /\ 1 + 1 \in 1 .. m
      BY <1>1, <2>1
  <2>3. chain[1 + 1] = Nobody /\ chain[1 + 1] \in DOMAIN e.voters
      BY <1>1, <1>3, <2>2
  <2> QED BY <1>1, <2>3
<1> QED BY <1>2, <1>3

\* Weight that x brings to a proxy, or takes from it, is that of its ballot.
LEMMA AddProxiedPolls ==
    ASSUME NEW e, NEW x \in DOMAIN e.voters, NEW b, Poll(e, x, b), NEW ct \in Times,
           CurrentBut(e, ct, {x}), NEW y \in DOMAIN e.voters,
           y = e.voters[x].proxy \/ (y # x /\ e.voters[y].proxy = Nobody),
           NEW weight \in Int, NEW c, EvenBallot(c),
           \A p : ForProducer(c, p) = ForProducer(b, p),
           \A v : ForProxy(c, v) = ForProxy(b, v) + (IF v = y THEN weight ELSE 0)
    PROVE  Polls(e, AddProxied(e, y, weight, ct), x, c, ct)
<1> DEFINE f == [e EXCEPT !.voters[y].proxied_vote_weight = @ + weight]
           V == BallotsOf(e, x, b)
           W == BallotsOf(f, x, c)
<1>1. AddProxied(e, y, weight, ct) = propagate_weight_change(f, y, ct)
    BY DEF AddProxied
<1>2. /\ ElectShaped(e) /\ Proxies(e) /\ ProducersShaped(e) /\ Whole(e)
      /\ EvenBallots(V) /\ DOMAIN V = DOMAIN e.voters /\ Counted(e, V)
      /\ \A v \in DOMAIN e.voters : VoterSound(e, e.voters[v])
    BY PollBallots DEF Poll, Proxies
<1>3. /\ Reweighed(e, f) /\ f.producers = e.producers /\ DOMAIN f.voters = DOMAIN e.voters
      /\ f.total_producer_vote_weight = e.total_producer_vote_weight
      /\ \A v \in DOMAIN e.voters :
             /\ SameVoter(e.voters[v], f.voters[v])
             /\ f.voters[v].last_vote_weight = e.voters[v].last_vote_weight
             /\ f.voters[v].proxied_vote_weight
                  = IF v = y THEN e.voters[v].proxied_vote_weight + weight
                    ELSE e.voters[v].proxied_vote_weight
    BY <1>2, WeightPut DEF ElectShaped, ElectionFields, VoterFields, SameVoter
<1> HIDE DEF f
<1>4. Proxies(f) /\ ProducersShaped(f) /\ Whole(f)
    BY <1>2, <1>3, ReweighedProxies DEF ProducersShaped, Whole, VotesOf
<1>5. \A v \in DOMAIN f.voters : VoterSound(f, f.voters[v])
    BY <1>2, <1>3 DEF VoterSound, SameVoter
<1>6. /\ DOMAIN W = DOMAIN V /\ x \in DOMAIN V /\ V[x] = b /\ W[x] = c
      /\ \A v \in DOMAIN V : v # x => W[v] = V[v]
    BY <1>3 DEF BallotsOf, Ballot, SameVoter
<1>7. \A p : /\ Given(W, p) = Given(V, p) - ForProducer(b, p) + ForProducer(c, p)
             /\ Followed(W, p) = Followed(V, p) - ForProxy(b, p) + ForProxy(c, p)
             /\ Given(V, p) \in Int /\ Followed(V, p) \in Int
  <2> HIDE DEF V, W
  <2>1. \A p : Given(V, p) \in Int /\ Followed(V, p) \in Int
      BY <1>2, BallotChange, EvenNumbers
  <2>2. \A p : /\ Given(W, p) = Given(V, p) - ForProducer(V[x], p) + ForProducer(W[x], p)
               /\ Followed(W, p) = Followed(V, p) - ForProxy(V[x], p) + ForProxy(W[x], p)
      BY <1>2, <1>6, BallotChange
  <2> QED BY <1>6, <2>1, <2>2
<1>8. \A p : ForProducer(b, p) \in Int /\ ForProxy(b, p) \in Int
    BY EvenNumbers DEF Poll, EvenBallot, ForProducer, ForProxy
<1>9. Counted(f, W)
  <2> HIDE DEF V, W
  <2>1. \A p \in DOMAIN f.producers : f.producers[p].total_votes = Given(W, p)
      BY <1>2, <1>3, <1>7, <1>8 DEF Counted
  <2>2. ASSUME NEW v \in DOMAIN f.voters
        PROVE  f.voters[v].proxied_vote_weight = Followed(W, v)
    <3>1. e.voters[v].proxied_vote_weight = Followed(V, v)
        BY <1>2, <1>3, <2>2 DEF Counted
    <3>2. ForProxy(c, v) = ForProxy(b, v) + (IF v = y THEN weight ELSE 0)
        OBVIOUS
    <3> QED BY <1>3, <1>7, <1>8, <2>2, <3>1, <3>2
  <2> QED BY <2>1, <2>2 DEF Counted
<1>10. Poll(f, x, c)
    BY <1>4, <1>5, <1>9 DEF Poll
<1>11. CurrentBut(f, ct, {x, y})
  <2> SUFFICES ASSUME NEW v \in DOMAIN f.voters \ {x, y},
                      f.voters[v].producers # {} \/ f.voters[v].proxy # Nobody
               PROVE  \E t \in Times : t =< ct /\ f.voters[v].last_vote_weight = VoteWeight(f.voters[v], t)
      BY DEF CurrentBut
  <2>1. \A t : VoteWeight(f.voters[v], t) = VoteWeight(e.voters[v], t)
      BY <1>3 DEF VoteWeight, SameVoter
  <2>2. \E t \in Times : t =< ct /\ e.voters[v].last_vote_weight = VoteWeight(e.voters[v], t)
      BY <1>3 DEF CurrentBut, SameVoter
  <2> QED BY <1>3, <2>1, <2>2
<1>12. y # x
    BY <1>2, NobodyNoUser DEF Proxies, Ranked, ElectShaped
<1>13. \A i \in 1 .. Len(ProxyChain(f.voters, y)) : ProxyChain(f.voters, y)[i] # x
  <2>1. y = f.voters[x].proxy \/ (y # x /\ f.voters[y].proxy = Nobody)
      BY <1>3 DEF SameVoter
  <2> QED BY <1>3, <1>4, <2>1, ChainAvoids
<1>14. Polls(f, propagate_weight_change(f, y, ct), x, c, ct)
    BY <1>3, <1>10, <1>11, <1>13, PropagatePolls
<1> DEFINE g == propagate_weight_change(f, y, ct)
<1> HIDE DEF g
<1>15. Reweighed(e, g)
    BY <1>3, <1>14, ReweighedTransitive DEF Polls, g
<1> QED BY <1>1, <1>3, <1>12, <1>14, <1>15 DEF Polls, g


\* No ballot at all, which nobody has cast.
NoBallot == [producers |-> {}, weight |-> 0, proxy |-> Nobody, passed |-> 0]

\* An election between votes.
Tallied(e, ct) == Poll(e, Nobody, NoBallot) /\ CurrentBut(e, ct, {})

\* In it the ballot of x counts as its row says.
LEMMA OwnBallot ==
    ASSUME NEW e, Proxies(e), NEW x \in DOMAIN e.voters, VoterSound(e, e.voters[x])
    PROVE  Poll(e, Nobody, NoBallot) <=> Poll(e, x, Ballot(e.voters[x]))
<1>1. Nobody \notin DOMAIN e.voters
    BY NobodyNoUser DEF Proxies, ElectShaped
<1>2. BallotsOf(e, Nobody, NoBallot) = BallotsOf(e, x, Ballot(e.voters[x]))
    BY <1>1 DEF BallotsOf
<1>3. EvenBallot(NoBallot)
    BY EvenNumbers DEF EvenBallot, NoBallot
<1>4. EvenBallot(Ballot(e.voters[x]))
    BY DEF EvenBallot, Ballot, VoterSound
<1> QED BY <1>2, <1>3, <1>4 DEF Poll

\* What else of an election changes does not matter.
LEMMA PollBeside ==
    ASSUME NEW e, NEW x, NEW b, Poll(e, x, b), NEW f, DOMAIN f = ElectionFields, f.voters = e.voters,
           ProducersShaped(f), DOMAIN f.producers = DOMAIN e.producers,
           f.total_producer_vote_weight = e.total_producer_vote_weight,
           \A p \in DOMAIN e.producers : f.producers[p].total_votes = e.producers[p].total_votes
    PROVE  Poll(f, x, b) /\ \A ct, S : CurrentBut(e, ct, S) => CurrentBut(f, ct, S)
<1>1. Proxies(f)
    BY SameVoters DEF Poll
<1>2. VotesOf(f) = VotesOf(e) /\ BallotsOf(f, x, b) = BallotsOf(e, x, b)
    BY DEF VotesOf, BallotsOf
<1>3. Whole(f) /\ \A v \in DOMAIN f.voters : VoterSound(f, f.voters[v])
    BY <1>2 DEF Poll, Whole, VoterSound
<1>4. Counted(f, BallotsOf(f, x, b))
    BY <1>2 DEF Poll, Counted
<1>5. \A ct, S : CurrentBut(e, ct, S) => CurrentBut(f, ct, S)
    BY DEF CurrentBut
<1> QED BY <1>1, <1>3, <1>4, <1>5 DEF Poll

\* Nor does what a ballot says but to producers and proxies.
LEMMA BallotAlike ==
    ASSUME NEW e, NEW x \in DOMAIN e.voters, NEW b, Poll(e, x, b), NEW c, EvenBallot(c),
           \A p : ForProducer(c, p) = ForProducer(b, p),
           \A v : v # Nobody => ForProxy(c, v) = ForProxy(b, v)
    PROVE  Poll(e, x, c)
<1> DEFINE V == BallotsOf(e, x, b)
           W == BallotsOf(e, x, c)
<1>1. /\ EvenBallots(V) /\ DOMAIN V = DOMAIN e.voters /\ Nobody \notin DOMAIN e.voters /\ Counted(e, V)
      /\ EvenBallot(b)
    BY PollBallots DEF Poll
<1>2. /\ DOMAIN W = DOMAIN V /\ x \in DOMAIN V /\ W[x] = c /\ V[x] = b
      /\ \A v \in DOMAIN V : v # x => W[v] = V[v]
    BY DEF BallotsOf
<1> HIDE DEF V, W
<1>3. \A p : /\ Given(W, p) = Given(V, p) - ForProducer(b, p) + ForProducer(c, p)
             /\ Followed(W, p) = Followed(V, p) - ForProxy(b, p) + ForProxy(c, p)
    BY <1>1, <1>2, BallotChange
<1>4. \A p : /\ Given(V, p) \in Int /\ Followed(V, p) \in Int
             /\ ForProducer(b, p) \in Int /\ ForProxy(b, p) \in Int
  <2>1. \A p : Given(V, p) \in Even /\ Followed(V, p) \in Even
      BY <1>1, BallotChange
  <2>2. \A p : ForProducer(b, p) \in Even /\ ForProxy(b, p) \in Even
      BY <1>1, EvenNumbers DEF EvenBallot, ForProducer, ForProxy
  <2> QED BY <2>1, <2>2, EvenNumbers
<1>5. Counted(e, W)
    BY <1>1, <1>3, <1>4 DEF Counted
<1> QED BY <1>5 DEF Poll, W

\* What x, which was voter, leaves when it votes again: its ballot counts for no proxy.
Leaving(voter) == [producers |-> voter.producers, weight |-> voter.last_vote_weight,
                   proxy |-> Nobody, passed |-> 0]

\* Then for another one.
Joining(voter, proxy, weight) == [Leaving(voter) EXCEPT !.proxy = proxy, !.passed = weight]

\* x leaves its proxy.
LEMMA LeavePolls ==
    ASSUME NEW e, NEW x \in DOMAIN e.voters, NEW ct \in Times, NEW voter, voter = e.voters[x],
           Poll(e, x, Ballot(voter)), CurrentBut(e, ct, {x})
    PROVE  Polls(e, LeaveProxy(e, voter, ct), x, Leaving(voter), ct)
<1> DEFINE b == Ballot(voter)
           c == Leaving(voter)
           last == voter.last_vote_weight
<1>1. /\ last \in Even /\ last \in Nat /\ Proxies(e) /\ ElectShaped(e)
      /\ voter.proxy \in DOMAIN e.voters \cup {Nobody}
    BY EvenNumbers DEF Poll, VoterSound, Proxies
<1>2. EvenBallot(c)
    BY <1>1, EvenNumbers DEF EvenBallot, Leaving
<1>3. /\ \A p : ForProducer(c, p) = ForProducer(b, p)
      /\ \A v : ForProxy(c, v) = 0 /\ ForProxy(b, v) = IF v = voter.proxy THEN last ELSE 0
    BY DEF ForProducer, ForProxy, Leaving, Ballot
<1> HIDE DEF b, c
<1>4. CASE last > 0 /\ voter.proxy # Nobody
  <2> DEFINE d == - last
  <2>1. LeaveProxy(e, voter, ct) = AddProxied(e, voter.proxy, d, ct)
      BY <1>4 DEF LeaveProxy
  <2>2. \A v : ForProxy(c, v) = ForProxy(b, v) + (IF v = voter.proxy THEN d ELSE 0)
      BY <1>1, <1>3
  <2>3. d \in Int /\ voter.proxy \in DOMAIN e.voters /\ Poll(e, x, b)
      BY <1>1, <1>4 DEF b
  <2> HIDE DEF d
  <2>4. Polls(e, AddProxied(e, voter.proxy, d, ct), x, c, ct)
      BY <1>2, <1>3, <2>2, <2>3, AddProxiedPolls
  <2> QED BY <2>1, <2>4 DEF c
<1>5. CASE ~ (last > 0 /\ voter.proxy # Nobody)
  <2>1. LeaveProxy(e, voter, ct) = e
      BY <1>5 DEF LeaveProxy
  <2>2. \A v : v # Nobody => ForProxy(c, v) = ForProxy(b, v)
      BY <1>1, <1>3, <1>5
  <2>3. Poll(e, x, b)
      BY DEF b
  <2>4. Poll(e, x, c)
      BY <1>2, <1>3, <2>2, <2>3, BallotAlike
  <2>5. Reweighed(e, e)
      BY <1>1, ReweighedReflexive
  <2> QED BY <2>1, <2>4, <2>5 DEF Polls, c
<1> QED BY <1>4, <1>5

\* And joins another one, or none.
LEMMA JoinPolls ==
    ASSUME NEW e, NEW x \in DOMAIN e.voters, NEW ct \in Times, NEW voter,
           Poll(e, x, Leaving(voter)), CurrentBut(e, ct, {x}),
           NEW proxy \in DOMAIN e.voters \cup {Nobody},
           proxy # Nobody => proxy = e.voters[x].proxy \/ (proxy # x /\ e.voters[proxy].proxy = Nobody),
           NEW weight \in Even
    PROVE  Polls(e, JoinProxy(e, proxy, weight, ct), x, Joining(voter, proxy, weight), ct)
<1> DEFINE b == Leaving(voter)
           c == Joining(voter, proxy, weight)
<1>1. weight \in Nat /\ EvenBallot(b) /\ ElectShaped(e)
    BY EvenNumbers DEF Poll, Proxies
<1>2. EvenBallot(c)
    BY <1>1 DEF EvenBallot, Joining, Leaving
<1>3. /\ \A p : ForProducer(c, p) = ForProducer(b, p)
      /\ \A v : ForProxy(b, v) = 0 /\ ForProxy(c, v) = IF v = proxy THEN weight ELSE 0
    BY DEF ForProducer, ForProxy, Joining, Leaving
<1>4. Poll(e, x, b)
    OBVIOUS
<1> HIDE DEF b, c
<1>5. CASE proxy # Nobody
  <2>1. JoinProxy(e, proxy, weight, ct) = AddProxied(e, proxy, weight, ct)
      BY <1>1, <1>5 DEF JoinProxy
  <2>2. \A v : ForProxy(c, v) = ForProxy(b, v) + (IF v = proxy THEN weight ELSE 0)
      BY <1>1, <1>3
  <2>3. proxy \in DOMAIN e.voters /\ weight \in Int
      BY <1>1, <1>5
  <2>4. Polls(e, AddProxied(e, proxy, weight, ct), x, c, ct)
      BY <1>2, <1>3, <1>4, <1>5, <2>2, <2>3, AddProxiedPolls
  <2> QED BY <2>1, <2>4 DEF c
<1>6. CASE proxy = Nobody
  <2>1. JoinProxy(e, proxy, weight, ct) = e
      BY <1>6 DEF JoinProxy
  <2>2. \A v : v # Nobody => ForProxy(c, v) = ForProxy(b, v)
      BY <1>1, <1>3, <1>6
  <2>3. Poll(e, x, c)
      BY <1>2, <1>3, <1>4, <2>2, BallotAlike
  <2>4. Reweighed(e, e)
      BY <1>1, ReweighedReflexive
  <2> QED BY <2>1, <2>3, <2>4 DEF Polls, c
<1> QED BY <1>5, <1>6

\* The ballot of a vote.
Voting(weight, proxy, producers) ==
    [producers |-> producers, weight |-> weight, proxy |-> proxy, passed |-> weight]

\* As update_votes has it: sums that would be negative are zero.
Clamped == TRUE

\* The count of a vote of x, which was voter.
Recounted(e, voter, weight, producers, ct) ==
    ChangeVotes(e, ct, VoteChanges(OldVotes(voter), voter.last_vote_weight, producers, weight), Clamped)

\* The old producers of x lose its vote, the new ones get it.
LEMMA RevotePolls ==
    ASSUME NEW e, NEW x \in DOMAIN e.voters, NEW ct, NEW voter,
           NEW proxy, NEW weight \in Even, Poll(e, x, Joining(voter, proxy, weight)),
           voter.proxy # Nobody => voter.producers = {}, voter.last_vote_weight \in Even,
           voter.producers \subseteq DOMAIN e.producers,
           NEW producers, producers \subseteq DOMAIN e.producers
    PROVE  LET f == Recounted(e, voter, weight, producers, ct)
           IN  /\ Poll(f, x, Voting(weight, proxy, producers)) /\ f.voters = e.voters
               /\ DOMAIN f.producers = DOMAIN e.producers
<1> DEFINE f == Recounted(e, voter, weight, producers, ct)
           delta == VoteChanges(OldVotes(voter), voter.last_vote_weight, producers, weight)
           b == Joining(voter, proxy, weight)
           c == Voting(weight, proxy, producers)
           old == OldVotes(voter)
           last == voter.last_vote_weight
           V == BallotsOf(e, x, b)
           W == BallotsOf(e, x, c)
<1>0. f = ChangeVotes(e, ct, delta, Clamped)
    BY Zenon DEF Recounted
<1> HIDE DEF f
<1>1. /\ EvenBallots(V) /\ DOMAIN V = DOMAIN e.voters /\ Counted(e, V) /\ Proxies(e) /\ ElectShaped(e)
      /\ ProducersShaped(e) /\ Whole(e) /\ EvenBallot(b) /\ weight \in Nat /\ last \in Nat
    BY PollBallots, EvenNumbers DEF Poll, Proxies
<1>2. EvenBallot(c)
    BY DEF EvenBallot, Voting
<1>3. /\ \A p : ForProxy(b, p) = ForProxy(c, p)
      /\ \A p : ForProducer(b, p) = IF p \in voter.producers THEN last ELSE 0
      /\ \A p : ForProducer(c, p) = IF p \in producers THEN weight ELSE 0
    BY DEF ForProxy, ForProducer, Joining, Leaving, Voting
<1>4. /\ DOMAIN W = DOMAIN V /\ x \in DOMAIN V /\ W[x] = c /\ V[x] = b
      /\ \A v \in DOMAIN V : v # x => W[v] = V[v]
    BY DEF BallotsOf
<1>5. Poll(e, x, b)
    OBVIOUS
<1> HIDE DEF b, c, V, W
<1>6. /\ EvenBallots(W)
      /\ \A p : /\ Given(W, p) = Given(V, p) - ForProducer(b, p) + ForProducer(c, p)
                /\ Followed(W, p) = Followed(V, p) - ForProxy(b, p) + ForProxy(c, p)
    BY <1>1, <1>2, <1>4, BallotChange
<1>7. \A p : /\ Given(V, p) \in Int /\ Followed(V, p) \in Int /\ Given(W, p) \in Nat
             /\ ForProducer(b, p) \in Int /\ ForProducer(c, p) \in Int /\ ForProxy(b, p) \in Int
  <2>1. \A p : Given(V, p) \in Even /\ Followed(V, p) \in Even /\ Given(W, p) \in Even
      BY <1>1, <1>6, BallotChange
  <2>2. \A p : ForProducer(b, p) \in Even /\ ForProducer(c, p) \in Even /\ ForProxy(b, p) \in Even
      BY <1>1, <1>2, EvenNumbers DEF EvenBallot, ForProducer, ForProxy
  <2> QED BY <2>1, <2>2, EvenNumbers
<1>8. \A p : (IF p \in old THEN last ELSE 0) = IF p \in voter.producers THEN last ELSE 0
    BY <1>1 DEF OldVotes
<1>9. old \subseteq voter.producers
    BY DEF OldVotes
<1> HIDE DEF old, last
<1>10. /\ DOMAIN delta = old \cup producers /\ DOMAIN delta \subseteq DOMAIN e.producers
       /\ \A p \in DOMAIN delta : delta[p] = (IF p \in producers THEN weight ELSE 0)
                                               - (IF p \in old THEN last ELSE 0)
    BY <1>9 DEF VoteChanges, old, last
<1> HIDE DEF delta
<1>11. \A p : DeltaAt(delta, p) = ForProducer(c, p) - ForProducer(b, p)
  <2> SUFFICES ASSUME NEW p PROVE DeltaAt(delta, p) = ForProducer(c, p) - ForProducer(b, p)
      OBVIOUS
  <2>1. /\ ForProducer(b, p) = IF p \in old THEN last ELSE 0
        /\ ForProducer(c, p) = IF p \in producers THEN weight ELSE 0
      BY <1>3, <1>8
  <2> QED BY <1>1, <1>10, <2>1 DEF DeltaAt
<1>12. \A p \in DOMAIN delta : delta[p] \in Int
  <2>1. \A p \in DOMAIN delta : delta[p] = DeltaAt(delta, p)
      BY DEF DeltaAt
  <2> QED BY <1>7, <1>11, <2>1
<1>13. \A p \in DOMAIN e.producers : e.producers[p].total_votes + DeltaAt(delta, p) = Given(W, p)
    BY <1>1, <1>6, <1>7, <1>11 DEF Counted
<1>14. \A p \in DOMAIN e.producers : e.producers[p].total_votes + DeltaAt(delta, p) >= 0
    BY <1>7, <1>13
<1>15. Elected(e, f, delta) /\ Whole(f) /\ ProducersShaped(f)
  <2>1. Clamped \in BOOLEAN
      BY DEF Clamped
  <2> QED BY <2>1, <1>0, <1>1, <1>10, <1>12, <1>14, ChangeVotesCounts
<1>16. f.voters = e.voters /\ Reweighed(e, f)
    BY <1>0, <1>1, ChangeVotesReweighs
<1>17. Proxies(f) /\ DOMAIN f.producers = DOMAIN e.producers
    BY <1>1, <1>15, <1>16, ReweighedProxies DEF Elected
<1>18. \A v \in DOMAIN f.voters : VoterSound(f, f.voters[v])
    BY <1>16, <1>17 DEF Poll, VoterSound
<1>19. BallotsOf(f, x, c) = W
    BY <1>16 DEF BallotsOf, W
<1>20. Counted(f, W)
  <2>1. \A p \in DOMAIN f.producers : f.producers[p].total_votes = Given(W, p)
      BY <1>13, <1>15, <1>17 DEF Elected
  <2>2. \A y \in DOMAIN f.voters : f.voters[y].proxied_vote_weight = Followed(W, y)
      BY <1>1, <1>3, <1>6, <1>7, <1>16 DEF Counted
  <2> QED BY <2>1, <2>2 DEF Counted
<1> QED BY <1>2, <1>15, <1>16, <1>17, <1>18, <1>19, <1>20 DEF Poll, c, f

\* The row of x is written, and its ballot is that of the row again.
LEMMA CastPolls ==
    ASSUME NEW e, NEW x \in DOMAIN e.voters, NEW ct \in Times, NEW weight, NEW proxy, NEW producers,
           Poll(e, x, Voting(weight, proxy, producers)), CurrentBut(e, ct, {x}),
           producers \subseteq DOMAIN e.producers, proxy # Nobody => producers = {},
           weight = VoteWeight(e.voters[x], ct),
           NEW f, f = CastOn(e, x, weight, proxy, producers), Proxies(f)
    PROVE  Tallied(f, ct)
<1> DEFINE row == CastRow(e.voters[x], weight, proxy, producers)
           c == Voting(weight, proxy, producers)
<1>1. ElectShaped(e) /\ DOMAIN e.voters[x] = VoterFields /\ weight \in Even /\ VoterSound(e, e.voters[x])
    BY DEF Poll, Proxies, ElectShaped, EvenBallot, Voting
<1>2. /\ f.voters = Put(e.voters, x, row) /\ DOMAIN f = ElectionFields /\ f.producers = e.producers
      /\ f.total_producer_vote_weight = e.total_producer_vote_weight
    BY <1>1 DEF CastOn, ElectShaped, ElectionFields
<1>3. /\ DOMAIN row = VoterFields /\ row.staked = e.voters[x].staked /\ row.producers = producers
      /\ row.proxy = proxy /\ row.is_proxy = e.voters[x].is_proxy /\ row.last_vote_weight = weight
      /\ row.proxied_vote_weight = e.voters[x].proxied_vote_weight
    BY <1>1 DEF CastRow, VoterFields
<1> HIDE DEF row
<1>4. /\ DOMAIN f.voters = DOMAIN e.voters /\ f.voters[x] = row
      /\ \A v \in DOMAIN e.voters : v # x => f.voters[v] = e.voters[v]
    BY <1>2 DEF Put
<1>5. ProducersShaped(f) /\ Whole(f)
    BY <1>2 DEF Poll, ProducersShaped, Whole, VotesOf
<1>6. \A v \in DOMAIN f.voters : VoterSound(f, f.voters[v])
    BY <1>1, <1>2, <1>3, <1>4 DEF Poll, VoterSound
<1>7. Ballot(row) = c
    BY <1>3 DEF Ballot, Voting
<1>8. BallotsOf(f, x, c) = BallotsOf(e, x, c)
    BY <1>4 DEF BallotsOf
<1>9. Counted(f, BallotsOf(f, x, c))
  <2> HIDE DEF c
  <2>1. Counted(e, BallotsOf(e, x, c))
      BY DEF Poll, c
  <2>2. \A v \in DOMAIN e.voters : f.voters[v].proxied_vote_weight = e.voters[v].proxied_vote_weight
      BY <1>3, <1>4
  <2> QED BY <1>2, <1>4, <1>8, <2>1, <2>2 DEF Counted
<1>10. Poll(f, x, c)
    BY <1>5, <1>6, <1>9 DEF Poll
<1>11. Poll(f, Nobody, NoBallot)
    BY <1>4, <1>6, <1>7, <1>10, OwnBallot
<1>12. CurrentBut(f, ct, {})
  <2> SUFFICES ASSUME NEW v \in DOMAIN f.voters,
                      f.voters[v].producers # {} \/ f.voters[v].proxy # Nobody
               PROVE  \E t \in Times : t =< ct /\ f.voters[v].last_vote_weight = VoteWeight(f.voters[v], t)
      BY DEF CurrentBut
  <2>1. CASE v # x
      BY <1>4, <2>1 DEF CurrentBut
  <2>2. CASE v = x
    <3>1. VoteWeight(row, ct) = weight
        BY <1>3 DEF VoteWeight
    <3>2. ct =< ct
        BY SystemAssumption
    <3> QED BY <1>3, <1>4, <2>2, <3>1, <3>2
  <2> QED BY <2>1, <2>2
<1> QED BY <1>11, <1>12 DEF Tallied

\* A vote of x, whatever its stake was when it voted last.
LEMMA VoteTallies ==
    ASSUME NEW e, NEW x \in DOMAIN e.voters, NEW ct \in Times,
           Poll(e, Nobody, NoBallot), CurrentBut(e, ct, {x}),
           NEW proxy, Choosable(e, x, proxy), NEW producers, producers \subseteq DOMAIN e.producers,
           proxy # Nobody => producers = {}
    PROVE  Tallied(update_votes(e, x, proxy, producers, ct), ct)
<1> DEFINE voter == e.voters[x]
           weight == VoteWeight(voter, ct)
           e1 == ActivateStake(e, x, ct)
           e2 == LeaveProxy(e1, voter, ct)
           e3 == JoinProxy(e2, proxy, weight, ct)
           delta == VoteChanges(OldVotes(voter), voter.last_vote_weight,
                                IF weight >= 0 THEN producers ELSE {}, weight)
           g == ChangeVotes(e3, ct, delta, Clamped)
           row == CastRow(g.voters[x], weight, proxy, producers)
           f == update_votes(e, x, proxy, producers, ct)
<1>1. f = [g EXCEPT !.voters[x] = row]
    BY Zenon DEF update_votes, CastVote, CastRow, Clamped
<1>2. Proxies(f)
    BY NobodyNoUser, UpdateVotesProxies DEF Poll
<1>3. /\ Proxies(e) /\ ElectShaped(e) /\ ProducersShaped(e) /\ VoterSound(e, voter)
      /\ voter.proxied_vote_weight \in Even
    BY PollBallots DEF Poll, Proxies
<1>4. weight \in Even /\ weight >= 0
  <2>1. voter.staked \in Nat
      BY <1>3 DEF VoterSound
  <2> HIDE DEF voter
  <2>2. weight \in Even
      BY <1>3, <2>1, WeightEven
  <2> HIDE DEF weight
  <2> QED BY <2>2, EvenNumbers
<1>5. delta = VoteChanges(OldVotes(voter), voter.last_vote_weight, producers, weight)
    BY <1>4, Zenon
<1>6. Poll(e, x, Ballot(voter))
    BY <1>3, OwnBallot
<1>w. weight = VoteWeight(voter, ct) /\ voter = e.voters[x]
    OBVIOUS
<1> HIDE DEF weight, voter, f, delta
<1>7. /\ Poll(e1, x, Ballot(voter)) /\ CurrentBut(e1, ct, {x}) /\ e1.voters = e.voters
      /\ Reweighed(e, e1) /\ DOMAIN e1.producers = DOMAIN e.producers
  <2>1. Reweighed(e, e1)
      BY <1>3, VoteHelpersReweigh
  <2>2. /\ DOMAIN e1 = ElectionFields /\ e1.voters = e.voters /\ e1.producers = e.producers
        /\ e1.total_producer_vote_weight = e.total_producer_vote_weight
      BY <1>3, <2>1 DEF ActivateStake, ElectShaped, ElectionFields, Reweighed
  <2> HIDE DEF e1
  <2>3. ProducersShaped(e1)
      BY <1>3, <2>2 DEF ProducersShaped
  <2> QED BY <1>6, <2>1, <2>2, <2>3, PollBeside
<1> HIDE DEF e1
<1>8. Polls(e1, e2, x, Leaving(voter), ct)
    BY <1>7, <1>w, LeavePolls
<1> HIDE DEF e2
<1>9. Polls(e2, e3, x, Joining(voter, proxy, weight), ct)
  <2>1. /\ x \in DOMAIN e2.voters /\ DOMAIN e2.voters = DOMAIN e.voters
        /\ \A v \in DOMAIN e.voters : /\ e2.voters[v].proxy = e.voters[v].proxy
                                      /\ e2.voters[v].is_proxy = e.voters[v].is_proxy
      BY <1>7, <1>8 DEF Polls, Reweighed, SameVoter
  <2>2. \A v \in DOMAIN e.voters : /\ e.voters[v].proxy \in DOMAIN e.voters \cup {Nobody}
                                   /\ e.voters[v].is_proxy => e.voters[v].proxy = Nobody
      BY <1>3 DEF Proxies
  <2>3. /\ proxy \in DOMAIN e2.voters \cup {Nobody}
        /\ proxy # Nobody => proxy = e2.voters[x].proxy \/ (proxy # x /\ e2.voters[proxy].proxy = Nobody)
      BY <2>1, <2>2 DEF Choosable
  <2>4. Poll(e2, x, Leaving(voter)) /\ CurrentBut(e2, ct, {x})
      BY <1>8 DEF Polls
  <2> QED BY <1>4, <2>1, <2>3, <2>4, JoinPolls
<1> HIDE DEF e3
<1>10. Reweighed(e, e3) /\ DOMAIN e3.producers = DOMAIN e.producers /\ Poll(e3, x, Joining(voter, proxy, weight))
       /\ CurrentBut(e3, ct, {x})
  <2>1. Reweighed(e1, e2) /\ Reweighed(e2, e3)
      BY <1>8, <1>9 DEF Polls
  <2>2. Reweighed(e, e3)
      BY <1>7, <2>1, ReweighedTransitive
  <2> QED BY <1>7, <1>8, <1>9, <2>2 DEF Polls
<1>11. e3.voters[x].proxied_vote_weight = voter.proxied_vote_weight
       /\ SameVoter(voter, e3.voters[x]) /\ x \in DOMAIN e3.voters
  <2>1. x \in DOMAIN e1.voters /\ x \in DOMAIN e2.voters
      BY <1>7, <1>8 DEF Polls, Reweighed
  <2> QED BY <1>7, <1>8, <1>9, <1>10, <1>w, <2>1 DEF Polls, Reweighed
<1>12. Poll(g, x, Voting(weight, proxy, producers)) /\ g.voters = e3.voters
       /\ DOMAIN g.producers = DOMAIN e.producers
  <2>2. /\ voter.proxy # Nobody => voter.producers = {}
        /\ voter.last_vote_weight \in Even
        /\ voter.producers \subseteq DOMAIN e3.producers /\ producers \subseteq DOMAIN e3.producers
      BY <1>3, <1>10 DEF VoterSound
  <2>4. weight \in Even /\ Poll(e3, x, Joining(voter, proxy, weight)) /\ x \in DOMAIN e3.voters
        /\ DOMAIN e3.producers = DOMAIN e.producers
      BY <1>4, <1>10, <1>11
  <2>3. g = Recounted(e3, voter, weight, producers, ct)
      BY <1>5, Zenon DEF Recounted
  <2> HIDE DEF g, row
  <2> QED BY <2>2, <2>3, <2>4, RevotePolls
<1> HIDE DEF g
<1>13. CurrentBut(g, ct, {x})
    BY <1>10, <1>12 DEF CurrentBut
<1>14. weight = VoteWeight(g.voters[x], ct)
    BY <1>11, <1>12, <1>w DEF VoteWeight, SameVoter
<1>15. f = CastOn(g, x, weight, proxy, producers)
  <2>1. ElectShaped(g) /\ x \in DOMAIN g.voters
      BY <1>11, <1>12 DEF Poll, Proxies
  <2> HIDE DEF row
  <2>2. [g EXCEPT !.voters[x] = row] = [g EXCEPT !.voters = Put(@, x, row)]
      BY <2>1, RowModified
  <2> QED BY <1>1, <2>2 DEF row, CastOn
<1>16. Tallied(f, ct)
    BY <1>2, <1>11, <1>12, <1>13, <1>14, <1>15, CastPolls
<1> QED BY <1>16 DEF f

\* A row of x whose vote is that of its row in e.
SameVote(a, b) ==
    /\ DOMAIN b = VoterFields
    /\ a.producers = b.producers /\ a.proxy = b.proxy
    /\ a.last_vote_weight = b.last_vote_weight /\ a.proxied_vote_weight = b.proxied_vote_weight

\* A row put without a vote.
WithRow(e, x, row) == [e EXCEPT !.voters = Put(@, x, row)]

\* Whatever else it says, the sums stay.
LEMMA RowPolls ==
    ASSUME NEW e, Poll(e, Nobody, NoBallot), NEW x \in Users, NEW row, MayChoose(e, x, row),
           SameVote(VoterRow(e, x), row), row.staked \in Nat,
           NEW f, f = WithRow(e, x, row)
    PROVE  /\ Poll(f, Nobody, NoBallot) /\ f.producers = e.producers
           /\ DOMAIN f.voters = DOMAIN e.voters \cup {x} /\ f.voters[x] = row
           /\ \A ct : /\ CurrentBut(e, ct, {}) => CurrentBut(f, ct, {x})
                      /\ /\ CurrentBut(f, ct, {x})
                         /\ row.producers = {} /\ row.proxy = Nobody
                         => CurrentBut(f, ct, {})
                      /\ /\ CurrentBut(e, ct, {}) /\ row.staked = VoterRow(e, x).staked
                         /\ row.is_proxy = VoterRow(e, x).is_proxy
                         => CurrentBut(f, ct, {})
<1> DEFINE V == BallotsOf(e, Nobody, NoBallot)
           W == BallotsOf(f, Nobody, NoBallot)
<1>1. /\ Proxies(e) /\ ElectShaped(e) /\ EvenBallots(V) /\ DOMAIN V = DOMAIN e.voters /\ Counted(e, V)
      /\ Nobody \notin DOMAIN e.voters /\ x # Nobody
    BY PollBallots, NobodyNoUser DEF Poll, Proxies
<1>2. /\ DOMAIN f = ElectionFields /\ f.voters = Put(e.voters, x, row) /\ f.producers = e.producers
      /\ f.total_producer_vote_weight = e.total_producer_vote_weight
    BY <1>1 DEF ElectShaped, ElectionFields, WithRow
<1>3. Proxies(f)
    BY <1>1, NobodyNoUser, RowPutProxies DEF WithRow
<1>4. /\ DOMAIN f.voters = DOMAIN e.voters \cup {x} /\ f.voters[x] = row
      /\ \A v \in DOMAIN e.voters : v # x => f.voters[v] = e.voters[v]
    BY <1>2 DEF Put
<1>5. ProducersShaped(f) /\ Whole(f)
    BY <1>2 DEF Poll, ProducersShaped, Whole, VotesOf
<1>6. x \notin DOMAIN e.voters =>
          row.producers = {} /\ row.proxy = Nobody /\ row.last_vote_weight = 0 /\ row.proxied_vote_weight = 0
    BY DEF SameVote, VoterRow, NewVoter
<1>7. VoterSound(f, row)
  <2>1. CASE x \in DOMAIN e.voters
      BY <1>2, <2>1 DEF Poll, VoterSound, SameVote, VoterRow
  <2>2. CASE x \notin DOMAIN e.voters
      BY <1>6, <2>2, EvenNumbers DEF VoterSound
  <2> QED BY <2>1, <2>2
<1>8. \A v \in DOMAIN f.voters : VoterSound(f, f.voters[v])
    BY <1>2, <1>4, <1>7 DEF Poll, VoterSound
<1>9. /\ DOMAIN W = DOMAIN V \cup {x}
      /\ \A v \in DOMAIN V : W[v] = V[v]
      /\ x \notin DOMAIN V => W[x] = NoBallot
  <2>1. \A v \in DOMAIN f.voters : W[v] = Ballot(f.voters[v])
      BY <1>1, <1>4 DEF BallotsOf
  <2>2. \A v \in DOMAIN e.voters : V[v] = Ballot(e.voters[v])
      BY <1>1 DEF BallotsOf
  <2>3. DOMAIN W = DOMAIN f.voters
      BY DEF BallotsOf
  <2>4. x \in DOMAIN e.voters => Ballot(row) = Ballot(e.voters[x])
      BY DEF Ballot, SameVote, VoterRow
  <2>5. x \notin DOMAIN e.voters => Ballot(row) = NoBallot
      BY <1>6 DEF Ballot, NoBallot
  <2> HIDE DEF V, W
  <2> QED BY <1>1, <1>4, <2>1, <2>2, <2>3, <2>4, <2>5
<1> HIDE DEF V, W
<1>10. \A p : Given(W, p) = Given(V, p) /\ Followed(W, p) = Followed(V, p)
  <2> SUFFICES ASSUME NEW p PROVE Given(W, p) = Given(V, p) /\ Followed(W, p) = Followed(V, p)
      OBVIOUS
  <2> DEFINE g == [v \in DOMAIN W |-> ForProducer(W[v], p)]
             h == [v \in DOMAIN V |-> ForProducer(V[v], p)]
             i == [v \in DOMAIN W |-> ForProxy(W[v], p)]
             j == [v \in DOMAIN V |-> ForProxy(V[v], p)]
             S == DOMAIN W
             T == DOMAIN V
  <2>1. IsFiniteSet(T) /\ IsFiniteSet(S) /\ T \in SUBSET S
      BY <1>1, <1>9, FS_AddElement DEF EvenBallots
  <2>2. \A v \in T : g[v] = h[v] /\ i[v] = j[v]
      BY <1>9
  <2>3. \A v \in T : h[v] \in Int /\ j[v] \in Int
      BY <1>1, EvenNumbers DEF EvenBallots, EvenBallot, ForProducer, ForProxy
  <2>4. \A v \in S \ T : g[v] = 0 /\ i[v] = 0
      BY <1>9 DEF NoBallot, ForProducer, ForProxy
  <2>5. /\ Given(W, p) = SumFunctionOnSet(g, S) /\ Followed(W, p) = SumFunctionOnSet(i, S)
        /\ Given(V, p) = SumFunctionOnSet(h, T) /\ Followed(V, p) = SumFunctionOnSet(j, T)
      BY TotalIs DEF Given, Followed, Total
  <2> HIDE DEF g, h, i, j, S, T
  <2>6. \A v \in S : g[v] \in Int /\ i[v] \in Int
      BY <2>2, <2>3, <2>4
  <2>7. SumFunctionOnSet(g, S) = SumFunctionOnSet(g, T) /\ SumFunctionOnSet(i, S) = SumFunctionOnSet(i, T)
      BY <2>1, <2>4, <2>6, SumExtends
  <2>8. SumFunctionOnSet(g, T) = SumFunctionOnSet(h, T) /\ SumFunctionOnSet(i, T) = SumFunctionOnSet(j, T)
      BY <2>1, <2>2, SumEqual
  <2> QED BY <2>5, <2>7, <2>8
<1>11. x \notin DOMAIN e.voters => Followed(V, x) = 0
  <2> SUFFICES ASSUME x \notin DOMAIN e.voters PROVE Followed(V, x) = 0
      OBVIOUS
  <2> DEFINE j == [v \in DOMAIN V |-> ForProxy(V[v], x)]
  <2>1. \A v \in DOMAIN V : j[v] = 0
    <3>1. \A v \in DOMAIN V : V[v].proxy = e.voters[v].proxy
        BY <1>1 DEF V, BallotsOf, Ballot
    <3>2. \A v \in DOMAIN V : V[v].proxy # x
        BY <1>1, <3>1 DEF Proxies
    <3> QED BY <3>2 DEF ForProxy
  <2>2. Followed(V, x) = SumFunctionOnSet(j, DOMAIN V)
      BY TotalIs DEF Followed, Total
  <2> HIDE DEF j
  <2> QED BY <1>1, <2>1, <2>2, SumOfNone DEF EvenBallots
<1>12. Counted(f, W)
  <2>1. \A p \in DOMAIN f.producers : f.producers[p].total_votes = Given(W, p)
      BY <1>1, <1>2, <1>10 DEF Counted
  <2>2. ASSUME NEW v \in DOMAIN f.voters
        PROVE  f.voters[v].proxied_vote_weight = Followed(W, v)
    <3>1. CASE v \in DOMAIN e.voters
      <4>1. f.voters[v].proxied_vote_weight = e.voters[v].proxied_vote_weight
          BY <1>4, <3>1 DEF SameVote, VoterRow
      <4> QED BY <1>1, <1>10, <3>1, <4>1 DEF Counted
    <3>2. CASE v \notin DOMAIN e.voters
        BY <1>4, <1>6, <1>10, <1>11, <3>2
    <3> QED BY <3>1, <3>2
  <2> QED BY <2>1, <2>2 DEF Counted
<1>13. Poll(f, Nobody, NoBallot)
    BY <1>3, <1>5, <1>8, <1>12 DEF Poll, W
<1>14. ASSUME NEW ct, CurrentBut(e, ct, {})
       PROVE  CurrentBut(f, ct, {x})
    BY <1>4, <1>14 DEF CurrentBut
<1>15. ASSUME NEW ct, CurrentBut(f, ct, {x}), row.producers = {}, row.proxy = Nobody
       PROVE  CurrentBut(f, ct, {})
    BY <1>4, <1>15 DEF CurrentBut
<1>16. ASSUME NEW ct, CurrentBut(e, ct, {}), row.staked = VoterRow(e, x).staked,
              row.is_proxy = VoterRow(e, x).is_proxy
       PROVE  CurrentBut(f, ct, {})
  <2>1. CurrentBut(f, ct, {x})
      BY <1>14, <1>16
  <2>2. CASE x \notin DOMAIN e.voters
      BY <1>6, <1>15, <2>1, <2>2
  <2>3. CASE x \in DOMAIN e.voters
    <3>1. VoterRow(e, x) = e.voters[x]
        BY <2>3 DEF VoterRow
    <3>2. \A t : VoteWeight(row, t) = VoteWeight(e.voters[x], t)
        BY <1>16, <3>1 DEF VoteWeight, SameVote
    <3>3. row.producers # {} \/ row.proxy # Nobody =>
              \E t \in Times : t =< ct /\ row.last_vote_weight = VoteWeight(row, t)
      <4>1. row.producers # {} \/ row.proxy # Nobody =>
                \E t \in Times : t =< ct /\ e.voters[x].last_vote_weight = VoteWeight(e.voters[x], t)
          BY <1>16, <2>3, <3>1 DEF CurrentBut, SameVote
      <4> QED BY <3>1, <3>2, <4>1 DEF SameVote
    <3> QED BY <1>4, <2>1, <3>3 DEF CurrentBut
  <2> QED BY <2>2, <2>3
<1> QED BY <1>2, <1>4, <1>13, <1>14, <1>15, <1>16

\* The row of x with another stake.
Restaked(e, x, stake) == [e EXCEPT !.voters = Put(@, x, [VoterRow(e, x) EXCEPT !.staked = stake])]

\* A new stake, and a vote with it: the vote before, or another one.
LEMMA RestakeTallies ==
    ASSUME NEW e, NEW ct \in Times, Tallied(e, ct), NEW x \in Users, NEW stake \in Nat,
           NEW f, f = Restaked(e, x, stake)
    PROVE  /\ Poll(f, Nobody, NoBallot) /\ CurrentBut(f, ct, {x}) /\ f.producers = e.producers
           /\ x \in DOMAIN f.voters /\ DOMAIN f.voters = DOMAIN e.voters \cup {x}
           /\ f.voters[x] = [VoterRow(e, x) EXCEPT !.staked = stake]
           /\ \A v \in DOMAIN e.voters \ {x} : f.voters[v] = e.voters[v]
           /\ Tallied(Recast(e, x, stake, ct), ct)
<1> DEFINE old == VoterRow(e, x)
           row == [old EXCEPT !.staked = stake]
<1>1. Poll(e, Nobody, NoBallot) /\ CurrentBut(e, ct, {}) /\ Proxies(e) /\ ElectShaped(e)
    BY DEF Tallied, Poll, Proxies
<1>2. DOMAIN old = VoterFields /\ (old.is_proxy => old.proxy = Nobody)
    BY <1>1 DEF VoterRow, NewVoter, VoterFields, Proxies, ElectShaped
<1>r. old = VoterRow(e, x)
    OBVIOUS
<1>f. f = WithRow(e, x, row)
    BY Zenon DEF Restaked, WithRow
<1> HIDE DEF old
<1>3. /\ DOMAIN row = VoterFields /\ row.staked = stake /\ row.producers = old.producers
      /\ row.proxy = old.proxy /\ row.is_proxy = old.is_proxy
      /\ row.last_vote_weight = old.last_vote_weight /\ row.proxied_vote_weight = old.proxied_vote_weight
    BY <1>2 DEF VoterFields
<1> DEFINE kept == row
<1>k. kept = row
    OBVIOUS
<1> HIDE DEF kept, row
<1>4. MayChoose(e, x, kept) /\ SameVote(VoterRow(e, x), kept) /\ kept.staked \in Nat
    BY <1>2, <1>3, <1>k, <1>r DEF MayChoose, SameVote
<1>5. /\ Poll(f, Nobody, NoBallot) /\ f.producers = e.producers
      /\ DOMAIN f.voters = DOMAIN e.voters \cup {x} /\ f.voters[x] = kept
      /\ CurrentBut(f, ct, {x})
      /\ kept.producers = {} /\ kept.proxy = Nobody => CurrentBut(f, ct, {})
  <2>1. f = WithRow(e, x, kept)
      BY <1>f, <1>k
  <2>2. /\ Poll(f, Nobody, NoBallot) /\ f.producers = e.producers
        /\ DOMAIN f.voters = DOMAIN e.voters \cup {x} /\ f.voters[x] = kept
        /\ CurrentBut(e, ct, {}) => CurrentBut(f, ct, {x})
        /\ CurrentBut(f, ct, {x}) /\ kept.producers = {} /\ kept.proxy = Nobody => CurrentBut(f, ct, {})
      BY <1>1, <1>4, <2>1, RowPolls, SMTT(60)
  <2> QED BY <1>1, <2>2
<1>6. \A v \in DOMAIN e.voters \ {x} : f.voters[v] = e.voters[v]
    BY <1>1, <1>f DEF Put, ElectShaped, ElectionFields, WithRow
<1>7. Recast(e, x, stake, ct)
        = IF old.producers # {} \/ old.proxy # Nobody
          THEN update_votes(f, x, old.proxy, old.producers, ct) ELSE f
    BY <1>f, Zenon DEF Recast, VoteAgain, WithRow, old, row
<1>8. Tallied(Recast(e, x, stake, ct), ct)
  <2>1. CASE ~ (old.producers # {} \/ old.proxy # Nobody)
      BY <1>3, <1>5, <1>7, <1>k, <2>1 DEF Tallied
  <2>2. CASE old.producers # {} \/ old.proxy # Nobody
    <3>1. Choosable(f, x, old.proxy)
        BY <1>3, <1>5, <1>k DEF Choosable
    <3>2. VoterSound(f, f.voters[x])
        BY <1>5 DEF Poll
    <3>3. old.producers \subseteq DOMAIN f.producers /\ (old.proxy # Nobody => old.producers = {})
        BY <1>3, <1>5, <1>k, <3>2 DEF VoterSound
    <3>4. x \in DOMAIN f.voters
        BY <1>5
    <3>5. Tallied(update_votes(f, x, old.proxy, old.producers, ct), ct)
        BY <1>5, <3>1, <3>3, <3>4, VoteTallies
    <3> QED BY <1>7, <2>2, <3>5
  <2> QED BY <2>1, <2>2
<1> QED BY <1>5, <1>6, <1>8, <1>k, <1>r DEF row

\* A vote between two tallies: x has another stake by then, as its REX has.
LEMMA RevaluedTallies ==
    ASSUME NEW e, NEW ct \in Times, Tallied(e, ct), NEW x \in DOMAIN e.voters, NEW stake \in Nat,
           NEW f, f = Restaked(e, x, stake), NEW proxy, NEW producers, CanVote(f, x, proxy, producers, TRUE)
    PROVE  Tallied(update_votes(f, x, proxy, producers, ct), ct)
<1>1. x \in Users
    BY DEF Tallied, Poll, Proxies, ElectShaped
<1>2. Poll(f, Nobody, NoBallot) /\ CurrentBut(f, ct, {x}) /\ x \in DOMAIN f.voters
    BY <1>1, RestakeTallies
<1>3. Choosable(f, x, proxy) /\ producers \subseteq DOMAIN f.producers /\ (proxy # Nobody => producers = {})
  <2> DEFINE voting == TRUE
  <2>1. CanVote(f, x, proxy, producers, voting) /\ voting
      OBVIOUS
  <2> HIDE DEF voting
  <2> QED BY <2>1 DEF CanVote, Choosable
<1> QED BY <1>2, <1>3, VoteTallies

\* regproxy: a voter that has become a proxy, or is one no more, has another weight.
LEMMA RegProxyTallies ==
    ASSUME NEW e, NEW ct \in Times, Tallied(e, ct), NEW x \in Users, NEW isproxy \in BOOLEAN,
           CanRegProxy(e, x, isproxy)
    PROVE  Tallied(regproxy(e, x, isproxy, ct), ct)
<1>1. Poll(e, Nobody, NoBallot) /\ CurrentBut(e, ct, {}) /\ Proxies(e) /\ ElectShaped(e)
    BY DEF Tallied, Poll, Proxies
<1>2. CASE x \in DOMAIN e.voters
  <2> DEFINE old == e.voters[x]
             row == [old EXCEPT !.is_proxy = isproxy]
             f == WithRow(e, x, row)
  <2>1. DOMAIN old = VoterFields /\ VoterSound(e, old) /\ (isproxy => old.proxy = Nobody)
        /\ VoterRow(e, x) = old
      BY <1>1, <1>2 DEF ElectShaped, CanRegProxy, VoterRow, Poll
  <2>2. [e EXCEPT !.voters[x].is_proxy = isproxy] = [e EXCEPT !.voters[x] = row]
      OBVIOUS
  <2> HIDE DEF old
  <2>3. /\ DOMAIN row = VoterFields /\ row.is_proxy = isproxy /\ row.staked = old.staked
        /\ row.producers = old.producers /\ row.proxy = old.proxy
        /\ row.last_vote_weight = old.last_vote_weight /\ row.proxied_vote_weight = old.proxied_vote_weight
      BY <2>1 DEF VoterFields
  <2> HIDE DEF row
  <2>4. MayChoose(e, x, row) /\ SameVote(VoterRow(e, x), row) /\ row.staked \in Nat
      BY <2>1, <2>3 DEF MayChoose, SameVote, VoterSound
  <2>5. f = WithRow(e, x, row)
      OBVIOUS
  <2> HIDE DEF f
  <2>6. /\ Poll(f, Nobody, NoBallot) /\ x \in DOMAIN f.voters
        /\ CurrentBut(e, ct, {}) => CurrentBut(f, ct, {x})
      BY <1>1, <2>4, <2>5, RowPolls, SMTT(60)
  <2>7. regproxy(e, x, isproxy, ct) = propagate_weight_change(f, x, ct)
    <3>1. [e EXCEPT !.voters[x] = row] = f
        BY <1>1, <1>2, <2>5, RowModified DEF WithRow
    <3>2. regproxy(e, x, isproxy, ct)
            = propagate_weight_change([e EXCEPT !.voters[x].is_proxy = isproxy], x, ct)
        BY <1>2, Zenon DEF regproxy
    <3> QED BY <2>2, <3>1, <3>2
  <2>8. CurrentBut(f, ct, {Nobody, x})
      BY <1>1, <2>6 DEF CurrentBut
  <2>9. \A i \in 1 .. Len(ProxyChain(f.voters, x)) : ProxyChain(f.voters, x)[i] # Nobody
    <3>1. Nobody \notin DOMAIN f.voters /\ Proxies(f)
        BY <2>6, NobodyNoUser DEF Poll, Proxies, ElectShaped
    <3> QED BY <2>6, <3>1, NobodyNoUser, ChainIs
  <2> DEFINE g == propagate_weight_change(f, x, ct)
  <2>10. Polls(f, g, Nobody, NoBallot, ct)
    <3>1. x # Nobody
        BY NobodyNoUser
    <3> QED BY <2>6, <2>8, <2>9, <3>1, PropagatePolls
  <2> HIDE DEF g
  <2>11. Nobody \notin DOMAIN g.voters
      BY <2>10, NobodyNoUser DEF Polls, Poll, Proxies, ElectShaped
  <2>12. Tallied(g, ct)
      BY <2>10, <2>11 DEF Tallied, Polls, CurrentBut
  <2> QED BY <2>7, <2>12 DEF g
<1>3. CASE x \notin DOMAIN e.voters
  <2> DEFINE row == [NewVoter EXCEPT !.is_proxy = isproxy]
             f == WithRow(e, x, row)
  <2>1. regproxy(e, x, isproxy, ct) = f
      BY <1>3, Zenon DEF regproxy, WithRow
  <2>2. /\ DOMAIN row = VoterFields /\ row.is_proxy = isproxy /\ row.staked = 0
        /\ row.producers = {} /\ row.proxy = Nobody
        /\ row.last_vote_weight = 0 /\ row.proxied_vote_weight = 0
      BY DEF VoterFields, NewVoter
  <2> HIDE DEF row
  <2>3. MayChoose(e, x, row) /\ SameVote(VoterRow(e, x), row) /\ row.staked \in Nat
      BY <1>3, <2>2 DEF MayChoose, SameVote, VoterRow, NewVoter
  <2>4. f = WithRow(e, x, row)
      OBVIOUS
  <2> HIDE DEF f
  <2>5. /\ Poll(f, Nobody, NoBallot)
        /\ CurrentBut(e, ct, {}) => CurrentBut(f, ct, {x})
        /\ CurrentBut(f, ct, {x}) /\ row.producers = {} /\ row.proxy = Nobody => CurrentBut(f, ct, {})
      BY <1>1, <2>3, <2>4, RowPolls, SMTT(60)
  <2> QED BY <1>1, <2>1, <2>2, <2>5 DEF Tallied
<1> QED BY <1>2, <1>3

\* A row put that neither changes the vote nor what it weighs.
LEMMA SteadyRowTallies ==
    ASSUME NEW e, NEW ct, Tallied(e, ct), NEW x \in Users, NEW row, MayChoose(e, x, row),
           SameVote(VoterRow(e, x), row), row.staked \in Nat,
           row.staked = VoterRow(e, x).staked, row.is_proxy = VoterRow(e, x).is_proxy
    PROVE  Tallied(WithRow(e, x, row), ct)
<1> DEFINE f == WithRow(e, x, row)
<1>1. Poll(e, Nobody, NoBallot)
    BY DEF Tallied
<1>2. f = WithRow(e, x, row)
    OBVIOUS
<1> HIDE DEF f
<1>3. Poll(f, Nobody, NoBallot)
    BY <1>1, <1>2, RowPolls, ZenonT(60)
<1>4. CurrentBut(f, ct, {})
  <2>1. CurrentBut(e, ct, {})
      BY DEF Tallied
  <2> QED BY <1>1, <1>2, <2>1, RowPolls, ZenonT(60)
<1> QED BY <1>3, <1>4 DEF Tallied, f

\* setacct*: whether a limit is managed is in the row of a voter, too.
LEMMA ManagedTallies ==
    ASSUME NEW e, NEW ct, Tallied(e, ct), NEW x \in Users, NEW managed
    PROVE  Tallied(WithRow(e, x, [VoterRow(e, x) EXCEPT !.managed = managed]), ct)
<1> DEFINE old == VoterRow(e, x)
           row == [old EXCEPT !.managed = managed]
<1>1. Poll(e, Nobody, NoBallot) /\ Proxies(e) /\ ElectShaped(e)
    BY DEF Tallied, Poll, Proxies
<1>2. /\ DOMAIN old = VoterFields /\ old.staked \in Nat
      /\ (old.is_proxy => old.proxy = Nobody)
    BY <1>1 DEF VoterRow, NewVoter, VoterFields, Proxies, ElectShaped, Poll, VoterSound
<1>r. old = VoterRow(e, x)
    OBVIOUS
<1> HIDE DEF old
<1>3. /\ DOMAIN row = VoterFields /\ row.staked = old.staked /\ row.producers = old.producers
      /\ row.proxy = old.proxy /\ row.is_proxy = old.is_proxy
      /\ row.last_vote_weight = old.last_vote_weight /\ row.proxied_vote_weight = old.proxied_vote_weight
    BY <1>2 DEF VoterFields
<1> HIDE DEF row
<1>4. MayChoose(e, x, row) /\ SameVote(VoterRow(e, x), row) /\ row.staked \in Nat
      /\ row.staked = VoterRow(e, x).staked /\ row.is_proxy = VoterRow(e, x).is_proxy
    BY <1>2, <1>3, <1>r DEF MayChoose, SameVote
<1>5. Tallied(WithRow(e, x, row), ct)
    BY <1>4, SteadyRowTallies
<1> QED BY <1>5 DEF row, old

\* What else of producers changes is not about votes.
SameVotes(e, f) ==
    /\ DOMAIN f = ElectionFields /\ f.voters = e.voters
    /\ DOMAIN f.producers = DOMAIN e.producers
    /\ f.total_producer_vote_weight = e.total_producer_vote_weight
    /\ \A p \in DOMAIN e.producers : /\ DOMAIN f.producers[p] = ProducerFields
                                     /\ f.producers[p].total_votes = e.producers[p].total_votes

\* What leaves votes alone keeps the tally.
LEMMA SameVotesTally ==
    ASSUME NEW e, NEW ct, Tallied(e, ct), NEW f, SameVotes(e, f)
    PROVE  Tallied(f, ct)
<1>1. ProducersShaped(f)
    BY DEF SameVotes, Tallied, Poll, ProducersShaped
<1> QED BY <1>1, PollBeside DEF SameVotes, Tallied

\* unregprod, onblock and claimrewards.
LEMMA ProducerTallies ==
    ASSUME NEW e, NEW ct, Tallied(e, ct), NEW x
    PROVE  /\ x \in DOMAIN e.producers => Tallied(deactivate(e, x), ct)
           /\ Tallied(CountBlock(e, x), ct)
           /\ \A at : x \in DOMAIN e.producers => Tallied(Claimed(e, x, at).elect, ct)
<1>1. ElectShaped(e) /\ ProducersShaped(e)
    BY DEF Tallied, Poll, Proxies
<1>2. \A p \in DOMAIN e.producers : DOMAIN e.producers[p] = ProducerFields
    BY <1>1 DEF ProducersShaped
<1>3. ASSUME x \in DOMAIN e.producers
      PROVE  Tallied(deactivate(e, x), ct)
  <2>1. SameVotes(e, deactivate(e, x))
      BY <1>1, <1>2, <1>3 DEF SameVotes, deactivate, ElectShaped, ElectionFields, ProducerFields
  <2> QED BY <2>1, SameVotesTally
<1>4. Tallied(CountBlock(e, x), ct)
  <2>1. SameVotes(e, CountBlock(e, x))
      BY <1>1, <1>2 DEF SameVotes, CountBlock, ElectShaped, ElectionFields, ProducerFields
  <2> QED BY <2>1, SameVotesTally
<1>5. ASSUME NEW at, x \in DOMAIN e.producers
      PROVE  Tallied(Claimed(e, x, at).elect, ct)
  <2> DEFINE p == [e.producers[x] EXCEPT !.last_claim_time = at, !.unpaid_blocks = 0]
             a == [e.producers EXCEPT ![x] = p]
             b == Put(e.producers2, x, NewProducer2(at))
             g == [e EXCEPT !.producers = a, !.producers2 = b]
             f == Claimed(e, x, at).elect
  <2>1. g = [e EXCEPT !.producers[x] = [@ EXCEPT !.last_claim_time = at, !.unpaid_blocks = 0],
                      !.producers2 = Put(@, x, NewProducer2(at))]
      OBVIOUS
  <2>2. DOMAIN p = ProducerFields /\ p.total_votes = e.producers[x].total_votes
      BY <1>2, <1>5 DEF ProducerFields
  <2> HIDE DEF g
  <2>3. \E s, r : f = update_total_votepay_share(g, at, s, r)
      BY <2>1, Zenon DEF Claimed
  <2> HIDE DEF f, p
  <2>4. /\ DOMAIN a = DOMAIN e.producers
        /\ \A q \in DOMAIN e.producers : a[q] = IF q = x THEN p ELSE e.producers[q]
      OBVIOUS
  <2>5. g = [e EXCEPT !.producers = a, !.producers2 = b]
      BY Zenon DEF g
  <2> HIDE DEF a, b
  <2>6. SameVotes(e, f)
    <3>1. /\ DOMAIN f = ElectionFields /\ f.voters = e.voters /\ f.producers = a
          /\ f.total_producer_vote_weight = e.total_producer_vote_weight
        BY <1>1, <2>3, <2>5 DEF update_total_votepay_share, ElectShaped, ElectionFields
    <3> QED BY <1>2, <2>2, <2>4, <3>1 DEF SameVotes
  <2> QED BY <2>6, SameVotesTally DEF f
<1> QED BY <1>3, <1>4, <1>5

\* regproducer: nobody votes for a new producer yet.
LEMMA RegProducerTallies ==
    ASSUME NEW e, NEW ct, Tallied(e, ct), NEW x \in Users, NEW at
    PROVE  Tallied(register_producer(e, x, at), ct)
<1> DEFINE f == register_producer(e, x, at)
           V == BallotsOf(e, Nobody, NoBallot)
           row == NewProducer(at)
<1>1. /\ ElectShaped(e) /\ Proxies(e) /\ ProducersShaped(e) /\ Whole(e) /\ CurrentBut(e, ct, {})
      /\ \A v \in DOMAIN e.voters : VoterSound(e, e.voters[v])
      /\ EvenBallots(V) /\ DOMAIN V = DOMAIN e.voters /\ Counted(e, V) /\ Nobody \notin DOMAIN e.voters
      /\ EvenBallot(NoBallot)
    BY PollBallots DEF Tallied, Poll, Proxies
<1>2. CASE x \in DOMAIN e.producers
  <2> DEFINE since == e.producers[x].last_claim_time
             time == IF since = NoTime THEN at ELSE since
             p == [e.producers[x] EXCEPT !.is_active = TRUE, !.last_claim_time = time]
             a == [e.producers EXCEPT ![x] = p]
             back == [e EXCEPT !.producers = a]
  <2>1. back = [e EXCEPT !.producers[x] =
                    [@ EXCEPT !.is_active = TRUE, !.last_claim_time = IF since = NoTime THEN at ELSE since]]
      OBVIOUS
  <2>2. DOMAIN p = ProducerFields /\ p.total_votes = e.producers[x].total_votes
      BY <1>1, <1>2 DEF ProducersShaped, ProducerFields
  <2> HIDE DEF back
  <2>3. f = back \/ \E b, r : f = update_total_votepay_share([back EXCEPT !.producers2 = b], at, 0, r)
      BY <1>2, <2>1, Zenon DEF register_producer
  <2> HIDE DEF f, p
  <2>4. /\ DOMAIN a = DOMAIN e.producers
        /\ \A q \in DOMAIN e.producers : a[q] = IF q = x THEN p ELSE e.producers[q]
      OBVIOUS
  <2>5. back = [e EXCEPT !.producers = a]
      BY Zenon DEF back
  <2> HIDE DEF a
  <2>6. /\ DOMAIN f = ElectionFields /\ f.voters = e.voters /\ f.producers = a
        /\ f.total_producer_vote_weight = e.total_producer_vote_weight
      BY <1>1, <2>3, <2>5 DEF update_total_votepay_share, ElectShaped, ElectionFields
  <2>7. SameVotes(e, f)
      BY <1>1, <2>2, <2>4, <2>6 DEF SameVotes, ProducersShaped
  <2> QED BY <2>7, SameVotesTally DEF f
<1>3. CASE x \notin DOMAIN e.producers
  <2>1. /\ DOMAIN f = ElectionFields /\ f.voters = e.voters /\ f.producers = Put(e.producers, x, row)
        /\ f.total_producer_vote_weight = e.total_producer_vote_weight
      BY <1>1, <1>3 DEF register_producer, ElectShaped, ElectionFields
  <2>2. DOMAIN row = ProducerFields /\ row.total_votes = 0
      BY DEF NewProducer, ProducerFields
  <2> HIDE DEF f, row
  <2>3. /\ DOMAIN f.producers = DOMAIN e.producers \cup {x} /\ f.producers[x] = row
        /\ \A p \in DOMAIN e.producers : f.producers[p] = e.producers[p]
      BY <1>3, <2>1 DEF Put
  <2>4. Proxies(f) /\ ProducersShaped(f)
      BY <1>1, <2>1, <2>2, <2>3, SameVoters DEF ProducersShaped
  <2>5. \A v \in DOMAIN f.voters : VoterSound(f, f.voters[v])
      BY <1>1, <2>1, <2>3 DEF VoterSound
  <2>6. Whole(f)
    <3> DEFINE S == DOMAIN f.producers
               T == DOMAIN e.producers
               g == VotesOf(f)
               h == VotesOf(e)
    <3>1. IsFiniteSet(T) /\ IsFiniteSet(S) /\ T \in SUBSET S
        BY <1>1, <2>3, SystemAssumption, FS_Subset, FS_AddElement DEF ProducersShaped
    <3>2. /\ \A p \in S : g[p] = f.producers[p].total_votes /\ f.producers[p].total_votes \in Int
          /\ \A p \in T : g[p] = h[p]
          /\ \A p \in S \ T : g[p] = 0
        BY <1>1, <2>2, <2>3 DEF VotesOf, Whole
    <3>3. Total(g) = SumFunctionOnSet(g, S) /\ Total(h) = SumFunctionOnSet(h, T)
        BY TotalIs DEF Total, VotesOf
    <3> HIDE DEF g, h, S, T
    <3>4. SumFunctionOnSet(g, S) = SumFunctionOnSet(g, T)
        BY <3>1, <3>2, SumExtends
    <3>5. SumFunctionOnSet(g, T) = SumFunctionOnSet(h, T)
        BY <3>1, <3>2, SumEqual
    <3>6. f.total_producer_vote_weight = Total(g)
        BY <1>1, <2>1, <3>3, <3>4, <3>5 DEF Whole, h
    <3> QED BY <3>2, <3>6 DEF Whole, S, g
  <2>7. BallotsOf(f, Nobody, NoBallot) = V
      BY <2>1 DEF BallotsOf
  <2> HIDE DEF V
  <2>8. Given(V, x) = 0
    <3> DEFINE j == [v \in DOMAIN V |-> ForProducer(V[v], x)]
    <3>1. \A v \in DOMAIN V : x \notin V[v].producers
      <4>1. \A v \in DOMAIN V : V[v].producers = e.voters[v].producers
          BY <1>1 DEF V, BallotsOf, Ballot
      <4> QED BY <1>1, <1>3, <4>1 DEF VoterSound
    <3>2. \A v \in DOMAIN V : j[v] = 0
        BY <3>1 DEF ForProducer
    <3>3. Given(V, x) = SumFunctionOnSet(j, DOMAIN V)
        BY TotalIs DEF Given, Total
    <3> HIDE DEF j
    <3> QED BY <1>1, <3>2, <3>3, SumOfNone DEF EvenBallots
  <2>9. Counted(f, V)
      BY <1>1, <2>1, <2>2, <2>3, <2>8 DEF Counted
  <2>10. Poll(f, Nobody, NoBallot)
      BY <1>1, <2>4, <2>5, <2>6, <2>7, <2>9 DEF Poll
  <2>11. CurrentBut(f, ct, {})
      BY <1>1, <2>1 DEF CurrentBut
  <2> QED BY <2>10, <2>11 DEF Tallied, f
<1> QED BY <1>2, <1>3

-----------------------------------------------------------------------------
\* Which votes an action casts.
\*
\* A world with the election e.
Holds(w, e) == DOMAIN w = WorldFields /\ w.elect = e

\* Whatever else of a world changes, it keeps its election.
LEMMA BesideHolds ==
    ASSUME NEW w, NEW e, Holds(w, e)
    PROVE  /\ \A r : Holds([w EXCEPT !.rex = r], e)
           /\ \A c : Holds([w EXCEPT !.core = c], e)
           /\ \A b : Holds([w EXCEPT !.bw = b], e)
           /\ \A f : Holds([w EXCEPT !.elect = f], f)
           /\ \A a, b, n : Holds(Transfer(w, a, b, n), e)
           /\ \A x, b : Holds([w EXCEPT !.rex.balances[x] = b], e)
<1>1. \A r : Holds([w EXCEPT !.rex = r], e)
    BY DEF Holds, WorldFields
<1>2. \A c : Holds([w EXCEPT !.core = c], e)
    BY DEF Holds, WorldFields
<1>3. \A b : Holds([w EXCEPT !.bw = b], e)
    BY DEF Holds, WorldFields
<1>4. \A f : Holds([w EXCEPT !.elect = f], f)
    BY DEF Holds, WorldFields
<1>5. \A a, b, n : Holds(Transfer(w, a, b, n), e)
    BY DEF Holds, WorldFields, Transfer
<1>6. \A x, b : Holds([w EXCEPT !.rex.balances[x] = b], e)
    BY DEF Holds, WorldFields
<1> QED BY <1>1, <1>2, <1>3, <1>4, <1>5, <1>6

\* So do the helpers of the resource exchange.
LEMMA HelpersHold ==
    ASSUME NEW w, NEW e, Holds(w, e), NEW ct
    PROVE  /\ \A x, net, cpu : Holds(update_resource_limits(w, x, net, cpu), e)
           /\ \A a, n : Holds(channel_to_rex(w, a, n, ct), e)
           /\ Holds(CollectNameBids(w, ct), e)
           /\ \A kind : Holds(ProcessLoan(w, kind, ct), e)
           /\ \A x : Holds(Matured(w, x), e)
<1>1. ASSUME NEW u, Holds(u, e), NEW x, NEW net, NEW cpu
      PROVE  Holds(update_resource_limits(u, x, net, cpu), e)
  <2> DEFINE t == PutResources(u.bw.userres, x, [Resources(u.bw, x) EXCEPT !.net = @ + net, !.cpu = @ + cpu])
             l == LimitsOf(u.bw.limits[x], [Resources(u.bw, x) EXCEPT !.net = @ + net, !.cpu = @ + cpu],
                           Managed(u.elect, x))
             v == [u EXCEPT !.bw.userres = t, !.bw.limits[x] = l]
  <2>1. update_resource_limits(u, x, net, cpu) \in {u, v}
      BY Zenon DEF update_resource_limits
  <2> HIDE DEF t, l
  <2>2. Holds(v, e)
      BY <1>1 DEF Holds, WorldFields
  <2> HIDE DEF v
  <2> QED BY <1>1, <2>1, <2>2
<1>2. ASSUME NEW a, NEW n
      PROVE  Holds(channel_to_rex(w, a, n, ct), e)
  <2> DEFINE r == add_to_rex_return_pool(w.rex, n, ct)
             v == [w EXCEPT !.rex = r]
  <2>1. channel_to_rex(w, a, n, ct) \in {w, Transfer(v, a, rex_account, n)}
      BY Zenon DEF channel_to_rex
  <2>2. Holds(v, e)
    <3> HIDE DEF r
    <3> QED BY BesideHolds
  <2> HIDE DEF v
  <2>3. Holds(Transfer(v, a, rex_account, n), e)
      BY <2>2, BesideHolds
  <2> QED BY <2>1, <2>3
<1>3. Holds(CollectNameBids(w, ct), e)
  <2> DEFINE v == channel_to_rex(w, names_account, w.rex.pool.namebid_proceeds, ct)
             u == [v EXCEPT !.rex.pool.namebid_proceeds = 0]
  <2>1. CollectNameBids(w, ct) \in {w, u}
      BY Zenon DEF CollectNameBids
  <2>2. Holds(v, e)
      BY <1>2
  <2> HIDE DEF v
  <2>3. Holds(u, e)
      BY <2>2 DEF Holds, WorldFields
  <2> QED BY <2>1, <2>3
<1>4. ASSUME NEW kind
      PROVE  Holds(ProcessLoan(w, kind, ct), e)
  <2>1. ProcessLoan(w, kind, ct) = w
        \/ \E r, x, net, cpu : ProcessLoan(w, kind, ct) = update_resource_limits([w EXCEPT !.rex = r], x, net, cpu)
      BY Zenon DEF ProcessLoan, ProcessLoanOf, LoanProcessed
  <2>2. ASSUME NEW r, NEW x, NEW net, NEW cpu
        PROVE  Holds(update_resource_limits([w EXCEPT !.rex = r], x, net, cpu), e)
    <3> DEFINE u == [w EXCEPT !.rex = r]
    <3>1. Holds(u, e)
        BY BesideHolds
    <3> HIDE DEF u
    <3>2. Holds(update_resource_limits(u, x, net, cpu), e)
        BY <1>1, <3>1
    <3> QED BY <3>2 DEF u
  <2> QED BY <2>1, <2>2, Zenon
<1>5. ASSUME NEW x
      PROVE  Holds(Matured(w, x), e)
  <2> DEFINE b == process_rex_maturities(w.rex.balances[x], now)
  <2>1. Matured(w, x) = [w EXCEPT !.rex.balances[x] = b]
      BY Zenon DEF Matured
  <2> HIDE DEF b
  <2> QED BY <2>1, BesideHolds
<1> QED BY <1>1, <1>2, <1>3, <1>4, <1>5

\* And the maintenance.
LEMMA LoansHold ==
    ASSUME NEW w, NEW e, Holds(w, e), NEW kind, NEW max \in Nat, NEW ct
    PROVE  Holds(ProcessLoans(w, kind, max, ct), e)
<1> DEFINE it == Processing(w, kind, ct)
           Bad == {k \in Nat : ~ Holds(it[k], e)}
<1>1. ProcessLoans(w, kind, max, ct) = it[max]
    BY Zenon DEF ProcessLoans, Processing, Processes
<1>2. it[0] = w /\ \A n \in Nat : n # 0 => it[n] = ProcessLoan(it[n - 1], kind, ct)
    BY ProcessingRecursion
<1> HIDE DEF it
<1>3. ASSUME Bad # {} PROVE FALSE
  <2>1. PICK b \in Bad : \A k \in Bad : b =< k
      BY <1>3, NatMin
  <2>2. b # 0
      BY <1>2, <2>1
  <2>3. b - 1 \in Nat /\ b - 1 \notin Bad
      BY <2>1, <2>2
  <2>4. Holds(it[b - 1], e)
      BY <2>3
  <2>5. Holds(ProcessLoan(it[b - 1], kind, ct), e)
      BY <2>4, HelpersHold
  <2> QED BY <1>2, <2>1, <2>2, <2>5
<1> QED BY <1>1, <1>3

\* The maintenance of the exchange, which runs with almost every action, leaves the
\* election alone.
LEMMA RunrexHolds ==
    ASSUME NEW w, NEW e, Holds(w, e), NEW max \in Nat, NEW ct
    PROVE  Holds(runrex(w, max, ct), e)
<1> DEFINE r1 == update_rex_pool(w.rex, ct)
           w1 == [w EXCEPT !.rex = r1]
           w2 == CollectNameBids(w1, ct)
           w3 == ProcessLoans(w2, "cpu", max, ct)
           w4 == ProcessLoans(w3, "net", max, ct)
           r5 == FillOrders(w4.rex, max)
           w5 == [w4 EXCEPT !.rex = r5]
<1>1. runrex(w, max, ct) = w5
    BY Zenon DEF runrex
<1> HIDE DEF r1, r5
<1>2. Holds(w1, e)
    BY BesideHolds
<1> HIDE DEF w1
<1>3. Holds(w2, e)
    BY <1>2, HelpersHold
<1> HIDE DEF w2
<1>4. Holds(w3, e)
    BY <1>3, LoansHold
<1> HIDE DEF w3
<1>5. Holds(w4, e)
    BY <1>4, LoansHold
<1> HIDE DEF w4
<1>6. Holds(w5, e)
    BY <1>5, BesideHolds
<1> HIDE DEF w5
<1> QED BY <1>1, <1>6

\* In f the vote of x is cast again, or no vote is.
Again(e, f, x, ct) == f = e \/ \E stake : f = Recast(e, x, stake, ct)

\* What an owner collects may change its stake.
LEMMA AccountAgain ==
    ASSUME NEW w, NEW e, Holds(w, e), NEW x, NEW proceeds, NEW delta, NEW force, NEW ct
    PROVE  \E f : Holds(update_rex_account(w, x, proceeds, delta, force, ct), f) /\ Again(e, f, x, ct)
<1> DEFINE r == CollectOrder(w.rex, x, proceeds + FilledOrder(w.rex, x).proceeds)
           v == [w EXCEPT !.rex = r]
           more == delta + FilledOrder(w.rex, x).stake_change
           stake == VoterRow(v.elect, x).staked + more
           f == Recast(v.elect, x, stake, ct)
           u == [v EXCEPT !.elect = f]
<1>1. update_rex_account(w, x, proceeds, delta, force, ct) \in {v, u}
  <2>1. update_rex_account(w, x, proceeds, delta, force, ct) = ChangeStake(v, x, more, force, ct)
      BY Zenon DEF update_rex_account
  <2> HIDE DEF v, more
  <2>2. ChangeStake(v, x, more, force, ct) \in {v, update_voting_power(v, x, more, ct)}
      BY Zenon DEF ChangeStake
  <2>3. update_voting_power(v, x, more, ct) = u
      BY Zenon DEF update_voting_power
  <2> QED BY <2>1, <2>2, <2>3
<1> HIDE DEF r
<1>2. Holds(v, e)
    BY BesideHolds
<1> HIDE DEF v, stake
<1>3. Holds(u, f) /\ v.elect = e
    BY <1>2, BesideHolds DEF Holds
<1>4. Again(e, f, x, ct)
    BY <1>3 DEF Again
<1>5. Again(e, e, x, ct)
    BY DEF Again
<1> HIDE DEF u, f
<1> QED BY <1>1, <1>2, <1>3, <1>4, <1>5

\* An action ends with it.
LEMMA DoneHolds ==
    ASSUME NEW w, NEW e, Holds(w, e), NEW x, Done(w, x) \/ RexExecDone(w) \/ Become(w)
    PROVE  elect' = e
BY DEF Holds, Done, RexExecDone, Become

\* A world before anything is done.
LEMMA WorldHolds == Holds(World, elect)
BY DEF Holds, World, WorldFields

\* The maintenance an action starts with.
LEMMA MaintenanceHolds ==
    ASSUME NEW max \in Nat
    PROVE  Holds(runrex(World, max, now), elect)
BY WorldHolds, RunrexHolds

\* deposit and withdraw.
LEMMA FundAgain ==
    ASSUME NEW x, NEW amount, Deposit(x, amount) \/ Withdraw(x, amount)
    PROVE  Again(elect, elect', x, now)
<1>1. CASE Deposit(x, amount)
  <2> DEFINE v == Transfer(World, x, rex_account, amount)
             r == transfer_to_fund(v.rex, x, amount)
             u == [v EXCEPT !.rex = r]
  <2>1. Become(u)
      BY <1>1, Zenon DEF Deposit
  <2>2. Holds(v, elect)
      BY WorldHolds, BesideHolds
  <2> HIDE DEF v, r
  <2>3. Holds(u, elect)
      BY <2>2, BesideHolds
  <2> HIDE DEF u
  <2> QED BY <2>1, <2>3, DoneHolds DEF Again
<1>2. CASE Withdraw(x, amount)
  <2> DEFINE force == FALSE
             w == update_rex_account(World, x, 0, 0, force, now)
             v == Transfer(w, rex_account, x, amount)
             r == transfer_from_fund(v.rex, x, amount)
             u == [v EXCEPT !.rex = r]
  <2>1. Done(u, x)
      BY <1>2, Zenon DEF Withdraw, WithdrawFrom
  <2> HIDE DEF force
  <2>2. PICK f : Holds(w, f) /\ Again(elect, f, x, now)
      BY WorldHolds, AccountAgain
  <2> HIDE DEF w
  <2>3. Holds(v, f)
      BY <2>2, BesideHolds
  <2> HIDE DEF v, r
  <2>4. Holds(u, f)
      BY <2>3, BesideHolds
  <2> HIDE DEF u
  <2> QED BY <2>1, <2>2, <2>4, DoneHolds
<1> QED BY <1>1, <1>2

\* buyrex.
LEMMA BuyRexAgain ==
    ASSUME NEW x, NEW amount, BuyRex(x, amount)
    PROVE  Again(elect, elect', x, now)
<1> DEFINE r == Bought(transfer_from_fund(rex, x, amount), x, amount, now)
           w == [World EXCEPT !.rex = r]
           v == runrex(w, 2, now)
           delta == VoteStake(r, x) - VoteStake(rex, x)
           force == FALSE
           u == update_rex_account(v, x, 0, delta, force, now)
<1>1. Done(u, x)
    BY Zenon DEF BuyRex, BuyRexDone
<1> HIDE DEF r, delta, force
<1>2. Holds(w, elect)
    BY WorldHolds, BesideHolds
<1> HIDE DEF w
<1>3. Holds(v, elect)
    BY <1>2, RunrexHolds
<1> HIDE DEF v
<1>4. PICK f : Holds(u, f) /\ Again(elect, f, x, now)
    BY <1>3, AccountAgain
<1> HIDE DEF u
<1> QED BY <1>1, <1>4, DoneHolds

\* unstaketorex.
LEMMA UnstakeToRexAgain ==
    ASSUME NEW x, NEW receiver, NEW net, NEW cpu, UnstakeToRex(x, receiver, net, cpu)
    PROVE  Again(elect, elect', x, now)
<1> DEFINE left == Unstaked(bw.delband[<<x, receiver>>], net, cpu)
           payment == net + cpu
           t == IF left.net = 0 /\ left.cpu = 0 THEN Erase(World.bw.delband, <<x, receiver>>)
                ELSE Put(World.bw.delband, <<x, receiver>>, left)
           w1 == StakeTaken(World, x, receiver, left)
           w2 == update_resource_limits(w1, receiver, - net, - cpu)
           w3 == Transfer(w2, stake_account, rex_account, payment)
           r  == Bought(w3.rex, x, payment, now)
           w4 == [w3 EXCEPT !.rex = r]
           w5 == runrex(w4, 2, now)
           force == TRUE
           w6 == update_rex_account(w5, x, 0, 0, force, now)
<1>1. Done(w6, x)
    BY Zenon DEF UnstakeToRex, StakeFreed
<1>2. Holds(w1, elect)
  <2>1. w1 = [World EXCEPT !.bw.delband = t]
      BY DEF StakeTaken
  <2> HIDE DEF w1, t
  <2> QED BY <2>1, WorldHolds DEF Holds, WorldFields
<1> HIDE DEF w1, left, payment, force
<1>3. Holds(w2, elect)
    BY <1>2, HelpersHold
<1> HIDE DEF w2
<1>4. Holds(w3, elect)
    BY <1>3, BesideHolds
<1> HIDE DEF w3, r
<1>5. Holds(w4, elect)
    BY <1>4, BesideHolds
<1> HIDE DEF w4
<1>6. Holds(w5, elect)
    BY <1>5, RunrexHolds
<1> HIDE DEF w5
<1>7. PICK f : Holds(w6, f) /\ Again(elect, f, x, now)
    BY <1>6, AccountAgain
<1> HIDE DEF w6
<1> QED BY <1>1, <1>7, DoneHolds

\* sellrex, and an order cancelled.
LEMMA SellRexAgain ==
    ASSUME NEW x, NEW amount, SellRex(x, amount) \/ CnclRexOrder(x)
    PROVE  Again(elect, elect', x, now)
<1>1. CASE SellRex(x, amount)
  <2> DEFINE w1 == runrex(World, 2, now)
             w2 == Matured(w1, x)
             outcome == fill_rex_order(w2.rex, x, amount)
             w3 == [w2 EXCEPT !.rex = outcome.rex]
             force == FALSE
             w4 == update_rex_account(w3, x, outcome.proceeds, outcome.stake_change, force, now)
             r == Queue(w4.rex, x, amount)
             w5 == [w4 EXCEPT !.rex = r]
  <2>1. Done(w4, x) \/ Done(w5, x)
    <3>1. SellRexDone(w4, x, amount, outcome.success)
        BY <1>1, Zenon DEF SellRex, SellRexFrom, SellRexOutcome
    <3> HIDE DEF w4, outcome
    <3> QED BY <3>1, Zenon DEF SellRexDone
  <2> HIDE DEF force
  <2>2. Holds(w1, elect)
      BY MaintenanceHolds
  <2> HIDE DEF w1
  <2>3. Holds(w2, elect)
      BY <2>2, HelpersHold
  <2> HIDE DEF w2, outcome
  <2>4. Holds(w3, elect)
      BY <2>3, BesideHolds
  <2> HIDE DEF w3
  <2>5. PICK f : Holds(w4, f) /\ Again(elect, f, x, now)
      BY <2>4, AccountAgain
  <2> HIDE DEF w4, r
  <2>6. Holds(w5, f)
      BY <2>5, BesideHolds
  <2> HIDE DEF w5
  <2> QED BY <2>1, <2>5, <2>6, DoneHolds
<1>2. CASE CnclRexOrder(x)
  <2> DEFINE t == Erase(World.rex.orders, x)
             w == [World EXCEPT !.rex.orders = t]
  <2>1. Become(w)
      BY <1>2, Zenon DEF CnclRexOrder
  <2> HIDE DEF t
  <2>2. Holds(w, elect)
      BY WorldHolds DEF Holds, WorldFields
  <2> HIDE DEF w
  <2> QED BY <2>1, <2>2, DoneHolds DEF Again
<1> QED BY <1>1, <1>2

\* Loans are not about votes.
LEMMA LoanActionsKeep ==
    ASSUME NEW kind, NEW x
    PROVE  /\ \A receiver, payment, fund : RentRex(kind, x, receiver, payment, fund) => elect' = elect
           /\ \A num, amount : FundLoan(kind, x, num, amount) \/ DefundLoan(kind, x, num, amount)
                               => elect' = elect
<1>1. ASSUME NEW receiver, NEW payment, NEW fund, RentRex(kind, x, receiver, payment, fund)
      PROVE  elect' = elect
  <2> DEFINE w == runrex(World, 2, now)
             rented == RentedTokens(w.rex.pool, payment)
             loan == [kind |-> kind, from |-> x, receiver |-> receiver, payment |-> payment,
                      balance |-> fund, total_staked |-> rented, expiration |-> now + Term]
             r == AddLoan(add_loan_to_rex_pool(transfer_from_fund(w.rex, x, payment + fund),
                                               payment, rented, TRUE, now), loan)
             u == [w EXCEPT !.rex = r]
             net == IF kind = "net" THEN rented ELSE 0
             cpu == IF kind = "cpu" THEN rented ELSE 0
             v == update_resource_limits(u, receiver, net, cpu)
  <2>1. Done(v, x)
      BY <1>1, Zenon DEF RentRex, RentRexFrom, RentTokens
  <2>2. Holds(w, elect)
      BY MaintenanceHolds
  <2> HIDE DEF w, rented, loan, r
  <2>3. Holds(u, elect)
      BY <2>2, BesideHolds
  <2> HIDE DEF u, net, cpu
  <2>4. Holds(v, elect)
      BY <2>3, HelpersHold
  <2> HIDE DEF v
  <2> QED BY <2>1, <2>4, DoneHolds
<1>2. ASSUME NEW num, NEW amount, FundLoan(kind, x, num, amount) \/ DefundLoan(kind, x, num, amount)
      PROVE  elect' = elect
  <2>1. \E r : Become([World EXCEPT !.rex = r])
      BY <1>2, Zenon DEF FundLoan, DefundLoan
  <2> QED BY <2>1, WorldHolds, BesideHolds, DoneHolds
<1> QED BY <1>1, <1>2

\* updaterex.
LEMMA UpdateRexAgain ==
    ASSUME NEW x, UpdateRex(x)
    PROVE  Again(elect, elect', x, now)
<1> DEFINE w1 == runrex(World, 2, now)
           stake == WorthNow(w1.rex, x)
           w2 == [w1 EXCEPT !.rex.balances[x].vote_stake = stake]
           delta == stake - w1.rex.balances[x].vote_stake
           force == TRUE
           w3 == update_rex_account(w2, x, 0, delta, force, now)
           w4 == Matured(w3, x)
<1>1. Done(w4, x)
    BY Zenon DEF UpdateRex, UpdateRexFrom, Revalued
<1> HIDE DEF force
<1>2. Holds(w1, elect)
    BY MaintenanceHolds
<1> HIDE DEF w1, stake
<1>3. Holds(w2, elect)
    BY <1>2 DEF Holds, WorldFields
<1> HIDE DEF w2, delta
<1>4. PICK f : Holds(w3, f) /\ Again(elect, f, x, now)
    BY <1>3, AccountAgain
<1> HIDE DEF w3
<1>5. Holds(w4, f)
    BY <1>4, HelpersHold
<1> HIDE DEF w4
<1> QED BY <1>1, <1>4, <1>5, DoneHolds

\* setrex and rexexec.
LEMMA RexExecKeeps ==
    /\ \A balance : SetRex(balance) => elect' = elect
    /\ \A max \in Nat : RexExec(max) => elect' = elect
<1>1. ASSUME NEW balance, SetRex(balance)
      PROVE  elect' = elect
  <2> DEFINE w == [World EXCEPT !.rex.pool.total_rent = balance]
  <2>1. Become(w)
      BY <1>1, Zenon DEF SetRex
  <2>2. Holds(w, elect)
      BY WorldHolds DEF Holds, WorldFields
  <2> HIDE DEF w
  <2> QED BY <2>1, <2>2, DoneHolds
<1>2. ASSUME NEW max \in Nat, RexExec(max)
      PROVE  elect' = elect
    BY <1>2, MaintenanceHolds, DoneHolds DEF RexExec
<1> QED BY <1>1, <1>2

\* consolidate, mvtosavings, mvfrsavings and closerex.
LEMMA SavingsAgain ==
    ASSUME NEW x, NEW amount,
           Consolidate(x) \/ MvToSavings(x, amount) \/ MvFrSavings(x, amount) \/ CloseRex(x)
    PROVE  Again(elect, elect', x, now)
<1> DEFINE force == FALSE
<1>1. CASE Consolidate(x) \/ MvToSavings(x, amount)
  <2> DEFINE w1 == runrex(World, 2, now)
             w2 == update_rex_account(w1, x, 0, 0, force, now)
  <2>1. w2 = Maintained(x)
      BY Zenon DEF Maintained
  <2>2. Holds(w1, elect)
      BY MaintenanceHolds
  <2> HIDE DEF w1, force
  <2>3. PICK f : Holds(w2, f) /\ Again(elect, f, x, now)
      BY <2>2, AccountAgain
  <2> HIDE DEF w2
  <2>4. PICK b : Done([w2 EXCEPT !.rex.balances[x] = b], x)
      BY <1>1, <2>1, Zenon DEF Consolidate, ConsolidateFrom, MvToSavings, SettledMvToSavings,
                               MvToSavingsFrom, SaveRex
  <2>5. Holds([w2 EXCEPT !.rex.balances[x] = b], f)
      BY <2>3, BesideHolds
  <2> QED BY <2>3, <2>4, <2>5, DoneHolds
<1>2. CASE MvFrSavings(x, amount)
  <2> DEFINE w1 == runrex(World, 2, now)
             w2 == Matured(w1, x)
             b == FromSavings(w2.rex.balances[x], amount, now)
             w3 == [w2 EXCEPT !.rex.balances[x] = b]
             w4 == update_rex_account(w3, x, 0, 0, force, now)
  <2>1. Done(w4, x)
      BY <1>2, Zenon DEF MvFrSavings, MvFrSavingsFrom
  <2>2. Holds(w1, elect)
      BY MaintenanceHolds
  <2> HIDE DEF w1, force
  <2>3. Holds(w2, elect)
      BY <2>2, HelpersHold
  <2> HIDE DEF w2, b
  <2>4. Holds(w3, elect)
      BY <2>3, BesideHolds
  <2> HIDE DEF w3
  <2>5. PICK f : Holds(w4, f) /\ Again(elect, f, x, now)
      BY <2>4, AccountAgain
  <2> HIDE DEF w4
  <2> QED BY <2>1, <2>5, DoneHolds
<1>3. CASE CloseRex(x)
  <2> DEFINE w1 == IF rex.pool.exists THEN runrex(World, 2, now) ELSE World
             w2 == update_rex_account(w1, x, 0, 0, force, now)
             g == IF Unused(w2.rex, x) THEN Erase(w2.rex.funds, x) ELSE w2.rex.funds
             b == Erase(w2.rex.balances, x)
             w3 == [w2 EXCEPT !.rex.funds = g, !.rex.balances = b]
  <2>1. Done(w3, x)
      BY <1>3, Zenon DEF CloseRex, CloseRexFrom
  <2>2. Holds(w1, elect)
      BY MaintenanceHolds, WorldHolds
  <2> HIDE DEF w1, force
  <2>3. PICK f : Holds(w2, f) /\ Again(elect, f, x, now)
      BY <2>2, AccountAgain
  <2> HIDE DEF w2, g, b
  <2>4. Holds(w3, f)
      BY <2>3 DEF Holds, WorldFields
  <2> HIDE DEF w3
  <2> QED BY <2>1, <2>3, <2>4, DoneHolds
<1> QED BY <1>1, <1>2, <1>3

-----------------------------------------------------------------------------
\* Stakes of naturals.
StakesNatural(e) == \A x \in DOMAIN e.voters : e.voters[x].staked \in Nat

\* A vote leaves the stake of its voter.
LEMMA VoteKeepsStake ==
    ASSUME NEW e, ElectShaped(e), NEW x \in DOMAIN e.voters, NEW proxy, NEW producers, NEW ct,
           NEW f, f = update_votes(e, x, proxy, producers, ct)
    PROVE  x \in DOMAIN f.voters /\ f.voters[x].staked = e.voters[x].staked
<1>1. PICK g, weight : Reweighed(e, g) /\ f = CastOn(g, x, weight, proxy, producers)
    BY VoteIsCast
<1> DEFINE row == CastRow(g.voters[x], weight, proxy, producers)
<1>2. DOMAIN g = ElectionFields /\ SameVoter(e.voters[x], g.voters[x])
    BY <1>1 DEF Reweighed
<1>3. f = [g EXCEPT !.voters = Put(@, x, row)]
    BY <1>1 DEF CastOn
<1>4. row.staked = e.voters[x].staked
    BY <1>2 DEF CastRow, SameVoter, VoterFields
<1> HIDE DEF row
<1>5. f.voters = Put(g.voters, x, row)
    BY <1>2, <1>3 DEF ElectionFields
<1> QED BY <1>4, <1>5 DEF Put

\* A vote cast again is cast with the new stake.
LEMMA RecastStake ==
    ASSUME NEW e, Proxies(e), NEW x \in Users, NEW stake, NEW ct,
           NEW g, g = Recast(e, x, stake, ct)
    PROVE  x \in DOMAIN g.voters /\ g.voters[x].staked = stake
<1> DEFINE row == VoterRow(e, x)
           new == [row EXCEPT !.staked = stake]
           f == [e EXCEPT !.voters = Put(@, x, new)]
           h == update_votes(f, x, row.proxy, row.producers, ct)
<1>1. /\ Proxies(f) /\ x \in DOMAIN f.voters /\ f.voters[x] = new /\ DOMAIN row = VoterFields
    BY NobodyNoUser, RowKept
<1>2. Recast(e, x, stake, ct) = VoteAgain(f, x, row, ct)
    BY DEF Recast
<1> HIDE DEF f, row
<1>3. f.voters[x].staked = stake
    BY <1>1 DEF VoterFields
<1>4. g \in {f, h}
    BY <1>2, Zenon DEF VoteAgain
<1>5. ElectShaped(f) /\ x \in DOMAIN f.voters
    BY <1>1 DEF Proxies
<1> DEFINE proxy == row.proxy
           producers == row.producers
<1>h. h = update_votes(f, x, proxy, producers, ct)
    OBVIOUS
<1> HIDE DEF h, proxy, producers
<1>6. x \in DOMAIN h.voters /\ h.voters[x].staked = f.voters[x].staked
    BY <1>5, <1>h, VoteKeepsStake
<1> QED BY <1>1, <1>3, <1>4, <1>6

\* So a vote that is cast again keeps the tally.
LEMMA AgainTallies ==
    ASSUME NEW e, NEW ct \in Times, Tallied(e, ct), NEW x \in Users, NEW f, Again(e, f, x, ct),
           StakesNatural(f)
    PROVE  Tallied(f, ct)
<1>1. ASSUME NEW stake, f = Recast(e, x, stake, ct)
      PROVE  Tallied(f, ct)
  <2>1. Proxies(e)
      BY DEF Tallied, Poll
  <2>2. x \in DOMAIN f.voters /\ f.voters[x].staked = stake
      BY <1>1, <2>1, RecastStake
  <2>3. stake \in Nat
      BY <2>2 DEF StakesNatural
  <2>r. Restaked(e, x, stake) = Restaked(e, x, stake)
      OBVIOUS
  <2>4. Tallied(Recast(e, x, stake, ct), ct)
      BY <2>3, <2>r, RestakeTallies
  <2> QED BY <1>1, <2>4
<1> QED BY <1>1 DEF Again

\* A stake changed twice is changed to the second one.
LEMMA RestakedTwice ==
    ASSUME NEW e, Proxies(e), NEW x \in Users, NEW first, NEW stake, NEW ct
    PROVE  Recast(Restaked(e, x, first), x, stake, ct) = Recast(e, x, stake, ct)
<1> DEFINE row == VoterRow(e, x)
           new == [row EXCEPT !.staked = first]
           other == [row EXCEPT !.staked = stake]
           f == [e EXCEPT !.voters = Put(@, x, new)]
           g == [e EXCEPT !.voters = Put(@, x, other)]
<1>0. Restaked(e, x, first) = f
    BY DEF Restaked
<1>1. /\ Proxies(f) /\ x \in DOMAIN f.voters /\ f.voters[x] = new /\ DOMAIN row = VoterFields
      /\ DOMAIN e = ElectionFields
  <2>1. DOMAIN e = ElectionFields
      BY DEF Proxies, ElectShaped
  <2> QED BY <2>1, NobodyNoUser, RowKept
<1>2. VoterRow(f, x) = new
    BY <1>1 DEF VoterRow
<1> HIDE DEF row
<1>3. [new EXCEPT !.staked = stake] = other /\ new.producers = row.producers /\ new.proxy = row.proxy
    BY <1>1 DEF VoterFields
<1> HIDE DEF new, other
<1>4. [f EXCEPT !.voters = Put(@, x, other)] = g
  <2>1. Put(Put(e.voters, x, new), x, other) = Put(e.voters, x, other)
      BY DEF Put
  <2>2. f.voters = Put(e.voters, x, new)
      BY <1>1 DEF ElectionFields
  <2> QED BY <1>1, <2>1, <2>2 DEF ElectionFields
<1> HIDE DEF f
<1>5. Recast(f, x, stake, ct) = VoteAgain([f EXCEPT !.voters = Put(@, x, other)], x, new, ct)
    BY <1>2, <1>3 DEF Recast
<1>6. Recast(e, x, stake, ct) = VoteAgain(g, x, row, ct)
    BY DEF Recast, row, other
<1> HIDE DEF g
<1> QED BY <1>0, <1>3, <1>4, <1>5, <1>6 DEF VoteAgain

\* What the REX of a voter is worth changes its stake, if anything.
LEMMA RexStakeHolds ==
    ASSUME NEW w, NEW e, Holds(w, e), ElectShaped(e), NEW x
    PROVE  \E f : /\ Holds(update_rex_stake(w, x), f)
                  /\ f = e \/ (x \in DOMAIN e.voters /\ \E stake : f = Restaked(e, x, stake))
<1> DEFINE worth == WorthOf(w.rex.pool, w.rex.balances[x].rex_balance)
           delta == worth - w.rex.balances[x].vote_stake
           v == [w EXCEPT !.rex.balances[x].vote_stake = worth]
           g == [e EXCEPT !.voters[x].staked = @ + delta]
           u == [v EXCEPT !.elect.voters[x].staked = @ + delta]
<1>0. w.elect = e
    BY DEF Holds
<1>1. update_rex_stake(w, x) \in {w, v} \/ (x \in DOMAIN e.voters /\ update_rex_stake(w, x) = u)
    BY <1>0 DEF update_rex_stake
<1>2. Holds(v, e)
    BY DEF Holds, WorldFields
<1>3. u = [v EXCEPT !.elect = g]
  <2> HIDE DEF worth, v
  <2> QED BY <1>2 DEF Holds
<1> HIDE DEF v
<1>4. Holds(u, g)
  <2> HIDE DEF g, u
  <2> QED BY <1>2, <1>3, BesideHolds
<1>5. ASSUME x \in DOMAIN e.voters
      PROVE  \E stake : g = Restaked(e, x, stake)
  <2> DEFINE stake == e.voters[x].staked + delta
             row == [e.voters[x] EXCEPT !.staked = stake]
  <2>1. VoterRow(e, x) = e.voters[x]
      BY <1>5 DEF VoterRow
  <2>2. g = [e EXCEPT !.voters[x] = row]
      OBVIOUS
  <2> HIDE DEF stake
  <2>3. Restaked(e, x, stake) = [e EXCEPT !.voters = Put(@, x, row)]
      BY <2>1 DEF Restaked
  <2> HIDE DEF row, g
  <2>4. [e EXCEPT !.voters[x] = row] = [e EXCEPT !.voters = Put(@, x, row)]
      BY <1>5, RowModified
  <2> QED BY <2>2, <2>3, <2>4
<1> HIDE DEF g, u
<1> QED BY <1>1, <1>2, <1>4, <1>5

\* voteproducer.
LEMMA VoteProducerTallies ==
    ASSUME now \in Times, Tallied(elect, now), StakesNatural(elect)', NEW x, NEW proxy, NEW producers,
           VoteProducer(x, proxy, producers)
    PROVE  Tallied(elect', now)
<1> DEFINE w1 == update_rex_stake(World, x)
           voting == TRUE
<1>0. Proxies(elect) /\ ElectShaped(elect)
    BY DEF Tallied, Poll, Proxies
<1>1. PICK f : /\ Holds(w1, f)
               /\ f = elect \/ (x \in DOMAIN elect.voters /\ \E stake : f = Restaked(elect, x, stake))
    BY <1>0, WorldHolds, RexStakeHolds
<1> DEFINE g == update_votes(f, x, proxy, producers, now)
           w2 == [w1 EXCEPT !.elect = g]
<1>2. CanVote(f, x, proxy, producers, voting) /\ Become(w2)
  <2>1. /\ CanVote(w1.elect, x, proxy, producers, TRUE)
        /\ Become([w1 EXCEPT !.elect = update_votes(@, x, proxy, producers, now)])
      BY Zenon DEF VoteProducer
  <2>2. w1.elect = f
      BY <1>1 DEF Holds
  <2> HIDE DEF w1
  <2> QED BY <2>1, <2>2
<1> HIDE DEF w1
<1>3. elect' = g
  <2> HIDE DEF g
  <2>1. Holds(w2, g)
      BY <1>1, BesideHolds
  <2> HIDE DEF w2
  <2> QED BY <1>2, <2>1, DoneHolds
<1>4. x \in DOMAIN f.voters
    BY <1>2 DEF CanVote
<1>5. CASE f = elect
  <2>1. Choosable(f, x, proxy) /\ producers \subseteq DOMAIN f.producers /\ (proxy # Nobody => producers = {})
    <3>1. voting
        OBVIOUS
    <3> HIDE DEF voting
    <3> QED BY <1>2, <3>1 DEF CanVote, Choosable
  <2>2. Poll(f, Nobody, NoBallot) /\ CurrentBut(f, now, {x})
      BY <1>5 DEF Tallied, CurrentBut
  <2>3. Tallied(g, now)
      BY <1>4, <2>1, <2>2, VoteTallies
  <2> QED BY <1>3, <2>3
<1>6. ASSUME x \in DOMAIN elect.voters, NEW stake, f = Restaked(elect, x, stake)
      PROVE  Tallied(elect', now)
  <2>1. x \in Users
      BY <1>0, <1>6 DEF ElectShaped
  <2>2. ElectShaped(f) /\ f.voters[x].staked = stake
    <3> DEFINE row == VoterRow(elect, x)
               new == [row EXCEPT !.staked = stake]
    <3>1. f = [elect EXCEPT !.voters = Put(@, x, new)]
        BY <1>6 DEF Restaked
    <3>2. Proxies(f) /\ f.voters[x] = new /\ DOMAIN row = VoterFields
        BY <1>0, <2>1, <3>1, NobodyNoUser, RowKept
    <3> HIDE DEF row
    <3> QED BY <3>2 DEF Proxies, VoterFields
  <2>3. x \in DOMAIN g.voters /\ g.voters[x].staked = f.voters[x].staked
      BY <1>4, <2>2, VoteKeepsStake
  <2> HIDE DEF g
  <2>4. stake \in Nat
      BY <1>3, <2>2, <2>3 DEF StakesNatural
  <2>5. CanVote(f, x, proxy, producers, TRUE)
      BY <1>2
  <2>6. Tallied(update_votes(f, x, proxy, producers, now), now)
      BY <1>6, <2>4, <2>5, RevaluedTallies
  <2> QED BY <1>3, <2>6 DEF g
<1> QED BY <1>1, <1>5, <1>6

\* The stake of from changes, with its REX and then otherwise, and its vote is
\* cast again once.
LEMMA WithVotesAgain ==
    ASSUME NEW w, NEW e, Holds(w, e), Proxies(e), NEW x \in Users, NEW total, NEW ct
    PROVE  \E f : /\ Holds(update_voting_power(update_rex_stake(w, x), x, total, ct), f)
                  /\ Again(e, f, x, ct)
<1> DEFINE v == update_rex_stake(w, x)
<1>1. PICK f : /\ Holds(v, f)
               /\ f = e \/ (x \in DOMAIN e.voters /\ \E stake : f = Restaked(e, x, stake))
  <2>1. ElectShaped(e)
      BY DEF Proxies
  <2> QED BY <2>1, RexStakeHolds
<1> HIDE DEF v
<1> DEFINE stake == VoterRow(f, x).staked + total
           g == Recast(f, x, stake, ct)
           u == [v EXCEPT !.elect = g]
<1>2. update_voting_power(v, x, total, ct) = u
  <2>1. v.elect = f
      BY <1>1 DEF Holds
  <2> QED BY <2>1, Zenon DEF update_voting_power
<1> HIDE DEF stake
<1>3. Again(e, g, x, ct)
  <2>1. CASE f = e
      BY <2>1 DEF Again
  <2>2. ASSUME NEW first, f = Restaked(e, x, first)
        PROVE  Again(e, g, x, ct)
    <3>1. g = Recast(e, x, stake, ct)
        BY <2>2, RestakedTwice
    <3> HIDE DEF g
    <3> QED BY <3>1 DEF Again
  <2> QED BY <1>1, <2>1, <2>2
<1> HIDE DEF g
<1>4. Holds(u, g)
    BY <1>1, BesideHolds
<1> HIDE DEF u
<1> QED BY <1>2, <1>3, <1>4 DEF v

\* delegatebw and undelegatebw.
LEMMA DelegateAgain ==
    ASSUME Proxies(elect), NEW x \in Users, NEW receiver \in Users, NEW net, NEW cpu, NEW transfer,
           DelegateBw(x, receiver, net, cpu, transfer) \/ UndelegateBw(x, receiver, net, cpu)
    PROVE  \E from \in Users : Again(elect, elect', from, now)
<1>1. ASSUME NEW from \in Users, NEW n, NEW c, NEW give, changebw_from(x, from, receiver, n, c, give)
      PROVE  Again(elect, elect', from, now)
  <2> DEFINE to_self == ~ give /\ from = receiver
             w1 == StakeMoved(World, from, receiver, n, c)
             change == RefundFor(w1, from, n, c, to_self)
             w2 == change.w
             w3 == RefundScheduled(change, x, from)
             w4 == update_rex_stake(w3, from)
             total == n + c
             w5 == update_voting_power(w4, from, total, now)
  <2>1. Become(w5)
      BY <1>1, Zenon DEF changebw_from, changebw_moved, StakeDone, WithVotes
  <2>2. Holds(w1, elect)
    <3>1. \E d, t, l : w1 = [World EXCEPT !.bw.delband = d, !.bw.userres = t, !.bw.limits[receiver] = l]
        BY Zenon DEF StakeMoved
    <3> HIDE DEF w1
    <3> QED BY <3>1, WorldHolds DEF Holds, WorldFields
  <2> HIDE DEF w1, to_self
  <2>3. Holds(w2, elect)
    <3> DEFINE old == RefundOf(w1.bw, from)
               row == [net |-> Positive(old.net - n), cpu |-> Positive(old.cpu - c),
                       request_time |-> IF n < 0 \/ c < 0 THEN now ELSE old.request_time]
               t   == IF row.net + row.cpu = 0 THEN Erase(w1.bw.refunds, from)
                      ELSE Put(w1.bw.refunds, from, row)
               u   == [w1 EXCEPT !.bw.refunds = t]
    <3>1. w2 \in {w1, u}
        BY DEF RefundFor, RefundChanged, NoRefundChange
    <3> HIDE DEF t, w2
    <3>2. Holds(u, elect)
        BY <2>2 DEF Holds, WorldFields
    <3> QED BY <2>2, <3>1, <3>2
  <2> HIDE DEF change
  <2>4. Holds(w3, elect)
    <3> DEFINE due == change.due
               v == RefundPaid(change, x)
               d == IF change.pending THEN Put(v.bw.deferred, from, now + refund_delay_sec)
                    ELSE Erase(v.bw.deferred, from)
    <3>1. v \in {w2, Transfer(w2, x, stake_account, due)}
        BY DEF RefundPaid
    <3> HIDE DEF w2, due
    <3>2. Holds(v, elect)
        BY <2>3, <3>1, BesideHolds
    <3>3. w3 = [v EXCEPT !.bw.deferred = d]
        BY DEF RefundScheduled, Schedule
    <3> HIDE DEF v, d, w3
    <3> QED BY <3>2, <3>3 DEF Holds, WorldFields
  <2> HIDE DEF w3, total
  <2>5. PICK f : Holds(w5, f) /\ Again(elect, f, from, now)
      BY <2>4, WithVotesAgain
  <2> HIDE DEF w4, w5
  <2> QED BY <2>1, <2>5, DoneHolds
<1>2. CASE DelegateBw(x, receiver, net, cpu, transfer)
  <2> DEFINE from == IF transfer THEN receiver ELSE x
  <2>1. from \in Users /\ changebw_from(x, from, receiver, net, cpu, transfer)
      BY <1>2 DEF DelegateBw, changebw
  <2> HIDE DEF from
  <2> QED BY <1>1, <2>1
<1>3. CASE UndelegateBw(x, receiver, net, cpu)
  <2> DEFINE give == FALSE
  <2>1. changebw_from(x, x, receiver, - net, - cpu, give)
      BY <1>3 DEF UndelegateBw, changebw
  <2> HIDE DEF give
  <2> QED BY <1>1, <2>1
<1> QED BY <1>2, <1>3

\* A refund is not about votes,
LEMMA RefundKeeps ==
    ASSUME NEW x, Refund(x) \/ RunDeferred(x)
    PROVE  elect' = elect
<1>1. ASSUME NEW w, Holds(w, elect)
      PROVE  Holds(Refunded(w, x), elect)
  <2> DEFINE t == Erase(w.bw.refunds, x)
             u == [w EXCEPT !.bw.refunds = t]
             back == w.bw.refunds[x].net + w.bw.refunds[x].cpu
  <2>1. Refunded(w, x) = Transfer(u, stake_account, x, back)
      BY DEF Refunded
  <2> HIDE DEF t, back
  <2>2. Holds(u, elect)
      BY <1>1 DEF Holds, WorldFields
  <2> HIDE DEF u
  <2> QED BY <2>1, <2>2, BesideHolds
<1> DEFINE gone == [World EXCEPT !.bw.deferred = Erase(@, x)]
<1>2. Holds(gone, elect)
  <2> DEFINE t == Erase(World.bw.deferred, x)
  <2>1. gone = [World EXCEPT !.bw.deferred = t]
      OBVIOUS
  <2> HIDE DEF t, gone
  <2> QED BY <2>1, WorldHolds DEF Holds, WorldFields
<1>3. Become(Refunded(World, x)) \/ Become(Refunded(gone, x)) \/ Become(gone)
    BY DEF Refund, RunDeferred
<1> HIDE DEF gone
<1> QED BY <1>1, <1>2, <1>3, WorldHolds, DoneHolds

\* nor is RAM,
LEMMA RamKeeps ==
    ASSUME NEW x, RamStep(x)
    PROVE  elect' = elect
<1>1. ASSUME NEW w, Holds(w, elect), NEW y, NEW bytes
      PROVE  Holds(HoldRam(w, y, bytes), elect)
  <2> DEFINE t == Put(w.bw.userres, y, [Resources(w.bw, y) EXCEPT !.ram = @ + bytes])
             v == [w EXCEPT !.bw.userres = t]
             more == v.bw.userres[y].ram + ram_gift_bytes
             u == [v EXCEPT !.bw.limits[y].ram = more]
  <2>1. HoldRam(w, y, bytes) \in {v, u}
    <3>1. HoldRam(w, y, bytes) = SetRamLimit(v, y)
        BY Zenon DEF HoldRam
    <3> HIDE DEF v
    <3> QED BY <3>1, Zenon DEF SetRamLimit
  <2> HIDE DEF t
  <2>2. Holds(v, elect)
      BY <1>1 DEF Holds, WorldFields
  <2> HIDE DEF v, more
  <2>3. Holds(u, elect)
      BY <2>2 DEF Holds, WorldFields
  <2> HIDE DEF u
  <2> QED BY <2>1, <2>2, <2>3
<1>2. ASSUME NEW w, Holds(w, elect), NEW y, NEW fee
      PROVE  Holds(PayFee(w, y, fee), elect)
  <2> DEFINE v == Transfer(w, y, ramfee_account, fee)
  <2>1. Holds(v, elect)
      BY <1>2, BesideHolds
  <2> HIDE DEF v
  <2>2. Holds(channel_to_rex(v, ramfee_account, fee, now), elect)
      BY <2>1, HelpersHold
  <2> QED BY <2>2 DEF PayFee, v
<1>3. ASSUME NEW receiver, NEW quant, BuyRam(x, receiver, quant)
      PROVE  elect' = elect
  <2> DEFINE fee == Fee(quant)
             after == quant - fee
             out == direct_convert(Relay(update_ram_supply(ram, now)), "quote", after).out
             w1 == Transfer(World, x, ram_account, after)
             w2 == PayFee(w1, x, fee)
             w3 == HoldRam(w2, receiver, out)
  <2>1. Become(w3)
      BY <1>3, Zenon DEF BuyRam
  <2> HIDE DEF fee, after, out
  <2>2. Holds(w1, elect)
      BY WorldHolds, BesideHolds
  <2> HIDE DEF w1
  <2>3. Holds(w2, elect)
      BY <1>2, <2>2
  <2> HIDE DEF w2
  <2>4. Holds(w3, elect)
      BY <1>1, <2>3
  <2> HIDE DEF w3
  <2> QED BY <2>1, <2>4, DoneHolds
<1>4. ASSUME NEW bytes, SellRam(x, bytes)
      PROVE  elect' = elect
  <2> DEFINE out == direct_convert(Relay(update_ram_supply(ram, now)), "base", bytes).out
             fee == Fee(out)
             less == - bytes
             w1 == HoldRam(World, x, less)
             w2 == Transfer(w1, ram_account, x, out)
             w3 == PayFee(w2, x, fee)
  <2>1. Become(w3)
      BY <1>4, Zenon DEF SellRam
  <2> HIDE DEF fee, out, less
  <2>2. Holds(w1, elect)
      BY <1>1, WorldHolds
  <2> HIDE DEF w1
  <2>3. Holds(w2, elect)
      BY <2>2, BesideHolds
  <2> HIDE DEF w2
  <2>4. Holds(w3, elect)
      BY <1>2, <2>3
  <2> HIDE DEF w3
  <2> QED BY <2>1, <2>4, DoneHolds
<1>5. \A receiver, bytes : BuyRamBytes(x, receiver, bytes) => \E quant : BuyRam(x, receiver, quant)
    BY Zenon DEF BuyRamBytes
<1> QED BY <1>3, <1>4, <1>5, Zenon DEF RamStep

\* nor are names.
LEMMA NamesKeep ==
    ASSUME NameStep \/ Payback
    PROVE  elect' = elect
<1>1. \A a, b, n : Become(Transfer(World, a, b, n)) => elect' = elect
    BY WorldHolds, BesideHolds, DoneHolds
<1>2. ASSUME NEW creator, NEW name, NewAccount(creator, name)
      PROVE  elect' = elect
  <2> DEFINE t == Put(World.bw.userres, name, NoResources)
             limits == Put(World.bw.limits, name, NoResources)
             w == [World EXCEPT !.bw.userres = t, !.bw.limits = limits]
  <2>1. Become(w)
      BY <1>2 DEF NewAccount
  <2> HIDE DEF t, limits
  <2>2. Holds(w, elect)
      BY WorldHolds DEF Holds, WorldFields
  <2> HIDE DEF w
  <2> QED BY <2>1, <2>2, DoneHolds
<1> QED BY <1>1, <1>2, Zenon DEF NameStep, Payback, BidName, BidRefund, RunPayback

\* regproxy, regproducer and unregprod.
LEMMA RegisterTallies ==
    ASSUME now \in Times, Tallied(elect, now), NEW x \in Users
    PROVE  /\ \A isproxy \in BOOLEAN : RegProxy(x, isproxy) => Tallied(elect', now)
           /\ ProducerStep(x) => Tallied(elect', now)
<1>1. ASSUME NEW f, Become([World EXCEPT !.elect = f])
      PROVE  elect' = f
    BY <1>1, WorldHolds, BesideHolds, DoneHolds
<1>0. World.elect = elect
    BY DEF World
<1>2. ASSUME NEW isproxy \in BOOLEAN, RegProxy(x, isproxy)
      PROVE  Tallied(elect', now)
  <2> DEFINE f == regproxy(elect, x, isproxy, now)
  <2>1. Become([World EXCEPT !.elect = f]) /\ CanRegProxy(elect, x, isproxy)
      BY <1>0, <1>2, Zenon DEF RegProxy
  <2>2. Tallied(f, now)
      BY <2>1, RegProxyTallies
  <2> HIDE DEF f
  <2> QED BY <1>1, <2>1, <2>2
<1>3. ASSUME RegProducer(x)
      PROVE  Tallied(elect', now)
  <2> DEFINE f == register_producer(elect, x, now)
  <2>1. Become([World EXCEPT !.elect = f])
      BY <1>0, <1>3, Zenon DEF RegProducer
  <2>2. Tallied(f, now)
      BY RegProducerTallies
  <2> HIDE DEF f
  <2> QED BY <1>1, <2>1, <2>2
<1>4. ASSUME UnregProd(x)
      PROVE  Tallied(elect', now)
  <2> DEFINE f == deactivate(elect, x)
  <2>1. Become([World EXCEPT !.elect = f]) /\ x \in DOMAIN elect.producers
      BY <1>0, <1>4, Zenon DEF UnregProd
  <2>2. Tallied(f, now)
      BY <2>1, ProducerTallies
  <2> HIDE DEF f
  <2> QED BY <1>1, <2>1, <2>2
<1> QED BY <1>2, <1>3, <1>4 DEF ProducerStep

\* Limits, and who manages them.
LEMMA LimitTallies ==
    ASSUME Tallied(elect, now), NEW x \in Users, LimitStep(x)
    PROVE  Tallied(elect', now)
<1>0. World.elect = elect /\ ElectShaped(elect)
    BY DEF World, Tallied, Poll, Proxies
<1>1. ASSUME NEW f, NEW l, Become([World EXCEPT !.elect = f, !.bw.limits[x] = l])
      PROVE  elect' = f
  <2> DEFINE w == [World EXCEPT !.elect = f, !.bw.limits[x] = l]
  <2>1. Holds(w, f)
      BY WorldHolds DEF Holds, WorldFields
  <2> HIDE DEF w
  <2> QED BY <1>1, <2>1, DoneHolds DEF w
<1>2. ASSUME NEW limit, NEW net, NEW cpu, SetALimits(x, limit, net, cpu)
      PROVE  Tallied(elect', now)
  <2> DEFINE l == [net |-> net, cpu |-> cpu, ram |-> limit]
             w == [World EXCEPT !.bw.limits[x] = l]
  <2>1. Become(w)
      BY <1>2, Zenon DEF SetALimits
  <2> HIDE DEF l
  <2>2. Holds(w, elect)
      BY WorldHolds DEF Holds, WorldFields
  <2> HIDE DEF w
  <2>3. elect' = elect
      BY <2>1, <2>2, DoneHolds
  <2> QED BY <2>3
<1>3. ASSUME NEW resource, NEW value, SetAcct(x, resource, value)
      PROVE  Tallied(elect', now)
  <2> DEFINE managed == Managed(elect, x) \cup {resource}
             row == [VoterRow(elect, x) EXCEPT !.managed = managed]
             f == [elect EXCEPT !.voters = Put(@, x, row)]
             l == [bw.limits[x] EXCEPT ![resource] = value]
             w == [World EXCEPT !.elect = f, !.bw.limits[x] = l]
  <2>1. Become(w)
    <3>1. Become([World EXCEPT !.elect.voters = Put(@, x, row), !.bw.limits[x][resource] = value])
        BY <1>3 DEF SetAcct
    <3> HIDE DEF row
    <3>2. w = [World EXCEPT !.elect.voters = Put(@, x, row), !.bw.limits[x][resource] = value]
        BY DEF World
    <3> QED BY <3>1, <3>2
  <2>2. f = WithRow(elect, x, row)
      BY DEF WithRow
  <2> HIDE DEF managed
  <2>3. Tallied(WithRow(elect, x, row), now)
      BY ManagedTallies
  <2> HIDE DEF f, l
  <2> QED BY <1>1, <2>1, <2>2, <2>3
<1>4. ASSUME NEW resource, UnsetAcct(x, resource)
      PROVE  Tallied(elect', now)
  <2> DEFINE own == Resources(bw, x)[resource]
             value == IF resource = "ram" THEN own + ram_gift_bytes ELSE own
             managed == elect.voters[x].managed \ {resource}
             row == [VoterRow(elect, x) EXCEPT !.managed = managed]
             e == [elect EXCEPT !.voters[x] = row]
             l == [bw.limits[x] EXCEPT ![resource] = value]
             w == [World EXCEPT !.elect = e, !.bw.limits[x] = l]
  <2>1. x \in DOMAIN elect.voters /\ VoterRow(elect, x) = elect.voters[x]
    <3>1. resource \in Managed(elect, x)
        BY <1>4, Zenon DEF UnsetAcct
    <3> QED BY <3>1 DEF Managed, VoterRow
  <2>2. Become(w)
    <3>1. Become([World EXCEPT !.elect.voters[x].managed = @ \ {resource},
                               !.bw.limits[x][resource] = value])
        BY <1>4 DEF UnsetAcct
    <3> HIDE DEF value
    <3>2. w = [World EXCEPT !.elect.voters[x].managed = @ \ {resource},
                            !.bw.limits[x][resource] = value]
        BY <2>1 DEF World
    <3> QED BY <3>1, <3>2
  <2> HIDE DEF managed
  <2>3. Tallied(WithRow(elect, x, row), now)
      BY ManagedTallies
  <2> HIDE DEF row, l
  <2>4. e = WithRow(elect, x, row)
      BY <1>0, <2>1, RowModified DEF WithRow
  <2> HIDE DEF e
  <2> QED BY <1>1, <2>2, <2>3, <2>4
<1> QED BY <1>2, <1>3, <1>4 DEF LimitStep

\* claimrewards.
LEMMA ClaimTallies ==
    ASSUME Tallied(elect, now), NEW x, ClaimRewards(x)
    PROVE  Tallied(elect', now)
<1> DEFINE claimed == Claimed(elect, x, now)
           e == claimed.elect
           c == Issued(core, Inflation(pay, now))
           issued == [World EXCEPT !.core = c, !.elect = e]
<1>1. PICK blocks, votes :
          Become(Transfer(Transfer(issued, bpay_account, x, blocks), vpay_account, x, votes))
  <2>1. issued = [World EXCEPT !.core = Issued(@, Inflation(pay, now)), !.elect = claimed.elect]
    <3> HIDE DEF claimed
    <3> QED BY DEF World
  <2> HIDE DEF issued
  <2> QED BY <2>1, Zenon DEF ClaimRewards
<1>2. Tallied(e, now)
  <2>1. x \in DOMAIN elect.producers
      BY DEF ClaimRewards
  <2> QED BY <2>1, ProducerTallies
<1> HIDE DEF e, c
<1> DEFINE paid == Transfer(issued, bpay_account, x, blocks)
           w == Transfer(paid, vpay_account, x, votes)
<1>3. Holds(issued, e)
    BY WorldHolds DEF Holds, WorldFields
<1>4. Become(w)
    BY <1>1
<1> HIDE DEF issued
<1>5. Holds(paid, e)
    BY <1>3, BesideHolds
<1> HIDE DEF paid
<1>6. Holds(w, e)
    BY <1>5, BesideHolds
<1> HIDE DEF w
<1>7. elect' = e
    BY <1>4, <1>6, DoneHolds
<1> QED BY <1>2, <1>7

\* A block.
LEMMA OnBlockTallies ==
    ASSUME Tallied(elect, now), NEW producer, OnBlock(producer)
    PROVE  Tallied(elect', now)
<1> DEFINE closes == /\ now - pay.last_producer_schedule_update > ScheduleInterval
                     /\ ClosesName(pay)
           high == names.bids[Highest(names)].high_bid
           r == IF closes THEN channel_namebid_to_rex(rex, high) ELSE rex
           e == CountBlock(elect, producer)
           w == [World EXCEPT !.elect = e, !.rex = r]
<1>1. Become(w) \/ UNCHANGED system
  <2>1. w = [World EXCEPT !.elect = e,
                          !.rex = IF closes THEN channel_namebid_to_rex(@, high) ELSE @]
    <3> HIDE DEF closes, e, high
    <3> QED BY DEF World
  <2> HIDE DEF w
  <2> QED BY <2>1, Zenon DEF OnBlock
<1>2. Tallied(e, now)
    BY ProducerTallies
<1> HIDE DEF e, r
<1>3. Holds(w, e)
    BY WorldHolds DEF Holds, WorldFields
<1> HIDE DEF w
<1>4. elect' = e \/ elect' = elect
    BY <1>1, <1>3, DoneHolds DEF system
<1> QED BY <1>2, <1>4

-----------------------------------------------------------------------------
\* Every step keeps the tally.
\*
\* What users do.
LEMMA UserTallies ==
    ASSUME now \in Times, Tallied(elect, now), StakesNatural(elect)', NEW x \in Users, UserStep(x)
    PROVE  Tallied(elect', now)
<1>0. Proxies(elect)
    BY DEF Tallied, Poll
<1>1. ASSUME NEW y \in Users, Again(elect, elect', y, now)
      PROVE  Tallied(elect', now)
  <2>1. StakesNatural(elect')
      BY DEF StakesNatural
  <2> QED BY <1>1, <2>1, AgainTallies
<1>2. elect' = elect => Tallied(elect', now)
    OBVIOUS
<1>3. VoterStep(x) => Tallied(elect', now)
    BY VoteProducerTallies, RegisterTallies, Zenon DEF VoterStep
<1>4. RexOwnerStep(x) => Tallied(elect', now)
    BY <1>1, FundAgain, BuyRexAgain, SellRexAgain, SavingsAgain, UpdateRexAgain, Zenon DEF RexOwnerStep
<1>5. \A kind \in Kinds : RexLoanStep(x, kind) => Tallied(elect', now)
    BY <1>2, LoanActionsKeep, Zenon DEF RexLoanStep
<1>6. RexUnstakeStep(x) => Tallied(elect', now)
    BY <1>1, UnstakeToRexAgain, Zenon DEF RexUnstakeStep
<1>7. StakeStep(x) => Tallied(elect', now)
  <2>1. ASSUME NEW receiver \in Users, NEW net, NEW cpu, NEW transfer,
               DelegateBw(x, receiver, net, cpu, transfer) \/ UndelegateBw(x, receiver, net, cpu)
        PROVE  Tallied(elect', now)
      BY <1>0, <1>1, <2>1, DelegateAgain
  <2>2. Refund(x) \/ RunDeferred(x) => Tallied(elect', now)
      BY <1>2, RefundKeeps
  <2> QED BY <2>1, <2>2, Zenon DEF StakeStep
<1>8. RamStep(x) => Tallied(elect', now)
    BY <1>2, RamKeeps
<1> QED BY <1>3, <1>4, <1>5, <1>6, <1>7, <1>8, RegisterTallies, ClaimTallies, Zenon DEF UserStep

\* What is current stays so.
LEMMA CurrentLater ==
    ASSUME NEW e, NEW ct \in Nat, Tallied(e, ct), NEW at \in Nat, ct =< at
    PROVE  Tallied(e, at)
<1>1. \A t \in Times : t =< ct => t =< at
    BY SystemAssumption
<1>2. CurrentBut(e, at, {})
    BY <1>1, Zenon DEF Tallied, CurrentBut
<1> QED BY <1>2 DEF Tallied

\* Nothing but a tick takes time.
LEMMA TimeStands ==
    ASSUME Votable(World), RexInv, SysInv, SystemNext
    PROVE  Tick \/ now' = now
<1>1. RexReady
    BY DEF RexReady, SysInv, Books, Shaped, World
<1>2. Polled => now' = now
    BY DEF Polled, Become
<1>3. UNCHANGED system => now' = now
    BY DEF system
<1>4. \A x \in Users : UserStep(x) => now' = now
    BY <1>1, <1>2, UserStepPolled
<1>5. NameStep \/ Payback => now' = now
    BY <1>2, NamesPolled
<1>6. SystemAccountStep => now' = now
  <2>1. RamSupplyStep \/ PaySystemStep => UNCHANGED system
      BY Zenon DEF RamSupplyStep, SetRam, SetRamRate, PaySystemStep, UpdtRevision, SetInflation, system
  <2>2. \A balance \in Amounts : SetRex(balance) => Polled
      BY <1>1, RexExecPolled
  <2> QED BY <1>2, <1>3, <2>1, <2>2, LimitPolled, Zenon DEF SystemAccountStep
<1>7. ChainStep => Tick \/ now' = now
  <2>1. \A max \in MaxExecs : RexExec(max) => Polled
    <3>1. \A max \in MaxExecs : max \in Nat
        BY SystemAssumption
    <3> QED BY <1>1, <3>1, RexExecPolled
  <2>2. \A producer : OnBlock(producer) => now' = now
      BY <1>2, <1>3, OnBlockPolled
  <2> QED BY <1>2, <1>5, <2>1, <2>2, Zenon DEF ChainStep
<1> QED BY <1>4, <1>5, <1>6, <1>7, Zenon DEF SystemNext

\* What eosio and the chain do.
LEMMA SystemTallies ==
    ASSUME Tallied(elect, now), NameStep \/ SystemAccountStep \/ ChainStep
    PROVE  Tick \/ Tallied(elect', now)
<1>1. elect' = elect => Tallied(elect', now)
    OBVIOUS
<1>2. NameStep \/ Payback => Tallied(elect', now)
    BY <1>1, NamesKeep
<1>3. SystemAccountStep => Tallied(elect', now)
  <2>1. RamSupplyStep \/ PaySystemStep => elect' = elect
    <3>1. RamSupplyStep \/ PaySystemStep => UNCHANGED system
        BY Zenon DEF RamSupplyStep, SetRam, SetRamRate, PaySystemStep, UpdtRevision, SetInflation, system
    <3> QED BY <3>1 DEF system
  <2> QED BY <1>1, <2>1, LimitTallies, RexExecKeeps, Zenon DEF SystemAccountStep
<1>4. ChainStep => Tick \/ Tallied(elect', now)
  <2>1. \A max \in MaxExecs : max \in Nat
      BY SystemAssumption
  <2> QED BY <1>1, <1>2, <2>1, RexExecKeeps, OnBlockTallies, Zenon DEF ChainStep
<1> QED BY <1>2, <1>3, <1>4

\* Whatever happens.
LEMMA TallyStep ==
    ASSUME Votable(World), RexInv, SysInv, Tallied(elect, now), StakesNatural(elect)',
           [SystemNext]_everything
    PROVE  Tallied(elect, now)'
<1>0. now \in Nat /\ now \in Times
    BY SystemAssumption DEF RexInv
<1>1. CASE Tick
  <2>1. PICK t \in Times : t > now /\ now' = t /\ elect' = elect
      BY <1>1 DEF Tick
  <2>2. t \in Nat
      BY SystemAssumption
  <2>3. Tallied(elect, t)
      BY <1>0, <2>1, <2>2, CurrentLater
  <2> QED BY <2>1, <2>3
<1>2. CASE UNCHANGED everything
  <2>1. now' = now /\ elect' = elect
      BY <1>2 DEF everything, system
  <2> QED BY <2>1
<1>3. CASE SystemNext /\ ~ Tick
  <2>1. now' = now
      BY <1>3, TimeStands
  <2>2. Tallied(elect', now)
      BY <1>0, <1>3, UserTallies, SystemTallies, Zenon DEF SystemNext
  <2> QED BY <2>1, <2>2
<1> QED BY <1>1, <1>2, <1>3

\* At the launch nobody has voted.
LEMMA TallyInit ==
    ASSUME SystemInit
    PROVE  Tallied(elect, now)
<1>1. Proxies(elect)
    BY VotableInit DEF Votable, World
<1>2. elect = EmptyElection /\ DOMAIN EmptyTable = {}
    BY DEF SystemInit, EmptyTable
<1>3. /\ DOMAIN elect.voters = {} /\ DOMAIN elect.producers = {}
      /\ elect.total_producer_vote_weight = 0
    BY <1>2 DEF EmptyElection
<1>4. ProducersShaped(elect)
    BY <1>3 DEF ProducersShaped
<1>5. Whole(elect)
  <2>1. DOMAIN VotesOf(elect) = {}
      BY <1>3 DEF VotesOf
  <2>2. Total(VotesOf(elect)) = 0
      BY <2>1, TotalEmpty DEF Total
  <2> QED BY <1>3, <2>2 DEF Whole
<1>6. EvenBallot(NoBallot)
    BY EvenNumbers DEF EvenBallot, NoBallot
<1>7. Counted(elect, BallotsOf(elect, Nobody, NoBallot))
    BY <1>3 DEF Counted
<1>8. \A v \in DOMAIN elect.voters : VoterSound(elect, elect.voters[v])
    BY <1>3
<1>9. Poll(elect, Nobody, NoBallot)
    BY <1>1, <1>4, <1>5, <1>6, <1>7, <1>8 DEF Poll
<1>10. CurrentBut(elect, now, {})
    BY <1>3 DEF CurrentBut
<1> QED BY <1>9, <1>10 DEF Tallied

\* Sums over those who choose somebody are sums over all voters.
LEMMA SumOfChoice ==
    ASSUME NEW D, IsFiniteSet(D), NEW S \in SUBSET D, NEW g, NEW h,
           \A v \in S : g[v] = h[v] /\ g[v] \in Int, \A v \in D \ S : g[v] = 0
    PROVE  TotalOf(h, S) = TotalOf(g, D)
<1>1. \A v \in D : g[v] \in Int
    OBVIOUS
<1>2. SumFunctionOnSet(g, D) = SumFunctionOnSet(g, S)
    BY <1>1, SumExtends
<1>3. IsFiniteSet(S)
    BY FS_Subset
<1>4. SumFunctionOnSet(g, S) = SumFunctionOnSet(h, S)
    BY <1>3, SumEqual
<1> QED BY <1>2, <1>4, TotalIs

\* A tally is what VotesAddUp says of votes.
LEMMA TalliedAddsUp ==
    ASSUME Tallied(elect, now)
    PROVE  VotesAddUp
<1> DEFINE D == DOMAIN elect.voters
           V == BallotsOf(elect, Nobody, NoBallot)
<1>1. /\ Poll(elect, Nobody, NoBallot) /\ Whole(elect) /\ IsFiniteSet(D) /\ Nobody \notin D
      /\ DOMAIN V = D /\ Counted(elect, V)
      /\ \A v \in D : VoterSound(elect, elect.voters[v])
    BY PollBallots DEF Tallied, Poll, Proxies, ElectShaped
<1>2. \A v \in D : V[v] = Ballot(elect.voters[v]) /\ elect.voters[v].last_vote_weight \in Int
  <2>1. \A v \in D : elect.voters[v].last_vote_weight \in Even
      BY <1>1 DEF VoterSound
  <2> QED BY <1>1, <2>1, EvenNumbers DEF BallotsOf
<1> HIDE DEF V
<1>3. ProducersCounted
  <2>1. ASSUME NEW p \in DOMAIN elect.producers
        PROVE  elect.producers[p].total_votes = Weights({v \in D : p \in elect.voters[v].producers})
    <3> DEFINE S == {v \in D : p \in elect.voters[v].producers}
               g == [v \in D |-> ForProducer(V[v], p)]
               h == [v \in S |-> elect.voters[v].last_vote_weight]
    <3>1. elect.producers[p].total_votes = TotalOf(g, D)
        BY <1>1 DEF Counted, Given, Total
    <3>2. /\ \A v \in S : g[v] = h[v] /\ g[v] \in Int
          /\ \A v \in D \ S : g[v] = 0
      <4>1. ASSUME NEW v \in D
            PROVE  V[v].producers = elect.voters[v].producers /\ V[v].weight = elect.voters[v].last_vote_weight
        <5>1. V[v] = Ballot(elect.voters[v])
            BY <1>2
        <5> QED BY <5>1 DEF Ballot
      <4> QED BY <1>2, <4>1 DEF ForProducer
    <3>3. S \in SUBSET D /\ Weights(S) = TotalOf(h, S)
        BY DEF Weights
    <3> HIDE DEF S, g, h
    <3>4. TotalOf(h, S) = TotalOf(g, D)
        BY <1>1, <3>2, <3>3, SumOfChoice
    <3> QED BY <3>1, <3>3, <3>4 DEF S
  <2>2. elect.total_producer_vote_weight = Sum(elect.producers, "total_votes")
      BY <1>1 DEF Whole, Total, VotesOf, Sum
  <2> QED BY <2>1, <2>2, Zenon DEF ProducersCounted
<1>4. ProxiesCounted
  <2>1. ASSUME NEW x \in D
        PROVE  elect.voters[x].proxied_vote_weight = Weights({v \in D : elect.voters[v].proxy = x})
    <3> DEFINE S == {v \in D : elect.voters[v].proxy = x}
               g == [v \in D |-> ForProxy(V[v], x)]
               h == [v \in S |-> elect.voters[v].last_vote_weight]
    <3>1. elect.voters[x].proxied_vote_weight = TotalOf(g, D)
        BY <1>1 DEF Counted, Followed, Total
    <3>2. /\ \A v \in S : g[v] = h[v] /\ g[v] \in Int
          /\ \A v \in D \ S : g[v] = 0
      <4>1. ASSUME NEW v \in D
            PROVE  V[v].proxy = elect.voters[v].proxy /\ V[v].passed = elect.voters[v].last_vote_weight
        <5>1. V[v] = Ballot(elect.voters[v])
            BY <1>2
        <5> QED BY <5>1 DEF Ballot
      <4> QED BY <1>2, <4>1 DEF ForProxy
    <3>3. S \in SUBSET D /\ Weights(S) = TotalOf(h, S)
        BY DEF Weights
    <3> HIDE DEF S, g, h
    <3>4. TotalOf(h, S) = TotalOf(g, D)
        BY <1>1, <3>2, <3>3, SumOfChoice
    <3> QED BY <3>1, <3>3, <3>4 DEF S
  <2> QED BY <2>1, Zenon DEF ProxiesCounted
<1>5. WeightCurrent
  <2>1. CurrentBut(elect, now, {})
      BY DEF Tallied
  <2> QED BY <2>1 DEF CurrentBut, WeightCurrent
<1> QED BY <1>3, <1>4, <1>5 DEF VotesAddUp

\* No stake is negative.  Every operation but one checks that; voteproducer adds
\* what the REX of the voter is worth now, less what it was worth, to the stake.
StakesStand == StakesNatural(elect)

\* Votes add up, as long as no stake is negative (voting.cpp): every vote counts
\* once, and is taken back with the weight it was cast with, although the stake,
\* the time and the proxies that add to it have changed since, along chains of
\* proxies of any length.
THEOREM VotesAlwaysAddUp == SystemSpec /\ []StakesStand => []VotesAddUp
<1>1. SystemInit => Tallied(elect, now)
    BY TallyInit
<1>2. /\ Tallied(elect, now) /\ (Votable(World) /\ (RexInv /\ SysInv)) /\ StakesStand'
      /\ [SystemNext]_everything
      => Tallied(elect, now)'
    BY TallyStep DEF StakesStand
<1>3. Tallied(elect, now) => VotesAddUp
    BY TalliedAddsUp
<1> QED BY <1>1, <1>2, <1>3, VotableInvariant, RexInvariant, PTL DEF SystemSpec
=============================================================================
