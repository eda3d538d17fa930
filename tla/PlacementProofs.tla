--------------------------- MODULE PlacementProofs ---------------------------
(***************************************************************************)
(* What ProxyPlacement computes, for every set of accounts and proxies:    *)
(* the free seats suffice for the pool, so everybody is placed; the loads  *)
(* are even; and no even placement needs fewer moves.                      *)
(*                                                                         *)
(* Sums over proxies are cardinalities of sets of seats <<p, n>>, so that  *)
(* no induction is needed: a set and the ranks of its elements (Ranked),   *)
(* and a set and the seats that its parts would fill (Fibres), have as many*)
(* elements as each other.                                                 *)
(***************************************************************************)
EXTENDS Placements, FiniteSetTheorems, TLAPS

-----------------------------------------------------------------------------
(* Sizes.                                                                  *)

LEMMA Embeds ==
    ASSUME NEW S, NEW T, IsFiniteSet(T), NEW f \in [S -> T],
           \A x, y \in S : f[x] = f[y] => x = y
    PROVE  IsFiniteSet(S) /\ Cardinality(S) <= Cardinality(T)
<1>1. f \in Injection(S, T)
  BY DEF Injection, IsInjective
<1> QED
  BY <1>1, FS_Injection

LEMMA Matches ==
    ASSUME NEW S, NEW T, IsFiniteSet(S), NEW f \in [S -> T],
           \A x, y \in S : f[x] = f[y] => x = y,
           \A t \in T : \E x \in S : f[x] = t
    PROVE  IsFiniteSet(T) /\ Cardinality(T) = Cardinality(S)
<1>1. f \in Bijection(S, T)
  BY DEF Bijection, Injection, Surjection, IsInjective
<1> QED
  BY <1>1, FS_Bijection DEF ExistsBijection

LEMMA FillsUp ==
    ASSUME NEW S, NEW T, IsFiniteSet(T), Cardinality(S) = Cardinality(T), NEW f \in [S -> T],
           \A x, y \in S : f[x] = f[y] => x = y
    PROVE  \A t \in T : \E x \in S : f[x] = t
<1>1. f \in Injection(S, T)
  BY DEF Injection, IsInjective
<1>2. f \in Surjection(S, T)
  BY <1>1, FS_Injection
<1> QED
  BY <1>2 DEF Surjection

LEMMA Apart ==
    ASSUME NEW S, NEW T, IsFiniteSet(S), IsFiniteSet(T), S \cap T = {}
    PROVE  IsFiniteSet(S \cup T) /\ Cardinality(S \cup T) = Cardinality(S) + Cardinality(T)
BY FS_Union, FS_EmptySet, FS_CardinalityType

LEMMA Without ==
    ASSUME NEW S, NEW T, IsFiniteSet(S), T \subseteq S
    PROVE  /\ IsFiniteSet(S \ T) /\ IsFiniteSet(T)
           /\ Cardinality(S \ T) = Cardinality(S) - Cardinality(T)
           /\ Cardinality(S) \in Nat /\ Cardinality(T) \in Nat
<1>1. S \cap T = T
  OBVIOUS
<1> QED
  BY <1>1, FS_Difference, FS_Subset, FS_CardinalityType

LEMMA ImageIsFinite ==
    ASSUME NEW S, IsFiniteSet(S), NEW f, DOMAIN f = S
    PROVE  IsFiniteSet({f[x] : x \in S})
<1> DEFINE T == {f[x] : x \in S}
           g == [x \in S |-> f[x]]
<1>1. g \in Surjection(S, T)
  BY DEF Surjection
<1> HIDE DEF g, T
<1> QED
  BY <1>1, FS_Surjection DEF T

LEMMA Numbers ==
    ASSUME NEW n \in Nat
    PROVE  IsFiniteSet(1..n) /\ Cardinality(1..n) = n
BY FS_Interval

LEMMA Division ==
    ASSUME NEW n \in Nat, NEW d \in Nat \ {0}
    PROVE  n \div d \in Nat /\ n % d \in 0..(d - 1) /\ n = d * (n \div d) + (n % d)
OBVIOUS

LEMMA DivisionUnique ==
    ASSUME NEW n \in Nat, NEW d \in Nat \ {0}, NEW q \in Nat, NEW r \in 0..(d - 1),
           n = d * q + r
    PROVE  n \div d = q /\ n % d = r
OBVIOUS

-----------------------------------------------------------------------------
(* Ranks.                                                                  *)

Pairs == Int \X Int

LEMMA PrecedesOrders ==
    ASSUME NEW u \in Pairs, NEW v \in Pairs
    PROVE  /\ ~Precedes(u, u)
           /\ u # v => Precedes(u, v) \/ Precedes(v, u)
           /\ \A w \in Pairs : Precedes(u, v) /\ Precedes(v, w) => Precedes(u, w)
BY DEF Precedes, Pairs

LEMMA RankBounds ==
    ASSUME NEW K \in SUBSET Pairs, IsFiniteSet(K), NEW k \in K
    PROVE  Rank(K, k) \in 0..(Cardinality(K) - 1)
<1> DEFINE below == {l \in K : Precedes(l, k)}
<1>1. below \subseteq K \ {k}
  BY PrecedesOrders
<1>2. IsFiniteSet(K \ {k}) /\ Cardinality(K \ {k}) = Cardinality(K) - 1
  BY FS_RemoveElement
<1>3. Cardinality(K) \in Nat /\ Cardinality(K \ {k}) \in Nat
  BY <1>2, FS_CardinalityType
<1>4. IsFiniteSet(below) /\ Cardinality(below) <= Cardinality(K \ {k})
  BY <1>1, <1>2, FS_Subset
<1>5. Cardinality(below) \in Nat
  BY <1>4, FS_CardinalityType
<1> QED
  BY <1>2, <1>3, <1>4, <1>5 DEF Rank

LEMMA RankGrows ==
    ASSUME NEW K \in SUBSET Pairs, IsFiniteSet(K), NEW k \in K, NEW l \in K, Precedes(k, l)
    PROVE  Rank(K, k) < Rank(K, l)
<1> DEFINE belowK == {m \in K : Precedes(m, k)}
           belowL == {m \in K : Precedes(m, l)}
<1>1. belowK \subseteq belowL
  BY PrecedesOrders
<1>2. k \in belowL /\ k \notin belowK
  BY PrecedesOrders
<1>3. IsFiniteSet(belowL)
  BY FS_Subset
<1>4. IsFiniteSet(belowK) /\ Cardinality(belowK) <= Cardinality(belowL)
      /\ Cardinality(belowK) # Cardinality(belowL)
  BY <1>1, <1>2, <1>3, FS_Subset
<1>5. Cardinality(belowK) \in Nat /\ Cardinality(belowL) \in Nat
  BY <1>3, <1>4, FS_CardinalityType
<1> QED
  BY <1>4, <1>5 DEF Rank

\* A set whose elements have different keys g[x], ordered by them.
Ranked(S, g, x) == Rank({g[y] : y \in S}, g[x])

LEMMA RanksAreNumbers ==
    ASSUME NEW T, NEW g \in [T -> Pairs], \A x, y \in T : g[x] = g[y] => x = y,
           NEW S \in SUBSET T, IsFiniteSet(S)
    PROVE  /\ \A x \in S : Ranked(S, g, x) \in 0..(Cardinality(S) - 1)
           /\ \A x, y \in S : Ranked(S, g, x) = Ranked(S, g, y) => x = y
           /\ \A r \in 0..(Cardinality(S) - 1) : \E x \in S : Ranked(S, g, x) = r
<1> DEFINE K == {g[y] : y \in S}
           key == [x \in S |-> g[x]]
           ranks == 0..(Cardinality(S) - 1)
           f == [x \in S |-> Ranked(S, g, x)]
<1>0. K \in SUBSET Pairs
  OBVIOUS
<1>1. IsFiniteSet(K) /\ Cardinality(K) = Cardinality(S)
  <2>1. key \in [S -> K] /\ (\A x, y \in S : key[x] = key[y] => x = y)
        /\ \A k \in K : \E x \in S : key[x] = k
    OBVIOUS
  <2> HIDE DEF key, K
  <2> QED
    BY <2>1, Matches
<1>2. \A x \in S : Ranked(S, g, x) \in 0..(Cardinality(S) - 1)
  BY <1>0, <1>1, RankBounds DEF Ranked
<1>3. ASSUME NEW x \in S, NEW y \in S, Ranked(S, g, x) = Ranked(S, g, y) PROVE x = y
  <2>1. SUFFICES ASSUME x # y PROVE FALSE
    OBVIOUS
  <2>2. g[x] \in K /\ g[y] \in K /\ g[x] # g[y]
    BY <2>1
  <2>3. Precedes(g[x], g[y]) \/ Precedes(g[y], g[x])
    BY <2>2, PrecedesOrders
  <2>4. Ranked(S, g, x) < Ranked(S, g, y) \/ Ranked(S, g, y) < Ranked(S, g, x)
    BY <1>0, <1>1, <2>2, <2>3, RankGrows DEF Ranked
  <2> QED
    BY <1>2, <1>3, <2>4
<1>4. \A r \in ranks : \E x \in S : f[x] = r
  <2>1. f \in [S -> ranks] /\ \A x, y \in S : f[x] = f[y] => x = y
    BY <1>2, <1>3
  <2>2. Cardinality(S) \in Nat
    BY FS_CardinalityType
  <2>3. IsFiniteSet(ranks) /\ Cardinality(ranks) = Cardinality(S)
    BY <2>2, FS_Interval
  <2> HIDE DEF f, ranks
  <2> QED
    BY <2>1, <2>3, FillsUp
<1> QED
  BY <1>2, <1>3, <1>4

LEMMA FirstOnes ==
    ASSUME NEW T, NEW g \in [T -> Pairs], \A x, y \in T : g[x] = g[y] => x = y,
           NEW S \in SUBSET T, IsFiniteSet(S), NEW c \in Nat
    PROVE  Cardinality({x \in S : Ranked(S, g, x) < c}) = Min2(Cardinality(S), c)
<1> DEFINE first == {x \in S : Ranked(S, g, x) < c}
           n == Min2(Cardinality(S), c)
           ranks == 0..(n - 1)
           f == [x \in first |-> Ranked(S, g, x)]
<1>1. Cardinality(S) \in Nat /\ n \in Nat
  BY FS_CardinalityType DEF Min2
<1>2. IsFiniteSet(first)
  BY FS_Subset
<1>3. f \in [first -> ranks] /\ \A x, y \in first : f[x] = f[y] => x = y
  BY <1>1, RanksAreNumbers DEF Min2
<1>4. \A r \in ranks : \E x \in first : f[x] = r
  <2> TAKE r \in ranks
  <2>1. r \in 0..(Cardinality(S) - 1) /\ r < c
    BY <1>1 DEF Min2
  <2>2. PICK x \in S : Ranked(S, g, x) = r
    BY <2>1, RanksAreNumbers
  <2> QED
    BY <2>1, <2>2
<1>5. Cardinality(ranks) = n
  BY <1>1, FS_Interval
<1> HIDE DEF f, first, ranks
<1>6. Cardinality(ranks) = Cardinality(first)
  BY <1>2, <1>3, <1>4, Matches
<1> QED
  BY <1>5, <1>6 DEF first, n

LEMMA Numbered ==
    ASSUME NEW S, IsFiniteSet(S)
    PROVE  \E g \in [S -> Pairs] : \A x, y \in S : g[x] = g[y] => x = y
<1>1. PICK b \in Bijection(1..Cardinality(S), S) : TRUE
  BY FS_CardinalityType DEF ExistsBijection
<1> DEFINE num == [x \in S |-> CHOOSE i \in 1..Cardinality(S) : b[i] = x]
<1>2. \A x \in S : num[x] \in 1..Cardinality(S) /\ b[num[x]] = x
  BY <1>1 DEF Bijection, Surjection
<1>3. Cardinality(S) \in Nat
  BY FS_CardinalityType
<1> HIDE DEF num
<1> DEFINE g == [x \in S |-> <<0, num[x]>>]
<1>4. g \in [S -> Pairs] /\ \A x, y \in S : g[x] = g[y] => x = y
  BY <1>2, <1>3 DEF Pairs
<1> QED
  BY <1>4

\* The seats that the elements of S take when g[x] is the place of x.
Fibre(S, g, p) == {x \in S : g[x] = p}
Seats(E, size) == {s \in E \X (Nat \ {0}) : s[2] <= size[s[1]]}

LEMMA Fibres ==
    ASSUME NEW S, IsFiniteSet(S), NEW E, NEW g \in [S -> E]
    PROVE  LET F == Seats(E, [p \in E |-> Cardinality(Fibre(S, g, p))])
           IN  IsFiniteSet(F) /\ Cardinality(F) = Cardinality(S)
<1> DEFINE size == [p \in E |-> Cardinality(Fibre(S, g, p))]
<1>1. PICK h \in [S -> Pairs] : \A x, y \in S : h[x] = h[y] => x = y
  BY Numbered
<1> DEFINE rank(x) == Ranked(Fibre(S, g, g[x]), h, x)
           f == [x \in S |-> <<g[x], rank(x) + 1>>]
<1>2. \A p \in E : Fibre(S, g, p) \in SUBSET S /\ IsFiniteSet(Fibre(S, g, p))
                   /\ Cardinality(Fibre(S, g, p)) \in Nat
  BY FS_Subset, FS_CardinalityType DEF Fibre
<1>3. \A x \in S : x \in Fibre(S, g, g[x]) /\ g[x] \in E
  BY DEF Fibre
<1>4. \A x \in S : rank(x) \in 0..(size[g[x]] - 1)
  BY <1>1, <1>2, <1>3, RanksAreNumbers
<1>5. f \in [S -> Seats(E, size)]
  <2>1. \A x \in S : rank(x) + 1 \in Nat \ {0} /\ rank(x) + 1 <= size[g[x]]
    <3> TAKE x \in S
    <3>1. size[g[x]] \in Nat /\ rank(x) \in 0..(size[g[x]] - 1)
      BY <1>2, <1>3, <1>4
    <3> HIDE DEF rank, size
    <3> QED
      BY <3>1
  <2> HIDE DEF rank, size
  <2> QED
    BY <1>3, <2>1 DEF Seats
<1>6. \A x, y \in S : f[x] = f[y] => x = y
  <2> SUFFICES ASSUME NEW x \in S, NEW y \in S, f[x] = f[y] PROVE x = y
    OBVIOUS
  <2>1. g[x] = g[y] /\ rank(x) + 1 = rank(y) + 1
    OBVIOUS
  <2>2. rank(x) = rank(y)
    <3>0. /\ size[g[x]] \in Nat /\ rank(x) \in 0..(size[g[x]] - 1)
          /\ size[g[y]] \in Nat /\ rank(y) \in 0..(size[g[y]] - 1)
      BY <1>2, <1>3, <1>4
    <3> HIDE DEF rank, size
    <3>1. rank(x) \in Int /\ rank(y) \in Int
      BY <3>0
    <3> QED
      BY <2>1, <3>1
  <2> QED
    BY <1>1, <1>2, <1>3, <2>1, <2>2, RanksAreNumbers
<1>7. \A s \in Seats(E, size) : \E x \in S : f[x] = s
  <2> TAKE s \in Seats(E, size)
  <2>1. /\ s = <<s[1], s[2]>> /\ s[1] \in E /\ s[2] \in Nat \ {0}
        /\ s[2] <= Cardinality(Fibre(S, g, s[1]))
    BY DEF Seats
  <2>2. s[2] - 1 \in 0..(Cardinality(Fibre(S, g, s[1])) - 1)
    BY <1>2, <2>1
  <2>3. PICK x \in Fibre(S, g, s[1]) : Ranked(Fibre(S, g, s[1]), h, x) = s[2] - 1
    BY <1>1, <1>2, <2>1, <2>2, RanksAreNumbers
  <2>4. x \in S /\ g[x] = s[1]
    BY <2>3 DEF Fibre
  <2>5. f[x] = <<s[1], (s[2] - 1) + 1>>
    BY <2>3, <2>4
  <2> QED
    BY <2>1, <2>4, <2>5
<1> HIDE DEF f, rank
<1> QED
  BY <1>5, <1>6, <1>7, Matches

-----------------------------------------------------------------------------
(* The seats of a set of proxies.                                          *)

LEMMA SeatsAreFinite ==
    ASSUME NEW E, IsFiniteSet(E), NEW size \in [E -> Nat], NEW m \in Nat,
           \A p \in E : size[p] <= m
    PROVE  IsFiniteSet(Seats(E, size))
<1>1. IsFiniteSet(E \X (1..m))
  <2>1. IsFiniteSet(1..m)
    BY FS_Interval
  <2> QED
    BY <2>1, FS_Product
<1>2. Seats(E, size) \subseteq E \X (1..m)
  BY DEF Seats
<1> QED
  BY <1>1, <1>2, FS_Subset

\* base seats each, and one more for the members of X.
LEMMA SeatsOfShares ==
    ASSUME NEW E, IsFiniteSet(E), NEW base \in Nat, NEW X \in SUBSET E, NEW size \in [E -> Nat],
           \A p \in E : size[p] = IF p \in X THEN base + 1 ELSE base
    PROVE  /\ IsFiniteSet(Seats(E, size))
           /\ Cardinality(Seats(E, size)) = Cardinality(E) * base + Cardinality(X)
<1> DEFINE low == E \X (1..base)
           high == X \X {base + 1}
<1>1. IsFiniteSet(low) /\ Cardinality(low) = Cardinality(E) * base
  <2>1. IsFiniteSet(1..base) /\ Cardinality(1..base) = base
    BY FS_Interval
  <2> QED
    BY <2>1, FS_Product
<1>2. IsFiniteSet(high) /\ Cardinality(high) = Cardinality(X)
  <2>1. IsFiniteSet(X) /\ Cardinality(X) \in Nat
    BY FS_Subset, FS_CardinalityType
  <2>2. IsFiniteSet({base + 1}) /\ Cardinality({base + 1}) = 1
    BY FS_Singleton
  <2>3. IsFiniteSet(high) /\ Cardinality(high) = Cardinality(X) * Cardinality({base + 1})
    BY <2>1, <2>2, FS_Product
  <2> HIDE DEF high
  <2> QED
    BY <2>1, <2>2, <2>3
<1>3. low \cap high = {}
  OBVIOUS
<1>4. Seats(E, size) = low \cup high
  <2>1. \A p \in E, n \in Nat \ {0} :
            n <= size[p] <=> n \in 1..base \/ (p \in X /\ n = base + 1)
    OBVIOUS
  <2> QED
    BY <2>1 DEF Seats
<1> HIDE DEF low, high
<1>5. IsFiniteSet(low \cup high)
      /\ Cardinality(low \cup high) = Cardinality(low) + Cardinality(high)
  BY <1>1, <1>2, <1>3, Apart
<1> QED
  BY <1>1, <1>2, <1>4, <1>5

-----------------------------------------------------------------------------
(* The listings.                                                           *)

LEMMA Positions ==
    /\ \A p \in Nodes : Position(ProxyOrder, p) \in Nat \ {0}
    /\ \A p, q \in Nodes : Position(ProxyOrder, p) = Position(ProxyOrder, q) => p = q
    /\ \A a \in Placeable : Position(AccountOrder, a) \in Nat \ {0}
    /\ \A a, b \in Placeable : Position(AccountOrder, a) = Position(AccountOrder, b) => a = b
<1>1. DOMAIN ProxyOrder \subseteq Nat \ {0} /\ DOMAIN AccountOrder \subseteq Nat \ {0}
  BY ListingsAssumption
<1>2. \A p \in Nodes : Position(ProxyOrder, p) \in DOMAIN ProxyOrder
                       /\ ProxyOrder[Position(ProxyOrder, p)] = p
  BY DEF Position, Nodes
<1>3. \A a \in Placeable : Position(AccountOrder, a) \in DOMAIN AccountOrder
                           /\ AccountOrder[Position(AccountOrder, a)] = a
  BY DEF Position, Placeable
<1>4. \A p \in Nodes : Position(ProxyOrder, p) \in Nat \ {0}
  BY <1>1, <1>2
<1>5. \A p, q \in Nodes : Position(ProxyOrder, p) = Position(ProxyOrder, q) => p = q
  BY <1>2
<1>6. \A a \in Placeable : Position(AccountOrder, a) \in Nat \ {0}
  BY <1>1, <1>3
<1>7. \A a, b \in Placeable : Position(AccountOrder, a) = Position(AccountOrder, b) => a = b
  BY <1>3
<1> QED
  BY <1>4, <1>5, <1>6, <1>7

LEMMA ListingsAreFinite == IsFiniteSet(Nodes) /\ IsFiniteSet(Placeable)
<1>1. ASSUME NEW S, NEW s \in Seq(S), S = {s[i] : i \in DOMAIN s} PROVE IsFiniteSet(S)
  <2>1. Len(s) \in Nat /\ DOMAIN s = 1..Len(s)
    OBVIOUS
  <2>2. IsFiniteSet(1..Len(s))
    BY <2>1, FS_Interval
  <2>3. s \in [1..Len(s) -> S] /\ \A x \in S : \E i \in 1..Len(s) : s[i] = x
    BY <1>1, <2>1
  <2>4. s \in Surjection(1..Len(s), S)
    BY <2>3 DEF Surjection
  <2> QED
    BY <2>2, <2>4, FS_Surjection
<1> QED
  BY <1>1, ListingsAssumption DEF Nodes, Placeable

-----------------------------------------------------------------------------
(* One rebalance, of the placement that the variables describe.            *)

Ready ==
    /\ eligible \in SUBSET Nodes /\ eligible # {}
    /\ where \in [Placeable -> Nodes \cup {Direct}]
    /\ DOMAIN home \subseteq Placeable /\ home \in [DOMAIN home -> eligible]

Pins(p) == Pinned(Placeable, home, p)
Here(p) == Current(Placeable, where, home, p)
Base == Cardinality(Placeable) \div Cardinality(eligible)
Remainder == Cardinality(Placeable) % Cardinality(eligible)
ShareOf(p) == Share(eligible, Placeable, where, home, p)
CapOf(p) == Cap(eligible, Placeable, where, home, p)
FreeOf(p) == FreeCap(eligible, Placeable, where, home, p)
KeptOf(p) == Kept(eligible, Placeable, where, home, p)
Over(p) == Surplus(eligible, Placeable, where, home, p)
ThePool == Pool(eligible, Placeable, where, home)
TheSlots == Slots(eligible, Placeable, where, home)

capKeys == [p \in eligible |-> CapKey(Placeable, where, home, p)]
turns == [a \in Placeable |-> Turn(eligible, where, a)]
slotKeys == [s \in eligible \X Nat |-> SlotKey(s)]

LEMMA Counts ==
    ASSUME Ready, NEW p
    PROVE  /\ Pins(p) \subseteq Placeable /\ Here(p) \subseteq Placeable
           /\ IsFiniteSet(Pins(p)) /\ Cardinality(Pins(p)) \in Nat
           /\ IsFiniteSet(Here(p)) /\ Cardinality(Here(p)) \in Nat
           /\ Cardinality(Pins(p)) <= Cardinality(Placeable)
           /\ Cardinality(Placeable) \in Nat
<1>1. Pins(p) \subseteq Placeable /\ Here(p) \subseteq Placeable
  BY DEF Pins, Pinned, Here, Current
<1> QED
  BY <1>1, ListingsAreFinite, FS_Subset, FS_CardinalityType

LEMMA CapKeysDiffer ==
    ASSUME Ready
    PROVE  /\ capKeys \in [eligible -> Pairs]
           /\ \A p, q \in eligible : capKeys[p] = capKeys[q] => p = q
<1>1. \A p \in eligible : Load(Placeable, where, home, p) \in Nat
  BY Counts DEF Load, Pins, Here
<1>2. \A p \in eligible : Position(ProxyOrder, p) \in Nat
  BY Positions DEF Ready
<1>3. \A p \in eligible : CapKey(Placeable, where, home, p) \in Pairs
  BY <1>1, <1>2 DEF CapKey, Pairs
<1>4. \A p, q \in eligible :
            CapKey(Placeable, where, home, p) = CapKey(Placeable, where, home, q) => p = q
  BY Positions DEF CapKey, Ready
<1> QED
  BY <1>3, <1>4 DEF capKeys

LEMMA TurnsDiffer ==
    ASSUME Ready
    PROVE  /\ turns \in [Placeable -> Pairs]
           /\ \A a, b \in Placeable : turns[a] = turns[b] => a = b
<1>1. \A a \in Placeable : Turn(eligible, where, a) \in Pairs
  <2> TAKE a \in Placeable
  <2>1. Position(AccountOrder, a) \in Int
    BY Positions
  <2>2. where[a] \in eligible => Position(ProxyOrder, where[a]) \in Int
    BY Positions DEF Ready
  <2> QED
    BY <2>1, <2>2 DEF Turn, Pairs
<1>2. \A a, b \in Placeable : Turn(eligible, where, a) = Turn(eligible, where, b) => a = b
  BY Positions DEF Turn
<1> QED
  BY <1>1, <1>2 DEF turns

LEMMA SlotKeysDiffer ==
    ASSUME Ready
    PROVE  /\ slotKeys \in [eligible \X Nat -> Pairs]
           /\ \A s, t \in eligible \X Nat : slotKeys[s] = slotKeys[t] => s = t
<1>1. \A s \in eligible \X Nat : SlotKey(s) \in Pairs
  BY Positions DEF SlotKey, Pairs, Ready
<1>2. \A s, t \in eligible \X Nat : SlotKey(s) = SlotKey(t) => s = t
  BY Positions DEF SlotKey, Ready
<1> QED
  BY <1>1, <1>2 DEF slotKeys

\* The ranks of the model are ranks of these keys.
LEMMA ModelRanks ==
    /\ \A p \in eligible :
            CapRank(eligible, Placeable, where, home, p) = Ranked(eligible, capKeys, p)
    /\ \A S \in SUBSET Placeable : \A a \in S :
            TurnIn(S, eligible, where, a) = Ranked(S, turns, a)
    /\ \A S \in SUBSET (eligible \X Nat) : \A s \in S : SlotRank(S, s) = Ranked(S, slotKeys, s)
<1>1. ASSUME NEW p \in eligible
      PROVE  CapRank(eligible, Placeable, where, home, p) = Ranked(eligible, capKeys, p)
  <2>1. {CapKey(Placeable, where, home, q) : q \in eligible} = {capKeys[q] : q \in eligible}
    BY DEF capKeys
  <2> QED
    BY <2>1 DEF CapRank, Ranked, capKeys
<1>2. ASSUME NEW S \in SUBSET Placeable, NEW a \in S
      PROVE  TurnIn(S, eligible, where, a) = Ranked(S, turns, a)
  <2>1. {Turn(eligible, where, b) : b \in S} = {turns[b] : b \in S}
    BY DEF turns
  <2> QED
    BY <2>1 DEF TurnIn, Ranked, turns
<1>3. ASSUME NEW S \in SUBSET (eligible \X Nat), NEW s \in S
      PROVE  SlotRank(S, s) = Ranked(S, slotKeys, s)
  <2>1. {SlotKey(t) : t \in S} = {slotKeys[t] : t \in S}
    BY DEF slotKeys
  <2> QED
    BY <2>1 DEF SlotRank, Ranked, slotKeys
<1> QED
  BY <1>1, <1>2, <1>3

LEMMA EvenShares ==
    ASSUME Ready
    PROVE  /\ IsFiniteSet(eligible) /\ Cardinality(eligible) \in Nat \ {0}
           /\ Base \in Nat /\ Remainder \in 0..(Cardinality(eligible) - 1)
           /\ Cardinality(Placeable) = Cardinality(eligible) * Base + Remainder
<1>1. IsFiniteSet(eligible)
  BY ListingsAreFinite, FS_Subset DEF Ready
<1>2. Cardinality(eligible) \in Nat \ {0}
  BY <1>1, FS_CardinalityType, FS_EmptySet DEF Ready
<1>3. Cardinality(Placeable) \in Nat
  BY ListingsAreFinite, FS_CardinalityType
<1> QED
  BY <1>1, <1>2, <1>3, Division DEF Base, Remainder

\* The proxies whose share is one above the base.
Larger == {p \in eligible : CapRank(eligible, Placeable, where, home, p) < Remainder}

LEMMA SharesAddUp ==
    ASSUME Ready
    PROVE  /\ Cardinality(Larger) = Remainder
           /\ \A p \in eligible : ShareOf(p) = IF p \in Larger THEN Base + 1 ELSE Base
           /\ IsFiniteSet(Seats(eligible, [p \in eligible |-> ShareOf(p)]))
           /\ Cardinality(Seats(eligible, [p \in eligible |-> ShareOf(p)]))
                 = Cardinality(Placeable)
<1>1. Larger = {p \in eligible : Ranked(eligible, capKeys, p) < Remainder}
  BY ModelRanks DEF Larger
<1>2. Cardinality(Larger) = Min2(Cardinality(eligible), Remainder)
  <2> eligible \in SUBSET eligible
    OBVIOUS
  <2>1. Remainder \in Nat /\ IsFiniteSet(eligible)
    BY EvenShares
  <2> HIDE DEF Larger
  <2> QED
    BY <1>1, <2>1, CapKeysDiffer, FirstOnes
<1>3. Cardinality(Larger) = Remainder
  BY <1>2, EvenShares DEF Min2
<1>4. \A p \in eligible : ShareOf(p) = IF p \in Larger THEN Base + 1 ELSE Base
  BY DEF ShareOf, Share, Larger, Base, Remainder
<1> DEFINE share == [p \in eligible |-> ShareOf(p)]
<1>5. share \in [eligible -> Nat] /\ Larger \in SUBSET eligible
      /\ \A p \in eligible : share[p] = IF p \in Larger THEN Base + 1 ELSE Base
  BY <1>4, EvenShares DEF Larger
<1> HIDE DEF share
<1>6. /\ IsFiniteSet(Seats(eligible, share))
      /\ Cardinality(Seats(eligible, share))
            = Cardinality(eligible) * Base + Cardinality(Larger)
  BY <1>5, EvenShares, SeatsOfShares
<1>7. Cardinality(Seats(eligible, share)) = Cardinality(Placeable)
  BY <1>3, <1>6, EvenShares
<1> QED
  BY <1>3, <1>4, <1>6, <1>7 DEF share

LEMMA CapsSuffice ==
    ASSUME Ready, NEW p \in eligible
    PROVE  /\ ShareOf(p) \in Nat /\ CapOf(p) \in Nat /\ FreeOf(p) \in Nat /\ KeptOf(p) \in Nat
           /\ ShareOf(p) <= CapOf(p) /\ KeptOf(p) <= CapOf(p)
           /\ CapOf(p) <= Base + 1 + Cardinality(Placeable)
           /\ KeptOf(p) = Cardinality(Pins(p)) + Min2(Cardinality(Here(p)), FreeOf(p))
<1>1. ShareOf(p) \in Nat /\ ShareOf(p) <= Base + 1 /\ Base \in Nat
  BY SharesAddUp, EvenShares
<1>2. /\ Cardinality(Pins(p)) \in Nat /\ Cardinality(Here(p)) \in Nat
      /\ Cardinality(Placeable) \in Nat /\ Cardinality(Pins(p)) <= Cardinality(Placeable)
  BY Counts
<1>3. CapOf(p) = Max2(ShareOf(p), Cardinality(Pins(p)))
  BY DEF CapOf, Cap, ShareOf, Pins
<1>4. FreeOf(p) = CapOf(p) - Cardinality(Pins(p))
  BY DEF FreeOf, FreeCap, CapOf, Pins
<1>5. KeptOf(p) = Cardinality(Pins(p)) + Min2(Cardinality(Here(p)), FreeOf(p))
  BY DEF KeptOf, Kept, FreeOf, Pins, Here
<1> QED
  BY <1>1, <1>2, <1>3, <1>4, <1>5 DEF Max2, Min2

-----------------------------------------------------------------------------
(* Who stays.                                                              *)

Settled == Placeable \ ThePool
PlaceOf(a) == IF a \in DOMAIN home THEN home[a] ELSE where[a]
settledAt == [a \in Settled |-> PlaceOf(a)]

LEMMA PoolIsUnpinned ==
    ASSUME Ready
    PROVE  /\ ThePool \subseteq Placeable \ DOMAIN home
           /\ IsFiniteSet(ThePool) /\ IsFiniteSet(Settled)
           /\ Cardinality(ThePool) \in Nat /\ Cardinality(Settled) \in Nat
           /\ Cardinality(Placeable) = Cardinality(Settled) + Cardinality(ThePool)
<1>1. ThePool \subseteq Placeable \ DOMAIN home
  BY DEF ThePool, Pool, Homeless, Surplus, Current
<1>2. IsFiniteSet(ThePool) /\ IsFiniteSet(Settled)
  BY <1>1, ListingsAreFinite, FS_Subset DEF Settled
<1>3. Placeable = Settled \cup ThePool /\ Settled \cap ThePool = {}
  BY <1>1 DEF Settled
<1> QED
  BY <1>1, <1>2, <1>3, Apart, FS_CardinalityType

LEMMA FirstStay ==
    ASSUME Ready, NEW p \in eligible
    PROVE  /\ IsFiniteSet(Here(p) \ Over(p))
           /\ Cardinality(Here(p) \ Over(p)) = Min2(Cardinality(Here(p)), FreeOf(p))
<1>1. Here(p) \in SUBSET Placeable /\ IsFiniteSet(Here(p)) /\ FreeOf(p) \in Nat
  BY Counts, CapsSuffice
<1>2. \A a \in Here(p) : TurnIn(Here(p), eligible, where, a) = Ranked(Here(p), turns, a)
                         /\ Ranked(Here(p), turns, a) \in Int
  <2>1. \A a \in Here(p) : Ranked(Here(p), turns, a) \in 0..(Cardinality(Here(p)) - 1)
    BY <1>1, TurnsDiffer, RanksAreNumbers
  <2>2. Cardinality(Here(p)) \in Nat
    BY Counts
  <2> QED
    BY <1>1, <2>1, <2>2, ModelRanks
<1>3. Here(p) \ Over(p) = {a \in Here(p) : Ranked(Here(p), turns, a) < FreeOf(p)}
  <2>1. Over(p) = {a \in Here(p) : TurnIn(Here(p), eligible, where, a) >= FreeOf(p)}
    BY DEF Over, Surplus, Here, FreeOf
  <2> QED
    BY <1>1, <1>2, <2>1
<1>4. Cardinality({a \in Here(p) : Ranked(Here(p), turns, a) < FreeOf(p)})
         = Min2(Cardinality(Here(p)), FreeOf(p))
  BY <1>1, TurnsDiffer, FirstOnes
<1> QED
  BY <1>1, <1>3, <1>4, FS_Subset

LEMMA SettledFibres ==
    ASSUME Ready
    PROVE  /\ settledAt \in [Settled -> eligible]
           /\ \A p \in eligible : /\ IsFiniteSet(Fibre(Settled, settledAt, p))
                                  /\ Cardinality(Fibre(Settled, settledAt, p)) = KeptOf(p)
<1>1. \A a \in Settled : PlaceOf(a) \in eligible
  BY DEF Settled, PlaceOf, Ready, ThePool, Pool, Homeless
<1>2. settledAt \in [Settled -> eligible]
  BY <1>1 DEF settledAt
<1>3. ASSUME NEW p \in eligible
      PROVE  /\ IsFiniteSet(Fibre(Settled, settledAt, p))
             /\ Cardinality(Fibre(Settled, settledAt, p)) = KeptOf(p)
  <2>1. Pins(p) = {a \in Placeable \cap DOMAIN home : home[a] = p}
        /\ Here(p) = {a \in Placeable \ DOMAIN home : where[a] = p}
    BY DEF Pins, Pinned, Here, Current
  <2>2. \A a \in Placeable \ DOMAIN home :
            where[a] = p => (a \in ThePool <=> a \in Over(p))
    BY DEF ThePool, Pool, Homeless, Over, Surplus, Current
  <2>3. Fibre(Settled, settledAt, p) = Pins(p) \cup (Here(p) \ Over(p))
    <3>1. Fibre(Settled, settledAt, p) = {a \in Settled : PlaceOf(a) = p}
      BY DEF Fibre, settledAt
    <3>2. \A a \in Placeable : a \in Settled <=> a \notin ThePool
      BY DEF Settled
    <3>3. \A a \in DOMAIN home : a \notin ThePool
      BY PoolIsUnpinned
    <3>4. DOMAIN home \subseteq Placeable /\ Settled \subseteq Placeable
      BY DEF Ready, Settled
    <3> QED
      BY <2>1, <2>2, <3>1, <3>2, <3>3, <3>4 DEF PlaceOf
  <2>4. Pins(p) \cap (Here(p) \ Over(p)) = {}
    BY <2>1
  <2>5. IsFiniteSet(Pins(p)) /\ IsFiniteSet(Here(p) \ Over(p))
    BY Counts, FirstStay
  <2>6. /\ IsFiniteSet(Pins(p) \cup (Here(p) \ Over(p)))
        /\ Cardinality(Pins(p) \cup (Here(p) \ Over(p)))
              = Cardinality(Pins(p)) + Cardinality(Here(p) \ Over(p))
    BY <2>4, <2>5, Apart
  <2> QED
    BY <2>3, <2>6, FirstStay, CapsSuffice
<1> QED
  BY <1>2, <1>3

kept == [p \in eligible |-> KeptOf(p)]
cap == [p \in eligible |-> CapOf(p)]

LEMMA KeptSeats ==
    ASSUME Ready
    PROVE  /\ IsFiniteSet(Seats(eligible, kept))
           /\ Cardinality(Seats(eligible, kept)) = Cardinality(Settled)
<1>1. IsFiniteSet(Settled) /\ settledAt \in [Settled -> eligible]
  BY PoolIsUnpinned, SettledFibres
<1>2. kept = [p \in eligible |-> Cardinality(Fibre(Settled, settledAt, p))]
  BY SettledFibres DEF kept
<1> QED
  BY <1>1, <1>2, Fibres

-----------------------------------------------------------------------------
(* The free seats.                                                         *)

LEMMA SlotsAreTheRest ==
    ASSUME Ready
    PROVE  /\ TheSlots \subseteq eligible \X Nat
           /\ TheSlots = Seats(eligible, cap) \ Seats(eligible, kept)
           /\ Seats(eligible, kept) \subseteq Seats(eligible, cap)
<1>1. TheSlots = UNION {{p} \X ((KeptOf(p) + 1)..CapOf(p)) : p \in eligible}
  BY DEF TheSlots, Slots, KeptOf, CapOf
<1>2. \A p \in eligible : KeptOf(p) \in Nat /\ CapOf(p) \in Nat /\ KeptOf(p) <= CapOf(p)
  BY CapsSuffice
<1>3. \A p \in eligible : kept[p] = KeptOf(p) /\ cap[p] = CapOf(p)
  BY DEF kept, cap
<1> HIDE DEF kept, cap
<1>4. \A s : s \in TheSlots <=>
              \E p \in eligible : \E n \in (KeptOf(p) + 1)..CapOf(p) : s = <<p, n>>
  BY <1>1
<1>5. \A p \in eligible : \A n :
            n \in (KeptOf(p) + 1)..CapOf(p) <=>
                n \in Nat \ {0} /\ n <= CapOf(p) /\ ~(n <= KeptOf(p))
  BY <1>2
<1>6. \A s : s \in TheSlots <=>
              /\ s \in eligible \X (Nat \ {0}) /\ s[2] <= CapOf(s[1]) /\ ~(s[2] <= KeptOf(s[1]))
  BY <1>4, <1>5
<1>7. Seats(eligible, kept) \subseteq Seats(eligible, cap)
  BY <1>2, <1>3 DEF Seats
<1> QED
  BY <1>3, <1>6, <1>7 DEF Seats

LEMMA SlotsSuffice ==
    ASSUME Ready
    PROVE  /\ IsFiniteSet(TheSlots) /\ Cardinality(TheSlots) \in Nat
           /\ Cardinality(ThePool) <= Cardinality(TheSlots)
           /\ (\A p \in eligible : CapOf(p) = ShareOf(p))
                 => Cardinality(ThePool) = Cardinality(TheSlots)
<1> DEFINE share == [p \in eligible |-> ShareOf(p)]
<1>1. IsFiniteSet(Seats(eligible, cap))
  <2>1. cap \in [eligible -> Nat] /\ \A p \in eligible : cap[p] <= Base + 1 + Cardinality(Placeable)
    BY CapsSuffice DEF cap
  <2>2. Base + 1 + Cardinality(Placeable) \in Nat
    BY EvenShares, Counts
  <2>3. IsFiniteSet(eligible)
    BY EvenShares
  <2> HIDE DEF cap
  <2> QED
    BY <2>1, <2>2, <2>3, SeatsAreFinite
<1>2. Seats(eligible, share) \subseteq Seats(eligible, cap)
  BY CapsSuffice DEF Seats, cap
<1>3. Cardinality(Seats(eligible, share)) = Cardinality(Placeable)
  BY SharesAddUp
<1>4. Cardinality(Seats(eligible, share)) <= Cardinality(Seats(eligible, cap))
  BY <1>1, <1>2, FS_Subset
<1>5. /\ IsFiniteSet(TheSlots)
      /\ Cardinality(TheSlots)
            = Cardinality(Seats(eligible, cap)) - Cardinality(Seats(eligible, kept))
  BY <1>1, SlotsAreTheRest, Without
<1>6. (\A p \in eligible : CapOf(p) = ShareOf(p)) => share = cap
  BY DEF cap
<1>7. /\ Cardinality(Seats(eligible, kept)) = Cardinality(Settled)
      /\ Cardinality(Placeable) = Cardinality(Settled) + Cardinality(ThePool)
      /\ Cardinality(Settled) \in Nat /\ Cardinality(ThePool) \in Nat
  BY KeptSeats, PoolIsUnpinned
<1>8. Cardinality(TheSlots) \in Nat /\ Cardinality(Seats(eligible, cap)) \in Nat
  BY <1>1, <1>5, FS_CardinalityType
<1> HIDE DEF share
<1> QED
  BY <1>3, <1>4, <1>5, <1>6, <1>7, <1>8

-----------------------------------------------------------------------------
(* Who goes where.                                                         *)

Same(s, a) == SlotRank(TheSlots, s) = TurnIn(ThePool, eligible, where, a)
SeatOf(a) == CHOOSE s \in TheSlots : Same(s, a)

LEMMA OneSeatEach ==
    ASSUME Ready
    PROVE  /\ \A a \in ThePool : SeatOf(a) \in TheSlots /\ Same(SeatOf(a), a)
           /\ \A a \in ThePool : \A s \in TheSlots : Same(s, a) => s = SeatOf(a)
           /\ \A a, b \in ThePool : SeatOf(a) = SeatOf(b) => a = b
<1>1. ThePool \in SUBSET Placeable /\ IsFiniteSet(ThePool) /\ Cardinality(ThePool) \in Nat
  BY PoolIsUnpinned
<1>2. TheSlots \in SUBSET (eligible \X Nat) /\ IsFiniteSet(TheSlots)
      /\ Cardinality(TheSlots) \in Nat
  BY SlotsAreTheRest, SlotsSuffice
<1> DEFINE seat(s) == Ranked(TheSlots, slotKeys, s)
           turn(a) == Ranked(ThePool, turns, a)
<1>3. \A s \in TheSlots, a \in ThePool : Same(s, a) <=> seat(s) = turn(a)
  BY <1>1, <1>2, ModelRanks DEF Same
<1>4. /\ \A a \in ThePool : turn(a) \in 0..(Cardinality(ThePool) - 1)
      /\ \A a, b \in ThePool : turn(a) = turn(b) => a = b
  BY <1>1, TurnsDiffer, RanksAreNumbers
<1>5. /\ \A s, t \in TheSlots : seat(s) = seat(t) => s = t
      /\ \A r \in 0..(Cardinality(TheSlots) - 1) : \E s \in TheSlots : seat(s) = r
  BY <1>2, SlotKeysDiffer, RanksAreNumbers
<1> HIDE DEF seat, turn
<1>6. \A a \in ThePool : turn(a) \in 0..(Cardinality(TheSlots) - 1)
  BY <1>1, <1>2, <1>4, SlotsSuffice
<1>7. \A a \in ThePool : SeatOf(a) \in TheSlots /\ Same(SeatOf(a), a)
  <2> TAKE a \in ThePool
  <2>1. \E s \in TheSlots : Same(s, a)
    BY <1>3, <1>5, <1>6
  <2> QED
    BY <2>1 DEF SeatOf
<1> QED
  BY <1>3, <1>4, <1>5, <1>7

\* A rebalance moves the pins that are elsewhere and the pool.
LEMMA PlannedTo ==
    ASSUME Ready
    PROVE  \A m : m \in PlannedMoves <=>
                \/ \E a \in Placeable \cap DOMAIN home :
                        where[a] # home[a] /\ m = Move(a, home[a])
                \/ \E a \in ThePool : m = Move(a, SeatOf(a)[1])
<1>1. PlannedMoves = PinMoves(Placeable, where, home)
                     \cup PoolMoves(eligible, Placeable, where, home)
  BY DEF PlannedMoves, Moves, Ready
<1>2. \A m : m \in PinMoves(Placeable, where, home) <=>
          \E a \in Placeable \cap DOMAIN home : where[a] # home[a] /\ m = Move(a, home[a])
  BY DEF PinMoves
<1>3. PoolMoves(eligible, Placeable, where, home)
          = {m \in [account : Placeable, to : eligible] :
                m.account \in ThePool /\ \E s \in TheSlots : m.to = s[1] /\ Same(s, m.account)}
  BY DEF PoolMoves, ThePool, TheSlots, Same
<1>4. ASSUME NEW m
      PROVE  m \in PoolMoves(eligible, Placeable, where, home) <=>
                 \E a \in ThePool : m = Move(a, SeatOf(a)[1])
  <2>1. ASSUME m \in PoolMoves(eligible, Placeable, where, home)
        PROVE  \E a \in ThePool : m = Move(a, SeatOf(a)[1])
    <3>1. m \in [account : Placeable, to : eligible] /\ m.account \in ThePool
      BY <1>3, <2>1
    <3>2. PICK s \in TheSlots : m.to = s[1] /\ Same(s, m.account)
      BY <1>3, <2>1
    <3>3. s = SeatOf(m.account)
      BY <3>1, <3>2, OneSeatEach
    <3>4. m = [account |-> m.account, to |-> m.to]
      BY <3>1
    <3> QED
      BY <3>1, <3>2, <3>3, <3>4 DEF Move
  <2>2. ASSUME NEW a \in ThePool, m = Move(a, SeatOf(a)[1])
        PROVE  m \in PoolMoves(eligible, Placeable, where, home)
    <3>1. a \in Placeable /\ SeatOf(a) \in TheSlots /\ Same(SeatOf(a), a)
      BY OneSeatEach, PoolIsUnpinned
    <3>2. SeatOf(a)[1] \in eligible
      BY <3>1, SlotsAreTheRest
    <3>3. m \in [account : Placeable, to : eligible] /\ m.account = a /\ m.to = SeatOf(a)[1]
      BY <2>2, <3>1, <3>2 DEF Move
    <3> QED
      BY <1>3, <3>1, <3>3
  <2> QED
    BY <2>1, <2>2
<1> QED
  BY <1>1, <1>2, <1>4

Final == Placed(PlannedMoves, where)

\* Where a rebalance puts everybody.
LEMMA WhereTo ==
    ASSUME Ready
    PROVE  /\ Final \in [Placeable -> eligible]
           /\ \A a \in Placeable :
                Final[a] = IF a \in ThePool THEN SeatOf(a)[1] ELSE PlaceOf(a)
<1>1. \A m : m \in PlannedMoves <=>
            \/ \E a \in Placeable \cap DOMAIN home :
                    where[a] # home[a] /\ m = Move(a, home[a])
            \/ \E a \in ThePool : m = Move(a, SeatOf(a)[1])
  BY PlannedTo
<1> DEFINE target(a) == (CHOOSE m \in PlannedMoves : m.account = a).to
<1>2. ASSUME NEW a \in ThePool
      PROVE  (\E m \in PlannedMoves : m.account = a) /\ target(a) = SeatOf(a)[1]
  <2>1. a \notin DOMAIN home
    BY PoolIsUnpinned
  <2>2. \A m \in PlannedMoves : m.account = a => m.to = SeatOf(a)[1]
    BY <1>1, <2>1 DEF Move
  <2>3. Move(a, SeatOf(a)[1]) \in PlannedMoves /\ Move(a, SeatOf(a)[1]).account = a
    <3>1. Move(a, SeatOf(a)[1]) \in PlannedMoves
      BY <1>1
    <3> QED
      BY <3>1 DEF Move
  <2> QED
    BY <2>2, <2>3
<1>3. ASSUME NEW a \in Placeable \cap DOMAIN home
      PROVE  /\ (\E m \in PlannedMoves : m.account = a) <=> where[a] # home[a]
             /\ where[a] # home[a] => target(a) = home[a]
  <2>1. a \notin ThePool
    BY PoolIsUnpinned
  <2>2. \A m \in PlannedMoves : m.account = a => m.to = home[a] /\ where[a] # home[a]
    BY <1>1, <2>1 DEF Move
  <2>3. /\ where[a] # home[a] => Move(a, home[a]) \in PlannedMoves
        /\ Move(a, home[a]).account = a
    <3>1. where[a] # home[a] => Move(a, home[a]) \in PlannedMoves
      BY <1>1
    <3> QED
      BY <3>1 DEF Move
  <2> QED
    BY <2>2, <2>3
<1>4. ASSUME NEW a \in Placeable, a \notin ThePool, a \notin DOMAIN home
      PROVE  ~\E m \in PlannedMoves : m.account = a
  BY <1>1, <1>4 DEF Move
<1>5. DOMAIN where = Placeable
  BY DEF Ready
<1>6. \A a \in Placeable :
            Final[a] = IF \E m \in PlannedMoves : m.account = a THEN target(a) ELSE where[a]
  BY <1>5 DEF Final, Placed
<1>7. DOMAIN Final = Placeable /\ Final = [a \in Placeable |-> Final[a]]
  BY <1>5 DEF Final, Placed
<1> HIDE DEF target
<1>8. ASSUME NEW a \in Placeable
      PROVE  Final[a] = IF a \in ThePool THEN SeatOf(a)[1] ELSE PlaceOf(a)
  <2>1. CASE a \in ThePool
    BY <1>2, <1>6, <2>1
  <2>2. CASE a \in DOMAIN home
    <3>1. a \notin ThePool
      BY <2>2, PoolIsUnpinned
    <3> QED
      BY <1>3, <1>6, <2>2, <3>1 DEF PlaceOf
  <2>3. CASE a \notin ThePool /\ a \notin DOMAIN home
    BY <1>4, <1>6, <2>3 DEF PlaceOf
  <2> QED
    BY <2>1, <2>2, <2>3
<1>9. \A a \in Placeable : Final[a] \in eligible
  <2> TAKE a \in Placeable
  <2>1. a \in ThePool => SeatOf(a)[1] \in eligible
    BY OneSeatEach, SlotsAreTheRest
  <2>2. a \notin ThePool => PlaceOf(a) \in eligible
    BY SettledFibres DEF Settled, settledAt
  <2> QED
    BY <1>8, <2>1, <2>2
<1> QED
  BY <1>7, <1>8, <1>9

\* A proxy ends with the accounts it keeps and one for each of its free seats that is taken.
LEMMA WhoEndsOn ==
    ASSUME Ready, NEW p \in eligible, Cardinality(ThePool) = Cardinality(TheSlots)
    PROVE  Cardinality(On(Final, p)) = CapOf(p)
<1> DEFINE new == {a \in ThePool : SeatOf(a)[1] = p}
           stay == Fibre(Settled, settledAt, p)
           seats == (KeptOf(p) + 1)..CapOf(p)
           f == [a \in new |-> SeatOf(a)[2]]
<1>1. On(Final, p) = stay \cup new /\ stay \cap new = {}
  <2>1. ThePool \subseteq Placeable /\ Settled = Placeable \ ThePool
    BY PoolIsUnpinned DEF Settled
  <2>2. stay = {a \in Settled : PlaceOf(a) = p}
    BY DEF Fibre, settledAt
  <2> QED
    BY <2>1, <2>2, WhereTo DEF On
<1>2. IsFiniteSet(new) /\ IsFiniteSet(stay) /\ Cardinality(stay) = KeptOf(p)
  BY PoolIsUnpinned, SettledFibres, FS_Subset
<1>3. \A s \in TheSlots : s[1] = p => s = <<p, s[2]>> /\ s[2] \in seats
  <2>1. TheSlots = UNION {{q} \X ((KeptOf(q) + 1)..CapOf(q)) : q \in eligible}
    BY DEF TheSlots, Slots, KeptOf, CapOf
  <2> QED
    BY <2>1
<1>4. \A n \in seats : <<p, n>> \in TheSlots
  BY DEF TheSlots, Slots, KeptOf, CapOf
<1>5. f \in [new -> seats] /\ \A a, b \in new : f[a] = f[b] => a = b
  BY <1>3, OneSeatEach
<1>6. \A n \in seats : \E a \in new : f[a] = n
  <2>1. \A s \in TheSlots : \E a \in ThePool : SeatOf(a) = s
    <3> DEFINE g == [a \in ThePool |-> SeatOf(a)]
    <3>1. g \in [ThePool -> TheSlots] /\ \A a, b \in ThePool : g[a] = g[b] => a = b
      BY OneSeatEach
    <3>2. \A a \in ThePool : g[a] = SeatOf(a)
      OBVIOUS
    <3> HIDE DEF g
    <3>3. \A s \in TheSlots : \E a \in ThePool : g[a] = s
      BY <3>1, SlotsSuffice, FillsUp
    <3> QED
      BY <3>2, <3>3
  <2> TAKE n \in seats
  <2>2. PICK a \in ThePool : SeatOf(a) = <<p, n>>
    BY <1>4, <2>1
  <2> QED
    BY <2>2
<1>7. Cardinality(seats) = CapOf(p) - KeptOf(p)
  <2>1. KeptOf(p) \in Nat /\ CapOf(p) \in Nat /\ KeptOf(p) <= CapOf(p)
    BY CapsSuffice
  <2>2. KeptOf(p) + 1 \in Int /\ CapOf(p) \in Int
    BY <2>1
  <2>3. Cardinality(seats) = IF KeptOf(p) + 1 > CapOf(p) THEN 0
                             ELSE CapOf(p) - (KeptOf(p) + 1) + 1
    BY <2>2, FS_Interval
  <2> QED
    BY <2>1, <2>3
<1> HIDE DEF f, new, seats, stay
<1>8. Cardinality(seats) = Cardinality(new)
  BY <1>2, <1>5, <1>6, Matches
<1>9. Cardinality(stay \cup new) = Cardinality(stay) + Cardinality(new)
  BY <1>1, <1>2, Apart
<1>10. KeptOf(p) \in Nat /\ CapOf(p) \in Nat
  BY CapsSuffice
<1> QED
  BY <1>1, <1>2, <1>7, <1>8, <1>9, <1>10

-----------------------------------------------------------------------------
(* What a rebalance promises.                                              *)

LEMMA RebalancePlacesEverybody ==
    ASSUME Ready, NEW a \in Placeable
    PROVE  Final[a] \in eligible /\ (a \in DOMAIN home => Final[a] = home[a])
<1>1. Final[a] \in eligible
  BY WhereTo
<1>2. a \in DOMAIN home => a \notin ThePool
  BY PoolIsUnpinned
<1> QED
  BY <1>1, <1>2, WhereTo DEF PlaceOf

LEMMA RebalanceIsEven ==
    ASSUME Ready, \A p \in eligible : Cardinality(Pins(p)) <= Base
    PROVE  Even(Final)
<1>1. \A p \in eligible : ShareOf(p) \in {Base, Base + 1} /\ Base \in Nat
  BY SharesAddUp, EvenShares
<1>2. \A p \in eligible : CapOf(p) = ShareOf(p)
  <2> TAKE p \in eligible
  <2>1. CapOf(p) = Max2(ShareOf(p), Cardinality(Pins(p)))
    BY DEF CapOf, Cap, ShareOf, Pins
  <2>2. Cardinality(Pins(p)) \in Nat
    BY Counts
  <2> QED
    BY <1>1, <2>1, <2>2 DEF Max2
<1>3. \A p \in eligible : Cardinality(On(Final, p)) = ShareOf(p)
  BY <1>2, SlotsSuffice, WhoEndsOn
<1> QED
  BY <1>1, <1>3 DEF Even

-----------------------------------------------------------------------------
(* No even placement needs fewer moves.                                    *)

\* The loads of an even placement are the shares, in another order.
LEMMA EvenLoads ==
    ASSUME Ready, NEW f \in [Placeable -> eligible], Even(f)
    PROVE  \E X \in SUBSET eligible :
                /\ Cardinality(X) = Remainder
                /\ \A p \in eligible :
                        Cardinality(On(f, p)) = IF p \in X THEN Base + 1 ELSE Base
<1> DEFINE load == [p \in eligible |-> Cardinality(Fibre(Placeable, f, p))]
<1>1. \A p \in eligible : load[p] = Cardinality(On(f, p)) /\ load[p] \in Nat
  <2> TAKE p \in eligible
  <2>1. Fibre(Placeable, f, p) = On(f, p)
    BY DEF Fibre, On
  <2>2. IsFiniteSet(On(f, p))
    BY ListingsAreFinite, FS_Subset DEF On
  <2> QED
    BY <2>1, <2>2, FS_CardinalityType
<1>2. Cardinality(Seats(eligible, load)) = Cardinality(Placeable)
  BY ListingsAreFinite, Fibres
<1>3. load \in [eligible -> Nat]
  BY <1>1
<1> HIDE DEF load
<1>4. \A p, q \in eligible : load[p] <= load[q] + 1
  BY <1>1 DEF Even
<1>5. PICK low \in eligible : \A p \in eligible : load[low] <= load[p]
  <2>1. PICK p \in eligible : TRUE
    BY DEF Ready
  <2>2. CASE \A q \in eligible : load[p] <= load[q]
    BY <2>2
  <2>3. CASE \E q \in eligible : ~(load[p] <= load[q])
    <3>1. PICK q \in eligible : ~(load[p] <= load[q])
      BY <2>3
    <3>2. \A r \in eligible : load[q] <= load[r]
      BY <1>3, <1>4, <3>1
    <3> QED
      BY <3>2
  <2> QED
    BY <2>2, <2>3
<1> DEFINE base == load[low]
           X == {p \in eligible : load[p] = base + 1}
<1>6. base \in Nat /\ \A p \in eligible : load[p] = IF p \in X THEN base + 1 ELSE base
  BY <1>3, <1>4, <1>5
<1>7. low \in eligible \ X /\ X \subseteq eligible
  BY <1>3
<1>8. /\ IsFiniteSet(eligible) /\ IsFiniteSet(X)
      /\ Cardinality(X) \in 0..(Cardinality(eligible) - 1)
      /\ Cardinality(eligible) \in Nat \ {0}
  <2>1. IsFiniteSet(eligible) /\ Cardinality(eligible) \in Nat \ {0}
    BY EvenShares
  <2>2. /\ IsFiniteSet(X) /\ Cardinality(X) <= Cardinality(eligible)
        /\ Cardinality(eligible) = Cardinality(X) => eligible = X
    BY <1>7, <2>1, FS_Subset
  <2>3. Cardinality(X) \in Nat
    BY <2>2, FS_CardinalityType
  <2> QED
    BY <1>7, <2>1, <2>2, <2>3
<1> HIDE DEF base, X
<1>9. Cardinality(Seats(eligible, load)) = Cardinality(eligible) * base + Cardinality(X)
  <2>1. X \in SUBSET eligible /\ IsFiniteSet(eligible) /\ base \in Nat
        /\ load \in [eligible -> Nat]
        /\ \A p \in eligible : load[p] = IF p \in X THEN base + 1 ELSE base
    BY <1>3, <1>6, <1>7, <1>8
  <2> QED
    BY <2>1, SeatsOfShares
<1>10. Cardinality(Placeable) \in Nat
  BY Counts
<1>11. Base = base /\ Remainder = Cardinality(X)
  BY <1>2, <1>6, <1>8, <1>9, <1>10, DivisionUnique DEF Base, Remainder
<1> QED
  BY <1>1, <1>6, <1>7, <1>11

LEMMA MovesAreOfThePool ==
    ASSUME Ready, DOMAIN home = {}
    PROVE  /\ Cardinality(PlannedMoves) <= Cardinality(ThePool)
           /\ Cardinality(PlannedMoves) \in Nat
<1> DEFINE f == [m \in PlannedMoves |-> m.account]
<1>1. \A m \in PlannedMoves : \E a \in ThePool : m = Move(a, SeatOf(a)[1])
  BY PlannedTo
<1>2. \A m \in PlannedMoves : m.account \in ThePool /\ m = Move(m.account, SeatOf(m.account)[1])
  BY <1>1 DEF Move
<1>3. f \in [PlannedMoves -> ThePool] /\ \A m, n \in PlannedMoves : f[m] = f[n] => m = n
  BY <1>2
<1>4. IsFiniteSet(ThePool)
  BY PoolIsUnpinned
<1> HIDE DEF f
<1> QED
  BY <1>3, <1>4, Embeds, FS_CardinalityType

\* The proxies with one seat above the base are those with the highest loads.
LEMMA LargerAreTheFullest ==
    ASSUME Ready, DOMAIN home = {}, NEW p \in eligible, NEW q \in eligible,
           q \in Larger, Cardinality(Here(q)) < Cardinality(Here(p))
    PROVE  p \in Larger
<1>1. \A r \in eligible : Load(Placeable, where, home, r) = Cardinality(Here(r))
  <2> TAKE r \in eligible
  <2>1. Pinned(Placeable, home, r) = {}
    BY DEF Pinned
  <2>2. Cardinality(Pinned(Placeable, home, r)) = 0
    BY <2>1, FS_EmptySet
  <2>3. Cardinality(Here(r)) \in Nat
    BY Counts
  <2> QED
    BY <2>2, <2>3 DEF Load, Here
<1>2. Precedes(capKeys[p], capKeys[q])
  <2>1. Cardinality(Here(p)) \in Nat /\ Cardinality(Here(q)) \in Nat
    BY Counts
  <2>2. capKeys[p][1] = -Cardinality(Here(p)) /\ capKeys[q][1] = -Cardinality(Here(q))
    BY <1>1 DEF capKeys, CapKey
  <2> QED
    BY <2>1, <2>2 DEF Precedes
<1> DEFINE K == {capKeys[r] : r \in eligible}
<1>3. K \in SUBSET Pairs /\ IsFiniteSet(K) /\ capKeys[p] \in K /\ capKeys[q] \in K
  <2>1. K \in SUBSET Pairs /\ capKeys[p] \in K /\ capKeys[q] \in K
    BY CapKeysDiffer
  <2>2. capKeys \in [eligible -> K] /\ \A k \in K : \E r \in eligible : capKeys[r] = k
    BY CapKeysDiffer
  <2>3. IsFiniteSet(K)
    BY <2>2, EvenShares, CapKeysDiffer, Matches
  <2> QED
    BY <2>1, <2>3
<1>4. Rank(K, capKeys[p]) < Rank(K, capKeys[q])
  BY <1>2, <1>3, RankGrows
<1>5. Ranked(eligible, capKeys, q) < Remainder
  BY ModelRanks DEF Larger
<1>6. Ranked(eligible, capKeys, p) < Ranked(eligible, capKeys, q)
  BY <1>4 DEF Ranked
<1>7. /\ Ranked(eligible, capKeys, p) \in 0..(Cardinality(eligible) - 1)
      /\ Ranked(eligible, capKeys, q) \in 0..(Cardinality(eligible) - 1)
  <2> eligible \in SUBSET eligible
    OBVIOUS
  <2> QED
    BY EvenShares, CapKeysDiffer, RanksAreNumbers
<1>8. Ranked(eligible, capKeys, p) < Remainder
  BY <1>5, <1>6, <1>7, EvenShares
<1> QED
  BY <1>8, ModelRanks DEF Larger

\* At least as many accounts stay as in any even placement.
LEMMA MostStay ==
    ASSUME Ready, DOMAIN home = {}, NEW f \in [Placeable -> eligible], Even(f)
    PROVE  /\ IsFiniteSet({a \in Placeable : f[a] = where[a]})
           /\ Cardinality({a \in Placeable : f[a] = where[a]}) <= Cardinality(Settled)
<1> DEFINE Stay == {a \in Placeable : f[a] = where[a]}
           g == [a \in Stay |-> f[a]]
           stay == [p \in eligible |-> Cardinality(Fibre(Stay, g, p))]
           here(p) == Cardinality(Here(p))
           Low == Seats(eligible, [p \in eligible |-> Min2(here(p), Base)])
           Full == {p \in eligible : here(p) > Base}
           Top(S) == S \X {Base + 1}
<1>1. PICK X \in SUBSET eligible :
            /\ Cardinality(X) = Remainder
            /\ \A p \in eligible : Cardinality(On(f, p)) = IF p \in X THEN Base + 1 ELSE Base
  BY EvenLoads
<1>2. Base \in Nat /\ IsFiniteSet(eligible) /\ (\A p \in eligible : here(p) \in Nat)
      /\ IsFiniteSet(Placeable)
  BY EvenShares, Counts, ListingsAreFinite
<1>3. IsFiniteSet(Stay)
  BY <1>2, FS_Subset
<1>4. \A p \in eligible : stay[p] \in Nat /\ stay[p] <= here(p)
                          /\ stay[p] <= IF p \in X THEN Base + 1 ELSE Base
  <2> TAKE p \in eligible
  <2>1. Fibre(Stay, g, p) \subseteq Here(p) /\ Fibre(Stay, g, p) \subseteq On(f, p)
    BY DEF Fibre, Here, Current, On
  <2>2. IsFiniteSet(Here(p)) /\ IsFiniteSet(On(f, p))
    BY <1>2, Counts, FS_Subset DEF On
  <2> QED
    BY <1>1, <2>1, <2>2, FS_Subset, FS_CardinalityType
<1>5. IsFiniteSet(Seats(eligible, stay)) /\ Cardinality(Seats(eligible, stay)) = Cardinality(Stay)
  <2>1. g \in [Stay -> eligible]
    OBVIOUS
  <2> HIDE DEF g, Stay
  <2> QED
    BY <1>3, <2>1, Fibres
<1> HIDE DEF stay, here
<1>6. Seats(eligible, stay) \subseteq Low \cup Top(X \cap Full)
  <2>1. \A p \in eligible, n \in Nat \ {0} :
            n <= stay[p] => n <= Min2(here(p), Base) \/ (n = Base + 1 /\ p \in X \cap Full)
    BY <1>2, <1>4 DEF Min2
  <2> QED
    BY <2>1 DEF Seats
<1>7. \A p \in eligible : kept[p] = Min2(here(p), IF p \in Larger THEN Base + 1 ELSE Base)
  <2> TAKE p \in eligible
  <2>1. Pins(p) = {}
    BY DEF Pins, Pinned
  <2>2. Cardinality(Pins(p)) = 0
    BY <2>1, FS_EmptySet
  <2>3. FreeOf(p) = Max2(ShareOf(p), 0) - 0
    BY <2>2 DEF FreeOf, FreeCap, Cap, ShareOf, Pins
  <2>4. ShareOf(p) = IF p \in Larger THEN Base + 1 ELSE Base
    BY SharesAddUp
  <2>5. KeptOf(p) = 0 + Min2(here(p), FreeOf(p))
    BY <2>2, CapsSuffice DEF here
  <2> QED
    BY <1>2, <2>3, <2>4, <2>5 DEF Max2, Min2, kept
<1>8. Low \cup Top(Larger \cap Full) \subseteq Seats(eligible, kept)
  <2>1. \A p \in eligible, n \in Nat \ {0} :
            n <= Min2(here(p), Base) \/ (n = Base + 1 /\ p \in Larger \cap Full)
                => n <= kept[p]
    BY <1>2, <1>7 DEF Min2
  <2>2. Larger \subseteq eligible
    BY DEF Larger
  <2> QED
    BY <1>2, <2>1, <2>2 DEF Seats
<1>9. /\ IsFiniteSet(X \cap Full) /\ IsFiniteSet(Larger \cap Full)
      /\ Cardinality(X \cap Full) <= Cardinality(Larger \cap Full)
  <2>1. Larger \subseteq eligible
    BY DEF Larger
  <2>2. IsFiniteSet(X) /\ IsFiniteSet(Larger) /\ IsFiniteSet(Full)
    BY <1>2, <2>1, FS_Subset
  <2>3. Cardinality(X) = Cardinality(Larger)
    BY <1>1, SharesAddUp
  <2>4. Larger \subseteq Full \/ Full \subseteq Larger
    <3>1. SUFFICES ASSUME NEW q \in Larger, q \notin Full, NEW p \in Full PROVE p \in Larger
      OBVIOUS
    <3>2. q \in eligible /\ p \in eligible
      BY <2>1
    <3>3. here(q) < here(p)
      BY <1>2, <3>1, <3>2
    <3> QED
      BY <3>2, <3>3, LargerAreTheFullest DEF here
  <2>5. CASE Larger \subseteq Full
    <3>1. Larger \cap Full = Larger
      BY <2>5
    <3>2. IsFiniteSet(X \cap Full) /\ Cardinality(X \cap Full) <= Cardinality(X)
      BY <2>2, FS_Subset
    <3> QED
      BY <2>2, <2>3, <3>1, <3>2
  <2>6. CASE Full \subseteq Larger
    <3>1. Larger \cap Full = Full
      BY <2>6
    <3>2. IsFiniteSet(X \cap Full) /\ Cardinality(X \cap Full) <= Cardinality(Full)
      BY <2>2, FS_Subset
    <3> QED
      BY <2>2, <3>1, <3>2
  <2> QED
    BY <2>4, <2>5, <2>6
<1>10. IsFiniteSet(Seats(eligible, kept))
       /\ Cardinality(Seats(eligible, kept)) = Cardinality(Settled)
  BY KeptSeats
<1>11. IsFiniteSet(Low)
  BY <1>8, <1>10, FS_Subset
<1>12. \A S : IsFiniteSet(S) => /\ IsFiniteSet(Top(S)) /\ Cardinality(Top(S)) = Cardinality(S)
                                /\ Cardinality(S) \in Nat
  <2>1. IsFiniteSet({Base + 1}) /\ Cardinality({Base + 1}) = 1
    BY FS_Singleton
  <2>2. ASSUME NEW S, IsFiniteSet(S)
        PROVE  IsFiniteSet(Top(S)) /\ Cardinality(Top(S)) = Cardinality(S) /\ Cardinality(S) \in Nat
    <3>1. IsFiniteSet(Top(S)) /\ Cardinality(Top(S)) = Cardinality(S) * Cardinality({Base + 1})
      BY <2>1, <2>2, FS_Product
    <3>2. Cardinality(S) \in Nat
      BY <2>2, FS_CardinalityType
    <3> HIDE DEF Top
    <3> QED
      BY <2>1, <3>1, <3>2
  <2> QED
    BY <2>2
<1>13. \A S : Low \cap Top(S) = {}
  BY <1>2 DEF Seats, Min2
<1> HIDE DEF Low, Full, Top, Stay
<1>14. ASSUME NEW S, IsFiniteSet(S)
       PROVE  /\ IsFiniteSet(Low \cup Top(S))
              /\ Cardinality(Low \cup Top(S)) = Cardinality(Low) + Cardinality(S)
  <2>1. IsFiniteSet(Top(S)) /\ Cardinality(Top(S)) = Cardinality(S) /\ Low \cap Top(S) = {}
    BY <1>12, <1>13, <1>14
  <2>2. /\ IsFiniteSet(Low \cup Top(S))
        /\ Cardinality(Low \cup Top(S)) = Cardinality(Low) + Cardinality(Top(S))
    BY <1>11, <2>1, Apart
  <2> QED
    BY <2>1, <2>2
<1>15. /\ IsFiniteSet(Low \cup Top(X \cap Full))
       /\ Cardinality(Low \cup Top(X \cap Full)) = Cardinality(Low) + Cardinality(X \cap Full)
       /\ Cardinality(Low \cup Top(Larger \cap Full))
             = Cardinality(Low) + Cardinality(Larger \cap Full)
  BY <1>9, <1>14
<1>16. Cardinality(Seats(eligible, stay)) <= Cardinality(Low \cup Top(X \cap Full))
  BY <1>6, <1>15, FS_Subset
<1>17. Cardinality(Low \cup Top(Larger \cap Full)) <= Cardinality(Seats(eligible, kept))
  BY <1>8, <1>10, FS_Subset
<1>18. /\ Cardinality(Low) \in Nat /\ Cardinality(X \cap Full) \in Nat
       /\ Cardinality(Larger \cap Full) \in Nat
       /\ Cardinality(Stay) \in Nat /\ Cardinality(Settled) \in Nat
  BY <1>3, <1>9, <1>11, <1>12, PoolIsUnpinned, FS_CardinalityType
<1>19. Cardinality(Stay) <= Cardinality(Settled)
  BY <1>5, <1>9, <1>10, <1>15, <1>16, <1>17, <1>18
<1> QED
  BY <1>3, <1>19 DEF Stay

LEMMA RebalanceIsMinimal ==
    ASSUME Ready, DOMAIN home = {}, NEW f \in [Placeable -> eligible], Even(f)
    PROVE  Cardinality(PlannedMoves) <= Cardinality({a \in Placeable : f[a] # where[a]})
<1> DEFINE Stay == {a \in Placeable : f[a] = where[a]}
           Go == {a \in Placeable : f[a] # where[a]}
<1>1. IsFiniteSet(Stay) /\ Cardinality(Stay) <= Cardinality(Settled)
  BY MostStay
<1>2. Go = Placeable \ Stay /\ Stay \subseteq Placeable
  OBVIOUS
<1> HIDE DEF Stay, Go
<1>3. Cardinality(Go) = Cardinality(Placeable) - Cardinality(Stay)
      /\ Cardinality(Stay) \in Nat
  BY <1>2, ListingsAreFinite, Without
<1>4. /\ Cardinality(Placeable) = Cardinality(Settled) + Cardinality(ThePool)
      /\ Cardinality(Settled) \in Nat /\ Cardinality(ThePool) \in Nat
  BY PoolIsUnpinned
<1>5. Cardinality(PlannedMoves) <= Cardinality(ThePool) /\ Cardinality(PlannedMoves) \in Nat
  BY MovesAreOfThePool
<1> QED
  BY <1>1, <1>3, <1>4, <1>5 DEF Go

-----------------------------------------------------------------------------
(* The steps of Placements.                                                *)

PlacementTyped ==
    /\ eligible \in SUBSET Nodes
    /\ where \in [Placeable -> Nodes \cup {Direct}]
    /\ DOMAIN home \subseteq Placeable /\ home \in [DOMAIN home -> eligible]
    /\ rebalances \in 0..2

LEMMA PlacementStarts == PlacementInit => PlacementTyped /\ rebalances = 0
BY DEF PlacementInit, PlacementTyped

\* Without an eligible proxy everybody ends direct.
LEMMA OutageEmptiesProxies ==
    ASSUME PlacementTyped, eligible = {}
    PROVE  Final = [a \in Placeable |-> Direct]
<1>1. \A m : m \in PlannedMoves <=> \E a \in Placeable : where[a] # Direct /\ m = Move(a, Direct)
  BY DEF PlannedMoves, Moves, OutageMoves
<1>2. DOMAIN where = Placeable
  BY DEF PlacementTyped
<1>3. ASSUME NEW a \in Placeable
      PROVE  (IF \E m \in PlannedMoves : m.account = a
              THEN (CHOOSE m \in PlannedMoves : m.account = a).to
              ELSE where[a]) = Direct
  <2>1. \A m \in PlannedMoves : m.to = Direct
    BY <1>1 DEF Move
  <2>2. CASE where[a] # Direct
    <3>1. Move(a, Direct) \in PlannedMoves
      BY <1>1, <2>2
    <3>2. \E m \in PlannedMoves : m.account = a
      BY <3>1 DEF Move
    <3> QED
      BY <2>1, <3>2
  <2>3. CASE where[a] = Direct
    BY <2>1, <2>3
  <2> QED
    BY <2>2, <2>3
<1> QED
  BY <1>2, <1>3 DEF Final, Placed

LEMMA PlacementStep ==
    ASSUME PlacementTyped, PlacementNext
    PROVE  PlacementTyped' /\ EverybodyPlaced' /\ EvenSplit'
<1>1. /\ where' = Final /\ eligible' = eligible /\ home' = home
      /\ rebalances < 2 /\ rebalances' = rebalances + 1
  BY DEF PlacementNext, Final
<1>2. eligible # {} => Ready
  BY DEF PlacementTyped, Ready
<1>3. \A a \in Placeable :
            /\ IF eligible = {} THEN Final[a] = Direct ELSE Final[a] \in eligible
            /\ a \in DOMAIN home => Final[a] = home[a]
  <2>1. CASE eligible = {}
    BY <2>1, OutageEmptiesProxies DEF PlacementTyped
  <2>2. CASE eligible # {}
    BY <1>2, <2>2, RebalancePlacesEverybody
  <2> QED
    BY <2>1, <2>2
<1>4. Final \in [Placeable -> Nodes \cup {Direct}]
  <2>1. CASE eligible = {}
    BY <2>1, OutageEmptiesProxies
  <2>2. CASE eligible # {}
    BY <1>2, <2>2, WhereTo DEF PlacementTyped
  <2> QED
    BY <2>1, <2>2
<1>5. PlacementTyped'
  BY <1>1, <1>4 DEF PlacementTyped
<1>6. EverybodyPlaced'
  BY <1>1, <1>3 DEF EverybodyPlaced
<1>7. EvenSplit'
  <2>1. eligible # {} /\ (\A p \in eligible : Cardinality(Pins(p)) <= Base) => Even(Final)
    BY <1>2, RebalanceIsEven
  <2> QED
    BY <1>1, <2>1 DEF EvenSplit, Even, On, Pins, Base
<1> QED
  BY <1>5, <1>6, <1>7

LEMMA MovementIsMinimal == PlacementTyped => MinimalMovement
<1>1. SUFFICES ASSUME PlacementTyped, eligible # {}, DOMAIN home = {},
                      NEW f \in [Placeable -> eligible], Even(f)
               PROVE  Cardinality(PlannedMoves)
                          <= Cardinality({a \in Placeable : f[a] # where[a]})
  BY DEF MinimalMovement
<1>2. Ready
  BY <1>1 DEF PlacementTyped, Ready
<1> QED
  BY <1>1, <1>2, RebalanceIsMinimal
=============================================================================
