--------------------------- MODULE PageRank_proofs ---------------------------
(***************************************************************************)
(* PageRank on any number of agents is power iteration in one place: the   *)
(* counts of missing notifications keep the agents in step, and no agent   *)
(* ever sums a value of another superstep.                                 *)
(***************************************************************************)
EXTENDS PageRank, DataLemmas

-----------------------------------------------------------------------------
(* Numbers modulo Prime.                                                   *)

LEMMA ModuloType ==
  ASSUME NEW x \in Int, NEW p \in Nat \ {0}
  PROVE  /\ x % p \in 0 .. p - 1
         /\ x \div p \in Int
         /\ x = p * (x \div p) + (x % p)
OBVIOUS

LEMMA ModuloUnique ==
  ASSUME NEW x \in Int, NEW p \in Nat \ {0}, NEW q \in Int, NEW r \in 0 .. p - 1, x = p * q + r
  PROVE  x % p = r
<1> DEFINE y == x % p  z == x \div p
<1>1. y \in 0 .. p - 1 /\ z \in Int /\ x = p * z + y
  BY ModuloType
<1> HIDE DEF y, z
<1>2. p * (q - z) = y - r
  BY <1>1
<1>3. CASE q > z
  <2>1. p * (q - z) >= p
    BY <1>1, <1>3
  <2> QED BY <1>1, <1>2, <2>1
<1>4. CASE q < z
  <2>1. p * (q - z) <= -p
    BY <1>1, <1>4
  <2> QED BY <1>1, <1>2, <2>1
<1>5. CASE q = z
  BY <1>1, <1>5 DEF y
<1> QED BY <1>1, <1>3, <1>4, <1>5

LEMMA PrimeType == Prime \in Nat \ {0}
<1>1. Cardinality(Vertex) \in Nat
  BY PageRankAssumption, FS_CardinalityType
<1> QED BY <1>1, PageRankAssumption

(* Every degree has a reciprocal: the least residue that is not 0 among    *)
(* the multiples of d divides Prime.                                       *)
LEMMA ReciprocalType ==
  ASSUME NEW d \in 1 .. Prime - 1
  PROVE  Reciprocal(d) \in Number
<1>1. Prime \in Nat /\ Prime >= 2 /\ \A p \in 2 .. Prime - 1 : Prime % p # 0
  BY PrimeType, PageRankAssumption
<1> DEFINE Residues == {x \in 1 .. Prime - 1 : \E n \in Nat : (n * d) % Prime = x}
<1>2. Residues \in SUBSET Nat /\ Residues # {}
  <2>1. 1 * d = Prime * 0 + d /\ d \in 0 .. Prime - 1 /\ 1 * d \in Int
    BY <1>1
  <2>2. (1 * d) % Prime = d
    BY <1>1, <2>1, ModuloUnique
  <2>3. d \in Residues
    BY <2>2
  <2>4. Residues \subseteq 1 .. Prime - 1
    OBVIOUS
  <2> HIDE DEF Residues
  <2> QED BY <1>1, <2>3, <2>4
<1>3. PICK g \in Residues : \A x \in Residues : g <= x
  <2> HIDE DEF Residues
  <2> QED BY <1>2, LeastNatural
<1>4. PICK n \in Nat : (n * d) % Prime = g
  OBVIOUS
<1>5. g \in 1 .. Prime - 1
  OBVIOUS
<1>6. g = 1
  <2> SUFFICES ASSUME g >= 2 PROVE FALSE
    BY <1>5
  <2> DEFINE q == Prime \div g
             r == Prime % g
             s == (n * d) \div Prime
  <2>1. r \in 0 .. g - 1 /\ q \in Int /\ Prime = g * q + r
    BY <1>1, <1>5, ModuloType
  <2>2. s \in Int /\ n * d = Prime * s + g /\ n * d \in Int
    BY <1>1, <1>4, <1>5, ModuloType
  <2>3. r # 0
    BY <1>1, <1>5
  <2>4. q >= 0
    <3> SUFFICES ASSUME q <= -1 PROVE FALSE
      BY <2>1
    <3>1. g \in Nat /\ q \in Int /\ q <= -1
      BY <1>1, <1>5, <2>1
    <3> HIDE DEF q, r, s
    <3>2. g * q <= -g
      <4>1. -1 - q \in Nat
        BY <3>1
      <4>2. g * (-1 - q) >= 0
        BY <3>1, <4>1
      <4>3. g * (-1 - q) = -g - g * q
        BY <3>1
      <4> QED BY <3>1, <4>2, <4>3
    <3> QED BY <1>1, <1>5, <2>1, <3>2
  <2> HIDE DEF q, r, s
  <2> DEFINE m == q * n * (Prime - 1)
             t == q * n * d - q * s - 1
  <2>5. q * n \in Nat /\ m \in Nat /\ t \in Int /\ m * d \in Int
    <3>1. q * n \in Nat
      BY <2>1, <2>4
    <3>2. Prime - 1 \in Nat
      BY <1>1
    <3>3. m \in Nat
      BY <3>1, <3>2
    <3>4. q * n * d \in Int /\ q * s \in Int
      BY <2>1, <2>2, <3>1
    <3>5. m * d \in Int
      <4> HIDE DEF m
      <4> QED BY <3>3
    <3> QED BY <3>1, <3>3, <3>4, <3>5
  <2>6. m * d = Prime * t + r
    <3>1. g = n * d - s * Prime /\ r = Prime - q * g
      BY <1>1, <1>5, <2>1, <2>2
    <3> QED BY <1>1, <1>5, <2>1, <2>2, <3>1
  <2> HIDE DEF m, t
  <2>7. r \in 0 .. Prime - 1
    BY <1>5, <2>1
  <2>8. (m * d) % Prime = r
    BY <1>1, <2>5, <2>6, <2>7, ModuloUnique
  <2>9. r \in Residues
    BY <2>3, <2>5, <2>7, <2>8
  <2> HIDE DEF Residues
  <2>10. g <= r
    BY <1>3, <2>9
  <2> QED BY <1>1, <1>5, <2>1, <2>10
<1>7. (n % Prime) * d % Prime = 1 /\ n % Prime \in Number
  <2> DEFINE a == n % Prime  b == n \div Prime  s == (n * d) \div Prime
  <2>1. a \in 0 .. Prime - 1 /\ b \in Int /\ n = Prime * b + a
    BY <1>1, ModuloType
  <2>2. s \in Int /\ n * d = Prime * s + 1
    BY <1>1, <1>4, <1>6, ModuloType
  <2> HIDE DEF a, b, s
  <2>3. a * d = Prime * (s - b * d) + 1
    BY <1>1, <2>1, <2>2
  <2>4. a * d \in Int /\ s - b * d \in Int /\ 1 \in 0 .. Prime - 1
    BY <1>1, <2>1, <2>2
  <2>5. (a * d) % Prime = 1
    <3> DEFINE x == a * d  y == s - b * d
    <3>1. x = Prime * y + 1 /\ x \in Int /\ y \in Int
      BY <2>3, <2>4
    <3> HIDE DEF x, y
    <3>2. x % Prime = 1
      BY <1>1, <2>4, <3>1, ModuloUnique
    <3> QED BY <3>2 DEF x
  <2> QED BY <2>1, <2>5 DEF a, Number
<1> QED BY <1>7 DEF Reciprocal
-----------------------------------------------------------------------------
(* Sums.  The fold sums the values of S by taking one element at a time.   *)

Some(s) == CHOOSE x \in s : TRUE

IsSum(f, values, S) ==
  f = [s \in SUBSET S |-> IF s = {} THEN 0 ELSE values[Some(s)] + f[s \ {Some(s)}]]

LEMMA SomeType ==
  ASSUME NEW S, IsFiniteSet(S), NEW s \in SUBSET S, s # {}
  PROVE  /\ Some(s) \in s /\ s \ {Some(s)} \in SUBSET S
         /\ Cardinality(s) \in Nat \ {0}
         /\ Cardinality(s \ {Some(s)}) = Cardinality(s) - 1
<1>1. Some(s) \in s
  BY DEF Some
<1>2. IsFiniteSet(s) /\ Cardinality(s) \in Nat
  BY FS_Subset, FS_CardinalityType
<1>3. Cardinality(s) # 0
  BY <1>2, FS_EmptySet
<1> QED BY <1>1, <1>2, <1>3, FS_RemoveElement

LEMMA SumExists ==
  ASSUME NEW S, IsFiniteSet(S), NEW values, \A u \in S : values[u] \in Nat
  PROVE  \E f \in [SUBSET S -> Nat] : IsSum(f, values, S)
<1> DEFINE Small(n) == {s \in SUBSET S : Cardinality(s) <= n}
           Step(f, s) == IF s = {} THEN 0 ELSE values[Some(s)] + f[s \ {Some(s)}]
           P == {n \in Nat : \E f \in [Small(n) -> Nat] : \A s \in Small(n) : f[s] = Step(f, s)}
<1>1. 0 \in P
  <2>1. \A s \in Small(0) : s = {}
    <3> SUFFICES ASSUME NEW s \in Small(0), s # {} PROVE FALSE
      OBVIOUS
    <3>1. Cardinality(s) \in Nat \ {0}
      BY SomeType
    <3> QED BY <3>1
  <2> DEFINE f == [s \in Small(0) |-> 0]
  <2>2. f \in [Small(0) -> Nat] /\ \A s \in Small(0) : f[s] = Step(f, s)
    BY <2>1
  <2> QED BY <2>2
<1>2. ASSUME NEW n \in Nat, n \in P PROVE n + 1 \in P
  <2>1. PICK f \in [Small(n) -> Nat] : \A s \in Small(n) : f[s] = Step(f, s)
    BY <1>2
  <2> DEFINE g == [s \in Small(n + 1) |-> Step(f, s)]
  <2>2. ASSUME NEW s \in Small(n + 1), s # {}
        PROVE  s \ {Some(s)} \in Small(n) /\ s \ {Some(s)} \in Small(n + 1) /\ values[Some(s)] \in Nat
    BY <2>2, SomeType
  <2>3. g \in [Small(n + 1) -> Nat]
    BY <2>1, <2>2
  <2>4. \A s \in Small(n) : g[s] = f[s]
    <3> SUFFICES ASSUME NEW s \in Small(n) PROVE g[s] = f[s]
      OBVIOUS
    <3>1. s \in Small(n + 1)
      <4>1. Cardinality(s) \in Nat
        BY FS_Subset, FS_CardinalityType
      <4> QED BY <4>1
    <3> QED BY <2>1, <3>1
  <2>5. \A s \in Small(n + 1) : g[s] = Step(g, s)
    <3> SUFFICES ASSUME NEW s \in Small(n + 1) PROVE g[s] = Step(g, s)
      OBVIOUS
    <3>1. CASE s = {}
      BY <3>1
    <3>2. CASE s # {}
      <4>1. g[s \ {Some(s)}] = f[s \ {Some(s)}]
        BY <2>2, <2>4, <3>2
      <4>2. g[s] = values[Some(s)] + f[s \ {Some(s)}]
        BY <3>2
      <4> HIDE DEF g
      <4> QED BY <3>2, <4>1, <4>2
    <3> QED BY <3>1, <3>2
  <2>6. \E h \in [Small(n + 1) -> Nat] : \A s \in Small(n + 1) : h[s] = Step(h, s)
    <3> HIDE DEF g
    <3> QED BY <2>3, <2>5
  <2> HIDE DEF Small, Step
  <2> QED BY <2>6
<1>3. Cardinality(S) \in Nat
  BY FS_CardinalityType
<1>4. Cardinality(S) \in P
  <2> HIDE DEF P
  <2> QED BY <1>1, <1>2, <1>3, ByNaturals
<1>5. Small(Cardinality(S)) = SUBSET S
  <2>1. \A s \in SUBSET S : Cardinality(s) <= Cardinality(S)
    BY FS_Subset
  <2> QED BY <2>1
<1>6. PICK f \in [SUBSET S -> Nat] : \A s \in SUBSET S : f[s] = Step(f, s)
  BY <1>4, <1>5
<1>7. IsSum(f, values, S)
  BY <1>6 DEF IsSum
<1> QED BY <1>7

LEMMA SumUnique ==
  ASSUME NEW S, IsFiniteSet(S), NEW f, NEW g, NEW values, NEW others,
         IsSum(f, values, S), IsSum(g, others, S), \A u \in S : values[u] = others[u]
  PROVE  f[S] = g[S]
<1> DEFINE Bad == {s \in SUBSET S : f[s] # g[s]}
           Sizes == {Cardinality(s) : s \in Bad}
<1>0. \A s \in SUBSET S :
        /\ f[s] = IF s = {} THEN 0 ELSE values[Some(s)] + f[s \ {Some(s)}]
        /\ g[s] = IF s = {} THEN 0 ELSE others[Some(s)] + g[s \ {Some(s)}]
  <2>1. \A s \in SUBSET S : f[s] = IF s = {} THEN 0 ELSE values[Some(s)] + f[s \ {Some(s)}]
    BY DEF IsSum
  <2>2. \A s \in SUBSET S : g[s] = IF s = {} THEN 0 ELSE others[Some(s)] + g[s \ {Some(s)}]
    BY DEF IsSum
  <2> QED BY <2>1, <2>2
<1> SUFFICES ASSUME S \in Bad PROVE FALSE
  OBVIOUS
<1>1. Sizes \in SUBSET Nat /\ Sizes # {}
  BY FS_Subset, FS_CardinalityType
<1>2. PICK k \in Sizes : \A m \in Sizes : k <= m
  <2> HIDE DEF Sizes
  <2> QED BY <1>1, LeastNatural
<1>3. PICK s \in Bad : k = Cardinality(s)
  BY <1>2
<1>4. s # {}
  BY <1>0, <1>3
<1>5. Some(s) \in S /\ s \ {Some(s)} \in SUBSET S /\ Cardinality(s \ {Some(s)}) < k
  BY <1>3, <1>4, SomeType
<1>6. s \ {Some(s)} \notin Bad
  <2> SUFFICES ASSUME s \ {Some(s)} \in Bad PROVE FALSE
    OBVIOUS
  <2>1. Cardinality(s \ {Some(s)}) \in Sizes
    OBVIOUS
  <2>2. k \in Nat /\ Cardinality(s \ {Some(s)}) \in Nat
    BY <1>1, <2>1
  <2> HIDE DEF Sizes, Bad
  <2> QED BY <1>2, <1>5, <2>1, <2>2
<1>7. f[s \ {Some(s)}] = g[s \ {Some(s)}]
  BY <1>5, <1>6
<1>8. f[s] = g[s]
  <2> HIDE DEF Bad
  <2> QED BY <1>0, <1>4, <1>5, <1>7
<1> QED BY <1>3, <1>8

LEMMA SumOverType ==
  ASSUME NEW S, IsFiniteSet(S), NEW values, \A u \in S : values[u] \in Nat
  PROVE  /\ SumOver(values, S) \in Nat
         /\ S = {} => SumOver(values, S) = 0
         /\ \A others : (\A u \in S : values[u] = others[u])
                        => SumOver(others, S) = SumOver(values, S)
<1>1. ASSUME NEW other PROVE SumOver(other, S) = (CHOOSE f : IsSum(f, other, S))[S]
  BY DEF SumOver, MapThenSumSet, MapThenFoldSet, IsSum, Some
<1>2. PICK f \in [SUBSET S -> Nat] : IsSum(f, values, S)
  BY SumExists
<1>3. ASSUME NEW others, \A u \in S : values[u] = others[u]
      PROVE  SumOver(others, S) = f[S]
  <2>1. \E g : IsSum(g, others, S)
    <3>1. \A u \in S : others[u] \in Nat
      BY <1>3
    <3> QED BY <3>1, SumExists
  <2>2. IsSum(CHOOSE g : IsSum(g, others, S), others, S)
    BY <2>1
  <2>3. (CHOOSE g : IsSum(g, others, S))[S] = f[S]
    BY <1>2, <1>3, <2>2, SumUnique
  <2> QED BY <1>1, <2>3
<1>4. SumOver(values, S) = f[S]
  BY <1>3
<1>5. S = {} => f[S] = 0
  BY <1>2 DEF IsSum
<1> QED BY <1>2, <1>3, <1>4, <1>5
-----------------------------------------------------------------------------
(* Ranks.                                                                  *)

Ranks == [Vertex -> Rank]

LEMMA GraphType ==
  ASSUME graph \subseteq Vertex \X Vertex, NEW v \in Vertex
  PROVE  /\ In(v) \subseteq Vertex /\ Out(v) \subseteq Vertex
         /\ IsFiniteSet(In(v)) /\ IsFiniteSet(Out(v))
         /\ Cardinality(Out(v)) \in Nat /\ Cardinality(Out(v)) < Prime
         /\ Out(v) # {} => Cardinality(Out(v)) \in 1 .. Prime - 1
<1>1. In(v) \subseteq Vertex /\ Out(v) \subseteq Vertex /\ IsFiniteSet(Vertex)
  BY PageRankAssumption DEF In, Out
<1>2. IsFiniteSet(In(v)) /\ IsFiniteSet(Out(v)) /\ Cardinality(Out(v)) <= Cardinality(Vertex)
  BY <1>1, FS_Subset
<1>3. Cardinality(Out(v)) \in Nat /\ Cardinality(Vertex) \in Nat
  BY <1>1, <1>2, FS_CardinalityType
<1>4. Out(v) # {} => Cardinality(Out(v)) # 0
  BY <1>2, FS_EmptySet
<1> HIDE DEF Vertex
<1> QED BY <1>1, <1>2, <1>3, <1>4, PageRankAssumption, PrimeType

LEMMA ScaledType ==
  ASSUME graph \subseteq Vertex \X Vertex, NEW v \in Vertex, NEW x \in Rank
  PROVE  Scaled(v, x) \in Rank
<1> SUFFICES ASSUME x # Infinite, Out(v) # {}
             PROVE  (x * Reciprocal(Cardinality(Out(v)))) % Prime \in Number
  BY DEF Scaled, Rank
<1>1. x \in Number /\ Reciprocal(Cardinality(Out(v))) \in Number
  BY GraphType, ReciprocalType DEF Rank
<1> DEFINE r == Reciprocal(Cardinality(Out(v)))
<1>2. x \in Int /\ r \in Int
  BY <1>1, PrimeType DEF Number
<1> HIDE DEF r
<1>3. x * r \in Int
  BY <1>2
<1>4. (x * r) % Prime \in 0 .. Prime - 1
  BY <1>3, ModuloType, PrimeType
<1> QED BY <1>4 DEF r, Number

LEMMA TeleportType ==
  ASSUME share \in Shares
  PROVE  Teleport \in Number /\ Teleport % Prime = Teleport
<1>1. share \in Int /\ Damping \in Int
  BY PageRankAssumption, PrimeType DEF Number
<1>2. (1 + Prime - Damping) * share \in Int
  BY <1>1, PrimeType
<1>3. Teleport \in 0 .. Prime - 1
  <2> DEFINE x == (1 + Prime - Damping) * share
  <2>1. x \in Int
    BY <1>2
  <2> HIDE DEF x
  <2>2. x % Prime \in 0 .. Prime - 1
    BY <2>1, ModuloType, PrimeType
  <2> QED BY <2>2 DEF x, Teleport
<1>4. Teleport \in Int /\ Teleport = Prime * 0 + Teleport
  BY <1>3, PrimeType
<1>5. Teleport % Prime = Teleport
  BY <1>3, <1>4, ModuloUnique, PrimeType
<1> QED BY <1>3, <1>5 DEF Number

LEMMA DampedType ==
  ASSUME share \in Shares, NEW S \in SUBSET Vertex, NEW values, \A u \in S : values[u] \in Rank
  PROVE  /\ Damped(values, S) \in Rank
         /\ S = {} => Damped(values, S) = Teleport
         /\ \A others : (\A u \in S : values[u] = others[u])
                        => Damped(others, S) = Damped(values, S)
<1> DEFINE Bad(f) == \E u \in S : f[u] = Infinite
<1>1. IsFiniteSet(S)
  BY FS_Subset, PageRankAssumption
<1>2. ASSUME NEW others, \A u \in S : values[u] = others[u]
      PROVE  Bad(others) <=> Bad(values)
  BY <1>2
<1>3. CASE Bad(values)
  BY <1>2, <1>3 DEF Damped, Rank
<1>4. CASE ~Bad(values)
  <2> DEFINE Total(f) == SumOver(f, S)
             Final(t) == (Teleport + Damping * t) % Prime
  <2>1. \A u \in S : values[u] \in Nat
    BY <1>4, PrimeType DEF Rank, Number
  <2>2. /\ Total(values) \in Nat
        /\ S = {} => Total(values) = 0
        /\ \A others : (\A u \in S : values[u] = others[u]) => Total(others) = Total(values)
    BY <1>1, <2>1, SumOverType
  <2>3. Damped(values, S) = Final(Total(values))
    BY <1>4 DEF Damped
  <2>4. ASSUME NEW others, \A u \in S : values[u] = others[u]
        PROVE  Damped(others, S) = Final(Total(others))
    BY <1>2, <1>4, <2>4 DEF Damped
  <2> HIDE DEF Total
  <2>5. Final(Total(values)) \in Number
    <3> DEFINE x == Teleport + Damping * Total(values)
    <3>1. x \in Int
      BY <2>2, TeleportType, PageRankAssumption, PrimeType DEF Number
    <3> HIDE DEF x
    <3>2. x % Prime \in 0 .. Prime - 1
      BY <3>1, ModuloType, PrimeType
    <3> QED BY <3>2 DEF x, Number
  <2>6. Final(0) = Teleport
    <3>1. Teleport + Damping * 0 = Teleport
      BY TeleportType, PageRankAssumption, PrimeType DEF Number
    <3> QED BY <3>1, TeleportType
  <2> HIDE DEF Final, Bad
  <2> QED BY <2>2, <2>3, <2>4, <2>5, <2>6 DEF Rank
<1> QED BY <1>3, <1>4

(* One round of power iteration.                                           *)
Iterated(x) ==
  LET scaled == [v \in Vertex |-> Scaled(v, x[v])]
  IN  [v \in Vertex |-> Damped(scaled, In(v))]

LEMMA IteratedType ==
  ASSUME graph \subseteq Vertex \X Vertex, share \in Shares, NEW x \in Ranks
  PROVE  Iterated(x) \in Ranks
<1> DEFINE scaled == [v \in Vertex |-> Scaled(v, x[v])]
<1>1. \A v \in Vertex : scaled[v] \in Rank
  BY ScaledType DEF Ranks
<1> HIDE DEF scaled
<1>2. \A v \in Vertex : Damped(scaled, In(v)) \in Rank
  BY <1>1, DampedType, GraphType
<1> QED BY <1>2 DEF Iterated, scaled, Ranks

LEMMA IterateDef ==
  ASSUME graph \subseteq Vertex \X Vertex, share \in Shares
  PROVE  /\ Iterate \in [0 .. Supersteps -> Ranks]
         /\ Iterate[0] = [v \in Vertex |-> share]
         /\ \A k \in 1 .. Supersteps : Iterate[k] = Iterated(Iterate[k - 1])
<1> DEFINE base == [v \in Vertex |-> share]
           step == [x \in Ranks |-> Iterated(x)]
           Body(f) == [k \in 0 .. Supersteps |-> IF k = 0 THEN base ELSE Iterated(f[k - 1])]
<1>1. base \in Ranks /\ step \in [Ranks -> Ranks] /\ Supersteps \in Nat
  BY IteratedType, PageRankAssumption DEF Ranks, Rank
<1>2. Recursive(Supersteps, Ranks, base, step)
  <2> HIDE DEF base, step
  <2> QED BY <1>1, Recursion
<1>3. PICK g : IsRecursive(g, Supersteps, Ranks, base, step)
  BY <1>2 DEF Recursive
<1>4. g \in [0 .. Supersteps -> Ranks] /\ g[0] = base /\ \A k \in 1 .. Supersteps : g[k] = step[g[k - 1]]
  BY <1>3 DEF IsRecursive
<1>5. ASSUME NEW k \in 1 .. Supersteps PROVE g[k - 1] \in Ranks /\ g[k] = Iterated(g[k - 1])
  <2>1. k - 1 \in 0 .. Supersteps
    BY <1>1
  <2>2. g[k - 1] \in Ranks
    BY <1>4, <2>1
  <2> QED BY <1>4, <2>2
<1>6. g = Body(g)
  <2> HIDE DEF base
  <2>1. \A k \in 0 .. Supersteps : g[k] = Body(g)[k]
    BY <1>1, <1>4, <1>5
  <2> QED BY <1>4, <2>1
<1>7. Iterate = CHOOSE f : f = Body(f)
  BY DEF Iterate, Iterated
<1>8. Iterate = Body(Iterate)
  BY <1>6, <1>7
<1>9. Iterate[0] = base /\ \A k \in 1 .. Supersteps : Iterate[k] = Iterated(Iterate[k - 1])
  BY <1>1, <1>8
<1>10. \A k \in 0 .. Supersteps : Iterate[k] \in Ranks
  <2> DEFINE P == {k \in Nat : k <= Supersteps => Iterate[k] \in Ranks}
  <2>1. 0 \in P
    BY <1>1, <1>9
  <2>2. ASSUME NEW k \in Nat, k \in P PROVE k + 1 \in P
    <3> SUFFICES ASSUME k + 1 <= Supersteps PROVE Iterate[k + 1] \in Ranks
      OBVIOUS
    <3>1. k + 1 \in 1 .. Supersteps /\ (k + 1) - 1 = k /\ Iterate[k] \in Ranks
      BY <1>1, <2>2
    <3>2. Iterate[k + 1] = Iterated(Iterate[k])
      BY <1>9, <3>1
    <3> QED BY <3>1, <3>2, IteratedType
  <2>3. Nat \subseteq P
    <3> HIDE DEF P
    <3> QED BY <2>1, <2>2, ByNaturals
  <2> QED BY <1>1, <2>3
<1>11. Iterate \in [0 .. Supersteps -> Ranks]
  <2>1. Iterate = [k \in 0 .. Supersteps |-> Iterate[k]]
    BY <1>8
  <2> QED BY <1>10, <2>1
<1> QED BY <1>9, <1>11
-----------------------------------------------------------------------------
(* The inductive invariant.                                                *)

(* An agent has an edge to a vertex of another one.                        *)
Sends(a, b) == a # b /\ \E e \in graph : Owner[e[1]] = a /\ Owner[e[2]] = b
Used(a) == {b \in Agent : Sends(b, a)}
Dest(a) == {b \in Agent : Sends(a, b)}

(* What u notifies for superstep k, and what b tells a of.                 *)
Note(k, u) == Scaled(u, Iterate[k - 1][u])
Told(b, a) == {w \in Vertex : Owner[w] = b /\ a \in NotifyAgents(w)}

(* An agent waits for the next superstep to begin, has begun the one of    *)
(* it, or takes part in none.                                              *)
Behind(a) ==
  \/ sync[a] = "go"
  \/ sync[a] = "none" /\ it[a] = -1 /\ phase[a] \in {"update", "process"}
Inside(a) == sync[a] = "none" /\ it[a] >= 0
Quiet(a) ==
  \/ phase[a] = "idle" \/ sync[a] = "stop"
  \/ sync[a] = "none" /\ it[a] = -1 /\ phase[a] \in {"load", "sync"}
Round(a) == IF Behind(a) THEN it[a] + 1 ELSE it[a]

Working == \A a, b \in Agent : (Behind(a) \/ Inside(a)) /\ Round(a) = Round(b)
Silent == \A a, b \in Agent : Quiet(a) /\ peer[b][a] = <<>>

Values == UNION {[D -> Rank] : D \in SUBSET Vertex}
Message == [it : It, vals : Values]
Nets == [Agent -> [Agent -> Seq(Message)]]
Needs == [Agent -> [It -> Int]]
Copies == [Agent -> [It -> Ranks]]

(* Each agent by itself.                                                   *)
Alone(a) ==
  /\ sync[a] # "none" => phase[a] = "sync"
  /\ sync[a] = "go" => it[a] \in 0 .. Supersteps
  /\ it[a] >= 0 => phase[a] \in {"process", "sync"}
  /\ vote[a] <=> it[a] \in 0 .. Supersteps /\ Mine(a) # {}
  /\ links[a] \subseteq Dest(a) /\ (it[a] >= 0 => links[a] = Dest(a))
  /\ \A v \in Vertex : Owner[v] = a => iteration[v] = IF v \in Mine(a) THEN it[a] + 1 ELSE 0
  /\ phase[a] = "idle" => \A j \in It : needed[a][j] = 0

Exact(k, v) == IF k = 0 THEN Teleport ELSE Iterate[IF k > Supersteps THEN Supersteps ELSE k][v]
Ranked(a) == it[a] >= 0 => \A v \in Mine(a) : pr[v] = Exact(it[a], v)

(* A notification for superstep j is on its way.                           *)
Pending(q, j) == \E i \in DOMAIN q : q[i].it = j

(* The notifications on their way from b to a.                             *)
Right(b, a, m) ==
  /\ 1 <= m.it /\ it[a] < m.it /\ m.it <= it[b] + 1
  /\ DOMAIN m.vals = IF m.it <= Supersteps + 1 THEN Told(b, a) ELSE {}
  /\ \A w \in DOMAIN m.vals : m.vals[w] = Note(m.it, w)
Ordered(q) == \A i, j \in DOMAIN q : i < j => q[i].it < q[j].it
Queued(q, b, a) ==
  /\ q # <<>> => Sends(b, a)
  /\ Ordered(q)
  /\ \A i \in DOMAIN q : Right(b, a, q[i])

Arrived(net, a, j) == {b \in Used(a) : 1 <= j /\ j <= it[b] + 1 /\ ~Pending(net[b][a], j)}
Expected(a, j) == IF 1 <= j /\ j <= it[a] + 1 THEN Cardinality(Used(a)) ELSE 0

(* needed of a counts the agents whose notifications are missing.          *)
Counted(need, net, a) ==
  \A j \in It : need[j] = Expected(a, j) - Cardinality(Arrived(net, a, j))

(* a has the values of the notifications that arrived.                     *)
Due(net, a, k, u) ==
  /\ it[a] < k /\ k <= it[Owner[u]] + 1
  /\ a \in NotifyAgents(u) /\ ~Pending(net[Owner[u]][a], k)
Valued(copies, net, a) ==
  \A k \in 1 .. Supersteps + 1, u \in Vertex : Due(net, a, k, u) => copies[k][u] = Note(k, u)

Sound(need, copies, net) ==
  \A a \in Agent :
    /\ \A b \in Agent : Queued(net[b][a], b, a)
    /\ Counted(need[a], net, a) /\ Valued(copies[a], net, a)

(* Who has begun a superstep misses something until it joins the barrier.  *)
Waiting(a) ==
  it[a] >= 0 => IF phase[a] = "process" THEN needed[a][it[a] + 1] > 0
                                        ELSE needed[a][it[a] + 1] = 0

IInv ==
  /\ TypeOK /\ peer \in Nets
  /\ \A a \in Agent : Alone(a) /\ Ranked(a)
  /\ Silent \/ (Working /\ Sound(needed, vn, peer) /\ \A a \in Agent : Waiting(a))

-----------------------------------------------------------------------------
(* Edges and ranks.                                                        *)

LEMMA EdgeFacts ==
  ASSUME graph \subseteq Vertex \X Vertex, NEW a \in Agent
  PROVE  /\ Mine(a) \subseteq Vertex
         /\ \A v \in Mine(a) : Owner[v] = a
         /\ \A v \in Vertex : v \notin Mine(Owner[v]) => NotifyAgents(v) = {} /\ In(v) = {}
         /\ \A v \in Mine(a) : \A u \in In(v) :
              u \in Vertex /\ a \in NotifyAgents(u) /\ Owner[u] \in Agent
         /\ \A v \in Vertex : \A b \in NotifyAgents(v) :
              b \in Agent /\ v \in Mine(Owner[v]) /\ (b # Owner[v] => Sends(Owner[v], b))
<1>1. Mine(a) \subseteq Vertex /\ \A v \in Mine(a) : Owner[v] = a
  BY DEF Mine
<1>2. \A v \in Vertex : v \notin Mine(Owner[v]) => NotifyAgents(v) = {} /\ In(v) = {}
  BY DEF Mine, NotifyAgents
<1>3. ASSUME NEW v \in Mine(a), NEW u \in In(v)
      PROVE  u \in Vertex /\ a \in NotifyAgents(u) /\ Owner[u] \in Agent
  BY <1>1, <1>3, PageRankAssumption DEF In, Out, NotifyAgents
<1>4. ASSUME NEW v \in Vertex, NEW b \in NotifyAgents(v)
      PROVE  b \in Agent /\ v \in Mine(Owner[v]) /\ (b # Owner[v] => Sends(Owner[v], b))
  <2>1. PICK n \in Out(v) : b = Owner[n]
    BY DEF NotifyAgents
  <2>2. n \in Vertex /\ <<v, n>> \in graph
    BY DEF Out
  <2>3. v \in Mine(Owner[v])
    BY <2>1 DEF Mine
  <2>4. b # Owner[v] => Sends(Owner[v], b)
    <3>1. <<v, n>>[1] = v /\ <<v, n>>[2] = n
      OBVIOUS
    <3> QED BY <2>1, <2>2, <3>1 DEF Sends
  <2> QED BY <2>1, <2>2, <2>3, <2>4, PageRankAssumption
<1> QED BY <1>1, <1>2, <1>3, <1>4

LEMMA SendsFacts ==
  ASSUME graph \subseteq Vertex \X Vertex, NEW a \in Agent
  PROVE  /\ AgentsUsed(a) = Used(a)
         /\ (UNION {NotifyAgents(v) : v \in Mine(a)}) \ {a} = Dest(a)
         /\ ~Sends(a, a)
         /\ IsFiniteSet(Used(a)) /\ Cardinality(Used(a)) \in 0 .. Cardinality(Agent) - 1
<1>1. ~Sends(a, a)
  BY DEF Sends
<1>2. ASSUME NEW b \in Agent, Sends(a, b)
      PROVE  \E v \in Mine(a) : b \in NotifyAgents(v)
  <2>1. PICK e \in graph : Owner[e[1]] = a /\ Owner[e[2]] = b
    BY <1>2 DEF Sends
  <2>2. e[1] \in Vertex /\ e[2] \in Vertex /\ <<e[1], e[2]>> \in graph
    BY <2>1
  <2>3. e[2] \in Out(e[1])
    BY <2>2 DEF Out
  <2> QED BY <2>1, <2>2, <2>3 DEF Mine, NotifyAgents
<1>3. (UNION {NotifyAgents(v) : v \in Mine(a)}) \ {a} = Dest(a)
  <2>1. ASSUME NEW v \in Mine(a), NEW b \in NotifyAgents(v), b # a PROVE b \in Agent /\ Sends(a, b)
    BY <2>1, EdgeFacts
  <2>2. \A b \in Dest(a) : b \in Agent /\ Sends(a, b) /\ b # a
    BY DEF Dest, Sends
  <2> DEFINE U == UNION {NotifyAgents(v) : v \in Mine(a)}
  <2>3. \A b : b \in U <=> \E v \in Mine(a) : b \in NotifyAgents(v)
    OBVIOUS
  <2> HIDE DEF U
  <2>4. \A b : b \in U \ {a} <=> b \in Dest(a)
    <3>1. ASSUME NEW b, b \in U, b # a PROVE b \in Dest(a)
      BY <2>1, <2>3, <3>1 DEF Dest
    <3>2. ASSUME NEW b \in Dest(a) PROVE b \in U /\ b # a
      BY <1>2, <2>2, <2>3
    <3> QED BY <3>1, <3>2
  <2>5. U \ {a} = Dest(a)
    BY <2>4
  <2> QED BY <2>5 DEF U
<1>4. AgentsUsed(a) = Used(a)
  <2>1. ASSUME NEW b \in Agent, Sends(b, a)
        PROVE  b # a /\ \E v \in Mine(a) : \E u \in In(v) : Owner[u] = b
    <3>1. PICK e \in graph : Owner[e[1]] = b /\ Owner[e[2]] = a
      BY <2>1 DEF Sends
    <3>2. e[1] \in Vertex /\ e[2] \in Vertex /\ <<e[1], e[2]>> \in graph
      BY <3>1
    <3>3. e[1] \in In(e[2])
      BY <3>2 DEF In
    <3>4. e[2] \in Mine(a)
      BY <3>1, <3>2, <3>3 DEF Mine
    <3> QED BY <2>1, <3>1, <3>3, <3>4 DEF Sends
  <2>2. ASSUME NEW v \in Mine(a), NEW u \in In(v), Owner[u] # a
        PROVE  Owner[u] \in Agent /\ Sends(Owner[u], a)
    BY <2>2, EdgeFacts
  <2>3. AgentsUsed(a) \subseteq Used(a)
    BY <2>2 DEF AgentsUsed, Used
  <2>4. Used(a) \subseteq AgentsUsed(a)
    <3> SUFFICES ASSUME NEW b \in Used(a) PROVE b \in AgentsUsed(a)
      OBVIOUS
    <3>1. b # a /\ \E v \in Mine(a) : \E u \in In(v) : Owner[u] = b
      BY <2>1 DEF Used
    <3> QED BY <3>1 DEF AgentsUsed
  <2> QED BY <2>3, <2>4
<1>5. Used(a) \subseteq Agent \ {a} /\ IsFiniteSet(Agent)
  BY <1>1, PageRankAssumption DEF Used
<1>6. IsFiniteSet(Agent \ {a}) /\ Cardinality(Agent \ {a}) = Cardinality(Agent) - 1
  BY <1>5, FS_RemoveElement
<1>7. IsFiniteSet(Used(a)) /\ Cardinality(Used(a)) \in Nat /\ Cardinality(Used(a)) <= Cardinality(Agent \ {a})
  BY <1>5, <1>6, FS_Subset, FS_CardinalityType
<1>8. Cardinality(Agent) \in Nat
  BY <1>5, FS_CardinalityType
<1> QED BY <1>1, <1>3, <1>4, <1>6, <1>7, <1>8

LEMMA NoteType ==
  ASSUME graph \subseteq Vertex \X Vertex, share \in Shares,
         NEW k \in 1 .. Supersteps + 1, NEW u \in Vertex
  PROVE  Note(k, u) \in Rank
<1>1. k - 1 \in 0 .. Supersteps
  BY PageRankAssumption
<1>2. Iterate[k - 1][u] \in Rank
  BY <1>1, IterateDef DEF Ranks
<1> QED BY <1>2, ScaledType DEF Note

(* A vertex that runs with the notifications for its superstep has the     *)
(* rank of that round of power iteration.                                  *)
LEMMA RunExact ==
  ASSUME graph \subseteq Vertex \X Vertex, share \in Shares,
         NEW v \in Vertex, NEW copies, iteration[v] \in 0 .. Supersteps,
         iteration[v] > 0 => \A u \in In(v) : copies[u] = Note(iteration[v], u)
  PROVE  /\ Run(v, copies).notify = TRUE
         /\ Run(v, copies).pr = Exact(iteration[v], v)
         /\ Run(v, copies).scaled = Note(iteration[v] + 1, v)
<1> DEFINE k == iteration[v]
<1>1. Supersteps \in Nat /\ ~(k > Supersteps)
  BY PageRankAssumption
<1>2. CASE k = 0
  <2>1. Damped(copies, {}) = Teleport
    BY DampedType
  <2>2. Iterate[0][v] = share
    BY IterateDef
  <2> QED BY <1>1, <1>2, <2>1, <2>2 DEF Run, Exact, Note
<1>3. CASE k > 0
  <2> DEFINE scaled == [w \in Vertex |-> Scaled(w, Iterate[k - 1][w])]
  <2>1. k \in 1 .. Supersteps + 1 /\ k \in 1 .. Supersteps
    BY <1>1, <1>3
  <2>2. \A u \in In(v) : u \in Vertex /\ copies[u] \in Rank /\ scaled[u] = copies[u]
    BY <1>3, <2>1, NoteType, GraphType DEF Note
  <2>3. Damped(scaled, In(v)) = Damped(copies, In(v))
    <3> HIDE DEF scaled
    <3>1. In(v) \in SUBSET Vertex /\ \A u \in In(v) : copies[u] \in Rank /\ copies[u] = scaled[u]
      BY <2>2
    <3> QED BY <3>1, DampedType
  <2>4. Iterate[k][v] = Damped(scaled, In(v))
    BY <2>1, IterateDef DEF Iterated
  <2>5. Iterate[k][v] = Damped(copies, In(v))
    BY <2>3, <2>4
  <2> QED BY <1>1, <1>3, <2>5 DEF Run, Exact, Note
<1>4. k = 0 \/ k > 0
  BY <1>1
<1> QED BY <1>2, <1>3, <1>4
-----------------------------------------------------------------------------
(* Queues of notifications.                                                *)

LEMMA TakeFirst ==
  ASSUME NEW q \in Seq(Message), q # <<>>, Ordered(q)
  PROVE  /\ Head(q) \in Message /\ Tail(q) \in Seq(Message) /\ Ordered(Tail(q))
         /\ 1 \in DOMAIN q /\ Head(q) = q[1]
         /\ \A i \in DOMAIN Tail(q) : \E j \in DOMAIN q : Tail(q)[i] = q[j] /\ q[1].it < q[j].it
         /\ \A k : Pending(Tail(q), k) <=> Pending(q, k) /\ k # Head(q).it
<1>1. /\ Head(q) \in Message /\ Head(q) = q[1] /\ Tail(q) \in Seq(Message)
      /\ Len(q) \in Nat \ {0} /\ DOMAIN q = 1 .. Len(q)
      /\ DOMAIN Tail(q) = 1 .. Len(q) - 1
      /\ \A i \in 1 .. Len(q) - 1 : Tail(q)[i] = q[i + 1]
  BY TailPlaces
<1>2. Ordered(Tail(q))
  <2> SUFFICES ASSUME NEW i \in DOMAIN Tail(q), NEW j \in DOMAIN Tail(q), i < j
               PROVE  Tail(q)[i].it < Tail(q)[j].it
    BY DEF Ordered
  <2>1. i + 1 \in DOMAIN q /\ j + 1 \in DOMAIN q /\ i + 1 < j + 1
    BY <1>1
  <2>2. q[i + 1].it < q[j + 1].it
    BY <2>1 DEF Ordered
  <2> QED BY <1>1, <2>2
<1>3. 1 \in DOMAIN q
  BY <1>1
<1>4. \A i \in DOMAIN q : i # 1 => q[1].it < q[i].it
  BY <1>1, <1>3 DEF Ordered
<1>5. ASSUME NEW i \in DOMAIN Tail(q)
      PROVE  \E j \in DOMAIN q : Tail(q)[i] = q[j] /\ q[1].it < q[j].it
  <2>1. i + 1 \in DOMAIN q /\ i + 1 # 1 /\ Tail(q)[i] = q[i + 1]
    BY <1>1
  <2> QED BY <1>4, <2>1
<1>6. \A i \in DOMAIN q : q[i].it \in Int
  <2>1. \A i \in DOMAIN q : q[i] \in Message
    BY <1>1
  <2>2. \A i \in DOMAIN q : q[i].it \in It
    BY <2>1 DEF Message
  <2> QED BY <2>2, PageRankAssumption DEF It
<1>7. ASSUME NEW k, Pending(q, k), k # Head(q).it PROVE Pending(Tail(q), k)
  <2>1. PICK i \in DOMAIN q : q[i].it = k
    BY <1>7 DEF Pending
  <2>2. i # 1
    BY <1>1, <1>7, <2>1
  <2>3. i - 1 \in DOMAIN Tail(q) /\ Tail(q)[i - 1] = q[i]
    BY <1>1, <2>2
  <2> QED BY <2>1, <2>3 DEF Pending
<1>8. ASSUME NEW k, Pending(Tail(q), k) PROVE Pending(q, k) /\ k # Head(q).it
  <2>1. PICK i \in DOMAIN Tail(q) : Tail(q)[i].it = k
    BY <1>8 DEF Pending
  <2>2. PICK j \in DOMAIN q : Tail(q)[i] = q[j] /\ q[1].it < q[j].it
    BY <1>5
  <2>3. q[1].it \in Int /\ q[j].it \in Int
    BY <1>3, <1>6
  <2>4. q[j].it = k /\ k # Head(q).it
    BY <1>1, <2>1, <2>2, <2>3
  <2> QED BY <2>4 DEF Pending
<1> QED BY <1>1, <1>2, <1>3, <1>5, <1>7, <1>8

LEMMA PutLast ==
  ASSUME NEW q \in Seq(Message), NEW m \in Message, Ordered(q),
         \A i \in DOMAIN q : q[i].it < m.it
  PROVE  /\ Append(q, m) \in Seq(Message) /\ Ordered(Append(q, m))
         /\ \A i \in DOMAIN Append(q, m) :
              Append(q, m)[i] = m \/ \E j \in DOMAIN q : Append(q, m)[i] = q[j]
         /\ \A k : Pending(Append(q, m), k) <=> Pending(q, k) \/ k = m.it
<1> DEFINE p == Append(q, m)
<1>1. /\ p \in Seq(Message) /\ Len(q) \in Nat /\ DOMAIN q = 1 .. Len(q)
      /\ DOMAIN p = 1 .. Len(q) + 1
      /\ \A i \in 1 .. Len(q) : p[i] = q[i]
      /\ p[Len(q) + 1] = m
  BY AppendPlaces
<1> HIDE DEF p
<1>2. Ordered(p)
  <2> SUFFICES ASSUME NEW i \in DOMAIN p, NEW j \in DOMAIN p, i < j PROVE p[i].it < p[j].it
    BY DEF Ordered
  <2>1. i \in DOMAIN q /\ p[i] = q[i]
    BY <1>1
  <2>2. CASE j = Len(q) + 1
    BY <1>1, <2>1, <2>2
  <2>3. CASE j # Len(q) + 1
    <3>1. j \in DOMAIN q /\ p[j] = q[j]
      BY <1>1, <2>3
    <3> QED BY <2>1, <3>1 DEF Ordered
  <2> QED BY <2>2, <2>3
<1>3. \A i \in DOMAIN p : p[i] = m \/ \E j \in DOMAIN q : p[i] = q[j]
  <2> SUFFICES ASSUME NEW i \in DOMAIN p, i # Len(q) + 1 PROVE \E j \in DOMAIN q : p[i] = q[j]
    BY <1>1
  <2>1. i \in DOMAIN q /\ p[i] = q[i]
    BY <1>1
  <2> QED BY <2>1
<1>4. ASSUME NEW k PROVE Pending(p, k) <=> Pending(q, k) \/ k = m.it
  <2>1. Pending(p, k) => Pending(q, k) \/ k = m.it
    BY <1>3 DEF Pending
  <2>2. k = m.it => Pending(p, k)
    <3>1. Len(q) + 1 \in DOMAIN p
      BY <1>1
    <3> QED BY <1>1, <3>1 DEF Pending
  <2>3. Pending(q, k) => Pending(p, k)
    <3> SUFFICES ASSUME NEW i \in DOMAIN q, q[i].it = k PROVE Pending(p, k)
      BY DEF Pending
    <3>1. i \in DOMAIN p /\ p[i] = q[i]
      BY <1>1
    <3> QED BY <3>1 DEF Pending
  <2> QED BY <2>1, <2>2, <2>3
<1> QED BY <1>1, <1>2, <1>3, <1>4 DEF p

LEMMA NonePending ==
  ASSUME NEW k
  PROVE  ~Pending(<<>>, k) /\ Ordered(<<>>)
BY DEF Pending, Ordered

-----------------------------------------------------------------------------
(* Receiving.                                                              *)

LEMMA ArrivedType ==
  ASSUME graph \subseteq Vertex \X Vertex, NEW a \in Agent, NEW net, NEW j
  PROVE  /\ Arrived(net, a, j) \subseteq Used(a) /\ IsFiniteSet(Arrived(net, a, j))
         /\ Cardinality(Arrived(net, a, j)) \in 0 .. Cardinality(Used(a))
         /\ Cardinality(Arrived(net, a, j)) = Cardinality(Used(a)) => Arrived(net, a, j) = Used(a)
<1>1. Arrived(net, a, j) \subseteq Used(a)
  BY DEF Arrived
<1>2. IsFiniteSet(Used(a)) /\ Cardinality(Used(a)) \in Nat
  BY SendsFacts, FS_CardinalityType
<1> QED BY <1>1, <1>2, FS_Subset, FS_CardinalityType

LEMMA CountedType ==
  ASSUME graph \subseteq Vertex \X Vertex, it \in [Agent -> Int], NEW a \in Agent,
         NEW net, NEW need, Counted(need, net, a), NEW j \in It
  PROVE  need[j] \in 1 - Cardinality(Agent) .. Cardinality(Agent) - 1
<1>1. /\ Cardinality(Used(a)) \in 0 .. Cardinality(Agent) - 1
      /\ Cardinality(Arrived(net, a, j)) \in 0 .. Cardinality(Used(a))
      /\ Cardinality(Agent) \in Nat
  BY SendsFacts, ArrivedType, PageRankAssumption, FS_CardinalityType
<1>2. Expected(a, j) \in {0, Cardinality(Used(a))}
  BY DEF Expected
<1> QED BY <1>1, <1>2 DEF Counted

(* A notification is taken: one less is missing, and its values are known. *)
Taken(net, b, a) == [net EXCEPT ![b][a] = Tail(@)]
Missed(need, a, m) == [need EXCEPT ![a] = [need[a] EXCEPT ![m.it] = @ - 1]]
Noted(copies, a, m) ==
  [copies EXCEPT ![a] = [copies[a] EXCEPT ![m.it] =
     [v \in Vertex |-> IF v \in DOMAIN m.vals THEN m.vals[v] ELSE @[v]]]]

LEMMA MessageType ==
  ASSUME NEW m \in Message
  PROVE  m.it \in It /\ DOMAIN m.vals \subseteq Vertex /\ \A w \in DOMAIN m.vals : m.vals[w] \in Rank
<1>1. m.it \in It /\ m.vals \in Values
  BY DEF Message
<1>2. PICK D \in SUBSET Vertex : m.vals \in [D -> Rank]
  BY <1>1 DEF Values
<1> QED BY <1>1, <1>2

LEMMA TakenType ==
  ASSUME NEW net \in Nets, NEW need \in Needs, NEW copies \in Copies,
         NEW a \in Agent, NEW b \in Agent, net[b][a] # <<>>, NEW m \in Message
  PROVE  /\ Taken(net, b, a) \in Nets
         /\ \A c, d \in Agent : Taken(net, b, a)[c][d] =
              IF c = b /\ d = a THEN Tail(net[b][a]) ELSE net[c][d]
         /\ Missed(need, a, m) \in Needs
         /\ \A c \in Agent, j \in It : Missed(need, a, m)[c][j] =
              need[c][j] - IF c = a /\ j = m.it THEN 1 ELSE 0
         /\ Noted(copies, a, m) \in Copies
         /\ \A c \in Agent, j \in It, v \in Vertex : Noted(copies, a, m)[c][j][v] =
              IF c = a /\ j = m.it /\ v \in DOMAIN m.vals THEN m.vals[v] ELSE copies[c][j][v]
<1>1. m.it \in It /\ \A w \in DOMAIN m.vals : m.vals[w] \in Rank
  BY MessageType
<1>2. net[b][a] \in Seq(Message) /\ Tail(net[b][a]) \in Seq(Message)
  BY DEF Nets
<1>3. /\ Taken(net, b, a) \in Nets
      /\ \A c, d \in Agent : Taken(net, b, a)[c][d] =
           IF c = b /\ d = a THEN Tail(net[b][a]) ELSE net[c][d]
  BY <1>2 DEF Taken, Nets
<1>4. /\ Missed(need, a, m) \in Needs
      /\ \A c \in Agent, j \in It : Missed(need, a, m)[c][j] =
           need[c][j] - IF c = a /\ j = m.it THEN 1 ELSE 0
  BY <1>1 DEF Missed, Needs
<1> DEFINE new == [v \in Vertex |-> IF v \in DOMAIN m.vals THEN m.vals[v] ELSE copies[a][m.it][v]]
<1>5. new \in Ranks
  BY <1>1 DEF Copies, Ranks
<1>6. Noted(copies, a, m) = [copies EXCEPT ![a] = [copies[a] EXCEPT ![m.it] = new]]
  BY DEF Noted
<1> HIDE DEF new
<1>7. Noted(copies, a, m) \in Copies
  BY <1>1, <1>5, <1>6 DEF Copies
<1>8. ASSUME NEW c \in Agent, NEW j \in It
      PROVE  Noted(copies, a, m)[c][j] = IF c = a /\ j = m.it THEN new ELSE copies[c][j]
  BY <1>1, <1>6 DEF Copies
<1>9. \A v \in Vertex : new[v] = IF v \in DOMAIN m.vals THEN m.vals[v] ELSE copies[a][m.it][v]
  BY DEF new
<1>10. \A c \in Agent, j \in It, v \in Vertex : Noted(copies, a, m)[c][j][v] =
              IF c = a /\ j = m.it /\ v \in DOMAIN m.vals THEN m.vals[v] ELSE copies[c][j][v]
  BY <1>8, <1>9
<1> QED BY <1>3, <1>4, <1>7, <1>10
LEMMA Receive ==
  ASSUME graph \subseteq Vertex \X Vertex, it \in [Agent -> Int],
         NEW net \in Nets, NEW need \in Needs, NEW copies \in Copies,
         Sound(need, copies, net),
         NEW a \in Agent, NEW b \in Agent, net[b][a] # <<>>, NEW m, m = Head(net[b][a])
  PROVE  /\ Sound(Missed(need, a, m), Noted(copies, a, m), Taken(net, b, a))
         /\ m \in Message /\ Right(b, a, m)
<1> DEFINE q == net[b][a]
           after == Taken(net, b, a)
           left == Missed(need, a, m)
           known == Noted(copies, a, m)
<1>1. q \in Seq(Message) /\ Queued(q, b, a) /\ Sends(b, a) /\ Ordered(q)
  BY DEF Nets, Sound, Queued
<1>2. /\ m \in Message /\ Tail(q) \in Seq(Message) /\ Ordered(Tail(q))
      /\ 1 \in DOMAIN q /\ m = q[1]
      /\ \A i \in DOMAIN Tail(q) : \E j \in DOMAIN q : Tail(q)[i] = q[j]
      /\ \A k : Pending(Tail(q), k) <=> Pending(q, k) /\ k # m.it
  <2> HIDE DEF q
  <2> QED BY <1>1, TakeFirst DEF q
<1>3. Right(b, a, m) /\ Pending(q, m.it)
  BY <1>1, <1>2 DEF Queued, Pending
<1>4. /\ after \in Nets /\ left \in Needs /\ known \in Copies
      /\ \A c, d \in Agent : after[c][d] = IF c = b /\ d = a THEN Tail(q) ELSE net[c][d]
      /\ \A c \in Agent, j \in It : left[c][j] = need[c][j] - IF c = a /\ j = m.it THEN 1 ELSE 0
      /\ \A c \in Agent, j \in It, v \in Vertex : known[c][j][v] =
              IF c = a /\ j = m.it /\ v \in DOMAIN m.vals THEN m.vals[v] ELSE copies[c][j][v]
  <2>1. m \in Message
    BY <1>2
  <2> QED BY <2>1, TakenType
<1> HIDE DEF after, left, known, q
<1>5. \A c, d \in Agent : Queued(after[c][d], c, d)
  <2>1. Queued(Tail(q), b, a)
    BY <1>1, <1>2 DEF Queued
  <2>2. \A c, d \in Agent : Queued(net[c][d], c, d)
    BY DEF Sound
  <2> QED BY <1>4, <2>1, <2>2
<1>6. \A j : \A c, d \in Agent :
        Pending(after[c][d], j) <=> Pending(net[c][d], j) /\ ~(c = b /\ d = a /\ j = m.it)
  BY <1>2, <1>4 DEF q
<1>7. b \in Used(a) /\ m.it \in It /\ 1 <= m.it /\ m.it <= it[b] + 1
  BY <1>1, <1>2, <1>3, MessageType DEF Used, Right
<1>8. ASSUME NEW d \in Agent, NEW j \in It
      PROVE  left[d][j] = Expected(d, j) - Cardinality(Arrived(after, d, j))
  <2>1. need[d][j] = Expected(d, j) - Cardinality(Arrived(net, d, j))
    BY DEF Sound, Counted
  <2>2. CASE d = a /\ j = m.it
    <3>1. b \notin Arrived(net, a, j)
      BY <1>3, <2>2 DEF Arrived, q
    <3>2. Arrived(after, a, j) = Arrived(net, a, j) \cup {b}
      <4>1. b \in Arrived(after, a, j)
        BY <1>6, <1>7, <2>2 DEF Arrived
      <4>2. \A c \in Used(a) \ {b} : Pending(after[c][a], j) <=> Pending(net[c][a], j)
        BY <1>6 DEF Used
      <4>3. \A c : c \in Arrived(after, a, j) <=> c \in Arrived(net, a, j) \/ c = b
        BY <4>1, <4>2, <3>1 DEF Arrived
      <4> QED BY <4>3
    <3>3. /\ IsFiniteSet(Arrived(net, a, j)) /\ Cardinality(Arrived(net, a, j)) \in Nat
          /\ Cardinality(Arrived(after, a, j)) = Cardinality(Arrived(net, a, j)) + 1
      BY <3>1, <3>2, ArrivedType, FS_AddElement, FS_CardinalityType
    <3>4. Expected(a, j) \in Int
      BY SendsFacts, FS_CardinalityType DEF Expected
    <3>5. left[a][j] = need[a][j] - 1
      BY <1>4, <2>2
    <3> QED BY <2>1, <2>2, <3>3, <3>4, <3>5
  <2>3. CASE ~(d = a /\ j = m.it)
    <3>1. Arrived(after, d, j) = Arrived(net, d, j)
      BY <1>6, <2>3 DEF Arrived, Used
    <3>2. need[d][j] \in Int
      BY DEF Needs
    <3>3. left[d][j] = need[d][j]
      BY <1>4, <2>3, <3>2
    <3> QED BY <2>1, <3>1, <3>3
  <2> QED BY <2>2, <2>3
<1>9. ASSUME NEW d \in Agent, NEW k \in 1 .. Supersteps + 1, NEW u \in Vertex, Due(after, d, k, u)
      PROVE  known[d][k][u] = Note(k, u)
  <2>1. k \in It /\ k <= Supersteps + 1 /\ Owner[u] \in Agent
    BY PageRankAssumption DEF It
  <2>2. CASE d = a /\ k = m.it /\ u \in DOMAIN m.vals
    <3>1. m.vals[u] = Note(k, u)
      BY <1>3, <2>2 DEF Right
    <3> QED BY <1>4, <2>1, <2>2, <3>1
  <2>3. CASE ~(d = a /\ k = m.it /\ u \in DOMAIN m.vals)
    <3>1. ~(d = a /\ k = m.it /\ Owner[u] = b)
      <4> SUFFICES ASSUME d = a, k = m.it, Owner[u] = b PROVE FALSE
        OBVIOUS
      <4>1. DOMAIN m.vals = Told(b, a)
        BY <1>3, <2>1 DEF Right
      <4>2. u \in Told(b, a)
        BY <1>9 DEF Due, Told
      <4> QED BY <2>3, <4>1, <4>2
    <3>2. Due(net, d, k, u)
      BY <1>6, <1>9, <2>1, <3>1 DEF Due
    <3>3. copies[d][k][u] = Note(k, u)
      BY <3>2 DEF Sound, Valued
    <3> QED BY <1>4, <2>1, <2>3, <3>3
  <2> QED BY <2>2, <2>3
<1>10. Sound(left, known, after)
  BY <1>5, <1>8, <1>9 DEF Sound, Counted, Valued
<1> QED BY <1>2, <1>3, <1>10 DEF after, left, known

(* Collecting what an agent has used leaves what it has not.               *)
LEMMA Collect ==
  ASSUME it \in [Agent -> Int], NEW net, NEW need, NEW a \in Agent,
         vn \in Copies, Sound(need, vn, net)
  PROVE  /\ [vn EXCEPT ![a] = Collected(a)] \in Copies
         /\ Sound(need, [vn EXCEPT ![a] = Collected(a)], net)
<1> DEFINE known == [vn EXCEPT ![a] = Collected(a)]
<1>1. NoValues \in Ranks /\ Collected(a) \in [It -> Ranks]
  BY DEF Copies, Collected, NoValues, Ranks, Rank
<1>2. known \in Copies
  BY <1>1 DEF Copies
<1>3. ASSUME NEW d \in Agent, NEW k \in 1 .. Supersteps + 1, NEW u \in Vertex, Due(net, d, k, u)
      PROVE  known[d][k][u] = Note(k, u)
  <2>1. k \in It
    BY PageRankAssumption DEF It
  <2>2. vn[d][k][u] = Note(k, u)
    BY <1>3 DEF Sound, Valued
  <2>3. d = a => ~(k < it[a])
    BY <1>3 DEF Due
  <2>4. known[d][k] = vn[d][k]
    BY <2>1, <2>3 DEF Collected, Copies
  <2> QED BY <2>2, <2>4
<1>4. Sound(need, known, net)
  <2> HIDE DEF known
  <2> QED BY <1>3 DEF Sound, Valued
<1> QED BY <1>2, <1>4
-----------------------------------------------------------------------------
(* A superstep.                                                            *)

(* What a sends to b in superstep k.                                       *)
Sent(a, b, k) ==
  [it |-> k + 1,
   vals |-> [v \in (IF k <= Supersteps THEN Told(a, b) ELSE {}) |-> Note(k + 1, v)]]

(* All that superstep k of a does, said of the round of power iteration.   *)
Stepped(a, k, need, copies, net) ==
  /\ need[a][k] <= 0
  /\ it' = [it EXCEPT ![a] = k]
  /\ pr' = [v \in Vertex |-> IF v \in Mine(a) THEN Exact(k, v) ELSE pr[v]]
  /\ iteration' = [v \in Vertex |-> iteration[v] + IF v \in Mine(a) THEN 1 ELSE 0]
  /\ \A c \in Agent, i \in It, v \in Vertex : vn'[c][i][v] =
       IF c = a /\ k <= Supersteps /\ i = k + 1 /\ Owner[v] = a /\ a \in NotifyAgents(v)
       THEN Note(k + 1, v) ELSE copies[c][i][v]
  /\ links' = [links EXCEPT ![a] = Dest(a)]
  /\ \A c, d \in Agent : peer'[c][d] =
       IF c = a /\ Sends(a, d) THEN Append(net[a][d], Sent(a, d, k)) ELSE net[c][d]
  /\ \A c \in Agent, j \in It : needed'[c][j] =
       need[c][j] + IF c = a /\ j = k + 1 THEN Cardinality(Used(a)) ELSE 0
  /\ vote' = [vote EXCEPT ![a] = k <= Supersteps /\ Mine(a) # {}]
  /\ phase' = [phase EXCEPT ![a] =
       IF need[a][k + 1] + Cardinality(Used(a)) = 0 THEN "sync" ELSE "process"]
  /\ vn' \in Copies /\ peer' \in Nets /\ needed' \in Needs

LEMMA ExactType ==
  ASSUME graph \subseteq Vertex \X Vertex, share \in Shares,
         NEW k \in 0 .. Supersteps + 1, NEW v \in Vertex
  PROVE  Exact(k, v) \in Rank
<1>1. \A i \in 0 .. Supersteps : Iterate[i][v] \in Rank
  BY IterateDef DEF Ranks
<1>2. Supersteps \in 0 .. Supersteps /\ (~(k > Supersteps) => k \in 0 .. Supersteps)
  BY PageRankAssumption
<1>3. Teleport \in Rank
  BY TeleportType DEF Rank
<1> QED BY <1>1, <1>2, <1>3 DEF Exact

LEMMA SentType ==
  ASSUME graph \subseteq Vertex \X Vertex, share \in Shares,
         NEW k \in 0 .. Supersteps + 1, NEW a \in Agent, NEW b \in Agent
  PROVE  /\ Sent(a, b, k) \in Message /\ Sent(a, b, k).it = k + 1
         /\ DOMAIN Sent(a, b, k).vals = IF k <= Supersteps THEN Told(a, b) ELSE {}
         /\ \A w \in DOMAIN Sent(a, b, k).vals : Sent(a, b, k).vals[w] = Note(k + 1, w)
<1> DEFINE D == IF k <= Supersteps THEN Told(a, b) ELSE {}
           vals == [v \in D |-> Note(k + 1, v)]
<1>1. k + 1 \in It /\ (k <= Supersteps => k + 1 \in 1 .. Supersteps + 1)
  BY PageRankAssumption DEF It
<1>2. D \in SUBSET Vertex /\ \A v \in D : Note(k + 1, v) \in Rank
  BY <1>1, NoteType DEF Told
<1>3. vals \in [D -> Rank]
  BY <1>2
<1>4. vals \in Values
  BY <1>2, <1>3 DEF Values
<1>5. Sent(a, b, k) = [it |-> k + 1, vals |-> vals]
  BY DEF Sent
<1> HIDE DEF vals
<1>6. Sent(a, b, k) \in Message /\ Sent(a, b, k).it = k + 1 /\ Sent(a, b, k).vals = vals
  BY <1>1, <1>4, <1>5 DEF Message
<1> QED BY <1>3, <1>6 DEF vals

LEMMA Effects ==
  ASSUME TypeOK, NEW need \in Needs, NEW copies \in Copies, NEW net \in Nets,
         NEW a \in Agent, Alone(a), Ranked(a), it[a] <= Supersteps,
         \A c \in Agent : c # a => need[c] = needed[c] /\ copies[c] = vn[c],
         it[a] >= 0 => \A v \in Mine(a) : \A u \in In(v) :
                         copies[a][it[a] + 1][u] = Note(it[a] + 1, u),
         ProcessVertices(a, copies[a], need[a], net)
  PROVE  Stepped(a, it[a] + 1, need, copies, net)
<1> DEFINE k      == it[a] + 1
           ran    == [v \in Mine(a) |-> Run(v, copies[a][iteration[v]])]
           tells  == {v \in Mine(a) : ran[v].notify}
           scaled == [v \in Mine(a) |-> ran[v].scaled]
           after  == [need[a] EXCEPT ![k + 1] = @ + Cardinality(AgentsUsed(a))]
           known  == Receivers(a, tells)
<1>1. graph \subseteq Vertex \X Vertex /\ share \in Shares
  BY DEF TypeOK
<1>2. /\ it[a] \in -1 .. Supersteps + 1 /\ Supersteps \in Nat \ {0} /\ k \in 0 .. Supersteps + 1
      /\ k \in It /\ k + 1 \in It
  BY PageRankAssumption DEF TypeOK, It
<1>3. /\ need[a][k] <= 0
      /\ it' = [it EXCEPT ![a] = k]
      /\ pr' = [v \in Vertex |-> IF v \in Mine(a) THEN ran[v].pr ELSE pr[v]]
      /\ iteration' = [v \in Vertex |-> iteration[v] + IF v \in Mine(a) THEN 1 ELSE 0]
      /\ vn' = [vn EXCEPT ![a] = [i \in It |-> [v \in Vertex |->
                  IF v \in tells /\ i = iteration[v] + 1 /\ a \in NotifyAgents(v)
                  THEN scaled[v] ELSE copies[a][i][v]]]]
      /\ links' = [links EXCEPT ![a] = known]
      /\ peer' = [net EXCEPT ![a] = [b \in Agent |->
                    IF b \in known
                    THEN Append(net[a][b], Notifications(b, k + 1, tells, scaled)) ELSE net[a][b]]]
      /\ needed' = [needed EXCEPT ![a] = after]
      /\ vote' = [vote EXCEPT ![a] = tells # {}]
      /\ phase' = [phase EXCEPT ![a] = IF after[k + 1] = 0 THEN "sync" ELSE "process"]
  BY DEF ProcessVertices, Nets
<1>4. ASSUME NEW v \in Mine(a)
      PROVE  /\ v \in Vertex /\ Owner[v] = a /\ iteration[v] = k
             /\ ran[v].notify <=> k <= Supersteps
             /\ ran[v].pr = Exact(k, v)
             /\ k <= Supersteps => ran[v].scaled = Note(k + 1, v)
  <2>1. v \in Vertex /\ Owner[v] = a /\ iteration[v] = k
    BY <1>1, EdgeFacts DEF Alone
  <2>2. ran[v] = Run(v, copies[a][k])
    BY <2>1
  <2>3. CASE k <= Supersteps
    <3>1. /\ Run(v, copies[a][k]).notify = TRUE
          /\ Run(v, copies[a][k]).pr = Exact(k, v)
          /\ Run(v, copies[a][k]).scaled = Note(k + 1, v)
      <4> DEFINE mine == copies[a][k]
      <4>1. iteration[v] \in 0 .. Supersteps
        BY <1>2, <2>1, <2>3
      <4>2. iteration[v] > 0 => \A u \in In(v) : mine[u] = Note(iteration[v], u)
        BY <1>2, <2>1
      <4> HIDE DEF mine
      <4>3. /\ Run(v, mine).notify = TRUE
            /\ Run(v, mine).pr = Exact(iteration[v], v)
            /\ Run(v, mine).scaled = Note(iteration[v] + 1, v)
        BY <1>1, <2>1, <4>1, <4>2, RunExact
      <4> QED BY <2>1, <4>3 DEF mine
    <3> HIDE DEF ran, k
    <3> QED BY <2>1, <2>2, <2>3, <3>1
  <2>4. CASE ~(k <= Supersteps)
    <3>1. iteration[v] > Supersteps
      BY <1>2, <2>1, <2>4
    <3>2. Run(v, copies[a][k]) = [pr |-> pr[v], notify |-> FALSE, scaled |-> Infinite]
      BY <3>1 DEF Run
    <3>3. it[a] = Supersteps /\ k > Supersteps /\ k # 0
      BY <1>2, <2>4
    <3>4. pr[v] = Exact(it[a], v)
      BY <1>2, <3>3 DEF Ranked
    <3>5. Exact(it[a], v) = Exact(k, v)
      BY <1>2, <3>3 DEF Exact
    <3> QED BY <2>1, <2>2, <2>4, <3>2, <3>4, <3>5
  <2> QED BY <2>3, <2>4
<1>5. tells = IF k <= Supersteps THEN Mine(a) ELSE {}
  <2> HIDE DEF ran, k
  <2> QED BY <1>4
<1>6. \A v \in Mine(a) : k <= Supersteps => scaled[v] = Note(k + 1, v)
  BY <1>4
<1> HIDE DEF ran, tells, scaled
<1>7. known = Dest(a)
  <2>1. CASE k <= Supersteps
    <3>1. known = links[a] \cup Dest(a)
      BY <1>1, <1>5, <2>1, SendsFacts DEF Receivers
    <3> QED BY <3>1 DEF Alone
  <2>2. CASE ~(k <= Supersteps)
    <3>1. known = links[a] /\ it[a] >= 0
      BY <1>2, <1>5, <2>2 DEF Receivers
    <3> QED BY <3>1 DEF Alone
  <2> QED BY <2>1, <2>2
<1>8. ASSUME NEW b \in Agent PROVE Notifications(b, k + 1, tells, scaled) = Sent(a, b, k)
  <2>1. {w \in tells : b \in NotifyAgents(w)} = IF k <= Supersteps THEN Told(a, b) ELSE {}
    <3>1. \A w \in Vertex : b \in NotifyAgents(w) => w \in Mine(Owner[w])
      BY <1>1, EdgeFacts, PageRankAssumption
    <3>2. {w \in Mine(a) : b \in NotifyAgents(w)} = Told(a, b)
      BY <1>4, <3>1 DEF Told
    <3> QED BY <1>5, <3>2
  <2>2. \A w \in (IF k <= Supersteps THEN Told(a, b) ELSE {}) : scaled[w] = Note(k + 1, w)
    <3>1. \A w \in (IF k <= Supersteps THEN Told(a, b) ELSE {}) : k <= Supersteps /\ w \in Mine(a)
      BY <1>5, <2>1
    <3> QED BY <1>6, <3>1
  <2> HIDE DEF k
  <2> QED BY <2>1, <2>2 DEF Notifications, Sent
<1>9. pr' = [v \in Vertex |-> IF v \in Mine(a) THEN Exact(k, v) ELSE pr[v]]
  <2> HIDE DEF k
  <2> QED BY <1>3, <1>4
<1>10. /\ vote' = [vote EXCEPT ![a] = k <= Supersteps /\ Mine(a) # {}]
       /\ links' = [links EXCEPT ![a] = Dest(a)]
  <2>1. (tells # {}) <=> (k <= Supersteps /\ Mine(a) # {})
    BY <1>5
  <2>2. (tells # {}) = (k <= Supersteps /\ Mine(a) # {})
    BY <2>1
  <2> QED BY <1>3, <1>7, <2>2
<1>11. /\ \A c, d \in Agent : peer'[c][d] =
            IF c = a /\ Sends(a, d) THEN Append(net[a][d], Sent(a, d, k)) ELSE net[c][d]
       /\ peer' \in Nets
  <2> DEFINE row == [b \in Agent |-> IF Sends(a, b) THEN Append(net[a][b], Sent(a, b, k)) ELSE net[a][b]]
  <2>1. peer' = [net EXCEPT ![a] = row]
    <3>1. \A b \in Agent : b \in known <=> Sends(a, b)
      BY <1>7 DEF Dest
    <3> HIDE DEF known, k
    <3> QED BY <1>3, <1>8, <3>1
  <2>2. row \in [Agent -> Seq(Message)]
    <3>1. ASSUME NEW b \in Agent PROVE Append(net[a][b], Sent(a, b, k)) \in Seq(Message) /\ net[a][b] \in Seq(Message)
      <4>1. Sent(a, b, k) \in Message
        BY <1>1, <1>2, SentType
      <4>2. net[a][b] \in Seq(Message)
        BY DEF Nets
      <4> QED BY <4>1, <4>2, AppendPlaces
    <3> QED BY <3>1
  <2>3. peer' \in Nets
    <3> HIDE DEF row
    <3> QED BY <2>1, <2>2 DEF Nets
  <2>4. ASSUME NEW c \in Agent, NEW d \in Agent
        PROVE  peer'[c][d] = IF c = a /\ Sends(a, d) THEN Append(net[a][d], Sent(a, d, k)) ELSE net[c][d]
    <3>1. peer'[c] = IF c = a THEN row ELSE net[c]
      <4> HIDE DEF row
      <4> QED BY <2>1 DEF Nets
    <3> QED BY <3>1
  <2> QED BY <2>3, <2>4
<1>12. /\ \A c \in Agent, j \in It : needed'[c][j] =
            need[c][j] + IF c = a /\ j = k + 1 THEN Cardinality(Used(a)) ELSE 0
       /\ needed' \in Needs
       /\ after[k + 1] = need[a][k + 1] + Cardinality(Used(a))
  <2>1. AgentsUsed(a) = Used(a) /\ Cardinality(Used(a)) \in Int
    BY <1>1, SendsFacts, FS_CardinalityType
  <2>2. /\ after \in [It -> Int] /\ after[k + 1] = need[a][k + 1] + Cardinality(Used(a))
        /\ \A j \in It : after[j] = need[a][j] + IF j = k + 1 THEN Cardinality(Used(a)) ELSE 0
    BY <1>2, <2>1 DEF Needs
  <2> HIDE DEF after, k
  <2>3. /\ DOMAIN needed = Agent /\ \A c \in Agent : need[c] \in [It -> Int]
        /\ \A c \in Agent : needed'[c] = IF c = a THEN after ELSE need[c]
        /\ needed' = [c \in Agent |-> IF c = a THEN after ELSE need[c]]
    BY <1>3 DEF TypeOK, Needs
  <2>4. needed' \in Needs
    BY <2>2, <2>3 DEF Needs
  <2>5. ASSUME NEW c \in Agent, NEW j \in It
        PROVE  needed'[c][j] = need[c][j] + IF c = a /\ j = k + 1 THEN Cardinality(Used(a)) ELSE 0
    <3>1. need[c][j] \in Int
      BY <2>3
    <3> QED BY <2>2, <2>3, <3>1
  <2> QED BY <2>2, <2>4, <2>5
<1>13. /\ \A c \in Agent, i \in It, v \in Vertex : vn'[c][i][v] =
            IF c = a /\ k <= Supersteps /\ i = k + 1 /\ Owner[v] = a /\ a \in NotifyAgents(v)
            THEN Note(k + 1, v) ELSE copies[c][i][v]
       /\ vn' \in Copies
  <2> DEFINE mine == [i \in It |-> [v \in Vertex |->
                        IF k <= Supersteps /\ i = k + 1 /\ Owner[v] = a /\ a \in NotifyAgents(v)
                        THEN Note(k + 1, v) ELSE copies[a][i][v]]]
  <2>1. ASSUME NEW i \in It, NEW v \in Vertex
        PROVE  /\ v \in tells /\ i = iteration[v] + 1 /\ a \in NotifyAgents(v)
                  <=> k <= Supersteps /\ i = k + 1 /\ Owner[v] = a /\ a \in NotifyAgents(v)
               /\ v \in tells => scaled[v] = Note(k + 1, v)
    <3>1. a \in NotifyAgents(v) => v \in Mine(Owner[v])
      BY <1>1, EdgeFacts, PageRankAssumption
    <3> HIDE DEF k
    <3>2. v \in tells <=> k <= Supersteps /\ v \in Mine(a)
      BY <1>5
    <3>3. v \in Mine(a) => Owner[v] = a /\ iteration[v] = k
      BY <1>4
    <3> QED BY <1>6, <3>1, <3>2, <3>3
  <2>2. [i \in It |-> [v \in Vertex |->
           IF v \in tells /\ i = iteration[v] + 1 /\ a \in NotifyAgents(v)
           THEN scaled[v] ELSE copies[a][i][v]]] = mine
    <3> HIDE DEF k
    <3> QED BY <2>1
  <2>3. mine \in [It -> Ranks]
    <3>1. \A i \in It, v \in Vertex : copies[a][i][v] \in Rank
      BY DEF Copies, Ranks
    <3>2. \A v \in Vertex : k <= Supersteps => Note(k + 1, v) \in Rank
      BY <1>1, <1>2, NoteType
    <3> HIDE DEF k
    <3> QED BY <3>1, <3>2 DEF Ranks
  <2>4. vn' = [vn EXCEPT ![a] = mine]
    BY <1>3, <2>2
  <2>5. \A i \in It, v \in Vertex : mine[i][v] =
            IF k <= Supersteps /\ i = k + 1 /\ Owner[v] = a /\ a \in NotifyAgents(v)
            THEN Note(k + 1, v) ELSE copies[a][i][v]
    OBVIOUS
  <2> HIDE DEF mine, k
  <2>6. DOMAIN vn = Agent /\ \A c \in Agent : vn'[c] = IF c = a THEN mine ELSE copies[c]
    BY <2>4 DEF TypeOK
  <2>7. vn' = [c \in Agent |-> IF c = a THEN mine ELSE copies[c]]
    BY <2>4, <2>6
  <2>8. vn' \in Copies
    BY <2>3, <2>7 DEF Copies
  <2> QED BY <2>5, <2>6, <2>8
<1> HIDE DEF k, after, known
<1>14. phase' = [phase EXCEPT ![a] =
         IF need[a][k + 1] + Cardinality(Used(a)) = 0 THEN "sync" ELSE "process"]
  BY <1>3, <1>12
<1>15. Stepped(a, k, need, copies, net)
  BY <1>3, <1>9, <1>10, <1>11, <1>12, <1>13, <1>14 DEF Stepped
<1> QED BY <1>15 DEF k
(* What the graph and the numbers alone determine.                         *)
LEMMA SameGraph ==
  ASSUME graph' = graph
  PROVE  /\ \A v : In(v)' = In(v) /\ Out(v)' = Out(v) /\ NotifyAgents(v)' = NotifyAgents(v)
         /\ \A a : Mine(a)' = Mine(a) /\ Used(a)' = Used(a) /\ Dest(a)' = Dest(a)
         /\ \A a, b : Sends(a, b)' = Sends(a, b) /\ Told(a, b)' = Told(a, b)
<1>1. \A v : In(v)' = In(v) /\ Out(v)' = Out(v)
  BY DEF In, Out
<1>2. \A v : NotifyAgents(v)' = NotifyAgents(v)
  BY <1>1 DEF NotifyAgents
<1>3. \A a, b : Sends(a, b)' = Sends(a, b)
  BY DEF Sends
<1>4. \A a : Mine(a)' = Mine(a)
  BY <1>1 DEF Mine
<1>5. \A a : Used(a)' = Used(a) /\ Dest(a)' = Dest(a)
  BY <1>3 DEF Used, Dest
<1>6. \A a, b : Told(a, b)' = Told(a, b)
  BY <1>2 DEF Told
<1> QED BY <1>1, <1>2, <1>3, <1>4, <1>5, <1>6

LEMMA SameRanks ==
  ASSUME graph' = graph, share' = share
  PROVE  /\ Teleport' = Teleport
         /\ \A k, v : Exact(k, v)' = Exact(k, v)
         /\ \A k, u : Note(k, u)' = Note(k, u)
<1>1. Teleport' = Teleport
  BY DEF Teleport
<1>2. \A v, x : Scaled(v, x)' = Scaled(v, x)
  BY DEF Scaled, Out
<1>3. \A values, S : Damped(values, S)' = Damped(values, S)
  BY <1>1 DEF Damped
<1>4. \A x : Iterated(x)' = Iterated(x)
  BY <1>2, <1>3, SameGraph DEF Iterated
<1>5. Iterate' = Iterate
  BY DEF Iterate, Scaled, Damped, Teleport, In, Out
<1>6. \A k, u : Note(k, u)' = Note(k, u)
  BY <1>2, <1>5 DEF Note
<1>7. \A k, v : Exact(k, v)' = Exact(k, v)
  BY <1>1, <1>5 DEF Exact
<1> QED BY <1>1, <1>6, <1>7

LEMMA PeerType ==
  ASSUME NEW net \in Nets, NEW a \in Agent, NEW b \in Agent, NEW i \in DOMAIN net[a][b]
  PROVE  /\ net[a][b][i] \in Message
         /\ net[a][b][i].it \in It
         /\ net[a][b][i].vals \in [DOMAIN net[a][b][i].vals -> Rank]
<1>1. net[a][b][i] \in Message
  BY DEF Nets
<1>2. net[a][b][i].it \in It /\ net[a][b][i].vals \in Values
  BY <1>1 DEF Message
<1> QED BY <1>1, <1>2 DEF Values
(* Before a superstep the notifications for it have come, with the values  *)
(* of the round before.                                                    *)
LEMMA Complete ==
  ASSUME graph \subseteq Vertex \X Vertex, it \in [Agent -> -1 .. Supersteps + 1],
         NEW need \in Needs, NEW copies, NEW net, Sound(need, copies, net),
         NEW a \in Agent, need[a][it[a] + 1] <= 0
  PROVE  /\ \A b \in Used(a) : it[a] <= it[b]
         /\ it[a] >= 0 => \A b \in Agent : ~Pending(net[b][a], it[a] + 1)
         /\ it[a] \in 0 .. Supersteps => \A v \in Mine(a) : \A u \in In(v) :
              copies[a][it[a] + 1][u] = Note(it[a] + 1, u)
<1> DEFINE k == it[a] + 1
<1>1. it[a] \in -1 .. Supersteps + 1 /\ k \in 0 .. Supersteps + 2 /\ k \in It /\ it[a] = k - 1
  BY PageRankAssumption DEF It
<1>2. \A b \in Agent : it[b] \in -1 .. Supersteps + 1
  OBVIOUS
<1>3. CASE it[a] = -1
  BY <1>2, <1>3, PageRankAssumption DEF Used
<1>4. CASE it[a] >= 0
  <2>1. need[a][k] = Expected(a, k) - Cardinality(Arrived(net, a, k))
    BY <1>1 DEF Sound, Counted
  <2>2. Expected(a, k) = Cardinality(Used(a))
    BY <1>1, <1>4 DEF Expected
  <2>3. need[a][k] <= 0
    OBVIOUS
  <2> HIDE DEF k
  <2>4. /\ Cardinality(Used(a)) \in Nat
        /\ Cardinality(Arrived(net, a, k)) \in 0 .. Cardinality(Used(a))
    BY ArrivedType, SendsFacts, FS_CardinalityType
  <2>5. Cardinality(Arrived(net, a, k)) = Cardinality(Used(a))
    BY <2>1, <2>2, <2>3, <2>4
  <2>6. Arrived(net, a, k) = Used(a)
    BY <2>5, ArrivedType
  <2>7. \A b \in Used(a) : b \in Agent /\ k <= it[b] + 1 /\ ~Pending(net[b][a], k)
    BY <2>6 DEF Arrived, Used
  <2>8. \A b \in Agent : b \notin Used(a) => net[b][a] = <<>>
    BY DEF Sound, Queued, Used
  <2>9. \A b \in Agent : ~Pending(net[b][a], k)
    BY <2>7, <2>8, NonePending
  <2>10. ASSUME it[a] \in 0 .. Supersteps, NEW v \in Mine(a), NEW u \in In(v) PROVE copies[a][k][u] = Note(k, u)
    <3>1. u \in Vertex /\ a \in NotifyAgents(u) /\ Owner[u] \in Agent
      BY EdgeFacts
    <3>2. Owner[u] # a => Owner[u] \in Used(a)
      BY <3>1, EdgeFacts DEF Used
    <3>3. it[a] < k /\ k <= it[Owner[u]] + 1
      BY <1>1, <2>7, <3>2
    <3>4. Due(net, a, k, u)
      BY <2>9, <3>1, <3>3 DEF Due
    <3>5. k \in 1 .. Supersteps + 1
      BY <1>1, <1>4, <2>10, PageRankAssumption
    <3> QED BY <3>1, <3>4, <3>5 DEF Sound, Valued
  <2>11. \A b \in Used(a) : it[a] <= it[b]
    BY <1>1, <1>2, <2>7
  <2> QED BY <2>9, <2>10, <2>11 DEF k
<1> QED BY <1>1, <1>3, <1>4

LEMMA Superstep ==
  ASSUME TypeOK, peer \in Nets, \A c \in Agent : Alone(c) /\ Ranked(c), Working,
         NEW need \in Needs, NEW copies \in Copies, NEW net \in Nets, Sound(need, copies, net),
         NEW a \in Agent, Behind(a),
         \A c \in Agent : c # a => need[c] = needed[c] /\ copies[c] = vn[c] /\ Waiting(c),
         ProcessVertices(a, copies[a], need[a], net),
         sync' = [sync EXCEPT ![a] = "none"], UNCHANGED <<graph, share, batches>>
  PROVE  IInv'
<1> DEFINE k == it[a] + 1
<1>1. /\ graph \subseteq Vertex \X Vertex /\ share \in Shares
      /\ it \in [Agent -> -1 .. Supersteps + 1] /\ Supersteps \in Nat \ {0}
  BY PageRankAssumption DEF TypeOK
<1>2. it[a] <= Supersteps /\ k \in 0 .. Supersteps + 1 /\ it[a] = k - 1 /\ k \in It /\ k + 1 \in It
  <2>1. it[a] = -1 \/ it[a] \in 0 .. Supersteps
    BY DEF Behind, Alone
  <2> QED BY <1>1, <2>1 DEF It
<1>3. need[a][k] <= 0
  BY DEF ProcessVertices
<1>4. /\ it[a] >= 0 => \A b \in Agent : ~Pending(net[b][a], k)
      /\ it[a] >= 0 => \A v \in Mine(a) : \A u \in In(v) : copies[a][k][u] = Note(k, u)
  BY <1>1, <1>2, <1>3, Complete
<1>5. Stepped(a, k, need, copies, net)
  BY <1>2, <1>4, Effects
<1> HIDE DEF k
<1>6. /\ \A v : NotifyAgents(v)' = NotifyAgents(v)
      /\ \A c : Mine(c)' = Mine(c) /\ Used(c)' = Used(c) /\ Dest(c)' = Dest(c)
      /\ \A c, b : Sends(c, b)' = Sends(c, b) /\ Told(c, b)' = Told(c, b)
      /\ \A j, v : Exact(j, v)' = Exact(j, v)
      /\ \A j, u : Note(j, u)' = Note(j, u)
  BY SameGraph, SameRanks
<1>7. /\ it' \in [Agent -> -1 .. Supersteps + 1] /\ it'[a] = k
      /\ \A c \in Agent : c # a => it'[c] = it[c]
      /\ \A c \in Agent : it[c] \in -1 .. Supersteps + 1
  BY <1>1, <1>2, <1>5 DEF Stepped
<1>8. /\ sync'[a] = "none" /\ \A c \in Agent : c # a => sync'[c] = sync[c]
      /\ phase'[a] \in {"sync", "process"} /\ \A c \in Agent : c # a => phase'[c] = phase[c]
      /\ sync' \in [Agent -> {"none", "go", "stop"}]
      /\ phase' \in [Agent -> {"load", "update", "process", "sync", "idle"}]
  BY <1>5 DEF Stepped, TypeOK
<1>9. \A c \in Agent : it[c] <= k /\ Round(c) = k
  <2>1. Round(a) = k
    BY DEF Round, k
  <2>2. ASSUME NEW c \in Agent PROVE it[c] <= Round(c)
    BY <1>7 DEF Round
  <2> QED BY <2>1, <2>2 DEF Working
<1>10. Working'
  <2>1. ASSUME NEW c \in Agent PROVE (Behind(c) \/ Inside(c))' /\ Round(c)' = k
    <3>1. CASE c = a
      <4>1. ~Behind(a)' /\ Inside(a)'
        BY <1>2, <1>7, <1>8 DEF Behind, Inside
      <4> QED BY <1>7, <3>1, <4>1 DEF Round
    <3>2. CASE c # a
      <4>1. (Behind(c)' <=> Behind(c)) /\ (Inside(c)' <=> Inside(c))
        BY <1>7, <1>8, <3>2 DEF Behind, Inside
      <4>2. Round(c)' = Round(c)
        BY <1>7, <3>2, <4>1 DEF Round
      <4> QED BY <1>9, <4>1, <4>2 DEF Working
    <3> QED BY <3>1, <3>2
  <2> QED BY <2>1 DEF Working
<1>11. ASSUME NEW c \in Agent PROVE Alone(c)'
  <2>1. CASE c = a
    <3>1. vote'[a] <=> k <= Supersteps /\ Mine(a) # {}
      BY <1>5 DEF Stepped, TypeOK
    <3>2. links'[a] = Dest(a)
      BY <1>5 DEF Stepped, TypeOK
    <3>3. ASSUME NEW v \in Vertex, Owner[v] = a
          PROVE  iteration'[v] = IF v \in Mine(a) THEN k + 1 ELSE 0
      <4>1. iteration[v] = IF v \in Mine(a) THEN k ELSE 0
        BY <1>2, <3>3 DEF Alone
      <4>2. iteration'[v] = iteration[v] + IF v \in Mine(a) THEN 1 ELSE 0
        BY <1>5 DEF Stepped
      <4> QED BY <1>2, <4>1, <4>2
    <3> QED BY <1>2, <1>6, <1>7, <1>8, <2>1, <3>1, <3>2, <3>3 DEF Alone
  <2>2. CASE c # a
    <3>1. vote'[c] = vote[c] /\ links'[c] = links[c]
      BY <1>5, <2>2 DEF Stepped, TypeOK
    <3>2. ASSUME NEW v \in Vertex, Owner[v] = c PROVE iteration'[v] = iteration[v]
      <4>1. v \notin Mine(a)
        BY <1>1, <2>2, <3>2, EdgeFacts
      <4>2. iteration'[v] = iteration[v] + 0 /\ iteration[v] \in Int
        BY <1>5, <4>1 DEF Stepped, TypeOK, It
      <4> QED BY <4>2
    <3>3. ASSUME NEW j \in It PROVE needed'[c][j] = needed[c][j]
      <4>1. needed'[c][j] = need[c][j] + 0 /\ need[c][j] \in Int
        BY <1>5, <2>2 DEF Stepped, Needs
      <4> QED BY <2>2, <4>1
    <3>4. Alone(c)
      OBVIOUS
    <3> QED BY <1>6, <1>7, <1>8, <2>2, <3>1, <3>2, <3>3, <3>4 DEF Alone
  <2> QED BY <2>1, <2>2
<1>12. ASSUME NEW c \in Agent PROVE Ranked(c)'
  <2>1. \A v \in Vertex : pr'[v] = IF v \in Mine(a) THEN Exact(k, v) ELSE pr[v]
    BY <1>5 DEF Stepped
  <2>2. \A v \in Mine(c) : v \in Vertex /\ (c # a => v \notin Mine(a))
    BY <1>1, EdgeFacts
  <2>3. CASE c = a
    BY <1>6, <1>7, <2>1, <2>2, <2>3 DEF Ranked
  <2>4. CASE c # a
    <3>1. Ranked(c)
      OBVIOUS
    <3> QED BY <1>6, <1>7, <2>1, <2>2, <2>4, <3>1 DEF Ranked
  <2> QED BY <2>3, <2>4
<1>13. \A c, d \in Agent :
         /\ net[c][d] \in Seq(Message) /\ Ordered(net[c][d]) /\ Queued(net[c][d], c, d)
         /\ \A i \in DOMAIN net[c][d] : net[c][d][i].it \in It
  <2>1. \A c, d \in Agent : Queued(net[c][d], c, d)
    BY DEF Sound
  <2> QED BY <2>1, PeerType DEF Queued, Nets
<1>14. ASSUME NEW d \in Agent, Sends(a, d)
       PROVE  /\ Sent(a, d, k) \in Message /\ Sent(a, d, k).it = k + 1
              /\ peer'[a][d] = Append(net[a][d], Sent(a, d, k))
              /\ Ordered(peer'[a][d])
              /\ \A i \in DOMAIN peer'[a][d] :
                   \/ peer'[a][d][i] = Sent(a, d, k)
                   \/ \E j \in DOMAIN net[a][d] : peer'[a][d][i] = net[a][d][j]
              /\ \A j : Pending(peer'[a][d], j) <=> Pending(net[a][d], j) \/ j = k + 1
  <2>1. Sent(a, d, k) \in Message /\ Sent(a, d, k).it = k + 1
    BY <1>1, <1>2, SentType
  <2>2. peer'[a][d] = Append(net[a][d], Sent(a, d, k))
    BY <1>5, <1>14 DEF Stepped
  <2>3. \A i \in DOMAIN net[a][d] : net[a][d][i].it < Sent(a, d, k).it
    <3> SUFFICES ASSUME NEW i \in DOMAIN net[a][d] PROVE net[a][d][i].it < k + 1
      BY <2>1
    <3>1. net[a][d][i].it <= it[a] + 1 /\ net[a][d][i].it \in It
      BY <1>13 DEF Queued, Right
    <3> QED BY <1>1, <1>2, <3>1 DEF It
  <2> DEFINE q == net[a][d]  m == Sent(a, d, k)
  <2>4. q \in Seq(Message) /\ Ordered(q) /\ \A i \in DOMAIN q : q[i].it < m.it
    BY <1>13, <2>3
  <2>5. m \in Message /\ m.it = k + 1
    BY <2>1
  <2> HIDE DEF q, m
  <2>6. /\ Append(q, m) \in Seq(Message) /\ Ordered(Append(q, m))
        /\ \A i \in DOMAIN Append(q, m) :
             Append(q, m)[i] = m \/ \E j \in DOMAIN q : Append(q, m)[i] = q[j]
        /\ \A j : Pending(Append(q, m), j) <=> Pending(q, j) \/ j = m.it
    BY <2>4, <2>5, PutLast
  <2> QED BY <2>1, <2>2, <2>5, <2>6 DEF q, m
<1>15. \A c, d \in Agent : ~(c = a /\ Sends(a, d)) => peer'[c][d] = net[c][d]
  BY <1>5 DEF Stepped
<1>16. ASSUME NEW c \in Agent, NEW d \in Agent, NEW i \in DOMAIN net[c][d]
       PROVE  Right(c, d, net[c][d][i])'
  <2> DEFINE m == net[c][d][i]
  <2>1. Right(c, d, m) /\ m.it \in It /\ (net[c][d] # <<>> => Sends(c, d))
    BY <1>13 DEF Queued
  <2>2. c # d
    <3>1. net[c][d] # <<>>
      OBVIOUS
    <3> QED BY <1>1, <2>1, <3>1, SendsFacts
  <2>3. Pending(net[c][d], m.it)
    BY DEF Pending
  <2> HIDE DEF m
  <2>4. m.it \in Int /\ 1 <= m.it /\ it[d] < m.it /\ m.it <= it[c] + 1
    BY <1>1, <2>1 DEF Right, It
  <2>5. it'[d] < m.it
    <3>1. CASE d = a
      <4>1. it[a] >= 0 => m.it # k
        BY <1>4, <2>3, <3>1
      <4> QED BY <1>2, <1>7, <2>4, <3>1, <4>1
    <3>2. CASE d # a
      BY <1>7, <2>4, <3>2
    <3> QED BY <3>1, <3>2
  <2>6. m.it <= it'[c] + 1
    <3>1. CASE c = a
      BY <1>2, <1>7, <2>4, <3>1
    <3>2. CASE c # a
      BY <1>7, <2>4, <3>2
    <3> QED BY <3>1, <3>2
  <2>7. Right(c, d, m)'
    BY <1>6, <2>1, <2>5, <2>6 DEF Right
  <2> QED BY <2>7 DEF m
<1>17. ASSUME NEW d \in Agent, Sends(a, d), NEW m, m = Sent(a, d, k) PROVE Right(a, d, m)'
  <2>1. /\ m.it = k + 1 /\ DOMAIN m.vals = IF k <= Supersteps THEN Told(a, d) ELSE {}
        /\ \A w \in DOMAIN m.vals : m.vals[w] = Note(k + 1, w)
    BY <1>1, <1>2, <1>17, SentType
  <2>2. d # a /\ it'[d] <= k /\ it'[d] \in Int
    BY <1>1, <1>7, <1>9, <1>17, SendsFacts
  <2>3. 1 <= m.it /\ it'[d] < m.it /\ m.it <= it'[a] + 1
    BY <1>2, <1>7, <2>1, <2>2
  <2>4. DOMAIN m.vals = IF m.it <= Supersteps + 1 THEN Told(a, d) ELSE {}
    BY <1>1, <1>2, <2>1
  <2>5. \A w \in DOMAIN m.vals : m.vals[w] = Note(m.it, w)
    BY <2>1
  <2> QED BY <1>6, <2>3, <2>4, <2>5 DEF Right
<1>18. ASSUME NEW c \in Agent, NEW d \in Agent PROVE Queued(peer[c][d], c, d)'
  <2>1. CASE c = a /\ Sends(a, d)
    <3>1. ASSUME NEW i \in DOMAIN peer'[a][d] PROVE Right(a, d, peer[a][d][i])'
      <4>1. CASE peer'[a][d][i] = Sent(a, d, k)
        BY <1>17, <2>1, <4>1
      <4>2. CASE \E j \in DOMAIN net[a][d] : peer'[a][d][i] = net[a][d][j]
        BY <1>16, <4>2
      <4> QED BY <1>14, <2>1, <4>1, <4>2
    <3>2. Ordered(peer[a][d])' /\ Sends(a, d)'
      BY <1>6, <1>14, <2>1 DEF Ordered
    <3> QED BY <2>1, <3>1, <3>2 DEF Queued
  <2>2. CASE ~(c = a /\ Sends(a, d))
    <3>1. peer'[c][d] = net[c][d]
      BY <1>15, <2>2
    <3>2. \A i \in DOMAIN peer'[c][d] : Right(c, d, peer[c][d][i])'
      BY <1>16, <3>1
    <3>3. Ordered(peer[c][d])' /\ (peer'[c][d] # <<>> => Sends(c, d)')
      BY <1>6, <1>13, <3>1 DEF Ordered, Queued
    <3> QED BY <3>2, <3>3 DEF Queued
  <2> QED BY <2>1, <2>2
<1>19. ASSUME NEW d \in Agent, NEW j \in It
       PROVE  /\ Arrived(peer, d, j)' = Arrived(net, d, j)
              /\ needed'[d][j] = Expected(d, j)' - Cardinality(Arrived(net, d, j))
              /\ Expected(d, j)' \in {0, Cardinality(Used(d))}
              /\ Cardinality(Arrived(net, d, j)) \in 0 .. Cardinality(Used(d))
              /\ Cardinality(Used(d)) \in 0 .. Cardinality(Agent) - 1
  <2>1. /\ Cardinality(Arrived(net, d, j)) \in 0 .. Cardinality(Used(d))
        /\ Cardinality(Used(d)) \in 0 .. Cardinality(Agent) - 1
        /\ Cardinality(Agent) \in Nat
    BY <1>1, ArrivedType, SendsFacts, PageRankAssumption, FS_CardinalityType
  <2>2. ASSUME NEW b \in Used(d)
        PROVE  j <= it'[b] + 1 /\ ~Pending(peer'[b][d], j) <=> j <= it[b] + 1 /\ ~Pending(net[b][d], j)
    <3>1. b \in Agent /\ Sends(b, d) /\ j \in Int
      BY <1>1 DEF Used, It
    <3>2. CASE b = a
      <4>1. Pending(peer'[a][d], j) <=> Pending(net[a][d], j) \/ j = k + 1
        BY <1>14, <3>1, <3>2
      <4>2. j <= it'[a] + 1 <=> j <= it[a] + 1 \/ j = k + 1
        BY <1>2, <1>7, <3>1
      <4>3. j <= it[a] + 1 => j # k + 1
        BY <1>2
      <4> QED BY <3>2, <4>1, <4>2, <4>3
    <3>3. CASE b # a
      BY <1>7, <1>15, <3>1, <3>3
    <3> QED BY <3>2, <3>3
  <2>3. Arrived(peer, d, j)' = Arrived(net, d, j)
    BY <1>6, <2>2 DEF Arrived
  <2>4. need[d][j] = Expected(d, j) - Cardinality(Arrived(net, d, j))
    BY DEF Sound, Counted
  <2>5. needed'[d][j] = need[d][j] + IF d = a /\ j = k + 1 THEN Cardinality(Used(a)) ELSE 0
    BY <1>5 DEF Stepped
  <2>6. Expected(d, j)' = Expected(d, j) + IF d = a /\ j = k + 1 THEN Cardinality(Used(a)) ELSE 0
    <3>1. j \in Int /\ Used(d)' = Used(d) /\ Cardinality(Used(d)) \in Nat
      BY <1>1, <1>6, <2>1 DEF It
    <3>2. CASE d = a
      BY <1>2, <1>7, <3>1, <3>2 DEF Expected
    <3>3. CASE d # a
      BY <1>7, <3>1, <3>3 DEF Expected
    <3> QED BY <3>2, <3>3
  <2>7. Expected(d, j) \in Int /\ (IF d = a /\ j = k + 1 THEN Cardinality(Used(a)) ELSE 0) \in Int
    BY <2>1 DEF Expected
  <2>8. Expected(d, j)' \in {0, Cardinality(Used(d))}
    BY <1>6 DEF Expected
  <2> QED BY <2>1, <2>3, <2>4, <2>5, <2>6, <2>7, <2>8
<1>20. ASSUME NEW d \in Agent, NEW j \in 1 .. Supersteps + 1, NEW u \in Vertex, Due(peer, d, j, u)'
       PROVE  vn'[d][j][u] = Note(j, u)
  <2>1. /\ Owner[u] \in Agent /\ j \in It /\ j \in Int /\ d \in NotifyAgents(u)
        /\ it'[d] < j /\ j <= it'[Owner[u]] + 1 /\ ~Pending(peer'[Owner[u]][d], j)
    BY <1>1, <1>6, <1>20, PageRankAssumption DEF Due, It
  <2>2. Owner[u] # d => Sends(Owner[u], d)
    BY <1>1, <2>1, EdgeFacts
  <2>3. vn'[d][j][u] =
          IF d = a /\ k <= Supersteps /\ j = k + 1 /\ Owner[u] = a /\ a \in NotifyAgents(u)
          THEN Note(k + 1, u) ELSE copies[d][j][u]
    BY <1>5, <2>1 DEF Stepped
  <2>4. CASE Owner[u] = a /\ j = k + 1
    <3>1. d = a
      BY <1>14, <2>1, <2>2, <2>4
    <3>2. k <= Supersteps
      BY <1>1, <1>2, <2>4
    <3> QED BY <2>1, <2>3, <2>4, <3>1, <3>2
  <2>5. CASE ~(Owner[u] = a /\ j = k + 1)
    <3>1. it[d] < j
      BY <1>2, <1>7, <2>1
    <3>2. j <= it[Owner[u]] + 1
      BY <1>2, <1>7, <2>1, <2>5
    <3>3. ~Pending(net[Owner[u]][d], j)
      <4>1. CASE Owner[u] = a /\ Sends(a, d)
        BY <1>14, <2>1, <4>1
      <4>2. CASE ~(Owner[u] = a /\ Sends(a, d))
        BY <1>15, <2>1, <4>2
      <4> QED BY <4>1, <4>2
    <3>4. Due(net, d, j, u)
      BY <2>1, <3>1, <3>2, <3>3 DEF Due
    <3>5. copies[d][j][u] = Note(j, u)
      BY <3>4 DEF Sound, Valued
    <3> QED BY <2>3, <2>5, <3>5
  <2> QED BY <2>4, <2>5
<1>21. Sound(needed, vn, peer)'
  <2>1. \A d \in Agent : Counted(needed[d], peer, d)'
    BY <1>19 DEF Counted
  <2>2. \A d \in Agent : Valued(vn[d], peer, d)'
    BY <1>6, <1>20 DEF Valued
  <2> QED BY <1>18, <2>1, <2>2 DEF Sound
<1>22. ASSUME NEW c \in Agent PROVE Waiting(c)'
  <2>1. CASE c = a
    <3>1. needed'[a][k + 1] = need[a][k + 1] + Cardinality(Used(a))
      BY <1>2, <1>5 DEF Stepped
    <3>2. phase'[a] = IF needed'[a][k + 1] = 0 THEN "sync" ELSE "process"
      BY <1>5, <3>1 DEF Stepped, TypeOK
    <3>3. ASSUME NEW j \in It, j = k + 1 PROVE needed'[a][j] >= 0 /\ needed'[a][j] \in Int
      <4>1. Expected(a, j)' = Cardinality(Used(a))
        BY <1>2, <1>6, <1>7, <3>3 DEF Expected
      <4> QED BY <1>19, <4>1
    <3>4. needed'[a][k + 1] >= 0 /\ needed'[a][k + 1] \in Int
      BY <1>2, <3>3
    <3> QED BY <1>7, <2>1, <3>2, <3>4 DEF Waiting
  <2>2. CASE c # a
    <3>1. \A j \in It : needed'[c][j] = needed[c][j]
      <4> SUFFICES ASSUME NEW j \in It PROVE needed'[c][j] = needed[c][j]
        OBVIOUS
      <4>1. needed'[c][j] = need[c][j] + 0 /\ need[c][j] \in Int
        BY <1>5, <2>2 DEF Stepped, Needs
      <4> QED BY <2>2, <4>1
    <3>2. it[c] >= 0 => it[c] + 1 \in It
      BY <1>1, <1>7 DEF It
    <3> QED BY <1>7, <1>8, <2>2, <3>1, <3>2 DEF Waiting
  <2> QED BY <2>1, <2>2
<1>23. TypeOK'
  <2>1. pr' \in [Vertex -> Rank]
    <3>1. \A v \in Vertex : Exact(k, v) \in Rank
      BY <1>1, <1>2, ExactType
    <3> QED BY <1>5, <3>1 DEF Stepped, TypeOK
  <2>2. iteration' \in [Vertex -> It]
    <3>1. \A v \in Mine(a) : v \in Vertex /\ Owner[v] = a
      BY <1>1, EdgeFacts
    <3>2. \A v \in Mine(a) : iteration[v] = k
      BY <1>2, <3>1 DEF Alone
    <3>3. ASSUME NEW v \in Vertex PROVE iteration[v] + (IF v \in Mine(a) THEN 1 ELSE 0) \in It
      <4>1. CASE v \in Mine(a)
        BY <1>2, <3>2, <4>1
      <4>2. CASE v \notin Mine(a)
        BY <1>1, <4>2 DEF TypeOK, It
      <4> QED BY <4>1, <4>2
    <3> QED BY <1>5, <3>3 DEF Stepped
  <2>3. needed' \in [Agent -> [It -> 1 - Cardinality(Agent) .. Cardinality(Agent) - 1]]
    <3>1. ASSUME NEW d \in Agent, NEW j \in It
          PROVE  needed'[d][j] \in 1 - Cardinality(Agent) .. Cardinality(Agent) - 1
      <4>1. Cardinality(Agent) \in Nat
        BY PageRankAssumption, FS_CardinalityType
      <4> QED BY <1>19, <4>1
    <3>2. needed' \in [Agent -> [It -> Int]]
      BY <1>5 DEF Stepped, Needs
    <3> QED BY <3>1, <3>2
  <2>4. vn' \in [Agent -> [It -> [Vertex -> Rank]]]
    BY <1>5 DEF Stepped, Copies, Ranks
  <2>5. links' \in [Agent -> SUBSET Agent] /\ vote' \in [Agent -> BOOLEAN]
    <3>1. Dest(a) \in SUBSET Agent
      BY DEF Dest
    <3> QED BY <1>5, <3>1 DEF Stepped, TypeOK
  <2>6. \A c, d \in Agent : \A i \in DOMAIN peer'[c][d] :
          /\ peer'[c][d][i].it \in It
          /\ peer'[c][d][i].vals \in [DOMAIN peer'[c][d][i].vals -> Rank]
    <3>1. peer' \in Nets
      BY <1>5 DEF Stepped
    <3> QED BY <3>1, PeerType
  <2> QED BY <1>1, <1>7, <1>8, <2>1, <2>2, <2>3, <2>4, <2>5, <2>6 DEF TypeOK
<1>24. peer' \in Nets
  BY <1>5 DEF Stepped
<1> QED BY <1>10, <1>11, <1>12, <1>21, <1>22, <1>23, <1>24 DEF IInv
-----------------------------------------------------------------------------
(* The invariant is inductive.                                             *)

LEMMA InitHolds == Init => IInv
<1> SUFFICES ASSUME Init PROVE IInv
  OBVIOUS
<1>1. Supersteps \in Nat \ {0} /\ MaxBatches \in Nat \ {0} /\ Prime \in Nat \ {0}
  BY PageRankAssumption, PrimeType
<1>2. graph \subseteq Vertex \X Vertex /\ share \in Shares
  BY PageRankAssumption DEF Init
<1>3. ASSUME NEW a \in Agent PROVE 0 \in 1 - Cardinality(Agent) .. Cardinality(Agent) - 1
  <2>1. Cardinality(Agent) \in Nat /\ Cardinality(Agent) # 0
    BY PageRankAssumption, FS_CardinalityType, FS_EmptySet
  <2> QED BY <2>1
<1>4. 0 \in Rank /\ Infinite \in Rank /\ 0 \in It
  BY <1>1 DEF Rank, Number, It
<1>5. NoValues \in Ranks
  BY <1>4 DEF NoValues, Ranks
<1>6. peer \in Nets /\ \A a, b \in Agent : peer[a][b] = <<>>
  BY DEF Init, Nets
<1>7. TypeOK
  <2>1. needed \in [Agent -> [It -> 1 - Cardinality(Agent) .. Cardinality(Agent) - 1]]
    BY <1>3 DEF Init
  <2>2. vn \in [Agent -> [It -> [Vertex -> Rank]]]
    BY <1>5 DEF Init, Ranks
  <2>3. phase \in [Agent -> {"load", "update", "process", "sync", "idle"}]
    BY DEF Init
  <2>4. it \in [Agent -> -1 .. Supersteps + 1] /\ batches \in 1 .. MaxBatches
    BY <1>1 DEF Init
  <2>5. pr \in [Vertex -> Rank] /\ iteration \in [Vertex -> It]
    BY <1>4 DEF Init
  <2>6. \A a, b \in Agent : DOMAIN peer[a][b] = {}
    BY <1>6
  <2> QED BY <1>2, <2>1, <2>2, <2>3, <2>4, <2>5, <2>6 DEF Init, TypeOK
<1>8. ASSUME NEW a \in Agent PROVE it[a] = -1 /\ sync[a] = "none" /\ phase[a] \in {"update", "load"}
  BY DEF Init
<1>9. ASSUME NEW a \in Agent PROVE Alone(a) /\ Ranked(a) /\ Waiting(a)
  <2>1. links[a] = {} /\ vote[a] = FALSE /\ \A v \in Vertex : iteration[v] = 0
    BY DEF Init
  <2> QED BY <1>1, <1>8, <2>1 DEF Alone, Ranked, Waiting
<1>10. CASE \A a \in Agent : phase[a] = "load"
  BY <1>6, <1>7, <1>8, <1>9, <1>10 DEF IInv, Silent, Quiet
<1>11. CASE \A a \in Agent : phase[a] = "update"
  <2>1. Working
    BY <1>8, <1>11 DEF Working, Behind, Round
  <2>2. ASSUME NEW a \in Agent PROVE Counted(needed[a], peer, a)
    <3> SUFFICES ASSUME NEW j \in It
                 PROVE  needed[a][j] = Expected(a, j) - Cardinality(Arrived(peer, a, j))
      BY DEF Counted
    <3>1. needed[a][j] = 0 /\ j \in Int
      BY <1>1 DEF Init, It
    <3>2. Arrived(peer, a, j) = {}
      BY <1>8, <3>1 DEF Arrived, Used
    <3>3. Expected(a, j) = 0
      BY <1>8, <3>1 DEF Expected
    <3> QED BY <3>1, <3>2, <3>3, FS_EmptySet
  <2>3. ASSUME NEW a \in Agent PROVE Valued(vn[a], peer, a)
    <3>1. ASSUME NEW k \in 1 .. Supersteps + 1, NEW u \in Vertex PROVE ~(k <= it[Owner[u]] + 1)
      BY <1>8, PageRankAssumption
    <3> QED BY <3>1 DEF Valued, Due
  <2>4. \A a, b \in Agent : Queued(peer[b][a], b, a)
    BY <1>6, NonePending DEF Queued
  <2>5. Sound(needed, vn, peer)
    BY <2>2, <2>3, <2>4 DEF Sound
  <2> QED BY <1>6, <1>7, <1>9, <2>1, <2>5 DEF IInv
<1> QED BY <1>10, <1>11 DEF Init

(* Who takes part in a superstep, and who does not.                        *)
LEMMA Positions ==
  ASSUME TypeOK, NEW a \in Agent, Alone(a)
  PROVE  /\ phase[a] = "process" => ~Quiet(a)
         /\ phase[a] = "update" => ~Quiet(a) /\ Behind(a) /\ it[a] = -1
         /\ phase[a] = "load" => ~Behind(a) /\ ~Inside(a) /\ it[a] = -1 /\ sync[a] = "none"
         /\ phase[a] = "idle" => ~Behind(a) /\ ~Inside(a) /\ it[a] = -1 /\ sync[a] = "none"
         /\ sync[a] = "go" => ~Quiet(a) /\ phase[a] = "sync"
         /\ sync[a] = "stop" => ~Behind(a) /\ ~Inside(a) /\ phase[a] = "sync"
         /\ phase[a] = "sync" /\ sync[a] = "none" =>
              ~Behind(a) /\ (Quiet(a) => it[a] = -1)
         /\ phase[a] = "process" /\ Behind(a) => it[a] = -1 /\ sync[a] = "none"
<1>1. it[a] >= 0 \/ it[a] = -1
  BY PageRankAssumption DEF TypeOK
<1>2. /\ sync[a] \in {"none", "go", "stop"}
      /\ phase[a] \in {"load", "update", "process", "sync", "idle"}
  BY DEF TypeOK
<1>3. /\ sync[a] # "none" => phase[a] = "sync"
      /\ it[a] >= 0 => phase[a] \in {"process", "sync"}
  BY DEF Alone
<1>4. ~(-1 >= 0)
  OBVIOUS
<1> QED BY <1>1, <1>2, <1>3, <1>4 DEF Quiet, Behind, Inside

(* A step that leaves the data alone.                                      *)
LEMMA Kept ==
  ASSUME UNCHANGED <<graph, share, vertexVars, it, needed, vn, links, vote, peer>>
  PROVE  /\ Sound(needed, vn, peer)' <=> Sound(needed, vn, peer)
         /\ \A a : Ranked(a)' <=> Ranked(a)
         /\ \A a : Mine(a)' = Mine(a) /\ Dest(a)' = Dest(a)
         /\ iteration' = iteration /\ pr' = pr
<1>1. /\ graph' = graph /\ share' = share /\ pr' = pr /\ iteration' = iteration
      /\ it' = it /\ needed' = needed /\ vn' = vn /\ peer' = peer
  BY DEF vertexVars
<1>2. /\ \A v : NotifyAgents(v)' = NotifyAgents(v)
      /\ \A c : Mine(c)' = Mine(c) /\ Used(c)' = Used(c) /\ Dest(c)' = Dest(c)
      /\ \A c, b : Sends(c, b)' = Sends(c, b) /\ Told(c, b)' = Told(c, b)
      /\ \A j, v : Exact(j, v)' = Exact(j, v)
      /\ \A j, u : Note(j, u)' = Note(j, u)
  BY <1>1, SameGraph, SameRanks
<1>3. \A a : Ranked(a)' <=> Ranked(a)
  BY <1>1, <1>2 DEF Ranked
<1>4. \A q, b, a : Queued(q, b, a)' <=> Queued(q, b, a)
  <2>1. \A m, b, a : Right(b, a, m)' <=> Right(b, a, m)
    BY <1>1, <1>2 DEF Right
  <2> QED BY <1>2, <2>1 DEF Queued
<1>5. \A need, net, a : Counted(need, net, a)' <=> Counted(need, net, a)
  <2>1. \A net, a, j : Arrived(net, a, j)' = Arrived(net, a, j)
    BY <1>1, <1>2 DEF Arrived
  <2>2. \A a, j : Expected(a, j)' = Expected(a, j)
    BY <1>1, <1>2 DEF Expected
  <2> QED BY <2>1, <2>2 DEF Counted
<1>6. \A copies, net, a : Valued(copies, net, a)' <=> Valued(copies, net, a)
  <2>1. \A net, a, k, u : Due(net, a, k, u)' <=> Due(net, a, k, u)
    BY <1>1, <1>2 DEF Due
  <2> QED BY <1>2, <2>1 DEF Valued
<1>7. Sound(needed, vn, peer)' <=> Sound(needed, vn, peer)
  BY <1>1, <1>4, <1>5, <1>6 DEF Sound
<1> QED BY <1>1, <1>2, <1>3, <1>7
LEMMA RecvNvHolds ==
  ASSUME IInv, NEW a \in Agent, RecvNv(a)
  PROVE  IInv'
<1>1. TypeOK /\ peer \in Nets /\ \A c \in Agent : Alone(c) /\ Ranked(c)
  BY DEF IInv
<1>2. /\ UNCHANGED <<graph, share, vertexVars, it, needed, vn, links, vote, peer>>
      /\ UNCHANGED <<sync, batches>>
  BY DEF RecvNv
<1>3. /\ Sound(needed, vn, peer)' <=> Sound(needed, vn, peer)
      /\ \A c : Ranked(c)' <=> Ranked(c)
      /\ \A c : Mine(c)' = Mine(c) /\ Dest(c)' = Dest(c)
      /\ iteration' = iteration /\ pr' = pr
  BY <1>2, Kept
<1>4. it[a] = -1 /\ phase[a] \in {"update", "load"}
  BY <1>1, Positions DEF RecvNv
<1>5. /\ phase' \in [Agent -> {"load", "update", "process", "sync", "idle"}]
      /\ \A c \in Agent : c # a => phase'[c] = phase[c]
      /\ phase[a] = "update" => phase'[a] = "process"
      /\ phase[a] = "load" => phase'[a] = "sync"
  BY <1>1 DEF RecvNv, TypeOK
<1>6. TypeOK' /\ peer' \in Nets
  BY <1>1, <1>2, <1>3, <1>5 DEF TypeOK
<1>7. ASSUME NEW c \in Agent PROVE Alone(c)'
  <2>1. Alone(c)
    BY <1>1
  <2>2. phase[a] # "sync"
    BY <1>4
  <2>3. sync[c] # "none" => c # a
    BY <1>1, <1>4 DEF Alone
  <2>4. phase'[c] = "idle" => phase[c] = "idle"
    BY <1>4, <1>5
  <2> QED BY <1>2, <1>3, <1>4, <1>5, <2>1, <2>3, <2>4 DEF Alone
<1>8. CASE Silent
  <2>1. phase[a] = "load" /\ sync[a] = "none"
    BY <1>1, <1>4, <1>8, Positions DEF Silent
  <2>2. \A c \in Agent : Quiet(c)'
    BY <1>2, <1>4, <1>5, <1>8, <2>1 DEF Silent, Quiet
  <2>3. Silent'
    BY <1>2, <1>8, <2>2 DEF Silent
  <2> QED BY <1>1, <1>3, <1>6, <1>7, <2>3 DEF IInv
<1>9. CASE Working /\ Sound(needed, vn, peer) /\ \A c \in Agent : Waiting(c)
  <2>1. phase[a] = "update"
    BY <1>1, <1>4, <1>9, Positions DEF Working
  <2>2. \A c \in Agent : (Behind(c)' <=> Behind(c)) /\ (Inside(c)' <=> Inside(c))
    BY <1>2, <1>5, <2>1 DEF Behind, Inside
  <2>3. \A c \in Agent : Round(c)' = Round(c)
    BY <1>2, <2>2 DEF Round
  <2>4. Working'
    BY <1>9, <2>2, <2>3 DEF Working
  <2>5. \A c \in Agent : Waiting(c)'
    BY <1>2, <1>4, <1>5, <1>9 DEF Waiting
  <2> QED BY <1>1, <1>3, <1>6, <1>7, <1>9, <2>4, <2>5 DEF IInv
<1> QED BY <1>8, <1>9 DEF IInv

(* All have joined the barrier: nothing is on its way.                     *)
LEMMA AllJoined ==
  ASSUME TypeOK, peer \in Nets, \A c \in Agent : Alone(c) /\ Waiting(c),
         Working, Sound(needed, vn, peer),
         \A c \in Agent : phase[c] = "sync" /\ sync[c] = "none"
  PROVE  /\ \A c, d \in Agent : it[c] >= 0 /\ it[c] = it[d]
         /\ \A c, d \in Agent : peer[c][d] = <<>>
<1>1. \A c \in Agent : Inside(c) /\ it[c] >= 0 /\ Round(c) = it[c]
  <2>1. \A c \in Agent : ~Behind(c)
    BY Positions
  <2> QED BY <2>1 DEF Working, Inside, Round
<1>2. \A c, d \in Agent : it[c] = it[d]
  BY <1>1 DEF Working
<1>3. ASSUME NEW c \in Agent, NEW d \in Agent, peer[c][d] # <<>> PROVE FALSE
  <2>1. peer[c][d] \in Seq(Message) /\ Queued(peer[c][d], c, d)
    BY DEF Nets, Sound
  <2>2. 1 \in DOMAIN peer[c][d]
    BY <1>3, <2>1, TailPlaces
  <2>3. peer[c][d][1].it \in It /\ Right(c, d, peer[c][d][1])
    BY <2>1, <2>2, PeerType DEF Queued
  <2>4. peer[c][d][1].it = it[d] + 1
    <3>1. it[d] \in Int /\ it[c] = it[d] /\ peer[c][d][1].it \in Int
      BY <1>2, <2>3, PageRankAssumption DEF TypeOK, It
    <3> QED BY <2>3, <3>1 DEF Right
  <2>5. needed[d][it[d] + 1] <= 0
    BY <1>1 DEF Waiting
  <2>6. /\ graph \subseteq Vertex \X Vertex /\ it \in [Agent -> -1 .. Supersteps + 1]
        /\ needed \in Needs
    BY DEF TypeOK, Needs
  <2>7. ~Pending(peer[c][d], it[d] + 1)
    BY <1>1, <2>5, <2>6, Complete
  <2> QED BY <2>2, <2>4, <2>7 DEF Pending
<1> QED BY <1>1, <1>2, <1>3

LEMMA DirSyncHolds ==
  ASSUME IInv, DirSync
  PROVE  IInv'
<1>1. TypeOK /\ peer \in Nets /\ \A c \in Agent : Alone(c) /\ Ranked(c)
  BY DEF IInv
<1>2. /\ UNCHANGED <<graph, share, vertexVars, it, needed, vn, links, vote, peer>>
      /\ UNCHANGED <<phase, batches>>
      /\ \A c \in Agent : phase[c] = "sync" /\ sync[c] = "none"
  BY DEF DirSync, agentVars
<1>3. /\ Sound(needed, vn, peer)' <=> Sound(needed, vn, peer)
      /\ \A c : Ranked(c)' <=> Ranked(c)
      /\ \A c : Mine(c)' = Mine(c) /\ Dest(c)' = Dest(c)
      /\ iteration' = iteration /\ pr' = pr
  BY <1>2, Kept
<1>4. sync' \in [Agent -> {"none", "go", "stop"}]
  BY DEF DirSync
<1>5. TypeOK' /\ peer' \in Nets
  BY <1>1, <1>2, <1>3, <1>4 DEF TypeOK
<1>6. ASSUME \A c \in Agent : sync'[c] = "go" => it[c] \in 0 .. Supersteps, NEW c \in Agent
      PROVE  Alone(c)'
  <2>1. Alone(c)
    BY <1>1
  <2> QED BY <1>2, <1>3, <1>6, <2>1 DEF Alone
<1>7. CASE Silent
  <2>1. \A c \in Agent : it[c] = -1
    BY <1>1, <1>2, <1>7, Positions DEF Silent
  <2>2. \A c \in Agent : ~vote[c]
    BY <1>1, <2>1 DEF Alone
  <2>3. \A c \in Agent : sync'[c] = "stop"
    BY <2>2 DEF DirSync
  <2>4. Silent'
    BY <1>2, <1>7, <2>3 DEF Silent, Quiet
  <2> QED BY <1>1, <1>3, <1>5, <1>6, <2>3, <2>4 DEF IInv
<1>8. CASE Working /\ Sound(needed, vn, peer) /\ \A c \in Agent : Waiting(c)
  <2>1. /\ \A c, d \in Agent : it[c] >= 0 /\ it[c] = it[d]
        /\ \A c, d \in Agent : peer[c][d] = <<>>
    BY <1>1, <1>2, <1>8, AllJoined
  <2>2. CASE \E b \in Agent : vote[b]
    <3>1. \A c \in Agent : sync'[c] = "go"
      BY <2>2 DEF DirSync
    <3>2. \A c \in Agent : it[c] \in 0 .. Supersteps
      BY <1>1, <2>1, <2>2 DEF Alone
    <3>3. \A c \in Agent : Behind(c)' /\ Round(c)' = it[c] + 1
      BY <1>2, <3>1 DEF Behind, Round
    <3>4. Working'
      BY <2>1, <3>3 DEF Working
    <3>5. \A c \in Agent : Waiting(c)'
      BY <1>2, <1>8 DEF Waiting
    <3> QED BY <1>1, <1>3, <1>5, <1>6, <1>8, <3>2, <3>4, <3>5 DEF IInv
  <2>3. CASE ~ \E b \in Agent : vote[b]
    <3>1. \A c \in Agent : sync'[c] = "stop"
      BY <2>3 DEF DirSync
    <3>2. Silent'
      BY <1>2, <2>1, <3>1 DEF Silent, Quiet
    <3> QED BY <1>1, <1>3, <1>5, <1>6, <3>1, <3>2 DEF IInv
  <2> QED BY <2>2, <2>3
<1> QED BY <1>7, <1>8 DEF IInv

LEMMA PrePollHolds ==
  ASSUME IInv, NEW a \in Agent, PrePoll(a)
  PROVE  IInv'
<1>1. TypeOK /\ peer \in Nets /\ \A c \in Agent : Alone(c) /\ Ranked(c)
  BY DEF IInv
<1>2. phase[a] = "process" /\ ProcessVertices(a, vn[a], needed[a], peer)
      /\ UNCHANGED <<graph, share, batches>> /\ sync' = sync
  BY DEF PrePoll
<1>3. Working /\ Sound(needed, vn, peer) /\ \A c \in Agent : Waiting(c)
  BY <1>1, <1>2, Positions DEF IInv, Silent
<1>4. Behind(a)
  <2>1. needed[a][it[a] + 1] <= 0
    BY <1>2 DEF ProcessVertices
  <2>2. ~Inside(a)
    <3> SUFFICES ASSUME it[a] >= 0 PROVE FALSE
      BY DEF Inside
    <3>1. needed[a][it[a] + 1] > 0
      BY <1>2, <1>3 DEF Waiting
    <3>2. it[a] + 1 \in It
      BY <1>1, PageRankAssumption DEF TypeOK, It
    <3>3. needed[a][it[a] + 1] \in 1 - Cardinality(Agent) .. Cardinality(Agent) - 1
      BY <1>1, <3>2 DEF TypeOK
    <3>4. Cardinality(Agent) \in Nat
      BY PageRankAssumption, FS_CardinalityType
    <3> QED BY <2>1, <3>1, <3>3, <3>4
  <2> QED BY <1>3, <2>2 DEF Working
<1>5. sync' = [sync EXCEPT ![a] = "none"]
  <2>1. sync[a] = "none" /\ DOMAIN sync = Agent /\ sync = [c \in Agent |-> sync[c]]
    BY <1>1, <1>2, <1>4, Positions DEF TypeOK
  <2> QED BY <1>2, <2>1
<1>6. needed \in Needs /\ vn \in Copies
  <2>1. \A i, j \in Int : i .. j \subseteq Int
    OBVIOUS
  <2> QED BY <1>1 DEF TypeOK, Needs, Copies, Ranks
<1> QED BY <1>1, <1>2, <1>3, <1>4, <1>5, <1>6, Superstep
LEMMA RecvSyncHolds ==
  ASSUME IInv, NEW a \in Agent, RecvSync(a)
  PROVE  IInv'
<1>1. TypeOK /\ peer \in Nets /\ \A c \in Agent : Alone(c) /\ Ranked(c)
  BY DEF IInv
<1>2. /\ phase[a] = "sync" /\ sync[a] # "none" /\ sync' = [sync EXCEPT ![a] = "none"]
      /\ UNCHANGED <<graph, share, batches>>
  BY DEF RecvSync
<1>3. CASE sync[a] = "go"
  <2>1. ProcessVertices(a, Collected(a), needed[a], peer)
    BY <1>3 DEF RecvSync
  <2>2. Working /\ Sound(needed, vn, peer) /\ \A c \in Agent : Waiting(c)
    BY <1>1, <1>3, Positions DEF IInv, Silent
  <2>3. Behind(a)
    BY <1>3 DEF Behind
  <2>4. needed \in Needs /\ vn \in Copies
    <3>1. \A i, j \in Int : i .. j \subseteq Int
      OBVIOUS
    <3> QED BY <1>1 DEF TypeOK, Needs, Copies, Ranks
  <2> DEFINE copies == [vn EXCEPT ![a] = Collected(a)]
  <2>5. copies \in Copies /\ Sound(needed, copies, peer)
    <3>1. it \in [Agent -> Int]
      BY <1>1, PageRankAssumption DEF TypeOK
    <3> QED BY <2>2, <2>4, <3>1, Collect
  <2>6. copies[a] = Collected(a) /\ \A c \in Agent : c # a => copies[c] = vn[c]
    BY <2>4 DEF Copies
  <2> HIDE DEF copies
  <2>7. \A c \in Agent : c # a => copies[c] = vn[c] /\ Waiting(c)
    BY <2>2, <2>6
  <2>8. ProcessVertices(a, copies[a], needed[a], peer)
    BY <2>1, <2>6
  <2> QED BY <1>1, <1>2, <2>2, <2>3, <2>4, <2>5, <2>7, <2>8, Superstep
<1>4. CASE sync[a] = "stop"
  <2>1. /\ phase' = [phase EXCEPT ![a] = "idle"]
        /\ ClearBatchMem(a)
        /\ UNCHANGED <<pr, peer>>
    BY <1>4 DEF RecvSync
  <2>2. Silent
    BY <1>1, <1>4, Positions DEF IInv, Working
  <2>3. /\ it' = [it EXCEPT ![a] = -1]
        /\ needed' = [needed EXCEPT ![a] = [k \in It |-> 0]]
        /\ vn' = [vn EXCEPT ![a] = [k \in It |-> NoValues]]
        /\ vote' = [vote EXCEPT ![a] = FALSE]
        /\ iteration' = [v \in Vertex |-> IF v \in Mine(a) THEN 0 ELSE iteration[v]]
        /\ links' = links
    BY <2>1 DEF ClearBatchMem
  <2>4. /\ \A c : Mine(c)' = Mine(c) /\ Dest(c)' = Dest(c)
        /\ \A j, v : Exact(j, v)' = Exact(j, v)
    BY <1>2, SameGraph, SameRanks
  <2>5. /\ it'[a] = -1 /\ phase'[a] = "idle" /\ sync'[a] = "none" /\ vote'[a] = FALSE
        /\ \A j \in It : needed'[a][j] = 0
        /\ \A c \in Agent : c # a => /\ it'[c] = it[c] /\ phase'[c] = phase[c] /\ sync'[c] = sync[c]
                                     /\ vote'[c] = vote[c] /\ needed'[c] = needed[c]
    BY <1>1, <1>2, <2>1, <2>3 DEF TypeOK
  <2>6. TypeOK'
    <3>1. Cardinality(Agent) \in Nat /\ Cardinality(Agent) # 0
      BY PageRankAssumption, FS_CardinalityType, FS_EmptySet
    <3>2. 0 \in 1 - Cardinality(Agent) .. Cardinality(Agent) - 1
      BY <3>1
    <3>3. needed' \in [Agent -> [It -> 1 - Cardinality(Agent) .. Cardinality(Agent) - 1]]
      BY <1>1, <2>3, <3>2 DEF TypeOK
    <3>4. NoValues \in [Vertex -> Rank]
      BY DEF NoValues, Rank
    <3>5. vn' \in [Agent -> [It -> [Vertex -> Rank]]]
      BY <1>1, <2>3, <3>4 DEF TypeOK
    <3>6. 0 \in It /\ -1 \in -1 .. Supersteps + 1
      BY PageRankAssumption DEF It
    <3>7. it' \in [Agent -> -1 .. Supersteps + 1] /\ iteration' \in [Vertex -> It]
      BY <1>1, <2>3, <3>6 DEF TypeOK
    <3> QED BY <1>1, <1>2, <2>1, <2>3, <3>3, <3>5, <3>7 DEF TypeOK
  <2>7. ASSUME NEW c \in Agent PROVE Alone(c)'
    <3>1. Alone(c)
      BY <1>1
    <3>2. graph \subseteq Vertex \X Vertex
      BY <1>1 DEF TypeOK
    <3>3. CASE c = a
      <4>1. \A v \in Vertex : Owner[v] = a => iteration'[v] = 0
        BY <2>3, <3>1, <3>3 DEF Alone
      <4>2. ~(-1 \in 0 .. Supersteps) /\ ~(-1 >= 0) /\ -1 + 1 = 0
        OBVIOUS
      <4> QED BY <2>3, <2>4, <2>5, <3>1, <3>3, <4>1, <4>2 DEF Alone
    <3>4. CASE c # a
      <4>1. \A v \in Vertex : Owner[v] = c => iteration'[v] = iteration[v]
        BY <2>3, <3>2, <3>4, EdgeFacts
      <4> QED BY <2>3, <2>4, <2>5, <3>1, <3>4, <4>1 DEF Alone
    <3> QED BY <3>3, <3>4
  <2>8. ASSUME NEW c \in Agent PROVE Ranked(c)'
    <3>1. Ranked(c)
      BY <1>1
    <3> QED BY <2>1, <2>4, <2>5, <3>1 DEF Ranked
  <2>9. Silent'
    BY <2>1, <2>2, <2>5 DEF Silent, Quiet
  <2> QED BY <1>1, <2>1, <2>6, <2>7, <2>8, <2>9 DEF IInv
<1> QED BY <1>1, <1>2, <1>3, <1>4 DEF TypeOK

(* What is missing is never less than nothing.                             *)
LEMMA Missing ==
  ASSUME TypeOK, NEW need \in Needs, NEW copies, NEW net, Sound(need, copies, net),
         NEW a \in Agent, it[a] >= 0
  PROVE  it[a] + 1 \in It /\ need[a][it[a] + 1] \in Nat
<1>1. it[a] + 1 \in It /\ it[a] \in Int
  BY PageRankAssumption DEF TypeOK, It
<1>2. graph \subseteq Vertex \X Vertex
  BY DEF TypeOK
<1>3. /\ Cardinality(Used(a)) \in Nat
      /\ Cardinality(Arrived(net, a, it[a] + 1)) \in 0 .. Cardinality(Used(a))
  BY <1>2, SendsFacts, ArrivedType, FS_CardinalityType
<1>4. Expected(a, it[a] + 1) = Cardinality(Used(a))
  BY <1>1 DEF Expected
<1>5. need[a][it[a] + 1] = Expected(a, it[a] + 1) - Cardinality(Arrived(net, a, it[a] + 1))
  BY <1>1 DEF Sound, Counted
<1> QED BY <1>1, <1>3, <1>4, <1>5

LEMMA RecvOutVnHolds ==
  ASSUME IInv, NEW a \in Agent, NEW b \in Agent, RecvOutVn(a, b)
  PROVE  IInv'
<1>1. TypeOK /\ peer \in Nets /\ \A c \in Agent : Alone(c) /\ Ranked(c)
  BY DEF IInv
<1>2. peer[b][a] # <<>> /\ UNCHANGED <<graph, share, sync, batches>>
  BY DEF RecvOutVn
<1>3. Working /\ Sound(needed, vn, peer) /\ \A c \in Agent : Waiting(c)
  BY <1>2 DEF IInv, Silent
<1>4. needed \in Needs /\ vn \in Copies /\ it \in [Agent -> Int] /\ graph \subseteq Vertex \X Vertex
  <2>1. \A i, j \in Int : i .. j \subseteq Int
    OBVIOUS
  <2> QED BY <1>1, PageRankAssumption DEF TypeOK, Needs, Copies, Ranks
<1>5. phase[a] # "idle"
  BY <1>1, <1>3, Positions DEF Working
<1>6. PICK m : m = Head(peer[b][a])
  OBVIOUS
<1> DEFINE net == Taken(peer, b, a)
           need == Missed(needed, a, m)
           copies == Noted(vn, a, m)
           joins == phase[a] = "process" /\ it[a] >= 0 /\ need[a][it[a] + 1] = 0
<1>7. Sound(need, copies, net) /\ m \in Message
  BY <1>1, <1>2, <1>3, <1>4, <1>6, Receive
<1>8. /\ net \in Nets /\ need \in Needs /\ copies \in Copies
      /\ \A c \in Agent, j \in It : need[c][j] = needed[c][j] - IF c = a /\ j = m.it THEN 1 ELSE 0
  BY <1>1, <1>2, <1>4, <1>7, TakenType
<1>9. /\ need[a] = [needed[a] EXCEPT ![m.it] = @ - 1]
      /\ copies[a] = [vn[a] EXCEPT ![m.it] =
           [v \in Vertex |-> IF v \in DOMAIN m.vals THEN m.vals[v] ELSE @[v]]]
      /\ need = [needed EXCEPT ![a] = need[a]] /\ copies = [vn EXCEPT ![a] = copies[a]]
      /\ \A c \in Agent : c # a => need[c] = needed[c] /\ copies[c] = vn[c]
  BY <1>4 DEF Missed, Noted, Needs, Copies
<1>10. \/ /\ phase[a] = "process" /\ ~joins /\ need[a][it[a] + 1] <= 0
          /\ ProcessVertices(a, copies[a], need[a], net)
       \/ /\ ~(phase[a] = "process" /\ ~joins /\ need[a][it[a] + 1] <= 0)
          /\ peer' = net /\ needed' = need /\ vn' = copies
          /\ phase' = IF joins THEN [phase EXCEPT ![a] = "sync"] ELSE phase
          /\ UNCHANGED <<vertexVars, it, links, vote>>
  <2> DEFINE left == [peer EXCEPT ![b][a] = Tail(@)]
             first == Head(peer[b][a])
             counts == [needed[a] EXCEPT ![first.it] = @ - 1]
             values == [vn[a] EXCEPT ![first.it] =
                         [v \in Vertex |-> IF v \in DOMAIN first.vals THEN first.vals[v] ELSE @[v]]]
             enters == phase[a] = "process" /\ it[a] >= 0 /\ counts[it[a] + 1] = 0
  <2>1. left = net /\ counts = need[a] /\ values = copies[a]
    BY <1>6, <1>9 DEF Taken
  <2>2. (CASE phase[a] = "idle" -> peer' = left /\ UNCHANGED <<vertexVars, agentVars>>
           [] phase[a] = "process" /\ ~enters /\ counts[it[a] + 1] <= 0 ->
                ProcessVertices(a, values, counts, left)
           [] OTHER ->
                /\ peer' = left
                /\ needed' = [needed EXCEPT ![a] = counts]
                /\ vn' = [vn EXCEPT ![a] = values]
                /\ phase' = IF enters THEN [phase EXCEPT ![a] = "sync"] ELSE phase
                /\ UNCHANGED <<vertexVars, it, links, vote>>)
    BY Zenon DEF RecvOutVn
  <2> DEFINE runs == phase[a] = "process" /\ ~enters /\ counts[it[a] + 1] <= 0
             records == /\ peer' = left /\ needed' = [needed EXCEPT ![a] = counts]
                        /\ vn' = [vn EXCEPT ![a] = values]
                        /\ phase' = IF enters THEN [phase EXCEPT ![a] = "sync"] ELSE phase
                        /\ UNCHANGED <<vertexVars, it, links, vote>>
             starts == ProcessVertices(a, values, counts, left)
  <2>3. (runs /\ starts) \/ (~runs /\ records)
    <3> HIDE DEF left, counts, values, enters
    <3> QED BY Zenon, <1>5, <2>2
  <2> HIDE DEF net, need, copies, left, counts, values
  <2>4. enters <=> joins
    BY <2>1
  <2>5. starts <=> ProcessVertices(a, copies[a], need[a], net)
    BY <2>1
  <2> HIDE DEF enters, joins
  <2> QED BY <1>9, <2>1, <2>3, <2>4, <2>5
<1> HIDE DEF net, need, copies
<1>11. it[a] >= 0 => it[a] + 1 \in It /\ need[a][it[a] + 1] \in Nat
  BY <1>1, <1>7, <1>8, Missing
<1>12. CASE /\ phase[a] = "process" /\ ~joins /\ need[a][it[a] + 1] <= 0
            /\ ProcessVertices(a, copies[a], need[a], net)
  <2>1. Behind(a)
    <3>1. ~Inside(a)
      BY <1>11, <1>12 DEF Inside
    <3> QED BY <1>3, <3>1 DEF Working
  <2>2. sync' = [sync EXCEPT ![a] = "none"]
    <3>1. sync[a] = "none" /\ DOMAIN sync = Agent /\ sync = [c \in Agent |-> sync[c]]
      BY <1>1, <1>12, <2>1, Positions DEF TypeOK
    <3> QED BY <1>2, <3>1
  <2>3. \A c \in Agent : c # a => need[c] = needed[c] /\ copies[c] = vn[c] /\ Waiting(c)
    BY <1>3, <1>9
  <2>4. ProcessVertices(a, copies[a], need[a], net) /\ UNCHANGED <<graph, share, batches>>
    BY <1>2, <1>12
  <2> QED BY <1>1, <1>3, <1>7, <1>8, <2>1, <2>2, <2>3, <2>4, Superstep
<1>13. CASE /\ ~(phase[a] = "process" /\ ~joins /\ need[a][it[a] + 1] <= 0)
            /\ peer' = net /\ needed' = need /\ vn' = copies
            /\ phase' = IF joins THEN [phase EXCEPT ![a] = "sync"] ELSE phase
            /\ UNCHANGED <<vertexVars, it, links, vote>>
  <2>1. /\ graph' = graph /\ share' = share /\ it' = it /\ links' = links /\ vote' = vote
        /\ pr' = pr /\ iteration' = iteration /\ sync' = sync /\ batches' = batches
    BY <1>2, <1>13 DEF vertexVars
  <2>2. /\ phase' \in [Agent -> {"load", "update", "process", "sync", "idle"}]
        /\ \A c \in Agent : c # a => phase'[c] = phase[c]
        /\ phase'[a] = IF joins THEN "sync" ELSE phase[a]
    BY <1>1, <1>13 DEF TypeOK
  <2>3. /\ \A v : NotifyAgents(v)' = NotifyAgents(v)
        /\ \A c : Mine(c)' = Mine(c) /\ Used(c)' = Used(c) /\ Dest(c)' = Dest(c)
        /\ \A c, d : Sends(c, d)' = Sends(c, d) /\ Told(c, d)' = Told(c, d)
        /\ \A j, v : Exact(j, v)' = Exact(j, v)
        /\ \A j, u : Note(j, u)' = Note(j, u)
    BY <2>1, SameGraph, SameRanks
  <2>4. TypeOK' /\ peer' \in Nets
    <3>1. need \in [Agent -> [It -> 1 - Cardinality(Agent) .. Cardinality(Agent) - 1]]
      <4>1. \A c \in Agent, j \in It : need[c][j] \in 1 - Cardinality(Agent) .. Cardinality(Agent) - 1
        BY <1>4, <1>7, CountedType DEF Sound
      <4> QED BY <1>8, <4>1 DEF Needs
    <3>2. \A c, d \in Agent : \A i \in DOMAIN net[c][d] :
            /\ net[c][d][i].it \in It
            /\ net[c][d][i].vals \in [DOMAIN net[c][d][i].vals -> Rank]
      BY <1>8, PeerType
    <3> QED BY <1>1, <1>8, <1>13, <2>1, <2>2, <3>1, <3>2 DEF TypeOK, Copies, Ranks
  <2>5. ASSUME NEW c \in Agent PROVE Alone(c)'
    <3>1. Alone(c)
      BY <1>1
    <3>2. joins => sync[a] = "none"
      BY <1>1 DEF Alone
    <3>3. phase'[c] = "idle" => phase[c] = "idle" /\ c # a
      BY <1>5, <2>2
    <3>4. needed'[c] = needed[c] \/ c = a
      BY <1>9, <1>13
    <3> QED BY <2>1, <2>2, <2>3, <3>1, <3>2, <3>3, <3>4 DEF Alone
  <2>6. ASSUME NEW c \in Agent PROVE Ranked(c)'
    <3>1. Ranked(c)
      BY <1>1
    <3> QED BY <2>1, <2>3, <3>1 DEF Ranked
  <2>7. Working'
    <3>1. \A c \in Agent : (Behind(c)' <=> Behind(c)) /\ (Inside(c)' <=> Inside(c))
      BY <2>1, <2>2 DEF Behind, Inside
    <3>2. \A c \in Agent : Round(c)' = Round(c)
      BY <2>1, <3>1 DEF Round
    <3> QED BY <1>3, <3>1, <3>2 DEF Working
  <2>8. Sound(needed, vn, peer)'
    <3>1. \A q, c, d : Queued(q, c, d)' <=> Queued(q, c, d)
      <4>1. \A x, c, d : Right(c, d, x)' <=> Right(c, d, x)
        BY <2>1, <2>3 DEF Right
      <4> QED BY <2>3, <4>1 DEF Queued
    <3>2. \A nd, nt, d : Counted(nd, nt, d)' <=> Counted(nd, nt, d)
      <4>1. \A nt, d, j : Arrived(nt, d, j)' = Arrived(nt, d, j)
        BY <2>1, <2>3 DEF Arrived
      <4>2. \A d, j : Expected(d, j)' = Expected(d, j)
        BY <2>1, <2>3 DEF Expected
      <4> QED BY <4>1, <4>2 DEF Counted
    <3>3. \A cs, nt, d : Valued(cs, nt, d)' <=> Valued(cs, nt, d)
      <4>1. \A nt, d, k, u : Due(nt, d, k, u)' <=> Due(nt, d, k, u)
        BY <2>1, <2>3 DEF Due
      <4> QED BY <2>3, <4>1 DEF Valued
    <3> QED BY <1>7, <1>13, <3>1, <3>2, <3>3 DEF Sound
  <2>9. ASSUME NEW c \in Agent PROVE Waiting(c)'
    <3>1. CASE c # a
      BY <1>3, <1>9, <1>13, <2>1, <2>2, <3>1 DEF Waiting
    <3>2. CASE c = a
      <4> SUFFICES ASSUME it[a] >= 0
                   PROVE  IF phase'[a] = "process" THEN need[a][it[a] + 1] > 0
                                                   ELSE need[a][it[a] + 1] = 0
        BY <1>13, <2>1, <3>2 DEF Waiting
      <4>1. it[a] + 1 \in It /\ need[a][it[a] + 1] \in Nat
        BY <1>11
      <4>2. phase[a] \in {"process", "sync"}
        BY <1>1 DEF Alone
      <4>3. CASE phase[a] = "process"
        BY <1>13, <2>2, <4>1, <4>3
      <4>4. CASE phase[a] = "sync"
        <5>1. needed[a][it[a] + 1] = 0
          BY <1>3, <4>4 DEF Waiting
        <5>2. need[a][it[a] + 1] <= 0
          BY <1>8, <4>1, <5>1
        <5> QED BY <2>2, <4>1, <4>4, <5>2
      <4> QED BY <4>2, <4>3, <4>4
    <3> QED BY <3>1, <3>2
  <2> QED BY <2>4, <2>5, <2>6, <2>7, <2>8, <2>9 DEF IInv
<1> QED BY <1>10, <1>12, <1>13
(* Between batches nothing is on its way and nothing is counted.           *)
LEMMA AtRest ==
  ASSUME IInv, Rest
  PROVE  /\ \A a, b \in Agent : peer[a][b] = <<>>
         /\ \A a \in Agent : /\ it[a] = -1 /\ sync[a] = "none" /\ vote[a] = FALSE
                             /\ \A j \in It : needed[a][j] = 0
         /\ \A v \in Vertex : iteration[v] = 0
<1>1. TypeOK /\ \A c \in Agent : Alone(c)
  BY DEF IInv
<1>2. \A a \in Agent : phase[a] = "idle" /\ it[a] = -1 /\ sync[a] = "none" /\ ~Behind(a) /\ ~Inside(a)
  BY <1>1, Positions DEF Rest
<1>3. \A a, b \in Agent : peer[a][b] = <<>>
  BY <1>2 DEF IInv, Silent, Working
<1>4. \A a \in Agent : vote[a] = FALSE /\ \A j \in It : needed[a][j] = 0
  BY <1>1, <1>2 DEF Alone, TypeOK
<1>5. ASSUME NEW v \in Vertex PROVE iteration[v] = 0
  <2>1. Owner[v] \in Agent
    BY PageRankAssumption
  <2> QED BY <1>1, <1>2, <2>1 DEF Alone
<1> QED BY <1>2, <1>3, <1>4, <1>5

LEMMA BeginHolds ==
  ASSUME IInv, Begin
  PROVE  IInv'
<1>1. TypeOK /\ peer \in Nets /\ \A c \in Agent : Alone(c)
  BY DEF IInv
<1>2. /\ batches < MaxBatches /\ batches' = batches + 1
      /\ share' \in Shares /\ phase' = [a \in Agent |-> "update"]
      /\ pr' = pr /\ iteration' = iteration /\ it' = it /\ needed' = needed /\ vn' = vn
      /\ links' = links /\ vote' = vote /\ sync' = sync /\ peer' = peer
  BY DEF Begin, vertexVars
<1>3. \/ graph' = graph
      \/ \E e \in Streamed : graph' = graph \cup {e} \/ graph' = graph \ {e}
  BY DEF Begin
<1>4. graph' \subseteq Vertex \X Vertex
  BY <1>1, <1>3, PageRankAssumption DEF TypeOK
<1>5. \A a, b : Sends(a, b)' <=> Sends(a, b)
  BY <1>3, PageRankAssumption DEF Sends
<1>6. \A a : Dest(a)' = Dest(a)
  BY <1>5 DEF Dest
<1>7. /\ \A a, b \in Agent : peer[a][b] = <<>>
      /\ \A a \in Agent : /\ it[a] = -1 /\ sync[a] = "none" /\ vote[a] = FALSE
                          /\ \A j \in It : needed[a][j] = 0
      /\ \A v \in Vertex : iteration[v] = 0
  BY AtRest DEF Begin
<1>8. TypeOK'
  BY <1>1, <1>2, <1>4, PageRankAssumption DEF TypeOK
<1>9. ASSUME NEW a \in Agent PROVE Alone(a)' /\ Ranked(a)' /\ Waiting(a)'
  <2>1. Alone(a) /\ phase'[a] = "update"
    BY <1>1, <1>2
  <2>2. ~(-1 \in 0 .. Supersteps) /\ ~(-1 >= 0) /\ -1 + 1 = 0
    OBVIOUS
  <2> QED BY <1>2, <1>6, <1>7, <2>1, <2>2 DEF Alone, Ranked, Waiting
<1>10. Working'
  BY <1>2, <1>7 DEF Working, Behind, Round
<1>11. Sound(needed, vn, peer)'
  <2>1. ASSUME NEW a \in Agent, NEW j \in It
        PROVE  needed'[a][j] = Expected(a, j)' - Cardinality(Arrived(peer, a, j)')
    <3>1. j \in Int /\ needed'[a][j] = 0
      BY <1>2, <1>7, PageRankAssumption DEF It
    <3>2. Arrived(peer, a, j)' = {}
      BY <1>2, <1>7, <3>1 DEF Arrived, Used
    <3>3. Expected(a, j)' = 0
      BY <1>2, <1>7, <3>1 DEF Expected
    <3> QED BY <3>1, <3>2, <3>3, FS_EmptySet
  <2>2. \A a \in Agent : Counted(needed[a], peer, a)'
    BY <2>1 DEF Counted
  <2>3. \A a \in Agent : Valued(vn[a], peer, a)'
    <3>1. ASSUME NEW k \in 1 .. Supersteps + 1, NEW u \in Vertex PROVE ~(k <= it'[Owner[u]] + 1)
      BY <1>2, <1>7, PageRankAssumption
    <3> QED BY <3>1 DEF Valued, Due
  <2>4. \A a, b \in Agent : Queued(peer[b][a], b, a)'
    <3>1. \A a, b \in Agent : peer'[b][a] = <<>>
      BY <1>2, <1>7
    <3> QED BY <3>1 DEF Queued, Ordered
  <2> QED BY <2>2, <2>3, <2>4 DEF Sound
<1> QED BY <1>1, <1>2, <1>8, <1>9, <1>10, <1>11 DEF IInv

LEMMA ResetHolds ==
  ASSUME IInv, Reset
  PROVE  IInv'
<1>1. TypeOK /\ peer \in Nets /\ \A c \in Agent : Alone(c)
  BY DEF IInv
<1>2. /\ pr' = [v \in Vertex |-> 0]
      /\ graph' = graph /\ share' = share /\ iteration' = iteration /\ it' = it /\ phase' = phase
      /\ needed' = needed /\ vn' = vn /\ links' = links /\ vote' = vote /\ sync' = sync
      /\ peer' = peer /\ batches' = batches
  BY DEF Reset, agentVars
<1>3. /\ \A a, b \in Agent : peer[a][b] = <<>>
      /\ \A a \in Agent : it[a] = -1 /\ phase[a] = "idle"
  BY AtRest DEF Reset, Rest
<1>4. 0 \in Rank
  BY PrimeType DEF Rank, Number
<1>5. TypeOK'
  BY <1>1, <1>2, <1>4 DEF TypeOK
<1>6. ASSUME NEW a \in Agent PROVE Alone(a)' /\ Ranked(a)'
  <2>1. Alone(a) /\ ~(-1 >= 0)
    BY <1>1
  <2>2. Mine(a)' = Mine(a) /\ Dest(a)' = Dest(a)
    BY <1>2, SameGraph
  <2> QED BY <1>2, <1>3, <2>1, <2>2 DEF Alone, Ranked
<1>7. Silent'
  BY <1>2, <1>3 DEF Silent, Quiet
<1> QED BY <1>1, <1>2, <1>5, <1>6, <1>7 DEF IInv

LEMMA StutterHolds ==
  ASSUME IInv, UNCHANGED vars
  PROVE  IInv'
<1>1. /\ UNCHANGED <<graph, share, vertexVars, it, needed, vn, links, vote, peer>>
      /\ phase' = phase /\ sync' = sync /\ batches' = batches
  BY DEF vars, agentVars
<1>2. /\ Sound(needed, vn, peer)' <=> Sound(needed, vn, peer)
      /\ \A a : Ranked(a)' <=> Ranked(a)
      /\ \A a : Mine(a)' = Mine(a) /\ Dest(a)' = Dest(a)
      /\ iteration' = iteration /\ pr' = pr
  BY <1>1, Kept
<1>3. TypeOK' <=> TypeOK
  BY <1>1, <1>2 DEF TypeOK
<1>4. \A a \in Agent : (Alone(a)' <=> Alone(a)) /\ (Waiting(a)' <=> Waiting(a))
  BY <1>1, <1>2 DEF Alone, Waiting
<1>5. (Silent' <=> Silent) /\ (Working' <=> Working)
  BY <1>1 DEF Silent, Working, Quiet, Behind, Inside, Round
<1> QED BY <1>1, <1>2, <1>3, <1>4, <1>5 DEF IInv

LEMMA NextHolds == IInv /\ [Next]_vars => IInv'
<1> SUFFICES ASSUME IInv, [Next]_vars PROVE IInv'
  OBVIOUS
<1>1. CASE DirSync
  BY <1>1, DirSyncHolds
<1>2. ASSUME NEW a \in Agent, PrePoll(a) PROVE IInv'
  BY <1>2, PrePollHolds
<1>3. ASSUME NEW a \in Agent, RecvNv(a) PROVE IInv'
  BY <1>3, RecvNvHolds
<1>4. ASSUME NEW a \in Agent, RecvSync(a) PROVE IInv'
  BY <1>4, RecvSyncHolds
<1>5. ASSUME NEW a \in Agent, NEW b \in Agent, RecvOutVn(a, b) PROVE IInv'
  BY <1>5, RecvOutVnHolds
<1>6. CASE Begin
  BY <1>6, BeginHolds
<1>7. CASE Reset
  BY <1>7, ResetHolds
<1>8. CASE UNCHANGED vars
  BY <1>8, StutterHolds
<1> QED BY <1>1, <1>2, <1>3, <1>4, <1>5, <1>6, <1>7, <1>8 DEF Next, Work

LEMMA Inductive == Spec => []IInv
<1>1. Init => IInv
  BY InitHolds
<1>2. IInv /\ [Next]_vars => IInv'
  BY NextHolds
<1> QED BY <1>1, <1>2, PTL DEF Spec

-----------------------------------------------------------------------------
(* The results.                                                            *)

(* Every variable of the BSP agents keeps its type, whatever the number of *)
(* agents, vertices and supersteps; so no count of missing notifications   *)
(* (agent_msgs_needed_, agentbsp.cpp) is ever that of more agents than     *)
(* there are.                                                              *)
THEOREM TypesKept == Spec => []TypeOK
<1>1. IInv => TypeOK
  BY DEF IInv
<1> QED BY <1>1, Inductive, PTL

(* PageRank::run (pralgorithm.cpp:29-90) on any number of agents computes  *)
(* what power iteration computes in one place: whatever the order in which *)
(* agents run and notifications arrive, no rank of another superstep, of   *)
(* another batch or of no vertex at all is ever summed.                    *)
THEOREM PowerIteration == Spec => []RanksExact
<1>1. IInv => RanksExact
  BY DEF IInv, Ranked, Exact, RanksExact
<1> QED BY <1>1, Inductive, PTL
=============================================================================
