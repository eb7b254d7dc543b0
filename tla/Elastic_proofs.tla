--------------------------- MODULE Elastic_proofs ---------------------------
(***************************************************************************)
(* The ring: the binary search finds what it is meant to, and the hashing  *)
(* is consistent: when agents come or go, a key only moves to an agent     *)
(* that came or from an agent that left.                                   *)
(*                                                                         *)
(* The agents, also if the operator does not wait: no copy of an edge is   *)
(* in two places, and when all is quiet every copy is where everybody      *)
(* looks for it.  The invariants come in layers, each proved from those    *)
(* before it: the types; acknowledgements and copies; lists of agents on   *)
(* their way.  ElasticCareful_proofs adds who is on the lists, rounds of   *)
(* load balancing, and agents that leave.                                  *)
(*                                                                         *)
(* All is for any number of agents, directories, virtual agents and edges. *)
(***************************************************************************)
EXTENDS Elastic, DataLemmas

-----------------------------------------------------------------------------
(* The ring: sets of numbers of any size.                                  *)

(* Two searches of one ring agree: two participants with the same list of  *)
(* agents send an edge to the same place (participant.cpp:240-251).        *)
THEOREM SuccessorUnique ==
  ASSUME NEW ring \in SUBSET Nat, NEW k \in Nat, NEW p, NEW q,
         IsSuccessor(ring, k, p), IsSuccessor(ring, k, q)
  PROVE  p = q
  <1>1. p \in Nat /\ q \in Nat
    BY DEF IsSuccessor
  <1> QED
    BY <1>1 DEF IsSuccessor

(* Positions that join a ring take keys, but no key moves between the      *)
(* positions that were there.                                              *)
THEOREM JoinMovesOnlyToNew ==
  ASSUME NEW ring \in SUBSET Nat, NEW new \in SUBSET Nat, NEW k \in Nat, NEW p, NEW q,
         IsSuccessor(ring, k, p), IsSuccessor(ring \cup new, k, q)
  PROVE  q = p \/ q \in new
  <1>1. SUFFICES ASSUME q \notin new PROVE q = p
    OBVIOUS
  <1>2. q \in ring /\ q \in Nat
    BY <1>1 DEF IsSuccessor
  <1>3. IsSuccessor(ring, k, q)
    BY <1>2 DEF IsSuccessor
  <1> QED
    BY <1>3, SuccessorUnique

(* Positions that leave a ring give their keys away, and nobody else does. *)
THEOREM LeaveMovesOnlyFromGone ==
  ASSUME NEW ring \in SUBSET Nat, NEW gone, NEW k \in Nat, NEW p, NEW q,
         IsSuccessor(ring, k, p), IsSuccessor(ring \ gone, k, q)
  PROVE  q = p \/ p \in gone
  <1>1. SUFFICES ASSUME p \notin gone PROVE q = p
    OBVIOUS
  <1>2. p \in ring \ gone
    BY <1>1 DEF IsSuccessor
  <1>3. IsSuccessor(ring \ gone, k, p)
    BY <1>2 DEF IsSuccessor
  <1>4. ring \ gone \in SUBSET Nat
    OBVIOUS
  <1> QED
    BY <1>3, <1>4, SuccessorUnique

-----------------------------------------------------------------------------
(* The array of a ring.                                                    *)

(* How many positions of the ring are below p.                             *)
Rank(ring, p) == Cardinality({q \in ring : q < p})

LEMMA RankGrows ==
  ASSUME NEW ring \in SUBSET Nat, IsFiniteSet(ring), NEW p \in ring
  PROVE  /\ Rank(ring, p) \in 0 .. Cardinality(ring) - 1
         /\ \A q \in ring : p < q => Rank(ring, p) < Rank(ring, q)
<1> DEFINE Low(x) == {q \in ring : q < x}
<1>1. ASSUME NEW S \in SUBSET ring, NEW T \in SUBSET S, p \in S \ T
      PROVE  Cardinality(T) \in Nat /\ Cardinality(S) \in Nat /\ Cardinality(T) < Cardinality(S)
  <2>1. IsFiniteSet(S) /\ IsFiniteSet(T)
    BY FS_Subset
  <2>2. Cardinality(T) <= Cardinality(S) /\ Cardinality(T) # Cardinality(S)
    BY <1>1, <2>1, FS_Subset
  <2>3. Cardinality(T) \in Nat /\ Cardinality(S) \in Nat
    BY <2>1, FS_CardinalityType
  <2> QED BY <2>2, <2>3
<1>2. Rank(ring, p) \in 0 .. Cardinality(ring) - 1
  <2>1. Low(p) \in SUBSET ring /\ p \in ring \ Low(p)
    OBVIOUS
  <2>2. /\ Cardinality(Low(p)) \in Nat /\ Cardinality(ring) \in Nat
        /\ Cardinality(Low(p)) < Cardinality(ring)
    BY <1>1, <2>1
  <2> QED BY <2>2 DEF Rank
<1>3. ASSUME NEW q \in ring, p < q PROVE Rank(ring, p) < Rank(ring, q)
  <2>1. Low(q) \in SUBSET ring /\ p \in Low(q) \ Low(p)
    BY <1>3
  <2>2. ASSUME NEW x \in Low(p) PROVE x \in Low(q)
    <3>1. x \in Nat /\ p \in Nat /\ q \in Nat /\ x < p
      OBVIOUS
    <3> QED BY <1>3, <3>1
  <2>3. Low(p) \in SUBSET Low(q)
    BY <2>2
  <2>4. Cardinality(Low(p)) < Cardinality(Low(q))
    BY <1>1, <2>1, <2>3
  <2> QED BY <2>4 DEF Rank
<1> QED BY <1>2, <1>3

LEMMA RankOrders ==
  ASSUME NEW ring \in SUBSET Nat, IsFiniteSet(ring), NEW p \in ring, NEW q \in ring
  PROVE  /\ Rank(ring, p) < Rank(ring, q) => p < q
         /\ Rank(ring, p) = Rank(ring, q) => p = q
<1>1. Cardinality(ring) \in Nat /\ p \in Nat /\ q \in Nat
  BY FS_CardinalityType
<1>2. Rank(ring, p) \in Nat /\ Rank(ring, q) \in Nat
  BY <1>1, RankGrows
<1>3. (p < q => Rank(ring, p) < Rank(ring, q)) /\ (q < p => Rank(ring, q) < Rank(ring, p))
  BY RankGrows
<1> QED BY <1>1, <1>2, <1>3

(* Every place of the array has a position.                                *)
LEMMA RankOnto ==
  ASSUME NEW ring \in SUBSET Nat, IsFiniteSet(ring), NEW i \in 1 .. Cardinality(ring)
  PROVE  \E p \in ring : Rank(ring, p) = i - 1
<1> DEFINE n == Cardinality(ring)
           f == [p \in ring |-> Rank(ring, p) + 1]
<1>1. n \in Nat
  BY FS_CardinalityType
<1>2. f \in [ring -> 1 .. n]
  BY <1>1, RankGrows
<1>3. ASSUME NEW p \in ring, NEW q \in ring, f[p] = f[q] PROVE p = q
  <2>1. Rank(ring, p) \in Nat /\ Rank(ring, q) \in Nat /\ Rank(ring, p) = Rank(ring, q)
    BY <1>1, <1>3, RankGrows
  <2> QED BY <2>1, RankOrders
<1> HIDE DEF f
<1>4. f \in Injection(ring, 1 .. n)
  BY <1>2, <1>3 DEF Injection, IsInjective
<1>5. IsFiniteSet(1 .. n) /\ Cardinality(1 .. n) = n
  BY <1>1, FS_Interval
<1>6. f \in Surjection(ring, 1 .. n)
  BY <1>4, <1>5, FS_Injection
<1>7. PICK p \in ring : f[p] = i
  BY <1>6 DEF Surjection
<1>8. Rank(ring, p) \in Int
  BY <1>1, RankGrows
<1> QED BY <1>7, <1>8 DEF f

(* update_agents sorts the positions: the array has those of the ring, in  *)
(* rising order.                                                           *)
LEMMA SortedRing ==
  ASSUME NEW ring \in SUBSET Nat, IsFiniteSet(ring)
  PROVE  LET seq == Sorted(ring)
             n   == Cardinality(ring)
         IN  /\ n \in Nat /\ seq \in [1 .. n -> ring] /\ Len(seq) = n
             /\ \A i, j \in 1 .. n : i < j => seq[i] < seq[j]
             /\ \A p \in ring : \E i \in 1 .. n : seq[i] = p
<1> DEFINE seq == Sorted(ring)
           n   == Cardinality(ring)
           At(i) == CHOOSE p \in ring : Rank(ring, p) = i - 1
           array == [i \in 1 .. n |-> At(i)]
<1>1. n \in Nat
  BY FS_CardinalityType
<1>2. ASSUME NEW i \in 1 .. n PROVE At(i) \in ring /\ Rank(ring, At(i)) = i - 1
  BY RankOnto
<1>3. seq = SubSeq(array, 1, n)
  BY DEF Sorted, Rank
<1> HIDE DEF seq, At
<1>4. array \in [1 .. n -> ring]
  BY <1>2
<1>5. array \in Seq(ring) /\ Len(array) = n
  BY <1>1, <1>4
<1>6. seq = array
  <2> HIDE DEF array
  <2>1. SubSeq(array, 1, n) = array
    BY <1>1, <1>5
  <2> QED BY <2>1, <1>3
<1>7. seq \in [1 .. n -> ring] /\ Len(seq) = n
  BY <1>4, <1>5, <1>6
<1>8. ASSUME NEW i \in 1 .. n PROVE seq[i] \in ring /\ Rank(ring, seq[i]) = i - 1
  BY <1>2, <1>6
<1>9. ASSUME NEW i \in 1 .. n, NEW j \in 1 .. n, i < j PROVE seq[i] < seq[j]
  <2>1. seq[i] \in ring /\ seq[j] \in ring /\ Rank(ring, seq[i]) < Rank(ring, seq[j])
    BY <1>8, <1>9
  <2> QED BY <2>1, RankOrders
<1>10. ASSUME NEW p \in ring PROVE \E i \in 1 .. n : seq[i] = p
  <2>1. Rank(ring, p) \in 0 .. n - 1
    BY RankGrows
  <2> DEFINE i == Rank(ring, p) + 1
  <2>2. i \in 1 .. n /\ i - 1 = Rank(ring, p)
    BY <1>1, <2>1
  <2> HIDE DEF i
  <2>3. seq[i] \in ring /\ Rank(ring, seq[i]) = Rank(ring, p)
    BY <1>8, <2>2
  <2>4. seq[i] = p
    BY <2>3, RankOrders
  <2> QED BY <2>2, <2>4
<1> QED BY <1>1, <1>7, <1>9, <1>10 DEF seq

-----------------------------------------------------------------------------
(* The search of the array.                                                *)

Rising(seq, n) == \A i, j \in 1 .. n : i < j => seq[i] < seq[j]

(* What the loop of find keeps true of the interval it searches: what is   *)
(* before it is below the key, and what follows it is not.                 *)
Narrowed(seq, k, b) ==
  /\ b \in Nat \X Nat /\ b[1] <= b[2] /\ b[2] <= Len(seq) - 1
  /\ \A i \in 1 .. b[1] : seq[i] < k
  /\ b[2] = Len(seq) - 1 \/ seq[b[2] + 1] >= k

LEMMA HalveNarrows ==
  ASSUME NEW n \in Nat \ {0}, NEW seq \in [1 .. n -> Nat], Len(seq) = n, NEW k \in Nat,
         Rising(seq, n), NEW b, Narrowed(seq, k, b)
  PROVE  /\ Narrowed(seq, k, Halve(seq, k, b))
         /\ b[1] < b[2] => Halve(seq, k, b)[2] - Halve(seq, k, b)[1] < b[2] - b[1]
         /\ b[1] = b[2] => Halve(seq, k, b) = b
<1> DEFINE l == b[1]  h == b[2]  mid == (l + h) \div 2
<1>1. b = <<l, h>> /\ l \in Nat /\ h \in Nat /\ l <= h /\ h <= n - 1
  BY DEF Narrowed
<1>2. CASE l = h
  BY <1>1, <1>2 DEF Halve
<1>3. CASE l < h
  <2>1. mid \in Nat /\ l <= mid /\ mid < h
    BY <1>1, <1>3
  <2>2. mid + 1 \in 1 .. n
    BY <1>1, <2>1
  <2>3. CASE seq[mid + 1] >= k
    <3>1. Halve(seq, k, b) = <<l, mid>>
      BY <1>1, <1>3, <2>3 DEF Halve
    <3>2. Narrowed(seq, k, <<l, mid>>)
      BY <1>1, <2>1, <2>3 DEF Narrowed
    <3> QED BY <1>1, <1>3, <2>1, <3>1, <3>2
  <2>4. CASE ~ (seq[mid + 1] >= k)
    <3>1. Halve(seq, k, b) = <<mid + 1, h>>
      BY <1>1, <1>3, <2>4 DEF Halve
    <3>2. ASSUME NEW i \in 1 .. mid + 1 PROVE seq[i] < k
      <4>1. i \in 1 .. n /\ seq[i] \in Nat /\ seq[mid + 1] \in Nat
        BY <1>1, <2>1, <2>2
      <4>2. i = mid + 1 \/ seq[i] < seq[mid + 1]
        BY <2>1, <2>2, <4>1 DEF Rising
      <4> QED BY <2>4, <4>1, <4>2
    <3>3. h = n - 1 \/ seq[h + 1] >= k
      BY DEF Narrowed
    <3>4. <<mid + 1, h>> \in Nat \X Nat /\ <<mid + 1, h>>[1] = mid + 1 /\ <<mid + 1, h>>[2] = h
      BY <1>1, <2>1
    <3> HIDE DEF l, h, mid
    <3>5. Narrowed(seq, k, <<mid + 1, h>>)
      BY <1>1, <2>1, <3>2, <3>3, <3>4 DEF Narrowed
    <3>6. b[1] = l /\ b[2] = h
      BY DEF l, h
    <3>7. Halve(seq, k, b)[2] - Halve(seq, k, b)[1] < b[2] - b[1]
      BY <1>1, <1>3, <2>1, <3>1, <3>4, <3>6
    <3>8. b[1] # b[2]
      BY <1>1, <1>3, <3>6
    <3>9. Narrowed(seq, k, Halve(seq, k, b))
      BY <3>1, <3>5
    <3> QED BY <3>7, <3>8, <3>9
  <2> QED BY <2>3, <2>4
<1> QED BY <1>1, <1>2, <1>3

(* The loop has ended after as many rounds as there are positions.         *)
LEMMA SearchEnds ==
  ASSUME NEW n \in Nat \ {0}, NEW seq \in [1 .. n -> Nat], Len(seq) = n, NEW k \in Nat,
         Rising(seq, n)
  PROVE  Narrowed(seq, k, Search(seq, k)) /\ Search(seq, k)[1] = Search(seq, k)[2]
<1> DEFINE S    == {b \in Nat \X Nat : Narrowed(seq, k, b)}
           base == <<0, n - 1>>
           step == [b \in S |-> Halve(seq, k, b)]
           Loop(f) == [m \in 0 .. n |-> IF m = 0 THEN base ELSE Halve(seq, k, f[m - 1])]
<1>1. base \in S
  BY DEF Narrowed
<1>2. step \in [S -> S]
  BY HalveNarrows DEF Narrowed
<1>3. PICK f \in [0 .. n -> S] : f[0] = base /\ \A m \in 1 .. n : f[m] = step[f[m - 1]]
  <2>1. n \in Nat
    OBVIOUS
  <2> HIDE DEF S, base, step
  <2>2. Recursive(n, S, base, step)
    BY <1>1, <1>2, <2>1, Recursion
  <2> QED BY <2>2 DEF Recursive, IsRecursive
<1>4. f = Loop(f)
  <2>1. ASSUME NEW m \in 1 .. n PROVE f[m] = Halve(seq, k, f[m - 1])
    <3>1. f[m - 1] \in S
      OBVIOUS
    <3> QED BY <1>3, <3>1
  <2> QED BY <1>3, <2>1
<1> DEFINE g == CHOOSE g : g = Loop(g)
<1>5. g = Loop(g)
  BY <1>4
<1>6. Search(seq, k) = g[n]
  BY DEF Search
<1> HIDE DEF g, S
<1> DEFINE P == {m \in Nat : m <= n => /\ g[m] \in S
                                       /\ g[m][1] = g[m][2] \/ g[m][2] - g[m][1] <= n - 1 - m}
<1>7. 0 \in P
  BY <1>1, <1>5
<1>8. ASSUME NEW m \in Nat, m \in P PROVE m + 1 \in P
  <2> SUFFICES ASSUME m + 1 <= n
               PROVE  /\ g[m + 1] \in S
                      /\ g[m + 1][1] = g[m + 1][2] \/ g[m + 1][2] - g[m + 1][1] <= n - 1 - (m + 1)
    OBVIOUS
  <2>1. g[m] \in S /\ (g[m][1] = g[m][2] \/ g[m][2] - g[m][1] <= n - 1 - m)
    BY <1>8
  <2>2. g[m + 1] = Halve(seq, k, g[m])
    <3>1. m + 1 \in 0 .. n /\ m + 1 # 0 /\ (m + 1) - 1 = m
      OBVIOUS
    <3>2. g[m + 1] = Loop(g)[m + 1]
      BY <1>5
    <3> QED BY <3>1, <3>2
  <2>3. g[m] \in Nat \X Nat /\ Narrowed(seq, k, g[m])
    BY <2>1 DEF S
  <2>4. /\ Narrowed(seq, k, g[m + 1])
        /\ g[m][1] < g[m][2] => g[m + 1][2] - g[m + 1][1] < g[m][2] - g[m][1]
        /\ g[m][1] = g[m][2] => g[m + 1] = g[m]
    <3> HIDE DEF g
    <3> DEFINE b == g[m]
    <3>1. Narrowed(seq, k, b)
      BY <2>3
    <3> HIDE DEF b
    <3>2. /\ Narrowed(seq, k, Halve(seq, k, b))
          /\ b[1] < b[2] => Halve(seq, k, b)[2] - Halve(seq, k, b)[1] < b[2] - b[1]
          /\ b[1] = b[2] => Halve(seq, k, b) = b
      BY <3>1, HalveNarrows
    <3> QED BY <2>2, <3>2 DEF b
  <2>5. g[m + 1] \in S /\ g[m + 1] \in Nat \X Nat
    BY <2>4 DEF S, Narrowed
  <2>6. g[m][1] \in Nat /\ g[m][2] \in Nat /\ g[m][1] <= g[m][2]
    BY <2>3 DEF Narrowed
  <2>7. g[m + 1][1] \in Nat /\ g[m + 1][2] \in Nat /\ g[m + 1][1] <= g[m + 1][2]
    BY <2>4 DEF Narrowed
  <2>8. g[m + 1][1] = g[m + 1][2] \/ g[m + 1][2] - g[m + 1][1] <= n - 1 - (m + 1)
    <3> HIDE DEF g
    <3>1. CASE g[m][1] = g[m][2]
      BY <2>4, <3>1
    <3>2. CASE g[m][1] < g[m][2]
      <4> DEFINE p == g[m][1]  q == g[m][2]  r == g[m + 1][1]  t == g[m + 1][2]
      <4>1. p \in Nat /\ q \in Nat /\ r \in Nat /\ t \in Nat /\ p < q
        BY <2>6, <2>7, <3>2
      <4>2. t - r < q - p
        BY <2>4, <3>2
      <4>3. p = q \/ q - p <= n - 1 - m
        BY <2>1
      <4> HIDE DEF p, q, r, t
      <4>4. t - r <= n - 1 - (m + 1)
        BY <4>1, <4>2, <4>3
      <4> QED BY <4>4 DEF t, r
    <3> QED BY <2>6, <3>1, <3>2
  <2> QED BY <2>5, <2>8
<1>9. n \in P
  <2> HIDE DEF P
  <2> QED BY <1>7, <1>8, ByNaturals
<1>10. Narrowed(seq, k, g[n]) /\ (g[n][1] = g[n][2] \/ g[n][2] - g[n][1] <= -1)
  BY <1>9 DEF S
<1> QED BY <1>6, <1>10 DEF Narrowed

(* The place found in the array of a ring.                                 *)
LEMMA PlaceFound ==
  ASSUME NEW ring \in SUBSET Nat, IsFiniteSet(ring), ring # {}, NEW k \in Nat
  PROVE  LET l == InsertionPoint(Sorted(ring), k)
         IN  l \in 0 .. Cardinality(ring) - 1 /\ IsSuccessor(ring, k, Sorted(ring)[l + 1])
<1> DEFINE seq == Sorted(ring)
           n   == Cardinality(ring)
           l   == Search(seq, k)[1]
<1>1. /\ n \in Nat /\ seq \in [1 .. n -> ring] /\ Len(seq) = n
      /\ \A i, j \in 1 .. n : i < j => seq[i] < seq[j]
      /\ \A p \in ring : \E i \in 1 .. n : seq[i] = p
  BY SortedRing
<1>2. n \in Nat \ {0} /\ seq \in [1 .. n -> Nat]
  BY <1>1, FS_EmptySet
<1> HIDE DEF seq, n
<1>3. Narrowed(seq, k, Search(seq, k)) /\ Search(seq, k)[1] = Search(seq, k)[2]
  BY <1>1, <1>2, SearchEnds DEF Rising
<1>4. /\ l \in 0 .. n - 1
      /\ \A i \in 1 .. l : seq[i] < k
      /\ l = n - 1 \/ seq[l + 1] >= k
  BY <1>1, <1>2, <1>3 DEF Narrowed
<1> HIDE DEF l
<1>5. IsSuccessor(ring, k, seq[l + 1])
  <2>1. l + 1 \in 1 .. n /\ seq[l + 1] \in ring
    BY <1>1, <1>2, <1>4
  <2>2. CASE seq[l + 1] >= k
    <3>1. ASSUME NEW q \in ring, q >= k PROVE seq[l + 1] <= q
      <4>1. PICK i \in 1 .. n : seq[i] = q
        BY <1>1
      <4>2. i >= l + 1
        BY <1>2, <1>4, <3>1, <4>1
      <4>3. i = l + 1 \/ seq[l + 1] < seq[i]
        BY <1>1, <1>2, <2>1, <4>2
      <4> QED BY <1>2, <2>1, <4>1, <4>3
    <3> QED BY <2>1, <2>2, <3>1 DEF IsSuccessor
  <2>3. CASE ~ (seq[l + 1] >= k)
    <3>1. l = n - 1
      BY <1>4, <2>3
    <3>2. ASSUME NEW q \in ring PROVE q < k /\ q <= seq[l + 1]
      <4>1. PICK i \in 1 .. n : seq[i] = q
        BY <1>1
      <4>2. i = l + 1 \/ seq[i] < seq[l + 1]
        BY <1>1, <1>2, <2>1, <3>1, <4>1
      <4>3. seq[l + 1] \in Nat /\ seq[l + 1] < k /\ q \in Nat
        BY <1>2, <2>1, <2>3
      <4> QED BY <4>1, <4>2, <4>3
    <3> QED BY <2>1, <3>2 DEF IsSuccessor
  <2> QED BY <2>2, <2>3
<1> QED BY <1>4, <1>5 DEF InsertionPoint, seq, n, l

-----------------------------------------------------------------------------
(* What find returns.                                                      *)

LEMMA ElementType ==
  ASSUME NEW S, NEW s \in Seq(S), NEW i \in 1 .. Len(s)
  PROVE  s[i] \in S
OBVIOUS

LEMMA ConcatPlaces ==
  ASSUME NEW S, NEW s \in Seq(S), NEW t \in Seq(S)
  PROVE  /\ s \o t \in Seq(S) /\ Len(s \o t) = Len(s) + Len(t)
         /\ \A i \in 1 .. Len(s) + Len(t) :
              (s \o t)[i] = IF i <= Len(s) THEN s[i] ELSE t[i - Len(s)]
OBVIOUS

(* The positions from the one found on, around the end of the array.       *)
LEMMA FindGoesRound ==
  ASSUME NEW ring \in SUBSET Nat, IsFiniteSet(ring), NEW k \in Nat,
         NEW n \in 1 .. Cardinality(ring) + 1, ring # {}
  PROVE  LET seq   == Sorted(ring)
             size  == Cardinality(ring)
             l     == InsertionPoint(seq, k)
             found == Find(seq, k, n)
         IN  /\ found \in Seq(ring) /\ Len(found) = n
             /\ \A i \in 1 .. n : found[i] = IF l + i <= size THEN seq[l + i] ELSE seq[l + i - size]
<1> DEFINE seq   == Sorted(ring)
           size  == Cardinality(ring)
           l     == InsertionPoint(seq, k)
           found == Find(seq, k, n)
           front == SubSeq(seq, l + 1, l + n)
           back  == SubSeq(seq, l + 1, size)
           begin == SubSeq(seq, 1, n - size + l)
<1>1. size \in Nat /\ seq \in [1 .. size -> ring] /\ Len(seq) = size
  BY SortedRing
<1>2. l \in 0 .. size - 1
  BY PlaceFound
<1>3. found = IF l + n < size THEN front ELSE back \o begin
  BY <1>1 DEF Find
<1> HIDE DEF seq, size, l, found
<1>4. seq \in Seq(ring)
  BY <1>1
<1>5. CASE l + n < size
  <2>1. front \in Seq(ring) /\ Len(front) = n /\ \A i \in 1 .. n : front[i] = seq[l + i]
    BY <1>1, <1>2, <1>4, <1>5
  <2>2. \A i \in 1 .. n : l + i <= size
    BY <1>1, <1>2, <1>5
  <2> QED BY <1>3, <1>5, <2>1, <2>2 DEF seq, size, l, found
<1>6. CASE ~ (l + n < size)
  <2>1. back \in Seq(ring) /\ Len(back) = size - l /\ \A i \in 1 .. size - l : back[i] = seq[l + i]
    BY <1>1, <1>2, <1>4
  <2>2. n - size + l \in 0 .. size
    BY <1>1, <1>2, <1>6 DEF size
  <2>3. /\ begin \in Seq(ring) /\ Len(begin) = n - size + l
        /\ \A i \in 1 .. n - size + l : begin[i] = seq[i]
    BY <1>1, <1>4, <2>2
  <2> HIDE DEF back, begin
  <2>4. /\ back \o begin \in Seq(ring) /\ Len(back \o begin) = n
        /\ \A i \in 1 .. n : (back \o begin)[i] = IF i <= size - l THEN back[i] ELSE begin[i - (size - l)]
    <3>1. Len(back) + Len(begin) = n
      BY <1>1, <1>2, <2>1, <2>2, <2>3
    <3> QED BY <2>1, <2>3, <3>1, ConcatPlaces
  <2>5. ASSUME NEW i \in 1 .. n
        PROVE  (back \o begin)[i] = IF l + i <= size THEN seq[l + i] ELSE seq[l + i - size]
    <3>1. CASE i <= size - l
      BY <1>1, <1>2, <2>1, <2>4, <3>1
    <3>2. CASE ~ (i <= size - l)
      <4>1. i - (size - l) \in 1 .. n - size + l /\ i - (size - l) = l + i - size
        BY <1>1, <1>2, <2>2, <3>2
      <4>2. (back \o begin)[i] = seq[l + i - size]
        BY <2>3, <2>4, <3>2, <4>1
      <4> QED BY <1>1, <1>2, <3>2, <4>2
    <3> QED BY <3>1, <3>2
  <2> QED BY <1>3, <1>6, <2>4, <2>5 DEF seq, size, l, found
<1> QED BY <1>5, <1>6

(* The binary search of find gives, for every ring and key, the first      *)
(* position not below the key, or the last one, and behind it the ones     *)
(* that follow around the ring (consistenthasher.cpp:24-58).               *)
THEOREM FindExact ==
  ASSUME NEW ring \in SUBSET Nat, IsFiniteSet(ring), NEW k \in Nat,
         NEW n \in 1 .. Cardinality(ring) + 1, ring # {}
  PROVE  LET found == Find(Sorted(ring), k, n)
         IN  /\ Len(found) = n
             /\ IsSuccessor(ring, k, found[1])
             /\ \A i \in 1 .. Len(found) - 1 : IsNext(ring, found[i], found[i + 1])
<1> DEFINE seq   == Sorted(ring)
           size  == Cardinality(ring)
           l     == InsertionPoint(seq, k)
           found == Find(seq, k, n)
           At(i) == IF l + i <= size THEN l + i ELSE l + i - size
<1>1. /\ size \in Nat /\ seq \in [1 .. size -> ring] /\ Rising(seq, size)
      /\ \A p \in ring : \E i \in 1 .. size : seq[i] = p
  BY SortedRing DEF Rising
<1>2. l \in 0 .. size - 1 /\ IsSuccessor(ring, k, seq[l + 1])
  BY PlaceFound
<1>3. Len(found) = n /\ \A i \in 1 .. n : found[i] = seq[At(i)]
  <2>1. \A i \in 1 .. n : found[i] = IF l + i <= size THEN seq[l + i] ELSE seq[l + i - size]
    BY FindGoesRound
  <2>2. Len(found) = n
    BY FindGoesRound
  <2> HIDE DEF found, l, size, seq
  <2> QED BY <2>1, <2>2
<1>4. n \in 1 .. size + 1
  OBVIOUS
<1> HIDE DEF seq
<1>7. \A i, j \in 1 .. size : /\ seq[i] \in Nat /\ seq[j] \in Nat
                              /\ i < j => seq[i] < seq[j]
  BY <1>1 DEF Rising
<1> HIDE DEF seq, size, l, found
<1>5. IsSuccessor(ring, k, found[1])
  <2>1. 1 \in 1 .. n /\ At(1) = l + 1
    BY <1>1, <1>2, <1>4
  <2> QED BY <1>2, <1>3, <2>1
<1>6. ASSUME NEW i \in 1 .. n - 1 PROVE IsNext(ring, found[i], found[i + 1])
  <2> DEFINE x == At(i)  y == At(i + 1)
  <2>1. i \in 1 .. n /\ i + 1 \in 1 .. n
    BY <1>1, <1>4
  <2>2. /\ x \in 1 .. size /\ y \in 1 .. size
        /\ y = x + 1 \/ (x = size /\ y = 1)
    BY <1>1, <1>2, <1>4, <2>1
  <2>3. found[i] = seq[x] /\ found[i + 1] = seq[y]
    BY <1>3, <2>1
  <2> HIDE DEF x, y
  <2>4. seq[x] \in ring /\ seq[y] \in ring
    BY <1>1, <2>2
  <2>5. CASE y = x + 1
    <3>1. seq[y] > seq[x]
      BY <1>7, <2>2, <2>5
    <3>2. ASSUME NEW r \in ring, r > seq[x] PROVE seq[y] <= r
      <4>1. PICK j \in 1 .. size : seq[j] = r
        BY <1>1
      <4>2. ~ (j < x) /\ j # x
        BY <1>7, <2>2, <3>2, <4>1
      <4>3. j = y \/ y < j
        BY <1>1, <2>2, <2>5, <4>2
      <4> QED BY <1>7, <2>2, <4>1, <4>3
    <3> QED BY <2>3, <2>4, <3>1, <3>2 DEF IsNext
  <2>6. CASE x = size /\ y = 1
    <3>1. ASSUME NEW r \in ring PROVE r <= seq[x] /\ seq[y] <= r
      <4>1. PICK j \in 1 .. size : seq[j] = r
        BY <1>1
      <4>2. (j = x \/ j < x) /\ (j = y \/ y < j)
        BY <1>1, <2>6, <4>1
      <4> QED BY <1>7, <2>2, <4>1, <4>2
    <3> QED BY <2>3, <2>4, <3>1 DEF IsNext
  <2> QED BY <2>2, <2>5, <2>6
<1> QED BY <1>3, <1>5, <1>6 DEF found, seq

-----------------------------------------------------------------------------
(* Who owns an edge.                                                       *)

LEMMA MemberType ==
  ASSUME NEW m \in Member
  PROVE  /\ m = <<m[1], m[2]>> /\ m[1] \in Agent /\ m[2] \in Nat \ {0}
         /\ \A i \in 1 .. m[2] : i \in DOMAIN Position[m[1]] /\ Position[m[1]][i] \in Nat
<1>1. PICK a \in Agent : m \in {a} \X (1 .. Len(Position[a]))
  BY DEF Member
<1>2. Position[a] \in Seq(Nat)
  BY ConsistentHashAssumption
<1> QED BY <1>1, <1>2

LEMMA PositionsFinite ==
  /\ IsFiniteSet(Member)
  /\ IsFiniteSet(UNION {ToSet(Position[a]) : a \in Agent})
<1> DEFINE Members(S) == UNION {{a} \X (1 .. Len(Position[a])) : a \in S}
           All(S) == UNION {ToSet(Position[a]) : a \in S}
           P == {S \in SUBSET Agent : IsFiniteSet(Members(S)) /\ IsFiniteSet(All(S))}
<1>1. {} \in P
  <2>1. Members({}) = {} /\ All({}) = {}
    OBVIOUS
  <2> QED BY <2>1, FS_EmptySet
<1>2. ASSUME NEW S \in SUBSET Agent, NEW a \in Agent \ S, S \in P PROVE S \cup {a} \in P
  <2> DEFINE n == Len(Position[a])
             f == [i \in 1 .. n |-> Position[a][i]]
             mine == {a} \X (1 .. n)
  <2>1. n \in Nat /\ DOMAIN Position[a] = 1 .. n
    BY ConsistentHashAssumption
  <2>2. IsFiniteSet(1 .. n)
    <3>1. \A k \in Nat : IsFiniteSet(1 .. k)
      BY FS_Interval
    <3> QED BY <2>1, <3>1
  <2>3. IsFiniteSet(mine)
    BY <2>2, FS_Singleton, FS_Product
  <2>4. f \in Surjection(1 .. n, ToSet(Position[a]))
    BY <2>1 DEF Surjection, ToSet
  <2>5. IsFiniteSet(ToSet(Position[a]))
    BY <2>2, <2>4, FS_Surjection
  <2>6. Members(S \cup {a}) = Members(S) \cup mine
    OBVIOUS
  <2>7. All(S \cup {a}) = All(S) \cup ToSet(Position[a])
    OBVIOUS
  <2> HIDE DEF Members, All, n, mine
  <2>8. IsFiniteSet(Members(S)) /\ IsFiniteSet(All(S))
    BY <1>2
  <2>9. IsFiniteSet(Members(S \cup {a}))
    BY <2>3, <2>6, <2>8, FS_Union, Zenon
  <2>10. IsFiniteSet(All(S \cup {a}))
    BY <2>5, <2>7, <2>8, FS_Union, Zenon
  <2> QED BY <2>9, <2>10
<1>3. P = SUBSET Agent
  <2>1. P \in SUBSET SUBSET Agent
    OBVIOUS
  <2> HIDE DEF P
  <2> QED BY <1>1, <1>2, <2>1, ByElements, ConsistentHashAssumption
<1> QED BY <1>3 DEF Member

LEMMA RingType ==
  ASSUME NEW mem \in SUBSET Member
  PROVE  /\ Ring(mem) \in SUBSET Nat /\ IsFiniteSet(Ring(mem))
         /\ mem # {} => Ring(mem) # {}
         /\ \A p \in Ring(mem) : \E m \in mem : Holder(p) = m[1] /\ m[1] \in Agent
<1>1. ASSUME NEW p \in Ring(mem)
      PROVE  \E m \in mem : /\ p \in Nat /\ p \in UNION {ToSet(Position[a]) : a \in Agent}
                                /\ Holder(p) = m[1] /\ m[1] \in Agent
  <2>1. PICK m \in mem : \E i \in 1 .. m[2] : p = Position[m[1]][i]
    BY DEF Ring
  <2>2. PICK i \in 1 .. m[2] : p = Position[m[1]][i]
    BY <2>1
  <2>3. m[1] \in Agent /\ i \in DOMAIN Position[m[1]] /\ p \in Nat
    BY <2>2, MemberType
  <2>4. p \in ToSet(Position[m[1]])
    BY <2>2, <2>3 DEF ToSet
  <2>5. ASSUME NEW a \in Agent, NEW j \in DOMAIN Position[a], Position[a][j] = p PROVE a = m[1]
    BY <2>2, <2>3, <2>5, ConsistentHashAssumption
  <2>6. Holder(p) = m[1]
    BY <2>2, <2>3, <2>5 DEF Holder
  <2> QED BY <2>3, <2>4, <2>6
<1>2. IsFiniteSet(Ring(mem))
  <2>1. Ring(mem) \in SUBSET UNION {ToSet(Position[a]) : a \in Agent}
    BY <1>1
  <2> QED BY <2>1, PositionsFinite, FS_Subset
<1>3. ASSUME NEW m \in mem PROVE Position[m[1]][1] \in Ring(mem)
  <2>1. m[2] \in Nat \ {0}
    BY MemberType
  <2>2. 1 \in 1 .. m[2]
    BY <2>1
  <2> QED BY <2>2 DEF Ring
<1> QED BY <1>1, <1>2, <1>3

(* The replicas of a vertex fit on the ring of a list of agents: find does *)
(* not run past the end of its array.                                      *)
Fits(mem) == \A u \in Vertex : Replicas[u] <= Cardinality(Ring(mem)) + 1

LEMMA OwnerPositionType ==
  ASSUME NEW mem \in SUBSET Member, mem # {}, Fits(mem),
         NEW u \in Vertex, NEW v \in Vertex
  PROVE  OwnerPosition(mem, u, v) \in Ring(mem)
<1> DEFINE ring  == Ring(mem)
           n     == Replicas[u]
           dests == Find(Sorted(ring), Hash[u], n)
           part  == ToSet(dests)
<1>1. ring \in SUBSET Nat /\ IsFiniteSet(ring) /\ ring # {} /\ Cardinality(ring) \in Nat
  BY RingType, FS_CardinalityType
<1>2. n \in 1 .. Cardinality(ring) + 1 /\ Hash[u] \in Nat /\ Hash[v] \in Nat
  BY <1>1, ConsistentHashAssumption DEF Fits
<1> HIDE DEF ring, n
<1>3. dests \in Seq(ring) /\ Len(dests) = n
  BY <1>1, <1>2, FindGoesRound
<1> HIDE DEF dests
<1>4. 1 \in DOMAIN dests /\ dests[1] \in ring
  BY <1>2, <1>3
<1>5. part \in SUBSET ring /\ part # {}
  BY <1>3, <1>4 DEF ToSet
<1>6. part \in SUBSET Nat /\ IsFiniteSet(part) /\ Cardinality(part) \in Nat
  BY <1>1, <1>5, FS_Subset, FS_CardinalityType
<1> HIDE DEF part
<1> DEFINE among == Find(Sorted(part), Hash[v], 1)
<1>7. among \in Seq(part) /\ Len(among) = 1
  <2>1. 1 \in 1 .. Cardinality(part) + 1
    BY <1>6
  <2> QED BY <1>2, <1>5, <1>6, <2>1, FindGoesRound
<1> HIDE DEF among
<1>8. among[1] \in part
  <2>1. 1 \in 1 .. Len(among)
    BY <1>7
  <2> QED BY <1>7, <2>1, ElementType
<1>9. OwnerPosition(mem, u, v) = IF Len(dests) = 1 THEN dests[1] ELSE among[1]
  BY DEF OwnerPosition, dests, ring, n, among, part
<1> QED BY <1>4, <1>5, <1>8, <1>9 DEF ring

(* An edge belongs to one of the agents on the list that is searched:      *)
(* nobody is sent an edge whom the directory did not name                  *)
(* (participant.cpp:211-270).                                              *)
THEOREM OwnerIsMember ==
  ASSUME NEW mem \in SUBSET Member, mem # {}, Fits(mem),
         NEW u \in Vertex, NEW v \in Vertex
  PROVE  \E m \in mem : OwnerOf(mem, u, v) = m[1] /\ m[1] \in Agent
<1>1. OwnerPosition(mem, u, v) \in Ring(mem)
  BY OwnerPositionType
<1> QED BY <1>1, RingType DEF OwnerOf

-----------------------------------------------------------------------------
(* The types of the agents' state.                                         *)

(* The replicas of a vertex fit on the ring of every list of agents, so    *)
(* that find stays in its array: two at most, as a list may be short.      *)
Fitting == \A mem \in SUBSET Member : mem # {} => Fits(mem)

Phase == {"out", "load", "idle", "moving", "balance", "hold", "gone", "thrown"}

UpMessage == [type : {"AGENT_JOIN", "AGENT_LEAVE"}, member : Member]
             \cup [type : {"NEED_DIRECTORY", "CS_UPDATE", "SIMPLE_SYNC", "READY_NV_NE"}]
ListMessage == [type : {"DIRECTORY_UPDATE"}, changed : BOOLEAN, members : SUBSET Member]
DownMessage == ListMessage \cup [type : {"SIMPLE_SYNC_DONE", "DO_VA", "DO_CS_LB"}]
LinkMessage == [type : {"AGENT_JOIN", "AGENT_LEAVE"}, member : Member]
               \cup [type : {"READY_NV_NE_INT"}]
MovesMessage == [type : {"moves"}, copies : SUBSET Copy]
PeerMessage == MovesMessage \cup [type : {"ack"}]

AgentTypes ==
  /\ phase \in [Agent -> Phase] /\ view \in [Agent -> SUBSET Member]
  /\ vcount \in [Agent -> 1 .. VAgents]
  /\ held \in [Agent -> SUBSET Copy]
  /\ moves \in [Agent -> SUBSET ((Agent \cup {Nobody}) \X Copy)]
  /\ acks \in [Agent -> Int] /\ nE \in [Agent -> Int] /\ stopping \in [Agent -> BOOLEAN]
DirTypes ==
  /\ members \in [Directory -> SUBSET Member] /\ notify \in [Directory -> {"no", "same", "changed"}]
  /\ syncs \in [Directory -> Nat] /\ sketches \in [Directory -> Nat]
  /\ ready \in [Directory -> 0 .. Cardinality(Agent) + 1]
NetTypes ==
  /\ up \in [Agent -> Seq(UpMessage)] /\ down \in [Agent -> Seq(DownMessage)]
  /\ link \in [Directory -> [Directory -> Seq(LinkMessage)]]
  /\ peer \in [Agent -> [Agent -> Seq(PeerMessage)]]
EnvTypes ==
  /\ home \in [Agent -> Directory] /\ edges \subseteq Vertex \X Vertex /\ transposed \subseteq edges
  /\ changes \in Nat

(* An agent sends itself nothing.                                          *)
Apart == \A a \in Agent : peer[a][a] = <<>> /\ \A x \in moves[a] : x[1] # a

Types == Fitting /\ AgentTypes /\ DirTypes /\ NetTypes /\ EnvTypes /\ Apart

-----------------------------------------------------------------------------
(* Constants.                                                              *)

LEMMA MemberPairs ==
  /\ Member = Agent \X (1 .. VAgents)
  /\ IsFiniteSet(Member) /\ VAgents \in Nat \ {0} /\ Nobody \notin Agent
<1>1. \A a \in Agent : Len(Position[a]) = VAgents
  BY ElasticAssumption
<1>2. ASSUME NEW m \in Member PROVE m \in Agent \X (1 .. VAgents)
  BY <1>1 DEF Member
<1>3. ASSUME NEW a \in Agent, NEW n \in 1 .. VAgents PROVE <<a, n>> \in Member
  <2>1. <<a, n>> \in {a} \X (1 .. Len(Position[a]))
    BY <1>1
  <2> QED BY <2>1 DEF Member
<1> QED BY <1>2, <1>3, PositionsFinite, ElasticAssumption

LEMMA CopyType ==
  /\ \A c \in Copy : c.kind \in {"in", "out"} /\ c.edge[1] \in Vertex /\ c.edge[2] \in Vertex
                     /\ c.edge \in Vertex \X Vertex
  /\ \A e \in Vertex \X Vertex : InCopy(e) \in Copy /\ OutCopy(e) \in Copy
                                 /\ InCopy(e).edge = e /\ InCopy(e).kind = "in"
                                 /\ OutCopy(e).edge = e /\ OutCopy(e).kind = "out"
BY DEF Copy, InCopy, OutCopy

(* An edge belongs to an agent on the list that is looked at.              *)
LEMMA OwnerType ==
  ASSUME Fitting, NEW mem \in SUBSET Member, NEW c \in Copy
  PROVE  /\ mem # {} => \E m \in mem : Owner(mem, c) = m[1] /\ m[1] \in Agent
         /\ mem = {} => Owner(mem, c) = Nobody
         /\ Owner(mem, c) \in Agent \cup {Nobody}
<1>1. c.edge[1] \in Vertex /\ c.edge[2] \in Vertex
  BY CopyType
<1>2. ASSUME mem # {} PROVE \E m \in mem : Owner(mem, c) = m[1] /\ m[1] \in Agent
  <2>1. Fits(mem)
    BY <1>2 DEF Fitting
  <2>2. \A u, v \in Vertex : \E m \in mem : OwnerOf(mem, u, v) = m[1] /\ m[1] \in Agent
    BY <1>2, <2>1, OwnerIsMember
  <2> HIDE DEF Vertex
  <2>3. CASE c.kind = "in"
    BY <1>1, <2>2, <2>3 DEF Owner
  <2>4. CASE c.kind # "in"
    BY <1>1, <2>2, <2>4 DEF Owner
  <2> QED BY <2>3, <2>4
<1>3. ASSUME mem = {} PROVE Owner(mem, c) = Nobody
  BY <1>3 DEF Owner, OwnerOf
<1> QED BY <1>2, <1>3

-----------------------------------------------------------------------------
(* Connections.                                                            *)

LEMMA TellOne ==
  ASSUME NetTypes, NEW a \in Agent, NEW m \in UpMessage
  PROVE  /\ Tell(a, <<m>>) = [up EXCEPT ![a] = Append(up[a], m)]
         /\ Tell(a, <<m>>) \in [Agent -> Seq(UpMessage)]
<1>1. up[a] \in Seq(UpMessage) /\ up[a] \o <<m>> = Append(up[a], m)
  BY DEF NetTypes
<1>2. Append(up[a], m) \in Seq(UpMessage)
  BY <1>1, AppendPlaces
<1> QED BY <1>1, <1>2 DEF Tell, NetTypes

LEMMA TellTwo ==
  ASSUME NetTypes, NEW a \in Agent, NEW m \in UpMessage, NEW n \in UpMessage
  PROVE  /\ Tell(a, <<m, n>>) = [up EXCEPT ![a] = Append(Append(up[a], m), n)]
         /\ Tell(a, <<m, n>>) \in [Agent -> Seq(UpMessage)]
<1>1. up[a] \in Seq(UpMessage)
  BY DEF NetTypes
<1>2. Append(up[a], m) \in Seq(UpMessage)
  BY <1>1, AppendPlaces
<1>3. Append(Append(up[a], m), n) \in Seq(UpMessage)
  BY <1>2, AppendPlaces
<1>4. up[a] \o <<m, n>> = Append(Append(up[a], m), n)
  <2>1. DOMAIN (up[a] \o <<m, n>>) = 1 .. Len(up[a]) + 2
    BY <1>1
  <2> QED BY <1>1, <1>2, <1>3
<1> QED BY <1>1, <1>3, <1>4 DEF Tell, NetTypes

LEMMA MessageTypes ==
  ASSUME NEW a \in Agent, NEW n \in 1 .. VAgents
  PROVE  /\ Join(a, n) \in UpMessage /\ Leave(a, n) \in UpMessage
         /\ Plain("NEED_DIRECTORY") \in UpMessage /\ Plain("CS_UPDATE") \in UpMessage
         /\ Plain("SIMPLE_SYNC") \in UpMessage /\ Plain("READY_NV_NE") \in UpMessage
         /\ Plain("SIMPLE_SYNC_DONE") \in DownMessage
         /\ Plain("DO_VA") \in DownMessage /\ Plain("DO_CS_LB") \in DownMessage
         /\ Plain("READY_NV_NE_INT") \in LinkMessage /\ Plain("ack") \in PeerMessage
<1>1. <<a, n>> \in Member
  BY MemberPairs
<1> QED BY <1>1 DEF Join, Leave, Plain, UpMessage, DownMessage, LinkMessage, PeerMessage

LEMMA ToAgentsType ==
  ASSUME NetTypes, NEW d \in Directory, NEW m \in DownMessage
  PROVE  ToAgents(d, m) \in [Agent -> Seq(DownMessage)]
<1>1. \A a \in Agent : down[a] \in Seq(DownMessage)
  BY DEF NetTypes
<1>2. \A a \in Agent : Append(down[a], m) \in Seq(DownMessage)
  BY <1>1, AppendPlaces
<1> QED BY <1>1, <1>2 DEF ToAgents

LEMMA ToPeersType ==
  ASSUME NEW net \in [Directory -> [Directory -> Seq(LinkMessage)]],
         NEW d \in Directory, NEW m \in LinkMessage
  PROVE  /\ ToPeers(d, m, net) \in [Directory -> [Directory -> Seq(LinkMessage)]]
         /\ \A e \in Directory \ {d} : ToPeers(d, m, net)[e] = net[e]
         /\ \A e \in Directory : ToPeers(d, m, net)[d][e] =
              IF e = d \/ e \notin Homed THEN net[d][e] ELSE Append(net[d][e], m)
<1>1. \A e \in Directory : net[d][e] \in Seq(LinkMessage) /\ Append(net[d][e], m) \in Seq(LinkMessage)
  BY AppendPlaces
<1> QED BY <1>1 DEF ToPeers

-----------------------------------------------------------------------------
(* Moves: what an agent sends when it flushes mv.                          *)

Parcel(mv, b) == [type |-> "moves", copies |-> {x[2] : x \in {y \in mv : y[1] = b}}]
Receiving(mv) == {x[1] : x \in mv}
Pairs == (Agent \cup {Nobody}) \X Copy

LEMMA CopyFinite == IsFiniteSet(Copy) /\ IsFiniteSet(Pairs)
<1>1. IsFiniteSet(Vertex \X Vertex) /\ IsFiniteSet({"in", "out"})
  <2>1. IsFiniteSet({}) /\ {"in"} = {} \cup {"in"} /\ {"in", "out"} = {"in"} \cup {"out"}
    BY FS_EmptySet
  <2>2. IsFiniteSet({"in"})
    BY <2>1, FS_AddElement
  <2>3. IsFiniteSet({"in", "out"})
    BY <2>1, <2>2, FS_AddElement
  <2> HIDE DEF Vertex
  <2> QED BY <2>3, ElasticAssumption, FS_Product
<1>2. IsFiniteSet({"in", "out"} \X (Vertex \X Vertex))
  BY <1>1, FS_Product
<1> DEFINE f == [x \in {"in", "out"} \X (Vertex \X Vertex) |-> [kind |-> x[1], edge |-> x[2]]]
<1>3. f \in Surjection({"in", "out"} \X (Vertex \X Vertex), Copy)
  <2>1. f \in [{"in", "out"} \X (Vertex \X Vertex) -> Copy]
    BY DEF Copy
  <2>2. ASSUME NEW c \in Copy PROVE \E x \in {"in", "out"} \X (Vertex \X Vertex) : f[x] = c
    <3>1. c = [kind |-> c.kind, edge |-> c.edge] /\ <<c.kind, c.edge>> \in {"in", "out"} \X (Vertex \X Vertex)
      BY DEF Copy
    <3> QED BY <3>1
  <2> QED BY <2>1, <2>2 DEF Surjection
<1>4. IsFiniteSet(Copy)
  <2> HIDE DEF f
  <2> QED BY <1>2, <1>3, FS_Surjection
<1>5. IsFiniteSet(Agent \cup {Nobody})
  BY ConsistentHashAssumption, FS_AddElement
<1> QED BY <1>4, <1>5, FS_Product DEF Pairs

LEMMA ParcelType ==
  ASSUME NEW mv \in SUBSET Pairs, NEW b
  PROVE  /\ Parcel(mv, b) \in MovesMessage /\ Parcel(mv, b) \in PeerMessage
         /\ Parcel(mv, b).type = "moves"
         /\ \A c : c \in Parcel(mv, b).copies <=> <<b, c>> \in mv
BY DEF Parcel, Pairs, MovesMessage, PeerMessage

LEMMA ReceivingType ==
  ASSUME NEW mv \in SUBSET Pairs
  PROVE  /\ Receiving(mv) \subseteq Agent \cup {Nobody}
         /\ IsFiniteSet(Receiving(mv)) /\ Cardinality(Receiving(mv)) \in Nat
         /\ \A b : b \in Receiving(mv) <=> \E c \in Copy : <<b, c>> \in mv
<1>1. Receiving(mv) \subseteq Agent \cup {Nobody}
  BY DEF Receiving, Pairs
<1>2. IsFiniteSet(Agent \cup {Nobody})
  BY ConsistentHashAssumption, FS_AddElement
<1>3. IsFiniteSet(Receiving(mv)) /\ Cardinality(Receiving(mv)) \in Nat
  BY <1>1, <1>2, FS_Subset, FS_CardinalityType
<1>4. ASSUME NEW b PROVE b \in Receiving(mv) <=> \E c \in Copy : <<b, c>> \in mv
  <2>1. ASSUME NEW x \in mv PROVE x = <<x[1], x[2]>> /\ x[2] \in Copy
    BY DEF Pairs
  <2>2. ASSUME NEW c \in Copy, <<b, c>> \in mv PROVE b \in Receiving(mv)
    <3>1. <<b, c>>[1] = b
      OBVIOUS
    <3> QED BY <2>2, <3>1 DEF Receiving
  <2>3. ASSUME b \in Receiving(mv) PROVE \E c \in Copy : <<b, c>> \in mv
    BY <2>1, <2>3 DEF Receiving
  <2> QED BY <2>2, <2>3
<1> QED BY <1>1, <1>3, <1>4

PeerNet == [Agent -> [Agent -> Seq(PeerMessage)]]

LEMMA SentMovesType ==
  ASSUME NEW a \in Agent, NEW mv \in SUBSET Pairs, NEW net \in PeerNet
  PROVE  LET sent == SentMoves(a, mv, net)
         IN  /\ sent.acks = Cardinality(Receiving(mv)) /\ sent.acks \in Nat
             /\ sent.peer \in [Agent -> Seq(PeerMessage)]
             /\ \A b \in Agent : sent.peer[b] = IF b \in Receiving(mv)
                                                THEN Append(net[a][b], Parcel(mv, b)) ELSE net[a][b]
<1>1. ASSUME NEW b \in Agent
      PROVE  net[a][b] \in Seq(PeerMessage) /\ Append(net[a][b], Parcel(mv, b)) \in Seq(PeerMessage)
  <2>1. net[a][b] \in Seq(PeerMessage) /\ Parcel(mv, b) \in PeerMessage
    BY ParcelType DEF PeerNet
  <2> QED BY <2>1, AppendPlaces
<1>2. \A b \in Agent : (\E x \in mv : x[1] = b) <=> b \in Receiving(mv)
  BY DEF Receiving
<1>3. SentMoves(a, mv, net).peer =
        [b \in Agent |-> IF \E x \in mv : x[1] = b THEN Append(net[a][b], Parcel(mv, b)) ELSE net[a][b]]
  BY DEF SentMoves, Parcel
<1>4. SentMoves(a, mv, net).acks = Cardinality(Receiving(mv))
  BY DEF SentMoves, Receiving
<1> QED BY <1>1, <1>2, <1>3, <1>4, ReceivingType

(* What a gets rid of: a list, and the pairs to send.                      *)
Lost(a, mem) == {c \in held[a] : Owner(mem, c) # a}
Outgoing(a, mem) == moves[a] \cup {<<Owner(mem, c), c>> : c \in Lost(a, mem)}

LEMMA OutgoingType ==
  ASSUME Types, NEW a \in Agent, NEW mem \in SUBSET Member
  PROVE  /\ Outgoing(a, mem) \in SUBSET Pairs /\ Lost(a, mem) \in SUBSET Copy
         /\ a \notin Receiving(Outgoing(a, mem))
<1>1. held[a] \subseteq Copy /\ moves[a] \subseteq Pairs
  BY DEF Types, AgentTypes, Pairs
<1>2. \A c \in Lost(a, mem) : c \in Copy /\ Owner(mem, c) \in Agent \cup {Nobody} /\ Owner(mem, c) # a
  BY <1>1, OwnerType DEF Lost, Types
<1>3. \A x \in moves[a] : x[1] # a
  BY DEF Types, Apart
<1> QED BY <1>1, <1>2, <1>3 DEF Outgoing, Pairs, Lost, Receiving

(* The step of agent a to the peers, once it keeps keep of what it has and *)
(* sends mv.                                                               *)
LEMMA MoveAwayStep ==
  ASSUME Types, NEW a \in Agent, NEW mem \in SUBSET Member, NEW ph \in Phase, MoveAway(a, mem, ph)
  PROVE  LET mv == Outgoing(a, mem)
         IN  /\ held' = [held EXCEPT ![a] = held[a] \ Lost(a, mem)]
             /\ nE' = [nE EXCEPT ![a] = nE[a] - InCount(Lost(a, mem))]
             /\ moves' = [moves EXCEPT ![a] = {}]
             /\ peer' = [peer EXCEPT ![a] = SentMoves(a, mv, peer).peer]
             /\ acks' = [acks EXCEPT ![a] = acks[a] + Cardinality(Receiving(mv))]
             /\ phase' = [phase EXCEPT ![a] =
                            IF acks[a] + Cardinality(Receiving(mv)) # 0 THEN "moving" ELSE ph]
<1> DEFINE mv == Outgoing(a, mem)
<1>1. mv \in SUBSET Pairs
  BY OutgoingType
<1>2. peer \in PeerNet
  BY DEF Types, NetTypes, PeerNet
<1>3. SentMoves(a, mv, peer).acks = Cardinality(Receiving(mv))
  BY <1>1, <1>2, SentMovesType
<1> QED BY <1>3 DEF MoveAway, Outgoing, Lost

LEMMA InCountType ==
  ASSUME NEW S \in SUBSET Copy
  PROVE  /\ InCount(S) \in Nat /\ IsFiniteSet(S)
         /\ \A T \in SUBSET S : InCount(S \ T) = InCount(S) - InCount(T) /\ InCount(T) <= InCount(S)
         /\ \A T \in SUBSET Copy : S \cap T = {} => InCount(S \cup T) = InCount(S) + InCount(T)
         /\ InCount(S) = 0 <=> \A c \in S : c.kind # "in"
<1> DEFINE Ins(T) == {c \in T : c.kind = "in"}
<1>1. \A T \in SUBSET Copy : IsFiniteSet(T) /\ IsFiniteSet(Ins(T)) /\ InCount(T) = Cardinality(Ins(T))
                             /\ Cardinality(Ins(T)) \in Nat
  <2> SUFFICES ASSUME NEW T \in SUBSET Copy
               PROVE  IsFiniteSet(T) /\ IsFiniteSet(Ins(T)) /\ InCount(T) = Cardinality(Ins(T))
                      /\ Cardinality(Ins(T)) \in Nat
    OBVIOUS
  <2>1. IsFiniteSet(T) /\ Ins(T) \in SUBSET Copy
    BY CopyFinite, FS_Subset
  <2>2. IsFiniteSet(Ins(T))
    BY <2>1, CopyFinite, FS_Subset
  <2> QED BY <2>1, <2>2, FS_CardinalityType DEF InCount
<1>2. ASSUME NEW T \in SUBSET Copy, S \cap T = {}
      PROVE  InCount(S \cup T) = InCount(S) + InCount(T)
  <2>1. Ins(S \cup T) = Ins(S) \cup Ins(T) /\ Ins(S) \cap Ins(T) = {} /\ S \cup T \in SUBSET Copy
    BY <1>2
  <2>2. Cardinality(Ins(S) \cap Ins(T)) = 0
    BY <2>1, FS_EmptySet
  <2>3. Cardinality(Ins(S) \cup Ins(T)) = Cardinality(Ins(S)) + Cardinality(Ins(T)) - Cardinality(Ins(S) \cap Ins(T))
    <3> HIDE DEF Ins
    <3> QED BY <1>1, FS_Union
  <2>4. /\ InCount(S \cup T) = Cardinality(Ins(S \cup T)) /\ InCount(T) = Cardinality(Ins(T))
        /\ InCount(S) = Cardinality(Ins(S)) /\ Cardinality(Ins(T)) \in Nat
        /\ Cardinality(Ins(S)) \in Nat
    BY <1>1, <2>1
  <2>5. Cardinality(Ins(S \cup T)) = Cardinality(Ins(S)) + Cardinality(Ins(T)) - 0
    BY <2>1, <2>2, <2>3
  <2> HIDE DEF Ins
  <2> QED BY <2>4, <2>5
<1>3. ASSUME NEW T \in SUBSET S
      PROVE  InCount(S \ T) = InCount(S) - InCount(T) /\ InCount(T) <= InCount(S)
  <2>1. Ins(S) = Ins(S \ T) \cup Ins(T) /\ Ins(S \ T) \cap Ins(T) = {}
        /\ S \ T \in SUBSET Copy /\ T \in SUBSET Copy
    OBVIOUS
  <2>2. Cardinality(Ins(S \ T) \cap Ins(T)) = 0
    BY <2>1, FS_EmptySet
  <2>3. Cardinality(Ins(S \ T) \cup Ins(T))
          = Cardinality(Ins(S \ T)) + Cardinality(Ins(T)) - Cardinality(Ins(S \ T) \cap Ins(T))
    <3>1. IsFiniteSet(Ins(S \ T)) /\ IsFiniteSet(Ins(T))
      BY <1>1, <2>1
    <3> HIDE DEF Ins
    <3> QED BY <3>1, FS_Union
  <2>4. /\ InCount(S \ T) = Cardinality(Ins(S \ T)) /\ InCount(T) = Cardinality(Ins(T))
        /\ InCount(S) = Cardinality(Ins(S)) /\ Cardinality(Ins(S \ T)) \in Nat
        /\ Cardinality(Ins(T)) \in Nat /\ Cardinality(Ins(S)) \in Nat
    BY <1>1, <2>1
  <2>5. Cardinality(Ins(S)) = Cardinality(Ins(S \ T)) + Cardinality(Ins(T)) - 0
    BY <2>1, <2>2, <2>3
  <2> HIDE DEF Ins
  <2> QED BY <2>4, <2>5
<1>4. InCount(S) = 0 <=> \A c \in S : c.kind # "in"
  <2>1. Cardinality(Ins(S)) = 0 <=> Ins(S) = {}
    <3>1. IsFiniteSet(Ins(S))
      BY <1>1
    <3> HIDE DEF Ins
    <3> QED BY <3>1, FS_EmptySet
  <2> QED BY <1>1, <2>1
<1> QED BY <1>1, <1>2, <1>3, <1>4

LEMMA KeptType ==
  ASSUME Types, NEW a \in Agent, nE[a] = InCount(held[a]), view[a] # {}, Overloaded(a), NEW n \in Kept(a)
  PROVE  n \in 1 .. VAgents
<1> DEFINE Of(v) == {c \in held[a] : Site(c) = v}
           most  == {v \in Vertex : \A w \in Vertex : Cardinality(Of(v)) >= Cardinality(Of(w))}
           Places2(v) == {OwnIndex(a, c) : c \in Of(v)}
<1>1. PICK v \in most : n = Min({vcount[a], Max(Places2(v))})
  BY DEF Kept
<1>2. view[a] \in SUBSET Member /\ held[a] \in SUBSET Copy /\ vcount[a] \in 1 .. VAgents
  BY DEF Types, AgentTypes
<1>3. \A w : Of(w) \in SUBSET Copy /\ IsFiniteSet(Of(w)) /\ Cardinality(Of(w)) \in Nat
  <2> SUFFICES ASSUME NEW w PROVE Of(w) \in SUBSET Copy /\ IsFiniteSet(Of(w)) /\ Cardinality(Of(w)) \in Nat
    OBVIOUS
  <2>1. Of(w) \in SUBSET Copy
    BY <1>2
  <2> HIDE DEF Of
  <2> QED BY <2>1, CopyFinite, FS_Subset, FS_CardinalityType
<1>4. nE[a] > 0
  <2> DEFINE x == 5 * Cardinality(transposed)  y == Cardinality(view[a])
  <2>1. IsFiniteSet(transposed)
    <3>1. IsFiniteSet(Vertex \X Vertex)
      <4> HIDE DEF Vertex
      <4> QED BY ElasticAssumption, FS_Product
    <3> QED BY <3>1, FS_Subset DEF Types, EnvTypes
  <2>2. x \in Nat
    BY <2>1, FS_CardinalityType
  <2>3. y \in Nat \ {0}
    <3>1. IsFiniteSet(view[a])
      BY <1>2, MemberPairs, FS_Subset
    <3> QED BY <3>1, FS_CardinalityType, FS_EmptySet
  <2>4. nE[a] > (x \div y) \div 4
    BY DEF Overloaded
  <2> HIDE DEF x, y
  <2>5. x \div y \in Nat
    BY <2>2, <2>3
  <2> DEFINE z == x \div y
  <2>6. z \in Nat /\ nE[a] > z \div 4
    BY <2>4, <2>5
  <2> HIDE DEF z
  <2>7. z \div 4 \in Nat
    BY <2>6
  <2>8. nE[a] \in Int
    BY DEF Types, AgentTypes
  <2> QED BY <2>6, <2>7, <2>8
<1>5. PICK c0 \in held[a] : c0.kind = "in"
  BY <1>2, <1>4, InCountType
<1>6. Site(c0) \in Vertex /\ c0 \in Of(Site(c0))
  BY <1>2, <1>5, CopyType DEF Site
<1>7. Of(v) # {}
  <2>1. Cardinality(Of(v)) >= Cardinality(Of(Site(c0)))
    BY <1>6
  <2>2. Cardinality(Of(Site(c0))) # 0
    <3>1. Of(Site(c0)) # {} /\ IsFiniteSet(Of(Site(c0)))
      BY <1>3, <1>6
    <3> HIDE DEF Of
    <3> QED BY <3>1, FS_EmptySet
  <2>3. Cardinality(Of(v)) # 0
    <3> HIDE DEF Of
    <3> QED BY <1>3, <2>1, <2>2
  <2> QED BY <2>3, FS_EmptySet
<1>8. ASSUME NEW c \in Of(v) PROVE OwnIndex(a, c) \in 1 .. VAgents
  <2>1. c \in Copy /\ c.edge[1] \in Vertex /\ c.edge[2] \in Vertex
    BY <1>2, CopyType
  <2>2. Fits(view[a])
    BY <1>2 DEF Types, Fitting
  <2>3. \A u, w \in Vertex : OwnerPosition(view[a], u, w) \in Ring(view[a])
    BY <1>2, <2>2, OwnerPositionType
  <2>4. ASSUME NEW p \in Ring(view[a]) PROVE Index(p) \in 1 .. VAgents
    <3>1. PICK m \in view[a] : \E i \in 1 .. m[2] : p = Position[m[1]][i]
      BY DEF Ring
    <3>2. m \in Agent \X (1 .. VAgents)
      BY <1>2, MemberPairs
    <3>3. 1 .. m[2] \subseteq 1 .. VAgents
      BY <3>2, MemberPairs
    <3>4. \E j \in 1 .. VAgents : \E b \in Agent : Position[b][j] = p
      BY <3>1, <3>2, <3>3
    <3> QED BY <3>4 DEF Index
  <2> HIDE DEF Vertex
  <2> QED BY <2>1, <2>3, <2>4 DEF OwnIndex
<1>9. Places2(v) \in SUBSET (1 .. VAgents) /\ Places2(v) # {}
  BY <1>7, <1>8
<1>10. Max(Places2(v)) \in 1 .. VAgents
  <2> HIDE DEF Places2
  <2>1. IsFiniteSet(1 .. VAgents)
    BY MemberPairs, FS_Interval
  <2>2. IsFiniteSet(Places2(v)) /\ Places2(v) \in SUBSET Nat
    BY <1>9, <2>1, FS_Subset, MemberPairs
  <2>3. \E x \in Places2(v) : \A y \in Places2(v) : y <= x
    BY <1>9, <2>2, GreatestNatural
  <2>4. \E x \in Places2(v) : \A y \in Places2(v) : x >= y
    BY <2>2, <2>3
  <2> QED BY <1>9, <2>4 DEF Max
<1>11. Min({vcount[a], Max(Places2(v))}) \in {vcount[a], Max(Places2(v))}
  <2> DEFINE p == vcount[a]  q == Max(Places2(v))
  <2>1. p \in Int /\ q \in Int
    BY <1>2, <1>10, MemberPairs
  <2> HIDE DEF p, q
  <2>2. \E x \in {p, q} : \A y \in {p, q} : x <= y
    BY <2>1
  <2> QED BY <2>2 DEF Min, p, q
<1> QED BY <1>1, <1>2, <1>10, <1>11

(* The queue of agent a to b with the parcel for b.                        *)
Sending(a, b, mv) ==
  IF b \in Receiving(mv) THEN Append(peer[a][b], Parcel(mv, b)) ELSE peer[a][b]

LEMMA SendingType ==
  ASSUME Types, NEW a \in Agent, NEW b \in Agent, NEW mv \in SUBSET Pairs
  PROVE  /\ Sending(a, b, mv) \in Seq(PeerMessage)
         /\ Append(Sending(a, b, mv), Plain("ack")) \in Seq(PeerMessage)
<1>1. peer[a][b] \in Seq(PeerMessage) /\ Parcel(mv, b) \in PeerMessage /\ Plain("ack") \in PeerMessage
  BY ParcelType DEF Types, NetTypes, Plain, PeerMessage
<1>2. Sending(a, b, mv) \in Seq(PeerMessage)
  BY <1>1, AppendPlaces DEF Sending
<1> QED BY <1>1, <1>2, AppendPlaces

(* What a makes of the copies that came: mine, and the pairs to send on.   *)
Mine(a, copies) == {c \in copies : Owner(view[a], c) = a}
Onward(a, copies) == moves[a] \cup {<<Owner(view[a], c), c>> : c \in copies \ Mine(a, copies)}

LEMMA OnwardType ==
  ASSUME Types, NEW a \in Agent, NEW copies \in SUBSET Copy
  PROVE  /\ Onward(a, copies) \in SUBSET Pairs /\ Mine(a, copies) \in SUBSET Copy
         /\ a \notin Receiving(Onward(a, copies))
<1>1. view[a] \in SUBSET Member /\ moves[a] \subseteq Pairs
  BY DEF Types, AgentTypes, Pairs
<1>2. \A c \in copies \ Mine(a, copies) :
         c \in Copy /\ Owner(view[a], c) \in Agent \cup {Nobody} /\ Owner(view[a], c) # a
  BY <1>1, OwnerType DEF Mine, Types
<1>3. \A x \in moves[a] : x[1] # a
  BY DEF Types, Apart
<1> QED BY <1>1, <1>2, <1>3 DEF Onward, Pairs, Mine, Receiving

LEMMA RecvMovesStep ==
  ASSUME Types, NEW a \in Agent, NEW b \in Agent, RecvMoves(a, b)
  PROVE  LET copies == Head(peer[b][a]).copies
             mv     == Onward(a, copies)
         IN  /\ a \in Alive /\ a # b /\ peer[b][a] # <<>> /\ Head(peer[b][a]) \in MovesMessage
             /\ copies \in SUBSET Copy
             /\ Head(peer[b][a]).type = "moves"
             /\ held' = [held EXCEPT ![a] = held[a] \cup Mine(a, copies)]
             /\ nE' = [nE EXCEPT ![a] = nE[a] + InCount(Mine(a, copies))]
             /\ moves' = [moves EXCEPT ![a] = {}]
             /\ acks' = [acks EXCEPT ![a] = acks[a] + Cardinality(Receiving(mv))]
             /\ peer' \in PeerNet
             /\ peer'[b][a] = Tail(peer[b][a])
             /\ peer'[a][b] = Append(Sending(a, b, mv), Plain("ack"))
             /\ \A x \in Agent \ {b} : peer'[a][x] = Sending(a, x, mv)
             /\ \A x, y \in Agent : x # a /\ ~(x = b /\ y = a) => peer'[x][y] = peer[x][y]
<1> DEFINE copies == Head(peer[b][a]).copies
           mv == Onward(a, copies)
           sent == SentMoves(a, mv, peer)
<1>1. peer[b][a] # <<>> /\ Head(peer[b][a]).type = "moves" /\ a \in Alive
  BY DEF RecvMoves
<1>2. peer[b][a] \in Seq(PeerMessage) /\ peer \in PeerNet
  BY DEF Types, NetTypes, PeerNet
<1>3. Head(peer[b][a]) \in PeerMessage /\ Tail(peer[b][a]) \in Seq(PeerMessage)
  BY <1>1, <1>2, TailPlaces
<1>4. Head(peer[b][a]) \in MovesMessage /\ copies \in SUBSET Copy
  BY <1>1, <1>3 DEF PeerMessage, MovesMessage
<1>5. a # b
  BY <1>1 DEF Types, Apart
<1> HIDE DEF copies
<1>6. mv \in SUBSET Pairs /\ a \notin Receiving(mv)
  BY <1>4, OnwardType
<1>7. /\ held' = [held EXCEPT ![a] = held[a] \cup Mine(a, copies)]
      /\ nE' = [nE EXCEPT ![a] = nE[a] + InCount(Mine(a, copies))]
      /\ moves' = [moves EXCEPT ![a] = {}]
      /\ acks' = [acks EXCEPT ![a] = acks[a] + sent.acks]
      /\ peer' = [peer EXCEPT ![b][a] = Tail(@),
                              ![a] = [sent.peer EXCEPT ![b] = Append(@, Plain("ack"))]]
  BY Zenon DEF RecvMoves, Mine, Onward, copies
<1>8. /\ sent.acks = Cardinality(Receiving(mv))
      /\ sent.peer \in [Agent -> Seq(PeerMessage)]
      /\ \A x \in Agent : sent.peer[x] = Sending(a, x, mv)
  BY <1>2, <1>6, SentMovesType DEF Sending
<1> HIDE DEF mv, sent
<1>9. \A x \in Agent : Sending(a, x, mv) \in Seq(PeerMessage)
                       /\ Append(Sending(a, x, mv), Plain("ack")) \in Seq(PeerMessage)
  BY <1>6, SendingType
<1>10. /\ peer'[b] = [peer[b] EXCEPT ![a] = Tail(peer[b][a])]
       /\ peer'[a] = [sent.peer EXCEPT ![b] = Append(sent.peer[b], Plain("ack"))]
       /\ \A x \in Agent : x # a /\ x # b => peer'[x] = peer[x]
       /\ DOMAIN peer' = Agent
       /\ peer' = [x \in Agent |-> peer'[x]]
  BY <1>2, <1>5, <1>7 DEF PeerNet
<1>11. /\ peer'[b][a] = Tail(peer[b][a])
       /\ peer'[a][b] = Append(Sending(a, b, mv), Plain("ack"))
       /\ \A x \in Agent \ {b} : peer'[a][x] = Sending(a, x, mv)
       /\ \A x, y \in Agent : x # a /\ ~(x = b /\ y = a) => peer'[x][y] = peer[x][y]
  BY <1>2, <1>8, <1>10 DEF PeerNet
<1>12. peer'[a] \in [Agent -> Seq(PeerMessage)] /\ peer'[b] \in [Agent -> Seq(PeerMessage)]
  BY <1>2, <1>3, <1>8, <1>9, <1>10 DEF PeerNet
<1>13. \A x \in Agent : peer'[x] \in [Agent -> Seq(PeerMessage)]
  BY <1>2, <1>10, <1>12 DEF PeerNet
<1>14. peer' \in PeerNet
  BY <1>10, <1>13 DEF PeerNet
<1> QED BY <1>1, <1>4, <1>5, <1>7, <1>8, <1>11, <1>14 DEF copies, mv

-----------------------------------------------------------------------------
(* Messages of a kind, and copies on their way.                            *)

Kind(q, t) == {i \in DOMAIN q : q[i].type = t}
Count(q, t) == Cardinality(Kind(q, t))
Carried(q, c) == \E i \in DOMAIN q : q[i].type = "moves" /\ c \in q[i].copies
CarriedOnce(q, c) ==
  \A i, j \in DOMAIN q :
    q[i].type = "moves" /\ c \in q[i].copies /\ q[j].type = "moves" /\ c \in q[j].copies => i = j

LEMMA CountType ==
  ASSUME NEW S, NEW q \in Seq(S), NEW t
  PROVE  /\ IsFiniteSet(Kind(q, t)) /\ Count(q, t) \in Nat
         /\ Count(q, t) = 0 <=> ~\E i \in DOMAIN q : q[i].type = t
<1>1. IsFiniteSet(1 .. Len(q)) /\ Kind(q, t) \subseteq 1 .. Len(q)
  BY FS_Interval DEF Kind
<1>2. IsFiniteSet(Kind(q, t))
  BY <1>1, FS_Subset
<1>3. Count(q, t) = 0 <=> Kind(q, t) = {}
  BY <1>2, FS_EmptySet DEF Count
<1> QED BY <1>2, <1>3, FS_CardinalityType DEF Count, Kind

LEMMA CountEmpty == ASSUME NEW t PROVE Count(<<>>, t) = 0
<1>1. Kind(<<>>, t) = {}
  BY DEF Kind
<1> QED BY <1>1, FS_EmptySet DEF Count

LEMMA CountAppend ==
  ASSUME NEW S, NEW q \in Seq(S), NEW x \in S, NEW t
  PROVE  Count(Append(q, x), t) = Count(q, t) + (IF x.type = t THEN 1 ELSE 0)
<1> DEFINE r == Append(q, x)
<1>1. /\ Len(q) \in Nat /\ DOMAIN q = 1 .. Len(q) /\ DOMAIN r = 1 .. Len(q) + 1
      /\ \A i \in 1 .. Len(q) : r[i] = q[i]
      /\ r[Len(q) + 1] = x
  BY AppendPlaces
<1> HIDE DEF r
<1>2. CASE x.type = t
  <2>1. Kind(r, t) = Kind(q, t) \cup {Len(q) + 1} /\ Len(q) + 1 \notin Kind(q, t)
    BY <1>1, <1>2 DEF Kind
  <2>2. IsFiniteSet(Kind(q, t))
    BY CountType
  <2>3. Cardinality(Kind(q, t) \cup {Len(q) + 1}) = Cardinality(Kind(q, t)) + 1
    BY <2>1, <2>2, FS_AddElement
  <2> QED BY <1>2, <2>1, <2>3 DEF Count, r
<1>3. CASE x.type # t
  <2>1. Kind(r, t) = Kind(q, t)
    BY <1>1, <1>3 DEF Kind
  <2>2. Count(q, t) \in Nat
    BY CountType
  <2> QED BY <1>3, <2>1, <2>2 DEF Count, r
<1> QED BY <1>2, <1>3

LEMMA CountTail ==
  ASSUME NEW S, NEW q \in Seq(S), q # <<>>, NEW t
  PROVE  Count(Tail(q), t) = Count(q, t) - (IF Head(q).type = t THEN 1 ELSE 0)
<1> DEFINE r == Tail(q)
           K == Kind(q, t) \ {1}
           f == [i \in Kind(r, t) |-> i + 1]
<1>1. /\ Len(q) \in Nat \ {0} /\ DOMAIN q = 1 .. Len(q) /\ DOMAIN r = 1 .. Len(q) - 1
      /\ \A i \in 1 .. Len(q) - 1 : r[i] = q[i + 1]
      /\ Head(q) = q[1] /\ r \in Seq(S)
  BY TailPlaces
<1> HIDE DEF r
<1>2. IsFiniteSet(Kind(q, t)) /\ IsFiniteSet(Kind(r, t)) /\ IsFiniteSet(K)
  BY <1>1, CountType, FS_Subset
<1>3. f \in Bijection(Kind(r, t), K)
  <2>1. \A i \in Kind(r, t) : i \in 1 .. Len(q) - 1 /\ i + 1 \in K
    BY <1>1 DEF Kind
  <2>2. \A k \in K : k - 1 \in Kind(r, t) /\ (k - 1) + 1 = k
    BY <1>1 DEF Kind
  <2>3. f \in [Kind(r, t) -> K]
    BY <2>1
  <2>4. \A i, j \in Kind(r, t) : f[i] = f[j] => i = j
    BY <2>1
  <2>5. \A k \in K : \E i \in Kind(r, t) : f[i] = k
    BY <2>2
  <2> HIDE DEF f, K
  <2> QED BY <2>3, <2>4, <2>5 DEF Bijection, Injection, Surjection, IsInjective
<1>4. Cardinality(Kind(r, t)) = Cardinality(K)
  <2> HIDE DEF f, K
  <2> QED BY <1>2, <1>3, FS_Bijection DEF ExistsBijection
<1>5. Cardinality(Kind(q, t)) \in Nat
  BY <1>2, FS_CardinalityType
<1>6. CASE Head(q).type = t
  <2>1. 1 \in Kind(q, t)
    BY <1>1, <1>6 DEF Kind
  <2>2. Cardinality(K) = Cardinality(Kind(q, t)) - 1
    BY <1>2, <2>1, FS_RemoveElement
  <2> QED BY <1>4, <1>6, <2>2 DEF Count, r
<1>7. CASE Head(q).type # t
  <2>1. K = Kind(q, t)
    BY <1>1, <1>7 DEF Kind
  <2> HIDE DEF K
  <2>2. Count(r, t) = Count(q, t) - 0
    BY <1>4, <1>5, <2>1 DEF Count
  <2> QED BY <1>7, <2>2 DEF r
<1> QED BY <1>6, <1>7

LEMMA CarriedEmpty == ASSUME NEW c PROVE ~Carried(<<>>, c) /\ CarriedOnce(<<>>, c)
BY DEF Carried, CarriedOnce

Brings(x, c) == x.type = "moves" /\ c \in x.copies

LEMMA CarriedAppend ==
  ASSUME NEW S, NEW q \in Seq(S), NEW x \in S, NEW c
  PROVE  /\ Carried(Append(q, x), c) <=> Carried(q, c) \/ Brings(x, c)
         /\ CarriedOnce(q, c) /\ (Brings(x, c) => ~Carried(q, c)) => CarriedOnce(Append(q, x), c)
<1> DEFINE r == Append(q, x)
<1>1. /\ Len(q) \in Nat /\ DOMAIN q = 1 .. Len(q) /\ DOMAIN r = 1 .. Len(q) + 1
      /\ \A i \in 1 .. Len(q) : r[i] = q[i]
      /\ r[Len(q) + 1] = x
  BY AppendPlaces
<1> HIDE DEF r
<1>2. \A i \in 1 .. Len(q) + 1 : i \in 1 .. Len(q) \/ i = Len(q) + 1
  BY <1>1
<1>3. Carried(r, c) <=> Carried(q, c) \/ Brings(x, c)
  <2>1. Carried(r, c) => Carried(q, c) \/ Brings(x, c)
    BY <1>1, <1>2 DEF Carried, Brings
  <2>2. Carried(q, c) => Carried(r, c)
    BY <1>1 DEF Carried
  <2>3. Brings(x, c) => Carried(r, c)
    BY <1>1 DEF Carried, Brings
  <2> QED BY <2>1, <2>2, <2>3
<1>4. ASSUME CarriedOnce(q, c), Brings(x, c) => ~Carried(q, c) PROVE CarriedOnce(r, c)
  <2> SUFFICES ASSUME NEW i \in DOMAIN r, NEW j \in DOMAIN r, r[i].type = "moves", c \in r[i].copies,
                      r[j].type = "moves", c \in r[j].copies, i # j
               PROVE  FALSE
    BY DEF CarriedOnce
  <2>1. CASE Brings(x, c)
    <3>1. ~Carried(q, c)
      BY <1>4, <2>1
    <3>2. i \notin 1 .. Len(q) /\ j \notin 1 .. Len(q)
      BY <1>1, <3>1 DEF Carried
    <3> QED BY <1>1, <1>2, <3>2
  <2>2. CASE ~Brings(x, c)
    <3>1. i # Len(q) + 1 /\ j # Len(q) + 1
      BY <1>1, <2>2 DEF Brings
    <3>2. i \in DOMAIN q /\ j \in DOMAIN q /\ r[i] = q[i] /\ r[j] = q[j]
      BY <1>1, <1>2, <3>1
    <3> QED BY <1>4, <3>2 DEF CarriedOnce
  <2> QED BY <2>1, <2>2
<1> QED BY <1>3, <1>4 DEF r

LEMMA CarriedTail ==
  ASSUME NEW S, NEW q \in Seq(S), q # <<>>, NEW c
  PROVE  /\ Carried(q, c) <=> Brings(Head(q), c) \/ Carried(Tail(q), c)
         /\ CarriedOnce(q, c) => CarriedOnce(Tail(q), c) /\ ~(Brings(Head(q), c) /\ Carried(Tail(q), c))
<1> DEFINE r == Tail(q)
<1>1. /\ Len(q) \in Nat \ {0} /\ DOMAIN q = 1 .. Len(q) /\ DOMAIN r = 1 .. Len(q) - 1
      /\ \A i \in 1 .. Len(q) - 1 : r[i] = q[i + 1]
      /\ Head(q) = q[1]
  BY TailPlaces
<1> HIDE DEF r
<1>2. \A i \in 1 .. Len(q) : i = 1 \/ (i - 1 \in 1 .. Len(q) - 1 /\ r[i - 1] = q[i])
  BY <1>1
<1>3. \A i \in 1 .. Len(q) - 1 : i + 1 \in 1 .. Len(q) /\ i + 1 # 1
  BY <1>1
<1>4. Carried(q, c) <=> Brings(Head(q), c) \/ Carried(r, c)
  <2>1. Carried(q, c) => Brings(Head(q), c) \/ Carried(r, c)
    BY <1>1, <1>2 DEF Carried, Brings
  <2>2. Carried(r, c) => Carried(q, c)
    BY <1>1, <1>3 DEF Carried
  <2>3. Brings(Head(q), c) => Carried(q, c)
    BY <1>1 DEF Carried, Brings
  <2> QED BY <2>1, <2>2, <2>3
<1>5. ASSUME CarriedOnce(q, c) PROVE CarriedOnce(r, c) /\ ~(Brings(Head(q), c) /\ Carried(r, c))
  <2>1. CarriedOnce(r, c)
    <3> SUFFICES ASSUME NEW i \in DOMAIN r, NEW j \in DOMAIN r, r[i].type = "moves", c \in r[i].copies,
                        r[j].type = "moves", c \in r[j].copies
                 PROVE  i = j
      BY DEF CarriedOnce
    <3>1. i + 1 \in DOMAIN q /\ j + 1 \in DOMAIN q /\ q[i + 1] = r[i] /\ q[j + 1] = r[j]
      BY <1>1, <1>3
    <3>2. i + 1 = j + 1
      BY <1>5, <3>1 DEF CarriedOnce
    <3> QED BY <1>1, <3>2
  <2>2. ASSUME Brings(Head(q), c), Carried(r, c) PROVE FALSE
    <3>1. PICK i \in DOMAIN r : r[i].type = "moves" /\ c \in r[i].copies
      BY <2>2 DEF Carried
    <3>2. i + 1 \in DOMAIN q /\ q[i + 1] = r[i] /\ 1 \in DOMAIN q
      BY <1>1, <1>3
    <3>3. i + 1 = 1
      BY <1>1, <1>5, <2>2, <3>1, <3>2 DEF CarriedOnce, Brings
    <3> QED BY <1>1, <3>3
  <2> QED BY <2>1, <2>2
<1> QED BY <1>4, <1>5 DEF r

-----------------------------------------------------------------------------
(* What is owed: an agent waits for the acknowledgements of the parcels it *)
(* sent, and for those that are on their way to it.                        *)

Owing(a) == [b \in Agent |-> Count(peer[a][b], "moves") + Count(peer[b][a], "ack")]
Tokens(f) == UNION {{b} \X (1 .. f[b]) : b \in Agent}

LEMMA TokensFinite ==
  ASSUME NEW f \in [Agent -> Nat]
  PROVE  /\ IsFiniteSet(Tokens(f)) /\ Cardinality(Tokens(f)) \in Nat
         /\ \A b, i : <<b, i>> \in Tokens(f) <=> b \in Agent /\ i \in 1 .. f[b]
         /\ \A x \in Tokens(f) : x = <<x[1], x[2]>>
         /\ Cardinality(Tokens(f)) = 0 => \A b \in Agent : f[b] = 0
<1> DEFINE S == {{b} \X (1 .. f[b]) : b \in Agent}
<1>1. IsFiniteSet(S)
  <2> DEFINE g == [b \in Agent |-> {b} \X (1 .. f[b])]
  <2>1. g \in Surjection(Agent, S)
    BY DEF Surjection
  <2> HIDE DEF g, S
  <2> QED BY <2>1, FS_Surjection, ConsistentHashAssumption
<1>2. ASSUME NEW s \in S PROVE IsFiniteSet(s)
  <2>1. PICK b \in Agent : s = {b} \X (1 .. f[b])
    OBVIOUS
  <2>2. IsFiniteSet(1 .. f[b])
    BY FS_Interval
  <2>3. IsFiniteSet({b})
    BY FS_Singleton
  <2> QED BY <2>1, <2>2, <2>3, FS_Product
<1>3. IsFiniteSet(Tokens(f))
  <2> HIDE DEF S
  <2> QED BY <1>1, <1>2, FS_UNION DEF Tokens, S
<1>4. \A b, i : <<b, i>> \in Tokens(f) <=> b \in Agent /\ i \in 1 .. f[b]
  BY DEF Tokens
<1>5. \A x \in Tokens(f) : x = <<x[1], x[2]>>
  BY DEF Tokens
<1>6. ASSUME Cardinality(Tokens(f)) = 0, NEW b \in Agent PROVE f[b] = 0
  <2>1. Tokens(f) = {}
    BY <1>3, <1>6, FS_EmptySet
  <2>2. <<b, 1>> \notin Tokens(f)
    BY <2>1
  <2> QED BY <1>4, <2>2
<1> QED BY <1>3, <1>4, <1>5, <1>6, FS_CardinalityType

LEMMA TokensGrow ==
  ASSUME NEW f \in [Agent -> Nat], NEW g \in [Agent -> Nat], NEW R, IsFiniteSet(R),
         \A b \in Agent : g[b] = f[b] + (IF b \in R THEN 1 ELSE 0)
  PROVE  Cardinality(Tokens(g)) <= Cardinality(Tokens(f)) + Cardinality(R)
<1> DEFINE Q == R \cap Agent
           New == {<<b, f[b] + 1>> : b \in Q}
           h == [b \in Q |-> <<b, f[b] + 1>>]
<1>1. IsFiniteSet(Q) /\ Cardinality(Q) <= Cardinality(R) /\ Cardinality(Q) \in Nat /\ Cardinality(R) \in Nat
  <2>1. Q \in SUBSET R
    OBVIOUS
  <2> HIDE DEF Q
  <2> QED BY <2>1, FS_Subset, FS_CardinalityType
<1>2. h \in Surjection(Q, New)
  BY DEF Surjection
<1>3. IsFiniteSet(New) /\ Cardinality(New) <= Cardinality(Q)
  <2> HIDE DEF h, New, Q
  <2> QED BY <1>1, <1>2, FS_Surjection
<1>4. Tokens(g) \subseteq Tokens(f) \cup New
  <2> SUFFICES ASSUME NEW x \in Tokens(g), x \notin New PROVE x \in Tokens(f)
    OBVIOUS
  <2>1. PICK b \in Agent : x \in {b} \X (1 .. g[b])
    BY DEF Tokens
  <2>2. PICK i \in 1 .. g[b] : x = <<b, i>>
    BY <2>1
  <2>3. CASE b \in R
    <3>1. <<b, f[b] + 1>> \in New
      BY <2>3
    <3>2. i # f[b] + 1 /\ g[b] = f[b] + 1
      BY <2>2, <2>3, <3>1
    <3>3. i \in 1 .. f[b]
      BY <3>2
    <3> QED BY <2>2, <3>3, TokensFinite
  <2>4. CASE b \notin R
    <3>1. i \in 1 .. f[b]
      BY <2>4
    <3> QED BY <2>2, <3>1, TokensFinite
  <2> QED BY <2>3, <2>4
<1>5. IsFiniteSet(Tokens(f)) /\ Cardinality(Tokens(f)) \in Nat
  BY TokensFinite
<1>6. Cardinality(Tokens(f) \cup New) <= Cardinality(Tokens(f)) + Cardinality(New)
  <2>1. IsFiniteSet(Tokens(f) \cap New)
    BY <1>5, FS_Subset
  <2>2. Cardinality(Tokens(f) \cup New) = Cardinality(Tokens(f)) + Cardinality(New) - Cardinality(Tokens(f) \cap New)
    <3> HIDE DEF New
    <3> QED BY <1>3, <1>5, FS_Union
  <2>3. Cardinality(Tokens(f) \cap New) \in Nat /\ Cardinality(New) \in Nat
    BY <1>3, <2>1, FS_CardinalityType
  <2> HIDE DEF New
  <2> QED BY <1>5, <2>2, <2>3
<1>7. IsFiniteSet(Tokens(f) \cup New)
  BY <1>3, <1>5, FS_Union
<1>8. Cardinality(Tokens(g)) <= Cardinality(Tokens(f) \cup New) /\ Cardinality(Tokens(g)) \in Nat
      /\ Cardinality(Tokens(f) \cup New) \in Nat
  <2> HIDE DEF New
  <2> QED BY <1>4, <1>7, FS_Subset, FS_CardinalityType
<1>9. Cardinality(New) \in Nat
  BY <1>3, FS_CardinalityType
<1> HIDE DEF New, Q
<1> QED BY <1>1, <1>3, <1>5, <1>6, <1>8, <1>9

LEMMA TokensShrink ==
  ASSUME NEW f \in [Agent -> Nat], NEW g \in [Agent -> Nat], NEW b \in Agent, f[b] = g[b] + 1,
         \A x \in Agent \ {b} : g[x] = f[x]
  PROVE  Cardinality(Tokens(g)) = Cardinality(Tokens(f)) - 1 /\ Cardinality(Tokens(f)) > 0
<1>1. <<b, f[b]>> \in Tokens(f) /\ <<b, f[b]>> \notin Tokens(g)
  BY TokensFinite
<1>2. Tokens(f) \ {<<b, f[b]>>} = Tokens(g)
  <2>1. ASSUME NEW x \in Tokens(f), x # <<b, f[b]>> PROVE x \in Tokens(g)
    <3>1. PICK y \in Agent : \E i \in 1 .. f[y] : x = <<y, i>>
      BY DEF Tokens
    <3>2. PICK i \in 1 .. f[y] : x = <<y, i>>
      BY <3>1
    <3>3. i \in 1 .. g[y]
      BY <2>1, <3>2
    <3> QED BY <3>2, <3>3, TokensFinite
  <2>2. ASSUME NEW x \in Tokens(g) PROVE x \in Tokens(f) /\ x # <<b, f[b]>>
    <3>1. PICK y \in Agent : \E i \in 1 .. g[y] : x = <<y, i>>
      BY DEF Tokens
    <3>2. PICK i \in 1 .. g[y] : x = <<y, i>>
      BY <3>1
    <3>3. i \in 1 .. f[y] /\ (y = b => i # f[b])
      BY <3>2
    <3> QED BY <3>2, <3>3, TokensFinite
  <2> QED BY <2>1, <2>2
<1>3. IsFiniteSet(Tokens(f)) /\ Cardinality(Tokens(f)) \in Nat /\ Cardinality(Tokens(g)) \in Nat
  BY TokensFinite
<1>4. Cardinality(Tokens(f) \ {<<b, f[b]>>}) = Cardinality(Tokens(f)) - 1
  BY <1>1, <1>3, FS_RemoveElement
<1>5. Cardinality(Tokens(g)) = Cardinality(Tokens(f)) - 1
  BY <1>2, <1>4
<1> QED BY <1>3, <1>5

(* Copies that agent a has, and where a copy may be.                       *)
Here(a) == held[a] \cup {x[2] : x \in moves[a]}
Single(a) == \A x \in moves[a] : x[2] \notin held[a] /\ \A y \in moves[a] : x[2] = y[2] => x = y
Distinct ==
  /\ \A a \in Agent : Single(a)
  /\ \A a, b \in Agent : \A c \in Copy : c \in Here(a) /\ c \in Here(b) => a = b
  /\ \A a, b, p, q \in Agent : \A c \in Copy :
       Carried(peer[a][b], c) /\ Carried(peer[p][q], c) => a = p /\ b = q
  /\ \A a, b \in Agent : \A c \in Copy : CarriedOnce(peer[a][b], c)
  /\ \A a, b, p \in Agent : \A c \in Copy : Carried(peer[a][b], c) => c \notin Here(p)
Present ==
  /\ \A a \in Agent : \A c \in Here(a) : c.edge \in edges
  /\ \A a, b \in Agent : \A c \in Copy : Carried(peer[a][b], c) => c.edge \in edges
Accounts ==
  \A a \in Agent : /\ Cardinality(Tokens(Owing(a))) <= acks[a]
                   /\ nE[a] = InCount(held[a])
Books == Types /\ Distinct /\ Present /\ Accounts

LEMMA OwingType ==
  ASSUME NetTypes, NEW a \in Agent
  PROVE  /\ Owing(a) \in [Agent -> Nat]
         /\ \A b \in Agent : Owing(a)[b] = Count(peer[a][b], "moves") + Count(peer[b][a], "ack")
<1>1. \A b \in Agent : Count(peer[a][b], "moves") \in Nat /\ Count(peer[b][a], "ack") \in Nat
  BY CountType DEF NetTypes
<1> QED BY <1>1 DEF Owing

LEMMA OwingPrimed ==
  ASSUME NetTypes, NetTypes'
  PROVE  /\ \A x, y \in Agent : /\ Count(peer[x][y], "moves") \in Nat /\ Count(peer[x][y], "ack") \in Nat
                                /\ Count(peer'[x][y], "moves") \in Nat /\ Count(peer'[x][y], "ack") \in Nat
         /\ \A x \in Agent : /\ Owing(x) \in [Agent -> Nat] /\ Owing(x)' \in [Agent -> Nat]
                             /\ \A y \in Agent : Owing(x)[y] = Count(peer[x][y], "moves") + Count(peer[y][x], "ack")
                             /\ \A y \in Agent : Owing(x)'[y] = Count(peer'[x][y], "moves") + Count(peer'[y][x], "ack")
<1>1. \A x, y \in Agent : peer[x][y] \in Seq(PeerMessage) /\ peer'[x][y] \in Seq(PeerMessage)
  BY DEF NetTypes
<1>2. \A x, y \in Agent : /\ Count(peer[x][y], "moves") \in Nat /\ Count(peer[x][y], "ack") \in Nat
                         /\ Count(peer'[x][y], "moves") \in Nat /\ Count(peer'[x][y], "ack") \in Nat
  BY <1>1, CountType
<1>3. \A x \in Agent : Owing(x)' = [y \in Agent |-> Count(peer'[x][y], "moves") + Count(peer'[y][x], "ack")]
  BY DEF Owing
<1>4. \A x \in Agent : Owing(x) = [y \in Agent |-> Count(peer[x][y], "moves") + Count(peer[y][x], "ack")]
  BY DEF Owing
<1> QED BY <1>2, <1>3, <1>4

(* An agent whose acknowledgements are there has no parcel on its way, and *)
(* nobody's acknowledgement.                                               *)
LEMMA NothingOwed ==
  ASSUME Books, NEW a \in Agent, acks[a] = 0, NEW b \in Agent
  PROVE  /\ \A i \in DOMAIN peer[a][b] : peer[a][b][i].type # "moves"
         /\ \A i \in DOMAIN peer[b][a] : peer[b][a][i].type # "ack"
<1>1. Owing(a) \in [Agent -> Nat] /\ Cardinality(Tokens(Owing(a))) <= 0
  BY OwingType DEF Books, Types, Accounts
<1>2. Cardinality(Tokens(Owing(a))) = 0
  BY <1>1, TokensFinite
<1>3. Owing(a)[b] = 0
  BY <1>1, <1>2, TokensFinite
<1>4. /\ Count(peer[a][b], "moves") + Count(peer[b][a], "ack") = 0
      /\ peer[a][b] \in Seq(PeerMessage) /\ peer[b][a] \in Seq(PeerMessage)
  BY <1>3, OwingType DEF Books, Types, NetTypes
<1>5. Count(peer[a][b], "moves") \in Nat /\ Count(peer[b][a], "ack") \in Nat
  BY <1>4, CountType
<1>6. Count(peer[a][b], "moves") = 0 /\ Count(peer[b][a], "ack") = 0
  BY <1>4, <1>5
<1> QED BY <1>4, <1>6, CountType

LEMMA CopyPlaces ==
  ASSUME Types, NEW a \in Agent
  PROVE  /\ \A c \in Here(a) : c \in Copy
         /\ \A c : c \in Here(a) <=> c \in held[a] \/ \E o : <<o, c>> \in moves[a]
<1>1. held[a] \subseteq Copy /\ \A x \in moves[a] : x = <<x[1], x[2]>> /\ x[2] \in Copy
  BY DEF Types, AgentTypes
<1>2. ASSUME NEW c, NEW o, <<o, c>> \in moves[a] PROVE c \in Here(a)
  <2>1. <<o, c>>[2] = c
    OBVIOUS
  <2> QED BY <1>2, <2>1 DEF Here
<1>3. ASSUME NEW c \in Here(a), c \notin held[a] PROVE \E o : <<o, c>> \in moves[a]
  <2>1. PICK x \in moves[a] : c = x[2]
    BY <1>3 DEF Here
  <2>2. <<x[1], c>> \in moves[a]
    BY <1>1, <2>1
  <2> QED BY <2>2
<1>4. \A c \in Here(a) : c \in Copy
  BY <1>1 DEF Here
<1>5. held[a] \subseteq Here(a)
  BY DEF Here
<1> QED BY <1>2, <1>3, <1>4, <1>5

(* The copies popped, from b, and those of a itself are kept, or sent.     *)
Flow(a, b, popped, keep, mv) ==
  /\ held' = [held EXCEPT ![a] = keep] /\ moves' = [moves EXCEPT ![a] = {}]
  /\ mv \in SUBSET Pairs /\ keep \in SUBSET Copy /\ popped \in SUBSET Copy
  /\ \A c \in popped : Carried(peer[b][a], c)
  /\ \A c \in Copy : c \in Here(a) \cup popped <=> c \in keep \/ \E o : <<o, c>> \in mv
  /\ \A x \in mv : x[2] \notin keep /\ \A y \in mv : x[2] = y[2] => x = y
  /\ \A p, q \in Agent : \A c \in Copy :
       /\ Carried(peer'[p][q], c) <=>
            (p = a /\ <<q, c>> \in mv) \/ (Carried(peer[p][q], c) /\ ~(p = b /\ q = a /\ c \in popped))
       /\ CarriedOnce(peer'[p][q], c)

LEMMA FlowHolds ==
  ASSUME Types, Distinct, Present, NEW a \in Agent, NEW b \in Agent, NEW popped, NEW keep, NEW mv,
         Flow(a, b, popped, keep, mv), edges' = edges
  PROVE  Distinct' /\ Present'
<1>1. /\ \A p \in Agent \ {a} : held'[p] = held[p] /\ moves'[p] = moves[p]
      /\ held'[a] = keep /\ moves'[a] = {}
  BY DEF Flow, Types, AgentTypes
<1>2. /\ \A p \in Agent \ {a} : Here(p)' = Here(p) /\ (Single(p)' <=> Single(p))
      /\ Here(a)' = keep /\ Single(a)'
  BY <1>1 DEF Here, Single
<1>3. \A x \in mv : x = <<x[1], x[2]>>
  BY DEF Flow, Pairs
<1>4. \A c \in Copy : \A o, q : <<o, c>> \in mv /\ <<q, c>> \in mv => o = q
  <2> SUFFICES ASSUME NEW c \in Copy, NEW o, NEW q, <<o, c>> \in mv, <<q, c>> \in mv PROVE o = q
    OBVIOUS
  <2>1. <<o, c>>[2] = <<q, c>>[2]
    OBVIOUS
  <2>2. <<o, c>> = <<q, c>>
    BY <2>1 DEF Flow
  <2> QED BY <2>2
<1>5. \A c \in Copy : \A o : <<o, c>> \in mv => c \notin keep
  <2> SUFFICES ASSUME NEW c \in Copy, NEW o, <<o, c>> \in mv PROVE c \notin keep
    OBVIOUS
  <2>1. <<o, c>>[2] = c
    OBVIOUS
  <2> QED BY <2>1 DEF Flow
<1>6. /\ \A c \in popped : Carried(peer[b][a], c)
      /\ \A c \in Copy : c \in Here(a) \/ c \in popped <=> c \in keep \/ \E o : <<o, c>> \in mv
      /\ \A p, q \in Agent : \A c \in Copy :
         /\ Carried(peer'[p][q], c) <=>
            (p = a /\ <<q, c>> \in mv) \/ (Carried(peer[p][q], c) /\ ~(p = b /\ q = a /\ c \in popped))
         /\ CarriedOnce(peer'[p][q], c)
      /\ keep \subseteq Copy
  BY DEF Flow
<1>7. /\ \A p, q \in Agent : \A c \in Copy : c \in Here(p) /\ c \in Here(q) => p = q
      /\ \A p, q, r, s \in Agent : \A c \in Copy :
           Carried(peer[p][q], c) /\ Carried(peer[r][s], c) => p = r /\ q = s
      /\ \A p, q, r \in Agent : \A c \in Copy : Carried(peer[p][q], c) => c \notin Here(r)
  BY DEF Distinct
<1>14. \A c \in Copy : \A r, s \in Agent :
          (c \in keep \/ \E o : <<o, c>> \in mv) /\ Carried(peer[r][s], c) => r = b /\ s = a /\ c \in popped
  <2> SUFFICES ASSUME NEW c \in Copy, NEW r \in Agent, NEW s \in Agent, c \in Here(a) \/ c \in popped,
                      Carried(peer[r][s], c)
               PROVE  r = b /\ s = a /\ c \in popped
    BY <1>6
  <2>1. c \notin Here(a)
    BY <1>7
  <2> QED BY <1>6, <1>7, <2>1
<1>8. \A p, q \in Agent : \A c \in Copy : c \in Here(p)' /\ c \in Here(q)' => p = q
  BY <1>2, <1>6, <1>7
<1>9. \A p, q, r, s \in Agent : \A c \in Copy :
         Carried(peer'[p][q], c) /\ Carried(peer'[r][s], c) => p = r /\ q = s
  <2> SUFFICES ASSUME NEW p \in Agent, NEW q \in Agent, NEW r \in Agent, NEW s \in Agent, NEW c \in Copy,
                      Carried(peer'[p][q], c), Carried(peer'[r][s], c)
               PROVE  p = r /\ q = s
    OBVIOUS
  <2>1. /\ (p = a /\ <<q, c>> \in mv) \/ (Carried(peer[p][q], c) /\ ~(p = b /\ q = a /\ c \in popped))
        /\ (r = a /\ <<s, c>> \in mv) \/ (Carried(peer[r][s], c) /\ ~(r = b /\ s = a /\ c \in popped))
    BY <1>6
  <2>2. CASE p = a /\ <<q, c>> \in mv
    BY <1>4, <1>14, <2>1, <2>2
  <2>3. CASE Carried(peer[p][q], c) /\ ~(p = b /\ q = a /\ c \in popped)
    BY <1>7, <1>14, <2>1, <2>3
  <2> QED BY <2>1, <2>2, <2>3
<1>10. \A p, q, r \in Agent : \A c \in Copy : Carried(peer'[p][q], c) => c \notin Here(r)'
  <2> SUFFICES ASSUME NEW p \in Agent, NEW q \in Agent, NEW r \in Agent, NEW c \in Copy,
                      Carried(peer'[p][q], c), c \in Here(r)'
               PROVE  FALSE
    OBVIOUS
  <2>1. (p = a /\ <<q, c>> \in mv) \/ (Carried(peer[p][q], c) /\ ~(p = b /\ q = a /\ c \in popped))
    BY <1>6
  <2>2. CASE r = a
    BY <1>2, <1>5, <1>14, <2>1, <2>2
  <2>3. CASE r # a
    <3>1. c \in Here(r)
      BY <1>2, <2>3
    <3>2. ~Carried(peer[p][q], c)
      BY <1>7, <3>1
    <3>3. c \in Here(a) \/ c \in popped
      BY <1>6, <2>1, <3>2
    <3> QED BY <1>6, <1>7, <2>3, <3>1, <3>3
  <2> QED BY <2>2, <2>3
<1>11. Distinct'
  BY <1>2, <1>6, <1>8, <1>9, <1>10 DEF Distinct
<1>12. /\ \A p \in Agent : \A c \in Here(p) : c.edge \in edges
       /\ \A p, q \in Agent : \A c \in Copy : Carried(peer[p][q], c) => c.edge \in edges
  BY DEF Present
<1>13. /\ \A p \in Agent : \A c \in Here(p)' : c.edge \in edges
       /\ \A p, q \in Agent : \A c \in Copy : Carried(peer'[p][q], c) => c.edge \in edges
  BY <1>2, <1>6, <1>12
<1> QED BY <1>11, <1>13 DEF Present

LEMMA SendingCarries ==
  ASSUME Types, NEW a \in Agent, NEW x \in Agent, NEW mv \in SUBSET Pairs, NEW c \in Copy,
         NEW q, q = Sending(a, x, mv) \/ q = Append(Sending(a, x, mv), Plain("ack"))
  PROVE  /\ Carried(q, c) <=> Carried(peer[a][x], c) \/ <<x, c>> \in mv
         /\ CarriedOnce(peer[a][x], c) /\ (<<x, c>> \in mv => ~Carried(peer[a][x], c)) => CarriedOnce(q, c)
<1> DEFINE s == Sending(a, x, mv)
<1>1. /\ peer[a][x] \in Seq(PeerMessage) /\ Parcel(mv, x) \in PeerMessage /\ s \in Seq(PeerMessage)
      /\ Plain("ack") \in PeerMessage /\ Plain("ack").type = "ack"
  BY ParcelType, SendingType DEF Types, NetTypes, Plain, PeerMessage
<1>2. Brings(Parcel(mv, x), c) <=> <<x, c>> \in mv
  BY ParcelType DEF Brings
<1>3. <<x, c>> \in mv => x \in Receiving(mv)
  BY ReceivingType
<1>4. /\ Carried(s, c) <=> Carried(peer[a][x], c) \/ <<x, c>> \in mv
      /\ CarriedOnce(peer[a][x], c) /\ (<<x, c>> \in mv => ~Carried(peer[a][x], c)) => CarriedOnce(s, c)
  <2>1. CASE x \in Receiving(mv)
    <3>1. s = Append(peer[a][x], Parcel(mv, x))
      BY <2>1 DEF Sending
    <3> HIDE DEF s
    <3> QED BY <1>1, <1>2, <3>1, CarriedAppend
  <2>2. CASE x \notin Receiving(mv)
    <3>1. s = peer[a][x]
      BY <2>2 DEF Sending
    <3> HIDE DEF s
    <3> QED BY <1>3, <2>2, <3>1
  <2> QED BY <2>1, <2>2
<1>5. ~Brings(Plain("ack"), c)
  BY <1>1 DEF Brings
<1>6. /\ Carried(Append(s, Plain("ack")), c) <=> Carried(s, c)
      /\ CarriedOnce(s, c) => CarriedOnce(Append(s, Plain("ack")), c)
  <2> HIDE DEF s
  <2> QED BY <1>1, <1>5, CarriedAppend
<1> QED BY <1>4, <1>6

LEMMA SendingCounts ==
  ASSUME Types, NEW a \in Agent, NEW x \in Agent, NEW mv \in SUBSET Pairs
  PROVE  /\ Count(Sending(a, x, mv), "moves") = Count(peer[a][x], "moves") + (IF x \in Receiving(mv) THEN 1 ELSE 0)
         /\ Count(Sending(a, x, mv), "ack") = Count(peer[a][x], "ack")
         /\ Count(Append(Sending(a, x, mv), Plain("ack")), "moves") = Count(Sending(a, x, mv), "moves")
         /\ Count(Append(Sending(a, x, mv), Plain("ack")), "ack") = Count(peer[a][x], "ack") + 1
         /\ Count(peer[a][x], "moves") \in Nat /\ Count(peer[a][x], "ack") \in Nat
<1> DEFINE s == Sending(a, x, mv)
<1>1. /\ peer[a][x] \in Seq(PeerMessage) /\ Parcel(mv, x) \in PeerMessage /\ s \in Seq(PeerMessage)
      /\ Plain("ack") \in PeerMessage /\ Plain("ack").type = "ack" /\ Parcel(mv, x).type = "moves"
  BY ParcelType, SendingType DEF Types, NetTypes, Plain, PeerMessage
<1>2. /\ Count(peer[a][x], "moves") \in Nat /\ Count(peer[a][x], "ack") \in Nat
      /\ Count(s, "moves") \in Nat /\ Count(s, "ack") \in Nat
  <2> HIDE DEF s
  <2> QED BY <1>1, CountType
<1>3. /\ Count(s, "moves") = Count(peer[a][x], "moves") + (IF x \in Receiving(mv) THEN 1 ELSE 0)
      /\ Count(s, "ack") = Count(peer[a][x], "ack")
  <2>1. CASE x \in Receiving(mv)
    <3>1. s = Append(peer[a][x], Parcel(mv, x))
      BY <2>1 DEF Sending
    <3> HIDE DEF s
    <3>2. /\ Count(Append(peer[a][x], Parcel(mv, x)), "moves") = Count(peer[a][x], "moves") + 1
          /\ Count(Append(peer[a][x], Parcel(mv, x)), "ack") = Count(peer[a][x], "ack") + 0
      BY <1>1, CountAppend
    <3> QED BY <1>2, <2>1, <3>1, <3>2
  <2>2. CASE x \notin Receiving(mv)
    <3>1. s = peer[a][x]
      BY <2>2 DEF Sending
    <3> HIDE DEF s
    <3> QED BY <1>2, <2>2, <3>1
  <2> QED BY <2>1, <2>2
<1>4. /\ Count(Append(s, Plain("ack")), "moves") = Count(s, "moves") + 0
      /\ Count(Append(s, Plain("ack")), "ack") = Count(s, "ack") + 1
  <2> HIDE DEF s
  <2> QED BY <1>1, CountAppend
<1> QED BY <1>2, <1>3, <1>4

(* The pairs to send, each copy once.                                      *)
LEMMA OutgoingOnce ==
  ASSUME Types, NEW a \in Agent, Single(a), NEW mem \in SUBSET Member
  PROVE  LET mv == Outgoing(a, mem)
             keep == held[a] \ Lost(a, mem)
         IN  /\ \A c : c \in Here(a) <=> c \in keep \/ \E o : <<o, c>> \in mv
             /\ \A x \in mv : x[2] \notin keep /\ \A y \in mv : x[2] = y[2] => x = y
<1> DEFINE mv == Outgoing(a, mem)
           keep == held[a] \ Lost(a, mem)
           own == {<<Owner(mem, c), c>> : c \in Lost(a, mem)}
<1>1. \A x \in mv : x \in moves[a] \/ (x[2] \in Lost(a, mem) /\ x = <<Owner(mem, x[2]), x[2]>>)
  BY DEF Outgoing
<1>2. \A c \in Lost(a, mem) : c \in held[a] /\ <<Owner(mem, c), c>> \in mv
  BY DEF Lost, Outgoing
<1>3. \A x \in moves[a] : x \in mv /\ x = <<x[1], x[2]>> /\ x[2] \notin held[a]
                          /\ \A y \in moves[a] : x[2] = y[2] => x = y
  BY DEF Outgoing, Single, Types, AgentTypes
<1>4. ASSUME NEW x \in mv PROVE x[2] \notin keep /\ \A y \in mv : x[2] = y[2] => x = y
  BY <1>1, <1>2, <1>3
<1>5. ASSUME NEW c, c \in Here(a) PROVE c \in keep \/ \E o : <<o, c>> \in mv
  <2>1. CASE c \in held[a]
    BY <1>2, <2>1
  <2>2. CASE c \notin held[a]
    BY <1>3, <1>5, <2>2, CopyPlaces
  <2> QED BY <2>1, <2>2
<1>6. ASSUME NEW c, NEW o, <<o, c>> \in mv PROVE c \in Here(a)
  <2>1. <<o, c>>[2] = c
    OBVIOUS
  <2>2. <<o, c>> \in moves[a] \/ c \in held[a]
    BY <1>1, <1>2, <1>6, <2>1
  <2> QED BY <2>2, CopyPlaces
<1>7. keep \subseteq Here(a)
  BY DEF Here
<1> QED BY <1>4, <1>5, <1>6, <1>7

LEMMA OnwardOnce ==
  ASSUME Types, NEW a \in Agent, NEW copies \in SUBSET Copy, Single(a), copies \cap Here(a) = {}
  PROVE  LET mv == Onward(a, copies)
             keep == held[a] \cup Mine(a, copies)
         IN  /\ \A c : c \in Here(a) \cup copies <=> c \in keep \/ \E o : <<o, c>> \in mv
             /\ \A x \in mv : x[2] \notin keep /\ \A y \in mv : x[2] = y[2] => x = y
             /\ held[a] \cap Mine(a, copies) = {}
<1> DEFINE mv == Onward(a, copies)
           keep == held[a] \cup Mine(a, copies)
<1>0. \A c : c \in Here(a) <=> c \in held[a] \/ \E o : <<o, c>> \in moves[a]
  BY CopyPlaces
<1>1. \A x \in mv : x \in moves[a] \/ (/\ x[2] \in copies /\ x[2] \notin Mine(a, copies)
                                       /\ x = <<Owner(view[a], x[2]), x[2]>>)
  BY DEF Onward
<1>2. \A c \in copies : /\ c \notin Mine(a, copies) => <<Owner(view[a], c), c>> \in mv
                        /\ c \notin held[a] /\ \A o : <<o, c>> \notin moves[a]
  BY <1>0 DEF Onward
<1>3. \A x \in moves[a] : x \in mv /\ x = <<x[1], x[2]>> /\ x[2] \notin held[a] /\ x[2] \notin copies
                          /\ \A y \in moves[a] : x[2] = y[2] => x = y
  <2> SUFFICES ASSUME NEW x \in moves[a]
               PROVE  x \in mv /\ x = <<x[1], x[2]>> /\ x[2] \notin held[a] /\ x[2] \notin copies
                      /\ \A y \in moves[a] : x[2] = y[2] => x = y
    OBVIOUS
  <2>1. x = <<x[1], x[2]>>
    BY DEF Types, AgentTypes
  <2> QED BY <1>2, <2>1 DEF Onward, Single
<1>4. Mine(a, copies) \subseteq copies
  BY DEF Mine
<1>5. ASSUME NEW x \in mv PROVE x[2] \notin keep /\ \A y \in mv : x[2] = y[2] => x = y
  BY <1>1, <1>2, <1>3, <1>4
<1>6. ASSUME NEW c, c \in Here(a) \cup copies PROVE c \in keep \/ \E o : <<o, c>> \in mv
  BY <1>0, <1>2, <1>3, <1>6
<1>7. ASSUME NEW c, NEW o, <<o, c>> \in mv PROVE c \in Here(a) \cup copies
  <2>1. <<o, c>>[2] = c
    OBVIOUS
  <2> QED BY <1>0, <1>1, <1>7, <2>1
<1>8. keep \subseteq Here(a) \cup copies
  BY <1>4 DEF Here
<1>9. held[a] \cap Mine(a, copies) = {}
  BY <1>2, <1>4
<1> QED BY <1>5, <1>6, <1>7, <1>8, <1>9

LEMMA MoveAwayNet ==
  ASSUME Types, NEW a \in Agent, NEW mem \in SUBSET Member, NEW ph \in Phase, MoveAway(a, mem, ph)
  PROVE  /\ peer' \in PeerNet
         /\ \A x \in Agent : peer'[a][x] = Sending(a, x, Outgoing(a, mem))
         /\ \A x \in Agent \ {a} : peer'[x] = peer[x]
<1> DEFINE mv == Outgoing(a, mem)
           sent == SentMoves(a, mv, peer).peer
<1>1. mv \in SUBSET Pairs
  BY OutgoingType
<1>2. peer \in PeerNet
  BY DEF Types, NetTypes, PeerNet
<1>3. peer' = [peer EXCEPT ![a] = sent]
  BY MoveAwayStep
<1>4. sent \in [Agent -> Seq(PeerMessage)] /\ \A x \in Agent : sent[x] = Sending(a, x, mv)
  BY <1>1, <1>2, SentMovesType DEF Sending
<1> HIDE DEF sent, mv
<1>5. peer' \in PeerNet /\ peer'[a] = sent /\ \A x \in Agent \ {a} : peer'[x] = peer[x]
  BY <1>2, <1>3, <1>4 DEF PeerNet
<1> QED BY <1>4, <1>5 DEF mv

LEMMA MoveAwayFlow ==
  ASSUME Types, Distinct, NEW a \in Agent, NEW mem \in SUBSET Member, NEW ph \in Phase,
         MoveAway(a, mem, ph)
  PROVE  Flow(a, a, {}, held[a] \ Lost(a, mem), Outgoing(a, mem))
<1> DEFINE mv == Outgoing(a, mem)
           keep == held[a] \ Lost(a, mem)
<1>1. mv \in SUBSET Pairs
  BY OutgoingType
<1>2. Single(a)
  BY DEF Distinct
<1>3. /\ \A c : c \in Here(a) <=> c \in keep \/ \E o : <<o, c>> \in mv
      /\ \A x \in mv : x[2] \notin keep /\ \A y \in mv : x[2] = y[2] => x = y
  BY <1>2, OutgoingOnce
<1>4. held' = [held EXCEPT ![a] = keep] /\ moves' = [moves EXCEPT ![a] = {}]
  BY MoveAwayStep
<1>5. keep \in SUBSET Copy
  BY DEF Types, AgentTypes
<1>6. /\ \A x \in Agent : peer'[a][x] = Sending(a, x, mv)
      /\ \A x \in Agent \ {a} : peer'[x] = peer[x]
  BY MoveAwayNet
<1> HIDE DEF mv, keep
<1>7. ASSUME NEW p \in Agent, NEW q \in Agent, NEW c \in Copy
      PROVE  /\ Carried(peer'[p][q], c) <=> (p = a /\ <<q, c>> \in mv) \/ Carried(peer[p][q], c)
             /\ CarriedOnce(peer'[p][q], c)
  <2>1. CASE p = a
    <3>1. <<q, c>> \in mv => ~Carried(peer[a][q], c)
      BY <1>3 DEF Distinct
    <3>2. CarriedOnce(peer[a][q], c)
      BY DEF Distinct
    <3> QED BY <1>1, <1>6, <2>1, <3>1, <3>2, SendingCarries
  <2>2. CASE p # a
    BY <1>6, <2>2 DEF Distinct
  <2> QED BY <2>1, <2>2
<1> QED BY <1>1, <1>3, <1>4, <1>5, <1>7 DEF Flow, mv, keep

LEMMA RecvMovesFlow ==
  ASSUME Types, Distinct, NEW a \in Agent, NEW b \in Agent, RecvMoves(a, b)
  PROVE  LET copies == Head(peer[b][a]).copies
         IN  /\ Flow(a, b, copies, held[a] \cup Mine(a, copies), Onward(a, copies))
             /\ held[a] \cap Mine(a, copies) = {}
<1> DEFINE copies == Head(peer[b][a]).copies
           mv == Onward(a, copies)
           keep == held[a] \cup Mine(a, copies)
<1>1. /\ a # b /\ peer[b][a] # <<>> /\ Head(peer[b][a]).type = "moves" /\ copies \in SUBSET Copy
      /\ held' = [held EXCEPT ![a] = keep]
      /\ moves' = [moves EXCEPT ![a] = {}]
      /\ peer'[b][a] = Tail(peer[b][a])
      /\ peer'[a][b] = Append(Sending(a, b, mv), Plain("ack"))
      /\ \A x \in Agent \ {b} : peer'[a][x] = Sending(a, x, mv)
      /\ \A x, y \in Agent : x # a /\ ~(x = b /\ y = a) => peer'[x][y] = peer[x][y]
  BY RecvMovesStep
<1>2. peer[b][a] \in Seq(PeerMessage)
  BY DEF Types, NetTypes
<1>3. \A c \in Copy : Brings(Head(peer[b][a]), c) <=> c \in copies
  BY <1>1 DEF Brings
<1>4. ASSUME NEW c \in Copy
      PROVE  /\ CarriedOnce(Tail(peer[b][a]), c)
             /\ Carried(Tail(peer[b][a]), c) <=> Carried(peer[b][a], c) /\ c \notin copies
             /\ c \in copies => Carried(peer[b][a], c)
  <2>1. CarriedOnce(peer[b][a], c)
    BY DEF Distinct
  <2> QED BY <1>1, <1>2, <1>3, <2>1, CarriedTail
<1> HIDE DEF copies
<1>5. copies \cap Here(a) = {}
  <2> SUFFICES ASSUME NEW c \in copies PROVE c \notin Here(a)
    OBVIOUS
  <2>1. c \in Copy
    BY <1>1
  <2>2. Carried(peer[b][a], c)
    BY <1>4, <2>1
  <2> QED BY <2>1, <2>2 DEF Distinct
<1>6. Single(a)
  BY DEF Distinct
<1>7. /\ \A c : c \in Here(a) \cup copies <=> c \in keep \/ \E o : <<o, c>> \in mv
      /\ \A x \in mv : x[2] \notin keep /\ \A y \in mv : x[2] = y[2] => x = y
      /\ held[a] \cap Mine(a, copies) = {}
  BY <1>1, <1>5, <1>6, OnwardOnce
<1>8. mv \in SUBSET Pairs /\ keep \in SUBSET Copy
  BY <1>1, OnwardType DEF Types, AgentTypes
<1> HIDE DEF mv, keep
<1>9. ASSUME NEW p \in Agent, NEW q \in Agent, NEW c \in Copy
      PROVE  /\ Carried(peer'[p][q], c) <=>
                  (p = a /\ <<q, c>> \in mv) \/ (Carried(peer[p][q], c) /\ ~(p = b /\ q = a /\ c \in copies))
             /\ CarriedOnce(peer'[p][q], c)
  <2>1. CASE p = a
    <3>1. <<q, c>> \in mv => ~Carried(peer[a][q], c)
      <4> SUFFICES ASSUME <<q, c>> \in mv, Carried(peer[a][q], c) PROVE FALSE
        OBVIOUS
      <4>1. c \in Here(a) \/ c \in copies
        BY <1>7
      <4>2. c \notin Here(a)
        BY DEF Distinct
      <4>3. Carried(peer[b][a], c)
        BY <1>4, <4>1, <4>2
      <4> QED BY <1>1, <4>3 DEF Distinct
    <3>2. CarriedOnce(peer[a][q], c)
      BY DEF Distinct
    <3>3. peer'[a][q] = Sending(a, q, mv) \/ peer'[a][q] = Append(Sending(a, q, mv), Plain("ack"))
      BY <1>1
    <3>4. /\ Carried(peer'[a][q], c) <=> Carried(peer[a][q], c) \/ <<q, c>> \in mv
          /\ CarriedOnce(peer'[a][q], c)
      BY <1>8, <3>1, <3>2, <3>3, SendingCarries
    <3> QED BY <1>1, <2>1, <3>4
  <2>2. CASE p = b /\ q = a
    BY <1>1, <1>4, <2>2
  <2>3. CASE p # a /\ ~(p = b /\ q = a)
    BY <1>1, <2>3 DEF Distinct
  <2> QED BY <2>1, <2>2, <2>3
<1>10. \A c \in copies : Carried(peer[b][a], c)
  BY <1>1, <1>4
<1> QED BY <1>1, <1>7, <1>8, <1>9, <1>10 DEF Flow, mv, keep, copies

(* The account of an agent: what changes in the queues to and from it.     *)
LEMMA AccountKept ==
  ASSUME NetTypes, NetTypes', NEW x \in Agent,
         \A y \in Agent : Count(peer'[x][y], "moves") = Count(peer[x][y], "moves")
                          /\ Count(peer'[y][x], "ack") = Count(peer[y][x], "ack")
  PROVE  Owing(x)' = Owing(x)
<1>1. Owing(x) \in [Agent -> Nat] /\ Owing(x)' \in [Agent -> Nat]
  BY OwingType DEF NetTypes, Owing, Count, Kind
<1> QED BY DEF Owing

LEMMA MoveAwayAccounts ==
  ASSUME Types, NetTypes', Accounts, NEW a \in Agent, NEW mem \in SUBSET Member, NEW ph \in Phase,
         MoveAway(a, mem, ph)
  PROVE  Accounts'
<1> DEFINE mv == Outgoing(a, mem)
<1>1. mv \in SUBSET Pairs /\ Lost(a, mem) \in SUBSET held[a] /\ held[a] \in SUBSET Copy
  BY OutgoingType DEF Lost, Types, AgentTypes
<1>2. /\ held' = [held EXCEPT ![a] = held[a] \ Lost(a, mem)]
      /\ nE' = [nE EXCEPT ![a] = nE[a] - InCount(Lost(a, mem))]
      /\ acks' = [acks EXCEPT ![a] = acks[a] + Cardinality(Receiving(mv))]
  BY MoveAwayStep
<1>3. /\ \A x \in Agent : peer'[a][x] = Sending(a, x, mv)
      /\ \A x \in Agent \ {a} : peer'[x] = peer[x]
  BY MoveAwayNet
<1> HIDE DEF mv
<1>4. IsFiniteSet(Receiving(mv)) /\ Cardinality(Receiving(mv)) \in Nat
  BY <1>1, ReceivingType
<1>5. \A x \in Agent : /\ Count(peer'[a][x], "moves") = Count(peer[a][x], "moves") + (IF x \in Receiving(mv) THEN 1 ELSE 0)
                       /\ Count(peer'[a][x], "ack") = Count(peer[a][x], "ack")
                       /\ Count(peer[a][x], "moves") \in Nat
                       /\ Count(peer[x][a], "ack") \in Nat
  BY <1>1, <1>3, SendingCounts, OwingPrimed DEF Types
<1>6. ASSUME NEW x \in Agent \ {a} PROVE Owing(x)' = Owing(x)
  BY <1>3, <1>5, AccountKept DEF Types
<1>7. /\ Owing(a) \in [Agent -> Nat] /\ Owing(a)' \in [Agent -> Nat]
      /\ \A b \in Agent : Owing(a)[b] = Count(peer[a][b], "moves") + Count(peer[b][a], "ack")
      /\ \A b \in Agent : Owing(a)'[b] = Count(peer'[a][b], "moves") + Count(peer'[b][a], "ack")
  BY OwingPrimed DEF Types
<1>8. \A b \in Agent : Owing(a)'[b] = Owing(a)[b] + (IF b \in Receiving(mv) THEN 1 ELSE 0)
  BY <1>3, <1>5, <1>7
<1>9. Cardinality(Tokens(Owing(a)')) <= Cardinality(Tokens(Owing(a))) + Cardinality(Receiving(mv))
  BY <1>4, <1>7, <1>8, TokensGrow
<1>10. Cardinality(Tokens(Owing(a)')) \in Nat /\ Cardinality(Tokens(Owing(a))) \in Nat
  BY <1>7, TokensFinite
<1>11. /\ acks'[a] = acks[a] + Cardinality(Receiving(mv)) /\ acks[a] \in Int
       /\ \A x \in Agent \ {a} : acks'[x] = acks[x] /\ nE'[x] = nE[x] /\ held'[x] = held[x]
       /\ nE'[a] = nE[a] - InCount(Lost(a, mem)) /\ held'[a] = held[a] \ Lost(a, mem)
  BY <1>2 DEF Types, AgentTypes
<1>12. Cardinality(Tokens(Owing(a))) <= acks[a] /\ nE[a] = InCount(held[a])
  BY DEF Accounts
<1>13. Cardinality(Tokens(Owing(a)')) <= acks'[a]
  BY <1>4, <1>9, <1>10, <1>11, <1>12
<1>14. InCount(held[a] \ Lost(a, mem)) = InCount(held[a]) - InCount(Lost(a, mem))
  BY <1>1, InCountType
<1>15. nE'[a] = InCount(held'[a])
  BY <1>11, <1>12, <1>14
<1>16. \A x \in Agent \ {a} : Cardinality(Tokens(Owing(x)')) <= acks'[x] /\ nE'[x] = InCount(held'[x])
  BY <1>6, <1>11 DEF Accounts
<1>17. \A x \in Agent : Tokens(Owing(x))' = Tokens(Owing(x)') /\ InCount(held[x])' = InCount(held'[x])
  BY DEF Tokens, InCount
<1> QED BY <1>13, <1>15, <1>16, <1>17 DEF Accounts

LEMMA RecvMovesAccounts ==
  ASSUME Types, NetTypes', Distinct, Accounts, NEW a \in Agent, NEW b \in Agent, RecvMoves(a, b)
  PROVE  Accounts'
<1> DEFINE copies == Head(peer[b][a]).copies
           mv == Onward(a, copies)
<1>1. /\ a # b /\ peer[b][a] # <<>> /\ Head(peer[b][a]).type = "moves" /\ copies \in SUBSET Copy
      /\ held' = [held EXCEPT ![a] = held[a] \cup Mine(a, copies)]
      /\ nE' = [nE EXCEPT ![a] = nE[a] + InCount(Mine(a, copies))]
      /\ acks' = [acks EXCEPT ![a] = acks[a] + Cardinality(Receiving(mv))]
      /\ peer'[b][a] = Tail(peer[b][a])
      /\ peer'[a][b] = Append(Sending(a, b, mv), Plain("ack"))
      /\ \A x \in Agent \ {b} : peer'[a][x] = Sending(a, x, mv)
      /\ \A x, y \in Agent : x # a /\ ~(x = b /\ y = a) => peer'[x][y] = peer[x][y]
  BY RecvMovesStep
<1>2. mv \in SUBSET Pairs /\ Mine(a, copies) \in SUBSET Copy /\ held[a] \in SUBSET Copy
  BY <1>1, OnwardType DEF Types, AgentTypes
<1>3. held[a] \cap Mine(a, copies) = {}
  BY RecvMovesFlow
<1> HIDE DEF copies, mv
<1>4. IsFiniteSet(Receiving(mv)) /\ Cardinality(Receiving(mv)) \in Nat
  BY <1>2, ReceivingType
<1>5. \A x, y \in Agent : Count(peer[x][y], "moves") \in Nat /\ Count(peer[x][y], "ack") \in Nat
  BY OwingPrimed DEF Types
<1>6. \A x \in Agent : /\ Count(peer'[a][x], "moves") = Count(peer[a][x], "moves") + (IF x \in Receiving(mv) THEN 1 ELSE 0)
                       /\ Count(peer'[a][x], "ack") = Count(peer[a][x], "ack") + (IF x = b THEN 1 ELSE 0)
  <2> SUFFICES ASSUME NEW x \in Agent
               PROVE  /\ Count(peer'[a][x], "moves") = Count(peer[a][x], "moves") + (IF x \in Receiving(mv) THEN 1 ELSE 0)
                      /\ Count(peer'[a][x], "ack") = Count(peer[a][x], "ack") + (IF x = b THEN 1 ELSE 0)
    OBVIOUS
  <2>1. /\ Count(Sending(a, x, mv), "moves") = Count(peer[a][x], "moves") + (IF x \in Receiving(mv) THEN 1 ELSE 0)
        /\ Count(Sending(a, x, mv), "ack") = Count(peer[a][x], "ack")
        /\ Count(Append(Sending(a, x, mv), Plain("ack")), "moves") = Count(Sending(a, x, mv), "moves")
        /\ Count(Append(Sending(a, x, mv), Plain("ack")), "ack") = Count(peer[a][x], "ack") + 1
    BY <1>2, SendingCounts
  <2>2. CASE x = b
    BY <1>1, <2>1, <2>2
  <2>3. CASE x # b
    <3>1. peer'[a][x] = Sending(a, x, mv)
      BY <1>1, <2>3
    <3>2. Count(peer[a][x], "ack") \in Nat
      BY <1>5
    <3> QED BY <2>1, <2>3, <3>1, <3>2
  <2> QED BY <2>2, <2>3
<1>7. /\ Count(peer'[b][a], "moves") = Count(peer[b][a], "moves") - 1
      /\ Count(peer'[b][a], "ack") = Count(peer[b][a], "ack")
  <2>1. peer[b][a] \in Seq(PeerMessage)
    BY DEF Types, NetTypes
  <2>2. /\ Count(Tail(peer[b][a]), "moves") = Count(peer[b][a], "moves") - 1
        /\ Count(Tail(peer[b][a]), "ack") = Count(peer[b][a], "ack") - 0
    BY <1>1, <2>1, CountTail
  <2> QED BY <1>1, <1>5, <2>2
<1>8. \A x \in Agent : /\ Owing(x) \in [Agent -> Nat] /\ Owing(x)' \in [Agent -> Nat]
                       /\ \A y \in Agent : Owing(x)[y] = Count(peer[x][y], "moves") + Count(peer[y][x], "ack")
                       /\ \A y \in Agent : Owing(x)'[y] = Count(peer'[x][y], "moves") + Count(peer'[y][x], "ack")
  BY OwingPrimed DEF Types
<1>9. ASSUME NEW x \in Agent \ {a}, NEW y \in Agent PROVE Owing(x)'[y] = Owing(x)[y]
  <2>1. CASE x = b /\ y = a
    BY <1>1, <1>5, <1>6, <1>7, <1>8, <2>1
  <2>2. CASE ~(x = b /\ y = a)
    <3>1. peer'[x][y] = peer[x][y]
      BY <1>1, <2>2
    <3>2. Count(peer'[y][x], "ack") = Count(peer[y][x], "ack")
      <4>1. CASE y = a
        BY <1>5, <1>6, <2>2, <4>1
      <4>2. CASE y # a
        BY <1>1, <4>2
      <4> QED BY <4>1, <4>2
    <3> QED BY <1>8, <3>1, <3>2
  <2> QED BY <2>1, <2>2
<1>10. \A x \in Agent \ {a} : Owing(x)' = Owing(x)
  <2> SUFFICES ASSUME NEW x \in Agent \ {a} PROVE Owing(x)' = Owing(x)
    OBVIOUS
  <2>1. Owing(x) = [y \in Agent |-> Owing(x)[y]] /\ Owing(x)' = [y \in Agent |-> Owing(x)'[y]]
    BY <1>8
  <2> QED BY <1>9, <2>1
<1>11. \A y \in Agent : Owing(a)'[y] = Owing(a)[y] + (IF y \in Receiving(mv) THEN 1 ELSE 0)
  <2> SUFFICES ASSUME NEW y \in Agent
               PROVE  Owing(a)'[y] = Owing(a)[y] + (IF y \in Receiving(mv) THEN 1 ELSE 0)
    OBVIOUS
  <2>1. Count(peer'[y][a], "ack") = Count(peer[y][a], "ack")
    <3>1. CASE y = a
      BY <1>1, <1>5, <1>6, <3>1
    <3>2. CASE y = b
      BY <1>7, <3>2
    <3>3. CASE y # a /\ y # b
      BY <1>1, <3>3
    <3> QED BY <3>1, <3>2, <3>3
  <2> QED BY <1>5, <1>6, <1>8, <2>1
<1>12. Cardinality(Tokens(Owing(a)')) <= Cardinality(Tokens(Owing(a))) + Cardinality(Receiving(mv))
  BY <1>4, <1>8, <1>11, TokensGrow
<1>13. Cardinality(Tokens(Owing(a)')) \in Nat /\ Cardinality(Tokens(Owing(a))) \in Nat
  BY <1>8, TokensFinite
<1>14. /\ acks'[a] = acks[a] + Cardinality(Receiving(mv)) /\ acks[a] \in Int
       /\ \A x \in Agent \ {a} : acks'[x] = acks[x] /\ nE'[x] = nE[x] /\ held'[x] = held[x]
       /\ nE'[a] = nE[a] + InCount(Mine(a, copies)) /\ held'[a] = held[a] \cup Mine(a, copies)
  BY <1>1 DEF Types, AgentTypes
<1>15. Cardinality(Tokens(Owing(a))) <= acks[a] /\ nE[a] = InCount(held[a])
  BY DEF Accounts
<1>16. Cardinality(Tokens(Owing(a)')) <= acks'[a]
  BY <1>4, <1>12, <1>13, <1>14, <1>15
<1>17. InCount(held[a] \cup Mine(a, copies)) = InCount(held[a]) + InCount(Mine(a, copies))
  BY <1>2, <1>3, InCountType
<1>18. nE'[a] = InCount(held'[a])
  BY <1>14, <1>15, <1>17
<1>19. \A x \in Agent \ {a} : Cardinality(Tokens(Owing(x)')) <= acks'[x] /\ nE'[x] = InCount(held'[x])
  BY <1>10, <1>14 DEF Accounts
<1>20. \A x \in Agent : Tokens(Owing(x))' = Tokens(Owing(x)') /\ InCount(held[x])' = InCount(held'[x])
  BY DEF Tokens, InCount
<1> QED BY <1>16, <1>18, <1>19, <1>20 DEF Accounts

(* The acknowledgement at the head of a queue.                             *)
LEMMA RecvAckBooks ==
  ASSUME Types, NetTypes', Distinct, Present, Accounts, NEW a \in Agent, NEW b \in Agent, RecvAck(a, b)
  PROVE  Distinct' /\ Present' /\ Accounts' /\ acks[a] > 0
<1>1. /\ peer[b][a] # <<>> /\ Head(peer[b][a]).type = "ack"
      /\ peer' = [peer EXCEPT ![b][a] = Tail(peer[b][a])]
      /\ acks' = [acks EXCEPT ![a] = acks[a] - 1]
      /\ UNCHANGED <<held, moves, nE, edges>>
  BY DEF RecvAck, envVars
<1>2. peer[b][a] \in Seq(PeerMessage) /\ a # b
  BY <1>1 DEF Types, NetTypes, Apart
<1>3. /\ peer'[b][a] = Tail(peer[b][a])
      /\ \A x, y \in Agent : ~(x = b /\ y = a) => peer'[x][y] = peer[x][y]
  BY <1>1 DEF Types, NetTypes
<1>4. ASSUME NEW c \in Copy
      PROVE  Carried(peer'[b][a], c) <=> Carried(peer[b][a], c)
  <2>1. ~Brings(Head(peer[b][a]), c)
    BY <1>1 DEF Brings
  <2> QED BY <1>1, <1>2, <1>3, <2>1, CarriedTail
<1>5. \A x, y \in Agent : \A c \in Copy :
        (Carried(peer'[x][y], c) <=> Carried(peer[x][y], c)) /\ CarriedOnce(peer'[x][y], c)
  <2> SUFFICES ASSUME NEW x \in Agent, NEW y \in Agent, NEW c \in Copy
               PROVE  (Carried(peer'[x][y], c) <=> Carried(peer[x][y], c)) /\ CarriedOnce(peer'[x][y], c)
    OBVIOUS
  <2>1. CarriedOnce(peer[x][y], c)
    BY DEF Distinct
  <2>2. CASE x = b /\ y = a
    BY <1>1, <1>2, <1>3, <1>4, <2>1, <2>2, CarriedTail
  <2>3. CASE ~(x = b /\ y = a)
    BY <1>3, <2>1, <2>3
  <2> QED BY <2>2, <2>3
<1>6. \A x \in Agent : (Single(x)' <=> Single(x)) /\ Here(x)' = Here(x)
  BY <1>1 DEF Single, Here
<1>7. Distinct' /\ Present'
  BY <1>1, <1>5, <1>6 DEF Distinct, Present
<1>8. /\ Count(peer'[b][a], "moves") = Count(peer[b][a], "moves")
      /\ Count(peer[b][a], "ack") = Count(peer'[b][a], "ack") + 1
      /\ \A x, y \in Agent : Count(peer[x][y], "moves") \in Nat /\ Count(peer[x][y], "ack") \in Nat
      /\ Count(peer'[b][a], "ack") \in Nat
  <2>1. /\ Count(Tail(peer[b][a]), "moves") = Count(peer[b][a], "moves") - 0
        /\ Count(Tail(peer[b][a]), "ack") = Count(peer[b][a], "ack") - 1
    BY <1>1, <1>2, CountTail
  <2>2. \A x, y \in Agent : Count(peer[x][y], "moves") \in Nat /\ Count(peer[x][y], "ack") \in Nat
                            /\ Count(peer'[x][y], "ack") \in Nat
    BY OwingPrimed DEF Types
  <2> QED BY <1>3, <2>1, <2>2
<1>9. \A x \in Agent : /\ Owing(x) \in [Agent -> Nat] /\ Owing(x)' \in [Agent -> Nat]
                       /\ \A y \in Agent : Owing(x)[y] = Count(peer[x][y], "moves") + Count(peer[y][x], "ack")
                       /\ \A y \in Agent : Owing(x)'[y] = Count(peer'[x][y], "moves") + Count(peer'[y][x], "ack")
  BY OwingPrimed DEF Types
<1>10. \A x \in Agent \ {a} : Owing(x)' = Owing(x)
  BY <1>3, <1>8, AccountKept DEF Types
<1>11. /\ Owing(a)[b] = Owing(a)'[b] + 1
       /\ \A y \in Agent \ {b} : Owing(a)'[y] = Owing(a)[y]
  <2>1. Owing(a)[b] = Owing(a)'[b] + 1
    <3>1. peer'[a][b] = peer[a][b]
      BY <1>2, <1>3
    <3> QED BY <1>8, <1>9, <3>1
  <2>2. ASSUME NEW y \in Agent \ {b} PROVE Owing(a)'[y] = Owing(a)[y]
    <3>1. peer'[y][a] = peer[y][a] /\ (y # a => peer'[a][y] = peer[a][y])
      BY <1>3
    <3>2. peer'[a][y] = peer[a][y]
      BY <1>2, <1>3
    <3> QED BY <1>9, <3>1, <3>2
  <2> QED BY <2>1, <2>2
<1>12. Cardinality(Tokens(Owing(a)')) = Cardinality(Tokens(Owing(a))) - 1 /\ Cardinality(Tokens(Owing(a))) > 0
       /\ Cardinality(Tokens(Owing(a))) \in Nat
  BY <1>9, <1>11, TokensShrink, TokensFinite
<1>13. acks'[a] = acks[a] - 1 /\ acks[a] \in Int
       /\ \A x \in Agent \ {a} : acks'[x] = acks[x]
  BY <1>1 DEF Types, AgentTypes
<1>14. Cardinality(Tokens(Owing(a))) <= acks[a]
  BY DEF Accounts
<1>15. Cardinality(Tokens(Owing(a)')) <= acks'[a] /\ acks[a] > 0
  BY <1>12, <1>13, <1>14
<1>16. \A x \in Agent : Tokens(Owing(x))' = Tokens(Owing(x)') /\ InCount(held[x])' = InCount(held'[x])
  BY DEF Tokens, InCount
<1>17. \A x \in Agent \ {a} : Cardinality(Tokens(Owing(x)')) <= acks'[x]
  BY <1>10, <1>13 DEF Accounts
<1>18. Accounts'
  BY <1>1, <1>15, <1>16, <1>17 DEF Accounts
<1> QED BY <1>7, <1>15, <1>18

-----------------------------------------------------------------------------
(* The types, step by step.                                                *)

LEMMA AliveAgent == \A a : a \in Alive <=> a \in Agent /\ phase[a] \notin {"out", "gone", "thrown"}
BY DEF Alive

LEMMA RecvDirectoryCases ==
  ASSUME Types, NEW a \in Agent, RecvDirectory(a)
  PROVE  LET m == Head(down[a])
         IN  /\ a \in Alive /\ down[a] # <<>> /\ m \in ListMessage /\ m.members \in SUBSET Member
             /\ m.type = "DIRECTORY_UPDATE" /\ m.changed \in BOOLEAN
             /\ view' = [view EXCEPT ![a] = IF m.changed \/ view[a] = {} THEN m.members ELSE view[a]]
             /\ down' = [down EXCEPT ![a] = Tail(down[a])]
             /\ UNCHANGED <<vcount, stopping, dirVars, link, envVars>>
             /\ \/ /\ ~m.changed \/ phase[a] = "hold"
                   /\ UNCHANGED <<phase, held, nE, moves, acks, up, peer>>
                \/ /\ m.changed /\ phase[a] = "balance"
                   /\ phase' = [phase EXCEPT ![a] = "hold"]
                   /\ up' = Tell(a, <<Plain("SIMPLE_SYNC")>>)
                   /\ UNCHANGED <<held, nE, moves, acks, peer>>
                \/ /\ m.changed /\ phase[a] \notin {"balance", "hold"}
                   /\ MoveAway(a, m.members, phase[a]) /\ UNCHANGED up
<1> DEFINE m == Head(down[a])
<1>1. a \in Alive /\ down[a] # <<>> /\ m.type = "DIRECTORY_UPDATE"
  BY DEF RecvDirectory
<1>2. down[a] \in Seq(DownMessage)
  BY DEF Types, NetTypes
<1>3. m \in DownMessage
  BY <1>1, <1>2, TailPlaces
<1>4. m \in ListMessage
  BY <1>1, <1>3 DEF DownMessage
<1>5. m.members \in SUBSET Member /\ m.changed \in BOOLEAN
  BY <1>4 DEF ListMessage
<1> HIDE DEF m
<1>6. /\ view' = [view EXCEPT ![a] = IF m.changed \/ view[a] = {} THEN m.members ELSE view[a]]
      /\ down' = [down EXCEPT ![a] = Tail(down[a])]
      /\ UNCHANGED <<vcount, stopping, dirVars, link, envVars>>
      /\ CASE ~m.changed \/ phase[a] = "hold" ->
                   UNCHANGED <<phase, held, nE, moves, acks, up, peer>>
              [] m.changed /\ phase[a] = "balance" ->
                   /\ phase' = [phase EXCEPT ![a] = "hold"]
                   /\ up' = Tell(a, <<Plain("SIMPLE_SYNC")>>)
                   /\ UNCHANGED <<held, nE, moves, acks, peer>>
              [] OTHER -> MoveAway(a, m.members, phase[a]) /\ UNCHANGED up
  BY DEF RecvDirectory, m
<1>7. CASE ~m.changed \/ phase[a] = "hold"
  BY <1>1, <1>4, <1>5, <1>6, <1>7 DEF m
<1>8. CASE m.changed /\ phase[a] = "balance"
  BY <1>1, <1>4, <1>5, <1>6, <1>8 DEF m
<1>9. CASE m.changed /\ phase[a] \notin {"balance", "hold"}
  BY <1>1, <1>4, <1>5, <1>6, <1>9 DEF m
<1> QED BY <1>5, <1>7, <1>8, <1>9

LEMMA MoveAwayTypes ==
  ASSUME Types, NEW a \in Agent, NEW mem \in SUBSET Member, NEW ph \in Phase, MoveAway(a, mem, ph)
  PROVE  /\ phase' \in [Agent -> Phase] /\ held' \in [Agent -> SUBSET Copy]
         /\ moves' \in [Agent -> SUBSET ((Agent \cup {Nobody}) \X Copy)]
         /\ acks' \in [Agent -> Int] /\ nE' \in [Agent -> Int]
         /\ peer' \in [Agent -> [Agent -> Seq(PeerMessage)]]
         /\ Apart'
<1> DEFINE mv == Outgoing(a, mem)
           n == Cardinality(Receiving(mv))
           k == InCount(Lost(a, mem))
<1>1. mv \in SUBSET Pairs /\ a \notin Receiving(mv) /\ Lost(a, mem) \in SUBSET Copy
  BY OutgoingType
<1>2. n \in Nat /\ k \in Nat
  BY <1>1, ReceivingType, InCountType
<1>3. /\ held' = [held EXCEPT ![a] = held[a] \ Lost(a, mem)]
      /\ nE' = [nE EXCEPT ![a] = nE[a] - k]
      /\ moves' = [moves EXCEPT ![a] = {}]
      /\ acks' = [acks EXCEPT ![a] = acks[a] + n]
      /\ phase' = [phase EXCEPT ![a] = IF acks[a] + n # 0 THEN "moving" ELSE ph]
  BY MoveAwayStep
<1>4. /\ peer' \in PeerNet
      /\ \A x \in Agent : peer'[a][x] = Sending(a, x, mv)
      /\ \A x \in Agent \ {a} : peer'[x] = peer[x]
  BY MoveAwayNet
<1> HIDE DEF n, k, mv
<1>5. peer'[a][a] = peer[a][a]
  BY <1>1, <1>4 DEF Sending
<1>6. \A x \in moves'[a] : x[1] # a
  BY <1>3 DEF Types, AgentTypes
<1>7. \A x \in Agent \ {a} : moves'[x] = moves[x]
  BY <1>3 DEF Types, AgentTypes
<1>8. Apart'
  BY <1>4, <1>5, <1>6, <1>7 DEF Types, Apart
<1>9. nE[a] - k \in Int /\ acks[a] + n \in Int
  BY <1>2 DEF Types, AgentTypes
<1>10. phase' \in [Agent -> Phase]
  BY <1>3 DEF Types, AgentTypes, Phase
<1>11. held' \in [Agent -> SUBSET Copy] /\ acks' \in [Agent -> Int] /\ nE' \in [Agent -> Int]
  BY <1>3, <1>9 DEF Types, AgentTypes
<1>12. moves' \in [Agent -> SUBSET ((Agent \cup {Nobody}) \X Copy)]
  <2> HIDE DEF Copy
  <2> QED BY <1>3 DEF Types, AgentTypes
<1> QED BY <1>4, <1>8, <1>10, <1>11, <1>12 DEF PeerNet

LEMMA TypesRecvDirectory ==
  ASSUME Types, NEW a \in Agent, RecvDirectory(a) PROVE Types'
<1> DEFINE m == Head(down[a])
<1>1. /\ m.members \in SUBSET Member /\ down[a] # <<>>
      /\ view' = [view EXCEPT ![a] = IF m.changed \/ view[a] = {} THEN m.members ELSE view[a]]
      /\ down' = [down EXCEPT ![a] = Tail(down[a])]
      /\ UNCHANGED <<vcount, stopping, dirVars, link, envVars>>
  BY RecvDirectoryCases
<1>2. \/ UNCHANGED <<phase, held, nE, moves, acks, up, peer>>
      \/ /\ phase' = [phase EXCEPT ![a] = "hold"]
         /\ up' = Tell(a, <<Plain("SIMPLE_SYNC")>>)
         /\ UNCHANGED <<held, nE, moves, acks, peer>>
      \/ MoveAway(a, m.members, phase[a]) /\ UNCHANGED up
  BY RecvDirectoryCases
<1> HIDE DEF m
<1>3. view' \in [Agent -> SUBSET Member] /\ down' \in [Agent -> Seq(DownMessage)]
  <2>1. Tail(down[a]) \in Seq(DownMessage)
    BY <1>1, TailPlaces DEF Types, NetTypes
  <2> QED BY <1>1, <2>1 DEF Types, NetTypes, AgentTypes
<1>4. phase[a] \in Phase
  BY DEF Types, AgentTypes
<1>5. /\ phase' \in [Agent -> Phase] /\ held' \in [Agent -> SUBSET Copy]
      /\ moves' \in [Agent -> SUBSET ((Agent \cup {Nobody}) \X Copy)]
      /\ acks' \in [Agent -> Int] /\ nE' \in [Agent -> Int]
      /\ peer' \in [Agent -> [Agent -> Seq(PeerMessage)]] /\ up' \in [Agent -> Seq(UpMessage)]
      /\ Apart'
  <2>1. CASE UNCHANGED <<phase, held, nE, moves, acks, up, peer>>
    BY <2>1 DEF Types, AgentTypes, NetTypes, Apart
  <2>2. CASE /\ phase' = [phase EXCEPT ![a] = "hold"]
             /\ up' = Tell(a, <<Plain("SIMPLE_SYNC")>>)
             /\ UNCHANGED <<held, nE, moves, acks, peer>>
    <3>1. up' \in [Agent -> Seq(UpMessage)]
      <4>1. Plain("SIMPLE_SYNC") \in UpMessage
        BY DEF Plain, UpMessage
      <4> QED BY <2>2, <4>1, TellOne DEF Types
    <3>2. phase' \in [Agent -> Phase]
      BY <2>2 DEF Types, AgentTypes, Phase
    <3> QED BY <2>2, <3>1, <3>2 DEF Types, AgentTypes, NetTypes, Apart
  <2>3. CASE MoveAway(a, m.members, phase[a]) /\ UNCHANGED up
    <3>1. up' \in [Agent -> Seq(UpMessage)]
      BY <2>3 DEF Types, NetTypes
    <3> QED BY <1>1, <1>4, <2>3, <3>1, MoveAwayTypes
  <2> QED BY <1>2, <2>1, <2>2, <2>3
<1>6. AgentTypes' /\ NetTypes'
  BY <1>1, <1>3, <1>5 DEF Types, AgentTypes, NetTypes
<1> QED BY <1>1, <1>5, <1>6 DEF Types, DirTypes, EnvTypes, dirVars, envVars, Fitting

LEMMA RecvSyncDoneCases ==
  ASSUME Types, NEW a \in Agent, RecvSyncDone(a)
  PROVE  /\ a \in Alive /\ down[a] # <<>> /\ Head(down[a]).type = "SIMPLE_SYNC_DONE"
         /\ view[a] \in SUBSET Member
         /\ down' = [down EXCEPT ![a] = Tail(down[a])]
         /\ UNCHANGED <<view, vcount, stopping, up, link, dirVars, envVars>>
         /\ \/ phase[a] = "hold" /\ MoveAway(a, view[a], "idle")
            \/ /\ phase[a] # "hold" /\ phase' = [phase EXCEPT ![a] = "thrown"]
               /\ UNCHANGED <<held, nE, moves, acks, peer>>
BY DEF RecvSyncDone, Types, AgentTypes

LEMMA TypesRecvSyncDone ==
  ASSUME Types, NEW a \in Agent, RecvSyncDone(a) PROVE Types'
<1>1. /\ down[a] # <<>> /\ view[a] \in SUBSET Member
      /\ down' = [down EXCEPT ![a] = Tail(down[a])]
      /\ UNCHANGED <<view, vcount, stopping, up, link, dirVars, envVars>>
  BY RecvSyncDoneCases
<1>2. \/ MoveAway(a, view[a], "idle")
      \/ phase' = [phase EXCEPT ![a] = "thrown"] /\ UNCHANGED <<held, nE, moves, acks, peer>>
  BY RecvSyncDoneCases
<1>3. down' \in [Agent -> Seq(DownMessage)]
  <2>1. Tail(down[a]) \in Seq(DownMessage)
    BY <1>1, TailPlaces DEF Types, NetTypes
  <2> QED BY <1>1, <2>1 DEF Types, NetTypes
<1>4. /\ phase' \in [Agent -> Phase] /\ held' \in [Agent -> SUBSET Copy]
      /\ moves' \in [Agent -> SUBSET ((Agent \cup {Nobody}) \X Copy)]
      /\ acks' \in [Agent -> Int] /\ nE' \in [Agent -> Int]
      /\ peer' \in [Agent -> [Agent -> Seq(PeerMessage)]]
      /\ Apart'
  <2>1. CASE MoveAway(a, view[a], "idle")
    <3>1. "idle" \in Phase
      BY DEF Phase
    <3> QED BY <1>1, <2>1, <3>1, MoveAwayTypes
  <2>2. CASE phase' = [phase EXCEPT ![a] = "thrown"] /\ UNCHANGED <<held, nE, moves, acks, peer>>
    <3>1. phase' \in [Agent -> Phase]
      BY <2>2 DEF Types, AgentTypes, Phase
    <3> QED BY <2>2, <3>1 DEF Types, AgentTypes, NetTypes, Apart
  <2> QED BY <1>2, <2>1, <2>2
<1>5. AgentTypes' /\ NetTypes'
  BY <1>1, <1>3, <1>4 DEF Types, AgentTypes, NetTypes
<1> QED BY <1>1, <1>4, <1>5 DEF Types, DirTypes, EnvTypes, dirVars, envVars, Fitting

LEMMA TypesRecvMoves ==
  ASSUME Types, NEW a \in Agent, NEW b \in Agent, RecvMoves(a, b) PROVE Types'
<1> DEFINE copies == Head(peer[b][a]).copies
           mv == Onward(a, copies)
           n == Cardinality(Receiving(mv))
           k == InCount(Mine(a, copies))
<1>1. /\ a # b /\ copies \in SUBSET Copy
      /\ held' = [held EXCEPT ![a] = held[a] \cup Mine(a, copies)]
      /\ nE' = [nE EXCEPT ![a] = nE[a] + k]
      /\ moves' = [moves EXCEPT ![a] = {}]
      /\ acks' = [acks EXCEPT ![a] = acks[a] + n]
      /\ peer' \in PeerNet
      /\ \A x \in Agent \ {b} : peer'[a][x] = Sending(a, x, mv)
      /\ \A x, y \in Agent : x # a /\ ~(x = b /\ y = a) => peer'[x][y] = peer[x][y]
  BY RecvMovesStep
<1>2. mv \in SUBSET Pairs /\ Mine(a, copies) \in SUBSET Copy /\ a \notin Receiving(mv)
  BY <1>1, OnwardType
<1>3. n \in Nat /\ k \in Nat
  BY <1>2, ReceivingType, InCountType
<1>4. UNCHANGED <<phase, view, vcount, stopping, dirVars, up, down, link, envVars>>
  BY DEF RecvMoves
<1> HIDE DEF n, k, mv, copies
<1>5. peer'[a][a] = peer[a][a]
  BY <1>1, <1>2 DEF Sending
<1>6. \A x \in Agent \ {a} : moves'[x] = moves[x] /\ peer'[x][x] = peer[x][x]
  BY <1>1 DEF Types, AgentTypes
<1>7. \A x \in moves'[a] : x[1] # a
  BY <1>1 DEF Types, AgentTypes
<1>8. Apart'
  BY <1>5, <1>6, <1>7 DEF Types, Apart
<1>9. nE[a] + k \in Int /\ acks[a] + n \in Int
  BY <1>3 DEF Types, AgentTypes
<1>10. held' \in [Agent -> SUBSET Copy] /\ acks' \in [Agent -> Int] /\ nE' \in [Agent -> Int]
  BY <1>1, <1>2, <1>9 DEF Types, AgentTypes
<1>11. moves' \in [Agent -> SUBSET ((Agent \cup {Nobody}) \X Copy)]
  <2> HIDE DEF Copy
  <2> QED BY <1>1 DEF Types, AgentTypes
<1>12. AgentTypes' /\ NetTypes'
  BY <1>1, <1>4, <1>10, <1>11 DEF Types, AgentTypes, NetTypes, PeerNet
<1> QED BY <1>4, <1>8, <1>12 DEF Types, DirTypes, EnvTypes, dirVars, envVars, Fitting

LEMMA TypesRecvAck ==
  ASSUME Types, NEW a \in Agent, NEW b \in Agent, RecvAck(a, b) PROVE Types'
<1>1. /\ peer[b][a] # <<>>
      /\ peer' = [peer EXCEPT ![b][a] = Tail(peer[b][a])]
      /\ acks' = [acks EXCEPT ![a] = acks[a] - 1]
      /\ UNCHANGED <<view, vcount, held, moves, nE, stopping, dirVars, down, link, envVars>>
      /\ \/ phase' = [phase EXCEPT ![a] = "idle"] /\ UNCHANGED up
         \/ up' = Tell(a, <<Plain("READY_NV_NE")>>) /\ UNCHANGED phase
         \/ UNCHANGED <<phase, up>>
  BY DEF RecvAck
<1>2. Tail(peer[b][a]) \in Seq(PeerMessage) /\ a # b
  BY <1>1, TailPlaces DEF Types, NetTypes, Apart
<1>3. peer' \in [Agent -> [Agent -> Seq(PeerMessage)]]
  BY <1>1, <1>2 DEF Types, NetTypes
<1>4. phase' \in [Agent -> Phase]
  BY <1>1 DEF Types, AgentTypes, Phase
<1>5. up' \in [Agent -> Seq(UpMessage)]
  <2>1. Plain("READY_NV_NE") \in UpMessage
    BY DEF Plain, UpMessage
  <2>2. Tell(a, <<Plain("READY_NV_NE")>>) \in [Agent -> Seq(UpMessage)]
    BY <2>1, TellOne DEF Types
  <2> QED BY <1>1, <2>2 DEF Types, NetTypes
<1>6. acks' \in [Agent -> Int]
  BY <1>1 DEF Types, AgentTypes
<1>7. Apart'
  BY <1>1, <1>2 DEF Types, NetTypes, Apart
<1>8. AgentTypes' /\ NetTypes'
  BY <1>1, <1>3, <1>4, <1>5, <1>6 DEF Types, AgentTypes, NetTypes
<1> QED BY <1>1, <1>7, <1>8 DEF Types, DirTypes, EnvTypes, dirVars, envVars, Fitting

LEMMA RecvVaCases ==
  ASSUME Types, Accounts, NEW a \in Agent, RecvVa(a)
  PROVE  /\ a \in Alive /\ down[a] # <<>> /\ Head(down[a]).type = "DO_VA" /\ view[a] # {}
         /\ down' = [down EXCEPT ![a] = Tail(down[a])]
         /\ phase' = [phase EXCEPT ![a] = "balance"]
         /\ UNCHANGED <<view, held, moves, acks, nE, stopping, dirVars, link, peer, envVars>>
         /\ \/ \E n \in 1 .. VAgents :
                 /\ Overloaded(a)
                 /\ up' = Tell(a, <<Leave(a, vcount[a]), Join(a, n)>>)
                 /\ vcount' = [vcount EXCEPT ![a] = n]
            \/ ~Overloaded(a) /\ UNCHANGED <<up, vcount>>
<1>1. /\ a \in Alive /\ down[a] # <<>> /\ Head(down[a]).type = "DO_VA" /\ view[a] # {}
      /\ down' = [down EXCEPT ![a] = Tail(down[a])]
      /\ phase' = [phase EXCEPT ![a] = "balance"]
      /\ UNCHANGED <<view, held, moves, acks, nE, stopping, dirVars, link, peer, envVars>>
      /\ \/ /\ Overloaded(a)
            /\ \E n \in Kept(a) :
                 /\ up' = Tell(a, <<Leave(a, vcount[a]), Join(a, n)>>)
                 /\ vcount' = [vcount EXCEPT ![a] = n]
         \/ ~Overloaded(a) /\ UNCHANGED <<up, vcount>>
  BY DEF RecvVa
<1>2. nE[a] = InCount(held[a])
  BY DEF Accounts
<1>3. ASSUME Overloaded(a), NEW n \in Kept(a) PROVE n \in 1 .. VAgents
  BY <1>1, <1>2, <1>3, KeptType
<1> QED BY <1>1, <1>3

LEMMA TypesRecvVa ==
  ASSUME Types, Accounts, NEW a \in Agent, RecvVa(a) PROVE Types'
<1>1. /\ down[a] # <<>>
      /\ down' = [down EXCEPT ![a] = Tail(down[a])]
      /\ phase' = [phase EXCEPT ![a] = "balance"]
      /\ UNCHANGED <<view, held, moves, acks, nE, stopping, dirVars, link, peer, envVars>>
      /\ \/ \E n \in 1 .. VAgents :
              /\ up' = Tell(a, <<Leave(a, vcount[a]), Join(a, n)>>)
              /\ vcount' = [vcount EXCEPT ![a] = n]
         \/ UNCHANGED <<up, vcount>>
  BY RecvVaCases
<1>2. down' \in [Agent -> Seq(DownMessage)]
  <2>1. Tail(down[a]) \in Seq(DownMessage)
    BY <1>1, TailPlaces DEF Types, NetTypes
  <2> QED BY <1>1, <2>1 DEF Types, NetTypes
<1>3. up' \in [Agent -> Seq(UpMessage)] /\ vcount' \in [Agent -> 1 .. VAgents]
  <2>1. CASE UNCHANGED <<up, vcount>>
    BY <2>1 DEF Types, NetTypes, AgentTypes
  <2>2. ASSUME NEW n \in 1 .. VAgents, up' = Tell(a, <<Leave(a, vcount[a]), Join(a, n)>>),
               vcount' = [vcount EXCEPT ![a] = n]
        PROVE  up' \in [Agent -> Seq(UpMessage)] /\ vcount' \in [Agent -> 1 .. VAgents]
    <3>1. vcount[a] \in 1 .. VAgents
      BY DEF Types, AgentTypes
    <3>2. Leave(a, vcount[a]) \in UpMessage /\ Join(a, n) \in UpMessage
      BY <3>1, MessageTypes
    <3>3. up' \in [Agent -> Seq(UpMessage)]
      BY <2>2, <3>2, TellTwo DEF Types
    <3> QED BY <2>2, <3>3 DEF Types, AgentTypes
  <2> QED BY <1>1, <2>1, <2>2
<1>4. phase' \in [Agent -> Phase]
  BY <1>1 DEF Types, AgentTypes, Phase
<1>5. AgentTypes' /\ NetTypes'
  BY <1>1, <1>2, <1>3, <1>4 DEF Types, AgentTypes, NetTypes
<1> QED BY <1>1, <1>5 DEF Types, Apart, DirTypes, EnvTypes, dirVars, envVars, Fitting

LEMMA TypesRecvCsLb ==
  ASSUME Types, NEW a \in Agent, RecvCsLb(a) PROVE Types'
<1>1. /\ down[a] # <<>>
      /\ down' = [down EXCEPT ![a] = Tail(down[a])]
      /\ phase' = [phase EXCEPT ![a] = "balance"]
      /\ up' = Tell(a, <<Plain("CS_UPDATE")>>)
      /\ UNCHANGED <<view, vcount, held, moves, acks, nE, stopping, dirVars, link, peer, envVars>>
  BY DEF RecvCsLb
<1>2. down' \in [Agent -> Seq(DownMessage)]
  <2>1. Tail(down[a]) \in Seq(DownMessage)
    BY <1>1, TailPlaces DEF Types, NetTypes
  <2> QED BY <1>1, <2>1 DEF Types, NetTypes
<1>3. up' \in [Agent -> Seq(UpMessage)]
  <2>1. Plain("CS_UPDATE") \in UpMessage
    BY DEF Plain, UpMessage
  <2> QED BY <1>1, <2>1, TellOne DEF Types
<1>4. phase' \in [Agent -> Phase]
  BY <1>1 DEF Types, AgentTypes, Phase
<1>5. AgentTypes' /\ NetTypes'
  BY <1>1, <1>2, <1>3, <1>4 DEF Types, AgentTypes, NetTypes
<1> QED BY <1>1, <1>5 DEF Types, Apart, DirTypes, EnvTypes, dirVars, envVars, Fitting

LEMMA TypesShutdown ==
  ASSUME Types, NEW a \in Agent, Shutdown(a) PROVE Types'
<1>1. /\ UNCHANGED <<view, vcount, held, moves, acks, nE, stopping, dirVars, down, link, peer, envVars>>
      /\ \/ phase' = [phase EXCEPT ![a] = "gone"] /\ UNCHANGED up
         \/ /\ phase' = [phase EXCEPT ![a] = IF phase[a] = "load" THEN "idle" ELSE phase[a]]
            /\ up' = Tell(a, <<Leave(a, vcount[a])>>)
  BY DEF Shutdown
<1>2. phase' \in [Agent -> Phase]
  BY <1>1 DEF Types, AgentTypes, Phase
<1>3. up' \in [Agent -> Seq(UpMessage)]
  <2>1. Leave(a, vcount[a]) \in UpMessage
    BY MessageTypes DEF Types, AgentTypes
  <2>2. Tell(a, <<Leave(a, vcount[a])>>) \in [Agent -> Seq(UpMessage)]
    BY <2>1, TellOne DEF Types
  <2> QED BY <1>1, <2>2 DEF Types, NetTypes
<1>4. AgentTypes' /\ NetTypes'
  BY <1>1, <1>2, <1>3 DEF Types, AgentTypes, NetTypes
<1> QED BY <1>1, <1>4 DEF Types, Apart, DirTypes, EnvTypes, dirVars, envVars, Fitting

(* The list of directory d after message m.                                *)
Changed(d, m) ==
  IF m.type = "AGENT_JOIN" THEN members[d] \cup {m.member} ELSE members[d] \ {m.member}

LinkNet == [Directory -> [Directory -> Seq(LinkMessage)]]

LEMMA TypesChangeMembers ==
  ASSUME Types, NEW d \in Directory, NEW m \in LinkMessage, m.type # "READY_NV_NE_INT",
         NEW net \in LinkNet, ChangeMembers(d, m, net)
  PROVE  /\ members' \in [Directory -> SUBSET Member] /\ notify' \in [Directory -> {"no", "same", "changed"}]
         /\ link' \in LinkNet
         /\ Changed(d, m) \in SUBSET Member
         /\ \/ Changed(d, m) = members[d] /\ link' = net /\ UNCHANGED <<members, notify>>
            \/ /\ Changed(d, m) # members[d]
               /\ members' = [members EXCEPT ![d] = Changed(d, m)]
               /\ notify' = [notify EXCEPT ![d] = "changed"]
               /\ link' = ToPeers(d, m, net)
<1>1. m.member \in Member
  BY DEF LinkMessage
<1>2. \/ Changed(d, m) = members[d] /\ link' = net /\ UNCHANGED <<members, notify>>
      \/ /\ Changed(d, m) # members[d]
         /\ members' = [members EXCEPT ![d] = Changed(d, m)]
         /\ notify' = [notify EXCEPT ![d] = "changed"]
         /\ link' = ToPeers(d, m, net)
  BY DEF ChangeMembers, Changed
<1>3. Changed(d, m) \in SUBSET Member
  BY <1>1 DEF Changed, Types, DirTypes
<1>4. ToPeers(d, m, net) \in LinkNet
  BY ToPeersType DEF LinkNet
<1>5. members' \in [Directory -> SUBSET Member] /\ notify' \in [Directory -> {"no", "same", "changed"}]
  BY <1>2, <1>3 DEF Types, DirTypes
<1> QED BY <1>2, <1>3, <1>4, <1>5

LEMMA TypesCountReady ==
  ASSUME Types, NEW d \in Directory, CountReady(d)
  PROVE  ready' \in [Directory -> 0 .. Cardinality(Agent) + 1]
<1>1. Cardinality(Agent) \in Nat
  BY ConsistentHashAssumption, FS_CardinalityType
<1> DEFINE N == Cardinality(Agent)
<1>2. ready[d] \in 0 .. N + 1 /\ N \in Nat
  BY <1>1 DEF Types, DirTypes
<1> HIDE DEF N
<1> DEFINE p == ready[d] + 1
           q == N + 1
<1>3. Min({p, q}) \in 0 .. N + 1
  <2>1. p \in Nat /\ q \in Nat /\ p <= q + 1 /\ q = N + 1
    BY <1>2
  <2> HIDE DEF p, q
  <2>2. \E x \in {p, q} : \A y \in {p, q} : x <= y
    BY <2>1
  <2>3. Min({p, q}) \in {p, q} /\ Min({p, q}) <= q
    BY <2>2 DEF Min
  <2> QED BY <2>1, <2>3
<1>4. ready' = [ready EXCEPT ![d] = Min({p, q})]
  BY DEF CountReady, N
<1> HIDE DEF p, q
<1> QED BY <1>3, <1>4 DEF Types, DirTypes, N

LEMMA FromAgentCases ==
  ASSUME Types, NEW a \in Agent, FromAgent(a)
  PROVE  LET m == Head(up[a])
             d == home[a]
         IN  /\ up[a] # <<>> /\ m \in UpMessage /\ d \in Directory
             /\ up' = [up EXCEPT ![a] = Tail(up[a])] /\ UNCHANGED <<agentVars, peer, envVars>>
             /\ \/ /\ m.type \in {"AGENT_JOIN", "AGENT_LEAVE"} /\ m \in LinkMessage
                   /\ ChangeMembers(d, m, link)
                   /\ UNCHANGED <<syncs, sketches, ready, down>>
                \/ /\ m.type = "NEED_DIRECTORY"
                   /\ notify' = [notify EXCEPT ![d] = IF notify[d] = "no" THEN "same" ELSE notify[d]]
                   /\ UNCHANGED <<members, syncs, sketches, ready, down, link>>
                \/ /\ m.type = "CS_UPDATE" /\ sketches[d] + 1 >= Cardinality(members[d])
                   /\ sketches' = [sketches EXCEPT ![d] = 0]
                   /\ notify' = [notify EXCEPT ![d] = "changed"]
                   /\ UNCHANGED <<members, syncs, ready, down, link>>
                \/ /\ m.type = "CS_UPDATE" /\ ~(sketches[d] + 1 >= Cardinality(members[d]))
                   /\ sketches' = [sketches EXCEPT ![d] = sketches[d] + 1]
                   /\ UNCHANGED <<notify, members, syncs, ready, down, link>>
                \/ /\ m.type = "SIMPLE_SYNC" /\ syncs[d] + 1 >= Cardinality(members[d])
                   /\ syncs' = [syncs EXCEPT ![d] = 0]
                   /\ notify' = [notify EXCEPT ![d] = "changed"]
                   /\ down' = ToAgents(d, Plain("SIMPLE_SYNC_DONE"))
                   /\ UNCHANGED <<members, sketches, ready, link>>
                \/ /\ m.type = "SIMPLE_SYNC" /\ ~(syncs[d] + 1 >= Cardinality(members[d]))
                   /\ syncs' = [syncs EXCEPT ![d] = syncs[d] + 1]
                   /\ UNCHANGED <<notify, down, members, sketches, ready, link>>
                \/ /\ m.type = "READY_NV_NE"
                   /\ CountReady(d)
                   /\ link' = ToPeers(d, Plain("READY_NV_NE_INT"), link)
                   /\ UNCHANGED <<members, notify, syncs, sketches, down>>
<1> DEFINE m == Head(up[a])
           d == home[a]
<1>1. up[a] # <<>> /\ up' = [up EXCEPT ![a] = Tail(up[a])] /\ UNCHANGED <<agentVars, peer, envVars>>
  BY DEF FromAgent
<1>2. m \in UpMessage /\ d \in Directory
  BY <1>1, TailPlaces DEF Types, NetTypes, EnvTypes
<1>3. m.type \in {"AGENT_JOIN", "AGENT_LEAVE"} => m \in LinkMessage
  BY <1>2 DEF UpMessage, LinkMessage
<1>4. \/ /\ m.type \in {"AGENT_JOIN", "AGENT_LEAVE"}
         /\ ChangeMembers(d, m, link)
         /\ UNCHANGED <<syncs, sketches, ready, down>>
      \/ /\ m.type = "NEED_DIRECTORY"
         /\ notify' = [notify EXCEPT ![d] = IF notify[d] = "no" THEN "same" ELSE notify[d]]
         /\ UNCHANGED <<members, syncs, sketches, ready, down, link>>
      \/ /\ m.type = "CS_UPDATE"
         /\ LET all == sketches[d] + 1 >= Cardinality(members[d])
            IN  /\ sketches' = [sketches EXCEPT ![d] = IF all THEN 0 ELSE @ + 1]
                /\ notify' = IF all THEN [notify EXCEPT ![d] = "changed"] ELSE notify
         /\ UNCHANGED <<members, syncs, ready, down, link>>
      \/ /\ m.type = "SIMPLE_SYNC"
         /\ LET all == syncs[d] + 1 >= Cardinality(members[d])
            IN  /\ syncs' = [syncs EXCEPT ![d] = IF all THEN 0 ELSE @ + 1]
                /\ notify' = IF all THEN [notify EXCEPT ![d] = "changed"] ELSE notify
                /\ down' = IF all THEN ToAgents(d, Plain("SIMPLE_SYNC_DONE")) ELSE down
         /\ UNCHANGED <<members, sketches, ready, link>>
      \/ /\ m.type = "READY_NV_NE"
         /\ CountReady(d)
         /\ link' = ToPeers(d, Plain("READY_NV_NE_INT"), link)
         /\ UNCHANGED <<members, notify, syncs, sketches, down>>
  BY DEF FromAgent
<1> HIDE DEF m, d
<1>5. ASSUME m.type = "CS_UPDATE",
             LET all == sketches[d] + 1 >= Cardinality(members[d])
             IN  /\ sketches' = [sketches EXCEPT ![d] = IF all THEN 0 ELSE @ + 1]
                 /\ notify' = IF all THEN [notify EXCEPT ![d] = "changed"] ELSE notify
      PROVE  \/ /\ sketches[d] + 1 >= Cardinality(members[d])
                /\ sketches' = [sketches EXCEPT ![d] = 0]
                /\ notify' = [notify EXCEPT ![d] = "changed"]
             \/ /\ ~(sketches[d] + 1 >= Cardinality(members[d]))
                /\ sketches' = [sketches EXCEPT ![d] = sketches[d] + 1]
                /\ notify' = notify
  BY <1>5
<1>6. ASSUME m.type = "SIMPLE_SYNC",
             LET all == syncs[d] + 1 >= Cardinality(members[d])
             IN  /\ syncs' = [syncs EXCEPT ![d] = IF all THEN 0 ELSE @ + 1]
                 /\ notify' = IF all THEN [notify EXCEPT ![d] = "changed"] ELSE notify
                 /\ down' = IF all THEN ToAgents(d, Plain("SIMPLE_SYNC_DONE")) ELSE down
      PROVE  \/ /\ syncs[d] + 1 >= Cardinality(members[d])
                /\ syncs' = [syncs EXCEPT ![d] = 0]
                /\ notify' = [notify EXCEPT ![d] = "changed"]
                /\ down' = ToAgents(d, Plain("SIMPLE_SYNC_DONE"))
             \/ /\ ~(syncs[d] + 1 >= Cardinality(members[d]))
                /\ syncs' = [syncs EXCEPT ![d] = syncs[d] + 1]
                /\ UNCHANGED <<notify, down>>
  BY <1>6
<1> QED BY <1>1, <1>2, <1>3, <1>4, <1>5, <1>6 DEF m, d

LEMMA TypesFromAgent ==
  ASSUME Types, NEW a \in Agent, FromAgent(a) PROVE Types'
<1> DEFINE m == Head(up[a])
           d == home[a]
<1>1. /\ up[a] # <<>> /\ m \in UpMessage /\ d \in Directory
      /\ up' = [up EXCEPT ![a] = Tail(up[a])] /\ UNCHANGED <<agentVars, peer, envVars>>
  BY FromAgentCases
<1>2. up' \in [Agent -> Seq(UpMessage)]
  <2>1. Tail(up[a]) \in Seq(UpMessage)
    BY <1>1, TailPlaces DEF Types, NetTypes
  <2> QED BY <1>1, <2>1 DEF Types, NetTypes
<1>3. AgentTypes' /\ EnvTypes' /\ Apart'
  BY <1>1 DEF Types, AgentTypes, EnvTypes, Apart, agentVars, envVars
<1>4. DirTypes' /\ down' \in [Agent -> Seq(DownMessage)] /\ link' \in LinkNet
  <2>0. link \in LinkNet
    BY DEF Types, NetTypes, LinkNet
  <2>1. CASE /\ m.type \in {"AGENT_JOIN", "AGENT_LEAVE"} /\ m \in LinkMessage
             /\ ChangeMembers(d, m, link)
             /\ UNCHANGED <<syncs, sketches, ready, down>>
    <3> HIDE DEF m, d
    <3>1. m.type # "READY_NV_NE_INT"
      BY <2>1
    <3>2. /\ members' \in [Directory -> SUBSET Member] /\ notify' \in [Directory -> {"no", "same", "changed"}]
          /\ link' \in LinkNet
      BY <1>1, <2>0, <2>1, <3>1, TypesChangeMembers
    <3> QED BY <2>1, <3>2 DEF Types, DirTypes, NetTypes
  <2>2. CASE /\ notify' = [notify EXCEPT ![d] = IF notify[d] = "no" THEN "same" ELSE notify[d]]
             /\ UNCHANGED <<members, syncs, sketches, ready, down, link>>
    <3> HIDE DEF m, d
    <3>1. notify' \in [Directory -> {"no", "same", "changed"}]
      BY <1>1, <2>2 DEF Types, DirTypes
    <3> QED BY <2>0, <2>2, <3>1 DEF Types, DirTypes, NetTypes
  <2>3. CASE /\ sketches' = [sketches EXCEPT ![d] = 0]
             /\ notify' = [notify EXCEPT ![d] = "changed"]
             /\ UNCHANGED <<members, syncs, ready, down, link>>
    <3> HIDE DEF m, d
    <3>1. notify' \in [Directory -> {"no", "same", "changed"}] /\ sketches' \in [Directory -> Nat]
      BY <1>1, <2>3 DEF Types, DirTypes
    <3> QED BY <2>0, <2>3, <3>1 DEF Types, DirTypes, NetTypes
  <2>4. CASE /\ sketches' = [sketches EXCEPT ![d] = sketches[d] + 1]
             /\ UNCHANGED <<notify, members, syncs, ready, down, link>>
    <3> HIDE DEF m, d
    <3>1. sketches' \in [Directory -> Nat]
      BY <1>1, <2>4 DEF Types, DirTypes
    <3> QED BY <2>0, <2>4, <3>1 DEF Types, DirTypes, NetTypes
  <2>5. CASE /\ syncs' = [syncs EXCEPT ![d] = 0]
             /\ notify' = [notify EXCEPT ![d] = "changed"]
             /\ down' = ToAgents(d, Plain("SIMPLE_SYNC_DONE"))
             /\ UNCHANGED <<members, sketches, ready, link>>
    <3> HIDE DEF m, d
    <3>1. notify' \in [Directory -> {"no", "same", "changed"}] /\ syncs' \in [Directory -> Nat]
      BY <1>1, <2>5 DEF Types, DirTypes
    <3>2. down' \in [Agent -> Seq(DownMessage)]
      <4>1. Plain("SIMPLE_SYNC_DONE") \in DownMessage
        BY DEF Plain, DownMessage
      <4> QED BY <1>1, <2>5, <4>1, ToAgentsType DEF Types
    <3> QED BY <2>0, <2>5, <3>1, <3>2 DEF Types, DirTypes
  <2>6. CASE /\ syncs' = [syncs EXCEPT ![d] = syncs[d] + 1]
             /\ UNCHANGED <<notify, down, members, sketches, ready, link>>
    <3> HIDE DEF m, d
    <3>1. syncs' \in [Directory -> Nat]
      BY <1>1, <2>6 DEF Types, DirTypes
    <3> QED BY <2>0, <2>6, <3>1 DEF Types, DirTypes, NetTypes
  <2>7. CASE /\ CountReady(d)
             /\ link' = ToPeers(d, Plain("READY_NV_NE_INT"), link)
             /\ UNCHANGED <<members, notify, syncs, sketches, down>>
    <3> HIDE DEF m, d
    <3>1. ready' \in [Directory -> 0 .. Cardinality(Agent) + 1]
      BY <1>1, <2>7, TypesCountReady
    <3>2. link' \in LinkNet
      <4>1. Plain("READY_NV_NE_INT") \in LinkMessage
        BY DEF Plain, LinkMessage
      <4> QED BY <1>1, <2>0, <2>7, <4>1, ToPeersType DEF LinkNet
    <3> QED BY <2>7, <3>1, <3>2 DEF Types, DirTypes, NetTypes
  <2> QED BY <2>1, <2>2, <2>3, <2>4, <2>5, <2>6, <2>7, FromAgentCases
<1>5. peer' = peer
  BY <1>1
<1> QED BY <1>2, <1>3, <1>4, <1>5 DEF Types, NetTypes, LinkNet, Fitting

LEMMA FromPeerCases ==
  ASSUME Types, NEW d \in Directory, NEW e \in Directory, FromPeer(d, e)
  PROVE  LET m == Head(link[e][d])
             net == [link EXCEPT ![e][d] = Tail(link[e][d])]
         IN  /\ link[e][d] # <<>> /\ m \in LinkMessage /\ net \in LinkNet
             /\ UNCHANGED <<agentVars, syncs, sketches, up, down, peer, envVars>>
             /\ \/ /\ m.type = "READY_NV_NE_INT" /\ CountReady(d)
                   /\ link' = net /\ UNCHANGED <<members, notify>>
                \/ /\ m.type # "READY_NV_NE_INT" /\ ChangeMembers(d, m, net) /\ UNCHANGED ready
<1>1. link[e][d] # <<>> /\ link[e][d] \in Seq(LinkMessage)
  BY DEF FromPeer, Types, NetTypes
<1>2. Head(link[e][d]) \in LinkMessage /\ Tail(link[e][d]) \in Seq(LinkMessage)
  BY <1>1, TailPlaces
<1>3. [link EXCEPT ![e][d] = Tail(link[e][d])] \in LinkNet
  BY <1>2 DEF Types, NetTypes, LinkNet
<1> QED BY <1>1, <1>2, <1>3 DEF FromPeer

LEMMA TypesFromPeer ==
  ASSUME Types, NEW d \in Directory, NEW e \in Directory, FromPeer(d, e) PROVE Types'
<1> DEFINE m == Head(link[e][d])
           net == [link EXCEPT ![e][d] = Tail(link[e][d])]
<1>1. /\ m \in LinkMessage /\ net \in LinkNet
      /\ UNCHANGED <<agentVars, syncs, sketches, up, down, peer, envVars>>
      /\ \/ /\ m.type = "READY_NV_NE_INT" /\ CountReady(d)
            /\ link' = net /\ UNCHANGED <<members, notify>>
         \/ /\ m.type # "READY_NV_NE_INT" /\ ChangeMembers(d, m, net) /\ UNCHANGED ready
  BY FromPeerCases
<1> HIDE DEF m, net
<1>2. AgentTypes' /\ EnvTypes' /\ Apart'
  BY <1>1 DEF Types, AgentTypes, EnvTypes, Apart, agentVars, envVars
<1>3. DirTypes' /\ link' \in LinkNet
  <2>1. CASE CountReady(d) /\ link' = net /\ UNCHANGED <<members, notify>>
    <3>1. ready' \in [Directory -> 0 .. Cardinality(Agent) + 1]
      BY <2>1, TypesCountReady
    <3> QED BY <1>1, <2>1, <3>1 DEF Types, DirTypes
  <2>2. CASE m.type # "READY_NV_NE_INT" /\ ChangeMembers(d, m, net) /\ UNCHANGED ready
    <3>1. /\ members' \in [Directory -> SUBSET Member] /\ notify' \in [Directory -> {"no", "same", "changed"}]
          /\ link' \in LinkNet
      BY <1>1, <2>2, TypesChangeMembers
    <3> QED BY <1>1, <2>2, <3>1 DEF Types, DirTypes
  <2> QED BY <1>1, <2>1, <2>2
<1> QED BY <1>1, <1>2, <1>3 DEF Types, NetTypes, LinkNet, Fitting

(* What heartbeat publishes.                                               *)
Published(d) == [type |-> "DIRECTORY_UPDATE", changed |-> notify[d] = "changed", members |-> members[d]]

LEMMA HeartbeatCases ==
  ASSUME Types, NEW d \in Directory, Heartbeat(d)
  PROVE  /\ notify[d] # "no" /\ notify' = [notify EXCEPT ![d] = "no"]
         /\ down' = ToAgents(d, Published(d)) /\ Published(d) \in ListMessage
         /\ UNCHANGED <<agentVars, members, syncs, sketches, ready, up, link, peer, envVars>>
BY DEF Heartbeat, Published, ListMessage, Types, DirTypes

LEMMA TypesHeartbeat ==
  ASSUME Types, NEW d \in Directory, Heartbeat(d) PROVE Types'
<1>1. /\ notify' = [notify EXCEPT ![d] = "no"]
      /\ down' = ToAgents(d, Published(d)) /\ Published(d) \in ListMessage
      /\ UNCHANGED <<agentVars, members, syncs, sketches, ready, up, link, peer, envVars>>
  BY HeartbeatCases
<1>2. down' \in [Agent -> Seq(DownMessage)]
  <2>1. Published(d) \in DownMessage
    BY <1>1 DEF DownMessage
  <2> QED BY <1>1, <2>1, ToAgentsType DEF Types
<1>3. notify' \in [Directory -> {"no", "same", "changed"}]
  BY <1>1 DEF Types, DirTypes
<1>4. AgentTypes' /\ EnvTypes' /\ Apart'
  BY <1>1 DEF Types, AgentTypes, EnvTypes, Apart, agentVars, envVars
<1> QED BY <1>1, <1>2, <1>3, <1>4 DEF Types, DirTypes, NetTypes, Fitting

LEMMA TypesStart ==
  ASSUME Types, NEW a \in Agent, Start(a) PROVE Types'
<1>1. /\ phase' = [phase EXCEPT ![a] = "load"]
      /\ up' = Tell(a, <<Plain("NEED_DIRECTORY"), Join(a, vcount[a])>>)
      /\ changes' = changes + 1
      /\ UNCHANGED <<view, vcount, held, moves, acks, nE, stopping, dirVars, down, link, peer,
                     transposed, home, edges>>
  BY DEF Start, Change
<1>2. up' \in [Agent -> Seq(UpMessage)]
  <2>1. vcount[a] \in 1 .. VAgents
    BY DEF Types, AgentTypes
  <2>2. Plain("NEED_DIRECTORY") \in UpMessage /\ Join(a, vcount[a]) \in UpMessage
    BY <2>1, MessageTypes
  <2> QED BY <1>1, <2>2, TellTwo DEF Types
<1>3. phase' \in [Agent -> Phase]
  BY <1>1 DEF Types, AgentTypes, Phase
<1>4. AgentTypes' /\ EnvTypes' /\ Apart'
  BY <1>1, <1>3 DEF Types, AgentTypes, EnvTypes, Apart
<1> QED BY <1>1, <1>2, <1>4 DEF Types, DirTypes, NetTypes, dirVars, Fitting

LEMMA TypesStop ==
  ASSUME Types, NEW a \in Agent, Stop(a) PROVE Types'
<1>1. /\ stopping' = [stopping EXCEPT ![a] = TRUE] /\ changes' = changes + 1
      /\ UNCHANGED <<phase, view, vcount, held, moves, acks, nE, dirVars, netVars, transposed, home, edges>>
  BY DEF Stop, Change
<1>2. AgentTypes' /\ EnvTypes' /\ Apart'
  BY <1>1 DEF Types, AgentTypes, EnvTypes, Apart, netVars
<1> QED BY <1>1, <1>2 DEF Types, DirTypes, NetTypes, dirVars, netVars, Fitting

(* What a command adds to the queue of an agent.                           *)
Order(c) == Plain(IF c = "VA" THEN "DO_VA" ELSE "DO_CS_LB")

LEMMA CommandCases ==
  ASSUME Types, Command
  PROVE  /\ Careful => Quiet /\ Cardinality(Homed) = 1
         /\ \A a \in Alive : view[a] # {}
         /\ changes' = changes + 2
         /\ UNCHANGED <<agentVars, dirVars, up, link, peer, transposed, home, edges>>
         /\ \E c \in Commands :
              /\ (Careful /\ c = "VA") => \E a, b \in Alive : Overloaded(a) /\ ~Overloaded(b)
              /\ Order(c) \in DownMessage
              /\ down' \in [Agent -> Seq(DownMessage)]
              /\ \A a \in Agent : down'[a] = IF a \in Alive THEN Append(down[a], Order(c)) ELSE down[a]
<1>1. PICK c \in Commands :
              /\ (Careful /\ c = "VA") => \E a, b \in Alive : Overloaded(a) /\ ~Overloaded(b)
              /\ down' = [a \in Agent |-> IF a \in Alive THEN Append(down[a], Order(c)) ELSE down[a]]
  BY DEF Command, Order
<1>2. Order(c) \in DownMessage
  BY DEF Order, Plain, DownMessage
<1>3. \A a \in Agent : down[a] \in Seq(DownMessage)
  BY DEF Types, NetTypes
<1>4. \A a \in Agent : Append(down[a], Order(c)) \in Seq(DownMessage)
  BY <1>2, <1>3, AppendPlaces
<1>5. /\ down' \in [Agent -> Seq(DownMessage)]
      /\ \A a \in Agent : down'[a] = IF a \in Alive THEN Append(down[a], Order(c)) ELSE down[a]
  BY <1>1, <1>3, <1>4
<1>6. /\ Careful => Quiet /\ Cardinality(Homed) = 1
      /\ \A a \in Alive : view[a] # {}
      /\ changes' = changes + 2
      /\ UNCHANGED <<agentVars, dirVars, up, link, peer, transposed, home, edges>>
  BY DEF Command, Change
<1> QED BY <1>1, <1>2, <1>5, <1>6

LEMMA TypesCommand ==
  ASSUME Types, Command PROVE Types'
<1>1. /\ changes' = changes + 2
      /\ UNCHANGED <<agentVars, dirVars, up, link, peer, transposed, home, edges>>
      /\ down' \in [Agent -> Seq(DownMessage)]
  BY CommandCases
<1>2. AgentTypes' /\ EnvTypes' /\ Apart'
  BY <1>1 DEF Types, AgentTypes, EnvTypes, Apart, agentVars
<1> QED BY <1>1, <1>2 DEF Types, DirTypes, NetTypes, dirVars, Fitting

LEMMA RecvUpdateEdgeCases ==
  ASSUME Types, NEW a \in Agent, RecvUpdateEdge(a)
  PROVE  /\ phase[a] = "load" /\ ~stopping[a] /\ (Careful => ~Balancing /\ ~Leaving)
         /\ UNCHANGED <<phase, view, vcount, acks, stopping, dirVars, netVars, transposed, home, changes>>
         /\ \E e \in Streamed \ edges, o \in Agent \cup {Nobody} :
              /\ e \in Vertex \X Vertex /\ edges' = edges \cup {e}
              /\ \E b \in Alive : view[b] # {} /\ Owner(view[b], InCopy(e)) = a
              /\ o = Owner(view[a], InCopy(e))
              /\ \/ view[a] # {} /\ o \in Agent /\ \E m \in view[a] : o = m[1]
                 \/ view[a] = {} /\ o = Nobody
              /\ \/ /\ o = a /\ held' = [held EXCEPT ![a] = held[a] \cup {InCopy(e)}]
                    /\ nE' = [nE EXCEPT ![a] = nE[a] + 1] /\ UNCHANGED moves
                 \/ /\ o # a /\ moves' = [moves EXCEPT ![a] = moves[a] \cup {<<o, InCopy(e)>>}]
                    /\ UNCHANGED <<held, nE>>
<1>1. /\ phase[a] = "load" /\ ~stopping[a] /\ (Careful => ~Balancing /\ ~Leaving)
      /\ UNCHANGED <<phase, view, vcount, acks, stopping, dirVars, netVars, transposed, home, changes>>
  BY DEF RecvUpdateEdge
<1>2. PICK e \in Streamed \ edges :
         /\ edges' = edges \cup {e}
         /\ \E b \in Alive : view[b] # {} /\ Owner(view[b], InCopy(e)) = a
         /\ LET o == Owner(view[a], InCopy(e))
            IN  \/ /\ o = a /\ held' = [held EXCEPT ![a] = held[a] \cup {InCopy(e)}]
                   /\ nE' = [nE EXCEPT ![a] = nE[a] + 1] /\ UNCHANGED moves
                \/ /\ o # a /\ moves' = [moves EXCEPT ![a] = moves[a] \cup {<<o, InCopy(e)>>}]
                   /\ UNCHANGED <<held, nE>>
  BY DEF RecvUpdateEdge
<1>3. e \in Vertex \X Vertex
  BY ElasticAssumption
<1>4. InCopy(e) \in Copy /\ view[a] \in SUBSET Member
  BY <1>3, CopyType DEF Types, AgentTypes
<1> DEFINE o == Owner(view[a], InCopy(e))
<1>5. \/ view[a] # {} /\ o \in Agent /\ \E m \in view[a] : o = m[1]
      \/ view[a] = {} /\ o = Nobody
  <2>1. view[a] # {} => \E m \in view[a] : o = m[1] /\ m[1] \in Agent
    BY <1>4, OwnerType DEF Types
  <2>2. view[a] = {} => o = Nobody
    BY <1>4, OwnerType DEF Types
  <2> HIDE DEF o
  <2> QED BY <2>1, <2>2
<1>6. o \in Agent \cup {Nobody}
  BY <1>5
<1> QED BY <1>1, <1>2, <1>3, <1>5, <1>6

LEMMA RecvUpdateEdgeBooks ==
  ASSUME Types, Distinct, Present, Accounts, NEW a \in Agent, RecvUpdateEdge(a)
  PROVE  Types' /\ Distinct' /\ Present' /\ Accounts'
<1>0. UNCHANGED <<phase, view, vcount, acks, stopping, dirVars, netVars, transposed, home, changes>>
  BY RecvUpdateEdgeCases
<1>1. PICK e \in Streamed \ edges, o \in Agent \cup {Nobody} :
              /\ e \in Vertex \X Vertex /\ edges' = edges \cup {e}
              /\ \/ /\ o = a /\ held' = [held EXCEPT ![a] = held[a] \cup {InCopy(e)}]
                    /\ nE' = [nE EXCEPT ![a] = nE[a] + 1] /\ UNCHANGED moves
                 \/ /\ o # a /\ moves' = [moves EXCEPT ![a] = moves[a] \cup {<<o, InCopy(e)>>}]
                    /\ UNCHANGED <<held, nE>>
  BY RecvUpdateEdgeCases
<1> DEFINE c0 == InCopy(e)
<1>2. c0 \in Copy /\ c0.edge = e /\ c0.kind = "in"
  BY <1>1, CopyType
<1> HIDE DEF c0
<1>3. held' \in [Agent -> SUBSET Copy]
  BY <1>1, <1>2 DEF Types, AgentTypes, c0
<1>4. moves' \in [Agent -> SUBSET ((Agent \cup {Nobody}) \X Copy)]
  <2>1. <<o, c0>> \in (Agent \cup {Nobody}) \X Copy
    BY <1>2
  <2> HIDE DEF Copy
  <2> QED BY <1>1, <2>1 DEF Types, AgentTypes, c0
<1>5. nE' \in [Agent -> Int]
  BY <1>1 DEF Types, AgentTypes
<1>6. Apart'
  <2>1. \A x \in Agent \ {a} : moves'[x] = moves[x]
    BY <1>1 DEF Types, AgentTypes
  <2>2. \A x \in moves'[a] : x \in moves[a] \/ (o # a /\ x = <<o, c0>>)
    BY <1>1 DEF Types, AgentTypes, c0
  <2> QED BY <1>0, <2>1, <2>2 DEF Types, Apart, netVars
<1>7. Types'
  <2>1. AgentTypes'
    BY <1>0, <1>3, <1>4, <1>5 DEF Types, AgentTypes
  <2>2. EnvTypes'
    BY <1>0, <1>1 DEF Types, EnvTypes
  <2> QED BY <1>0, <1>6, <2>1, <2>2 DEF Types, DirTypes, NetTypes, dirVars, netVars, Fitting
<1>8. /\ \A x \in Agent : c0 \notin Here(x)
      /\ \A x, y \in Agent : ~Carried(peer[x][y], c0)
  BY <1>1, <1>2 DEF Present
<1>9. \A x \in Agent \ {a} : Here(x)' = Here(x) /\ (Single(x)' <=> Single(x)) /\ held'[x] = held[x]
                             /\ nE'[x] = nE[x]
  BY <1>1 DEF Types, AgentTypes, Here, Single
<1>10. /\ Here(a)' = Here(a) \cup {c0} /\ Single(a)'
       /\ nE'[a] = InCount(held'[a])
  <2>1. Single(a) /\ nE[a] = InCount(held[a])
    BY DEF Distinct, Accounts
  <2>2. c0 \notin held[a] /\ \A x \in moves[a] : x[2] # c0
    BY <1>8 DEF Here
  <2>3. CASE /\ o = a /\ held' = [held EXCEPT ![a] = held[a] \cup {c0}]
             /\ nE' = [nE EXCEPT ![a] = nE[a] + 1] /\ UNCHANGED moves
    <3>1. held'[a] = held[a] \cup {c0} /\ moves'[a] = moves[a] /\ nE'[a] = nE[a] + 1
      BY <2>3 DEF Types, AgentTypes
    <3>2. Here(a)' = Here(a) \cup {c0}
      BY <3>1 DEF Here
    <3>3. Single(a)'
      BY <2>1, <2>2, <3>1 DEF Single
    <3>4. InCount({c0}) = 1
      <4>1. {c \in {c0} : c.kind = "in"} = {c0}
        BY <1>2
      <4> QED BY <4>1, FS_Singleton DEF InCount
    <3>5. InCount(held[a] \cup {c0}) = InCount(held[a]) + InCount({c0})
      BY <1>2, <2>2, InCountType DEF Types, AgentTypes
    <3> QED BY <2>1, <3>1, <3>2, <3>3, <3>4, <3>5
  <2>4. CASE /\ o # a /\ moves' = [moves EXCEPT ![a] = moves[a] \cup {<<o, c0>>}]
             /\ UNCHANGED <<held, nE>>
    <3>1. held'[a] = held[a] /\ moves'[a] = moves[a] \cup {<<o, c0>>} /\ nE'[a] = nE[a]
      BY <2>4 DEF Types, AgentTypes
    <3>2. Here(a)' = Here(a) \cup {c0}
      <4>1. <<o, c0>>[2] = c0
        OBVIOUS
      <4>2. {x[2] : x \in moves[a] \cup {<<o, c0>>}} = {x[2] : x \in moves[a]} \cup {c0}
        BY <4>1
      <4> QED BY <3>1, <4>2 DEF Here
    <3>3. Single(a)'
      BY <2>1, <2>2, <3>1 DEF Single
    <3> QED BY <2>1, <3>1, <3>2, <3>3
  <2> QED BY <1>1, <2>3, <2>4 DEF c0
<1>11. peer' = peer /\ acks' = acks
  BY <1>0 DEF netVars
<1>12. Distinct'
  <2>1. \A x \in Agent : Single(x)'
    BY <1>9, <1>10 DEF Distinct
  <2>2. \A x, y \in Agent : \A c \in Copy : c \in Here(x)' /\ c \in Here(y)' => x = y
    BY <1>8, <1>9, <1>10 DEF Distinct
  <2>3. \A x, y, p \in Agent : \A c \in Copy : Carried(peer'[x][y], c) => c \notin Here(p)'
    BY <1>8, <1>9, <1>10, <1>11 DEF Distinct
  <2>4. /\ \A x, y, p, q \in Agent : \A c \in Copy :
             Carried(peer'[x][y], c) /\ Carried(peer'[p][q], c) => x = p /\ y = q
        /\ \A x, y \in Agent : \A c \in Copy : CarriedOnce(peer'[x][y], c)
    BY <1>11 DEF Distinct
  <2> QED BY <2>1, <2>2, <2>3, <2>4 DEF Distinct
<1>13. Present'
  BY <1>1, <1>2, <1>9, <1>10, <1>11 DEF Present
<1>14. Accounts'
  <2>1. \A x \in Agent : Owing(x)' = Owing(x)
    BY <1>11 DEF Owing
  <2>2. \A x \in Agent : Tokens(Owing(x))' = Tokens(Owing(x))
    BY <2>1 DEF Tokens
  <2>3. \A x \in Agent : nE'[x] = InCount(held'[x])
    BY <1>9, <1>10 DEF Accounts
  <2>4. \A x \in Agent : InCount(held[x])' = InCount(held'[x])
    BY DEF InCount
  <2> QED BY <1>11, <2>2, <2>3, <2>4 DEF Accounts
<1> QED BY <1>7, <1>12, <1>13, <1>14

LEMMA BooksUntouched ==
  ASSUME Distinct, Present, Accounts, UNCHANGED <<held, moves, peer, acks, nE, edges>>
  PROVE  Distinct' /\ Present' /\ Accounts'
<1>1. \A x \in Agent : Here(x)' = Here(x) /\ (Single(x)' <=> Single(x))
  BY DEF Here, Single
<1>2. Distinct' /\ Present'
  BY <1>1 DEF Distinct, Present
<1>3. \A x \in Agent : Tokens(Owing(x))' = Tokens(Owing(x)) /\ InCount(held[x])' = InCount(held[x])
  BY DEF Owing, Tokens, InCount
<1>4. Accounts'
  BY <1>3 DEF Accounts
<1> QED BY <1>2, <1>4

LEMMA BooksMoveAway ==
  ASSUME Books, Types', NEW a \in Agent, NEW mem \in SUBSET Member, NEW ph \in Phase, MoveAway(a, mem, ph),
         edges' = edges
  PROVE  Books'
<1>1. Types /\ Distinct /\ Present /\ Accounts /\ NetTypes'
  BY DEF Books, Types
<1>2. Flow(a, a, {}, held[a] \ Lost(a, mem), Outgoing(a, mem))
  BY <1>1, MoveAwayFlow
<1>3. Distinct' /\ Present'
  BY <1>1, <1>2, FlowHolds
<1>4. Accounts'
  BY <1>1, MoveAwayAccounts
<1> QED BY <1>3, <1>4 DEF Books

LEMMA BooksNext ==
  ASSUME Books, [Next]_vars PROVE Books'
<1>1. Types /\ Distinct /\ Present /\ Accounts
  BY DEF Books
<1>2. ASSUME NEW a \in Agent, RecvDirectory(a) PROVE Books'
  <2> DEFINE m == Head(down[a])
  <2>1. Types'
    BY <1>1, <1>2, TypesRecvDirectory
  <2>2. /\ m.members \in SUBSET Member /\ edges' = edges
        /\ \/ UNCHANGED <<held, nE, moves, acks, peer>>
           \/ MoveAway(a, m.members, phase[a])
    BY <1>1, <1>2, RecvDirectoryCases DEF envVars
  <2> HIDE DEF m
  <2>3. CASE UNCHANGED <<held, nE, moves, acks, peer>>
    BY <1>1, <2>1, <2>2, <2>3, BooksUntouched DEF Books
  <2>4. CASE MoveAway(a, m.members, phase[a])
    <3>1. phase[a] \in Phase
      BY <1>1 DEF Types, AgentTypes
    <3> QED BY <2>1, <2>2, <2>4, <3>1, BooksMoveAway
  <2> QED BY <2>2, <2>3, <2>4
<1>3. ASSUME NEW a \in Agent, RecvSyncDone(a) PROVE Books'
  <2>1. Types'
    BY <1>1, <1>3, TypesRecvSyncDone
  <2>2. /\ view[a] \in SUBSET Member /\ edges' = edges
        /\ \/ UNCHANGED <<held, nE, moves, acks, peer>>
           \/ MoveAway(a, view[a], "idle")
    BY <1>1, <1>3, RecvSyncDoneCases DEF envVars
  <2>3. CASE UNCHANGED <<held, nE, moves, acks, peer>>
    BY <1>1, <2>1, <2>2, <2>3, BooksUntouched DEF Books
  <2>4. CASE MoveAway(a, view[a], "idle")
    <3>1. "idle" \in Phase
      BY DEF Phase
    <3> QED BY <2>1, <2>2, <2>4, <3>1, BooksMoveAway
  <2> QED BY <2>2, <2>3, <2>4
<1>4. ASSUME NEW a \in Agent, RecvVa(a) PROVE Books'
  <2>1. Types'
    BY <1>1, <1>4, TypesRecvVa
  <2>2. UNCHANGED <<held, moves, peer, acks, nE, edges>>
    BY <1>4 DEF RecvVa, envVars
  <2> QED BY <1>1, <2>1, <2>2, BooksUntouched DEF Books
<1>5. ASSUME NEW a \in Agent, RecvCsLb(a) PROVE Books'
  <2>1. Types'
    BY <1>1, <1>5, TypesRecvCsLb
  <2>2. UNCHANGED <<held, moves, peer, acks, nE, edges>>
    BY <1>5 DEF RecvCsLb, envVars
  <2> QED BY <1>1, <2>1, <2>2, BooksUntouched DEF Books
<1>6. ASSUME NEW a \in Agent, NEW b \in Agent, RecvMoves(a, b) PROVE Books'
  <2>1. Types' /\ NetTypes'
    BY <1>1, <1>6, TypesRecvMoves DEF Types
  <2>2. edges' = edges
    BY <1>6 DEF RecvMoves, envVars
  <2> DEFINE copies == Head(peer[b][a]).copies
  <2>3. Flow(a, b, copies, held[a] \cup Mine(a, copies), Onward(a, copies))
    BY <1>1, <1>6, RecvMovesFlow
  <2> HIDE DEF copies
  <2>4. Distinct' /\ Present'
    BY <1>1, <2>2, <2>3, FlowHolds
  <2>5. Accounts'
    BY <1>1, <1>6, <2>1, RecvMovesAccounts
  <2> QED BY <2>1, <2>4, <2>5 DEF Books
<1>7. ASSUME NEW a \in Agent, NEW b \in Agent, RecvAck(a, b) PROVE Books'
  <2>1. Types' /\ NetTypes'
    BY <1>1, <1>7, TypesRecvAck DEF Types
  <2> QED BY <1>1, <1>7, <2>1, RecvAckBooks DEF Books
<1>8. ASSUME NEW a \in Agent, Shutdown(a) PROVE Books'
  <2>1. Types'
    BY <1>1, <1>8, TypesShutdown
  <2>2. UNCHANGED <<held, moves, peer, acks, nE, edges>>
    BY <1>8 DEF Shutdown, envVars
  <2> QED BY <1>1, <2>1, <2>2, BooksUntouched DEF Books
<1>9. ASSUME NEW a \in Agent, FromAgent(a) PROVE Books'
  <2>1. Types'
    BY <1>1, <1>9, TypesFromAgent
  <2>2. UNCHANGED <<held, moves, peer, acks, nE, edges>>
    BY <1>9 DEF FromAgent, agentVars, envVars
  <2> QED BY <1>1, <2>1, <2>2, BooksUntouched DEF Books
<1>10. ASSUME NEW d \in Directory, Heartbeat(d) PROVE Books'
  <2>1. Types'
    BY <1>1, <1>10, TypesHeartbeat
  <2>2. UNCHANGED <<held, moves, peer, acks, nE, edges>>
    BY <1>10 DEF Heartbeat, agentVars, envVars
  <2> QED BY <1>1, <2>1, <2>2, BooksUntouched DEF Books
<1>11. ASSUME NEW d \in Directory, NEW e \in Directory, FromPeer(d, e) PROVE Books'
  <2>1. Types'
    BY <1>1, <1>11, TypesFromPeer
  <2>2. UNCHANGED <<held, moves, peer, acks, nE, edges>>
    BY <1>11 DEF FromPeer, agentVars, envVars
  <2> QED BY <1>1, <2>1, <2>2, BooksUntouched DEF Books
<1>12. ASSUME NEW a \in Agent, Start(a) PROVE Books'
  <2>1. Types'
    BY <1>1, <1>12, TypesStart
  <2>2. UNCHANGED <<held, moves, peer, acks, nE, edges>>
    BY <1>12 DEF Start
  <2> QED BY <1>1, <2>1, <2>2, BooksUntouched DEF Books
<1>13. ASSUME NEW a \in Agent, Stop(a) PROVE Books'
  <2>1. Types'
    BY <1>1, <1>13, TypesStop
  <2>2. UNCHANGED <<held, moves, peer, acks, nE, edges>>
    BY <1>13 DEF Stop, netVars
  <2> QED BY <1>1, <2>1, <2>2, BooksUntouched DEF Books
<1>14. ASSUME NEW a \in Agent, RecvUpdateEdge(a) PROVE Books'
  BY <1>1, <1>14, RecvUpdateEdgeBooks DEF Books
<1>15. ASSUME Command PROVE Books'
  <2>1. Types'
    BY <1>1, <1>15, TypesCommand
  <2>2. UNCHANGED <<held, moves, peer, acks, nE, edges>>
    BY <1>15 DEF Command, agentVars
  <2> QED BY <1>1, <2>1, <2>2, BooksUntouched DEF Books
<1>16. ASSUME UNCHANGED vars PROVE Books'
  <2>1. Types'
    BY <1>1, <1>16 DEF vars, agentVars, dirVars, netVars, envVars, Types, AgentTypes, DirTypes, NetTypes,
                       EnvTypes, Apart, Fitting
  <2>2. UNCHANGED <<held, moves, peer, acks, nE, edges>>
    BY <1>16 DEF vars, agentVars, netVars, envVars
  <2> QED BY <1>1, <2>1, <2>2, BooksUntouched DEF Books
<1> QED BY <1>2, <1>3, <1>4, <1>5, <1>6, <1>7, <1>8, <1>9, <1>10, <1>11, <1>12, <1>13, <1>14, <1>15, <1>16
        DEF Next, RecvDown, RecvPeers, Done

LEMMA BooksInit ==
  ASSUME Fitting, Init PROVE Books
<1> DEFINE mem == First \X {VAgents}
<1>1. mem \in SUBSET Member
  BY MemberPairs, ElasticAssumption
<1>2. /\ home \in Homes /\ edges \in Graphs
      /\ members = [d \in Directory |-> mem]
      /\ view = [a \in Agent |-> IF a \in First THEN mem ELSE {}]
      /\ \A a \in Agent : phase[a] \in Phase
      /\ phase = [a \in Agent |-> phase[a]]
      /\ held = [a \in Agent |-> held[a]]
      /\ \A a \in Agent : \A c \in held[a] : c \in Copy /\ c.edge \in edges /\ Owner(mem, c) = a
      /\ transposed = edges \/ transposed = {}
  <2>1. PICK begun \in BOOLEAN :
           /\ phase = [a \in Agent |-> IF a \notin First THEN "out"
                                       ELSE IF begun THEN "idle" ELSE "load"]
           /\ view = [a \in Agent |-> IF a \in First THEN mem ELSE {}]
           /\ members = [d \in Directory |-> mem]
           /\ held = [a \in Agent |->
                {c \in Copy : c.edge \in edges /\ Owner(mem, c) = a /\ (begun \/ c.kind = "in")}]
           /\ transposed = IF begun THEN edges ELSE {}
    BY DEF Init
  <2>2. home \in Homes /\ edges \in Graphs
    BY DEF Init
  <2> HIDE DEF mem
  <2> QED BY <2>1, <2>2 DEF Phase
<1> HIDE DEF mem
<1>3. /\ vcount = [a \in Agent |-> VAgents] /\ moves = [a \in Agent |-> {}] /\ acks = [a \in Agent |-> 0]
      /\ nE = [a \in Agent |-> Cardinality({c \in held[a] : c.kind = "in"})]
      /\ stopping = [a \in Agent |-> FALSE] /\ notify = [d \in Directory |-> "no"]
      /\ syncs = [d \in Directory |-> 0] /\ sketches = [d \in Directory |-> 0]
      /\ ready = [d \in Directory |-> 0]
      /\ up = [a \in Agent |-> <<>>] /\ down = [a \in Agent |-> <<>>]
      /\ link = [d \in Directory |-> [e \in Directory |-> <<>>]]
      /\ peer = [a \in Agent |-> [b \in Agent |-> <<>>]] /\ changes = 0
  BY DEF Init
<1>4. \A a \in Agent : held[a] \in SUBSET Copy /\ nE[a] = InCount(held[a]) /\ nE[a] \in Nat
  <2>1. \A a \in Agent : held[a] \in SUBSET Copy
    BY <1>2
  <2>2. \A a \in Agent : nE[a] = InCount(held[a])
    BY <1>3 DEF InCount
  <2> QED BY <2>1, <2>2, InCountType
<1>5. AgentTypes
  <2>1. VAgents \in 1 .. VAgents
    BY MemberPairs
  <2>2. nE \in [Agent -> Int]
    BY <1>3, <1>4
  <2>3. moves \in [Agent -> SUBSET ((Agent \cup {Nobody}) \X Copy)]
    BY <1>3
  <2>4. phase \in [Agent -> Phase] /\ held \in [Agent -> SUBSET Copy] /\ view \in [Agent -> SUBSET Member]
    BY <1>1, <1>2
  <2> QED BY <1>3, <2>1, <2>2, <2>3, <2>4 DEF AgentTypes
<1>6. DirTypes
  <2>1. Cardinality(Agent) \in Nat
    BY ConsistentHashAssumption, FS_CardinalityType
  <2> QED BY <1>1, <1>2, <1>3, <2>1 DEF DirTypes
<1>7. NetTypes
  <2>1. \A S : <<>> \in Seq(S)
    OBVIOUS
  <2> QED BY <1>3, <2>1 DEF NetTypes
<1>8. EnvTypes
  <2>1. home \in [Agent -> Directory] /\ edges \subseteq Vertex \X Vertex
    BY <1>2, ElasticAssumption
  <2> QED BY <1>2, <1>3, <2>1 DEF EnvTypes
<1>9. Apart
  BY <1>3 DEF Apart
<1>10. \A a \in Agent : Here(a) = held[a] /\ Single(a)
  BY <1>3 DEF Here, Single
<1>11. \A a, b \in Agent : \A c \in Copy : ~Carried(peer[a][b], c) /\ CarriedOnce(peer[a][b], c)
  BY <1>3, CarriedEmpty
<1>12. Distinct
  BY <1>2, <1>10, <1>11 DEF Distinct
<1>13. Present
  BY <1>2, <1>10, <1>11 DEF Present
<1>14. Accounts
  <2> SUFFICES ASSUME NEW a \in Agent PROVE Cardinality(Tokens(Owing(a))) <= acks[a] /\ nE[a] = InCount(held[a])
    BY DEF Accounts
  <2>1. \A b \in Agent : Count(peer[a][b], "moves") = 0 /\ Count(peer[b][a], "ack") = 0
    BY <1>3, CountEmpty
  <2>2. Tokens(Owing(a)) = {}
    BY <2>1 DEF Tokens, Owing
  <2>3. acks[a] = 0
    BY <1>3
  <2> QED BY <1>4, <2>2, <2>3, FS_EmptySet
<1> QED BY <1>5, <1>6, <1>7, <1>8, <1>9, <1>12, <1>13, <1>14 DEF Books, Types

(* What agents gave to agent 0 are copies.                                 *)
StrayTypes == astray \in [Agent -> SUBSET Copy]

LEMMA StrayTypesNext ==
  ASSUME Types, StrayTypes, [Next]_vars PROVE StrayTypes'
<1>1. ASSUME NEW a \in Agent, NEW mem, NEW copies \in SUBSET Copy,
             astray' = [astray EXCEPT ![a] = astray[a] \cup Strays(mem, copies)]
      PROVE  StrayTypes'
  <2>1. Strays(mem, copies) \in SUBSET Copy
    BY DEF Strays
  <2> QED BY <1>1, <2>1 DEF StrayTypes
<1>2. ASSUME UNCHANGED astray PROVE StrayTypes'
  BY <1>2 DEF StrayTypes
<1>3. ASSUME NEW a \in Agent, NEW mem, NEW ph, MoveAway(a, mem, ph) PROVE StrayTypes'
  <2>1. Lost(a, mem) \in SUBSET Copy
    BY DEF Types, AgentTypes, Lost
  <2> QED BY <1>1, <1>3, <2>1 DEF MoveAway, Lost
<1>4. ASSUME NEW a \in Agent, RecvDirectory(a) PROVE StrayTypes'
  BY <1>2, <1>3, <1>4 DEF RecvDirectory
<1>5. ASSUME NEW a \in Agent, RecvSyncDone(a) PROVE StrayTypes'
  BY <1>2, <1>3, <1>5 DEF RecvSyncDone
<1>6. ASSUME NEW a \in Agent, NEW b \in Agent, RecvMoves(a, b) PROVE StrayTypes'
  <2>1. Head(peer[b][a]).copies \in SUBSET Copy
    BY <1>6, RecvMovesStep
  <2>2. astray' = [astray EXCEPT ![a] = astray[a] \cup Strays(view[a], Head(peer[b][a]).copies)]
    BY <1>6 DEF RecvMoves
  <2> QED BY <1>1, <2>1, <2>2
<1>7. ASSUME NEW a \in Agent, RecvUpdateEdge(a) PROVE StrayTypes'
  <2>1. PICK e \in Vertex \X Vertex : astray' = [astray EXCEPT ![a] = astray[a] \cup Strays(view[a], {InCopy(e)})]
    BY <1>7, ElasticAssumption DEF RecvUpdateEdge
  <2>2. {InCopy(e)} \in SUBSET Copy
    BY CopyType
  <2> QED BY <1>1, <2>1, <2>2
<1>8. ASSUME NEW a \in Agent, \/ RecvVa(a) \/ RecvCsLb(a) \/ Shutdown(a) \/ FromAgent(a)
                              \/ Start(a) \/ Stop(a) \/ \E b \in Agent : RecvAck(a, b)
      PROVE  UNCHANGED astray
  BY <1>8 DEF RecvVa, RecvCsLb, Shutdown, FromAgent, Start, Stop, RecvAck, agentVars
<1>9. ASSUME NEW d \in Directory, NEW e \in Directory, Heartbeat(d) \/ FromPeer(d, e) PROVE UNCHANGED astray
  BY <1>9 DEF Heartbeat, FromPeer, agentVars
<1>10. ASSUME Command \/ Done \/ UNCHANGED vars PROVE UNCHANGED astray
  BY <1>10 DEF Command, Done, vars, agentVars
<1> QED BY <1>2, <1>4, <1>5, <1>6, <1>7, <1>8, <1>9, <1>10 DEF Next, RecvDown, RecvPeers

LEMMA BooksTypeOK == ASSUME Books, StrayTypes PROVE TypeOK
<1>1. Types /\ Accounts
  BY DEF Books
<1>2. ASSUME NEW a \in Agent PROVE acks[a] \in Nat /\ nE[a] \in Nat
  <2>1. Owing(a) \in [Agent -> Nat]
    BY <1>1, OwingType DEF Types
  <2>2. Cardinality(Tokens(Owing(a))) \in Nat /\ Cardinality(Tokens(Owing(a))) <= acks[a] /\ acks[a] \in Int
    BY <1>1, <2>1, TokensFinite DEF Accounts, Types, AgentTypes
  <2>3. nE[a] = InCount(held[a]) /\ held[a] \in SUBSET Copy
    BY <1>1 DEF Accounts, Types, AgentTypes
  <2> QED BY <2>2, <2>3, InCountType
<1> QED BY <1>1, <1>2 DEF TypeOK, Types, AgentTypes, DirTypes, Phase, StrayTypes

LEMMA BooksSearch == ASSUME Books PROVE SearchExact
<1>1. Types
  BY DEF Books
<1>4. SearchExact
  <2> SUFFICES ASSUME NEW a \in Agent, NEW u \in Vertex, view[a] # {}
               PROVE  LET ring  == Ring(view[a])
                          found == Find(Sorted(ring), Hash[u], Replicas[u])
                      IN  /\ Len(found) = Replicas[u]
                          /\ IsSuccessor(ring, Hash[u], found[1])
                          /\ \A i \in 1 .. Len(found) - 1 : IsNext(ring, found[i], found[i + 1])
    BY DEF SearchExact
  <2>1. view[a] \in SUBSET Member /\ Fits(view[a])
    BY <1>1 DEF Types, AgentTypes, Fitting
  <2> DEFINE ring == Ring(view[a])
             n == Replicas[u]
             found == Find(Sorted(ring), Hash[u], n)
  <2>2. ring \in SUBSET Nat /\ IsFiniteSet(ring) /\ ring # {} /\ Cardinality(ring) \in Nat
    BY <2>1, RingType, FS_CardinalityType
  <2>3. n \in 1 .. Cardinality(ring) + 1 /\ Hash[u] \in Nat
    BY <2>1, <2>2, ConsistentHashAssumption DEF Fits
  <2> HIDE DEF ring, n
  <2>4. /\ Len(found) = n /\ IsSuccessor(ring, Hash[u], found[1])
        /\ \A i \in 1 .. Len(found) - 1 : IsNext(ring, found[i], found[i + 1])
    BY <2>2, <2>3, FindExact
  <2> QED BY <2>4 DEF ring, n
<1> QED BY <1>4

(* Whatever messages come in whatever order, every counter stays what it   *)
(* counts: no agent waits for fewer acknowledgements than are on their way *)
(* and none has edges it does not count (agent.cpp:258-383).               *)
THEOREM TypesElastic == ASSUME Fitting PROVE Spec => []TypeOK
<1>1. Init => Books /\ StrayTypes
  BY BooksInit DEF Init, StrayTypes
<1>2. Books /\ StrayTypes /\ [Next]_vars => Books' /\ StrayTypes'
  BY BooksNext, StrayTypesNext DEF Books
<1>3. Books /\ StrayTypes => TypeOK
  BY BooksTypeOK
<1> QED BY <1>1, <1>2, <1>3, PTL DEF Spec

(* The search is exact on every ring that any history of joins, leaves and *)
(* balancing leads to (consistenthasher.cpp:24-58).                        *)
THEOREM SearchedRings == ASSUME Fitting PROVE Spec => []SearchExact
<1>1. Init => Books
  BY BooksInit
<1>2. Books /\ [Next]_vars => Books'
  BY BooksNext
<1>3. Books => SearchExact
  BY BooksSearch
<1> QED BY <1>1, <1>2, <1>3, PTL DEF Spec

-----------------------------------------------------------------------------
(* Lists of agents on their way.  What an agent has, the lists that are on *)
(* their way to it and the list of its directory follow each other: one    *)
(* that is not called changed is the one before it.                        *)

IsList(m) == m.type = "DIRECTORY_UPDATE"
Steady(q, i, j) == \A k \in DOMAIN q : i < k /\ k <= j /\ IsList(q[k]) => ~q[k].changed
InStep(q, v, n, mem) ==
  /\ \A i, j \in DOMAIN q : (i < j /\ IsList(q[i]) /\ IsList(q[j]) /\ Steady(q, i, j))
                              => q[i].members = q[j].members
  /\ \A j \in DOMAIN q : (IsList(q[j]) /\ Steady(q, 0, j)) => v \in {{}, q[j].members}
  /\ \A i \in DOMAIN q : (IsList(q[i]) /\ Steady(q, i, Len(q)) /\ n # "changed") => q[i].members = mem
  /\ (Steady(q, 0, Len(q)) /\ n # "changed") => v \in {{}, mem}

LEMMA SteadyTail ==
  ASSUME NEW q \in Seq(DownMessage), q # <<>>
  PROVE  /\ \A i \in Nat, j \in Nat : Steady(Tail(q), i, j) <=> Steady(q, i + 1, j + 1)
         /\ \A j \in Nat : Steady(q, 0, j) <=> (Steady(q, 1, j) /\ (j > 0 /\ IsList(q[1]) => ~q[1].changed))
<1>1. /\ Len(q) \in Nat \ {0} /\ DOMAIN q = 1 .. Len(q) /\ DOMAIN Tail(q) = 1 .. Len(q) - 1
      /\ \A i \in 1 .. Len(q) - 1 : Tail(q)[i] = q[i + 1]
  BY TailPlaces
<1> DEFINE r == Tail(q)
<1> HIDE DEF r
<1>2. ASSUME NEW i \in Nat, NEW j \in Nat PROVE Steady(r, i, j) <=> Steady(q, i + 1, j + 1)
  <2>1. ASSUME Steady(q, i + 1, j + 1), NEW k \in DOMAIN r, i < k, k <= j, IsList(r[k]) PROVE ~r[k].changed
    <3>1. k + 1 \in DOMAIN q /\ q[k + 1] = r[k] /\ i + 1 < k + 1 /\ k + 1 <= j + 1
      BY <1>1, <2>1 DEF r
    <3> QED BY <2>1, <3>1 DEF Steady
  <2>2. ASSUME Steady(r, i, j), NEW k \in DOMAIN q, i + 1 < k, k <= j + 1, IsList(q[k]) PROVE ~q[k].changed
    <3>1. k - 1 \in DOMAIN r /\ q[k] = r[k - 1] /\ i < k - 1 /\ k - 1 <= j
      BY <1>1, <2>2 DEF r
    <3> QED BY <2>2, <3>1 DEF Steady
  <2> QED BY <2>1, <2>2 DEF Steady
<1>3. ASSUME NEW j \in Nat
      PROVE  Steady(q, 0, j) <=> (Steady(q, 1, j) /\ (j > 0 /\ IsList(q[1]) => ~q[1].changed))
  <2>1. \A k \in DOMAIN q : (0 < k /\ k <= j) <=> ((1 < k /\ k <= j) \/ (k = 1 /\ j > 0))
    BY <1>1
  <2> QED BY <1>1, <2>1 DEF Steady
<1> QED BY <1>2, <1>3 DEF r

LEMMA InStepTail ==
  ASSUME NEW q \in Seq(DownMessage), q # <<>>, NEW v, NEW n, NEW mem, InStep(q, v, n, mem)
  PROVE  /\ ~IsList(Head(q)) => InStep(Tail(q), v, n, mem)
         /\ IsList(Head(q)) =>
              InStep(Tail(q), IF Head(q).changed \/ v = {} THEN Head(q).members ELSE v, n, mem)
<1> DEFINE r == Tail(q)
<1>1. /\ Len(q) \in Nat \ {0} /\ DOMAIN q = 1 .. Len(q) /\ DOMAIN r = 1 .. Len(q) - 1
      /\ \A i \in 1 .. Len(q) - 1 : r[i] = q[i + 1]
      /\ Head(q) = q[1]
  BY TailPlaces
<1>2. Len(r) = Len(q) - 1 /\ Len(r) \in Nat
  OBVIOUS
<1>3. /\ \A i \in Nat, j \in Nat : Steady(r, i, j) <=> Steady(q, i + 1, j + 1)
      /\ \A j \in Nat : Steady(q, 0, j) <=> (Steady(q, 1, j) /\ (j > 0 /\ IsList(q[1]) => ~q[1].changed))
  BY SteadyTail
<1> HIDE DEF r
<1>4. \A i \in DOMAIN r : i \in Nat /\ i + 1 \in DOMAIN q /\ r[i] = q[i + 1] /\ 1 < i + 1 /\ i + 1 > 0
  BY <1>1
<1>5. ASSUME NEW i \in DOMAIN r, NEW j \in DOMAIN r, i < j, IsList(r[i]), IsList(r[j]), Steady(r, i, j)
      PROVE  r[i].members = r[j].members
  <2>0. i \in Nat /\ j \in Nat /\ i + 1 < j + 1
    BY <1>4, <1>5
  <2>1. Steady(q, i + 1, j + 1)
    BY <1>3, <1>5, <2>0
  <2> QED BY <1>4, <1>5, <2>0, <2>1 DEF InStep
<1>6. ASSUME NEW i \in DOMAIN r, IsList(r[i]), Steady(r, i, Len(r)), n # "changed" PROVE r[i].members = mem
  <2>1. Steady(q, i + 1, Len(q))
    BY <1>1, <1>2, <1>3, <1>4, <1>6
  <2> QED BY <1>4, <1>6, <2>1 DEF InStep
<1>7. ASSUME NEW j \in DOMAIN r, IsList(r[j]), Steady(r, 0, j) PROVE Steady(q, 1, j + 1)
  BY <1>3, <1>4, <1>7
<1>8. Steady(r, 0, Len(r)) => Steady(q, 1, Len(q))
  BY <1>1, <1>2, <1>3
<1>9. ASSUME ~IsList(Head(q)) PROVE InStep(r, v, n, mem)
  <2>1. ASSUME NEW j \in DOMAIN r, IsList(r[j]), Steady(r, 0, j) PROVE v \in {{}, r[j].members}
    <3>0. j \in Nat /\ j + 1 \in Nat /\ IsList(q[j + 1]) /\ Steady(q, 1, j + 1) /\ ~IsList(q[1])
      BY <1>1, <1>4, <1>7, <1>9, <2>1
    <3>1. Steady(q, 0, j + 1) /\ IsList(q[j + 1])
      BY <1>3, <3>0
    <3> QED BY <1>4, <3>1 DEF InStep
  <2>2. ASSUME Steady(r, 0, Len(r)), n # "changed" PROVE v \in {{}, mem}
    <3>1. Steady(q, 0, Len(q))
      BY <1>1, <1>3, <1>8, <1>9, <2>2
    <3> QED BY <2>2, <3>1 DEF InStep
  <2> QED BY <1>5, <1>6, <2>1, <2>2 DEF InStep
<1>10. ASSUME IsList(Head(q))
       PROVE  InStep(r, IF Head(q).changed \/ v = {} THEN Head(q).members ELSE v, n, mem)
  <2> DEFINE w == IF Head(q).changed \/ v = {} THEN Head(q).members ELSE v
  <2>1. ASSUME NEW j \in DOMAIN r, IsList(r[j]), Steady(r, 0, j) PROVE w \in {{}, r[j].members}
    <3>1. CASE Head(q).changed \/ v = {}
      <4>1. Steady(q, 1, j + 1) /\ 1 \in DOMAIN q /\ j + 1 \in DOMAIN q /\ 1 < j + 1 /\ IsList(q[j + 1])
        BY <1>1, <1>4, <1>7, <2>1
      <4>2. q[1].members = q[j + 1].members
        BY <1>1, <1>10, <4>1 DEF InStep
      <4> QED BY <1>1, <1>4, <3>1, <4>2
    <3>2. CASE ~(Head(q).changed \/ v = {})
      <4>0. j \in Nat /\ j + 1 \in Nat /\ IsList(q[j + 1]) /\ Steady(q, 1, j + 1) /\ ~q[1].changed
        BY <1>1, <1>4, <1>7, <2>1, <3>2
      <4>1. Steady(q, 0, j + 1) /\ IsList(q[j + 1])
        BY <1>3, <4>0
      <4> QED BY <1>4, <3>2, <4>1 DEF InStep
    <3> QED BY <3>1, <3>2
  <2>2. ASSUME Steady(r, 0, Len(r)), n # "changed" PROVE w \in {{}, mem}
    <3>1. CASE Head(q).changed \/ v = {}
      <4>1. q[1].members = mem
        BY <1>1, <1>8, <1>10, <2>2 DEF InStep
      <4> QED BY <1>1, <3>1, <4>1
    <3>2. CASE ~(Head(q).changed \/ v = {})
      <4>1. Steady(q, 0, Len(q))
        BY <1>1, <1>3, <1>8, <2>2, <3>2
      <4> QED BY <2>2, <3>2, <4>1 DEF InStep
    <3> QED BY <3>1, <3>2
  <2> HIDE DEF w
  <2>3. InStep(r, w, n, mem)
    BY <1>5, <1>6, <2>1, <2>2 DEF InStep
  <2> QED BY <2>3 DEF w
<1> QED BY <1>9, <1>10 DEF r

LEMMA InStepAppend ==
  ASSUME NEW q \in Seq(DownMessage), NEW x \in DownMessage, NEW v, NEW n, NEW mem, InStep(q, v, n, mem)
  PROVE  /\ ~IsList(x) => InStep(Append(q, x), v, n, mem)
         /\ (IsList(x) /\ (x.changed <=> n = "changed") /\ x.members = mem) => InStep(Append(q, x), v, "no", mem)
<1> DEFINE r == Append(q, x)
           N == Len(q)
<1>1. /\ N \in Nat /\ DOMAIN q = 1 .. N /\ DOMAIN r = 1 .. N + 1
      /\ \A i \in 1 .. N : r[i] = q[i]
      /\ r[N + 1] = x
  BY AppendPlaces
<1>2. Len(r) = N + 1
  OBVIOUS
<1> HIDE DEF r, N
<1>3. \A i \in DOMAIN r :
        \/ i \in DOMAIN q /\ r[i] = q[i] /\ i <= N /\ i \in Nat
        \/ i = N + 1 /\ r[i] = x
  <2> SUFFICES ASSUME NEW i \in DOMAIN r
               PROVE  \/ i \in DOMAIN q /\ r[i] = q[i] /\ i <= N /\ i \in Nat
                      \/ i = N + 1 /\ r[i] = x
    OBVIOUS
  <2>1. i \in 1 .. N + 1
    BY <1>1
  <2>2. CASE i = N + 1
    BY <1>1, <2>2
  <2>3. CASE i # N + 1
    <3>1. i \in 1 .. N /\ i <= N /\ i \in Nat
      BY <1>1, <2>1, <2>3
    <3> QED BY <1>1, <3>1
  <2> QED BY <2>2, <2>3
<1>4. ASSUME NEW i \in Nat, NEW j \in Nat, j <= N PROVE Steady(r, i, j) <=> Steady(q, i, j)
  <2>1. \A k \in DOMAIN r : k <= j => k \in DOMAIN q /\ r[k] = q[k]
    BY <1>1, <1>4
  <2>2. \A k \in DOMAIN q : k \in DOMAIN r /\ r[k] = q[k]
    BY <1>1
  <2> QED BY <2>1, <2>2 DEF Steady
<1>5. ASSUME NEW i \in Nat, i <= N
      PROVE  Steady(r, i, N + 1) <=> (Steady(q, i, N) /\ (IsList(x) => ~x.changed))
  <2>1. \A k \in DOMAIN r : (i < k /\ k <= N + 1) <=> ((i < k /\ k <= N) \/ k = N + 1)
    BY <1>1, <1>5
  <2>2. Steady(r, i, N + 1) <=> (Steady(r, i, N) /\ (IsList(x) => ~x.changed))
    BY <1>1, <2>1 DEF Steady
  <2> QED BY <1>1, <1>4, <1>5, <2>2
<1>6. ASSUME ~IsList(x) PROVE InStep(r, v, n, mem)
  <2>1. \A i \in DOMAIN r : IsList(r[i]) => i \in DOMAIN q /\ r[i] = q[i] /\ i <= N /\ i \in Nat
    BY <1>3, <1>6
  <2>2. ASSUME NEW i \in DOMAIN r, NEW j \in DOMAIN r, i < j, IsList(r[i]), IsList(r[j]), Steady(r, i, j)
        PROVE  r[i].members = r[j].members
    BY <1>4, <2>1, <2>2 DEF InStep
  <2>3. ASSUME NEW j \in DOMAIN r, IsList(r[j]), Steady(r, 0, j) PROVE v \in {{}, r[j].members}
    BY <1>4, <2>1, <2>3 DEF InStep
  <2>4. ASSUME NEW i \in DOMAIN r, IsList(r[i]), Steady(r, i, Len(r)), n # "changed" PROVE r[i].members = mem
    <3>1. Steady(q, i, Len(q))
      BY <1>2, <1>5, <2>1, <2>4 DEF N
    <3> QED BY <2>1, <2>4, <3>1 DEF InStep
  <2>5. ASSUME Steady(r, 0, Len(r)), n # "changed" PROVE v \in {{}, mem}
    <3>1. Steady(q, 0, Len(q))
      BY <1>1, <1>2, <1>5, <2>5 DEF N
    <3> QED BY <2>5, <3>1 DEF InStep
  <2> QED BY <2>2, <2>3, <2>4, <2>5 DEF InStep
<1>7. ASSUME IsList(x), x.changed <=> n = "changed", x.members = mem PROVE InStep(r, v, "no", mem)
  <2>1. ASSUME NEW i \in DOMAIN r, NEW j \in DOMAIN r, i < j, IsList(r[i]), IsList(r[j]), Steady(r, i, j)
        PROVE  r[i].members = r[j].members
    <3>1. i \in DOMAIN q /\ r[i] = q[i] /\ i <= N /\ i \in Nat
      BY <1>1, <2>1
    <3>2. CASE j \in DOMAIN q /\ r[j] = q[j] /\ j <= N /\ j \in Nat
      BY <1>4, <2>1, <3>1, <3>2 DEF InStep
    <3>3. CASE j = N + 1 /\ r[j] = x
      <4>1. Steady(q, i, Len(q)) /\ n # "changed"
        BY <1>5, <1>7, <2>1, <3>1, <3>3 DEF N
      <4> QED BY <1>7, <2>1, <3>1, <3>3, <4>1 DEF InStep
    <3> QED BY <1>3, <3>2, <3>3
  <2>2. ASSUME NEW j \in DOMAIN r, IsList(r[j]), Steady(r, 0, j) PROVE v \in {{}, r[j].members}
    <3>1. CASE j \in DOMAIN q /\ r[j] = q[j] /\ j <= N /\ j \in Nat
      BY <1>4, <2>2, <3>1 DEF InStep
    <3>2. CASE j = N + 1 /\ r[j] = x
      <4>1. Steady(q, 0, Len(q)) /\ n # "changed"
        BY <1>1, <1>5, <1>7, <2>2, <3>2 DEF N
      <4> QED BY <1>7, <3>2, <4>1 DEF InStep
    <3> QED BY <1>3, <3>1, <3>2
  <2>3. ASSUME NEW i \in DOMAIN r, IsList(r[i]), Steady(r, i, Len(r)) PROVE r[i].members = mem
    <3>1. CASE i \in DOMAIN q /\ r[i] = q[i] /\ i <= N /\ i \in Nat
      <4>1. Steady(q, i, Len(q)) /\ n # "changed"
        BY <1>2, <1>5, <1>7, <2>3, <3>1 DEF N
      <4> QED BY <2>3, <3>1, <4>1 DEF InStep
    <3>2. CASE i = N + 1 /\ r[i] = x
      BY <1>7, <3>2
    <3> QED BY <1>3, <3>1, <3>2
  <2>4. ASSUME Steady(r, 0, Len(r)) PROVE v \in {{}, mem}
    <3>1. Steady(q, 0, Len(q)) /\ n # "changed"
      BY <1>1, <1>2, <1>5, <1>7, <2>4 DEF N
    <3> QED BY <3>1 DEF InStep
  <2> QED BY <2>1, <2>2, <2>3, <2>4 DEF InStep
<1> QED BY <1>6, <1>7 DEF r

LEMMA InStepOther ==
  ASSUME NEW q, NEW v, NEW n, NEW mem, InStep(q, v, n, mem)
  PROVE  /\ \A k : (k # "changed" => n # "changed") => InStep(q, v, k, mem)
         /\ \A new : InStep(q, v, "changed", new)
BY DEF InStep

LEMMA InStepEmpty == ASSUME NEW n, NEW mem PROVE InStep(<<>>, {}, n, mem)
BY DEF InStep

Pipeline == \A a \in Alive : InStep(down[a], view[a], notify[home[a]], members[home[a]])

(* Agents that did not start yet, and those that went.                     *)
Lives ==
  /\ \A a \in Agent : phase[a] = "out" =>
       /\ ~stopping[a] /\ view[a] = {} /\ held[a] = {} /\ moves[a] = {} /\ acks[a] = 0
       /\ up[a] = <<>> /\ down[a] = <<>>
  /\ \A a \in Agent : phase[a] = "gone" => stopping[a] /\ acks[a] = 0 /\ nE[a] = 0

(* Outside of load balancing an agent has what it owns, by its list.       *)
Owned ==
  \A a \in Agent : phase[a] \notin {"balance", "hold", "gone", "thrown"} =>
    \A c \in held[a] : Owner(view[a], c) = a

Course == Books /\ Lives /\ Pipeline /\ Owned

LEMMA HomeType == ASSUME Types PROVE \A a \in Agent : home[a] \in Directory
BY DEF Types, EnvTypes

LEMMA MoveAwayLeaves ==
  ASSUME Types, NEW a \in Agent, NEW mem \in SUBSET Member, NEW ph \in Phase, MoveAway(a, mem, ph)
  PROVE  /\ \A b \in Agent \ {a} : /\ phase'[b] = phase[b] /\ held'[b] = held[b] /\ moves'[b] = moves[b]
                                   /\ acks'[b] = acks[b] /\ nE'[b] = nE[b]
         /\ phase'[a] \in {"moving", ph} /\ moves'[a] = {}
         /\ held'[a] = held[a] \ Lost(a, mem)
         /\ \A c : c \in held'[a] <=> c \in held[a] /\ Owner(mem, c) = a
         /\ acks'[a] = acks[a] + Cardinality(Receiving(Outgoing(a, mem)))
         /\ phase'[a] = IF acks'[a] # 0 THEN "moving" ELSE ph
<1> DEFINE n == Cardinality(Receiving(Outgoing(a, mem)))
           k == InCount(Lost(a, mem))
<1>1. /\ held' = [held EXCEPT ![a] = held[a] \ Lost(a, mem)]
      /\ nE' = [nE EXCEPT ![a] = nE[a] - k]
      /\ moves' = [moves EXCEPT ![a] = {}]
      /\ acks' = [acks EXCEPT ![a] = acks[a] + n]
      /\ phase' = [phase EXCEPT ![a] = IF acks[a] + n # 0 THEN "moving" ELSE ph]
  BY MoveAwayStep
<1> HIDE DEF n, k
<1>2. held'[a] = held[a] \ Lost(a, mem)
  BY <1>1 DEF Types, AgentTypes
<1>3. \A c : c \in held'[a] <=> c \in held[a] /\ Owner(mem, c) = a
  BY <1>2 DEF Lost
<1>4. acks'[a] = acks[a] + n /\ phase'[a] = IF acks'[a] # 0 THEN "moving" ELSE ph
  BY <1>1 DEF Types, AgentTypes
<1>5. moves'[a] = {}
  BY <1>1 DEF Types, AgentTypes
<1>6. \A b \in Agent \ {a} : /\ phase'[b] = phase[b] /\ held'[b] = held[b] /\ moves'[b] = moves[b]
                             /\ acks'[b] = acks[b] /\ nE'[b] = nE[b]
  BY <1>1 DEF Types, AgentTypes
<1> QED BY <1>2, <1>3, <1>4, <1>5, <1>6 DEF n

(* Who takes its next publication stays alive, but for a SIMPLE_SYNC_DONE  *)
(* too early.                                                              *)
LEMMA TakenDown ==
  ASSUME Types, Accounts, NEW a \in Agent, RecvDown(a)
  PROVE  /\ a \in Alive /\ down[a] # <<>> /\ down' = [down EXCEPT ![a] = Tail(down[a])]
         /\ Head(down[a]) \in DownMessage
         /\ UNCHANGED <<stopping, dirVars, link, envVars>>
         /\ \A b \in Agent \ {a} : /\ phase'[b] = phase[b] /\ held'[b] = held[b] /\ moves'[b] = moves[b]
                                   /\ acks'[b] = acks[b] /\ nE'[b] = nE[b] /\ up'[b] = up[b]
                                   /\ view'[b] = view[b] /\ down'[b] = down[b] /\ vcount'[b] = vcount[b]
         /\ phase'[a] \notin {"out", "gone"}
         /\ Alive' \subseteq Alive
         /\ IsList(Head(down[a])) =>
              view'[a] = IF Head(down[a]).changed \/ view[a] = {} THEN Head(down[a]).members ELSE view[a]
         /\ ~IsList(Head(down[a])) => view'[a] = view[a]
<1>0. down[a] \in Seq(DownMessage) /\ a \in Agent /\ phase[a] \in Phase
  BY DEF Types, NetTypes, AgentTypes
<1>1. CASE RecvDirectory(a)
  <2> DEFINE m == Head(down[a])
  <2>1. /\ a \in Alive /\ down[a] # <<>> /\ m \in ListMessage /\ m.members \in SUBSET Member
        /\ m.type = "DIRECTORY_UPDATE"
        /\ view' = [view EXCEPT ![a] = IF m.changed \/ view[a] = {} THEN m.members ELSE view[a]]
        /\ down' = [down EXCEPT ![a] = Tail(down[a])]
        /\ UNCHANGED <<vcount, stopping, dirVars, link, envVars>>
        /\ \/ UNCHANGED <<phase, held, nE, moves, acks, up, peer>>
           \/ /\ phase' = [phase EXCEPT ![a] = "hold"]
              /\ up' = Tell(a, <<Plain("SIMPLE_SYNC")>>)
              /\ UNCHANGED <<held, nE, moves, acks, peer>>
           \/ /\ phase[a] \notin {"balance", "hold"}
              /\ MoveAway(a, m.members, phase[a]) /\ UNCHANGED up
    BY <1>1, RecvDirectoryCases
  <2> HIDE DEF m
  <2>2. \A b \in Agent \ {a} : view'[b] = view[b] /\ down'[b] = down[b] /\ vcount'[b] = vcount[b]
    BY <2>1 DEF Types, NetTypes, AgentTypes
  <2>3. /\ \A b \in Agent \ {a} : /\ phase'[b] = phase[b] /\ held'[b] = held[b] /\ moves'[b] = moves[b]
                                  /\ acks'[b] = acks[b] /\ nE'[b] = nE[b] /\ up'[b] = up[b]
        /\ phase'[a] \notin {"out", "gone"}
    <3>1. CASE UNCHANGED <<phase, held, nE, moves, acks, up, peer>>
      BY <2>1, <3>1, AliveAgent
    <3>2. CASE /\ phase' = [phase EXCEPT ![a] = "hold"]
               /\ up' = Tell(a, <<Plain("SIMPLE_SYNC")>>)
               /\ UNCHANGED <<held, nE, moves, acks, peer>>
      BY <3>2 DEF Tell, Types, AgentTypes, NetTypes
    <3>3. CASE MoveAway(a, m.members, phase[a]) /\ UNCHANGED up
      <4>1. /\ \A b \in Agent \ {a} : /\ phase'[b] = phase[b] /\ held'[b] = held[b] /\ moves'[b] = moves[b]
                                      /\ acks'[b] = acks[b] /\ nE'[b] = nE[b]
            /\ phase'[a] \in {"moving", phase[a]}
        BY <1>0, <2>1, <3>3, MoveAwayLeaves
      <4> QED BY <2>1, <3>3, <4>1, AliveAgent
    <3> QED BY <2>1, <3>1, <3>2, <3>3
  <2>4. Alive' \subseteq Alive
    BY <2>1, <2>3, AliveAgent DEF Alive
  <2>5. view'[a] = IF m.changed \/ view[a] = {} THEN m.members ELSE view[a]
    BY <2>1 DEF Types, AgentTypes
  <2>6. m \in DownMessage
    BY <2>1 DEF DownMessage
  <2> QED BY <2>1, <2>2, <2>3, <2>4, <2>5, <2>6 DEF m, IsList
<1>2. CASE RecvSyncDone(a)
  <2>1. /\ a \in Alive /\ down[a] # <<>> /\ Head(down[a]).type = "SIMPLE_SYNC_DONE"
        /\ view[a] \in SUBSET Member
        /\ down' = [down EXCEPT ![a] = Tail(down[a])]
        /\ UNCHANGED <<view, vcount, stopping, up, link, dirVars, envVars>>
        /\ \/ MoveAway(a, view[a], "idle")
           \/ phase' = [phase EXCEPT ![a] = "thrown"] /\ UNCHANGED <<held, nE, moves, acks, peer>>
    BY <1>2, RecvSyncDoneCases
  <2>2. \A b \in Agent \ {a} : down'[b] = down[b]
    BY <2>1 DEF Types, NetTypes
  <2>3. /\ \A b \in Agent \ {a} : /\ phase'[b] = phase[b] /\ held'[b] = held[b] /\ moves'[b] = moves[b]
                                  /\ acks'[b] = acks[b] /\ nE'[b] = nE[b]
        /\ phase'[a] \notin {"out", "gone"}
    <3>1. CASE MoveAway(a, view[a], "idle")
      <4>1. "idle" \in Phase
        BY DEF Phase
      <4>2. /\ \A b \in Agent \ {a} : /\ phase'[b] = phase[b] /\ held'[b] = held[b] /\ moves'[b] = moves[b]
                                      /\ acks'[b] = acks[b] /\ nE'[b] = nE[b]
            /\ phase'[a] \in {"moving", "idle"}
        BY <2>1, <3>1, <4>1, MoveAwayLeaves
      <4> QED BY <4>2
    <3>2. CASE phase' = [phase EXCEPT ![a] = "thrown"] /\ UNCHANGED <<held, nE, moves, acks, peer>>
      BY <3>2 DEF Types, AgentTypes
    <3> QED BY <2>1, <3>1, <3>2
  <2>4. Alive' \subseteq Alive
    BY <2>1, <2>3, AliveAgent DEF Alive
  <2>5. Head(down[a]) \in DownMessage
    BY <1>0, <2>1, TailPlaces
  <2> QED BY <2>1, <2>2, <2>3, <2>4, <2>5 DEF IsList
<1>3. CASE RecvVa(a)
  <2>1. /\ a \in Alive /\ down[a] # <<>> /\ Head(down[a]).type = "DO_VA"
        /\ down' = [down EXCEPT ![a] = Tail(down[a])]
        /\ phase' = [phase EXCEPT ![a] = "balance"]
        /\ UNCHANGED <<view, held, moves, acks, nE, stopping, dirVars, link, peer, envVars>>
        /\ \/ \E n \in 1 .. VAgents :
                /\ up' = Tell(a, <<Leave(a, vcount[a]), Join(a, n)>>)
                /\ vcount' = [vcount EXCEPT ![a] = n]
           \/ UNCHANGED <<up, vcount>>
    BY <1>3, RecvVaCases
  <2>2. \A b \in Agent \ {a} : up'[b] = up[b] /\ vcount'[b] = vcount[b]
    <3>1. CASE UNCHANGED <<up, vcount>>
      BY <3>1
    <3>2. ASSUME NEW n \in 1 .. VAgents, up' = Tell(a, <<Leave(a, vcount[a]), Join(a, n)>>),
                 vcount' = [vcount EXCEPT ![a] = n]
          PROVE  \A b \in Agent \ {a} : up'[b] = up[b] /\ vcount'[b] = vcount[b]
      BY <3>2 DEF Tell, Types, NetTypes, AgentTypes
    <3> QED BY <2>1, <3>1, <3>2
  <2>3. \A b \in Agent \ {a} : phase'[b] = phase[b] /\ down'[b] = down[b]
    BY <2>1 DEF Types, AgentTypes, NetTypes
  <2>4. phase'[a] = "balance"
    BY <2>1 DEF Types, AgentTypes
  <2>5. Alive' \subseteq Alive
    BY <2>1, <2>3, AliveAgent DEF Alive
  <2>6. Head(down[a]) \in DownMessage
    BY <1>0, <2>1, TailPlaces
  <2> QED BY <2>1, <2>2, <2>3, <2>4, <2>5, <2>6 DEF IsList
<1>4. CASE RecvCsLb(a)
  <2>1. /\ a \in Alive /\ down[a] # <<>> /\ Head(down[a]).type = "DO_CS_LB"
        /\ down' = [down EXCEPT ![a] = Tail(down[a])]
        /\ phase' = [phase EXCEPT ![a] = "balance"]
        /\ up' = Tell(a, <<Plain("CS_UPDATE")>>)
        /\ UNCHANGED <<view, vcount, held, moves, acks, nE, stopping, dirVars, link, peer, envVars>>
    BY <1>4 DEF RecvCsLb
  <2>2. \A b \in Agent \ {a} : up'[b] = up[b]
    BY <2>1 DEF Tell, Types, NetTypes
  <2>3. \A b \in Agent \ {a} : phase'[b] = phase[b] /\ down'[b] = down[b]
    BY <2>1 DEF Types, AgentTypes, NetTypes
  <2>4. phase'[a] = "balance"
    BY <2>1 DEF Types, AgentTypes
  <2>5. Alive' \subseteq Alive
    BY <2>1, <2>3, AliveAgent DEF Alive
  <2>6. Head(down[a]) \in DownMessage
    BY <1>0, <2>1, TailPlaces
  <2> QED BY <2>1, <2>2, <2>3, <2>4, <2>5, <2>6 DEF IsList
<1> QED BY <1>1, <1>2, <1>3, <1>4 DEF RecvDown

LEMMA PipelineUntouched ==
  ASSUME Pipeline, Alive' \subseteq Alive, UNCHANGED <<view, down, notify, members, home>>
  PROVE  Pipeline'
BY DEF Pipeline

LEMMA PipelineDown ==
  ASSUME Types, Accounts, Pipeline, NEW a \in Agent, RecvDown(a) PROVE Pipeline'
<1>1. /\ a \in Alive /\ down[a] # <<>> /\ down' = [down EXCEPT ![a] = Tail(down[a])]
      /\ UNCHANGED <<notify, members, home>>
      /\ \A b \in Agent \ {a} : view'[b] = view[b] /\ down'[b] = down[b]
      /\ Alive' \subseteq Alive
      /\ IsList(Head(down[a])) =>
           view'[a] = IF Head(down[a]).changed \/ view[a] = {} THEN Head(down[a]).members ELSE view[a]
      /\ ~IsList(Head(down[a])) => view'[a] = view[a]
  BY TakenDown DEF dirVars, envVars
<1>2. down[a] \in Seq(DownMessage) /\ down'[a] = Tail(down[a])
  BY <1>1 DEF Types, NetTypes
<1>3. InStep(down'[a], view'[a], notify[home[a]], members[home[a]])
  <2>1. InStep(down[a], view[a], notify[home[a]], members[home[a]])
    BY <1>1 DEF Pipeline
  <2>2. CASE ~IsList(Head(down[a]))
    BY <1>1, <1>2, <2>1, <2>2, InStepTail
  <2>3. CASE IsList(Head(down[a]))
    BY <1>1, <1>2, <2>1, <2>3, InStepTail
  <2> QED BY <2>2, <2>3
<1>4. ASSUME NEW b \in Alive' PROVE InStep(down'[b], view'[b], notify'[home'[b]], members'[home'[b]])
  <2>1. CASE b = a
    BY <1>1, <1>3, <2>1
  <2>2. CASE b # a
    <3>1. b \in Alive /\ b \in Agent
      BY <1>1 DEF Alive
    <3>2. InStep(down[b], view[b], notify[home[b]], members[home[b]])
      BY <3>1 DEF Pipeline
    <3> QED BY <1>1, <2>2, <3>1, <3>2
  <2> QED BY <2>1, <2>2
<1> QED BY <1>4 DEF Pipeline

(* A directory changes its list, or what it will publish.                  *)
LEMMA PipelineDirectory ==
  ASSUME Types, Pipeline, NEW d \in Directory, Alive' = Alive, UNCHANGED <<view, home>>,
         \A e \in Directory \ {d} : members'[e] = members[e] /\ notify'[e] = notify[e],
         \/ notify'[d] = "changed"
         \/ members'[d] = members[d] /\ (notify'[d] # "changed" => notify[d] # "changed"),
         \A a \in Alive : \/ down'[a] = down[a]
                          \/ \E x \in DownMessage : ~IsList(x) /\ down'[a] = Append(down[a], x)
  PROVE  Pipeline'
<1> SUFFICES ASSUME NEW a \in Alive PROVE InStep(down'[a], view[a], notify'[home[a]], members'[home[a]])
  BY DEF Pipeline
<1>1. a \in Agent /\ home[a] \in Directory /\ down[a] \in Seq(DownMessage)
  BY AliveAgent, HomeType DEF Types, NetTypes
<1>2. InStep(down[a], view[a], notify[home[a]], members[home[a]])
  BY DEF Pipeline
<1>3. InStep(down[a], view[a], notify'[home[a]], members'[home[a]])
  <2>1. CASE home[a] = d
    <3>1. CASE notify'[d] = "changed"
      BY <1>2, <2>1, <3>1, InStepOther
    <3>2. CASE members'[d] = members[d] /\ (notify'[d] # "changed" => notify[d] # "changed")
      BY <1>2, <2>1, <3>2, InStepOther
    <3> QED BY <3>1, <3>2
  <2>2. CASE home[a] # d
    BY <1>1, <1>2, <2>2
  <2> QED BY <2>1, <2>2
<1>4. CASE down'[a] = down[a]
  BY <1>3, <1>4
<1>5. ASSUME NEW x \in DownMessage, ~IsList(x), down'[a] = Append(down[a], x)
      PROVE  InStep(down'[a], view[a], notify'[home[a]], members'[home[a]])
  BY <1>1, <1>3, <1>5, InStepAppend
<1> QED BY <1>4, <1>5

LEMMA ChangeMembersTold ==
  ASSUME Types, NEW d \in Directory, NEW m, NEW net, ChangeMembers(d, m, net)
  PROVE  /\ \A e \in Directory \ {d} : members'[e] = members[e] /\ notify'[e] = notify[e]
         /\ \/ notify'[d] = "changed" \/ UNCHANGED <<members, notify>>
         /\ members'[d] = Changed(d, m)
         /\ members'[d] # members[d] => notify'[d] = "changed" /\ link' = ToPeers(d, m, net)
         /\ members'[d] = members[d] => link' = net /\ notify' = notify
<1>1. \/ Changed(d, m) = members[d] /\ link' = net /\ UNCHANGED <<members, notify>>
      \/ /\ Changed(d, m) # members[d]
         /\ members' = [members EXCEPT ![d] = Changed(d, m)]
         /\ notify' = [notify EXCEPT ![d] = "changed"]
         /\ link' = ToPeers(d, m, net)
  BY DEF ChangeMembers, Changed
<1> QED BY <1>1 DEF Types, DirTypes

(* A message from an agent.                                                *)
LEMMA ToAgentsTold ==
  ASSUME Types, NEW d \in Directory, NEW m
  PROVE  \A a \in Agent : ToAgents(d, m)[a] = IF home[a] = d /\ a \in Alive THEN Append(down[a], m) ELSE down[a]
BY DEF ToAgents

LEMMA PipelineFromAgent ==
  ASSUME Types, Pipeline, NEW a \in Agent, FromAgent(a) PROVE Pipeline'
<1> DEFINE m == Head(up[a])
           d == home[a]
<1>1. d \in Directory /\ UNCHANGED <<agentVars, peer, envVars>>
  BY FromAgentCases
<1>2. /\ \A e \in Directory \ {d} : members'[e] = members[e] /\ notify'[e] = notify[e]
      /\ \/ notify'[d] = "changed"
         \/ members'[d] = members[d] /\ (notify'[d] # "changed" => notify[d] # "changed")
      /\ down' = down \/ down' = ToAgents(d, Plain("SIMPLE_SYNC_DONE"))
  <2>1. CASE ChangeMembers(d, m, link) /\ down' = down
    <3> HIDE DEF d, m
    <3> QED BY <1>1, <2>1, ChangeMembersTold
  <2>2. CASE /\ notify' = [notify EXCEPT ![d] = IF notify[d] = "no" THEN "same" ELSE notify[d]]
             /\ UNCHANGED <<members, down>>
    <3> HIDE DEF d
    <3> QED BY <1>1, <2>2 DEF Types, DirTypes
  <2>3. CASE /\ notify' = [notify EXCEPT ![d] = "changed"] /\ members' = members
             /\ down' = down \/ down' = ToAgents(d, Plain("SIMPLE_SYNC_DONE"))
    <3> HIDE DEF d
    <3> QED BY <1>1, <2>3 DEF Types, DirTypes
  <2>4. CASE UNCHANGED <<notify, members, down>>
    BY <1>1, <2>4
  <2> QED BY <2>1, <2>2, <2>3, <2>4, FromAgentCases
<1> HIDE DEF d, m
<1>3. \A b \in Alive : \/ down'[b] = down[b]
                       \/ \E x \in DownMessage : ~IsList(x) /\ down'[b] = Append(down[b], x)
  <2>1. Plain("SIMPLE_SYNC_DONE") \in DownMessage /\ ~IsList(Plain("SIMPLE_SYNC_DONE"))
    BY DEF Plain, DownMessage, IsList
  <2>2. \A b \in Alive : ToAgents(d, Plain("SIMPLE_SYNC_DONE"))[b] \in {down[b], Append(down[b], Plain("SIMPLE_SYNC_DONE"))}
    BY <1>1, ToAgentsTold, AliveAgent
  <2> QED BY <1>2, <2>1, <2>2
<1>4. Alive' = Alive /\ UNCHANGED <<view, home>>
  BY <1>1 DEF Alive, agentVars, envVars
<1> QED BY <1>1, <1>2, <1>3, <1>4, PipelineDirectory

LEMMA PipelineFromPeer ==
  ASSUME Types, Pipeline, NEW d \in Directory, NEW e \in Directory, FromPeer(d, e) PROVE Pipeline'
<1> DEFINE m == Head(link[e][d])
           net == [link EXCEPT ![e][d] = Tail(link[e][d])]
<1>1. /\ UNCHANGED <<agentVars, syncs, sketches, up, down, peer, envVars>>
      /\ UNCHANGED <<members, notify>> \/ ChangeMembers(d, m, net)
  BY FromPeerCases
<1> HIDE DEF m, net
<1>2. /\ \A x \in Directory \ {d} : members'[x] = members[x] /\ notify'[x] = notify[x]
      /\ \/ notify'[d] = "changed"
         \/ members'[d] = members[d] /\ (notify'[d] # "changed" => notify[d] # "changed")
  BY <1>1, ChangeMembersTold
<1>3. Alive' = Alive /\ UNCHANGED <<view, home, down>>
  BY <1>1 DEF Alive, agentVars, envVars
<1> QED BY <1>2, <1>3, PipelineDirectory

LEMMA PipelineHeartbeat ==
  ASSUME Types, Pipeline, NEW d \in Directory, Heartbeat(d) PROVE Pipeline'
<1>1. /\ notify' = [notify EXCEPT ![d] = "no"]
      /\ down' = ToAgents(d, Published(d)) /\ Published(d) \in ListMessage
      /\ UNCHANGED <<agentVars, members, syncs, sketches, ready, up, link, peer, envVars>>
  BY HeartbeatCases
<1>2. Alive' = Alive /\ UNCHANGED <<view, home>>
  BY <1>1 DEF Alive, agentVars, envVars
<1> SUFFICES ASSUME NEW a \in Alive PROVE InStep(down'[a], view[a], notify'[home[a]], members[home[a]])
  BY <1>1, <1>2 DEF Pipeline
<1>3. a \in Agent /\ home[a] \in Directory /\ down[a] \in Seq(DownMessage)
  BY AliveAgent, HomeType DEF Types, NetTypes
<1>4. InStep(down[a], view[a], notify[home[a]], members[home[a]])
  BY DEF Pipeline
<1>5. CASE home[a] = d
  <2>1. down'[a] = Append(down[a], Published(d)) /\ notify'[d] = "no"
    BY <1>1, <1>3, <1>5, ToAgentsTold DEF Types, DirTypes
  <2>2. /\ Published(d) \in DownMessage /\ IsList(Published(d))
        /\ (Published(d).changed <=> notify[d] = "changed") /\ Published(d).members = members[d]
    BY <1>1 DEF DownMessage, IsList, Published
  <2> QED BY <1>3, <1>4, <1>5, <2>1, <2>2, InStepAppend
<1>6. CASE home[a] # d
  <2>1. down'[a] = down[a] /\ notify'[home[a]] = notify[home[a]]
    BY <1>1, <1>3, <1>6, ToAgentsTold DEF Types, DirTypes
  <2> QED BY <1>4, <2>1
<1> QED BY <1>5, <1>6

LEMMA PipelineCommand ==
  ASSUME Types, Pipeline, Command PROVE Pipeline'
<1>1. /\ UNCHANGED <<agentVars, dirVars, up, link, peer, transposed, home, edges>>
      /\ \E c \in Commands : /\ Order(c) \in DownMessage
                             /\ \A a \in Agent : down'[a] = IF a \in Alive THEN Append(down[a], Order(c)) ELSE down[a]
  BY CommandCases
<1>2. PICK c \in Commands : /\ Order(c) \in DownMessage
                            /\ \A a \in Agent : down'[a] = IF a \in Alive THEN Append(down[a], Order(c)) ELSE down[a]
  BY <1>1
<1>3. ~IsList(Order(c))
  BY DEF Order, Plain, IsList
<1>4. Alive' = Alive /\ UNCHANGED <<view, home, members, notify>>
  BY <1>1 DEF Alive, agentVars, dirVars
<1> SUFFICES ASSUME NEW a \in Alive PROVE InStep(down'[a], view[a], notify[home[a]], members[home[a]])
  BY <1>4 DEF Pipeline
<1>5. a \in Agent /\ down[a] \in Seq(DownMessage)
  BY AliveAgent DEF Types, NetTypes
<1>6. InStep(down[a], view[a], notify[home[a]], members[home[a]])
  BY DEF Pipeline
<1> QED BY <1>2, <1>3, <1>5, <1>6, InStepAppend

LEMMA PipelineStart ==
  ASSUME Types, Lives, Pipeline, NEW a \in Agent, Start(a) PROVE Pipeline'
<1>1. /\ phase[a] = "out" /\ phase' = [phase EXCEPT ![a] = "load"]
      /\ UNCHANGED <<view, down, members, notify, home>>
  BY DEF Start, dirVars
<1>2. view[a] = {} /\ down[a] = <<>>
  BY <1>1 DEF Lives
<1>3. \A b \in Alive' : b = a \/ b \in Alive
  BY <1>1 DEF Alive, Types, AgentTypes
<1>4. InStep(down[a], view[a], notify[home[a]], members[home[a]])
  BY <1>2, InStepEmpty
<1> QED BY <1>1, <1>3, <1>4 DEF Pipeline

LEMMA PipelineNext ==
  ASSUME Books, Lives, Pipeline, [Next]_vars PROVE Pipeline'
<1>1. Types /\ Accounts
  BY DEF Books
<1>2. ASSUME NEW a \in Agent, RecvDown(a) PROVE Pipeline'
  BY <1>1, <1>2, PipelineDown
<1>3. ASSUME NEW a \in Agent, NEW b \in Agent, RecvMoves(a, b) \/ RecvAck(a, b) PROVE Pipeline'
  <2>1. UNCHANGED <<view, down, notify, members, home>>
    BY <1>3 DEF RecvMoves, RecvAck, dirVars, envVars
  <2>2. phase' = phase \/ (phase' = [phase EXCEPT ![a] = "idle"] /\ a \in Alive)
    BY <1>3 DEF RecvMoves, RecvAck
  <2>3. Alive' \subseteq Alive
    BY <1>1, <2>2 DEF Alive, Types, AgentTypes
  <2> QED BY <2>1, <2>3, PipelineUntouched
<1>4. ASSUME NEW a \in Agent, Shutdown(a) PROVE Pipeline'
  <2>1. UNCHANGED <<view, down, notify, members, home>>
    BY <1>4 DEF Shutdown, dirVars, envVars
  <2>2. Alive' \subseteq Alive
    BY <1>1, <1>4 DEF Shutdown, Alive, Types, AgentTypes
  <2> QED BY <2>1, <2>2, PipelineUntouched
<1>5. ASSUME NEW a \in Agent, FromAgent(a) PROVE Pipeline'
  BY <1>1, <1>5, PipelineFromAgent
<1>6. ASSUME NEW d \in Directory, Heartbeat(d) PROVE Pipeline'
  BY <1>1, <1>6, PipelineHeartbeat
<1>7. ASSUME NEW d \in Directory, NEW e \in Directory, FromPeer(d, e) PROVE Pipeline'
  BY <1>1, <1>7, PipelineFromPeer
<1>8. ASSUME NEW a \in Agent, Start(a) PROVE Pipeline'
  BY <1>1, <1>8, PipelineStart
<1>9. ASSUME NEW a \in Agent, Stop(a) PROVE Pipeline'
  BY <1>9, PipelineUntouched DEF Stop, dirVars, netVars, Alive
<1>10. ASSUME NEW a \in Agent, RecvUpdateEdge(a) PROVE Pipeline'
  BY <1>10, PipelineUntouched DEF RecvUpdateEdge, dirVars, netVars, Alive
<1>11. ASSUME Command PROVE Pipeline'
  BY <1>1, <1>11, PipelineCommand
<1>12. ASSUME UNCHANGED vars PROVE Pipeline'
  BY <1>12, PipelineUntouched DEF vars, agentVars, dirVars, netVars, envVars, Alive
<1> QED BY <1>2, <1>3, <1>4, <1>5, <1>6, <1>7, <1>8, <1>9, <1>10, <1>11, <1>12 DEF Next, RecvPeers, Done

(* What one agent does leaves the others as they were.                     *)
LEMMA LivesOne ==
  ASSUME Lives, NEW a \in Agent, a \in Alive, phase'[a] # "out",
         phase'[a] = "gone" => stopping'[a] /\ acks'[a] = 0 /\ nE'[a] = 0,
         \A b \in Agent \ {a} :
           /\ phase'[b] = phase[b] /\ held'[b] = held[b] /\ moves'[b] = moves[b] /\ acks'[b] = acks[b]
           /\ nE'[b] = nE[b] /\ up'[b] = up[b] /\ view'[b] = view[b] /\ down'[b] = down[b]
           /\ stopping'[b] = stopping[b]
  PROVE  Lives'
BY DEF Lives

LEMMA LivesNext ==
  ASSUME Books, Lives, [Next]_vars PROVE Lives'
<1>1. Types /\ Accounts
  BY DEF Books
<1>2. ASSUME NEW a \in Agent, RecvDown(a) PROVE Lives'
  <2>1. /\ a \in Alive /\ stopping' = stopping
        /\ \A b \in Agent \ {a} : /\ phase'[b] = phase[b] /\ held'[b] = held[b] /\ moves'[b] = moves[b]
                                  /\ acks'[b] = acks[b] /\ nE'[b] = nE[b] /\ up'[b] = up[b]
                                  /\ view'[b] = view[b] /\ down'[b] = down[b]
        /\ phase'[a] \notin {"out", "gone"}
    BY <1>1, <1>2, TakenDown
  <2> QED BY <2>1, LivesOne
<1>3. ASSUME NEW a \in Agent, NEW b \in Agent, RecvMoves(a, b) PROVE Lives'
  <2>1. /\ a \in Alive
        /\ \A x \in Agent \ {a} : held'[x] = held[x] /\ moves'[x] = moves[x] /\ acks'[x] = acks[x] /\ nE'[x] = nE[x]
    BY <1>1, <1>3, RecvMovesStep DEF Types, AgentTypes
  <2>2. UNCHANGED <<phase, view, stopping, up, down>>
    BY <1>3 DEF RecvMoves
  <2> QED BY <2>1, <2>2, LivesOne, AliveAgent
<1>4. ASSUME NEW a \in Agent, NEW b \in Agent, RecvAck(a, b) PROVE Lives'
  <2>1. /\ a \in Alive /\ UNCHANGED <<view, held, moves, nE, stopping, down>>
        /\ acks' = [acks EXCEPT ![a] = acks[a] - 1]
        /\ \/ phase' = [phase EXCEPT ![a] = "idle"] /\ UNCHANGED up
           \/ up' = Tell(a, <<Plain("READY_NV_NE")>>) /\ UNCHANGED phase
           \/ UNCHANGED <<phase, up>>
    BY <1>4 DEF RecvAck
  <2>2. \A x \in Agent \ {a} : acks'[x] = acks[x] /\ phase'[x] = phase[x] /\ up'[x] = up[x]
    BY <1>1, <2>1 DEF Tell, Types, AgentTypes, NetTypes
  <2>3. phase'[a] \notin {"out", "gone"}
    BY <1>1, <2>1, AliveAgent DEF Types, AgentTypes
  <2> QED BY <2>1, <2>2, <2>3, LivesOne
<1>5. ASSUME NEW a \in Agent, Shutdown(a) PROVE Lives'
  <2>1. /\ a \in Alive /\ stopping[a] /\ UNCHANGED <<view, held, moves, acks, nE, stopping, down>>
        /\ \/ phase' = [phase EXCEPT ![a] = "gone"] /\ UNCHANGED up /\ nE[a] = 0 /\ acks[a] = 0
           \/ /\ phase' = [phase EXCEPT ![a] = IF phase[a] = "load" THEN "idle" ELSE phase[a]]
              /\ up' = Tell(a, <<Leave(a, vcount[a])>>)
    BY <1>5 DEF Shutdown
  <2>2. \A x \in Agent \ {a} : phase'[x] = phase[x] /\ up'[x] = up[x]
    BY <1>1, <2>1 DEF Tell, Types, AgentTypes, NetTypes
  <2>3. phase'[a] # "out" /\ (phase'[a] = "gone" => nE[a] = 0 /\ acks[a] = 0)
    BY <1>1, <2>1, AliveAgent DEF Types, AgentTypes
  <2> QED BY <2>1, <2>2, <2>3, LivesOne
<1>6. ASSUME NEW a \in Agent, FromAgent(a) PROVE Lives'
  <2> DEFINE d == home[a]
  <2>1. /\ up[a] # <<>> /\ up' = [up EXCEPT ![a] = Tail(up[a])] /\ UNCHANGED <<agentVars, peer, envVars>>
        /\ d \in Directory
        /\ down' = down \/ down' = ToAgents(d, Plain("SIMPLE_SYNC_DONE"))
    BY <1>1, <1>6, FromAgentCases
  <2> HIDE DEF d
  <2>2. \A b \in Agent : phase[b] = "out" => up'[b] = up[b] /\ down'[b] = down[b]
    BY <1>1, <2>1, ToAgentsTold, AliveAgent DEF Lives, Types, NetTypes
  <2> QED BY <2>1, <2>2 DEF Lives, agentVars
<1>7. ASSUME NEW d \in Directory, Heartbeat(d) PROVE Lives'
  <2>1. /\ down' = ToAgents(d, Published(d)) /\ UNCHANGED <<agentVars, up>>
    BY <1>1, <1>7, HeartbeatCases
  <2>2. \A b \in Agent : phase[b] = "out" => down'[b] = down[b]
    BY <1>1, <2>1, ToAgentsTold, AliveAgent
  <2> QED BY <2>1, <2>2 DEF Lives, agentVars
<1>8. ASSUME NEW d \in Directory, NEW e \in Directory, FromPeer(d, e) PROVE Lives'
  BY <1>8 DEF FromPeer, Lives, agentVars
<1>9. ASSUME NEW a \in Agent, Start(a) PROVE Lives'
  <2>1. /\ phase' = [phase EXCEPT ![a] = "load"]
        /\ up' = Tell(a, <<Plain("NEED_DIRECTORY"), Join(a, vcount[a])>>)
        /\ UNCHANGED <<view, held, moves, acks, nE, stopping, down>>
    BY <1>9 DEF Start
  <2>2. \A x \in Agent \ {a} : phase'[x] = phase[x] /\ up'[x] = up[x]
    BY <1>1, <2>1 DEF Tell, Types, AgentTypes, NetTypes
  <2>3. phase'[a] = "load"
    BY <1>1, <2>1 DEF Types, AgentTypes
  <2> QED BY <2>1, <2>2, <2>3 DEF Lives
<1>10. ASSUME NEW a \in Agent, Stop(a) PROVE Lives'
  <2>1. /\ a \in Alive /\ stopping' = [stopping EXCEPT ![a] = TRUE]
        /\ UNCHANGED <<phase, view, held, moves, acks, nE, up, down>>
    BY <1>10 DEF Stop, netVars
  <2>2. phase[a] # "out" /\ \A x \in Agent : stopping'[x] = (stopping[x] \/ x = a)
    BY <1>1, <2>1, AliveAgent DEF Types, AgentTypes
  <2> QED BY <2>1, <2>2 DEF Lives
<1>11. ASSUME NEW a \in Agent, RecvUpdateEdge(a) PROVE Lives'
  <2>1. /\ phase[a] = "load" /\ UNCHANGED <<phase, view, acks, stopping, up, down>>
    BY <1>11 DEF RecvUpdateEdge, netVars
  <2>2. \A x \in Agent \ {a} : held'[x] = held[x] /\ moves'[x] = moves[x] /\ nE'[x] = nE[x]
    BY <1>1, <1>11, RecvUpdateEdgeCases DEF Types, AgentTypes
  <2>3. a \in Alive
    BY <2>1, AliveAgent
  <2> QED BY <2>1, <2>2, <2>3, LivesOne
<1>12. ASSUME Command PROVE Lives'
  <2>1. /\ UNCHANGED <<agentVars, up>>
        /\ \A a \in Agent : phase[a] = "out" => down'[a] = down[a]
    BY <1>1, <1>12, CommandCases, AliveAgent
  <2> QED BY <2>1 DEF Lives, agentVars
<1>13. ASSUME UNCHANGED vars PROVE Lives'
  BY <1>13 DEF vars, agentVars, netVars, Lives
<1> QED BY <1>2, <1>3, <1>4, <1>5, <1>6, <1>7, <1>8, <1>9, <1>10, <1>11, <1>12, <1>13 DEF Next, RecvPeers, Done

(* An agent without a list owns nothing.                                   *)
LEMMA OwnedNothing ==
  ASSUME Types, Owned, NEW a \in Agent, phase[a] \notin {"balance", "hold", "gone", "thrown"}, view[a] = {}
  PROVE  held[a] = {}
<1> SUFFICES ASSUME NEW c \in held[a] PROVE FALSE
  OBVIOUS
<1>1. c \in Copy
  BY DEF Types, AgentTypes
<1>2. Owner(view[a], c) = a /\ Owner(view[a], c) = Nobody
  BY <1>1, OwnerType DEF Owned, Types, AgentTypes
<1> QED BY <1>2, MemberPairs

LEMMA OwnedOne ==
  ASSUME Owned, NEW a \in Agent,
         phase'[a] \notin {"balance", "hold", "gone", "thrown"} => \A c \in held'[a] : Owner(view'[a], c) = a,
         \A b \in Agent \ {a} : phase'[b] = phase[b] /\ held'[b] = held[b] /\ view'[b] = view[b]
  PROVE  Owned'
<1>1. ASSUME NEW b \in Agent, phase'[b] \notin {"balance", "hold", "gone", "thrown"}, NEW c \in held'[b]
      PROVE  Owner(view'[b], c) = b
  BY <1>1 DEF Owned
<1>2. \A b \in Agent : \A c : Owner(view[b], c)' = Owner(view'[b], c')
  BY DEF Owner
<1> QED BY <1>1, <1>2 DEF Owned

LEMMA OwnedMoveAway ==
  ASSUME Types, Owned, NEW a \in Agent, NEW mem \in SUBSET Member, NEW ph \in Phase, MoveAway(a, mem, ph),
         view'[a] = mem, \A b \in Agent \ {a} : view'[b] = view[b]
  PROVE  Owned'
<1>1. /\ \A b \in Agent \ {a} : phase'[b] = phase[b] /\ held'[b] = held[b]
      /\ \A c : c \in held'[a] <=> c \in held[a] /\ Owner(mem, c) = a
  BY MoveAwayLeaves
<1>2. \A c \in held'[a] : Owner(view'[a], c) = a
  BY <1>1
<1> QED BY <1>1, <1>2, OwnedOne

LEMMA OwnedDown ==
  ASSUME Types, Accounts, Owned, NEW a \in Agent, RecvDown(a) PROVE Owned'
<1>1. /\ \A b \in Agent \ {a} : phase'[b] = phase[b] /\ held'[b] = held[b] /\ view'[b] = view[b]
      /\ ~IsList(Head(down[a])) => view'[a] = view[a]
  BY TakenDown
<1>2. CASE RecvDirectory(a)
  <2> DEFINE m == Head(down[a])
  <2>1. /\ a \in Alive /\ m.members \in SUBSET Member /\ phase[a] \in Phase
        /\ view' = [view EXCEPT ![a] = IF m.changed \/ view[a] = {} THEN m.members ELSE view[a]]
        /\ \/ /\ ~m.changed \/ phase[a] = "hold"
              /\ UNCHANGED <<phase, held, nE, moves, acks, up, peer>>
           \/ /\ m.changed /\ phase[a] = "balance"
              /\ phase' = [phase EXCEPT ![a] = "hold"]
           \/ /\ m.changed /\ phase[a] \notin {"balance", "hold"}
              /\ MoveAway(a, m.members, phase[a])
    BY <1>2, RecvDirectoryCases DEF Types, AgentTypes
  <2> HIDE DEF m
  <2>2. view'[a] = IF m.changed \/ view[a] = {} THEN m.members ELSE view[a]
    BY <2>1 DEF Types, AgentTypes
  <2>3. CASE /\ ~m.changed \/ phase[a] = "hold"
             /\ UNCHANGED <<phase, held, nE, moves, acks, up, peer>>
    <3>1. ASSUME phase'[a] \notin {"balance", "hold", "gone", "thrown"} PROVE \A c \in held'[a] : Owner(view'[a], c) = a
      <4>1. phase[a] \notin {"balance", "hold", "gone", "thrown"} /\ held'[a] = held[a] /\ ~m.changed
        BY <2>3, <3>1
      <4>2. CASE view[a] = {}
        BY <4>1, <4>2, OwnedNothing
      <4>3. CASE view[a] # {}
        BY <2>2, <4>1, <4>3 DEF Owned
      <4> QED BY <4>2, <4>3
    <3> QED BY <1>1, <3>1, OwnedOne
  <2>4. CASE phase' = [phase EXCEPT ![a] = "hold"]
    <3>1. phase'[a] = "hold"
      BY <2>4 DEF Types, AgentTypes
    <3> QED BY <1>1, <3>1, OwnedOne
  <2>5. CASE m.changed /\ MoveAway(a, m.members, phase[a])
    BY <1>1, <2>1, <2>2, <2>5, OwnedMoveAway
  <2> QED BY <2>1, <2>3, <2>4, <2>5
<1>3. CASE RecvSyncDone(a)
  <2>1. /\ view[a] \in SUBSET Member /\ UNCHANGED view
        /\ \/ MoveAway(a, view[a], "idle")
           \/ phase' = [phase EXCEPT ![a] = "thrown"]
    BY <1>3, RecvSyncDoneCases
  <2>2. CASE MoveAway(a, view[a], "idle")
    <3>1. "idle" \in Phase
      BY DEF Phase
    <3> QED BY <2>1, <2>2, <3>1, OwnedMoveAway
  <2>3. CASE phase' = [phase EXCEPT ![a] = "thrown"]
    <3>1. phase'[a] = "thrown"
      BY <2>3 DEF Types, AgentTypes
    <3> QED BY <1>1, <3>1, OwnedOne
  <2> QED BY <2>1, <2>2, <2>3
<1>4. CASE RecvVa(a) \/ RecvCsLb(a)
  <2>1. phase' = [phase EXCEPT ![a] = "balance"]
    BY <1>4 DEF RecvVa, RecvCsLb
  <2>2. phase'[a] = "balance"
    BY <2>1 DEF Types, AgentTypes
  <2> QED BY <1>1, <2>2, OwnedOne
<1> QED BY <1>2, <1>3, <1>4 DEF RecvDown

LEMMA OwnedUntouched ==
  ASSUME Owned, UNCHANGED <<phase, held, view>> PROVE Owned'
BY DEF Owned, Owner

LEMMA OwnedNext ==
  ASSUME Books, Lives, Owned, [Next]_vars PROVE Owned'
<1>1. Types /\ Accounts
  BY DEF Books
<1>2. ASSUME NEW a \in Agent, RecvDown(a) PROVE Owned'
  BY <1>1, <1>2, OwnedDown
<1>3. ASSUME NEW a \in Agent, NEW b \in Agent, RecvMoves(a, b) PROVE Owned'
  <2> DEFINE copies == Head(peer[b][a]).copies
  <2>1. held' = [held EXCEPT ![a] = held[a] \cup Mine(a, copies)]
    BY <1>1, <1>3, RecvMovesStep
  <2>2. UNCHANGED <<phase, view>>
    BY <1>3 DEF RecvMoves
  <2>3. /\ held'[a] = held[a] \cup Mine(a, copies)
        /\ \A x \in Agent \ {a} : held'[x] = held[x]
    BY <1>1, <2>1 DEF Types, AgentTypes
  <2>4. phase'[a] \notin {"balance", "hold", "gone", "thrown"} => \A c \in held'[a] : Owner(view'[a], c) = a
    BY <2>2, <2>3 DEF Owned, Mine
  <2> QED BY <2>2, <2>3, <2>4, OwnedOne
<1>4. ASSUME NEW a \in Agent, NEW b \in Agent, RecvAck(a, b) PROVE Owned'
  <2>1. /\ UNCHANGED <<view, held>>
        /\ \/ phase' = [phase EXCEPT ![a] = "idle"] /\ phase[a] = "moving"
           \/ UNCHANGED phase
    BY <1>4 DEF RecvAck
  <2>2. \A x \in Agent \ {a} : phase'[x] = phase[x]
    BY <1>1, <2>1 DEF Types, AgentTypes
  <2>3. phase'[a] = phase[a] \/ phase[a] = "moving"
    BY <2>1
  <2>4. phase'[a] \notin {"balance", "hold", "gone", "thrown"} => \A c \in held'[a] : Owner(view'[a], c) = a
    BY <2>1, <2>3 DEF Owned
  <2> QED BY <2>1, <2>2, <2>4, OwnedOne
<1>5. ASSUME NEW a \in Agent, Shutdown(a) PROVE Owned'
  <2>1. /\ UNCHANGED <<view, held>>
        /\ \/ phase' = [phase EXCEPT ![a] = "gone"]
           \/ phase' = [phase EXCEPT ![a] = IF phase[a] = "load" THEN "idle" ELSE phase[a]]
    BY <1>5 DEF Shutdown
  <2>2. \A x \in Agent \ {a} : phase'[x] = phase[x]
    BY <1>1, <2>1 DEF Types, AgentTypes
  <2>3. phase'[a] = "gone" \/ phase'[a] = phase[a] \/ phase[a] = "load"
    BY <1>1, <2>1 DEF Types, AgentTypes
  <2>4. phase'[a] \notin {"balance", "hold", "gone", "thrown"} => \A c \in held'[a] : Owner(view'[a], c) = a
    BY <2>1, <2>3 DEF Owned
  <2> QED BY <2>1, <2>2, <2>4, OwnedOne
<1>6. ASSUME NEW a \in Agent, FromAgent(a) PROVE Owned'
  BY <1>6, OwnedUntouched DEF FromAgent, agentVars
<1>7. ASSUME NEW d \in Directory, Heartbeat(d) PROVE Owned'
  BY <1>7, OwnedUntouched DEF Heartbeat, agentVars
<1>8. ASSUME NEW d \in Directory, NEW e \in Directory, FromPeer(d, e) PROVE Owned'
  BY <1>8, OwnedUntouched DEF FromPeer, agentVars
<1>9. ASSUME NEW a \in Agent, Start(a) PROVE Owned'
  <2>1. /\ phase' = [phase EXCEPT ![a] = "load"] /\ phase[a] = "out"
        /\ UNCHANGED <<view, held>>
    BY <1>9 DEF Start
  <2>2. \A x \in Agent \ {a} : phase'[x] = phase[x]
    BY <1>1, <2>1 DEF Types, AgentTypes
  <2>3. held'[a] = {}
    BY <2>1 DEF Lives
  <2> QED BY <2>1, <2>2, <2>3, OwnedOne
<1>10. ASSUME NEW a \in Agent, Stop(a) PROVE Owned'
  BY <1>10, OwnedUntouched DEF Stop
<1>11. ASSUME NEW a \in Agent, RecvUpdateEdge(a) PROVE Owned'
  <2>1. /\ UNCHANGED <<phase, view>>
        /\ \/ \E e \in Vertex \X Vertex : /\ held' = [held EXCEPT ![a] = held[a] \cup {InCopy(e)}]
                                          /\ Owner(view[a], InCopy(e)) = a
           \/ UNCHANGED held
    BY <1>1, <1>11, RecvUpdateEdgeCases
  <2>2. CASE UNCHANGED held
    BY <2>1, <2>2, OwnedUntouched
  <2>3. ASSUME NEW e \in Vertex \X Vertex, held' = [held EXCEPT ![a] = held[a] \cup {InCopy(e)}],
               Owner(view[a], InCopy(e)) = a
        PROVE  Owned'
    <3>1. /\ held'[a] = held[a] \cup {InCopy(e)}
          /\ \A x \in Agent \ {a} : held'[x] = held[x]
      BY <1>1, <2>3 DEF Types, AgentTypes
    <3>2. phase'[a] \notin {"balance", "hold", "gone", "thrown"} => \A c \in held'[a] : Owner(view'[a], c) = a
      BY <2>1, <2>3, <3>1 DEF Owned
    <3> QED BY <2>1, <3>1, <3>2, OwnedOne
  <2> QED BY <2>1, <2>2, <2>3
<1>12. ASSUME Command PROVE Owned'
  BY <1>12, OwnedUntouched DEF Command, agentVars
<1>13. ASSUME UNCHANGED vars PROVE Owned'
  BY <1>13, OwnedUntouched DEF vars, agentVars
<1> QED BY <1>2, <1>3, <1>4, <1>5, <1>6, <1>7, <1>8, <1>9, <1>10, <1>11, <1>12, <1>13 DEF Next, RecvPeers, Done

LEMMA CourseInit ==
  ASSUME Fitting, Init PROVE Course
<1>1. Books
  BY BooksInit
<1> DEFINE mem == First \X {VAgents}
<1>2. PICK begun \in BOOLEAN :
        /\ phase = [a \in Agent |-> IF a \notin First THEN "out" ELSE IF begun THEN "idle" ELSE "load"]
        /\ view = [a \in Agent |-> IF a \in First THEN mem ELSE {}]
        /\ members = [d \in Directory |-> mem]
        /\ held = [a \in Agent |-> {c \in Copy : c.edge \in edges /\ Owner(mem, c) = a /\ (begun \/ c.kind = "in")}]
  BY DEF Init
<1> HIDE DEF mem
<1>3. /\ \A a \in Agent : ~stopping[a] /\ moves[a] = {} /\ acks[a] = 0 /\ up[a] = <<>> /\ down[a] = <<>>
      /\ \A a \in Agent : home[a] \in Directory
  BY <1>1, HomeType DEF Init, Books
<1>4. \A a \in Agent : held[a] = {c \in Copy : c.edge \in edges /\ Owner(mem, c) = a /\ (begun \/ c.kind = "in")}
  BY <1>2
<1>5. /\ \A a \in Agent : a \in First \/ view[a] = {}
      /\ \A a \in Agent : phase[a] = "out" <=> a \notin First
      /\ \A a \in Agent : phase[a] # "gone"
      /\ \A a \in Agent : a \in First => view[a] = mem
      /\ \A d \in Directory : members[d] = mem
      /\ \A a \in Agent : \A c \in held[a] : Owner(mem, c) = a
  <2>1. \A a \in Agent : phase[a] = "out" <=> a \notin First
    BY <1>2
  <2>2. \A a \in Agent : phase[a] # "gone"
    BY <1>2
  <2>3. /\ \A a \in Agent : a \in First \/ view[a] = {}
        /\ \A a \in Agent : a \in First => view[a] = mem
        /\ \A d \in Directory : members[d] = mem
    BY <1>2
  <2> QED BY <1>4, <2>1, <2>2, <2>3
<1>6. \A a \in Agent : a \notin First => held[a] = {}
  <2> SUFFICES ASSUME NEW a \in Agent, a \notin First, NEW c \in held[a] PROVE FALSE
    OBVIOUS
  <2>1. c \in Copy /\ Owner(mem, c) = a
    BY <1>4
  <2>2. mem \in SUBSET Member /\ mem # {} /\ \A m \in mem : m[1] \in First
    <3>1. First \X {VAgents} \subseteq Agent \X (1 .. VAgents) /\ First \X {VAgents} # {}
      <4>1. PICK f \in First : TRUE
        BY ElasticAssumption
      <4>2. <<f, VAgents>> \in First \X {VAgents}
        OBVIOUS
      <4> QED BY <4>2, ElasticAssumption
    <3> QED BY <3>1, MemberPairs DEF mem
  <2>3. \E m \in mem : Owner(mem, c) = m[1]
    BY <2>1, <2>2, OwnerType
  <2> QED BY <2>1, <2>2, <2>3
<1>7. Lives
  BY <1>3, <1>5, <1>6 DEF Lives
<1>8. Owned
  <2> SUFFICES ASSUME NEW a \in Agent, NEW c \in held[a] PROVE Owner(view[a], c) = a
    BY DEF Owned
  <2> QED BY <1>5, <1>6
<1>9. Pipeline
  <2> SUFFICES ASSUME NEW a \in Alive PROVE InStep(down[a], view[a], notify[home[a]], members[home[a]])
    BY DEF Pipeline
  <2>1. a \in Agent /\ phase[a] # "out" /\ down[a] = <<>>
    BY <1>3, AliveAgent
  <2>2. view[a] = members[home[a]]
    BY <1>3, <1>5, <2>1
  <2>3. \A v, n, x : v \in {{}, x} => InStep(<<>>, v, n, x)
    BY DEF InStep
  <2> QED BY <2>1, <2>2, <2>3
<1> QED BY <1>1, <1>7, <1>8, <1>9 DEF Course

LEMMA CourseNext ==
  ASSUME Course, [Next]_vars PROVE Course'
BY BooksNext, LivesNext, PipelineNext, OwnedNext DEF Course

(* When all is quiet every copy of every edge is where the list of its     *)
(* holder's directory says, however lists, moves and acknowledgements were *)
(* delayed and also if the operator does not wait (agent.cpp:258-350).     *)
THEOREM FoundWhereSought == ASSUME Fitting PROVE Spec => []OwnersExact
<1>1. Init => Course
  BY CourseInit
<1>2. Course /\ [Next]_vars => Course'
  BY CourseNext
<1>3. Course => OwnersExact
  <2> SUFFICES ASSUME Course, Quiet, NEW a \in Alive, NEW c \in held[a]
               PROVE  Owner(members[home[a]], c) = a
    BY DEF OwnersExact
  <2>1. a \in Agent /\ home[a] \in Directory /\ Types /\ Owned
    BY AliveAgent, HomeType DEF Course, Books
  <2>2. down[a] = <<>> /\ notify[home[a]] = "no" /\ phase[a] \in {"load", "idle"}
    BY <2>1, AliveAgent DEF Quiet
  <2>3. InStep(<<>>, view[a], "no", members[home[a]])
    BY <2>2 DEF Course, Pipeline
  <2>4. view[a] \in {{}, members[home[a]]}
    BY <2>3 DEF InStep, Steady
  <2>5. Owner(view[a], c) = a
    BY <2>1, <2>2 DEF Owned
  <2>6. view[a] # {}
    BY <2>1, <2>2, OwnedNothing
  <2> QED BY <2>4, <2>5, <2>6
<1> QED BY <1>1, <1>2, <1>3, PTL DEF Spec
=============================================================================
