----------------------------- MODULE DataLemmas -----------------------------
(***************************************************************************)
(* Facts about data that several proofs need: induction over numbers and   *)
(* finite sets, recursive functions, and connections.                      *)
(*                                                                         *)
(* The library states induction with an operator as a parameter, which no  *)
(* prover here can instantiate.  These lemmas state it for sets: of the    *)
(* numbers, or of the subsets, that have the property to be proved.        *)
(***************************************************************************)
EXTENDS Integers, Sequences, FiniteSetTheorems, TLAPS

Below == {p \in Nat \X Nat : p[1] < p[2]}

(* Every set of naturals has a least element.                              *)
LEMMA LeastNatural ==
  ASSUME NEW S \in SUBSET Nat, S # {}
  PROVE  \E n \in S : \A m \in S : n <= m
<1>1. IsWellFoundedOn(Below, Nat)
  BY NatLessThanWellFounded DEF Below, OpToRel
<1>2. PICK x \in S : \A y \in S : <<y, x>> \notin Below
  BY <1>1, WFMin
<1>3. ASSUME NEW y \in S PROVE x <= y
  <2>1. <<y, x>> \in Nat \X Nat /\ <<y, x>>[1] = y /\ <<y, x>>[2] = x
    OBVIOUS
  <2>2. ~ (y < x)
    BY <1>2, <2>1 DEF Below
  <2> QED BY <2>2
<1> QED BY <1>3

(* Induction over the naturals.                                            *)
LEMMA ByNaturals ==
  ASSUME NEW S, 0 \in S, \A n \in Nat : n \in S => n + 1 \in S
  PROVE  Nat \subseteq S
<1> SUFFICES ASSUME NEW x \in Nat \ S PROVE FALSE
  OBVIOUS
<1>1. PICK n \in Nat \ S : \A m \in Nat \ S : n <= m
  BY LeastNatural
<1>2. n # 0 /\ n - 1 \in Nat
  OBVIOUS
<1>3. n - 1 \in S
  BY <1>1, <1>2
<1> QED BY <1>2, <1>3

(* Induction over the subsets of a finite set.                             *)
LEMMA ByElements ==
  ASSUME NEW T, IsFiniteSet(T), NEW P \in SUBSET SUBSET T, {} \in P,
         \A S \in SUBSET T : \A x \in T \ S : S \in P => S \cup {x} \in P
  PROVE  P = SUBSET T
<1> SUFFICES ASSUME NEW U \in SUBSET T, U \notin P PROVE FALSE
  OBVIOUS
<1> DEFINE Bad == {S \in SUBSET T : S \notin P}
           Sizes == {Cardinality(S) : S \in Bad}
<1>1. \A S \in SUBSET T : IsFiniteSet(S) /\ Cardinality(S) \in Nat
  BY FS_Subset, FS_CardinalityType
<1>2. Sizes \in SUBSET Nat /\ Sizes # {}
  BY <1>1
<1> HIDE DEF Sizes
<1>3. PICK k \in Sizes : \A m \in Sizes : k <= m
  BY <1>2, LeastNatural
<1>4. PICK S \in Bad : k = Cardinality(S)
  BY <1>3 DEF Sizes
<1>5. PICK x : x \in S
  BY <1>4
<1>6. /\ Cardinality(S \ {x}) = Cardinality(S) - 1
      /\ Cardinality(S) \in Nat
  BY <1>1, <1>5, FS_RemoveElement
<1>7. S \ {x} \notin Bad
  <2> SUFFICES ASSUME S \ {x} \in Bad PROVE FALSE
    OBVIOUS
  <2>1. Cardinality(S \ {x}) \in Sizes
    BY DEF Sizes
  <2> QED BY <1>3, <1>4, <1>6, <2>1
<1>8. S \ {x} \in P /\ (S \ {x}) \cup {x} = S
  BY <1>5, <1>7
<1> QED BY <1>5, <1>8

(* A finite set of naturals has a greatest element.                        *)
LEMMA GreatestNatural ==
  ASSUME NEW S \in SUBSET Nat, IsFiniteSet(S), S # {}
  PROVE  \E n \in S : \A m \in S : m <= n
<1> DEFINE P == {U \in SUBSET S : U = {} \/ \E n \in U : \A m \in U : m <= n}
<1>1. ASSUME NEW U \in SUBSET S, NEW x \in S \ U, U \in P PROVE U \cup {x} \in P
  BY <1>1
<1>2. P \in SUBSET SUBSET S /\ {} \in P
  OBVIOUS
<1>3. P = SUBSET S
  <2> HIDE DEF P
  <2> QED BY <1>1, <1>2, ByElements
<1> QED BY <1>3

(* A function that is defined from its value one place before.             *)
IsRecursive(f, N, S, base, step) ==
  /\ f \in [0 .. N -> S]
  /\ f[0] = base /\ \A n \in 1 .. N : f[n] = step[f[n - 1]]
Recursive(N, S, base, step) == \E f : IsRecursive(f, N, S, base, step)

LEMMA Recursion ==
  ASSUME NEW N \in Nat, NEW S, NEW base \in S, NEW step \in [S -> S]
  PROVE  Recursive(N, S, base, step)
<1> DEFINE Good(k, f) == f[0] = base /\ \A n \in 1 .. k : f[n] = step[f[n - 1]]
           P == {k \in Nat : \E f \in [0 .. k -> S] : Good(k, f)}
<1>1. 0 \in P
  <2>1. [n \in 0 .. 0 |-> base] \in [0 .. 0 -> S] /\ Good(0, [n \in 0 .. 0 |-> base])
    OBVIOUS
  <2> QED BY <2>1
<1>2. ASSUME NEW k \in Nat, k \in P PROVE k + 1 \in P
  <2>1. PICK f \in [0 .. k -> S] : Good(k, f)
    BY <1>2
  <2> DEFINE g == [n \in 0 .. k + 1 |-> IF n = k + 1 THEN step[f[k]] ELSE f[n]]
  <2>2. g \in [0 .. k + 1 -> S]
    OBVIOUS
  <2>3. Good(k + 1, g)
    <3>1. g[0] = base
      BY <2>1
    <3>2. ASSUME NEW n \in 1 .. k + 1 PROVE g[n] = step[g[n - 1]]
      BY <2>1
    <3> QED BY <3>1, <3>2
  <2> QED BY <2>2, <2>3
<1>3. Nat \subseteq P
  BY <1>1, <1>2, ByNaturals
<1> QED BY <1>3 DEF Recursive, IsRecursive

-----------------------------------------------------------------------------
(* Connections: a message is put at the end of a queue and taken from its  *)
(* front.                                                                  *)

(* m is somewhere in q.                                                    *)
Has(q, m) == \E i \in DOMAIN q : q[i] = m

(* Each m in q has an n behind it.                                         *)
Followed(q, m, n) ==
  \A i \in DOMAIN q : q[i] = m => \E j \in DOMAIN q : i < j /\ q[j] = n

(* m is at most once in q.                                                 *)
Once(q, m) == \A i, j \in DOMAIN q : q[i] = m /\ q[j] = m => i = j

LEMMA EmptyQueue ==
  ASSUME NEW m, NEW n
  PROVE  ~Has(<<>>, m) /\ Followed(<<>>, m, n) /\ Once(<<>>, m)
BY DEF Has, Followed, Once

(* The places of a queue after a message was put, or taken.                *)
LEMMA AppendPlaces ==
  ASSUME NEW S, NEW q \in Seq(S), NEW x \in S
  PROVE  /\ Append(q, x) \in Seq(S)
         /\ Len(q) \in Nat /\ DOMAIN q = 1 .. Len(q)
         /\ DOMAIN Append(q, x) = 1 .. Len(q) + 1
         /\ \A i \in 1 .. Len(q) : Append(q, x)[i] = q[i]
         /\ Append(q, x)[Len(q) + 1] = x
OBVIOUS

LEMMA TailPlaces ==
  ASSUME NEW S, NEW q \in Seq(S), q # <<>>
  PROVE  /\ Head(q) \in S /\ Head(q) = q[1] /\ Tail(q) \in Seq(S)
         /\ Len(q) \in Nat \ {0} /\ DOMAIN q = 1 .. Len(q)
         /\ DOMAIN Tail(q) = 1 .. Len(q) - 1
         /\ \A i \in 1 .. Len(q) - 1 : Tail(q)[i] = q[i + 1]
OBVIOUS

LEMMA HasAppend ==
  ASSUME NEW S, NEW q \in Seq(S), NEW x \in S, NEW m
  PROVE  Has(Append(q, x), m) <=> Has(q, m) \/ x = m
<1>1. Has(q, m) \/ x = m => Has(Append(q, x), m)
  BY AppendPlaces DEF Has
<1>2. Has(Append(q, x), m) => Has(q, m) \/ x = m
  <2> SUFFICES ASSUME NEW i \in DOMAIN Append(q, x), Append(q, x)[i] = m, x # m
               PROVE  Has(q, m)
    BY DEF Has
  <2>1. i \in 1 .. Len(q)
    BY AppendPlaces
  <2> QED BY <2>1, AppendPlaces DEF Has
<1> QED BY <1>1, <1>2

LEMMA HasTail ==
  ASSUME NEW S, NEW q \in Seq(S), q # <<>>, NEW m
  PROVE  Has(q, m) <=> Head(q) = m \/ Has(Tail(q), m)
<1>1. Has(q, m) => Head(q) = m \/ Has(Tail(q), m)
  <2> SUFFICES ASSUME NEW i \in DOMAIN q, q[i] = m, Head(q) # m
               PROVE  Has(Tail(q), m)
    BY DEF Has
  <2>1. i - 1 \in DOMAIN Tail(q) /\ Tail(q)[i - 1] = m
    BY TailPlaces
  <2> QED BY <2>1 DEF Has
<1>2. Head(q) = m => Has(q, m)
  BY TailPlaces DEF Has
<1>3. Has(Tail(q), m) => Has(q, m)
  <2> SUFFICES ASSUME NEW i \in DOMAIN Tail(q), Tail(q)[i] = m
               PROVE  Has(q, m)
    BY DEF Has
  <2>1. i + 1 \in DOMAIN q /\ q[i + 1] = m
    BY TailPlaces
  <2> QED BY <2>1 DEF Has
<1> QED BY <1>1, <1>2, <1>3

LEMMA FollowedAppend ==
  ASSUME NEW S, NEW q \in Seq(S), NEW x \in S, NEW m, NEW n, x # m
  PROVE  /\ Followed(q, m, n) => Followed(Append(q, x), m, n)
         /\ x = n => Followed(Append(q, x), m, n)
<1> SUFFICES ASSUME NEW i \in DOMAIN Append(q, x), Append(q, x)[i] = m
             PROVE  /\ Followed(q, m, n) =>
                         \E j \in DOMAIN Append(q, x) : i < j /\ Append(q, x)[j] = n
                    /\ x = n => \E j \in DOMAIN Append(q, x) : i < j /\ Append(q, x)[j] = n
  BY DEF Followed
<1>1. i \in 1 .. Len(q) /\ q[i] = m
  BY AppendPlaces
<1>2. ASSUME Followed(q, m, n)
      PROVE  \E j \in DOMAIN Append(q, x) : i < j /\ Append(q, x)[j] = n
  <2>1. PICK j \in DOMAIN q : i < j /\ q[j] = n
    BY <1>1, <1>2, AppendPlaces DEF Followed
  <2> QED BY <2>1, AppendPlaces
<1>3. ASSUME x = n PROVE \E j \in DOMAIN Append(q, x) : i < j /\ Append(q, x)[j] = n
  BY <1>1, <1>3, AppendPlaces
<1> QED BY <1>2, <1>3

LEMMA FollowedTail ==
  ASSUME NEW S, NEW q \in Seq(S), q # <<>>, NEW m, NEW n, Followed(q, m, n)
  PROVE  /\ Followed(Tail(q), m, n)
         /\ Head(q) = m /\ m # n => Has(Tail(q), n)
<1>1. ASSUME NEW i \in DOMAIN Tail(q), Tail(q)[i] = m
      PROVE  \E j \in DOMAIN Tail(q) : i < j /\ Tail(q)[j] = n
  <2>1. i + 1 \in DOMAIN q /\ q[i + 1] = m
    BY <1>1, TailPlaces
  <2>2. PICK j \in DOMAIN q : i + 1 < j /\ q[j] = n
    BY <2>1 DEF Followed
  <2>3. j - 1 \in DOMAIN Tail(q) /\ i < j - 1 /\ Tail(q)[j - 1] = n
    BY <1>1, <2>2, TailPlaces
  <2> QED BY <2>3
<1>2. ASSUME Head(q) = m, m # n PROVE Has(Tail(q), n)
  <2>1. 1 \in DOMAIN q /\ q[1] = m
    BY <1>2, TailPlaces
  <2>2. PICK j \in DOMAIN q : 1 < j /\ q[j] = n
    BY <2>1 DEF Followed
  <2>3. j - 1 \in DOMAIN Tail(q) /\ Tail(q)[j - 1] = n
    BY <2>2, TailPlaces
  <2> QED BY <2>3 DEF Has
<1> QED BY <1>1, <1>2 DEF Followed

LEMMA FollowedHas ==
  ASSUME NEW q, NEW m, NEW n, Followed(q, m, n), Has(q, m)
  PROVE  Has(q, n)
BY DEF Followed, Has

LEMMA NotThereFollowed ==
  ASSUME NEW q, NEW m, ~Has(q, m)
  PROVE  Once(q, m) /\ \A n : Followed(q, m, n)
BY DEF Followed, Has, Once

LEMMA OnceAppend ==
  ASSUME NEW S, NEW q \in Seq(S), NEW x \in S, NEW m, Once(q, m), x = m => ~Has(q, m)
  PROVE  Once(Append(q, x), m)
<1> SUFFICES ASSUME NEW i \in DOMAIN Append(q, x), NEW j \in DOMAIN Append(q, x),
                    Append(q, x)[i] = m, Append(q, x)[j] = m, i # j
             PROVE  FALSE
  BY DEF Once
<1>1. CASE x = m
  <2>1. (i \in DOMAIN q /\ q[i] = m) \/ (j \in DOMAIN q /\ q[j] = m)
    BY AppendPlaces
  <2> QED BY <1>1, <2>1 DEF Has
<1>2. CASE x # m
  <2>1. i \in DOMAIN q /\ q[i] = m /\ j \in DOMAIN q /\ q[j] = m
    BY <1>2, AppendPlaces
  <2> QED BY <2>1 DEF Once
<1> QED BY <1>1, <1>2

LEMMA OnceTail ==
  ASSUME NEW S, NEW q \in Seq(S), q # <<>>, NEW m, Once(q, m)
  PROVE  /\ Once(Tail(q), m)
         /\ Head(q) = m => ~Has(Tail(q), m)
<1>1. ASSUME NEW i \in DOMAIN Tail(q), NEW j \in DOMAIN Tail(q),
             Tail(q)[i] = m, Tail(q)[j] = m
      PROVE  i = j
  <2>1. /\ i + 1 \in DOMAIN q /\ q[i + 1] = m
        /\ j + 1 \in DOMAIN q /\ q[j + 1] = m
    BY <1>1, TailPlaces
  <2>2. i + 1 = j + 1
    BY <2>1 DEF Once
  <2> QED BY <1>1, <2>2, TailPlaces
<1>2. ASSUME Head(q) = m, NEW i \in DOMAIN Tail(q), Tail(q)[i] = m PROVE FALSE
  <2>1. 1 \in DOMAIN q /\ q[1] = m /\ i + 1 \in DOMAIN q /\ q[i + 1] = m
    BY <1>2, TailPlaces
  <2>2. 1 = i + 1
    BY <2>1 DEF Once
  <2> QED BY <1>2, <2>2, TailPlaces
<1> QED BY <1>1, <1>2 DEF Once, Has
=============================================================================
