-------------------------- MODULE GraphBatch_proofs --------------------------
(***************************************************************************)
(* Proofs about the graph and its batches, for every set of agents and     *)
(* vertices, every assignment of vertices to agents and every set of edges.*)
(***************************************************************************)
EXTENDS GraphBatch, DataLemmas, FiniteSetTheorems, FunctionTheorems

-----------------------------------------------------------------------------
(* Sums.                                                                   *)

LEMMA UnitsOf ==
  ASSUME NEW S, NEW f \in [S -> Nat]
  PROVE  \A u : u \in Units(f) <=> \E x \in S : \E k \in 1 .. f[x] : u = <<x, k>>
BY DEF Units

LEMMA UnitOf ==
  ASSUME NEW S, NEW f \in [S -> Nat], NEW x, NEW k
  PROVE  <<x, k>> \in Units(f) <=> x \in S /\ k \in 1 .. f[x]
BY DEF Units

LEMMA TotalType ==
  ASSUME NEW S, IsFiniteSet(S), NEW f \in [S -> Nat]
  PROVE  IsFiniteSet(Units(f)) /\ Total(f) \in Nat
<1> DEFINE R == {{x} \X (1 .. f[x]) : x \in S}
           g == [x \in S |-> {x} \X (1 .. f[x])]
<1>1. g \in Surjection(S, R)
  BY DEF Surjection
<1>2. IsFiniteSet(R)
  BY <1>1, FS_Surjection
<1>3. ASSUME NEW T \in R PROVE IsFiniteSet(T)
  <2>1. PICK x \in S : T = {x} \X (1 .. f[x])
    OBVIOUS
  <2>2. IsFiniteSet({x})
    BY FS_Singleton
  <2>3. f[x] \in Int
    OBVIOUS
  <2>4. IsFiniteSet(1 .. f[x])
    BY <2>3, FS_Interval
  <2> QED BY <2>1, <2>2, <2>4, FS_Product
<1>4. Units(f) = UNION R
  BY DEF Units
<1>5. IsFiniteSet(Units(f))
  BY <1>2, <1>3, <1>4, FS_UNION
<1> QED BY <1>5, FS_CardinalityType DEF Total

LEMMA TotalOfNothing ==
  ASSUME NEW S, NEW f \in [S -> Nat], \A x \in S : f[x] = 0
  PROVE  Total(f) = 0
<1>1. Units(f) = {}
  BY UnitsOf
<1> QED BY <1>1, FS_EmptySet DEF Total

(* Terms of which none grows.                                              *)
LEMMA TotalOfFewer ==
  ASSUME NEW S, IsFiniteSet(S), NEW f \in [S -> Nat], NEW g \in [S -> Nat],
         \A x \in S : g[x] <= f[x]
  PROVE  Total(g) <= Total(f)
<1>1. Units(g) \subseteq Units(f)
  BY UnitsOf
<1> QED BY <1>1, TotalType, FS_Subset DEF Total

(* Two sums without a term in common.                                      *)
LEMMA DisjointSize ==
  ASSUME NEW S, NEW T, IsFiniteSet(S), IsFiniteSet(T), S \cap T = {}
  PROVE  IsFiniteSet(S \cup T) /\ Cardinality(S \cup T) = Cardinality(S) + Cardinality(T)
BY FS_Union, FS_EmptySet, FS_CardinalityType

(* g is f and one term more, for x.                                        *)
OneMore(g, f, x) ==
  /\ IsFiniteSet(DOMAIN f) /\ f \in [DOMAIN f -> Nat] /\ x \notin DOMAIN f
  /\ g \in [DOMAIN f \cup {x} -> Nat] /\ \A y \in DOMAIN f : g[y] = f[y]

LEMMA TotalOfOneMore ==
  ASSUME NEW f, NEW x, NEW g, OneMore(g, f, x)
  PROVE  Total(g) = Total(f) + g[x]
<1> DEFINE S == DOMAIN f
           T == S \cup {x}
<1>0. /\ IsFiniteSet(S) /\ f \in [S -> Nat] /\ x \notin S /\ x \in T
      /\ g \in [T -> Nat] /\ \A y \in S : g[y] = f[y]
  BY DEF OneMore
<1> HIDE DEF S
<1> DEFINE column == {x} \X (1 .. g[x])
<1>1. Units(g) = Units(f) \cup column
  BY <1>0, UnitsOf
<1>2. Units(f) \cap column = {}
  BY <1>0, UnitsOf
<1>3. IsFiniteSet(column) /\ Cardinality(column) = g[x]
  <2>6. g[x] \in Nat
    BY <1>0
  <2>1. IsFiniteSet(1 .. g[x]) /\ Cardinality(1 .. g[x]) = g[x]
    BY SMTT(30), <2>6, FS_Interval
  <2>2. IsFiniteSet({x}) /\ Cardinality({x}) = 1
    BY FS_Singleton
  <2>3. IsFiniteSet({x} \X (1 .. g[x]))
    BY <2>1, <2>2, FS_Product
  <2>4. Cardinality({x} \X (1 .. g[x])) = Cardinality({x}) * Cardinality(1 .. g[x])
    BY <2>1, <2>2, FS_Product
  <2>5. g[x] \in Int
    BY <1>0
  <2> QED BY <2>1, <2>2, <2>3, <2>4, <2>5
<1>4. IsFiniteSet(Units(f))
  BY <1>0, TotalType
<1> QED BY <1>1, <1>2, <1>3, <1>4, DisjointSize DEF Total

(* A sum of which one term changes.                                        *)
LEMMA TotalOfChange ==
  ASSUME NEW S, IsFiniteSet(S), NEW x \in S,
         NEW f \in [S -> Nat], NEW g \in [S -> Nat],
         \A y \in S : y # x => g[y] = f[y]
  PROVE  Total(g) + f[x] = Total(f) + g[x]
<1> DEFINE rest == [y \in S \ {x} |-> f[y]]
<1>1. IsFiniteSet(S \ {x}) /\ rest \in [S \ {x} -> Nat] /\ (S \ {x}) \cup {x} = S
  BY FS_RemoveElement
<1>2. OneMore(f, rest, x) /\ OneMore(g, rest, x)
  BY <1>1 DEF OneMore
<1> HIDE DEF rest
<1>3. Total(f) = Total(rest) + f[x] /\ Total(g) = Total(rest) + g[x]
  BY <1>2, TotalOfOneMore
<1>4. Total(rest) \in Nat
  BY <1>1, TotalType
<1> QED BY <1>2, <1>3, <1>4

(* The same terms at other places.                                         *)
LEMMA TotalOfMoved ==
  ASSUME NEW S, IsFiniteSet(S), NEW T, NEW f \in [S -> Nat], NEW g \in [T -> Nat],
         NEW h \in Bijection(S, T), \A x \in S : g[h[x]] = f[x]
  PROVE  Total(g) = Total(f)
<1> DEFINE m == [u \in Units(f) |-> <<h[u[1]], u[2]>>]
<1>1. \A x \in S : h[x] \in T
  BY DEF Bijection, Injection
<1>2. ASSUME NEW u \in Units(f) PROVE m[u] \in Units(g)
  <2>1. PICK x \in S : \E k \in 1 .. f[x] : u = <<x, k>>
    BY UnitsOf
  <2>2. PICK k \in 1 .. f[x] : u = <<x, k>>
    BY <2>1
  <2>3. m[u] = <<h[x], k>> /\ k \in 1 .. g[h[x]]
    BY <2>2
  <2> QED BY <2>3, <1>1, UnitOf
<1>3. ASSUME NEW u \in Units(f), NEW w \in Units(f), m[u] = m[w] PROVE u = w
  <2>1. PICK x \in S : \E k \in 1 .. f[x] : u = <<x, k>>
    BY UnitsOf
  <2>2. PICK y \in S : \E k \in 1 .. f[y] : w = <<y, k>>
    BY UnitsOf
  <2>3. h[x] = h[y] /\ u[2] = w[2]
    BY <2>1, <2>2, <1>3
  <2>4. x = y
    BY <2>3 DEF Bijection, Injection, IsInjective
  <2> QED BY <2>1, <2>2, <2>3, <2>4
<1>4. ASSUME NEW w \in Units(g) PROVE \E u \in Units(f) : m[u] = w
  <2>1. PICK y \in T : \E k \in 1 .. g[y] : w = <<y, k>>
    BY UnitsOf
  <2>2. PICK k \in 1 .. g[y] : w = <<y, k>>
    BY <2>1
  <2>3. PICK x \in S : h[x] = y
    BY DEF Bijection, Surjection
  <2>4. <<x, k>> \in Units(f)
    BY <2>2, <2>3, UnitOf
  <2> QED BY <2>2, <2>3, <2>4
<1>5. m \in Bijection(Units(f), Units(g))
  BY <1>2, <1>3, <1>4 DEF Bijection, Injection, Surjection, IsInjective
<1>6. ExistsBijection(Units(f), Units(g))
  BY <1>5 DEF ExistsBijection
<1> QED BY <1>6, TotalType, FS_Bijection DEF Total

(* Messages more, and one less, in a queue.                                *)
LEMMA TotalOfQueue ==
  ASSUME NEW S, NEW q \in Seq(S), NEW v, \A m \in S : m[v] \in Nat
  PROVE  LET terms(p) == [i \in DOMAIN p |-> p[i][v]]
         IN  /\ Total(terms(q)) \in Nat
             /\ \A m \in S : Total(terms(Append(q, m))) = Total(terms(q)) + m[v]
             /\ q # <<>> => Total(terms(q)) = Total(terms(Tail(q))) + Head(q)[v]
<1> DEFINE terms(p) == [i \in DOMAIN p |-> p[i][v]]
<1>1. /\ Len(q) \in Nat /\ DOMAIN q = 1 .. Len(q) /\ \A i \in DOMAIN q : q[i] \in S
      /\ IsFiniteSet(DOMAIN q)
  BY FS_Interval
<1>2. terms(q) \in [1 .. Len(q) -> Nat]
  BY <1>1
<1>3. ASSUME NEW m \in S
      PROVE  Total(terms(Append(q, m))) = Total(terms(q)) + m[v]
  <2>1. /\ DOMAIN Append(q, m) = 1 .. Len(q) + 1
        /\ \A i \in 1 .. Len(q) : Append(q, m)[i] = q[i]
        /\ Append(q, m)[Len(q) + 1] = m
    BY AppendPlaces
  <2>2. /\ 1 .. Len(q) + 1 = (1 .. Len(q)) \cup {Len(q) + 1}
        /\ Len(q) + 1 \notin 1 .. Len(q)
    BY <1>1
  <2>3. /\ terms(Append(q, m)) \in [(1 .. Len(q)) \cup {Len(q) + 1} -> Nat]
        /\ \A i \in 1 .. Len(q) : terms(Append(q, m))[i] = terms(q)[i]
        /\ terms(Append(q, m))[Len(q) + 1] = m[v]
    BY <1>1, <2>1, <2>2
  <2>4. OneMore(terms(Append(q, m)), terms(q), Len(q) + 1)
    BY <1>1, <1>2, <2>2, <2>3 DEF OneMore
  <2> HIDE DEF terms
  <2> QED BY <2>3, <2>4, TotalOfOneMore
<1>4. ASSUME q # <<>>
      PROVE  Total(terms(q)) = Total(terms(Tail(q))) + Head(q)[v]
  <2> DEFINE behind == [i \in 2 .. Len(q) |-> q[i][v]]
             shift == [i \in 1 .. Len(q) - 1 |-> i + 1]
  <2>1. /\ Len(q) \in Nat \ {0} /\ Head(q) = q[1]
        /\ DOMAIN Tail(q) = 1 .. Len(q) - 1
        /\ \A i \in 1 .. Len(q) - 1 : Tail(q)[i] = q[i + 1]
    BY <1>4, TailPlaces
  <2>2. shift \in Bijection(1 .. Len(q) - 1, 2 .. Len(q))
    <3>1. shift \in [1 .. Len(q) - 1 -> 2 .. Len(q)]
      BY <2>1
    <3>2. \A i, j \in 1 .. Len(q) - 1 : shift[i] = shift[j] => i = j
      BY <2>1
    <3>3. \A k \in 2 .. Len(q) : k - 1 \in 1 .. Len(q) - 1 /\ shift[k - 1] = k
      BY <2>1
    <3> QED BY <3>1, <3>2, <3>3 DEF Bijection, Injection, Surjection, IsInjective
  <2>3. /\ behind \in [2 .. Len(q) -> Nat]
        /\ terms(Tail(q)) \in [1 .. Len(q) - 1 -> Nat]
        /\ \A i \in 1 .. Len(q) - 1 : behind[shift[i]] = terms(Tail(q))[i]
    BY <1>1, <2>1
  <2>4. /\ 1 .. Len(q) = (2 .. Len(q)) \cup {1} /\ 1 \notin 2 .. Len(q)
        /\ terms(q) \in [(2 .. Len(q)) \cup {1} -> Nat]
        /\ \A i \in 2 .. Len(q) : terms(q)[i] = behind[i]
        /\ terms(q)[1] = Head(q)[v]
    BY <1>1, <2>1
  <2>5. IsFiniteSet(1 .. Len(q) - 1) /\ IsFiniteSet(2 .. Len(q))
    BY <2>1, FS_Interval
  <2>6. OneMore(terms(q), behind, 1)
    BY <2>3, <2>4, <2>5 DEF OneMore
  <2> DEFINE C == 1 .. Len(q) - 1
             D == 2 .. Len(q)
             g == terms(Tail(q))
  <2>7. g \in [C -> Nat] /\ behind \in [D -> Nat]
    BY <2>3
  <2>8. shift \in Bijection(C, D)
    BY <2>2
  <2>9. \A i \in C : behind[shift[i]] = g[i]
    BY <2>3
  <2>10. IsFiniteSet(C)
    BY <2>5
  <2> HIDE DEF C, D, g, behind, shift, terms
  <2>11. Total(behind) = Total(g)
    BY <2>7, <2>8, <2>9, <2>10, TotalOfMoved
  <2> QED BY <2>4, <2>6, <2>11, TotalOfOneMore DEF g
<1>5. Total(terms(q)) \in Nat
  BY <1>1, <1>2, TotalType
<1> QED BY <1>3, <1>4, <1>5
(* One entry more for each edge of a set.                                  *)
LEMMA TotalOfPlus ==
  ASSUME NEW count \in [Edge -> Nat], NEW S \in SUBSET Edge, IsFiniteSet(Edge)
  PROVE  /\ Plus(count, S) \in [Edge -> Nat]
         /\ Total(Plus(count, S)) = Total(count) + Cardinality(S)
<1> DEFINE more == Plus(count, S)
           added == {<<e, count[e] + 1>> : e \in S}
           place == [e \in S |-> <<e, count[e] + 1>>]
<1>1. /\ more \in [Edge -> Nat]
      /\ \A e \in Edge : more[e] = IF e \in S THEN count[e] + 1 ELSE count[e]
  BY DEF Plus
<1>2. place \in Bijection(S, added)
  BY DEF Bijection, Injection, Surjection, IsInjective
<1>3. IsFiniteSet(S)
  BY FS_Subset
<1>4. IsFiniteSet(added) /\ Cardinality(added) = Cardinality(S)
  BY <1>2, <1>3, FS_Bijection DEF ExistsBijection
<1>5. \A e \in Edge : count[e] \in Nat
  OBVIOUS
<1>6. Units(count) \cap added = {}
  <2>1. ASSUME NEW e \in S PROVE <<e, count[e] + 1>> \notin Units(count)
    <3>1. count[e] + 1 \notin 1 .. count[e]
      BY <1>5
    <3> QED BY <3>1, UnitOf
  <2> QED BY <2>1
<1> HIDE DEF more
<1>7. ASSUME NEW u \in Units(more) PROVE u \in Units(count) \cup added
  <2>1. PICK e \in Edge : \E k \in 1 .. more[e] : u = <<e, k>>
    BY <1>1, UnitsOf
  <2>2. PICK k \in 1 .. more[e] : u = <<e, k>>
    BY <2>1
  <2>3. CASE e \in S /\ k = count[e] + 1
    BY <2>2, <2>3
  <2>4. CASE ~(e \in S /\ k = count[e] + 1)
    <3>1. k \in 1 .. count[e]
      BY <1>1, <1>5, <2>4
    <3> QED BY <2>2, <3>1, UnitOf
  <2> QED BY <2>3, <2>4
<1>8. ASSUME NEW u \in Units(count) PROVE u \in Units(more)
  <2>1. PICK e \in Edge : \E k \in 1 .. count[e] : u = <<e, k>>
    BY UnitsOf
  <2>2. PICK k \in 1 .. count[e] : u = <<e, k>>
    BY <2>1
  <2>3. k \in 1 .. more[e]
    BY <1>1, <1>5
  <2> QED BY <1>1, <2>2, <2>3, UnitOf
<1>9. ASSUME NEW e \in S PROVE <<e, count[e] + 1>> \in Units(more)
  <2>1. count[e] + 1 \in 1 .. more[e]
    BY <1>1, <1>5
  <2> QED BY <1>1, <2>1, UnitOf
<1>10. Units(more) = Units(count) \cup added
  BY <1>7, <1>8, <1>9
<1>11. IsFiniteSet(Units(count))
  BY TotalType
<1>12. Total(more) = Total(count) + Cardinality(S)
  BY <1>4, <1>6, <1>10, <1>11, DisjointSize DEF Total
<1> QED BY <1>1, <1>12 DEF more

-----------------------------------------------------------------------------
(* Edges, vertices and blocks.                                             *)

LEMMA Ends ==
  /\ IsFiniteSet(Edge) /\ IsFiniteSet(Agent) /\ IsFiniteSet(Vertex)
  /\ \A e \in Edge : /\ e[1] \in Vertex /\ e[2] \in Vertex
                     /\ Owner[e[1]] \in Agent /\ Owner[e[2]] \in Agent
<1>1. IsFiniteSet(Vertex \X Vertex)
  BY GraphAssumption, FS_Product
<1>2. IsFiniteSet(Edge)
  BY <1>1, GraphAssumption, FS_Subset
<1>3. \A e \in Vertex \X Vertex : e[1] \in Vertex /\ e[2] \in Vertex
  OBVIOUS
<1> QED BY <1>2, <1>3, GraphAssumption

LEMMA KnownType ==
  ASSUME NEW a, NEW ins, NEW outs
  PROVE  /\ Known(a, ins, outs) \in SUBSET Vertex
         /\ IsFiniteSet(Known(a, ins, outs))
         /\ Cardinality(Known(a, ins, outs)) \in Nat
<1>1. Known(a, ins, outs) \subseteq Vertex
  BY DEF Known
<1>2. IsFiniteSet(Known(a, ins, outs))
  BY <1>1, Ends, FS_Subset
<1> QED BY <1>1, <1>2, FS_CardinalityType

LEMMA BlocksType ==
  ASSUME NEW S \in SUBSET Edge
  PROVE  /\ BySource(S) \in [Agent -> SUBSET Edge]
         /\ ByDestination(S) \in [Agent -> SUBSET Edge]
         /\ \A b \in Agent : \A e \in BySource(S)[b] : e \in S /\ Owner[e[1]] = b
         /\ \A b \in Agent : \A e \in ByDestination(S)[b] : e \in S /\ Owner[e[2]] = b
BY DEF BySource, ByDestination

LEMMA ReceiversType ==
  ASSUME NEW a \in Agent, NEW blocks
  PROVE  Receivers(a, blocks) \in Nat
<1>1. {b \in Agent \ {a} : blocks[b] # {}} \in SUBSET Agent
  OBVIOUS
<1>2. IsFiniteSet({b \in Agent \ {a} : blocks[b] # {}})
  BY <1>1, Ends, FS_Subset
<1> QED BY <1>2, FS_CardinalityType DEF Receivers

Net == [Agent -> [Agent -> Seq(Block \cup Ack)]]

LEMMA SentPlaces ==
  ASSUME NEW net \in Net, NEW a \in Agent, NEW type \in {"IN", "OUT"},
         NEW blocks \in [Agent -> SUBSET Edge]
  PROVE  /\ Sent(net, a, type, blocks) \in Net
         /\ \A b, c \in Agent :
              Sent(net, a, type, blocks)[b][c] =
                IF b = a /\ c # a /\ blocks[c] # {}
                THEN Append(net[b][c], [type |-> type, edges |-> blocks[c]])
                ELSE net[b][c]
<1> DEFINE row == [b \in Agent |-> IF b = a \/ blocks[b] = {} THEN net[a][b]
                                   ELSE Append(net[a][b], [type |-> type, edges |-> blocks[b]])]
<1>1. \A b \in Agent : [type |-> type, edges |-> blocks[b]] \in Block \cup Ack
  BY DEF Block
<1>2. \A b \in Agent : net[a][b] \in Seq(Block \cup Ack)
  BY DEF Net
<1>3. row \in [Agent -> Seq(Block \cup Ack)]
  BY <1>1, <1>2, AppendPlaces
<1>4. Sent(net, a, type, blocks) = [net EXCEPT ![a] = row]
  BY DEF Sent
<1> HIDE DEF row
<1>5. Sent(net, a, type, blocks) \in Net
  BY <1>3, <1>4 DEF Net
<1>6. \A b, c \in Agent : Sent(net, a, type, blocks)[b][c] = IF b = a THEN row[c] ELSE net[b][c]
  BY <1>4 DEF Net
<1> QED BY <1>5, <1>6 DEF row

(* A message put on, and taken from, the connection from b to a.           *)
LEMMA QueuePlaces ==
  ASSUME NEW net \in Net, NEW a \in Agent, NEW b \in Agent
  PROVE  /\ \A m \in Block \cup Ack :
              /\ [net EXCEPT ![b][a] = Append(@, m)] \in Net
              /\ \A c, d \in Agent : [net EXCEPT ![b][a] = Append(@, m)][c][d] =
                   IF c = b /\ d = a THEN Append(net[b][a], m) ELSE net[c][d]
         /\ net[b][a] # <<>> =>
              /\ Head(net[b][a]) \in Block \cup Ack
              /\ [net EXCEPT ![b][a] = Tail(@)] \in Net
              /\ \A c, d \in Agent : [net EXCEPT ![b][a] = Tail(@)][c][d] =
                   IF c = b /\ d = a THEN Tail(net[b][a]) ELSE net[c][d]
<1>1. net[b][a] \in Seq(Block \cup Ack)
  BY DEF Net
<1>2. \A m \in Block \cup Ack : Append(net[b][a], m) \in Seq(Block \cup Ack)
  BY <1>1, AppendPlaces
<1>3. net[b][a] # <<>> => /\ Head(net[b][a]) \in Block \cup Ack
                          /\ Tail(net[b][a]) \in Seq(Block \cup Ack)
  BY <1>1, TailPlaces
<1> QED BY <1>2, <1>3 DEF Net
-----------------------------------------------------------------------------
(* Reports and counts.                                                     *)

LEMMA ReportedPlaces ==
  ASSUME NEW q \in Seq(Report), NEW v \in {"v", "e"}
  PROVE  LET terms(p) == [i \in DOMAIN p |-> p[i][v]]
         IN  /\ Total(terms(q)) \in Nat
             /\ \A m \in Report : Total(terms(Append(q, m))) = Total(terms(q)) + m[v]
             /\ q # <<>> => /\ Head(q) \in Report /\ Tail(q) \in Seq(Report)
                            /\ Total(terms(q)) = Total(terms(Tail(q))) + Head(q)[v]
<1>1. \A m \in Report : m[v] \in Nat
  BY DEF Report
<1>2. q # <<>> => Head(q) \in Report /\ Tail(q) \in Seq(Report)
  BY TailPlaces
<1> DEFINE terms(p) == [i \in DOMAIN p |-> p[i][v]]
<1>3. /\ Total(terms(q)) \in Nat
      /\ \A m \in Report : Total(terms(Append(q, m))) = Total(terms(q)) + m[v]
      /\ q # <<>> => Total(terms(q)) = Total(terms(Tail(q))) + Head(q)[v]
  BY <1>1, TotalOfQueue
<1> HIDE DEF terms
<1> QED BY <1>2, <1>3 DEF terms

LEMMA ReportedType ==
  ASSUME TypeOK, NEW a \in Agent
  PROVE  Reported(a, "v") \in Nat /\ Reported(a, "e") \in Nat
<1>1. report[a] \in Seq(Report)
  BY DEF TypeOK
<1> QED BY <1>1, ReportedPlaces DEF Reported

(* What an agent has counted moves into its report, or stays with it.      *)
LEMMA SettleParts ==
  ASSUME TypeOK, NEW a \in Agent, NEW need \in Int, NEW vs \in SUBSET Vertex, NEW n \in Nat,
         Settle(a, need, vs, n)
  PROVE  /\ acks' \in [Agent -> Int] /\ report' \in [Agent -> Seq(Report)]
         /\ newV' \in [Agent -> SUBSET Vertex] /\ newE' \in [Agent -> Nat]
         /\ \A b \in Agent : b # a => /\ report'[b] = report[b]
                                      /\ newV'[b] = newV[b] /\ newE'[b] = newE[b]
         /\ newE'[a] + Reported(a, "e")' = n + Reported(a, "e")
         /\ Cardinality(newV'[a]) + Reported(a, "v")' = Cardinality(vs) + Reported(a, "v")
         /\ newV'[a] \subseteq vs
<1> DEFINE m == [v |-> Cardinality(vs), e |-> n]
<1>1. IsFiniteSet(vs) /\ Cardinality(vs) \in Nat
  BY Ends, FS_Subset, FS_CardinalityType
<1>2. m \in Report /\ m["v"] = Cardinality(vs) /\ m["e"] = n
  BY <1>1 DEF Report
<1>3. report[a] \in Seq(Report) /\ Append(report[a], m) \in Seq(Report)
  BY <1>2, AppendPlaces DEF TypeOK
<1>4. /\ acks' \in [Agent -> Int]
      /\ newV' \in [Agent -> SUBSET Vertex] /\ newE' \in [Agent -> Nat]
      /\ newV'[a] \subseteq vs
      /\ \A b \in Agent : b # a => newV'[b] = newV[b] /\ newE'[b] = newE[b]
  <2>1. acks' \in [Agent -> Int]
    BY DEF Settle, TypeOK
  <2>2. newV' = [newV EXCEPT ![a] = IF need = 0 THEN {} ELSE vs]
    BY DEF Settle, TypeOK
  <2>3. newE' = [newE EXCEPT ![a] = IF need = 0 THEN 0 ELSE n]
    BY DEF Settle, TypeOK
  <2>4. newE \in [Agent -> Nat] /\ newV \in [Agent -> SUBSET Vertex]
    BY DEF TypeOK
  <2>5. newE' \in [Agent -> Nat] /\ \A b \in Agent : b # a => newE'[b] = newE[b]
    BY <2>3, <2>4
  <2>6. /\ newV' \in [Agent -> SUBSET Vertex] /\ newV'[a] \subseteq vs
        /\ \A b \in Agent : b # a => newV'[b] = newV[b]
    BY <2>2, <2>4
  <2> QED BY <2>1, <2>5, <2>6
<1>5. CASE need = 0
  <2>1. report' = [report EXCEPT ![a] = Append(@, m)]
    BY <1>5 DEF Settle
  <2> HIDE DEF m
  <2>2. /\ report' \in [Agent -> Seq(Report)] /\ report'[a] = Append(report[a], m)
        /\ \A b \in Agent : b # a => report'[b] = report[b]
    BY <2>1, <1>3 DEF TypeOK
  <2>3. newE'[a] = 0 /\ newV'[a] = {} /\ Cardinality(newV'[a]) = 0
    BY <1>5, FS_EmptySet DEF Settle, TypeOK
  <2>4. Reported(a, "e")' = Reported(a, "e") + n
    BY <2>2, <1>2, <1>3, ReportedPlaces DEF Reported
  <2>5. Reported(a, "v")' = Reported(a, "v") + Cardinality(vs)
    BY <2>2, <1>2, <1>3, ReportedPlaces DEF Reported
  <2> QED BY <1>1, <1>4, <2>2, <2>3, <2>4, <2>5, ReportedType
<1>6. CASE need # 0
  <2>1. report' = report /\ newE'[a] = n /\ newV'[a] = vs
    BY <1>6 DEF Settle, TypeOK
  <2>2. Reported(a, "e")' = Reported(a, "e") /\ Reported(a, "v")' = Reported(a, "v")
    BY <2>1 DEF Reported
  <2>3. report' \in [Agent -> Seq(Report)]
    BY <2>1 DEF TypeOK
  <2> QED BY <1>4, <2>1, <2>2, <2>3
<1> QED BY <1>5, <1>6

LEMMA PlusPlaces ==
  ASSUME NEW count \in [Edge -> Nat], NEW S
  PROVE  /\ Plus(count, S) \in [Edge -> Nat]
         /\ \A e \in Edge : Plus(count, S)[e] = IF e \in S THEN count[e] + 1 ELSE count[e]
         /\ Plus(count, {}) = count
BY DEF Plus

(* Repeated entries are removed from the IN edges of agent a.              *)
Single(a) == [e \in Edge |-> IF Owner[e[2]] = a /\ inCount[e] > 1 THEN 1 ELSE inCount[e]]

LEMMA SingleFewer ==
  ASSUME inCount \in [Edge -> Nat], NEW a
  PROVE  /\ Single(a) \in [Edge -> Nat]
         /\ \A e \in Edge : /\ Single(a)[e] <= inCount[e]
                            /\ Single(a)[e] > 0 <=> inCount[e] > 0
                            /\ Owner[e[2]] # a => Single(a)[e] = inCount[e]
                            /\ Owner[e[2]] = a => Single(a)[e] <= 1
         /\ Total(inCount) - Total(Single(a)) \in Nat
<1>1. /\ Single(a) \in [Edge -> Nat]
      /\ \A e \in Edge : Single(a)[e] <= inCount[e] /\ (Single(a)[e] > 0 <=> inCount[e] > 0)
      /\ \A e \in Edge : /\ Owner[e[2]] # a => Single(a)[e] = inCount[e]
                         /\ Owner[e[2]] = a => Single(a)[e] <= 1
  BY DEF Single
<1>2. Total(Single(a)) <= Total(inCount)
  BY <1>1, Ends, TotalOfFewer
<1>3. Total(Single(a)) \in Nat /\ Total(inCount) \in Nat
  BY <1>1, Ends, TotalType
<1> QED BY <1>1, <1>2, <1>3

(* Edges change at agent a only.                                           *)
LEMMA KnownGrows ==
  ASSUME outCount \in [Edge -> Nat], inCount \in [Edge -> Nat], NEW a \in Agent,
         NEW ins \in [Edge -> Nat], \A e \in Edge : ins[e] > 0 <=> inCount[e] > 0,
         NEW I \in SUBSET Edge, \A e \in I : Owner[e[2]] = a,
         NEW O \in SUBSET Edge, \A e \in O : Owner[e[1]] = a
  PROVE  /\ \A b : Known(b, ins, outCount) = Known(b, inCount, outCount)
         /\ \A b : b # a => Known(b, Plus(ins, I), Plus(outCount, O)) = Known(b, inCount, outCount)
         /\ Known(a, inCount, outCount) \subseteq Known(a, Plus(ins, I), Plus(outCount, O))
<1>1. \A b : Known(b, ins, outCount) = Known(b, inCount, outCount)
  BY DEF Known
<1>2. \A e \in Edge : /\ e \notin I => Plus(ins, I)[e] = ins[e]
                      /\ e \notin O => Plus(outCount, O)[e] = outCount[e]
                      /\ ins[e] > 0 => Plus(ins, I)[e] > 0
                      /\ outCount[e] > 0 => Plus(outCount, O)[e] > 0
  BY PlusPlaces
<1>3. ASSUME NEW b, b # a
      PROVE  Known(b, Plus(ins, I), Plus(outCount, O)) = Known(b, ins, outCount)
  <2>1. ASSUME NEW v \in Vertex, Owner[v] = b, NEW e \in Edge
        PROVE  /\ e[2] = v => Plus(ins, I)[e] = ins[e]
               /\ e[1] = v => Plus(outCount, O)[e] = outCount[e]
    BY <1>2, <1>3, <2>1
  <2> QED BY <2>1 DEF Known
<1>4. Known(a, ins, outCount) \subseteq Known(a, Plus(ins, I), Plus(outCount, O))
  BY <1>2 DEF Known
<1> QED BY <1>1, <1>3, <1>4

LEMMA NewVSize ==
  ASSUME outCount \in [Edge -> Nat], inCount \in [Edge -> Nat], NEW a \in Agent,
         NEW ins \in [Edge -> Nat], \A e \in Edge : ins[e] > 0 <=> inCount[e] > 0,
         NEW I \in SUBSET Edge, \A e \in I : Owner[e[2]] = a,
         NEW O \in SUBSET Edge, \A e \in O : Owner[e[1]] = a,
         newV[a] \subseteq Known(a, inCount, outCount)
  PROVE  /\ NewV(a, ins, I, O) \subseteq Known(a, Plus(ins, I), Plus(outCount, O))
         /\ Cardinality(NewV(a, ins, I, O)) \in Nat /\ Cardinality(newV[a]) \in Nat
         /\ Cardinality(NewV(a, ins, I, O)) + Cardinality(Known(a, inCount, outCount))
              = Cardinality(newV[a]) + Cardinality(Known(a, Plus(ins, I), Plus(outCount, O)))
<1> DEFINE before == Known(a, inCount, outCount)
           after  == Known(a, Plus(ins, I), Plus(outCount, O))
<1>1. before \subseteq after /\ NewV(a, ins, I, O) = newV[a] \cup (after \ before)
  BY KnownGrows DEF NewV
<1>2. IsFiniteSet(before) /\ IsFiniteSet(after) /\ newV[a] \subseteq before
  BY KnownType
<1> HIDE DEF before, after
<1>3. IsFiniteSet(newV[a])
  BY <1>2, FS_Subset
<1>4. after = before \cup (after \ before) /\ before \cap (after \ before) = {}
  BY <1>1
<1>5. IsFiniteSet(after \ before) /\ newV[a] \cap (after \ before) = {}
  BY <1>2, FS_Subset
<1>6. Cardinality(after) = Cardinality(before) + Cardinality(after \ before)
  BY <1>2, <1>4, <1>5, DisjointSize
<1>7. Cardinality(NewV(a, ins, I, O)) = Cardinality(newV[a]) + Cardinality(after \ before)
  BY <1>1, <1>3, <1>5, DisjointSize
<1>8. /\ Cardinality(newV[a]) \in Nat /\ Cardinality(after \ before) \in Nat
      /\ Cardinality(before) \in Nat
  BY <1>2, <1>3, <1>5, FS_CardinalityType
<1>9. NewV(a, ins, I, O) \subseteq after
  BY <1>1, <1>2
<1> QED BY <1>6, <1>7, <1>8, <1>9 DEF before, after
-----------------------------------------------------------------------------
(* The inductive invariant for the two counts.                             *)

(* The updates an agent keeps for the next batch are edges to its vertices.*)
UpdatesHere ==
  \A a \in Agent : \A e \in updates[a] : e \in Streamed /\ Owner[e[2]] = a

(* A vertex counted as new has an edge.                                    *)
NewVKnown == \A a \in Agent : newV[a] \subseteq Known(a, inCount, outCount)

ReportedE == [a \in Agent |-> Reported(a, "e")]
HeldV     == [a \in Agent |-> Cardinality(newV[a]) + Reported(a, "v")]
KnownV    == [a \in Agent |-> Cardinality(Known(a, inCount, outCount))]

CountsInv ==
  /\ TypeOK
  /\ UpdatesHere
  /\ NewVKnown
  /\ EdgesAccounted
  /\ VerticesAccounted

AccountsTyped ==
  /\ ReportedE \in [Agent -> Nat] /\ HeldV \in [Agent -> Nat] /\ KnownV \in [Agent -> Nat]
  /\ Total(ReportedE) \in Nat /\ Total(HeldV) \in Nat /\ Total(KnownV) \in Nat
  /\ Total(newE) \in Nat /\ Total(removed) \in Nat
  /\ Total(inCount) \in Nat /\ Total(outCount) \in Nat
  /\ newE \in [Agent -> Nat] /\ removed \in [Agent -> Nat]
  /\ inCount \in [Edge -> Nat] /\ outCount \in [Edge -> Nat] /\ nE \in Nat /\ nV \in Nat
  /\ \A a \in Agent : /\ Reported(a, "e") \in Nat /\ Reported(a, "v") \in Nat
                      /\ Cardinality(newV[a]) \in Nat

LEMMA AccountsType == TypeOK => AccountsTyped
<1> SUFFICES ASSUME TypeOK PROVE AccountsTyped
  OBVIOUS
<1>1. \A a \in Agent : Cardinality(newV[a]) \in Nat
  <2>1. \A a \in Agent : newV[a] \in SUBSET Vertex
    BY DEF TypeOK
  <2>2. \A a \in Agent : IsFiniteSet(newV[a])
    BY <2>1, Ends, FS_Subset
  <2> QED BY <2>2, FS_CardinalityType
<1>2. ReportedE \in [Agent -> Nat]
  BY ReportedType DEF ReportedE
<1>3. HeldV \in [Agent -> Nat]
  BY <1>1, ReportedType DEF HeldV
<1>4. KnownV \in [Agent -> Nat]
  BY KnownType DEF KnownV
<1>5. /\ newE \in [Agent -> Nat] /\ removed \in [Agent -> Nat]
      /\ inCount \in [Edge -> Nat] /\ outCount \in [Edge -> Nat] /\ nE \in Nat /\ nV \in Nat
  BY DEF TypeOK
<1>6. Total(ReportedE) \in Nat /\ Total(HeldV) \in Nat /\ Total(KnownV) \in Nat
  BY <1>2, <1>3, <1>4, Ends, TotalType
<1>7. /\ Total(newE) \in Nat /\ Total(removed) \in Nat
      /\ Total(inCount) \in Nat /\ Total(outCount) \in Nat
  BY <1>5, Ends, TotalType
<1> QED BY <1>1, <1>2, <1>3, <1>4, <1>5, <1>6, <1>7, ReportedType DEF AccountsTyped

LEMMA AccountsTypeNext == TypeOK' => AccountsTyped'
BY AccountsType, PTL

(* The types of what an agent's handler changes.                           *)
AgentTypes ==
  /\ inCount \in [Edge -> Nat] /\ outCount \in [Edge -> Nat]
  /\ newV \in [Agent -> SUBSET Vertex] /\ newE \in [Agent -> Nat] /\ removed \in [Agent -> Nat]
  /\ acks \in [Agent -> Int] /\ report \in [Agent -> Seq(Report)] /\ peer \in Net
RestTypes ==
  /\ phase \in [Agent -> {"load", "update", "run"}]
  /\ updates \in [Agent -> SUBSET Edge]
  /\ readyCtr \in 0 .. Cardinality(Agent) - 1 /\ nV \in Nat /\ nE \in Nat
  /\ begin \subseteq Agent /\ nv \subseteq Agent /\ offer \subseteq Agent
  /\ sends \in 0 .. MaxSends

LEMMA TypeParts == TypeOK <=> AgentTypes /\ RestTypes
BY DEF TypeOK, AgentTypes, RestTypes, Net

(* A handler of agent a that inserts the IN edges of I and the OUT edges   *)
(* of O, after the IN edges have been reduced to ins: what it does to the  *)
(* two counts.                                                             *)
AgentStep(a, ins, I, O) ==
  /\ I \in SUBSET Edge /\ (\A e \in I : Owner[e[2]] = a)
  /\ O \in SUBSET Edge /\ (\A e \in O : Owner[e[1]] = a)
  /\ ins \in [Edge -> Nat] /\ (\A e \in Edge : ins[e] > 0 <=> inCount[e] > 0)
  /\ Total(inCount) - Total(ins) \in Nat
  /\ ChangeEdges(ins, I, O)
  /\ removed' = [removed EXCEPT ![a] = @ + (Total(inCount) - Total(ins))]
  /\ AgentTypes'
  /\ \A b \in Agent : b # a => /\ newV'[b] = newV[b] /\ newE'[b] = newE[b]
                               /\ report'[b] = report[b]
  /\ newE'[a] + Reported(a, "e")' = newE[a] + Cardinality(I) + Reported(a, "e")
  /\ Cardinality(newV'[a]) + Reported(a, "v")' = Cardinality(NewV(a, ins, I, O)) + Reported(a, "v")
  /\ newV'[a] \subseteq NewV(a, ins, I, O)
  /\ UNCHANGED <<nV, nE>>

LEMMA AgentStepKeeps ==
  ASSUME CountsInv, TypeOK', NEW a \in Agent, NEW ins, NEW I, NEW O, AgentStep(a, ins, I, O)
  PROVE  NewVKnown' /\ EdgesAccounted' /\ VerticesAccounted'
<1> USE DEF CountsInv
<1>1. /\ I \in SUBSET Edge /\ \A e \in I : Owner[e[2]] = a
  BY DEF AgentStep
<1>2. /\ O \in SUBSET Edge /\ \A e \in O : Owner[e[1]] = a
  BY DEF AgentStep
<1>3. ins \in [Edge -> Nat] /\ \A e \in Edge : ins[e] > 0 <=> inCount[e] > 0
  BY DEF AgentStep
<1>4. inCount' = Plus(ins, I) /\ outCount' = Plus(outCount, O)
  BY DEF AgentStep, ChangeEdges
<1>5. inCount \in [Edge -> Nat] /\ outCount \in [Edge -> Nat]
  BY DEF TypeOK
<1>6. newV[a] \subseteq Known(a, inCount, outCount)
  BY DEF NewVKnown
<1>7. /\ \A b : b # a => Known(b, inCount', outCount') = Known(b, inCount, outCount)
      /\ Known(a, inCount, outCount) \subseteq Known(a, inCount', outCount')
  BY <1>1, <1>2, <1>3, <1>4, <1>5, KnownGrows
<1>8. /\ NewV(a, ins, I, O) \subseteq Known(a, inCount', outCount')
      /\ Cardinality(NewV(a, ins, I, O)) \in Nat /\ Cardinality(newV[a]) \in Nat
      /\ Cardinality(NewV(a, ins, I, O)) + Cardinality(Known(a, inCount, outCount))
           = Cardinality(newV[a]) + Cardinality(Known(a, inCount', outCount'))
  BY <1>1, <1>2, <1>3, <1>4, <1>5, <1>6, NewVSize
<1>9. NewVKnown'
  BY <1>7, <1>8 DEF NewVKnown, AgentStep
<1>10. \A b \in Agent : b # a => /\ Reported(b, "e")' = Reported(b, "e")
                                 /\ Reported(b, "v")' = Reported(b, "v")
  BY DEF AgentStep, Reported
<1>11. EdgesAccounted'
  <2>1. Total(inCount') = Total(ins) + Cardinality(I)
    BY <1>1, <1>3, <1>4, Ends, TotalOfPlus
  <2>2. Total(removed') = Total(removed) + (Total(inCount) - Total(ins))
    <3>1. removed \in [Agent -> Nat] /\ removed' \in [Agent -> Nat]
      BY DEF TypeOK
    <3>2. \A b \in Agent : b # a => removed'[b] = removed[b]
      BY <3>1 DEF AgentStep
    <3>3. removed'[a] = removed[a] + (Total(inCount) - Total(ins))
      BY <3>1 DEF AgentStep
    <3>4. Total(removed') + removed[a] = Total(removed) + removed'[a]
      BY <3>1, <3>2, Ends, TotalOfChange
    <3>5. /\ Total(removed) \in Nat /\ Total(removed') \in Nat /\ removed[a] \in Nat
          /\ Total(inCount) - Total(ins) \in Nat
      BY <3>1, Ends, TotalType DEF AgentStep
    <3> QED BY <3>3, <3>4, <3>5
  <2>3. Total(newE') + newE[a] = Total(newE) + newE'[a]
    <3>1. newE \in [Agent -> Nat] /\ newE' \in [Agent -> Nat]
      BY DEF TypeOK
    <3>2. \A b \in Agent : b # a => newE'[b] = newE[b]
      BY DEF AgentStep
    <3> QED BY <3>1, <3>2, Ends, TotalOfChange
  <2>4. Total(ReportedE') + Reported(a, "e") = Total(ReportedE) + Reported(a, "e")'
    <3>1. ReportedE \in [Agent -> Nat] /\ ReportedE' \in [Agent -> Nat]
      BY AccountsType, AccountsTypeNext DEF AccountsTyped
    <3>2. \A b \in Agent : b # a => ReportedE'[b] = ReportedE[b]
      BY <1>10 DEF ReportedE
    <3>3. ReportedE[a] = Reported(a, "e") /\ ReportedE'[a] = Reported(a, "e")'
      BY DEF ReportedE
    <3> QED BY <3>1, <3>2, <3>3, Ends, TotalOfChange
  <2>5. newE'[a] + Reported(a, "e")' = newE[a] + Cardinality(I) + Reported(a, "e")
    BY DEF AgentStep
  <2>6. Total(inCount) + Total(removed) = nE + Total(newE) + Total(ReportedE)
    BY DEF EdgesAccounted, ReportedE
  <2>7. nE' = nE
    BY DEF AgentStep
  <2>8. /\ Total(inCount) \in Nat /\ Total(removed) \in Nat /\ Total(newE) \in Nat
        /\ Total(ReportedE) \in Nat /\ nE \in Nat /\ newE[a] \in Nat /\ Reported(a, "e") \in Nat
        /\ Total(newE') \in Nat /\ Total(ReportedE') \in Nat
        /\ newE'[a] \in Nat /\ Reported(a, "e")' \in Nat /\ Total(ins) \in Nat
        /\ Cardinality(I) \in Nat
    <3>1. Total(ins) \in Nat /\ Cardinality(I) \in Nat
      <4>1. IsFiniteSet(I)
        BY <1>1, Ends, FS_Subset
      <4> QED BY <4>1, <1>3, Ends, TotalType, FS_CardinalityType
    <3>2. newE[a] \in Nat /\ newE'[a] \in Nat
      BY DEF TypeOK
    <3> QED BY <3>1, <3>2, AccountsType, AccountsTypeNext DEF AccountsTyped
  <2>9. Total(newE') + Total(ReportedE') = Total(newE) + Total(ReportedE) + Cardinality(I)
    BY <2>3, <2>4, <2>5, <2>8
  <2>10. Total(inCount') + Total(removed') = Total(inCount) + Total(removed) + Cardinality(I)
    BY <2>1, <2>2, <2>8
  <2>11. Total(inCount') + Total(removed') = nE' + Total(newE') + Total(ReportedE')
    BY <2>6, <2>7, <2>8, <2>9, <2>10
  <2> QED BY <2>11 DEF EdgesAccounted, ReportedE
<1>12. VerticesAccounted'
  <2>1. Total(KnownV') + Cardinality(Known(a, inCount, outCount))
          = Total(KnownV) + Cardinality(Known(a, inCount', outCount'))
    <3>1. KnownV \in [Agent -> Nat] /\ KnownV' \in [Agent -> Nat]
      BY AccountsType, AccountsTypeNext DEF AccountsTyped
    <3>2. \A b \in Agent : b # a => KnownV'[b] = KnownV[b]
      BY <1>7 DEF KnownV
    <3>3. /\ KnownV[a] = Cardinality(Known(a, inCount, outCount))
          /\ KnownV'[a] = Cardinality(Known(a, inCount', outCount'))
      BY DEF KnownV
    <3> QED BY <3>1, <3>2, <3>3, Ends, TotalOfChange
  <2>2. Total(HeldV') + HeldV[a] = Total(HeldV) + HeldV'[a]
    <3>1. HeldV \in [Agent -> Nat] /\ HeldV' \in [Agent -> Nat]
      BY AccountsType, AccountsTypeNext DEF AccountsTyped
    <3>2. \A b \in Agent : b # a => HeldV'[b] = HeldV[b]
      BY <1>10 DEF HeldV, AgentStep
    <3> QED BY <3>1, <3>2, Ends, TotalOfChange
  <2>3. /\ HeldV[a] = Cardinality(newV[a]) + Reported(a, "v")
        /\ HeldV'[a] = Cardinality(newV'[a]) + Reported(a, "v")'
    BY DEF HeldV
  <2>4. Cardinality(newV'[a]) + Reported(a, "v")'
          = Cardinality(NewV(a, ins, I, O)) + Reported(a, "v")
    BY DEF AgentStep
  <2>5. Total(KnownV) = nV + Total(HeldV)
    BY DEF VerticesAccounted, KnownV, HeldV
  <2>6. nV' = nV
    BY DEF AgentStep
  <2>7. /\ Total(KnownV) \in Nat /\ Total(KnownV') \in Nat
        /\ Total(HeldV) \in Nat /\ Total(HeldV') \in Nat /\ nV \in Nat
        /\ Reported(a, "v") \in Nat /\ Reported(a, "v")' \in Nat
        /\ Cardinality(newV[a]) \in Nat /\ Cardinality(newV'[a]) \in Nat
        /\ Cardinality(Known(a, inCount, outCount)) \in Nat
        /\ Cardinality(Known(a, inCount', outCount')) \in Nat
    BY AccountsType, AccountsTypeNext, KnownType DEF AccountsTyped
  <2>8. HeldV'[a] + Cardinality(Known(a, inCount, outCount))
          = HeldV[a] + Cardinality(Known(a, inCount', outCount'))
    BY <1>8, <2>3, <2>4, <2>7
  <2>9. HeldV[a] \in Nat /\ HeldV'[a] \in Nat
    BY <2>3, <2>7
  <2>10. Total(KnownV') + Total(HeldV) = Total(KnownV) + Total(HeldV')
    BY <2>1, <2>2, <2>7, <2>8, <2>9
  <2>11. /\ Total(KnownV) \in Nat /\ Total(KnownV') \in Nat
         /\ Total(HeldV) \in Nat /\ Total(HeldV') \in Nat /\ nV \in Nat
    BY <2>7
  <2>12. Total(KnownV') = nV + Total(HeldV')
    BY <2>5, <2>10, <2>11
  <2> QED BY <2>6, <2>12 DEF VerticesAccounted, KnownV, HeldV
<1> QED BY <1>9, <1>11, <1>12
-----------------------------------------------------------------------------
(* Every step keeps the two counts.                                        *)

LEMMA NewVType ==
  ASSUME TypeOK, NEW a \in Agent, NEW ins, NEW I, NEW O
  PROVE  NewV(a, ins, I, O) \in SUBSET Vertex
BY KnownType DEF NewV, TypeOK

LEMMA SettledStep ==
  ASSUME TypeOK, NEW a \in Agent,
         NEW ins \in [Edge -> Nat], \A e \in Edge : ins[e] > 0 <=> inCount[e] > 0,
         Total(inCount) - Total(ins) \in Nat,
         NEW I \in SUBSET Edge, \A e \in I : Owner[e[2]] = a,
         NEW O \in SUBSET Edge, \A e \in O : Owner[e[1]] = a,
         NEW need \in Int,
         ChangeEdges(ins, I, O),
         removed' = [removed EXCEPT ![a] = @ + (Total(inCount) - Total(ins))],
         Settle(a, need, NewV(a, ins, I, O), newE[a] + Cardinality(I)),
         peer' \in Net, nV' = nV, nE' = nE
  PROVE  AgentStep(a, ins, I, O)
<1>1. Cardinality(I) \in Nat
  BY Ends, FS_Subset, FS_CardinalityType
<1>2. newE[a] + Cardinality(I) \in Nat
  BY <1>1 DEF TypeOK
<1> DEFINE vs == NewV(a, ins, I, O)
           n == newE[a] + Cardinality(I)
<1>3. vs \in SUBSET Vertex /\ n \in Nat /\ Settle(a, need, vs, n)
  BY <1>2, NewVType
<1> HIDE DEF vs, n
<1>4. /\ acks' \in [Agent -> Int] /\ report' \in [Agent -> Seq(Report)]
      /\ newV' \in [Agent -> SUBSET Vertex] /\ newE' \in [Agent -> Nat]
      /\ \A b \in Agent : b # a => /\ report'[b] = report[b]
                                   /\ newV'[b] = newV[b] /\ newE'[b] = newE[b]
      /\ newE'[a] + Reported(a, "e")' = n + Reported(a, "e")
      /\ Cardinality(newV'[a]) + Reported(a, "v")' = Cardinality(vs) + Reported(a, "v")
      /\ newV'[a] \subseteq vs
  BY <1>3, SettleParts
<1>5. inCount' \in [Edge -> Nat] /\ outCount' \in [Edge -> Nat]
  BY PlusPlaces DEF ChangeEdges, TypeOK
<1>6. removed' \in [Agent -> Nat]
  BY DEF TypeOK
<1>7. AgentTypes'
  BY <1>4, <1>5, <1>6 DEF AgentTypes
<1> QED BY <1>4, <1>7 DEF AgentStep, vs, n

LEMMA RecvBeginKeeps ==
  ASSUME CountsInv, NEW a \in Agent, RecvBegin(a)
  PROVE  CountsInv'
<1> DEFINE ins == Single(a)
           blocks == BySource({e \in Edge : Owner[e[2]] = a /\ ins[e] > 0})
           need == acks[a] + Receivers(a, blocks)
<1>1. TypeOK
  BY DEF CountsInv
<1>2. /\ ins \in [Edge -> Nat] /\ \A e \in Edge : ins[e] > 0 <=> inCount[e] > 0
      /\ Total(inCount) - Total(ins) \in Nat
  BY <1>1, SingleFewer DEF TypeOK
<1>3. blocks \in [Agent -> SUBSET Edge] /\ \A e \in blocks[a] : Owner[e[1]] = a
  BY BlocksType
<1>4. need \in Int
  BY <1>1, ReceiversType DEF TypeOK
<1>5. /\ ChangeEdges(ins, {}, blocks[a])
      /\ removed' = [removed EXCEPT ![a] = @ + (Total(inCount) - Total(ins))]
      /\ peer' = Sent(peer, a, "OUT", blocks)
      /\ Settle(a, need, NewV(a, ins, {}, blocks[a]), newE[a])
      /\ phase' \in [Agent -> {"load", "update", "run"}]
      /\ begin' \subseteq Agent
      /\ UNCHANGED <<updates, dirVars, nv, offer, sends>>
  BY <1>1 DEF RecvBegin, Single, TypeOK
<1> HIDE DEF ins, blocks, need
<1>6. peer' \in Net
  BY <1>1, <1>3, <1>5, SentPlaces DEF TypeOK, Net
<1>7. newE[a] + Cardinality({}) = newE[a]
  BY <1>1, FS_EmptySet DEF TypeOK
<1>8. Settle(a, need, NewV(a, ins, {}, blocks[a]), newE[a] + Cardinality({}))
  BY <1>5, <1>7
<1>9. nV' = nV /\ nE' = nE
  BY <1>5 DEF dirVars
<1>10. AgentStep(a, ins, {}, blocks[a])
  BY <1>1, <1>2, <1>3, <1>4, <1>5, <1>6, <1>8, <1>9, SettledStep
<1>11. RestTypes'
  BY <1>1, <1>5 DEF RestTypes, TypeOK, dirVars
<1>12. TypeOK'
  BY <1>10, <1>11, TypeParts, PTL DEF AgentStep
<1>13. NewVKnown' /\ EdgesAccounted' /\ VerticesAccounted'
  BY <1>10, <1>12, AgentStepKeeps
<1>14. UpdatesHere'
  BY <1>5 DEF CountsInv, UpdatesHere
<1> QED BY <1>12, <1>13, <1>14 DEF CountsInv

LEMMA RecvOfferKeeps ==
  ASSUME CountsInv, NEW a \in Agent, RecvOffer(a)
  PROVE  CountsInv'
<1> DEFINE I == updates[a]
           blocks == BySource(I)
           need == acks[a] + Receivers(a, blocks)
<1>1. TypeOK
  BY DEF CountsInv
<1>2. I \in SUBSET Edge /\ \A e \in I : Owner[e[2]] = a
  BY <1>1 DEF TypeOK, CountsInv, UpdatesHere
<1>3. blocks \in [Agent -> SUBSET Edge] /\ \A e \in blocks[a] : Owner[e[1]] = a
  BY <1>2, BlocksType
<1>4. need \in Int
  BY <1>1, ReceiversType DEF TypeOK
<1>5. /\ ChangeEdges(inCount, I, blocks[a])
      /\ peer' = Sent(peer, a, "IN", blocks)
      /\ Settle(a, need, NewV(a, inCount, I, blocks[a]), newE[a] + Cardinality(I))
      /\ phase' \in [Agent -> {"load", "update", "run"}]
      /\ updates' = [updates EXCEPT ![a] = {}]
      /\ offer' \subseteq Agent
      /\ UNCHANGED <<removed, dirVars, begin, nv, sends>>
  BY <1>1 DEF RecvOffer, TypeOK
<1> HIDE DEF I, blocks, need
<1>6. peer' \in Net
  BY <1>1, <1>3, <1>5, SentPlaces DEF TypeOK, Net
<1>7. inCount \in [Edge -> Nat] /\ Total(inCount) \in Nat /\ removed \in [Agent -> Nat]
  BY <1>1, Ends, TotalType DEF TypeOK
<1>8. /\ Total(inCount) - Total(inCount) \in Nat
      /\ removed' = [removed EXCEPT ![a] = @ + (Total(inCount) - Total(inCount))]
  BY <1>5, <1>7
<1>9. nV' = nV /\ nE' = nE
  BY <1>5 DEF dirVars
<1>10. AgentStep(a, inCount, I, blocks[a])
  BY <1>1, <1>2, <1>3, <1>4, <1>5, <1>6, <1>7, <1>8, <1>9, SettledStep
<1>11. RestTypes'
  BY <1>1, <1>5 DEF RestTypes, TypeOK, dirVars
<1>12. TypeOK'
  BY <1>10, <1>11, TypeParts, PTL DEF AgentStep
<1>13. NewVKnown' /\ EdgesAccounted' /\ VerticesAccounted'
  BY <1>10, <1>12, AgentStepKeeps
<1>14. UpdatesHere'
  BY <1>1, <1>5 DEF CountsInv, UpdatesHere, TypeOK
<1> QED BY <1>12, <1>13, <1>14 DEF CountsInv

LEMMA RecvAckKeeps ==
  ASSUME CountsInv, NEW a \in Agent, NEW b \in Agent, RecvAck(a, b)
  PROVE  CountsInv'
<1>1. TypeOK
  BY DEF CountsInv
<1>2. /\ peer[b][a] # <<>> /\ peer' = [peer EXCEPT ![b][a] = Tail(@)]
      /\ Settle(a, acks[a] - 1, newV[a], newE[a])
      /\ UNCHANGED <<graphVars, phase, updates, removed, dirVars, begin, nv, offer, sends>>
  BY DEF RecvAck
<1>3. inCount \in [Edge -> Nat] /\ outCount \in [Edge -> Nat] /\ Total(inCount) \in Nat
  BY <1>1, Ends, TotalType DEF TypeOK
<1>4. ChangeEdges(inCount, {}, {})
  BY <1>2, <1>3, PlusPlaces DEF ChangeEdges, graphVars
<1>5. NewV(a, inCount, {}, {}) = newV[a]
  <2>1. Plus(inCount, {}) = inCount /\ Plus(outCount, {}) = outCount
    BY <1>3, PlusPlaces
  <2>2. Known(a, inCount, outCount) \ Known(a, inCount, outCount) = {}
    OBVIOUS
  <2> QED BY <2>1, <2>2 DEF NewV
<1>6. newE[a] + Cardinality({}) = newE[a]
  BY <1>1, FS_EmptySet DEF TypeOK
<1>7. Settle(a, acks[a] - 1, NewV(a, inCount, {}, {}), newE[a] + Cardinality({}))
  BY <1>2, <1>5, <1>6
<1>8. peer' \in Net
  BY <1>1, <1>2, QueuePlaces DEF TypeOK, Net
<1>9. /\ Total(inCount) - Total(inCount) \in Nat
      /\ removed' = [removed EXCEPT ![a] = @ + (Total(inCount) - Total(inCount))]
  BY <1>1, <1>2, <1>3 DEF TypeOK
<1>10. nV' = nV /\ nE' = nE /\ acks[a] - 1 \in Int
  BY <1>1, <1>2 DEF dirVars, TypeOK
<1>11. AgentStep(a, inCount, {}, {})
  BY <1>1, <1>3, <1>4, <1>7, <1>8, <1>9, <1>10, SettledStep
<1>12. RestTypes'
  BY <1>1, <1>2 DEF RestTypes, TypeOK, dirVars
<1>13. TypeOK'
  BY <1>11, <1>12, TypeParts, PTL DEF AgentStep
<1>14. NewVKnown' /\ EdgesAccounted' /\ VerticesAccounted'
  BY <1>11, <1>13, AgentStepKeeps
<1>15. UpdatesHere'
  BY <1>2 DEF CountsInv, UpdatesHere
<1> QED BY <1>13, <1>14, <1>15 DEF CountsInv
(* A handler that inserts edges and sends no report.                       *)
LEMMA CountedStep ==
  ASSUME TypeOK, NEW a \in Agent,
         NEW I \in SUBSET Edge, \A e \in I : Owner[e[2]] = a,
         NEW O \in SUBSET Edge, \A e \in O : Owner[e[1]] = a,
         ChangeEdges(inCount, I, O),
         newV' = [newV EXCEPT ![a] = NewV(a, inCount, I, O)],
         newE' = [newE EXCEPT ![a] = @ + Cardinality(I)],
         acks' \in [Agent -> Int], peer' \in Net,
         removed' = removed, report' = report, nV' = nV, nE' = nE
  PROVE  AgentStep(a, inCount, I, O)
<1>1. Cardinality(I) \in Nat
  BY Ends, FS_Subset, FS_CardinalityType
<1>2. NewV(a, inCount, I, O) \in SUBSET Vertex
  BY NewVType
<1>3. inCount' \in [Edge -> Nat] /\ outCount' \in [Edge -> Nat]
  BY PlusPlaces DEF ChangeEdges, TypeOK
<1>4. /\ newV' \in [Agent -> SUBSET Vertex] /\ newV'[a] = NewV(a, inCount, I, O)
      /\ newE' \in [Agent -> Nat] /\ newE'[a] = newE[a] + Cardinality(I)
      /\ \A b \in Agent : b # a => newV'[b] = newV[b] /\ newE'[b] = newE[b]
  BY <1>1, <1>2 DEF TypeOK
<1>5. AgentTypes'
  BY <1>3, <1>4 DEF AgentTypes, TypeOK
<1>6. Reported(a, "e")' = Reported(a, "e") /\ Reported(a, "v")' = Reported(a, "v")
  BY DEF Reported
<1>7. inCount \in [Edge -> Nat] /\ Total(inCount) \in Nat /\ removed \in [Agent -> Nat]
  BY SMTT(30), Ends, TotalType DEF TypeOK
<1>8. /\ Total(inCount) - Total(inCount) \in Nat
      /\ removed' = [removed EXCEPT ![a] = @ + (Total(inCount) - Total(inCount))]
  BY <1>7
<1> QED BY <1>4, <1>5, <1>6, <1>7, <1>8 DEF AgentStep

LEMMA RecvBlockKeeps ==
  ASSUME CountsInv, NEW a \in Agent, NEW b \in Agent, RecvBlock(a, b)
  PROVE  CountsInv'
<1> DEFINE m == Head(peer[b][a])
           blocks == IF m.type = "IN" THEN ByDestination(m.edges) ELSE BySource(m.edges)
           I == IF m.type = "IN" THEN blocks[a] ELSE {}
           O == IF m.type = "OUT" THEN blocks[a] ELSE {}
           taken == [peer EXCEPT ![b][a] = Tail(@)]
           moved == Sent(taken, a, m.type, blocks)
           ack == [type |-> "ACK", edges |-> {}]
<1>1. TypeOK
  BY DEF CountsInv
<1>2. peer[b][a] # <<>> /\ m.type # "ACK"
  BY ZenonT(60) DEF RecvBlock
<1>3. /\ ChangeEdges(inCount, I, O)
      /\ newV' = [newV EXCEPT ![a] = NewV(a, inCount, I, O)]
      /\ newE' = [newE EXCEPT ![a] = @ + Cardinality(I)]
      /\ peer' = [moved EXCEPT ![a][b] = Append(@, ack)]
      /\ acks' = [acks EXCEPT ![a] = @ + Receivers(a, blocks)]
      /\ UNCHANGED <<phase, updates, removed, dirVars, begin, nv, offer, report, sends>>
  BY DEF RecvBlock
<1>4. peer \in Net
  BY <1>1 DEF TypeOK, Net
<1>5. m \in Block \cup Ack /\ taken \in Net
  BY <1>2, <1>4, QueuePlaces
<1> HIDE DEF m
<1>6. m.type \in {"IN", "OUT"} /\ m.edges \in SUBSET Edge
  BY <1>2, <1>5 DEF Block, Ack
<1>7. blocks \in [Agent -> SUBSET Edge]
  BY <1>6, BlocksType
<1>8. /\ I \in SUBSET Edge /\ O \in SUBSET Edge
      /\ \A e \in I : Owner[e[2]] = a
      /\ \A e \in O : Owner[e[1]] = a
  BY <1>6, BlocksType
<1> HIDE DEF blocks, I, O, taken
<1>9. moved \in Net
  BY <1>5, <1>6, <1>7, SentPlaces
<1>10. ack \in Block \cup Ack
  BY DEF Ack
<1> HIDE DEF moved, ack
<1>11. peer' \in Net
  BY <1>3, <1>9, <1>10, QueuePlaces
<1>12. acks' \in [Agent -> Int]
  <2>1. Receivers(a, blocks) \in Int
    BY ReceiversType
  <2> QED BY SMTT(30), <1>1, <1>3, <2>1 DEF TypeOK
<1>13. removed' = removed /\ report' = report /\ nV' = nV /\ nE' = nE
  BY <1>3 DEF dirVars
<1>14. AgentStep(a, inCount, I, O)
  BY <1>1, <1>3, <1>8, <1>11, <1>12, <1>13, CountedStep
<1>15. RestTypes'
  BY <1>1, <1>3 DEF RestTypes, TypeOK, dirVars
<1>16. TypeOK'
  BY <1>14, <1>15, TypeParts, PTL DEF AgentStep
<1>17. NewVKnown' /\ EdgesAccounted' /\ VerticesAccounted'
  BY <1>14, <1>16, AgentStepKeeps
<1>18. UpdatesHere'
  BY <1>3 DEF CountsInv, UpdatesHere
<1> QED BY <1>16, <1>17, <1>18 DEF CountsInv

(* A step that leaves both counts alone.                                   *)
LEMMA CountsUnchanged ==
  ASSUME CountsInv, TypeOK',
         UNCHANGED <<graphVars, newV, newE, removed, nV, nE, report>>
  PROVE  NewVKnown' /\ EdgesAccounted' /\ VerticesAccounted'
<1> USE DEF CountsInv, graphVars
<1>1. NewVKnown'
  BY DEF NewVKnown, Known
<1>2. EdgesAccounted'
  BY DEF EdgesAccounted, Total, Units, Reported
<1>3. VerticesAccounted'
  BY DEF VerticesAccounted, Total, Units, Reported, Known
<1> QED BY <1>1, <1>2, <1>3

LEMMA RecvUpdateEdgeKeeps ==
  ASSUME CountsInv, NEW e \in Edge, RecvUpdateEdge(e)
  PROVE  CountsInv'
<1> DEFINE a == Owner[e[2]]
<1>1. TypeOK /\ a \in Agent
  BY Ends DEF CountsInv
<1>2. /\ sends' \in 0 .. MaxSends
      /\ UNCHANGED <<phase, removed, acks, dirVars, netVars>>
  BY <1>1, GraphAssumption DEF RecvUpdateEdge, TypeOK
<1>3. CASE /\ e \in Loaded
           /\ ChangeEdges(inCount, {e}, {})
           /\ newV' = [newV EXCEPT ![a] = NewV(a, inCount, {e}, {})]
           /\ newE' = [newE EXCEPT ![a] = @ + 1]
           /\ UNCHANGED updates
  <2>1. Cardinality({e}) = 1
    BY FS_Singleton
  <2>2. newE' = [newE EXCEPT ![a] = @ + Cardinality({e})]
    BY <1>3, <2>1
  <2>3. acks' \in [Agent -> Int] /\ peer' \in Net
    BY <1>1, <1>2 DEF TypeOK, Net, netVars
  <2>4. removed' = removed /\ report' = report /\ nV' = nV /\ nE' = nE
    BY <1>2 DEF dirVars, netVars
  <2>5. AgentStep(a, inCount, {e}, {})
    BY <1>1, <1>3, <2>2, <2>3, <2>4, CountedStep
  <2>6. RestTypes'
    BY <1>1, <1>2, <1>3 DEF RestTypes, TypeOK, dirVars, netVars
  <2>7. TypeOK'
    BY <2>5, <2>6, TypeParts, PTL DEF AgentStep
  <2>8. NewVKnown' /\ EdgesAccounted' /\ VerticesAccounted'
    BY <1>1, <2>5, <2>7, AgentStepKeeps
  <2>9. UpdatesHere'
    BY <1>3 DEF CountsInv, UpdatesHere
  <2> QED BY <2>7, <2>8, <2>9 DEF CountsInv
<1>4. CASE /\ e \in Streamed
           /\ updates' = [updates EXCEPT ![a] = @ \cup {e}]
           /\ UNCHANGED <<graphVars, newV, newE>>
  <2>1. TypeOK'
    BY <1>1, <1>2, <1>4 DEF TypeOK, dirVars, netVars, graphVars
  <2>2. NewVKnown' /\ EdgesAccounted' /\ VerticesAccounted'
    BY <1>2, <1>4, <2>1, CountsUnchanged DEF dirVars, netVars
  <2>3. UpdatesHere'
    BY <1>1, <1>4 DEF CountsInv, UpdatesHere, TypeOK
  <2> QED BY <2>1, <2>2, <2>3 DEF CountsInv
<1> QED BY <1>3, <1>4 DEF RecvUpdateEdge

LEMMA RecvNvKeeps ==
  ASSUME CountsInv, NEW a \in Agent, RecvNv(a)
  PROVE  CountsInv'
<1>1. /\ nv' = nv \ {a} /\ phase' = [phase EXCEPT ![a] = "run"]
      /\ UNCHANGED <<graphVars, updates, newV, newE, removed, acks, dirVars, begin,
                     offer, report, peer, sends>>
  BY DEF RecvNv
<1>2. TypeOK'
  BY <1>1 DEF CountsInv, TypeOK, dirVars, graphVars
<1>3. NewVKnown' /\ EdgesAccounted' /\ VerticesAccounted'
  BY <1>1, <1>2, CountsUnchanged DEF dirVars
<1>4. UpdatesHere'
  BY <1>1 DEF CountsInv, UpdatesHere
<1> QED BY <1>2, <1>3, <1>4 DEF CountsInv

LEMMA DirHaveUpdateKeeps ==
  ASSUME CountsInv, DirHaveUpdate
  PROVE  CountsInv'
<1>1. /\ offer' = Agent
      /\ UNCHANGED <<graphVars, agentVars, dirVars, begin, nv, report, peer, sends>>
  BY DEF DirHaveUpdate
<1>2. TypeOK'
  BY <1>1 DEF CountsInv, TypeOK, dirVars, graphVars, agentVars
<1>3. NewVKnown' /\ EdgesAccounted' /\ VerticesAccounted'
  BY <1>1, <1>2, CountsUnchanged DEF dirVars, agentVars
<1>4. UpdatesHere'
  BY <1>1 DEF CountsInv, UpdatesHere, agentVars
<1> QED BY <1>2, <1>3, <1>4 DEF CountsInv

(* A report taken: what it holds moves into nV and nE.                     *)
LEMMA DirReadyKeeps ==
  ASSUME CountsInv, NEW a \in Agent, DirReady(a)
  PROVE  CountsInv'
<1> DEFINE m == Head(report[a])
<1>1. TypeOK
  BY DEF CountsInv
<1>2. /\ report[a] # <<>> /\ report' = [report EXCEPT ![a] = Tail(@)]
      /\ nV' = nV + m.v /\ nE' = nE + m.e
      /\ UNCHANGED <<graphVars, agentVars, begin, offer, peer, sends>>
  BY DEF DirReady
<1>3. report[a] \in Seq(Report)
  BY <1>1 DEF TypeOK
<1>4. m \in Report /\ Tail(report[a]) \in Seq(Report)
  BY <1>2, <1>3, TailPlaces
<1>5. /\ report' \in [Agent -> Seq(Report)] /\ report'[a] = Tail(report[a])
      /\ \A b \in Agent : b # a => report'[b] = report[b]
  BY <1>1, <1>2, <1>4 DEF TypeOK
<1>6. Reported(a, "e") = Reported(a, "e")' + m["e"]
  BY <1>2, <1>3, <1>5, ReportedPlaces DEF Reported
<1>7. Reported(a, "v") = Reported(a, "v")' + m["v"]
  BY <1>2, <1>3, <1>5, ReportedPlaces DEF Reported
<1>8. m["e"] \in Nat /\ m["v"] \in Nat /\ nE' = nE + m["e"] /\ nV' = nV + m["v"]
  BY <1>2, <1>4 DEF Report
<1> HIDE DEF m
<1>9. readyCtr' \in 0 .. Cardinality(Agent) - 1 /\ nv' \subseteq Agent
  <2>1. Cardinality(Agent) \in Nat /\ Cardinality(Agent) # 0
    BY GraphAssumption, FS_CardinalityType, FS_EmptySet
  <2> QED BY <1>1, <2>1 DEF DirReady, TypeOK
<1>10. TypeOK'
  <2>1. nE \in Nat /\ nV \in Nat
    BY <1>1 DEF TypeOK
  <2>2. nE' \in Nat /\ nV' \in Nat
    BY <1>8, <2>1
  <2> QED BY <1>1, <1>2, <1>5, <1>9, <2>2 DEF TypeOK, graphVars, agentVars
<1>11. \A b \in Agent : b # a => /\ Reported(b, "e")' = Reported(b, "e")
                                 /\ Reported(b, "v")' = Reported(b, "v")
  BY <1>5 DEF Reported
<1>12. AccountsTyped /\ AccountsTyped'
  BY <1>1, <1>10, AccountsType, AccountsTypeNext
<1>13. /\ inCount' = inCount /\ removed' = removed /\ newE' = newE
       /\ newV' = newV /\ outCount' = outCount
  BY <1>2 DEF graphVars, agentVars
<1>14. EdgesAccounted'
  <2>1. \A b \in Agent : b # a => ReportedE'[b] = ReportedE[b]
    BY <1>11 DEF ReportedE
  <2>2. Total(ReportedE') + ReportedE[a] = Total(ReportedE) + ReportedE'[a]
    <3>1. ReportedE \in [Agent -> Nat] /\ ReportedE' \in [Agent -> Nat]
      BY <1>12 DEF AccountsTyped
    <3> QED BY <2>1, <3>1, Ends, TotalOfChange
  <2>3. ReportedE[a] = Reported(a, "e") /\ ReportedE'[a] = Reported(a, "e")'
    BY DEF ReportedE
  <2>4. /\ Total(ReportedE) \in Nat /\ Total(ReportedE') \in Nat /\ nE \in Nat
        /\ Total(newE) \in Nat /\ Reported(a, "e")' \in Nat
    BY <1>12 DEF AccountsTyped
  <2>5. Total(ReportedE') + m["e"] = Total(ReportedE)
    BY <1>6, <1>8, <2>2, <2>3, <2>4
  <2>6. nE + Total(newE) + Total(ReportedE) = (nE + m["e"]) + Total(newE) + Total(ReportedE')
    BY <1>8, <2>4, <2>5
  <2>7. Total(inCount) + Total(removed) = nE + Total(newE) + Total(ReportedE)
    BY DEF CountsInv, EdgesAccounted, ReportedE
  <2>8. Total(inCount') + Total(removed') = nE' + Total(newE') + Total(ReportedE')
    BY <1>8, <1>13, <2>6, <2>7
  <2> QED BY <2>8 DEF EdgesAccounted, ReportedE
<1>15. VerticesAccounted'
  <2>1. \A b \in Agent : b # a => HeldV'[b] = HeldV[b]
    BY <1>11, <1>13 DEF HeldV
  <2>2. Total(HeldV') + HeldV[a] = Total(HeldV) + HeldV'[a]
    <3>1. HeldV \in [Agent -> Nat] /\ HeldV' \in [Agent -> Nat]
      BY <1>12 DEF AccountsTyped
    <3> QED BY <2>1, <3>1, Ends, TotalOfChange
  <2>3. /\ HeldV[a] = Cardinality(newV[a]) + Reported(a, "v")
        /\ HeldV'[a] = Cardinality(newV[a]) + Reported(a, "v")'
    BY <1>13 DEF HeldV
  <2>4. /\ Total(HeldV) \in Nat /\ Total(HeldV') \in Nat /\ nV \in Nat
        /\ Cardinality(newV[a]) \in Nat /\ Reported(a, "v")' \in Nat
    BY <1>12 DEF AccountsTyped
  <2>5. Total(HeldV') + m["v"] = Total(HeldV)
    BY <1>7, <1>8, <2>2, <2>3, <2>4
  <2>6. nV + Total(HeldV) = (nV + m["v"]) + Total(HeldV')
    BY <1>8, <2>4, <2>5
  <2>7. Total(KnownV) = nV + Total(HeldV)
    BY DEF CountsInv, VerticesAccounted, KnownV, HeldV
  <2>8. KnownV' = KnownV
    BY <1>13 DEF KnownV
  <2>9. Total(KnownV') = nV' + Total(HeldV')
    BY <1>8, <2>6, <2>7, <2>8
  <2> QED BY <2>9 DEF VerticesAccounted, KnownV, HeldV
<1>16. NewVKnown'
  BY <1>13 DEF CountsInv, NewVKnown
<1>17. UpdatesHere'
  BY <1>2 DEF CountsInv, UpdatesHere, agentVars
<1> QED BY <1>10, <1>14, <1>15, <1>16, <1>17 DEF CountsInv
LEMMA CountsHoldFirst == Init => CountsInv
<1> SUFFICES ASSUME Init PROVE CountsInv
  OBVIOUS
<1>1. Cardinality(Agent) \in Nat /\ Cardinality(Agent) # 0
  BY GraphAssumption, FS_CardinalityType, FS_EmptySet
<1>2. \A S : <<>> \in Seq(S)
  OBVIOUS
<1>3. TypeOK
  <2>1. readyCtr \in 0 .. Cardinality(Agent) - 1 /\ sends \in 0 .. MaxSends
    BY <1>1, GraphAssumption DEF Init
  <2>2. report \in [Agent -> Seq(Report)] /\ peer \in [Agent -> [Agent -> Seq(Block \cup Ack)]]
    BY <1>2 DEF Init
  <2> QED BY <2>1, <2>2 DEF Init, TypeOK
<1>4. UpdatesHere /\ NewVKnown
  BY DEF Init, UpdatesHere, NewVKnown
<1>5. AccountsTyped
  BY <1>3, AccountsType
<1>6. \A a \in Agent : Reported(a, "e") = 0 /\ Reported(a, "v") = 0
  <2>1. ASSUME NEW a \in Agent, NEW v \in {"v", "e"} PROVE Reported(a, v) = 0
    <3>1. report[a] = <<>> /\ DOMAIN report[a] = {}
      BY DEF Init
    <3>2. Reported(a, v) = Total([i \in {} |-> report[a][i][v]])
      BY <3>1 DEF Reported
    <3>3. [i \in {} |-> report[a][i][v]] \in [{} -> Nat]
      OBVIOUS
    <3> QED BY <3>2, <3>3, TotalOfNothing
  <2> QED BY <2>1
<1>7. EdgesAccounted
  <2>1. Total(inCount) = 0
    BY <1>5, TotalOfNothing DEF AccountsTyped, Init
  <2>2. Total(removed) = 0
    BY <1>5, TotalOfNothing DEF AccountsTyped, Init
  <2>3. Total(newE) = 0
    BY <1>5, TotalOfNothing DEF AccountsTyped, Init
  <2>4. \A a \in Agent : ReportedE[a] = 0
    BY <1>6 DEF ReportedE
  <2>5. Total(ReportedE) = 0
    BY <1>5, <2>4, TotalOfNothing DEF AccountsTyped
  <2>6. nE = 0
    BY DEF Init
  <2>7. Total(inCount) + Total(removed) = nE + Total(newE) + Total(ReportedE)
    BY <2>1, <2>2, <2>3, <2>5, <2>6
  <2> QED BY <2>7 DEF EdgesAccounted, ReportedE
<1>8. VerticesAccounted
  <2>1. \A a \in Agent : KnownV[a] = 0
    <3>1. \A a \in Agent : Known(a, inCount, outCount) = {}
      BY DEF Init, Known
    <3> QED BY <3>1, FS_EmptySet DEF KnownV
  <2>2. \A a \in Agent : HeldV[a] = 0
    <3>1. \A a \in Agent : newV[a] = {}
      BY DEF Init
    <3> QED BY <1>6, <3>1, FS_EmptySet DEF HeldV
  <2>3. Total(KnownV) = 0
    BY <1>5, <2>1, TotalOfNothing DEF AccountsTyped
  <2>4. Total(HeldV) = 0
    BY <1>5, <2>2, TotalOfNothing DEF AccountsTyped
  <2>5. nV = 0
    BY DEF Init
  <2>6. Total(KnownV) = nV + Total(HeldV)
    BY <2>3, <2>4, <2>5
  <2> QED BY <2>6 DEF VerticesAccounted, KnownV, HeldV
<1> QED BY <1>3, <1>4, <1>7, <1>8 DEF CountsInv

LEMMA CountsStutter ==
  ASSUME CountsInv, UNCHANGED vars
  PROVE  CountsInv'
<1>1. UNCHANGED <<graphVars, agentVars, dirVars, netVars, sends>>
  BY DEF vars
<1>2. TypeOK'
  BY <1>1 DEF CountsInv, TypeOK, graphVars, agentVars, dirVars, netVars
<1>3. NewVKnown' /\ EdgesAccounted' /\ VerticesAccounted'
  BY <1>1, <1>2, CountsUnchanged DEF agentVars, dirVars, netVars
<1>4. UpdatesHere'
  BY <1>1 DEF CountsInv, UpdatesHere, agentVars
<1> QED BY <1>2, <1>3, <1>4 DEF CountsInv

LEMMA CountsStep == CountsInv /\ [Next]_vars => CountsInv'
<1> SUFFICES ASSUME CountsInv, [Next]_vars PROVE CountsInv'
  OBVIOUS
<1>1. ASSUME NEW a \in Agent, RecvBegin(a) \/ RecvOffer(a) \/ RecvNv(a) \/ DirReady(a)
      PROVE  CountsInv'
  BY <1>1, RecvBeginKeeps, RecvOfferKeeps, RecvNvKeeps, DirReadyKeeps
<1>2. ASSUME NEW a \in Agent, NEW b \in Agent, RecvBlock(a, b) \/ RecvAck(a, b)
      PROVE  CountsInv'
  BY <1>2, RecvBlockKeeps, RecvAckKeeps
<1>3. ASSUME NEW e \in Edge, RecvUpdateEdge(e)
      PROVE  CountsInv'
  BY <1>3, RecvUpdateEdgeKeeps
<1>4. CASE DirHaveUpdate
  BY <1>4, DirHaveUpdateKeeps
<1>5. CASE Rest \/ UNCHANGED vars
  BY <1>5, CountsStutter DEF Rest
<1> QED BY <1>1, <1>2, <1>3, <1>4, <1>5 DEF Next

LEMMA CountsInvariant == Spec => []CountsInv
BY CountsHoldFirst, CountsStep, PTL DEF Spec

(* The variables of the graph and its batches keep their types; among them *)
(* the directory's ready_ctr_ stays below the number of agents, and no     *)
(* more entries of an edge are removed than there are.                     *)
THEOREM GraphTyped == Spec => []TypeOK
<1>1. CountsInv => TypeOK
  BY DEF CountsInv
<1> QED BY <1>1, CountsInvariant, PTL

(* Every IN edge in the graph is in the directory's nE, or in one agent's  *)
(* update_nE_, or in one report on its way, once: for every assignment of  *)
(* vertices to agents, either command, repeated edges or not.              *)
THEOREM NoEdgeIsLost == Spec => []EdgesAccounted
<1>1. CountsInv => EdgesAccounted
  BY DEF CountsInv
<1> QED BY <1>1, CountsInvariant, PTL

(* The same of the vertices with an edge, nV and update_nV_set_.           *)
THEOREM NoVertexIsLost == Spec => []VerticesAccounted
<1>1. CountsInv => VerticesAccounted
  BY DEF CountsInv
<1> QED BY <1>1, CountsInvariant, PTL
-----------------------------------------------------------------------------
(* The inductive invariant for the OUT edges.                              *)

(* After START, and if the edges that come while the agents compute stay   *)
(* within an agent.  Otherwise an edge may reach its owner in the middle   *)
(* of a batch, and its OUT edge waits for the next one.                    *)
LocalStreams ==
  /\ Command = "START"
  /\ \A e \in Streamed : Owner[e[1]] = Owner[e[2]]

Holds(q, type) == \E i \in DOMAIN q : q[i].type = type
Carries(q, e)  == \E i \in DOMAIN q : e \in q[i].edges
OneOfEach(q)   == \A i, j \in DOMAIN q : q[i].type = q[j].type => i = j

(* Between two agents there is at most one block of OUT edges and one      *)
(* acknowledgement each way, and a block is not acknowledged before it has *)
(* arrived.                                                                *)
Between(a, b, m) ==
  /\ m.type # "IN"
  /\ \A e \in m.edges : Owner[e[2]] = a /\ Owner[e[1]] = b
Link(a, b) ==
  /\ OneOfEach(peer[a][b])
  /\ \A i \in DOMAIN peer[a][b] : Between(a, b, peer[a][b][i])
  /\ ~(Holds(peer[a][b], "OUT") /\ Holds(peer[b][a], "ACK"))
Links == \A a, b \in Agent : Link(a, b) /\ (a = b => peer[a][b] = <<>>)

(* An agent waits for as many acknowledgements as there are blocks of its  *)
(* that have not arrived, or whose acknowledgement has not.                *)
Unacknowledged(a) == {b \in Agent : Holds(peer[a][b], "OUT") \/ Holds(peer[b][a], "ACK")}
AcksCounted == \A a \in Agent : acks[a] = Cardinality(Unacknowledged(a))

(* An IN edge has no OUT edge before DO_START has reached its agent, and   *)
(* afterwards has one in the graph or on the way there.                    *)
OnItsWay(e) == Carries(peer[Owner[e[2]]][Owner[e[1]]], e)
Matched(e) ==
  IF Owner[e[2]] \in begin
  THEN outCount[e] = 0 /\ ~OnItsWay(e)
  ELSE inCount[e] = outCount[e] + IF OnItsWay(e) THEN 1 ELSE 0
CopiesMade == \A e \in Edge : Matched(e)

(* A batch: the agents start it one by one, report once each when nothing  *)
(* of theirs is unacknowledged, and the last report ends it.               *)
Settled == {a \in Agent : a \notin begin \cup offer /\ acks[a] = 0}
Counted == {a \in Settled : report[a] = <<>>}
Collecting ==
  /\ nv = {} /\ (begin = {} \/ offer = {})
  /\ \A a \in Agent :
       /\ phase[a] = IF a \in begin THEN "load" ELSE IF a \in offer THEN "run" ELSE "update"
       /\ a \in begin \cup offer => acks[a] = 0
       /\ Len(report[a]) <= 1
       /\ report[a] # <<>> => a \in Settled
  /\ readyCtr = Cardinality(Counted) /\ Counted # Agent
Releasing ==
  /\ begin = {} /\ offer = {} /\ readyCtr = 0
  /\ \A a \in Agent : /\ phase[a] = IF a \in nv THEN "update" ELSE "run"
                      /\ report[a] = <<>> /\ acks[a] = 0
Rounds == Collecting \/ Releasing

CopiesInv ==
  /\ CountsInv
  /\ LocalStreams
  /\ Links
  /\ AcksCounted
  /\ CopiesMade
  /\ Rounds

-----------------------------------------------------------------------------
(* Messages put and taken.                                                 *)

Message == Block \cup Ack

LEMMA MessageType ==
  /\ \A m \in Message : /\ m.type \in {"IN", "OUT", "ACK"} /\ m.edges \in SUBSET Edge
                        /\ m.type = "ACK" => m.edges = {}
  /\ [type |-> "ACK", edges |-> {}] \in Message
  /\ \A S \in SUBSET Edge : [type |-> "OUT", edges |-> S] \in Message
BY DEF Message, Block, Ack

LEMMA PutMessage ==
  ASSUME NEW q \in Seq(Message), NEW m \in Message
  PROVE  /\ \A t : Holds(Append(q, m), t) <=> Holds(q, t) \/ m.type = t
         /\ \A e : Carries(Append(q, m), e) <=> Carries(q, e) \/ e \in m.edges
         /\ OneOfEach(q) /\ ~Holds(q, m.type) => OneOfEach(Append(q, m))
         /\ \A a, b : (\A i \in DOMAIN q : Between(a, b, q[i])) /\ Between(a, b, m)
                        => \A i \in DOMAIN Append(q, m) : Between(a, b, Append(q, m)[i])
<1> DEFINE p == Append(q, m)
           n == Len(q)
<1>1. /\ n \in Nat /\ DOMAIN q = 1 .. n /\ DOMAIN p = 1 .. n + 1
      /\ \A i \in 1 .. n : p[i] = q[i]
      /\ p[n + 1] = m
  BY AppendPlaces
<1>2. \A i \in 1 .. n + 1 : i \in 1 .. n \/ i = n + 1
  BY <1>1
<1>3. \A i \in 1 .. n : i \in 1 .. n + 1
  BY <1>1
<1>4. n + 1 \in 1 .. n + 1
  BY <1>1
<1> HIDE DEF p, n
<1>5. \A t : Holds(p, t) <=> Holds(q, t) \/ m.type = t
  BY <1>1, <1>2, <1>3, <1>4 DEF Holds
<1>6. \A e : Carries(p, e) <=> Carries(q, e) \/ e \in m.edges
  BY <1>1, <1>2, <1>3, <1>4 DEF Carries
<1>7. OneOfEach(q) /\ ~Holds(q, m.type) => OneOfEach(p)
  BY <1>1, <1>2 DEF OneOfEach, Holds
<1>8. \A a, b : (\A i \in DOMAIN q : Between(a, b, q[i])) /\ Between(a, b, m)
                  => \A i \in DOMAIN p : Between(a, b, p[i])
  BY <1>1, <1>2
<1> QED BY <1>5, <1>6, <1>7, <1>8 DEF p

LEMMA TakeMessage ==
  ASSUME NEW q \in Seq(Message), q # <<>>
  PROVE  /\ Head(q) \in Message /\ Tail(q) \in Seq(Message)
         /\ Holds(q, Head(q).type)
         /\ \A t : t # Head(q).type => (Holds(Tail(q), t) <=> Holds(q, t))
         /\ \A e : Carries(q, e) <=> e \in Head(q).edges \/ Carries(Tail(q), e)
         /\ OneOfEach(q) => OneOfEach(Tail(q)) /\ ~Holds(Tail(q), Head(q).type)
         /\ \A a, b : (\A i \in DOMAIN q : Between(a, b, q[i]))
                        => /\ Between(a, b, Head(q))
                           /\ \A i \in DOMAIN Tail(q) : Between(a, b, Tail(q)[i])
<1> DEFINE p == Tail(q)
           n == Len(q)
           m == Head(q)
<1>1. /\ m \in Message /\ p \in Seq(Message) /\ m = q[1]
      /\ n \in Nat \ {0} /\ DOMAIN q = 1 .. n /\ DOMAIN p = 1 .. n - 1
      /\ \A i \in 1 .. n - 1 : p[i] = q[i + 1]
  BY TailPlaces
<1>2. \A i \in 1 .. n : i = 1 \/ (i - 1 \in 1 .. n - 1 /\ (i - 1) + 1 = i)
  BY <1>1
<1>3. \A i \in 1 .. n - 1 : i + 1 \in 1 .. n /\ i + 1 # 1
  BY <1>1
<1>4. 1 \in 1 .. n
  BY <1>1
<1>5. \A i, j \in 1 .. n - 1 : i + 1 = j + 1 => i = j
  BY <1>1
<1> HIDE DEF p, n, m
<1>6. Holds(q, m.type) /\ \A t : t # m.type => (Holds(p, t) <=> Holds(q, t))
  <2>1. Holds(q, m.type)
    BY <1>1, <1>4 DEF Holds
  <2>2. ASSUME NEW t, Holds(p, t) PROVE Holds(q, t)
    BY <1>1, <1>3, <2>2 DEF Holds
  <2>3. ASSUME NEW t, t # m.type, Holds(q, t) PROVE Holds(p, t)
    <3>1. PICK i \in 1 .. n : q[i].type = t
      BY <1>1, <2>3 DEF Holds
    <3>2. i - 1 \in 1 .. n - 1 /\ p[i - 1] = q[i]
      BY <1>1, <1>2, <2>3, <3>1
    <3> QED BY <1>1, <3>1, <3>2 DEF Holds
  <2> QED BY <2>1, <2>2, <2>3
<1>7. \A e : Carries(q, e) <=> e \in m.edges \/ Carries(p, e)
  <2>1. ASSUME NEW e, Carries(p, e) PROVE Carries(q, e)
    BY <1>1, <1>3, <2>1 DEF Carries
  <2>2. ASSUME NEW e, e \in m.edges PROVE Carries(q, e)
    BY <1>1, <1>4, <2>2 DEF Carries
  <2>3. ASSUME NEW e, e \notin m.edges, Carries(q, e) PROVE Carries(p, e)
    <3>1. PICK i \in 1 .. n : e \in q[i].edges
      BY <1>1, <2>3 DEF Carries
    <3>2. i - 1 \in 1 .. n - 1 /\ p[i - 1] = q[i]
      BY <1>1, <1>2, <2>3, <3>1
    <3> QED BY <1>1, <3>1, <3>2 DEF Carries
  <2> QED BY <2>1, <2>2, <2>3
<1>8. OneOfEach(q) => OneOfEach(p) /\ ~Holds(p, m.type)
  <2> SUFFICES ASSUME OneOfEach(q) PROVE OneOfEach(p) /\ ~Holds(p, m.type)
    OBVIOUS
  <2>1. \A i, j \in 1 .. n : q[i].type = q[j].type => i = j
    BY <1>1 DEF OneOfEach
  <2>2. ASSUME NEW i \in 1 .. n - 1, NEW j \in 1 .. n - 1, p[i].type = p[j].type
        PROVE  i = j
    <3>1. i + 1 \in 1 .. n /\ j + 1 \in 1 .. n /\ q[i + 1].type = q[j + 1].type
      BY <1>1, <1>3, <2>2
    <3>2. i + 1 = j + 1
      BY <2>1, <3>1
    <3> QED BY <1>5, <3>2
  <2>3. ASSUME NEW i \in 1 .. n - 1, p[i].type = m.type PROVE FALSE
    <3>1. i + 1 \in 1 .. n /\ i + 1 # 1 /\ q[i + 1].type = q[1].type
      BY <1>1, <1>3, <2>3
    <3> QED BY <1>4, <2>1, <3>1
  <2> QED BY <1>1, <2>2, <2>3 DEF OneOfEach, Holds
<1>9. \A a, b : (\A i \in DOMAIN q : Between(a, b, q[i]))
                  => Between(a, b, m) /\ \A i \in DOMAIN p : Between(a, b, p[i])
  BY <1>1, <1>3, <1>4
<1> QED BY <1>1, <1>6, <1>7, <1>8, <1>9 DEF p, m

LEMMA EmptyConnection ==
  /\ \A t : ~Holds(<<>>, t)
  /\ \A e : ~Carries(<<>>, e)
BY DEF Holds, Carries
-----------------------------------------------------------------------------
(* What the invariant says of one agent and one connection.                *)

LEMMA UnacknowledgedType ==
  ASSUME NEW a
  PROVE  /\ Unacknowledged(a) \in SUBSET Agent /\ IsFiniteSet(Unacknowledged(a))
         /\ Cardinality(Unacknowledged(a)) \in Nat
<1>1. Unacknowledged(a) \in SUBSET Agent
  BY DEF Unacknowledged
<1>2. IsFiniteSet(Unacknowledged(a))
  BY <1>1, Ends, FS_Subset
<1> QED BY <1>1, <1>2, FS_CardinalityType

LEMMA Silent ==
  ASSUME AcksCounted, NEW a \in Agent, acks[a] = 0, NEW b \in Agent
  PROVE  ~Holds(peer[a][b], "OUT") /\ ~Holds(peer[b][a], "ACK")
<1>1. Unacknowledged(a) = {}
  BY UnacknowledgedType, FS_EmptySet DEF AcksCounted
<1> QED BY <1>1 DEF Unacknowledged

LEMMA Connected ==
  ASSUME CopiesInv, NEW a \in Agent, NEW b \in Agent
  PROVE  /\ peer \in Net /\ peer[a][b] \in Seq(Message)
         /\ Link(a, b) /\ Link(b, a)
         /\ a = b => peer[a][b] = <<>>
<1>1. peer \in Net
  BY DEF CopiesInv, CountsInv, TypeOK, Net
<1>2. peer[a][b] \in Seq(Message)
  BY <1>1 DEF Net, Message
<1> QED BY <1>1, <1>2 DEF CopiesInv, Links

(* Only blocks carry edges.                                                *)
LEMMA BlocksCarry ==
  ASSUME CopiesInv, NEW a \in Agent, NEW b \in Agent, NEW e, Carries(peer[a][b], e)
  PROVE  Holds(peer[a][b], "OUT") /\ Owner[e[2]] = a /\ Owner[e[1]] = b
<1>1. peer[a][b] \in Seq(Message) /\ Link(a, b)
  BY Connected
<1>2. PICK i \in DOMAIN peer[a][b] : e \in peer[a][b][i].edges
  BY DEF Carries
<1>3. peer[a][b][i] \in Message /\ Between(a, b, peer[a][b][i])
  BY <1>1 DEF Link
<1>4. peer[a][b][i].type = "OUT"
  BY <1>2, <1>3, MessageType DEF Between
<1> QED BY <1>2, <1>3, <1>4 DEF Holds, Between

(* The parts of the invariant that a step may leave alone.                 *)
LEMMA NetworkUnchanged ==
  ASSUME Links, AcksCounted, UNCHANGED <<peer, acks>>
  PROVE  Links' /\ AcksCounted'
<1>1. Links'
  BY SMTT(30) DEF Links, Link, Holds, OneOfEach, Between
<1>2. \A a \in Agent : Unacknowledged(a)' = Unacknowledged(a)
  BY SMTT(30) DEF Unacknowledged, Holds
<1> QED BY <1>1, <1>2 DEF AcksCounted

LEMMA CopiesUnchanged ==
  ASSUME CopiesMade, UNCHANGED <<inCount, outCount, peer, begin>>
  PROVE  CopiesMade'
BY DEF CopiesMade, Matched, OnItsWay, Carries

LEMMA RoundsUnchanged ==
  ASSUME Rounds, UNCHANGED <<phase, acks, readyCtr, begin, nv, offer, report>>
  PROVE  Rounds'
BY DEF Rounds, Collecting, Releasing, Counted, Settled

-----------------------------------------------------------------------------
(* Every step keeps it.                                                    *)

(* Where an agent stands that takes part in the batch.                     *)
LEMMA Standing ==
  ASSUME CopiesInv, NEW a \in Agent
  PROVE  /\ a \in begin \/ a \in offer \/ acks[a] # 0 => Collecting
         /\ a \in begin \/ a \in offer \/ acks[a] # 0 => a \notin Settled /\ report[a] = <<>>
         /\ a \in begin \/ a \in offer => acks[a] = 0 /\ nv = {}
         /\ a \in begin => offer = {}
         /\ a \in offer => begin = {}
         /\ phase[a] = "load" => a \in begin
BY DEF CopiesInv, Rounds, Collecting, Releasing, Settled

(* In a batch the agent settles, or goes on waiting.                       *)
LEMMA SettleInRound ==
  ASSUME CopiesInv, Collecting, NEW a \in Agent, a \notin Settled, report[a] = <<>>,
         NEW need \in Nat, NEW vs, NEW n, Settle(a, need, vs, n),
         begin' = begin \ {a}, offer' = offer \ {a},
         phase' = [phase EXCEPT ![a] = "update"],
         nv' = nv, readyCtr' = readyCtr
  PROVE  Collecting'
<1> DEFINE m == [v |-> Cardinality(vs), e |-> n]
<1>1. /\ acks \in [Agent -> Int] /\ report \in [Agent -> Seq(Report)]
      /\ phase \in [Agent -> {"load", "update", "run"}]
  BY DEF CopiesInv, CountsInv, TypeOK
<1>2. /\ acks' = [acks EXCEPT ![a] = need]
      /\ report' = IF need = 0 THEN [report EXCEPT ![a] = Append(@, m)] ELSE report
  BY DEF Settle
<1>3. \A b \in Agent : b # a => acks'[b] = acks[b] /\ report'[b] = report[b] /\ phase'[b] = phase[b]
  BY <1>1, <1>2
<1>4. /\ acks'[a] = need /\ phase'[a] = "update"
      /\ report'[a] = IF need = 0 THEN Append(<<>>, m) ELSE <<>>
  BY <1>1, <1>2
<1> HIDE DEF m
<1>5. Append(<<>>, m) # <<>> /\ Len(Append(<<>>, m)) = 1 /\ Len(<<>>) = 0
  OBVIOUS
<1>6. /\ nv' = {} /\ (begin' = {} \/ offer' = {})
      /\ a \notin begin' \cup offer'
      /\ \A b \in Agent : b # a => /\ b \in begin' <=> b \in begin
                                   /\ b \in offer' <=> b \in offer
  BY DEF Collecting
<1>7. \A b \in Agent : b # a => (b \in Settled' <=> b \in Settled)
  BY <1>3, <1>6 DEF Settled
<1>8. a \in Settled' <=> need = 0
  BY <1>4, <1>6 DEF Settled
<1>9. Counted' = Counted
  <2>1. \A b \in Agent : b # a => (b \in Counted' <=> b \in Counted)
    BY <1>3, <1>7 DEF Counted
  <2>2. a \notin Counted
    BY DEF Counted
  <2>3. a \notin Counted'
    BY <1>4, <1>5, <1>8 DEF Counted
  <2>4. Counted \subseteq Agent /\ Counted' \subseteq Agent
    BY DEF Counted, Settled
  <2>5. \A b \in Agent : b \in Counted' <=> b \in Counted
    BY <2>1, <2>2, <2>3
  <2> QED BY <2>4, <2>5
<1>10. ASSUME NEW b \in Agent
       PROVE  /\ phase'[b] = IF b \in begin' THEN "load" ELSE IF b \in offer' THEN "run" ELSE "update"
              /\ b \in begin' \cup offer' => acks'[b] = 0
              /\ Len(report'[b]) <= 1
              /\ report'[b] # <<>> => b \in Settled'
  <2>1. CASE b = a
    <3>1. phase'[a] = "update" /\ a \notin begin' \cup offer'
      BY <1>4, <1>6
    <3>2. CASE need = 0
      <4>1. report'[a] = Append(<<>>, m)
        BY <1>4, <3>2
      <4>2. Len(report'[a]) <= 1
        BY <4>1, <1>5
      <4>3. a \in Settled'
        BY <1>8, <3>2
      <4> QED BY <2>1, <3>1, <4>2, <4>3
    <3>3. CASE need # 0
      BY <1>4, <1>5, <2>1, <3>1, <3>3
    <3> QED BY <3>2, <3>3
  <2>2. CASE b # a
    BY <1>3, <1>6, <1>7, <2>2 DEF Collecting
  <2> QED BY <2>1, <2>2
<1>11. readyCtr' = Cardinality(Counted') /\ Counted' # Agent
  BY <1>9 DEF Collecting
<1> QED BY <1>6, <1>10, <1>11 DEF Collecting
LEMMA RecvBeginCopies ==
  ASSUME CopiesInv, NEW a \in Agent, RecvBegin(a)
  PROVE  Links' /\ AcksCounted' /\ CopiesMade' /\ Rounds'
<1> DEFINE ins == Single(a)
           blocks == BySource({e \in Edge : Owner[e[2]] = a /\ ins[e] > 0})
           need == acks[a] + Receivers(a, blocks)
<1>1. /\ inCount \in [Edge -> Nat] /\ outCount \in [Edge -> Nat] /\ peer \in Net
      /\ acks \in [Agent -> Int] /\ Command = "START" /\ begin \subseteq Agent
  BY DEF CopiesInv, CountsInv, TypeOK, Net, LocalStreams
<1>2. /\ a \in begin /\ begin' = begin \ {a}
      /\ phase' = [phase EXCEPT ![a] = "update"]
      /\ ChangeEdges(ins, {}, blocks[a])
      /\ peer' = Sent(peer, a, "OUT", blocks)
      /\ Settle(a, need, NewV(a, ins, {}, blocks[a]), newE[a])
      /\ UNCHANGED <<dirVars, nv, offer>>
  BY <1>1 DEF RecvBegin, Single
<1>3. /\ ins \in [Edge -> Nat]
      /\ \A e \in Edge : /\ Owner[e[2]] # a => ins[e] = inCount[e]
                         /\ Owner[e[2]] = a => ins[e] <= 1
  BY <1>1, SingleFewer
<1>4. /\ blocks \in [Agent -> SUBSET Edge]
      /\ \A b \in Agent : \A e \in Edge :
           e \in blocks[b] <=> Owner[e[2]] = a /\ Owner[e[1]] = b /\ ins[e] > 0
  BY DEF BySource
<1>5. inCount' = ins /\ outCount' = Plus(outCount, blocks[a])
  BY <1>2, <1>3, PlusPlaces DEF ChangeEdges
<1> HIDE DEF ins, blocks
<1>6. Collecting /\ a \notin Settled /\ report[a] = <<>> /\ acks[a] = 0 /\ offer = {}
  BY <1>2, Standing
<1>7. \A b \in Agent : ~Holds(peer[a][b], "OUT") /\ ~Holds(peer[b][a], "ACK")
  BY <1>6, Silent DEF CopiesInv
<1>8. \A b, c \in Agent : /\ peer[b][c] \in Seq(Message)
                          /\ peer'[b][c] = IF b = a /\ c # a /\ blocks[c] # {}
                                           THEN Append(peer[b][c], [type |-> "OUT", edges |-> blocks[c]])
                                           ELSE peer[b][c]
  <2>1. \A b, c \in Agent : peer[b][c] \in Seq(Message)
    BY Connected
  <2> QED BY <1>1, <1>2, <1>4, <2>1, SentPlaces
<1>9. \A b, c \in Agent :
        /\ \A t : Holds(peer'[b][c], t) <=>
             Holds(peer[b][c], t) \/ (b = a /\ c # a /\ blocks[c] # {} /\ t = "OUT")
        /\ \A e : Carries(peer'[b][c], e) <=>
             Carries(peer[b][c], e) \/ (b = a /\ c # a /\ e \in blocks[c])
        /\ OneOfEach(peer'[b][c])
        /\ \A i \in DOMAIN peer'[b][c] : Between(b, c, peer'[b][c][i])
  <2> SUFFICES ASSUME NEW b \in Agent, NEW c \in Agent
      PROVE  /\ \A t : Holds(peer'[b][c], t) <=>
                  Holds(peer[b][c], t) \/ (b = a /\ c # a /\ blocks[c] # {} /\ t = "OUT")
             /\ \A e : Carries(peer'[b][c], e) <=>
                  Carries(peer[b][c], e) \/ (b = a /\ c # a /\ e \in blocks[c])
             /\ OneOfEach(peer'[b][c])
             /\ \A i \in DOMAIN peer'[b][c] : Between(b, c, peer'[b][c][i])
    OBVIOUS
  <2>1. Link(b, c) /\ peer[b][c] \in Seq(Message)
    BY Connected
  <2>2. CASE b = a /\ c # a /\ blocks[c] # {}
    <3> DEFINE m == [type |-> "OUT", edges |-> blocks[c]]
    <3>1. m \in Message /\ m.type = "OUT" /\ m.edges = blocks[c]
      BY <1>4, MessageType
    <3>2. Between(b, c, m)
      BY <1>4, <2>2 DEF Between
    <3>3. peer'[b][c] = Append(peer[b][c], m)
      BY <1>8, <2>2
    <3> HIDE DEF m
    <3>4. ~Holds(peer[b][c], m.type)
      BY <1>7, <2>2, <3>1
    <3> QED BY <2>1, <2>2, <3>1, <3>2, <3>3, <3>4, PutMessage DEF Link
  <2>3. CASE ~(b = a /\ c # a /\ blocks[c] # {})
    <3>1. peer'[b][c] = peer[b][c]
      BY <1>8, <2>3
    <3> QED BY <2>1, <2>3, <3>1 DEF Link
  <2> QED BY <2>2, <2>3
<1>10. Links'
  <2>1. ASSUME NEW b \in Agent, NEW c \in Agent
        PROVE  Link(b, c)' /\ (b = c => peer'[b][c] = <<>>)
    <3>1. Link(b, c) /\ (b = c => peer[b][c] = <<>>)
      BY Connected
    <3>2. ~(Holds(peer'[b][c], "OUT") /\ Holds(peer'[c][b], "ACK"))
      BY <1>7, <1>9, <3>1 DEF Link
    <3> QED BY <1>8, <1>9, <3>1, <3>2 DEF Link
  <2> QED BY <2>1 DEF Links
<1>11. AcksCounted'
  <2>1. acks'[a] = need /\ \A b \in Agent : b # a => acks'[b] = acks[b]
    BY <1>1, <1>2 DEF Settle
  <2>2. need = Cardinality({b \in Agent \ {a} : blocks[b] # {}})
    <3>1. Receivers(a, blocks) \in Nat
      BY ReceiversType
    <3> QED BY <1>6, <3>1 DEF Receivers
  <2>3. Unacknowledged(a)' = {b \in Agent \ {a} : blocks[b] # {}}
    BY <1>7, <1>9 DEF Unacknowledged
  <2>4. ASSUME NEW c \in Agent, c # a PROVE Unacknowledged(c)' = Unacknowledged(c)
    <3>1. \A b \in Agent : /\ Holds(peer'[c][b], "OUT") <=> Holds(peer[c][b], "OUT")
                           /\ Holds(peer'[b][c], "ACK") <=> Holds(peer[b][c], "ACK")
      BY <1>9, <2>4
    <3> QED BY <3>1 DEF Unacknowledged
  <2> QED BY <2>1, <2>2, <2>3, <2>4 DEF AcksCounted, CopiesInv
<1>12. CopiesMade'
  <2> SUFFICES ASSUME NEW e \in Edge PROVE Matched(e)'
    BY DEF CopiesMade
  <2> DEFINE d == Owner[e[2]]
             s == Owner[e[1]]
  <2>1. d \in Agent /\ s \in Agent
    BY Ends
  <2>2. Matched(e) /\ inCount[e] \in Nat /\ outCount[e] \in Nat
    BY <1>1 DEF CopiesInv, CopiesMade
  <2>3. OnItsWay(e)' <=> OnItsWay(e) \/ (d = a /\ s # a /\ e \in blocks[s])
    BY <1>9, <2>1 DEF OnItsWay
  <2>4. outCount'[e] = IF e \in blocks[a] THEN outCount[e] + 1 ELSE outCount[e]
    BY <1>1, <1>5, PlusPlaces
  <2>5. CASE d = a
    <3>1. outCount[e] = 0 /\ ~OnItsWay(e)
      BY <1>2, <2>2, <2>5 DEF Matched
    <3>2. inCount'[e] = ins[e] /\ ins[e] \in Nat /\ ins[e] <= 1
      BY <1>3, <1>5, <2>5
    <3>3. e \in blocks[a] <=> s = a /\ ins[e] > 0
      BY <1>4, <2>1, <2>5
    <3>4. OnItsWay(e)' <=> s # a /\ ins[e] > 0
      BY <1>4, <2>1, <2>3, <2>5, <3>1
    <3>5. inCount'[e] = outCount'[e] + IF OnItsWay(e)' THEN 1 ELSE 0
      BY <2>4, <3>1, <3>2, <3>3, <3>4
    <3> QED BY <1>2, <2>5, <3>5 DEF Matched
  <2>6. CASE d # a
    <3>1. e \notin blocks[a] /\ inCount'[e] = inCount[e] /\ outCount'[e] = outCount[e]
      BY <1>3, <1>4, <1>5, <2>4, <2>6
    <3>2. d \in begin' <=> d \in begin
      BY <1>2, <2>6
    <3> QED BY <2>2, <2>3, <2>6, <3>1, <3>2 DEF Matched
  <2> QED BY <2>5, <2>6
<1>13. Rounds'
  <2>1. need \in Nat
    BY <1>6, ReceiversType
  <2>2. offer' = offer \ {a} /\ nv' = nv /\ readyCtr' = readyCtr
    BY <1>2, <1>6 DEF dirVars
  <2> HIDE DEF need
  <2>3. Collecting'
    BY <1>2, <1>6, <2>1, <2>2, SettleInRound
  <2> QED BY <2>3 DEF Rounds
<1> QED BY <1>10, <1>11, <1>12, <1>13
LEMMA RecvOfferCopies ==
  ASSUME CopiesInv, NEW a \in Agent, RecvOffer(a)
  PROVE  Links' /\ AcksCounted' /\ CopiesMade' /\ Rounds'
<1> DEFINE I == updates[a]
           blocks == BySource(I)
           need == acks[a] + Receivers(a, blocks)
<1>1. /\ inCount \in [Edge -> Nat] /\ outCount \in [Edge -> Nat] /\ peer \in Net
      /\ acks \in [Agent -> Int] /\ I \in SUBSET Edge /\ begin \subseteq Agent
  BY DEF CopiesInv, CountsInv, TypeOK, Net
<1>2. /\ a \in offer /\ offer' = offer \ {a}
      /\ phase' = [phase EXCEPT ![a] = "update"]
      /\ ChangeEdges(inCount, I, blocks[a])
      /\ peer' = Sent(peer, a, "IN", blocks)
      /\ Settle(a, need, NewV(a, inCount, I, blocks[a]), newE[a] + Cardinality(I))
      /\ UNCHANGED <<dirVars, begin, nv>>
  BY DEF RecvOffer
<1>3. Collecting /\ a \notin Settled /\ report[a] = <<>> /\ acks[a] = 0 /\ begin = {}
  BY <1>2, Standing
<1>4. \A e \in I : Owner[e[1]] = a /\ Owner[e[2]] = a
  BY DEF CopiesInv, CountsInv, UpdatesHere, LocalStreams
<1>5. /\ blocks \in [Agent -> SUBSET Edge] /\ blocks[a] = I
      /\ \A b \in Agent : b # a => blocks[b] = {}
  BY <1>1, <1>4 DEF BySource
<1> HIDE DEF I, blocks
<1>6. Receivers(a, blocks) = 0
  <2>1. {b \in Agent \ {a} : blocks[b] # {}} = {}
    BY <1>5
  <2> QED BY <2>1, FS_EmptySet DEF Receivers
<1>7. need = 0
  BY <1>3, <1>6
<1>8. peer' = peer
  <2> DEFINE sent == Sent(peer, a, "IN", blocks)
  <2>1. /\ sent \in Net
        /\ \A b, c \in Agent : sent[b][c] =
             IF b = a /\ c # a /\ blocks[c] # {}
             THEN Append(peer[b][c], [type |-> "IN", edges |-> blocks[c]]) ELSE peer[b][c]
    BY <1>1, <1>5, SentPlaces
  <2> HIDE DEF sent
  <2>2. \A b, c \in Agent : sent[b][c] = peer[b][c]
    BY <1>5, <2>1
  <2>3. sent = peer
    BY <1>1, <2>1, <2>2 DEF Net
  <2> QED BY <1>2, <2>3 DEF sent
<1>9. acks' = acks
  BY <1>1, <1>2, <1>3, <1>7 DEF Settle
<1>10. Links' /\ AcksCounted'
  BY <1>8, <1>9, NetworkUnchanged DEF CopiesInv
<1>11. CopiesMade'
  <2> SUFFICES ASSUME NEW e \in Edge PROVE Matched(e)'
    BY DEF CopiesMade
  <2>1. Matched(e) /\ inCount[e] \in Nat /\ outCount[e] \in Nat
    BY <1>1 DEF CopiesInv, CopiesMade
  <2>2. OnItsWay(e)' = OnItsWay(e)
    BY <1>8 DEF OnItsWay, Carries
  <2>3. /\ inCount'[e] = IF e \in I THEN inCount[e] + 1 ELSE inCount[e]
        /\ outCount'[e] = IF e \in I THEN outCount[e] + 1 ELSE outCount[e]
    BY <1>1, <1>2, <1>5, PlusPlaces DEF ChangeEdges
  <2>4. begin' = {} /\ begin = {}
    BY <1>2, <1>3
  <2>5. inCount[e] = outCount[e] + IF OnItsWay(e) THEN 1 ELSE 0
    BY <2>1, <2>4 DEF Matched
  <2>6. inCount'[e] = outCount'[e] + IF OnItsWay(e)' THEN 1 ELSE 0
    BY <2>1, <2>2, <2>3, <2>5
  <2> QED BY <2>4, <2>6 DEF Matched
<1>12. Rounds'
  <2>1. begin' = begin \ {a} /\ nv' = nv /\ readyCtr' = readyCtr
    BY <1>2, <1>3 DEF dirVars
  <2>2. need \in Nat
    BY <1>7
  <2> HIDE DEF need
  <2>3. Collecting'
    BY <1>2, <1>3, <2>1, <2>2, SettleInRound
  <2> QED BY <2>3 DEF Rounds
<1> QED BY <1>10, <1>11, <1>12

LEMMA RecvBlockCopies ==
  ASSUME CopiesInv, NEW a \in Agent, NEW b \in Agent, RecvBlock(a, b)
  PROVE  Links' /\ AcksCounted' /\ CopiesMade' /\ Rounds'
<1> DEFINE m == Head(peer[b][a])
           blocks == IF m.type = "IN" THEN ByDestination(m.edges) ELSE BySource(m.edges)
           I == IF m.type = "IN" THEN blocks[a] ELSE {}
           O == IF m.type = "OUT" THEN blocks[a] ELSE {}
           taken == [peer EXCEPT ![b][a] = Tail(@)]
           moved == Sent(taken, a, m.type, blocks)
           ack == [type |-> "ACK", edges |-> {}]
<1>1. /\ inCount \in [Edge -> Nat] /\ outCount \in [Edge -> Nat] /\ peer \in Net
      /\ acks \in [Agent -> Int]
  BY DEF CopiesInv, CountsInv, TypeOK, Net
<1>2. peer[b][a] # <<>> /\ m.type # "ACK"
  BY DEF RecvBlock
<1>3. /\ ChangeEdges(inCount, I, O)
      /\ peer' = [moved EXCEPT ![a][b] = Append(@, ack)]
      /\ acks' = [acks EXCEPT ![a] = @ + Receivers(a, blocks)]
      /\ UNCHANGED <<phase, dirVars, begin, nv, offer, report>>
  BY DEF RecvBlock
<1>4. /\ peer[b][a] \in Seq(Message) /\ peer[a][b] \in Seq(Message)
      /\ Link(b, a) /\ Link(a, b) /\ a # b
  BY <1>2, Connected
<1>5. /\ m \in Message /\ Between(b, a, m) /\ m.type = "OUT" /\ m.edges \in SUBSET Edge
      /\ Holds(peer[b][a], "OUT")
  BY <1>2, <1>4, TakeMessage, MessageType DEF Link, Between
<1>6. /\ blocks \in [Agent -> SUBSET Edge] /\ blocks[a] = m.edges
      /\ \A c \in Agent : c # a => blocks[c] = {}
  BY <1>5 DEF Between, BySource
<1>7. I = {} /\ O = m.edges
  BY <1>5, <1>6
<1>8. taken \in Net /\ \A c, d \in Agent :
        taken[c][d] = IF c = b /\ d = a THEN Tail(peer[b][a]) ELSE peer[c][d]
  <2>1. taken \in Net
    BY <1>1, <1>2, QueuePlaces
  <2>2. \A c, d \in Agent :
          taken[c][d] = IF c = b /\ d = a THEN Tail(peer[b][a]) ELSE peer[c][d]
    BY <1>1 DEF Net
  <2> QED BY <2>1, <2>2
<1>9. ack \in Message /\ ack.type = "ACK" /\ ack.edges = {} /\ Between(a, b, ack)
  BY MessageType DEF Between
<1> HIDE DEF m, blocks, I, O, taken, ack
<1>10. moved \in Net /\ \A c, d \in Agent : moved[c][d] = taken[c][d]
  <2>1. m.type \in {"IN", "OUT"}
    BY <1>5
  <2>2. /\ moved \in Net
        /\ \A c, d \in Agent : moved[c][d] =
             IF c = a /\ d # a /\ blocks[d] # {}
             THEN Append(taken[c][d], [type |-> m.type, edges |-> blocks[d]]) ELSE taken[c][d]
    BY SMTT(30), <1>6, <1>8, <2>1, SentPlaces
  <2> HIDE DEF moved
  <2> QED BY <1>6, <2>2
<1> HIDE DEF moved
<1>11. \A c, d \in Agent :
         peer'[c][d] = IF c = a /\ d = b THEN Append(moved[a][b], ack) ELSE moved[c][d]
  BY SMTT(30), <1>3, <1>9, <1>10, QueuePlaces DEF Message
<1>12. \A c, d \in Agent : peer'[c][d] = IF c = a /\ d = b THEN Append(peer[a][b], ack)
                                         ELSE IF c = b /\ d = a THEN Tail(peer[b][a])
                                         ELSE peer[c][d]
  BY <1>4, <1>8, <1>10, <1>11
<1>13. acks' = acks
  <2>1. {c \in Agent \ {a} : blocks[c] # {}} = {}
    BY <1>6
  <2>2. Receivers(a, blocks) = 0
    BY <2>1, FS_EmptySet DEF Receivers
  <2> QED BY <1>1, <1>3, <2>2
<1>14. /\ \A t : Holds(peer'[a][b], t) <=> Holds(peer[a][b], t) \/ t = "ACK"
       /\ \A e : Carries(peer'[a][b], e) <=> Carries(peer[a][b], e)
       /\ OneOfEach(peer'[a][b])
       /\ \A i \in DOMAIN peer'[a][b] : Between(a, b, peer'[a][b][i])
  <2>1. ~Holds(peer[a][b], "ACK")
    BY <1>4, <1>5 DEF Link
  <2>2. peer'[a][b] = Append(peer[a][b], ack)
    BY <1>12
  <2> QED BY <1>4, <1>9, <2>1, <2>2, PutMessage DEF Link
<1>15. /\ \A t : Holds(peer'[b][a], t) <=> Holds(peer[b][a], t) /\ t # "OUT"
       /\ \A e : Carries(peer[b][a], e) <=> e \in m.edges \/ Carries(peer'[b][a], e)
       /\ OneOfEach(peer'[b][a])
       /\ \A i \in DOMAIN peer'[b][a] : Between(b, a, peer'[b][a][i])
  <2>1. peer'[b][a] = Tail(peer[b][a])
    BY <1>4, <1>12
  <2> QED BY <1>2, <1>4, <1>5, <2>1, TakeMessage DEF Link, m
<1>16. \A e : ~Carries(peer'[b][a], e)
  <2>1. ASSUME NEW e, Carries(peer'[b][a], e) PROVE FALSE
    <3>1. ~Holds(peer'[b][a], "OUT")
      BY <1>15
    <3>2. PICK i \in DOMAIN peer'[b][a] : e \in peer'[b][a][i].edges
      BY <2>1 DEF Carries
    <3>3. peer'[b][a] \in Seq(Message)
      <4>1. peer'[b][a] = Tail(peer[b][a])
        BY <1>4, <1>12
      <4> QED BY <1>2, <1>4, <4>1, TakeMessage
    <3>4. peer'[b][a][i] \in Message /\ Between(b, a, peer'[b][a][i])
      BY <1>15, <3>3
    <3>5. peer'[b][a][i].type = "OUT"
      BY <3>2, <3>4, MessageType DEF Between
    <3> QED BY <3>1, <3>5 DEF Holds
  <2> QED BY <2>1
<1>17. Links'
  <2>1. ASSUME NEW c \in Agent, NEW d \in Agent
        PROVE  Link(c, d)' /\ (c = d => peer'[c][d] = <<>>)
    <3>1. Link(c, d) /\ Link(d, c) /\ (c = d => peer[c][d] = <<>>)
      BY Connected
    <3>2. CASE c = a /\ d = b
      <4>1. ~(Holds(peer'[a][b], "OUT") /\ Holds(peer'[b][a], "ACK"))
        BY <1>4, <1>14, <1>15 DEF Link
      <4> QED BY <1>4, <1>14, <3>2, <4>1 DEF Link
    <3>3. CASE c = b /\ d = a
      <4>1. ~(Holds(peer'[b][a], "OUT") /\ Holds(peer'[a][b], "ACK"))
        BY <1>15
      <4> QED BY <1>4, <1>15, <3>3, <4>1 DEF Link
    <3>4. CASE ~(c = a /\ d = b) /\ ~(c = b /\ d = a)
      <4>1. peer'[c][d] = peer[c][d] /\ peer'[d][c] = peer[d][c]
        BY <1>12, <3>4
      <4> QED BY <3>1, <4>1 DEF Link
    <3> QED BY <3>2, <3>3, <3>4
  <2> QED BY <2>1 DEF Links
<1>18. AcksCounted'
  <2>1. ASSUME NEW c \in Agent PROVE Unacknowledged(c)' = Unacknowledged(c)
    <3>1. ASSUME NEW d \in Agent
          PROVE  (Holds(peer'[c][d], "OUT") \/ Holds(peer'[d][c], "ACK"))
                   <=> (Holds(peer[c][d], "OUT") \/ Holds(peer[d][c], "ACK"))
      <4>1. CASE c = b /\ d = a
        BY <1>5, <1>14, <1>15, <4>1
      <4>2. CASE c = a /\ d = b
        BY <1>14, <1>15, <4>2
      <4>3. CASE ~(c = a /\ d = b) /\ ~(c = b /\ d = a)
        BY <1>12, <4>3
      <4> QED BY <4>1, <4>2, <4>3
    <3> QED BY <3>1 DEF Unacknowledged
  <2> QED BY <1>13, <2>1 DEF AcksCounted, CopiesInv
<1>19. CopiesMade'
  <2> SUFFICES ASSUME NEW e \in Edge PROVE Matched(e)'
    BY DEF CopiesMade
  <2> DEFINE d == Owner[e[2]]
             s == Owner[e[1]]
  <2>1. d \in Agent /\ s \in Agent
    BY Ends
  <2>2. Matched(e) /\ inCount[e] \in Nat /\ outCount[e] \in Nat
    BY <1>1 DEF CopiesInv, CopiesMade
  <2>3. inCount'[e] = inCount[e] /\ begin' = begin
    BY <1>1, <1>3, <1>7, PlusPlaces DEF ChangeEdges
  <2>4. outCount'[e] = IF e \in m.edges THEN outCount[e] + 1 ELSE outCount[e]
    BY <1>1, <1>3, <1>7, PlusPlaces DEF ChangeEdges
  <2>5. CASE e \in m.edges
    <3>1. d = b /\ s = a
      BY <1>5, <2>5 DEF Between
    <3>2. OnItsWay(e) /\ ~OnItsWay(e)'
      BY <1>15, <1>16, <2>5, <3>1 DEF OnItsWay
    <3>3. d \notin begin /\ inCount[e] = outCount[e] + 1
      BY <2>2, <3>2 DEF Matched
    <3>4. inCount'[e] = outCount'[e]
      BY <2>3, <2>4, <2>5, <3>3
    <3>5. inCount'[e] = outCount'[e] + 0
      BY <2>2, <2>4, <2>5, <3>4
    <3> QED BY <2>3, <3>2, <3>3, <3>5 DEF Matched
  <2>6. CASE e \notin m.edges
    <3>1. OnItsWay(e)' <=> OnItsWay(e)
      <4>1. CASE d = b /\ s = a
        BY <1>15, <2>6, <4>1 DEF OnItsWay
      <4>2. CASE d = a /\ s = b
        BY <1>14, <4>2 DEF OnItsWay
      <4>3. CASE ~(d = b /\ s = a) /\ ~(d = a /\ s = b)
        BY <1>12, <2>1, <4>3 DEF OnItsWay
      <4> QED BY <4>1, <4>2, <4>3
    <3> QED BY <2>2, <2>3, <2>4, <2>6, <3>1 DEF Matched
  <2> QED BY <2>5, <2>6
<1>20. Rounds'
  BY <1>3, <1>13, RoundsUnchanged DEF CopiesInv, dirVars
<1> QED BY <1>17, <1>18, <1>19, <1>20
LEMMA RecvAckCopies ==
  ASSUME CopiesInv, NEW a \in Agent, NEW b \in Agent, RecvAck(a, b)
  PROVE  Links' /\ AcksCounted' /\ CopiesMade' /\ Rounds'
<1> DEFINE m == Head(peer[b][a])
           need == acks[a] - 1
<1>1. /\ peer \in Net /\ acks \in [Agent -> Int]
      /\ begin \subseteq Agent /\ phase \in [Agent -> {"load", "update", "run"}]
  BY DEF CopiesInv, CountsInv, TypeOK, Net
<1>2. /\ peer[b][a] # <<>> /\ m.type = "ACK"
      /\ peer' = [peer EXCEPT ![b][a] = Tail(@)]
      /\ Settle(a, need, newV[a], newE[a])
      /\ UNCHANGED <<graphVars, phase, dirVars, begin, nv, offer>>
  BY DEF RecvAck
<1>3. peer[b][a] \in Seq(Message) /\ Link(b, a) /\ Link(a, b)
  BY Connected
<1>4. m \in Message /\ m.edges = {} /\ Holds(peer[b][a], "ACK")
  BY <1>2, <1>3, TakeMessage, MessageType
<1>5. \A c, d \in Agent :
        peer'[c][d] = IF c = b /\ d = a THEN Tail(peer[b][a]) ELSE peer[c][d]
  BY <1>1, <1>2 DEF Net
<1>6. /\ \A t : Holds(peer'[b][a], t) <=> Holds(peer[b][a], t) /\ t # "ACK"
      /\ \A e : Carries(peer'[b][a], e) <=> Carries(peer[b][a], e)
      /\ OneOfEach(peer'[b][a])
      /\ \A i \in DOMAIN peer'[b][a] : Between(b, a, peer'[b][a][i])
  <2>1. peer'[b][a] = Tail(peer[b][a])
    BY <1>5
  <2> QED BY <1>2, <1>3, <1>4, <2>1, TakeMessage DEF Link, m
<1> HIDE DEF m
<1>7. /\ \A c, d \in Agent : \A t : Holds(peer'[c][d], t) <=>
           Holds(peer[c][d], t) /\ ~(c = b /\ d = a /\ t = "ACK")
      /\ \A c, d \in Agent : \A e : Carries(peer'[c][d], e) <=> Carries(peer[c][d], e)
  <2> SUFFICES ASSUME NEW c \in Agent, NEW d \in Agent
      PROVE  /\ \A t : Holds(peer'[c][d], t) <=>
                  Holds(peer[c][d], t) /\ ~(c = b /\ d = a /\ t = "ACK")
             /\ \A e : Carries(peer'[c][d], e) <=> Carries(peer[c][d], e)
    OBVIOUS
  <2>1. CASE c = b /\ d = a
    BY <1>6, <2>1
  <2>2. CASE ~(c = b /\ d = a)
    BY <1>5, <2>2
  <2> QED BY <2>1, <2>2
<1>8. Links'
  <2>1. ASSUME NEW c \in Agent, NEW d \in Agent
        PROVE  Link(c, d)' /\ (c = d => peer'[c][d] = <<>>)
    <3>1. Link(c, d) /\ (c = d => peer[c][d] = <<>>)
      BY Connected
    <3>2. ~(Holds(peer'[c][d], "OUT") /\ Holds(peer'[d][c], "ACK"))
      BY <1>7, <3>1 DEF Link
    <3>3. CASE c = b /\ d = a
      BY <1>2, <1>6, <3>1, <3>2, <3>3 DEF Link
    <3>4. CASE ~(c = b /\ d = a)
      <4>1. peer'[c][d] = peer[c][d]
        BY <1>5, <3>4
      <4> QED BY <3>1, <3>2, <4>1 DEF Link
    <3> QED BY <3>3, <3>4
  <2> QED BY <2>1 DEF Links
<1>9. /\ b \in Unacknowledged(a) /\ Unacknowledged(a)' = Unacknowledged(a) \ {b}
      /\ \A c \in Agent : c # a => Unacknowledged(c)' = Unacknowledged(c)
  <2>1. b \in Unacknowledged(a)
    BY <1>4 DEF Unacknowledged
  <2>2. ~Holds(peer[a][b], "OUT")
    BY <1>3, <1>4 DEF Link
  <2>3. ASSUME NEW d \in Agent
        PROVE  (Holds(peer'[a][d], "OUT") \/ Holds(peer'[d][a], "ACK"))
                 <=> (Holds(peer[a][d], "OUT") \/ Holds(peer[d][a], "ACK")) /\ d # b
    BY <1>7, <2>2
  <2>4. Unacknowledged(a)' = Unacknowledged(a) \ {b}
    BY <2>3 DEF Unacknowledged
  <2>5. ASSUME NEW c \in Agent, c # a PROVE Unacknowledged(c)' = Unacknowledged(c)
    <3>1. \A d \in Agent : /\ Holds(peer'[c][d], "OUT") <=> Holds(peer[c][d], "OUT")
                           /\ Holds(peer'[d][c], "ACK") <=> Holds(peer[d][c], "ACK")
      BY <1>7, <2>5
    <3> QED BY <3>1 DEF Unacknowledged
  <2> QED BY <2>1, <2>4, <2>5
<1>10. acks[a] = Cardinality(Unacknowledged(a)) /\ acks[a] # 0
  BY <1>9, UnacknowledgedType, FS_EmptySet DEF CopiesInv, AcksCounted
<1>11. need \in Nat /\ need = Cardinality(Unacknowledged(a)')
  <2>1. Cardinality(Unacknowledged(a) \ {b}) = Cardinality(Unacknowledged(a)) - 1
    BY <1>9, UnacknowledgedType, FS_RemoveElement
  <2> QED BY <1>9, <1>10, <2>1, UnacknowledgedType
<1>12. AcksCounted'
  <2>1. acks'[a] = need /\ \A c \in Agent : c # a => acks'[c] = acks[c]
    BY <1>1, <1>2 DEF Settle
  <2> QED BY <1>9, <1>11, <2>1 DEF AcksCounted, CopiesInv
<1>13. CopiesMade'
  <2> SUFFICES ASSUME NEW e \in Edge PROVE Matched(e)'
    BY DEF CopiesMade
  <2>1. OnItsWay(e)' <=> OnItsWay(e)
    BY <1>7, Ends DEF OnItsWay
  <2>2. Matched(e)
    BY DEF CopiesInv, CopiesMade
  <2> QED BY <1>2, <2>1, <2>2 DEF Matched, graphVars
<1>14. Rounds'
  <2>1. Collecting /\ a \notin Settled /\ report[a] = <<>> /\ a \notin begin /\ a \notin offer
    BY <1>10, Standing
  <2>2. /\ begin' = begin \ {a} /\ offer' = offer \ {a} /\ nv' = nv /\ readyCtr' = readyCtr
        /\ phase' = [phase EXCEPT ![a] = "update"]
    BY <1>1, <1>2, <2>1 DEF Collecting, dirVars
  <2> HIDE DEF need
  <2>3. Collecting'
    BY <1>2, <1>11, <2>1, <2>2, SettleInRound
  <2> QED BY <2>3 DEF Rounds
<1> QED BY <1>8, <1>12, <1>13, <1>14

LEMMA RecvUpdateEdgeCopies ==
  ASSUME CopiesInv, NEW e \in Edge, RecvUpdateEdge(e)
  PROVE  Links' /\ AcksCounted' /\ CopiesMade' /\ Rounds'
<1>1. UNCHANGED <<phase, acks, dirVars, netVars>>
  BY DEF RecvUpdateEdge
<1>2. Links' /\ AcksCounted'
  BY <1>1, NetworkUnchanged DEF CopiesInv, netVars
<1>3. Rounds'
  BY <1>1, RoundsUnchanged DEF CopiesInv, netVars, dirVars
<1>4. CopiesMade'
  <2>1. CASE UNCHANGED graphVars
    BY <1>1, <2>1, CopiesUnchanged DEF CopiesInv, netVars, graphVars
  <2>2. CASE phase[Owner[e[2]]] = "load" /\ ChangeEdges(inCount, {e}, {})
    <3> SUFFICES ASSUME NEW f \in Edge PROVE Matched(f)'
      BY DEF CopiesMade
    <3>1. Matched(f) /\ inCount \in [Edge -> Nat] /\ outCount \in [Edge -> Nat]
      BY DEF CopiesInv, CopiesMade, CountsInv, TypeOK
    <3>2. outCount'[f] = outCount[f] /\ (f # e => inCount'[f] = inCount[f])
      BY <2>2, <3>1, PlusPlaces DEF ChangeEdges
    <3>3. OnItsWay(f)' = OnItsWay(f) /\ begin' = begin
      BY <1>1 DEF OnItsWay, Carries, netVars
    <3>4. Owner[e[2]] \in begin
      BY <2>2, Ends, Standing
    <3>5. CASE f = e
      BY <3>1, <3>2, <3>3, <3>4, <3>5 DEF Matched
    <3>6. CASE f # e
      BY <3>1, <3>2, <3>3, <3>6 DEF Matched
    <3> QED BY <3>5, <3>6
  <2> QED BY <2>1, <2>2 DEF RecvUpdateEdge
<1> QED BY <1>2, <1>3, <1>4

LEMMA RecvNvCopies ==
  ASSUME CopiesInv, NEW a \in Agent, RecvNv(a)
  PROVE  Links' /\ AcksCounted' /\ CopiesMade' /\ Rounds'
<1>1. /\ a \in nv /\ nv' = nv \ {a} /\ phase' = [phase EXCEPT ![a] = "run"]
      /\ UNCHANGED <<graphVars, acks, dirVars, begin, offer, report, peer>>
  BY DEF RecvNv
<1>2. Links' /\ AcksCounted' /\ CopiesMade'
  BY <1>1, NetworkUnchanged, CopiesUnchanged DEF CopiesInv, graphVars
<1>3. Releasing
  BY <1>1 DEF CopiesInv, Rounds, Collecting
<1>4. phase \in [Agent -> {"load", "update", "run"}]
  BY DEF CopiesInv, CountsInv, TypeOK
<1>5. \A b \in Agent : phase'[b] = IF b \in nv' THEN "update" ELSE "run"
  <2>1. \A b \in Agent : phase[b] = IF b \in nv THEN "update" ELSE "run"
    BY <1>3 DEF Releasing
  <2> QED BY <1>1, <1>4, <2>1
<1>6. Releasing'
  BY <1>1, <1>3, <1>5 DEF Releasing, dirVars
<1> QED BY <1>2, <1>6 DEF Rounds

LEMMA DirHaveUpdateCopies ==
  ASSUME CopiesInv, DirHaveUpdate
  PROVE  Links' /\ AcksCounted' /\ CopiesMade' /\ Rounds'
<1>1. /\ begin = {} /\ nv = {} /\ offer = {} /\ \A a \in Agent : phase[a] = "run"
      /\ offer' = Agent
      /\ UNCHANGED <<graphVars, agentVars, dirVars, begin, nv, report, peer>>
  BY DEF DirHaveUpdate, Running
<1>2. Links' /\ AcksCounted' /\ CopiesMade'
  BY <1>1, NetworkUnchanged, CopiesUnchanged DEF CopiesInv, graphVars, agentVars
<1>3. PICK a \in Agent : TRUE
  BY GraphAssumption
<1>4. Releasing
  <2>1. ~Collecting
    BY <1>1, <1>3 DEF Collecting
  <2> QED BY <2>1 DEF CopiesInv, Rounds
<1>5. Counted' = {} /\ Cardinality({}) = 0
  BY <1>1, FS_EmptySet DEF Counted, Settled
<1>6. \A b \in Agent : /\ phase'[b] = "run" /\ acks'[b] = 0 /\ report'[b] = <<>>
                       /\ b \in offer' /\ b \notin begin'
  BY <1>1, <1>4 DEF Releasing, agentVars
<1>7. readyCtr' = Cardinality(Counted') /\ Counted' # Agent
  BY <1>1, <1>3, <1>4, <1>5 DEF Releasing, dirVars
<1>8. Len(<<>>) = 0
  OBVIOUS
<1>9. Collecting'
  BY <1>1, <1>6, <1>7, <1>8 DEF Collecting
<1> QED BY <1>2, <1>9 DEF Rounds

(* The last report of a batch, or one before it.                           *)
LEMMA DirReadyCopies ==
  ASSUME CopiesInv, NEW a \in Agent, DirReady(a)
  PROVE  Links' /\ AcksCounted' /\ CopiesMade' /\ Rounds'
<1> DEFINE all == readyCtr + 1 = Cardinality(Agent)
<1>1. /\ report[a] # <<>> /\ report' = [report EXCEPT ![a] = Tail(@)]
      /\ readyCtr' = (IF all THEN 0 ELSE readyCtr + 1)
      /\ nv' = (IF all THEN Agent ELSE nv)
      /\ UNCHANGED <<graphVars, agentVars, begin, offer, peer>>
  BY DEF DirReady
<1>2. Links' /\ AcksCounted' /\ CopiesMade'
  BY <1>1, NetworkUnchanged, CopiesUnchanged DEF CopiesInv, graphVars, agentVars
<1>3. report \in [Agent -> Seq(Report)] /\ acks' = acks /\ phase' = phase
  BY <1>1 DEF CopiesInv, CountsInv, TypeOK, agentVars
<1>4. Collecting
  BY <1>1 DEF CopiesInv, Rounds, Releasing
<1>5. a \in Settled /\ Len(report[a]) <= 1
  BY <1>1, <1>4 DEF Collecting
<1>6. report'[a] = <<>> /\ \A b \in Agent : b # a => report'[b] = report[b]
  <2>1. report[a] \in Seq(Report) /\ report[a] # <<>> /\ Len(report[a]) <= 1
    BY <1>1, <1>3, <1>5
  <2>2. Tail(report[a]) = <<>>
    BY <2>1
  <2> QED BY <1>1, <1>3, <2>2
<1>7. Settled' = Settled
  BY <1>1, <1>3 DEF Settled
<1>8. a \notin Counted /\ Counted' = Counted \cup {a}
  <2>1. a \notin Counted
    BY <1>1 DEF Counted
  <2>2. \A b \in Agent : b \in Counted' <=> b \in Counted \/ b = a
    BY <1>5, <1>6, <1>7 DEF Counted
  <2>3. Counted \subseteq Agent /\ Counted' \subseteq Agent
    BY DEF Counted, Settled
  <2> QED BY <2>1, <2>2, <2>3
<1>9. Cardinality(Counted') = readyCtr + 1
  <2>1. Counted \in SUBSET Agent
    BY DEF Counted, Settled
  <2>2. IsFiniteSet(Counted)
    BY <2>1, Ends, FS_Subset
  <2>3. Cardinality(Counted \cup {a}) = Cardinality(Counted) + 1
    BY <1>8, <2>2, FS_AddElement
  <2> QED BY <1>4, <1>8, <2>3 DEF Collecting
<1>10. CASE all
  <2>1. Counted' \in SUBSET Agent
    BY DEF Counted, Settled
  <2>2. Counted' = Agent
    BY <1>9, <1>10, <2>1, Ends, FS_Subset
  <2>3. \A b \in Agent : b \in Settled /\ report'[b] = <<>>
    BY <1>7, <2>2 DEF Counted
  <2>4. \A b \in Agent : b \notin begin /\ b \notin offer /\ acks[b] = 0 /\ phase[b] = "update"
    BY <1>4, <2>3 DEF Settled, Collecting
  <2>5. begin = {} /\ offer = {}
    BY <2>4 DEF CopiesInv, CountsInv, TypeOK
  <2>6. readyCtr' = 0 /\ nv' = Agent
    BY <1>1, <1>10
  <2>7. Releasing'
    BY <1>1, <1>3, <2>3, <2>4, <2>5, <2>6 DEF Releasing
  <2> QED BY <1>2, <2>7 DEF Rounds
<1>11. CASE ~all
  <2>1. readyCtr' = Cardinality(Counted') /\ nv' = nv
    BY <1>1, <1>9, <1>11
  <2>2. Counted' # Agent
    BY <1>9, <1>11
  <2>3. Len(<<>>) = 0
    OBVIOUS
  <2>4. \A b \in Agent : Len(report'[b]) <= 1 /\ (report'[b] # <<>> => b \in Settled')
    BY <1>4, <1>6, <1>7, <2>3 DEF Collecting
  <2>5. Collecting'
    BY <1>1, <1>3, <1>4, <2>1, <2>2, <2>4 DEF Collecting
  <2> QED BY <1>2, <2>5 DEF Rounds
<1> QED BY <1>10, <1>11
LEMMA CopiesHoldFirst == Init /\ LocalStreams => CopiesInv
<1> SUFFICES ASSUME Init, LocalStreams PROVE CopiesInv
  OBVIOUS
<1>1. CountsInv
  BY CountsHoldFirst
<1>2. \A a, b \in Agent : peer[a][b] = <<>> /\ DOMAIN peer[a][b] = {}
  BY DEF Init
<1>3. Links
  BY <1>2 DEF Links, Link, Holds, OneOfEach
<1>4. AcksCounted
  <2>1. \A a \in Agent : Unacknowledged(a) = {}
    BY <1>2 DEF Unacknowledged, Holds
  <2> QED BY <2>1, FS_EmptySet DEF AcksCounted, Init
<1>5. CopiesMade
  <2>1. \A e \in Edge : ~OnItsWay(e)
    BY <1>2, Ends DEF OnItsWay, Carries
  <2>2. \A e \in Edge : Owner[e[2]] \in begin /\ outCount[e] = 0
    BY Ends DEF Init
  <2> QED BY <2>1, <2>2 DEF CopiesMade, Matched
<1>6. Collecting
  <2>1. Counted = {} /\ Cardinality({}) = 0 /\ Len(<<>>) = 0
    BY FS_EmptySet DEF Counted, Settled, Init
  <2> QED BY <2>1, GraphAssumption DEF Collecting, Init
<1> QED BY <1>1, <1>3, <1>4, <1>5, <1>6 DEF CopiesInv, Rounds

LEMMA CopiesStep == CopiesInv /\ [Next]_vars => CopiesInv'
<1> SUFFICES ASSUME CopiesInv, [Next]_vars PROVE CopiesInv'
  OBVIOUS
<1> DEFINE Kept == Links' /\ AcksCounted' /\ CopiesMade' /\ Rounds'
<1>1. ASSUME NEW a \in Agent, RecvBegin(a) \/ RecvOffer(a) \/ RecvNv(a) \/ DirReady(a)
      PROVE  Kept
  BY <1>1, RecvBeginCopies, RecvOfferCopies, RecvNvCopies, DirReadyCopies
<1>2. ASSUME NEW a \in Agent, NEW b \in Agent, RecvBlock(a, b) \/ RecvAck(a, b)
      PROVE  Kept
  BY <1>2, RecvBlockCopies, RecvAckCopies
<1>3. ASSUME NEW e \in Edge, RecvUpdateEdge(e)
      PROVE  Kept
  BY <1>3, RecvUpdateEdgeCopies
<1>4. ASSUME DirHaveUpdate PROVE Kept
  BY <1>4, DirHaveUpdateCopies
<1>5. ASSUME Rest \/ UNCHANGED vars PROVE Kept
  <2>1. UNCHANGED <<graphVars, agentVars, dirVars, netVars>>
    BY <1>5 DEF Rest, vars
  <2> QED BY <2>1, NetworkUnchanged, CopiesUnchanged, RoundsUnchanged
          DEF CopiesInv, graphVars, agentVars, dirVars, netVars
<1>6. Kept
  BY <1>1, <1>2, <1>3, <1>4, <1>5 DEF Next
<1>7. CountsInv' /\ LocalStreams'
  BY CountsStep DEF CopiesInv, LocalStreams
<1> QED BY <1>6, <1>7 DEF CopiesInv

(* While the agents compute, every IN edge has its OUT edge and the other  *)
(* way round, if the first batch was begun with START and the edges that   *)
(* come later stay within an agent: the hypotheses under which             *)
(* check-transpose (agent.cpp:597-608) does not throw.                     *)
THEOREM EveryEdgeHasItsCopy == LocalStreams /\ Spec => []Transposed
<1>1. CopiesInv => Transposed
  <2> SUFFICES ASSUME CopiesInv, Running PROVE inCount = outCount
    BY DEF Transposed
  <2>1. PICK a \in Agent : TRUE
    BY GraphAssumption
  <2>2. begin = {} /\ offer = {} /\ phase[a] = "run"
    BY DEF Running
  <2>3. Releasing
    BY <2>1, <2>2 DEF CopiesInv, Rounds, Collecting
  <2>4. ASSUME NEW e \in Edge PROVE inCount[e] = outCount[e]
    <3> DEFINE d == Owner[e[2]]
               s == Owner[e[1]]
    <3>1. d \in Agent /\ s \in Agent
      BY Ends
    <3>2. ~Holds(peer[d][s], "OUT")
      BY <2>3, <3>1, Silent DEF Releasing, CopiesInv
    <3>3. ~OnItsWay(e)
      BY <3>1, <3>2, BlocksCarry DEF OnItsWay
    <3>4. inCount[e] = outCount[e] + 0
      BY <2>2, <3>3 DEF CopiesInv, CopiesMade, Matched
    <3>5. outCount[e] \in Nat
      BY DEF CopiesInv, CountsInv, TypeOK
    <3> QED BY <3>4, <3>5
  <2>5. inCount \in [Edge -> Nat] /\ outCount \in [Edge -> Nat]
    BY DEF CopiesInv, CountsInv, TypeOK
  <2> QED BY <2>4, <2>5
<1>2. LocalStreams /\ Spec => []CopiesInv
  BY CopiesHoldFirst, CopiesStep, PTL DEF Spec
<1> QED BY <1>1, <1>2, PTL
=============================================================================
