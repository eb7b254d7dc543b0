---------------------------- MODULE Streamer_proofs ----------------------------
(***************************************************************************)
(* Proofs about the streamer, for every command line, feed, number of      *)
(* agents and sequence of lists of agents.                                 *)
(***************************************************************************)
EXTENDS Streamer, FiniteSetTheorems, TLAPS

-----------------------------------------------------------------------------
(* The inductive invariant.                                                *)

Changes == Edge \X BOOLEAN
Publications ==
  [type : {"DIRECTORY_UPDATE"}, list : Lists] \cup [type : {"SYNC"}, active : {0, 1}]
Records == [change : Changes, to : Agent, msg : Nat, vector : BOOLEAN, paced : BOOLEAN]

(* The argument that is handled in each place.                             *)
Handles(op) == arg <= Len(program) /\ program[arg].op = op
Placement ==
  /\ pc = "start" => arg = 1
  /\ pc # "start" => list # 0
  /\ pc \in {"file", "wait", "endwait", "lastpoll"} => Handles("file")
  /\ pc = "rg" => Handles("rg")
  /\ pc \in {"listen", "drain"} => Handles("listen")
  /\ pc \in {"file", "wait"} => seen = count

Options ==
  /\ program \in Programs
  /\ batch \in BOOLEAN /\ wait \in BOOLEAN /\ mb \in Nat
  /\ interrupted \in BOOLEAN /\ newest \in Lists

Queues ==
  /\ input \in Seq(Changes \cup {<<"bad line">>})
  /\ socket \in Seq(Publications)
  /\ receiver \in Seq(Seq(Edge)) /\ feed \in Seq(Seq(Edge))
  /\ read \in Seq(Changes) /\ sent \in Seq(Records)

Typed == TypeOK /\ Options /\ Queues /\ Placement

(* What went out, and what waits to.                                       *)
Out == [i \in DOMAIN sent |-> sent[i].change]
Waiting == [i \in DOMAIN queued |-> <<queued[i].edge, TRUE>>]

Accounted ==
  \A c \in Changes : Occurrences(read, c) = Occurrences(Out, c) + Occurrences(Waiting, c)

(* A command line that turns batches off first and never on again.         *)
NeverBatch ==
  /\ \A i \in DOMAIN program : program[i].op = "+batch" => ~program[i].val
  /\ program[1].op = "+batch"

InOrder == NeverBatch => Out = read /\ queued = <<>> /\ (arg > 1 => ~batch)

(* The SYNC that ends a batch.                                             *)
End(m) == m.type = "SYNC" /\ m.active = 0

AllPaced == \A i \in DOMAIN sent : sent[i].paced

(* Nothing is under way.                                                   *)
Calm ==
  /\ arrived = {} /\ running = {} /\ finished = DOMAIN sent
  /\ \A i \in DOMAIN socket : ~End(socket[i])

(* The last change is on its way, with its agent or in the batch that runs.*)
Pending ==
  /\ pc = "wait" /\ wait /\ Len(sent) > 0
  /\ finished = 1 .. Len(sent) - 1
  /\ \/ arrived = {} /\ running = {}
     \/ arrived = {Len(sent)} /\ running = {}
     \/ arrived = {} /\ running = {Len(sent)}
  /\ \A i \in DOMAIN socket : ~End(socket[i])

(* The batch has ended, and the streamer has not read that yet.            *)
Ended ==
  /\ pc = "wait"
  /\ arrived = {} /\ running = {} /\ finished = DOMAIN sent
  /\ \E k \in DOMAIN socket :
       End(socket[k]) /\ \A i \in DOMAIN socket : End(socket[i]) => i = k

OneAtATime == AllPaced /\ ~interrupted => Calm \/ Pending \/ Ended

-----------------------------------------------------------------------------
(* Sequences.                                                              *)

LEMMA Concat ==
  ASSUME NEW S, NEW s \in Seq(S), NEW t \in Seq(S)
  PROVE  /\ s \o t \in Seq(S) /\ Len(s) \in Nat /\ Len(t) \in Nat
         /\ Len(s \o t) = Len(s) + Len(t)
         /\ DOMAIN (s \o t) = 1 .. Len(s) + Len(t)
         /\ \A i \in 1 .. Len(s) : (s \o t)[i] = s[i]
         /\ \A i \in 1 .. Len(t) : (s \o t)[Len(s) + i] = t[i]
OBVIOUS

LEMMA ConcatFirst ==
  ASSUME NEW S, NEW s \in Seq(S), NEW t \in Seq(S)
  PROVE  \A i \in 1 .. Len(s) : (s \o t)[i] = s[i]
BY Concat

LEMMA ConcatSecond ==
  ASSUME NEW S, NEW s \in Seq(S), NEW t \in Seq(S)
  PROVE  \A i \in 1 .. Len(t) : (s \o t)[Len(s) + i] = t[i]
BY Concat

LEMMA ConcatType ==
  ASSUME NEW S, NEW s \in Seq(S), NEW t \in Seq(S)
  PROVE  /\ s \o t \in Seq(S) /\ Len(s) \in Nat /\ Len(t) \in Nat
         /\ Len(s \o t) = Len(s) + Len(t)
         /\ DOMAIN (s \o t) = 1 .. Len(s) + Len(t)
OBVIOUS

LEMMA AppendConcat ==
  ASSUME NEW S, NEW s \in Seq(S), NEW x \in S
  PROVE  Append(s, x) = s \o <<x>>
OBVIOUS

LEMMA HeadTail ==
  ASSUME NEW S, NEW s \in Seq(S), s # <<>>
  PROVE  /\ Head(s) \in S /\ Tail(s) \in Seq(S) /\ Head(s) = s[1]
         /\ Len(s) \in Nat \ {0} /\ DOMAIN s = 1 .. Len(s) /\ DOMAIN Tail(s) = 1 .. Len(s) - 1
         /\ \A i \in 1 .. Len(s) - 1 : Tail(s)[i] = s[i + 1]
OBVIOUS

LEMMA Mapped ==
  ASSUME NEW S, NEW T, NEW s \in Seq(S), NEW f, DOMAIN f = DOMAIN s,
         \A i \in DOMAIN s : f[i] \in T, f = [i \in DOMAIN s |-> f[i]]
  PROVE  f \in Seq(T) /\ Len(f) = Len(s) /\ DOMAIN f = 1 .. Len(s) /\ DOMAIN s = 1 .. Len(s)
OBVIOUS

LEMMA ElementOf ==
  ASSUME NEW S, NEW s \in Seq(S)
  PROVE  /\ Len(s) \in Nat /\ DOMAIN s = 1 .. Len(s)
         /\ \A i \in DOMAIN s : s[i] \in S
OBVIOUS

LEMMA SeqOf ==
  ASSUME NEW S, NEW n \in Nat, NEW f \in [1 .. n -> S]
  PROVE  f \in Seq(S) /\ Len(f) = n
OBVIOUS

LEMMA SameSeq ==
  ASSUME NEW S, NEW n \in Nat, NEW s \in Seq(S), NEW t \in Seq(S), Len(s) = n, Len(t) = n,
         \A i \in 1 .. n : s[i] = t[i]
  PROVE  s = t
OBVIOUS

LEMMA OccurrencesType ==
  ASSUME NEW S, NEW s \in Seq(S), NEW x
  PROVE  IsFiniteSet({i \in DOMAIN s : s[i] = x}) /\ Occurrences(s, x) \in Nat
<1>1. Len(s) \in Int /\ DOMAIN s = 1 .. Len(s)
  OBVIOUS
<1>2. IsFiniteSet(DOMAIN s)
  BY <1>1, FS_Interval
<1>3. {i \in DOMAIN s : s[i] = x} \subseteq DOMAIN s
  OBVIOUS
<1> QED BY <1>2, <1>3, FS_Subset, FS_CardinalityType DEF Occurrences

LEMMA OccurrencesNone ==
  ASSUME NEW x
  PROVE  Occurrences(<<>>, x) = 0
<1>1. {i \in DOMAIN <<>> : <<>>[i] = x} = {}
  OBVIOUS
<1> QED BY <1>1, FS_EmptySet DEF Occurrences

LEMMA DisjointSize ==
  ASSUME NEW S, NEW T, IsFiniteSet(S), IsFiniteSet(T), S \cap T = {}
  PROVE  Cardinality(S \cup T) = Cardinality(S) + Cardinality(T)
<1>1. Cardinality(S \cap T) = 0
  BY FS_EmptySet
<1>2. Cardinality(S) \in Nat /\ Cardinality(T) \in Nat
  BY FS_CardinalityType
<1>3. Cardinality(S \cup T) = Cardinality(S) + Cardinality(T) - Cardinality(S \cap T)
  BY FS_Union
<1> QED BY <1>1, <1>2, <1>3

(* How often a value is in two sequences, one after the other.             *)
LEMMA OccurrencesConcat ==
  ASSUME NEW S, NEW s \in Seq(S), NEW t \in Seq(S), NEW x
  PROVE  Occurrences(s \o t, x) = Occurrences(s, x) + Occurrences(t, x)
<1> DEFINE A == {i \in DOMAIN s : s[i] = x}
           B == {i \in DOMAIN t : t[i] = x}
           C == {i \in DOMAIN (s \o t) : (s \o t)[i] = x}
           f == [i \in B |-> Len(s) + i]
           D == {Len(s) + i : i \in B}
<1>1. f \in Bijection(B, D)
  <2>1. Len(s) \in Nat /\ \A i \in B : i \in Nat
    OBVIOUS
  <2>2. \A i, j \in B : f[i] = f[j] => i = j
    BY <2>1
  <2>3. f \in [B -> D] /\ \A d \in D : \E i \in B : f[i] = d
    OBVIOUS
  <2> HIDE DEF f, B, D
  <2> QED BY <2>2, <2>3 DEF Bijection, Injection, Surjection, IsInjective
<1>2. IsFiniteSet(A) /\ IsFiniteSet(B)
  BY OccurrencesType
<1>3. IsFiniteSet(D) /\ Cardinality(D) = Cardinality(B)
  BY <1>1, <1>2, FS_Bijection DEF ExistsBijection
<1>4. C = A \cup D
  <2>1. \A i \in C : i \in A \cup D
    <3> SUFFICES ASSUME NEW i \in C PROVE i \in A \cup D
      OBVIOUS
    <3>1. CASE i \in 1 .. Len(s)
      BY <3>1, Concat
    <3>2. CASE i \notin 1 .. Len(s)
      <4>1. i - Len(s) \in 1 .. Len(t) /\ i = Len(s) + (i - Len(s))
        BY <3>2, Concat
      <4>2. t[i - Len(s)] = x
        BY <4>1, Concat
      <4> QED BY <4>1, <4>2
    <3> QED BY <3>1, <3>2
  <2>2. \A i \in A : i \in C
    BY Concat
  <2>3. \A i \in B : Len(s) + i \in C
    BY Concat
  <2> QED BY <2>1, <2>2, <2>3
<1>5. A \cap D = {}
  OBVIOUS
<1>6. Cardinality(C) = Cardinality(A) + Cardinality(D)
  <2> HIDE DEF A, C, D
  <2> QED BY <1>2, <1>3, <1>4, <1>5, DisjointSize
<1>7. Occurrences(s, x) = Cardinality(A) /\ Occurrences(t, x) = Cardinality(B)
      /\ Occurrences(s \o t, x) = Cardinality(C)
  BY DEF Occurrences
<1> QED BY <1>3, <1>6, <1>7
-----------------------------------------------------------------------------
(* Constants.                                                              *)

LEMMA ProgramFacts ==
  ASSUME program \in Programs
  PROVE  /\ Len(program) \in Nat /\ DOMAIN program = 1 .. Len(program)
         /\ \A i \in 1 .. Len(program) :
              /\ program[i].op = "file" => program[i].changes \in Seq(Changes \cup {<<"bad line">>})
              /\ program[i].op = "+batch" => program[i].val \in BOOLEAN
              /\ program[i].op = "+mb" => program[i].val \in Nat
BY StreamerAssumption DEF Changes

LEMMA RgFacts ==
  ASSUME program \in Programs, Handles("rg"), arg \in Nat \ {0}
  PROVE  /\ program[arg].N \in Nat /\ program[arg].P \in 1 .. program[arg].N
         /\ program[arg].r \in 0 .. program[arg].P - 1
         /\ (0 .. program[arg].N - 1) \X (0 .. program[arg].N - 1) \subseteq Edge
<1>1. Len(program) \in Nat /\ DOMAIN program = 1 .. Len(program)
  BY StreamerAssumption
<1>2. arg \in DOMAIN program /\ program[arg].op = "rg"
  BY <1>1 DEF Handles
<1> QED BY <1>2, StreamerAssumption

LEMMA OwnerFacts ==
  ASSUME list \in Lists, NEW e \in Edge
  PROVE  Owners[list][e] \in Agent
BY StreamerAssumption

-----------------------------------------------------------------------------
(* Sending.                                                                *)

(* The changes cs were added to what was sent, paced or not.               *)
Sends(cs, p) ==
  /\ sent' \in Seq(Records)
  /\ Len(sent) \in Nat /\ DOMAIN sent = 1 .. Len(sent)
  /\ Len(cs) \in Nat /\ Len(sent') = Len(sent) + Len(cs)
  /\ DOMAIN sent' = 1 .. Len(sent) + Len(cs)
  /\ \A i \in 1 .. Len(sent) : sent'[i] = sent[i]
  /\ \A i \in 1 .. Len(cs) : sent'[Len(sent) + i].paced = p
  /\ Out' = Out \o cs

LEMMA OutType ==
  ASSUME sent \in Seq(Records)
  PROVE  Out \in Seq(Changes) /\ Len(Out) = Len(sent) /\ DOMAIN Out = DOMAIN sent
         /\ DOMAIN sent = 1 .. Len(sent) /\ Len(sent) \in Nat
         /\ \A i \in DOMAIN sent : Out[i] = sent[i].change
<1>1. \A i \in DOMAIN sent : sent[i] \in Records
  OBVIOUS
<1>2. \A i \in DOMAIN sent : sent[i].change \in Changes
  BY <1>1 DEF Records
<1>3. DOMAIN sent = 1 .. Len(sent) /\ Len(sent) \in Nat
  OBVIOUS
<1>4. Out \in [1 .. Len(sent) -> Changes]
  BY <1>2, <1>3 DEF Out
<1>5. Out \in Seq(Changes) /\ Len(Out) = Len(sent)
  BY <1>3, <1>4, SeqOf
<1> QED BY <1>3, <1>4, <1>5 DEF Out

LEMMA SendsNew ==
  ASSUME sent \in Seq(Records), NEW new \in Seq(Records), NEW cs \in Seq(Changes), NEW p,
         Len(new) = Len(cs), \A i \in 1 .. Len(cs) : new[i].paced = p /\ new[i].change = cs[i],
         sent' = sent \o new
  PROVE  Sends(cs, p)
<1>1. /\ sent' \in Seq(Records)
      /\ Len(sent) \in Nat /\ DOMAIN sent = 1 .. Len(sent)
      /\ Len(cs) \in Nat /\ Len(sent') = Len(sent) + Len(cs)
      /\ DOMAIN sent' = 1 .. Len(sent) + Len(cs)
      /\ \A i \in 1 .. Len(sent) : sent'[i] = sent[i]
      /\ \A i \in 1 .. Len(cs) : sent'[Len(sent) + i] = new[i]
  <2>1. /\ sent \o new \in Seq(Records) /\ Len(sent) \in Nat
        /\ Len(sent \o new) = Len(sent) + Len(new)
        /\ DOMAIN (sent \o new) = 1 .. Len(sent) + Len(new)
        /\ \A i \in 1 .. Len(sent) : (sent \o new)[i] = sent[i]
        /\ \A i \in 1 .. Len(new) : (sent \o new)[Len(sent) + i] = new[i]
    <3>1. /\ sent \o new \in Seq(Records) /\ Len(sent) \in Nat
          /\ Len(sent \o new) = Len(sent) + Len(new)
          /\ DOMAIN (sent \o new) = 1 .. Len(sent) + Len(new)
      BY ConcatType
    <3>2. \A i \in 1 .. Len(sent) : (sent \o new)[i] = sent[i]
      BY ConcatFirst
    <3>3. \A i \in 1 .. Len(new) : (sent \o new)[Len(sent) + i] = new[i]
      BY ConcatSecond
    <3> QED BY <3>1, <3>2, <3>3
  <2>2. DOMAIN sent = 1 .. Len(sent) /\ Len(cs) \in Nat
    OBVIOUS
  <2> QED BY <2>1, <2>2
<1>2. Out' = Out \o cs
  <2>1. /\ Out \in Seq(Changes) /\ Len(Out) = Len(sent) /\ DOMAIN Out = DOMAIN sent
        /\ \A i \in DOMAIN sent : Out[i] = sent[i].change
    BY OutType
  <2>2. Out' \in Seq(Changes) /\ Len(Out') = Len(sent) + Len(cs)
        /\ \A i \in DOMAIN sent' : Out'[i] = sent'[i].change
    <3>1. \A i \in DOMAIN sent' : sent'[i] \in Records
      BY <1>1, ElementOf
    <3>2. \A i \in DOMAIN sent' : sent'[i].change \in Changes
      BY <3>1 DEF Records
    <3>3. Len(sent) + Len(cs) \in Nat
      BY <1>1
    <3>4. Out' \in [1 .. Len(sent) + Len(cs) -> Changes]
      BY <3>2, <1>1 DEF Out
    <3> QED BY <3>3, <3>4, SeqOf DEF Out
  <2>3. /\ Out \o cs \in Seq(Changes) /\ Len(Out \o cs) = Len(sent) + Len(cs)
        /\ \A i \in 1 .. Len(sent) : (Out \o cs)[i] = Out[i]
        /\ \A i \in 1 .. Len(cs) : (Out \o cs)[Len(sent) + i] = cs[i]
    <3>1. /\ Out \o cs \in Seq(Changes) /\ Len(Out \o cs) = Len(Out) + Len(cs)
          /\ \A i \in 1 .. Len(Out) : (Out \o cs)[i] = Out[i]
          /\ \A i \in 1 .. Len(cs) : (Out \o cs)[Len(Out) + i] = cs[i]
      <4>1. Out \o cs \in Seq(Changes) /\ Len(Out \o cs) = Len(Out) + Len(cs)
        BY <2>1, ConcatType
      <4>2. \A i \in 1 .. Len(Out) : (Out \o cs)[i] = Out[i]
        BY <2>1, ConcatFirst
      <4>3. \A i \in 1 .. Len(cs) : (Out \o cs)[Len(Out) + i] = cs[i]
        BY <2>1, ConcatSecond
      <4> QED BY <4>1, <4>2, <4>3
    <3> QED BY <3>1, <2>1
  <2>4. ASSUME NEW i \in 1 .. Len(sent) + Len(cs) PROVE Out'[i] = (Out \o cs)[i]
    <3>1. CASE i \in 1 .. Len(sent)
      <4>1. i \in DOMAIN sent /\ i \in DOMAIN sent' /\ sent'[i] = sent[i]
        BY <3>1, <1>1
      <4>2. Out'[i] = sent'[i].change /\ Out[i] = sent[i].change
        BY <4>1, <2>1, <2>2
      <4>3. (Out \o cs)[i] = Out[i]
        BY <3>1, <2>3
      <4> QED BY <4>1, <4>2, <4>3
    <3>2. CASE i \notin 1 .. Len(sent)
      <4>1. i - Len(sent) \in 1 .. Len(cs) /\ Len(sent) + (i - Len(sent)) = i
        BY <3>2, <1>1
      <4> DEFINE j == i - Len(sent)
      <4>4. i \in DOMAIN sent' /\ sent'[i] = new[j] /\ new[j].change = cs[j]
        BY <4>1, <1>1
      <4>5. Out'[i] = sent'[i].change
        BY <4>4, <2>2
      <4>2. Out'[i] = cs[j]
        BY <4>4, <4>5
      <4>3. (Out \o cs)[i] = cs[j]
        BY <4>1, <2>3
      <4> QED BY <4>1, <4>2, <4>3
    <3> QED BY <3>1, <3>2
  <2>5. Len(sent) + Len(cs) \in Nat
    BY <1>1
  <2> QED BY <2>2, <2>3, <2>4, <2>5, SameSeq
<1> QED BY <1>1, <1>2 DEF Sends

LEMMA ChangeEdgeSends ==
  ASSUME sent \in Seq(Records), list \in Lists, NEW cs \in Seq(Changes), ChangeEdge(cs)
  PROVE  Sends(cs, Paced)
<1> DEFINE new == [i \in DOMAIN cs |-> Record(cs[i], Owners[list][cs[i][1]], Len(sent) + i, FALSE)]
<1>1. Paced \in BOOLEAN
  BY DEF Paced
<1>2. DOMAIN cs = 1 .. Len(cs) /\ Len(cs) \in Nat /\ Len(sent) \in Nat
  BY ElementOf
<1>3. ASSUME NEW i \in DOMAIN cs
      PROVE  new[i] \in Records /\ new[i].paced = Paced /\ new[i].change = cs[i]
  <2>1. cs[i] \in Changes /\ cs[i][1] \in Edge
    BY DEF Changes
  <2>2. Owners[list][cs[i][1]] \in Agent
    BY <2>1, OwnerFacts
  <2>3. Len(sent) + i \in Nat
    BY <1>2
  <2> QED BY <1>1, <2>1, <2>2, <2>3 DEF Record, Records
<1>4. new \in [1 .. Len(cs) -> Records]
  BY <1>2, <1>3
<1>6. new \in Seq(Records) /\ Len(new) = Len(cs)
  <2> HIDE DEF new
  <2> QED BY <1>2, <1>4, SeqOf
<1>5. sent' = sent \o new
  BY DEF ChangeEdge
<1> HIDE DEF new
<1> QED BY <1>2, <1>3, <1>5, <1>6, SendsNew

Vectors == [edge : Edge, to : Agent]
AsChanges(q) == [i \in DOMAIN q |-> <<q[i].edge, TRUE>>]

LEMMA AsChangesType ==
  ASSUME NEW q \in Seq(Vectors)
  PROVE  /\ AsChanges(q) \in Seq(Changes) /\ Len(AsChanges(q)) = Len(q)
         /\ DOMAIN q = 1 .. Len(q) /\ Len(q) \in Nat
         /\ \A i \in 1 .. Len(q) : AsChanges(q)[i] = <<q[i].edge, TRUE>>
<1>1. Len(q) \in Nat /\ DOMAIN q = 1 .. Len(q) /\ \A i \in DOMAIN q : q[i] \in Vectors
  BY ElementOf
<1>2. \A i \in DOMAIN q : <<q[i].edge, TRUE>> \in Changes
  BY <1>1 DEF Vectors, Changes
<1>3. AsChanges(q) \in [1 .. Len(q) -> Changes]
  BY <1>1, <1>2 DEF AsChanges
<1>4. AsChanges(q) \in Seq(Changes) /\ Len(AsChanges(q)) = Len(q)
  BY <1>1, <1>3, SeqOf
<1> QED BY <1>1, <1>4 DEF AsChanges

LEMMA SendVectorsSends ==
  ASSUME sent \in Seq(Records), NEW q \in Seq(Vectors), NEW rest, SendVectors(q, rest)
  PROVE  Sends(AsChanges(q), Paced) /\ queued' = rest
<1> DEFINE new == [i \in DOMAIN q |-> Record(<<q[i].edge, TRUE>>, q[i].to, Len(sent) + 1, TRUE)]
<1>1. Paced \in BOOLEAN
  BY DEF Paced
<1>2. DOMAIN q = 1 .. Len(q) /\ Len(q) \in Nat /\ Len(sent) \in Nat
  BY ElementOf
<1>3. ASSUME NEW i \in DOMAIN q
      PROVE  /\ new[i] \in Records /\ new[i].paced = Paced
             /\ new[i].change = AsChanges(q)[i]
  <2>1. <<q[i].edge, TRUE>> \in Changes /\ q[i].to \in Agent
    <3>1. q[i] \in Vectors
      BY ElementOf
    <3> QED BY <3>1 DEF Vectors, Changes
  <2>2. Len(sent) + 1 \in Nat
    BY <1>2
  <2> QED BY <1>1, <2>1, <2>2 DEF Record, Records, AsChanges
<1>4. new \in [1 .. Len(q) -> Records]
  BY <1>2, <1>3
<1>7. new \in Seq(Records) /\ Len(new) = Len(q)
  <2> HIDE DEF new
  <2> QED BY <1>2, <1>4, SeqOf
<1>5. sent' = sent \o new /\ queued' = rest
  BY DEF SendVectors
<1>6. AsChanges(q) \in Seq(Changes) /\ Len(AsChanges(q)) = Len(q)
  BY AsChangesType
<1> HIDE DEF new
<1> QED BY <1>2, <1>3, <1>5, <1>6, <1>7, SendsNew

(* What waits after more of it was placed.                                 *)
LEMMA PlacedType ==
  ASSUME queued \in Seq(Vectors), list \in Lists, NEW es \in Seq(Edge)
  PROVE  /\ Placed(es) \in Seq(Vectors)
         /\ AsChanges(Placed(es)) = AsChanges(queued) \o [i \in DOMAIN es |-> <<es[i], TRUE>>]
         /\ [i \in DOMAIN es |-> <<es[i], TRUE>>] \in Seq(Changes)
<1> DEFINE new == [i \in DOMAIN es |-> [edge |-> es[i], to |-> Owners[list][es[i]]]]
           cs == [i \in DOMAIN es |-> <<es[i], TRUE>>]
<1>1. DOMAIN es = 1 .. Len(es) /\ Len(es) \in Nat
  OBVIOUS
<1>2. ASSUME NEW i \in DOMAIN es
      PROVE  new[i] \in Vectors /\ new[i].edge = es[i] /\ cs[i] \in Changes
  <2>1. es[i] \in Edge /\ Owners[list][es[i]] \in Agent
    BY OwnerFacts
  <2> QED BY <2>1 DEF Vectors, Changes
<1>3. /\ new \in Seq(Vectors) /\ Len(new) = Len(es)
      /\ cs \in Seq(Changes) /\ Len(cs) = Len(es)
  <2>1. new \in [1 .. Len(es) -> Vectors] /\ cs \in [1 .. Len(es) -> Changes]
    BY <1>1, <1>2
  <2> HIDE DEF new, cs
  <2> QED BY <1>1, <2>1, SeqOf
<1>4. Placed(es) = queued \o new
  BY DEF Placed
<1>5. \A i \in 1 .. Len(es) : new[i].edge = es[i] /\ cs[i] = <<es[i], TRUE>>
  BY <1>1
<1> HIDE DEF new, cs
<1>6. /\ queued \o new \in Seq(Vectors) /\ Len(queued \o new) = Len(queued) + Len(es)
      /\ DOMAIN (queued \o new) = 1 .. Len(queued) + Len(es)
      /\ Len(queued) \in Nat
      /\ \A i \in 1 .. Len(queued) : (queued \o new)[i] = queued[i]
      /\ \A i \in 1 .. Len(es) : (queued \o new)[Len(queued) + i] = new[i]
  <2>1. /\ queued \o new \in Seq(Vectors) /\ Len(queued \o new) = Len(queued) + Len(new)
        /\ DOMAIN (queued \o new) = 1 .. Len(queued) + Len(new)
        /\ Len(queued) \in Nat
        /\ \A i \in 1 .. Len(queued) : (queued \o new)[i] = queued[i]
        /\ \A i \in 1 .. Len(new) : (queued \o new)[Len(queued) + i] = new[i]
    BY SMTT(30), <1>3
  <2> QED BY <2>1, <1>3
<1>7. AsChanges(queued) \in Seq(Changes) /\ Len(AsChanges(queued)) = Len(queued)
      /\ \A i \in 1 .. Len(queued) : AsChanges(queued)[i] = <<queued[i].edge, TRUE>>
  BY AsChangesType
<1>8. /\ AsChanges(queued) \o cs \in Seq(Changes)
      /\ Len(AsChanges(queued) \o cs) = Len(queued) + Len(es)
      /\ \A i \in 1 .. Len(queued) : (AsChanges(queued) \o cs)[i] = AsChanges(queued)[i]
      /\ \A i \in 1 .. Len(es) : (AsChanges(queued) \o cs)[Len(queued) + i] = cs[i]
  <2> DEFINE w == AsChanges(queued)
  <2>1. w \in Seq(Changes) /\ Len(w) = Len(queued)
    BY <1>7
  <2> HIDE DEF w
  <2>2. /\ w \o cs \in Seq(Changes) /\ Len(w \o cs) = Len(w) + Len(cs)
        /\ \A i \in 1 .. Len(w) : (w \o cs)[i] = w[i]
        /\ \A i \in 1 .. Len(cs) : (w \o cs)[Len(w) + i] = cs[i]
    <3>1. w \o cs \in Seq(Changes) /\ Len(w \o cs) = Len(w) + Len(cs)
      BY <1>3, <2>1, ConcatType
    <3>2. \A i \in 1 .. Len(w) : (w \o cs)[i] = w[i]
      BY <1>3, <2>1, ConcatFirst
    <3>3. \A i \in 1 .. Len(cs) : (w \o cs)[Len(w) + i] = cs[i]
      BY <1>3, <2>1, ConcatSecond
    <3> QED BY <3>1, <3>2, <3>3
  <2>3. /\ w \o cs \in Seq(Changes) /\ Len(w \o cs) = Len(queued) + Len(es)
        /\ \A i \in 1 .. Len(queued) : (w \o cs)[i] = w[i]
        /\ \A i \in 1 .. Len(es) : (w \o cs)[Len(queued) + i] = cs[i]
    BY <1>3, <2>1, <2>2
  <2> QED BY <2>3 DEF w
<1>9. /\ AsChanges(queued \o new) \in Seq(Changes)
      /\ Len(AsChanges(queued \o new)) = Len(queued) + Len(es)
      /\ \A i \in 1 .. Len(queued) + Len(es) :
           AsChanges(queued \o new)[i] = <<(queued \o new)[i].edge, TRUE>>
  BY <1>6, AsChangesType
<1>10. ASSUME NEW i \in 1 .. Len(queued) + Len(es)
       PROVE  AsChanges(queued \o new)[i] = (AsChanges(queued) \o cs)[i]
  <2>1. CASE i \in 1 .. Len(queued)
    BY <2>1, <1>6, <1>7, <1>8, <1>9
  <2>2. CASE i \notin 1 .. Len(queued)
    <3> DEFINE j == i - Len(queued)
    <3>1. j \in 1 .. Len(es) /\ Len(queued) + j = i
      BY <2>2, <1>6, <1>1
    <3> HIDE DEF j
    <3>2. AsChanges(queued \o new)[i] = <<new[j].edge, TRUE>>
      BY <3>1, <1>6, <1>9
    <3>3. (AsChanges(queued) \o cs)[i] = cs[j]
      BY <3>1, <1>8
    <3> QED BY <3>1, <3>2, <3>3, <1>5
  <2> QED BY <2>1, <2>2
<1>11. AsChanges(queued \o new) = AsChanges(queued) \o cs
  BY <1>8, <1>9, <1>10, <1>1, <1>6
<1> QED BY <1>3, <1>4, <1>6, <1>11 DEF cs
-----------------------------------------------------------------------------
(* Types: each step keeps Typed.                                           *)

LEMMA TypedInit ==
  ASSUME Init
  PROVE  Typed
<1>1. /\ feed \in Seq(Seq(Edge)) /\ 1 \in Lists /\ program \in Programs
      /\ [type |-> "DIRECTORY_UPDATE", list |-> 1] \in Publications
  BY StreamerAssumption DEF Init, Publications
<1>2. Len(program) \in Nat
  BY <1>1, ProgramFacts
<1>3. TypeOK
  BY <1>1, <1>2 DEF Init, TypeOK
<1>4. Options
  BY <1>1 DEF Init, Options
<1>5. Queues
  BY <1>1 DEF Init, Queues
<1>6. Placement
  BY DEF Init, Placement
<1> QED BY <1>3, <1>4, <1>5, <1>6 DEF Typed

(* What taking one publication does.                                       *)
LEMMA PollTypes ==
  ASSUME Typed, Poll
  PROVE  /\ socket' \in Seq(Publications) /\ count' \in Nat /\ count <= count'
         /\ list' \in Lists \cup {0} /\ (list # 0 => list' # 0)
<1>1. Head(socket) \in Publications /\ Tail(socket) \in Seq(Publications)
  BY HeadTail DEF Poll, Take, Typed, Queues
<1>2. 0 \notin Lists
  BY StreamerAssumption
<1>3. Head(socket).type = "DIRECTORY_UPDATE" => Head(socket).list \in Lists
  BY <1>1 DEF Publications
<1>4. socket' \in Seq(Publications)
  BY <1>1 DEF Poll, Take
<1>5. count' \in Nat /\ count <= count'
  BY DEF Poll, Take, Typed, TypeOK
<1>6. list' \in Lists \cup {0} /\ (list # 0 => list' # 0)
  BY <1>2, <1>3 DEF Poll, Take, Typed, TypeOK
<1> QED BY <1>4, <1>5, <1>6

LEMMA PollOrTimeoutTypes ==
  ASSUME Typed, PollOrTimeout \/ UNCHANGED <<socket, list, count>>
  PROVE  /\ socket' \in Seq(Publications) /\ count' \in Nat /\ count <= count'
         /\ list' \in Lists \cup {0} /\ (list # 0 => list' # 0)
<1>1. CASE Poll
  BY <1>1, PollTypes
<1>2. CASE UNCHANGED <<socket, list, count>>
  <2>1. socket' = socket /\ list' = list /\ count' = count
    BY <1>2
  <2>2. socket \in Seq(Publications) /\ list \in Lists \cup {0} /\ count \in Nat
    BY DEF Typed, TypeOK, Queues
  <2>3. count <= count'
    BY <2>1, <2>2
  <2> QED BY <2>1, <2>2, <2>3
<1> QED BY <1>1, <1>2 DEF PollOrTimeout

(* The argument that a place is about is not the last but one.             *)
LEMMA NextArgType ==
  ASSUME Typed, pc \notin {"start", "args", "end", "thrown"}
  PROVE  arg \in 1 .. Len(program) /\ arg + 1 \in 1 .. Len(program) + 1 /\ list # 0
<1>1. program \in Programs
  BY DEF Typed, Options
<1>2. Len(program) \in Nat
  BY <1>1, ProgramFacts
<1>3. arg \in 1 .. Len(program) + 1
  BY DEF Typed, TypeOK
<1>4. arg <= Len(program)
  BY DEF Typed, TypeOK, Placement, Handles
<1>5. list # 0
  BY DEF Typed, Placement
<1> QED BY <1>2, <1>3, <1>4, <1>5

LEMMA TypedWaitUntilReady ==
  ASSUME Typed, WaitUntilReady
  PROVE  Typed'
<1> USE DEF options, place, buffer, outside, clusterVars
<1>0. /\ socket' \in Seq(Publications) /\ count' \in Nat /\ count <= count'
      /\ list' \in Lists \cup {0} /\ (list # 0 => list' # 0)
  BY PollTypes DEF WaitUntilReady
<1>1. TypeOK'
  BY <1>0 DEF WaitUntilReady, Typed, TypeOK, Placement, Handles
<1>2. Options'
  BY DEF WaitUntilReady, Typed, Options
<1>3. Queues'
  BY <1>0 DEF WaitUntilReady, Typed, Queues
<1>4. Placement'
  BY <1>0 DEF WaitUntilReady, Typed, TypeOK, Placement, Handles
<1> QED BY <1>1, <1>2, <1>3, <1>4 DEF Typed

LEMMA TypedArgument ==
  ASSUME Typed, Argument
  PROVE  Typed'
<1> USE DEF options, place, buffer, outside, clusterVars
<1>0. /\ Len(program) \in Nat /\ arg \in 1 .. Len(program)
      /\ program[arg].op = "file" => program[arg].changes \in Seq(Changes \cup {<<"bad line">>})
      /\ program[arg].op = "+batch" => program[arg].val \in BOOLEAN
      /\ program[arg].op = "+mb" => program[arg].val \in Nat
  <2>1. program \in Programs /\ arg \in 1 .. Len(program) + 1 /\ arg <= Len(program)
    BY DEF Argument, Typed, TypeOK, Options
  <2>2. Len(program) \in Nat
    BY <2>1, ProgramFacts
  <2>3. arg \in 1 .. Len(program)
    BY <2>1, <2>2
  <2> QED BY <2>1, <2>2, <2>3, ProgramFacts
<1>5. program[arg].op \in {"file", "rg", "listen", "+batch", "+wait+batch", "+mb"}
  BY DEF Argument
<1>1. TypeOK'
  <2>1. pc' \in {"file", "rg", "listen", "args"} /\ arg' \in {arg, arg + 1} /\ program' = program
    BY DEF Argument, NextArg
  <2>5. Len(program) \in Nat /\ arg \in 1 .. Len(program) /\ (arg' = arg \/ arg' = arg + 1)
    BY <1>0, <2>1
  <2>2. arg' \in 1 .. Len(program) + 1
    BY <2>5
  <2>3. ctr' \in Nat /\ chosen' \subseteq Edge /\ count' = count /\ seen' \in 0 .. count
    BY DEF Argument, Typed, TypeOK
  <2>4. UNCHANGED <<queued, size, list, arrived, running, finished, sent>>
    BY DEF Argument
  <2> QED BY <2>1, <2>2, <2>3, <2>4 DEF Typed, TypeOK
<1>2. Options'
  BY <1>0 DEF Argument, NextArg, Typed, Options
<1>3. Queues'
  BY <1>0 DEF Argument, NextArg, Typed, Queues
<1>4. Placement'
  BY <1>0 DEF Argument, NextArg, Typed, TypeOK, Placement, Handles
<1> QED BY <1>1, <1>2, <1>3, <1>4 DEF Typed

LEMMA TypedExit ==
  ASSUME Typed, Exit
  PROVE  Typed'
<1> USE DEF options, place, buffer, outside, clusterVars
<1>1. TypeOK'
  BY DEF Exit, Typed, TypeOK, Placement, Handles
<1>2. Options'
  BY DEF Exit, Typed, Options
<1>3. Queues'
  BY DEF Exit, Typed, Queues
<1>4. Placement'
  BY DEF Exit, Typed, TypeOK, Placement, Handles
<1> QED BY <1>1, <1>2, <1>3, <1>4 DEF Typed

LEMMA TypedBadLine ==
  ASSUME Typed, BadLine
  PROVE  Typed'
<1> USE DEF options, place, buffer, outside, clusterVars
<1>1. TypeOK'
  BY DEF BadLine, Typed, TypeOK, Placement, Handles
<1>2. Options'
  BY DEF BadLine, Typed, Options
<1>3. Queues'
  BY DEF BadLine, Typed, Queues
<1>4. Placement'
  BY DEF BadLine, Typed, TypeOK, Placement, Handles
<1> QED BY <1>1, <1>2, <1>3, <1>4 DEF Typed

LEMMA TypedWait ==
  ASSUME Typed, Wait
  PROVE  Typed'
<1> USE DEF options, place, buffer, outside, clusterVars
<1>0. /\ socket' \in Seq(Publications) /\ count' \in Nat /\ count <= count'
      /\ list' \in Lists \cup {0} /\ (list # 0 => list' # 0)
  BY PollTypes DEF Wait, WaitStep
<1>5. arg \in 1 .. Len(program) /\ arg + 1 \in 1 .. Len(program) + 1 /\ list # 0
  BY NextArgType DEF Wait, WaitStep
<1>1. TypeOK'
  BY <1>0, <1>5 DEF Wait, WaitStep, Typed, TypeOK, Placement, Handles
<1>2. Options'
  BY DEF Wait, WaitStep, Typed, Options
<1>3. Queues'
  BY <1>0 DEF Wait, WaitStep, Typed, Queues
<1>4. Placement'
  BY <1>0, <1>5 DEF Wait, WaitStep, Typed, TypeOK, Placement, Handles
<1> QED BY <1>1, <1>2, <1>3, <1>4 DEF Typed

LEMMA TypedLastPoll ==
  ASSUME Typed, LastPoll
  PROVE  Typed'
<1> USE DEF options, place, buffer, outside, clusterVars
<1>0. /\ socket' \in Seq(Publications) /\ count' \in Nat /\ count <= count'
      /\ list' \in Lists \cup {0} /\ (list # 0 => list' # 0)
  BY PollOrTimeoutTypes DEF LastPoll
<1>5. arg \in 1 .. Len(program) /\ arg + 1 \in 1 .. Len(program) + 1 /\ list # 0
  BY NextArgType DEF LastPoll
<1>1. TypeOK'
  BY <1>0, <1>5 DEF LastPoll, NextArg, Typed, TypeOK, Placement, Handles
<1>2. Options'
  BY DEF LastPoll, NextArg, Typed, Options
<1>3. Queues'
  BY <1>0 DEF LastPoll, NextArg, Typed, Queues
<1>4. Placement'
  BY <1>0, <1>5 DEF LastPoll, NextArg, Typed, TypeOK, Placement, Handles
<1> QED BY <1>1, <1>2, <1>3, <1>4 DEF Typed

LEMMA TypedInterrupted ==
  ASSUME Typed, Interrupted
  PROVE  Typed'
<1> USE DEF options, place, buffer, outside, clusterVars
<1>0. /\ socket' \in Seq(Publications) /\ count' \in Nat /\ count <= count'
      /\ list' \in Lists \cup {0} /\ (list # 0 => list' # 0)
  BY PollOrTimeoutTypes DEF Interrupted
<1>5. arg \in 1 .. Len(program) /\ arg + 1 \in 1 .. Len(program) + 1 /\ list # 0
  BY NextArgType DEF Interrupted
<1>1. TypeOK'
  BY <1>0, <1>5 DEF Interrupted, NextArg, Typed, TypeOK, Placement, Handles
<1>2. Options'
  BY DEF Interrupted, NextArg, Typed, Options
<1>3. Queues'
  BY <1>0 DEF Interrupted, NextArg, Typed, Queues
<1>4. Placement'
  BY <1>0, <1>5 DEF Interrupted, NextArg, Typed, TypeOK, Placement, Handles
<1> QED BY <1>1, <1>2, <1>3, <1>4 DEF Typed

LEMMA TypedListenPoll ==
  ASSUME Typed, ListenPoll \/ ListenEmpty
  PROVE  Typed'
<1> USE DEF options, place, buffer, outside, clusterVars
<1>1. TypeOK'
  BY DEF ListenPoll, ListenEmpty, Typed, TypeOK, Placement, Handles
<1>2. Options'
  BY DEF ListenPoll, ListenEmpty, Typed, Options
<1>3. Queues'
  BY DEF ListenPoll, ListenEmpty, Typed, Queues
<1>4. Placement'
  BY DEF ListenPoll, ListenEmpty, Typed, TypeOK, Placement, Handles
<1> QED BY <1>1, <1>2, <1>3, <1>4 DEF Typed
-----------------------------------------------------------------------------
(* What a step does with changes: it reads cs and sends them, or has them  *)
(* wait, or sends them after all that waits.                               *)

Direct(cs) == Sends(cs, Paced) /\ queued' = queued
Hold(cs) ==
  /\ batch /\ sent' = sent
  /\ queued' \in Seq(Vectors) /\ AsChanges(queued') = AsChanges(queued) \o cs
Flush(cs) == batch /\ Sends(AsChanges(queued) \o cs, Paced) /\ queued' = <<>>
Moves(cs) ==
  /\ cs \in Seq(Changes)
  /\ read' = read \o cs
  /\ Direct(cs) \/ Hold(cs) \/ Flush(cs)

LEMMA MovesTypes ==
  ASSUME Typed, NEW cs, Moves(cs)
  PROVE  /\ read' \in Seq(Changes) /\ sent' \in Seq(Records) /\ queued' \in Seq(Vectors)
         /\ DOMAIN sent \subseteq DOMAIN sent'
<1>1. read \in Seq(Changes) /\ sent \in Seq(Records) /\ queued \in Seq(Vectors)
  BY DEF Typed, TypeOK, Queues, Vectors
<1>2. read' \in Seq(Changes)
  BY <1>1, ConcatType DEF Moves
<1>3. CASE Direct(cs)
  <2>1. sent' \in Seq(Records) /\ DOMAIN sent \subseteq DOMAIN sent'
    BY <1>3 DEF Direct, Sends
  <2> QED BY <1>1, <1>2, <1>3, <2>1 DEF Direct
<1>4. CASE Hold(cs)
  BY <1>1, <1>2, <1>4 DEF Hold
<1>5. CASE Flush(cs)
  <2>1. sent' \in Seq(Records) /\ DOMAIN sent \subseteq DOMAIN sent'
    BY <1>5 DEF Flush, Sends
  <2>2. queued' \in Seq(Vectors)
    BY <1>5 DEF Flush
  <2> QED BY <1>2, <2>1, <2>2
<1> QED BY <1>3, <1>4, <1>5 DEF Moves

(* The list in use, in every place where changes move.                     *)
LEMMA ListKnown ==
  ASSUME Typed, pc # "start"
  PROVE  list \in Lists
BY DEF Typed, TypeOK, Placement

LEMMA One ==
  ASSUME NEW S, NEW x \in S
  PROVE  <<x>> \in Seq(S) /\ Len(<<x>>) = 1 /\ DOMAIN <<x>> = {1} /\ <<x>>[1] = x
OBVIOUS

LEMMA ChangeParts ==
  ASSUME NEW c \in Changes
  PROVE  c[1] \in Edge /\ c[2] \in BOOLEAN /\ c = <<c[1], c[2]>>
BY DEF Changes

LEMMA LineMoves ==
  ASSUME Typed, Line
  PROVE  /\ Head(input) \in Changes /\ Moves(<<Head(input)>>)
         /\ input' \in Seq(Changes \cup {<<"bad line">>})
<1> DEFINE h == Head(input)
<1>1. h \in Changes /\ Tail(input) \in Seq(Changes \cup {<<"bad line">>})
  <2>1. input \in Seq(Changes \cup {<<"bad line">>}) /\ input # <<>> /\ Head(input) # <<"bad line">>
    BY DEF Line, Typed, Queues
  <2>2. h \in Changes \cup {<<"bad line">>} /\ Tail(input) \in Seq(Changes \cup {<<"bad line">>})
    BY <2>1, HeadTail
  <2> QED BY <2>1, <2>2
<1>2. list \in Lists /\ sent \in Seq(Records) /\ queued \in Seq(Vectors) /\ read \in Seq(Changes)
  BY ListKnown DEF Line, Typed, TypeOK, Queues, Vectors
<1>3. <<h>> \in Seq(Changes) /\ h[1] \in Edge
  <2>1. h[1] \in Edge
    BY <1>1 DEF Changes
  <2> HIDE DEF h
  <2> QED BY <1>1, <2>1, One
<1>4. read' = read \o <<h>>
  BY <1>1, <1>2, AppendConcat DEF Line
<1>5. CASE batch /\ h[2]
  <2>1. <<h[1]>> \in Seq(Edge) /\ Queue(<<h[1]>>) /\ sent' = sent
    <3>1. Queue(<<h[1]>>) /\ sent' = sent
      BY <1>5 DEF Line
    <3> HIDE DEF h
    <3> QED BY <1>3, <3>1, One
  <2>2. /\ Placed(<<h[1]>>) \in Seq(Vectors)
        /\ AsChanges(Placed(<<h[1]>>)) = AsChanges(queued) \o [i \in DOMAIN <<h[1]>> |-> <<<<h[1]>>[i], TRUE>>]
    BY <1>2, <2>1, PlacedType
  <2>3. h = <<h[1], TRUE>>
    <3> HIDE DEF h
    <3>1. h[2] \in BOOLEAN /\ h = <<h[1], h[2]>>
      BY <1>1, ChangeParts
    <3>2. h[2] = TRUE
      BY <1>5, <3>1
    <3> QED BY <3>1, <3>2
  <2>4. [i \in DOMAIN <<h[1]>> |-> <<<<h[1]>>[i], TRUE>>] = <<h>>
    <3> DEFINE g == [i \in DOMAIN <<h[1]>> |-> <<<<h[1]>>[i], TRUE>>]
    <3>1. DOMAIN <<h[1]>> = 1 .. 1 /\ <<h[1]>>[1] = h[1]
      OBVIOUS
    <3>2. g = [i \in 1 .. 1 |-> h]
      <4> HIDE DEF h
      <4>1. \A i \in 1 .. 1 : <<<<h[1]>>[i], TRUE>> = h
        <5> SUFFICES ASSUME NEW i \in 1 .. 1 PROVE <<<<h[1]>>[i], TRUE>> = h
          OBVIOUS
        <5>1. i = 1
          OBVIOUS
        <5>2. <<h[1]>>[i] = h[1]
          BY <5>1, <3>1
        <5> QED BY <5>2, <2>3
      <4> QED BY <3>1, <4>1
    <3>3. [i \in 1 .. 1 |-> h] = <<h>>
      OBVIOUS
    <3> QED BY <3>2, <3>3
  <2>5. queued' = Placed(<<h[1]>>)
    BY <2>1 DEF Queue
  <2>6. Hold(<<h>>)
    BY <1>5, <2>1, <2>2, <2>4, <2>5 DEF Hold
  <2> QED BY <1>1, <1>3, <1>4, <2>6 DEF Moves, Line
<1>6. CASE ~(batch /\ h[2])
  <2>1. ChangeEdge(<<h>>) /\ queued' = queued
    BY <1>6 DEF Line, buffer
  <2>2. Direct(<<h>>)
    BY <1>2, <1>3, <2>1, ChangeEdgeSends DEF Direct
  <2> QED BY <1>1, <1>3, <1>4, <2>2 DEF Moves, Line
<1> QED BY <1>5, <1>6

LEMMA ConcatNothing ==
  ASSUME NEW S, NEW s \in Seq(S)
  PROVE  s \o <<>> = s /\ <<>> \in Seq(S) /\ Len(<<>>) = 0
OBVIOUS

(* Sending all that waits.                                                 *)
LEMMA FlushMoves ==
  ASSUME Typed, batch, SendVectors(queued, <<>>), read' = read
  PROVE  Moves(<<>>)
<1>1. read \in Seq(Changes) /\ sent \in Seq(Records) /\ queued \in Seq(Vectors)
  BY DEF Typed, TypeOK, Queues, Vectors
<1>2. Sends(AsChanges(queued), Paced) /\ queued' = <<>>
  BY <1>1, SendVectorsSends
<1>3. AsChanges(queued) \o <<>> = AsChanges(queued)
  BY <1>1, AsChangesType, ConcatNothing
<1>4. <<>> \in Seq(Changes) /\ read' = read \o <<>>
  BY <1>1, ConcatNothing
<1> QED BY <1>2, <1>3, <1>4 DEF Moves, Flush

LEMMA StillMoves ==
  ASSUME Typed, UNCHANGED <<read, sent, queued>>
  PROVE  Moves(<<>>)
<1>1. read \in Seq(Changes) /\ sent \in Seq(Records) /\ queued \in Seq(Vectors)
  BY DEF Typed, TypeOK, Queues, Vectors
<1>2. <<>> \in Seq(Changes) /\ read' = read \o <<>>
  BY <1>1, ConcatNothing
<1>3. Sends(<<>>, Paced)
  <2>1. sent' = sent \o <<>> /\ <<>> \in Seq(Records) /\ Len(<<>>) = 0
    BY <1>1, ConcatNothing
  <2>2. \A i \in 1 .. Len(<<>>) : <<>>[i].paced = Paced /\ <<>>[i].change = <<>>[i]
    BY <2>1
  <2> QED BY <1>1, <1>2, <2>1, <2>2, SendsNew
<1> QED BY <1>2, <1>3 DEF Moves, Direct

LEMMA EndOfFileMoves ==
  ASSUME Typed, EndOfFile
  PROVE  Moves(<<>>)
<1>1. CASE batch
  <2>1. SendVectors(queued, <<>>) /\ read' = read
    BY <1>1 DEF EndOfFile, SendBatch
  <2> QED BY <1>1, <2>1, FlushMoves
<1>2. CASE ~batch
  BY <1>2, StillMoves DEF EndOfFile
<1> QED BY <1>1, <1>2 DEF Typed, Options

LEMMA ListenTimeoutMoves ==
  ASSUME Typed, ListenTimeout
  PROVE  Moves(<<>>)
<1>1. CASE batch /\ <<>> # queued
  <2>1. SendVectors(queued, <<>>) /\ read' = read
    BY <1>1 DEF ListenTimeout, Pause
  <2> QED BY <1>1, <2>1, FlushMoves
<1>2. CASE ~(batch /\ <<>> # queued)
  BY <1>2, StillMoves DEF ListenTimeout, Pause
<1> QED BY <1>1, <1>2

LEMMA ListenReadMoves ==
  ASSUME Typed, ListenRead
  PROVE  \E cs : Moves(cs)
<1> DEFINE es == Head(receiver)
           cs == [i \in DOMAIN es |-> <<es[i], TRUE>>]
<1>1. es \in Seq(Edge)
  <2>1. receiver \in Seq(Seq(Edge)) /\ receiver # <<>>
    BY DEF ListenRead, Typed, Queues
  <2> QED BY <2>1, HeadTail
<1>2. list \in Lists /\ sent \in Seq(Records) /\ queued \in Seq(Vectors) /\ read \in Seq(Changes)
  BY ListKnown DEF ListenRead, Typed, TypeOK, Queues, Vectors
<1>3. /\ Placed(es) \in Seq(Vectors) /\ AsChanges(Placed(es)) = AsChanges(queued) \o cs
      /\ cs \in Seq(Changes)
  BY <1>1, <1>2, PlacedType
<1>4. read' = read \o cs
  BY DEF ListenRead
<1>5. \/ ~batch /\ ChangeEdge(cs) /\ queued' = queued
      \/ batch /\ SendBatch(Placed(es))
      \/ batch /\ Queue(es) /\ sent' = sent
  BY DEF ListenRead, buffer, Typed, Options
<1> HIDE DEF cs, es
<1>6. CASE ~batch /\ ChangeEdge(cs) /\ queued' = queued
  BY <1>2, <1>3, <1>4, <1>6, ChangeEdgeSends DEF Moves, Direct
<1>7. CASE batch /\ SendBatch(Placed(es))
  <2>1. SendVectors(Placed(es), <<>>)
    BY <1>7 DEF SendBatch
  <2>2. Sends(AsChanges(Placed(es)), Paced) /\ queued' = <<>>
    BY <1>2, <1>3, <2>1, SendVectorsSends
  <2> QED BY <1>3, <1>4, <1>7, <2>2 DEF Moves, Flush
<1>8. CASE batch /\ Queue(es) /\ sent' = sent
  BY <1>3, <1>4, <1>8 DEF Moves, Hold, Queue
<1> QED BY <1>5, <1>6, <1>7, <1>8
(* rg draws sources among its vertices.                                    *)
LEMMA Times ==
  ASSUME NEW a \in Nat, NEW b \in Nat, NEW q \in Nat, a <= b
  PROVE  a * q \in Nat /\ a * q <= b * q
OBVIOUS

LEMMA Quotient ==
  ASSUME NEW n \in Nat, NEW p \in Nat \ {0}
  PROVE  n \div p \in Nat /\ p * (n \div p) <= n
OBVIOUS

LEMMA SourcesAreVertices ==
  ASSUME NEW p, p.N \in Nat, p.P \in 1 .. p.N, p.r \in 0 .. p.P - 1
  PROVE  Sources(p) \subseteq 0 .. p.N - 1
<1> DEFINE q == p.N \div p.P
<1>1. q \in Nat /\ p.P * q <= p.N
  BY Quotient
<1> HIDE DEF q
<1>2. p.r * q \in Nat
  BY <1>1, Times
<1>3. (p.r + 1) * q \in Nat /\ (p.r + 1) * q <= p.N
  <2>1. p.r + 1 \in Nat /\ p.P \in Nat /\ p.r + 1 <= p.P
    OBVIOUS
  <2>2. (p.r + 1) * q \in Nat /\ (p.r + 1) * q <= p.P * q
    BY <1>1, <2>1, Times
  <2>3. p.P * q \in Nat
    BY <1>1, <2>1, Times
  <2> QED BY <1>1, <2>2, <2>3
<1>4. Sources(p) = p.r * q .. (IF p.r = p.P - 1 THEN p.N ELSE (p.r + 1) * q) - 1
  BY DEF Sources, q
<1>5. ASSUME NEW x \in Sources(p) PROVE x \in 0 .. p.N - 1
  <2>1. CASE p.r = p.P - 1
    BY <1>2, <1>4, <1>5, <2>1
  <2>2. CASE p.r # p.P - 1
    BY <1>2, <1>3, <1>4, <1>5, <2>2
  <2> QED BY <2>1, <2>2
<1> QED BY <1>5

LEMMA RgMoves ==
  ASSUME Typed, Rg
  PROVE  chosen' \subseteq Edge /\ \E cs : Moves(cs)
<1> DEFINE p == program[arg]
<1>1. /\ p.N \in Nat /\ p.P \in 1 .. p.N /\ p.r \in 0 .. p.P - 1
      /\ (0 .. p.N - 1) \X (0 .. p.N - 1) \subseteq Edge
  <2>1. program \in Programs /\ Handles("rg") /\ arg \in 1 .. Len(program) + 1
    BY DEF Rg, Typed, TypeOK, Options, Placement
  <2>2. Len(program) \in Nat
    BY <2>1, ProgramFacts
  <2>3. arg \in Nat \ {0}
    BY <2>1, <2>2
  <2> QED BY <2>1, <2>3, RgFacts
<1> HIDE DEF p
<1>2. Sources(p) \subseteq 0 .. p.N - 1
  BY <1>1, SourcesAreVertices
<1>3. list \in Lists /\ sent \in Seq(Records) /\ queued \in Seq(Vectors) /\ read \in Seq(Changes)
      /\ chosen \subseteq Edge
  BY ListKnown DEF Rg, Typed, TypeOK, Queues, Vectors
<1>4. CASE UNCHANGED <<chosen, read, sent>>
  <2>1. UNCHANGED <<read, sent, queued>>
    BY <1>4 DEF Rg, buffer
  <2>2. Moves(<<>>)
    BY <2>1, StillMoves
  <2> QED BY <1>3, <1>4, <2>2
<1>5. ASSUME NEW e \in (Sources(p) \X (0 .. p.N - 1)) \ chosen,
             chosen' = chosen \cup {e}, read' = Append(read, <<e, TRUE>>),
             ChangeEdge(<<<<e, TRUE>>>>)
      PROVE  chosen' \subseteq Edge /\ \E cs : Moves(cs)
  <2>1. e \in Edge
    BY <1>1, <1>2
  <2>2. <<e, TRUE>> \in Changes
    BY <2>1 DEF Changes
  <2> DEFINE c == <<e, TRUE>>
  <2>3. c \in Changes /\ ChangeEdge(<<c>>) /\ read' = Append(read, c)
    BY <2>2, <1>5
  <2> HIDE DEF c
  <2>4. <<c>> \in Seq(Changes)
    BY <2>3, One
  <2>5. Sends(<<c>>, Paced)
    BY <1>3, <2>3, <2>4, ChangeEdgeSends
  <2>6. read' = read \o <<c>>
    BY <1>3, <2>3, AppendConcat
  <2>7. queued' = queued
    BY DEF Rg, buffer
  <2>8. Moves(<<c>>)
    BY <2>4, <2>5, <2>6, <2>7 DEF Moves, Direct
  <2> QED BY <1>3, <1>5, <2>1, <2>8
<1> QED BY <1>4, <1>5 DEF Rg, p
-----------------------------------------------------------------------------
(* Types, continued.                                                       *)

LEMMA TypedLine ==
  ASSUME Typed, Line
  PROVE  Typed'
<1> USE DEF options, place, buffer, outside, clusterVars
<1>0. /\ read' \in Seq(Changes) /\ sent' \in Seq(Records)
      /\ queued' \in Seq([edge : Edge, to : Agent]) /\ DOMAIN sent \subseteq DOMAIN sent'
  BY LineMoves, MovesTypes DEF Vectors
<1>5. arg \in 1 .. Len(program) /\ arg + 1 \in 1 .. Len(program) + 1 /\ list # 0
  BY NextArgType DEF Line
<1>6. input' \in Seq(Changes \cup {<<"bad line">>}) /\ ctr' \in Nat /\ size' \in Nat
  <2>1. input' \in Seq(Changes \cup {<<"bad line">>})
    BY LineMoves
  <2>2. ctr' \in Nat
    <3>1. ctr \in Nat
      BY DEF Typed, TypeOK
    <3>2. ctr' = 0 \/ ctr' = ctr + 1
      BY DEF Line
    <3> QED BY <3>1, <3>2
  <2>3. size' \in Nat
    <3>1. Len(<<Head(input)[1]>>) = 1
      OBVIOUS
    <3>2. size' = size + 1 \/ size' = size
      BY <3>1 DEF Line, Queue
    <3>3. size \in Nat
      BY DEF Typed, TypeOK
    <3> QED BY <3>2, <3>3
  <2> QED BY <2>1, <2>2, <2>3
<1>1. TypeOK'
  BY <1>0, <1>5, <1>6 DEF Line, Typed, TypeOK, Placement, Handles
<1>2. Options'
  BY DEF Line, Typed, Options
<1>3. Queues'
  BY <1>0, <1>6 DEF Line, Typed, Queues
<1>4. Placement'
  BY <1>5 DEF Line, Typed, TypeOK, Placement, Handles
<1> QED BY <1>1, <1>2, <1>3, <1>4 DEF Typed

LEMMA TypedEndOfFile ==
  ASSUME Typed, EndOfFile
  PROVE  Typed'
<1> USE DEF options, place, buffer, outside, clusterVars
<1>0. /\ read' \in Seq(Changes) /\ sent' \in Seq(Records)
      /\ queued' \in Seq([edge : Edge, to : Agent]) /\ DOMAIN sent \subseteq DOMAIN sent'
  BY EndOfFileMoves, MovesTypes DEF Vectors
<1>5. arg \in 1 .. Len(program) /\ arg + 1 \in 1 .. Len(program) + 1 /\ list # 0
  BY NextArgType DEF EndOfFile
<1>1. TypeOK'
  BY <1>0, <1>5 DEF EndOfFile, NextArg, Typed, TypeOK, Placement, Handles
<1>2. Options'
  BY DEF EndOfFile, NextArg, Typed, Options
<1>3. Queues'
  BY <1>0 DEF EndOfFile, NextArg, Typed, Queues
<1>4. Placement'
  BY <1>5 DEF EndOfFile, NextArg, Typed, TypeOK, Placement, Handles
<1> QED BY <1>1, <1>2, <1>3, <1>4 DEF Typed

LEMMA TypedRg ==
  ASSUME Typed, Rg
  PROVE  Typed'
<1> USE DEF options, place, buffer, outside, clusterVars
<1>0. /\ read' \in Seq(Changes) /\ sent' \in Seq(Records)
      /\ queued' \in Seq([edge : Edge, to : Agent]) /\ DOMAIN sent \subseteq DOMAIN sent'
  BY RgMoves, MovesTypes DEF Vectors
<1>5. arg \in 1 .. Len(program) /\ arg + 1 \in 1 .. Len(program) + 1 /\ list # 0
  BY NextArgType DEF Rg
<1>6. chosen' \subseteq Edge
  BY RgMoves
<1>1. TypeOK'
  BY <1>0, <1>5, <1>6 DEF Rg, NextArg, Typed, TypeOK, Placement, Handles
<1>2. Options'
  BY DEF Rg, NextArg, Typed, Options
<1>3. Queues'
  BY <1>0 DEF Rg, NextArg, Typed, Queues
<1>4. Placement'
  BY <1>5 DEF Rg, NextArg, Typed, TypeOK, Placement, Handles
<1> QED BY <1>1, <1>2, <1>3, <1>4 DEF Typed

LEMMA TypedListenTimeout ==
  ASSUME Typed, ListenTimeout
  PROVE  Typed'
<1> USE DEF options, place, buffer, outside, clusterVars
<1>0. /\ read' \in Seq(Changes) /\ sent' \in Seq(Records)
      /\ queued' \in Seq([edge : Edge, to : Agent]) /\ DOMAIN sent \subseteq DOMAIN sent'
  BY ListenTimeoutMoves, MovesTypes DEF Vectors
<1>5. arg \in 1 .. Len(program) /\ arg + 1 \in 1 .. Len(program) + 1 /\ list # 0
  BY NextArgType DEF ListenTimeout, Pause
<1>1. TypeOK'
  BY <1>0, <1>5 DEF ListenTimeout, Pause, Typed, TypeOK, Placement, Handles
<1>2. Options'
  BY DEF ListenTimeout, Pause, Typed, Options
<1>3. Queues'
  BY <1>0 DEF ListenTimeout, Pause, Typed, Queues
<1>4. Placement'
  BY <1>5 DEF ListenTimeout, Pause, Typed, TypeOK, Placement, Handles
<1> QED BY <1>1, <1>2, <1>3, <1>4 DEF Typed

LEMMA TypedListenRead ==
  ASSUME Typed, ListenRead
  PROVE  Typed'
<1> USE DEF options, place, buffer, outside, clusterVars
<1>0. /\ read' \in Seq(Changes) /\ sent' \in Seq(Records)
      /\ queued' \in Seq([edge : Edge, to : Agent]) /\ DOMAIN sent \subseteq DOMAIN sent'
  BY ListenReadMoves, MovesTypes DEF Vectors
<1>5. arg \in 1 .. Len(program) /\ arg + 1 \in 1 .. Len(program) + 1 /\ list # 0
  BY NextArgType DEF ListenRead
<1>6. receiver' \in Seq(Seq(Edge)) /\ ctr' \in Nat /\ size' \in Nat
  <2>1. receiver \in Seq(Seq(Edge)) /\ receiver # <<>>
    BY DEF ListenRead, Typed, Queues
  <2>2. Head(receiver) \in Seq(Edge) /\ Tail(receiver) \in Seq(Seq(Edge))
    BY <2>1, HeadTail
  <2>3. Len(Head(receiver)) \in Nat
    BY <2>2, ElementOf
  <2>4. ctr' \in Nat
    BY SMTT(30), <2>3 DEF ListenRead, Typed, TypeOK
  <2>5. size' \in Nat
    BY SMTT(30), <2>3 DEF ListenRead, Queue, Typed, TypeOK
  <2> QED BY <2>2, <2>4, <2>5 DEF ListenRead
<1>1. TypeOK'
  BY <1>0, <1>5, <1>6 DEF ListenRead, Typed, TypeOK, Placement, Handles
<1>2. Options'
  BY DEF ListenRead, Typed, Options
<1>3. Queues'
  BY <1>0, <1>6 DEF ListenRead, Typed, Queues
<1>4. Placement'
  BY <1>5 DEF ListenRead, Typed, TypeOK, Placement, Handles
<1> QED BY <1>1, <1>2, <1>3, <1>4 DEF Typed

(* The agents, the directory, the feeder and the user.                     *)

LEMMA TypedDeliver ==
  ASSUME Typed, NEW a \in Agent, Deliver(a)
  PROVE  Typed'
<1> USE DEF options, place, buffer, outside, clusterVars
<1>0. arrived' \subseteq DOMAIN sent
  BY DEF Deliver, OnItsWay, Typed, TypeOK
<1>1. TypeOK'
  BY <1>0 DEF Deliver, Typed, TypeOK, Placement, Handles
<1>2. Options'
  BY DEF Deliver, Typed, Options
<1>3. Queues'
  BY DEF Deliver, Typed, Queues
<1>4. Placement'
  BY DEF Deliver, Typed, TypeOK, Placement, Handles
<1> QED BY <1>1, <1>2, <1>3, <1>4 DEF Typed

LEMMA TypedBatches ==
  ASSUME Typed, BatchBegins \/ BatchEnds
  PROVE  Typed'
<1> USE DEF options, place, buffer, outside, clusterVars
<1>0. arrived' \cup running' \cup finished' \subseteq DOMAIN sent
  BY DEF BatchBegins, BatchEnds, Typed, TypeOK
<1>6. socket' \in Seq(Publications)
  <2>1. socket \in Seq(Publications)
    BY DEF Typed, Queues
  <2> DEFINE two == <<[type |-> "SYNC", active |-> 1], [type |-> "SYNC", active |-> 0]>>
  <2>2. two \in Seq(Publications)
    BY DEF Publications
  <2> HIDE DEF two
  <2>3. socket \o two \in Seq(Publications)
    BY <2>1, <2>2, ConcatType
  <2>4. socket' \in {socket, socket \o two}
    BY DEF BatchBegins, BatchEnds, two
  <2> QED BY <2>1, <2>3, <2>4
<1>1. TypeOK'
  BY <1>0 DEF BatchBegins, BatchEnds, Typed, TypeOK, Placement, Handles
<1>2. Options'
  BY DEF BatchBegins, BatchEnds, Typed, Options
<1>3. Queues'
  BY <1>6 DEF BatchBegins, BatchEnds, Typed, Queues
<1>4. Placement'
  BY DEF BatchBegins, BatchEnds, Typed, TypeOK, Placement, Handles
<1> QED BY <1>1, <1>2, <1>3, <1>4 DEF Typed

LEMMA TypedNewList ==
  ASSUME Typed, NewList
  PROVE  Typed'
<1> USE DEF options, place, buffer, outside, clusterVars
<1>0. socket' \in Seq(Publications) /\ newest' \in Lists
  <2>1. newest + 1 \in Lists /\ socket \in Seq(Publications)
    BY DEF NewList, Typed, Queues
  <2>2. [type |-> "DIRECTORY_UPDATE", list |-> newest + 1] \in Publications
    BY <2>1 DEF Publications
  <2> QED BY <2>1, <2>2 DEF NewList
<1>1. TypeOK'
  BY DEF NewList, Typed, TypeOK, Placement, Handles
<1>2. Options'
  BY <1>0 DEF NewList, Typed, Options
<1>3. Queues'
  BY <1>0 DEF NewList, Typed, Queues
<1>4. Placement'
  BY DEF NewList, Typed, TypeOK, Placement, Handles
<1> QED BY <1>1, <1>2, <1>3, <1>4 DEF Typed

LEMMA TypedFeed ==
  ASSUME Typed, Feed
  PROVE  Typed'
<1> USE DEF options, place, buffer, outside, clusterVars
<1>0. receiver' \in Seq(Seq(Edge)) /\ feed' \in Seq(Seq(Edge))
  <2>1. feed \in Seq(Seq(Edge)) /\ feed # <<>> /\ receiver \in Seq(Seq(Edge))
    BY DEF Feed, Typed, Queues
  <2>2. Head(feed) \in Seq(Edge) /\ Tail(feed) \in Seq(Seq(Edge))
    BY <2>1, HeadTail
  <2> DEFINE f == Head(feed)
  <2>3. f \in Seq(Edge) /\ receiver' = Append(receiver, f) /\ feed' = Tail(feed)
    BY <2>2 DEF Feed
  <2> HIDE DEF f
  <2>4. Append(receiver, f) \in Seq(Seq(Edge))
    BY <2>1, <2>3
  <2> QED BY <2>2, <2>3, <2>4
<1>1. TypeOK'
  BY DEF Feed, Typed, TypeOK, Placement, Handles
<1>2. Options'
  BY DEF Feed, Typed, Options
<1>3. Queues'
  BY <1>0 DEF Feed, Typed, Queues
<1>4. Placement'
  BY DEF Feed, Typed, TypeOK, Placement, Handles
<1> QED BY <1>1, <1>2, <1>3, <1>4 DEF Typed

LEMMA TypedInterrupt ==
  ASSUME Typed, Interrupt
  PROVE  Typed'
<1> USE DEF options, place, buffer, outside, clusterVars
<1>1. TypeOK'
  BY DEF Interrupt, Typed, TypeOK, Placement, Handles
<1>2. Options'
  BY DEF Interrupt, Typed, Options
<1>3. Queues'
  BY DEF Interrupt, Typed, Queues
<1>4. Placement'
  BY DEF Interrupt, Typed, TypeOK, Placement, Handles
<1> QED BY <1>1, <1>2, <1>3, <1>4 DEF Typed

LEMMA TypedStutter ==
  ASSUME Typed, UNCHANGED vars
  PROVE  Typed'
BY DEF vars, options, place, buffer, outside, clusterVars, Typed, TypeOK, Options, Queues, Placement,
  Handles

LEMMA TypedNext ==
  ASSUME Typed, [Next]_vars
  PROVE  Typed'
<1>1. CASE Stream
  BY <1>1, TypedWaitUntilReady, TypedArgument, TypedExit, TypedLine, TypedBadLine, TypedEndOfFile,
     TypedWait, TypedLastPoll, TypedInterrupted, TypedRg, TypedListenPoll, TypedListenTimeout,
     TypedListenRead DEF Stream
<1>2. CASE ~Stream
  BY <1>2, TypedDeliver, TypedBatches, TypedNewList, TypedFeed, TypedInterrupt, TypedStutter
     DEF Next, Quiet
<1> QED BY <1>1, <1>2

(* Every change is a change of an edge, every list one that was published, *)
(* and no agent has a change that was not sent, for all command lines.     *)
THEOREM StreamerTyped == Spec => []TypeOK
<1>1. Init => Typed
  BY TypedInit
<1>2. Typed /\ [Next]_vars => Typed'
  BY TypedNext
<1>3. Typed => TypeOK
  BY DEF Typed
<1> QED BY <1>1, <1>2, <1>3, PTL DEF Spec
-----------------------------------------------------------------------------
(* Every change that was read was sent or waits.                           *)

LEMMA EveryStepMoves ==
  ASSUME Typed, [Next]_vars
  PROVE  \E cs : Moves(cs)
<1>1. CASE UNCHANGED <<read, sent, queued>>
  BY <1>1, StillMoves
<1>2. CASE Line \/ EndOfFile \/ Rg \/ ListenTimeout \/ ListenRead
  BY <1>2, LineMoves, EndOfFileMoves, RgMoves, ListenTimeoutMoves, ListenReadMoves
<1>3. CASE WaitUntilReady \/ Argument \/ Exit \/ BadLine \/ Wait \/ LastPoll \/ Interrupted
             \/ ListenPoll \/ ListenEmpty
  <2>1. UNCHANGED <<read, sent, queued>>
    BY <1>3 DEF WaitUntilReady, Argument, Exit, BadLine, Wait, WaitStep, LastPoll, Interrupted,
                ListenPoll, ListenEmpty, buffer
  <2> QED BY <1>1, <2>1
<1>4. CASE (\E a \in Agent : Deliver(a)) \/ BatchBegins \/ BatchEnds \/ NewList \/ Feed \/ Interrupt
             \/ UNCHANGED vars
  <2>1. UNCHANGED <<read, sent, queued>>
    BY <1>4 DEF Deliver, BatchBegins, BatchEnds, NewList, Feed, Interrupt, vars, buffer
  <2> QED BY <1>1, <2>1
<1> QED BY <1>2, <1>3, <1>4 DEF Next, Stream, Quiet

LEMMA AccountedNext ==
  ASSUME Typed, Accounted, [Next]_vars
  PROVE  Accounted'
<1>1. PICK cs : Moves(cs)
  BY EveryStepMoves
<1>2. /\ read \in Seq(Changes) /\ cs \in Seq(Changes) /\ Out \in Seq(Changes)
      /\ AsChanges(queued) \in Seq(Changes)
  BY <1>1, OutType, AsChangesType DEF Typed, TypeOK, Queues, Moves, Vectors
<1>3. Waiting = AsChanges(queued) /\ Waiting' = AsChanges(queued')
  BY DEF Waiting, AsChanges
<1> DEFINE W == AsChanges(queued)
<1>4. W \in Seq(Changes) /\ Waiting = W
  BY <1>2, <1>3
<1>5. \A c \in Changes : Occurrences(read, c) = Occurrences(Out, c) + Occurrences(W, c)
  BY <1>3 DEF Accounted
<1>6. CASE Direct(cs)
  <2>1. Waiting' = W /\ Out' = Out \o cs
    BY <1>3, <1>6 DEF Direct, Sends
  <2>2. \A c \in Changes : Occurrences(read', c) = Occurrences(Out', c) + Occurrences(W, c)
    <3> SUFFICES ASSUME NEW c \in Changes
                 PROVE  Occurrences(read', c) = Occurrences(Out', c) + Occurrences(W, c)
      OBVIOUS
    <3> HIDE DEF W
    <3>1. Occurrences(read', c) = Occurrences(read, c) + Occurrences(cs, c)
      BY <1>1, <1>2, OccurrencesConcat DEF Moves
    <3>2. Occurrences(Out \o cs, c) = Occurrences(Out, c) + Occurrences(cs, c)
      BY <1>2, OccurrencesConcat
    <3>3. /\ Occurrences(Out, c) \in Nat /\ Occurrences(cs, c) \in Nat /\ Occurrences(W, c) \in Nat
      BY <1>2, <1>4, OccurrencesType
    <3> QED BY <1>5, <2>1, <3>1, <3>2, <3>3
  <2> QED BY <2>1, <2>2 DEF Accounted
<1>7. CASE Hold(cs)
  <2>1. Waiting' = W \o cs /\ Out' = Out
    BY <1>3, <1>7 DEF Hold, Out
  <2>2. \A c \in Changes : Occurrences(read', c) = Occurrences(Out, c) + Occurrences(W \o cs, c)
    <3> SUFFICES ASSUME NEW c \in Changes
                 PROVE  Occurrences(read', c) = Occurrences(Out, c) + Occurrences(W \o cs, c)
      OBVIOUS
    <3> HIDE DEF W
    <3>1. Occurrences(read', c) = Occurrences(read, c) + Occurrences(cs, c)
      BY <1>1, <1>2, OccurrencesConcat DEF Moves
    <3>2. Occurrences(W \o cs, c) = Occurrences(W, c) + Occurrences(cs, c)
      BY <1>2, <1>4, OccurrencesConcat
    <3>3. /\ Occurrences(Out, c) \in Nat /\ Occurrences(cs, c) \in Nat /\ Occurrences(W, c) \in Nat
      BY <1>2, <1>4, OccurrencesType
    <3> QED BY <1>5, <3>1, <3>2, <3>3
  <2> QED BY <2>1, <2>2 DEF Accounted
<1>8. CASE Flush(cs)
  <2>1. Waiting' = <<>> /\ Out' = Out \o (W \o cs)
    <3>1. AsChanges(<<>>) = <<>>
      BY DEF AsChanges
    <3> QED BY <1>3, <1>8, <3>1 DEF Flush, Sends
  <2>2. \A c \in Changes :
          Occurrences(read', c) = Occurrences(Out \o (W \o cs), c) + Occurrences(<<>>, c)
    <3> SUFFICES ASSUME NEW c \in Changes
                 PROVE  Occurrences(read', c) = Occurrences(Out \o (W \o cs), c) + Occurrences(<<>>, c)
      OBVIOUS
    <3> HIDE DEF W
    <3>1. Occurrences(read', c) = Occurrences(read, c) + Occurrences(cs, c)
      BY <1>1, <1>2, OccurrencesConcat DEF Moves
    <3>2. Occurrences(W \o cs, c) = Occurrences(W, c) + Occurrences(cs, c)
      BY <1>2, <1>4, OccurrencesConcat
    <3>3. W \o cs \in Seq(Changes)
      BY <1>2, <1>4, ConcatType
    <3>4. Occurrences(Out \o (W \o cs), c) = Occurrences(Out, c) + Occurrences(W \o cs, c)
      BY ZenonT(60), <1>2, <3>3, OccurrencesConcat
    <3>5. /\ Occurrences(Out, c) \in Nat /\ Occurrences(cs, c) \in Nat /\ Occurrences(W, c) \in Nat
      BY <1>2, <1>4, OccurrencesType
    <3> QED BY <1>5, <3>1, <3>2, <3>4, <3>5, OccurrencesNone
  <2> QED BY <2>1, <2>2 DEF Accounted
<1> QED BY <1>1, <1>6, <1>7, <1>8 DEF Moves

(* Without batches, the order.                                             *)
LEMMA NotFirst ==
  ASSUME Typed, NeverBatch, pc \notin {"start", "args", "end", "thrown"}
  PROVE  arg > 1 /\ arg \in Nat
<1>1. arg \in 1 .. Len(program)
  BY NextArgType
<1>2. Len(program) \in Nat
  BY ProgramFacts DEF Typed, Options
<1>3. arg # 1
  BY DEF NeverBatch, Typed, TypeOK, Placement, Handles
<1> QED BY <1>1, <1>2, <1>3

LEMMA InOrderNext ==
  ASSUME Typed, InOrder, [Next]_vars
  PROVE  InOrder'
<1>1. program' = program
  BY DEF Next, Stream, Quiet, WaitUntilReady, Argument, Exit, Line, BadLine, EndOfFile, Wait, WaitStep,
     LastPoll, Interrupted, Rg, ListenPoll, ListenTimeout, Pause, ListenRead, ListenEmpty, Deliver,
     BatchBegins, BatchEnds, NewList, Feed, Interrupt, vars
<1> SUFFICES ASSUME NeverBatch
             PROVE  Out' = read' /\ queued' = <<>> /\ (arg' > 1 => ~batch')
  BY <1>1 DEF InOrder, NeverBatch
<1>2. Out = read /\ queued = <<>> /\ (arg > 1 => ~batch)
  BY DEF InOrder
<1>3. CASE Line \/ EndOfFile \/ Rg \/ ListenTimeout \/ ListenRead
  <2>1. pc \notin {"start", "args", "end", "thrown"} /\ batch' = batch
    BY <1>3 DEF Line, EndOfFile, Rg, ListenTimeout, Pause, ListenRead, options
  <2>2. ~batch
    BY <1>2, <2>1, NotFirst
  <2>3. PICK cs : Moves(cs)
    BY EveryStepMoves
  <2>4. Out' = Out \o cs /\ queued' = queued /\ read' = read \o cs
    BY <2>2, <2>3 DEF Moves, Direct, Hold, Flush, Sends
  <2> QED BY <1>2, <2>1, <2>2, <2>4
<1>4. CASE Argument
  <2>1. UNCHANGED <<read, sent, queued>>
    BY <1>4 DEF Argument, buffer
  <2>2. CASE program[arg].op = "+batch"
    <3>1. arg \in DOMAIN program
      <4>1. program \in Programs /\ arg \in 1 .. Len(program) + 1 /\ arg <= Len(program)
        BY <1>4 DEF Argument, Typed, TypeOK, Options
      <4>2. Len(program) \in Nat /\ DOMAIN program = 1 .. Len(program)
        BY <4>1, ProgramFacts
      <4> QED BY <4>1, <4>2
    <3>2. batch' = program[arg].val
      BY <1>4, <2>2 DEF Argument
    <3>3. ~program[arg].val
      BY <2>2, <3>1 DEF NeverBatch
    <3> QED BY <1>2, <2>1, <3>2, <3>3 DEF Out
  <2>3. CASE program[arg].op # "+batch"
    <3>1. arg # 1
      BY <2>3 DEF NeverBatch
    <3>2. arg > 1
      <4>1. arg \in 1 .. Len(program) + 1 /\ program \in Programs
        BY DEF Typed, TypeOK, Options
      <4>2. Len(program) \in Nat
        BY <4>1, ProgramFacts
      <4> QED BY <3>1, <4>1, <4>2
    <3>3. batch' = batch
      BY <1>4, <2>3 DEF Argument, options
    <3> QED BY <1>2, <2>1, <3>2, <3>3 DEF Out
  <2> QED BY <2>2, <2>3
<1>5. CASE Wait \/ LastPoll \/ Interrupted \/ BadLine \/ ListenPoll \/ ListenEmpty
  <2>1. UNCHANGED <<read, sent, queued, batch>> /\ pc \notin {"start", "args", "end", "thrown"}
    BY <1>5 DEF Wait, WaitStep, LastPoll, Interrupted, BadLine, ListenPoll, ListenEmpty, buffer, options
  <2>2. ~batch
    BY <1>2, <2>1, NotFirst
  <2> QED BY <1>2, <2>1, <2>2 DEF Out
<1>6. CASE WaitUntilReady \/ Exit \/ (\E a \in Agent : Deliver(a)) \/ BatchBegins \/ BatchEnds
             \/ NewList \/ Feed \/ Interrupt \/ UNCHANGED vars
  <2>1. UNCHANGED <<read, sent, queued, batch, arg>>
    BY <1>6 DEF WaitUntilReady, Exit, Deliver, BatchBegins, BatchEnds, NewList, Feed, Interrupt, vars,
                buffer, options, place
  <2> QED BY <1>2, <2>1 DEF Out
<1> QED BY <1>3, <1>4, <1>5, <1>6 DEF Next, Stream, Quiet

LEMMA AccountedMeans ==
  ASSUME Typed, Accounted, InOrder
  PROVE  InputSent
<1>1. queued \in Seq(Vectors)
  BY DEF Typed, TypeOK, Vectors
<1>2. ASSUME NEW c \in Edge \X BOOLEAN
      PROVE  Occurrences(Waiting, c)
               = IF c[2] THEN Cardinality({i \in DOMAIN queued : queued[i].edge = c[1]}) ELSE 0
  <2>1. c[2] \in BOOLEAN /\ c = <<c[1], c[2]>>
    OBVIOUS
  <2>2. DOMAIN Waiting = DOMAIN queued /\ \A i \in DOMAIN queued : Waiting[i] = <<queued[i].edge, TRUE>>
    BY DEF Waiting
  <2>3. CASE c[2]
    <3>1. c = <<c[1], TRUE>>
      BY <2>1, <2>3
    <3>2. ASSUME NEW i \in DOMAIN queued PROVE Waiting[i] = c <=> queued[i].edge = c[1]
      <4>1. Waiting[i] = <<queued[i].edge, TRUE>>
        BY <2>2
      <4>2. \A e : <<e, TRUE>> = <<c[1], TRUE>> <=> e = c[1]
        OBVIOUS
      <4> QED BY <3>1, <4>1, <4>2
    <3>3. {i \in DOMAIN Waiting : Waiting[i] = c} = {i \in DOMAIN queued : queued[i].edge = c[1]}
      BY <2>2, <3>2
    <3> QED BY <2>3, <3>3 DEF Occurrences
  <2>4. CASE ~c[2]
    <3>1. c = <<c[1], FALSE>>
      BY <2>1, <2>4
    <3>2. ASSUME NEW i \in DOMAIN queued PROVE Waiting[i] # c
      <4>1. Waiting[i] = <<queued[i].edge, TRUE>>
        BY <2>2
      <4>2. \A e : <<e, TRUE>> # <<c[1], FALSE>>
        OBVIOUS
      <4> QED BY <3>1, <4>1, <4>2
    <3>3. {i \in DOMAIN Waiting : Waiting[i] = c} = {}
      BY <2>2, <3>2
    <3> QED BY <2>4, <3>3, FS_EmptySet DEF Occurrences
  <2> QED BY <2>1, <2>3, <2>4
<1>3. Out = [i \in DOMAIN sent |-> sent[i].change]
  BY DEF Out
<1>4. ASSUME NEW c \in Edge \X BOOLEAN
      PROVE  Occurrences(read, c) = Occurrences(Out, c)
               + (IF c[2] THEN Cardinality({i \in DOMAIN queued : queued[i].edge = c[1]}) ELSE 0)
  BY <1>2 DEF Accounted, Changes
<1>5. NeverBatch => Out = read
  BY DEF InOrder
<1> QED BY <1>3, <1>4, <1>5 DEF InputSent, NeverBatch

(* Whatever the options, the mini-batches, the timeouts, Ctrl+C and the new*)
(* lists of agents: every change read was sent once or waits, and without  *)
(* batches they are sent in the order they are read.                       *)
THEOREM EveryChangeIsSent == Spec => []InputSent
<1> DEFINE I == Typed /\ Accounted /\ InOrder
<1>1. Init => I
  <2> SUFFICES ASSUME Init PROVE I
    OBVIOUS
  <2>1. Typed
    BY TypedInit
  <2>2. read = <<>> /\ sent = <<>> /\ queued = <<>> /\ arg = 1
    BY DEF Init
  <2>3. Out = <<>> /\ Waiting = <<>>
    BY <2>2 DEF Out, Waiting
  <2>4. Accounted
    BY <2>2, <2>3, OccurrencesNone DEF Accounted
  <2> QED BY <2>1, <2>2, <2>3, <2>4 DEF InOrder
<1>2. I /\ [Next]_vars => I'
  BY TypedNext, AccountedNext, InOrderNext
<1>3. I => InputSent
  BY AccountedMeans
<1> QED BY <1>1, <1>2, <1>3, PTL DEF Spec
-----------------------------------------------------------------------------
(* One change at a time.                                                   *)

Unended == \A i \in DOMAIN socket : ~End(socket[i])

LEMMA PollEnds ==
  ASSUME Typed, Poll
  PROVE  /\ socket # <<>> /\ socket' = Tail(socket)
         /\ ~End(socket[1]) => count' = count
         /\ End(socket[1]) => count' = count + 1
<1>1. socket \in Seq(Publications) /\ socket # <<>> /\ socket' = Tail(socket)
  BY DEF Poll, Take, Typed, Queues
<1>2. Head(socket) = socket[1] /\ Head(socket) \in Publications
  BY <1>1, HeadTail
<1>3. Head(socket).type = "SYNC" => Head(socket).active \in {0, 1}
  BY <1>2 DEF Publications
<1>4. CASE End(socket[1])
  <2>1. Head(socket).type = "SYNC" /\ Head(socket).active = 0
    BY <1>2, <1>4 DEF End
  <2> QED BY <1>1, <1>4, <2>1 DEF Poll, Take
<1>5. CASE ~End(socket[1])
  <2>1. ~(Head(socket).type = "SYNC" /\ Head(socket).active = 0)
    BY <1>2, <1>5 DEF End
  <2>2. Head(socket).type = "SYNC" => ~(Head(socket).active <= 0)
    BY <1>3, <2>1
  <2>3. count' = count
    BY <2>2 DEF Poll, Take
  <2> QED BY <1>1, <1>5, <2>3
<1> QED BY <1>4, <1>5

LEMMA UnendedTail ==
  ASSUME Typed, socket # <<>>, socket' = Tail(socket), Unended
  PROVE  Unended' /\ ~End(socket[1])
<1>1. socket \in Seq(Publications)
  BY DEF Typed, Queues
<1>2. /\ Len(socket) \in Nat \ {0} /\ DOMAIN socket = 1 .. Len(socket)
      /\ DOMAIN socket' = 1 .. Len(socket) - 1
      /\ \A i \in 1 .. Len(socket) - 1 : socket'[i] = socket[i + 1]
  BY <1>1, HeadTail
<1>3. \A i \in DOMAIN socket' : i + 1 \in DOMAIN socket /\ socket'[i] = socket[i + 1]
  BY <1>2
<1>4. 1 \in DOMAIN socket
  BY <1>2
<1> QED BY <1>3, <1>4 DEF Unended, End

(* A change that is sent and does not hold back the next one.              *)
LEMMA SendsPaced ==
  ASSUME NEW cs, NEW p, Sends(cs, p), AllPaced', ~p
  PROVE  DOMAIN sent' = DOMAIN sent /\ Len(sent') = Len(sent)
<1>1. Len(cs) = 0
  <2> SUFFICES ASSUME Len(cs) # 0 PROVE FALSE
    OBVIOUS
  <2>1. Len(cs) \in Nat /\ Len(sent) \in Nat
    BY DEF Sends
  <2>2. 1 \in 1 .. Len(cs) /\ Len(sent) + 1 \in 1 .. Len(sent) + Len(cs)
    BY <2>1
  <2>3. sent'[Len(sent) + 1].paced = p /\ Len(sent) + 1 \in DOMAIN sent'
    BY <2>2 DEF Sends
  <2> QED BY <2>3 DEF AllPaced
<1>2. Len(sent) \in Nat
  BY DEF Sends
<1> QED BY <1>1, <1>2 DEF Sends

LEMMA PacedBefore ==
  ASSUME Typed, [Next]_vars, AllPaced'
  PROVE  AllPaced
<1>1. PICK cs : Moves(cs)
  BY EveryStepMoves
<1>2. DOMAIN sent \subseteq DOMAIN sent' /\ \A i \in DOMAIN sent : sent'[i] = sent[i]
  <2>1. CASE sent' = sent
    BY <2>1
  <2>2. ASSUME NEW xs, NEW p, Sends(xs, p)
        PROVE  DOMAIN sent \subseteq DOMAIN sent' /\ \A i \in DOMAIN sent : sent'[i] = sent[i]
    <3>1. /\ Len(sent) \in Nat /\ Len(xs) \in Nat /\ DOMAIN sent = 1 .. Len(sent)
          /\ DOMAIN sent' = 1 .. Len(sent) + Len(xs)
          /\ \A i \in 1 .. Len(sent) : sent'[i] = sent[i]
      BY <2>2 DEF Sends
    <3> QED BY <3>1
  <2> QED BY <1>1, <2>1, <2>2 DEF Moves, Direct, Hold, Flush
<1> QED BY <1>2 DEF AllPaced

LEMMA NotYetInterrupted ==
  ASSUME Typed, [Next]_vars, ~interrupted'
  PROVE  ~interrupted
BY DEF Next, Stream, Quiet, WaitUntilReady, Argument, Exit, Line, BadLine, EndOfFile, Wait, WaitStep,
     LastPoll, Interrupted, Rg, ListenPoll, ListenTimeout, Pause, ListenRead, ListenEmpty, Deliver,
     BatchBegins, BatchEnds, NewList, Feed, Interrupt, vars

(* A step of the streamer that sends no change it does not wait for, and   *)
(* reads no publication.                                                   *)
LEMMA CalmKept ==
  ASSUME Calm, UNCHANGED <<arrived, running, finished, socket>>, DOMAIN sent' = DOMAIN sent
  PROVE  Calm'
BY DEF Calm, End

LEMMA EveryMiniBatch ==
  ASSUME NEW n \in Nat
  PROVE  n % 1 = 0
OBVIOUS

LEMMA OneLine ==
  ASSUME Typed, Line, Calm, AllPaced'
  PROVE  Calm' \/ Pending'
<1>1. Head(input) \in Changes /\ Moves(<<Head(input)>>)
  BY LineMoves
<1>2. UNCHANGED <<arrived, running, finished, socket, wait>>
  BY DEF Line, clusterVars, options
<1>3. CASE sent' = sent
  BY <1>2, <1>3, CalmKept
<1>4. CASE batch /\ Sends(AsChanges(queued) \o <<Head(input)>>, Paced)
  <2>1. ~Paced
    BY <1>4 DEF Paced
  <2>2. DOMAIN sent' = DOMAIN sent
    BY <1>4, <2>1, SendsPaced
  <2> QED BY <1>2, <2>2, CalmKept
<1>5. CASE Sends(<<Head(input)>>, Paced) /\ ~Paced
  <2>1. DOMAIN sent' = DOMAIN sent
    BY <1>5, SendsPaced
  <2> QED BY <1>2, <2>1, CalmKept
<1>6. CASE Sends(<<Head(input)>>, Paced) /\ Paced
  <2>1. mb = 1 /\ wait
    BY <1>6 DEF Paced
  <2>2. pc' = "wait"
    <3>1. ctr' \in Nat
      BY TypedLine DEF Typed, TypeOK
    <3>2. ctr' % 1 = 0
      BY <3>1, EveryMiniBatch
    <3>3. mb > 0 /\ ctr' % mb = 0 /\ wait
      BY <2>1, <3>2
    <3> QED BY <3>3 DEF Line
  <2>3. Len(<<Head(input)>>) = 1
    OBVIOUS
  <2>4. Len(sent) \in Nat /\ DOMAIN sent = 1 .. Len(sent) /\ Len(sent') = Len(sent) + 1
    BY <1>6, <2>3 DEF Sends
  <2>5. finished' = 1 .. Len(sent') - 1 /\ Len(sent') > 0
    BY <1>2, <2>4 DEF Calm
  <2>6. arrived' = {} /\ running' = {} /\ wait' /\ \A i \in DOMAIN socket' : ~End(socket'[i])
    BY <1>2, <2>1 DEF Calm
  <2> QED BY <2>2, <2>5, <2>6 DEF Pending, End
<1> QED BY <1>1, <1>3, <1>4, <1>5, <1>6 DEF Moves, Direct, Hold, Flush

LEMMA OneOther ==
  ASSUME Typed, EndOfFile \/ Rg \/ ListenTimeout \/ ListenRead, Calm, AllPaced'
  PROVE  Calm'
<1>1. UNCHANGED <<arrived, running, finished, socket>>
  BY DEF EndOfFile, Rg, ListenTimeout, Pause, ListenRead, clusterVars
<1>2. ASSUME NEW cs, Moves(cs), ~Paced
      PROVE  DOMAIN sent' = DOMAIN sent
  BY <1>2, SendsPaced DEF Moves, Direct, Hold, Flush
<1>3. CASE EndOfFile
  <2>1. CASE batch
    <3>1. ~Paced /\ Moves(<<>>)
      BY <1>3, <2>1, EndOfFileMoves DEF Paced
    <3> QED BY <1>1, <1>2, <3>1, CalmKept
  <2>2. CASE ~batch
    <3>1. sent' = sent
      BY <1>3, <2>2 DEF EndOfFile
    <3> QED BY <1>1, <3>1, CalmKept
  <2> QED BY <2>1, <2>2
<1>4. CASE Rg \/ ListenTimeout \/ ListenRead
  <2>1. ~Paced
    BY <1>4 DEF Rg, ListenTimeout, Pause, ListenRead, Paced
  <2>2. PICK cs : Moves(cs)
    BY <1>4, RgMoves, ListenTimeoutMoves, ListenReadMoves
  <2> QED BY <1>1, <1>2, <2>1, <2>2, CalmKept
<1> QED BY <1>3, <1>4

LEMMA OneWait ==
  ASSUME Typed, Wait, Calm \/ Pending \/ Ended
  PROVE  Calm' \/ Pending' \/ Ended'
<1>1. /\ socket # <<>> /\ socket' = Tail(socket)
      /\ ~End(socket[1]) => count' = count
      /\ End(socket[1]) => count' = count + 1
  BY PollEnds DEF Wait, WaitStep
<1>2. UNCHANGED <<arrived, running, finished, wait, sent>>
  BY DEF Wait, WaitStep, clusterVars, options
<1>3. count \in Nat /\ (pc = "wait" => seen = count)
  BY DEF Typed, TypeOK, Placement
<1>4. /\ pc = "wait" /\ count' = count => pc' = "wait"
      /\ pc = "wait" /\ count' = count + 1 => pc' = "file"
  BY <1>3 DEF Wait, WaitStep
<1>5. CASE Calm
  <2>1. Unended'
    BY <1>1, <1>5, UnendedTail DEF Calm, Unended
  <2> QED BY <1>2, <1>5, <2>1 DEF Calm, Unended
<1>6. CASE Pending
  <2>1. Unended' /\ ~End(socket[1])
    BY <1>1, <1>6, UnendedTail DEF Pending, Unended
  <2>2. pc' = "wait"
    BY <1>1, <1>4, <1>6, <2>1 DEF Pending
  <2> QED BY <1>2, <1>6, <2>1, <2>2 DEF Pending, Unended
<1>7. CASE Ended
  <2>1. PICK k \in DOMAIN socket :
          End(socket[k]) /\ \A i \in DOMAIN socket : End(socket[i]) => i = k
    BY <1>7 DEF Ended
  <2>2. socket \in Seq(Publications)
    BY DEF Typed, Queues
  <2>3. /\ Len(socket) \in Nat \ {0} /\ DOMAIN socket = 1 .. Len(socket)
        /\ DOMAIN socket' = 1 .. Len(socket) - 1
        /\ \A i \in 1 .. Len(socket) - 1 : socket'[i] = socket[i + 1]
    BY <1>1, <2>2, HeadTail
  <2>4. CASE k = 1
    <3>1. \A i \in DOMAIN socket' : i + 1 \in DOMAIN socket /\ i + 1 # 1 /\ socket'[i] = socket[i + 1]
      BY <2>3
    <3>2. \A i \in DOMAIN socket' : ~End(socket[i + 1])
      BY <2>1, <2>4, <3>1
    <3>3. Unended'
      BY <3>1, <3>2 DEF Unended, End
    <3> QED BY <1>2, <1>7, <3>3 DEF Ended, Calm, Unended
  <2>5. CASE k # 1
    <3>1. ~End(socket[1])
      BY <2>1, <2>3, <2>5
    <3>2. pc' = "wait"
      BY <1>1, <1>4, <1>7, <3>1 DEF Ended
    <3>3. k - 1 \in DOMAIN socket' /\ socket'[k - 1] = socket[k]
      BY <2>1, <2>3, <2>5
    <3>4. ASSUME NEW i \in DOMAIN socket', End(socket'[i])
          PROVE  i = k - 1
      <4>1. i + 1 \in DOMAIN socket /\ socket'[i] = socket[i + 1]
        BY <2>3
      <4>2. i + 1 = k
        BY <2>1, <3>4, <4>1
      <4> QED BY <4>2, <2>3
    <3>5. End(socket'[k - 1])
      BY <2>1, <3>3
    <3>6. \E j \in DOMAIN socket' :
            End(socket'[j]) /\ \A i \in DOMAIN socket' : End(socket'[i]) => i = j
      BY <3>3, <3>4, <3>5
    <3> QED BY <1>2, <1>7, <3>2, <3>6 DEF Ended, End
  <2> QED BY <2>4, <2>5
<1> QED BY <1>5, <1>6, <1>7

LEMMA OnePoll ==
  ASSUME Typed, WaitUntilReady \/ LastPoll, Calm
  PROVE  Calm'
<1>1. UNCHANGED <<arrived, running, finished, sent>>
  BY DEF WaitUntilReady, LastPoll, clusterVars
<1>2. Poll \/ socket' = socket
  BY DEF WaitUntilReady, LastPoll, PollOrTimeout
<1>3. CASE Poll
  <2>1. Unended'
    BY <1>3, PollEnds, UnendedTail DEF Calm, Unended
  <2> QED BY <1>1, <2>1 DEF Calm, Unended
<1>4. CASE socket' = socket
  BY <1>1, <1>4, CalmKept
<1> QED BY <1>2, <1>3, <1>4

LEMMA OneDelivered ==
  ASSUME Typed, NEW a \in Agent, Deliver(a), Calm \/ Pending \/ Ended
  PROVE  Pending'
<1>1. sent \in Seq(Records) /\ Len(sent) \in Nat /\ DOMAIN sent = 1 .. Len(sent)
  BY ElementOf DEF Typed, Queues
<1>2. UNCHANGED <<pc, wait, running, finished, socket, sent>>
  BY DEF Deliver, options, place
<1>3. PICK first \in OnItsWay(a) :
        arrived' = arrived \cup {i \in OnItsWay(a) : sent[i].msg = sent[first].msg}
  BY DEF Deliver
<1>4. OnItsWay(a) \subseteq DOMAIN sent \ (arrived \cup running \cup finished)
  BY DEF OnItsWay
<1>5. Pending /\ arrived = {} /\ running = {}
  <2>1. first \in DOMAIN sent /\ first \notin finished /\ first \notin arrived /\ first \notin running
    BY <1>3, <1>4
  <2>2. Pending
    BY <2>1 DEF Calm, Ended
  <2>3. first = Len(sent)
    BY <1>1, <2>1, <2>2 DEF Pending
  <2> QED BY <2>1, <2>2, <2>3 DEF Pending
<1>6. OnItsWay(a) = {Len(sent)}
  <2>1. \A i \in OnItsWay(a) : i \in 1 .. Len(sent) /\ i \notin 1 .. Len(sent) - 1
    BY <1>1, <1>4, <1>5 DEF Pending
  <2>2. \A i \in OnItsWay(a) : i = Len(sent)
    BY <1>1, <2>1
  <2> QED BY <1>3, <2>2
<1>7. arrived' = {Len(sent)}
  BY <1>3, <1>5, <1>6
<1> QED BY <1>2, <1>5, <1>7 DEF Pending, End

LEMMA OneBatch ==
  ASSUME Typed, BatchBegins \/ BatchEnds, Calm \/ Pending \/ Ended
  PROVE  Pending' \/ Ended'
<1>1. sent \in Seq(Records) /\ Len(sent) \in Nat /\ DOMAIN sent = 1 .. Len(sent)
  BY ElementOf DEF Typed, Queues
<1>2. UNCHANGED <<pc, wait, sent>>
  BY DEF BatchBegins, BatchEnds, options, place
<1>3. CASE BatchBegins
  <2>1. arrived # {} /\ running = {} /\ running' = arrived /\ arrived' = {}
        /\ UNCHANGED <<finished, socket>>
    BY <1>3 DEF BatchBegins
  <2>2. Pending /\ arrived = {Len(sent)}
    BY <2>1 DEF Calm, Pending, Ended
  <2>3. running' = {Len(sent)} /\ arrived' = {}
    BY <2>1, <2>2
  <2> QED BY <1>2, <2>1, <2>2, <2>3 DEF Pending, End
<1>4. CASE BatchEnds
  <2>1. running # {} /\ finished' = finished \cup running /\ running' = {} /\ arrived' = arrived
    BY <1>4 DEF BatchEnds
  <2>2. Pending /\ running = {Len(sent)} /\ arrived = {} /\ wait
    BY <2>1 DEF Calm, Pending, Ended
  <2>3. finished' = DOMAIN sent
    <3>1. finished' = (1 .. Len(sent) - 1) \cup {Len(sent)} /\ Len(sent) > 0
      BY <2>1, <2>2 DEF Pending
    <3>2. (1 .. Len(sent) - 1) \cup {Len(sent)} = 1 .. Len(sent)
      BY <1>1, <3>1
    <3> QED BY <1>1, <3>1, <3>2
  <2> DEFINE two == <<[type |-> "SYNC", active |-> 1], [type |-> "SYNC", active |-> 0]>>
  <2>4. socket' = socket \o two
    BY <1>4, <2>2 DEF BatchEnds
  <2>5. socket \in Seq(Publications) /\ two \in Seq(Publications) /\ Len(two) = 2
        /\ ~End(two[1]) /\ End(two[2])
    <3>1. socket \in Seq(Publications)
      BY DEF Typed, Queues
    <3> DEFINE p == [type |-> "SYNC", active |-> 1]
               q == [type |-> "SYNC", active |-> 0]
    <3>2. p \in Publications /\ q \in Publications /\ ~End(p) /\ End(q)
      BY DEF Publications, End
    <3> HIDE DEF p, q
    <3>3. <<p, q>> \in Seq(Publications) /\ Len(<<p, q>>) = 2 /\ <<p, q>>[1] = p /\ <<p, q>>[2] = q
      BY <3>2
    <3> QED BY <3>1, <3>2, <3>3 DEF p, q
  <2> HIDE DEF two
  <2>6. /\ Len(socket) \in Nat /\ DOMAIN socket' = 1 .. Len(socket) + 2
        /\ DOMAIN socket = 1 .. Len(socket)
    <3>1. socket \in Seq(Publications) /\ two \in Seq(Publications)
      BY <2>5
    <3>2. /\ Len(socket) \in Nat
          /\ DOMAIN (socket \o two) = 1 .. Len(socket) + Len(two)
      BY <3>1, ConcatType
    <3>3. DOMAIN socket = 1 .. Len(socket)
      BY <3>1
    <3> QED BY <2>4, <2>5, <3>2, <3>3
  <2>7. \A i \in 1 .. Len(socket) : socket'[i] = socket[i]
    BY <2>4, <2>5, ConcatFirst
  <2>8. socket'[Len(socket) + 1] = two[1] /\ socket'[Len(socket) + 2] = two[2]
    <3>1. \A i \in 1 .. Len(two) : (socket \o two)[Len(socket) + i] = two[i]
      <4>1. socket \in Seq(Publications) /\ two \in Seq(Publications)
        BY <2>5
      <4> QED BY <4>1, ConcatSecond
    <3>2. 1 \in 1 .. Len(two) /\ 2 \in 1 .. Len(two)
      BY <2>5
    <3> QED BY <2>4, <3>1, <3>2
  <2>9. ASSUME NEW i \in DOMAIN socket', End(socket'[i])
        PROVE  i = Len(socket) + 2
    <3>1. CASE i \in 1 .. Len(socket)
      <4>1. End(socket[i]) /\ i \in DOMAIN socket
        BY <2>6, <2>7, <2>9, <3>1
      <4> QED BY <2>2, <4>1 DEF Pending
    <3>2. CASE i = Len(socket) + 1
      BY <2>5, <2>8, <2>9, <3>2
    <3> QED BY <2>6, <3>1, <3>2
  <2>10. \E k \in DOMAIN socket' :
           End(socket'[k]) /\ \A i \in DOMAIN socket' : End(socket'[i]) => i = k
    <3>1. Len(socket) + 2 \in DOMAIN socket' /\ End(socket'[Len(socket) + 2])
      BY <2>5, <2>6, <2>8
    <3> QED BY <3>1, <2>9
  <2> QED BY <1>2, <2>1, <2>2, <2>3, <2>10 DEF Ended, Pending, End
<1> QED BY <1>3, <1>4

LEMMA OneNewList ==
  ASSUME Typed, NewList, Calm \/ Pending \/ Ended
  PROVE  Calm' \/ Pending' \/ Ended'
<1>1. UNCHANGED <<pc, wait, arrived, running, finished, sent>>
  BY DEF NewList, options, place
<1> DEFINE m == [type |-> "DIRECTORY_UPDATE", list |-> newest + 1]
<1>2. socket \in Seq(Publications) /\ m \in Publications /\ socket' = Append(socket, m) /\ ~End(m)
  BY DEF NewList, Typed, Queues, Publications, End
<1> HIDE DEF m
<1>3. /\ Len(socket) \in Nat /\ DOMAIN socket = 1 .. Len(socket)
      /\ DOMAIN socket' = 1 .. Len(socket) + 1
      /\ \A i \in 1 .. Len(socket) : socket'[i] = socket[i]
      /\ socket'[Len(socket) + 1] = m
  BY <1>2
<1>4. \A i \in DOMAIN socket' : i \notin DOMAIN socket => ~End(socket'[i])
  BY <1>2, <1>3
<1>5. \A i \in DOMAIN socket : i \in DOMAIN socket' /\ socket'[i] = socket[i]
  BY <1>3
<1>6. CASE Calm \/ Pending
  <2>1. Unended'
    BY <1>4, <1>5, <1>6 DEF Calm, Pending, Unended, End
  <2> QED BY <1>1, <1>6, <2>1 DEF Calm, Pending, Unended
<1>7. CASE Ended
  <2>1. PICK k \in DOMAIN socket :
          End(socket[k]) /\ \A i \in DOMAIN socket : End(socket[i]) => i = k
    BY <1>7 DEF Ended
  <2>2. k \in DOMAIN socket' /\ End(socket'[k])
    BY <1>5, <2>1
  <2>3. \A i \in DOMAIN socket' : End(socket'[i]) => i = k
    <3> SUFFICES ASSUME NEW i \in DOMAIN socket', End(socket'[i]) PROVE i = k
      OBVIOUS
    <3>1. i \in DOMAIN socket
      BY <1>4
    <3>2. End(socket[i])
      BY <1>5, <3>1
    <3> QED BY <2>1, <3>1, <3>2
  <2> QED BY <1>1, <1>7, <2>2, <2>3 DEF Ended, End
<1> QED BY <1>6, <1>7

LEMMA OneStill ==
  ASSUME UNCHANGED <<pc, wait, arrived, running, finished, socket, sent>>, Calm \/ Pending \/ Ended
  PROVE  Calm' \/ Pending' \/ Ended'
BY DEF Calm, Pending, Ended, End

LEMMA OneAtATimeNext ==
  ASSUME Typed, OneAtATime, [Next]_vars
  PROVE  OneAtATime'
<1> SUFFICES ASSUME AllPaced', ~interrupted'
             PROVE  Calm' \/ Pending' \/ Ended'
  BY DEF OneAtATime
<1>1. AllPaced /\ ~interrupted
  BY PacedBefore, NotYetInterrupted
<1>2. Calm \/ Pending \/ Ended
  BY <1>1 DEF OneAtATime
<1>3. pc # "wait" => Calm
  BY <1>2 DEF Pending, Ended
<1>4. CASE Line
  BY <1>3, <1>4, OneLine DEF Line
<1>5. CASE EndOfFile \/ Rg \/ ListenTimeout \/ ListenRead
  <2>1. Calm
    BY <1>3, <1>5 DEF EndOfFile, Rg, ListenTimeout, Pause, ListenRead
  <2> QED BY <1>5, <2>1, OneOther
<1>6. CASE Wait
  BY <1>2, <1>6, OneWait
<1>7. CASE WaitUntilReady \/ LastPoll
  <2>1. Calm
    BY <1>3, <1>7 DEF WaitUntilReady, LastPoll
  <2> QED BY <1>7, <2>1, OnePoll
<1>8. CASE Interrupted
  BY <1>1, <1>8 DEF Interrupted
<1>9. CASE Argument \/ Exit \/ BadLine \/ ListenPoll \/ ListenEmpty
  <2>1. pc # "wait" /\ UNCHANGED <<arrived, running, finished, socket, sent>>
    BY <1>9 DEF Argument, Exit, BadLine, ListenPoll, ListenEmpty, clusterVars
  <2> QED BY <1>3, <2>1, CalmKept
<1>10. CASE \E a \in Agent : Deliver(a)
  BY <1>2, <1>10, OneDelivered
<1>11. CASE BatchBegins \/ BatchEnds
  BY <1>2, <1>11, OneBatch
<1>12. CASE NewList
  BY <1>2, <1>12, OneNewList
<1>13. CASE Feed \/ UNCHANGED vars
  <2>1. UNCHANGED <<pc, wait, arrived, running, finished, socket, sent>>
    BY <1>13 DEF Feed, vars, place, options, clusterVars
  <2> QED BY <1>2, <2>1, OneStill
<1>14. CASE Interrupt
  BY <1>14 DEF Interrupt
<1> QED BY <1>4, <1>5, <1>6, <1>7, <1>8, <1>9, <1>10, <1>11, <1>12, <1>13, <1>14 DEF Next, Stream, Quiet

(* With +no+batch +wait+batch +mb 1 a line is read only when every change  *)
(* before it is in a batch that has ended: no SYNC is left that could be   *)
(* taken for the end of a later batch.                                     *)
THEOREM WaitingMeansDone == Spec => []WaitMeansDone
<1> DEFINE I == Typed /\ OneAtATime
<1>1. Init => I
  <2> SUFFICES ASSUME Init PROVE I
    OBVIOUS
  <2>1. Typed
    BY TypedInit
  <2>2. arrived = {} /\ running = {} /\ finished = {} /\ DOMAIN sent = {}
    BY DEF Init
  <2>3. \A i \in DOMAIN socket : ~End(socket[i])
    BY DEF Init, End
  <2> QED BY <2>1, <2>2, <2>3 DEF OneAtATime, Calm
<1>2. I /\ [Next]_vars => I'
  BY TypedNext, OneAtATimeNext
<1>3. I => WaitMeansDone
  BY DEF OneAtATime, AllPaced, Calm, Pending, Ended, WaitMeansDone
<1> QED BY <1>1, <1>2, <1>3, PTL DEF Spec
=============================================================================
