----------------------- MODULE ElasticCareful_proofs -----------------------
(***************************************************************************)
(* What holds if the operator waits until all is quiet before the next     *)
(* change: load balancing is one round for all agents, at rest all have    *)
(* the same list of agents, the right one, and no edge is ever lost.       *)
(***************************************************************************)
EXTENDS Elastic_proofs

-----------------------------------------------------------------------------
(* Connections.                                                            *)

DONE == Plain("SIMPLE_SYNC_DONE")
SYNC == Plain("SIMPLE_SYNC")
NEED == Plain("NEED_DIRECTORY")

(* A command is in q; it can only be the next message.                     *)
Ordered(q) == \E i \in DOMAIN q : q[i].type \in {"DO_VA", "DO_CS_LB"}
FirstOnly(q) == \A i \in DOMAIN q : q[i].type \in {"DO_VA", "DO_CS_LB"} => i = 1

(* A list is in q, a new list is in q, and one is before the end of the    *)
(* round.                                                                  *)
Listing(q) == \E i \in DOMAIN q : IsList(q[i])
News(q) == \E i \in DOMAIN q : IsList(q[i]) /\ q[i].changed
Warned(q) ==
  \A i \in DOMAIN q : q[i] = DONE => \E j \in DOMAIN q : j < i /\ IsList(q[j]) /\ q[j].changed

(* An agent that reported its list changes its membership no more.         *)
Settled(q) ==
  \A i, j \in DOMAIN q : i < j /\ q[i] = SYNC => q[j].type \notin {"AGENT_JOIN", "AGENT_LEAVE"}

(* What is not on a list is on none of the following ones.                 *)
Dropping(q, v, mem, x) ==
  /\ \A i \in DOMAIN q : IsList(q[i]) /\ x \notin v => x \notin q[i].members
  /\ \A i, j \in DOMAIN q : i < j /\ IsList(q[i]) /\ IsList(q[j]) /\ x \notin q[i].members => x \notin q[j].members
  /\ x \notin v => x \notin mem
  /\ \A i \in DOMAIN q : IsList(q[i]) /\ x \notin q[i].members => x \notin mem

-----------------------------------------------------------------------------
(* The invariant.                                                          *)

Me(a) == <<a, vcount[a]>>
OneHomed == \A d, e \in Homed : d = e

(* The lists an agent has or will get.                                     *)
Seen(a) == {view[a]} \cup {down[a][i].members : i \in {j \in DOMAIN down[a] : IsList(down[a][j])}}

(* An agent has a list, or there will be one for it.                       *)
Heard ==
  \A a \in Alive : (view[a] = {} /\ notify[home[a]] = "no" /\ ~Listing(down[a]) /\ ~Has(up[a], NEED))
                     => members[home[a]] = {}

(* The lists of the directories, and what agents and directories tell      *)
(* each other to change them.                                              *)
Senders ==
  /\ \A a, b \in Agent : \A n : (Has(up[a], Join(b, n)) \/ Has(up[a], Leave(b, n))) => a = b
  /\ \A d, e \in Directory : link[d][e] # <<>> => d # e /\ d \in Homed /\ e \in Homed
Joins ==
  /\ \A a \in Agent : \A n : Has(up[a], Join(a, n)) => n = vcount[a] /\ ~stopping[a] /\ phase[a] # "out"
  /\ \A d, e \in Directory : \A b \in Agent : \A n :
       Has(link[d][e], Join(b, n)) => n = vcount[b] /\ ~stopping[b] /\ phase[b] # "out"
Leaves ==
  /\ \A a \in Agent : \A n : ~stopping[a] => Followed(up[a], Leave(a, n), Join(a, vcount[a]))
  /\ \A a \in Agent : \A n : stopping[a] /\ Has(up[a], Leave(a, n)) => n = vcount[a]
  /\ \A d, e \in Directory : \A b \in Agent : \A n :
       Has(link[d][e], Leave(b, n)) => stopping[b] /\ n = vcount[b] /\ Me(b) \notin members[home[b]]
Known ==
  \A a \in Alive : ~stopping[a] =>
    \/ Has(up[a], Join(a, vcount[a]))
    \/ /\ Me(a) \in members[home[a]]
       /\ \A d \in Homed \ {home[a]} : Me(a) \in members[d] \/ Has(link[home[a]][d], Join(a, vcount[a]))
Unknown ==
  ~OneHomed => \A a \in Agent : Has(up[a], Join(a, vcount[a])) =>
    /\ Once(up[a], Join(a, vcount[a]))
    /\ \A d \in Homed : Me(a) \notin members[d]
    /\ \A d, e \in Directory : ~Has(link[d][e], Join(a, vcount[a]))
Entries ==
  \A d \in Homed : \A m \in members[d] :
    /\ phase[m[1]] # "out"
    /\ m[2] # vcount[m[1]] => ~stopping[m[1]] /\ Has(up[m[1]], Leave(m[1], m[2]))
Removed ==
  /\ \A s \in Agent : \A d \in Homed \ {home[s]} :
       stopping[s] /\ Me(s) \in members[d] /\ Me(s) \notin members[home[s]] => Has(link[home[s]][d], Leave(s, vcount[s]))
  /\ \A s \in Agent : phase[s] = "gone" => Me(s) \notin members[home[s]]
Registered == Senders /\ Joins /\ Leaves /\ Known /\ Unknown /\ Entries /\ Removed

(* Load balancing.                                                         *)
Waiting(a) == (phase[a] \in {"balance", "hold"} \/ Ordered(down[a])) /\ ~Has(down[a], DONE)
Updated(a) == phase[a] = "hold" \/ News(down[a])
Unsent(a)  == phase[a] = "balance" \/ Ordered(down[a]) \/ Has(up[a], SYNC)
Resizing(a) == ~stopping[a] /\ \E n : Has(up[a], Leave(a, n))
Busy(a) == phase[a] \in {"balance", "hold"} \/ Ordered(down[a]) \/ Has(down[a], DONE) \/ Has(up[a], SYNC) \/ Resizing(a)
Counted == {a \in Alive : ~Unsent(a) /\ Me(a) \in members[home[a]] /\ \A n : ~Has(up[a], Leave(a, n))}

Commanded ==
  \A a \in Alive : /\ FirstOnly(down[a])
                   /\ Ordered(down[a]) => /\ phase[a] \in {"load", "idle"}
                                          /\ \A n : ~Has(up[a], Join(a, n)) /\ ~Has(up[a], Leave(a, n))
Finished ==
  \A a \in Alive : /\ Once(down[a], DONE)
                   /\ Has(down[a], DONE) => \/ phase[a] = "hold"
                                            \/ (phase[a] = "balance" \/ Ordered(down[a])) /\ Warned(down[a])
Synced ==
  \A a \in Agent : Has(up[a], SYNC) =>
    a \in Alive /\ Once(up[a], SYNC) /\ phase[a] # "balance" /\ ~Ordered(down[a]) /\ Settled(up[a])
Together ==
  /\ \A a, b \in Alive : Waiting(a) => Waiting(b)
  /\ \A a, b \in Alive : Waiting(a) /\ Updated(a) => Updated(b)
Undisturbed == (\E a \in Alive : Busy(a)) => OneHomed /\ ~Leaving
Behind ==
  (\E a \in Alive : Unsent(a)) /\ (\A a \in Alive : ~Waiting(a)) => \A d \in Homed : syncs[d] < Cardinality(Counted)
Rounds == NoThrow /\ Commanded /\ Finished /\ Synced /\ Together /\ Undisturbed /\ Behind

(* An agent that is told to stop.                                          *)
Full(s) == {Me(a) : a \in Alive \cup {s}}
Lists(s) == {Full(s), Full(s) \ {Me(s)}}
Parts(s) == stopping[s] /\ (s \in Alive \/ Listed(s))
Alone == \A g, h \in Agent : Parts(g) /\ Parts(h) => g = h
Parting ==
  \A s \in Agent : Parts(s) =>
    /\ \A d \in Homed : members[d] \in Lists(s)
    /\ \A a \in Alive : Seen(a) \subseteq Lists(s) /\ Dropping(down[a], view[a], members[home[a]], Me(s))
Staying == \A s \in Alive : stopping[s] /\ Me(s) \in view[s] => nE[s] > 0
Parted == Alone /\ Parting /\ Staying


-----------------------------------------------------------------------------
(* Connections: what is put at the end of a queue, what is taken.          *)

LEMMA MarksDistinct ==
  /\ DONE.type = "SIMPLE_SYNC_DONE" /\ SYNC.type = "SIMPLE_SYNC" /\ NEED.type = "NEED_DIRECTORY"
  /\ DONE \in DownMessage /\ SYNC \in UpMessage /\ NEED \in UpMessage
  /\ \A x \in DownMessage : x.type = "SIMPLE_SYNC_DONE" => x = DONE
  /\ \A x \in UpMessage : /\ x.type = "SIMPLE_SYNC" => x = SYNC
                          /\ x.type = "NEED_DIRECTORY" => x = NEED
                          /\ x.type = "AGENT_JOIN" => x = Join(x.member[1], x.member[2]) /\ x.member \in Member
                          /\ x.type = "AGENT_LEAVE" => x = Leave(x.member[1], x.member[2]) /\ x.member \in Member
  /\ \A x \in LinkMessage : /\ x.type = "AGENT_JOIN" => x = Join(x.member[1], x.member[2]) /\ x.member \in Member
                            /\ x.type = "AGENT_LEAVE" => x = Leave(x.member[1], x.member[2]) /\ x.member \in Member
  /\ \A b, n : /\ Join(b, n).type = "AGENT_JOIN" /\ Join(b, n).member = <<b, n>>
               /\ Leave(b, n).type = "AGENT_LEAVE" /\ Leave(b, n).member = <<b, n>>
<1>1. \A m \in Member : m = <<m[1], m[2]>>
  BY MemberPairs
<1>2. ASSUME NEW x \in UpMessage \cup LinkMessage, x.type = "AGENT_JOIN"
      PROVE  x = Join(x.member[1], x.member[2]) /\ x.member \in Member
  <2>1. x.member \in Member /\ x = [type |-> "AGENT_JOIN", member |-> x.member]
    BY <1>2 DEF UpMessage, LinkMessage
  <2> QED BY <1>1, <2>1 DEF Join
<1>3. ASSUME NEW x \in UpMessage \cup LinkMessage, x.type = "AGENT_LEAVE"
      PROVE  x = Leave(x.member[1], x.member[2]) /\ x.member \in Member
  <2>1. x.member \in Member /\ x = [type |-> "AGENT_LEAVE", member |-> x.member]
    BY <1>3 DEF UpMessage, LinkMessage
  <2> QED BY <1>1, <2>1 DEF Leave
<1>4. /\ \A x \in DownMessage : x.type = "SIMPLE_SYNC_DONE" => x = DONE
      /\ \A x \in UpMessage : /\ x.type = "SIMPLE_SYNC" => x = SYNC
                              /\ x.type = "NEED_DIRECTORY" => x = NEED
  BY DEF DownMessage, ListMessage, UpMessage, DONE, SYNC, NEED, Plain
<1>5. /\ DONE.type = "SIMPLE_SYNC_DONE" /\ SYNC.type = "SIMPLE_SYNC" /\ NEED.type = "NEED_DIRECTORY"
      /\ DONE \in DownMessage /\ SYNC \in UpMessage /\ NEED \in UpMessage
  BY DEF DownMessage, UpMessage, DONE, SYNC, NEED, Plain
<1>6. \A b, n : /\ Join(b, n).type = "AGENT_JOIN" /\ Join(b, n).member = <<b, n>>
                /\ Leave(b, n).type = "AGENT_LEAVE" /\ Leave(b, n).member = <<b, n>>
  BY DEF Join, Leave
<1> QED BY <1>2, <1>3, <1>4, <1>5, <1>6

LEMMA DownEmpty ==
  /\ ~Ordered(<<>>) /\ FirstOnly(<<>>) /\ ~Listing(<<>>) /\ ~News(<<>>) /\ Warned(<<>>) /\ Settled(<<>>)
  /\ \A v, mem, x : (x \notin v => x \notin mem) => Dropping(<<>>, v, mem, x)
BY DEF Ordered, FirstOnly, Listing, News, Warned, Settled, Dropping

LEMMA DownAppend ==
  ASSUME NEW S, NEW q \in Seq(S), NEW x \in S
  PROVE  LET r == Append(q, x)
             order == x.type \in {"DO_VA", "DO_CS_LB"}
         IN  /\ Ordered(r) <=> Ordered(q) \/ order
             /\ ~order /\ FirstOnly(q) => FirstOnly(r)
             /\ q = <<>> => FirstOnly(r)
             /\ Listing(r) <=> Listing(q) \/ IsList(x)
             /\ News(r) <=> News(q) \/ (IsList(x) /\ x.changed)
             /\ x # DONE \/ News(q) => (Warned(q) => Warned(r))
<1> DEFINE r == Append(q, x)
           N == Len(q)
<1>1. /\ N \in Nat /\ DOMAIN q = 1 .. N /\ DOMAIN r = 1 .. N + 1
      /\ \A i \in 1 .. N : r[i] = q[i]
      /\ r[N + 1] = x
  BY AppendPlaces
<1>2. q = <<>> => N = 0
  OBVIOUS
<1> HIDE DEF r, N
<1>3. \A i \in DOMAIN r : i \in DOMAIN q \/ i = N + 1
  BY <1>1
<1>4. /\ \A i \in DOMAIN q : i \in DOMAIN r /\ r[i] = q[i] /\ i < N + 1
      /\ N + 1 \in DOMAIN r
  BY <1>1
<1>5. Ordered(r) <=> Ordered(q) \/ x.type \in {"DO_VA", "DO_CS_LB"}
  BY <1>1, <1>3, <1>4 DEF Ordered
<1>6. x.type \notin {"DO_VA", "DO_CS_LB"} /\ FirstOnly(q) => FirstOnly(r)
  BY <1>1, <1>3, <1>4 DEF FirstOnly
<1>7. q = <<>> => FirstOnly(r)
  BY <1>1, <1>2 DEF FirstOnly
<1>8. Listing(r) <=> Listing(q) \/ IsList(x)
  BY <1>1, <1>3, <1>4 DEF Listing
<1>9. News(r) <=> News(q) \/ (IsList(x) /\ x.changed)
  BY <1>1, <1>3, <1>4 DEF News
<1>10. x # DONE \/ News(q) => (Warned(q) => Warned(r))
  <2> SUFFICES ASSUME x # DONE \/ News(q), Warned(q), NEW i \in DOMAIN r, r[i] = DONE
               PROVE  \E j \in DOMAIN r : j < i /\ IsList(r[j]) /\ r[j].changed
    BY DEF Warned
  <2>1. CASE i \in DOMAIN q
    <3>1. PICK j \in DOMAIN q : j < i /\ IsList(q[j]) /\ q[j].changed
      BY <1>4, <2>1 DEF Warned
    <3> QED BY <1>4, <3>1
  <2>2. CASE i = N + 1
    <3>1. PICK j \in DOMAIN q : IsList(q[j]) /\ q[j].changed
      BY <1>1, <2>2 DEF News
    <3> QED BY <1>4, <2>2, <3>1
  <2> QED BY <1>3, <2>1, <2>2
<1> QED BY <1>5, <1>6, <1>7, <1>8, <1>9, <1>10 DEF r

LEMMA DownTail ==
  ASSUME NEW S, NEW q \in Seq(S), q # <<>>
  PROVE  LET r == Tail(q)
             x == Head(q)
             order == x.type \in {"DO_VA", "DO_CS_LB"}
         IN  /\ Ordered(q) <=> Ordered(r) \/ order
             /\ FirstOnly(q) => FirstOnly(r) /\ ~Ordered(r)
             /\ Listing(q) <=> Listing(r) \/ IsList(x)
             /\ News(q) <=> News(r) \/ (IsList(x) /\ x.changed)
             /\ Warned(q) /\ ~(IsList(x) /\ x.changed) => Warned(r) /\ x # DONE
<1> DEFINE r == Tail(q)
           x == Head(q)
           N == Len(q)
<1>1. /\ N \in Nat \ {0} /\ DOMAIN q = 1 .. N /\ DOMAIN r = 1 .. N - 1
      /\ \A i \in 1 .. N - 1 : r[i] = q[i + 1]
      /\ x = q[1]
  BY TailPlaces
<1> HIDE DEF r, x, N
<1>2. \A i \in DOMAIN q : i = 1 \/ (i - 1 \in DOMAIN r /\ r[i - 1] = q[i])
  BY <1>1
<1>3. /\ \A i \in DOMAIN r : i + 1 \in DOMAIN q /\ r[i] = q[i + 1] /\ i + 1 # 1 /\ i \in Nat
      /\ 1 \in DOMAIN q
  BY <1>1
<1>4. Ordered(q) <=> Ordered(r) \/ x.type \in {"DO_VA", "DO_CS_LB"}
  BY <1>1, <1>2, <1>3 DEF Ordered
<1>5. FirstOnly(q) => ~Ordered(r)
  BY <1>3 DEF FirstOnly, Ordered
<1>6. FirstOnly(q) => FirstOnly(r)
  BY <1>3 DEF FirstOnly
<1>7. Listing(q) <=> Listing(r) \/ IsList(x)
  BY <1>1, <1>2, <1>3 DEF Listing
<1>8. News(q) <=> News(r) \/ (IsList(x) /\ x.changed)
  BY <1>1, <1>2, <1>3 DEF News
<1>9. ASSUME Warned(q), ~(IsList(x) /\ x.changed) PROVE Warned(r) /\ x # DONE
  <2>1. x # DONE
    BY <1>1, <1>3, <1>9 DEF Warned
  <2>2. ASSUME NEW i \in DOMAIN r, r[i] = DONE
        PROVE  \E j \in DOMAIN r : j < i /\ IsList(r[j]) /\ r[j].changed
    <3>1. PICK j \in DOMAIN q : j < i + 1 /\ IsList(q[j]) /\ q[j].changed
      BY <1>3, <1>9, <2>2 DEF Warned
    <3>2. j # 1 /\ j - 1 \in DOMAIN r /\ r[j - 1] = q[j] /\ j \in Nat
      BY <1>1, <1>2, <1>9, <3>1
    <3>3. j - 1 < i
      BY <1>3, <3>1, <3>2
    <3> QED BY <3>1, <3>2, <3>3
  <2> QED BY <2>1, <2>2 DEF Warned
<1> QED BY <1>4, <1>5, <1>6, <1>7, <1>8, <1>9 DEF r, x

LEMMA SettledAppend ==
  ASSUME NEW S, NEW q \in Seq(S), NEW x \in S, Settled(q),
         x.type \notin {"AGENT_JOIN", "AGENT_LEAVE"} \/ ~Has(q, SYNC)
  PROVE  Settled(Append(q, x))
<1> DEFINE r == Append(q, x)
           N == Len(q)
<1>1. /\ N \in Nat /\ DOMAIN q = 1 .. N /\ DOMAIN r = 1 .. N + 1
      /\ \A i \in 1 .. N : r[i] = q[i]
      /\ r[N + 1] = x
  BY AppendPlaces
<1> HIDE DEF r, N
<1> SUFFICES ASSUME NEW i \in DOMAIN r, NEW j \in DOMAIN r, i < j, r[i] = SYNC
             PROVE  r[j].type \notin {"AGENT_JOIN", "AGENT_LEAVE"}
  BY DEF Settled, r
<1>2. i \in DOMAIN q /\ q[i] = SYNC
  BY <1>1
<1>3. CASE j \in DOMAIN q
  BY <1>1, <1>2, <1>3 DEF Settled
<1>4. CASE j = N + 1
  BY <1>1, <1>2, <1>4 DEF Has
<1> QED BY <1>1, <1>3, <1>4

LEMMA SettledTail ==
  ASSUME NEW S, NEW q \in Seq(S), q # <<>>, Settled(q)
  PROVE  /\ Settled(Tail(q))
         /\ Head(q) = SYNC => \A m : m.type \in {"AGENT_JOIN", "AGENT_LEAVE"} => ~Has(Tail(q), m)
<1> DEFINE r == Tail(q)
           N == Len(q)
<1>1. /\ N \in Nat \ {0} /\ DOMAIN q = 1 .. N /\ DOMAIN r = 1 .. N - 1
      /\ \A i \in 1 .. N - 1 : r[i] = q[i + 1]
      /\ Head(q) = q[1]
  BY TailPlaces
<1> HIDE DEF r, N
<1>2. \A i \in DOMAIN r : i + 1 \in DOMAIN q /\ r[i] = q[i + 1] /\ 1 < i + 1 /\ i \in Nat
  BY <1>1
<1>3. Settled(r)
  <2> SUFFICES ASSUME NEW i \in DOMAIN r, NEW j \in DOMAIN r, i < j, r[i] = SYNC
               PROVE  r[j].type \notin {"AGENT_JOIN", "AGENT_LEAVE"}
    BY DEF Settled
  <2>1. i + 1 < j + 1
    BY <1>2
  <2> QED BY <1>2, <2>1 DEF Settled
<1>4. ASSUME Head(q) = SYNC, NEW m, m.type \in {"AGENT_JOIN", "AGENT_LEAVE"} PROVE ~Has(r, m)
  BY <1>1, <1>2, <1>4 DEF Settled, Has
<1> QED BY <1>3, <1>4 DEF r

LEMMA DroppingAppend ==
  ASSUME NEW q \in Seq(DownMessage), NEW m \in DownMessage, NEW v, NEW mem, NEW x, Dropping(q, v, mem, x),
         IsList(m) => m.members = mem
  PROVE  Dropping(Append(q, m), v, mem, x)
<1> DEFINE r == Append(q, m)
           N == Len(q)
<1>1. /\ N \in Nat /\ DOMAIN q = 1 .. N /\ DOMAIN r = 1 .. N + 1
      /\ \A i \in 1 .. N : r[i] = q[i]
      /\ r[N + 1] = m
  BY AppendPlaces
<1> HIDE DEF r, N
<1>2. \A i \in DOMAIN r : (i \in DOMAIN q /\ r[i] = q[i] /\ i < N + 1) \/ (i = N + 1 /\ r[i] = m)
  BY <1>1
<1>3. \A i \in DOMAIN r : IsList(r[i]) /\ x \notin v => x \notin r[i].members
  BY <1>2 DEF Dropping
<1>4. \A i, j \in DOMAIN r : i < j /\ IsList(r[i]) /\ IsList(r[j]) /\ x \notin r[i].members => x \notin r[j].members
  <2> SUFFICES ASSUME NEW i \in DOMAIN r, NEW j \in DOMAIN r, i < j, IsList(r[i]), IsList(r[j]), x \notin r[i].members
               PROVE  x \notin r[j].members
    OBVIOUS
  <2>1. i \in DOMAIN q /\ r[i] = q[i]
    BY <1>1
  <2> QED BY <1>2, <2>1 DEF Dropping
<1>5. \A i \in DOMAIN r : IsList(r[i]) /\ x \notin r[i].members => x \notin mem
  BY <1>2 DEF Dropping
<1>6. x \notin v => x \notin mem
  BY DEF Dropping
<1> QED BY <1>3, <1>4, <1>5, <1>6 DEF Dropping, r

LEMMA DroppingTail ==
  ASSUME NEW q \in Seq(DownMessage), q # <<>>, NEW v, NEW mem, NEW x, Dropping(q, v, mem, x)
  PROVE  /\ Dropping(Tail(q), v, mem, x)
         /\ IsList(Head(q)) => /\ Dropping(Tail(q), Head(q).members, mem, x)
                               /\ x \notin v => x \notin Head(q).members
<1> DEFINE r == Tail(q)
           N == Len(q)
<1>1. /\ N \in Nat \ {0} /\ DOMAIN q = 1 .. N /\ DOMAIN r = 1 .. N - 1
      /\ \A i \in 1 .. N - 1 : r[i] = q[i + 1]
      /\ Head(q) = q[1]
  BY TailPlaces
<1> HIDE DEF r, N
<1>2. /\ \A i \in DOMAIN r : i + 1 \in DOMAIN q /\ r[i] = q[i + 1] /\ 1 < i + 1 /\ i \in Nat
      /\ 1 \in DOMAIN q
  BY <1>1
<1>3. \A i, j \in DOMAIN r : i < j => i + 1 < j + 1
  BY <1>2
<1>4. /\ \A i, j \in DOMAIN r : i < j /\ IsList(r[i]) /\ IsList(r[j]) /\ x \notin r[i].members => x \notin r[j].members
      /\ \A i \in DOMAIN r : IsList(r[i]) /\ x \notin r[i].members => x \notin mem
  BY <1>2, <1>3 DEF Dropping
<1>5. Dropping(r, v, mem, x)
  BY <1>2, <1>4 DEF Dropping
<1>6. ASSUME IsList(Head(q)) PROVE Dropping(r, Head(q).members, mem, x) /\ (x \notin v => x \notin Head(q).members)
  BY <1>1, <1>2, <1>4, <1>6 DEF Dropping
<1> QED BY <1>5, <1>6 DEF r

-----------------------------------------------------------------------------
(* The lists of agents: steps that change no membership.                   *)

Registers(m) == m.type \in {"AGENT_JOIN", "AGENT_LEAVE"}
AsBefore(q, r) ==
  \A m : Registers(m) => /\ Has(r, m) <=> Has(q, m)
                         /\ Once(q, m) => Once(r, m)
                         /\ \A n : Registers(n) => (Followed(q, m, n) => Followed(r, m, n))

LEMMA AsBeforeSame == ASSUME NEW q PROVE AsBefore(q, q)
BY DEF AsBefore

LEMMA AsBeforeAppend ==
  ASSUME NEW S, NEW q \in Seq(S), NEW x \in S, ~Registers(x)
  PROVE  AsBefore(q, Append(q, x))
<1> SUFFICES ASSUME NEW m, Registers(m)
             PROVE  /\ Has(Append(q, x), m) <=> Has(q, m)
                    /\ Once(q, m) => Once(Append(q, x), m)
                    /\ \A n : Registers(n) => (Followed(q, m, n) => Followed(Append(q, x), m, n))
  BY DEF AsBefore
<1>1. x # m
  BY DEF Registers
<1> QED BY <1>1, HasAppend, OnceAppend, FollowedAppend

LEMMA AsBeforeTail ==
  ASSUME NEW S, NEW q \in Seq(S), q # <<>>, ~Registers(Head(q))
  PROVE  AsBefore(q, Tail(q))
<1> SUFFICES ASSUME NEW m, Registers(m)
             PROVE  /\ Has(Tail(q), m) <=> Has(q, m)
                    /\ Once(q, m) => Once(Tail(q), m)
                    /\ \A n : Registers(n) => (Followed(q, m, n) => Followed(Tail(q), m, n))
  BY DEF AsBefore
<1>1. Head(q) # m
  BY DEF Registers
<1> QED BY <1>1, HasTail, OnceTail, FollowedTail

LEMMA RegisterMessages ==
  /\ \A b, n : Registers(Join(b, n)) /\ Registers(Leave(b, n)) /\ Join(b, n) # Leave(b, n)
  /\ \A b, n, c, k : /\ Join(b, n) = Join(c, k) => b = c /\ n = k
                     /\ Leave(b, n) = Leave(c, k) => b = c /\ n = k
                     /\ Join(b, n) # Leave(c, k)
  /\ ~Registers(SYNC) /\ ~Registers(NEED) /\ ~Registers(Plain("CS_UPDATE")) /\ ~Registers(Plain("READY_NV_NE"))
  /\ ~Registers(Plain("READY_NV_NE_INT"))
  /\ \A x \in UpMessage : Registers(x) <=> x.type \in {"AGENT_JOIN", "AGENT_LEAVE"}
BY DEF Registers, Join, Leave, SYNC, NEED, Plain

LEMMA HomeHomed == \A a \in Agent : home[a] \in Homed
BY DEF Homed

LEMMA HomedType == ASSUME Types PROVE \A d \in Homed : d \in Directory
BY HomeType DEF Homed

LEMMA RegisteredSame ==
  ASSUME Types, Registered, UNCHANGED <<members, vcount, stopping, home>>,
         \A a \in Agent : /\ phase'[a] = "out" <=> phase[a] = "out"
                          /\ phase'[a] = "gone" => phase[a] = "gone" \/ Me(a) \notin members[home[a]],
         Alive' \subseteq Alive,
         \A a \in Agent : AsBefore(up[a], up'[a]),
         \A d, e \in Directory : AsBefore(link[d][e], link'[d][e]),
         \A d, e \in Directory : link'[d][e] # <<>> => d # e /\ d \in Homed /\ e \in Homed
  PROVE  Registered'
<1>1. Homed' = Homed /\ (OneHomed' <=> OneHomed) /\ \A a : Me(a)' = Me(a)
  BY DEF Homed, OneHomed, Me
<1>2. \A a \in Agent : \A b, n : /\ Has(up'[a], Join(b, n)) <=> Has(up[a], Join(b, n))
                                 /\ Has(up'[a], Leave(b, n)) <=> Has(up[a], Leave(b, n))
  BY RegisterMessages DEF AsBefore
<1>3. \A d, e \in Directory : \A b, n : /\ Has(link'[d][e], Join(b, n)) <=> Has(link[d][e], Join(b, n))
                                        /\ Has(link'[d][e], Leave(b, n)) <=> Has(link[d][e], Leave(b, n))
  BY RegisterMessages DEF AsBefore
<1>4. Senders'
  <2>1. \A a, b \in Agent : \A n : (Has(up'[a], Join(b, n)) \/ Has(up'[a], Leave(b, n))) => a = b
    BY <1>2 DEF Registered, Senders
  <2> QED BY <1>1, <2>1 DEF Senders
<1>5. Joins'
  <2>1. \A a \in Agent : \A n : Has(up'[a], Join(a, n)) => n = vcount[a] /\ ~stopping[a] /\ phase'[a] # "out"
    BY <1>2 DEF Registered, Joins
  <2>2. \A d, e \in Directory : \A b \in Agent : \A n :
          Has(link'[d][e], Join(b, n)) => n = vcount[b] /\ ~stopping[b] /\ phase'[b] # "out"
    BY <1>3 DEF Registered, Joins
  <2> QED BY <2>1, <2>2 DEF Joins
<1>6. Leaves'
  <2>1. \A a \in Agent : \A n : ~stopping[a] => Followed(up'[a], Leave(a, n), Join(a, vcount[a]))
    BY RegisterMessages DEF Registered, Leaves, AsBefore
  <2>2. \A a \in Agent : \A n : stopping[a] /\ Has(up'[a], Leave(a, n)) => n = vcount[a]
    BY <1>2 DEF Registered, Leaves
  <2>3. \A d, e \in Directory : \A b \in Agent : \A n :
          Has(link'[d][e], Leave(b, n)) => stopping[b] /\ n = vcount[b] /\ Me(b) \notin members[home[b]]
    BY <1>3 DEF Registered, Leaves
  <2> QED BY <1>1, <2>1, <2>2, <2>3 DEF Leaves
<1>7. Known'
  <2> SUFFICES ASSUME NEW a \in Alive, ~stopping[a]
               PROVE  \/ Has(up'[a], Join(a, vcount[a]))
                      \/ /\ Me(a) \in members[home[a]]
                         /\ \A d \in Homed \ {home[a]} : \/ Me(a) \in members[d]
                                                         \/ Has(link'[home[a]][d], Join(a, vcount[a]))
    BY <1>1 DEF Known
  <2>1. a \in Agent /\ home[a] \in Homed
    BY AliveAgent, HomeHomed
  <2>2. CASE Has(up[a], Join(a, vcount[a]))
    BY <1>2, <2>1, <2>2
  <2>3. CASE ~Has(up[a], Join(a, vcount[a]))
    <3>1. /\ Me(a) \in members[home[a]]
          /\ \A d \in Homed \ {home[a]} : Me(a) \in members[d] \/ Has(link[home[a]][d], Join(a, vcount[a]))
      BY <2>3 DEF Registered, Known
    <3>2. \A d \in Homed : Has(link[home[a]][d], Join(a, vcount[a])) => Has(link'[home[a]][d], Join(a, vcount[a]))
      <4> SUFFICES ASSUME NEW d \in Homed, Has(link[home[a]][d], Join(a, vcount[a]))
                   PROVE  Has(link'[home[a]][d], Join(a, vcount[a]))
        OBVIOUS
      <4>1. AsBefore(link[home[a]][d], link'[home[a]][d])
        BY <2>1, HomedType
      <4> QED BY <4>1, RegisterMessages DEF AsBefore
    <3> QED BY <3>1, <3>2
  <2> QED BY <2>2, <2>3
<1>8. Unknown'
  <2> SUFFICES ASSUME ~OneHomed, NEW a \in Agent, Has(up'[a], Join(a, vcount[a]))
               PROVE  /\ Once(up'[a], Join(a, vcount[a]))
                      /\ \A d \in Homed : Me(a) \notin members[d]
                      /\ \A d, e \in Directory : ~Has(link'[d][e], Join(a, vcount[a]))
    BY <1>1 DEF Unknown
  <2>1. Has(up[a], Join(a, vcount[a]))
    BY <1>2
  <2>2. /\ Once(up[a], Join(a, vcount[a]))
        /\ \A d \in Homed : Me(a) \notin members[d]
        /\ \A d, e \in Directory : ~Has(link[d][e], Join(a, vcount[a]))
    BY <2>1 DEF Registered, Unknown
  <2>3. Once(up'[a], Join(a, vcount[a]))
    BY <2>2, RegisterMessages DEF AsBefore
  <2> QED BY <1>3, <2>2, <2>3
<1>9. Entries'
  <2> SUFFICES ASSUME NEW d \in Homed, NEW m \in members[d], Entries
               PROVE  /\ phase'[m[1]] # "out"
                      /\ m[2] # vcount[m[1]] => ~stopping[m[1]] /\ Has(up'[m[1]], Leave(m[1], m[2]))
    BY <1>1 DEF Entries, Registered
  <2>1. m[1] \in Agent
    BY HomedType, MemberPairs DEF Types, DirTypes
  <2> QED BY <1>2, <2>1 DEF Entries
<1>10. Removed'
  <2>1. ASSUME NEW s \in Agent, NEW d \in Homed \ {home[s]}, stopping[s], Me(s) \in members[d], Me(s) \notin members[home[s]]
        PROVE  Has(link'[home[s]][d], Leave(s, vcount[s]))
    <3>1. Has(link[home[s]][d], Leave(s, vcount[s]))
      BY <2>1 DEF Registered, Removed
    <3>2. AsBefore(link[home[s]][d], link'[home[s]][d])
      BY HomedType, HomeHomed
    <3> QED BY <3>1, <3>2, RegisterMessages DEF AsBefore
  <2>2. \A s \in Agent : phase'[s] = "gone" => Me(s) \notin members[home[s]]
    BY DEF Registered, Removed
  <2> QED BY <1>1, <2>1, <2>2 DEF Removed
<1> QED BY <1>4, <1>5, <1>6, <1>7, <1>8, <1>9, <1>10 DEF Registered

(* Messages from agents go, and directories pass on the message m.         *)
Fewer(m) ==
  \A a \in Agent : \A k :
    /\ Has(up'[a], k) => Has(up[a], k)
    /\ k # m /\ Has(up[a], k) => Has(up'[a], k)
    /\ Once(up[a], k) => Once(up'[a], k)
    /\ \A n : Followed(up[a], k, n) => Followed(up'[a], k, n)
Passed(m) ==
  /\ \A x, y \in Directory : \A k :
       /\ Has(link'[x][y], k) => Has(link[x][y], k) \/ k = m
       /\ k # m /\ Has(link[x][y], k) => Has(link'[x][y], k)
  /\ \A x, y \in Directory : link'[x][y] # <<>> => x # y /\ x \in Homed /\ y \in Homed

LEMMA FewerPopped ==
  ASSUME Types, NEW a \in Agent, up[a] # <<>>, up' = [up EXCEPT ![a] = Tail(up[a])]
  PROVE  Fewer(Head(up[a]))
<1>1. /\ \A b \in Agent \ {a} : up'[b] = up[b]
      /\ up'[a] = Tail(up[a]) /\ up[a] \in Seq(UpMessage)
  BY DEF Types, NetTypes
<1>2. \A k : /\ Has(up'[a], k) => Has(up[a], k)
             /\ k # Head(up[a]) /\ Has(up[a], k) => Has(up'[a], k)
             /\ Once(up[a], k) => Once(up'[a], k)
             /\ \A n : Followed(up[a], k, n) => Followed(up'[a], k, n)
  BY <1>1, HasTail, OnceTail, FollowedTail
<1> QED BY <1>1, <1>2 DEF Fewer

LEMMA ToPeersHas ==
  ASSUME NEW net \in LinkNet, NEW d \in Directory, NEW m \in LinkMessage, NEW x \in Directory, NEW y \in Directory
  PROVE  /\ \A k : Has(ToPeers(d, m, net)[x][y], k)
                     <=> Has(net[x][y], k) \/ (k = m /\ x = d /\ y # d /\ y \in Homed)
         /\ ToPeers(d, m, net)[x][y] # <<>> => net[x][y] # <<>> \/ (x = d /\ y # d /\ y \in Homed)
<1>0. net \in [Directory -> [Directory -> Seq(LinkMessage)]]
  BY DEF LinkNet
<1>1. /\ \A e \in Directory \ {d} : ToPeers(d, m, net)[e] = net[e]
      /\ \A e \in Directory : ToPeers(d, m, net)[d][e] =
           IF e = d \/ e \notin Homed THEN net[d][e] ELSE Append(net[d][e], m)
  <2>1. \A e \in Directory : net[d][e] \in Seq(LinkMessage) /\ Append(net[d][e], m) \in Seq(LinkMessage)
    BY <1>0, AppendPlaces
  <2> QED BY <1>0, <2>1 DEF ToPeers
<1>2. \A k : Has(Append(net[x][y], m), k) <=> Has(net[x][y], k) \/ k = m
  BY HasAppend DEF LinkNet
<1>3. CASE x = d /\ y # d /\ y \in Homed
  BY <1>1, <1>2, <1>3
<1>4. CASE ~(x = d /\ y # d /\ y \in Homed)
  BY <1>1, <1>4
<1> QED BY <1>3, <1>4

(* Of the connections between directories, that to d has lost an m.        *)
Without(net, m, d) ==
  /\ \A x, y \in Directory : \A k :
       /\ Has(net[x][y], k) => Has(link[x][y], k)
       /\ Has(link[x][y], k) /\ (k # m \/ y # d) => Has(net[x][y], k)
  /\ \A x, y \in Directory : net[x][y] # <<>> => link[x][y] # <<>>

PopLink(d, e) == [link EXCEPT ![e][d] = Tail(link[e][d])]

LEMMA PoppedLink ==
  ASSUME Types, NEW d \in Directory, NEW e \in Directory, link[e][d] # <<>>
  PROVE  Without(PopLink(d, e), Head(link[e][d]), d)
<1> DEFINE net == PopLink(d, e)
           m == Head(link[e][d])
<1>1. link \in LinkNet /\ link[e][d] \in Seq(LinkMessage) /\ Tail(link[e][d]) \in Seq(LinkMessage)
  BY TailPlaces DEF Types, NetTypes, LinkNet
<1>2. \A x, y \in Directory : net[x][y] = IF x = e /\ y = d THEN Tail(link[e][d]) ELSE link[x][y]
  BY <1>1 DEF LinkNet, PopLink
<1>3. \A k : /\ Has(Tail(link[e][d]), k) => Has(link[e][d], k)
             /\ k # m /\ Has(link[e][d], k) => Has(Tail(link[e][d]), k)
  BY <1>1, HasTail
<1> HIDE DEF net, m
<1>4. Without(net, m, d)
  BY <1>2, <1>3 DEF Without
<1> QED BY <1>4 DEF net, m

(* An agent's entry is added.                                              *)
LEMMA RegisteredJoin ==
  ASSUME Types, Lives, Registered, NEW b \in Agent, NEW d \in Homed, ~stopping[b], phase[b] # "out",
         UNCHANGED <<phase, vcount, stopping, home>>,
         members' = [members EXCEPT ![d] = members[d] \cup {Me(b)}],
         Fewer(Join(b, vcount[b])), Passed(Join(b, vcount[b])),
         \A x, y \in Directory : y # d /\ Has(link[x][y], Join(b, vcount[b])) => Has(link'[x][y], Join(b, vcount[b])),
         \/ Has(up'[b], Join(b, vcount[b]))
         \/ Has(up[b], Join(b, vcount[b])) => 
              /\ d = home[b]
              /\ \A y \in Homed \ {home[b]} : Me(b) \in members[y] \/ Has(link'[home[b]][y], Join(b, vcount[b])),
         ~OneHomed => ~Has(up'[b], Join(b, vcount[b]))
  PROVE  Registered'
<1> DEFINE m == Join(b, vcount[b])
<1>1. /\ Homed' = Homed /\ (OneHomed' <=> OneHomed) /\ \A a : Me(a)' = Me(a)
      /\ Alive' = Alive
  BY DEF Homed, OneHomed, Me, Alive
<1>2. /\ \A x \in Homed : members'[x] = IF x = d THEN members[d] \cup {Me(b)} ELSE members[x]
      /\ \A x \in Homed : x \in Directory
      /\ \A a \in Agent : home[a] \in Homed
  BY HomedType, HomeHomed DEF Types, DirTypes
<1>3. \A a, c \in Agent : \A n : m # Leave(c, n) /\ (m = Join(c, n) => c = b /\ n = vcount[b]) /\ (Me(a) = Me(c) => a = c)
  BY RegisterMessages DEF Me
<1> HIDE DEF m
<1>4. /\ \A a \in Agent : \A k :
           /\ Has(up'[a], k) => Has(up[a], k)
           /\ k # m /\ Has(up[a], k) => Has(up'[a], k)
           /\ Once(up[a], k) => Once(up'[a], k)
           /\ \A n : Followed(up[a], k, n) => Followed(up'[a], k, n)
      /\ \A x, y \in Directory : \A k :
           /\ Has(link'[x][y], k) => Has(link[x][y], k) \/ k = m
           /\ k # m /\ Has(link[x][y], k) => Has(link'[x][y], k)
      /\ \A x, y \in Directory : link'[x][y] # <<>> => x # y /\ x \in Homed /\ y \in Homed
  BY DEF Fewer, Passed, m
<1>5. Senders'
  <2>1. \A a, c \in Agent : \A n : (Has(up'[a], Join(c, n)) \/ Has(up'[a], Leave(c, n))) => a = c
    BY <1>4 DEF Registered, Senders
  <2> QED BY <1>1, <1>4, <2>1 DEF Senders
<1>6. Joins'
  <2>1. \A a \in Agent : \A n : Has(up'[a], Join(a, n)) => n = vcount[a] /\ ~stopping[a] /\ phase[a] # "out"
    BY <1>4 DEF Registered, Joins
  <2>2. \A x, y \in Directory : \A c \in Agent : \A n :
          Has(link'[x][y], Join(c, n)) => n = vcount[c] /\ ~stopping[c] /\ phase[c] # "out"
    BY <1>3, <1>4 DEF Registered, Joins
  <2> QED BY <2>1, <2>2 DEF Joins
<1>7. Leaves'
  <2>1. \A a \in Agent : \A n : ~stopping[a] => Followed(up'[a], Leave(a, n), Join(a, vcount[a]))
    BY <1>4 DEF Registered, Leaves
  <2>2. \A a \in Agent : \A n : stopping[a] /\ Has(up'[a], Leave(a, n)) => n = vcount[a]
    BY <1>4 DEF Registered, Leaves
  <2>3. \A x, y \in Directory : \A c \in Agent : \A n :
          Has(link'[x][y], Leave(c, n)) => stopping[c] /\ n = vcount[c] /\ Me(c) \notin members'[home[c]]
    <3> SUFFICES ASSUME NEW x \in Directory, NEW y \in Directory, NEW c \in Agent, NEW n, Has(link'[x][y], Leave(c, n))
                 PROVE  stopping[c] /\ n = vcount[c] /\ Me(c) \notin members'[home[c]]
      OBVIOUS
    <3>1. Has(link[x][y], Leave(c, n))
      BY <1>3, <1>4
    <3>2. stopping[c] /\ n = vcount[c] /\ Me(c) \notin members[home[c]]
      BY <3>1 DEF Registered, Leaves
    <3> QED BY <1>2, <1>3, <3>2
  <2> QED BY <1>1, <2>1, <2>2, <2>3 DEF Leaves
<1>8. Known'
  <2> SUFFICES ASSUME NEW a \in Alive, ~stopping[a], ~Has(up'[a], Join(a, vcount[a]))
               PROVE  /\ Me(a) \in members'[home[a]]
                      /\ \A y \in Homed \ {home[a]} : \/ Me(a) \in members'[y]
                                                      \/ Has(link'[home[a]][y], Join(a, vcount[a]))
    BY <1>1 DEF Known
  <2>1. a \in Agent /\ home[a] \in Homed
    BY AliveAgent, HomeHomed
  <2>2. CASE ~Has(up[a], Join(a, vcount[a]))
    <3>1. /\ Me(a) \in members[home[a]]
          /\ \A y \in Homed \ {home[a]} : Me(a) \in members[y] \/ Has(link[home[a]][y], Join(a, vcount[a]))
      BY <2>2 DEF Registered, Known
    <3>2. \A y \in Homed : Has(link[home[a]][y], Join(a, vcount[a])) =>
            Me(a) \in members'[y] \/ Has(link'[home[a]][y], Join(a, vcount[a]))
      <4> SUFFICES ASSUME NEW y \in Homed, Has(link[home[a]][y], Join(a, vcount[a]))
                   PROVE  Me(a) \in members'[y] \/ Has(link'[home[a]][y], Join(a, vcount[a]))
        OBVIOUS
      <4>1. CASE a = b
        BY <1>2, <2>1, <4>1
      <4>2. CASE a # b
        BY <1>2, <1>3, <1>4, <2>1, <4>2
      <4> QED BY <4>1, <4>2
    <3> QED BY <1>2, <2>1, <3>1, <3>2
  <2>3. CASE Has(up[a], Join(a, vcount[a]))
    <3>1. a = b
      BY <1>3, <1>4, <2>1, <2>3
    <3>2. /\ d = home[b]
          /\ \A y \in Homed \ {home[b]} : Me(b) \in members[y] \/ Has(link'[home[b]][y], Join(b, vcount[b]))
      BY <2>3, <3>1
    <3> QED BY <1>2, <2>1, <3>1, <3>2
  <2> QED BY <2>2, <2>3
<1>9. Unknown'
  <2> SUFFICES ASSUME ~OneHomed, NEW a \in Agent, Has(up'[a], Join(a, vcount[a]))
               PROVE  /\ Once(up'[a], Join(a, vcount[a]))
                      /\ \A x \in Homed : Me(a) \notin members'[x]
                      /\ \A x, y \in Directory : ~Has(link'[x][y], Join(a, vcount[a]))
    BY <1>1 DEF Unknown
  <2>1. a # b /\ Has(up[a], Join(a, vcount[a]))
    BY <1>4
  <2>2. /\ Once(up[a], Join(a, vcount[a]))
        /\ \A x \in Homed : Me(a) \notin members[x]
        /\ \A x, y \in Directory : ~Has(link[x][y], Join(a, vcount[a]))
    BY <2>1 DEF Registered, Unknown
  <2>3. \A x \in Homed : Me(a) \notin members'[x]
    BY <1>2, <1>3, <2>1, <2>2
  <2>4. \A x, y \in Directory : ~Has(link'[x][y], Join(a, vcount[a]))
    BY <1>3, <1>4, <2>1, <2>2
  <2> QED BY <1>4, <2>2, <2>3, <2>4
<1>10. Entries'
  <2> SUFFICES ASSUME NEW x \in Homed, NEW k \in members'[x]
               PROVE  /\ phase[k[1]] # "out"
                      /\ k[2] # vcount[k[1]] => ~stopping[k[1]] /\ Has(up'[k[1]], Leave(k[1], k[2]))
    BY <1>1 DEF Entries
  <2>1. CASE k = Me(b)
    <3>1. k[1] = b /\ k[2] = vcount[b]
      BY <2>1 DEF Me
    <3> QED BY <3>1
  <2>2. CASE k \in members[x]
    <3>1. k[1] \in Agent
      BY <1>2, <2>2, MemberPairs DEF Types, DirTypes
    <3>2. /\ phase[k[1]] # "out"
          /\ k[2] # vcount[k[1]] => ~stopping[k[1]] /\ Has(up[k[1]], Leave(k[1], k[2]))
      BY <2>2 DEF Registered, Entries
    <3> QED BY <1>3, <1>4, <3>1, <3>2
  <2> QED BY <1>2, <2>1, <2>2
<1>11. Removed'
  <2>1. ASSUME NEW s \in Agent, NEW x \in Homed \ {home[s]}, stopping[s], Me(s) \in members'[x], Me(s) \notin members'[home[s]]
        PROVE  Has(link'[home[s]][x], Leave(s, vcount[s]))
    <3>1. Me(s) \in members[x] /\ Me(s) \notin members[home[s]]
      BY <1>2, <1>3, <2>1
    <3>2. Has(link[home[s]][x], Leave(s, vcount[s]))
      BY <2>1, <3>1 DEF Registered, Removed
    <3> QED BY <1>2, <1>3, <1>4, <3>2
  <2>2. ASSUME NEW s \in Agent, phase[s] = "gone" PROVE Me(s) \notin members'[home[s]]
    <3>1. s # b /\ Me(s) \notin members[home[s]]
      BY <2>2 DEF Registered, Removed, Lives
    <3> QED BY <1>2, <1>3, <3>1
  <2> QED BY <1>1, <2>1, <2>2 DEF Removed
<1> QED BY <1>5, <1>6, <1>7, <1>8, <1>9, <1>10, <1>11 DEF Registered

(* An entry of an agent is removed: it stops, or it changes its number of  *)
(* virtual agents.                                                         *)
LEMMA RegisteredLeave ==
  ASSUME Types, Lives, Registered, NEW b \in Agent, NEW n \in 1 .. VAgents, NEW d \in Homed,
         UNCHANGED <<phase, vcount, stopping, home>>,
         members' = [members EXCEPT ![d] = members[d] \ {<<b, n>>}],
         Fewer(Leave(b, n)), Passed(Leave(b, n)),
         \/ /\ stopping[b] /\ n = vcount[b] /\ Me(b) \notin members'[home[b]]
            /\ \A y \in Homed \ {home[b]} : Me(b) \in members'[y] => Has(link'[home[b]][y], Leave(b, vcount[b]))
         \/ /\ ~stopping[b] /\ OneHomed /\ Has(up'[b], Join(b, vcount[b]))
            /\ \A x, y \in Directory : ~Has(link'[x][y], Leave(b, n))
  PROVE  Registered'
<1> DEFINE m == Leave(b, n)
<1>1. /\ Homed' = Homed /\ (OneHomed' <=> OneHomed) /\ \A a : Me(a)' = Me(a)
      /\ Alive' = Alive
  BY DEF Homed, OneHomed, Me, Alive
<1>2. /\ \A x \in Homed : members'[x] = IF x = d THEN members[d] \ {<<b, n>>} ELSE members[x]
      /\ \A x \in Homed : members'[x] \subseteq members[x] /\ x \in Directory
      /\ \A a \in Agent : home[a] \in Homed
  BY HomedType, HomeHomed DEF Types, DirTypes
<1>3. /\ \A a, c \in Agent : \A k : m # Join(c, k) /\ (m = Leave(c, k) => c = b /\ k = n) /\ (Me(a) = Me(c) => a = c)
      /\ \A a \in Agent : Me(a) = <<b, n>> => a = b /\ n = vcount[b]
  BY RegisterMessages DEF Me
<1>4. /\ \A a \in Agent : \A k :
           /\ Has(up'[a], k) => Has(up[a], k)
           /\ k # m /\ Has(up[a], k) => Has(up'[a], k)
           /\ Once(up[a], k) => Once(up'[a], k)
           /\ \A l : Followed(up[a], k, l) => Followed(up'[a], k, l)
      /\ \A x, y \in Directory : \A k :
           /\ Has(link'[x][y], k) => Has(link[x][y], k) \/ k = m
           /\ k # m /\ Has(link[x][y], k) => Has(link'[x][y], k)
      /\ \A x, y \in Directory : link'[x][y] # <<>> => x # y /\ x \in Homed /\ y \in Homed
  BY DEF Fewer, Passed, m
<1>5. \/ /\ stopping[b] /\ n = vcount[b] /\ Me(b) \notin members'[home[b]]
         /\ \A y \in Homed \ {home[b]} : Me(b) \in members'[y] => Has(link'[home[b]][y], Leave(b, vcount[b]))
      \/ /\ ~stopping[b] /\ OneHomed /\ Has(up'[b], Join(b, vcount[b]))
         /\ \A x, y \in Directory : ~Has(link'[x][y], m)
  BY DEF m
<1> HIDE DEF m
<1>6. Senders'
  <2>1. \A a, c \in Agent : \A k : (Has(up'[a], Join(c, k)) \/ Has(up'[a], Leave(c, k))) => a = c
    BY <1>4 DEF Registered, Senders
  <2> QED BY <1>1, <1>4, <2>1 DEF Senders
<1>7. Joins'
  <2>1. \A a \in Agent : \A k : Has(up'[a], Join(a, k)) => k = vcount[a] /\ ~stopping[a] /\ phase[a] # "out"
    BY <1>4 DEF Registered, Joins
  <2>2. \A x, y \in Directory : \A c \in Agent : \A k :
          Has(link'[x][y], Join(c, k)) => k = vcount[c] /\ ~stopping[c] /\ phase[c] # "out"
    BY <1>3, <1>4 DEF Registered, Joins
  <2> QED BY <2>1, <2>2 DEF Joins
<1>8. Leaves'
  <2>1. \A a \in Agent : \A k : ~stopping[a] => Followed(up'[a], Leave(a, k), Join(a, vcount[a]))
    BY <1>4 DEF Registered, Leaves
  <2>2. \A a \in Agent : \A k : stopping[a] /\ Has(up'[a], Leave(a, k)) => k = vcount[a]
    BY <1>4 DEF Registered, Leaves
  <2>3. \A x, y \in Directory : \A c \in Agent : \A k :
          Has(link'[x][y], Leave(c, k)) => stopping[c] /\ k = vcount[c] /\ Me(c) \notin members'[home[c]]
    <3> SUFFICES ASSUME NEW x \in Directory, NEW y \in Directory, NEW c \in Agent, NEW k, Has(link'[x][y], Leave(c, k))
                 PROVE  stopping[c] /\ k = vcount[c] /\ Me(c) \notin members'[home[c]]
      OBVIOUS
    <3>1. CASE Leave(c, k) = m
      <4>1. c = b /\ k = n
        BY <1>3, <3>1
      <4> QED BY <1>5, <3>1, <4>1
    <3>2. CASE Leave(c, k) # m
      <4>1. Has(link[x][y], Leave(c, k))
        BY <1>4, <3>2
      <4>2. stopping[c] /\ k = vcount[c] /\ Me(c) \notin members[home[c]]
        BY <4>1 DEF Registered, Leaves
      <4> QED BY <1>2, <4>2
    <3> QED BY <3>1, <3>2
  <2> QED BY <1>1, <2>1, <2>2, <2>3 DEF Leaves
<1>9. Known'
  <2> SUFFICES ASSUME NEW a \in Alive, ~stopping[a], ~Has(up'[a], Join(a, vcount[a]))
               PROVE  /\ Me(a) \in members'[home[a]]
                      /\ \A y \in Homed \ {home[a]} : \/ Me(a) \in members'[y]
                                                      \/ Has(link'[home[a]][y], Join(a, vcount[a]))
    BY <1>1 DEF Known
  <2>1. a \in Agent /\ home[a] \in Homed
    BY AliveAgent, HomeHomed
  <2>2. a # b
    BY <1>5
  <2>3. ~Has(up[a], Join(a, vcount[a]))
    BY <1>3, <1>4, <2>1
  <2>4. /\ Me(a) \in members[home[a]]
        /\ \A y \in Homed \ {home[a]} : Me(a) \in members[y] \/ Has(link[home[a]][y], Join(a, vcount[a]))
    BY <2>3 DEF Registered, Known
  <2>5. \A y \in Homed : Me(a) \in members[y] => Me(a) \in members'[y]
    BY <1>2, <1>3, <2>1, <2>2
  <2>6. \A y \in Homed : Has(link[home[a]][y], Join(a, vcount[a])) => Has(link'[home[a]][y], Join(a, vcount[a]))
    BY <1>2, <1>3, <1>4, <2>1
  <2> QED BY <2>1, <2>4, <2>5, <2>6
<1>10. Unknown'
  <2> SUFFICES ASSUME ~OneHomed, NEW a \in Agent, Has(up'[a], Join(a, vcount[a]))
               PROVE  /\ Once(up'[a], Join(a, vcount[a]))
                      /\ \A x \in Homed : Me(a) \notin members'[x]
                      /\ \A x, y \in Directory : ~Has(link'[x][y], Join(a, vcount[a]))
    BY <1>1 DEF Unknown
  <2>1. Has(up[a], Join(a, vcount[a]))
    BY <1>4
  <2>2. /\ Once(up[a], Join(a, vcount[a]))
        /\ \A x \in Homed : Me(a) \notin members[x]
        /\ \A x, y \in Directory : ~Has(link[x][y], Join(a, vcount[a]))
    BY <2>1 DEF Registered, Unknown
  <2>3. \A x \in Homed : Me(a) \notin members'[x]
    BY <1>2, <2>2
  <2>4. \A x, y \in Directory : ~Has(link'[x][y], Join(a, vcount[a]))
    BY <1>3, <1>4, <2>2
  <2> QED BY <1>4, <2>2, <2>3, <2>4
<1>11. Entries'
  <2> SUFFICES ASSUME NEW x \in Homed, NEW k \in members'[x]
               PROVE  /\ phase[k[1]] # "out"
                      /\ k[2] # vcount[k[1]] => ~stopping[k[1]] /\ Has(up'[k[1]], Leave(k[1], k[2]))
    BY <1>1 DEF Entries
  <2>1. k \in members[x]
    BY <1>2
  <2>2. k[1] \in Agent /\ k = <<k[1], k[2]>>
    BY <1>2, <2>1, MemberPairs DEF Types, DirTypes
  <2>3. /\ phase[k[1]] # "out"
        /\ k[2] # vcount[k[1]] => ~stopping[k[1]] /\ Has(up[k[1]], Leave(k[1], k[2]))
    BY <2>1 DEF Registered, Entries
  <2>4. ASSUME k[2] # vcount[k[1]], Leave(k[1], k[2]) = m PROVE FALSE
    <3>1. k = <<b, n>> /\ k[1] = b
      BY <1>3, <2>2, <2>4
    <3>2. x = d
      BY <1>5, <2>3, <2>4, <3>1 DEF OneHomed
    <3> QED BY <1>2, <3>1, <3>2
  <2> QED BY <1>4, <2>2, <2>3, <2>4
<1>12. Removed'
  <2>1. ASSUME NEW s \in Agent, NEW x \in Homed \ {home[s]}, stopping[s], Me(s) \in members'[x], Me(s) \notin members'[home[s]]
        PROVE  Has(link'[home[s]][x], Leave(s, vcount[s]))
    <3>1. CASE s = b
      BY <1>5, <2>1, <3>1
    <3>2. CASE s # b
      <4>1. Me(s) \in members[x] /\ Me(s) \notin members[home[s]]
        BY <1>2, <1>3, <2>1, <3>2
      <4>2. Has(link[home[s]][x], Leave(s, vcount[s]))
        BY <2>1, <4>1 DEF Registered, Removed
      <4> QED BY <1>2, <1>3, <1>4, <3>2, <4>2
    <3> QED BY <3>1, <3>2
  <2>2. ASSUME NEW s \in Agent, phase[s] = "gone" PROVE Me(s) \notin members'[home[s]]
    <3>1. Me(s) \notin members[home[s]]
      BY <2>2 DEF Registered, Removed
    <3> QED BY <1>2, <3>1
  <2> QED BY <1>1, <2>1, <2>2 DEF Removed
<1> QED BY <1>6, <1>7, <1>8, <1>9, <1>10, <1>11, <1>12 DEF Registered

LEMMA HeadMember ==
  ASSUME Types, Registered, NEW a \in Agent, up[a] # <<>>, Head(up[a]).type \in {"AGENT_JOIN", "AGENT_LEAVE"}
  PROVE  \E n \in 1 .. VAgents :
           /\ Head(up[a]) \in {Join(a, n), Leave(a, n)} /\ Has(up[a], Head(up[a]))
           /\ Head(up[a]).type = "AGENT_JOIN" <=> Head(up[a]) = Join(a, n)
<1> DEFINE m == Head(up[a])
<1>1. m \in UpMessage /\ Has(up[a], m)
  BY TailPlaces, HasTail DEF Types, NetTypes
<1>2. /\ m.member \in Member
      /\ m.type = "AGENT_JOIN" => m = Join(m.member[1], m.member[2])
      /\ m.type = "AGENT_LEAVE" => m = Leave(m.member[1], m.member[2])
  BY <1>1, MarksDistinct
<1>3. m.member[1] \in Agent /\ m.member[2] \in 1 .. VAgents
  BY <1>2, MemberPairs
<1>4. m.member[1] = a
  BY <1>1, <1>2, <1>3 DEF Registered, Senders
<1> HIDE DEF m
<1>5. m \in {Join(a, m.member[2]), Leave(a, m.member[2])}
  BY <1>2, <1>4 DEF m
<1>6. m.type = "AGENT_JOIN" <=> m = Join(a, m.member[2])
  BY <1>5, MarksDistinct
<1> QED BY <1>1, <1>3, <1>5, <1>6 DEF m

LEMMA JoinedBy ==
  ASSUME NEW d, NEW b, NEW n
  PROVE  /\ Changed(d, Join(b, n)) = members[d] \cup {<<b, n>>}
         /\ Changed(d, Leave(b, n)) = members[d] \ {<<b, n>>}
BY DEF Changed, Join, Leave

LEMMA MembersAt ==
  ASSUME Types, NEW d \in Directory, NEW m, NEW net, ChangeMembers(d, m, net)
  PROVE  members' = [members EXCEPT ![d] = Changed(d, m)]
<1>1. /\ \A e \in Directory \ {d} : members'[e] = members[e]
      /\ members'[d] = Changed(d, m)
      /\ members \in [Directory -> SUBSET Member]
  BY ChangeMembersTold DEF Types, DirTypes
<1>2. \/ UNCHANGED members \/ members' = [members EXCEPT ![d] = Changed(d, m)]
  BY DEF ChangeMembers, Changed
<1> QED BY <1>1, <1>2

(* A directory that passes m on.                                           *)
LEMMA PassedOn ==
  ASSUME Types, Registered, NEW d \in Homed, NEW m \in LinkMessage, NEW net \in LinkNet,
         Without(net, m, d), link' = net \/ link' = ToPeers(d, m, net)
  PROVE  /\ Passed(m)
         /\ \A x, y \in Directory : y # d /\ Has(link[x][y], m) => Has(link'[x][y], m)
         /\ link' = ToPeers(d, m, net) => \A y \in Homed \ {d} : Has(link'[d][y], m)
         /\ OneHomed => \A x, y \in Directory : link'[x][y] = <<>>
<1>1. d \in Directory
  BY HomedType
<1>2. /\ \A x, y \in Directory : \A k :
           Has(link'[x][y], k) <=> Has(net[x][y], k) \/ (link' = ToPeers(d, m, net) /\ k = m /\ x = d /\ y # d /\ y \in Homed)
                                                     \/ (link' # net /\ k = m /\ x = d /\ y # d /\ y \in Homed)
      /\ \A x, y \in Directory : link'[x][y] # <<>> => net[x][y] # <<>> \/ (x = d /\ y # d /\ y \in Homed)
  <2>1. CASE link' = ToPeers(d, m, net)
    <3>1. ASSUME NEW x \in Directory, NEW y \in Directory
          PROVE  /\ \A k : Has(ToPeers(d, m, net)[x][y], k)
                             <=> Has(net[x][y], k) \/ (k = m /\ x = d /\ y # d /\ y \in Homed)
                 /\ ToPeers(d, m, net)[x][y] # <<>> => net[x][y] # <<>> \/ (x = d /\ y # d /\ y \in Homed)
      BY <1>1, ToPeersHas
    <3> QED BY <2>1, <3>1
  <2>2. CASE link' = net /\ link' # ToPeers(d, m, net)
    BY <2>2
  <2> QED BY <2>1, <2>2
<1>3. \A x, y \in Directory : link'[x][y] # <<>> => x # y /\ x \in Homed /\ y \in Homed
  BY <1>2 DEF Registered, Senders, Without
<1>4. Passed(m)
  <2>1. ASSUME NEW x \in Directory, NEW y \in Directory, NEW k
        PROVE  /\ Has(link'[x][y], k) => Has(link[x][y], k) \/ k = m
               /\ k # m /\ Has(link[x][y], k) => Has(link'[x][y], k)
    <3>1. Has(net[x][y], k) => Has(link[x][y], k)
      BY DEF Without
    <3>2. Has(link[x][y], k) /\ k # m => Has(net[x][y], k)
      BY DEF Without
    <3>3. Has(net[x][y], k) => Has(link'[x][y], k)
      BY <1>2
    <3>4. Has(link'[x][y], k) => Has(net[x][y], k) \/ k = m
      BY <1>2
    <3> QED BY <3>1, <3>2, <3>3, <3>4
  <2> QED BY <1>3, <2>1 DEF Passed
<1>5. \A x, y \in Directory : y # d /\ Has(link[x][y], m) => Has(link'[x][y], m)
  BY <1>2 DEF Without
<1>6. link' = ToPeers(d, m, net) => \A y \in Homed \ {d} : Has(link'[d][y], m)
  BY <1>1, <1>2, HomedType
<1>7. OneHomed => \A x, y \in Directory : link'[x][y] = <<>>
  BY <1>3 DEF OneHomed
<1> QED BY <1>4, <1>5, <1>6, <1>7

LEMMA ResizingAlone ==
  ASSUME Lives, NoThrow, Undisturbed, NEW a \in Agent, NEW n, ~stopping[a], Has(up[a], Leave(a, n))
  PROVE  OneHomed /\ a \in Alive
<1>1. up[a] # <<>>
  BY DEF Has
<1>2. a \in Alive
  BY <1>1 DEF Lives, NoThrow, Alive
<1> QED BY <1>2 DEF Undisturbed, Busy, Resizing

LEMMA RegisteredFromAgent ==
  ASSUME Types, Lives, Registered, NoThrow, Undisturbed, NEW a \in Agent, FromAgent(a)
  PROVE  Registered'
<1> DEFINE m == Head(up[a])
           d == home[a]
<1>1. /\ up[a] # <<>> /\ m \in UpMessage /\ d \in Directory /\ d \in Homed
      /\ up' = [up EXCEPT ![a] = Tail(up[a])] /\ UNCHANGED <<agentVars, peer, envVars>>
  BY FromAgentCases, HomeHomed
<1>2. /\ UNCHANGED <<phase, vcount, stopping, home>> /\ up[a] \in Seq(UpMessage)
      /\ up'[a] = Tail(up[a]) /\ \A b \in Agent \ {a} : up'[b] = up[b]
  BY <1>1 DEF agentVars, envVars, Types, NetTypes
<1>3. Alive' = Alive
  BY <1>2 DEF Alive
<1>4. CASE m.type \in {"AGENT_JOIN", "AGENT_LEAVE"}
  <2>1. m \in LinkMessage /\ ChangeMembers(d, m, link)
    BY <1>4, FromAgentCases
  <2>2. PICK n \in 1 .. VAgents : /\ m \in {Join(a, n), Leave(a, n)} /\ Has(up[a], m)
                                  /\ m.type = "AGENT_JOIN" <=> m = Join(a, n)
    BY <1>1, <1>4, HeadMember
  <2>3. Fewer(m)
    BY <1>1, FewerPopped
  <2>4. /\ members' = [members EXCEPT ![d] = Changed(d, m)]
        /\ members'[d] # members[d] => link' = ToPeers(d, m, link)
        /\ members'[d] = members[d] => link' = link
    BY <1>1, <2>1, MembersAt, ChangeMembersTold
  <2>5. link \in LinkNet /\ Without(link, m, d)
    BY DEF Types, NetTypes, LinkNet, Without
  <2>6. /\ Passed(m)
        /\ \A x, y \in Directory : y # d /\ Has(link[x][y], m) => Has(link'[x][y], m)
        /\ link' = ToPeers(d, m, link) => \A y \in Homed \ {d} : Has(link'[d][y], m)
        /\ OneHomed => \A x, y \in Directory : link'[x][y] = <<>>
    <3> HIDE DEF m, d
    <3>1. link' = link \/ link' = ToPeers(d, m, link)
      BY <2>4
    <3> QED BY <1>1, <2>1, <2>5, <3>1, PassedOn
  <2> HIDE DEF m, d
  <2>7. CASE m = Join(a, n)
    <3>1. n = vcount[a] /\ ~stopping[a] /\ phase[a] # "out"
      BY <2>2, <2>7 DEF Registered, Joins
    <3>2. <<a, n>> = Me(a) /\ Changed(d, m) = members[d] \cup {Me(a)}
      BY <2>7, <3>1, JoinedBy DEF Me
    <3>3. members' = [members EXCEPT ![d] = members[d] \cup {Me(a)}]
      BY <2>4, <3>2
    <3>4. \A y \in Homed \ {d} : Me(a) \in members[y] \/ Has(link'[d][y], m)
      <4>1. CASE OneHomed
        BY <1>1, <4>1 DEF OneHomed
      <4>2. CASE ~OneHomed
        <5>1. Me(a) \notin members[d]
          BY <1>1, <2>2, <2>7, <3>1, <4>2 DEF Registered, Unknown
        <5>2. members'[d] # members[d]
          BY <1>1, <3>3, <5>1 DEF Types, DirTypes
        <5> QED BY <2>4, <2>6, <5>2
      <4> QED BY <4>1, <4>2
    <3>5. ~OneHomed => ~Has(up'[a], m)
      <4> SUFFICES ASSUME ~OneHomed PROVE ~Has(up'[a], m)
        OBVIOUS
      <4>1. Once(up[a], m)
        BY <2>2, <2>7, <3>1 DEF Registered, Unknown
      <4> QED BY <1>1, <1>2, <4>1, OnceTail DEF m
    <3>6. m = Join(a, vcount[a]) /\ d = home[a]
      BY <2>7, <3>1 DEF d
    <3>7. /\ Fewer(Join(a, vcount[a])) /\ Passed(Join(a, vcount[a]))
          /\ \A x, y \in Directory : y # d /\ Has(link[x][y], Join(a, vcount[a])) => Has(link'[x][y], Join(a, vcount[a]))
          /\ ~OneHomed => ~Has(up'[a], Join(a, vcount[a]))
      BY <2>3, <2>6, <3>5, <3>6
    <3>8. /\ d = home[a]
          /\ \A y \in Homed \ {home[a]} : Me(a) \in members[y] \/ Has(link'[home[a]][y], Join(a, vcount[a]))
      BY <3>4, <3>6
    <3> QED BY <1>1, <1>2, <3>1, <3>3, <3>7, <3>8, RegisteredJoin
  <2>8. CASE m = Leave(a, n)
    <3>1. members' = [members EXCEPT ![d] = members[d] \ {<<a, n>>}]
      <4>1. Changed(d, m) = members[d] \ {<<a, n>>}
        BY <2>8, JoinedBy
      <4> QED BY <2>4, <4>1
    <3>2. CASE stopping[a]
      <4>1. n = vcount[a] /\ <<a, n>> = Me(a)
        BY <2>2, <2>8, <3>2 DEF Registered, Leaves, Me
      <4>2. Me(a) \notin members'[home[a]]
        BY <1>1, <3>1, <4>1 DEF Types, DirTypes, d
      <4>3. ASSUME NEW y \in Homed \ {home[a]}, Me(a) \in members'[y] PROVE Has(link'[home[a]][y], m)
        <5>1. Me(a) \in members[y] /\ y \in Directory
          BY <1>1, <3>1, <4>3, HomedType DEF Types, DirTypes, d
        <5>2. CASE Me(a) \in members[d]
          <6>1. members'[d] # members[d]
            BY <4>2, <5>2 DEF d
          <6> QED BY <2>4, <2>6, <6>1 DEF d
        <5>3. CASE Me(a) \notin members[d]
          <6>1. Has(link[home[a]][y], m)
            BY <2>8, <3>2, <4>1, <5>1, <5>3 DEF Registered, Removed, d
          <6> QED BY <1>1, <2>6, <5>1, <6>1 DEF d
        <5> QED BY <5>2, <5>3
      <4>4. m = Leave(a, vcount[a])
        BY <2>8, <4>1
      <4> QED BY <1>1, <1>2, <2>3, <2>6, <2>8, <3>1, <3>2, <4>1, <4>2, <4>3, <4>4, RegisteredLeave
    <3>3. CASE ~stopping[a]
      <4>1. OneHomed
        BY <2>2, <2>8, <3>3, ResizingAlone
      <4>2. Followed(up[a], m, Join(a, vcount[a]))
        BY <2>8, <3>3 DEF Registered, Leaves
      <4>3. Has(up'[a], Join(a, vcount[a]))
        <5>1. m # Join(a, vcount[a])
          BY <2>8, RegisterMessages
        <5> QED BY <1>1, <1>2, <4>2, <5>1, FollowedTail DEF m
      <4>4. \A x, y \in Directory : ~Has(link'[x][y], m)
        BY <2>6, <4>1, EmptyQueue
      <4> QED BY <1>1, <1>2, <2>3, <2>6, <2>8, <3>1, <3>3, <4>1, <4>3, <4>4, RegisteredLeave
    <3> QED BY <3>2, <3>3
  <2> QED BY <2>2, <2>7, <2>8
<1>5. CASE m.type \notin {"AGENT_JOIN", "AGENT_LEAVE"}
  <2>1. /\ UNCHANGED members
        /\ \/ link' = link
           \/ link' = ToPeers(d, Plain("READY_NV_NE_INT"), link)
    BY <1>5, FromAgentCases
  <2>2. \A b \in Agent : AsBefore(up[b], up'[b])
    <3>1. ~Registers(m)
      BY <1>1, <1>5, RegisterMessages
    <3>2. AsBefore(up[a], up'[a])
      BY <1>1, <1>2, <3>1, AsBeforeTail
    <3> QED BY <1>2, <3>2, AsBeforeSame
  <2>3. \A x, y \in Directory : /\ AsBefore(link[x][y], link'[x][y])
                                /\ link'[x][y] # <<>> => x # y /\ x \in Homed /\ y \in Homed
    <3>1. CASE link' = link
      BY <3>1, AsBeforeSame DEF Registered, Senders
    <3>2. CASE link' = ToPeers(d, Plain("READY_NV_NE_INT"), link)
      <4> DEFINE x == Plain("READY_NV_NE_INT")
      <4>1. x \in LinkMessage /\ link \in LinkNet /\ ~Registers(x)
        BY RegisterMessages DEF LinkMessage, Plain, Types, NetTypes, LinkNet
      <4> HIDE DEF x
      <4>2. ASSUME NEW e \in Directory, NEW f \in Directory
            PROVE  /\ link'[e][f] \in {link[e][f], Append(link[e][f], x)}
                   /\ link'[e][f] # link[e][f] => e = d /\ f # d /\ f \in Homed
        BY <1>1, <3>2, <4>1 DEF ToPeers, LinkNet, x
      <4>3. \A e, f \in Directory : AsBefore(link[e][f], link'[e][f])
        <5> SUFFICES ASSUME NEW e \in Directory, NEW f \in Directory PROVE AsBefore(link[e][f], link'[e][f])
          OBVIOUS
        <5>1. link[e][f] \in Seq(LinkMessage)
          BY <4>1 DEF LinkNet
        <5>2. AsBefore(link[e][f], Append(link[e][f], x))
          BY <4>1, <5>1, AsBeforeAppend
        <5> QED BY <4>2, <5>2, AsBeforeSame
      <4>4. \A e, f \in Directory : link'[e][f] # <<>> => e # f /\ e \in Homed /\ f \in Homed
        BY <1>1, <4>2 DEF Registered, Senders
      <4> QED BY <4>3, <4>4
    <3> QED BY <2>1, <3>1, <3>2
  <2> HIDE DEF m, d
  <2> QED BY <1>2, <1>3, <2>1, <2>2, <2>3, RegisteredSame
<1> QED BY <1>4, <1>5

LEMMA RegisteredFromPeer ==
  ASSUME Types, Lives, Registered, NEW d \in Directory, NEW e \in Directory, FromPeer(d, e)
  PROVE  Registered'
<1> DEFINE m == Head(link[e][d])
           net == PopLink(d, e)
<1>1. /\ link[e][d] # <<>> /\ m \in LinkMessage /\ net \in LinkNet
      /\ UNCHANGED <<agentVars, syncs, sketches, up, down, peer, envVars>>
      /\ \/ m.type = "READY_NV_NE_INT" /\ link' = net /\ UNCHANGED <<members, notify>>
         \/ m.type # "READY_NV_NE_INT" /\ ChangeMembers(d, m, net)
  BY FromPeerCases DEF PopLink
<1>2. UNCHANGED <<phase, vcount, stopping, home, up>> /\ Alive' = Alive
  BY <1>1 DEF agentVars, envVars, Alive
<1>3. d # e /\ d \in Homed /\ e \in Homed /\ ~OneHomed
  BY <1>1 DEF Registered, Senders, OneHomed
<1>4. Without(net, m, d)
  <2>1. link[e][d] # <<>>
    BY <1>1
  <2> QED BY <2>1, PoppedLink
<1>5. Has(link[e][d], m) /\ link[e][d] \in Seq(LinkMessage)
  <2>1. link[e][d] \in Seq(LinkMessage)
    BY DEF Types, NetTypes, LinkNet
  <2> QED BY <1>1, <2>1, HasTail
<1>6. CASE m.type = "READY_NV_NE_INT"
  <2>1. link' = net /\ members' = members
    BY <1>1, <1>6
  <2>2. ~Registers(m)
    BY <1>6 DEF Registers
  <2>3. \A x, y \in Directory : link'[x][y] = IF x = e /\ y = d THEN Tail(link[e][d]) ELSE link[x][y]
    BY <2>1 DEF Types, NetTypes, LinkNet, PopLink
  <2>4. AsBefore(link[e][d], Tail(link[e][d]))
    BY <1>1, <1>5, <2>2, AsBeforeTail
  <2> HIDE DEF m, net
  <2>5. \A x, y \in Directory : AsBefore(link[x][y], link'[x][y])
    BY <2>3, <2>4, AsBeforeSame
  <2>6. \A x, y \in Directory : link'[x][y] # <<>> => x # y /\ x \in Homed /\ y \in Homed
    BY <1>4, <2>1 DEF Registered, Senders, Without
  <2>7. \A b \in Agent : AsBefore(up[b], up'[b])
    BY <1>2, AsBeforeSame
  <2> QED BY <1>2, <2>1, <2>5, <2>6, <2>7, RegisteredSame
<1>7. CASE m.type # "READY_NV_NE_INT"
  <2>1. ChangeMembers(d, m, net)
    BY <1>1, <1>7
  <2>2. m.type \in {"AGENT_JOIN", "AGENT_LEAVE"}
    BY <1>1, <1>7 DEF LinkMessage
  <2> HIDE DEF m, net
  <2>3. /\ m.member[1] \in Agent /\ m.member[2] \in 1 .. VAgents
        /\ m = Join(m.member[1], m.member[2]) \/ m = Leave(m.member[1], m.member[2])
    BY <1>1, <2>2, MarksDistinct, MemberPairs
  <2>4. PICK b \in Agent, n \in 1 .. VAgents : m = Join(b, n) \/ m = Leave(b, n)
    BY <2>3
  <2>5. /\ members' = [members EXCEPT ![d] = Changed(d, m)]
        /\ members'[d] # members[d] => link' = ToPeers(d, m, net)
        /\ members'[d] = members[d] => link' = net
    BY <2>1, MembersAt, ChangeMembersTold
  <2>6. /\ Passed(m)
        /\ \A x, y \in Directory : y # d /\ Has(link[x][y], m) => Has(link'[x][y], m)
    <3>1. link' = net \/ link' = ToPeers(d, m, net)
      BY <2>5
    <3>2. m \in LinkMessage /\ net \in LinkNet /\ d \in Homed
      BY <1>1, <1>3
    <3> QED BY <1>4, <3>1, <3>2, PassedOn
  <2>7. \A k : Fewer(k)
    BY <1>2 DEF Fewer
  <2>8. CASE m = Join(b, n)
    <3>1. n = vcount[b] /\ ~stopping[b] /\ phase[b] # "out"
      BY <1>5, <2>8 DEF Registered, Joins
    <3>2. <<b, n>> = Me(b) /\ m = Join(b, vcount[b])
      BY <2>8, <3>1 DEF Me
    <3>3. Changed(d, m) = members[d] \cup {Me(b)}
      <4>1. Changed(d, m) = members[d] \cup {<<b, n>>}
        BY <2>8, JoinedBy
      <4> QED BY <3>2, <4>1
    <3>4. members' = [members EXCEPT ![d] = members[d] \cup {Me(b)}]
      BY <2>5, <3>3
    <3>5. ~Has(up'[b], Join(b, vcount[b])) /\ ~Has(up[b], Join(b, vcount[b]))
      BY <1>2, <1>3, <1>5, <3>2 DEF Registered, Unknown
    <3>6. /\ Fewer(Join(b, vcount[b])) /\ Passed(Join(b, vcount[b]))
          /\ \A x, y \in Directory : y # d /\ Has(link[x][y], Join(b, vcount[b])) => Has(link'[x][y], Join(b, vcount[b]))
      BY <2>6, <2>7, <3>2
    <3> QED BY <1>2, <1>3, <3>1, <3>4, <3>5, <3>6, RegisteredJoin
  <2>9. CASE m = Leave(b, n)
    <3>1. stopping[b] /\ n = vcount[b] /\ Me(b) \notin members[home[b]] /\ <<b, n>> = Me(b)
      BY <1>5, <2>9 DEF Registered, Leaves, Me
    <3>2. Changed(d, m) = members[d] \ {<<b, n>>}
      BY <2>9, JoinedBy
    <3>3. members' = [members EXCEPT ![d] = members[d] \ {<<b, n>>}]
      BY <2>5, <3>2
    <3>4. \A x \in Homed : members'[x] = IF x = d THEN members[d] \ {Me(b)} ELSE members[x]
      BY <3>1, <3>3, HomedType DEF Types, DirTypes
    <3>5. Me(b) \notin members'[home[b]]
      BY <3>1, <3>4, HomeHomed
    <3>6. ASSUME NEW y \in Homed \ {home[b]}, Me(b) \in members'[y]
          PROVE  Has(link'[home[b]][y], Leave(b, vcount[b]))
      <4>1. y # d /\ Me(b) \in members[y]
        BY <3>4, <3>6
      <4>2. Has(link[home[b]][y], m)
        BY <2>9, <3>1, <4>1 DEF Registered, Removed
      <4>3. y \in Directory /\ home[b] \in Directory
        BY HomedType, HomeHomed
      <4> QED BY <2>6, <2>9, <3>1, <4>1, <4>2, <4>3
    <3> QED BY <1>2, <1>3, <2>6, <2>7, <2>9, <3>1, <3>3, <3>5, <3>6, RegisteredLeave
  <2> QED BY <2>4, <2>8, <2>9
<1> QED BY <1>6, <1>7

(* A step of one agent, which says nothing about its membership.           *)
LEMMA RegisteredLocal ==
  ASSUME Types, Registered, NEW a \in Agent, UNCHANGED <<members, vcount, stopping, home, link>>,
         \A b \in Agent \ {a} : phase'[b] = phase[b] /\ up'[b] = up[b],
         a \in Alive, phase'[a] # "out", phase'[a] = "gone" => Me(a) \notin members[home[a]],
         \/ up'[a] = up[a]
         \/ \E x \in UpMessage : ~Registers(x) /\ up'[a] = Append(up[a], x)
  PROVE  Registered'
<1>1. phase[a] \notin {"out", "gone"}
  BY DEF Alive
<1>2. Alive' \subseteq Alive
  BY DEF Alive
<1>3. AsBefore(up[a], up'[a])
  <2>1. up[a] \in Seq(UpMessage)
    BY DEF Types, NetTypes
  <2>2. CASE up'[a] = up[a]
    BY <2>2, AsBeforeSame
  <2>3. ASSUME NEW x \in UpMessage, ~Registers(x), up'[a] = Append(up[a], x) PROVE AsBefore(up[a], up'[a])
    BY <2>1, <2>3, AsBeforeAppend
  <2> QED BY <2>2, <2>3
<1>4. \A b \in Agent : AsBefore(up[b], up'[b])
  BY <1>3, AsBeforeSame
<1>5. \A d, e \in Directory : AsBefore(link[d][e], link'[d][e])
  BY AsBeforeSame
<1>6. \A d, e \in Directory : link'[d][e] # <<>> => d # e /\ d \in Homed /\ e \in Homed
  BY DEF Registered, Senders
<1>7. \A b \in Agent : /\ phase'[b] = "out" <=> phase[b] = "out"
                       /\ phase'[b] = "gone" => phase[b] = "gone" \/ Me(b) \notin members[home[b]]
  BY <1>1
<1> QED BY <1>2, <1>4, <1>5, <1>6, <1>7, RegisteredSame

LEMMA ToldOne ==
  ASSUME Types, NEW a \in Agent, NEW m \in UpMessage, up' = Tell(a, <<m>>)
  PROVE  /\ up[a] \in Seq(UpMessage) /\ up'[a] = Append(up[a], m) /\ \A b \in Agent \ {a} : up'[b] = up[b]
         /\ \A k : Has(up'[a], k) <=> Has(up[a], k) \/ k = m
<1>1. up[a] \in Seq(UpMessage) /\ up'[a] = Append(up[a], m) /\ \A b \in Agent \ {a} : up'[b] = up[b]
  <2>1. NetTypes
    BY DEF Types
  <2>2. Tell(a, <<m>>) = [up EXCEPT ![a] = Append(up[a], m)]
    BY <2>1, TellOne
  <2> QED BY <2>1, <2>2 DEF NetTypes
<1>2. ASSUME NEW k PROVE Has(up'[a], k) <=> Has(up[a], k) \/ k = m
  <2>1. Has(Append(up[a], m), k) <=> Has(up[a], k) \/ k = m
    BY <1>1, HasAppend
  <2> QED BY <1>1, <2>1
<1> QED BY <1>1, <1>2

LEMMA ToldTwo ==
  ASSUME Types, NEW a \in Agent, NEW m \in UpMessage, NEW n \in UpMessage, up' = Tell(a, <<m, n>>)
  PROVE  /\ up[a] \in Seq(UpMessage) /\ Append(up[a], m) \in Seq(UpMessage)
         /\ up'[a] = Append(Append(up[a], m), n) /\ \A b \in Agent \ {a} : up'[b] = up[b]
         /\ \A k : Has(up'[a], k) <=> Has(up[a], k) \/ k = m \/ k = n
<1>1. up[a] \in Seq(UpMessage) /\ up'[a] = Append(Append(up[a], m), n) /\ \A b \in Agent \ {a} : up'[b] = up[b]
  <2>1. NetTypes
    BY DEF Types
  <2>2. Tell(a, <<m, n>>) = [up EXCEPT ![a] = Append(Append(up[a], m), n)]
    BY <2>1, TellTwo
  <2> QED BY <2>1, <2>2 DEF NetTypes
<1>2. Append(up[a], m) \in Seq(UpMessage)
  BY <1>1, AppendPlaces
<1>3. ASSUME NEW k PROVE Has(up'[a], k) <=> Has(up[a], k) \/ k = m \/ k = n
  <2>1. Has(Append(up[a], m), k) <=> Has(up[a], k) \/ k = m
    BY <1>1, HasAppend
  <2>2. Has(Append(Append(up[a], m), n), k) <=> Has(Append(up[a], m), k) \/ k = n
    BY <1>2, HasAppend
  <2> QED BY <1>1, <2>1, <2>2
<1> QED BY <1>1, <1>2, <1>3

LEMMA MemberMessages ==
  \A b \in Agent : \A n \in 1 .. VAgents : Join(b, n) \in UpMessage /\ Leave(b, n) \in UpMessage
BY MemberPairs DEF Join, Leave, UpMessage

(* An overloaded agent changes its number of virtual agents.               *)
LEMMA RegisteredResize ==
  ASSUME Types, Registered, NEW a \in Agent, a \in Alive, NEW n \in 1 .. VAgents, OneHomed, ~stopping[a],
         \A k : ~Has(up[a], Join(a, k)) /\ ~Has(up[a], Leave(a, k)),
         up' = Tell(a, <<Leave(a, vcount[a]), Join(a, n)>>), vcount' = [vcount EXCEPT ![a] = n],
         phase' = [phase EXCEPT ![a] = "balance"], UNCHANGED <<members, stopping, home, link>>
  PROVE  Registered'
<1> DEFINE l == Leave(a, vcount[a])
           j == Join(a, n)
<1>1. /\ Homed' = Homed /\ OneHomed' /\ vcount'[a] = n /\ \A b \in Agent \ {a} : vcount'[b] = vcount[b]
      /\ phase'[a] = "balance" /\ \A b \in Agent \ {a} : phase'[b] = phase[b]
  BY DEF Homed, OneHomed, Types, AgentTypes
<1>2. Alive' = Alive
  BY <1>1 DEF Alive
<1>3. Me(a)' = <<a, n>> /\ \A b \in Agent \ {a} : Me(b)' = Me(b)
  BY <1>1 DEF Me
<1>4. l \in UpMessage /\ j \in UpMessage
  BY MemberMessages DEF Types, AgentTypes
<1>5. /\ Append(up[a], l) \in Seq(UpMessage)
      /\ up'[a] = Append(Append(up[a], l), j) /\ \A b \in Agent \ {a} : up'[b] = up[b]
      /\ \A k : Has(up'[a], k) <=> Has(up[a], k) \/ k = l \/ k = j
  BY <1>4, ToldTwo
<1>6. /\ \A b, k : (j = Join(b, k) <=> b = a /\ k = n) /\ (l = Leave(b, k) <=> b = a /\ k = vcount[a])
      /\ \A b, k : l # Join(b, k) /\ j # Leave(b, k)
  BY RegisterMessages
<1>7. \A x, y \in Directory : \A k : ~Has(link'[x][y], k)
  <2>1. \A x, y \in Directory : link[x][y] = <<>>
    BY DEF Registered, Senders, OneHomed
  <2> QED BY <2>1, EmptyQueue
<1> HIDE DEF l, j
<1>8. Senders'
  <2>1. ASSUME NEW b \in Agent, NEW c \in Agent, NEW k, Has(up'[b], Join(c, k)) \/ Has(up'[b], Leave(c, k))
        PROVE  b = c
    <3>1. CASE b # a
      BY <1>5, <2>1, <3>1 DEF Registered, Senders
    <3>2. CASE b = a
      BY <1>5, <1>6, <2>1, <3>2 DEF Registered, Senders
    <3> QED BY <3>1, <3>2
  <2> QED BY <1>1, <2>1 DEF Registered, Senders
<1>9. Joins'
  <2>1. ASSUME NEW b \in Agent, NEW k, Has(up'[b], Join(b, k))
        PROVE  k = vcount'[b] /\ ~stopping[b] /\ phase'[b] # "out"
    <3>1. CASE b # a
      BY <1>1, <1>5, <2>1, <3>1 DEF Registered, Joins
    <3>2. CASE b = a
      <4>1. ~Has(up[a], Join(a, k)) /\ Join(a, k) # l
        BY <1>6
      <4>2. Join(a, k) = j
        BY <1>5, <2>1, <3>2, <4>1
      <4>3. k = n
        BY <1>6, <4>2
      <4> QED BY <1>1, <3>2, <4>3
    <3> QED BY <3>1, <3>2
  <2> QED BY <1>7, <2>1 DEF Joins
<1>10. Leaves'
  <2>1. ASSUME NEW b \in Agent, NEW k, ~stopping[b]
        PROVE  Followed(up'[b], Leave(b, k), Join(b, vcount'[b]))
    <3>1. CASE b # a
      BY <1>1, <1>5, <2>1, <3>1 DEF Registered, Leaves
    <3>2. CASE b = a /\ k = vcount[a]
      <4>1. Join(b, vcount'[b]) = j /\ Leave(b, k) = l /\ j # l
        BY <1>1, <1>6, <3>2
      <4> QED BY <1>4, <1>5, <3>2, <4>1, FollowedAppend
    <3>3. CASE b = a /\ k # vcount[a]
      <4>1. ~Has(up'[b], Leave(b, k))
        BY <1>5, <1>6, <3>3
      <4> QED BY <4>1, NotThereFollowed
    <3> QED BY <3>1, <3>2, <3>3
  <2>2. \A b \in Agent : \A k : stopping[b] /\ Has(up'[b], Leave(b, k)) => k = vcount'[b]
    BY <1>1, <1>5 DEF Registered, Leaves
  <2> QED BY <1>7, <2>1, <2>2 DEF Leaves
<1>11. Known'
  <2> SUFFICES ASSUME NEW b \in Alive, ~stopping[b], ~Has(up'[b], Join(b, vcount'[b]))
               PROVE  /\ Me(b)' \in members[home[b]]
                      /\ \A d \in Homed \ {home[b]} : \/ Me(b)' \in members[d]
                                                      \/ Has(link'[home[b]][d], Join(b, vcount'[b]))
    BY <1>1, <1>2 DEF Known
  <2>1. b # a /\ b \in Agent
    <3>1. Has(up'[a], Join(a, vcount'[a]))
      BY <1>1, <1>5, <1>6
    <3> QED BY <3>1, AliveAgent
  <2>2. Me(b) \in members[home[b]]
    BY <1>1, <1>5, <2>1 DEF Registered, Known
  <2>3. \A d \in Homed : d = home[b]
    BY <2>1, HomeHomed DEF OneHomed
  <2> QED BY <1>3, <2>1, <2>2, <2>3
<1>12. Unknown'
  BY <1>1 DEF Unknown
<1>13. Entries'
  <2> SUFFICES ASSUME NEW d \in Homed, NEW k \in members[d]
               PROVE  /\ phase'[k[1]] # "out"
                      /\ k[2] # vcount'[k[1]] => ~stopping[k[1]] /\ Has(up'[k[1]], Leave(k[1], k[2]))
    BY <1>1 DEF Entries
  <2>1. k[1] \in Agent
    BY HomedType, MemberPairs DEF Types, DirTypes
  <2>2. /\ phase[k[1]] # "out"
        /\ k[2] # vcount[k[1]] => ~stopping[k[1]] /\ Has(up[k[1]], Leave(k[1], k[2]))
    BY DEF Registered, Entries
  <2>3. CASE k[1] # a
    BY <1>1, <1>5, <2>1, <2>2, <2>3
  <2>4. CASE k[1] = a
    <3>1. k[2] = vcount[a]
      BY <2>2, <2>4
    <3>2. Leave(k[1], k[2]) = l
      BY <1>6, <2>4, <3>1
    <3> QED BY <1>1, <1>5, <2>4, <3>2
  <2> QED BY <2>3, <2>4
<1>14. Removed'
  <2>1. \A s \in Agent : \A d \in Homed : d = home[s]
    BY HomeHomed DEF OneHomed
  <2>2. ASSUME NEW s \in Agent, phase'[s] = "gone" PROVE Me(s)' \notin members[home[s]]
    <3>1. s # a /\ phase[s] = "gone"
      BY <1>1, <2>2
    <3> QED BY <1>3, <3>1 DEF Registered, Removed
  <2> QED BY <1>1, <2>1, <2>2 DEF Removed
<1> QED BY <1>8, <1>9, <1>10, <1>11, <1>12, <1>13, <1>14 DEF Registered

(* An agent that was told to stop asks to be removed.                      *)
LEMMA RegisteredGoing ==
  ASSUME Types, Registered, NEW a \in Agent, a \in Alive, stopping[a],
         up' = Tell(a, <<Leave(a, vcount[a])>>), phase'[a] \notin {"out", "gone"},
         \A b \in Agent \ {a} : phase'[b] = phase[b], UNCHANGED <<members, vcount, stopping, home, link>>
  PROVE  Registered'
<1> DEFINE l == Leave(a, vcount[a])
<1>1. /\ Homed' = Homed /\ (OneHomed' <=> OneHomed) /\ \A b : Me(b)' = Me(b)
      /\ Alive' \subseteq Alive
  BY DEF Homed, OneHomed, Me, Alive
<1>2. l \in UpMessage
  BY MemberMessages DEF Types, AgentTypes
<1>3. /\ \A b \in Agent \ {a} : up'[b] = up[b]
      /\ \A k : Has(up'[a], k) <=> Has(up[a], k) \/ k = l
  BY <1>2, ToldOne
<1>4. \A b, k : l # Join(b, k) /\ (l = Leave(b, k) <=> b = a /\ k = vcount[a])
  BY RegisterMessages
<1>5. \A k : ~Has(up[a], Join(a, k))
  BY DEF Registered, Joins
<1>6. phase[a] \notin {"out", "gone"}
  BY DEF Alive
<1> HIDE DEF l
<1>7. Senders'
  <2>1. \A b, c \in Agent : \A k : (Has(up'[b], Join(c, k)) \/ Has(up'[b], Leave(c, k))) => b = c
    BY <1>3, <1>4 DEF Registered, Senders
  <2> QED BY <1>1, <2>1 DEF Registered, Senders
<1>8. Joins'
  <2>1. \A b \in Agent : \A k : Has(up'[b], Join(b, k)) => k = vcount[b] /\ ~stopping[b] /\ phase'[b] # "out"
    BY <1>3, <1>4, <1>5 DEF Registered, Joins
  <2>2. \A d, e \in Directory : \A b \in Agent : \A k :
          Has(link[d][e], Join(b, k)) => k = vcount[b] /\ ~stopping[b] /\ phase'[b] # "out"
    BY DEF Registered, Joins
  <2> QED BY <2>1, <2>2 DEF Joins
<1>9. Leaves'
  <2>1. \A b \in Agent : \A k : ~stopping[b] => Followed(up'[b], Leave(b, k), Join(b, vcount[b]))
    BY <1>3 DEF Registered, Leaves
  <2>2. \A b \in Agent : \A k : stopping[b] /\ Has(up'[b], Leave(b, k)) => k = vcount[b]
    BY <1>3, <1>4 DEF Registered, Leaves
  <2>3. \A d, e \in Directory : \A b \in Agent : \A k :
          Has(link[d][e], Leave(b, k)) => stopping[b] /\ k = vcount[b] /\ Me(b) \notin members[home[b]]
    BY DEF Registered, Leaves
  <2> QED BY <1>1, <2>1, <2>2, <2>3 DEF Leaves
<1>10. Known'
  <2> SUFFICES ASSUME NEW b \in Alive, ~stopping[b], ~Has(up'[b], Join(b, vcount[b]))
               PROVE  /\ Me(b) \in members[home[b]]
                      /\ \A d \in Homed \ {home[b]} : Me(b) \in members[d] \/ Has(link[home[b]][d], Join(b, vcount[b]))
    BY <1>1 DEF Known
  <2>1. b # a /\ b \in Agent
    BY AliveAgent
  <2> QED BY <1>3, <2>1 DEF Registered, Known
<1>11. Unknown'
  <2>1. ASSUME ~OneHomed, NEW b \in Agent, Has(up'[b], Join(b, vcount[b]))
        PROVE  /\ Once(up'[b], Join(b, vcount[b]))
               /\ \A d \in Homed : Me(b) \notin members[d]
               /\ \A d, e \in Directory : ~Has(link[d][e], Join(b, vcount[b]))
    <3>1. b # a
      BY <1>3, <1>4, <1>5, <2>1
    <3> QED BY <1>3, <2>1, <3>1 DEF Registered, Unknown
  <2> QED BY <1>1, <2>1 DEF Unknown
<1>12. Entries'
  <2> SUFFICES ASSUME NEW d \in Homed, NEW k \in members[d]
               PROVE  /\ phase'[k[1]] # "out"
                      /\ k[2] # vcount[k[1]] => ~stopping[k[1]] /\ Has(up'[k[1]], Leave(k[1], k[2]))
    BY <1>1 DEF Entries
  <2>1. k[1] \in Agent
    BY HomedType, MemberPairs DEF Types, DirTypes
  <2>2. /\ phase[k[1]] # "out"
        /\ k[2] # vcount[k[1]] => ~stopping[k[1]] /\ Has(up[k[1]], Leave(k[1], k[2]))
    BY DEF Registered, Entries
  <2> QED BY <1>3, <2>1, <2>2
<1>13. Removed'
  <2>1. \A s \in Agent : \A d \in Homed \ {home[s]} :
          stopping[s] /\ Me(s) \in members[d] /\ Me(s) \notin members[home[s]] => Has(link[home[s]][d], Leave(s, vcount[s]))
    BY DEF Registered, Removed
  <2>2. \A s \in Agent : phase'[s] = "gone" => Me(s) \notin members[home[s]]
    BY DEF Registered, Removed
  <2> QED BY <1>1, <2>1, <2>2 DEF Removed
<1> QED BY <1>7, <1>8, <1>9, <1>10, <1>11, <1>12, <1>13 DEF Registered

LEMMA RegisteredStart ==
  ASSUME Types, Lives, Registered, NEW a \in Agent, Start(a)
  PROVE  Registered'
<1> DEFINE j == Join(a, vcount[a])
<1>1. /\ phase[a] = "out" /\ phase' = [phase EXCEPT ![a] = "load"] /\ up' = Tell(a, <<NEED, j>>)
      /\ UNCHANGED <<vcount, stopping, members, link, home>>
  BY DEF Start, NEED, dirVars
<1>2. /\ Homed' = Homed /\ (OneHomed' <=> OneHomed) /\ \A b : Me(b)' = Me(b)
  BY <1>1 DEF Homed, OneHomed, Me
<1>3. phase'[a] = "load" /\ \A b \in Agent \ {a} : phase'[b] = phase[b]
  BY <1>1 DEF Types, AgentTypes
<1>4. \A b : b \in Alive' => b = a \/ b \in Alive
  BY <1>3 DEF Alive
<1>5. NEED \in UpMessage /\ j \in UpMessage
  BY MemberMessages, MarksDistinct DEF Types, AgentTypes
<1>6. /\ up[a] = <<>> /\ ~stopping[a]
  BY <1>1 DEF Lives
<1>7. /\ Append(up[a], NEED) \in Seq(UpMessage) /\ up[a] \in Seq(UpMessage)
      /\ up'[a] = Append(Append(up[a], NEED), j) /\ \A b \in Agent \ {a} : up'[b] = up[b]
      /\ \A k : Has(up'[a], k) <=> Has(up[a], k) \/ k = NEED \/ k = j
  <2> HIDE DEF j
  <2>1. up' = Tell(a, <<NEED, j>>)
    BY <1>1
  <2> QED BY <1>5, <2>1, ToldTwo
<1>8. \A k : ~Has(up[a], k)
  BY <1>6, EmptyQueue
<1>9. \A b, k : /\ NEED # Join(b, k) /\ NEED # Leave(b, k) /\ j # Leave(b, k)
                /\ j = Join(b, k) <=> b = a /\ k = vcount[a]
  BY RegisterMessages
<1> HIDE DEF j
<1>10. Senders'
  <2>1. \A b, c \in Agent : \A k : (Has(up'[b], Join(c, k)) \/ Has(up'[b], Leave(c, k))) => b = c
    <3> SUFFICES ASSUME NEW b \in Agent, NEW c \in Agent, NEW k, Has(up'[b], Join(c, k)) \/ Has(up'[b], Leave(c, k))
                 PROVE  b = c
      OBVIOUS
    <3>1. CASE b = a
      <4>1. Join(c, k) = j \/ Leave(c, k) = j
        BY <1>7, <1>8, <1>9, <3>1
      <4> QED BY <1>9, <3>1, <4>1
    <3>2. CASE b # a
      BY <1>7, <3>2 DEF Registered, Senders
    <3> QED BY <3>1, <3>2
  <2> QED BY <1>1, <1>2, <2>1 DEF Registered, Senders
<1>11. Joins'
  <2>1. \A b \in Agent : \A k : Has(up'[b], Join(b, k)) => k = vcount[b] /\ ~stopping[b] /\ phase'[b] # "out"
    <3> SUFFICES ASSUME NEW b \in Agent, NEW k, Has(up'[b], Join(b, k))
                 PROVE  k = vcount[b] /\ ~stopping[b] /\ phase'[b] # "out"
      OBVIOUS
    <3>1. CASE b = a
      BY <1>3, <1>6, <1>7, <1>8, <1>9, <3>1
    <3>2. CASE b # a
      BY <1>3, <1>7, <3>2 DEF Registered, Joins
    <3> QED BY <3>1, <3>2
  <2>2. \A d, e \in Directory : \A b \in Agent : \A k :
          Has(link[d][e], Join(b, k)) => k = vcount[b] /\ ~stopping[b] /\ phase'[b] # "out"
    BY <1>3 DEF Registered, Joins
  <2> QED BY <1>1, <2>1, <2>2 DEF Joins
<1>12. Leaves'
  <2>1. ASSUME NEW b \in Agent, NEW k, ~stopping[b] PROVE Followed(up'[b], Leave(b, k), Join(b, vcount[b]))
    <3>1. CASE b = a
      <4>1. ~Has(up'[b], Leave(b, k))
        BY <1>7, <1>8, <1>9, <3>1
      <4> QED BY <4>1, NotThereFollowed
    <3>2. CASE b # a
      BY <1>7, <2>1, <3>2 DEF Registered, Leaves
    <3> QED BY <3>1, <3>2
  <2>2. ASSUME NEW b \in Agent, NEW k, stopping[b], Has(up'[b], Leave(b, k)) PROVE k = vcount[b]
    BY <1>6, <1>7, <2>2 DEF Registered, Leaves
  <2>3. \A d, e \in Directory : \A b \in Agent : \A k :
          Has(link[d][e], Leave(b, k)) => stopping[b] /\ k = vcount[b] /\ Me(b) \notin members[home[b]]
    BY DEF Registered, Leaves
  <2> QED BY <1>1, <1>2, <2>1, <2>2, <2>3 DEF Leaves
<1>13. Known'
  <2> SUFFICES ASSUME NEW b \in Alive', ~stopping[b], ~Has(up'[b], Join(b, vcount[b]))
               PROVE  /\ Me(b) \in members[home[b]]
                      /\ \A d \in Homed \ {home[b]} : Me(b) \in members[d] \/ Has(link[home[b]][d], Join(b, vcount[b]))
    BY <1>1, <1>2 DEF Known
  <2>1. b # a
    BY <1>7, <1>9
  <2>2. b \in Alive /\ b \in Agent
    BY <1>4, <2>1, AliveAgent
  <2> QED BY <1>7, <2>1, <2>2 DEF Registered, Known
<1>14. Unknown'
  <2>1. ASSUME ~OneHomed, NEW b \in Agent, Has(up'[b], Join(b, vcount[b]))
        PROVE  /\ Once(up'[b], Join(b, vcount[b]))
               /\ \A d \in Homed : Me(b) \notin members[d]
               /\ \A d, e \in Directory : ~Has(link[d][e], Join(b, vcount[b]))
    <3>1. CASE b = a
      <4>1. j = Join(b, vcount[b])
        BY <1>9, <3>1
      <4>2. Once(up[a], j) /\ ~Has(up[a], j)
        BY <1>8, NotThereFollowed
      <4>3. Once(Append(up[a], NEED), j) /\ ~Has(Append(up[a], NEED), j)
        <5>1. NEED # j
          BY <1>9, <4>1
        <5> QED BY <1>5, <1>7, <4>2, <5>1, OnceAppend, HasAppend
      <4>4. Once(up'[a], j)
        BY <1>5, <1>7, <4>3, OnceAppend
      <4>5. ASSUME NEW d \in Homed PROVE Me(b) \notin members[d]
        <5>1. Me(a)[1] = a
          BY DEF Me
        <5> QED BY <1>1, <3>1, <5>1 DEF Registered, Entries
      <4>6. \A d, e \in Directory : ~Has(link[d][e], Join(b, vcount[b]))
        BY <1>1, <3>1 DEF Registered, Joins
      <4> QED BY <3>1, <4>1, <4>4, <4>5, <4>6
    <3>2. CASE b # a
      BY <1>7, <2>1, <3>2 DEF Registered, Unknown
    <3> QED BY <3>1, <3>2
  <2> QED BY <1>1, <1>2, <2>1 DEF Unknown
<1>15. Entries'
  <2> SUFFICES ASSUME NEW d \in Homed, NEW k \in members[d]
               PROVE  /\ phase'[k[1]] # "out"
                      /\ k[2] # vcount[k[1]] => ~stopping[k[1]] /\ Has(up'[k[1]], Leave(k[1], k[2]))
    BY <1>1, <1>2 DEF Entries
  <2>1. k[1] \in Agent
    BY HomedType, MemberPairs DEF Types, DirTypes
  <2>2. /\ phase[k[1]] # "out"
        /\ k[2] # vcount[k[1]] => ~stopping[k[1]] /\ Has(up[k[1]], Leave(k[1], k[2]))
    BY DEF Registered, Entries
  <2> QED BY <1>1, <1>3, <1>7, <2>1, <2>2
<1>16. Removed'
  <2>1. \A s \in Agent : \A d \in Homed \ {home[s]} :
          stopping[s] /\ Me(s) \in members[d] /\ Me(s) \notin members[home[s]] => Has(link[home[s]][d], Leave(s, vcount[s]))
    BY DEF Registered, Removed
  <2>2. \A s \in Agent : phase'[s] = "gone" => Me(s) \notin members[home[s]]
    BY <1>3 DEF Registered, Removed
  <2> QED BY <1>1, <1>2, <2>1, <2>2 DEF Removed
<1> QED BY <1>10, <1>11, <1>12, <1>13, <1>14, <1>15, <1>16 DEF Registered

(* Nothing is on its way.                                                  *)
LEMMA QuietNothing ==
  ASSUME Quiet
  PROVE  /\ \A a \in Agent : \A k : ~Has(up[a], k) /\ ~Has(down[a], k)
         /\ \A d, e \in Directory : \A k : ~Has(link[d][e], k)
         /\ \A a \in Agent : up[a] = <<>> /\ down[a] = <<>> /\ phase[a] \in {"out", "load", "idle", "gone"}
                             /\ (stopping[a] => phase[a] = "gone") /\ acks[a] = 0
         /\ \A d \in Directory : notify[d] = "no"
         /\ \A a, b \in Agent : peer[a][b] = <<>>
BY EmptyQueue DEF Quiet

LEMMA RegisteredStop ==
  ASSUME Types, Registered, Careful, NEW a \in Agent, Stop(a)
  PROVE  Registered'
<1>1. /\ a \in Alive /\ ~stopping[a] /\ Quiet /\ stopping' = [stopping EXCEPT ![a] = TRUE]
      /\ UNCHANGED <<phase, vcount, members, up, link, home>>
  BY DEF Stop, dirVars, netVars
<1>2. /\ Homed' = Homed /\ (OneHomed' <=> OneHomed) /\ (\A b : Me(b)' = Me(b)) /\ Alive' = Alive
  BY <1>1 DEF Homed, OneHomed, Me, Alive
<1>3. stopping'[a] /\ \A b \in Agent \ {a} : stopping'[b] = stopping[b]
  BY <1>1 DEF Types, AgentTypes
<1>4. /\ \A b \in Agent : \A k : ~Has(up'[b], k)
      /\ \A d, e \in Directory : \A k : ~Has(link'[d][e], k)
  BY <1>1, QuietNothing
<1>5. Senders' /\ Joins' /\ Unknown'
  BY <1>1, <1>2, <1>4 DEF Registered, Senders, Joins, Unknown
<1>6. Leaves'
  BY <1>4, NotThereFollowed DEF Leaves
<1>7. Known'
  <2> SUFFICES ASSUME NEW b \in Alive, ~stopping'[b]
               PROVE  /\ Me(b) \in members[home[b]]
                      /\ \A d \in Homed \ {home[b]} : Me(b) \in members[d] \/ Has(link'[home[b]][d], Join(b, vcount'[b]))
    BY <1>1, <1>2 DEF Known
  <2>1. b \in Agent /\ ~stopping[b]
    BY <1>3, AliveAgent
  <2> QED BY <1>1, <1>4, <2>1 DEF Registered, Known
<1>8. Entries'
  <2> SUFFICES ASSUME NEW d \in Homed, NEW k \in members[d]
               PROVE  /\ phase[k[1]] # "out"
                      /\ k[2] = vcount[k[1]]
    BY <1>1, <1>2 DEF Entries
  <2>1. k[1] \in Agent
    BY HomedType, MemberPairs DEF Types, DirTypes
  <2> QED BY <1>1, <1>4, <2>1 DEF Registered, Entries
<1>9. Removed'
  <2>1. Me(a) \in members[home[a]]
    BY <1>1, <1>4 DEF Registered, Known
  <2>2. ASSUME NEW s \in Agent, NEW d \in Homed \ {home[s]}, stopping'[s], Me(s) \in members[d], Me(s) \notin members[home[s]]
        PROVE  Has(link'[home[s]][d], Leave(s, vcount[s]))
    BY <1>1, <1>3, <2>1, <2>2 DEF Registered, Removed
  <2>3. \A s \in Agent : phase[s] = "gone" => Me(s) \notin members[home[s]]
    BY DEF Registered, Removed
  <2> QED BY <1>1, <1>2, <2>2, <2>3 DEF Removed
<1> QED BY <1>5, <1>6, <1>7, <1>8, <1>9 DEF Registered

Orderly == Course /\ Registered /\ Heard /\ Rounds /\ Parted

(* An agent that is asked to give up virtual agents, or edges, is the only *)
(* business of the operator.                                               *)
LEMMA OrderedAlone ==
  ASSUME Undisturbed, NEW a \in Alive, Busy(a)
  PROVE  OneHomed /\ ~Leaving /\ ~stopping[a]
<1>1. OneHomed /\ ~Leaving
  BY DEF Undisturbed
<1>2. a \in Agent
  BY AliveAgent
<1> QED BY <1>1, <1>2 DEF Leaving

LEMMA HeadOrdered ==
  ASSUME Types, NEW a \in Agent, down[a] # <<>>, Head(down[a]).type \in {"DO_VA", "DO_CS_LB"}
  PROVE  Ordered(down[a])
<1>1. down[a] \in Seq(DownMessage)
  BY DEF Types, NetTypes
<1> QED BY <1>1, DownTail

LEMMA RegisteredRecvVa ==
  ASSUME Types, Accounts, Registered, Commanded, Undisturbed, NEW a \in Agent, RecvVa(a)
  PROVE  Registered'
<1>1. /\ a \in Alive /\ down[a] # <<>> /\ Head(down[a]).type = "DO_VA"
      /\ phase' = [phase EXCEPT ![a] = "balance"]
      /\ UNCHANGED <<view, held, moves, acks, nE, stopping, dirVars, link, peer, envVars>>
      /\ \/ \E n \in 1 .. VAgents :
              /\ up' = Tell(a, <<Leave(a, vcount[a]), Join(a, n)>>)
              /\ vcount' = [vcount EXCEPT ![a] = n]
         \/ UNCHANGED <<up, vcount>>
  BY RecvVaCases
<1>2. Ordered(down[a])
  BY <1>1, HeadOrdered
<1>3. OneHomed /\ ~stopping[a]
  BY <1>1, <1>2, OrderedAlone DEF Busy
<1>4. \A k : ~Has(up[a], Join(a, k)) /\ ~Has(up[a], Leave(a, k))
  BY <1>1, <1>2 DEF Commanded
<1>5. UNCHANGED <<members, stopping, home, link>>
  BY <1>1 DEF dirVars, envVars
<1>6. CASE \E n \in 1 .. VAgents :
              /\ up' = Tell(a, <<Leave(a, vcount[a]), Join(a, n)>>)
              /\ vcount' = [vcount EXCEPT ![a] = n]
  <2> PICK n \in 1 .. VAgents : /\ up' = Tell(a, <<Leave(a, vcount[a]), Join(a, n)>>)
                                /\ vcount' = [vcount EXCEPT ![a] = n]
    BY <1>6
  <2> QED BY <1>1, <1>3, <1>4, <1>5, RegisteredResize
<1>7. CASE UNCHANGED <<up, vcount>>
  <2>1. phase'[a] = "balance" /\ \A b \in Agent \ {a} : phase'[b] = phase[b] /\ up'[b] = up[b]
    BY <1>1, <1>7 DEF Types, AgentTypes
  <2> QED BY <1>1, <1>5, <1>7, <2>1, RegisteredLocal
<1> QED BY <1>1, <1>6, <1>7

LEMMA RegisteredDown ==
  ASSUME Types, Accounts, Registered, Commanded, Undisturbed, NEW a \in Agent, RecvDown(a)
  PROVE  Registered'
<1>1. /\ a \in Alive /\ UNCHANGED <<stopping, dirVars, link, envVars>>
      /\ \A b \in Agent \ {a} : phase'[b] = phase[b] /\ up'[b] = up[b]
      /\ phase'[a] \notin {"out", "gone"}
  BY TakenDown
<1>2. UNCHANGED <<members, stopping, home, link>>
  BY <1>1 DEF dirVars, envVars
<1>3. CASE RecvDirectory(a)
  <2>1. UNCHANGED vcount /\ (up' = Tell(a, <<Plain("SIMPLE_SYNC")>>) \/ up' = up)
    BY <1>3, RecvDirectoryCases
  <2>2. CASE up' = up
    BY <1>1, <1>2, <2>1, <2>2, RegisteredLocal
  <2>3. CASE up' = Tell(a, <<Plain("SIMPLE_SYNC")>>)
    <3>1. Plain("SIMPLE_SYNC") \in UpMessage /\ ~Registers(Plain("SIMPLE_SYNC"))
      BY MarksDistinct, RegisterMessages DEF SYNC
    <3>2. up'[a] = Append(up[a], Plain("SIMPLE_SYNC"))
      BY <2>3, <3>1, ToldOne
    <3> QED BY <1>1, <1>2, <2>1, <3>1, <3>2, RegisteredLocal
  <2> QED BY <2>1, <2>2, <2>3
<1>4. CASE RecvSyncDone(a)
  <2>1. UNCHANGED <<vcount, up>>
    BY <1>4, RecvSyncDoneCases
  <2> QED BY <1>1, <1>2, <2>1, RegisteredLocal
<1>5. CASE RecvVa(a)
  BY <1>5, RegisteredRecvVa
<1>6. CASE RecvCsLb(a)
  <2>1. UNCHANGED vcount /\ up' = Tell(a, <<Plain("CS_UPDATE")>>)
    BY <1>6 DEF RecvCsLb
  <2>2. Plain("CS_UPDATE") \in UpMessage /\ ~Registers(Plain("CS_UPDATE"))
    BY RegisterMessages, MessageTypes, MemberPairs
  <2>3. up'[a] = Append(up[a], Plain("CS_UPDATE"))
    BY <2>1, <2>2, ToldOne
  <2> QED BY <1>1, <1>2, <2>1, <2>2, <2>3, RegisteredLocal
<1> QED BY <1>3, <1>4, <1>5, <1>6 DEF RecvDown

LEMMA RegisteredPeers ==
  ASSUME Types, Registered, NEW a \in Agent, RecvPeers(a)
  PROVE  Registered'
<1>1. PICK b \in Agent : RecvMoves(a, b) \/ RecvAck(a, b)
  BY DEF RecvPeers
<1>2. CASE RecvMoves(a, b)
  <2>1. a \in Alive /\ UNCHANGED <<phase, up, members, vcount, stopping, home, link>>
    BY <1>2 DEF RecvMoves, dirVars, envVars
  <2>2. phase[a] \notin {"out", "gone"}
    BY <2>1 DEF Alive
  <2> QED BY <2>1, <2>2, RegisteredLocal
<1>3. CASE RecvAck(a, b)
  <2>1. /\ a \in Alive /\ UNCHANGED <<members, vcount, stopping, home, link>>
        /\ \/ phase' = [phase EXCEPT ![a] = "idle"] /\ up' = up
           \/ up' = Tell(a, <<Plain("READY_NV_NE")>>) /\ phase' = phase
           \/ up' = up /\ phase' = phase
    BY <1>3 DEF RecvAck, dirVars, envVars
  <2>2. phase[a] \notin {"out", "gone"}
    BY <2>1 DEF Alive
  <2>3. Plain("READY_NV_NE") \in UpMessage /\ ~Registers(Plain("READY_NV_NE"))
    BY RegisterMessages, MessageTypes, MemberPairs
  <2>4. CASE phase' = [phase EXCEPT ![a] = "idle"] /\ up' = up
    <3>1. phase'[a] = "idle" /\ \A c \in Agent \ {a} : phase'[c] = phase[c]
      BY <2>4 DEF Types, AgentTypes
    <3> QED BY <2>1, <2>4, <3>1, RegisteredLocal
  <2>5. CASE up' = Tell(a, <<Plain("READY_NV_NE")>>) /\ phase' = phase
    <3>1. up'[a] = Append(up[a], Plain("READY_NV_NE")) /\ \A c \in Agent \ {a} : up'[c] = up[c]
      BY <2>3, <2>5, ToldOne
    <3> QED BY <2>1, <2>2, <2>3, <2>5, <3>1, RegisteredLocal
  <2>6. CASE up' = up /\ phase' = phase
    BY <2>1, <2>2, <2>6, RegisteredLocal
  <2> QED BY <2>1, <2>4, <2>5, <2>6
<1> QED BY <1>1, <1>2, <1>3

LEMMA RegisteredShutdown ==
  ASSUME Types, Registered, Parted, NEW a \in Agent, Shutdown(a)
  PROVE  Registered'
<1>1. /\ a \in Alive /\ stopping[a] /\ UNCHANGED <<members, vcount, stopping, home, link>>
      /\ \/ nE[a] = 0 /\ phase' = [phase EXCEPT ![a] = "gone"] /\ UNCHANGED up
         \/ /\ phase' = [phase EXCEPT ![a] = IF phase[a] = "load" THEN "idle" ELSE phase[a]]
            /\ up' = Tell(a, <<Leave(a, vcount[a])>>)
  BY DEF Shutdown, dirVars, envVars
<1>2. \A b \in Agent \ {a} : phase'[b] = phase[b]
  BY <1>1 DEF Types, AgentTypes
<1>3. CASE nE[a] = 0 /\ phase' = [phase EXCEPT ![a] = "gone"] /\ UNCHANGED up
  <2>1. phase'[a] = "gone"
    BY <1>3 DEF Types, AgentTypes
  <2>2. Me(a) \notin members[home[a]]
    <3>1. Me(a) \notin view[a]
      BY <1>1, <1>3 DEF Parted, Staying
    <3>2. Dropping(down[a], view[a], members[home[a]], Me(a))
      BY <1>1 DEF Parted, Parting, Parts
    <3> QED BY <3>1, <3>2 DEF Dropping
  <2> QED BY <1>1, <1>2, <1>3, <2>1, <2>2, RegisteredLocal
<1>4. CASE /\ phase' = [phase EXCEPT ![a] = IF phase[a] = "load" THEN "idle" ELSE phase[a]]
           /\ up' = Tell(a, <<Leave(a, vcount[a])>>)
  <2>1. phase'[a] \notin {"out", "gone"}
    BY <1>1, <1>4 DEF Types, AgentTypes, Alive
  <2> QED BY <1>1, <1>2, <1>4, <2>1, RegisteredGoing
<1> QED BY <1>1, <1>3, <1>4

LEMMA RegisteredUntouched ==
  ASSUME Types, Registered, UNCHANGED <<phase, members, vcount, stopping, home, up, link>>
  PROVE  Registered'
<1>1. Alive' = Alive
  BY DEF Alive
<1>2. /\ \A a \in Agent : AsBefore(up[a], up'[a])
      /\ \A d, e \in Directory : AsBefore(link[d][e], link'[d][e])
  BY AsBeforeSame
<1>3. \A d, e \in Directory : link'[d][e] # <<>> => d # e /\ d \in Homed /\ e \in Homed
  BY DEF Registered, Senders
<1> QED BY <1>1, <1>2, <1>3, RegisteredSame

LEMMA RegisteredNext ==
  ASSUME Careful, Orderly, [Next]_vars
  PROVE  Registered'
<1> USE DEF Orderly, Course, Books, Rounds
<1>1. ASSUME NEW a \in Agent, RecvDown(a) PROVE Registered'
  BY <1>1, RegisteredDown
<1>2. ASSUME NEW a \in Agent, RecvPeers(a) PROVE Registered'
  BY <1>2, RegisteredPeers
<1>3. ASSUME NEW a \in Agent, Shutdown(a) PROVE Registered'
  BY <1>3, RegisteredShutdown
<1>4. ASSUME NEW a \in Agent, FromAgent(a) PROVE Registered'
  BY <1>4, RegisteredFromAgent
<1>5. ASSUME NEW d \in Directory, Heartbeat(d) PROVE Registered'
  <2>1. UNCHANGED <<phase, members, vcount, stopping, home, up, link>>
    BY <1>5 DEF Heartbeat, agentVars, envVars
  <2> QED BY <2>1, RegisteredUntouched
<1>6. ASSUME NEW d \in Directory, NEW e \in Directory, FromPeer(d, e) PROVE Registered'
  BY <1>6, RegisteredFromPeer
<1>7. ASSUME NEW a \in Agent, Start(a) PROVE Registered'
  BY <1>7, RegisteredStart
<1>8. ASSUME NEW a \in Agent, Stop(a) PROVE Registered'
  BY <1>8, RegisteredStop
<1>9. ASSUME NEW a \in Agent, RecvUpdateEdge(a) PROVE Registered'
  <2>1. UNCHANGED <<phase, members, vcount, stopping, home, up, link>>
    BY <1>9 DEF RecvUpdateEdge, dirVars, netVars
  <2> QED BY <2>1, RegisteredUntouched
<1>10. CASE Command
  <2>1. UNCHANGED <<phase, members, vcount, stopping, home, up, link>>
    BY <1>10 DEF Command, agentVars, dirVars
  <2> QED BY <2>1, RegisteredUntouched
<1>11. CASE Done \/ UNCHANGED vars
  <2>1. UNCHANGED <<phase, members, vcount, stopping, home, up, link>>
    BY <1>11 DEF Done, vars, agentVars, dirVars, netVars, envVars
  <2> QED BY <2>1, RegisteredUntouched
<1> QED BY <1>1, <1>2, <1>3, <1>4, <1>5, <1>6, <1>7, <1>8, <1>9, <1>10, <1>11 DEF Next

(* An agent has heard of somebody, or will.                                *)
Deaf(a) == view[a] = {} /\ notify[home[a]] = "no" /\ ~Listing(down[a]) /\ ~Has(up[a], NEED)

LEMMA HeardDeaf == Heard <=> \A a \in Alive : Deaf(a) => members[home[a]] = {}
BY DEF Heard, Deaf

LEMMA HeardKept ==
  ASSUME Heard, UNCHANGED home,
         \A a \in Alive' : Deaf(a)' => (a \in Alive /\ Deaf(a) /\ members'[home[a]] = members[home[a]])
                                       \/ members'[home[a]] = {}
  PROVE  Heard'
<1>1. Heard' <=> \A a \in Alive' : Deaf(a)' => members'[home[a]] = {}
  BY DEF Heard, Deaf
<1> HIDE DEF Deaf
<1>2. \A a \in Alive : Deaf(a) => members[home[a]] = {}
  BY HeardDeaf
<1> QED BY <1>1, <1>2

LEMMA HeardDown ==
  ASSUME Types, Accounts, Pipeline, Heard, NEW a \in Agent, RecvDown(a)
  PROVE  Heard'
<1>1. /\ a \in Alive /\ down[a] # <<>> /\ down' = [down EXCEPT ![a] = Tail(down[a])]
      /\ Head(down[a]) \in DownMessage
      /\ UNCHANGED <<stopping, dirVars, link, envVars>>
      /\ \A b \in Agent \ {a} : /\ phase'[b] = phase[b] /\ up'[b] = up[b]
                                /\ view'[b] = view[b] /\ down'[b] = down[b]
      /\ Alive' \subseteq Alive
      /\ IsList(Head(down[a])) =>
           view'[a] = IF Head(down[a]).changed \/ view[a] = {} THEN Head(down[a]).members ELSE view[a]
      /\ ~IsList(Head(down[a])) => view'[a] = view[a]
  BY TakenDown
<1>2. UNCHANGED <<home, members, notify>> /\ down[a] \in Seq(DownMessage) /\ down'[a] = Tail(down[a])
  BY <1>1 DEF dirVars, envVars, Types, NetTypes
<1>3. Has(up[a], NEED) => Has(up'[a], NEED)
  <2>1. \/ up'[a] = up[a]
        \/ \E m \in UpMessage : up' = Tell(a, <<m>>)
        \/ \E n \in 1 .. VAgents : up' = Tell(a, <<Leave(a, vcount[a]), Join(a, n)>>)
    <3>1. CASE RecvDirectory(a)
      <4>1. up' = up \/ up' = Tell(a, <<Plain("SIMPLE_SYNC")>>)
        BY <3>1, RecvDirectoryCases
      <4> QED BY <4>1, MarksDistinct DEF SYNC
    <3>2. CASE RecvSyncDone(a)
      BY <3>2, RecvSyncDoneCases
    <3>3. CASE RecvVa(a)
      BY <3>3, RecvVaCases
    <3>4. CASE RecvCsLb(a)
      <4>1. up' = Tell(a, <<Plain("CS_UPDATE")>>)
        BY <3>4 DEF RecvCsLb
      <4> QED BY <4>1, MessageTypes, MemberPairs
    <3> QED BY <3>1, <3>2, <3>3, <3>4 DEF RecvDown
  <2>2. ASSUME NEW m \in UpMessage, up' = Tell(a, <<m>>), Has(up[a], NEED) PROVE Has(up'[a], NEED)
    BY <2>2, ToldOne
  <2>3. ASSUME NEW n \in 1 .. VAgents, up' = Tell(a, <<Leave(a, vcount[a]), Join(a, n)>>), Has(up[a], NEED)
        PROVE  Has(up'[a], NEED)
    <3>1. Leave(a, vcount[a]) \in UpMessage /\ Join(a, n) \in UpMessage
      BY MemberMessages DEF Types, AgentTypes
    <3> QED BY <2>3, <3>1, ToldTwo
  <2> QED BY <2>1, <2>2, <2>3
<1>4. ASSUME NEW b \in Alive', Deaf(b)'
      PROVE  (b \in Alive /\ Deaf(b) /\ members'[home[b]] = members[home[b]]) \/ members'[home[b]] = {}
  <2>1. b \in Alive /\ b \in Agent
    BY <1>1, AliveAgent
  <2>2. CASE b # a
    BY <1>1, <1>2, <1>4, <2>1, <2>2 DEF Deaf
  <2>3. CASE b = a
    <3>1. view'[a] = {} /\ notify[home[a]] = "no" /\ ~Listing(Tail(down[a])) /\ ~Has(up[a], NEED)
      BY <1>2, <1>3, <1>4, <2>3 DEF Deaf
    <3>2. Listing(down[a]) <=> Listing(Tail(down[a])) \/ IsList(Head(down[a]))
      BY <1>1, <1>2, DownTail
    <3>3. CASE ~IsList(Head(down[a]))
      BY <1>1, <1>2, <2>1, <2>3, <3>1, <3>2, <3>3 DEF Deaf
    <3>4. CASE IsList(Head(down[a]))
      <4>1. InStep(down[a], view[a], notify[home[a]], members[home[a]])
        BY <1>1 DEF Pipeline
      <4>2. /\ Head(down[a]) = down[a][1] /\ Len(down[a]) \in Nat \ {0} /\ DOMAIN down[a] = 1 .. Len(down[a])
            /\ DOMAIN Tail(down[a]) = 1 .. Len(down[a]) - 1
            /\ \A i \in 1 .. Len(down[a]) - 1 : Tail(down[a])[i] = down[a][i + 1]
        BY <1>1, <1>2, TailPlaces
      <4>3. Steady(down[a], 1, Len(down[a]))
        <5> SUFFICES ASSUME NEW k \in DOMAIN down[a], 1 < k, IsList(down[a][k]) PROVE FALSE
          BY DEF Steady
        <5>1. k - 1 \in DOMAIN Tail(down[a]) /\ Tail(down[a])[k - 1] = down[a][k]
          BY <4>2
        <5> QED BY <3>1, <5>1 DEF Listing
      <4>4. down[a][1].members = members[home[a]]
        <5>1. 1 \in DOMAIN down[a]
          BY <4>2
        <5> QED BY <3>1, <3>4, <4>1, <4>2, <4>3, <5>1 DEF InStep
      <4>5. view'[a] = Head(down[a]).members
        BY <1>1, <3>1, <3>4
      <4> QED BY <1>2, <2>3, <3>1, <4>2, <4>4, <4>5
    <3> QED BY <3>3, <3>4
  <2> QED BY <2>2, <2>3
<1> QED BY <1>2, <1>4, HeardKept

LEMMA HeardMembers ==
  ASSUME Types, Heard, NEW d \in Directory, NEW m \in LinkMessage, NEW net, ChangeMembers(d, m, net),
         UNCHANGED <<phase, view, home, down>>, \A a \in Agent : Has(up[a], NEED) => Has(up'[a], NEED)
  PROVE  Heard'
<1>1. /\ \A e \in Directory \ {d} : members'[e] = members[e] /\ notify'[e] = notify[e]
      /\ \/ notify'[d] = "changed" \/ UNCHANGED <<members, notify>>
  BY ChangeMembersTold
<1>2. ASSUME NEW b \in Alive', Deaf(b)'
      PROVE  (b \in Alive /\ Deaf(b) /\ members'[home[b]] = members[home[b]]) \/ members'[home[b]] = {}
  <2>1. b \in Alive /\ b \in Agent
    BY AliveAgent DEF Alive
  <2>2. home[b] \in Directory
    BY <2>1, HomeType
  <2> QED BY <1>1, <1>2, <2>1, <2>2 DEF Deaf
<1> QED BY <1>2, HeardKept

LEMMA HeardFromAgent ==
  ASSUME Types, Heard, NEW a \in Agent, FromAgent(a)
  PROVE  Heard'
<1> DEFINE m == Head(up[a])
           d == home[a]
<1>1. /\ up[a] # <<>> /\ m \in UpMessage /\ d \in Directory
      /\ up' = [up EXCEPT ![a] = Tail(up[a])] /\ UNCHANGED <<agentVars, peer, envVars>>
      /\ \/ /\ m.type \in {"AGENT_JOIN", "AGENT_LEAVE"} /\ m \in LinkMessage
            /\ ChangeMembers(d, m, link)
            /\ UNCHANGED <<syncs, sketches, ready, down>>
         \/ /\ m.type = "NEED_DIRECTORY"
            /\ notify' = [notify EXCEPT ![d] = IF notify[d] = "no" THEN "same" ELSE notify[d]]
            /\ UNCHANGED <<members, down>>
         \/ /\ m.type = "CS_UPDATE"
            /\ notify' = [notify EXCEPT ![d] = "changed"] \/ notify' = notify
            /\ UNCHANGED <<members, down>>
         \/ /\ m.type = "SIMPLE_SYNC"
            /\ notify' = [notify EXCEPT ![d] = "changed"]
            /\ down' = ToAgents(d, Plain("SIMPLE_SYNC_DONE"))
            /\ UNCHANGED members
         \/ /\ m.type \in {"SIMPLE_SYNC", "READY_NV_NE"}
            /\ UNCHANGED <<members, notify, down>>
  BY FromAgentCases
<1>2. UNCHANGED <<phase, view, home>> /\ Alive' = Alive
  BY <1>1 DEF agentVars, envVars, Alive
<1>3. m # NEED => \A b \in Agent : Has(up[b], NEED) => Has(up'[b], NEED)
  <2>1. up[a] \in Seq(UpMessage)
    BY DEF Types, NetTypes
  <2>2. Has(up[a], NEED) <=> m = NEED \/ Has(Tail(up[a]), NEED)
    BY <1>1, <2>1, HasTail
  <2>3. up'[a] = Tail(up[a]) /\ \A b \in Agent \ {a} : up'[b] = up[b]
    BY <1>1 DEF Types, NetTypes
  <2> QED BY <2>2, <2>3
<1>4. m.type # "NEED_DIRECTORY" => m # NEED
  BY MarksDistinct
<1> HIDE DEF m, d
<1>5. CASE m.type \in {"AGENT_JOIN", "AGENT_LEAVE"} /\ m \in LinkMessage /\ ChangeMembers(d, m, link) /\ UNCHANGED down
  BY <1>1, <1>2, <1>3, <1>4, <1>5, HeardMembers
<1>6. CASE /\ m.type = "NEED_DIRECTORY"
           /\ notify' = [notify EXCEPT ![d] = IF notify[d] = "no" THEN "same" ELSE notify[d]]
           /\ UNCHANGED <<members, down>>
  <2>1. notify'[d] # "no" /\ \A e \in Directory \ {d} : notify'[e] = notify[e]
    BY <1>1, <1>6 DEF Types, DirTypes
  <2>2. ASSUME NEW b \in Alive', Deaf(b)'
        PROVE  b \in Alive /\ Deaf(b) /\ members'[home[b]] = members[home[b]]
    <3>1. b \in Alive /\ b \in Agent /\ home[b] \in Directory
      BY <1>2, AliveAgent, HomeType
    <3>2. home[b] # d
      BY <1>2, <2>1, <2>2 DEF Deaf
    <3>3. up'[b] = up[b]
      <4>1. b # a
        BY <3>2 DEF d
      <4> QED BY <1>1, <3>1, <4>1 DEF Types, NetTypes
    <3> QED BY <1>2, <1>6, <2>1, <2>2, <3>1, <3>2, <3>3 DEF Deaf
  <2> QED BY <1>2, <2>2, HeardKept
<1>7. CASE /\ m.type # "NEED_DIRECTORY"
           /\ notify' = [notify EXCEPT ![d] = "changed"] \/ notify' = notify
           /\ \A b \in Agent : Listing(down'[b]) <=> Listing(down[b])
           /\ UNCHANGED members
  <2>1. \A b \in Agent : notify'[home[b]] = "no" => notify[home[b]] = "no"
    <3>1. \A b \in Agent : home[b] \in Directory
      BY HomeType
    <3> QED BY <1>7, <3>1 DEF Types, DirTypes
  <2>2. ASSUME NEW b \in Alive', Deaf(b)'
        PROVE  b \in Alive /\ Deaf(b) /\ members'[home[b]] = members[home[b]]
    <3>1. b \in Alive /\ b \in Agent
      BY <1>2, AliveAgent
    <3> QED BY <1>2, <1>3, <1>4, <1>7, <2>1, <2>2, <3>1 DEF Deaf
  <2> QED BY <1>2, <2>2, HeardKept
<1>8. down' = down \/ down' = ToAgents(d, Plain("SIMPLE_SYNC_DONE")) => \A b \in Agent : Listing(down'[b]) <=> Listing(down[b])
  <2> SUFFICES ASSUME down' = ToAgents(d, Plain("SIMPLE_SYNC_DONE")), NEW b \in Agent
               PROVE  Listing(down'[b]) <=> Listing(down[b])
    OBVIOUS
  <2>1. down'[b] = IF home[b] = d /\ b \in Alive THEN Append(down[b], DONE) ELSE down[b]
    BY <1>1, ToAgentsTold DEF DONE
  <2>2. down[b] \in Seq(DownMessage) /\ DONE \in DownMessage /\ ~IsList(DONE)
    BY MarksDistinct DEF Types, NetTypes, IsList
  <2>3. Listing(Append(down[b], DONE)) <=> Listing(down[b])
    BY <2>2, DownAppend
  <2> QED BY <2>1, <2>3
<1> QED BY <1>1, <1>5, <1>6, <1>7, <1>8

LEMMA HeardFromPeer ==
  ASSUME Types, Heard, NEW d \in Directory, NEW e \in Directory, FromPeer(d, e)
  PROVE  Heard'
<1>1. /\ Head(link[e][d]) \in LinkMessage /\ UNCHANGED <<phase, view, home, up, down>>
      /\ \/ UNCHANGED <<members, notify>>
         \/ ChangeMembers(d, Head(link[e][d]), [link EXCEPT ![e][d] = Tail(link[e][d])])
  BY FromPeerCases DEF agentVars, envVars
<1>2. CASE UNCHANGED <<members, notify>>
  BY <1>1, <1>2 DEF Heard, Alive
<1>3. CASE ChangeMembers(d, Head(link[e][d]), [link EXCEPT ![e][d] = Tail(link[e][d])])
  BY <1>1, <1>3, HeardMembers
<1> QED BY <1>1, <1>2, <1>3

LEMMA HeardHeartbeat ==
  ASSUME Types, Heard, NEW d \in Directory, Heartbeat(d)
  PROVE  Heard'
<1>1. /\ notify' = [notify EXCEPT ![d] = "no"]
      /\ down' = ToAgents(d, Published(d)) /\ Published(d) \in ListMessage
      /\ UNCHANGED <<phase, view, home, members, up>>
  BY HeartbeatCases DEF agentVars, envVars
<1>2. ASSUME NEW b \in Alive', Deaf(b)'
      PROVE  b \in Alive /\ Deaf(b) /\ members'[home[b]] = members[home[b]]
  <2>1. b \in Alive /\ b \in Agent /\ home[b] \in Directory
    BY <1>1, AliveAgent, HomeType DEF Alive
  <2>2. home[b] # d
    <3> SUFFICES ASSUME home[b] = d PROVE FALSE
      OBVIOUS
    <3>1. down'[b] = Append(down[b], Published(d))
      BY <1>1, <2>1, ToAgentsTold
    <3>2. down[b] \in Seq(DownMessage) /\ Published(d) \in DownMessage /\ IsList(Published(d))
      BY <1>1, <2>1 DEF Types, NetTypes, DownMessage, ListMessage, IsList
    <3>3. Listing(Append(down[b], Published(d)))
      BY <3>2, DownAppend
    <3> QED BY <1>2, <3>1, <3>3 DEF Deaf
  <2>3. down'[b] = down[b] /\ notify'[home[b]] = notify[home[b]]
    <3>1. down'[b] = down[b]
      BY <1>1, <2>1, <2>2, ToAgentsTold
    <3> QED BY <1>1, <2>1, <2>2, <3>1 DEF Types, DirTypes
  <2> QED BY <1>1, <1>2, <2>1, <2>3 DEF Deaf
<1> QED BY <1>1, <1>2, HeardKept

LEMMA HeardNext ==
  ASSUME Books, Lives, Pipeline, Heard, [Next]_vars
  PROVE  Heard'
<1> USE DEF Books
<1>1. ASSUME NEW a \in Agent, RecvDown(a) PROVE Heard'
  BY <1>1, HeardDown
<1>2. ASSUME NEW a \in Agent, RecvPeers(a) PROVE Heard'
  <2>1. PICK b \in Agent : RecvMoves(a, b) \/ RecvAck(a, b)
    BY <1>2 DEF RecvPeers
  <2>2. CASE RecvMoves(a, b)
    <3>1. UNCHANGED <<phase, view, home, members, notify, up, down>>
      BY <2>2 DEF RecvMoves, dirVars, envVars
    <3> QED BY <3>1 DEF Heard, Alive
  <2>3. CASE RecvAck(a, b)
    <3>1. /\ a \in Alive /\ UNCHANGED <<view, home, members, notify, down>>
          /\ \/ phase' = [phase EXCEPT ![a] = "idle"] \/ phase' = phase
          /\ \/ up' = up \/ up' = Tell(a, <<Plain("READY_NV_NE")>>)
      BY <2>3 DEF RecvAck, dirVars, envVars
    <3>2. Alive' \subseteq Alive
      BY <3>1 DEF Alive, Types, AgentTypes
    <3>3. \A c \in Agent : Has(up[c], NEED) => Has(up'[c], NEED)
      <4>1. Plain("READY_NV_NE") \in UpMessage
        BY MessageTypes, MemberPairs
      <4>2. CASE up' = Tell(a, <<Plain("READY_NV_NE")>>)
        <5>1. \A c \in Agent \ {a} : up'[c] = up[c]
          BY <4>1, <4>2, ToldOne
        <5>2. \A k : Has(up'[a], k) <=> Has(up[a], k) \/ k = Plain("READY_NV_NE")
          BY <4>1, <4>2, ToldOne
        <5> QED BY <5>1, <5>2
      <4> QED BY <3>1, <4>2
    <3> QED BY <3>1, <3>2, <3>3, AliveAgent DEF Heard
  <2> QED BY <2>1, <2>2, <2>3
<1>3. ASSUME NEW a \in Agent, Shutdown(a) PROVE Heard'
  <2>1. /\ a \in Alive /\ UNCHANGED <<view, home, members, notify, down, vcount>>
        /\ up' = up \/ up' = Tell(a, <<Leave(a, vcount[a])>>)
        /\ \A b \in Agent \ {a} : phase'[b] = phase[b]
    BY <1>3 DEF Shutdown, dirVars, envVars, Types, AgentTypes
  <2>2. Alive' \subseteq Alive
    BY <2>1 DEF Alive
  <2>3. \A c \in Agent : Has(up[c], NEED) => Has(up'[c], NEED)
    <3>1. Leave(a, vcount[a]) \in UpMessage
      BY MemberMessages DEF Types, AgentTypes
    <3>2. CASE up' = Tell(a, <<Leave(a, vcount[a])>>)
      <4>1. \A c \in Agent \ {a} : up'[c] = up[c]
        BY <3>1, <3>2, ToldOne
      <4>2. \A k : Has(up'[a], k) <=> Has(up[a], k) \/ k = Leave(a, vcount[a])
        BY <3>1, <3>2, ToldOne
      <4> QED BY <4>1, <4>2
    <3> QED BY <2>1, <3>2
  <2> QED BY <2>1, <2>2, <2>3, AliveAgent DEF Heard
<1>4. ASSUME NEW a \in Agent, FromAgent(a) PROVE Heard'
  BY <1>4, HeardFromAgent
<1>5. ASSUME NEW d \in Directory, Heartbeat(d) PROVE Heard'
  BY <1>5, HeardHeartbeat
<1>6. ASSUME NEW d \in Directory, NEW e \in Directory, FromPeer(d, e) PROVE Heard'
  BY <1>6, HeardFromPeer
<1>7. ASSUME NEW a \in Agent, Start(a) PROVE Heard'
  <2>1. /\ phase' = [phase EXCEPT ![a] = "load"] /\ up' = Tell(a, <<NEED, Join(a, vcount[a])>>)
        /\ UNCHANGED <<view, home, members, notify, down>>
    BY <1>7 DEF Start, dirVars, NEED
  <2>2. Alive' \subseteq Alive \cup {a}
    BY <2>1 DEF Alive, Types, AgentTypes
  <2>3. NEED \in UpMessage /\ Join(a, vcount[a]) \in UpMessage
    BY MarksDistinct, MemberMessages DEF Types, AgentTypes
  <2>4. Has(up'[a], NEED)
    BY <2>1, <2>3, ToldTwo
  <2>5. \A c \in Agent \ {a} : up'[c] = up[c]
    BY <2>1, <2>3, ToldTwo
  <2> QED BY <2>1, <2>2, <2>4, <2>5, AliveAgent DEF Heard
<1>8. ASSUME NEW a \in Agent, Stop(a) PROVE Heard'
  <2>1. UNCHANGED <<phase, view, home, members, notify, up, down>>
    BY <1>8 DEF Stop, dirVars, netVars
  <2> QED BY <2>1 DEF Heard, Alive
<1>9. ASSUME NEW a \in Agent, RecvUpdateEdge(a) PROVE Heard'
  <2>1. UNCHANGED <<phase, view, home, members, notify, up, down>>
    BY <1>9 DEF RecvUpdateEdge, dirVars, netVars
  <2> QED BY <2>1 DEF Heard, Alive
<1>10. CASE Command
  <2>1. UNCHANGED <<phase, view, home, members, notify, up>>
    BY <1>10 DEF Command, agentVars, dirVars
  <2>2. PICK c \in Commands : Order(c) \in DownMessage /\ \A b \in Agent : down'[b] = IF b \in Alive THEN Append(down[b], Order(c)) ELSE down[b]
    BY <1>10, CommandCases
  <2>3. \A b \in Agent : Listing(down[b]) => Listing(down'[b])
    <3> SUFFICES ASSUME NEW b \in Agent, Listing(down[b]) PROVE Listing(Append(down[b], Order(c)))
      BY <2>2
    <3> QED BY <2>2, DownAppend DEF Types, NetTypes
  <2> QED BY <2>1, <2>3, AliveAgent DEF Heard, Alive
<1>11. CASE Done \/ UNCHANGED vars
  <2>1. UNCHANGED <<phase, view, home, members, notify, up, down>>
    BY <1>11 DEF Done, vars, agentVars, dirVars, netVars, envVars
  <2> QED BY <2>1 DEF Heard, Alive
<1> QED BY <1>1, <1>2, <1>3, <1>4, <1>5, <1>6, <1>7, <1>8, <1>9, <1>10, <1>11 DEF Next

-----------------------------------------------------------------------------
(* The lists an agent has or will get come from its directory.             *)

ListsOf(q, v) == {v} \cup {q[i].members : i \in {j \in DOMAIN q : IsList(q[j])}}

LEMMA SeenLists == \A a : Seen(a) = ListsOf(down[a], view[a])
BY DEF Seen, ListsOf

LEMMA ListsAppend ==
  ASSUME NEW q \in Seq(DownMessage), NEW x \in DownMessage, NEW v, NEW l, l \in ListsOf(Append(q, x), v)
  PROVE  l \in ListsOf(q, v) \/ (IsList(x) /\ l = x.members)
<1>1. /\ Len(q) \in Nat /\ DOMAIN q = 1 .. Len(q)
      /\ DOMAIN Append(q, x) = 1 .. Len(q) + 1
      /\ \A i \in 1 .. Len(q) : Append(q, x)[i] = q[i]
      /\ Append(q, x)[Len(q) + 1] = x
  BY AppendPlaces
<1>2. CASE l = v
  BY <1>2 DEF ListsOf
<1>3. CASE \E i \in DOMAIN Append(q, x) : IsList(Append(q, x)[i]) /\ l = Append(q, x)[i].members
  <2> PICK i \in DOMAIN Append(q, x) : IsList(Append(q, x)[i]) /\ l = Append(q, x)[i].members
    BY <1>3
  <2>1. CASE i = Len(q) + 1
    BY <1>1, <2>1
  <2>2. CASE i \in DOMAIN q
    <3>1. Append(q, x)[i] = q[i]
      BY <1>1, <2>2
    <3> QED BY <2>2, <3>1 DEF ListsOf
  <2> QED BY <1>1, <2>1, <2>2
<1> QED BY <1>2, <1>3 DEF ListsOf

LEMMA ListsTail ==
  ASSUME NEW q \in Seq(DownMessage), q # <<>>, NEW v, NEW w, w = v \/ (IsList(Head(q)) /\ w = Head(q).members),
         NEW l, l \in ListsOf(Tail(q), w)
  PROVE  l \in ListsOf(q, v)
<1>1. /\ Head(q) = q[1] /\ Len(q) \in Nat \ {0} /\ DOMAIN q = 1 .. Len(q)
      /\ DOMAIN Tail(q) = 1 .. Len(q) - 1
      /\ \A i \in 1 .. Len(q) - 1 : Tail(q)[i] = q[i + 1]
  BY TailPlaces
<1>2. CASE l = w
  <2>1. 1 \in DOMAIN q
    BY <1>1
  <2> QED BY <1>1, <1>2, <2>1 DEF ListsOf
<1>3. CASE \E i \in DOMAIN Tail(q) : IsList(Tail(q)[i]) /\ l = Tail(q)[i].members
  <2> PICK i \in DOMAIN Tail(q) : IsList(Tail(q)[i]) /\ l = Tail(q)[i].members
    BY <1>3
  <2>1. i + 1 \in DOMAIN q /\ Tail(q)[i] = q[i + 1]
    BY <1>1
  <2> QED BY <2>1 DEF ListsOf
<1> QED BY <1>2, <1>3 DEF ListsOf

(* The new lists of a step.                                                *)
SeenAfter(a) == IF a \in Alive THEN Seen(a) \cup {members[home[a]]} ELSE {{}}

(* What an agent that runs has from its directory, and what is on its way. *)
Taken(a) ==
  /\ down[a] # <<>> /\ down'[a] = Tail(down[a])
  /\ IsList(Head(down[a])) =>
       view'[a] = IF Head(down[a]).changed \/ view[a] = {} THEN Head(down[a]).members ELSE view[a]
  /\ ~IsList(Head(down[a])) => view'[a] = view[a]
Put(a) ==
  /\ view'[a] = view[a]
  /\ \/ down'[a] = down[a]
     \/ \E x \in DownMessage : down'[a] = Append(down[a], x) /\ (IsList(x) => x.members = members[home[a]])

LEMMA TakenOrPut ==
  ASSUME Types, Accounts, [Next]_vars
  PROVE  \A a \in Agent : Taken(a) \/ Put(a)
<1> DEFINE G == \A a \in Agent : Taken(a) \/ Put(a)
<1> SUFFICES G
  OBVIOUS
<1>0. ASSUME UNCHANGED <<view, down>> PROVE G
  BY <1>0 DEF Put
<1>1. ASSUME NEW a \in Agent, RecvDown(a) PROVE G
  <2>1. /\ down[a] # <<>> /\ down' = [down EXCEPT ![a] = Tail(down[a])]
        /\ \A b \in Agent \ {a} : view'[b] = view[b] /\ down'[b] = down[b]
        /\ IsList(Head(down[a])) =>
             view'[a] = IF Head(down[a]).changed \/ view[a] = {} THEN Head(down[a]).members ELSE view[a]
        /\ ~IsList(Head(down[a])) => view'[a] = view[a]
    BY <1>1, TakenDown
  <2>2. down'[a] = Tail(down[a])
    BY <2>1 DEF Types, NetTypes
  <2>3. Taken(a)
    BY <2>1, <2>2 DEF Taken
  <2>4. \A b \in Agent \ {a} : Put(b)
    BY <2>1 DEF Put
  <2> QED BY <2>3, <2>4
<1>2. ASSUME NEW a \in Agent, RecvPeers(a) PROVE G
  BY <1>0, <1>2 DEF RecvPeers, RecvMoves, RecvAck
<1>3. ASSUME NEW a \in Agent, Shutdown(a) \/ Start(a) \/ Stop(a) \/ RecvUpdateEdge(a) PROVE G
  BY <1>0, <1>3 DEF Shutdown, Start, Stop, RecvUpdateEdge, netVars
<1>4. ASSUME NEW a \in Agent, FromAgent(a) PROVE G
  <2>1. /\ UNCHANGED agentVars /\ home[a] \in Directory
        /\ down' = down \/ down' = ToAgents(home[a], Plain("SIMPLE_SYNC_DONE"))
    BY <1>4, FromAgentCases
  <2>2. UNCHANGED view
    BY <2>1 DEF agentVars
  <2>3. DONE \in DownMessage /\ ~IsList(DONE)
    BY MarksDistinct DEF IsList
  <2>4. ASSUME NEW b \in Agent PROVE down'[b] = down[b] \/ down'[b] = Append(down[b], DONE)
    <3>1. down' = down \/ down' = ToAgents(home[a], DONE)
      BY <2>1 DEF DONE
    <3>2. ToAgents(home[a], DONE)[b] = IF home[b] = home[a] /\ b \in Alive THEN Append(down[b], DONE) ELSE down[b]
      BY <2>1, ToAgentsTold
    <3> QED BY <3>1, <3>2
  <2> QED BY <2>2, <2>3, <2>4 DEF Put
<1>5. ASSUME NEW d \in Directory, Heartbeat(d) PROVE G
  <2>1. down' = ToAgents(d, Published(d)) /\ Published(d) \in ListMessage /\ UNCHANGED agentVars
    BY <1>5, HeartbeatCases
  <2>2. UNCHANGED view
    BY <2>1 DEF agentVars
  <2>3. Published(d) \in DownMessage /\ Published(d).members = members[d]
    BY <2>1 DEF DownMessage, Published
  <2>4. ASSUME NEW b \in Agent
        PROVE  \/ down'[b] = down[b]
               \/ down'[b] = Append(down[b], Published(d)) /\ Published(d).members = members[home[b]]
    <3>1. ToAgents(d, Published(d))[b] = IF home[b] = d /\ b \in Alive THEN Append(down[b], Published(d)) ELSE down[b]
      BY ToAgentsTold
    <3> QED BY <2>1, <2>3, <3>1
  <2> QED BY <2>2, <2>3, <2>4 DEF Put
<1>6. ASSUME NEW d \in Directory, NEW e \in Directory, FromPeer(d, e) PROVE G
  BY <1>0, <1>6 DEF FromPeer, agentVars
<1>7. CASE Command
  <2>1. UNCHANGED view
    BY <1>7 DEF Command, agentVars
  <2>2. PICK c \in Commands : Order(c) \in DownMessage /\ \A b \in Agent : down'[b] = IF b \in Alive THEN Append(down[b], Order(c)) ELSE down[b]
    BY <1>7, CommandCases
  <2>3. ~IsList(Order(c))
    BY DEF IsList, Order, Plain
  <2> QED BY <2>1, <2>2, <2>3 DEF Put
<1>8. CASE Done \/ UNCHANGED vars
  BY <1>0, <1>8 DEF Done, vars, agentVars, netVars
<1> HIDE DEF G
<1> QED BY <1>1, <1>2, <1>3, <1>4, <1>5, <1>6, <1>7, <1>8 DEF Next

LEMMA RunningNext ==
  ASSUME Types, Lives, [Next]_vars
  PROVE  /\ home' = home
         /\ \A a \in Alive' : a \in Alive \/ (~stopping[a] /\ phase[a] = "out")
<1> SUFFICES home' = home /\ \A a \in Agent : phase'[a] \notin {"out", "gone", "thrown"} => a \in Alive \/ phase[a] = "out"
  BY DEF Alive, Lives
<1>1. home' = home
  <2>1. ASSUME NEW a \in Agent, RecvDown(a) PROVE home' = home
    BY <2>1 DEF RecvDown, RecvDirectory, RecvSyncDone, RecvVa, RecvCsLb, envVars
  <2>2. ASSUME NEW a \in Agent, RecvPeers(a) PROVE home' = home
    BY <2>2 DEF RecvPeers, RecvMoves, RecvAck, envVars
  <2>3. ASSUME NEW a \in Agent, Shutdown(a) \/ FromAgent(a) \/ Start(a) \/ Stop(a) \/ RecvUpdateEdge(a) PROVE home' = home
    BY <2>3 DEF Shutdown, FromAgent, Start, Stop, RecvUpdateEdge, envVars
  <2>4. ASSUME NEW d \in Directory, NEW e \in Directory, Heartbeat(d) \/ FromPeer(d, e) PROVE home' = home
    BY <2>4 DEF Heartbeat, FromPeer, envVars
  <2>5. CASE Command \/ Done \/ UNCHANGED vars
    BY <2>5 DEF Command, Done, vars, envVars
  <2> QED BY <2>1, <2>2, <2>3, <2>4, <2>5 DEF Next
<1> DEFINE G == \A a \in Agent : phase'[a] \notin {"out", "gone", "thrown"} => a \in Alive \/ phase[a] = "out"
<1>2. G
  <2>0. ASSUME NEW a \in Agent, a \in Alive \/ phase[a] = "out", \A b \in Agent \ {a} : phase'[b] = phase[b] PROVE G
    BY <2>0 DEF Alive
  <2>1. ASSUME NEW a \in Agent, RecvDown(a) PROVE G
    <3>1. a \in Alive /\ \A b \in Agent \ {a} : phase'[b] = phase[b]
      BY <2>1 DEF RecvDown, RecvDirectory, RecvSyncDone, RecvVa, RecvCsLb, MoveAway, Types, AgentTypes
    <3> HIDE DEF G
    <3> QED BY <2>0, <3>1
  <2>2. ASSUME NEW a \in Agent, RecvPeers(a) PROVE G
    <3>1. a \in Alive /\ \A b \in Agent \ {a} : phase'[b] = phase[b]
      BY <2>2 DEF RecvPeers, RecvMoves, RecvAck, Types, AgentTypes
    <3> HIDE DEF G
    <3> QED BY <2>0, <3>1
  <2>3. ASSUME NEW a \in Agent, Shutdown(a) \/ Start(a) PROVE G
    <3>1. (a \in Alive \/ phase[a] = "out") /\ \A b \in Agent \ {a} : phase'[b] = phase[b]
      BY <2>3 DEF Shutdown, Start, Types, AgentTypes
    <3> HIDE DEF G
    <3> QED BY <2>0, <3>1
  <2>4. ASSUME UNCHANGED phase PROVE G
    BY <2>4 DEF Alive
  <2>5. ASSUME NEW a \in Agent, FromAgent(a) \/ Stop(a) \/ RecvUpdateEdge(a) PROVE G
    <3>1. UNCHANGED phase
      BY <2>5 DEF FromAgent, Stop, RecvUpdateEdge, agentVars
    <3> HIDE DEF G
    <3> QED BY <2>4, <3>1
  <2>6. ASSUME NEW d \in Directory, NEW e \in Directory, Heartbeat(d) \/ FromPeer(d, e) PROVE G
    <3>1. UNCHANGED phase
      BY <2>6 DEF Heartbeat, FromPeer, agentVars
    <3> HIDE DEF G
    <3> QED BY <2>4, <3>1
  <2>7. CASE Command \/ Done \/ UNCHANGED vars
    <3>1. UNCHANGED phase
      BY <2>7 DEF Command, Done, vars, agentVars
    <3> HIDE DEF G
    <3> QED BY <2>4, <3>1
  <2> HIDE DEF G
  <2> QED BY <2>1, <2>2, <2>3, <2>5, <2>6, <2>7 DEF Next
<1> QED BY <1>1, <1>2

LEMMA StartsDown ==
  ASSUME Types, [Next]_vars, NEW a \in Agent, a \notin Alive, a \in Alive'
  PROVE  down'[a] = down[a]
<1>1. ASSUME NEW b \in Agent, RecvDown(b) PROVE down'[a] = down[a]
  BY <1>1 DEF RecvDown, RecvDirectory, RecvSyncDone, RecvVa, RecvCsLb, Types, NetTypes
<1>2. ASSUME NEW b \in Agent, RecvPeers(b) \/ Shutdown(b) \/ Start(b) \/ Stop(b) \/ RecvUpdateEdge(b) PROVE down'[a] = down[a]
  BY <1>2 DEF RecvPeers, RecvMoves, RecvAck, Shutdown, Start, Stop, RecvUpdateEdge, netVars
<1>3. ASSUME NEW b \in Agent, FromAgent(b) PROVE down'[a] = down[a]
  BY <1>3, FromAgentCases, ToAgentsTold
<1>4. ASSUME NEW d \in Directory, NEW e \in Directory, Heartbeat(d) \/ FromPeer(d, e) PROVE down'[a] = down[a]
  BY <1>4, HeartbeatCases, ToAgentsTold DEF FromPeer
<1>5. CASE Command
  BY <1>5, CommandCases
<1>6. CASE Done \/ UNCHANGED vars
  BY <1>6 DEF Done, vars, netVars
<1> QED BY <1>1, <1>2, <1>3, <1>4, <1>5, <1>6 DEF Next

LEMMA SeenNext ==
  ASSUME Types, Accounts, Lives, [Next]_vars
  PROVE  \A a \in Alive' : Seen(a)' \subseteq SeenAfter(a)
<1> SUFFICES ASSUME NEW a \in Alive', NEW l \in Seen(a)' PROVE l \in SeenAfter(a)
  OBVIOUS
<1>1. a \in Agent /\ (a \in Alive \/ phase[a] = "out")
  BY RunningNext DEF Alive
<1>2. Taken(a) \/ Put(a)
  BY <1>1, TakenOrPut
<1>3. l \in ListsOf(down'[a], view'[a])
  BY DEF Seen, ListsOf
<1>4. down[a] \in Seq(DownMessage)
  BY <1>1 DEF Types, NetTypes
<1>5. CASE Taken(a)
  <2>1. l \in ListsOf(down[a], view[a])
    BY <1>3, <1>4, <1>5, ListsTail DEF Taken
  <2>2. a \in Alive
    BY <1>1, <1>5 DEF Taken, Lives
  <2> QED BY <2>1, <2>2, SeenLists DEF SeenAfter
<1>6. CASE Put(a)
  <2>1. l \in ListsOf(down[a], view[a]) \/ l = members[home[a]]
    <3>1. CASE down'[a] = down[a]
      BY <1>3, <1>6, <3>1 DEF Put
    <3>2. ASSUME NEW x \in DownMessage, down'[a] = Append(down[a], x), IsList(x) => x.members = members[home[a]]
          PROVE  l \in ListsOf(down[a], view[a]) \/ l = members[home[a]]
      <4>1. l \in ListsOf(Append(down[a], x), view[a])
        BY <1>3, <1>6, <3>2 DEF Put
      <4> QED BY <1>4, <3>2, <4>1, ListsAppend
    <3> QED BY <1>6, <3>1, <3>2 DEF Put
  <2>2. CASE a \in Alive
    BY <2>1, <2>2, SeenLists DEF SeenAfter
  <2>3. CASE a \notin Alive
    <3>1. view[a] = {} /\ down[a] = <<>> /\ phase[a] = "out"
      BY <1>1, <2>3 DEF Lives
    <3>2. ListsOf(down[a], view[a]) = {{}}
      BY <3>1 DEF ListsOf
    <3>3. down'[a] = down[a]
      <4>1. a \in Alive' /\ phase'[a] # phase[a]
        BY <3>1 DEF Alive
      <4> QED BY <1>1, <2>3, <4>1, StartsDown
    <3>4. l = {}
      BY <1>3, <1>6, <3>2, <3>3 DEF Put
    <3> QED BY <2>3, <3>4 DEF SeenAfter
  <2> QED BY <2>2, <2>3
<1> QED BY <1>2, <1>5, <1>6

(* Who is added to a list runs and was not told to stop; who is removed    *)
(* was, or changes its number of virtual agents.                           *)
Enters(m) == \E b \in Alive : ~stopping[b] /\ m = Me(b)
Exits(m) == (\E b \in Agent : stopping[b] /\ m = Me(b)) \/ (\E b \in Alive : Busy(b))
MembersMove ==
  \A d \in Directory : /\ \A m \in members'[d] : m \in members[d] \/ Enters(m)
                       /\ \A m \in members[d] : m \in members'[d] \/ Exits(m)

LEMMA MembersStep ==
  ASSUME Types, Lives, NoThrow, NEW d \in Directory, NEW b \in Agent, NEW n, NEW m, NEW net,
         m \in {Join(b, n), Leave(b, n)}, ChangeMembers(d, m, net),
         m = Join(b, n) => n = vcount[b] /\ ~stopping[b] /\ phase[b] # "out",
         m = Leave(b, n) => (stopping[b] /\ n = vcount[b]) \/ \E c \in Alive : Busy(c)
  PROVE  MembersMove
<1>1. members' = [members EXCEPT ![d] = Changed(d, m)]
  BY MembersAt
<1>2. members'[d] = Changed(d, m) /\ \A e \in Directory \ {d} : members'[e] = members[e]
  BY <1>1 DEF Types, DirTypes
<1>3. CASE m = Join(b, n)
  <2>1. Changed(d, Join(b, n)) = members[d] \cup {<<b, n>>}
    BY JoinedBy
  <2>2. b \in Alive /\ ~stopping[b] /\ <<b, n>> = Me(b)
    <3>1. phase[b] \notin {"out", "gone", "thrown"}
      BY <1>3 DEF Lives, NoThrow
    <3> QED BY <1>3, <3>1 DEF Alive, Me
  <2> QED BY <1>2, <1>3, <2>1, <2>2 DEF MembersMove, Enters
<1>4. CASE m = Leave(b, n)
  <2>1. Changed(d, Leave(b, n)) = members[d] \ {<<b, n>>}
    BY JoinedBy
  <2>2. Exits(<<b, n>>)
    BY <1>4 DEF Exits, Me
  <2> QED BY <1>2, <1>4, <2>1, <2>2 DEF MembersMove
<1> QED BY <1>3, <1>4

LEMMA MembersNext ==
  ASSUME Types, Lives, Registered, NoThrow, Undisturbed, [Next]_vars
  PROVE  MembersMove
<1>1. ASSUME UNCHANGED members PROVE MembersMove
  BY <1>1 DEF MembersMove
<1>2. ASSUME NEW a \in Agent, FromAgent(a) PROVE MembersMove
  <2> DEFINE m == Head(up[a])
  <2>1. /\ up[a] # <<>> /\ m \in UpMessage /\ home[a] \in Directory
        /\ \/ m.type \in {"AGENT_JOIN", "AGENT_LEAVE"} /\ ChangeMembers(home[a], m, link)
           \/ UNCHANGED members
    BY <1>2, FromAgentCases
  <2>2. CASE m.type \in {"AGENT_JOIN", "AGENT_LEAVE"} /\ ChangeMembers(home[a], m, link)
    <3>1. PICK n \in 1 .. VAgents : m \in {Join(a, n), Leave(a, n)} /\ Has(up[a], m)
      BY <2>1, <2>2, HeadMember
    <3>2. m = Join(a, n) => n = vcount[a] /\ ~stopping[a] /\ phase[a] # "out"
      BY <3>1 DEF Registered, Joins
    <3>3. m = Leave(a, n) => (stopping[a] /\ n = vcount[a]) \/ \E c \in Alive : Busy(c)
      <4> SUFFICES ASSUME m = Leave(a, n), ~(stopping[a] /\ n = vcount[a]) PROVE \E c \in Alive : Busy(c)
        OBVIOUS
      <4>1. Has(up[a], Leave(a, n))
        BY <3>1
      <4>2. ~stopping[a]
        BY <4>1 DEF Registered, Leaves
      <4>3. a \in Alive
        BY <4>1, <4>2, ResizingAlone
      <4> QED BY <4>1, <4>2, <4>3 DEF Busy, Resizing
    <3> HIDE DEF m
    <3> QED BY <2>1, <2>2, <3>1, <3>2, <3>3, MembersStep
  <2> QED BY <1>1, <2>1, <2>2
<1>3. ASSUME NEW d \in Directory, NEW e \in Directory, FromPeer(d, e) PROVE MembersMove
  <2> DEFINE m == Head(link[e][d])
  <2>1. /\ link[e][d] # <<>> /\ m \in LinkMessage
        /\ \/ UNCHANGED members
           \/ m.type # "READY_NV_NE_INT" /\ ChangeMembers(d, m, [link EXCEPT ![e][d] = Tail(link[e][d])])
    BY <1>3, FromPeerCases
  <2>2. CASE m.type # "READY_NV_NE_INT" /\ ChangeMembers(d, m, [link EXCEPT ![e][d] = Tail(link[e][d])])
    <3>1. m.type \in {"AGENT_JOIN", "AGENT_LEAVE"}
      BY <2>1, <2>2 DEF LinkMessage
    <3>2. PICK b \in Agent, n \in 1 .. VAgents : m \in {Join(b, n), Leave(b, n)}
      <4>1. m \in {Join(m.member[1], m.member[2]), Leave(m.member[1], m.member[2])} /\ m.member \in Member
        BY <2>1, <3>1, MarksDistinct
      <4> QED BY <4>1, MemberPairs
    <3>3. Has(link[e][d], m)
      <4>1. Has(link[e][d], m) <=> Head(link[e][d]) = m \/ Has(Tail(link[e][d]), m)
        BY <2>1, HasTail DEF Types, NetTypes
      <4> QED BY <4>1
    <3>4. m = Join(b, n) => n = vcount[b] /\ ~stopping[b] /\ phase[b] # "out"
      BY <3>3 DEF Registered, Joins
    <3>5. m = Leave(b, n) => stopping[b] /\ n = vcount[b]
      BY <3>3 DEF Registered, Leaves
    <3> HIDE DEF m
    <3> QED BY <2>2, <3>2, <3>4, <3>5, MembersStep
  <2> QED BY <1>1, <2>1, <2>2
<1>4. ASSUME NEW a \in Agent, RecvDown(a) PROVE MembersMove
  BY <1>1, <1>4 DEF RecvDown, RecvDirectory, RecvSyncDone, RecvVa, RecvCsLb, dirVars
<1>5. ASSUME NEW a \in Agent, RecvPeers(a) PROVE MembersMove
  BY <1>1, <1>5 DEF RecvPeers, RecvMoves, RecvAck, dirVars
<1>6. ASSUME NEW a \in Agent, Shutdown(a) \/ Start(a) \/ Stop(a) \/ RecvUpdateEdge(a) PROVE MembersMove
  BY <1>1, <1>6 DEF Shutdown, Start, Stop, RecvUpdateEdge, dirVars
<1>7. ASSUME NEW d \in Directory, Heartbeat(d) PROVE MembersMove
  BY <1>1, <1>7 DEF Heartbeat
<1>8. CASE Command \/ Done \/ UNCHANGED vars
  BY <1>1, <1>8 DEF Command, Done, vars, dirVars
<1> QED BY <1>2, <1>3, <1>4, <1>5, <1>6, <1>7, <1>8 DEF Next

(* Who is on no list and does not run is on none later.                    *)
LEMMA ListedSeen ==
  \A s : Listed(s) <=> \/ \E d \in Homed : \E m \in members[d] : m[1] = s
                       \/ \E a \in Alive : \E l \in Seen(a) : \E m \in l : m[1] = s
<1> SUFFICES ASSUME NEW s
             PROVE  (\E a \in Alive : \/ \E m \in view[a] : m[1] = s
                                      \/ \E u \in ToSet(down[a]) : u.type = "DIRECTORY_UPDATE" /\ \E m \in u.members : m[1] = s)
                    <=> \E a \in Alive : \E l \in Seen(a) : \E m \in l : m[1] = s
  BY DEF Listed
<1>1. ASSUME NEW a \in Alive
      PROVE  (\/ \E m \in view[a] : m[1] = s
              \/ \E u \in ToSet(down[a]) : u.type = "DIRECTORY_UPDATE" /\ \E m \in u.members : m[1] = s)
             <=> \E l \in Seen(a) : \E m \in l : m[1] = s
  BY DEF Seen, IsList, ToSet
<1> QED BY <1>1

LEMMA PartsFewer ==
  ASSUME Orderly, [Next]_vars, NEW s \in Agent, stopping[s], s \in Alive' \/ Listed(s)'
  PROVE  Parts(s)
<1> USE DEF Orderly, Course, Books, Rounds
<1>1. /\ home' = home
      /\ \A a \in Alive' : a \in Alive \/ (~stopping[a] /\ phase[a] = "out")
  BY RunningNext
<1>2. \A a \in Alive' : Seen(a)' \subseteq SeenAfter(a)
  BY SeenNext
<1>3. MembersMove
  BY MembersNext
<1>4. Homed' = Homed
  BY <1>1 DEF Homed
<1>5. CASE s \in Alive'
  BY <1>1, <1>5 DEF Parts
<1>6. CASE Listed(s)'
  <2>0. Listed(s) => Parts(s)
    BY DEF Parts
  <2>1. \/ \E d \in Homed' : \E m \in members'[d] : m[1] = s
        \/ \E a \in Alive' : \E l \in Seen(a)' : \E m \in l : m[1] = s
    BY <1>6 DEF Listed, Seen, ToSet, IsList
  <2>2. ASSUME NEW d \in Homed, NEW m \in members'[d], m[1] = s PROVE Listed(s)
    <3>1. d \in Directory
      BY HomedType
    <3>2. ~Enters(m)
      BY <2>2 DEF Enters, Me
    <3>3. m \in members[d]
      BY <1>3, <3>1, <3>2 DEF MembersMove
    <3> QED BY <2>2, <3>3 DEF Listed
  <2>3. ASSUME NEW a \in Alive', NEW l \in Seen(a)', NEW m \in l, m[1] = s PROVE Listed(s)
    <3>1. l \in SeenAfter(a)
      BY <1>2
    <3>2. a \in Alive /\ (l \in Seen(a) \/ l = members[home[a]])
      BY <2>3, <3>1 DEF SeenAfter
    <3>3. home[a] \in Homed
      BY <3>2, AliveAgent, HomeHomed
    <3> QED BY <2>3, <3>2, <3>3, ListedSeen
  <2> QED BY <1>4, <2>0, <2>1, <2>2, <2>3
<1> QED BY <1>5, <1>6

-----------------------------------------------------------------------------
(* At rest.                                                                *)

Running == {Me(a) : a \in Alive}

LEMMA Calm ==
  ASSUME Orderly, Quiet
  PROVE  /\ \A d \in Homed : members[d] = Running
         /\ \A a \in Alive : view[a] = Running /\ Seen(a) = {Running} /\ ~stopping[a] /\ Me(a) \in Running
         /\ ~Leaving
<1> USE DEF Orderly, Course, Books, Rounds
<1>1. /\ \A a \in Agent : \A k : ~Has(up[a], k)
      /\ \A d, e \in Directory : \A k : ~Has(link[d][e], k)
      /\ \A a \in Agent : up[a] = <<>> /\ down[a] = <<>> /\ (stopping[a] => phase[a] = "gone")
      /\ \A d \in Directory : notify[d] = "no"
  BY QuietNothing
<1>2. ASSUME NEW a \in Alive
      PROVE  a \in Agent /\ ~stopping[a] /\ \A d \in Homed : Me(a) \in members[d]
  <2>1. a \in Agent /\ ~stopping[a]
    BY <1>1, AliveAgent
  <2>2. home[a] \in Homed /\ \A d \in Homed : d \in Directory
    BY <2>1, HomeHomed, HomedType
  <2> QED BY <1>1, <2>1, <2>2 DEF Registered, Known
<1>3. ASSUME NEW d \in Homed, NEW m \in members[d]
      PROVE  m[1] \in Alive /\ m = Me(m[1])
  <2>1. d \in Directory /\ m[1] \in Agent /\ m = <<m[1], m[2]>>
    BY HomedType, MemberPairs DEF Types, DirTypes
  <2>2. phase[m[1]] # "out" /\ m[2] = vcount[m[1]]
    BY <1>1, <2>1 DEF Registered, Entries
  <2>3. m = Me(m[1])
    BY <2>1, <2>2 DEF Me
  <2>4. phase[m[1]] # "gone"
    <3> SUFFICES ASSUME phase[m[1]] = "gone" PROVE FALSE
      OBVIOUS
    <3>1. stopping[m[1]] /\ Me(m[1]) \notin members[home[m[1]]]
      BY <2>1 DEF Lives, Registered, Removed
    <3>2. home[m[1]] \in Directory
      BY <2>1, HomeType
    <3>3. Me(m[1]) \in members[d] /\ d # home[m[1]]
      BY <2>3, <3>1
    <3>4. Has(link[home[m[1]]][d], Leave(m[1], vcount[m[1]]))
      BY <2>1, <3>1, <3>3 DEF Registered, Removed
    <3> QED BY <1>1, <2>1, <3>2, <3>4
  <2> QED BY <2>1, <2>2, <2>3, <2>4 DEF Alive, NoThrow
<1>4. \A d \in Homed : members[d] = Running
  BY <1>2, <1>3 DEF Running
<1>5. ASSUME NEW a \in Alive
      PROVE  view[a] = Running /\ Seen(a) = {Running} /\ ~stopping[a] /\ Me(a) \in Running
  <2>1. a \in Agent /\ home[a] \in Homed /\ home[a] \in Directory
    BY AliveAgent, HomeHomed, HomeType
  <2>2. Me(a) \in Running
    BY DEF Running
  <2>3. view[a] \in {{}, members[home[a]]}
    <3>1. InStep(<<>>, view[a], "no", members[home[a]])
      BY <1>1, <2>1 DEF Pipeline
    <3>2. Steady(<<>>, 0, Len(<<>>))
      BY DEF Steady
    <3> QED BY <3>1, <3>2 DEF InStep
  <2>4. view[a] # {}
    <3>1. ~Listing(down[a]) /\ ~Has(up[a], NEED) /\ notify[home[a]] = "no"
      BY <1>1, <2>1, DownEmpty
    <3> QED BY <1>4, <2>1, <2>2, <3>1 DEF Heard
  <2>5. Seen(a) = {view[a]}
    BY <1>1, <2>1 DEF Seen
  <2> QED BY <1>2, <1>4, <2>1, <2>2, <2>3, <2>4, <2>5
<1>6. ~Leaving
  <2> SUFFICES ASSUME NEW b \in Agent, stopping[b], b \in Alive \/ Listed(b) PROVE FALSE
    BY DEF Leaving
  <2>1. b \notin Alive
    BY <1>5
  <2>2. \A m \in Running : m[1] \in Alive
    BY DEF Running, Me
  <2>3. \A a \in Alive : \A l \in Seen(a) : l = Running
    BY <1>5
  <2> QED BY <1>4, <2>1, <2>2, <2>3, ListedSeen
<1> QED BY <1>4, <1>5, <1>6

LEMMA OrderlyLists == ASSUME Orderly PROVE NoThrow /\ ListsExact
BY Calm DEF Orderly, Rounds, ListsExact, Running, Me

-----------------------------------------------------------------------------
(* An agent that is told to stop.                                          *)

LEMMA PartsLeaving == Leaving <=> \E s \in Agent : Parts(s)
BY DEF Leaving, Parts

LEMMA PartsAlone ==
  ASSUME Undisturbed, NEW s \in Agent, Parts(s)
  PROVE  \A a \in Alive : ~Busy(a)
BY PartsLeaving DEF Undisturbed

(* What the steps do while an agent leaves.                                *)
LEMMA StopAlone ==
  ASSUME Orderly, Careful, NEW s \in Agent, Parts(s), [Next]_vars
  PROVE  /\ UNCHANGED <<stopping, vcount, home>>
         /\ \A a \in Agent : a \in Alive <=> a \in Alive' \/ (a \in Alive /\ stopping[a])
         /\ ~Command /\ \A a \in Agent : ~Start(a) /\ ~Stop(a)
<1> USE DEF Orderly, Course, Books, Rounds
<1>0. Leaving /\ ~Quiet /\ \A a \in Alive : ~Busy(a)
  BY Calm, PartsLeaving, PartsAlone
<1>1. ~Command /\ \A a \in Agent : ~Start(a) /\ ~Stop(a)
  BY <1>0 DEF Command, Start, Stop
<1> DEFINE G == /\ UNCHANGED <<stopping, vcount, home>>
                /\ \A a \in Agent : a \in Alive <=> a \in Alive' \/ (a \in Alive /\ stopping[a])
<1>2. G
  <2>1. ASSUME NEW a \in Agent, RecvDown(a) PROVE G
    <3>1. /\ a \in Alive /\ UNCHANGED <<stopping, home>> /\ down[a] # <<>>
          /\ \A b \in Agent \ {a} : phase'[b] = phase[b] /\ vcount'[b] = vcount[b]
          /\ phase'[a] \notin {"out", "gone"}
      BY <2>1, TakenDown DEF envVars
    <3>2. phase'[a] # "thrown"
      <4>1. Head(down[a]) = DONE => Has(down[a], DONE)
        BY <3>1, HasTail DEF Types, NetTypes
      <4>2. ~RecvSyncDone(a)
        <5>1. RecvSyncDone(a) => Head(down[a]) = DONE
          BY <3>1, TakenDown, MarksDistinct, <2>1 DEF RecvSyncDone
        <5> QED BY <1>0, <3>1, <4>1, <5>1 DEF Busy
      <4>3. ~RecvVa(a) /\ ~RecvCsLb(a)
        BY <1>0, <3>1, HeadOrdered DEF Busy, RecvVa, RecvCsLb
      <4>4. RecvDirectory(a)
        BY <2>1, <4>2, <4>3 DEF RecvDown
      <4>5. phase[a] \in Phase /\ phase[a] # "thrown" /\ Head(down[a]).members \in SUBSET Member
        BY <3>1, <4>4, RecvDirectoryCases DEF Types, AgentTypes, Alive
      <4>6. phase' = phase \/ phase' = [phase EXCEPT ![a] = "hold"] \/ MoveAway(a, Head(down[a]).members, phase[a])
        BY <4>4, RecvDirectoryCases
      <4>7. MoveAway(a, Head(down[a]).members, phase[a]) => phase'[a] \in {"moving", phase[a]}
        BY <4>5, MoveAwayLeaves
      <4> QED BY <4>5, <4>6, <4>7 DEF Types, AgentTypes
    <3>3. vcount' = vcount
      <4>1. ~RecvVa(a)
        BY <1>0, <3>1, HeadOrdered DEF Busy, RecvVa
      <4> QED BY <2>1, <4>1 DEF RecvDown, RecvDirectory, RecvSyncDone, RecvCsLb
    <3>4. \A b \in Agent : b \in Alive <=> b \in Alive'
      BY <3>1, <3>2 DEF Alive
    <3> HIDE DEF Alive
    <3> QED BY <3>1, <3>3, <3>4
  <2>2. ASSUME NEW a \in Agent, RecvPeers(a) PROVE G
    <3>1. /\ a \in Alive /\ UNCHANGED <<stopping, home, vcount>>
          /\ phase' = [phase EXCEPT ![a] = "idle"] \/ phase' = phase
      BY <2>2 DEF RecvPeers, RecvMoves, RecvAck, envVars
    <3>2. \A b \in Agent : b \in Alive <=> b \in Alive'
      BY <3>1 DEF Alive, Types, AgentTypes
    <3> QED BY <3>1, <3>2
  <2>3. ASSUME NEW a \in Agent, Shutdown(a) PROVE G
    <3>1. /\ a \in Alive /\ stopping[a] /\ UNCHANGED <<stopping, home, vcount>>
          /\ \A b \in Agent \ {a} : phase'[b] = phase[b]
      BY <2>3 DEF Shutdown, envVars, Types, AgentTypes
    <3>2. \A b \in Agent \ {a} : b \in Alive <=> b \in Alive'
      BY <3>1 DEF Alive
    <3> QED BY <3>1, <3>2
  <2>4. ASSUME UNCHANGED <<phase, stopping, vcount, home>> PROVE G
    BY <2>4 DEF Alive
  <2>5. ASSUME NEW a \in Agent, FromAgent(a) \/ RecvUpdateEdge(a) PROVE G
    <3>1. UNCHANGED <<phase, stopping, vcount, home>>
      BY <2>5 DEF FromAgent, RecvUpdateEdge, agentVars, envVars
    <3> HIDE DEF G
    <3> QED BY <2>4, <3>1
  <2>6. ASSUME NEW d \in Directory, NEW e \in Directory, Heartbeat(d) \/ FromPeer(d, e) PROVE G
    <3>1. UNCHANGED <<phase, stopping, vcount, home>>
      BY <2>6 DEF Heartbeat, FromPeer, agentVars, envVars
    <3> HIDE DEF G
    <3> QED BY <2>4, <3>1
  <2>7. CASE Done \/ UNCHANGED vars
    <3>1. UNCHANGED <<phase, stopping, vcount, home>>
      BY <2>7 DEF Done, vars, agentVars, envVars
    <3> HIDE DEF G
    <3> QED BY <2>4, <3>1
  <2> HIDE DEF G
  <2> QED BY <1>1, <2>1, <2>2, <2>3, <2>5, <2>6, <2>7 DEF Next
<1> QED BY <1>1, <1>2

LEMMA StopFull ==
  ASSUME Orderly, Careful, NEW s \in Agent, Parts(s), [Next]_vars
  PROVE  /\ Full(s)' = Full(s) /\ Me(s)' = Me(s) /\ Lists(s)' = Lists(s)
         /\ \A a \in Alive' : a \in Alive
         /\ \A m \in Full(s) : m = Me(m[1]) /\ (m # Me(s) => m[1] \in Alive)
         /\ \A a \in Alive : stopping[a] => a = s
<1> USE DEF Orderly, Course, Books, Rounds
<1>1. /\ UNCHANGED <<stopping, vcount, home>>
      /\ \A a \in Agent : a \in Alive <=> a \in Alive' \/ (a \in Alive /\ stopping[a])
  BY StopAlone
<1>2. \A a \in Alive : stopping[a] => a = s
  BY AliveAgent DEF Parted, Alone, Parts
<1>3. Alive' \cup {s} = Alive \cup {s}
  BY <1>1, <1>2 DEF Alive
<1>4. \A a : Me(a)' = Me(a)
  BY <1>1 DEF Me
<1>5. Full(s)' = Full(s)
  BY <1>3, <1>4 DEF Full
<1>6. \A m \in Full(s) : m = Me(m[1]) /\ (m # Me(s) => m[1] \in Alive)
  BY DEF Full, Me
<1> QED BY <1>1, <1>2, <1>4, <1>5, <1>6 DEF Lists, Alive

LEMMA DroppingLess ==
  ASSUME NEW q, NEW v, NEW mem, NEW new, NEW x, Dropping(q, v, mem, x), x \in new => x \in mem
  PROVE  Dropping(q, v, new, x)
BY DEF Dropping

LEMMA DroppingNext ==
  ASSUME Types, Accounts, [Next]_vars, NEW a \in Agent, NEW x, Dropping(down[a], view[a], members[home[a]], x),
         x \in members'[home[a]] => x \in members[home[a]]
  PROVE  Dropping(down'[a], view'[a], members'[home[a]], x)
<1>1. Taken(a) \/ Put(a)
  BY TakenOrPut
<1>2. down[a] \in Seq(DownMessage) /\ home[a] \in Directory
  BY HomeType DEF Types, NetTypes
<1>3. Dropping(down'[a], view'[a], members[home[a]], x)
  <2>1. CASE Taken(a)
    <3>1. /\ Dropping(Tail(down[a]), view[a], members[home[a]], x)
          /\ IsList(Head(down[a])) => Dropping(Tail(down[a]), Head(down[a]).members, members[home[a]], x)
      BY <1>2, <2>1, DroppingTail DEF Taken
    <3> QED BY <2>1, <3>1 DEF Taken
  <2>2. CASE Put(a)
    <3>1. CASE down'[a] = down[a]
      BY <2>2, <3>1 DEF Put
    <3>2. ASSUME NEW m \in DownMessage, down'[a] = Append(down[a], m), IsList(m) => m.members = members[home[a]]
          PROVE  Dropping(down'[a], view'[a], members[home[a]], x)
      <4>1. Dropping(Append(down[a], m), view[a], members[home[a]], x)
        BY <1>2, <3>2, DroppingAppend
      <4> QED BY <2>2, <3>2, <4>1 DEF Put
    <3> QED BY <2>2, <3>1, <3>2 DEF Put
  <2> QED BY <1>1, <2>1, <2>2
<1> QED BY <1>3, DroppingLess

LEMMA StoppingNext ==
  ASSUME [Next]_vars
  PROVE  stopping' = stopping \/ \E a \in Agent : Stop(a)
<1>1. ASSUME NEW a \in Agent, RecvDown(a) \/ RecvPeers(a) \/ Shutdown(a) \/ FromAgent(a) \/ Start(a) \/ RecvUpdateEdge(a)
      PROVE  stopping' = stopping
  BY <1>1 DEF RecvDown, RecvDirectory, RecvSyncDone, RecvVa, RecvCsLb, RecvPeers, RecvMoves, RecvAck, Shutdown,
              FromAgent, Start, RecvUpdateEdge, agentVars
<1>2. ASSUME NEW d \in Directory, NEW e \in Directory, Heartbeat(d) \/ FromPeer(d, e) PROVE stopping' = stopping
  BY <1>2 DEF Heartbeat, FromPeer, agentVars
<1>3. CASE Command \/ Done \/ UNCHANGED vars
  BY <1>3 DEF Command, Done, vars, agentVars
<1> QED BY <1>1, <1>2, <1>3 DEF Next

(* The lists lose only the agent that leaves.                              *)
LEMMA StopMembers ==
  ASSUME Orderly, Careful, NEW s \in Agent, Parts(s), [Next]_vars, NEW d \in Homed
  PROVE  members'[d] \subseteq members[d] /\ members'[d] \in Lists(s)
<1> USE DEF Orderly, Course, Books, Rounds
<1>1. d \in Directory /\ members[d] \in Lists(s) /\ stopping[s]
  BY HomedType DEF Parted, Parting, Parts
<1>2. /\ \A a \in Alive : stopping[a] => a = s
      /\ \A m \in Full(s) : m = Me(m[1]) /\ (m # Me(s) => m[1] \in Alive)
  BY StopFull
<1>3. MembersMove
  BY MembersNext
<1>4. ASSUME NEW m \in members'[d] PROVE m \in members[d]
  <2> SUFFICES ASSUME Enters(m) PROVE m \in members[d]
    BY <1>1, <1>3 DEF MembersMove
  <2>1. PICK b \in Alive : ~stopping[b] /\ m = Me(b)
    BY DEF Enters
  <2>2. m \in Full(s) /\ m # Me(s)
    BY <1>1, <2>1 DEF Full, Me
  <2> QED BY <1>1, <2>2 DEF Lists
<1>5. ASSUME NEW m \in members[d], m \notin members'[d] PROVE m = Me(s)
  <2>1. Exits(m)
    BY <1>1, <1>3, <1>5 DEF MembersMove
  <2>2. PICK b \in Agent : stopping[b] /\ m = Me(b)
    BY <2>1, PartsAlone DEF Exits
  <2>3. m \in Full(s) /\ m[1] = b
    BY <1>1, <2>2 DEF Lists, Me
  <2> QED BY <1>2, <2>2, <2>3
<1>6. members'[d] = members[d] \/ members'[d] = members[d] \ {Me(s)}
  BY <1>4, <1>5
<1> QED BY <1>1, <1>4, <1>6 DEF Lists

LEMMA PartingNext ==
  ASSUME Orderly, Careful, [Next]_vars
  PROVE  Parting'
<1> USE DEF Orderly, Course, Books, Rounds
<1> SUFFICES ASSUME NEW s \in Agent, Parts(s)'
             PROVE  /\ \A d \in Homed' : members'[d] \in Lists(s)'
                    /\ \A a \in Alive' : Seen(a)' \subseteq Lists(s)' /\ Dropping(down'[a], view'[a], members'[home'[a]], Me(s)')
  BY DEF Parting
<1>1. /\ home' = home
      /\ \A a \in Alive' : a \in Alive \/ (~stopping[a] /\ phase[a] = "out")
      /\ Homed' = Homed
  BY RunningNext DEF Homed
<1>2. CASE stopping[s]
  <2>1. Parts(s)
    BY <1>2, PartsFewer DEF Parts
  <2>2. /\ Full(s)' = Full(s) /\ Me(s)' = Me(s) /\ Lists(s)' = Lists(s)
        /\ \A a \in Alive' : a \in Alive
    BY <2>1, StopFull
  <2>3. \A d \in Homed : members'[d] \subseteq members[d] /\ members'[d] \in Lists(s)
    BY <2>1, StopMembers
  <2>4. ASSUME NEW a \in Alive' PROVE Seen(a)' \subseteq Lists(s) /\ Dropping(down'[a], view'[a], members'[home[a]], Me(s))
    <3>1. a \in Alive /\ a \in Agent /\ home[a] \in Homed
      BY <2>2, AliveAgent, HomeHomed
    <3>2. /\ Seen(a) \subseteq Lists(s) /\ members[home[a]] \in Lists(s)
          /\ Dropping(down[a], view[a], members[home[a]], Me(s))
      BY <2>1, <3>1 DEF Parted, Parting
    <3>3. Seen(a)' \subseteq Seen(a) \cup {members[home[a]]}
      BY <3>1, SeenNext DEF SeenAfter
    <3>4. Dropping(down'[a], view'[a], members'[home[a]], Me(s))
      BY <2>3, <3>1, <3>2, DroppingNext
    <3> QED BY <3>2, <3>3, <3>4
  <2> QED BY <1>1, <2>2, <2>3, <2>4
<1>3. CASE ~stopping[s]
  <2>1. PICK a \in Agent : Stop(a)
    BY <1>3, StoppingNext DEF Parts
  <2>2. /\ a \in Alive /\ Quiet /\ stopping' = [stopping EXCEPT ![a] = TRUE]
        /\ UNCHANGED <<phase, view, vcount, members, down, home>>
    BY <2>1 DEF Stop, dirVars, netVars
  <2>3. s = a
    BY <1>3, <2>2 DEF Parts, Types, AgentTypes
  <2>4. /\ \A d \in Homed : members[d] = Running
        /\ \A b \in Alive : view[b] = Running /\ Seen(b) = {Running}
    BY <2>2, Calm
  <2>5. Running \in Lists(s)' /\ Alive' = Alive /\ \A b : Seen(b)' = Seen(b)
    <3>1. Alive' = Alive /\ \A b : Me(b)' = Me(b) /\ Seen(b)' = Seen(b)
      BY <2>2 DEF Alive, Me, Seen
    <3>2. Full(s)' = Running
      BY <2>2, <2>3, <3>1 DEF Full, Running
    <3> QED BY <3>1, <3>2 DEF Lists
  <2>6. ASSUME NEW b \in Alive PROVE Dropping(down[b], view[b], members[home[b]], Me(s)')
    <3>1. down[b] = <<>> /\ home[b] \in Homed
      BY <2>2, QuietNothing, AliveAgent, HomeHomed
    <3> QED BY <2>4, <3>1, DownEmpty
  <2> QED BY <1>1, <2>2, <2>4, <2>5, <2>6
<1> QED BY <1>2, <1>3

LEMMA AloneNext ==
  ASSUME Orderly, Careful, [Next]_vars
  PROVE  Alone'
<1> USE DEF Orderly, Course, Books, Rounds
<1> SUFFICES ASSUME NEW g \in Agent, NEW h \in Agent, Parts(g)', Parts(h)' PROVE g = h
  BY DEF Alone
<1>1. \A s \in Agent : stopping[s] /\ Parts(s)' => Parts(s)
  BY PartsFewer DEF Parts
<1>2. CASE stopping' = stopping
  BY <1>1, <1>2 DEF Parts, Parted, Alone
<1>3. ASSUME NEW a \in Agent, Stop(a) PROVE g = h
  <2>1. Quiet /\ stopping' = [stopping EXCEPT ![a] = TRUE]
    BY <1>3 DEF Stop
  <2>2. \A s \in Agent : ~Parts(s)
    BY <2>1, Calm, PartsLeaving
  <2>3. \A s \in Agent : Parts(s)' => s = a
    BY <1>1, <2>1, <2>2 DEF Parts, Types, AgentTypes
  <2> QED BY <2>3
<1> QED BY <1>2, <1>3, StoppingNext

(* An agent that the list still has keeps what it owns.                    *)
LEMMA StayingNext ==
  ASSUME Orderly, Careful, [Next]_vars
  PROVE  Staying'
<1> USE DEF Orderly, Course, Books, Rounds
<1> SUFFICES ASSUME NEW s \in Alive', stopping'[s], Me(s)' \in view'[s] PROVE nE'[s] > 0
  BY DEF Staying
<1>1. s \in Agent /\ (s \in Alive \/ ~stopping[s])
  BY RunningNext DEF Alive
<1>2. CASE ~stopping[s]
  <2>1. PICK a \in Agent : Stop(a)
    BY <1>2, StoppingNext
  <2>2. /\ Quiet /\ nE[a] > 0 /\ stopping' = [stopping EXCEPT ![a] = TRUE] /\ UNCHANGED nE
    BY <2>1 DEF Stop
  <2>3. s = a
    BY <1>1, <1>2, <2>2 DEF Types, AgentTypes
  <2> QED BY <2>2, <2>3
<1>3. CASE stopping[s]
  <2>1. s \in Alive /\ Parts(s)
    BY <1>1, <1>3 DEF Parts
  <2>2. Me(s)' = Me(s) /\ UNCHANGED stopping
    BY <1>1, <2>1, StopFull, StopAlone
  <2>3. \A a \in Alive : ~Busy(a)
    BY <1>1, <2>1, PartsAlone
  <2>4. ~Command /\ \A a \in Agent : ~Start(a) /\ ~Stop(a)
    BY <1>1, <2>1, StopAlone
  <2>5. Me(s) \in view[s] => nE[s] > 0
    BY <1>3, <2>1 DEF Parted, Staying
  <2>6. nE \in [Agent -> Int] /\ nE[s] \in Int
    BY <1>1 DEF Types, AgentTypes
  <2>7. ASSUME UNCHANGED <<nE, view>> PROVE nE'[s] > 0
    BY <2>2, <2>5, <2>7
  <2>8. ASSUME NEW a \in Agent, RecvDown(a) PROVE nE'[s] > 0
    <3>1. CASE a # s
      <4>1. nE'[s] = nE[s] /\ view'[s] = view[s]
        BY <1>1, <2>8, <3>1, TakenDown
      <4> QED BY <2>2, <2>5, <4>1
    <3>2. CASE a = s
      <4> DEFINE m == Head(down[s])
      <4>1. down[s] # <<>> /\ down[s] \in Seq(DownMessage)
        BY <1>1, <2>8, <3>2, TakenDown DEF Types, NetTypes
      <4>2. ~RecvSyncDone(s) /\ ~RecvVa(s) /\ ~RecvCsLb(s)
        <5>1. Has(down[s], m)
          BY <4>1, HasTail
        <5>2. RecvSyncDone(s) => m = DONE
          BY <2>8, <3>2, TakenDown, MarksDistinct DEF RecvSyncDone
        <5>3. RecvVa(s) \/ RecvCsLb(s) => Ordered(down[s])
          BY <1>1, <4>1, HeadOrdered DEF RecvVa, RecvCsLb
        <5> HIDE DEF m
        <5> QED BY <2>1, <2>3, <5>1, <5>2, <5>3 DEF Busy
      <4>3. RecvDirectory(s)
        BY <2>8, <3>2, <4>2 DEF RecvDown
      <4>4. /\ m \in ListMessage /\ m.members \in SUBSET Member
            /\ view'[s] = IF m.changed \/ view[s] = {} THEN m.members ELSE view[s]
            /\ nE' = nE \/ (m.changed /\ MoveAway(s, m.members, phase[s]))
        BY <1>1, <4>3, RecvDirectoryCases DEF Types, AgentTypes
      <4>5. Dropping(down[s], view[s], members[home[s]], Me(s)) /\ Seen(s) \subseteq Lists(s)
        BY <1>1, <2>1 DEF Parted, Parting
      <4>6. IsList(m)
        BY <4>4 DEF ListMessage, IsList
      <4>7. Me(s) \notin view[s] => Me(s) \notin m.members
        BY <4>1, <4>5, <4>6, DroppingTail
      <4>8. Me(s) \in view[s]
        BY <2>2, <4>4, <4>7
      <4>9. CASE nE' = nE
        BY <2>5, <4>8, <4>9
      <4>10. CASE m.changed /\ MoveAway(s, m.members, phase[s])
        <5>1. Me(s) \in m.members
          BY <2>2, <4>4, <4>10
        <5>2. m.members \in Seen(s) /\ view[s] \in Seen(s)
          <6>1. m = down[s][1] /\ 1 \in DOMAIN down[s]
            BY <4>1, TailPlaces
          <6> QED BY <4>6, <6>1 DEF Seen
        <5>3. m.members = view[s]
          BY <4>5, <4>8, <5>1, <5>2 DEF Lists
        <5>4. phase[s] \notin {"balance", "hold", "gone", "thrown"}
          BY <1>1, <2>1, <2>3 DEF Busy, Alive
        <5>5. Lost(s, m.members) = {}
          BY <1>1, <5>3, <5>4 DEF Owned, Lost
        <5>6. InCount(Lost(s, m.members)) = 0
          BY <5>5, InCountType
        <5>7. phase[s] \in Phase
          BY <1>1 DEF Types, AgentTypes
        <5>8. nE' = [nE EXCEPT ![s] = nE[s] - InCount(Lost(s, m.members))]
          BY <1>1, <4>4, <4>10, <5>7, MoveAwayStep
        <5> QED BY <1>1, <2>5, <2>6, <4>8, <5>6, <5>8
      <4> QED BY <4>4, <4>9, <4>10
    <3> QED BY <3>1, <3>2
  <2>9. ASSUME NEW a \in Agent, RecvPeers(a) PROVE nE'[s] > 0
    <3>1. PICK b \in Agent : RecvMoves(a, b) \/ RecvAck(a, b)
      BY <2>9 DEF RecvPeers
    <3>2. CASE RecvMoves(a, b)
      <4> DEFINE copies == Head(peer[b][a]).copies
      <4>1. nE' = [nE EXCEPT ![a] = nE[a] + InCount(Mine(a, copies))] /\ copies \in SUBSET Copy
        BY <3>2, RecvMovesStep
      <4>2. InCount(Mine(a, copies)) \in Nat
        <5>1. Mine(a, copies) \in SUBSET Copy
          BY <4>1, OnwardType
        <5> QED BY <5>1, InCountType
      <4>3. nE'[s] >= nE[s]
        <5> HIDE DEF copies
        <5>1. CASE a = s
          BY <1>1, <2>6, <4>1, <4>2, <5>1
        <5>2. CASE a # s
          BY <1>1, <2>6, <4>1, <5>2
        <5> QED BY <5>1, <5>2
      <4>4. UNCHANGED view
        BY <3>2 DEF RecvMoves
      <4>5. nE'[s] \in Int
        BY <1>1, <2>6, <4>1, <4>2
      <4> QED BY <2>2, <2>5, <2>6, <4>3, <4>4, <4>5
    <3>3. CASE RecvAck(a, b)
      BY <2>7, <3>3 DEF RecvAck
    <3> QED BY <3>1, <3>2, <3>3
  <2>10. ASSUME NEW a \in Agent, RecvUpdateEdge(a) PROVE nE'[s] > 0
    <3>1. a # s /\ UNCHANGED view
      BY <1>3, <2>10 DEF RecvUpdateEdge
    <3>2. nE'[s] = nE[s]
      BY <1>1, <2>10, <3>1, RecvUpdateEdgeCases DEF Types, AgentTypes
    <3> QED BY <2>2, <2>5, <3>1, <3>2
  <2>11. ASSUME NEW a \in Agent, Shutdown(a) \/ FromAgent(a) PROVE nE'[s] > 0
    BY <2>7, <2>11 DEF Shutdown, FromAgent, agentVars
  <2>12. ASSUME NEW d \in Directory, NEW e \in Directory, Heartbeat(d) \/ FromPeer(d, e) PROVE nE'[s] > 0
    BY <2>7, <2>12 DEF Heartbeat, FromPeer, agentVars
  <2>13. CASE Done \/ UNCHANGED vars
    BY <2>7, <2>13 DEF Done, vars, agentVars
  <2> QED BY <2>4, <2>8, <2>9, <2>10, <2>11, <2>12, <2>13 DEF Next
<1> QED BY <1>2, <1>3

-----------------------------------------------------------------------------
(* Rounds of load balancing.                                               *)

LEMMA LeavingNext ==
  ASSUME Orderly, [Next]_vars, UNCHANGED stopping, ~Leaving
  PROVE  ~Leaving'
<1> SUFFICES ASSUME NEW s \in Agent, stopping[s], s \in Alive' \/ Listed(s)' PROVE FALSE
  BY DEF Leaving
<1>1. Parts(s)
  BY PartsFewer
<1> QED BY <1>1, PartsLeaving

LEMMA CountedFinite ==
  /\ IsFiniteSet(Agent)
  /\ IsFiniteSet(Counted) /\ Cardinality(Counted) \in Nat
  /\ \A S \in SUBSET Agent : IsFiniteSet(S) /\ Cardinality(S) \in Nat /\ \A T \in SUBSET S : Cardinality(T) <= Cardinality(S)
<1>1. IsFiniteSet(Agent)
  BY ConsistentHashAssumption
<1>2. Counted \in SUBSET Agent
  BY DEF Counted, Alive
<1> QED BY <1>1, <1>2, FS_Subset, FS_CardinalityType

(* Nobody balances the load.                                               *)
LEMMA RoundsIdle ==
  ASSUME NoThrow', \A a \in Alive' : ~Busy(a)', \A a \in Agent : a \notin Alive' => ~Has(up'[a], SYNC)
  PROVE  Rounds'
<1>1. ASSUME NEW a \in Alive'
      PROVE  /\ ~Ordered(down'[a]) /\ ~Has(down'[a], DONE) /\ ~Has(up'[a], SYNC)
             /\ ~Waiting(a)' /\ ~Unsent(a)'
  BY DEF Busy, Waiting, Unsent
<1>2. Commanded'
  <2> SUFFICES ASSUME NEW a \in Alive' PROVE FirstOnly(down'[a])
    BY <1>1 DEF Commanded, Alive
  <2> QED BY <1>1 DEF Ordered, FirstOnly
<1>3. Finished'
  BY <1>1, NotThereFollowed DEF Finished
<1>4. Synced'
  BY <1>1 DEF Synced
<1>5. Together' /\ Behind' /\ Undisturbed'
  BY <1>1 DEF Together, Behind, Undisturbed
<1> QED BY <1>2, <1>3, <1>4, <1>5 DEF Rounds

LEMMA SameSituation ==
  ASSUME NEW b, phase'[b] = phase[b], up'[b] = up[b], down'[b] = down[b], stopping'[b] = stopping[b]
  PROVE  /\ Waiting(b)' <=> Waiting(b)
         /\ Updated(b)' <=> Updated(b)
         /\ Unsent(b)' <=> Unsent(b)
         /\ Busy(b)' <=> Busy(b)
BY DEF Waiting, Updated, Unsent, Busy, Resizing

(* Counted agents stay counted.                                            *)
LEMMA CountedMore ==
  ASSUME Behind, Homed' = Homed,
         (\E a \in Alive' : Unsent(a)') /\ (\A a \in Alive' : ~Waiting(a)') =>
           /\ (\E a \in Alive : Unsent(a)) /\ (\A a \in Alive : ~Waiting(a))
           /\ Counted \subseteq Counted' /\ \A d \in Homed : syncs'[d] = syncs[d] /\ syncs[d] \in Nat
  PROVE  Behind'
<1> SUFFICES ASSUME \E a \in Alive' : Unsent(a)', \A a \in Alive' : ~Waiting(a)', NEW d \in Homed
             PROVE  syncs'[d] < Cardinality(Counted')
  BY DEF Behind
<1>1. syncs[d] < Cardinality(Counted) /\ syncs'[d] = syncs[d] /\ syncs[d] \in Nat /\ Counted \subseteq Counted'
  BY DEF Behind
<1>2. Counted' \in SUBSET Agent
  BY DEF Counted, Alive
<1>3. Counted \in SUBSET Counted'
  BY <1>1
<1>4. /\ Cardinality(Counted) \in Nat /\ Cardinality(Counted') \in Nat
      /\ Cardinality(Counted) <= Cardinality(Counted')
  BY <1>2, <1>3, CountedFinite
<1> QED BY <1>1, <1>4

(* A step of one agent.                                                    *)
LEMMA RoundsLocal ==
  ASSUME Types, Rounds, NEW a \in Agent, a \in Alive, phase'[a] \notin {"out", "gone", "thrown"},
         UNCHANGED <<members, stopping, home, syncs>>, ~Leaving => ~Leaving',
         \A b \in Agent \ {a} : phase'[b] = phase[b] /\ up'[b] = up[b] /\ down'[b] = down[b] /\ vcount'[b] = vcount[b],
         FirstOnly(down'[a]),
         Ordered(down'[a]) => phase'[a] \in {"load", "idle"} /\ \A n : ~Has(up'[a], Join(a, n)) /\ ~Has(up'[a], Leave(a, n)),
         Once(down'[a], DONE),
         Has(down'[a], DONE) => phase'[a] = "hold" \/ ((phase'[a] = "balance" \/ Ordered(down'[a])) /\ Warned(down'[a])),
         Has(up'[a], SYNC) => Once(up'[a], SYNC) /\ phase'[a] # "balance" /\ ~Ordered(down'[a]) /\ Settled(up'[a]),
         Waiting(a)' <=> Waiting(a), Waiting(a) => (Updated(a)' <=> Updated(a)), Busy(a)' => Busy(a),
         Unsent(a)' <=> Unsent(a),
         Unsent(a) \/ (vcount'[a] = vcount[a] /\ \A n : Has(up'[a], Leave(a, n)) => Has(up[a], Leave(a, n)))
  PROVE  Rounds'
<1> USE DEF Rounds
<1>1. /\ Alive' = Alive /\ Homed' = Homed /\ (OneHomed' <=> OneHomed)
      /\ \A b \in Alive : b \in Agent
  BY DEF Alive, Homed, OneHomed
<1>2. NoThrow'
  BY DEF NoThrow
<1>3. Commanded'
  <2>1. ASSUME NEW b \in Alive
        PROVE  /\ FirstOnly(down'[b])
               /\ Ordered(down'[b]) => /\ phase'[b] \in {"load", "idle"}
                                       /\ \A n : ~Has(up'[b], Join(b, n)) /\ ~Has(up'[b], Leave(b, n))
    <3>1. CASE b = a
      BY <3>1
    <3>2. CASE b # a
      BY <1>1, <3>2 DEF Commanded
    <3> QED BY <3>1, <3>2
  <2> QED BY <1>1, <2>1 DEF Commanded
<1>4. Finished'
  BY <1>1 DEF Finished
<1>5. Synced'
  BY <1>1 DEF Synced
<1>6. ASSUME NEW b \in Alive
      PROVE  /\ Waiting(b)' <=> Waiting(b)
             /\ Waiting(b) => (Updated(b)' <=> Updated(b))
             /\ Unsent(b)' <=> Unsent(b)
             /\ Busy(b)' => Busy(b)
  <2>1. CASE b = a
    BY <2>1
  <2>2. CASE b # a
    BY <1>1, <2>2, SameSituation
  <2> QED BY <2>1, <2>2
<1>7. Together'
  BY <1>1, <1>6 DEF Together
<1>8. Undisturbed'
  BY <1>1, <1>6 DEF Undisturbed
<1>9. Behind'
  <2>1. Counted \subseteq Counted'
    <3> SUFFICES ASSUME NEW b \in Counted PROVE b \in Counted'
      OBVIOUS
    <3>1. b \in Alive /\ ~Unsent(b) /\ Me(b) \in members[home[b]] /\ \A n : ~Has(up[b], Leave(b, n))
      BY DEF Counted
    <3>2. ~Unsent(b)'
      BY <1>6, <3>1
    <3>3. vcount'[b] = vcount[b] /\ \A n : ~Has(up'[b], Leave(b, n))
      <4>1. CASE b = a
        BY <3>1, <4>1
      <4>2. CASE b # a
        BY <1>1, <3>1, <4>2
      <4> QED BY <4>1, <4>2
    <3> QED BY <1>1, <3>1, <3>2, <3>3 DEF Counted, Me
  <2>2. \A d \in Homed : syncs'[d] = syncs[d] /\ syncs[d] \in Nat
    BY HomedType DEF Types, DirTypes
  <2>3. (\E b \in Alive' : Unsent(b)') /\ (\A b \in Alive' : ~Waiting(b)') =>
           (\E b \in Alive : Unsent(b)) /\ (\A b \in Alive : ~Waiting(b))
    BY <1>1, <1>6
  <2> QED BY <1>1, <2>1, <2>2, <2>3, CountedMore
<1> QED BY <1>2, <1>3, <1>4, <1>5, <1>7, <1>8, <1>9

LEMMA PoppedDown ==
  ASSUME Types, Rounds, NEW a \in Agent, a \in Alive, down[a] # <<>>, down'[a] = Tail(down[a])
  PROVE  LET x == Head(down[a])
         IN  /\ x \in DownMessage
             /\ Ordered(down[a]) <=> x.type \in {"DO_VA", "DO_CS_LB"}
             /\ FirstOnly(down'[a]) /\ ~Ordered(down'[a]) /\ Once(down'[a], DONE)
             /\ Has(down[a], DONE) <=> x = DONE \/ Has(down'[a], DONE)
             /\ x = DONE => ~Has(down'[a], DONE)
             /\ News(down[a]) <=> News(down'[a]) \/ (IsList(x) /\ x.changed)
             /\ Warned(down[a]) /\ ~(IsList(x) /\ x.changed) => Warned(down'[a]) /\ x # DONE
<1>1. down[a] \in Seq(DownMessage) /\ FirstOnly(down[a]) /\ Once(down[a], DONE)
  BY DEF Types, NetTypes, Rounds, Commanded, Finished
<1>2. Head(down[a]) \in DownMessage
  BY <1>1, TailPlaces
<1> QED BY <1>1, <1>2, DownTail, HasTail, OnceTail

LEMMA RoundsDirectory ==
  ASSUME Types, Rounds, ~Leaving => ~Leaving', NEW a \in Agent, RecvDirectory(a)
  PROVE  Rounds'
<1> DEFINE m == Head(down[a])
<1>1. /\ a \in Alive /\ down[a] # <<>> /\ IsList(m) /\ m.members \in SUBSET Member
      /\ down' = [down EXCEPT ![a] = Tail(down[a])]
      /\ UNCHANGED <<vcount, stopping, members, home, syncs>>
      /\ \/ /\ ~m.changed \/ phase[a] = "hold"
            /\ UNCHANGED <<phase, up>>
         \/ /\ m.changed /\ phase[a] = "balance"
            /\ phase' = [phase EXCEPT ![a] = "hold"]
            /\ up' = Tell(a, <<SYNC>>)
         \/ /\ m.changed /\ phase[a] \notin {"balance", "hold"}
            /\ MoveAway(a, m.members, phase[a]) /\ UNCHANGED up
  BY RecvDirectoryCases DEF SYNC, IsList, dirVars, envVars
<1>2. down'[a] = Tail(down[a]) /\ \A b \in Agent \ {a} : down'[b] = down[b]
  BY <1>1 DEF Types, NetTypes
<1> HIDE DEF m
<1>3. m # DONE /\ m.type \notin {"DO_VA", "DO_CS_LB"}
  BY <1>1, MarksDistinct DEF IsList
<1>4. /\ ~Ordered(down[a])
      /\ FirstOnly(down'[a]) /\ ~Ordered(down'[a]) /\ Once(down'[a], DONE)
      /\ Has(down[a], DONE) <=> Has(down'[a], DONE)
      /\ News(down[a]) <=> News(down'[a]) \/ m.changed
      /\ Warned(down[a]) /\ ~m.changed => Warned(down'[a])
  BY <1>1, <1>2, <1>3, PoppedDown DEF m
<1>5. /\ Has(down[a], DONE) => phase[a] = "hold" \/ (phase[a] = "balance" /\ Warned(down[a]))
      /\ Has(up[a], SYNC) => Once(up[a], SYNC) /\ phase[a] # "balance" /\ Settled(up[a])
  BY <1>1, <1>4 DEF Rounds, Finished, Synced
<1>6. phase[a] \in Phase /\ phase[a] \notin {"out", "gone", "thrown"}
  BY <1>1 DEF Types, AgentTypes, Alive
<1>7. CASE (~m.changed \/ phase[a] = "hold") /\ UNCHANGED <<phase, up>>
  <2>1. Waiting(a)' <=> Waiting(a)
    BY <1>4, <1>7 DEF Waiting
  <2>2. Updated(a)' <=> Updated(a)
    BY <1>4, <1>7 DEF Updated
  <2>3. Busy(a)' => Busy(a)
    BY <1>1, <1>4, <1>7 DEF Busy, Resizing
  <2>4. Unsent(a)' <=> Unsent(a)
    BY <1>4, <1>7 DEF Unsent
  <2>5. Has(down'[a], DONE) => phase'[a] = "hold" \/ (phase'[a] = "balance" /\ Warned(down'[a]))
    BY <1>4, <1>5, <1>7
  <2>6. Has(up'[a], SYNC) => Once(up'[a], SYNC) /\ phase'[a] # "balance" /\ ~Ordered(down'[a]) /\ Settled(up'[a])
    BY <1>4, <1>5, <1>7
  <2>7. \A b \in Agent \ {a} : phase'[b] = phase[b] /\ up'[b] = up[b] /\ down'[b] = down[b] /\ vcount'[b] = vcount[b]
    BY <1>1, <1>2, <1>7
  <2> QED BY <1>1, <1>4, <1>6, <1>7, <2>1, <2>2, <2>3, <2>4, <2>5, <2>6, <2>7, RoundsLocal
<1>8. CASE m.changed /\ phase[a] = "balance" /\ phase' = [phase EXCEPT ![a] = "hold"] /\ up' = Tell(a, <<SYNC>>)
  <2>1. phase'[a] = "hold" /\ \A b \in Agent \ {a} : phase'[b] = phase[b]
    BY <1>8 DEF Types, AgentTypes
  <2>2. ~Has(up[a], SYNC)
    BY <1>5, <1>8
  <2>3. SYNC \in UpMessage /\ SYNC.type \notin {"AGENT_JOIN", "AGENT_LEAVE"}
    BY MarksDistinct
  <2>4. /\ up[a] \in Seq(UpMessage) /\ up'[a] = Append(up[a], SYNC) /\ \A b \in Agent \ {a} : up'[b] = up[b]
        /\ Has(up'[a], SYNC)
    BY <1>8, <2>3, ToldOne
  <2>5. Once(up'[a], SYNC)
    BY <2>2, <2>3, <2>4, OnceAppend, NotThereFollowed
  <2>6. Settled(up'[a])
    <3>1. Settled(up[a])
      BY <2>2 DEF Settled, Has
    <3> QED BY <2>3, <2>4, <3>1, SettledAppend
  <2>7. Waiting(a)' <=> Waiting(a)
    BY <1>4, <1>8, <2>1 DEF Waiting
  <2>8. Updated(a)' <=> Updated(a)
    BY <1>4, <1>8, <2>1 DEF Updated
  <2>9. Busy(a)' => Busy(a)
    BY <1>8 DEF Busy
  <2>10. Unsent(a) /\ Unsent(a)'
    BY <1>8, <2>4 DEF Unsent
  <2>11. \A b \in Agent \ {a} : phase'[b] = phase[b] /\ up'[b] = up[b] /\ down'[b] = down[b] /\ vcount'[b] = vcount[b]
    BY <1>1, <1>2, <2>1, <2>4
  <2> QED BY <1>1, <1>4, <2>1, <2>5, <2>6, <2>7, <2>8, <2>9, <2>10, <2>11, RoundsLocal
<1>9. CASE m.changed /\ phase[a] \notin {"balance", "hold"} /\ MoveAway(a, m.members, phase[a]) /\ UNCHANGED up
  <2>1. phase'[a] \in {"moving", phase[a]} /\ \A b \in Agent \ {a} : phase'[b] = phase[b]
    <3>1. MoveAway(a, m.members, phase[a])
      BY <1>9
    <3>2. m.members \in SUBSET Member /\ phase[a] \in Phase
      BY <1>1, <1>6
    <3>3. phase'[a] \in {"moving", phase[a]}
      BY <3>1, <3>2, MoveAwayLeaves
    <3>4. \A b \in Agent \ {a} : phase'[b] = phase[b]
      BY <3>1, <3>2, MoveAwayLeaves
    <3> QED BY <3>3, <3>4
  <2>2. ~Has(down'[a], DONE)
    BY <1>4, <1>5, <1>9
  <2>3. ~Waiting(a)' /\ ~Waiting(a)
    BY <1>4, <1>9, <2>1 DEF Waiting
  <2>4. Busy(a)' => Busy(a)
    BY <1>1, <1>4, <1>9, <2>1, <2>2 DEF Busy, Resizing
  <2>5. Unsent(a)' <=> Unsent(a)
    BY <1>4, <1>9, <2>1 DEF Unsent
  <2>6. Has(up'[a], SYNC) => Once(up'[a], SYNC) /\ phase'[a] # "balance" /\ ~Ordered(down'[a]) /\ Settled(up'[a])
    BY <1>4, <1>5, <1>9, <2>1
  <2>7. \A b \in Agent \ {a} : phase'[b] = phase[b] /\ up'[b] = up[b] /\ down'[b] = down[b] /\ vcount'[b] = vcount[b]
    BY <1>1, <1>2, <1>9, <2>1
  <2>8. phase'[a] \notin {"out", "gone", "thrown"} /\ vcount'[a] = vcount[a] /\ up'[a] = up[a]
    BY <1>1, <1>6, <1>9, <2>1
  <2> QED BY <1>1, <1>4, <2>2, <2>3, <2>4, <2>5, <2>6, <2>7, <2>8, RoundsLocal
<1> QED BY <1>1, <1>7, <1>8, <1>9

(* All are asked to move their edges only when they have the new list.     *)
LEMMA RoundsSyncDone ==
  ASSUME Types, Rounds, ~Leaving => ~Leaving', NEW a \in Agent, RecvSyncDone(a)
  PROVE  Rounds'
<1> DEFINE m == Head(down[a])
<1>1. /\ a \in Alive /\ down[a] # <<>> /\ m.type = "SIMPLE_SYNC_DONE" /\ view[a] \in SUBSET Member
      /\ down' = [down EXCEPT ![a] = Tail(down[a])]
      /\ UNCHANGED <<vcount, stopping, up, members, home, syncs>>
      /\ phase[a] = "hold" => MoveAway(a, view[a], "idle")
  BY RecvSyncDoneCases DEF dirVars, envVars
<1>2. down'[a] = Tail(down[a]) /\ \A b \in Agent \ {a} : down'[b] = down[b]
  BY <1>1 DEF Types, NetTypes
<1>3. m = DONE
  <2>1. m \in DownMessage
    BY <1>1, <1>2, PoppedDown
  <2> QED BY <1>1, <2>1, MarksDistinct
<1> HIDE DEF m
<1>4. ~IsList(m) /\ m.type \notin {"DO_VA", "DO_CS_LB"}
  BY <1>1 DEF IsList
<1>5. /\ ~Ordered(down[a])
      /\ FirstOnly(down'[a]) /\ ~Ordered(down'[a]) /\ Once(down'[a], DONE)
      /\ Has(down[a], DONE) /\ ~Has(down'[a], DONE) /\ ~Warned(down[a])
  BY <1>1, <1>2, <1>3, <1>4, PoppedDown DEF m
<1>6. phase[a] = "hold"
  BY <1>1, <1>5 DEF Rounds, Finished
<1>7. phase'[a] \in {"moving", "idle"} /\ \A b \in Agent \ {a} : phase'[b] = phase[b]
  <2>1. "idle" \in Phase
    BY DEF Phase
  <2> QED BY <1>1, <1>6, <2>1, MoveAwayLeaves
<1>8. Has(up[a], SYNC) => Once(up[a], SYNC) /\ Settled(up[a])
  BY <1>1 DEF Rounds, Synced
<1>9. ~Waiting(a)' /\ ~Waiting(a)
  BY <1>5, <1>7 DEF Waiting
<1>10. Busy(a)
  BY <1>6 DEF Busy
<1>11. Unsent(a)' <=> Unsent(a)
  BY <1>1, <1>5, <1>6, <1>7 DEF Unsent
<1>12. \A b \in Agent \ {a} : phase'[b] = phase[b] /\ up'[b] = up[b] /\ down'[b] = down[b] /\ vcount'[b] = vcount[b]
  BY <1>1, <1>2, <1>7
<1>13. Has(up'[a], SYNC) => Once(up'[a], SYNC) /\ phase'[a] # "balance" /\ ~Ordered(down'[a]) /\ Settled(up'[a])
  BY <1>1, <1>5, <1>7, <1>8
<1> QED BY <1>1, <1>5, <1>7, <1>9, <1>10, <1>11, <1>12, <1>13, RoundsLocal

(* A command.                                                              *)
LEMMA RoundsOrdered ==
  ASSUME Types, Rounds, ~Leaving => ~Leaving', NEW a \in Agent, a \in Alive, down[a] # <<>>,
         Head(down[a]).type \in {"DO_VA", "DO_CS_LB"}, down' = [down EXCEPT ![a] = Tail(down[a])],
         phase' = [phase EXCEPT ![a] = "balance"], UNCHANGED <<members, stopping, home, syncs>>,
         \A b \in Agent \ {a} : up'[b] = up[b] /\ vcount'[b] = vcount[b],
         Has(up'[a], SYNC) => Has(up[a], SYNC)
  PROVE  Rounds'
<1> DEFINE m == Head(down[a])
<1>1. down'[a] = Tail(down[a]) /\ \A b \in Agent \ {a} : down'[b] = down[b]
  BY DEF Types, NetTypes
<1>2. phase'[a] = "balance" /\ \A b \in Agent \ {a} : phase'[b] = phase[b]
  BY DEF Types, AgentTypes
<1>3. ~IsList(m) /\ m # DONE
  BY MarksDistinct DEF IsList
<1>4. /\ Ordered(down[a])
      /\ FirstOnly(down'[a]) /\ ~Ordered(down'[a]) /\ Once(down'[a], DONE)
      /\ Has(down[a], DONE) <=> Has(down'[a], DONE)
      /\ News(down[a]) <=> News(down'[a])
      /\ Warned(down[a]) => Warned(down'[a])
  BY <1>1, <1>3, PoppedDown
<1>5. phase[a] \in {"load", "idle"}
  BY <1>4 DEF Rounds, Commanded
<1>6. Has(down'[a], DONE) => Warned(down'[a])
  BY <1>4, <1>5 DEF Rounds, Finished
<1>7. ~Has(up'[a], SYNC)
  BY <1>4 DEF Rounds, Synced
<1>8. /\ Waiting(a)' <=> Waiting(a)
      /\ Updated(a)' <=> Updated(a)
      /\ Busy(a) /\ Unsent(a) /\ Unsent(a)'
  BY <1>2, <1>4, <1>5 DEF Waiting, Updated, Busy, Unsent
<1>9. \A b \in Agent \ {a} : phase'[b] = phase[b] /\ up'[b] = up[b] /\ down'[b] = down[b] /\ vcount'[b] = vcount[b]
  BY <1>1, <1>2
<1> QED BY <1>2, <1>4, <1>6, <1>7, <1>8, <1>9, RoundsLocal

LEMMA RoundsUntouched ==
  ASSUME Rounds, UNCHANGED <<phase, up, down, vcount, stopping, members, home, syncs>>, ~Leaving => ~Leaving'
  PROVE  Rounds'
<1> USE DEF Rounds
<1>1. Alive' = Alive /\ Homed' = Homed /\ (OneHomed' <=> OneHomed) /\ Counted' = Counted
  BY DEF Alive, Homed, OneHomed, Counted, Unsent, Me
<1>2. \A b : /\ Waiting(b)' <=> Waiting(b)
             /\ Updated(b)' <=> Updated(b)
             /\ Unsent(b)' <=> Unsent(b)
             /\ Busy(b)' <=> Busy(b)
  BY DEF Waiting, Updated, Unsent, Busy, Resizing
<1>3. NoThrow' /\ Commanded' /\ Finished' /\ Synced'
  BY <1>1 DEF NoThrow, Commanded, Finished, Synced
<1>4. Together' /\ Undisturbed' /\ Behind'
  BY <1>1, <1>2 DEF Together, Undisturbed, Behind
<1> QED BY <1>3, <1>4

LEMMA RoundsDown ==
  ASSUME Types, Accounts, Rounds, ~Leaving => ~Leaving', NEW a \in Agent, RecvDown(a)
  PROVE  Rounds'
<1>1. CASE RecvDirectory(a)
  BY <1>1, RoundsDirectory
<1>2. CASE RecvSyncDone(a)
  BY <1>2, RoundsSyncDone
<1>3. CASE RecvVa(a)
  <2>1. /\ a \in Alive /\ down[a] # <<>> /\ Head(down[a]).type = "DO_VA"
        /\ down' = [down EXCEPT ![a] = Tail(down[a])]
        /\ phase' = [phase EXCEPT ![a] = "balance"]
        /\ UNCHANGED <<members, stopping, home, syncs>>
        /\ \/ \E n \in 1 .. VAgents :
                /\ up' = Tell(a, <<Leave(a, vcount[a]), Join(a, n)>>)
                /\ vcount' = [vcount EXCEPT ![a] = n]
           \/ UNCHANGED <<up, vcount>>
    BY <1>3, RecvVaCases DEF dirVars, envVars
  <2>2. /\ \A b \in Agent \ {a} : up'[b] = up[b] /\ vcount'[b] = vcount[b]
        /\ Has(up'[a], SYNC) => Has(up[a], SYNC)
    <3>1. ASSUME NEW n \in 1 .. VAgents, up' = Tell(a, <<Leave(a, vcount[a]), Join(a, n)>>), vcount' = [vcount EXCEPT ![a] = n]
          PROVE  /\ \A b \in Agent \ {a} : up'[b] = up[b] /\ vcount'[b] = vcount[b]
                 /\ Has(up'[a], SYNC) => Has(up[a], SYNC)
      <4>1. Leave(a, vcount[a]) \in UpMessage /\ Join(a, n) \in UpMessage
        BY MemberMessages DEF Types, AgentTypes
      <4>2. /\ \A b \in Agent \ {a} : up'[b] = up[b]
            /\ \A k : Has(up'[a], k) <=> Has(up[a], k) \/ k = Leave(a, vcount[a]) \/ k = Join(a, n)
        BY <3>1, <4>1, ToldTwo
      <4>3. SYNC # Leave(a, vcount[a]) /\ SYNC # Join(a, n)
        BY RegisterMessages
      <4>4. \A b \in Agent \ {a} : vcount'[b] = vcount[b]
        BY <3>1 DEF Types, AgentTypes
      <4> QED BY <4>2, <4>3, <4>4
    <3> QED BY <2>1, <3>1
  <2> QED BY <2>1, <2>2, RoundsOrdered
<1>4. CASE RecvCsLb(a)
  <2>1. /\ a \in Alive /\ down[a] # <<>> /\ Head(down[a]).type = "DO_CS_LB"
        /\ down' = [down EXCEPT ![a] = Tail(down[a])]
        /\ phase' = [phase EXCEPT ![a] = "balance"]
        /\ up' = Tell(a, <<Plain("CS_UPDATE")>>)
        /\ UNCHANGED <<members, stopping, home, syncs, vcount>>
    BY <1>4 DEF RecvCsLb, dirVars, envVars
  <2>2. Plain("CS_UPDATE") \in UpMessage
    BY MessageTypes, MemberPairs
  <2>3. Plain("CS_UPDATE") # SYNC
    BY DEF Plain, SYNC
  <2>4. /\ \A b \in Agent \ {a} : up'[b] = up[b]
        /\ Has(up'[a], SYNC) => Has(up[a], SYNC)
    BY <2>1, <2>2, <2>3, ToldOne
  <2> QED BY <2>1, <2>4, RoundsOrdered
<1> QED BY <1>1, <1>2, <1>3, <1>4 DEF RecvDown

LEMMA RoundsPeers ==
  ASSUME Types, Rounds, ~Leaving => ~Leaving', NEW a \in Agent, RecvPeers(a)
  PROVE  Rounds'
<1>1. PICK b \in Agent : RecvMoves(a, b) \/ RecvAck(a, b)
  BY DEF RecvPeers
<1>2. CASE RecvMoves(a, b)
  <2>1. UNCHANGED <<phase, up, down, vcount, stopping, members, home, syncs>>
    BY <1>2 DEF RecvMoves, dirVars, envVars
  <2> QED BY <2>1, RoundsUntouched
<1>3. CASE RecvAck(a, b)
  <2>1. /\ a \in Alive /\ UNCHANGED <<members, vcount, stopping, home, down, syncs>>
        /\ \/ phase[a] = "moving" /\ phase' = [phase EXCEPT ![a] = "idle"] /\ up' = up
           \/ up' = Tell(a, <<Plain("READY_NV_NE")>>) /\ phase' = phase
           \/ up' = up /\ phase' = phase
    BY <1>3 DEF RecvAck, dirVars, envVars
  <2>2. CASE up' = up /\ phase' = phase
    BY <2>1, <2>2, RoundsUntouched
  <2>3. /\ FirstOnly(down[a]) /\ Once(down[a], DONE)
        /\ Ordered(down[a]) => phase[a] \in {"load", "idle"} /\ \A n : ~Has(up[a], Join(a, n)) /\ ~Has(up[a], Leave(a, n))
        /\ Has(down[a], DONE) => phase[a] = "hold" \/ ((phase[a] = "balance" \/ Ordered(down[a])) /\ Warned(down[a]))
        /\ Has(up[a], SYNC) => Once(up[a], SYNC) /\ phase[a] # "balance" /\ ~Ordered(down[a]) /\ Settled(up[a])
    BY <2>1 DEF Rounds, Commanded, Finished, Synced
  <2>4. phase[a] \notin {"out", "gone", "thrown"} /\ phase \in [Agent -> Phase] /\ up[a] \in Seq(UpMessage)
    BY <2>1 DEF Alive, Types, AgentTypes, NetTypes
  <2>5. CASE phase[a] = "moving" /\ phase' = [phase EXCEPT ![a] = "idle"] /\ up' = up
    <3>1. phase'[a] = "idle" /\ \A c \in Agent \ {a} : phase'[c] = phase[c]
      BY <2>4, <2>5
    <3>2. /\ Waiting(a)' <=> Waiting(a)
          /\ Updated(a)' <=> Updated(a)
          /\ Unsent(a)' <=> Unsent(a)
          /\ Busy(a)' <=> Busy(a)
      BY <2>1, <2>5, <3>1 DEF Waiting, Updated, Unsent, Busy, Resizing
    <3> QED BY <2>1, <2>3, <2>5, <3>1, <3>2, RoundsLocal
  <2>6. CASE up' = Tell(a, <<Plain("READY_NV_NE")>>) /\ phase' = phase
    <3> DEFINE r == Plain("READY_NV_NE")
    <3>1. r \in UpMessage /\ r.type \notin {"AGENT_JOIN", "AGENT_LEAVE"} /\ ~Registers(r) /\ r # SYNC
      <4>1. r \in UpMessage /\ ~Registers(r)
        BY RegisterMessages, MessageTypes, MemberPairs
      <4> QED BY <4>1 DEF Plain, SYNC
    <3> HIDE DEF r
    <3>2. /\ up'[a] = Append(up[a], r) /\ \A c \in Agent \ {a} : up'[c] = up[c]
          /\ \A k : Has(up'[a], k) <=> Has(up[a], k) \/ k = r
      BY <2>6, <3>1, ToldOne DEF r
    <3>3. \A n : r # Join(a, n) /\ r # Leave(a, n)
      BY <3>1, RegisterMessages
    <3>4. Has(up[a], SYNC) => Once(up'[a], SYNC) /\ Settled(up'[a])
      BY <2>3, <2>4, <3>1, <3>2, OnceAppend, SettledAppend
    <3>5. /\ Waiting(a)' <=> Waiting(a)
          /\ Updated(a)' <=> Updated(a)
          /\ Unsent(a)' <=> Unsent(a)
          /\ Busy(a)' <=> Busy(a)
      BY <2>1, <2>6, <3>1, <3>2, <3>3 DEF Waiting, Updated, Unsent, Busy, Resizing
    <3>6. /\ Has(up'[a], SYNC) => Once(up'[a], SYNC) /\ phase'[a] # "balance" /\ ~Ordered(down'[a]) /\ Settled(up'[a])
          /\ Ordered(down'[a]) => phase'[a] \in {"load", "idle"} /\ \A n : ~Has(up'[a], Join(a, n)) /\ ~Has(up'[a], Leave(a, n))
          /\ \A n : Has(up'[a], Leave(a, n)) => Has(up[a], Leave(a, n))
      BY <2>1, <2>3, <2>6, <3>1, <3>2, <3>3, <3>4
    <3>7. \A c \in Agent \ {a} : phase'[c] = phase[c] /\ up'[c] = up[c] /\ down'[c] = down[c] /\ vcount'[c] = vcount[c]
      BY <2>1, <2>6, <3>2
    <3>8. /\ phase'[a] \notin {"out", "gone", "thrown"} /\ FirstOnly(down'[a]) /\ Once(down'[a], DONE) /\ vcount'[a] = vcount[a]
          /\ Has(down'[a], DONE) => phase'[a] = "hold" \/ ((phase'[a] = "balance" \/ Ordered(down'[a])) /\ Warned(down'[a]))
      BY <2>1, <2>3, <2>4, <2>6
    <3> QED BY <2>1, <3>5, <3>6, <3>7, <3>8, RoundsLocal
  <2> QED BY <2>1, <2>2, <2>5, <2>6
<1> QED BY <1>1, <1>2, <1>3

LEMMA RoundsShutdown ==
  ASSUME Types, Rounds, NEW a \in Agent, Shutdown(a)
  PROVE  Rounds'
<1> USE DEF Rounds
<1>1. /\ a \in Alive /\ stopping[a] /\ UNCHANGED <<down, stopping, vcount>>
      /\ phase'[a] = "gone" \/ phase'[a] = IF phase[a] = "load" THEN "idle" ELSE phase[a]
      /\ \A b \in Agent \ {a} : phase'[b] = phase[b]
      /\ up' = up \/ up' = Tell(a, <<Leave(a, vcount[a])>>)
  BY DEF Shutdown, Types, AgentTypes
<1>2. \A b \in Alive : ~Busy(b)
  BY <1>1 DEF Undisturbed, Leaving
<1>3. \A b \in Agent : Has(up'[b], SYNC) => Has(up[b], SYNC)
  <2>1. CASE up' = Tell(a, <<Leave(a, vcount[a])>>)
    <3>1. Leave(a, vcount[a]) \in UpMessage /\ Leave(a, vcount[a]) # SYNC
      BY MemberMessages, RegisterMessages DEF Types, AgentTypes
    <3>2. \A b \in Agent \ {a} : up'[b] = up[b]
      BY <2>1, <3>1, ToldOne
    <3>3. Has(up'[a], SYNC) <=> Has(up[a], SYNC) \/ SYNC = Leave(a, vcount[a])
      BY <2>1, <3>1, ToldOne
    <3> QED BY <3>1, <3>2, <3>3
  <2> QED BY <1>1, <2>1
<1>4. \A b \in Agent : ~Has(up'[b], SYNC)
  BY <1>2, <1>3 DEF Synced, Busy
<1>5. \A b \in Agent \ {a} : up'[b] = up[b]
  <2>1. Leave(a, vcount[a]) \in UpMessage
    BY MemberMessages DEF Types, AgentTypes
  <2> QED BY <1>1, <2>1, ToldOne
<1>6. Alive' \subseteq Alive /\ NoThrow'
  BY <1>1 DEF Alive, NoThrow
<1>7. ASSUME NEW b \in Alive' PROVE ~Busy(b)'
  <2>1. b \in Alive /\ b \in Agent /\ ~Busy(b)
    BY <1>2, <1>6, AliveAgent
  <2>2. CASE b # a
    BY <1>1, <1>5, <2>1, <2>2, SameSituation
  <2>3. CASE b = a
    <3>1. phase'[a] \notin {"balance", "hold"}
      BY <1>1, <2>1, <2>3 DEF Busy
    <3> QED BY <1>1, <1>4, <2>1, <2>3, <3>1 DEF Busy, Resizing
  <2> QED BY <2>2, <2>3
<1> QED BY <1>4, <1>6, <1>7, RoundsIdle

LEMMA RoundsStop ==
  ASSUME Types, Rounds, Careful, NEW a \in Agent, Stop(a)
  PROVE  Rounds'
<1>1. Quiet /\ UNCHANGED <<phase, up, down>>
  BY DEF Stop, netVars
<1>2. /\ \A b \in Agent : \A k : ~Has(up[b], k) /\ ~Has(down[b], k)
      /\ \A b \in Agent : down[b] = <<>> /\ phase[b] \in {"out", "load", "idle", "gone"}
  BY <1>1, QuietNothing
<1>3. NoThrow' /\ Alive' = Alive
  BY <1>1 DEF Rounds, NoThrow, Alive
<1>4. ASSUME NEW b \in Alive PROVE ~Busy(b)'
  <2>1. b \in Agent /\ ~Ordered(down[b])
    BY <1>2, AliveAgent, DownEmpty
  <2> QED BY <1>1, <1>2, <2>1 DEF Busy, Resizing
<1>5. \A b \in Agent : ~Has(up'[b], SYNC)
  BY <1>1, <1>2
<1> QED BY <1>3, <1>4, <1>5, RoundsIdle
(* One directory.                                                          *)
LEMMA OneHome ==
  /\ IsFiniteSet(Homed) /\ (Cardinality(Homed) = 1 => OneHomed)
<1> DEFINE f == [a \in Agent |-> home[a]]
<1>1. f \in Surjection(Agent, Homed)
  BY DEF Homed, Surjection
<1> HIDE DEF f
<1>2. IsFiniteSet(Homed)
  BY <1>1, CountedFinite, FS_Surjection
<1> QED BY <1>2, FS_Singleton DEF OneHomed

LEMMA RoundsCommand ==
  ASSUME Orderly, Careful, Command, ~Leaving'
  PROVE  Rounds'
<1> USE DEF Orderly, Course, Books
<1>1. /\ Quiet /\ Cardinality(Homed) = 1 /\ UNCHANGED <<agentVars, dirVars, up, home>>
      /\ \E c \in Commands : Order(c) \in DownMessage /\ \A a \in Agent : down'[a] = IF a \in Alive THEN Append(down[a], Order(c)) ELSE down[a]
  BY CommandCases
<1>2. PICK c \in Commands : Order(c) \in DownMessage /\ \A a \in Agent : down'[a] = IF a \in Alive THEN Append(down[a], Order(c)) ELSE down[a]
  BY <1>1
<1> DEFINE o == Order(c)
<1>3. o.type \in {"DO_VA", "DO_CS_LB"} /\ ~IsList(o) /\ o # DONE
  <2>1. o.type \in {"DO_VA", "DO_CS_LB"}
    BY DEF Order, Plain
  <2> HIDE DEF o
  <2> QED BY <2>1, MarksDistinct DEF IsList
<1> HIDE DEF o
<1>4. /\ OneHomed
      /\ \A a \in Agent : \A k : ~Has(up[a], k) /\ ~Has(down[a], k)
      /\ \A a \in Agent : down[a] = <<>> /\ phase[a] \in {"out", "load", "idle", "gone"}
  BY <1>1, OneHome, QuietNothing
<1>5. /\ UNCHANGED <<phase, stopping, members, vcount, up>>
      /\ Alive' = Alive /\ Homed' = Homed /\ (OneHomed' <=> OneHomed)
  BY <1>1 DEF agentVars, dirVars, Alive, Homed, OneHomed
<1>6. ASSUME NEW a \in Alive
      PROVE  /\ FirstOnly(down'[a]) /\ Ordered(down'[a]) /\ ~Has(down'[a], DONE) /\ Once(down'[a], DONE)
             /\ Waiting(a)' /\ ~Updated(a)' /\ phase'[a] \in {"load", "idle"}
  <2>1. a \in Agent /\ phase'[a] \in {"load", "idle"}
    BY <1>4, <1>5, AliveAgent
  <2>2. /\ down'[a] = Append(down[a], o)
        /\ down[a] \in Seq(DownMessage) /\ o \in DownMessage
    BY <1>2, <2>1 DEF o, Types, NetTypes
  <2>3. /\ Ordered(down'[a])
        /\ down[a] = <<>> => FirstOnly(down'[a])
        /\ News(down'[a]) <=> News(down[a])
        /\ Has(down'[a], DONE) <=> Has(down[a], DONE)
    BY <1>3, <2>2, DownAppend, HasAppend
  <2>4. FirstOnly(down'[a]) /\ ~News(down'[a]) /\ ~Has(down'[a], DONE)
    BY <1>4, <2>1, <2>3, DownEmpty
  <2> QED BY <2>1, <2>3, <2>4, NotThereFollowed DEF Waiting, Updated
<1>7. NoThrow' /\ Commanded'
  BY <1>4, <1>5, <1>6, AliveAgent DEF Rounds, NoThrow, Commanded
<1>8. Finished' /\ Synced'
  BY <1>4, <1>5, <1>6 DEF Finished, Synced
<1>9. Together' /\ Behind'
  BY <1>5, <1>6 DEF Together, Behind
<1>10. Undisturbed'
  BY <1>4, <1>5 DEF Undisturbed
<1> QED BY <1>7, <1>8, <1>9, <1>10 DEF Rounds

(* A list is published.                                                    *)
LEMMA RoundsHeartbeat ==
  ASSUME Types, Rounds, ~Leaving => ~Leaving', NEW d \in Directory, Heartbeat(d)
  PROVE  Rounds'
<1> DEFINE m == Published(d)
<1>1. /\ down' = ToAgents(d, m) /\ m \in DownMessage /\ IsList(m)
      /\ UNCHANGED <<phase, stopping, members, vcount, up, home, syncs>>
  BY HeartbeatCases DEF agentVars, envVars, DownMessage, IsList, ListMessage
<1> HIDE DEF m
<1>2. m # DONE /\ m.type \notin {"DO_VA", "DO_CS_LB"}
  BY <1>1, MarksDistinct DEF IsList
<1>3. /\ Alive' = Alive /\ Homed' = Homed /\ (OneHomed' <=> OneHomed)
      /\ \A a \in Alive : a \in Agent /\ home[a] \in Homed
  BY <1>1, AliveAgent, HomeHomed DEF Alive, Homed, OneHomed
<1>4. ASSUME NEW a \in Alive
      PROVE  /\ Ordered(down'[a]) <=> Ordered(down[a])
             /\ FirstOnly(down'[a])
             /\ Has(down'[a], DONE) <=> Has(down[a], DONE)
             /\ Once(down'[a], DONE)
             /\ Warned(down[a]) => Warned(down'[a])
             /\ News(down'[a]) <=> News(down[a]) \/ (home[a] = d /\ m.changed)
  <2>1. a \in Agent /\ down[a] \in Seq(DownMessage)
    BY <1>3 DEF Types, NetTypes
  <2>2. FirstOnly(down[a]) /\ Once(down[a], DONE)
    BY DEF Rounds, Commanded, Finished
  <2>3. CASE home[a] = d
    <3>1. down'[a] = Append(down[a], m)
      BY <1>1, <2>1, <2>3, ToAgentsTold
    <3>2. /\ Ordered(down'[a]) <=> Ordered(down[a])
          /\ FirstOnly(down'[a])
          /\ Warned(down[a]) => Warned(down'[a])
          /\ News(down'[a]) <=> News(down[a]) \/ m.changed
      BY <1>1, <1>2, <2>1, <2>2, <3>1, DownAppend
    <3>3. (Has(down'[a], DONE) <=> Has(down[a], DONE)) /\ Once(down'[a], DONE)
      BY <1>1, <1>2, <2>1, <2>2, <3>1, HasAppend, OnceAppend
    <3> QED BY <2>3, <3>2, <3>3
  <2>4. CASE home[a] # d
    <3>1. down'[a] = down[a]
      BY <1>1, <2>1, <2>4, ToAgentsTold
    <3> QED BY <2>2, <2>4, <3>1
  <2> QED BY <2>3, <2>4
<1>5. ASSUME NEW a \in Alive
      PROVE  /\ Waiting(a)' <=> Waiting(a)
             /\ Updated(a)' <=> Updated(a) \/ (home[a] = d /\ m.changed)
             /\ Unsent(a)' <=> Unsent(a)
             /\ Busy(a)' <=> Busy(a)
             /\ Waiting(a) => Busy(a)
  BY <1>1, <1>4 DEF Waiting, Updated, Unsent, Busy, Resizing
<1>6. NoThrow' /\ Commanded' /\ Finished'
  BY <1>1, <1>3, <1>4 DEF Rounds, NoThrow, Commanded, Finished
<1>7. Synced'
  BY <1>1, <1>3, <1>4 DEF Rounds, Synced
<1>8. Undisturbed'
  BY <1>3, <1>5 DEF Rounds, Undisturbed
<1>9. Together'
  <2>1. \A a, b \in Alive : Waiting(a)' => Waiting(b)'
    BY <1>5 DEF Rounds, Together
  <2>2. ASSUME NEW a \in Alive, NEW b \in Alive, Waiting(a)', Updated(a)' PROVE Updated(b)'
    <3>1. Waiting(a) /\ Busy(a)
      BY <1>5, <2>2
    <3>2. home[a] = home[b]
      BY <1>3, <3>1 DEF Rounds, Undisturbed, OneHomed
    <3> QED BY <1>5, <2>2, <3>1, <3>2 DEF Rounds, Together
  <2> QED BY <1>3, <2>1, <2>2 DEF Together
<1>10. Behind'
  <2>1. Counted \subseteq Counted'
    BY <1>1, <1>3, <1>5 DEF Counted, Me
  <2>2. \A e \in Homed : syncs'[e] = syncs[e] /\ syncs[e] \in Nat
    BY <1>1, HomedType DEF Types, DirTypes
  <2>3. (\E b \in Alive' : Unsent(b)') /\ (\A b \in Alive' : ~Waiting(b)') =>
           (\E b \in Alive : Unsent(b)) /\ (\A b \in Alive : ~Waiting(b))
    BY <1>3, <1>5
  <2>4. Behind
    BY DEF Rounds
  <2> QED BY <1>3, <2>1, <2>2, <2>3, <2>4, CountedMore
<1> QED BY <1>6, <1>7, <1>8, <1>9, <1>10 DEF Rounds

(* What directories tell each other does not change a round.               *)
LEMMA RoundsFromPeer ==
  ASSUME Types, Registered, Rounds, NEW d \in Directory, NEW e \in Directory, FromPeer(d, e)
  PROVE  Rounds'
<1>1. /\ link[e][d] # <<>> /\ UNCHANGED <<phase, stopping, vcount, up, down>>
  BY DEF FromPeer, agentVars
<1>2. ~OneHomed
  BY <1>1 DEF Registered, Senders, OneHomed
<1>3. \A a \in Alive : ~Busy(a)
  BY <1>2 DEF Rounds, Undisturbed
<1>4. Alive' = Alive /\ NoThrow'
  BY <1>1 DEF Alive, Rounds, NoThrow
<1>5. \A a \in Alive' : ~Busy(a)'
  BY <1>1, <1>3, <1>4, SameSituation
<1>6. \A a \in Agent : a \notin Alive' => ~Has(up'[a], SYNC)
  BY <1>1, <1>4 DEF Rounds, Synced
<1> QED BY <1>4, <1>5, <1>6, RoundsIdle
(* An agent that starts meets nobody in the middle of a round.             *)
LEMMA RoundsStart ==
  ASSUME Types, Lives, Rounds, Careful, ~Leaving => ~Leaving', NEW a \in Agent, Start(a)
  PROVE  Rounds'
<1> DEFINE j == Join(a, vcount[a])
<1>1. /\ phase[a] = "out" /\ ~Balancing /\ phase' = [phase EXCEPT ![a] = "load"] /\ up' = Tell(a, <<NEED, j>>)
      /\ UNCHANGED <<vcount, stopping, members, home, syncs, down>>
  BY DEF Start, NEED, dirVars
<1>2. up[a] = <<>> /\ down[a] = <<>> /\ a \notin Alive
  BY <1>1, AliveAgent DEF Lives
<1>3. /\ phase'[a] = "load" /\ \A b \in Agent \ {a} : phase'[b] = phase[b]
      /\ Alive' = Alive \cup {a}
  BY <1>1 DEF Types, AgentTypes, Alive
<1>4. /\ j \in UpMessage /\ NEED \in UpMessage /\ j # SYNC /\ NEED # SYNC
      /\ \A n : NEED # Leave(a, n) /\ j # Leave(a, n)
  <2>1. j \in UpMessage /\ NEED \in UpMessage
    BY MemberMessages, MarksDistinct DEF Types, AgentTypes
  <2> QED BY <2>1, RegisterMessages, MarksDistinct
<1> HIDE DEF j
<1>5. /\ \A b \in Agent \ {a} : up'[b] = up[b]
      /\ ~Has(up'[a], SYNC) /\ \A n : ~Has(up'[a], Leave(a, n))
  <2>1. /\ \A b \in Agent \ {a} : up'[b] = up[b]
        /\ \A k : Has(up'[a], k) <=> Has(up[a], k) \/ k = NEED \/ k = j
    BY <1>1, <1>4, ToldTwo
  <2>2. \A k : ~Has(up[a], k)
    BY <1>2, EmptyQueue
  <2> QED BY <1>4, <2>1, <2>2
<1>6. ASSUME NEW b \in Agent
      PROVE  /\ phase[b] \notin {"balance", "hold"} /\ ~Ordered(down[b]) /\ ~Has(down[b], DONE)
  <2>1. phase[b] \notin {"balance", "hold"} /\ \A m \in ToSet(down[b]) : m.type \notin {"DO_VA", "DO_CS_LB", "SIMPLE_SYNC_DONE"}
    BY <1>1 DEF Balancing
  <2>2. \A i \in DOMAIN down[b] : down[b][i].type \notin {"DO_VA", "DO_CS_LB", "SIMPLE_SYNC_DONE"}
    BY <2>1 DEF ToSet
  <2> QED BY <2>1, <2>2, MarksDistinct DEF Ordered, Has
<1>7. ASSUME NEW b \in Agent PROVE ~Waiting(b) /\ ~Waiting(b)'
  <2>1. phase'[b] \notin {"balance", "hold"}
    BY <1>3, <1>6
  <2> QED BY <1>1, <1>6, <2>1 DEF Waiting
<1>8. ~Unsent(a)' /\ ~Busy(a)'
  BY <1>1, <1>3, <1>5, <1>6 DEF Unsent, Busy, Resizing
<1>9. ASSUME NEW b \in Alive
      PROVE  b \in Agent \ {a} /\ (Unsent(b)' <=> Unsent(b)) /\ (Busy(b)' <=> Busy(b))
  <2>1. b \in Agent \ {a}
    BY <1>2, AliveAgent
  <2> QED BY <1>1, <1>3, <1>5, <2>1, SameSituation
<1>10. NoThrow'
  BY <1>3 DEF Rounds, NoThrow
<1>11. Commanded' /\ Finished'
  <2>1. \A b \in Agent : FirstOnly(down[b]) /\ Once(down[b], DONE)
    BY <1>6, NotThereFollowed DEF Ordered, FirstOnly
  <2> QED BY <1>1, <1>6, <2>1, AliveAgent DEF Commanded, Finished, Alive
<1>12. Synced'
  <2> SUFFICES ASSUME NEW b \in Agent, Has(up'[b], SYNC)
               PROVE  b \in Alive' /\ Once(up'[b], SYNC) /\ phase'[b] # "balance" /\ ~Ordered(down'[b]) /\ Settled(up'[b])
    BY DEF Synced
  <2>1. b \in Agent \ {a} /\ up'[b] = up[b] /\ phase'[b] = phase[b]
    BY <1>3, <1>5
  <2> QED BY <1>1, <1>3, <2>1 DEF Rounds, Synced
<1>13. Together'
  BY <1>7 DEF Together, Alive
<1>14. Homed' = Homed /\ (OneHomed' <=> OneHomed)
  BY <1>1 DEF Homed, OneHomed
<1>15. Undisturbed'
  BY <1>3, <1>8, <1>9, <1>14 DEF Rounds, Undisturbed
<1>16. Behind'
  <2>1. Counted \subseteq Counted'
    <3> SUFFICES ASSUME NEW b \in Counted PROVE b \in Counted'
      OBVIOUS
    <3>1. b \in Alive /\ ~Unsent(b) /\ Me(b) \in members[home[b]] /\ \A n : ~Has(up[b], Leave(b, n))
      BY DEF Counted
    <3>2. b \in Alive' /\ ~Unsent(b)' /\ up'[b] = up[b]
      BY <1>3, <1>5, <1>9, <3>1
    <3> QED BY <1>1, <3>1, <3>2 DEF Counted, Me
  <2>2. \A e \in Homed : syncs'[e] = syncs[e] /\ syncs[e] \in Nat
    BY <1>1, HomedType DEF Types, DirTypes
  <2>3. (\E b \in Alive' : Unsent(b)') /\ (\A b \in Alive' : ~Waiting(b)') =>
           (\E b \in Alive : Unsent(b)) /\ (\A b \in Alive : ~Waiting(b))
    BY <1>3, <1>7, <1>8, <1>9
  <2>4. Behind
    BY DEF Rounds
  <2> QED BY <1>14, <2>1, <2>2, <2>3, <2>4, CountedMore
<1> QED BY <1>10, <1>11, <1>12, <1>13, <1>15, <1>16 DEF Rounds
LEMMA RoundsPopped ==
  ASSUME Types, Rounds, ~Leaving => ~Leaving', NEW a \in Agent, up[a] # <<>>, Head(up[a]) # SYNC,
         up' = [up EXCEPT ![a] = Tail(up[a])], UNCHANGED <<phase, vcount, stopping, home, syncs, down>>,
         \A b \in Alive : Me(b) \in members[home[b]] /\ (\A n : ~Has(up[b], Leave(b, n))) => Me(b) \in members'[home[b]]
  PROVE  Rounds'
<1>1. /\ up[a] \in Seq(UpMessage) /\ up'[a] = Tail(up[a])
      /\ \A b \in Agent \ {a} : up'[b] = up[b]
  BY DEF Types, NetTypes
<1>2. \A b \in Agent : \A k : /\ Has(up'[b], k) => Has(up[b], k)
                              /\ Has(up'[b], SYNC) <=> Has(up[b], SYNC)
                              /\ Once(up[b], k) => Once(up'[b], k)
                              /\ Settled(up[b]) => Settled(up'[b])
  <2>1. \A k : /\ Has(up'[a], k) => Has(up[a], k)
               /\ Has(up'[a], SYNC) <=> Has(up[a], SYNC)
               /\ Once(up[a], k) => Once(up'[a], k)
    BY <1>1, HasTail, OnceTail
  <2>2. Settled(up[a]) => Settled(up'[a])
    BY <1>1, SettledTail
  <2> QED BY <1>1, <2>1, <2>2
<1>3. Alive' = Alive /\ Homed' = Homed /\ (OneHomed' <=> OneHomed) /\ \A b \in Alive : b \in Agent
  BY AliveAgent DEF Alive, Homed, OneHomed
<1>4. ASSUME NEW b \in Alive
      PROVE  /\ Waiting(b)' <=> Waiting(b)
             /\ Updated(b)' <=> Updated(b)
             /\ Unsent(b)' <=> Unsent(b)
             /\ Busy(b)' => Busy(b)
  BY <1>2, <1>3 DEF Waiting, Updated, Unsent, Busy, Resizing
<1>5. NoThrow' /\ Commanded' /\ Finished' /\ Synced'
  <2>1. NoThrow' /\ Finished'
    BY <1>3 DEF Rounds, NoThrow, Finished
  <2>2. Commanded'
    BY <1>2, <1>3 DEF Rounds, Commanded
  <2>3. Synced'
    BY <1>2, <1>3 DEF Rounds, Synced
  <2> QED BY <2>1, <2>2, <2>3
<1>6. Together' /\ Undisturbed'
  BY <1>3, <1>4 DEF Rounds, Together, Undisturbed
<1>7. Behind'
  <2>1. Counted \subseteq Counted'
    <3> SUFFICES ASSUME NEW b \in Counted PROVE b \in Counted'
      OBVIOUS
    <3>1. b \in Alive /\ ~Unsent(b) /\ Me(b) \in members[home[b]] /\ \A n : ~Has(up[b], Leave(b, n))
      BY DEF Counted
    <3>2. b \in Alive' /\ ~Unsent(b)' /\ Me(b) \in members'[home[b]] /\ \A n : ~Has(up'[b], Leave(b, n))
      BY <1>2, <1>3, <1>4, <3>1
    <3> QED BY <3>2 DEF Counted, Me
  <2>2. \A e \in Homed : syncs'[e] = syncs[e] /\ syncs[e] \in Nat
    BY HomedType DEF Types, DirTypes
  <2>3. (\E b \in Alive' : Unsent(b)') /\ (\A b \in Alive' : ~Waiting(b)') =>
           (\E b \in Alive : Unsent(b)) /\ (\A b \in Alive : ~Waiting(b))
    BY <1>3, <1>4
  <2>4. Behind
    BY DEF Rounds
  <2> QED BY <1>3, <2>1, <2>2, <2>3, <2>4, CountedMore
<1> QED BY <1>5, <1>6, <1>7 DEF Rounds

(* Agents on a list are no more than its entries.                          *)
LEMMA AgentsListed ==
  ASSUME Types, NEW d \in Directory, NEW S \in SUBSET Agent, \A b \in S : Me(b) \in members[d]
  PROVE  Cardinality(S) <= Cardinality(members[d]) /\ Cardinality(members[d]) \in Nat
<1> DEFINE f == [b \in S |-> Me(b)]
<1>1. f \in Injection(S, members[d])
  <2>1. f \in [S -> members[d]]
    OBVIOUS
  <2>2. ASSUME NEW b \in S, NEW c \in S, f[b] = f[c] PROVE b = c
    BY <2>2 DEF Me
  <2> HIDE DEF f
  <2> QED BY <2>1, <2>2 DEF Injection, IsInjective
<1>2. IsFiniteSet(members[d])
  <2>1. members[d] \in SUBSET Member
    BY DEF Types, DirTypes
  <2> QED BY <2>1, MemberPairs, FS_Subset
<1> HIDE DEF f
<1> QED BY <1>1, <1>2, FS_Injection, FS_CardinalityType

(* The report of an agent that has the new list.                           *)
LEMMA RoundsReport ==
  ASSUME Types, Registered, Rounds, ~Leaving => ~Leaving', NEW a \in Agent, up[a] # <<>>, Head(up[a]) = SYNC,
         up' = [up EXCEPT ![a] = Tail(up[a])], UNCHANGED <<phase, vcount, stopping, home, members>>,
         \/ /\ syncs[home[a]] + 1 >= Cardinality(members[home[a]]) /\ syncs' = [syncs EXCEPT ![home[a]] = 0]
            /\ down' = ToAgents(home[a], DONE)
         \/ /\ ~(syncs[home[a]] + 1 >= Cardinality(members[home[a]])) /\ syncs' = [syncs EXCEPT ![home[a]] = syncs[home[a]] + 1]
            /\ UNCHANGED down
  PROVE  Rounds'
<1> DEFINE d == home[a]
<1>1. /\ up[a] \in Seq(UpMessage) /\ up'[a] = Tail(up[a]) /\ Has(up[a], SYNC)
      /\ \A b \in Agent \ {a} : up'[b] = up[b]
  BY HasTail DEF Types, NetTypes
<1>2. a \in Alive /\ Once(up[a], SYNC) /\ phase[a] # "balance" /\ ~Ordered(down[a]) /\ Settled(up[a])
  BY <1>1 DEF Rounds, Synced
<1>3. OneHomed /\ ~Leaving /\ ~stopping[a] /\ Unsent(a)
  <2>1. Busy(a) /\ Unsent(a)
    BY <1>1 DEF Busy, Unsent
  <2>2. Undisturbed
    BY DEF Rounds
  <2> QED BY <1>2, <2>1, <2>2, OrderedAlone
<1>4. ~Has(up'[a], SYNC) /\ \A n : ~Has(up'[a], Leave(a, n)) /\ ~Has(up'[a], Join(a, n))
  <2>1. ~Has(up'[a], SYNC)
    BY <1>1, <1>2, OnceTail
  <2>2. \A n : ~Has(up'[a], Leave(a, n)) /\ ~Has(up'[a], Join(a, n))
    BY <1>1, <1>2, SettledTail, MarksDistinct
  <2> QED BY <2>1, <2>2
<1>5. \A n : ~Has(up[a], Leave(a, n)) /\ ~Has(up[a], Join(a, n))
  BY <1>1, <1>4, HasTail, MarksDistinct
<1>6. Me(a) \in members[d] /\ d \in Directory /\ d \in Homed
  BY <1>2, <1>3, <1>5, HomeType, HomeHomed DEF Registered, Known
<1>7. /\ Alive' = Alive /\ Homed' = Homed /\ (OneHomed' <=> OneHomed)
      /\ \A b \in Alive : b \in Agent /\ home[b] = d
      /\ \A e \in Homed : e = d
  <2>1. Alive' = Alive /\ Homed' = Homed /\ (OneHomed' <=> OneHomed)
    BY DEF Alive, Homed, OneHomed
  <2>2. \A e \in Homed : e = d
    BY <1>3, <1>6 DEF OneHomed
  <2>3. \A b \in Alive : b \in Agent /\ home[b] = d
    BY <2>2, AliveAgent, HomeHomed
  <2> QED BY <2>1, <2>2, <2>3
<1> DEFINE both == Counted \cup {a}
<1>8. /\ a \notin Counted /\ both \in SUBSET Agent
      /\ Cardinality(both) = Cardinality(Counted) + 1 /\ Cardinality(Counted) \in Nat
      /\ \A b \in both : Me(b) \in members[d]
  <2>1. a \notin Counted /\ \A b \in Counted : b \in Alive /\ Me(b) \in members[home[b]]
    BY <1>3 DEF Counted
  <2>2. both \in SUBSET Agent /\ \A b \in both : Me(b) \in members[d]
    BY <1>6, <1>7, <2>1
  <2>3. Cardinality(both) = Cardinality(Counted) + 1 /\ Cardinality(Counted) \in Nat
    BY <2>1, CountedFinite, FS_AddElement
  <2> QED BY <2>1, <2>2, <2>3
<1>9. /\ Cardinality(both) <= Cardinality(members[d]) /\ Cardinality(members[d]) \in Nat
      /\ syncs[d] \in Nat
  BY <1>6, <1>8, AgentsListed DEF Types, DirTypes
<1> HIDE DEF both
<1>10. \A b \in Agent : /\ Has(up'[b], SYNC) => Has(up[b], SYNC) /\ up'[b] = up[b]
                        /\ \A k : Has(up'[b], k) => Has(up[b], k)
  <2>1. \A k : Has(up'[a], k) => Has(up[a], k)
    BY <1>1, HasTail
  <2> QED BY <1>1, <1>4, <2>1
<1>11. ASSUME \A b \in Alive : Ordered(down'[b]) <=> Ordered(down[b])
       PROVE  /\ Synced'
              /\ ~Unsent(a)' /\ \A b \in Alive \ {a} : Unsent(b)' <=> Unsent(b)
              /\ both \subseteq Counted'
  <2>1. Synced'
    BY <1>7, <1>10, <1>11 DEF Rounds, Synced
  <2>2. ~Unsent(a)' /\ \A b \in Alive \ {a} : Unsent(b)' <=> Unsent(b)
    BY <1>1, <1>2, <1>4, <1>7, <1>11 DEF Unsent
  <2>3. ASSUME NEW b \in Counted PROVE b \in Counted'
    <3>1. b \in Alive /\ ~Unsent(b) /\ Me(b) \in members[home[b]] /\ \A n : ~Has(up[b], Leave(b, n))
      BY DEF Counted
    <3>2. b # a
      BY <1>8
    <3>3. b \in Alive' /\ ~Unsent(b)' /\ \A n : ~Has(up'[b], Leave(b, n))
      BY <1>7, <1>10, <2>2, <3>1, <3>2
    <3> QED BY <3>1, <3>3 DEF Counted, Me
  <2>4. a \in Counted'
    BY <1>2, <1>4, <1>6, <1>7, <2>2 DEF Counted, Me
  <2> QED BY <2>1, <2>2, <2>3, <2>4 DEF both
<1>12. NoThrow' /\ Undisturbed'
  BY <1>3, <1>7 DEF Rounds, NoThrow, Undisturbed
<1>13. CASE syncs[d] + 1 >= Cardinality(members[d]) /\ syncs' = [syncs EXCEPT ![d] = 0] /\ down' = ToAgents(d, DONE)
  <2>1. \E b \in Alive : Waiting(b)
    <3> SUFFICES ASSUME \A b \in Alive : ~Waiting(b) PROVE FALSE
      OBVIOUS
    <3>1. syncs[d] < Cardinality(Counted)
      BY <1>2, <1>3, <1>6 DEF Rounds, Behind
    <3> QED BY <1>8, <1>9, <1>13, <3>1
  <2>2. \A b \in Alive : Waiting(b)
    BY <2>1 DEF Rounds, Together
  <2>3. \A b \in Alive : Updated(b)
    <3>1. Waiting(a) /\ Updated(a)
      BY <1>2, <2>2 DEF Waiting, Updated
    <3> QED BY <1>2, <3>1 DEF Rounds, Together
  <2>4. ASSUME NEW b \in Alive
        PROVE  /\ Ordered(down'[b]) <=> Ordered(down[b])
               /\ FirstOnly(down'[b])
               /\ Has(down'[b], DONE) /\ Once(down'[b], DONE)
               /\ phase'[b] = "hold" \/ ((phase'[b] = "balance" \/ Ordered(down'[b])) /\ Warned(down'[b]))
    <3>1. down'[b] = Append(down[b], DONE) /\ down[b] \in Seq(DownMessage) /\ DONE \in DownMessage
      BY <1>6, <1>7, <1>13, ToAgentsTold, MarksDistinct DEF Types, NetTypes
    <3>2. ~Has(down[b], DONE) /\ FirstOnly(down[b]) /\ Once(down[b], DONE)
      BY <2>2 DEF Waiting, Rounds, Commanded, Finished
    <3>3. ~IsList(DONE) /\ DONE.type \notin {"DO_VA", "DO_CS_LB"}
      BY MarksDistinct DEF IsList
    <3>4. /\ Ordered(down'[b]) <=> Ordered(down[b])
          /\ FirstOnly(down'[b])
          /\ News(down[b]) => (Warned(down[b]) => Warned(down'[b]))
      BY <3>1, <3>2, <3>3, DownAppend
    <3>5. Has(down'[b], DONE) /\ Once(down'[b], DONE)
      BY <3>1, <3>2, HasAppend, OnceAppend
    <3>6. Warned(down[b])
      BY <3>2 DEF Warned, Has
    <3>7. phase[b] = "hold" \/ ((phase[b] = "balance" \/ Ordered(down[b])) /\ News(down[b]))
      BY <2>2, <2>3 DEF Waiting, Updated
    <3> QED BY <3>4, <3>5, <3>6, <3>7
  <2>5. Synced' /\ both \subseteq Counted'
    BY <1>11, <2>4
  <2>6. Commanded'
    BY <1>7, <1>10, <2>4 DEF Rounds, Commanded
  <2>7. Finished' /\ Together'
    BY <1>7, <2>4 DEF Finished, Together, Waiting
  <2>8. Behind'
    <3>1. a \in Counted' /\ Counted' \in SUBSET Agent
      BY <2>5 DEF both, Counted, Alive
    <3>2. IsFiniteSet(Counted') /\ Cardinality(Counted') \in Nat
      BY <3>1, CountedFinite
    <3>3. Cardinality(Counted') # 0
      BY <3>1, <3>2, FS_EmptySet
    <3>4. syncs'[d] = 0
      BY <1>6, <1>13 DEF Types, DirTypes
    <3> QED BY <1>7, <3>2, <3>3, <3>4 DEF Behind
  <2> QED BY <1>12, <2>5, <2>6, <2>7, <2>8 DEF Rounds
<1>14. CASE syncs' = [syncs EXCEPT ![d] = syncs[d] + 1] /\ UNCHANGED down
  <2>1. /\ Synced' /\ both \subseteq Counted'
        /\ ~Unsent(a)' /\ \A b \in Alive \ {a} : Unsent(b)' <=> Unsent(b)
    BY <1>11, <1>14
  <2>2. Commanded' /\ Finished'
    <3>1. Commanded'
      BY <1>7, <1>10, <1>14 DEF Rounds, Commanded
    <3>2. Finished'
      BY <1>7, <1>14 DEF Rounds, Finished
    <3> QED BY <3>1, <3>2
  <2>3. \A b \in Alive : (Waiting(b)' <=> Waiting(b)) /\ (Updated(b)' <=> Updated(b))
    BY <1>14 DEF Waiting, Updated
  <2>4. Together'
    BY <1>7, <2>3 DEF Rounds, Together
  <2>5. Behind'
    <3> SUFFICES ASSUME \A b \in Alive' : ~Waiting(b)' PROVE \A e \in Homed' : syncs'[e] < Cardinality(Counted')
      BY DEF Behind
    <3>1. syncs[d] < Cardinality(Counted)
      BY <1>2, <1>3, <1>6, <1>7, <2>3 DEF Rounds, Behind
    <3>2. Counted' \in SUBSET Agent /\ both \in SUBSET Counted'
      BY <2>1 DEF Counted, Alive
    <3>3. Cardinality(both) <= Cardinality(Counted') /\ Cardinality(Counted') \in Nat
      BY <3>2, CountedFinite
    <3>4. syncs'[d] = syncs[d] + 1
      BY <1>6, <1>14 DEF Types, DirTypes
    <3>5. syncs'[d] < Cardinality(Counted')
      BY <1>8, <1>9, <3>1, <3>3, <3>4
    <3> QED BY <1>7, <3>5
  <2> QED BY <1>12, <2>1, <2>2, <2>4, <2>5 DEF Rounds
<1> QED BY <1>13, <1>14

LEMMA RoundsFromAgent ==
  ASSUME Types, Registered, Rounds, ~Leaving => ~Leaving', NEW a \in Agent, FromAgent(a)
  PROVE  Rounds'
<1> DEFINE m == Head(up[a])
           d == home[a]
<1>1. /\ up[a] # <<>> /\ m \in UpMessage /\ d \in Directory
      /\ up' = [up EXCEPT ![a] = Tail(up[a])] /\ UNCHANGED <<phase, vcount, stopping, home>>
      /\ \/ /\ m.type \in {"AGENT_JOIN", "AGENT_LEAVE"} /\ ChangeMembers(d, m, link) /\ UNCHANGED <<syncs, down>>
         \/ m.type \notin {"AGENT_JOIN", "AGENT_LEAVE", "SIMPLE_SYNC"} /\ UNCHANGED <<members, syncs, down>>
         \/ /\ m.type = "SIMPLE_SYNC" /\ syncs[d] + 1 >= Cardinality(members[d])
            /\ syncs' = [syncs EXCEPT ![d] = 0] /\ down' = ToAgents(d, DONE) /\ UNCHANGED members
         \/ /\ m.type = "SIMPLE_SYNC" /\ ~(syncs[d] + 1 >= Cardinality(members[d]))
            /\ syncs' = [syncs EXCEPT ![d] = syncs[d] + 1] /\ UNCHANGED <<members, down>>
  BY FromAgentCases DEF agentVars, envVars, DONE
<1>2. m.type = "SIMPLE_SYNC" <=> m = SYNC
  BY <1>1, MarksDistinct
<1>3. CASE m.type \in {"AGENT_JOIN", "AGENT_LEAVE"} /\ ChangeMembers(d, m, link) /\ UNCHANGED <<syncs, down>>
  <2>1. PICK n \in 1 .. VAgents : m \in {Join(a, n), Leave(a, n)} /\ Has(up[a], m)
    BY <1>1, <1>3, HeadMember
  <2>2. /\ members' = [members EXCEPT ![d] = Changed(d, m)]
        /\ members'[d] = Changed(d, m) /\ \A e \in Directory \ {d} : members'[e] = members[e]
    <3>1. members' = [members EXCEPT ![d] = Changed(d, m)]
      BY <1>1, <1>3, MembersAt
    <3> QED BY <1>1, <3>1 DEF Types, DirTypes
  <2>3. ASSUME NEW b \in Alive, Me(b) \in members[home[b]], \A k : ~Has(up[b], Leave(b, k)) PROVE Me(b) \in members'[home[b]]
    <3>1. b \in Agent /\ home[b] \in Directory
      BY AliveAgent, HomeType
    <3>2. CASE home[b] # d
      BY <2>2, <2>3, <3>1, <3>2
    <3>3. CASE home[b] = d /\ m = Join(a, n)
      BY <2>2, <2>3, <3>3, JoinedBy
    <3>4. CASE home[b] = d /\ m = Leave(a, n)
      <4>1. Me(b) # <<a, n>>
        BY <2>1, <2>3, <3>4 DEF Me
      <4> QED BY <2>2, <2>3, <3>4, <4>1, JoinedBy
    <3> QED BY <2>1, <3>2, <3>3, <3>4
  <2>4. m # SYNC
    BY <1>2, <1>3
  <2> HIDE DEF d
  <2> QED BY <1>1, <1>3, <2>3, <2>4, RoundsPopped
<1>4. CASE m.type \notin {"AGENT_JOIN", "AGENT_LEAVE", "SIMPLE_SYNC"} /\ UNCHANGED <<members, syncs, down>>
  <2>1. m # SYNC
    BY <1>2, <1>4
  <2> QED BY <1>1, <1>4, <2>1, RoundsPopped
<1>5. CASE m.type = "SIMPLE_SYNC"
  BY <1>1, <1>2, <1>5, RoundsReport
<1> QED BY <1>1, <1>3, <1>4, <1>5
LEMMA RoundsNext ==
  ASSUME Careful, Orderly, [Next]_vars
  PROVE  Rounds'
<1> USE DEF Orderly, Course, Books
<1>1. ASSUME NEW a \in Agent, Stop(a) PROVE Rounds'
  BY <1>1, RoundsStop
<1>2. CASE stopping' = stopping
  <2>0. ~Leaving => ~Leaving'
    BY <1>2, LeavingNext
  <2>1. ASSUME NEW a \in Agent, RecvDown(a) PROVE Rounds'
    BY <2>0, <2>1, RoundsDown
  <2>2. ASSUME NEW a \in Agent, RecvPeers(a) PROVE Rounds'
    BY <2>0, <2>2, RoundsPeers
  <2>3. ASSUME NEW a \in Agent, Shutdown(a) PROVE Rounds'
    BY <2>3, RoundsShutdown
  <2>4. ASSUME NEW a \in Agent, FromAgent(a) PROVE Rounds'
    BY <2>0, <2>4, RoundsFromAgent
  <2>5. ASSUME NEW d \in Directory, Heartbeat(d) PROVE Rounds'
    BY <2>0, <2>5, RoundsHeartbeat
  <2>6. ASSUME NEW d \in Directory, NEW e \in Directory, FromPeer(d, e) PROVE Rounds'
    BY <2>6, RoundsFromPeer
  <2>7. ASSUME NEW a \in Agent, Start(a) PROVE Rounds'
    BY <2>0, <2>7, RoundsStart
  <2>8. ASSUME NEW a \in Agent, RecvUpdateEdge(a) PROVE Rounds'
    <3>1. UNCHANGED <<phase, up, down, vcount, stopping, members, home, syncs>>
      BY <2>8 DEF RecvUpdateEdge, dirVars, netVars
    <3> QED BY <2>0, <3>1, RoundsUntouched
  <2>9. CASE Command
    <3>1. Quiet
      BY <2>9, CommandCases
    <3> QED BY <2>0, <2>9, <3>1, Calm, RoundsCommand
  <2>10. CASE Done \/ UNCHANGED vars
    <3>1. UNCHANGED <<phase, up, down, vcount, stopping, members, home, syncs>>
      BY <2>10 DEF Done, vars, agentVars, dirVars, netVars, envVars
    <3> QED BY <2>0, <3>1, RoundsUntouched
  <2> QED BY <1>1, <2>1, <2>2, <2>3, <2>4, <2>5, <2>6, <2>7, <2>8, <2>9, <2>10 DEF Next
<1> QED BY <1>1, <1>2, StoppingNext

-----------------------------------------------------------------------------
(* All of it is inductive.                                                 *)

LEMMA OrderlyInit ==
  ASSUME Fitting, Init PROVE Orderly
<1>1. Course /\ Types
  BY CourseInit DEF Course, Books
<1> DEFINE mem == First \X {VAgents}
<1>2. PICK begun \in BOOLEAN :
        /\ phase = [a \in Agent |-> IF a \notin First THEN "out" ELSE IF begun THEN "idle" ELSE "load"]
        /\ view = [a \in Agent |-> IF a \in First THEN mem ELSE {}]
        /\ members = [d \in Directory |-> mem]
  BY DEF Init
<1>3. /\ \A a \in Agent : /\ ~stopping[a] /\ up[a] = <<>> /\ down[a] = <<>> /\ vcount[a] = VAgents
                          /\ phase[a] \in {"out", "load", "idle"} /\ (phase[a] = "out" <=> a \notin First)
                          /\ (a \in First => view[a] = mem)
      /\ \A d, e \in Directory : link[d][e] = <<>>
      /\ \A d \in Directory : members[d] = mem /\ notify[d] = "no"
  <2>1. \A a \in Agent : ~stopping[a] /\ up[a] = <<>> /\ down[a] = <<>> /\ vcount[a] = VAgents
    BY DEF Init
  <2>2. \A a \in Agent : phase[a] \in {"out", "load", "idle"} /\ (phase[a] = "out" <=> a \notin First)
    BY <1>2
  <2>3. \A a \in Agent : a \in First => view[a] = mem
    BY <1>2
  <2>4. /\ \A d, e \in Directory : link[d][e] = <<>>
        /\ \A d \in Directory : notify[d] = "no"
    BY DEF Init
  <2>5. \A d \in Directory : members[d] = mem
    BY <1>2
  <2> QED BY <2>1, <2>2, <2>3, <2>4, <2>5
<1>4. /\ \A a \in Agent : \A k : ~Has(up[a], k) /\ ~Has(down[a], k)
      /\ \A d, e \in Directory : \A k : ~Has(link[d][e], k)
  BY <1>3, EmptyQueue
<1>5. /\ \A a \in Agent : a \in Alive <=> a \in First
      /\ \A a \in Alive : a \in Agent
      /\ \A a \in Agent : home[a] \in Directory
      /\ \A d \in Homed : d \in Directory
  <2>1. \A a \in Agent : a \in Alive <=> a \in First
    BY <1>3 DEF Alive
  <2> QED BY <1>1, <2>1, AliveAgent, HomeType, HomedType
<1>6. /\ \A a \in First : Me(a) \in mem
      /\ \A m \in mem : m[1] \in First /\ m[1] \in Agent /\ m[2] = VAgents
  BY <1>3, ElasticAssumption DEF Me
<1> HIDE DEF mem
<1>7. Registered
  <2>1. Senders /\ Joins /\ Unknown
    BY <1>3, <1>4 DEF Senders, Joins, Unknown
  <2>2. Leaves
    BY <1>3, <1>4, NotThereFollowed DEF Leaves
  <2>3. Known
    BY <1>3, <1>5, <1>6 DEF Known
  <2>4. Entries
    BY <1>3, <1>5, <1>6 DEF Entries
  <2>5. Removed
    BY <1>3 DEF Removed
  <2> QED BY <2>1, <2>2, <2>3, <2>4, <2>5 DEF Registered
<1>8. Heard
  <2> SUFFICES ASSUME NEW a \in Alive PROVE view[a] # {}
    BY DEF Heard
  <2>1. a \in First /\ view[a] = mem
    BY <1>3, <1>5
  <2> QED BY <1>6, <2>1
<1>9. ASSUME NEW a \in Agent
      PROVE  ~Ordered(down[a]) /\ FirstOnly(down[a]) /\ ~Busy(a) /\ ~Waiting(a) /\ ~Unsent(a)
  <2>1. ~Ordered(down[a]) /\ FirstOnly(down[a])
    BY <1>3, DownEmpty
  <2>2. phase[a] \notin {"balance", "hold"}
    BY <1>3
  <2> QED BY <1>4, <2>1, <2>2 DEF Busy, Waiting, Unsent, Resizing
<1>10. Rounds
  <2>1. NoThrow /\ Commanded
    BY <1>3, <1>5, <1>9 DEF NoThrow, Commanded
  <2>2. Finished /\ Synced
    BY <1>4, <1>5, NotThereFollowed DEF Finished, Synced
  <2>3. Together /\ Undisturbed /\ Behind
    BY <1>5, <1>9 DEF Together, Undisturbed, Behind
  <2> QED BY <2>1, <2>2, <2>3 DEF Rounds
<1>11. Parted
  BY <1>3, <1>5 DEF Parted, Alone, Parting, Staying, Parts
<1> QED BY <1>1, <1>7, <1>8, <1>10, <1>11 DEF Orderly

LEMMA OrderlyNext ==
  ASSUME Careful, Orderly, [Next]_vars PROVE Orderly'
<1>1. Course' /\ Heard'
  BY CourseNext, HeardNext DEF Orderly, Course
<1>2. Registered' /\ Rounds'
  BY RegisteredNext, RoundsNext
<1>3. Parted'
  BY PartingNext, AloneNext, StayingNext DEF Parted
<1> QED BY <1>1, <1>2, <1>3 DEF Orderly

(* No agent is asked to move its edges before it has the new list, if the  *)
(* operator waits: SIMPLE_SYNC_DONE goes out only when every agent of the  *)
(* list has reported, and none is on its way from an earlier round         *)
(* (agent.cpp:844-852).                                                    *)
THEOREM BalancedTogether == ASSUME Fitting, Careful PROVE Spec => []NoThrow
<1>1. Init => Orderly
  BY OrderlyInit
<1>2. Orderly /\ [Next]_vars => Orderly'
  BY OrderlyNext
<1>3. Orderly => NoThrow
  BY OrderlyLists
<1> QED BY <1>1, <1>2, <1>3, PTL DEF Spec

(* At rest every directory and every agent has exactly the running agents  *)
(* on its list, with the virtual agents they have, however many joined,    *)
(* left and resized, if the operator waits (directory.cpp:353).            *)
THEOREM SameLists == ASSUME Fitting, Careful PROVE Spec => []ListsExact
<1>1. Init => Orderly
  BY OrderlyInit
<1>2. Orderly /\ [Next]_vars => Orderly'
  BY OrderlyNext
<1>3. Orderly => ListsExact
  BY OrderlyLists
<1> QED BY <1>1, <1>2, <1>3, PTL DEF Spec

-----------------------------------------------------------------------------
(* No edge is lost.                                                        *)

VA == Plain("DO_VA")

(* The copies there are of the edges.                                      *)
Expected == {InCopy(e) : e \in edges} \cup {OutCopy(e) : e \in transposed}

(* A round has an agent with edges to spare room for: it is on every list, *)
(* and stays on them.                                                      *)
Standing(z) ==
  /\ z \in Alive /\ ~stopping[z]
  /\ \A d \in Homed : Me(z) \in members[d]
  /\ \A n : ~Has(up[z], Leave(z, n))
  /\ Has(down[z], VA) => ~Overloaded(z) /\ Waiting(z)
Somebody == \E z \in Alive : Standing(z)

(* Agents that balance the load have nothing else under way, and lists.    *)
Engaged(a) == phase[a] \in {"balance", "hold"} \/ Ordered(down[a])
Unloaded == (\E a \in Alive : Waiting(a)) => \A a, b \in Agent : peer[a][b] = <<>>
Filled ==
  \A a \in Alive : /\ \A i \in DOMAIN down[a] : IsList(down[a][i]) => down[a][i].members # {}
                   /\ Engaged(a) => view[a] # {}

(* Who is on a list runs, or was told to stop; what waits to be sent, or   *)
(* is on its way, goes to an agent that runs, or waits for agent 0.        *)
Traced == \A b \in Agent : Listed(b) => b \in Alive \/ stopping[b]
Deposits ==
  /\ \A a \in Agent : \A x \in moves[a] : a \in Alive /\ x[1] \in Alive \cup {Nobody}
  /\ Leaving => \A a \in Agent : moves[a] = {}
Delivered == \A a, b \in Agent : \A c \in Copy : Carried(peer[a][b], c) => b \in Alive

(* What an agent s had when it was told to stop is there, at its next      *)
(* owner, or between the two; whoever sends it to s acknowledges something *)
(* afterwards, so that s does not leave before it has come.                *)
Heir(s, c) == Owner(Full(s) \ {Me(s)}, c)
HandedOver ==
  \A s \in Agent : Parts(s) => \A c \in Copy : Owner(Full(s), c) = s =>
    /\ \A a \in Agent : c \in held[a] => a = s \/ (a = Heir(s, c) /\ Me(s) \notin view[a])
    /\ \A a, b \in Agent : Carried(peer[a][b], c) =>
         (a = s /\ b = Heir(s, c)) \/ (a = Heir(s, c) /\ b = s)
Answered(q) ==
  \A i \in DOMAIN q : q[i].type = "moves" => \E j \in DOMAIN q : i < j /\ q[j].type = "ack"
Answers == \A s \in Agent : Parts(s) => \A a \in Agent : Answered(peer[a][s])
Emptied == \A a \in Agent : phase[a] = "gone" => held[a] = {}

(* A copy that was given to agent 0 is nowhere else, unless it still waits *)
(* for it; the first agents, who always have a list, give nothing to it.   *)
Strayed ==
  /\ \A a \in Agent : \A c \in astray[a] :
       /\ c.edge \in edges
       /\ \A b \in Agent : c \in Here(b) => b = a /\ <<Nobody, c>> \in moves[a]
       /\ \A p, q \in Agent : ~Carried(peer[p][q], c)
       /\ \A b \in Agent : c \in astray[b] => b = a
  /\ \A a \in Agent : \A c \in Copy : <<Nobody, c>> \in moves[a] => c \in astray[a]
Seeing == \A a \in First : view[a] # {} /\ astray[a] = {}

(* Every copy is somewhere, or was given to agent 0.                       *)
Somewhere(c) == (\E a \in Agent : c \in Here(a)) \/ (\E a, b \in Agent : Carried(peer[a][b], c))
NothingLost == \A c \in Expected : Somewhere(c) \/ \E a \in Agent : c \in astray[a]

Conserved ==
  /\ Orderly /\ Somebody /\ Unloaded /\ Filled /\ Traced /\ Deposits /\ Delivered
  /\ HandedOver /\ Answers /\ Emptied /\ StrayTypes /\ Strayed /\ Seeing /\ NothingLost

LEMMA AnsweredAppend ==
  ASSUME NEW S, NEW q \in Seq(S), NEW x \in S, Answered(q)
  PROVE  /\ x.type # "moves" => Answered(Append(q, x))
         /\ \A y \in S : y.type = "ack" => Answered(Append(Append(q, x), y))
<1>1. ASSUME x.type # "moves" PROVE Answered(Append(q, x))
  BY <1>1, AppendPlaces DEF Answered
<1>2. ASSUME NEW y \in S, y.type = "ack" PROVE Answered(Append(Append(q, x), y))
  <2> DEFINE r == Append(q, x)
             w == Append(r, y)
  <2>1. /\ Len(q) \in Nat /\ DOMAIN q = 1 .. Len(q) /\ r \in Seq(S) /\ Len(r) = Len(q) + 1
        /\ DOMAIN r = 1 .. Len(q) + 1
    BY AppendPlaces
  <2>2. DOMAIN w = 1 .. Len(q) + 2 /\ w[Len(q) + 2] = y
    BY <2>1, AppendPlaces
  <2> HIDE DEF w, r
  <2> SUFFICES ASSUME NEW i \in DOMAIN w, w[i].type = "moves"
               PROVE  \E j \in DOMAIN w : i < j /\ w[j].type = "ack"
    BY DEF Answered, w, r
  <2>3. i # Len(q) + 2
    BY <1>2, <2>2
  <2> QED BY <1>2, <2>1, <2>2, <2>3
<1> QED BY <1>1, <1>2

LEMMA AnsweredTail ==
  ASSUME NEW S, NEW q \in Seq(S), q # <<>>, Answered(q)
  PROVE  Answered(Tail(q))
<1> SUFFICES ASSUME NEW i \in DOMAIN Tail(q), Tail(q)[i].type = "moves"
             PROVE  \E j \in DOMAIN Tail(q) : i < j /\ Tail(q)[j].type = "ack"
  BY DEF Answered
<1>1. i + 1 \in DOMAIN q /\ q[i + 1].type = "moves"
  BY TailPlaces
<1>2. PICK j \in DOMAIN q : i + 1 < j /\ q[j].type = "ack"
  BY <1>1 DEF Answered
<1>3. j - 1 \in DOMAIN Tail(q) /\ i < j - 1 /\ Tail(q)[j - 1].type = "ack"
  BY <1>2, TailPlaces
<1> QED BY <1>3

(* Agents go only by themselves.                                           *)
LEMMA GoneNext ==
  ASSUME Orderly, NoThrow', [Next]_vars, NEW a \in Alive, a \notin Alive'
  PROVE  Shutdown(a) /\ phase'[a] = "gone" /\ nE[a] = 0 /\ acks[a] = 0 /\ stopping[a]
<1> USE DEF Orderly, Course, Books
<1>1. a \in Agent /\ phase[a] \notin {"out", "gone", "thrown"} /\ phase'[a] \in {"out", "gone", "thrown"}
  BY DEF Alive
<1>2. phase'[a] # "thrown"
  BY <1>1 DEF NoThrow
<1>3. ASSUME UNCHANGED phase PROVE FALSE
  BY <1>1, <1>3
<1>4. ASSUME NEW b \in Agent, RecvDown(b) PROVE FALSE
  BY <1>1, <1>2, <1>4, TakenDown
<1>5. ASSUME NEW b \in Agent, RecvPeers(b) PROVE FALSE
  <2>1. phase' = phase \/ phase' = [phase EXCEPT ![b] = "idle"]
    BY <1>5 DEF RecvPeers, RecvMoves, RecvAck
  <2> QED BY <1>1, <2>1 DEF Types, AgentTypes
<1>6. ASSUME NEW b \in Agent, Start(b) PROVE FALSE
  BY <1>1, <1>6 DEF Start, Types, AgentTypes
<1>7. ASSUME NEW b \in Agent, Shutdown(b) PROVE Shutdown(a) /\ phase'[a] = "gone" /\ nE[a] = 0 /\ acks[a] = 0 /\ stopping[a]
  BY <1>1, <1>7 DEF Shutdown, Types, AgentTypes
<1>8. ASSUME NEW b \in Agent, FromAgent(b) \/ Stop(b) \/ RecvUpdateEdge(b) PROVE FALSE
  BY <1>3, <1>8 DEF FromAgent, Stop, RecvUpdateEdge, agentVars
<1>9. ASSUME NEW d \in Directory, NEW e \in Directory, Heartbeat(d) \/ FromPeer(d, e) PROVE FALSE
  BY <1>3, <1>9 DEF Heartbeat, FromPeer, agentVars
<1>10. CASE Command \/ Done \/ UNCHANGED vars
  BY <1>3, <1>10 DEF Command, Done, vars, agentVars
<1> QED BY <1>4, <1>5, <1>6, <1>7, <1>8, <1>9, <1>10 DEF Next
(* Only a command begins a round.                                          *)
LEMMA EngagedBefore ==
  ASSUME Orderly, NoThrow', [Next]_vars, ~Command, NEW a \in Alive', Engaged(a)'
  PROVE  a \in Alive /\ Engaged(a) /\ (Has(down[a], DONE) => Has(down'[a], DONE))
<1> USE DEF Orderly, Course, Books, Rounds
<1> DEFINE G == a \in Alive /\ Engaged(a) /\ (Has(down[a], DONE) => Has(down'[a], DONE))
<1>1. /\ a \in Agent /\ phase'[a] \notin {"out", "gone", "thrown"}
      /\ a \in Alive \/ (~stopping[a] /\ phase[a] = "out")
  BY RunningNext DEF Alive
<1>2. ASSUME phase'[a] = phase[a], down'[a] = down[a] PROVE G
  BY <1>1, <1>2 DEF Engaged, Alive
<1>3. ASSUME NEW b \in Agent, RecvDown(b) PROVE G
  <2>1. CASE a # b
    <3>1. phase'[a] = phase[a] /\ down'[a] = down[a]
      BY <1>1, <1>3, <2>1, TakenDown
    <3> HIDE DEF G
    <3> QED BY <1>2, <3>1
  <2>2. CASE a = b
    <3> DEFINE h == Head(down[a])
    <3>1. a \in Alive /\ down[a] # <<>> /\ down[a] \in Seq(DownMessage) /\ down'[a] = Tail(down[a]) /\ h \in DownMessage
      BY <1>1, <1>3, <2>2, TakenDown DEF Types, NetTypes
    <3>2. ~Ordered(down'[a])
      BY <3>1, DownTail DEF Commanded
    <3>3. phase'[a] \in {"balance", "hold"}
      BY <3>2 DEF Engaged
    <3>4. Has(down[a], DONE) <=> h = DONE \/ Has(down'[a], DONE)
      BY <3>1, HasTail
    <3>5. phase[a] \in Phase
      BY <1>1 DEF Types, AgentTypes
    <3>6. CASE RecvDirectory(a)
      <4>1. /\ h.type = "DIRECTORY_UPDATE" /\ h.members \in SUBSET Member
            /\ \/ phase' = phase
               \/ phase[a] = "balance"
               \/ phase[a] \notin {"balance", "hold"} /\ MoveAway(a, h.members, phase[a])
        BY <1>1, <3>6, RecvDirectoryCases
      <4>2. ~MoveAway(a, h.members, phase[a]) \/ phase'[a] \in {"moving", phase[a]}
        BY <1>1, <3>5, <4>1, MoveAwayLeaves
      <4>3. phase[a] \in {"balance", "hold"}
        BY <3>3, <4>1, <4>2
      <4>4. h # DONE
        BY <4>1, MarksDistinct
      <4> QED BY <3>1, <3>4, <4>3, <4>4 DEF Engaged
    <3>7. CASE RecvSyncDone(a)
      <4>1. view[a] \in SUBSET Member /\ (MoveAway(a, view[a], "idle") \/ phase' = [phase EXCEPT ![a] = "thrown"])
        BY <1>1, <3>7, RecvSyncDoneCases
      <4>2. "idle" \in Phase
        BY DEF Phase
      <4>3. MoveAway(a, view[a], "idle") => phase'[a] \in {"moving", "idle"}
        BY <1>1, <4>1, <4>2, MoveAwayLeaves
      <4> QED BY <1>1, <3>3, <4>1, <4>3 DEF Types, AgentTypes
    <3>8. CASE RecvVa(a) \/ RecvCsLb(a)
      <4>1. h.type \in {"DO_VA", "DO_CS_LB"}
        BY <3>8 DEF RecvVa, RecvCsLb
      <4>2. Ordered(down[a]) /\ h # DONE
        BY <1>1, <3>1, <4>1, HeadOrdered, MarksDistinct
      <4> QED BY <3>1, <3>4, <4>2 DEF Engaged
    <3> QED BY <1>3, <2>2, <3>6, <3>7, <3>8 DEF RecvDown
  <2> QED BY <2>1, <2>2
<1>4. ASSUME NEW b \in Agent, RecvPeers(b) PROVE G
  <2>1. /\ down' = down /\ b \in Alive
        /\ phase' = phase \/ phase' = [phase EXCEPT ![b] = "idle"]
    BY <1>4 DEF RecvPeers, RecvMoves, RecvAck
  <2>2. CASE a = b /\ phase' # phase
    <3>1. phase'[a] = "idle"
      BY <1>1, <2>1, <2>2 DEF Types, AgentTypes
    <3> QED BY <1>1, <2>1, <2>2, <3>1 DEF Engaged
  <2>3. CASE ~(a = b /\ phase' # phase)
    <3>1. phase'[a] = phase[a]
      BY <1>1, <2>1, <2>3 DEF Types, AgentTypes
    <3> HIDE DEF G
    <3> QED BY <1>2, <2>1, <3>1
  <2> QED BY <2>2, <2>3
<1>5. ASSUME NEW b \in Agent, Start(b) PROVE G
  <2>1. down' = down /\ phase[b] = "out" /\ phase' = [phase EXCEPT ![b] = "load"]
    BY <1>5 DEF Start
  <2>2. CASE a = b
    <3>1. phase'[a] = "load" /\ down[a] = <<>>
      BY <1>1, <2>1, <2>2 DEF Types, AgentTypes, Lives
    <3> QED BY <2>1, <3>1, DownEmpty DEF Engaged
  <2>3. CASE a # b
    <3>1. phase'[a] = phase[a] /\ down'[a] = down[a]
      BY <1>1, <2>1, <2>3 DEF Types, AgentTypes
    <3> HIDE DEF G
    <3> QED BY <1>2, <3>1
  <2> QED BY <2>2, <2>3
<1>6. ASSUME NEW b \in Agent, Shutdown(b) PROVE G
  <2>1. /\ down' = down /\ b \in Alive
        /\ phase'[a] = phase[a] \/ (a = b /\ phase'[a] \in {"gone", "idle"} /\ (phase'[a] = "idle" => phase[a] = "load"))
    BY <1>1, <1>6 DEF Shutdown, Types, AgentTypes
  <2>2. CASE phase'[a] = phase[a]
    <3> HIDE DEF G
    <3> QED BY <1>2, <2>1, <2>2
  <2>3. CASE phase'[a] # phase[a]
    BY <1>1, <2>1, <2>3 DEF Engaged
  <2> QED BY <2>2, <2>3
<1>7. ASSUME NEW b \in Agent, FromAgent(b) PROVE G
  <2>1. /\ UNCHANGED phase /\ home[b] \in Directory
        /\ down' = down \/ down' = ToAgents(home[b], DONE)
    BY <1>7, FromAgentCases, HomeType DEF agentVars, DONE
  <2>2. CASE down'[a] = down[a]
    <3> HIDE DEF G
    <3> QED BY <1>2, <2>1, <2>2
  <2>3. CASE down'[a] # down[a]
    <3>0. DONE \in DownMessage /\ DONE.type = "SIMPLE_SYNC_DONE"
      BY MarksDistinct
    <3>1. a \in Alive /\ down'[a] = Append(down[a], DONE) /\ down[a] \in Seq(DownMessage)
      <4>1. down'[a] = IF home[a] = home[b] /\ a \in Alive THEN Append(down[a], DONE) ELSE down[a]
        <5>1. \A c \in Agent : ToAgents(home[b], DONE)[c] =
                IF home[c] = home[b] /\ c \in Alive THEN Append(down[c], DONE) ELSE down[c]
          BY <2>1, ToAgentsTold
        <5> QED BY <1>1, <2>1, <2>3, <5>1
      <4> QED BY <1>1, <2>3, <4>1 DEF Types, NetTypes
    <3>2. Has(down'[a], DONE) /\ (Ordered(down'[a]) => Ordered(down[a]))
      BY <3>0, <3>1, HasAppend, DownAppend
    <3> QED BY <2>1, <3>1, <3>2 DEF Engaged
  <2> QED BY <2>2, <2>3
<1>8. ASSUME NEW d \in Directory, Heartbeat(d) PROVE G
  <2>1. /\ UNCHANGED phase /\ down' = ToAgents(d, Published(d)) /\ Published(d) \in ListMessage
    BY <1>8, HeartbeatCases DEF agentVars
  <2>2. CASE down'[a] = down[a]
    <3> HIDE DEF G
    <3> QED BY <1>2, <2>1, <2>2
  <2>3. CASE down'[a] # down[a]
    <3>1. /\ a \in Alive /\ down'[a] = Append(down[a], Published(d)) /\ down[a] \in Seq(DownMessage)
          /\ Published(d) \in DownMessage /\ Published(d).type = "DIRECTORY_UPDATE"
      BY <1>1, <2>1, <2>3, ToAgentsTold DEF Types, NetTypes, DownMessage, ListMessage
    <3>2. (Has(down[a], DONE) => Has(down'[a], DONE)) /\ (Ordered(down'[a]) => Ordered(down[a]))
      BY <3>1, HasAppend, DownAppend
    <3> QED BY <2>1, <3>1, <3>2 DEF Engaged
  <2> QED BY <2>2, <2>3
<1>9. ASSUME NEW b \in Agent, Stop(b) \/ RecvUpdateEdge(b) PROVE G
  BY <1>2, <1>9 DEF Stop, RecvUpdateEdge, netVars
<1>10. ASSUME NEW d \in Directory, NEW e \in Directory, FromPeer(d, e) PROVE G
  BY <1>2, <1>10 DEF FromPeer, agentVars
<1>11. CASE Done \/ UNCHANGED vars
  BY <1>2, <1>11 DEF Done, vars, agentVars, netVars
<1> HIDE DEF G
<1> QED BY <1>3, <1>4, <1>5, <1>6, <1>7, <1>8, <1>9, <1>10, <1>11 DEF Next, G

LEMMA WaitingBefore ==
  ASSUME Orderly, NoThrow', [Next]_vars, ~Command, NEW a \in Alive', Waiting(a)'
  PROVE  a \in Alive /\ Waiting(a)
BY EngagedBefore DEF Waiting, Engaged
(* Who balances the load waits, and what moved has come.                   *)
LEMMA UnloadedNext ==
  ASSUME Orderly, Careful, Unloaded, NoThrow', [Next]_vars
  PROVE  Unloaded'
<1> USE DEF Orderly, Course, Books, Rounds
<1> SUFFICES ASSUME NEW a \in Alive', Waiting(a)', NEW x \in Agent, NEW y \in Agent PROVE peer'[x][y] = <<>>
  BY DEF Unloaded
<1>1. CASE Command
  BY <1>1 DEF Command, Quiet
<1>2. CASE ~Command
  <2>1. a \in Alive /\ Waiting(a)
    BY <1>2, WaitingBefore
  <2>2. \A b \in Alive : Waiting(b)
    BY <2>1 DEF Together
  <2>3. \A p, q \in Agent : peer[p][q] = <<>>
    BY <2>1 DEF Unloaded
  <2>4. ASSUME NEW b \in Agent, RecvDown(b) PROVE UNCHANGED peer
    <3> DEFINE h == Head(down[b])
    <3>1. b \in Alive /\ down[b] # <<>> /\ down[b] \in Seq(DownMessage) /\ h \in DownMessage /\ Waiting(b)
      BY <2>2, <2>4, TakenDown DEF Types, NetTypes
    <3>2. h # DONE
      <4>1. h = DONE => Has(down[b], DONE)
        BY <3>1, HasTail
      <4> QED BY <3>1, <4>1 DEF Waiting
    <3>3. ~RecvSyncDone(b)
      BY <3>1, <3>2, MarksDistinct DEF RecvSyncDone
    <3>4. CASE RecvDirectory(b)
      <4>1. h.type = "DIRECTORY_UPDATE" /\ (UNCHANGED peer \/ phase[b] \notin {"balance", "hold"})
        BY <3>4, RecvDirectoryCases
      <4>2. FirstOnly(down[b])
        BY <3>1 DEF Commanded
      <4>3. Ordered(down[b]) => h.type \in {"DO_VA", "DO_CS_LB"}
        BY <3>1, <4>2, DownTail
      <4> QED BY <3>1, <4>1, <4>3 DEF Waiting
    <3>5. CASE RecvVa(b) \/ RecvCsLb(b)
      BY <3>5 DEF RecvVa, RecvCsLb
    <3> QED BY <2>4, <3>3, <3>4, <3>5 DEF RecvDown
  <2>5. ASSUME NEW b \in Agent, RecvPeers(b) PROVE FALSE
    BY <2>3, <2>5 DEF RecvPeers, RecvMoves, RecvAck
  <2>6. ASSUME UNCHANGED peer PROVE peer'[x][y] = <<>>
    BY <2>3, <2>6
  <2>7. ASSUME NEW b \in Agent, Start(b) \/ Shutdown(b) \/ FromAgent(b) \/ Stop(b) \/ RecvUpdateEdge(b) PROVE UNCHANGED peer
    BY <2>7 DEF Start, Shutdown, FromAgent, Stop, RecvUpdateEdge, netVars
  <2>8. ASSUME NEW d \in Directory, NEW e \in Directory, Heartbeat(d) \/ FromPeer(d, e) PROVE UNCHANGED peer
    BY <2>8 DEF Heartbeat, FromPeer
  <2>9. CASE Done \/ UNCHANGED vars
    BY <2>6, <2>9 DEF Done, vars, netVars
  <2> QED BY <1>2, <2>4, <2>5, <2>6, <2>7, <2>8, <2>9 DEF Next
<1> QED BY <1>1, <1>2

(* There is an agent on every list.                                        *)
LEMMA ListsFilled ==
  ASSUME Somebody
  PROVE  \A d \in Homed : members[d] # {}
BY DEF Somebody, Standing

LEMMA FilledNext ==
  ASSUME Orderly, Careful, Somebody, Filled, NoThrow', [Next]_vars
  PROVE  Filled'
<1> USE DEF Orderly, Course, Books, Rounds
<1> SUFFICES ASSUME NEW a \in Alive'
             PROVE  /\ \A i \in DOMAIN down'[a] : IsList(down'[a][i]) => down'[a][i].members # {}
                    /\ Engaged(a)' => view'[a] # {}
  BY DEF Filled, IsList
<1>1. a \in Agent /\ (a \in Alive \/ (~stopping[a] /\ phase[a] = "out"))
  BY RunningNext DEF Alive
<1>2. down[a] \in Seq(DownMessage)
  BY <1>1 DEF Types, NetTypes
<1>3. \A i \in DOMAIN down[a] : IsList(down[a][i]) => down[a][i].members # {}
  <2>1. CASE a \in Alive
    BY <2>1 DEF Filled
  <2>2. CASE phase[a] = "out"
    BY <1>1, <2>2 DEF Lives
  <2> QED BY <1>1, <2>1, <2>2
<1>4. members[home[a]] # {}
  BY <1>1, ListsFilled, HomeHomed
<1>5. Taken(a) \/ Put(a)
  BY <1>1, TakenOrPut
<1>6. \A i \in DOMAIN down'[a] : IsList(down'[a][i]) => down'[a][i].members # {}
  <2>1. CASE down[a] # <<>> /\ down'[a] = Tail(down[a])
    BY <1>2, <1>3, <2>1, TailPlaces
  <2>2. CASE down'[a] = down[a]
    BY <1>3, <2>2
  <2>3. ASSUME NEW x \in DownMessage, down'[a] = Append(down[a], x), IsList(x) => x.members = members[home[a]]
        PROVE  \A i \in DOMAIN down'[a] : IsList(down'[a][i]) => down'[a][i].members # {}
    BY <1>2, <1>3, <1>4, <2>3, AppendPlaces
  <2> QED BY <1>5, <2>1, <2>2, <2>3 DEF Taken, Put
<1>7. view[a] # {} => view'[a] # {}
  <2>1. CASE Put(a)
    BY <2>1 DEF Put
  <2>2. CASE Taken(a)
    <3>1. IsList(Head(down[a])) => Head(down[a]).members # {}
      BY <1>2, <1>3, <2>2, TailPlaces DEF Taken
    <3> QED BY <2>2, <3>1 DEF Taken
  <2> QED BY <1>5, <2>1, <2>2
<1>8. ASSUME Engaged(a)' PROVE view'[a] # {}
  <2>1. CASE Command
    <3>1. UNCHANGED phase /\ \A b \in Alive : view[b] # {}
      BY <2>1 DEF Command, agentVars
    <3>2. a \in Alive
      BY <3>1 DEF Alive
    <3> QED BY <1>7, <3>1, <3>2
  <2>2. CASE ~Command
    <3>1. a \in Alive /\ Engaged(a)
      BY <1>8, <2>2, EngagedBefore
    <3> QED BY <1>7, <3>1 DEF Filled
  <2> QED BY <2>1, <2>2
<1> QED BY <1>6, <1>8
-----------------------------------------------------------------------------
(* An agent that stays on every list.                                      *)

LEMMA StandingKept ==
  ASSUME NEW z \in Alive', Standing(z), stopping'[z] = stopping[z], vcount'[z] = vcount[z], home' = home,
         \A d \in Homed : Me(z) \in members'[d], \A n : Has(up'[z], Leave(z, n)) => Has(up[z], Leave(z, n)),
         \/ ~Has(down'[z], VA)
         \/ /\ Has(down[z], VA) /\ (Waiting(z) => Waiting(z)')
            /\ nE'[z] = nE[z] /\ view'[z] = view[z] /\ transposed' = transposed
  PROVE  Somebody'
<1>1. Homed' = Homed /\ Me(z)' = Me(z)
  BY DEF Homed, Me
<1>2. Has(down'[z], VA) => ~Overloaded(z)' /\ Waiting(z)'
  BY DEF Standing, Overloaded
<1>3. /\ ~stopping'[z] /\ (\A d \in Homed' : Me(z)' \in members'[d])
      /\ \A n : ~Has(up'[z], Leave(z, n))
  BY <1>1 DEF Standing
<1> QED BY <1>2, <1>3 DEF Standing, Somebody, VA, Plain, Leave

LEMMA VaOrdered ==
  ASSUME NEW q
  PROVE  Has(q, VA) => Ordered(q)
BY DEF Has, Ordered, VA, Plain

LEMMA MemberStays ==
  ASSUME Types, NEW d \in Directory, NEW m, NEW net, ChangeMembers(d, m, net), NEW x, NEW e \in Homed,
         x \in members[e], m.type = "AGENT_JOIN" \/ m.member # x
  PROVE  x \in members'[e]
<1>1. members' = [members EXCEPT ![d] = Changed(d, m)]
  BY MembersAt
<1>2. e \in Directory
  BY HomedType
<1>3. x \in members[d] => x \in Changed(d, m)
  BY DEF Changed
<1> QED BY <1>1, <1>2, <1>3 DEF Types, DirTypes

LEMMA SomebodyDown ==
  ASSUME Orderly, Somebody, NoThrow', NEW a \in Agent, RecvDown(a)
  PROVE  Somebody'
<1> USE DEF Orderly, Course, Books, Rounds
<1>1. PICK z \in Alive : Standing(z)
  BY DEF Somebody
<1>2. /\ a \in Alive /\ down[a] # <<>> /\ down'[a] = Tail(down[a]) /\ down[a] \in Seq(DownMessage)
      /\ UNCHANGED <<stopping, members, home, transposed>>
      /\ Head(down[a]) \in DownMessage
      /\ \A b \in Agent \ {a} : /\ phase'[b] = phase[b] /\ nE'[b] = nE[b] /\ up'[b] = up[b]
                                /\ view'[b] = view[b] /\ down'[b] = down[b] /\ vcount'[b] = vcount[b]
      /\ phase'[a] \notin {"out", "gone"}
  BY TakenDown DEF Types, NetTypes, dirVars, envVars
<1>3. z \in Agent /\ z \in Alive'
  BY <1>2 DEF Alive, NoThrow
<1>4. CASE z # a
  <2>1. Waiting(z) => Waiting(z)'
    BY <1>2, <1>3, <1>4 DEF Waiting
  <2>2. \A d \in Homed : Me(z) \in members'[d]
    BY <1>1, <1>2 DEF Standing
  <2> QED BY <1>1, <1>2, <1>3, <1>4, <2>1, <2>2, StandingKept
<1>5. CASE z = a
  <2>1. ~Has(down'[z], VA)
    <3>1. ~Ordered(down'[a])
      BY <1>2, DownTail DEF Commanded
    <3> QED BY <1>5, <3>1, VaOrdered
  <2>2. vcount'[z] = vcount[z] /\ \A n : Has(up'[z], Leave(z, n)) => Has(up[z], Leave(z, n))
    <3>1. CASE RecvVa(a)
      <4>1. Has(down[a], VA)
        <5>1. Head(down[a]) = VA
          BY <1>2, <3>1 DEF RecvVa, VA, Plain, DownMessage, ListMessage
        <5> QED BY <1>2, <5>1, HasTail
      <4>2. ~Overloaded(a)
        BY <1>1, <1>5, <4>1 DEF Standing
      <4>3. UNCHANGED <<up, vcount>>
        BY <3>1, <4>2, RecvVaCases
      <4> QED BY <4>3
    <3>2. ASSUME NEW m \in UpMessage, m.type # "AGENT_LEAVE", up' = Tell(a, <<m>>) PROVE \A n : Has(up'[z], Leave(z, n)) => Has(up[z], Leave(z, n))
      <4>1. \A n : Leave(z, n) # m
        BY <3>2, MarksDistinct
      <4>2. \A k : Has(up'[a], k) <=> Has(up[a], k) \/ k = m
        BY <3>2, ToldOne
      <4> QED BY <1>5, <4>1, <4>2
    <3>3. CASE RecvDirectory(a) \/ RecvSyncDone(a) \/ RecvCsLb(a)
      <4>1. vcount' = vcount
        BY <3>3 DEF RecvDirectory, RecvSyncDone, RecvCsLb
      <4>2. UNCHANGED up \/ \E m \in UpMessage : m.type # "AGENT_LEAVE" /\ up' = Tell(a, <<m>>)
        <5>1. /\ SYNC \in UpMessage /\ SYNC.type # "AGENT_LEAVE"
              /\ Plain("CS_UPDATE") \in UpMessage /\ Plain("CS_UPDATE").type # "AGENT_LEAVE"
          BY DEF SYNC, Plain, UpMessage
        <5>2. RecvDirectory(a) => UNCHANGED up \/ up' = Tell(a, <<SYNC>>)
          BY RecvDirectoryCases DEF SYNC
        <5>3. RecvSyncDone(a) => UNCHANGED up
          BY RecvSyncDoneCases
        <5>4. RecvCsLb(a) => up' = Tell(a, <<Plain("CS_UPDATE")>>)
          BY DEF RecvCsLb
        <5> QED BY <3>3, <5>1, <5>2, <5>3, <5>4
      <4> QED BY <3>2, <4>1, <4>2
    <3> QED BY <3>1, <3>3 DEF RecvDown
  <2>3. \A d \in Homed : Me(z) \in members'[d]
    BY <1>1, <1>2 DEF Standing
  <2> QED BY <1>1, <1>2, <1>3, <2>1, <2>2, <2>3, StandingKept
<1> QED BY <1>4, <1>5

LEMMA SomebodyPeers ==
  ASSUME Orderly, Somebody, Unloaded, NEW a \in Agent, RecvPeers(a)
  PROVE  Somebody'
<1> USE DEF Orderly, Course, Books, Rounds
<1>1. PICK z \in Alive : Standing(z)
  BY DEF Somebody
<1>2. PICK b \in Agent : RecvMoves(a, b) \/ RecvAck(a, b)
  BY DEF RecvPeers
<1>3. /\ a \in Alive /\ peer[b][a] # <<>>
      /\ UNCHANGED <<stopping, members, home, transposed, vcount, view, down>>
      /\ phase' = phase \/ phase' = [phase EXCEPT ![a] = "idle"]
      /\ UNCHANGED up \/ up' = Tell(a, <<Plain("READY_NV_NE")>>)
  BY <1>2 DEF RecvMoves, RecvAck, dirVars, envVars
<1>4. z \in Agent /\ z \in Alive'
  BY <1>3 DEF Alive, Types, AgentTypes
<1>5. \A n : Has(up'[z], Leave(z, n)) => Has(up[z], Leave(z, n))
  <2>1. Plain("READY_NV_NE") \in UpMessage /\ \A n : Leave(z, n) # Plain("READY_NV_NE")
    BY DEF Plain, UpMessage, Leave
  <2>2. CASE up' = Tell(a, <<Plain("READY_NV_NE")>>)
    <3>1. /\ \A c \in Agent \ {a} : up'[c] = up[c]
          /\ \A k : Has(up'[a], k) <=> Has(up[a], k) \/ k = Plain("READY_NV_NE")
      BY <2>1, <2>2, ToldOne
    <3> QED BY <1>4, <2>1, <3>1
  <2> QED BY <1>3, <2>2
<1>6. Waiting(z) => FALSE
  BY <1>3 DEF Unloaded
<1>7. ~Has(down'[z], VA)
  BY <1>1, <1>3, <1>6 DEF Standing
<1>8. \A d \in Homed : Me(z) \in members'[d]
  BY <1>1, <1>3 DEF Standing
<1> QED BY <1>1, <1>3, <1>4, <1>5, <1>7, <1>8, StandingKept
LEMMA SomebodyFromAgent ==
  ASSUME Orderly, Somebody, NEW a \in Agent, FromAgent(a)
  PROVE  Somebody'
<1> USE DEF Orderly, Course, Books, Rounds
<1>1. PICK z \in Alive : Standing(z)
  BY DEF Somebody
<1> DEFINE m == Head(up[a])
           d == home[a]
<1>2. /\ up[a] # <<>> /\ m \in UpMessage /\ d \in Directory /\ up[a] \in Seq(UpMessage)
      /\ up' = [up EXCEPT ![a] = Tail(up[a])] /\ UNCHANGED <<agentVars, peer, envVars>>
  BY FromAgentCases DEF Types, NetTypes
<1>3. z \in Agent /\ z \in Alive' /\ Homed' = Homed /\ d \in Homed
  BY <1>2, HomeHomed DEF Alive, agentVars, envVars, Homed
<1>4. \A b \in Agent : \A k : Has(up'[b], k) => Has(up[b], k)
  <2>1. \A k : Has(Tail(up[a]), k) => Has(up[a], k)
    BY <1>2, HasTail
  <2> QED BY <1>2, <2>1 DEF Types, NetTypes
<1>5. ASSUME down'[z] = down[z], \A e \in Homed : Me(z) \in members'[e] PROVE Somebody'
  <2>1. Waiting(z) => Waiting(z)'
    BY <1>2, <1>5 DEF Waiting, agentVars
  <2>2. \A n : Has(up'[z], Leave(z, n)) => Has(up[z], Leave(z, n))
    BY <1>3, <1>4
  <2> QED BY <1>1, <1>2, <1>3, <1>5, <2>1, <2>2, StandingKept DEF agentVars, envVars
<1>6. \A e \in Homed : Me(z) \in members[e]
  BY <1>1 DEF Standing
<1>7. CASE m.type \in {"AGENT_JOIN", "AGENT_LEAVE"} /\ ChangeMembers(d, m, link) /\ UNCHANGED down
  <2>1. PICK n \in 1 .. VAgents : m \in {Join(a, n), Leave(a, n)} /\ Has(up[a], m)
    BY <1>2, <1>7, HeadMember
  <2>2. m.type = "AGENT_JOIN" \/ m.member # Me(z)
    <3> HIDE DEF m, d
    <3>1. CASE m = Join(a, n)
      BY <3>1 DEF Join
    <3>2. CASE m = Leave(a, n)
      <4>1. a # z
        BY <1>1, <2>1, <3>2 DEF Standing
      <4>2. m.member = <<a, n>>
        BY <3>2 DEF Leave
      <4> QED BY <4>1, <4>2 DEF Me
    <3> QED BY <2>1, <3>1, <3>2
  <2>3. \A e \in Homed : Me(z) \in members'[e]
    <3> HIDE DEF m, d
    <3> QED BY <1>2, <1>6, <1>7, <2>2, MemberStays
  <2> QED BY <1>5, <1>7, <2>3
<1>8. CASE UNCHANGED <<members, down>>
  BY <1>5, <1>6, <1>8
<1>9. CASE m.type = "SIMPLE_SYNC" /\ UNCHANGED members /\ down' = ToAgents(d, DONE)
  <2>1. m = SYNC /\ Has(up[a], SYNC)
    <3>1. m = SYNC
      BY <1>2, <1>9, MarksDistinct
    <3> QED BY <1>2, <3>1, HasTail
  <2>2. a \in Alive /\ ~Ordered(down[a]) /\ Settled(up[a])
    BY <2>1 DEF Synced
  <2>3. Busy(a)
    BY <2>1 DEF Busy
  <2>4. OneHomed /\ ~stopping[a]
    BY <2>2, <2>3, OrderedAlone
  <2>5. \A k : k.type \in {"AGENT_JOIN", "AGENT_LEAVE"} => ~Has(up[a], k)
    <3>1. \A k : k.type \in {"AGENT_JOIN", "AGENT_LEAVE"} => ~Has(Tail(up[a]), k) /\ k # SYNC
      BY <1>2, <2>1, <2>2, SettledTail, MarksDistinct
    <3> QED BY <1>2, <2>1, <3>1, HasTail
  <2>6. \A n : ~Has(up[a], Leave(a, n)) /\ ~Has(up[a], Join(a, n))
    BY <2>5, MarksDistinct
  <2>7. Me(a) \in members[home[a]]
    BY <2>2, <2>4, <2>6 DEF Registered, Known
  <2>8. \A e \in Homed : Me(a) \in members'[e]
    BY <1>3, <1>9, <2>4, <2>7 DEF OneHomed
  <2>9. ~Has(down'[a], VA)
    <3>1. down'[a] = Append(down[a], DONE) /\ down[a] \in Seq(DownMessage)
      <4>1. \A c \in Agent : ToAgents(d, DONE)[c] = IF home[c] = d /\ c \in Alive THEN Append(down[c], DONE) ELSE down[c]
        BY <1>2, ToAgentsTold
      <4> QED BY <1>9, <2>2, <4>1 DEF Types, NetTypes
    <3>2. DONE \in DownMessage /\ DONE # VA
      BY DEF DONE, VA, Plain, DownMessage
    <3>3. ~Has(down[a], VA)
      BY <2>2, VaOrdered
    <3> QED BY <3>1, <3>2, <3>3, HasAppend
  <2>10. Standing(a)'
    <3>1. a \in Alive' /\ ~stopping'[a] /\ Me(a)' = Me(a)
      BY <1>2, <2>2, <2>4 DEF Alive, agentVars, Me
    <3>2. \A n : ~Has(up'[a], Leave(a, n))
      BY <1>4, <2>6
    <3> QED BY <1>3, <2>8, <2>9, <3>1, <3>2 DEF Standing, VA, Plain, Leave
  <2> QED BY <2>10 DEF Standing, Somebody
<1>10. \/ m.type \in {"AGENT_JOIN", "AGENT_LEAVE"} /\ ChangeMembers(d, m, link) /\ UNCHANGED down
       \/ UNCHANGED <<members, down>>
       \/ m.type = "SIMPLE_SYNC" /\ UNCHANGED members /\ down' = ToAgents(d, DONE)
  BY FromAgentCases DEF DONE
<1> QED BY <1>7, <1>8, <1>9, <1>10

LEMMA SomebodyFromPeer ==
  ASSUME Orderly, Somebody, NEW d \in Directory, NEW e \in Directory, FromPeer(d, e)
  PROVE  Somebody'
<1> USE DEF Orderly, Course, Books, Rounds
<1>1. PICK z \in Alive : Standing(z)
  BY DEF Somebody
<1> DEFINE m == Head(link[e][d])
<1>2. /\ link[e][d] # <<>> /\ m \in LinkMessage /\ UNCHANGED <<agentVars, up, down, envVars>>
      /\ \/ UNCHANGED members
         \/ m.type # "READY_NV_NE_INT" /\ ChangeMembers(d, m, [link EXCEPT ![e][d] = Tail(link[e][d])])
  BY FromPeerCases
<1>3. z \in Agent /\ z \in Alive' /\ Homed' = Homed
  BY <1>2 DEF Alive, agentVars, envVars, Homed
<1>4. \A x \in Homed : Me(z) \in members[x]
  BY <1>1 DEF Standing
<1>5. \A x \in Homed : Me(z) \in members'[x]
  <2>1. CASE UNCHANGED members
    BY <1>4, <2>1
  <2>2. CASE m.type # "READY_NV_NE_INT" /\ ChangeMembers(d, m, [link EXCEPT ![e][d] = Tail(link[e][d])])
    <3>1. m.type = "AGENT_JOIN" \/ (m.type = "AGENT_LEAVE" /\ m = Leave(m.member[1], m.member[2]) /\ m.member \in Member)
      BY <1>2, <2>2, MarksDistinct DEF LinkMessage
    <3>2. m.type = "AGENT_LEAVE" => m.member # Me(z)
      <4> SUFFICES ASSUME m.type = "AGENT_LEAVE", m.member = Me(z) PROVE FALSE
        OBVIOUS
      <4>1. Has(link[e][d], Leave(z, vcount[z]))
        <5>1. Has(link[e][d], m)
          BY <1>2, HasTail DEF Types, NetTypes
        <5>2. m = Leave(z, vcount[z])
          BY <3>1 DEF Me
        <5> QED BY <5>1, <5>2
      <4>2. stopping[z]
        BY <1>3, <4>1 DEF Registered, Leaves
      <4> QED BY <1>1, <4>2 DEF Standing
    <3> HIDE DEF m
    <3> QED BY <1>4, <2>2, <3>1, <3>2, MemberStays
  <2> QED BY <1>2, <2>1, <2>2
<1>6. Waiting(z) => Waiting(z)'
  BY <1>2 DEF Waiting, agentVars
<1> QED BY <1>1, <1>2, <1>3, <1>5, <1>6, StandingKept DEF agentVars, envVars

LEMMA SomebodyOperator ==
  ASSUME Orderly, Careful, Somebody, Command \/ \E a \in Agent : Stop(a)
  PROVE  Somebody'
<1> USE DEF Orderly, Course, Books, Rounds
<1>1. PICK z \in Alive : Standing(z)
  BY DEF Somebody
<1>2. Quiet /\ UNCHANGED <<phase, vcount, members, up, home, nE, view, transposed>>
  BY DEF Command, Stop, agentVars, dirVars, netVars
<1>3. Alive' = Alive /\ Homed' = Homed /\ \A a : Me(a)' = Me(a)
  BY <1>2 DEF Alive, Homed, Me
<1>4. \A a \in Alive : /\ a \in Agent /\ ~stopping[a] /\ \A e \in Homed : Me(a) \in members'[e]
                       /\ up'[a] = <<>> /\ down[a] = <<>>
  BY <1>2, Calm, AliveAgent DEF Quiet
<1>5. ASSUME NEW a \in Alive, ~stopping'[a], Has(down'[a], VA) => ~Overloaded(a)' /\ Waiting(a)' PROVE Somebody'
  <2>1. \A n : ~Has(up'[a], Leave(a, n))
    BY <1>4, EmptyQueue
  <2>2. Standing(a)'
    BY <1>3, <1>4, <1>5, <2>1 DEF Standing, VA, Plain, Leave
  <2> QED BY <2>2 DEF Standing, Somebody
<1>6. ASSUME NEW a \in Agent, Stop(a) PROVE Somebody'
  <2>1. PICK b \in Alive \ {a} : ~stopping[b]
    BY <1>6 DEF Stop
  <2>2. ~stopping'[b] /\ UNCHANGED down
    BY <1>4, <1>6, <2>1 DEF Stop, netVars, Types, AgentTypes
  <2>3. ~Has(down'[b], VA)
    BY <1>4, <2>2, EmptyQueue
  <2> QED BY <1>5, <2>2, <2>3
<1>7. CASE Command
  <2>1. PICK c \in Commands :
          /\ (Careful /\ c = "VA") => \E a, b \in Alive : Overloaded(a) /\ ~Overloaded(b)
          /\ Order(c) \in DownMessage
          /\ \A a \in Agent : down'[a] = IF a \in Alive THEN Append(down[a], Order(c)) ELSE down[a]
    BY <1>7, CommandCases
  <2>2. UNCHANGED stopping
    BY <1>7 DEF Command, agentVars
  <2>3. \A a \in Alive : down'[a] = Append(down[a], Order(c)) /\ down[a] \in Seq(DownMessage)
    BY <1>4, <2>1 DEF Types, NetTypes
  <2>4. \A a \in Alive : ~Has(down[a], VA) /\ ~Has(down[a], DONE)
    BY <1>4, EmptyQueue
  <2>5. CASE c = "VA"
    <3>1. PICK b \in Alive : ~Overloaded(b)
      BY <2>1, <2>5
    <3>2. ~Overloaded(b)'
      BY <1>2, <3>1 DEF Overloaded
    <3>3. Order(c).type = "DO_VA"
      BY <2>5 DEF Order, Plain
    <3>4. Ordered(down'[b])
      BY <2>1, <2>3, <3>3, DownAppend
    <3>5. ~Has(down'[b], DONE)
      <4>1. Order(c) # DONE
        BY <3>3, MarksDistinct
      <4>2. down'[b] = Append(down[b], Order(c)) /\ down[b] \in Seq(DownMessage) /\ Order(c) \in DownMessage
        BY <2>1, <2>3
      <4>3. Has(down'[b], DONE) <=> Has(down[b], DONE) \/ Order(c) = DONE
        BY <4>2, HasAppend
      <4> QED BY <2>4, <4>1, <4>3
    <3>6. Waiting(b)'
      BY <3>4, <3>5 DEF Waiting, DONE, Plain
    <3> QED BY <1>4, <1>5, <2>2, <3>2, <3>6
  <2>6. CASE c # "VA"
    <3>1. Order(c) # VA
      BY <2>6 DEF Order, VA, Plain
    <3>2. ~Has(down'[z], VA)
      <4>1. down'[z] = Append(down[z], Order(c)) /\ down[z] \in Seq(DownMessage) /\ Order(c) \in DownMessage
        BY <2>1, <2>3
      <4>2. Has(down'[z], VA) <=> Has(down[z], VA) \/ Order(c) = VA
        BY <4>1, HasAppend
      <4> QED BY <2>4, <3>1, <4>2
    <3> QED BY <1>4, <1>5, <2>2, <3>2
  <2> QED BY <2>5, <2>6
<1> QED BY <1>6, <1>7

LEMMA SomebodyNext ==
  ASSUME Orderly, Careful, Somebody, Unloaded, NoThrow', [Next]_vars
  PROVE  Somebody'
<1> USE DEF Orderly, Course, Books, Rounds
<1>1. PICK z \in Alive : Standing(z)
  BY DEF Somebody
<1>2. z \in Agent /\ ~stopping[z] /\ \A d \in Homed : Me(z) \in members[d]
  BY <1>1 DEF Standing, Alive
<1>3. ASSUME z \in Alive', UNCHANGED <<stopping, members, home, transposed>>,
             vcount'[z] = vcount[z], up'[z] = up[z], down'[z] = down[z], phase'[z] = phase[z],
             view'[z] = view[z], nE'[z] = nE[z] \/ ~Has(down[z], VA)
      PROVE  Somebody'
  <2>1. Waiting(z) => Waiting(z)'
    BY <1>3 DEF Waiting
  <2> QED BY <1>1, <1>2, <1>3, <2>1, StandingKept
<1>4. ASSUME NEW a \in Agent, Start(a) \/ Shutdown(a) PROVE Somebody'
  <2>1. a # z
    BY <1>1, <1>2, <1>4 DEF Start, Shutdown, Alive
  <2>2. phase'[z] = phase[z] /\ up'[z] = up[z]
    BY <1>2, <1>4, <2>1 DEF Start, Shutdown, Tell, Types, AgentTypes, NetTypes
  <2>3. z \in Alive'
    BY <1>1, <2>2 DEF Alive
  <2> QED BY <1>3, <1>4, <2>2, <2>3 DEF Start, Shutdown, dirVars, envVars
<1>5. ASSUME NEW a \in Agent, RecvUpdateEdge(a) PROVE Somebody'
  <2>1. UNCHANGED <<phase, view, vcount, stopping, dirVars, netVars, transposed, home>> /\ ~Balancing
    BY <1>5 DEF RecvUpdateEdge
  <2>2. ~Has(down[z], VA)
    <3>1. \A i \in DOMAIN down[z] : down[z][i].type # "DO_VA"
      BY <1>2, <2>1 DEF Balancing, ToSet
    <3> QED BY <3>1 DEF Has, VA, Plain
  <2>3. z \in Alive'
    BY <1>1, <2>1 DEF Alive
  <2> QED BY <1>3, <2>1, <2>2, <2>3 DEF dirVars, netVars
<1>6. ASSUME NEW d \in Directory, Heartbeat(d) PROVE Somebody'
  <2>1. /\ UNCHANGED <<agentVars, members, up, envVars>> /\ down' = ToAgents(d, Published(d))
        /\ Published(d) \in DownMessage /\ Published(d).type = "DIRECTORY_UPDATE"
    BY <1>6, HeartbeatCases DEF DownMessage, ListMessage
  <2>2. z \in Alive'
    BY <2>1 DEF Alive, agentVars
  <2>3. down'[z] = down[z] \/ down'[z] = Append(down[z], Published(d))
    <3>1. \A c \in Agent : ToAgents(d, Published(d))[c] =
            IF home[c] = d /\ c \in Alive THEN Append(down[c], Published(d)) ELSE down[c]
      BY ToAgentsTold
    <3> QED BY <1>2, <2>1, <3>1
  <2>4. down[z] \in Seq(DownMessage) /\ Published(d) # VA /\ Published(d) # DONE
    BY <1>2, <2>1 DEF Types, NetTypes, VA, DONE, Plain
  <2>5. (Has(down'[z], VA) => Has(down[z], VA)) /\ (Has(down'[z], DONE) => Has(down[z], DONE))
        /\ (Ordered(down[z]) => Ordered(down'[z]))
    <3>1. CASE down'[z] = Append(down[z], Published(d))
      <4>1. /\ Has(down'[z], VA) <=> Has(down[z], VA) \/ Published(d) = VA
            /\ Has(down'[z], DONE) <=> Has(down[z], DONE) \/ Published(d) = DONE
        BY <2>1, <2>4, <3>1, HasAppend
      <4>2. Ordered(down[z]) => Ordered(down'[z])
        BY <2>1, <2>4, <3>1, DownAppend
      <4> QED BY <2>4, <4>1, <4>2
    <3> QED BY <2>3, <3>1
  <2>6. Waiting(z) => Waiting(z)'
    BY <2>1, <2>5 DEF Waiting, agentVars, DONE, Plain
  <2> QED BY <1>1, <1>2, <2>1, <2>2, <2>5, <2>6, StandingKept DEF agentVars, envVars
<1>7. CASE Done \/ UNCHANGED vars
  <2>1. UNCHANGED <<phase, stopping, members, home, transposed, vcount, up, down, view, nE>>
    BY <1>7 DEF Done, vars, agentVars, dirVars, netVars, envVars
  <2>2. z \in Alive'
    BY <2>1 DEF Alive
  <2> QED BY <1>3, <2>1, <2>2
<1>8. ASSUME NEW a \in Agent, RecvDown(a) \/ RecvPeers(a) \/ FromAgent(a) PROVE Somebody'
  BY <1>8, SomebodyDown, SomebodyPeers, SomebodyFromAgent
<1> QED BY <1>4, <1>5, <1>6, <1>7, <1>8, SomebodyFromPeer, SomebodyOperator DEF Next
-----------------------------------------------------------------------------
(* Whom agents send to.                                                    *)

(* While s leaves an agent has one of two lists, and never again the one   *)
(* with s.                                                                 *)
LEMMA LeavingViews ==
  ASSUME Orderly, NEW s \in Agent, Parts(s), NEW a \in Alive
  PROVE  /\ view[a] \in Lists(s) /\ phase[a] \notin {"balance", "hold"}
         /\ Me(s) \in view[a] => view[a] = Full(s)
         /\ Me(s) \notin view[a] => view[a] = Full(s) \ {Me(s)}
         /\ \A l \in Seen(a) : /\ l \in Lists(s)
                               /\ Me(s) \in l => l = Full(s) /\ view[a] = Full(s)
                               /\ Me(s) \notin l => l = Full(s) \ {Me(s)}
         /\ Me(s) \in Full(s) /\ \A m \in Full(s) : m = Me(m[1])
<1> USE DEF Orderly, Course, Books, Rounds
<1>1. a \in Agent /\ view[a] \in Seen(a)
  BY DEF Alive, Seen
<1>2. Me(s) \in Full(s) /\ \A m \in Full(s) : m = Me(m[1])
  BY DEF Full, Me
<1>3. Seen(a) \subseteq Lists(s) /\ Dropping(down[a], view[a], members[home[a]], Me(s))
  BY DEF Parted, Parting
<1>4. phase[a] \notin {"balance", "hold"}
  BY PartsAlone DEF Busy
<1>5. \A l \in Lists(s) : (Me(s) \in l => l = Full(s)) /\ (Me(s) \notin l => l = Full(s) \ {Me(s)})
  BY <1>2 DEF Lists
<1>6. ASSUME NEW l \in Seen(a), Me(s) \in l PROVE Me(s) \in view[a]
  BY <1>3, <1>6 DEF Seen, Dropping
<1> QED BY <1>1, <1>2, <1>3, <1>4, <1>5, <1>6

(* An owner runs, or it is the agent that leaves.                          *)
LEMMA OwnerRuns ==
  ASSUME Orderly, Traced, NEW a \in Alive, NEW l \in Seen(a), l \in SUBSET Member, l # {}, NEW c \in Copy
  PROVE  /\ Owner(l, c) \in Agent
         /\ Owner(l, c) \in Alive \/ (Parts(Owner(l, c)) /\ Me(Owner(l, c)) \in l)
<1> USE DEF Orderly, Course, Books
<1>1. PICK m \in l : Owner(l, c) = m[1] /\ m[1] \in Agent
  BY OwnerType DEF Types
<1> DEFINE o == Owner(l, c)
<1>2. Listed(o)
  BY <1>1, ListedSeen
<1>3. o \in Alive \/ stopping[o]
  BY <1>1, <1>2 DEF Traced
<1>4. ASSUME stopping[o] PROVE Parts(o) /\ Me(o) \in l
  <2>1. Parts(o)
    BY <1>2, <1>4 DEF Parts
  <2>2. l \in Lists(o) /\ \A k \in Full(o) : k = Me(k[1])
    BY <1>1, <2>1, LeavingViews
  <2>3. m = Me(o)
    BY <1>1, <2>2 DEF Lists
  <2> QED BY <2>1, <2>3
<1> QED BY <1>1, <1>3, <1>4

LEMMA ListedBefore ==
  ASSUME Orderly, [Next]_vars, NEW b, Listed(b)'
  PROVE  Listed(b) \/ b \in Alive
<1> USE DEF Orderly, Course, Books, Rounds
<1>1. /\ home' = home
      /\ \A a \in Alive' : a \in Alive \/ (~stopping[a] /\ phase[a] = "out")
  BY RunningNext
<1>2. \A a \in Alive' : Seen(a)' \subseteq SeenAfter(a)
  BY SeenNext
<1>3. MembersMove
  BY MembersNext
<1>4. Homed' = Homed
  BY <1>1 DEF Homed
<1>5. \/ \E d \in Homed' : \E m \in members'[d] : m[1] = b
      \/ \E a \in Alive' : \E l \in Seen(a)' : \E m \in l : m[1] = b
  BY DEF Listed, Seen, ToSet, IsList
<1>6. ASSUME NEW d \in Homed, NEW m \in members'[d], m[1] = b PROVE Listed(b) \/ b \in Alive
  <2>1. d \in Directory
    BY HomedType
  <2>2. Enters(m) => b \in Alive
    BY <1>6 DEF Enters, Me
  <2>3. m \in members[d] \/ Enters(m)
    BY <1>3, <2>1 DEF MembersMove
  <2> QED BY <1>6, <2>2, <2>3 DEF Listed
<1>7. ASSUME NEW a \in Alive', NEW l \in Seen(a)', NEW m \in l, m[1] = b PROVE Listed(b)
  <2>1. l \in SeenAfter(a)
    BY <1>2
  <2>2. a \in Alive /\ (l \in Seen(a) \/ l = members[home[a]])
    BY <1>7, <2>1 DEF SeenAfter
  <2>3. home[a] \in Homed
    BY <2>2, AliveAgent, HomeHomed
  <2> QED BY <1>7, <2>2, <2>3, ListedSeen
<1> QED BY <1>4, <1>5, <1>6, <1>7

LEMMA TracedNext ==
  ASSUME Orderly, Traced, NoThrow', [Next]_vars
  PROVE  Traced'
<1> SUFFICES ASSUME NEW b \in Agent, Listed(b)' PROVE b \in Alive' \/ stopping'[b]
  BY DEF Traced
<1>1. b \in Alive \/ stopping[b]
  BY ListedBefore DEF Traced
<1>2. b \in Alive /\ b \notin Alive' => stopping[b]
  BY GoneNext
<1>3. stopping[b] => stopping'[b]
  <2>1. CASE stopping' = stopping
    BY <2>1
  <2>2. ASSUME NEW a \in Agent, Stop(a) PROVE stopping[b] => stopping'[b]
    BY <2>2 DEF Stop, Orderly, Course, Books, Types, AgentTypes
  <2> QED BY <2>1, <2>2, StoppingNext
<1> QED BY <1>1, <1>2, <1>3

(* An agent that goes has nothing left.                                    *)
LEMMA EmptyHanded ==
  ASSUME Orderly, NEW s \in Alive, stopping[s], nE[s] = 0
  PROVE  held[s] = {}
<1> USE DEF Orderly, Course, Books
<1>1. s \in Agent /\ Parts(s) /\ view[s] \in SUBSET Member
  BY DEF Alive, Parts, Types, AgentTypes
<1>2. Me(s) \notin view[s]
  BY <1>1 DEF Parted, Staying, Types, AgentTypes
<1>3. /\ view[s] = Full(s) \ {Me(s)} /\ phase[s] \notin {"balance", "hold"}
      /\ \A m \in Full(s) : m = Me(m[1])
  BY <1>1, <1>2, LeavingViews
<1>4. phase[s] \notin {"gone", "thrown"}
  BY DEF Alive
<1> SUFFICES ASSUME NEW c \in held[s] PROVE FALSE
  OBVIOUS
<1>5. Owner(view[s], c) = s /\ c \in Copy
  BY <1>1, <1>3, <1>4 DEF Owned, Types, AgentTypes
<1>6. s # Nobody
  BY <1>1, MemberPairs
<1>7. PICK m \in view[s] : m[1] = s
  BY <1>1, <1>5, <1>6, OwnerType DEF Types
<1> QED BY <1>2, <1>3, <1>7

LEMMA HeldNext ==
  ASSUME Types, Accounts, [Next]_vars, NEW a \in Agent, a \notin Alive
  PROVE  held'[a] = held[a] /\ moves'[a] = moves[a]
<1>1. ASSUME NEW b \in Agent, RecvDown(b) PROVE held'[a] = held[a] /\ moves'[a] = moves[a]
  BY <1>1, TakenDown
<1>2. ASSUME NEW b \in Agent, RecvPeers(b) PROVE held'[a] = held[a] /\ moves'[a] = moves[a]
  <2>1. PICK c \in Agent : RecvMoves(b, c) \/ RecvAck(b, c)
    BY <1>2 DEF RecvPeers
  <2>2. CASE RecvMoves(b, c)
    <3>1. b \in Alive /\ b # a
      BY <2>2 DEF RecvMoves
    <3> QED BY <2>2, <3>1, RecvMovesStep DEF Types, AgentTypes
  <2>3. CASE RecvAck(b, c)
    BY <2>3 DEF RecvAck
  <2> QED BY <2>1, <2>2, <2>3
<1>3. ASSUME NEW b \in Agent, RecvUpdateEdge(b) PROVE held'[a] = held[a] /\ moves'[a] = moves[a]
  <2>1. b # a
    BY <1>3 DEF RecvUpdateEdge, Alive
  <2> QED BY <1>3, <2>1, RecvUpdateEdgeCases DEF Types, AgentTypes
<1>4. ASSUME NEW b \in Agent, Start(b) \/ Shutdown(b) \/ FromAgent(b) \/ Stop(b) PROVE UNCHANGED <<held, moves>>
  BY <1>4 DEF Start, Shutdown, FromAgent, Stop, agentVars
<1>5. ASSUME NEW d \in Directory, NEW e \in Directory, Heartbeat(d) \/ FromPeer(d, e) PROVE UNCHANGED <<held, moves>>
  BY <1>5 DEF Heartbeat, FromPeer, agentVars
<1>6. CASE Command \/ Done \/ UNCHANGED vars
  BY <1>6 DEF Command, Done, vars, agentVars
<1> QED BY <1>1, <1>2, <1>3, <1>4, <1>5, <1>6 DEF Next

LEMMA EmptiedNext ==
  ASSUME Orderly, Orderly', Emptied, [Next]_vars
  PROVE  Emptied'
<1> USE DEF Orderly, Course, Books
<1>0. NoThrow /\ NoThrow'
  BY DEF Rounds
<1> SUFFICES ASSUME NEW a \in Agent, phase'[a] = "gone" PROVE held'[a] = {}
  BY DEF Emptied
<1>1. CASE a \in Alive
  <2>1. a \notin Alive'
    BY DEF Alive
  <2>2. Shutdown(a) /\ nE[a] = 0 /\ stopping[a]
    BY <1>0, <1>1, <2>1, GoneNext
  <2> QED BY <1>1, <2>2, EmptyHanded DEF Shutdown
<1>2. CASE a \notin Alive
  <2>1. held'[a] = held[a]
    BY <1>2, HeldNext
  <2>2. phase[a] # "out"
    <3> SUFFICES ASSUME phase[a] = "out" PROVE FALSE
      OBVIOUS
    <3>1. ~stopping[a] /\ stopping'[a]
      BY DEF Lives
    <3>2. PICK b \in Agent : Stop(b)
      BY <3>1, StoppingNext
    <3>3. b = a
      BY <3>1, <3>2 DEF Stop, Types, AgentTypes
    <3> QED BY <1>2, <3>2, <3>3 DEF Stop
  <2>3. phase[a] = "gone"
    BY <1>0, <1>2, <2>2 DEF Alive, NoThrow
  <2> QED BY <2>1, <2>3 DEF Emptied
<1> QED BY <1>1, <1>2
-----------------------------------------------------------------------------
(* What becomes of copies in a step.                                       *)

Still ==
  /\ UNCHANGED <<held, moves, astray, edges, transposed>>
  /\ \A p, q \in Agent : \A c \in Copy : Carried(peer'[p][q], c) => Carried(peer[p][q], c)
  /\ \A p, q \in Agent : \A c \in Copy : Carried(peer[p][q], c) => Carried(peer'[p][q], c)
  /\ \A p, q \in Agent : \/ peer'[p][q] = peer[p][q]
                         \/ peer[p][q] # <<>> /\ peer'[p][q] = Tail(peer[p][q])

(* Agent a moves away what it does not own by the list mem.                *)
Sorts(a, mem) ==
  /\ a \in Alive /\ mem \in Seen(a) /\ mem \in SUBSET Member /\ mem # {}
  /\ \E ph \in Phase : MoveAway(a, mem, ph) /\ phase'[a] \notin {"out", "gone", "thrown"}
  /\ view'[a] = mem /\ \A b \in Agent \ {a} : view'[b] = view[b]
  /\ UNCHANGED <<edges, transposed>>

LEMMA StillKept ==
  ASSUME UNCHANGED <<held, moves, astray, edges, transposed, peer>>
  PROVE  Still
BY DEF Still

LEMMA Traffic ==
  ASSUME Orderly, Filled, [Next]_vars
  PROVE  \/ Still
         \/ \E a \in Agent, mem \in SUBSET Member : Sorts(a, mem)
         \/ \E a, b \in Agent : RecvMoves(a, b)
         \/ \E a \in Agent : RecvUpdateEdge(a)
<1> USE DEF Orderly, Course, Books
<1> DEFINE G == Still \/ \E a \in Agent, mem \in SUBSET Member : Sorts(a, mem)
<1>1. ASSUME NEW a \in Agent, RecvDown(a) PROVE G
  <2>1. /\ a \in Alive /\ down[a] # <<>> /\ down[a] \in Seq(DownMessage) /\ Head(down[a]) \in DownMessage
        /\ \A b \in Agent \ {a} : view'[b] = view[b]
        /\ UNCHANGED <<edges, transposed>> /\ phase[a] \in Phase
    BY <1>1, TakenDown DEF Types, NetTypes, envVars, AgentTypes
  <2>2. CASE RecvDirectory(a)
    <3> DEFINE m == Head(down[a])
    <3>1. /\ m.type = "DIRECTORY_UPDATE" /\ m.members \in SUBSET Member
          /\ view' = [view EXCEPT ![a] = IF m.changed \/ view[a] = {} THEN m.members ELSE view[a]]
          /\ UNCHANGED <<held, moves, peer, astray>> \/ (m.changed /\ MoveAway(a, m.members, phase[a]))
      <4>1. UNCHANGED astray \/ (m.changed /\ MoveAway(a, m.members, phase[a]))
        BY <2>2 DEF RecvDirectory
      <4> QED BY <2>2, <4>1, RecvDirectoryCases
    <3>2. m = down[a][1] /\ 1 \in DOMAIN down[a] /\ IsList(m)
      BY <2>1, <3>1, TailPlaces DEF IsList
    <3>3. m.members \in Seen(a) /\ m.members # {}
      BY <2>1, <3>2 DEF Seen, Filled
    <3>4. CASE UNCHANGED <<held, moves, peer, astray>>
      BY <2>1, <3>4, StillKept
    <3>5. CASE m.changed /\ MoveAway(a, m.members, phase[a])
      <4>1. phase'[a] \in {"moving", phase[a]}
        BY <2>1, <3>1, <3>5, MoveAwayLeaves
      <4>2. view'[a] = m.members
        BY <3>1, <3>5 DEF Types, AgentTypes
      <4>3. phase'[a] \notin {"out", "gone", "thrown"}
        BY <2>1, <4>1 DEF Alive
      <4>4. Sorts(a, m.members)
        BY <2>1, <3>1, <3>3, <3>5, <4>2, <4>3 DEF Sorts
      <4> QED BY <3>1, <4>4
    <3> QED BY <3>1, <3>4, <3>5
  <2>3. CASE RecvSyncDone(a)
    <3>1. /\ view[a] \in SUBSET Member /\ UNCHANGED view
          /\ \/ phase[a] = "hold" /\ MoveAway(a, view[a], "idle")
             \/ UNCHANGED <<held, moves, peer, astray>>
      <4>1. UNCHANGED <<held, moves, peer, astray>> \/ (phase[a] = "hold" /\ MoveAway(a, view[a], "idle"))
        BY <2>3 DEF RecvSyncDone
      <4> QED BY <2>3, <4>1, RecvSyncDoneCases
    <3>2. CASE UNCHANGED <<held, moves, peer, astray>>
      BY <2>1, <3>2, StillKept
    <3>3. CASE phase[a] = "hold" /\ MoveAway(a, view[a], "idle")
      <4>1. view[a] # {} /\ view[a] \in Seen(a)
        BY <2>1, <3>3 DEF Filled, Engaged, Seen
      <4>2. "idle" \in Phase
        BY DEF Phase
      <4>3. phase'[a] \in {"moving", "idle"}
        BY <3>1, <3>3, <4>2, MoveAwayLeaves
      <4>4. Sorts(a, view[a])
        BY <2>1, <3>1, <3>3, <4>1, <4>2, <4>3 DEF Sorts
      <4> QED BY <3>1, <4>4
    <3> QED BY <3>1, <3>2, <3>3
  <2>4. CASE RecvVa(a) \/ RecvCsLb(a)
    <3>1. UNCHANGED <<held, moves, peer, astray>>
      BY <2>4 DEF RecvVa, RecvCsLb
    <3> QED BY <2>1, <3>1, StillKept
  <2> QED BY <1>1, <2>2, <2>3, <2>4 DEF RecvDown
<1>2. ASSUME NEW a \in Agent, NEW b \in Agent, RecvAck(a, b) PROVE Still
  <2>1. /\ peer[b][a] # <<>> /\ Head(peer[b][a]).type = "ack" /\ peer' = [peer EXCEPT ![b][a] = Tail(@)]
        /\ UNCHANGED <<held, moves, astray, edges, transposed>>
    BY <1>2 DEF RecvAck, envVars
  <2>2. peer[b][a] \in Seq(PeerMessage) /\ peer \in [Agent -> [Agent -> Seq(PeerMessage)]]
    BY DEF Types, NetTypes
  <2>3. \A c \in Copy : Carried(peer[b][a], c) <=> Carried(Tail(peer[b][a]), c)
    BY <2>1, <2>2, CarriedTail DEF Brings
  <2>4. \A p, q \in Agent : peer'[p][q] = IF p = b /\ q = a THEN Tail(peer[b][a]) ELSE peer[p][q]
    BY <2>1, <2>2
  <2> QED BY <2>1, <2>3, <2>4 DEF Still
<1>3. ASSUME UNCHANGED <<held, moves, astray, peer, edges, transposed>> PROVE Still
  BY <1>3, StillKept
<1>4. ASSUME NEW a \in Agent, Start(a) \/ Shutdown(a) \/ FromAgent(a) \/ Stop(a) PROVE Still
  BY <1>3, <1>4 DEF Start, Shutdown, FromAgent, Stop, agentVars, envVars, netVars
<1>5. ASSUME NEW d \in Directory, NEW e \in Directory, Heartbeat(d) \/ FromPeer(d, e) PROVE Still
  BY <1>3, <1>5 DEF Heartbeat, FromPeer, agentVars, envVars
<1>6. CASE Command \/ Done \/ UNCHANGED vars
  BY <1>3, <1>6 DEF Command, Done, vars, agentVars, netVars, envVars
<1> HIDE DEF G
<1> QED BY <1>1, <1>2, <1>4, <1>5, <1>6 DEF Next, RecvPeers, G

(* Both kinds of step send to agents that run, or to agent 0.              *)
LEMMA SortsToRunning ==
  ASSUME Orderly, Traced, Deposits, NEW a \in Agent, NEW mem \in SUBSET Member, Sorts(a, mem), NEW x \in Outgoing(a, mem)
  PROVE  x[1] \in Alive \cup {Nobody}
<1> USE DEF Orderly, Course, Books
<1>1. CASE x \in moves[a]
  BY <1>1 DEF Deposits
<1>2. CASE x \notin moves[a]
  <2>1. PICK c \in Lost(a, mem) : x = <<Owner(mem, c), c>>
    BY <1>2 DEF Outgoing
  <2> DEFINE o == Owner(mem, c)
  <2>2. c \in held[a] /\ c \in Copy /\ o # a /\ a \in Alive /\ mem \in Seen(a) /\ mem # {}
    BY <2>1 DEF Lost, Types, AgentTypes, Sorts
  <2>3. o \in Agent /\ (o \in Alive \/ (Parts(o) /\ Me(o) \in mem))
    BY <2>2, OwnerRuns
  <2>4. ~(Parts(o) /\ Me(o) \in mem)
    <3> SUFFICES ASSUME Parts(o), Me(o) \in mem PROVE FALSE
      OBVIOUS
    <3>1. mem = view[a] /\ phase[a] \notin {"balance", "hold"}
      BY <2>2, <2>3, LeavingViews
    <3>2. Owner(view[a], c) = a
      BY <2>2, <3>1 DEF Owned, Alive
    <3> QED BY <2>2, <3>1, <3>2
  <2> QED BY <2>1, <2>3, <2>4
<1> QED BY <1>1, <1>2

LEMMA GoneSilent ==
  ASSUME Orderly, NEW s \in Agent, s \notin Alive, stopping[s]
  PROVE  phase[s] = "gone" /\ acks[s] = 0 /\ \A b \in Agent : \A c \in Copy : ~Carried(peer[s][b], c)
<1> USE DEF Orderly, Course, Books
<1>1. phase[s] = "gone"
  BY DEF Rounds, NoThrow, Lives, Alive
<1>2. acks[s] = 0
  BY <1>1 DEF Lives
<1>3. \A b \in Agent : \A i \in DOMAIN peer[s][b] : peer[s][b][i].type # "moves"
  BY <1>2, NothingOwed
<1> QED BY <1>1, <1>2, <1>3 DEF Carried

LEMMA HeadCarried ==
  ASSUME Types, NEW a \in Agent, NEW b \in Agent, RecvMoves(a, b), NEW c \in Head(peer[b][a]).copies
  PROVE  c \in Copy /\ Carried(peer[b][a], c)
<1>1. peer[b][a] # <<>> /\ Head(peer[b][a]).type = "moves" /\ Head(peer[b][a]).copies \in SUBSET Copy
  BY RecvMovesStep
<1>2. Head(peer[b][a]) = peer[b][a][1] /\ 1 \in DOMAIN peer[b][a]
  BY <1>1, TailPlaces DEF Types, NetTypes
<1> QED BY <1>1, <1>2 DEF Carried

LEMMA OnwardToRunning ==
  ASSUME Orderly, Careful, Traced, Deposits, HandedOver, NEW a \in Agent, NEW b \in Agent, RecvMoves(a, b),
         NEW x \in Onward(a, Head(peer[b][a]).copies)
  PROVE  x[1] \in Alive \cup {Nobody}
<1> USE DEF Orderly, Course, Books
<1> DEFINE copies == Head(peer[b][a]).copies
<1>1. CASE x \in moves[a]
  BY <1>1 DEF Deposits
<1>2. CASE x \notin moves[a]
  <2>1. PICK c \in copies \ Mine(a, copies) : x = <<Owner(view[a], c), c>>
    BY <1>2 DEF Onward
  <2> DEFINE o == Owner(view[a], c)
  <2>2. /\ c \in Copy /\ Carried(peer[b][a], c) /\ o # a /\ a \in Alive
        /\ view[a] \in Seen(a) /\ view[a] \in SUBSET Member
    BY <2>1, HeadCarried, RecvMovesStep DEF Mine, Seen, Types, AgentTypes
  <2>0. CASE view[a] = {}
    BY <2>0, <2>1, <2>2, OwnerType DEF Types
  <2> SUFFICES ASSUME view[a] # {} PROVE x[1] \in Alive
    BY <2>0
  <2>3. o \in Agent /\ (o \in Alive \/ (Parts(o) /\ Me(o) \in view[a]))
    BY <2>2, OwnerRuns
  <2>4. ASSUME o \notin Alive PROVE FALSE
    <3>1. Parts(o) /\ view[a] = Full(o)
      BY <2>2, <2>3, <2>4, LeavingViews
    <3>2. (b = o /\ a = Heir(o, c)) \/ (b = Heir(o, c) /\ a = o)
      BY <2>2, <2>3, <3>1 DEF HandedOver
    <3>3. b = o
      BY <2>2, <3>2
    <3>4. stopping[o]
      BY <3>1 DEF Parts
    <3> QED BY <2>2, <2>3, <2>4, <3>3, <3>4, GoneSilent
  <2> QED BY <2>1, <2>3, <2>4
<1> QED BY <1>1, <1>2

(* Edges that wait at an agent.                                            *)
LEMMA StopsFirst ==
  ASSUME Orderly, [Next]_vars, Leaving', ~Leaving
  PROVE  \E a \in Agent : Stop(a)
BY LeavingNext, StoppingNext

LEMMA DepositsNext ==
  ASSUME Orderly, Careful, Filled, Traced, Deposits, NoThrow', [Next]_vars
  PROVE  Deposits'
<1> USE DEF Orderly, Course, Books
<1>0. moves \in [Agent -> SUBSET Pairs]
  BY DEF Types, AgentTypes, Pairs
<1>1. ASSUME NEW b \in Alive, b \notin Alive' PROVE Leaving
  BY <1>1, GoneNext DEF Leaving, Alive
<1>2. \/ \A a \in Agent : moves'[a] \in {moves[a], {}}
      \/ \E a \in Agent : RecvUpdateEdge(a)
  <2>1. ASSUME NEW a \in Agent, NEW mem \in SUBSET Member, Sorts(a, mem) PROVE \A b \in Agent : moves'[b] \in {moves[b], {}}
    BY <2>1, MoveAwayLeaves DEF Sorts
  <2>2. ASSUME NEW a \in Agent, NEW b \in Agent, RecvMoves(a, b) PROVE \A d \in Agent : moves'[d] \in {moves[d], {}}
    BY <1>0, <2>2, RecvMovesStep
  <2> QED BY <2>1, <2>2, Traffic DEF Still
<1>3. CASE \A a \in Agent : moves'[a] \in {moves[a], {}}
  <2>1. ASSUME NEW a \in Agent, NEW x \in moves'[a] PROVE a \in Alive' /\ x[1] \in Alive' \cup {Nobody}
    <3>1. x \in moves[a]
      BY <1>3, <2>1
    <3>2. ~Leaving /\ a \in Alive /\ x[1] \in Alive \cup {Nobody}
      BY <3>1 DEF Deposits
    <3> QED BY <1>1, <3>2
  <2>2. ASSUME Leaving' PROVE \A a \in Agent : moves'[a] = {}
    <3>1. CASE Leaving
      BY <1>3, <3>1 DEF Deposits
    <3>2. CASE ~Leaving
      BY <1>3, <2>2, <3>2, StopsFirst DEF Stop
    <3> QED BY <3>1, <3>2
  <2> QED BY <2>1, <2>2 DEF Deposits
<1>4. ASSUME NEW a \in Agent, RecvUpdateEdge(a) PROVE Deposits'
  <2>1. /\ UNCHANGED <<phase, stopping>> /\ ~Leaving /\ phase[a] = "load"
        /\ UNCHANGED moves \/ \E o \in Agent \cup {Nobody} : \E y \in Copy :
             /\ o = Nobody \/ (o \in Agent /\ \E m \in view[a] : o = m[1])
             /\ moves' = [moves EXCEPT ![a] = moves[a] \cup {<<o, y>>}]
    BY <1>4, RecvUpdateEdgeCases, CopyType
  <2>2. a \in Alive /\ Alive' = Alive
    BY <2>1 DEF Alive
  <2>3. \A m \in view[a] : m[1] \in Agent => m[1] \in Alive
    <3> SUFFICES ASSUME NEW m \in view[a], m[1] \in Agent PROVE m[1] \in Alive
      OBVIOUS
    <3>1. Listed(m[1])
      BY <2>2, ListedSeen DEF Seen
    <3>2. m[1] \in Alive \/ stopping[m[1]]
      BY <3>1 DEF Traced
    <3> QED BY <2>1, <3>1, <3>2 DEF Leaving
  <2>4. ASSUME NEW b \in Agent, NEW x \in moves'[b] PROVE b \in Alive /\ x[1] \in Alive \cup {Nobody}
    <3>1. x \in moves[b] \/ (b = a /\ x[1] \in Alive \cup {Nobody})
      BY <1>0, <2>1, <2>3, <2>4
    <3> QED BY <2>2, <3>1 DEF Deposits
  <2>5. ~Leaving'
    <3>1. UNCHANGED stopping /\ ~Leaving
      BY <2>1
    <3> QED BY <3>1, LeavingNext
  <2> QED BY <2>2, <2>4, <2>5 DEF Deposits
<1> QED BY <1>2, <1>3, <1>4
(* What is on its way goes to an agent that runs.                          *)
LEMMA SortsFlow ==
  ASSUME Orderly, NEW a \in Agent, NEW mem \in SUBSET Member, Sorts(a, mem)
  PROVE  /\ Flow(a, a, {}, held[a] \ Lost(a, mem), Outgoing(a, mem))
         /\ \A q \in Agent \ {a} : phase'[q] = phase[q]
         /\ \A x \in Agent : peer'[a][x] = Sending(a, x, Outgoing(a, mem))
         /\ \A x \in Agent \ {a} : peer'[x] = peer[x]
BY MoveAwayFlow, MoveAwayLeaves, MoveAwayNet DEF Sorts, Orderly, Course, Books

LEMMA DeliveredNext ==
  ASSUME Orderly, Careful, Filled, Traced, Deposits, Delivered, HandedOver, Answers, NoThrow', [Next]_vars
  PROVE  Delivered'
<1> USE DEF Orderly, Course, Books
<1>1. ASSUME NEW p \in Agent, NEW q \in Agent, NEW c \in Copy, Carried(peer[p][q], c) PROVE q \in Alive'
  <2>1. q \in Alive
    BY <1>1 DEF Delivered
  <2> SUFFICES ASSUME q \notin Alive' PROVE FALSE
    OBVIOUS
  <2>2. acks[q] = 0 /\ stopping[q]
    BY <2>1, GoneNext
  <2>3. Answered(peer[p][q])
    BY <2>1, <2>2 DEF Parts, Answers
  <2>4. \A i \in DOMAIN peer[p][q] : peer[p][q][i].type # "ack"
    BY <2>2, NothingOwed
  <2> QED BY <1>1, <2>3, <2>4 DEF Carried, Answered
<1> SUFFICES ASSUME NEW p \in Agent, NEW q \in Agent, NEW c \in Copy, Carried(peer'[p][q], c), ~Carried(peer[p][q], c)
             PROVE  q \in Alive'
  BY <1>1 DEF Delivered, Carried
<1>2. ASSUME NEW a \in Agent, NEW mem \in SUBSET Member, Sorts(a, mem) PROVE q \in Alive'
  <2>1. <<q, c>> \in Outgoing(a, mem)
    BY <1>2, SortsFlow DEF Flow
  <2>2. q \in Alive
    BY <1>2, <2>1, SortsToRunning, MemberPairs
  <2> QED BY <1>2, <2>2, SortsFlow DEF Sorts, Alive
<1>3. ASSUME NEW a \in Agent, NEW b \in Agent, RecvMoves(a, b) PROVE q \in Alive'
  <2>1. <<q, c>> \in Onward(a, Head(peer[b][a]).copies)
    BY <1>3, RecvMovesFlow DEF Flow
  <2>2. q \in Alive
    BY <1>3, <2>1, OnwardToRunning, MemberPairs
  <2> QED BY <1>3, <2>2 DEF RecvMoves, Alive
<1>4. ASSUME NEW a \in Agent, RecvUpdateEdge(a) PROVE FALSE
  BY <1>4 DEF RecvUpdateEdge, netVars
<1> QED BY <1>2, <1>3, <1>4, Traffic DEF Still

(* Who owns something by a list is on it.                                  *)
LEMMA LeavingOwner ==
  ASSUME Orderly, NEW s \in Agent, Parts(s), NEW a \in Alive, NEW l \in Seen(a), l \in SUBSET Member,
         NEW c \in Copy, Owner(l, c) = s
  PROVE  Me(s) \in l /\ l = Full(s) /\ view[a] = Full(s)
<1> USE DEF Orderly, Course, Books
<1>1. s # Nobody
  BY MemberPairs
<1>2. PICK m \in l : m[1] = s
  BY <1>1, OwnerType DEF Types
<1>3. l \in Lists(s) /\ \A k \in Full(s) : k = Me(k[1])
  BY LeavingViews
<1>4. m = Me(s)
  BY <1>2, <1>3 DEF Lists
<1> QED BY <1>2, <1>4, LeavingViews

(* A list without the leaving agent is not forgotten.                      *)
LEMMA LeavingForgotten ==
  ASSUME Orderly, NEW s \in Agent, Parts(s), NEW a \in Alive, Me(s) \notin view[a], [Next]_vars
  PROVE  Me(s) \notin view'[a]
<1> USE DEF Orderly, Course, Books
<1>1. Taken(a) \/ Put(a)
  BY TakenOrPut DEF Alive
<1>2. CASE Put(a)
  BY <1>2 DEF Put
<1>3. CASE Taken(a)
  <2>1. down[a] # <<>> /\ down[a] \in Seq(DownMessage)
    BY <1>3 DEF Taken, Alive, Types, NetTypes
  <2>2. Head(down[a]) = down[a][1] /\ 1 \in DOMAIN down[a]
    BY <2>1, TailPlaces
  <2>3. IsList(Head(down[a])) => Head(down[a]).members \in Seen(a)
    BY <2>2 DEF Seen
  <2>4. IsList(Head(down[a])) => Me(s) \notin Head(down[a]).members
    <3> SUFFICES ASSUME IsList(Head(down[a])), Me(s) \in Head(down[a]).members PROVE FALSE
      OBVIOUS
    <3>1. view[a] = Full(s) /\ Me(s) \in Full(s)
      BY <2>3, LeavingViews
    <3> QED BY <3>1
  <2> QED BY <1>3, <2>4 DEF Taken
<1> QED BY <1>1, <1>2, <1>3

(* At the time of SIGTERM.                                                 *)
LEMMA LeavingBegins ==
  ASSUME Orderly, Careful, Emptied, [Next]_vars, NEW s \in Agent, Parts(s)', ~Parts(s)
  PROVE  /\ \A a, b \in Agent : peer'[a][b] = <<>>
         /\ Full(s)' = Running /\ UNCHANGED <<held, peer>>
         /\ \A a \in Agent : \A c \in held[a] : Owner(Running, c) = a
<1> USE DEF Orderly, Course, Books
<1>1. ~stopping[s] /\ stopping'[s]
  <2>1. stopping'[s] /\ (s \in Alive' \/ Listed(s)')
    BY DEF Parts
  <2> QED BY <2>1, PartsFewer
<1>2. PICK b \in Agent : Stop(b)
  BY <1>1, StoppingNext
<1>3. b = s
  BY <1>1, <1>2 DEF Stop, Types, AgentTypes
<1>4. Quiet /\ s \in Alive /\ UNCHANGED <<phase, vcount, held, peer>>
  BY <1>2, <1>3 DEF Stop, netVars
<1>5. Full(s)' = Running
  BY <1>4 DEF Full, Running, Me, Alive
<1>6. ASSUME NEW a \in Agent, NEW c \in held[a] PROVE Owner(Running, c) = a
  <2>1. a \in Alive
    <3>1. phase[a] # "thrown"
      BY DEF Rounds, NoThrow
    <3> QED BY <1>6, <3>1 DEF Alive, Lives, Emptied
  <2>2. view[a] = Running /\ phase[a] \in {"out", "load", "idle", "gone"}
    BY <1>4, <2>1, Calm DEF Quiet
  <2>3. phase[a] \notin {"balance", "hold", "gone", "thrown"}
    BY <2>1, <2>2 DEF Alive
  <2> QED BY <1>6, <2>2, <2>3 DEF Owned
<1> QED BY <1>4, <1>5, <1>6 DEF Quiet

LEMMA HandedOverNext ==
  ASSUME Orderly, Careful, Filled, Deposits, HandedOver, Emptied, [Next]_vars
  PROVE  HandedOver'
<1> USE DEF Orderly, Course, Books
<1> SUFFICES ASSUME NEW s \in Agent, Parts(s)', NEW c \in Copy, Owner(Full(s)', c) = s
             PROVE  LET x == Owner(Full(s)' \ {Me(s)'}, c)
                    IN  /\ \A a \in Agent : c \in held'[a] => a = s \/ (a = x /\ Me(s)' \notin view'[a])
                        /\ \A a, b \in Agent : Carried(peer'[a][b], c) => (a = s /\ b = x) \/ (a = x /\ b = s)
  BY DEF HandedOver, Heir, Owner, OwnerOf, Carried
<1>1. CASE ~Parts(s)
  <2>1. /\ \A a, b \in Agent : ~Carried(peer'[a][b], c)
        /\ \A a \in Agent : c \in held'[a] => Owner(Full(s)', c) = a
    BY <1>1, LeavingBegins, CarriedEmpty
  <2> QED BY <2>1
<1>2. CASE Parts(s)
  <2> DEFINE x == Heir(s, c)
  <2>1. Full(s)' = Full(s) /\ Me(s)' = Me(s)
    BY <1>2, StopFull
  <2>2. Owner(Full(s), c) = s
    BY <2>1
  <2>3. /\ \A a \in Agent : c \in held[a] => a = s \/ (a = x /\ Me(s) \notin view[a])
        /\ \A a, b \in Agent : Carried(peer[a][b], c) => (a = s /\ b = x) \/ (a = x /\ b = s)
    BY <1>2, <2>2 DEF HandedOver
  <2>4. Leaving /\ \A a \in Agent : moves[a] = {}
    BY <1>2, PartsLeaving DEF Deposits
  <2>5. ASSUME NEW a \in Agent, c \in held[a] PROVE a = s \/ (a = x /\ Me(s) \notin view'[a])
    <3>1. CASE a \in Alive
      BY <1>2, <2>3, <2>5, <3>1, LeavingForgotten
    <3>2. CASE a \notin Alive
      BY <2>5, <3>2 DEF Alive, Lives, Emptied, Rounds, NoThrow
    <3> QED BY <3>1, <3>2
  <2> DEFINE G == /\ \A a \in Agent : c \in held'[a] => a = s \/ (a = x /\ Me(s) \notin view'[a])
                  /\ \A a, b \in Agent : Carried(peer'[a][b], c) => (a = s /\ b = x) \/ (a = x /\ b = s)
  <2>6. ASSUME Still PROVE G
    BY <2>3, <2>5, <2>6 DEF Still
  <2>7. ASSUME NEW a \in Agent, NEW mem \in SUBSET Member, Sorts(a, mem) PROVE G
    <3>1. Flow(a, a, {}, held[a] \ Lost(a, mem), Outgoing(a, mem)) /\ a \in Alive /\ mem \in Seen(a)
      BY <2>7, SortsFlow DEF Sorts
    <3>2. \A b \in Agent : held'[b] \subseteq held[b]
      BY <3>1 DEF Flow, Types, AgentTypes
    <3>3. ASSUME NEW q \in Agent, <<q, c>> \in Outgoing(a, mem) PROVE a = s /\ q = x
      <4>1. c \in Lost(a, mem) /\ q = Owner(mem, c)
        BY <2>4, <3>3 DEF Outgoing
      <4>2. c \in held[a] /\ q # a
        BY <4>1 DEF Lost
      <4>3. phase[a] \notin {"balance", "hold"} /\ view[a] \in SUBSET Member
        BY <1>2, <3>1, LeavingViews DEF Types, AgentTypes
      <4>4. Owner(view[a], c) = a
        BY <3>1, <4>2, <4>3 DEF Owned, Alive
      <4>5. mem # view[a]
        BY <4>1, <4>2, <4>4
      <4>6. view[a] = Full(s) /\ mem = Full(s) \ {Me(s)}
        BY <1>2, <3>1, <4>5, LeavingViews
      <4> QED BY <2>2, <4>1, <4>4, <4>6 DEF Heir
    <3>4. \A p, q \in Agent : Carried(peer'[p][q], c) => Carried(peer[p][q], c) \/ (p = a /\ <<q, c>> \in Outgoing(a, mem))
      BY <3>1 DEF Flow
    <3> HIDE DEF x
    <3> QED BY <2>3, <2>5, <3>2, <3>3, <3>4
  <2>8. ASSUME NEW a \in Agent, NEW b \in Agent, RecvMoves(a, b) PROVE G
    <3> DEFINE copies == Head(peer[b][a]).copies
    <3>1. Flow(a, b, copies, held[a] \cup Mine(a, copies), Onward(a, copies))
      BY <2>8, RecvMovesFlow
    <3>2. a \in Alive /\ view' = view /\ view[a] \in Seen(a) /\ view[a] \in SUBSET Member
      BY <2>8 DEF RecvMoves, Seen, Types, AgentTypes
    <3>3. c \in copies => (b = s /\ a = x) \/ (b = x /\ a = s)
      BY <2>3, <2>8, HeadCarried
    <3>4. \/ view[a] = Full(s) /\ Owner(view[a], c) = s
          \/ Me(s) \notin view[a] /\ Owner(view[a], c) = x
      BY <1>2, <2>2, <3>2, LeavingViews DEF Heir
    <3>5. ASSUME c \in Mine(a, copies) PROVE a = s \/ (a = x /\ Me(s) \notin view'[a])
      BY <3>2, <3>3, <3>4, <3>5 DEF Mine
    <3>6. ASSUME NEW q \in Agent, <<q, c>> \in Onward(a, copies) PROVE (a = s /\ q = x) \/ (a = x /\ q = s)
      <4>1. c \in copies /\ q = Owner(view[a], c) /\ q # a
        BY <2>4, <3>6 DEF Onward, Mine
      <4> QED BY <3>3, <3>4, <4>1
    <3>7. \A p, q \in Agent : Carried(peer'[p][q], c) => Carried(peer[p][q], c) \/ (p = a /\ <<q, c>> \in Onward(a, copies))
      BY <3>1 DEF Flow
    <3>8. \A d \in Agent : c \in held'[d] => c \in held[d] \/ (d = a /\ c \in Mine(a, copies))
      BY <3>1 DEF Flow, Types, AgentTypes
    <3> HIDE DEF x, copies
    <3> QED BY <2>3, <2>5, <3>5, <3>6, <3>7, <3>8
  <2>9. ASSUME NEW a \in Agent, RecvUpdateEdge(a) PROVE FALSE
    BY <2>4, <2>9 DEF RecvUpdateEdge
  <2>10. G
    <3> HIDE DEF G
    <3> QED BY <2>6, <2>7, <2>8, <2>9, Traffic
  <2> QED BY <2>1, <2>10 DEF Heir
<1> QED BY <1>1, <1>2
LEMMA AnswersNext ==
  ASSUME Orderly, Careful, Filled, Deposits, HandedOver, Answers, Emptied, [Next]_vars
  PROVE  Answers'
<1> USE DEF Orderly, Course, Books
<1> SUFFICES ASSUME NEW s \in Agent, Parts(s)', NEW a \in Agent PROVE Answered(peer'[a][s])
  BY DEF Answers, Answered
<1>1. CASE ~Parts(s)
  <2>1. peer'[a][s] = <<>>
    BY <1>1, LeavingBegins
  <2> QED BY <2>1 DEF Answered
<1>2. CASE Parts(s)
  <2>1. Answered(peer[a][s]) /\ peer[a][s] \in Seq(PeerMessage)
    BY <1>2 DEF Answers, Types, NetTypes
  <2>2. peer[a][s] # <<>> => Answered(Tail(peer[a][s]))
    BY <2>1, AnsweredTail
  <2>3. Leaving /\ \A b \in Agent : moves[b] = {}
    BY <1>2, PartsLeaving DEF Deposits
  <2>4. ASSUME Still PROVE Answered(peer'[a][s])
    BY <2>1, <2>2, <2>4 DEF Still
  <2>5. ASSUME NEW b \in Agent, NEW mem \in SUBSET Member, Sorts(b, mem) PROVE peer'[a][s] = peer[a][s]
    <3>1. CASE a # b
      BY <2>5, <3>1, SortsFlow
    <3>2. CASE a = b
      <4>1. peer'[b][s] = Sending(b, s, Outgoing(b, mem)) /\ b \in Alive /\ mem \in Seen(b) /\ view[b] \in SUBSET Member
        BY <2>5, SortsFlow DEF Sorts, Types, AgentTypes
      <4>2. ASSUME s \in Receiving(Outgoing(b, mem)) PROVE FALSE
        <5>1. PICK c \in Lost(b, mem) : s = Owner(mem, c)
          BY <2>3, <4>2 DEF Receiving, Outgoing
        <5>2. c \in held[b] /\ c \in Copy /\ s # b
          BY <5>1 DEF Lost, Types, AgentTypes
        <5>3. view[b] = mem
          BY <1>2, <4>1, <5>1, <5>2, LeavingOwner
        <5>4. phase[b] \notin {"balance", "hold"}
          BY <1>2, <4>1, LeavingViews
        <5>5. Owner(view[b], c) = b
          BY <4>1, <5>2, <5>4 DEF Owned, Alive
        <5> QED BY <5>1, <5>2, <5>3, <5>5
      <4> QED BY <3>2, <4>1, <4>2 DEF Sending
    <3> QED BY <3>1, <3>2
  <2>6. ASSUME NEW d \in Agent, NEW b \in Agent, RecvMoves(d, b) PROVE Answered(peer'[a][s])
    <3> DEFINE copies == Head(peer[b][d]).copies
               mv == Onward(d, copies)
    <3>1. /\ d \in Alive /\ d # b /\ peer[b][d] # <<>> /\ copies \in SUBSET Copy
          /\ peer'[b][d] = Tail(peer[b][d])
          /\ peer'[d][b] = Append(Sending(d, b, mv), Plain("ack"))
          /\ \A x \in Agent \ {b} : peer'[d][x] = Sending(d, x, mv)
          /\ \A x, y \in Agent : x # d /\ ~(x = b /\ y = d) => peer'[x][y] = peer[x][y]
      BY <2>6, RecvMovesStep
    <3>2. mv \in SUBSET Pairs /\ d \notin Receiving(mv) /\ view[d] \in Seen(d) /\ view[d] \in SUBSET Member
      BY <3>1, OnwardType DEF Seen, Types, AgentTypes
    <3>3. CASE a # d
      BY <2>1, <2>2, <3>1, <3>3
    <3>4. CASE a = d /\ s = b
      <4>1. Parcel(mv, b) \in PeerMessage /\ Plain("ack") \in PeerMessage /\ Plain("ack").type = "ack"
        BY <3>2, ParcelType DEF Plain, PeerMessage
      <4>2. Answered(Append(Append(peer[a][s], Parcel(mv, b)), Plain("ack")))
        BY <2>1, <4>1, AnsweredAppend
      <4>3. Answered(Append(peer[a][s], Plain("ack")))
        BY <2>1, <4>1, AnsweredAppend
      <4>4. peer'[a][s] \in {Append(Append(peer[a][s], Parcel(mv, b)), Plain("ack")), Append(peer[a][s], Plain("ack"))}
        BY <3>1, <3>4 DEF Sending
      <4> QED BY <4>2, <4>3, <4>4
    <3>5. CASE a = d /\ s # b
      <4>1. peer'[a][s] = Sending(d, s, mv)
        BY <3>1, <3>5
      <4>2. ASSUME s \in Receiving(mv) PROVE FALSE
        <5>1. PICK c \in copies \ Mine(d, copies) : s = Owner(view[d], c)
          BY <2>3, <4>2 DEF Receiving, Onward
        <5>2. c \in Copy /\ Carried(peer[b][d], c) /\ s # d
          BY <2>6, <3>2, <4>2, HeadCarried
        <5>3. Owner(Full(s), c) = s
          BY <1>2, <3>1, <3>2, <5>1, <5>2, LeavingOwner
        <5> QED BY <1>2, <3>5, <5>2, <5>3 DEF HandedOver
      <4>3. peer'[a][s] = peer[a][s]
        BY <3>5, <4>1, <4>2 DEF Sending
      <4> QED BY <2>1, <4>3
    <3> QED BY <3>3, <3>4, <3>5
  <2>7. ASSUME NEW b \in Agent, RecvUpdateEdge(b) PROVE FALSE
    BY <2>3, <2>7 DEF RecvUpdateEdge
  <2> QED BY <2>1, <2>4, <2>5, <2>6, <2>7, Traffic
<1> QED BY <1>1, <1>2

(* What is sent to agents arrives in their queue.                          *)
LEMMA FlowKeeps ==
  ASSUME Types, NEW a \in Agent, NEW b \in Agent, NEW popped, NEW keep, NEW mv,
         Flow(a, b, popped, keep, mv), \A x \in mv : x[1] \in Agent \cup {Nobody}, NEW c \in Copy, Somewhere(c)
  PROVE  Somewhere(c)' \/ <<Nobody, c>> \in mv
<1> SUFFICES ASSUME <<Nobody, c>> \notin mv PROVE Somewhere(c)'
  OBVIOUS
<1>1. /\ held' = [held EXCEPT ![a] = keep] /\ moves' = [moves EXCEPT ![a] = {}]
      /\ c \in Here(a) \cup popped => c \in keep \/ \E o : <<o, c>> \in mv
      /\ \A p, q \in Agent : /\ p = a /\ <<q, c>> \in mv => Carried(peer'[p][q], c)
                             /\ Carried(peer[p][q], c) /\ ~(p = b /\ q = a /\ c \in popped) => Carried(peer'[p][q], c)
  BY DEF Flow
<1>2. held \in [Agent -> SUBSET Copy] /\ moves \in [Agent -> SUBSET ((Agent \cup {Nobody}) \X Copy)]
  BY DEF Types, AgentTypes
<1>3. c \in keep => c \in Here(a)'
  BY <1>1, <1>2 DEF Here
<1>4. ASSUME NEW o, <<o, c>> \in mv PROVE Somewhere(c)'
  <2>1. o \in Agent
    <3>1. <<o, c>>[1] \in Agent \cup {Nobody}
      BY <1>4
    <3> QED BY <1>4, <3>1
  <2> QED BY <1>1, <1>4, <2>1 DEF Somewhere, Carried
<1>5. c \in Here(a) \cup popped => Somewhere(c)'
  BY <1>1, <1>3, <1>4 DEF Somewhere
<1>6. ASSUME NEW x \in Agent, c \in Here(x), x # a PROVE Somewhere(c)'
  <2>1. held'[x] = held[x] /\ moves'[x] = moves[x]
    BY <1>1, <1>2, <1>6
  <2>2. c \in Here(x)'
    BY <1>6, <2>1 DEF Here
  <2> QED BY <2>2 DEF Somewhere
<1>7. ASSUME NEW p \in Agent, NEW q \in Agent, Carried(peer[p][q], c), c \notin popped PROVE Somewhere(c)'
  BY <1>1, <1>7 DEF Somewhere, Carried
<1> QED BY <1>5, <1>6, <1>7 DEF Somewhere

LEMMA ExpectedType ==
  ASSUME Types
  PROVE  Expected \in SUBSET Copy
BY CopyType DEF Expected, Types, EnvTypes

(* Who has a list gives nothing to agent 0.                                *)
LEMMA NoStrays ==
  ASSUME Types, NEW mem \in SUBSET Member, mem # {}, NEW copies \in SUBSET Copy
  PROVE  Strays(mem, copies) = {}
BY OwnerType, MemberPairs DEF Strays, Types

LEMMA SortsStrays ==
  ASSUME Orderly, StrayTypes, NEW a \in Agent, NEW mem \in SUBSET Member, Sorts(a, mem)
  PROVE  /\ astray' = astray
         /\ \A c : <<Nobody, c>> \in Outgoing(a, mem) => <<Nobody, c>> \in moves[a]
<1> USE DEF Orderly, Course, Books
<1>1. mem # {} /\ Lost(a, mem) \in SUBSET Copy
  BY DEF Sorts, Lost, Types, AgentTypes
<1>2. Strays(mem, Lost(a, mem)) = {}
  BY <1>1, NoStrays
<1>3. astray' = [astray EXCEPT ![a] = astray[a] \cup Strays(mem, Lost(a, mem))]
  BY DEF Sorts, MoveAway, Lost
<1>4. astray' = astray
  BY <1>2, <1>3 DEF StrayTypes
<1>5. ASSUME NEW c, <<Nobody, c>> \in Outgoing(a, mem), <<Nobody, c>> \notin moves[a] PROVE FALSE
  <2>1. PICK k \in Lost(a, mem) : <<Nobody, c>> = <<Owner(mem, k), k>>
    BY <1>5 DEF Outgoing
  <2>2. k \in Strays(mem, Lost(a, mem))
    BY <2>1 DEF Strays
  <2> QED BY <1>2, <2>2
<1> QED BY <1>4, <1>5

LEMMA MovesStrays ==
  ASSUME Types, NEW a \in Agent, NEW b \in Agent, RecvMoves(a, b)
  PROVE  LET copies == Head(peer[b][a]).copies
             S == Strays(view[a], copies)
         IN  /\ astray' = [astray EXCEPT ![a] = astray[a] \cup S]
             /\ S \in SUBSET Copy /\ (view[a] # {} => S = {})
             /\ \A c \in S : c \in copies /\ <<Nobody, c>> \in Onward(a, copies)
             /\ \A c : <<Nobody, c>> \in Onward(a, copies) => <<Nobody, c>> \in moves[a] \/ c \in S
<1> DEFINE copies == Head(peer[b][a]).copies
           S == Strays(view[a], copies)
<1>1. copies \in SUBSET Copy /\ view[a] \in SUBSET Member
  BY RecvMovesStep DEF Types, AgentTypes
<1>2. astray' = [astray EXCEPT ![a] = astray[a] \cup S]
  BY DEF RecvMoves
<1> HIDE DEF copies
<1>3. S \in SUBSET Copy /\ (view[a] # {} => S = {})
  BY <1>1, NoStrays DEF Strays
<1>4. ASSUME NEW c \in S PROVE c \in copies /\ <<Nobody, c>> \in Onward(a, copies)
  <2>1. c \in copies /\ Owner(view[a], c) = Nobody /\ Nobody # a
    BY MemberPairs DEF Strays
  <2> QED BY <2>1 DEF Onward, Mine
<1>5. ASSUME NEW c, <<Nobody, c>> \in Onward(a, copies), <<Nobody, c>> \notin moves[a] PROVE c \in S
  <2>1. PICK k \in copies \ Mine(a, copies) : <<Nobody, c>> = <<Owner(view[a], k), k>>
    BY <1>5 DEF Onward
  <2> QED BY <2>1 DEF Strays
<1> HIDE DEF S
<1>6. /\ astray' = [astray EXCEPT ![a] = astray[a] \cup S]
      /\ S \in SUBSET Copy /\ (view[a] # {} => S = {})
      /\ \A c \in S : c \in copies /\ <<Nobody, c>> \in Onward(a, copies)
      /\ \A c : <<Nobody, c>> \in Onward(a, copies) => <<Nobody, c>> \in moves[a] \/ c \in S
  BY <1>2, <1>3, <1>4, <1>5
<1> QED BY <1>6 DEF S, copies

(* What agent a takes, keeps and sends in a step, and the part S that goes *)
(* to agent 0.                                                             *)
LEMMA StrayedFlow ==
  ASSUME Types, Distinct, Present, StrayTypes, Strayed, NEW a \in Agent, NEW b \in Agent,
         NEW popped, NEW keep, NEW mv, Flow(a, b, popped, keep, mv), moves[a] \subseteq mv,
         NEW S \in SUBSET Copy, \A c \in S : c \in popped /\ <<Nobody, c>> \in mv,
         astray' = [astray EXCEPT ![a] = astray[a] \cup S], edges' = edges
  PROVE  Strayed'
<1>1. /\ held' = [held EXCEPT ![a] = keep] /\ moves' = [moves EXCEPT ![a] = {}]
      /\ \A c \in popped : Carried(peer[b][a], c)
      /\ \A c \in keep : c \in Here(a) \cup popped
      /\ \A c : <<Nobody, c>> \in mv => c \notin keep /\ \A o : <<o, c>> \in mv => o = Nobody
      /\ \A c \in Copy : \A o : <<o, c>> \in mv => c \in Here(a) \cup popped
      /\ \A p, q \in Agent : \A c \in Copy : Carried(peer'[p][q], c) =>
           (p = a /\ <<q, c>> \in mv) \/ (Carried(peer[p][q], c) /\ ~(p = b /\ q = a /\ c \in popped))
  <2>1. ASSUME NEW c, <<Nobody, c>> \in mv PROVE c \notin keep /\ \A o : <<o, c>> \in mv => o = Nobody
    <3>1. <<Nobody, c>>[2] = c
      OBVIOUS
    <3>2. c \notin keep /\ \A y \in mv : c = y[2] => <<Nobody, c>> = y
      BY <2>1, <3>1 DEF Flow
    <3>3. ASSUME NEW o, <<o, c>> \in mv PROVE o = Nobody
      <4>1. <<o, c>>[2] = c
        OBVIOUS
      <4>2. <<Nobody, c>> = <<o, c>>
        BY <3>2, <3>3, <4>1
      <4> QED BY <4>2
    <3> QED BY <3>2, <3>3
  <2> QED BY <2>1 DEF Flow
<1>2. held \in [Agent -> SUBSET Copy] /\ moves \in [Agent -> SUBSET ((Agent \cup {Nobody}) \X Copy)]
  BY DEF Types, AgentTypes
<1>3. /\ Here(a)' = keep /\ \A x \in Agent \ {a} : Here(x)' = Here(x) /\ moves'[x] = moves[x] /\ astray'[x] = astray[x]
      /\ moves'[a] = {} /\ astray'[a] = astray[a] \cup S
      /\ \A x \in Agent : astray[x] \in SUBSET Copy
  BY <1>1, <1>2 DEF Here, StrayTypes
<1> HIDE DEF Here
(* Where a copy that went astray before, or goes now, could still be.      *)
<1>4. ASSUME NEW z \in Agent, NEW c \in astray[z]
      PROVE  /\ c \in Copy /\ c.edge \in edges' /\ c \notin popped
             /\ \A x \in Agent : c \in Here(x) => x = z /\ <<Nobody, c>> \in moves[z]
             /\ \A p, q \in Agent : ~Carried(peer[p][q], c)
             /\ \A x \in Agent : c \in astray[x] => x = z
  BY <1>1, <1>3 DEF Strayed
<1>5. ASSUME NEW c \in S
      PROVE  /\ c \in Copy /\ c.edge \in edges' /\ Carried(peer[b][a], c) /\ <<Nobody, c>> \in mv /\ c \in popped
             /\ \A x \in Agent : c \notin Here(x)
             /\ \A p, q \in Agent : Carried(peer[p][q], c) => p = b /\ q = a
             /\ \A x \in Agent : c \notin astray[x]
  <2>1. c \in Copy /\ Carried(peer[b][a], c) /\ <<Nobody, c>> \in mv /\ c \in popped
    BY <1>1
  <2> QED BY <1>4, <2>1 DEF Distinct, Present
<1>6. ASSUME NEW z \in Agent, NEW c \in astray'[z]
      PROVE  /\ c.edge \in edges'
             /\ \A x \in Agent : c \in Here(x)' => x = z /\ <<Nobody, c>> \in moves'[z]
             /\ \A p, q \in Agent : ~Carried(peer'[p][q], c)
             /\ \A x \in Agent : c \in astray'[x] => x = z
  <2>1. Nobody \notin Agent
    BY MemberPairs
  <2>2. CASE c \in S
    <3>1. z = a /\ \A x \in Agent : c \in astray'[x] => x = a
      BY <1>3, <1>5, <1>6, <2>2
    <3>4. c \notin keep
      <4>1. <<Nobody, c>> \in mv
        BY <1>5, <2>2
      <4> QED BY <1>1, <4>1
    <3>5. ASSUME NEW x \in Agent PROVE c \notin Here(x)'
      <4>1. c \notin Here(x)
        BY <1>5, <2>2
      <4>2. CASE x = a
        BY <1>3, <3>4, <4>2
      <4>3. CASE x # a
        BY <1>3, <4>1, <4>3
      <4> QED BY <4>2, <4>3
    <3>2. c \notin keep /\ \A x \in Agent : c \notin Here(x)'
      BY <3>4, <3>5
    <3>3. \A p, q \in Agent : ~Carried(peer'[p][q], c)
      BY <1>1, <1>5, <2>1, <2>2
    <3> QED BY <1>5, <2>2, <3>1, <3>2, <3>3
  <2>3. CASE c \notin S
    <3>1. c \in astray[z]
      BY <1>3, <1>6, <2>3
    <3>2. \A x \in Agent : c \in astray'[x] => x = z
      BY <1>3, <1>4, <2>3, <3>1
    <3>3. c \in Here(a) => z = a /\ <<Nobody, c>> \in mv
      BY <1>4, <3>1
    <3>4. c \notin keep
      BY <1>1, <1>4, <3>1, <3>3
    <3>5. \A x \in Agent : c \in Here(x)' => x = z /\ <<Nobody, c>> \in moves'[z]
      BY <1>3, <1>4, <3>1, <3>4
    <3>6. \A p, q \in Agent : ~Carried(peer'[p][q], c)
      BY <1>1, <1>4, <2>1, <3>1, <3>3
    <3> QED BY <1>4, <3>1, <3>2, <3>5, <3>6
  <2> QED BY <2>2, <2>3
<1>7. \A z \in Agent : \A c \in Copy : <<Nobody, c>> \in moves'[z] => c \in astray'[z]
  BY <1>3 DEF Strayed
<1> QED BY <1>6, <1>7 DEF Strayed, Carried

LEMMA StrayedNext ==
  ASSUME Orderly, Filled, StrayTypes, Strayed, [Next]_vars
  PROVE  Strayed'
<1> USE DEF Orderly, Course, Books
<1>1. ASSUME Still PROVE Strayed'
  <2>1. \A x : Here(x)' = Here(x)
    BY <1>1 DEF Still, Here
  <2>2. \A z \in Agent : \A c \in astray[z] : \A p, q \in Agent : ~Carried(peer'[p][q], c)
    BY <1>1 DEF Still, Strayed, StrayTypes
  <2> QED BY <1>1, <2>1, <2>2 DEF Still, Strayed, Carried
<1>2. ASSUME NEW a \in Agent, NEW mem \in SUBSET Member, Sorts(a, mem) PROVE Strayed'
  <2>1. Flow(a, a, {}, held[a] \ Lost(a, mem), Outgoing(a, mem)) /\ edges' = edges /\ astray' = astray
    BY <1>2, SortsFlow, SortsStrays DEF Sorts
  <2>2. moves[a] \subseteq Outgoing(a, mem)
    BY DEF Outgoing
  <2> DEFINE S == {}
             mv == Outgoing(a, mem)
             keep == held[a] \ Lost(a, mem)
  <2>3. /\ astray' = [astray EXCEPT ![a] = astray[a] \cup S] /\ S \in SUBSET Copy
        /\ \A c \in S : c \in {} /\ <<Nobody, c>> \in mv
    BY <2>1 DEF StrayTypes
  <2> HIDE DEF S, mv, keep
  <2>4. Flow(a, a, {}, keep, mv) /\ edges' = edges /\ moves[a] \subseteq mv
    BY <2>1, <2>2 DEF mv, keep
  <2> QED BY <2>3, <2>4, StrayedFlow
<1>3. ASSUME NEW a \in Agent, NEW b \in Agent, RecvMoves(a, b) PROVE Strayed'
  <2> DEFINE copies == Head(peer[b][a]).copies
             S == Strays(view[a], copies)
  <2>1. Flow(a, b, copies, held[a] \cup Mine(a, copies), Onward(a, copies)) /\ edges' = edges
    <3>1. edges' = edges
      BY <1>3 DEF RecvMoves, envVars
    <3> QED BY <1>3, <3>1, RecvMovesFlow
  <2>2. /\ astray' = [astray EXCEPT ![a] = astray[a] \cup S] /\ S \in SUBSET Copy
        /\ \A c \in S : c \in copies /\ <<Nobody, c>> \in Onward(a, copies)
    BY <1>3, MovesStrays
  <2>3. moves[a] \subseteq Onward(a, copies)
    BY DEF Onward
  <2> HIDE DEF copies, S
  <2> QED BY <2>1, <2>2, <2>3, StrayedFlow
<1>4. ASSUME NEW a \in Agent, RecvUpdateEdge(a) PROVE Strayed'
  <2>1. PICK e \in Streamed \ edges, o \in Agent \cup {Nobody} :
          /\ e \in Vertex \X Vertex /\ edges' = edges \cup {e} /\ o = Owner(view[a], InCopy(e))
          /\ \/ /\ o \in Agent /\ held' = [held EXCEPT ![a] = held[a] \cup {InCopy(e)}] /\ UNCHANGED moves
             \/ moves' = [moves EXCEPT ![a] = moves[a] \cup {<<o, InCopy(e)>>}] /\ UNCHANGED held
    BY <1>4, RecvUpdateEdgeCases
  <2> DEFINE c0 == InCopy(e)
  <2>2. peer' = peer /\ c0 \in Copy /\ c0.edge = e
    BY <1>4, <2>1, CopyType DEF RecvUpdateEdge, netVars
  <2>3. astray' = [astray EXCEPT ![a] = astray[a] \cup Strays(view[a], {c0})]
    <3>1. PICK f \in Streamed \ edges :
            edges' = edges \cup {f} /\ astray' = [astray EXCEPT ![a] = astray[a] \cup Strays(view[a], {InCopy(f)})]
      BY <1>4 DEF RecvUpdateEdge
    <3>2. f = e
      BY <2>1, <3>1
    <3> QED BY <3>1, <3>2
  <2>4. Strays(view[a], {c0}) = IF o = Nobody THEN {c0} ELSE {}
    BY <2>1 DEF Strays
  <2> HIDE DEF c0
  <2>5. /\ astray'[a] = astray[a] \cup (IF o = Nobody THEN {c0} ELSE {})
        /\ \A x \in Agent \ {a} : astray'[x] = astray[x]
    BY <2>3, <2>4 DEF StrayTypes
  <2>6. Nobody \notin Agent
    BY MemberPairs
  <2>7. /\ \A x \in Agent \ {a} : Here(x)' = Here(x) /\ moves'[x] = moves[x]
        /\ Here(a)' = Here(a) \cup {c0} /\ moves[a] \subseteq moves'[a]
        /\ o = Nobody => <<Nobody, c0>> \in moves'[a]
        /\ \A c \in Copy : <<Nobody, c>> \in moves'[a] => <<Nobody, c>> \in moves[a] \/ (o = Nobody /\ c = c0)
    <3>1. held \in [Agent -> SUBSET Copy] /\ moves \in [Agent -> SUBSET ((Agent \cup {Nobody}) \X Copy)]
      BY DEF Types, AgentTypes
    <3>2. CASE o \in Agent /\ held' = [held EXCEPT ![a] = held[a] \cup {c0}] /\ UNCHANGED moves
      <4>1. held'[a] = held[a] \cup {c0} /\ \A x \in Agent \ {a} : held'[x] = held[x]
        BY <3>1, <3>2
      <4> QED BY <2>6, <3>2, <4>1 DEF Here
    <3>3. CASE moves' = [moves EXCEPT ![a] = moves[a] \cup {<<o, c0>>}] /\ UNCHANGED held
      <4>1. moves'[a] = moves[a] \cup {<<o, c0>>} /\ \A x \in Agent \ {a} : moves'[x] = moves[x]
        BY <3>1, <3>3
      <4>2. {x[2] : x \in moves'[a]} = {x[2] : x \in moves[a]} \cup {c0}
        <5>1. <<o, c0>>[2] = c0
          OBVIOUS
        <5> QED BY <4>1, <5>1
      <4>3. Here(a)' = Here(a) \cup {c0} /\ \A x \in Agent \ {a} : Here(x)' = Here(x)
        BY <3>3, <4>1, <4>2 DEF Here
      <4>4. \A c : <<Nobody, c>> = <<o, c0>> => o = Nobody /\ c = c0
        OBVIOUS
      <4> QED BY <4>1, <4>3, <4>4
    <3> QED BY <2>1, <3>2, <3>3 DEF c0
  <2>8. /\ \A x \in Agent : c0 \notin Here(x) /\ c0 \notin astray[x]
        /\ \A p, q \in Agent : ~Carried(peer[p][q], c0)
    BY <2>1, <2>2 DEF Present, Strayed
  <2>9. ASSUME NEW z \in Agent, NEW c \in astray'[z]
        PROVE  /\ c.edge \in edges'
               /\ \A x \in Agent : c \in Here(x)' => x = z /\ <<Nobody, c>> \in moves'[z]
               /\ \A p, q \in Agent : ~Carried(peer[p][q], c)
               /\ \A x \in Agent : c \in astray'[x] => x = z
    <3>1. CASE c = c0
      BY <2>1, <2>2, <2>5, <2>7, <2>8, <2>9, <3>1
    <3>2. CASE c # c0
      <4>1. c \in astray[z]
        BY <2>5, <2>9, <3>2
      <4>2. /\ c.edge \in edges
            /\ \A x \in Agent : c \in Here(x) => x = z /\ <<Nobody, c>> \in moves[z]
            /\ \A p, q \in Agent : ~Carried(peer[p][q], c)
            /\ \A x \in Agent : c \in astray[x] => x = z
        BY <4>1 DEF Strayed
      <4> QED BY <2>1, <2>5, <2>7, <3>2, <4>2
    <3> QED BY <3>1, <3>2
  <2>10. \A z \in Agent : \A c \in Copy : <<Nobody, c>> \in moves'[z] => c \in astray'[z]
    BY <2>5, <2>7 DEF Strayed
  <2> QED BY <2>2, <2>9, <2>10 DEF Strayed, Carried
<1> QED BY <1>1, <1>2, <1>3, <1>4, Traffic

LEMMA SeeingNext ==
  ASSUME Orderly, Filled, StrayTypes, Seeing, [Next]_vars
  PROVE  Seeing'
<1> USE DEF Orderly, Course, Books
<1> SUFFICES ASSUME NEW z \in First PROVE view'[z] # {} /\ astray'[z] = {}
  BY DEF Seeing
<1>1. z \in Agent /\ view[z] # {} /\ astray[z] = {} /\ view[z] \in SUBSET Member
  BY ElasticAssumption DEF Seeing, Types, AgentTypes
<1>2. view'[z] # {}
  <2>1. ASSUME NEW a \in Agent, RecvDirectory(a) PROVE view'[z] # {}
    <3> DEFINE m == Head(down[a])
    <3>1. /\ a \in Alive /\ down[a] # <<>> /\ m.type = "DIRECTORY_UPDATE"
          /\ view' = [view EXCEPT ![a] = IF m.changed \/ view[a] = {} THEN m.members ELSE view[a]]
      BY <2>1, RecvDirectoryCases
    <3>2. m = down[a][1] /\ 1 \in DOMAIN down[a]
      BY <3>1, TailPlaces DEF Types, NetTypes
    <3>3. m.members # {}
      BY <3>1, <3>2 DEF Filled, IsList
    <3> HIDE DEF m
    <3> QED BY <1>1, <3>1, <3>3 DEF Types, AgentTypes
  <2>2. ASSUME UNCHANGED view PROVE view'[z] # {}
    BY <1>1, <2>2
  <2>3. ASSUME NEW a \in Agent, \/ RecvSyncDone(a) \/ RecvVa(a) \/ RecvCsLb(a) \/ Shutdown(a) \/ FromAgent(a)
                                \/ Start(a) \/ Stop(a) \/ RecvUpdateEdge(a)
                                \/ \E b \in Agent : RecvMoves(a, b) \/ RecvAck(a, b)
        PROVE  UNCHANGED view
    BY <2>3 DEF RecvSyncDone, RecvVa, RecvCsLb, Shutdown, FromAgent, Start, Stop, RecvUpdateEdge, RecvMoves, RecvAck,
                agentVars
  <2>4. ASSUME NEW d \in Directory, NEW e \in Directory, Heartbeat(d) \/ FromPeer(d, e) PROVE UNCHANGED view
    BY <2>4 DEF Heartbeat, FromPeer, agentVars
  <2>5. ASSUME Command \/ Done \/ UNCHANGED vars PROVE UNCHANGED view
    BY <2>5 DEF Command, Done, vars, agentVars
  <2> QED BY <2>1, <2>2, <2>3, <2>4, <2>5 DEF Next, RecvDown, RecvPeers
<1>3. astray'[z] = {}
  <2>1. ASSUME NEW a \in Agent, NEW mem \in SUBSET Member, Sorts(a, mem) PROVE astray'[z] = {}
    BY <1>1, <2>1, SortsStrays
  <2>2. ASSUME NEW a \in Agent, NEW b \in Agent, RecvMoves(a, b) PROVE astray'[z] = {}
    <3> DEFINE S == Strays(view[a], Head(peer[b][a]).copies)
    <3>1. astray' = [astray EXCEPT ![a] = astray[a] \cup S] /\ (view[a] # {} => S = {})
      BY <2>2, MovesStrays
    <3> HIDE DEF S
    <3> QED BY <1>1, <3>1 DEF StrayTypes
  <2>3. ASSUME NEW a \in Agent, RecvUpdateEdge(a) PROVE astray'[z] = {}
    <3>1. PICK e \in Vertex \X Vertex : astray' = [astray EXCEPT ![a] = astray[a] \cup Strays(view[a], {InCopy(e)})]
      BY <2>3, ElasticAssumption DEF RecvUpdateEdge
    <3>2. a = z => Strays(view[a], {InCopy(e)}) = {}
      BY <1>1, NoStrays, CopyType
    <3> QED BY <1>1, <3>1, <3>2 DEF StrayTypes
  <2> QED BY <1>1, <2>1, <2>2, <2>3, Traffic DEF Still
<1> QED BY <1>2, <1>3

LEMMA NothingLostNext ==
  ASSUME Orderly, Careful, Filled, Traced, Deposits, HandedOver, StrayTypes, Strayed, NothingLost, [Next]_vars
  PROVE  NothingLost'
<1> USE DEF Orderly, Course, Books
<1> DEFINE Given(c) == \E z \in Agent : c \in astray[z]
           After(c) == Somewhere(c)' \/ \E z \in Agent : c \in astray'[z]
<1>1. \A c \in Expected : c \in Copy /\ (Somewhere(c) \/ Given(c))
  BY ExpectedType DEF NothingLost
<1>0. ASSUME \A c \in Expected' : After(c) PROVE NothingLost'
  BY <1>0 DEF NothingLost
<1>2. ASSUME Still PROVE NothingLost'
  <2>1. Expected' = Expected
    BY <1>2 DEF Still, Expected
  <2>2. ASSUME NEW c \in Copy, Somewhere(c) PROVE Somewhere(c)'
    <3>1. \A x : Here(x)' = Here(x)
      BY <1>2 DEF Still, Here
    <3>2. \A p, q \in Agent : Carried(peer[p][q], c) => Carried(peer'[p][q], c)
      BY <1>2 DEF Still
    <3> QED BY <2>2, <3>1, <3>2 DEF Somewhere, Carried
  <2>3. astray' = astray
    BY <1>2 DEF Still
  <2>4. \A c \in Expected' : After(c)
    BY <1>1, <2>1, <2>2, <2>3
  <2> QED BY <1>0, <2>4
<1>3. ASSUME NEW a \in Agent, NEW mem \in SUBSET Member, Sorts(a, mem) PROVE NothingLost'
  <2>1. Flow(a, a, {}, held[a] \ Lost(a, mem), Outgoing(a, mem)) /\ Expected' = Expected
    BY <1>3, SortsFlow DEF Sorts, Expected
  <2>2. \A x \in Outgoing(a, mem) : x[1] \in Agent \cup {Nobody}
    BY <1>3, SortsToRunning DEF Alive
  <2>3. astray' = astray /\ \A c \in Copy : <<Nobody, c>> \in Outgoing(a, mem) => c \in astray[a]
    BY <1>3, SortsStrays DEF Strayed
  <2>4. ASSUME NEW c \in Expected PROVE After(c)
    <3>1. CASE Somewhere(c)
      <4>1. Somewhere(c)' \/ <<Nobody, c>> \in Outgoing(a, mem)
        BY <1>1, <2>1, <2>2, <3>1, FlowKeeps
      <4> QED BY <1>1, <2>3, <4>1
    <3>2. CASE Given(c)
      BY <2>3, <3>2
    <3> QED BY <1>1, <3>1, <3>2
  <2> QED BY <1>0, <2>1, <2>4
<1>4. ASSUME NEW a \in Agent, NEW b \in Agent, RecvMoves(a, b) PROVE NothingLost'
  <2> DEFINE copies == Head(peer[b][a]).copies
             S == Strays(view[a], copies)
  <2>1. Flow(a, b, copies, held[a] \cup Mine(a, copies), Onward(a, copies)) /\ Expected' = Expected
    <3>1. Expected' = Expected
      BY <1>4 DEF RecvMoves, envVars, Expected
    <3> QED BY <1>4, <3>1, RecvMovesFlow
  <2>2. \A x \in Onward(a, copies) : x[1] \in Agent \cup {Nobody}
    BY <1>4, OnwardToRunning DEF Alive
  <2>3. /\ astray' = [astray EXCEPT ![a] = astray[a] \cup S]
        /\ \A c : <<Nobody, c>> \in Onward(a, copies) => <<Nobody, c>> \in moves[a] \/ c \in S
    BY <1>4, MovesStrays
  <2> HIDE DEF copies, S
  <2>4. astray'[a] = astray[a] \cup S /\ \A x \in Agent \ {a} : astray'[x] = astray[x]
    BY <2>3 DEF StrayTypes
  <2>5. \A c \in Copy : <<Nobody, c>> \in Onward(a, copies) => c \in astray'[a]
    BY <2>3, <2>4 DEF Strayed
  <2>6. ASSUME NEW c \in Expected PROVE After(c)
    <3>1. CASE Somewhere(c)
      <4>1. Somewhere(c)' \/ <<Nobody, c>> \in Onward(a, copies)
        BY <1>1, <2>1, <2>2, <3>1, FlowKeeps
      <4> QED BY <1>1, <2>5, <4>1
    <3>2. CASE Given(c)
      BY <2>4, <3>2
    <3> QED BY <1>1, <3>1, <3>2
  <2> QED BY <1>0, <2>1, <2>6
<1>5. ASSUME NEW a \in Agent, RecvUpdateEdge(a) PROVE NothingLost'
  <2>1. PICK e \in Streamed \ edges, o \in Agent \cup {Nobody} :
          /\ e \in Vertex \X Vertex /\ edges' = edges \cup {e}
          /\ \/ held' = [held EXCEPT ![a] = held[a] \cup {InCopy(e)}] /\ UNCHANGED moves
             \/ moves' = [moves EXCEPT ![a] = moves[a] \cup {<<o, InCopy(e)>>}] /\ UNCHANGED held
    BY <1>5, RecvUpdateEdgeCases
  <2>2. UNCHANGED <<peer, transposed>>
    BY <1>5 DEF RecvUpdateEdge, netVars
  <2>3. held \in [Agent -> SUBSET Copy] /\ moves \in [Agent -> SUBSET ((Agent \cup {Nobody}) \X Copy)]
    BY DEF Types, AgentTypes
  <2>4. \A x \in Agent : held[x] \subseteq held'[x] /\ moves[x] \subseteq moves'[x]
    BY <2>1, <2>3
  <2>5. InCopy(e) \in Here(a)'
    <3>1. CASE held' = [held EXCEPT ![a] = held[a] \cup {InCopy(e)}]
      BY <2>3, <3>1 DEF Here
    <3>2. CASE moves' = [moves EXCEPT ![a] = moves[a] \cup {<<o, InCopy(e)>>}]
      <4>1. <<o, InCopy(e)>> \in moves'[a] /\ <<o, InCopy(e)>>[2] = InCopy(e)
        BY <2>3, <3>2
      <4> QED BY <4>1 DEF Here
    <3> QED BY <2>1, <3>1, <3>2
  <2>6. ASSUME NEW c \in Copy, Somewhere(c) PROVE Somewhere(c)'
    <3>1. \A x \in Agent : Here(x) \subseteq Here(x)'
      BY <2>4 DEF Here
    <3> QED BY <2>2, <2>6, <3>1 DEF Somewhere, Carried
  <2>7. \A c \in Expected' : c \in Expected \/ c = InCopy(e)
    BY <2>1, <2>2 DEF Expected, InCopy
  <2>8. Somewhere(InCopy(e))'
    BY <2>5 DEF Somewhere, InCopy
  <2>9. \A x \in Agent : astray[x] \subseteq astray'[x]
    BY <1>5 DEF RecvUpdateEdge, StrayTypes
  <2>10. ASSUME NEW c \in Expected' PROVE After(c)
    <3>1. c = InCopy(e) \/ (c \in Expected /\ (Somewhere(c) \/ Given(c)))
      BY <1>1, <2>7
    <3>2. c = InCopy(e) => Somewhere(c)'
      BY <2>8
    <3>3. c \in Expected /\ Somewhere(c) => Somewhere(c)'
      BY <1>1, <2>6
    <3> QED BY <2>9, <3>1, <3>2, <3>3
  <2> QED BY <1>0, <2>10
<1> QED BY <1>2, <1>3, <1>4, <1>5, Traffic

LEMMA ConservedNext ==
  ASSUME Careful, Conserved, [Next]_vars PROVE Conserved'
<1>1. /\ Orderly /\ Somebody /\ Unloaded /\ Filled /\ Traced /\ Deposits /\ Delivered
      /\ HandedOver /\ Answers /\ Emptied /\ StrayTypes /\ Strayed /\ Seeing /\ NothingLost
  BY DEF Conserved
<1>2. Orderly'
  BY <1>1, OrderlyNext
<1>3. NoThrow'
  BY <1>2 DEF Orderly, Rounds
<1>4. Somebody' /\ Unloaded' /\ Filled'
  BY <1>1, <1>3, SomebodyNext, UnloadedNext, FilledNext
<1>5. Traced' /\ Deposits' /\ Delivered'
  BY <1>1, <1>3, TracedNext, DepositsNext, DeliveredNext
<1>6. HandedOver' /\ Answers'
  BY <1>1, HandedOverNext, AnswersNext
<1>7. Emptied' /\ NothingLost'
  BY <1>1, <1>2, EmptiedNext, NothingLostNext
<1>8. StrayTypes' /\ Strayed' /\ Seeing'
  BY <1>1, StrayTypesNext, StrayedNext, SeeingNext DEF Orderly, Course, Books
<1> QED BY <1>2, <1>4, <1>5, <1>6, <1>7, <1>8 DEF Conserved

LEMMA ConservedInit ==
  ASSUME Fitting, Init PROVE Conserved
<1>1. Orderly /\ Types
  BY OrderlyInit DEF Orderly, Course, Books
<1> DEFINE mem == First \X {VAgents}
<1>2. PICK begun \in BOOLEAN :
        /\ phase = [a \in Agent |-> IF a \notin First THEN "out" ELSE IF begun THEN "idle" ELSE "load"]
        /\ view = [a \in Agent |-> IF a \in First THEN mem ELSE {}]
        /\ members = [d \in Directory |-> mem]
        /\ held = [a \in Agent |-> {c \in Copy : c.edge \in edges /\ Owner(mem, c) = a /\ (begun \/ c.kind = "in")}]
        /\ transposed = IF begun THEN edges ELSE {}
  BY DEF Init
<1>3. /\ \A a \in Agent : ~stopping[a] /\ moves[a] = {} /\ up[a] = <<>> /\ down[a] = <<>> /\ vcount[a] = VAgents
      /\ \A a, b \in Agent : peer[a][b] = <<>>
  BY DEF Init
<1>4. \A a \in Agent : phase[a] \in {"out", "load", "idle"} /\ (phase[a] = "out" <=> a \notin First)
  BY <1>2
<1>5. /\ \A a \in Agent : a \in Alive <=> a \in First
      /\ \A a \in Alive : a \in Agent
      /\ \A a \in First : view[a] = mem
      /\ \A d \in Homed : members[d] = mem
  <2>1. \A a \in Agent : a \in Alive <=> a \in First
    BY <1>4 DEF Alive
  <2>2. First \subseteq Agent
    BY ElasticAssumption
  <2>3. \A d \in Homed : d \in Directory
    BY <1>1, HomedType
  <2> QED BY <1>2, <2>1, <2>2, <2>3, AliveAgent
<1>6. /\ \A a \in First : Me(a) \in mem
      /\ \A m \in mem : m[1] \in First
      /\ mem \in SUBSET Member /\ mem # {}
  <2>1. First \X {VAgents} \subseteq Agent \X (1 .. VAgents) /\ First \X {VAgents} # {}
    <3>1. PICK f \in First : TRUE
      BY ElasticAssumption
    <3>2. <<f, VAgents>> \in First \X {VAgents}
      OBVIOUS
    <3> QED BY <3>2, ElasticAssumption
  <2> QED BY <1>3, <2>1, MemberPairs, ElasticAssumption DEF Me
<1>7. PICK z \in First : z \in Alive /\ z \in Agent
  BY <1>5, ElasticAssumption
<1> HIDE DEF mem
<1>8. \A a \in Agent : /\ ~Ordered(down[a]) /\ ~Engaged(a) /\ ~Waiting(a)
                       /\ \A k : ~Has(up[a], k) /\ ~Has(down[a], k)
                       /\ DOMAIN down[a] = {}
  <2> SUFFICES ASSUME NEW a \in Agent
               PROVE  /\ ~Ordered(down[a]) /\ ~Engaged(a) /\ ~Waiting(a)
                      /\ \A k : ~Has(up[a], k) /\ ~Has(down[a], k)
                      /\ DOMAIN down[a] = {}
    OBVIOUS
  <2>1. ~Ordered(down[a]) /\ DOMAIN down[a] = {}
    BY <1>3, DownEmpty
  <2>2. phase[a] \notin {"balance", "hold"}
    BY <1>4
  <2>3. \A k : ~Has(up[a], k) /\ ~Has(down[a], k)
    BY <1>3, EmptyQueue
  <2> QED BY <2>1, <2>2, <2>3 DEF Engaged, Waiting
<1>9. Somebody
  <2>1. Standing(z)
    BY <1>3, <1>5, <1>6, <1>7, <1>8 DEF Standing
  <2> QED BY <1>7, <2>1 DEF Somebody
<1>10. Unloaded /\ Filled
  BY <1>3, <1>5, <1>8 DEF Unloaded, Filled
<1>11. \A b \in Agent : Listed(b) => b \in Alive
  <2> SUFFICES ASSUME NEW b \in Agent, Listed(b) PROVE b \in First
    BY <1>5
  <2>1. CASE \E d \in Homed : \E m \in members[d] : m[1] = b
    BY <1>5, <1>6, <2>1
  <2>2. ASSUME NEW a \in Alive, \E m \in view[a] : m[1] = b PROVE b \in First
    BY <1>5, <1>6, <2>2
  <2>3. ASSUME NEW a \in Alive, NEW u \in ToSet(down[a]) PROVE FALSE
    BY <1>5, <1>8, <2>3 DEF ToSet
  <2> QED BY <2>1, <2>2, <2>3 DEF Listed
<1>12. Traced /\ Deposits
  BY <1>3, <1>11 DEF Traced, Deposits
<1>13. \A a, b \in Agent : \A c : ~Carried(peer[a][b], c)
  BY <1>3, CarriedEmpty
<1>14. Delivered /\ Emptied /\ HandedOver /\ Answers
  BY <1>3, <1>4, <1>13 DEF Delivered, Emptied, HandedOver, Answers, Parts
<1>15. ASSUME NEW c \in Copy, c.edge \in edges, begun \/ c.kind = "in" PROVE Somewhere(c)
  <2>1. PICK o \in Agent : Owner(mem, c) = o
    BY <1>1, <1>6, OwnerType DEF Types
  <2>2. c \in held[o]
    BY <1>2, <1>15, <2>1
  <2> QED BY <2>2 DEF Somewhere, Here
<1>16. NothingLost
  <2> SUFFICES ASSUME NEW c \in Expected PROVE Somewhere(c)
    BY DEF NothingLost
  <2>1. edges \subseteq Vertex \X Vertex
    BY <1>1 DEF Types, EnvTypes
  <2>2. CASE \E e \in edges : c = InCopy(e)
    BY <1>15, <2>1, <2>2, CopyType
  <2>3. CASE \E e \in transposed : c = OutCopy(e)
    <3>1. begun /\ transposed = edges
      BY <1>2, <2>3
    <3> QED BY <1>15, <2>1, <2>3, <3>1, CopyType
  <2> QED BY <2>2, <2>3 DEF Expected
<1>17. \A a \in Agent : astray[a] = {}
  BY DEF Init
<1>18. StrayTypes /\ Strayed /\ Seeing
  <2>1. StrayTypes
    BY DEF Init, StrayTypes
  <2>2. Strayed
    BY <1>3, <1>17 DEF Strayed
  <2>3. Seeing
    BY <1>5, <1>6, <1>17, ElasticAssumption DEF Seeing
  <2> QED BY <2>1, <2>2, <2>3
<1> QED BY <1>1, <1>9, <1>10, <1>12, <1>14, <1>16, <1>18 DEF Conserved

(* A copy is in one place if it is somewhere, in no second place, and the  *)
(* place is one that counts; it is in none if it was given to agent 0.     *)
LEMMA PlacedOnce ==
  ASSUME Conserved, NEW c \in Copy, Somewhere(c) \/ \E a \in Agent : c \in astray[a]
  PROVE  Places(c) + GivenAway(c) = 1
<1> DEFINE H == {a \in Alive : c \in held[a]}
           M == UNION {{<<a, x>> : x \in moves[a]} \cap ({a} \X (Agent \X {c})) : a \in Alive}
           P == UNION {{<<a, b, i>> : i \in {j \in Sent(a, b, "moves") : c \in peer[a][b][j].copies}} :
                         a \in Agent, b \in Alive}
<1>1. Types /\ Distinct /\ Lives /\ NoThrow /\ Deposits /\ Delivered /\ Emptied /\ Strayed
      /\ \A a \in Alive : a \in Agent
  BY AliveAgent DEF Conserved, Orderly, Course, Books, Rounds
<1>2. \A a \in Agent : held[a] # {} => a \in Alive
  BY <1>1 DEF Lives, NoThrow, Emptied, Alive
<1>3. \A a \in H : a \in Agent /\ c \in held[a] /\ c \in Here(a)
  BY <1>1 DEF Here
<1>4. ASSUME NEW t \in M
      PROVE  \E a \in Agent : \E x \in moves[a] : t = <<a, x>> /\ x[2] = c /\ x[1] \in Agent /\ c \in Here(a)
  <2>1. PICK a \in Alive : t \in {<<a, x>> : x \in moves[a]} \cap ({a} \X (Agent \X {c}))
    OBVIOUS
  <2>2. PICK x \in moves[a] : t = <<a, x>>
    BY <2>1
  <2>3. x \in Agent \X {c}
    BY <2>1, <2>2
  <2>4. x[2] = c /\ x[1] \in Agent
    BY <2>3
  <2> QED BY <1>1, <2>2, <2>4 DEF Here
<1>5. ASSUME NEW t \in P
      PROVE  \E a, b \in Agent : \E i \in DOMAIN peer[a][b] :
               /\ t = <<a, b, i>> /\ peer[a][b][i].type = "moves" /\ c \in peer[a][b][i].copies
               /\ Carried(peer[a][b], c)
  <2>1. PICK a \in Agent, b \in Alive : t \in {<<a, b, i>> : i \in {j \in Sent(a, b, "moves") : c \in peer[a][b][j].copies}}
    OBVIOUS
  <2>2. PICK i \in Sent(a, b, "moves") : t = <<a, b, i>> /\ c \in peer[a][b][i].copies
    BY <2>1
  <2> QED BY <1>1, <2>2 DEF Sent, Carried
<1>6. ASSUME NEW a \in Agent, c \in held[a] PROVE Cardinality(H) = 1 /\ M = {} /\ P = {}
  <2>1. a \in H /\ c \in Here(a)
    BY <1>2, <1>6 DEF Here
  <2>2. H = {a}
    BY <1>1, <1>3, <2>1 DEF Distinct
  <2>3. M = {}
    <3> SUFFICES ASSUME NEW t \in M PROVE FALSE
      OBVIOUS
    <3>1. PICK b \in Agent : \E x \in moves[b] : t = <<b, x>> /\ x[2] = c /\ c \in Here(b)
      BY <1>4
    <3>2. b = a
      BY <1>1, <2>1, <3>1 DEF Distinct
    <3> QED BY <1>1, <1>6, <3>1, <3>2 DEF Distinct, Single
  <2>4. P = {}
    BY <1>1, <1>5, <2>1 DEF Distinct
  <2> HIDE DEF H, M, P
  <2> QED BY <2>2, <2>3, <2>4, FS_Singleton
<1>7. ASSUME NEW a \in Agent, c \in Here(a), c \notin held[a], c \notin astray[a] PROVE Cardinality(M) = 1 /\ H = {} /\ P = {}
  <2>1. PICK x \in moves[a] : x[2] = c
    BY <1>7 DEF Here
  <2>2. a \in Alive /\ x[1] \in Agent /\ x = <<x[1], c>>
    <3>1. a \in Alive /\ x[1] \in Alive \cup {Nobody}
      BY <1>1, <2>1 DEF Deposits
    <3>2. x \in (Agent \cup {Nobody}) \X Copy
      BY <1>1, <2>1 DEF Types, AgentTypes
    <3>3. x = <<x[1], c>>
      BY <2>1, <3>2
    <3>4. x[1] # Nobody
      BY <1>1, <1>7, <2>1, <3>3 DEF Strayed
    <3> QED BY <1>1, <2>1, <3>1, <3>3, <3>4
  <2>3. <<a, x>> \in M
    BY <2>1, <2>2
  <2>4. ASSUME NEW t \in M PROVE t = <<a, x>>
    <3>1. PICK b \in Agent : \E y \in moves[b] : t = <<b, y>> /\ y[2] = c /\ c \in Here(b)
      BY <1>4
    <3>2. b = a
      BY <1>1, <1>7, <3>1 DEF Distinct
    <3> QED BY <1>1, <2>1, <3>1, <3>2 DEF Distinct, Single
  <2>5. M = {<<a, x>>}
    BY <2>3, <2>4
  <2>6. H = {}
    BY <1>1, <1>3, <1>7 DEF Distinct
  <2>7. P = {}
    BY <1>1, <1>5, <1>7 DEF Distinct
  <2> HIDE DEF H, M, P
  <2> QED BY <2>5, <2>6, <2>7, FS_Singleton
<1>8. ASSUME NEW a \in Agent, NEW b \in Agent, Carried(peer[a][b], c) PROVE Cardinality(P) = 1 /\ H = {} /\ M = {}
  <2>1. PICK i \in DOMAIN peer[a][b] : peer[a][b][i].type = "moves" /\ c \in peer[a][b][i].copies
    BY <1>8 DEF Carried
  <2>2. b \in Alive
    BY <1>1, <1>8 DEF Delivered
  <2>3. <<a, b, i>> \in P
    <3>1. <<a, b, i>> \in {<<a, b, k>> : k \in {j \in Sent(a, b, "moves") : c \in peer[a][b][j].copies}}
      BY <2>1 DEF Sent
    <3> DEFINE Q(x, y) == {<<x, y, k>> : k \in {j \in Sent(x, y, "moves") : c \in peer[x][y][j].copies}}
    <3>2. P = UNION {Q(x, y) : x \in Agent, y \in Alive} /\ <<a, b, i>> \in Q(a, b)
      BY <3>1
    <3> HIDE DEF P, Q
    <3> QED BY <2>2, <3>2
  <2>4. ASSUME NEW t \in P PROVE t = <<a, b, i>>
    <3>1. PICK p, q \in Agent : \E j \in DOMAIN peer[p][q] :
               /\ t = <<p, q, j>> /\ peer[p][q][j].type = "moves" /\ c \in peer[p][q][j].copies
               /\ Carried(peer[p][q], c)
      BY <1>5
    <3>2. p = a /\ q = b /\ CarriedOnce(peer[a][b], c)
      BY <1>1, <1>8, <3>1 DEF Distinct
    <3> QED BY <2>1, <3>1, <3>2 DEF CarriedOnce
  <2>5. P = {<<a, b, i>>}
    BY <2>3, <2>4
  <2>6. H = {}
    BY <1>1, <1>3, <1>8 DEF Distinct
  <2>7. M = {}
    BY <1>1, <1>4, <1>8 DEF Distinct
  <2> HIDE DEF H, M, P
  <2> QED BY <2>5, <2>6, <2>7, FS_Singleton
<1>9. Places(c) = Cardinality(H) + Cardinality(M) + Cardinality(P)
  BY DEF Places
<1> HIDE DEF H, M, P
<1>10. Cardinality({}) = 0
  BY FS_EmptySet
<1>11. ASSUME NEW a \in Agent, c \in Here(a), c \notin astray[a] PROVE Places(c) = 1
  <2>1. CASE c \in held[a]
    <3>1. Cardinality(H) = 1 /\ M = {} /\ P = {}
      BY <1>6, <2>1
    <3> QED BY <1>9, <1>10, <3>1
  <2>2. CASE c \notin held[a]
    <3>1. Cardinality(M) = 1 /\ H = {} /\ P = {}
      BY <1>7, <1>11, <2>2
    <3> QED BY <1>9, <1>10, <3>1
  <2> QED BY <2>1, <2>2
<1>12. ASSUME NEW a \in Agent, NEW b \in Agent, Carried(peer[a][b], c) PROVE Places(c) = 1
  <2>1. Cardinality(P) = 1 /\ H = {} /\ M = {}
    BY <1>8, <1>12
  <2> QED BY <1>9, <1>10, <2>1
<1> DEFINE G == {a \in Agent : c \in astray[a]}
<1>13. GivenAway(c) = Cardinality(G)
  BY DEF GivenAway
<1>14. ASSUME NEW a \in Agent, c \in astray[a] PROVE Places(c) + GivenAway(c) = 1
  <2>1. /\ \A b \in Agent : c \in Here(b) => b = a /\ <<Nobody, c>> \in moves[a]
        /\ \A p, q \in Agent : ~Carried(peer[p][q], c)
        /\ \A b \in Agent : c \in astray[b] => b = a
    BY <1>1, <1>14 DEF Strayed
  <2>2. G = {a}
    BY <1>14, <2>1
  <2>3. ASSUME NEW b \in Agent, c \in held[b] PROVE FALSE
    <3>1. c \in Here(b)
      BY <2>3 DEF Here
    <3>2. <<Nobody, c>> \in moves[b] /\ <<Nobody, c>>[2] = c
      BY <2>1, <3>1
    <3> QED BY <1>1, <2>3, <3>2 DEF Distinct, Single
  <2>4. H = {} /\ P = {}
    BY <1>3, <1>5, <2>1, <2>3
  <2>5. M = {}
    <3> SUFFICES ASSUME NEW t \in M PROVE FALSE
      OBVIOUS
    <3>1. PICK b \in Agent : \E y \in moves[b] : t = <<b, y>> /\ y[2] = c /\ y[1] \in Agent /\ c \in Here(b)
      BY <1>4
    <3>2. PICK y \in moves[b] : y[2] = c /\ y[1] \in Agent
      BY <3>1
    <3>3. <<Nobody, c>> \in moves[b] /\ <<Nobody, c>>[2] = c /\ <<Nobody, c>>[1] = Nobody /\ Nobody \notin Agent
      BY <2>1, <3>1, MemberPairs
    <3>4. y = <<Nobody, c>>
      BY <1>1, <3>2, <3>3 DEF Distinct, Single
    <3> QED BY <3>2, <3>3, <3>4
  <2> HIDE DEF G
  <2>6. GivenAway(c) = 1
    BY <1>13, <2>2, FS_Singleton
  <2> QED BY <1>9, <1>10, <2>4, <2>5, <2>6
<1>15. ASSUME \A a \in Agent : c \notin astray[a] PROVE Places(c) + GivenAway(c) = 1
  <2>1. G = {}
    BY <1>15
  <2> HIDE DEF G
  <2>2. GivenAway(c) = 0
    BY <1>10, <1>13, <2>1
  <2>3. Places(c) = 1
    BY <1>11, <1>12, <1>15, <2>2 DEF Somewhere
  <2> QED BY <2>2, <2>3
<1> QED BY <1>14, <1>15

(* Every copy of every edge is at one running agent, or on its way to one, *)
(* and nowhere a second time, whatever joins, leaves, resizings and moves  *)
(* come together, if the operator waits; or an agent that was started      *)
(* later and had no list gave it to agent 0, once (agent.cpp:258-383,      *)
(* 585-624).                                                               *)
THEOREM NothingIsLost == ASSUME Fitting, Careful PROVE Spec => []EdgesConserved
<1>1. Init => Conserved
  BY ConservedInit
<1>2. Conserved /\ [Next]_vars => Conserved'
  BY ConservedNext
<1>3. Conserved => EdgesConserved
  <2> SUFFICES ASSUME Conserved PROVE EdgesConserved
    OBVIOUS
  <2>1. ASSUME NEW e \in edges
        PROVE  /\ Places(InCopy(e)) + GivenAway(InCopy(e)) = 1
               /\ e \in transposed => Places(OutCopy(e)) + GivenAway(OutCopy(e)) = 1
    <3>1. Types /\ e \in Vertex \X Vertex
      BY DEF Conserved, Orderly, Course, Books, Types, EnvTypes
    <3>2. InCopy(e) \in Copy /\ OutCopy(e) \in Copy
      BY <3>1, CopyType
    <3>3. \A c \in Expected : Somewhere(c) \/ \E a \in Agent : c \in astray[a]
      BY DEF Conserved, NothingLost
    <3>4. InCopy(e) \in Expected /\ (e \in transposed => OutCopy(e) \in Expected)
      BY DEF Expected
    <3> QED BY <3>2, <3>3, <3>4, PlacedOnce
  <2> QED BY <2>1 DEF EdgesConserved, Conserved, Seeing
<1> QED BY <1>1, <1>2, <1>3, PTL DEF Spec
=============================================================================
