--------------------------- MODULE ConsistentHash ---------------------------
(***************************************************************************)
(* Who owns an edge.  Every participant keeps the list of agents its       *)
(* directory published, each with a number of virtual agents, puts the     *)
(* hashes of the virtual agents on a ring, and gives a key to the first    *)
(* one that is not below the key's hash.  Keys above every position belong *)
(* to the LAST position, not to the first: the search does not wrap.       *)
(*                                                                         *)
(* Hashes are numbers.  The 64-bit mixers of integer_hash.cpp are one to   *)
(* one, so two virtual agents never share a position.                      *)
(***************************************************************************)
EXTENDS Integers, Sequences, FiniteSets, SequencesExt

CONSTANTS
  Agent,
  Position,   \* Position[a][i]: the hash of virtual agent i of agent a
  Hash,       \* Hash[v]: the hash of vertex v
  Replicas    \* Replicas[v]: how many agents share vertex v (ReplicationMap)

Vertex == DOMAIN Hash

(* Packed agents: an agent and its number of virtual agents.               *)
Member == UNION {{a} \X (1 .. Len(Position[a])) : a \in Agent}

ASSUME ConsistentHashAssumption ==
  /\ IsFiniteSet(Agent)
  /\ \A a \in Agent : Position[a] \in Seq(Nat)
  /\ \A a, b \in Agent : \A i \in DOMAIN Position[a], j \in DOMAIN Position[b] :
       Position[a][i] = Position[b][j] => a = b /\ i = j
  /\ Hash \in [Vertex -> Nat] /\ Replicas \in [Vertex -> Nat \ {0}]

Nobody == "nobody"   \* agent 0, what a search of an empty ring returns

-----------------------------------------------------------------------------

(* update_agents and directory_update: the positions of all members.       *)
Ring(members) == UNION {{Position[m[1]][i] : i \in 1 .. m[2]} : m \in members}

Holder(p) == CHOOSE a \in Agent : \E i \in DOMAIN Position[a] : Position[a][i] = p

(* The array the search runs over (SubSeq: written out once, not looked up *)
(* again at each access).                                                  *)
Sorted(ring) ==
  LET Place(i) == CHOOSE p \in ring : Cardinality({q \in ring : q < p}) = i - 1
      n == Cardinality(ring)
  IN  SubSeq([i \in 1 .. n |-> Place(i)], 1, n)

(* One round of the loop of find.  b is <<l, h>>, indices of an array.     *)
Halve(seq, k, b) ==
  LET mid == (b[1] + b[2]) \div 2
  IN  IF b[1] >= b[2] THEN b
      ELSE IF seq[mid + 1] >= k THEN <<b[1], mid>> ELSE <<mid + 1, b[2]>>

(* The loop: it ends within as many rounds as there are positions.         *)
Search(seq, k) ==
  LET After[n \in 0 .. Len(seq)] ==
        IF n = 0 THEN <<0, Len(seq) - 1>> ELSE Halve(seq, k, After[n - 1])
  IN  After[Len(seq)]

(* It never looks past the last position.                                  *)
InsertionPoint(seq, k) == Search(seq, k)[1]

(* Mutant: the copies that wrap around start from the second position. *)
FindWrapped(seq, k, n) ==
  LET l == InsertionPoint(seq, k)
  IN  IF l + n < Len(seq) THEN SubSeq(seq, l + 1, l + n)
      ELSE SubSeq(seq, l + 1, Len(seq)) \o SubSeq(seq, 2, n - Len(seq) + l + 1)

(* find: n positions from there on, around the end of the ring.  With more *)
(* replicas than positions the second copy may run past the end.           *)
Find(seq, k, n) ==
  LET l == InsertionPoint(seq, k)
  IN  IF l + n < Len(seq) THEN SubSeq(seq, l + 1, l + n)
      ELSE SubSeq(seq, l + 1, Len(seq)) \o SubSeq(seq, 1, n - Len(seq) + l)

(* find_agent: the virtual agent that owns the side of an edge at u; v is  *)
(* the other end, which decides among the replicas of u.                   *)
OwnerPosition(members, u, v) ==
  LET dests == Find(Sorted(Ring(members)), Hash[u], Replicas[u])
  IN  IF Len(dests) = 1 THEN dests[1] ELSE Find(Sorted(ToSet(dests)), Hash[v], 1)[1]

OwnerOf(members, u, v) ==
  IF members = {} THEN Nobody ELSE Holder(OwnerPosition(members, u, v))

-----------------------------------------------------------------------------
(* What the search is meant to find, for sets instead of arrays.           *)

(* q follows p around the ring.                                            *)
IsNext(ring, p, q) ==
  /\ q \in ring
  /\ \/ q > p /\ \A r \in ring : r > p => q <= r
     \/ \A r \in ring : r <= p /\ q <= r

(* p is the first position of the ring that is not below k, or the last    *)
(* position if there is none.                                              *)
IsSuccessor(ring, k, p) ==
  /\ p \in ring
  /\ \/ p >= k /\ \A q \in ring : q >= k => p <= q
     \/ \A q \in ring : q < k /\ q <= p
=============================================================================
