----------------------------- MODULE GraphBatch -----------------------------
(***************************************************************************)
(* What the batches of BatchCycle do to the graph: edges enter at the      *)
(* agent that owns their destination (IN), a batch gives each of them its  *)
(* reciprocal copy at the agent that owns the source (OUT), and the        *)
(* changes of the numbers of vertices and edges are summed up by the       *)
(* directory before anyone computes.                                       *)
(*                                                                         *)
(* The phases of an agent are those of BatchCycle seen from the graph:     *)
(* "load" is NO_PROCESS, "update" is LEAVING_NO_PROCESS or                 *)
(* FINALIZE_GRAPH_BATCH, and "run" is everything from NV to the next       *)
(* HAVE_UPDATE, during which the graph does not change except by blocks of *)
(* agents that are already in the next batch.  There is one directory,     *)
(* edges are only inserted, and no vertex is replicated.                   *)
(***************************************************************************)
EXTENDS Integers, Sequences, FiniteSets

CONSTANTS
  Agent,
  Vertex,
  Owner,       \* Owner[v]: the agent a vertex hashes to
  Loaded,      \* the edges streamers may send before the first batch
  Streamed,    \* the edges streamers may send afterwards
  Command,     \* the command that begins the first batch
  Repeats,     \* may streamers send an edge again?
  MaxSends     \* bound: how often streamers send an edge

Edge == Loaded \cup Streamed

ASSUME GraphAssumption ==
  /\ IsFiniteSet(Agent) /\ Agent # {} /\ IsFiniteSet(Vertex)
  /\ Owner \in [Vertex -> Agent]
  /\ Edge \subseteq Vertex \X Vertex
  /\ Command \in {"START", "UPDATE"} /\ Repeats \in BOOLEAN
  /\ MaxSends \in Nat

VARIABLES
  (* the graph *)
  inCount,     \* entries of edge e in in_neighbors, at the owner of e[2]
  outCount,    \* entries of edge e in out_neighbors, at the owner of e[1]
  (* Agent *)
  phase,       \* state_
  updates,     \* update_set_
  newV,        \* update_nV_set_
  newE,        \* update_nE_
  removed,     \* repeated entries taken off nE_, but not off update_nE_
  acks,        \* update_acks_needed_
  (* Directory *)
  readyCtr,    \* ready_ctr_
  nV, nE,      \* nV_, nE_
  (* connections *)
  begin,       \* agents a DO_START or DO_UPDATE is on its way to
  nv,          \* agents an NV is on its way to
  offer,       \* agents a HAVE_UPDATE is on its way to
  report,      \* report[a]: READY_NV_NE on its way to the directory
  peer,        \* peer[a][b]: a's PUSH socket to b
  (* environment *)
  sends        \* edges sent so far

graphVars == <<inCount, outCount>>
agentVars == <<phase, updates, newV, newE, removed, acks>>
dirVars   == <<readyCtr, nV, nE>>
netVars   == <<begin, nv, offer, report, peer>>
vars      == <<graphVars, agentVars, dirVars, netVars, sends>>

Block == [type : {"IN", "OUT"}, edges : SUBSET Edge]
Ack == [type : {"ACK"}, edges : {{}}]
Report == [v : Nat, e : Nat]

TypeOK ==
  /\ inCount \in [Edge -> Nat] /\ outCount \in [Edge -> Nat]
  /\ phase \in [Agent -> {"load", "update", "run"}]
  /\ updates \in [Agent -> SUBSET Edge]
  /\ newV \in [Agent -> SUBSET Vertex]
  /\ newE \in [Agent -> Nat] /\ removed \in [Agent -> Nat]
  /\ acks \in [Agent -> Int]
  /\ readyCtr \in 0 .. Cardinality(Agent) - 1 /\ nV \in Nat /\ nE \in Nat
  /\ begin \subseteq Agent /\ nv \subseteq Agent /\ offer \subseteq Agent
  /\ report \in [Agent -> Seq(Report)]
  /\ peer \in [Agent -> [Agent -> Seq(Block \cup Ack)]]
  /\ sends \in 0 .. MaxSends

(* The command has been given; each agent takes it when it gets there.     *)
Init ==
  /\ inCount = [e \in Edge |-> 0] /\ outCount = [e \in Edge |-> 0]
  /\ phase = [a \in Agent |-> "load"]
  /\ updates = [a \in Agent |-> {}]
  /\ newV = [a \in Agent |-> {}]
  /\ newE = [a \in Agent |-> 0] /\ removed = [a \in Agent |-> 0]
  /\ acks = [a \in Agent |-> 0]
  /\ readyCtr = 0 /\ nV = 0 /\ nE = 0
  /\ begin = Agent /\ nv = {} /\ offer = {}
  /\ report = [a \in Agent |-> <<>>]
  /\ peer = [a \in Agent |-> [b \in Agent |-> <<>>]]
  /\ sends = 0

-----------------------------------------------------------------------------
(* The vertices of agent a that have an edge there, in a graph with these  *)
(* edge counts.                                                            *)
Known(a, ins, outs) ==
  {v \in Vertex : /\ Owner[v] = a
                  /\ \E e \in Edge : (e[2] = v /\ ins[e] > 0) \/ (e[1] = v /\ outs[e] > 0)}

(* The sum of the values of f, which are natural numbers: how many pairs   *)
(* <<x, k>> there are with k among the first f[x] numbers.                 *)
Units(f) == UNION {{x} \X (1 .. f[x]) : x \in DOMAIN f}
Total(f) == Cardinality(Units(f))

(* One more entry for each edge of S.                                      *)
Plus(count, S) == [e \in Edge |-> IF e \in S THEN count[e] + 1 ELSE count[e]]

(* change_edge at agent a for the IN edges of I and the OUT edges of O, on *)
(* a graph whose IN counts are ins.                                        *)
ChangeEdges(ins, I, O) ==
  /\ inCount' = Plus(ins, I)
  /\ outCount' = Plus(outCount, O)

(* Mutant: vertices are counted for their IN edges only. *)
NewVFromIn(a, ins, I, O) ==
  newV[a] \cup (Known(a, Plus(ins, I), outCount) \ Known(a, ins, outCount))

(* ... and what it leaves in update_nV_set_: also the vertices that had no *)
(* edge before.                                                            *)
NewV(a, ins, I, O) ==
  newV[a] \cup (Known(a, Plus(ins, I), Plus(outCount, O)) \ Known(a, ins, outCount))

(* Mutant: update_nE_ is not set back to zero. *)
SettleKeepingE(a, need, vs, n) ==
  /\ acks' = [acks EXCEPT ![a] = need]
  /\ IF need = 0
     THEN /\ report' = [report EXCEPT ![a] = Append(@, [v |-> Cardinality(vs), e |-> n])]
          /\ newV' = [newV EXCEPT ![a] = {}]
          /\ newE' = [newE EXCEPT ![a] = n]
     ELSE /\ newV' = [newV EXCEPT ![a] = vs]
          /\ newE' = [newE EXCEPT ![a] = n]
          /\ UNCHANGED report

(* The agent waits for need acknowledgements.  If none are left it sends   *)
(* READY_NV_NE, with what it has counted since the last one.               *)
Settle(a, need, vs, n) ==
  /\ acks' = [acks EXCEPT ![a] = need]
  /\ IF need = 0
     THEN /\ report' = [report EXCEPT ![a] = Append(@, [v |-> Cardinality(vs), e |-> n])]
          /\ newV' = [newV EXCEPT ![a] = {}]
          /\ newE' = [newE EXCEPT ![a] = 0]
     ELSE /\ newV' = [newV EXCEPT ![a] = vs]
          /\ newE' = [newE EXCEPT ![a] = n]
          /\ UNCHANGED report

(* The edges of S by the owner of their sources, or of their destinations. *)
BySource(S) == [b \in Agent |-> {e \in S : Owner[e[1]] = b}]
ByDestination(S) == [b \in Agent |-> {e \in S : Owner[e[2]] = b}]

(* The connections of net when a sends its block of S to each other agent. *)
Sent(net, a, type, blocks) ==
  [net EXCEPT ![a] = [b \in Agent |->
     IF b = a \/ blocks[b] = {} THEN @[b]
     ELSE Append(@[b], [type |-> type, edges |-> blocks[b]])]]

Receivers(a, blocks) == Cardinality({b \in Agent \ {a} : blocks[b] # {}})

-----------------------------------------------------------------------------
(* Agent.                                                                  *)

(* Mutant: the blocks sent are not waited for. *)
RecvBeginWithoutWaiting(a) ==
  /\ a \in begin
  /\ begin' = begin \ {a}
  /\ phase' = IF Command = "START" THEN [phase EXCEPT ![a] = "update"] ELSE phase
  /\ LET ins    == [e \in Edge |-> IF Owner[e[2]] = a /\ inCount[e] > 1 THEN 1 ELSE inCount[e]]
         blocks == BySource({e \in Edge : Owner[e[2]] = a /\ ins[e] > 0})
     IN  /\ ChangeEdges(ins, {}, blocks[a])
         /\ removed' = [removed EXCEPT ![a] = @ + (Total(inCount) - Total(ins))]
         /\ peer' = Sent(peer, a, "OUT", blocks)
         /\ Settle(a, acks[a], NewV(a, ins, {}, blocks[a]), newE[a])
  /\ UNCHANGED <<updates, dirVars, nv, offer, sends>>

(* DO_START or DO_UPDATE: send_out_edges.  Repeated IN edges are removed,  *)
(* from nE_ but not from update_nE_, and every one left  gets its OUT edge.    *)
(* UPDATE leaves the agent in NO_PROCESS until NV.                         *)
RecvBegin(a) ==
  /\ a \in begin
  /\ begin' = begin \ {a}
  /\ phase' = IF Command = "START" THEN [phase EXCEPT ![a] = "update"] ELSE phase
  /\ LET ins    == [e \in Edge |-> IF Owner[e[2]] = a /\ inCount[e] > 1 THEN 1 ELSE inCount[e]]
         blocks == BySource({e \in Edge : Owner[e[2]] = a /\ ins[e] > 0})
     IN  /\ ChangeEdges(ins, {}, blocks[a])
         /\ removed' = [removed EXCEPT ![a] = @ + (Total(inCount) - Total(ins))]
         /\ peer' = Sent(peer, a, "OUT", blocks)
         /\ Settle(a, acks[a] + Receivers(a, blocks), NewV(a, ins, {}, blocks[a]), newE[a])
  /\ UNCHANGED <<updates, dirVars, nv, offer, sends>>

(* HAVE_UPDATE: finalize_graph_batch.  The IN and OUT edges of this agent  *)
(* are inserted; the blocks for other agents hold the IN edges themselves. *)
RecvOffer(a) ==
  /\ a \in offer
  /\ offer' = offer \ {a}
  /\ phase' = [phase EXCEPT ![a] = "update"]
  /\ updates' = [updates EXCEPT ![a] = {}]
  /\ LET I      == updates[a]
         blocks == BySource(I)
     IN  /\ ChangeEdges(inCount, I, blocks[a])
         /\ peer' = Sent(peer, a, "IN", blocks)
         /\ Settle(a, acks[a] + Receivers(a, blocks), NewV(a, inCount, I, blocks[a]),
                   newE[a] + Cardinality(I))
  /\ UNCHANGED <<removed, dirVars, begin, nv, sends>>

(* SEND_UPDATES: the edges that belong here are inserted, the others go to *)
(* their owners, who will acknowledge them; then the block is acknowledged.*)
RecvBlock(a, b) ==
  /\ peer[b][a] # <<>> /\ Head(peer[b][a]).type # "ACK"
  /\ LET m      == Head(peer[b][a])
         blocks == IF m.type = "IN" THEN ByDestination(m.edges) ELSE BySource(m.edges)
         I      == IF m.type = "IN" THEN blocks[a] ELSE {}
         O      == IF m.type = "OUT" THEN blocks[a] ELSE {}
         moved  == Sent([peer EXCEPT ![b][a] = Tail(@)], a, m.type, blocks)
     IN  /\ ChangeEdges(inCount, I, O)
         /\ newV' = [newV EXCEPT ![a] = NewV(a, inCount, I, O)]
         /\ newE' = [newE EXCEPT ![a] = @ + Cardinality(I)]
         /\ peer' = [moved EXCEPT ![a][b] = Append(@, [type |-> "ACK", edges |-> {}])]
         /\ acks' = [acks EXCEPT ![a] = @ + Receivers(a, blocks)]
  /\ UNCHANGED <<phase, updates, removed, dirVars, begin, nv, offer, report, sends>>

RecvAck(a, b) ==
  /\ peer[b][a] # <<>> /\ Head(peer[b][a]).type = "ACK"
  /\ peer' = [peer EXCEPT ![b][a] = Tail(@)]
  /\ Settle(a, acks[a] - 1, newV[a], newE[a])
  /\ UNCHANGED <<graphVars, phase, updates, removed, dirVars, begin, nv, offer, sends>>

(* An edge a streamer sends: into the graph in NO_PROCESS, else queued.    *)
RecvUpdateEdge(e) ==
  /\ sends < MaxSends
  /\ Repeats \/ (inCount[e] = 0 /\ e \notin updates[Owner[e[2]]])
  /\ sends' = sends + 1
  /\ LET a == Owner[e[2]]
     IN  \/ /\ phase[a] = "load" /\ e \in Loaded
            /\ ChangeEdges(inCount, {e}, {})
            /\ newV' = [newV EXCEPT ![a] = NewV(a, inCount, {e}, {})]
            /\ newE' = [newE EXCEPT ![a] = @ + 1]
            /\ UNCHANGED updates
         \/ /\ phase[a] # "load" /\ e \in Streamed
            /\ updates' = [updates EXCEPT ![a] = @ \cup {e}]
            /\ UNCHANGED <<graphVars, newV, newE>>
  /\ UNCHANGED <<phase, removed, acks, dirVars, netVars>>

RecvNv(a) ==
  /\ a \in nv
  /\ nv' = nv \ {a}
  /\ phase' = [phase EXCEPT ![a] = "run"]
  /\ UNCHANGED <<graphVars, updates, newV, newE, removed, acks, dirVars, begin,
                 offer, report, peer, sends>>

-----------------------------------------------------------------------------
(* Directory.                                                              *)

(* Mutant: ready_ctr_ is not reset. *)
DirReadyNoReset(a) ==
  /\ report[a] # <<>>
  /\ report' = [report EXCEPT ![a] = Tail(@)]
  /\ nV' = nV + Head(report[a]).v
  /\ nE' = nE + Head(report[a]).e
  /\ LET all == readyCtr + 1 = Cardinality(Agent)
     IN  /\ readyCtr' = readyCtr + 1
         /\ nv' = IF all THEN Agent ELSE nv
  /\ UNCHANGED <<graphVars, agentVars, begin, offer, peer, sends>>

(* READY_NV_NE. *)
DirReady(a) ==
  /\ report[a] # <<>>
  /\ report' = [report EXCEPT ![a] = Tail(@)]
  /\ nV' = nV + Head(report[a]).v
  /\ nE' = nE + Head(report[a]).e
  /\ LET all == readyCtr + 1 = Cardinality(Agent)
     IN  /\ readyCtr' = IF all THEN 0 ELSE readyCtr + 1
         /\ nv' = IF all THEN Agent ELSE nv
  /\ UNCHANGED <<graphVars, agentVars, begin, offer, peer, sends>>

(* The supersteps are over and an agent has asked for the next batch.      *)
Running == begin = {} /\ nv = {} /\ offer = {} /\ \A a \in Agent : phase[a] = "run"

DirHaveUpdate ==
  /\ Running
  /\ \E a \in Agent : updates[a] # {}
  /\ offer' = Agent
  /\ UNCHANGED <<graphVars, agentVars, dirVars, begin, nv, report, peer, sends>>

(* Nothing is left to do but for the streamers.                            *)
Rest ==
  /\ Running /\ \A a \in Agent : updates[a] = {}
  /\ UNCHANGED vars

Next ==
  \/ \E a \in Agent : RecvBegin(a) \/ RecvOffer(a) \/ RecvNv(a) \/ DirReady(a)
  \/ \E a, b \in Agent : RecvBlock(a, b) \/ RecvAck(a, b)
  \/ \E e \in Edge : RecvUpdateEdge(e)
  \/ DirHaveUpdate
  \/ Rest

Spec == Init /\ [][Next]_vars

-----------------------------------------------------------------------------
(* Properties.                                                             *)

Reported(a, field) == Total([i \in DOMAIN report[a] |-> report[a][i][field]])

(* While the agents compute every IN edge has its OUT edge and the other   *)
(* way round, in the same number: the check of client check-transpose      *)
(* (agent.cpp:597-608), which throws if an edge is not found.              *)
Transposed == Running => inCount = outCount

(* No IN edge is lost or counted twice on the way to the directory's nE,   *)
(* which differs from the graph by the repeated entries that the first     *)
(* batch removed, and by nothing else.                                     *)
EdgesAccounted ==
  Total(inCount) + Total(removed)
    = nE + Total(newE) + Total([a \in Agent |-> Reported(a, "e")])

(* No vertex is lost or counted twice on the way to the directory's nV.    *)
VerticesAccounted ==
  Total([a \in Agent |-> Cardinality(Known(a, inCount, outCount))])
    = nV + Total([a \in Agent |-> Cardinality(newV[a]) + Reported(a, "v")])

=============================================================================
