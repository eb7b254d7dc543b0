------------------------------ MODULE PageRank ------------------------------
(***************************************************************************)
(* PageRank, the algorithm of the BSP agent.  Unlike the LBSP agent of     *)
(* Supersteps it keeps the notified values of every superstep apart, runs  *)
(* every vertex in every superstep, sends only to agents it has an edge    *)
(* to, and waits only for agents it has an edge from.                      *)
(*                                                                         *)
(* Ranks are numbers modulo the prime Prime, or Infinite: PageRank only    *)
(* adds, multiplies and divides by degrees, and what the interleavings     *)
(* could change is which values it does this to.                           *)
(*                                                                         *)
(* The graph is transposed and changes only between batches (GraphBatch);  *)
(* no vertex is replicated; one directory.                                 *)
(***************************************************************************)
EXTENDS Integers, Sequences, FiniteSets, FiniteSetsExt

CONSTANTS
  Agent,
  Owner,        \* Owner[v]: the agent a vertex hashes to
  Graphs,       \* graphs a first batch may find, sets of edges <<u, v>>
  Streamed,     \* edges streamed into a later batch, or deleted by it
  Shares,       \* 1/nV, for the numbers nV the directories may come to
  Damping,      \* DAMPING_FACTOR
  Prime,
  Supersteps,   \* PAGERANK_SUPERSTEPS
  Commands,     \* START or UPDATE, which may begin the first batch
  MaxBatches    \* bound: batches of a behaviour

Vertex == DOMAIN Owner
Number == 0 .. Prime - 1

ASSUME PageRankAssumption ==
  /\ IsFiniteSet(Agent) /\ IsFiniteSet(Vertex) /\ \A v \in Vertex : Owner[v] \in Agent
  /\ Graphs \subseteq SUBSET (Vertex \X Vertex) /\ Streamed \subseteq Vertex \X Vertex
  /\ \A e \in Streamed : Owner[e[1]] = Owner[e[2]]
  /\ Prime \in Nat /\ Prime > Cardinality(Vertex) /\ \A p \in 2 .. Prime - 1 : Prime % p # 0
  /\ Shares \subseteq Number /\ Damping \in Number
  /\ Supersteps \in Nat \ {0} /\ MaxBatches \in Nat \ {0}
  /\ Commands \subseteq {"START", "UPDATE"}

(* The rank of a notification nobody sent (pralgorithm.hpp:61), and x / 0. *)
Infinite == -1

It == 0 .. Supersteps + 2

VARIABLES
  graph,
  share,     \* 1 / global_nV_
  (* VertexStorage *)
  pr, iteration,
  (* Agent *)
  phase,     \* state_; "update" is every state that waits for NV
  it,        \* it_
  needed,    \* agent_msgs_needed_
  vn,        \* vn_: vn[a][k][v] the value of v for superstep k
  links,     \* the keys of out_vn_msgs, which are never erased
  vote,      \* num_dormant_ > 0
  (* connections *)
  sync,      \* SYNC on its way to an agent
  peer,      \* peer[a][b]: OUT_VN from a to b
  batches    \* batches begun

vertexVars == <<pr, iteration>>
agentVars  == <<phase, it, needed, vn, links, vote>>
vars == <<graph, share, vertexVars, agentVars, sync, peer, batches>>

Rank == Number \cup {Infinite}
NoValues == [v \in Vertex |-> Infinite]

TypeOK ==
  /\ graph \subseteq Vertex \X Vertex /\ share \in Shares
  /\ pr \in [Vertex -> Rank] /\ iteration \in [Vertex -> It]
  /\ phase \in [Agent -> {"load", "update", "process", "sync", "idle"}]
  /\ it \in [Agent -> -1 .. Supersteps + 1]
  /\ needed \in [Agent -> [It -> 1 - Cardinality(Agent) .. Cardinality(Agent) - 1]]
  /\ vn \in [Agent -> [It -> [Vertex -> Rank]]]
  /\ links \in [Agent -> SUBSET Agent] /\ vote \in [Agent -> BOOLEAN]
  /\ sync \in [Agent -> {"none", "go", "stop"}]
  /\ \A a, b \in Agent : \A i \in DOMAIN peer[a][b] :
       /\ peer[a][b][i].it \in It
       /\ peer[a][b][i].vals \in [DOMAIN peer[a][b][i].vals -> Rank]
  /\ batches \in 1 .. MaxBatches

Init ==
  /\ graph \in Graphs /\ share \in Shares
  /\ pr = [v \in Vertex |-> 0] /\ iteration = [v \in Vertex |-> 0]
  /\ \E c \in Commands :
       phase = [a \in Agent |-> IF c = "START" THEN "update" ELSE "load"]
  /\ it = [a \in Agent |-> -1]
  /\ needed = [a \in Agent |-> [k \in It |-> 0]]
  /\ vn = [a \in Agent |-> [k \in It |-> NoValues]]
  /\ links = [a \in Agent |-> {}] /\ vote = [a \in Agent |-> FALSE]
  /\ sync = [a \in Agent |-> "none"]
  /\ peer = [a \in Agent |-> [b \in Agent |-> <<>>]]
  /\ batches = 1

-----------------------------------------------------------------------------
(* The graph and the numbers.                                              *)

In(v) == {u \in Vertex : <<u, v>> \in graph}
Out(v) == {u \in Vertex : <<v, u>> \in graph}
Mine(a) == {v \in Vertex : Owner[v] = a /\ In(v) \cup Out(v) # {}}

Reciprocal(d) == CHOOSE n \in Number : (n * d) % Prime = 1

(* pr / out_degree.                                                        *)
Scaled(v, x) ==
  IF x = Infinite \/ Out(v) = {} THEN Infinite
  ELSE (x * Reciprocal(Cardinality(Out(v)))) % Prime

(* (1 - d)/nV + d * the sum of the values of the vertices in S.            *)
Teleport == (1 + Prime - Damping) * share % Prime
SumOver(values, S) == MapThenSumSet(LAMBDA u : values[u], S)
Damped(values, S) ==
  IF \E u \in S : values[u] = Infinite THEN Infinite
  ELSE (Teleport + Damping * SumOver(values, S)) % Prime

-----------------------------------------------------------------------------
(* A superstep.                                                            *)

(* PageRankAlgorithm::run of v, with the agent's copies for this superstep.*)
(* In superstep 0 the vertex notifies 1/nV; from superstep 1 on it         *)
(* notifies the rank it has just computed.                                 *)
Run(v, copies) ==
  LET i   == iteration[v]
      new == Damped(copies, IF i > 0 THEN In(v) ELSE {})
      own == IF i = 0 THEN share ELSE new
  IN  IF i > Supersteps
      THEN [pr |-> pr[v], notify |-> FALSE, scaled |-> Infinite]
      ELSE [pr |-> new, notify |-> TRUE, scaled |-> Scaled(v, own)]

(* The owners of the out-neighbours of v.                                  *)
NotifyAgents(v) == {Owner[n] : n \in Out(v)}

(* The OUT_VN for agent b.                                                 *)
Notifications(b, k, tells, scaled) ==
  [it |-> k, vals |-> [v \in {w \in tells : b \in NotifyAgents(w)} |-> scaled[v]]]

(* The agents that the agent has an edge from.                             *)
AgentsUsed(a) == {Owner[u] : u \in UNION {In(v) : v \in Mine(a)}} \ {a}

(* Mutant: an agent it has nothing to tell is not sent anything. *)
ReceiversTold(a, tells) == (UNION {NotifyAgents(v) : v \in tells}) \ {a}

(* The agents out_vn_msgs has an entry for once the vertices in tells have *)
(* notified.                                                               *)
Receivers(a, tells) == links[a] \cup ((UNION {NotifyAgents(v) : v \in tells}) \ {a})

(* process_vertices, for an agent with these copies, counts and sockets.   *)
(* A value for an out-neighbour of the same agent goes into vn_ directly.  *)
(* Every agent ever notified is sent an OUT_VN, an empty one too: the      *)
(* receivers wait for one even after the last superstep.  When those for   *)
(* the next superstep are in already, the agent joins the barrier.         *)
ProcessVertices(a, copies, need, net) ==
  LET k      == it[a] + 1
      ran    == [v \in Mine(a) |-> Run(v, copies[iteration[v]])]
      tells  == {v \in Mine(a) : ran[v].notify}
      scaled == [v \in Mine(a) |-> ran[v].scaled]
      after  == [need EXCEPT ![k + 1] = @ + Cardinality(AgentsUsed(a))]
      known  == Receivers(a, tells)
  IN  /\ need[k] <= 0
      /\ it' = [it EXCEPT ![a] = k]
      /\ pr' = [v \in Vertex |-> IF v \in Mine(a) THEN ran[v].pr ELSE pr[v]]
      /\ iteration' = [v \in Vertex |-> iteration[v] + IF v \in Mine(a) THEN 1 ELSE 0]
      /\ vn' = [vn EXCEPT ![a] = [i \in It |-> [v \in Vertex |->
                  IF v \in tells /\ i = iteration[v] + 1 /\ a \in NotifyAgents(v)
                  THEN scaled[v] ELSE copies[i][v]]]]
      /\ links' = [links EXCEPT ![a] = known]
      /\ peer' = [net EXCEPT ![a] = [b \in Agent |->
                    IF b \in known
                    THEN Append(@[b], Notifications(b, k + 1, tells, scaled)) ELSE @[b]]]
      /\ needed' = [needed EXCEPT ![a] = after]
      /\ vote' = [vote EXCEPT ![a] = tells # {}]
      /\ phase' = [phase EXCEPT ![a] = IF after[k + 1] = 0 THEN "sync" ELSE "process"]

(* pre_poll in PROCESS, when nothing is missing.                           *)
PrePoll(a) ==
  /\ phase[a] = "process"
  /\ ProcessVertices(a, vn[a], needed[a], peer)
  /\ UNCHANGED <<graph, share, sync, batches>>

(* NV.  After UPDATE the agent goes to the barrier without a superstep.    *)
RecvNv(a) ==
  /\ \/ /\ phase[a] = "update"
        /\ phase' = [phase EXCEPT ![a] = "process"]
     \/ /\ phase[a] = "load"
        /\ phase' = [phase EXCEPT ![a] = "sync"]
  /\ UNCHANGED <<graph, share, vertexVars, it, needed, vn, links, vote, sync, peer, batches>>

(* OUT_VN: process_vn.  It ends in pre_poll.                               *)
RecvOutVn(a, b) ==
  /\ peer[b][a] # <<>>
  /\ LET m      == Head(peer[b][a])
         net    == [peer EXCEPT ![b][a] = Tail(@)]
         need   == [needed[a] EXCEPT ![m.it] = @ - 1]
         copies == [vn[a] EXCEPT ![m.it] =
                      [v \in Vertex |-> IF v \in DOMAIN m.vals THEN m.vals[v] ELSE @[v]]]
         joins  == phase[a] = "process" /\ it[a] >= 0 /\ need[it[a] + 1] = 0
     IN  CASE phase[a] = "idle" ->
                /\ peer' = net
                /\ UNCHANGED <<vertexVars, agentVars>>
           [] phase[a] = "process" /\ ~joins /\ need[it[a] + 1] <= 0 ->
                ProcessVertices(a, copies, need, net)
           [] OTHER ->
                /\ peer' = net
                /\ needed' = [needed EXCEPT ![a] = need]
                /\ vn' = [vn EXCEPT ![a] = copies]
                /\ phase' = IF joins THEN [phase EXCEPT ![a] = "sync"] ELSE phase
                /\ UNCHANGED <<vertexVars, it, links, vote>>
  /\ UNCHANGED <<graph, share, sync, batches>>

(* The directory has every READY_SYNC.                                     *)
DirSync ==
  /\ \A a \in Agent : phase[a] = "sync" /\ sync[a] = "none"
  /\ sync' = [a \in Agent |-> IF \E b \in Agent : vote[b] THEN "go" ELSE "stop"]
  /\ UNCHANGED <<graph, share, vertexVars, agentVars, peer, batches>>

(* Mutant: the values for the superstep to come are collected as well. *)
CollectedGreedy(a) == [i \in It |-> IF i <= it[a] + 1 THEN NoValues ELSE vn[a][i]]

(* gc.                                                                     *)
Collected(a) == [i \in It |-> IF i < it[a] THEN NoValues ELSE vn[a][i]]

(* Mutant: the iteration goes on in the next batch. *)
ClearBatchMemKeeping(a) ==
  /\ it' = [it EXCEPT ![a] = -1]
  /\ needed' = [needed EXCEPT ![a] = [k \in It |-> 0]]
  /\ vn' = [vn EXCEPT ![a] = [k \in It |-> NoValues]]
  /\ vote' = [vote EXCEPT ![a] = FALSE]
  /\ UNCHANGED <<iteration, links>>

(* clear_batch_mem, with reset_state of every vertex.                      *)
ClearBatchMem(a) ==
  /\ it' = [it EXCEPT ![a] = -1]
  /\ needed' = [needed EXCEPT ![a] = [k \in It |-> 0]]
  /\ vn' = [vn EXCEPT ![a] = [k \in It |-> NoValues]]
  /\ vote' = [vote EXCEPT ![a] = FALSE]
  /\ iteration' = [v \in Vertex |-> IF v \in Mine(a) THEN 0 ELSE iteration[v]]
  /\ UNCHANGED links

(* SYNC.                                                                   *)
RecvSync(a) ==
  /\ phase[a] = "sync" /\ sync[a] # "none"
  /\ sync' = [sync EXCEPT ![a] = "none"]
  /\ \/ /\ sync[a] = "go"
        /\ ProcessVertices(a, Collected(a), needed[a], peer)
     \/ /\ sync[a] = "stop"
        /\ phase' = [phase EXCEPT ![a] = "idle"]
        /\ ClearBatchMem(a)
        /\ UNCHANGED <<pr, peer>>
  /\ UNCHANGED <<graph, share, batches>>

-----------------------------------------------------------------------------
(* Between batches.                                                        *)

Rest == \A a \in Agent : phase[a] = "idle"

(* The next batch: a START on the same graph, or a streamed edge is        *)
(* inserted or deleted.                                                    *)
Begin ==
  /\ Rest /\ batches < MaxBatches
  /\ batches' = batches + 1
  /\ graph' \in {graph} \cup {graph \cup {e} : e \in Streamed} \cup {graph \ {e} : e \in Streamed}
  /\ share' \in Shares
  /\ phase' = [a \in Agent |-> "update"]
  /\ UNCHANGED <<vertexVars, it, needed, vn, links, vote, sync, peer>>

(* DO_RESET: clear_batch_mem, then reset_output, at every agent before     *)
(* anything else is sent to it.                                            *)
Reset ==
  /\ Rest /\ batches < MaxBatches
  /\ \E v \in Vertex : pr[v] # 0
  /\ pr' = [v \in Vertex |-> 0]
  /\ UNCHANGED <<graph, share, iteration, agentVars, sync, peer, batches>>

Work ==
  \/ DirSync
  \/ \E a \in Agent : PrePoll(a) \/ RecvNv(a) \/ RecvSync(a)
  \/ \E a, b \in Agent : RecvOutVn(a, b)

Next == Work \/ Begin \/ Reset

(* While an agent or the directory has something to do, one of them does   *)
(* something: less than each of their event loops being scheduled.         *)
Fairness == WF_vars(Work)

Spec == Init /\ [][Next]_vars
FairSpec == Spec /\ Fairness

-----------------------------------------------------------------------------
(* Properties.                                                             *)

(* Power iteration on the whole graph, in one place.                       *)
Iterate[k \in 0 .. Supersteps] ==
  IF k = 0 THEN [v \in Vertex |-> share]
  ELSE LET last   == Iterate[k - 1]
           scaled == [v \in Vertex |-> Scaled(v, last[v])]
       IN  [v \in Vertex |-> Damped(scaled, In(v))]

(* Whatever the order in which agents run and notifications arrive, the    *)
(* ranks after superstep k are those of k rounds of power iteration, from  *)
(* the first round of each batch to its last one (pralgorithm.cpp:29-90):  *)
(* no value of another superstep, of another batch or of no vertex at all  *)
(* ("No neighbor", pralgorithm.cpp:49) is ever summed.                     *)
RanksExact ==
  \A a \in Agent : it[a] >= 0 =>
    LET ranks == Iterate[IF it[a] > Supersteps THEN Supersteps ELSE it[a]]
    IN  \A v \in Mine(a) : pr[v] = IF it[a] = 0 THEN Teleport ELSE ranks[v]

(* Every batch ends: nobody waits for an OUT_VN that is not sent.          *)
EveryBatchEnds == (\E a \in Agent : phase[a] = "update") ~> Rest
=============================================================================
