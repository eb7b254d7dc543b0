--------------------------- MODULE LockStep_proofs ---------------------------
(***************************************************************************)
(* Proofs about the batch cycle, for every set of agents and every bound:  *)
(* its types, for every set of directories and assignment of agents to     *)
(* them, and, with one directory, that it runs in lock step.               *)
(*                                                                         *)
(* The inductive invariant LockInv says in which of six phases the whole   *)
(* system is, and what each agent may be doing in it: which messages are   *)
(* on their way to and from it, and how the counters of the directory and  *)
(* of the agents are made up of those that have arrived.                   *)
(***************************************************************************)
EXTENDS BatchCycle, DataLemmas

-----------------------------------------------------------------------------
(* The helpers that build messages and connections.                        *)

LEMMA NumAgentsType == NumAgents \in Nat
BY SystemAssumption, FS_CardinalityType DEF NumAgents

LEMMA RoundBatchType ==
  /\ Round \subseteq Nat /\ 0 \in Round
  /\ Batch \subseteq Nat /\ 0 \in Batch
  /\ \A k \in -1 .. MaxIt : k + 1 \in Round
BY BoundAssumption DEF Round, Batch

(* A message taken from, and one put on, a connection.                     *)
LEMMA QueueType ==
  ASSUME NEW S, NEW s \in Seq(S)
  PROVE  /\ \A m \in S : Append(s, m) \in Seq(S)
         /\ s # <<>> => Head(s) \in S /\ Tail(s) \in Seq(S)
OBVIOUS

LEMMA ShortQueueType ==
  ASSUME NEW S, NEW x \in S, NEW y \in S
  PROVE  <<x>> \in Seq(S) /\ <<x, y>> \in Seq(S)
OBVIOUS

(* The number of agents a block of edges goes to.                          *)
LEMMA DestsType ==
  ASSUME NEW a \in Agent, NEW dests \in SUBSET (Agent \ {a})
  PROVE  Cardinality(dests) \in Nat
<1>1. IsFiniteSet(dests)
  BY SystemAssumption, FS_Subset
<1> QED BY <1>1, FS_CardinalityType

LEMMA SentType ==
  ASSUME NEW net \in [Agent -> [Agent -> Seq(ToPeer)]],
         NEW a \in Agent, NEW dests, NEW m \in ToPeer
  PROVE  Sent(net, a, dests, m) \in [Agent -> [Agent -> Seq(ToPeer)]]
BY QueueType DEF Sent

LEMMA ToAgentsType ==
  ASSUME down \in [Agent -> Seq(ToAgent)], NEW d, NEW m \in ToAgent
  PROVE  ToAgents(d, m) \in [Agent -> Seq(ToAgent)]
BY QueueType DEF ToAgents

LEMMA ToPeersType ==
  ASSUME NEW net \in [Directory -> [Directory -> Seq(Linked)]],
         NEW d \in Directory, NEW m \in Linked
  PROVE  ToPeers(net, d, m) \in [Directory -> [Directory -> Seq(Linked)]]
BY QueueType DEF ToPeers

LEMMA PushedType ==
  ASSUME up \in [Agent -> Seq(ToDirectory)], NEW a \in Agent, NEW m \in ToDirectory
  PROVE  Pushed(a, m) \in [Agent -> Seq(ToDirectory)]
BY QueueType DEF Pushed

-----------------------------------------------------------------------------
(* The parts of the agents' handlers.                                      *)

LEMMA StartLeavingIdleType ==
  ASSUME TypeOK, NEW a \in Agent, StartLeavingIdle(a)
  PROVE  /\ asked' \in [Agent -> BOOLEAN]
         /\ up' \in [Agent -> Seq(ToDirectory)]
<1>1. Msg("HAVE_UPDATE", batch[a]) \in ToDirectory
  BY RoundBatchType DEF TypeOK, Msg, ToDirectory
<1> QED BY <1>1, PushedType DEF StartLeavingIdle, TypeOK

LEMMA ReadyType ==
  ASSUME TypeOK, NEW a \in Agent,
         DoneWaitingReadyNvNe(a) \/ UNCHANGED <<up, ready>>
  PROVE  /\ up' \in [Agent -> Seq(ToDirectory)]
         /\ ready' \in [Agent -> BOOLEAN]
<1>1. Msg("READY_NV_NE", 0) \in ToDirectory
  BY DEF Msg, ToDirectory
<1>2. up' \in [Agent -> Seq(ToDirectory)]
  BY <1>1, PushedType DEF DoneWaitingReadyNvNe, TypeOK
<1>3. ready' \in [Agent -> BOOLEAN]
  BY DEF DoneWaitingReadyNvNe, TypeOK
<1> QED BY <1>2, <1>3

LEMMA SendBlocksType ==
  ASSUME TypeOK, NEW a \in Agent, NEW dests \in SUBSET (Agent \ {a}),
         NEW moves \in {0, 1}, SendBlocks(a, dests, moves)
  PROVE  /\ peer' \in [Agent -> [Agent -> Seq(ToPeer)]]
         /\ acks' \in [Agent -> Int]
         /\ up' \in [Agent -> Seq(ToDirectory)]
         /\ ready' \in [Agent -> BOOLEAN]
<1>1. Msg("SEND_UPDATES", moves) \in ToPeer
  BY BoundAssumption DEF Msg, ToPeer, Round
<1>2. peer' \in [Agent -> [Agent -> Seq(ToPeer)]]
  BY <1>1, SentType DEF SendBlocks, TypeOK
<1>3. acks' \in [Agent -> Int]
  <2>1. acks \in [Agent -> Int] /\ Cardinality(dests) \in Nat
    BY DestsType DEF TypeOK
  <2>2. acks' = [acks EXCEPT ![a] = @ + Cardinality(dests)]
    BY DEF SendBlocks
  <2> QED BY <2>1, <2>2
<1>4. DoneWaitingReadyNvNe(a) \/ UNCHANGED <<up, ready>>
  BY DEF SendBlocks
<1> QED BY <1>2, <1>3, <1>4, ReadyType

LEMMA JoinBarrierType ==
  ASSUME TypeOK, NEW a \in Agent, NEW n \in {0, 1}, JoinBarrier(a, n)
  PROVE  /\ state' \in [Agent -> AgentState]
         /\ up' \in [Agent -> Seq(ToDirectory)]
<1>1. Msg("READY_SYNC", n) \in ToDirectory
  BY DEF Msg, ToDirectory
<1> QED BY <1>1, PushedType DEF JoinBarrier, TypeOK, AgentState

LEMMA ProcessVerticesType ==
  ASSUME TypeOK, NEW a \in Agent, NEW need \in [Round -> Int],
         NEW net \in [Agent -> [Agent -> Seq(ToPeer)]],
         ProcessVertices(a, need, net)
  PROVE  /\ state' \in [Agent -> AgentState]
         /\ it' \in [Agent -> -1 .. MaxIt]
         /\ needed' \in [Agent -> [Round -> Int]]
         /\ dormant' \in [Agent -> {0, 1}]
         /\ up' \in [Agent -> Seq(ToDirectory)]
         /\ peer' \in [Agent -> [Agent -> Seq(ToPeer)]]
<1> DEFINE k    == it[a] + 1
           want == [need EXCEPT ![k + 1] = @ + (NumAgents - 1)]
<1>1. k \in 0 .. MaxIt /\ k + 1 \in Round
  <2>1. it[a] \in -1 .. MaxIt
    BY DEF TypeOK
  <2>2. k <= MaxIt
    BY DEF ProcessVertices
  <2> QED BY SMTT(30), <2>1, <2>2, BoundAssumption DEF Round
<1>2. it' \in [Agent -> -1 .. MaxIt]
  BY SMTT(30), <1>1 DEF ProcessVertices, TypeOK
<1>3. want \in [Round -> Int]
  BY <1>1, NumAgentsType
<1>4. needed' \in [Agent -> [Round -> Int]]
  BY <1>3 DEF ProcessVertices, TypeOK
<1>5. Msg("OUT_VN", k + 1) \in ToPeer
  BY <1>1 DEF Msg, ToPeer
<1>6. peer' \in [Agent -> [Agent -> Seq(ToPeer)]]
  BY <1>5, SentType DEF ProcessVertices
<1>7. PICK vote \in Vote(k) :
        /\ dormant' = [dormant EXCEPT ![a] = vote]
        /\ \/ JoinBarrier(a, vote)
           \/ state' = [state EXCEPT ![a] = "PROCESS"] /\ UNCHANGED up
  BY DEF ProcessVertices
<1>8. vote \in {0, 1}
  BY <1>7 DEF Vote
<1>9. dormant' \in [Agent -> {0, 1}]
  BY <1>7, <1>8 DEF TypeOK
<1>10. /\ state' \in [Agent -> AgentState]
       /\ up' \in [Agent -> Seq(ToDirectory)]
  BY <1>7, <1>8, JoinBarrierType DEF TypeOK, AgentState
<1> QED BY <1>2, <1>4, <1>6, <1>9, <1>10

-----------------------------------------------------------------------------
(* The parts of the directories' handlers.                                 *)

LEMMA CountReadyType ==
  ASSUME TypeOK, NEW d \in Directory, CountReady(d)
  PROVE  /\ readyCtr' \in [Directory -> Nat]
         /\ dirIt' \in [Directory -> Round]
         /\ down' \in [Agent -> Seq(ToAgent)]
<1>1. Msg("NV", 0) \in ToAgent
  BY DEF Msg, ToAgent
<1> DEFINE all == readyCtr[d] + 1 = NumAgents
<1>2. /\ readyCtr' = [readyCtr EXCEPT ![d] = IF all THEN 0 ELSE @ + 1]
      /\ dirIt' = [dirIt EXCEPT ![d] = IF all THEN 0 ELSE @]
      /\ down' = IF all THEN ToAgents(d, Msg("NV", 0)) ELSE down
  BY DEF CountReady
<1>3. /\ readyCtr \in [Directory -> Nat]
      /\ dirIt \in [Directory -> Round]
      /\ down \in [Agent -> Seq(ToAgent)]
  BY DEF TypeOK
<1>4. down' \in [Agent -> Seq(ToAgent)]
  BY <1>1, <1>2, <1>3, ToAgentsType
<1> HIDE DEF all
<1>5. readyCtr' \in [Directory -> Nat] /\ dirIt' \in [Directory -> Round]
  BY <1>2, <1>3, RoundBatchType
<1> QED BY <1>4, <1>5

LEMMA CountSyncType ==
  ASSUME TypeOK, NEW d \in Directory, NEW n \in Nat, NEW k \in Round,
         NEW b \in Batch, CountSync(d, n, k, b)
  PROVE  /\ syncCtr' \in [Directory -> [Batch -> [Round -> Nat]]]
         /\ dormantSum' \in [Directory -> [Batch -> [Round -> Nat]]]
         /\ down' \in [Agent -> Seq(ToAgent)]
         /\ dirBatch' \in [Directory -> Batch]
         /\ dirIt' \in [Directory -> Round]
         /\ agentsIdle' \in [Directory -> BOOLEAN]
         /\ fault' \in Fault
<1> DEFINE ctr == [syncCtr[d] EXCEPT ![b][k] = @ + 1]
           sum == [dormantSum[d] EXCEPT ![b][k] = @ + n]
           act == sum[dirBatch[d]][dirIt[d]]
<1>1. ctr \in [Batch -> [Round -> Nat]] /\ sum \in [Batch -> [Round -> Nat]]
  <2>1. /\ syncCtr[d] \in [Batch -> [Round -> Nat]]
        /\ dormantSum[d] \in [Batch -> [Round -> Nat]]
    BY DEF TypeOK
  <2> QED BY <2>1
<1>2. act \in Nat /\ Msg("SYNC", act) \in ToAgent
  BY <1>1 DEF TypeOK, Msg, ToAgent
<1>3. /\ syncCtr' \in [Directory -> [Batch -> [Round -> Nat]]]
      /\ dormantSum' \in [Directory -> [Batch -> [Round -> Nat]]]
  BY <1>1 DEF CountSync, TypeOK
<1>4. fault' \in Fault
  BY DEF CountSync, TypeOK, Fault
<1>5. \/ UNCHANGED <<down, dirBatch, dirIt, agentsIdle>>
      \/ /\ dirIt[d] <= MaxIt /\ (act = 0 => dirBatch[d] < MaxBatch)
         /\ down' = ToAgents(d, Msg("SYNC", act))
         /\ dirBatch' = [dirBatch EXCEPT ![d] = IF act = 0 THEN @ + 1 ELSE @]
         /\ dirIt' = [dirIt EXCEPT ![d] = @ + 1]
         /\ agentsIdle' = [agentsIdle EXCEPT ![d] = TRUE]
  BY DEF CountSync
<1> HIDE DEF act
<1>6. /\ down \in [Agent -> Seq(ToAgent)]
      /\ dirBatch \in [Directory -> 0 .. MaxBatch]
      /\ dirIt \in [Directory -> 0 .. MaxIt + 1]
      /\ agentsIdle \in [Directory -> BOOLEAN]
  BY DEF TypeOK, Batch, Round
<1>7. down' \in [Agent -> Seq(ToAgent)]
  BY <1>2, <1>5, <1>6, ToAgentsType
<1>8. agentsIdle' \in [Directory -> BOOLEAN]
  BY <1>5, <1>6
<1>9. dirBatch' \in [Directory -> 0 .. MaxBatch]
  BY SMTT(30), <1>2, <1>5, <1>6, BoundAssumption
<1>10. dirIt' \in [Directory -> 0 .. MaxIt + 1]
  <2>1. CASE UNCHANGED dirIt
    BY <2>1, <1>6
  <2>2. CASE dirIt[d] <= MaxIt /\ dirIt' = [dirIt EXCEPT ![d] = @ + 1]
    <3>1. dirIt[d] + 1 \in 0 .. MaxIt + 1
      BY <2>2, <1>6, BoundAssumption
    <3> QED BY <3>1, <2>2, <1>6
  <2> QED BY <2>1, <2>2, <1>5
<1> QED BY <1>3, <1>4, <1>7, <1>8, <1>9, <1>10 DEF Batch, Round

LEMMA OfferUpdateType ==
  ASSUME TypeOK, NEW d \in Directory, NEW b \in Nat,
         NEW links \in [Directory -> [Directory -> Seq(Linked)]],
         OfferUpdate(d, b, links)
  PROVE  /\ down' \in [Agent -> Seq(ToAgent)]
         /\ link' \in [Directory -> [Directory -> Seq(Linked)]]
         /\ agentsIdle' \in [Directory -> BOOLEAN]
         /\ fault' \in Fault
<1>1. Msg("HAVE_UPDATE", b) \in ToAgent
  BY DEF Msg, ToAgent
<1>2. LinkMsg("HAVE_UPDATE", b, 0, 0) \in Linked
  BY RoundBatchType DEF LinkMsg, Linked
<1>3. down' \in [Agent -> Seq(ToAgent)]
  BY <1>1, ToAgentsType DEF OfferUpdate, TypeOK
<1>4. link' \in [Directory -> [Directory -> Seq(Linked)]]
  BY <1>2, ToPeersType DEF OfferUpdate
<1>5. agentsIdle' \in [Directory -> BOOLEAN]
  BY ZenonT(30) DEF OfferUpdate, TypeOK
<1>6. fault' \in Fault
  BY DEF OfferUpdate, TypeOK, Fault
<1> QED BY <1>3, <1>4, <1>5, <1>6

LEMMA FromAgentType ==
  ASSUME TypeOK, NEW a \in Agent, NEW t, FromAgent(a, t)
  PROVE  /\ Head(up[a]) \in ToDirectory
         /\ up' \in [Agent -> Seq(ToDirectory)]
         /\ Home[a] \in Directory
BY QueueType, SystemAssumption DEF FromAgent, AgentSends, TypeOK

LEMMA FromDirectoryType ==
  ASSUME TypeOK, NEW d \in Directory, NEW e \in Directory, NEW t, LinkSends(e, d, t)
  PROVE  /\ Head(link[e][d]) \in Linked
         /\ Taken(d, e) \in [Directory -> [Directory -> Seq(Linked)]]
BY QueueType DEF LinkSends, Taken, TypeOK

-----------------------------------------------------------------------------
(* Every agent's handler keeps the types.                                  *)

LEMMA ThrowType == ASSUME TypeOK, NEW what \in Fault, Throw(what) PROVE TypeOK'
BY DEF TypeOK, Throw, agentVars, dirVars, netVars, envVars

LEMMA TakeType ==
  ASSUME TypeOK, NEW a \in Agent, down[a] # <<>>, Take(a)
  PROVE  down' \in [Agent -> Seq(ToAgent)]
BY QueueType DEF Take, TypeOK

LEMMA SendOutEdgesType ==
  ASSUME TypeOK, NEW a \in Agent, SendOutEdges(a)
  PROVE  /\ peer' \in [Agent -> [Agent -> Seq(ToPeer)]]
         /\ acks' \in [Agent -> Int]
         /\ up' \in [Agent -> Seq(ToDirectory)]
         /\ ready' \in [Agent -> BOOLEAN]
BY SendBlocksType DEF SendOutEdges

LEMMA RecvDoStartType == ASSUME TypeOK, NEW a \in Agent, RecvDoStart(a) PROVE TypeOK'
<1>1. CASE state[a] \notin {"NO_PROCESS", "IDLE"}
  BY <1>1, ThrowType DEF RecvDoStart, Fault
<1>2. CASE state[a] = "NO_PROCESS"
  <2>1. /\ down[a] # <<>> /\ Take(a) /\ SendOutEdges(a)
        /\ state' = [state EXCEPT ![a] = "LEAVING_NO_PROCESS"]
        /\ UNCHANGED <<it, batch, needed, dormant, pending, asked,
                       dirVars, link, command, envVars, fault>>
    BY <1>2 DEF RecvDoStart, NextIs
  <2>2. down' \in [Agent -> Seq(ToAgent)]
    BY <2>1, TakeType
  <2>3. state' \in [Agent -> AgentState]
    BY <2>1 DEF TypeOK, AgentState
  <2> QED BY <2>1, <2>2, <2>3, SendOutEdgesType DEF TypeOK, dirVars, envVars
<1>3. CASE state[a] = "IDLE"
  <2>1. /\ down[a] # <<>> /\ Take(a) /\ StartLeavingIdle(a)
        /\ UNCHANGED <<state, acks, ready, peer, it, batch, needed, dormant,
                       pending, dirVars, link, command, envVars, fault>>
    BY <1>3 DEF RecvDoStart, NextIs
  <2>2. down' \in [Agent -> Seq(ToAgent)]
    BY <2>1, TakeType
  <2> QED BY <2>1, <2>2, StartLeavingIdleType DEF TypeOK, dirVars, envVars
<1> QED BY <1>1, <1>2, <1>3

LEMMA RecvDoUpdateType == ASSUME TypeOK, NEW a \in Agent, RecvDoUpdate(a) PROVE TypeOK'
<1>1. CASE state[a] # "NO_PROCESS"
  BY <1>1, ThrowType DEF RecvDoUpdate, Fault
<1>2. CASE state[a] = "NO_PROCESS"
  <2>1. /\ down[a] # <<>> /\ Take(a) /\ SendOutEdges(a)
        /\ UNCHANGED <<state, it, batch, needed, dormant, pending, asked,
                       dirVars, link, command, envVars, fault>>
    BY <1>2 DEF RecvDoUpdate, NextIs
  <2>2. down' \in [Agent -> Seq(ToAgent)]
    BY <2>1, TakeType
  <2> QED BY <2>1, <2>2, SendOutEdgesType DEF TypeOK, dirVars, envVars
<1> QED BY <1>1, <1>2

LEMMA RecvHaveUpdateType ==
  ASSUME TypeOK, NEW a \in Agent, RecvHaveUpdate(a) PROVE TypeOK'
<1>1. CASE Head(down[a]).arg # batch[a]
  BY <1>1, ThrowType DEF RecvHaveUpdate, Fault
<1>2. CASE Head(down[a]).arg = batch[a]
  <2>1. /\ down[a] # <<>> /\ Take(a) /\ FinalizeGraphBatch(a)
        /\ state' = [state EXCEPT ![a] = "FINALIZE_GRAPH_BATCH"]
        /\ UNCHANGED <<it, batch, needed, dormant, asked,
                       dirVars, link, command, envVars, fault>>
    BY <1>2 DEF RecvHaveUpdate, NextIs
  <2>2. PICK dests \in SUBSET (Agent \ {a}) : SendBlocks(a, dests, 1)
    BY <2>1 DEF FinalizeGraphBatch
  <2>3. down' \in [Agent -> Seq(ToAgent)]
    BY <2>1, TakeType
  <2>4. state' \in [Agent -> AgentState]
    BY <2>1 DEF TypeOK, AgentState
  <2>5. pending' \in [Agent -> BOOLEAN]
    BY <2>1 DEF TypeOK, FinalizeGraphBatch
  <2> QED BY <2>1, <2>2, <2>3, <2>4, <2>5, SendBlocksType DEF TypeOK, dirVars, envVars
<1> QED BY <1>1, <1>2

LEMMA PeerType ==
  ASSUME TypeOK, NEW a \in Agent, NEW b \in Agent, NEW t, PeerSends(b, a, t)
  PROVE  /\ Head(peer[b][a]) \in ToPeer
         /\ [peer EXCEPT ![b][a] = Tail(@)] \in [Agent -> [Agent -> Seq(ToPeer)]]
BY QueueType DEF PeerSends, TypeOK

LEMMA RecvSendUpdatesType ==
  ASSUME TypeOK, NEW a \in Agent, NEW b \in Agent, RecvSendUpdates(a, b) PROVE TypeOK'
<1> DEFINE moves == Head(peer[b][a]).arg
           net   == [peer EXCEPT ![b][a] = Tail(@)]
<1>1. PICK back :
        /\ back \in {<<Msg("SEND_UPDATES", 0), Msg("ACK_UPDATES", 0)>>,
                    <<Msg("ACK_UPDATES", 0)>>}
        /\ peer' = [net EXCEPT ![a][b] = @ \o back]
  BY DEF RecvSendUpdates
<1>2. back \in Seq(ToPeer)
  <2>1. Msg("SEND_UPDATES", 0) \in ToPeer /\ Msg("ACK_UPDATES", 0) \in ToPeer
    BY RoundBatchType DEF Msg, ToPeer
  <2> QED BY <1>1, <2>1, ShortQueueType
<1>3. PeerSends(b, a, "SEND_UPDATES")
  BY DEF RecvSendUpdates
<1>4. net \in [Agent -> [Agent -> Seq(ToPeer)]]
  BY <1>3, PeerType
<1>5. moves \in Int
  BY <1>3, PeerType, RoundBatchType DEF ToPeer
<1>6. acks' = [acks EXCEPT ![a] = @ + moves]
  BY DEF RecvSendUpdates
<1> HIDE DEF moves, net
<1>7. peer' \in [Agent -> [Agent -> Seq(ToPeer)]]
  BY <1>1, <1>2, <1>4
<1>8. acks' \in [Agent -> Int]
  BY SMTT(30), <1>5, <1>6 DEF TypeOK
<1>9. UNCHANGED <<state, it, batch, needed, dormant, pending, asked, ready,
                  up, down, dirVars, link, command, envVars, fault>>
  BY DEF RecvSendUpdates
<1> QED BY <1>7, <1>8, <1>9 DEF TypeOK, dirVars, envVars

LEMMA RecvAckUpdatesType ==
  ASSUME TypeOK, NEW a \in Agent, NEW b \in Agent, RecvAckUpdates(a, b) PROVE TypeOK'
<1>1. /\ peer' \in [Agent -> [Agent -> Seq(ToPeer)]]
      /\ UNCHANGED <<state, it, batch, needed, dormant, pending, asked,
                     down, dirVars, link, command, envVars, fault>>
  BY PeerType DEF RecvAckUpdates
<1>2. acks' \in [Agent -> Int]
  BY SMTT(30) DEF RecvAckUpdates, TypeOK
<1>3. DoneWaitingReadyNvNe(a) \/ UNCHANGED <<up, ready>>
  BY DEF RecvAckUpdates
<1> QED BY <1>1, <1>2, <1>3, ReadyType DEF TypeOK, dirVars, envVars

LEMMA StreamedEdgeType ==
  ASSUME TypeOK, NEW a \in Agent, RecvUpdateEdge(a) \/ RecvUpdateEdges(a)
  PROVE  TypeOK'
<1>1. edges < MaxEdges /\ edges' = edges + 1
  BY DEF RecvUpdateEdge, RecvUpdateEdges
<1>2. edges' \in 0 .. MaxEdges
  BY <1>1, BoundAssumption DEF TypeOK
<1>3. pending' \in [Agent -> BOOLEAN]
  BY DEF RecvUpdateEdge, RecvUpdateEdges, TypeOK
<1>4. StartLeavingIdle(a) \/ UNCHANGED <<asked, up>>
  BY DEF RecvUpdateEdge, RecvUpdateEdges, netVars
<1>5. asked' \in [Agent -> BOOLEAN] /\ up' \in [Agent -> Seq(ToDirectory)]
  BY <1>4, StartLeavingIdleType DEF TypeOK
<1>6. UNCHANGED <<state, it, batch, needed, dormant, acks, ready,
                  down, peer, dirVars, link, command, commands, fault>>
  BY DEF RecvUpdateEdge, RecvUpdateEdges, netVars
<1> QED BY <1>2, <1>3, <1>5, <1>6 DEF TypeOK, dirVars

LEMMA PrePollType == ASSUME TypeOK, NEW a \in Agent, PrePoll(a) PROVE TypeOK'
<1>1. ProcessVertices(a, needed[a], peer)
  BY DEF PrePoll
<1>2. UNCHANGED <<batch, acks, pending, asked, ready,
                  dirVars, down, link, command, envVars, fault>>
  BY DEF PrePoll
<1>3. /\ needed[a] \in [Round -> Int]
      /\ peer \in [Agent -> [Agent -> Seq(ToPeer)]]
  BY DEF TypeOK
<1> QED BY <1>1, <1>2, <1>3, ProcessVerticesType DEF TypeOK, dirVars, envVars

LEMMA RecvNvType == ASSUME TypeOK, NEW a \in Agent, RecvNv(a) PROVE TypeOK'
<1>1. down' \in [Agent -> Seq(ToAgent)]
  BY TakeType DEF RecvNv, NextIs
<1>2. \/ JoinBarrier(a, dormant[a])
      \/ state' = [state EXCEPT ![a] = "PROCESS"] /\ UNCHANGED up
  BY DEF RecvNv
<1>3. dormant[a] \in {0, 1}
  BY DEF TypeOK
<1>4. state' \in [Agent -> AgentState] /\ up' \in [Agent -> Seq(ToDirectory)]
  BY <1>2, <1>3, JoinBarrierType DEF TypeOK, AgentState
<1>5. ready' \in [Agent -> BOOLEAN]
  BY DEF RecvNv, TypeOK
<1>6. UNCHANGED <<it, batch, needed, dormant, acks, pending, asked,
                  dirVars, link, peer, command, envVars, fault>>
  BY DEF RecvNv
<1> QED BY <1>1, <1>4, <1>5, <1>6 DEF TypeOK, dirVars, envVars

LEMMA RecvOutVnType ==
  ASSUME TypeOK, NEW a \in Agent, NEW b \in Agent, RecvOutVn(a, b) PROVE TypeOK'
<1> DEFINE need == [needed[a] EXCEPT ![Head(peer[b][a]).arg] = @ - 1]
           net  == [peer EXCEPT ![b][a] = Tail(@)]
<1>1. PeerSends(b, a, "OUT_VN")
  BY DEF RecvOutVn
<1>2. net \in [Agent -> [Agent -> Seq(ToPeer)]]
  BY <1>1, PeerType
<1>3. need \in [Round -> Int]
  <2>1. Head(peer[b][a]).arg \in Round
    BY <1>1, PeerType DEF ToPeer
  <2>2. needed[a] \in [Round -> Int]
    BY SMTT(30) DEF TypeOK
  <2> QED BY <2>1, <2>2
<1>4. UNCHANGED <<batch, acks, pending, asked, ready,
                  down, dirVars, link, command, envVars, fault>>
  BY ZenonT(60) DEF RecvOutVn
<1>5. \/ /\ JoinBarrier(a, dormant[a])
         /\ needed' = [needed EXCEPT ![a] = need]
         /\ peer' = net
         /\ UNCHANGED <<it, dormant>>
      \/ ProcessVertices(a, need, net)
      \/ /\ needed' = IF state[a] = "IDLE" THEN needed
                                           ELSE [needed EXCEPT ![a] = need]
         /\ peer' = net
         /\ UNCHANGED <<state, it, dormant, up>>
  BY DEF RecvOutVn
<1> HIDE DEF need, net
<1> USE <1>2, <1>3, <1>4
<1>6. CASE /\ JoinBarrier(a, dormant[a])
           /\ needed' = [needed EXCEPT ![a] = need]
           /\ peer' = net
           /\ UNCHANGED <<it, dormant>>
  <2>1. dormant[a] \in {0, 1}
    BY DEF TypeOK
  <2>2. needed' \in [Agent -> [Round -> Int]]
    BY <1>6 DEF TypeOK
  <2>3. state' \in [Agent -> AgentState] /\ up' \in [Agent -> Seq(ToDirectory)]
    BY <1>6, <2>1, JoinBarrierType
  <2>4. peer' \in [Agent -> [Agent -> Seq(ToPeer)]] /\ UNCHANGED <<it, dormant>>
    BY <1>6
  <2> QED BY <2>2, <2>3, <2>4 DEF TypeOK, dirVars, envVars
<1>7. CASE ProcessVertices(a, need, net)
  BY <1>7, ProcessVerticesType DEF TypeOK, dirVars, envVars
<1>8. CASE /\ needed' = IF state[a] = "IDLE" THEN needed
                                             ELSE [needed EXCEPT ![a] = need]
           /\ peer' = net
           /\ UNCHANGED <<state, it, dormant, up>>
  <2>1. needed' \in [Agent -> [Round -> Int]]
    BY <1>8 DEF TypeOK
  <2> QED BY <1>8, <2>1 DEF TypeOK, dirVars, envVars
<1> QED BY <1>5, <1>6, <1>7, <1>8

LEMMA EndBatchType ==
  ASSUME TypeOK, NEW a \in Agent, EndBatch(a)
  PROVE  /\ state' \in [Agent -> AgentState]
         /\ batch' \in [Agent -> Batch]
         /\ it' \in [Agent -> -1 .. MaxIt]
         /\ needed' \in [Agent -> [Round -> Int]]
         /\ dormant' \in [Agent -> {0, 1}]
         /\ asked' \in [Agent -> BOOLEAN]
         /\ up' \in [Agent -> Seq(ToDirectory)]
         /\ peer' \in [Agent -> [Agent -> Seq(ToPeer)]]
<1>1. batch[a] \in Nat /\ batch[a] + 1 \in Batch
  BY BoundAssumption DEF EndBatch, TypeOK, Batch
<1>2. Msg("HAVE_UPDATE", batch[a] + 1) \in ToDirectory
  BY <1>1 DEF Msg, ToDirectory
<1>3. up' \in [Agent -> Seq(ToDirectory)]
  BY <1>2, PushedType DEF EndBatch, TypeOK
<1>4. state' \in [Agent -> AgentState]
  BY DEF EndBatch, TypeOK, AgentState
<1>5. batch' \in [Agent -> Batch]
  BY <1>1 DEF EndBatch, TypeOK
<1>6. it' \in [Agent -> -1 .. MaxIt]
  BY BoundAssumption DEF EndBatch, TypeOK
<1>7. [k \in Round |-> 0] \in [Round -> Int]
  OBVIOUS
<1>8. needed' \in [Agent -> [Round -> Int]]
  BY <1>7 DEF EndBatch, TypeOK
<1>9. dormant' \in [Agent -> {0, 1}]
  BY DEF EndBatch, TypeOK
<1>10. asked' \in [Agent -> BOOLEAN]
  BY DEF EndBatch, TypeOK
<1>11. peer' \in [Agent -> [Agent -> Seq(ToPeer)]]
  BY DEF EndBatch, TypeOK
<1> QED BY <1>3, <1>4, <1>5, <1>6, <1>8, <1>9, <1>10, <1>11

LEMMA NextSuperstepType ==
  ASSUME TypeOK, NEW a \in Agent, NextSuperstep(a)
  PROVE  /\ state' \in [Agent -> AgentState]
         /\ batch' \in [Agent -> Batch]
         /\ it' \in [Agent -> -1 .. MaxIt]
         /\ needed' \in [Agent -> [Round -> Int]]
         /\ dormant' \in [Agent -> {0, 1}]
         /\ asked' \in [Agent -> BOOLEAN]
         /\ up' \in [Agent -> Seq(ToDirectory)]
         /\ peer' \in [Agent -> [Agent -> Seq(ToPeer)]]
<1>1. UNCHANGED <<batch, asked>>
  BY DEF NextSuperstep
<1>2. CASE needed[a][it[a] + 1] > 0
  BY <1>1, <1>2 DEF NextSuperstep, TypeOK, AgentState
<1>3. CASE ProcessVertices(a, needed[a], peer)
  <2>1. /\ needed[a] \in [Round -> Int]
        /\ peer \in [Agent -> [Agent -> Seq(ToPeer)]]
    BY DEF TypeOK
  <2> QED BY <1>1, <1>3, <2>1, ProcessVerticesType DEF TypeOK
<1> QED BY <1>2, <1>3 DEF NextSuperstep

LEMMA RecvSyncType == ASSUME TypeOK, NEW a \in Agent, RecvSync(a) PROVE TypeOK'
<1>1. CASE state[a] # "WAIT_FOR_SYNC"
  BY <1>1, ThrowType DEF RecvSync, Fault
<1>2. CASE state[a] = "WAIT_FOR_SYNC"
  <2>1. /\ EndBatch(a) \/ NextSuperstep(a)
        /\ UNCHANGED <<acks, pending, ready, dirVars, link, command, envVars, fault>>
    BY <1>2 DEF RecvSync
  <2>2. down' \in [Agent -> Seq(ToAgent)]
    BY <1>2, TakeType DEF RecvSync, NextIs
  <2> QED BY <2>1, <2>2, EndBatchType, NextSuperstepType DEF TypeOK, dirVars, envVars
<1> QED BY <1>1, <1>2

-----------------------------------------------------------------------------
(* Every directory's handler keeps the types.                              *)

LEMMA DirReadyNvNeType ==
  ASSUME TypeOK, NEW a \in Agent, DirReadyNvNe(a) PROVE TypeOK'
<1>1. FromAgent(a, "READY_NV_NE") /\ CountReady(Home[a])
  BY DEF DirReadyNvNe
<1>2. Home[a] \in Directory /\ up' \in [Agent -> Seq(ToDirectory)]
  BY <1>1, FromAgentType
<1>3. LinkMsg("READY_NV_NE_INT", 0, 0, 0) \in Linked
  BY RoundBatchType DEF LinkMsg, Linked
<1>4. link \in [Directory -> [Directory -> Seq(Linked)]]
  BY DEF TypeOK
<1>5. link' \in [Directory -> [Directory -> Seq(Linked)]]
  BY <1>2, <1>3, <1>4, ToPeersType DEF DirReadyNvNe
<1>6. UNCHANGED <<agentVars, peer, command, envVars>>
  BY <1>1 DEF FromAgent
<1>7. UNCHANGED <<dirBatch, syncCtr, dormantSum, agentsIdle, fault>>
  BY <1>1 DEF CountReady
<1> QED BY <1>1, <1>2, <1>5, <1>6, <1>7, CountReadyType DEF TypeOK, agentVars, envVars

LEMMA DirReadySyncType ==
  ASSUME TypeOK, NEW a \in Agent, DirReadySync(a) PROVE TypeOK'
<1> DEFINE d == Home[a]
           n == Head(up[a]).arg
<1>1. FromAgent(a, "READY_SYNC") /\ CountSync(d, n, dirIt[d], dirBatch[d])
  BY DEF DirReadySync
<1>2. d \in Directory /\ n \in Nat /\ up' \in [Agent -> Seq(ToDirectory)]
  BY <1>1, FromAgentType DEF ToDirectory
<1>3. link' = ToPeers(link, d, LinkMsg("READY_SYNC_INT", n, dirIt[d], dirBatch[d]))
  BY DEF DirReadySync
<1> HIDE DEF d, n
<1>4. /\ dirIt[d] \in Round /\ dirBatch[d] \in Batch
      /\ link \in [Directory -> [Directory -> Seq(Linked)]]
  BY <1>2 DEF TypeOK
<1>5. LinkMsg("READY_SYNC_INT", n, dirIt[d], dirBatch[d]) \in Linked
  BY <1>2, <1>4 DEF LinkMsg, Linked
<1>6. link' \in [Directory -> [Directory -> Seq(Linked)]]
  BY <1>2, <1>3, <1>4, <1>5, ToPeersType
<1>7. UNCHANGED <<agentVars, peer, command, envVars>>
  BY <1>1 DEF FromAgent
<1>8. UNCHANGED readyCtr
  BY <1>1 DEF CountSync
<1> QED BY <1>1, <1>2, <1>4, <1>6, <1>7, <1>8, CountSyncType DEF TypeOK, agentVars, envVars

LEMMA DirHaveUpdateType ==
  ASSUME TypeOK, NEW a \in Agent, DirHaveUpdate(a) PROVE TypeOK'
<1> DEFINE n == Head(up[a]).arg
<1>1. FromAgent(a, "HAVE_UPDATE") /\ OfferUpdate(Home[a], n, link)
  BY DEF DirHaveUpdate
<1>2. Home[a] \in Directory /\ n \in Nat /\ up' \in [Agent -> Seq(ToDirectory)]
  BY <1>1, FromAgentType DEF ToDirectory
<1>3. link \in [Directory -> [Directory -> Seq(Linked)]]
  BY DEF TypeOK
<1>4. UNCHANGED <<agentVars, peer, command, envVars>>
  BY <1>1 DEF FromAgent
<1>5. UNCHANGED <<readyCtr, dirIt, dirBatch, syncCtr, dormantSum>>
  BY <1>1 DEF OfferUpdate
<1> QED BY <1>1, <1>2, <1>3, <1>4, <1>5, OfferUpdateType DEF TypeOK, agentVars, envVars

LEMMA DirReadyNvNeIntType ==
  ASSUME TypeOK, NEW d \in Directory, NEW e \in Directory, DirReadyNvNeInt(d, e)
  PROVE  TypeOK'
<1>1. FromDirectory(d, e, "READY_NV_NE_INT") /\ CountReady(d) /\ link' = Taken(d, e)
  BY DEF DirReadyNvNeInt
<1>2. link' \in [Directory -> [Directory -> Seq(Linked)]]
  BY <1>1, FromDirectoryType DEF FromDirectory
<1>3. UNCHANGED <<agentVars, up, peer, command, envVars>>
  BY <1>1 DEF FromDirectory
<1>4. UNCHANGED <<dirBatch, syncCtr, dormantSum, agentsIdle, fault>>
  BY <1>1 DEF CountReady
<1> QED BY <1>1, <1>2, <1>3, <1>4, CountReadyType DEF TypeOK, agentVars, envVars

LEMMA DirReadySyncIntType ==
  ASSUME TypeOK, NEW d \in Directory, NEW e \in Directory, DirReadySyncInt(d, e)
  PROVE  TypeOK'
<1> DEFINE m == Head(link[e][d])
<1>1. /\ FromDirectory(d, e, "READY_SYNC_INT")
      /\ CountSync(d, m.arg, m.it, m.batch)
      /\ link' = Taken(d, e)
  BY DEF DirReadySyncInt
<1>2. m \in Linked /\ link' \in [Directory -> [Directory -> Seq(Linked)]]
  BY <1>1, FromDirectoryType DEF FromDirectory
<1>3. m.arg \in Nat /\ m.it \in Round /\ m.batch \in Batch
  BY SMTT(30), <1>2 DEF Linked
<1>4. UNCHANGED <<agentVars, up, peer, command, envVars>>
  BY <1>1 DEF FromDirectory
<1>5. UNCHANGED readyCtr
  BY <1>1 DEF CountSync
<1> QED BY <1>1, <1>2, <1>3, <1>4, <1>5, CountSyncType DEF TypeOK, agentVars, envVars

LEMMA DirHaveUpdateIntType ==
  ASSUME TypeOK, NEW d \in Directory, NEW e \in Directory, DirHaveUpdateInt(d, e)
  PROVE  TypeOK'
<1> DEFINE n == Head(link[e][d]).arg
<1>1. FromDirectory(d, e, "HAVE_UPDATE") /\ OfferUpdate(d, n, Taken(d, e))
  BY DEF DirHaveUpdateInt
<1>2. n \in Nat /\ Taken(d, e) \in [Directory -> [Directory -> Seq(Linked)]]
  BY <1>1, FromDirectoryType DEF FromDirectory, Linked
<1>3. UNCHANGED <<agentVars, up, peer, command, envVars>>
  BY <1>1 DEF FromDirectory
<1>4. UNCHANGED <<readyCtr, dirIt, dirBatch, syncCtr, dormantSum>>
  BY <1>1 DEF OfferUpdate
<1> QED BY <1>1, <1>2, <1>3, <1>4, OfferUpdateType DEF TypeOK, agentVars, envVars

LEMMA DirCommandType ==
  ASSUME TypeOK, NEW d \in Directory, DirCommand(d) PROVE TypeOK'
<1>1. Msg("DO_START", 0) \in ToAgent /\ Msg("DO_UPDATE", 0) \in ToAgent
  BY DEF Msg, ToAgent
<1>2. \/ down' = ToAgents(d, Msg("DO_START", 0))
      \/ down' = ToAgents(d, Msg("DO_UPDATE", 0))
  BY DEF DirCommand
<1>3. down' \in [Agent -> Seq(ToAgent)]
  BY <1>1, <1>2, ToAgentsType DEF TypeOK
<1>4. command' \in [Directory -> Seq(Commands)]
  BY QueueType DEF DirCommand, TypeOK
<1>5. UNCHANGED <<agentVars, dirVars, up, link, peer, envVars, fault>>
  BY DEF DirCommand
<1> QED BY <1>3, <1>4, <1>5 DEF TypeOK, agentVars, dirVars, envVars

LEMMA ClientCommandType ==
  ASSUME TypeOK, NEW c \in Commands, ClientCommand(c) PROVE TypeOK'
<1>1. commands' \in 0 .. MaxCommands
  BY BoundAssumption DEF ClientCommand, TypeOK
<1>2. command' \in [Directory -> Seq(Commands)]
  BY QueueType DEF ClientCommand, TypeOK
<1>3. UNCHANGED <<agentVars, dirVars, up, down, link, peer, edges, fault>>
  BY DEF ClientCommand
<1> QED BY <1>1, <1>2, <1>3 DEF TypeOK, agentVars, dirVars

-----------------------------------------------------------------------------
(* Counters, batches, supersteps and the messages in every connection stay *)
(* in the ranges the code packs and indexes with: in particular no agent   *)
(* sends a batch or a superstep before its first (start_leaving_idle,      *)
(* agent.cpp:1205, process_vertices, agentlbsp.cpp:261), and every message *)
(* has a handler at its receiver.                                          *)
THEOREM TypeCorrect == Spec => []TypeOK
<1>1. Init => TypeOK
  <2>1. [k \in Round |-> 0] \in [Round -> Int]
    OBVIOUS
  <2>2. [b \in Batch |-> [k \in Round |-> 0]] \in [Batch -> [Round -> Nat]]
    OBVIOUS
  <2> QED
    BY <2>1, <2>2, RoundBatchType, BoundAssumption DEF Init, TypeOK, AgentState, Fault
<1>2. TypeOK /\ [Next]_vars => TypeOK'
  <2> SUFFICES ASSUME TypeOK, [Next]_vars PROVE TypeOK'
    OBVIOUS
  <2>1. ASSUME NEW a \in Agent, FromDirectoryStep(a) PROVE TypeOK'
    BY <2>1, RecvDoStartType, RecvDoUpdateType, RecvHaveUpdateType, RecvNvType,
       RecvSyncType DEF FromDirectoryStep
  <2>2. ASSUME NEW a \in Agent, NEW b \in Agent, FromPeerStep(a, b) PROVE TypeOK'
    BY <2>2, RecvSendUpdatesType, RecvAckUpdatesType, RecvOutVnType DEF FromPeerStep
  <2>3. ASSUME NEW a \in Agent, AgentStep(a) PROVE TypeOK'
    BY <2>1, <2>2, <2>3, PrePollType DEF AgentStep
  <2>4. ASSUME NEW a \in Agent, DirAgentStep(a) PROVE TypeOK'
    BY <2>4, DirReadyNvNeType, DirReadySyncType, DirHaveUpdateType DEF DirAgentStep
  <2>5. ASSUME NEW d \in Directory, NEW e \in Directory, DirPeerStep(d, e)
        PROVE  TypeOK'
    BY <2>5, DirReadyNvNeIntType, DirReadySyncIntType, DirHaveUpdateIntType
       DEF DirPeerStep
  <2>6. CASE UNCHANGED vars
    BY <2>6 DEF TypeOK, vars, agentVars, dirVars, netVars, envVars
  <2> QED
    BY <2>3, <2>4, <2>5, <2>6, DirCommandType, StreamedEdgeType, ClientCommandType
       DEF Next, Rest
<1> QED BY <1>1, <1>2, PTL DEF Spec

-----------------------------------------------------------------------------
(* The six phases.                                                         *)

(* One directory, called D from here on.                                   *)
D == CHOOSE d \in Directory : TRUE

SingleDirectory == \E d \in Directory : Directory = {d}

(* No UPDATE_EDGE can wake an agent between a START and its DO_START.      *)
CommandsMeetNoEdge ==
  "UPDATE_EDGE" \notin EdgeKinds \/ MaxEdges = 0 \/ MaxCommands <= 1

Setting == SingleDirectory /\ ~CrossEdges /\ CommandsMeetNoEdge

-----------------------------------------------------------------------------
(* The messages.                                                           *)

DoStart == Msg("DO_START", 0)
DoUpdate == Msg("DO_UPDATE", 0)
DoCommand(c) == IF c = "START" THEN DoStart ELSE DoUpdate
Wake == Msg("HAVE_UPDATE", dirBatch[D])
Nv == Msg("NV", 0)
ReadyNvNe == Msg("READY_NV_NE", 0)
Block == Msg("SEND_UPDATES", 0)
Ack == Msg("ACK_UPDATES", 0)
Note == Msg("OUT_VN", dirIt[D] + 1)

-----------------------------------------------------------------------------
(* The counters of the directory and of the agents, tied to what was sent. *)

(* The agents whose READY_NV_NE the directory has counted.                 *)
Counted == {a \in Agent : ready[a] /\ up[a] = <<>>}

ReadyCounted == readyCtr[D] = Cardinality(Counted) /\ readyCtr[D] < NumAgents

(* The agents whose READY_SYNC it has counted in this superstep.           *)
Synced == {a \in Agent : state[a] = "WAIT_FOR_SYNC" /\ up[a] = <<>> /\ down[a] = <<>>}

SyncCounted ==
  LET ctr == syncCtr[D][dirBatch[D]][dirIt[D]]
  IN  ctr = Cardinality(Synced) /\ ctr < NumAgents

(* No READY_SYNC was counted for a superstep after k of the batch.         *)
Unused(k) ==
  \A b \in Batch, j \in Round :
    b > dirBatch[D] \/ (b = dirBatch[D] /\ j > k) =>
      syncCtr[D][b][j] = 0 /\ dormantSum[D][b][j] = 0

(* The agents whose acknowledgement a still needs: the block is on its way *)
(* there, or the acknowledgement is on its way back.                       *)
Owed(a) == {b \in Agent : Has(peer[a][b], Block) \/ Has(peer[b][a], Ack)}

AcksCounted ==
  \A a, b \in Agent :
    /\ acks[a] = Cardinality(Owed(a))
    /\ peer[a][b] \in Seq({Block, Ack})
    /\ peer[a][a] = <<>>
    /\ Once(peer[a][b], Block) /\ Once(peer[a][b], Ack)
    /\ ~(Has(peer[a][b], Block) /\ Has(peer[b][a], Ack))

NoBlocks == \A a, b \in Agent : acks[a] = 0 /\ peer[a][b] = <<>>

(* The agents whose notification for superstep k + 1 a has received, in    *)
(* superstep k, where the agents have run the supersteps i and the         *)
(* connections between them are p.                                         *)
HeardIn(k, i, p, a) == {b \in Agent \ {a} : i[b] = k /\ p[b][a] = <<>>}

(* Nothing but these notifications is on its way, and the counters n of    *)
(* the agents are made up of those that have arrived.                      *)
NotesIn(k, i, n, p) ==
  \A a, b \in Agent :
    /\ p[a][b] # <<>> => p[a][b] = <<Msg("OUT_VN", k + 1)>> /\ i[a] = k /\ a # b
    /\ \A r \in Round : n[a][r] =
         IF r # k + 1 THEN 0
         ELSE (IF i[a] = k THEN NumAgents - 1 ELSE 0) - Cardinality(HeardIn(k, i, p, a))

NotesCounted ==
  /\ \A a \in Agent : acks[a] = 0
  /\ NotesIn(dirIt[D], it, needed, peer)

-----------------------------------------------------------------------------
(* What an agent is doing.                                                 *)

Clean(a) == it[a] = -1 /\ \A k \in Round : needed[a][k] = 0

(* In the first batch.                                                     *)
First(a) == Clean(a) /\ batch[a] = 0 /\ dormant[a] = 0

Untouched(a) ==
  state[a] = "NO_PROCESS" /\ ~ready[a] /\ acks[a] = 0 /\ up[a] = <<>>

Loading(a, c) ==
  /\ state[a] = IF c = "START" THEN "LEAVING_NO_PROCESS" ELSE "NO_PROCESS"
  /\ down[a] = <<>>
  /\ \/ ~ready[a] /\ acks[a] > 0 /\ up[a] = <<>>
     \/ ready[a] /\ acks[a] = 0 /\ up[a] \in {<<>>, <<ReadyNvNe>>}

(* The last SYNC is on its way.                                            *)
Leaving(a) ==
  /\ state[a] = "WAIT_FOR_SYNC" /\ ~ready[a] /\ up[a] = <<>>
  /\ batch[a] = dirBatch[D] - 1
  /\ it[a] = dirIt[D] - 1 \/ (it[a] = -1 /\ dirIt[D] = 1)

Idle(a) ==
  /\ state[a] = "IDLE" /\ ~ready[a] /\ batch[a] = dirBatch[D] /\ Clean(a)
  /\ up[a] = <<>> \/ (up[a] = <<Wake>> /\ asked[a])

Updating(a) ==
  /\ state[a] = "FINALIZE_GRAPH_BATCH" /\ ready[a] /\ batch[a] = dirBatch[D] /\ Clean(a)
  /\ down[a] = <<>>
  /\ up[a] \in {<<>>, <<ReadyNvNe>>, <<Wake, ReadyNvNe>>}

(* NV is on its way.                                                       *)
Released(a) ==
  /\ state[a] \in {"LEAVING_NO_PROCESS", "FINALIZE_GRAPH_BATCH"} /\ ready[a]
  /\ it[a] = -1 /\ dirIt[D] = 0 /\ down[a] = <<Nv>> /\ up[a] = <<>>

Working(a) ==
  /\ state[a] = "PROCESS" /\ ~ready[a] /\ down[a] = <<>> /\ up[a] = <<>>
  /\ \/ it[a] = -1 /\ dirIt[D] = 0
     \/ it[a] = dirIt[D] /\ needed[a][dirIt[D] + 1] > 0

Waiting(a) ==
  /\ state[a] = "WAIT_FOR_SYNC" /\ ~ready[a] /\ down[a] = <<>>
  /\ it[a] = dirIt[D]
  /\ \A b \in Agent \ {a} : it[b] = dirIt[D] /\ peer[b][a] = <<>>
  /\ up[a] = <<>> \/ \E n \in {0, 1} : up[a] = <<Msg("READY_SYNC", n)>>

(* SYNC is on its way, and another superstep follows.                      *)
Continuing(a) ==
  /\ state[a] = "WAIT_FOR_SYNC" /\ ~ready[a] /\ up[a] = <<>>
  /\ it[a] = dirIt[D] - 1 /\ dirIt[D] > 0
  /\ \E n \in Nat \ {0} : down[a] = <<Msg("SYNC", n)>>

(* After UPDATE: no superstep, only the barrier.                           *)
Skipping(a) ==
  /\ First(a) /\ up[a] = <<>>
  /\ state[a] = "NO_PROCESS" /\ ready[a] /\ down[a] = <<Nv>>

Skipped(a) ==
  /\ First(a) /\ state[a] = "WAIT_FOR_SYNC" /\ ~ready[a] /\ down[a] = <<>>
  /\ up[a] \in {<<>>, <<Msg("READY_SYNC", 0)>>}

-----------------------------------------------------------------------------
(* What all of them are doing.                                             *)

Unloaded ==
  /\ dirBatch[D] = 0 /\ dirIt[D] = 0 /\ readyCtr[D] = 0 /\ Unused(-1)
  /\ command[D] = <<>> \/ (commands > 0 /\ \E c \in Commands : command[D] = <<c>>)
  /\ NoBlocks
  /\ \A a \in Agent : First(a) /\ Untouched(a) /\ down[a] = <<>>

LoadedBy(c) ==
  /\ dirBatch[D] = 0 /\ dirIt[D] = 0 /\ ReadyCounted /\ Unused(-1)
  /\ command[D] = <<>> /\ commands > 0
  /\ AcksCounted
  /\ \A a \in Agent : /\ First(a)
                      /\ (Untouched(a) /\ down[a] = <<DoCommand(c)>>) \/ Loading(a, c)

Loads == \E c \in {"START", "UPDATE"} : LoadedBy(c)

Settled ==
  /\ dirBatch[D] > 0 /\ dirIt[D] > 0 /\ readyCtr[D] = 0 /\ Unused(-1) /\ commands > 0
  /\ agentsIdle[D]
  /\ NoBlocks
  /\ \A a \in Agent : \/ Leaving(a) /\ down[a] = <<Msg("SYNC", 0)>>
                      \/ Idle(a) /\ down[a] \in {<<>>, <<DoStart>>}
  /\ \/ command[D] = <<>>
     \/ /\ command[D] = <<"START">> /\ commands > 1
        /\ \A a \in Agent : Idle(a) /\ down[a] = <<>> /\ up[a] = <<>>

Updates ==
  /\ dirBatch[D] > 0 /\ dirIt[D] > 0 /\ ReadyCounted /\ Unused(-1) /\ commands > 0
  /\ ~agentsIdle[D]
  /\ NoBlocks
  /\ \A a \in Agent : \/ Leaving(a) /\ down[a] = <<Msg("SYNC", 0), Wake>>
                      \/ Idle(a) /\ down[a] \in {<<Wake>>, <<DoStart, Wake>>}
                      \/ Updating(a)
  /\ command[D] = <<>>

Computes ==
  /\ readyCtr[D] = 0 /\ SyncCounted /\ Unused(dirIt[D]) /\ commands > 0
  /\ command[D] = <<>>
  /\ NotesCounted
  /\ \A a \in Agent : /\ batch[a] = dirBatch[D]
                      /\ Released(a) \/ Working(a) \/ Waiting(a) \/ Continuing(a)

Skips ==
  /\ dirBatch[D] = 0 /\ dirIt[D] = 0 /\ readyCtr[D] = 0 /\ Unused(0) /\ commands > 0
  /\ SyncCounted /\ dormantSum[D][0][0] = 0
  /\ command[D] = <<>>
  /\ NoBlocks
  /\ \A a \in Agent : Skipping(a) \/ Skipped(a)

LockInv ==
  /\ fault = "none" /\ link[D][D] = <<>>
  /\ Unloaded \/ Loads \/ Settled \/ Updates \/ Computes \/ Skips

-----------------------------------------------------------------------------
(* One directory, short queues, and sets of agents.                        *)

LEMMA Alone ==
  ASSUME Setting
  PROVE  /\ D \in Directory /\ \A d \in Directory : d = D
         /\ \A a \in Agent : Home[a] = D
BY SystemAssumption DEF Setting, SingleDirectory, D

LEMMA Published ==
  ASSUME Setting, NEW m
  PROVE  ToAgents(D, m) = [a \in Agent |-> Append(down[a], m)]
BY Alone DEF ToAgents

LEMMA NobodyElse ==
  ASSUME Setting, NEW net, NEW S, net \in [Directory -> [Directory -> S]], NEW m
  PROVE  ToPeers(net, D, m)[D][D] = net[D][D]
BY Alone DEF ToPeers

LEMMA OwnLink ==
  ASSUME Setting, link \in [Directory -> [Directory -> Seq(Linked)]], NEW m
  PROVE  ToPeers(link, D, m)[D][D] = link[D][D]
BY NobodyElse

LEMMA OneMessage ==
  ASSUME NEW x
  PROVE  /\ Append(<<>>, x) = <<x>> /\ <<x>> # <<>>
         /\ Head(<<x>>) = x /\ Tail(<<x>>) = <<>>
OBVIOUS

LEMMA TwoMessages ==
  ASSUME NEW x, NEW y
  PROVE  /\ Append(<<x>>, y) = <<x, y>> /\ <<x, y>> # <<>>
         /\ Head(<<x, y>>) = x /\ Tail(<<x, y>>) = <<y>>
         /\ \A z : <<x, y>> # <<z>>
<1>1. Append(<<x>>, y) = <<x, y>>
  <2>1. <<x>> \in Seq({x, y}) /\ Len(<<x>>) = 1 /\ <<x>>[1] = x
    OBVIOUS
  <2>2. /\ Append(<<x>>, y) \in Seq({x, y}) /\ Len(Append(<<x>>, y)) = 2
        /\ Append(<<x>>, y)[1] = x /\ Append(<<x>>, y)[2] = y
    BY <2>1, AppendPlaces
  <2> DEFINE q == Append(<<x>>, y)
             r == <<x, y>>
  <2>3. r \in Seq({x, y}) /\ Len(r) = 2 /\ r[1] = x /\ r[2] = y
    OBVIOUS
  <2>4. /\ q = [i \in 1 .. 2 |-> q[i]] /\ r = [i \in 1 .. 2 |-> r[i]]
        /\ \A i \in 1 .. 2 : q[i] = r[i]
    <3> HIDE DEF r
    <3>1. q = [i \in 1 .. 2 |-> q[i]]
      BY <2>2
    <3>2. r = [i \in 1 .. 2 |-> r[i]]
      BY <2>3
    <3>3. \A i \in 1 .. 2 : i = 1 \/ i = 2
      OBVIOUS
    <3> QED BY <2>2, <2>3, <3>1, <3>2, <3>3
  <2> HIDE DEF q, r
  <2>5. q = r
    BY <2>4
  <2> QED BY <2>5 DEF q, r
<1>4. <<x, y>> # <<>> /\ Head(<<x, y>>) = x
  OBVIOUS
<1>2. Tail(<<x, y>>) = <<y>>
  <2> DEFINE q == <<x, y>>
  <2>1. q \in Seq({x, y}) /\ q # <<>> /\ Len(q) = 2 /\ q[2] = y
    OBVIOUS
  <2> HIDE DEF q
  <2>2. Tail(q) \in Seq({x, y}) /\ Len(Tail(q)) = 1 /\ Tail(q)[1] = y
    BY <2>1
  <2> QED BY <2>2 DEF q
<1>3. ASSUME NEW z, <<x, y>> = <<z>> PROVE FALSE
  <2>1. Len(<<x, y>>) = 2 /\ Len(<<z>>) = 1
    OBVIOUS
  <2> QED BY <1>3, <2>1
<1> QED BY <1>1, <1>2, <1>3, <1>4

LEMMA SameMessage == ASSUME NEW x, NEW y, <<x>> = <<y>> PROVE x = y
OBVIOUS

LEMMA MsgParts == \A t, n : Msg(t, n).type = t /\ Msg(t, n).arg = n
BY DEF Msg

LEMMA WholeNumbers == Round \subseteq Nat /\ Batch \subseteq Nat
BY RoundBatchType

LEMMA AgentsFinite ==
  ASSUME NEW S \in SUBSET Agent
  PROVE  /\ IsFiniteSet(S) /\ Cardinality(S) \in Nat /\ Cardinality(S) <= NumAgents
         /\ S # Agent => Cardinality(S) < NumAgents
         /\ S = Agent => Cardinality(S) = NumAgents
<1>1. IsFiniteSet(Agent) /\ NumAgents = Cardinality(Agent)
  BY SystemAssumption DEF NumAgents
<1>2. /\ IsFiniteSet(S) /\ Cardinality(S) <= Cardinality(Agent)
      /\ Cardinality(Agent) = Cardinality(S) => Agent = S
  BY <1>1, FS_Subset
<1>3. Cardinality(S) \in Nat /\ Cardinality(Agent) \in Nat
  BY <1>1, <1>2, FS_CardinalityType
<1> QED BY <1>1, <1>2, <1>3

LEMMA OneMore ==
  ASSUME NEW S \in SUBSET Agent, NEW a \in Agent, a \notin S
  PROVE  Cardinality(S \cup {a}) = Cardinality(S) + 1
BY AgentsFinite, FS_AddElement

LEMMA OneLess ==
  ASSUME NEW S \in SUBSET Agent, NEW a \in Agent, a \in S
  PROVE  Cardinality(S \ {a}) = Cardinality(S) - 1
BY AgentsFinite, FS_RemoveElement

LEMMA NobodyCounted == Cardinality({}) = 0
BY FS_EmptySet

LEMMA NoneCounted ==
  ASSUME NEW S \in SUBSET Agent
  PROVE  Cardinality(S) = 0 <=> S = {}
BY AgentsFinite, FS_EmptySet

(* All but a: the last one completes the count.                            *)
LEMMA AllOthers ==
  ASSUME NEW a \in Agent, NEW S \in SUBSET (Agent \ {a})
  PROVE  /\ Cardinality(S) <= NumAgents - 1
         /\ Cardinality(S) + 1 = NumAgents <=> S = Agent \ {a}
<1>1. /\ IsFiniteSet(Agent \ {a}) /\ Cardinality(Agent \ {a}) = NumAgents - 1
      /\ NumAgents \in Nat
  BY SystemAssumption, FS_RemoveElement, FS_CardinalityType DEF NumAgents
<1>2. /\ Cardinality(S) <= Cardinality(Agent \ {a})
      /\ Cardinality(Agent \ {a}) = Cardinality(S) => Agent \ {a} = S
  BY <1>1, FS_Subset
<1>3. S \in SUBSET Agent
  OBVIOUS
<1>4. Cardinality(S) \in Nat
  BY <1>3, AgentsFinite
<1>5. S = Agent \ {a} => Cardinality(S) + 1 = NumAgents
  BY <1>1
<1> DEFINE n == Cardinality(S)
           m == Cardinality(Agent \ {a})
<1>6. /\ n \in Nat /\ m = NumAgents - 1 /\ NumAgents \in Nat /\ n <= m
      /\ m = n => S = Agent \ {a}
  BY <1>1, <1>2, <1>4
<1>7. n <= NumAgents - 1 /\ (n + 1 = NumAgents => S = Agent \ {a})
  <2> HIDE DEF n, m
  <2> QED BY <1>6
<1> QED BY <1>5, <1>7

-----------------------------------------------------------------------------
(* Which messages there are in which phase, at the front of the queues.    *)

LEMMA HeadsOfDown ==
  /\ Head(<<DoStart>>).type = "DO_START" /\ Head(<<DoStart, Wake>>).type = "DO_START"
  /\ Head(<<DoUpdate>>).type = "DO_UPDATE"
  /\ Head(<<Wake>>).type = "HAVE_UPDATE" /\ Head(<<Wake>>).arg = dirBatch[D]
  /\ Head(<<Nv>>).type = "NV"
  /\ \A n : /\ Head(<<Msg("SYNC", n)>>).type = "SYNC"
            /\ Head(<<Msg("SYNC", n)>>).arg = n
            /\ Head(<<Msg("SYNC", n), Wake>>).type = "SYNC"
            /\ Head(<<Msg("SYNC", n), Wake>>).arg = n
BY OneMessage, TwoMessages, MsgParts DEF DoStart, DoUpdate, Wake, Nv

LEMMA HeadsOfUp ==
  /\ Head(<<ReadyNvNe>>).type = "READY_NV_NE"
  /\ Head(<<Wake>>).type = "HAVE_UPDATE"
  /\ Head(<<Wake, ReadyNvNe>>).type = "HAVE_UPDATE"
  /\ Head(<<Wake>>).arg = dirBatch[D] /\ Head(<<Wake, ReadyNvNe>>).arg = dirBatch[D]
  /\ \A n : Head(<<Msg("READY_SYNC", n)>>).type = "READY_SYNC"
BY OneMessage, TwoMessages, MsgParts DEF ReadyNvNe, Wake

(* What a directory may have sent an agent.                                *)
LEMMA DownIs ==
  ASSUME LockInv, NEW a \in Agent, NEW t, NextIs(a, t)
  PROVE  \/ /\ t = "DO_START"
            /\ \/ LoadedBy("START") /\ Untouched(a) /\ down[a] = <<DoStart>>
               \/ Settled /\ Idle(a) /\ down[a] = <<DoStart>>
               \/ Updates /\ Idle(a) /\ down[a] = <<DoStart, Wake>>
         \/ t = "DO_UPDATE" /\ LoadedBy("UPDATE") /\ Untouched(a) /\ down[a] = <<DoUpdate>>
         \/ t = "HAVE_UPDATE" /\ Updates /\ Idle(a) /\ down[a] = <<Wake>>
         \/ t = "NV" /\ Computes /\ Released(a)
         \/ t = "NV" /\ Skips /\ Skipping(a)
         \/ t = "SYNC" /\ Settled /\ Leaving(a) /\ down[a] = <<Msg("SYNC", 0)>>
         \/ t = "SYNC" /\ Updates /\ Leaving(a) /\ down[a] = <<Msg("SYNC", 0), Wake>>
         \/ t = "SYNC" /\ Computes /\ Continuing(a)
<1>0. down[a] # <<>> /\ Head(down[a]).type = t
  BY DEF NextIs
<1>1. CASE Unloaded
  BY <1>0, <1>1 DEF Unloaded
<1>2. CASE Loads
  BY <1>0, <1>2, HeadsOfDown DEF Loads, LoadedBy, Loading, DoCommand
<1>3. CASE Settled
  BY <1>0, <1>3, HeadsOfDown DEF Settled
<1>4. CASE Updates
  BY <1>0, <1>4, HeadsOfDown DEF Updates, Updating
<1>5. CASE Computes
  BY <1>0, <1>5, HeadsOfDown DEF Computes, Released, Continuing, Working, Waiting
<1>6. CASE Skips
  BY <1>0, <1>6, HeadsOfDown DEF Skips, Skipping, Skipped
<1> QED BY <1>1, <1>2, <1>3, <1>4, <1>5, <1>6 DEF LockInv

(* What an agent may have sent the directory.                              *)
LEMMA UpIs ==
  ASSUME LockInv, NEW a \in Agent, NEW t, AgentSends(a, t)
  PROVE  \/ /\ t = "READY_NV_NE" /\ ready[a] /\ up[a] = <<ReadyNvNe>>
            /\ (\E c \in {"START", "UPDATE"} : LoadedBy(c) /\ Loading(a, c))
                 \/ (Updates /\ Updating(a))
         \/ /\ t = "READY_SYNC" /\ Computes /\ Waiting(a)
            /\ \E n \in {0, 1} : up[a] = <<Msg("READY_SYNC", n)>>
         \/ t = "READY_SYNC" /\ Skips /\ Skipped(a) /\ up[a] = <<Msg("READY_SYNC", 0)>>
         \/ t = "HAVE_UPDATE" /\ Settled /\ Idle(a) /\ up[a] = <<Wake>>
         \/ t = "HAVE_UPDATE" /\ Updates /\ Idle(a) /\ up[a] = <<Wake>>
         \/ t = "HAVE_UPDATE" /\ Updates /\ Updating(a) /\ up[a] = <<Wake, ReadyNvNe>>
<1>0. up[a] # <<>> /\ Head(up[a]).type = t
  BY DEF AgentSends
<1>1. CASE Unloaded
  BY <1>0, <1>1 DEF Unloaded, Untouched
<1>2. CASE Loads
  BY <1>0, <1>2, HeadsOfUp DEF Loads, LoadedBy, Loading, Untouched
<1>3. CASE Settled
  BY <1>0, <1>3, HeadsOfUp DEF Settled, Leaving, Idle
<1>4. CASE Updates
  BY <1>0, <1>4, HeadsOfUp DEF Updates, Updating, Leaving, Idle
<1>5. CASE Computes
  BY <1>0, <1>5, HeadsOfUp DEF Computes, Released, Continuing, Working, Waiting
<1>6. CASE Skips
  BY <1>0, <1>6, HeadsOfUp DEF Skips, Skipping, Skipped
<1> QED BY <1>1, <1>2, <1>3, <1>4, <1>5, <1>6 DEF LockInv

(* What an agent may have sent another one.                                *)
LEMMA PeerIs ==
  ASSUME LockInv, NEW a \in Agent, NEW b \in Agent, NEW t, PeerSends(b, a, t)
  PROVE  \/ t = "SEND_UPDATES" /\ Loads /\ Head(peer[b][a]) = Block
         \/ t = "ACK_UPDATES" /\ Loads /\ Head(peer[b][a]) = Ack
         \/ /\ t = "OUT_VN" /\ Computes /\ peer[b][a] = <<Note>>
            /\ it[b] = dirIt[D] /\ a # b
<1>0. peer[b][a] # <<>> /\ Head(peer[b][a]).type = t
  BY DEF PeerSends
<1>1. ASSUME NoBlocks PROVE FALSE
  BY <1>0, <1>1 DEF NoBlocks
<1>2. CASE Loads
  <2>1. peer[b][a] \in Seq({Block, Ack})
    BY <1>2 DEF Loads, LoadedBy, AcksCounted
  <2>2. Head(peer[b][a]) \in {Block, Ack}
    BY <1>0, <2>1, TailPlaces
  <2> QED BY <1>0, <1>2, <2>2, MsgParts DEF Block, Ack
<1>3. CASE Computes
  BY <1>0, <1>3, OneMessage, MsgParts DEF Computes, NotesCounted, NotesIn, Note
<1> QED BY <1>1, <1>2, <1>3 DEF LockInv, Unloaded, Settled, Updates, Skips

-----------------------------------------------------------------------------
(* The first batch is loaded.                                              *)

LEMMA UnusedStays ==
  ASSUME NEW k, Unused(k), UNCHANGED <<dirBatch, dirIt, syncCtr, dormantSum>>
  PROVE  Unused(k)'
BY DEF Unused

(* Messages of a that leave it as counted, or not counted, as it was.      *)
LEMMA CountedStays ==
  ASSUME NEW a \in Agent,
         \A x \in Agent \ {a} : ready'[x] = ready[x] /\ up'[x] = up[x],
         (ready[a] /\ up[a] = <<>>) <=> (ready'[a] /\ up'[a] = <<>>),
         ReadyCounted, UNCHANGED readyCtr
  PROVE  ReadyCounted'
<1>1. Counted' = Counted
  BY DEF Counted
<1> QED BY <1>1 DEF ReadyCounted

LEMMA BlockIsNotAck == Block # Ack
BY MsgParts DEF Block, Ack

(* An agent without needed acknowledgements owes nobody's.                 *)
LEMMA NothingOwed ==
  ASSUME AcksCounted, NEW a \in Agent, acks[a] = 0, NEW b \in Agent
  PROVE  ~Has(peer[a][b], Block) /\ ~Has(peer[b][a], Ack)
<1>1. Cardinality(Owed(a)) = 0
  BY DEF AcksCounted
<1>2. Owed(a) \in SUBSET Agent
  BY DEF Owed
<1>3. Owed(a) = {}
  BY <1>1, <1>2, NoneCounted
<1> QED BY <1>3 DEF Owed

(* send_out_edges: one block to each agent of dests, none of which a has   *)
(* sent a block before.                                                    *)
LEMMA BlocksSent ==
  ASSUME AcksCounted, TypeOK, NEW a \in Agent, acks[a] = 0,
         NEW dests \in SUBSET (Agent \ {a}), SendBlocks(a, dests, 0)
  PROVE  AcksCounted' /\ acks' = [acks EXCEPT ![a] = Cardinality(dests)]
<1>1. acks' = [acks EXCEPT ![a] = Cardinality(dests)]
  <2>1. acks' = [acks EXCEPT ![a] = acks[a] + Cardinality(dests)]
    BY DEF SendBlocks
  <2>2. Cardinality(dests) \in Nat
    BY DestsType
  <2>3. acks[a] + Cardinality(dests) = Cardinality(dests)
    BY <2>2
  <2> QED BY <2>1, <2>3
<1>2. peer \in [Agent -> [Agent -> Seq(ToPeer)]] /\ acks \in [Agent -> Int]
  BY DEF TypeOK
<1>3. \A x, b \in Agent :
        peer'[x][b] = IF x = a /\ b \in dests THEN Append(peer[x][b], Block)
                                              ELSE peer[x][b]
  BY <1>2 DEF SendBlocks, Sent, Block
<1>4. \A x, b \in Agent : peer[x][b] \in Seq({Block, Ack})
  BY DEF AcksCounted
<1>5. \A b \in Agent : ~Has(peer[a][b], Block) /\ ~Has(peer[b][a], Ack)
  BY NothingOwed
<1>6. \A x, b \in Agent :
        Has(peer'[x][b], Block) <=> Has(peer[x][b], Block) \/ (x = a /\ b \in dests)
  <2> SUFFICES ASSUME NEW x \in Agent, NEW b \in Agent
               PROVE  Has(peer'[x][b], Block)
                        <=> Has(peer[x][b], Block) \/ (x = a /\ b \in dests)
    OBVIOUS
  <2>1. peer[x][b] \in Seq({Block, Ack})
    BY <1>4
  <2>2. Has(Append(peer[x][b], Block), Block)
    BY <2>1, HasAppend
  <2> QED BY <1>3, <2>2
<1>7. \A x, b \in Agent : Has(peer'[x][b], Ack) <=> Has(peer[x][b], Ack)
  <2> SUFFICES ASSUME NEW x \in Agent, NEW b \in Agent
               PROVE  Has(peer'[x][b], Ack) <=> Has(peer[x][b], Ack)
    OBVIOUS
  <2>1. peer[x][b] \in Seq({Block, Ack})
    BY <1>4
  <2>2. Has(Append(peer[x][b], Block), Ack) <=> Has(peer[x][b], Ack)
    BY <2>1, HasAppend, BlockIsNotAck
  <2> QED BY <1>3, <2>2
<1>8. Owed(a)' = dests
  BY <1>5, <1>6, <1>7 DEF Owed
<1>9. \A x \in Agent \ {a} : Owed(x)' = Owed(x)
  BY <1>6, <1>7 DEF Owed
<1>10. \A x \in Agent : acks'[x] = Cardinality(Owed(x)')
  <2>1. acks'[a] = Cardinality(dests)
    BY <1>1, <1>2
  <2>2. \A x \in Agent \ {a} : acks'[x] = Cardinality(Owed(x))
    BY <1>1, <1>2 DEF AcksCounted
  <2> QED BY <1>8, <1>9, <2>1, <2>2
<1>11. ASSUME NEW x \in Agent, NEW b \in Agent
       PROVE  /\ peer'[x][b] \in Seq({Block, Ack})
              /\ Once(peer'[x][b], Block) /\ Once(peer'[x][b], Ack)
  <2>1. /\ peer[x][b] \in Seq({Block, Ack})
        /\ Once(peer[x][b], Block) /\ Once(peer[x][b], Ack)
    BY DEF AcksCounted
  <2>2. CASE x = a /\ b \in dests
    <3>1. ~Has(peer[x][b], Block)
      BY <1>5, <2>2
    <3>2. Append(peer[x][b], Block) \in Seq({Block, Ack})
      BY <2>1, AppendPlaces
    <3>3. Once(Append(peer[x][b], Block), Block)
      BY <2>1, <3>1, OnceAppend
    <3>4. Once(Append(peer[x][b], Block), Ack)
      BY <2>1, OnceAppend, BlockIsNotAck
    <3> QED BY <1>3, <2>2, <3>2, <3>3, <3>4
  <2>3. CASE ~(x = a /\ b \in dests)
    BY <1>3, <2>1, <2>3
  <2> QED BY <2>2, <2>3
<1>12. \A x \in Agent : peer'[x][x] = <<>>
  BY <1>3 DEF AcksCounted
<1>13. \A x, b \in Agent : ~(Has(peer'[x][b], Block) /\ Has(peer'[b][x], Ack))
  BY <1>5, <1>6, <1>7 DEF AcksCounted
<1>14. AcksCounted'
  BY <1>10, <1>11, <1>12, <1>13 DEF AcksCounted
<1> QED BY <1>1, <1>14

(* START or UPDATE reaches an agent for the first time.                    *)
LEMMA LoadBegins ==
  ASSUME TypeOK, NEW c \in {"START", "UPDATE"}, LoadedBy(c), NEW a \in Agent,
         Untouched(a), Take(a), down[a] = <<DoCommand(c)>>, SendOutEdges(a),
         state' = [state EXCEPT ![a] = IF c = "START" THEN "LEAVING_NO_PROCESS"
                                                      ELSE "NO_PROCESS"],
         UNCHANGED <<it, batch, needed, dormant, dirVars, command, envVars>>
  PROVE  LoadedBy(c)'
<1>1. PICK dests \in SUBSET (Agent \ {a}) : SendBlocks(a, dests, 0)
  BY DEF SendOutEdges
<1>2. acks[a] = 0 /\ ~ready[a] /\ up[a] = <<>>
  BY DEF Untouched
<1>3. AcksCounted' /\ acks' = [acks EXCEPT ![a] = Cardinality(dests)]
  BY <1>1, <1>2, BlocksSent DEF LoadedBy
<1>4. Cardinality(dests) \in Nat
  BY DestsType
<1>5. IF Cardinality(dests) = 0 THEN DoneWaitingReadyNvNe(a) ELSE UNCHANGED <<up, ready>>
  BY <1>1, <1>2, <1>4 DEF SendBlocks
<1>6. /\ state \in [Agent -> AgentState] /\ up \in [Agent -> Seq(ToDirectory)]
      /\ down \in [Agent -> Seq(ToAgent)] /\ ready \in [Agent -> BOOLEAN]
      /\ acks \in [Agent -> Int]
  BY DEF TypeOK
<1>7. IF Cardinality(dests) = 0 THEN ready'[a] /\ up'[a] = <<ReadyNvNe>>
                                ELSE ~ready'[a] /\ up'[a] = <<>>
  BY <1>2, <1>5, <1>6, OneMessage DEF DoneWaitingReadyNvNe, Pushed, ReadyNvNe
<1>8. \A x \in Agent \ {a} : /\ ready'[x] = ready[x] /\ up'[x] = up[x]
                             /\ down'[x] = down[x] /\ state'[x] = state[x]
                             /\ acks'[x] = acks[x]
  BY <1>3, <1>5, <1>6 DEF DoneWaitingReadyNvNe, Pushed, Take
<1>9. down'[a] = <<>> /\ acks'[a] = Cardinality(dests)
  BY <1>3, <1>6, OneMessage DEF Take
<1>10. state'[a] = IF c = "START" THEN "LEAVING_NO_PROCESS" ELSE "NO_PROCESS"
  BY <1>6
<1>11. Loading(a, c)'
  <2>1. CASE Cardinality(dests) = 0
    BY <1>7, <1>9, <1>10, <2>1 DEF Loading
  <2>2. CASE Cardinality(dests) # 0
    <3>1. acks'[a] > 0
      BY <1>4, <1>9, <2>2
    <3> QED BY <1>7, <1>9, <1>10, <2>2, <3>1 DEF Loading
  <2> QED BY <2>1, <2>2
<1>12. ReadyCounted'
  <2>1. (ready[a] /\ up[a] = <<>>) <=> (ready'[a] /\ up'[a] = <<>>)
    BY <1>2, <1>7, OneMessage
  <2>2. \A x \in Agent \ {a} : ready'[x] = ready[x] /\ up'[x] = up[x]
    BY <1>8
  <2>3. ReadyCounted /\ UNCHANGED readyCtr
    BY DEF LoadedBy, dirVars
  <2> QED BY <2>1, <2>2, <2>3, CountedStays
<1>13. Unused(-1)'
  BY UnusedStays DEF LoadedBy, dirVars
<1>14. \A x \in Agent : First(x)'
  BY DEF LoadedBy, First, Clean
<1>15. \A x \in Agent \ {a} :
         (Untouched(x) /\ down[x] = <<DoCommand(c)>>)' \/ Loading(x, c)'
  BY <1>8 DEF LoadedBy, Untouched, Loading, DoCommand, DoStart, DoUpdate
<1>16. dirBatch'[D] = 0 /\ dirIt'[D] = 0 /\ command'[D] = <<>> /\ commands' > 0
  BY DEF LoadedBy, dirVars, envVars
<1> QED BY <1>3, <1>11, <1>12, <1>13, <1>14, <1>15, <1>16 DEF LoadedBy

LEMMA ConcatOne ==
  ASSUME NEW S, NEW s \in Seq(S), NEW x \in S
  PROVE  s \o <<x>> = Append(s, x)
OBVIOUS

(* A block is taken and acknowledged: the acknowledgement is as good.      *)
LEMMA BlockTaken ==
  ASSUME AcksCounted, TypeOK, NEW a \in Agent, NEW b \in Agent,
         peer[b][a] # <<>>, Head(peer[b][a]) = Block, RecvSendUpdates(a, b)
  PROVE  AcksCounted' /\ UNCHANGED acks
<1>1. /\ peer \in [Agent -> [Agent -> Seq(ToPeer)]] /\ acks \in [Agent -> Int]
      /\ a # b
      /\ peer[b][a] \in Seq({Block, Ack}) /\ peer[a][b] \in Seq({Block, Ack})
  BY DEF TypeOK, AcksCounted
<1>2. Head(peer[b][a]).arg = 0
  BY MsgParts DEF Block
<1>3. UNCHANGED acks
  <2>1. acks' = [acks EXCEPT ![a] = acks[a] + 0]
    BY <1>2 DEF RecvSendUpdates
  <2>2. acks[a] + 0 = acks[a]
    BY <1>1
  <2> QED BY <1>1, <2>1, <2>2
<1>4. peer' = [[peer EXCEPT ![b][a] = Tail(@)] EXCEPT ![a][b] = @ \o <<Ack>>]
  <2> DEFINE back == IF Head(peer[b][a]).arg = 1
                       THEN <<Msg("SEND_UPDATES", 0), Msg("ACK_UPDATES", 0)>>
                       ELSE <<Msg("ACK_UPDATES", 0)>>
  <2>1. peer' = [[peer EXCEPT ![b][a] = Tail(@)] EXCEPT ![a][b] = @ \o back]
    BY DEF RecvSendUpdates
  <2>2. back = <<Ack>>
    BY <1>2 DEF Ack
  <2> HIDE DEF back
  <2> QED BY <2>1, <2>2
<1>17. peer[a][b] \in Seq({Block, Ack}) /\ Ack \in {Block, Ack}
  BY DEF AcksCounted
<1>5. \A x, y \in Agent :
        peer'[x][y] = IF x = b /\ y = a THEN Tail(peer[b][a])
                      ELSE IF x = a /\ y = b THEN Append(peer[a][b], Ack)
                      ELSE peer[x][y]
  <2>1. \A x, y \in Agent :
          peer'[x][y] = IF x = b /\ y = a THEN Tail(peer[b][a])
                        ELSE IF x = a /\ y = b THEN peer[a][b] \o <<Ack>>
                        ELSE peer[x][y]
    BY <1>1, <1>4
  <2>2. peer[a][b] \o <<Ack>> = Append(peer[a][b], Ack)
    BY <1>1, ConcatOne
  <2> QED BY <2>1, <2>2
<1>6. /\ Once(peer[b][a], Block) /\ Once(peer[b][a], Ack)
      /\ Once(peer[a][b], Block) /\ Once(peer[a][b], Ack)
      /\ ~(Has(peer[b][a], Block) /\ Has(peer[a][b], Ack))
  BY DEF AcksCounted
<1>7. /\ Has(peer[b][a], Block) /\ ~Has(Tail(peer[b][a]), Block)
      /\ Has(Tail(peer[b][a]), Ack) <=> Has(peer[b][a], Ack)
  <2>1. Has(peer[b][a], Block)
    BY <1>1, HasTail
  <2>2. ~Has(Tail(peer[b][a]), Block)
    BY <1>1, <1>6, OnceTail
  <2>3. Has(Tail(peer[b][a]), Ack) <=> Has(peer[b][a], Ack)
    BY <1>1, HasTail, BlockIsNotAck
  <2> QED BY <2>1, <2>2, <2>3
<1>8. ~Has(peer[a][b], Ack)
  BY <1>6, <1>7
<1>9. /\ Has(Append(peer[a][b], Ack), Ack)
      /\ Has(Append(peer[a][b], Ack), Block) <=> Has(peer[a][b], Block)
  <2>1. Has(Append(peer[a][b], Ack), Ack)
    BY <1>17, HasAppend
  <2>2. Has(Append(peer[a][b], Ack), Block) <=> Has(peer[a][b], Block)
    BY <1>17, HasAppend, BlockIsNotAck
  <2> QED BY <2>1, <2>2
<1>10. \A x, y \in Agent :
         Has(peer'[x][y], Block) <=> Has(peer[x][y], Block) /\ ~(x = b /\ y = a)
  BY <1>1, <1>5, <1>7, <1>9
<1>11. \A x, y \in Agent :
         Has(peer'[x][y], Ack) <=> Has(peer[x][y], Ack) \/ (x = a /\ y = b)
  BY <1>1, <1>5, <1>7, <1>9
<1>12. \A x \in Agent : Owed(x)' = Owed(x)
  <2> SUFFICES ASSUME NEW x \in Agent, NEW y \in Agent
               PROVE  Has(peer'[x][y], Block) \/ Has(peer'[y][x], Ack)
                        <=> Has(peer[x][y], Block) \/ Has(peer[y][x], Ack)
    BY DEF Owed
  <2> QED BY <1>7, <1>10, <1>11
<1>13. \A x \in Agent : acks'[x] = Cardinality(Owed(x)')
  BY <1>3, <1>12 DEF AcksCounted
<1>14. ASSUME NEW x \in Agent, NEW y \in Agent
       PROVE  /\ peer'[x][y] \in Seq({Block, Ack})
              /\ Once(peer'[x][y], Block) /\ Once(peer'[x][y], Ack)
  <2>1. CASE x = b /\ y = a
    <3>1. /\ Tail(peer[b][a]) \in Seq({Block, Ack})
          /\ Once(Tail(peer[b][a]), Block)
      BY <1>1, <1>6, OnceTail, TailPlaces
    <3>2. Once(Tail(peer[b][a]), Ack)
      BY <1>1, <1>6, OnceTail
    <3> QED BY <1>5, <2>1, <3>1, <3>2
  <2>2. CASE x = a /\ y = b
    <3>1. Append(peer[a][b], Ack) \in Seq({Block, Ack})
      BY <1>1, AppendPlaces
    <3>2. Once(Append(peer[a][b], Ack), Ack)
      <4>1. Once(peer[a][b], Ack)
        BY <1>6
      <4> QED BY <1>8, <1>17, <4>1, OnceAppend
    <3>3. Once(Append(peer[a][b], Ack), Block)
      <4>1. Once(peer[a][b], Block)
        BY <1>6
      <4> QED BY <1>17, <4>1, OnceAppend, BlockIsNotAck
    <3> QED BY <1>1, <1>5, <2>2, <3>1, <3>2, <3>3
  <2>3. CASE ~(x = b /\ y = a) /\ ~(x = a /\ y = b)
    <3>1. peer'[x][y] = peer[x][y]
      BY <1>5, <2>3
    <3> QED BY <3>1 DEF AcksCounted
  <2> QED BY <2>1, <2>2, <2>3
<1>15. \A x \in Agent : peer'[x][x] = <<>>
  BY <1>1, <1>5 DEF AcksCounted
<1>16. \A x, y \in Agent : ~(Has(peer'[x][y], Block) /\ Has(peer'[y][x], Ack))
  BY <1>10, <1>11 DEF AcksCounted
<1> QED BY <1>3, <1>13, <1>14, <1>15, <1>16 DEF AcksCounted

(* An acknowledgement is taken: one less is needed.                        *)
LEMMA AckTaken ==
  ASSUME AcksCounted, TypeOK, NEW a \in Agent, NEW b \in Agent,
         peer[b][a] # <<>>, Head(peer[b][a]) = Ack, RecvAckUpdates(a, b)
  PROVE  /\ AcksCounted' /\ acks[a] > 0
         /\ acks' = [acks EXCEPT ![a] = @ - 1]
<1>1. /\ peer \in [Agent -> [Agent -> Seq(ToPeer)]] /\ acks \in [Agent -> Int]
      /\ a # b
      /\ peer[b][a] \in Seq({Block, Ack})
  BY DEF TypeOK, AcksCounted
<1>2. acks' = [acks EXCEPT ![a] = @ - 1]
  BY DEF RecvAckUpdates
<1>3. \A x, y \in Agent :
        peer'[x][y] = IF x = b /\ y = a THEN Tail(peer[b][a]) ELSE peer[x][y]
  BY <1>1 DEF RecvAckUpdates
<1>4. /\ Once(peer[b][a], Block) /\ Once(peer[b][a], Ack)
      /\ ~(Has(peer[a][b], Block) /\ Has(peer[b][a], Ack))
  BY DEF AcksCounted
<1>5. Has(peer[b][a], Ack) /\ ~Has(Tail(peer[b][a]), Ack)
  <2>1. Has(peer[b][a], Ack)
    BY <1>1, HasTail
  <2>2. ~Has(Tail(peer[b][a]), Ack)
    BY <1>1, <1>4, OnceTail
  <2> QED BY <2>1, <2>2
<1>6. Has(Tail(peer[b][a]), Block) <=> Has(peer[b][a], Block)
  BY <1>1, HasTail, BlockIsNotAck
<1>7. \A x, y \in Agent : Has(peer'[x][y], Block) <=> Has(peer[x][y], Block)
  BY <1>3, <1>6
<1>8. \A x, y \in Agent :
        Has(peer'[x][y], Ack) <=> Has(peer[x][y], Ack) /\ ~(x = b /\ y = a)
  BY <1>3, <1>5
<1>9. b \in Owed(a) /\ Owed(a)' = Owed(a) \ {b}
  <2>1. ~Has(peer[a][b], Block)
    BY <1>4, <1>5
  <2> QED BY <1>5, <1>7, <1>8, <2>1 DEF Owed
<1>10. \A x \in Agent \ {a} : Owed(x)' = Owed(x)
  BY <1>7, <1>8 DEF Owed
<1>11. acks[a] = Cardinality(Owed(a)) /\ Owed(a) \in SUBSET Agent
  BY DEF AcksCounted, Owed
<1>12. acks'[a] = Cardinality(Owed(a)')
  BY <1>1, <1>2, <1>9, <1>11, OneLess
<1>13. acks[a] > 0
  <2>1. Cardinality(Owed(a)) # 0
    BY <1>9, <1>11, NoneCounted
  <2>2. Cardinality(Owed(a)) \in Nat
    BY <1>11, AgentsFinite
  <2> QED BY <1>11, <2>1, <2>2
<1>14. \A x \in Agent : acks'[x] = Cardinality(Owed(x)')
  BY <1>1, <1>2, <1>10, <1>12 DEF AcksCounted
<1>15. ASSUME NEW x \in Agent, NEW y \in Agent
       PROVE  /\ peer'[x][y] \in Seq({Block, Ack})
              /\ Once(peer'[x][y], Block) /\ Once(peer'[x][y], Ack)
  <2>1. CASE x = b /\ y = a
    <3>1. /\ Tail(peer[b][a]) \in Seq({Block, Ack})
          /\ Once(Tail(peer[b][a]), Block)
      BY <1>1, <1>4, OnceTail, TailPlaces
    <3>2. Once(Tail(peer[b][a]), Ack)
      BY <1>1, <1>4, OnceTail
    <3> QED BY <1>3, <2>1, <3>1, <3>2
  <2>2. CASE ~(x = b /\ y = a)
    <3>1. peer'[x][y] = peer[x][y]
      BY <1>3, <2>2
    <3> QED BY <3>1 DEF AcksCounted
  <2> QED BY <2>1, <2>2
<1>16. \A x \in Agent : peer'[x][x] = <<>>
  BY <1>1, <1>3 DEF AcksCounted
<1>17. \A x, y \in Agent : ~(Has(peer'[x][y], Block) /\ Has(peer'[y][x], Ack))
  BY <1>7, <1>8 DEF AcksCounted
<1> QED BY <1>2, <1>13, <1>14, <1>15, <1>16, <1>17 DEF AcksCounted

(* No notification of this superstep has been sent.                        *)
NothingHeard ==
  /\ NoBlocks
  /\ \A a \in Agent : it[a] # dirIt[D] /\ \A k \in Round : needed[a][k] = 0

LEMMA NothingIsHeard == NothingHeard => NotesCounted
<1> SUFFICES ASSUME NothingHeard, NEW a \in Agent
             PROVE  \A k \in Round : needed[a][k] =
                      IF k # dirIt[D] + 1 THEN 0
                      ELSE (IF it[a] = dirIt[D] THEN NumAgents - 1 ELSE 0)
                             - Cardinality(HeardIn(dirIt[D], it, peer, a))
  BY DEF NotesCounted, NotesIn, NothingHeard, NoBlocks
<1>1. HeardIn(dirIt[D], it, peer, a) = {}
  BY DEF HeardIn, NothingHeard
<1>2. Cardinality(HeardIn(dirIt[D], it, peer, a)) = 0
  BY <1>1, NobodyCounted
<1>3. it[a] # dirIt[D] /\ \A k \in Round : needed[a][k] = 0
  BY DEF NothingHeard
<1> QED BY <1>2, <1>3

(* NV on its way to everybody: the first superstep of the batch begins.    *)
AllReleased ==
  /\ TypeOK /\ dirIt[D] = 0 /\ readyCtr[D] = 0 /\ Unused(-1) /\ commands > 0
  /\ command[D] = <<>>
  /\ NoBlocks
  /\ \A a \in Agent : Released(a) /\ Clean(a) /\ batch[a] = dirBatch[D]

LEMMA NothingSynced ==
  ASSUME Setting, TypeOK, NEW k \in -1 .. MaxIt, dirIt[D] = k + 1, Unused(k),
         \A a \in Agent : down[a] # <<>>
  PROVE  SyncCounted
<1>1. Synced = {}
  BY DEF Synced
<1>2. Cardinality(Synced) = 0
  BY <1>1, NobodyCounted
<1>3. D \in Directory /\ dirBatch[D] \in Batch /\ dirIt[D] \in Round
  BY Alone DEF TypeOK
<1>4. dirIt[D] > k
  BY BoundAssumption
<1>5. syncCtr[D][dirBatch[D]][dirIt[D]] = 0
  BY <1>3, <1>4 DEF Unused
<1>6. 0 < NumAgents
  BY AgentsFinite, NobodyCounted, SystemAssumption
<1> QED BY <1>2, <1>5, <1>6 DEF SyncCounted

LEMMA BeginsComputing == ASSUME Setting PROVE AllReleased => Computes
<1> SUFFICES ASSUME AllReleased PROVE Computes
  OBVIOUS
<1>1. SyncCounted
  <2>1. \A a \in Agent : down[a] # <<>>
    BY OneMessage DEF AllReleased, Released
  <2>2. -1 \in -1 .. MaxIt /\ dirIt[D] = -1 + 1
    BY BoundAssumption DEF AllReleased
  <2> QED BY <2>1, <2>2, NothingSynced DEF AllReleased
<1>2. Unused(dirIt[D])
  BY RoundBatchType DEF AllReleased, Unused
<1>3. NotesCounted
  <2>1. NothingHeard
    BY DEF NothingHeard, AllReleased, Clean
  <2> QED BY <2>1, NothingIsHeard
<1> QED BY <1>1, <1>2, <1>3 DEF AllReleased, Computes

(* NV on its way after UPDATE.                                             *)
AllSkip ==
  /\ TypeOK /\ dirBatch[D] = 0 /\ dirIt[D] = 0 /\ readyCtr[D] = 0 /\ Unused(-1)
  /\ commands > 0 /\ command[D] = <<>>
  /\ NoBlocks
  /\ \A a \in Agent : Skipping(a)

LEMMA BeginsSkipping == ASSUME Setting PROVE AllSkip => Skips
<1> SUFFICES ASSUME AllSkip PROVE Skips
  OBVIOUS
<1>1. SyncCounted
  <2>1. \A a \in Agent : down[a] # <<>>
    BY OneMessage DEF AllSkip, Skipping
  <2>2. -1 \in -1 .. MaxIt /\ dirIt[D] = -1 + 1
    BY BoundAssumption DEF AllSkip
  <2> QED BY <2>1, <2>2, NothingSynced DEF AllSkip
<1>2. Unused(0) /\ dormantSum[D][0][0] = 0
  BY RoundBatchType DEF AllSkip, Unused
<1> QED BY <1>1, <1>2 DEF AllSkip, Skips

(* READY_NV_NE is counted, and it is not the last.                         *)
LEMMA ReadyArrives ==
  ASSUME Setting, TypeOK, ReadyCounted, NEW a \in Agent, ready[a], up[a] # <<>>,
         ready' = ready, up' = [up EXCEPT ![a] = <<>>], CountReady(D)
  PROVE  \/ ReadyCounted' /\ UNCHANGED <<down, dirIt>>
         \/ /\ readyCtr'[D] = 0 /\ dirIt'[D] = 0
            /\ \A x \in Agent : /\ ready[x] /\ down'[x] = Append(down[x], Nv)
                                /\ up'[x] = <<>> /\ (x # a => up[x] = <<>>)
<1>1. /\ D \in Directory /\ readyCtr \in [Directory -> Nat]
      /\ dirIt \in [Directory -> Round] /\ up \in [Agent -> Seq(ToDirectory)]
  BY Alone DEF TypeOK
<1>2. Counted \in SUBSET (Agent \ {a}) /\ Counted \in SUBSET Agent
  BY DEF Counted
<1>3. /\ readyCtr[D] = Cardinality(Counted) /\ readyCtr[D] < NumAgents
      /\ NumAgents \in Nat /\ readyCtr[D] \in Nat
  BY <1>1, NumAgentsType DEF ReadyCounted
<1>4. CASE readyCtr[D] + 1 = NumAgents
  <2>1. Counted = Agent \ {a}
    BY <1>2, <1>3, <1>4, AllOthers
  <2>2. down' = ToAgents(D, Nv)
    BY <1>4 DEF CountReady, Nv
  <2>3. \A x \in Agent : down'[x] = Append(down[x], Nv)
    BY <2>2, Published
  <2>4. readyCtr'[D] = 0 /\ dirIt'[D] = 0
    BY <1>1, <1>4 DEF CountReady
  <2>5. \A x \in Agent : ready[x] /\ up'[x] = <<>> /\ (x # a => up[x] = <<>>)
    BY <1>1, <2>1 DEF Counted
  <2> QED BY <2>3, <2>4, <2>5
<1>5. CASE readyCtr[D] + 1 # NumAgents
  <2>1. readyCtr'[D] = readyCtr[D] + 1
    BY <1>1, <1>5 DEF CountReady
  <2>2. dirIt' = dirIt /\ down' = down
    BY <1>1, <1>5 DEF CountReady
  <2>3. Counted' = Counted \cup {a} /\ a \notin Counted
    BY <1>1 DEF Counted
  <2>4. readyCtr'[D] = Cardinality(Counted')
    BY <1>2, <1>3, <2>1, <2>3, OneMore
  <2>5. readyCtr'[D] < NumAgents
    BY <1>3, <1>5, <2>1
  <2> QED BY <2>2, <2>4, <2>5 DEF ReadyCounted
<1> QED BY <1>4, <1>5

LEMMA LoadTakesBlock ==
  ASSUME TypeOK, NEW c \in {"START", "UPDATE"}, LoadedBy(c),
         NEW a \in Agent, NEW b \in Agent,
         peer[b][a] # <<>>, Head(peer[b][a]) = Block, RecvSendUpdates(a, b)
  PROVE  LoadedBy(c)'
<1>1. AcksCounted' /\ UNCHANGED acks
  BY BlockTaken DEF LoadedBy
<1>2. UNCHANGED <<state, it, batch, needed, dormant, ready, up, down, dirVars,
                  command, envVars>>
  BY DEF RecvSendUpdates
<1>3. ReadyCounted'
  BY <1>2 DEF LoadedBy, ReadyCounted, Counted, dirVars
<1>4. Unused(-1)'
  BY <1>2, UnusedStays DEF LoadedBy, dirVars
<1>5. \A x \in Agent :
        First(x)' /\ ((Untouched(x) /\ down[x] = <<DoCommand(c)>>)' \/ Loading(x, c)')
  BY <1>1, <1>2 DEF LoadedBy, First, Clean, Untouched, Loading, DoCommand, DoStart, DoUpdate
<1>6. dirBatch'[D] = 0 /\ dirIt'[D] = 0 /\ command'[D] = <<>> /\ commands' > 0
  BY <1>2 DEF LoadedBy, dirVars, envVars
<1> QED BY <1>1, <1>3, <1>4, <1>5, <1>6 DEF LoadedBy

LEMMA LoadTakesAck ==
  ASSUME TypeOK, NEW c \in {"START", "UPDATE"}, LoadedBy(c),
         NEW a \in Agent, NEW b \in Agent,
         peer[b][a] # <<>>, Head(peer[b][a]) = Ack, RecvAckUpdates(a, b)
  PROVE  LoadedBy(c)'
<1>1. AcksCounted' /\ acks[a] > 0 /\ acks' = [acks EXCEPT ![a] = @ - 1]
  BY AckTaken DEF LoadedBy
<1>2. UNCHANGED <<state, it, batch, needed, dormant, down, dirVars, command, envVars>>
  BY DEF RecvAckUpdates
<1>3. acks[a] \in Int
  BY DEF TypeOK
<1>4. /\ ~ready[a] /\ up[a] = <<>> /\ down[a] = <<>>
      /\ state[a] = IF c = "START" THEN "LEAVING_NO_PROCESS" ELSE "NO_PROCESS"
  BY <1>1, <1>3 DEF LoadedBy, Untouched, Loading
<1>5. IF acks[a] - 1 = 0 THEN DoneWaitingReadyNvNe(a) ELSE UNCHANGED <<up, ready>>
  BY DEF RecvAckUpdates
<1>6. /\ up \in [Agent -> Seq(ToDirectory)] /\ ready \in [Agent -> BOOLEAN]
      /\ acks \in [Agent -> Int]
  BY DEF TypeOK
<1>7. IF acks[a] - 1 = 0 THEN ready'[a] /\ up'[a] = <<ReadyNvNe>>
                         ELSE ~ready'[a] /\ up'[a] = <<>>
  BY <1>4, <1>5, <1>6, OneMessage DEF DoneWaitingReadyNvNe, Pushed, ReadyNvNe
<1>8. \A x \in Agent \ {a} : /\ ready'[x] = ready[x] /\ up'[x] = up[x]
                             /\ acks'[x] = acks[x]
  BY <1>1, <1>5, <1>6 DEF DoneWaitingReadyNvNe, Pushed
<1>9. acks'[a] = acks[a] - 1
  BY <1>1, <1>6
<1>10. Loading(a, c)'
  <2>1. /\ down'[a] = <<>>
        /\ state'[a] = IF c = "START" THEN "LEAVING_NO_PROCESS" ELSE "NO_PROCESS"
    BY <1>2, <1>4
  <2>2. CASE acks[a] - 1 = 0
    BY <1>7, <1>9, <2>1, <2>2 DEF Loading
  <2>3. CASE acks[a] - 1 # 0
    <3>1. acks'[a] > 0
      BY <1>1, <1>3, <1>9, <2>3
    <3> QED BY <1>7, <2>1, <2>3, <3>1 DEF Loading
  <2> QED BY <2>2, <2>3
<1>11. ReadyCounted'
  <2>1. (ready[a] /\ up[a] = <<>>) <=> (ready'[a] /\ up'[a] = <<>>)
    BY <1>4, <1>7, OneMessage
  <2>2. \A x \in Agent \ {a} : ready'[x] = ready[x] /\ up'[x] = up[x]
    BY <1>8
  <2>3. ReadyCounted /\ UNCHANGED readyCtr
    BY <1>2 DEF LoadedBy, dirVars
  <2> QED BY <2>1, <2>2, <2>3, CountedStays
<1>12. Unused(-1)'
  BY <1>2, UnusedStays DEF LoadedBy, dirVars
<1>13. \A x \in Agent : First(x)'
  BY <1>2 DEF LoadedBy, First, Clean
<1>14. \A x \in Agent \ {a} :
         (Untouched(x) /\ down[x] = <<DoCommand(c)>>)' \/ Loading(x, c)'
  BY <1>2, <1>8 DEF LoadedBy, Untouched, Loading, DoCommand, DoStart, DoUpdate
<1>15. dirBatch'[D] = 0 /\ dirIt'[D] = 0 /\ command'[D] = <<>> /\ commands' > 0
  BY <1>2 DEF LoadedBy, dirVars, envVars
<1> QED BY <1>1, <1>10, <1>11, <1>12, <1>13, <1>14, <1>15 DEF LoadedBy

(* READY_NV_NE after START or UPDATE.                                      *)
LEMMA LoadIsReady ==
  ASSUME Setting, TypeOK, TypeOK', NEW c \in {"START", "UPDATE"}, LoadedBy(c),
         NEW a \in Agent, Loading(a, c), ready[a], up[a] = <<ReadyNvNe>>, DirReadyNvNe(a)
  PROVE  LoadedBy(c)' \/ Computes' \/ Skips'
<1>1. CountReady(D) /\ UNCHANGED <<agentVars, peer, command, envVars>>
  BY Alone DEF DirReadyNvNe, FromAgent
<1>2. up' = [up EXCEPT ![a] = <<>>] /\ ready' = ready /\ up[a] # <<>>
  BY <1>1, OneMessage DEF DirReadyNvNe, FromAgent, agentVars
<1>3. UNCHANGED <<dirBatch, syncCtr, dormantSum, commands>> /\ D \in Directory
  BY <1>1, Alone DEF CountReady, envVars
<1>4. up \in [Agent -> Seq(ToDirectory)]
  BY DEF TypeOK
<1>5. CASE ReadyCounted' /\ UNCHANGED <<down, dirIt>>
  <2>1. AcksCounted'
    BY <1>1 DEF LoadedBy, AcksCounted, Owed, agentVars
  <2>2. Unused(-1)'
    BY <1>3, <1>5, UnusedStays DEF LoadedBy
  <2>3. \A x \in Agent : First(x)'
    BY <1>1 DEF LoadedBy, First, Clean, agentVars
  <2>4. Loading(a, c)'
    <3>1. acks[a] = 0 /\ down[a] = <<>>
      BY DEF Loading
    <3>2. up'[a] = <<>> /\ ready'[a]
      BY <1>2, <1>4
    <3> QED BY <1>1, <1>5, <3>1, <3>2 DEF Loading, agentVars
  <2>5. \A x \in Agent \ {a} :
          (Untouched(x) /\ down[x] = <<DoCommand(c)>>)' \/ Loading(x, c)'
    BY <1>1, <1>2, <1>4, <1>5
       DEF LoadedBy, Untouched, Loading, DoCommand, DoStart, DoUpdate, agentVars
  <2>6. dirBatch'[D] = 0 /\ dirIt'[D] = 0 /\ command'[D] = <<>> /\ commands' > 0
    BY <1>1, <1>3, <1>5 DEF LoadedBy
  <2> QED BY <1>5, <2>1, <2>2, <2>3, <2>4, <2>5, <2>6 DEF LoadedBy
<1>6. CASE /\ readyCtr'[D] = 0 /\ dirIt'[D] = 0
           /\ \A x \in Agent : /\ ready[x] /\ down'[x] = Append(down[x], Nv)
                               /\ up'[x] = <<>> /\ (x # a => up[x] = <<>>)
  <2>1. \A x \in Agent : Loading(x, c) /\ acks[x] = 0 /\ down[x] = <<>>
    BY <1>6 DEF LoadedBy, Untouched, Loading
  <2>2. NoBlocks'
    <3> SUFFICES ASSUME NEW x \in Agent, NEW y \in Agent
                 PROVE  acks[x] = 0 /\ peer[x][y] = <<>>
      BY <1>1 DEF NoBlocks, agentVars
    <3>1. ~Has(peer[x][y], Block) /\ ~Has(peer[x][y], Ack)
      BY <2>1, NothingOwed DEF LoadedBy
    <3>2. peer[x][y] \in Seq({Block, Ack})
      BY DEF LoadedBy, AcksCounted
    <3>3. peer[x][y] # <<>> => Has(peer[x][y], Block) \/ Has(peer[x][y], Ack)
      <4> SUFFICES ASSUME peer[x][y] # <<>>
                   PROVE  Has(peer[x][y], Block) \/ Has(peer[x][y], Ack)
        OBVIOUS
      <4>1. Head(peer[x][y]) \in {Block, Ack}
        BY <3>2, TailPlaces
      <4> QED BY <3>2, <4>1, HasTail
    <3> QED BY <2>1, <3>1, <3>3
  <2>3. \A x \in Agent : /\ First(x)' /\ ready'[x] /\ down'[x] = <<Nv>> /\ up'[x] = <<>>
                         /\ state'[x] = IF c = "START" THEN "LEAVING_NO_PROCESS"
                                                       ELSE "NO_PROCESS"
    BY <1>1, <1>2, <1>6, <2>1, OneMessage DEF LoadedBy, First, Clean, Loading, agentVars
  <2>4. /\ dirBatch'[D] = 0 /\ command'[D] = <<>> /\ commands' > 0
        /\ Unused(-1)'
    BY <1>1, <1>3 DEF LoadedBy, Unused
  <2>5. CASE c = "START"
    <3>1. \A x \in Agent : Released(x)' /\ Clean(x)' /\ batch'[x] = dirBatch'[D]
      BY <1>6, <2>3, <2>4, <2>5 DEF Released, First, Clean, Nv
    <3>2. AllReleased'
      BY <1>6, <2>2, <2>4, <3>1 DEF AllReleased
    <3>3. AllReleased' => Computes'
      BY BeginsComputing, PTL
    <3> QED BY <3>2, <3>3
  <2>6. CASE c # "START"
    <3>1. \A x \in Agent : Skipping(x)'
      BY <2>3, <2>6 DEF Skipping, First, Clean, Nv
    <3>2. AllSkip'
      BY <1>6, <2>2, <2>4, <3>1 DEF AllSkip
    <3>3. AllSkip' => Skips'
      BY BeginsSkipping, PTL
    <3> QED BY <3>2, <3>3
  <2> QED BY <2>5, <2>6
<1> QED BY <1>1, <1>2, <1>5, <1>6, ReadyArrives DEF LoadedBy

-----------------------------------------------------------------------------
(* Commands.                                                               *)

(* No agent has said that it is ready.                                     *)
NobodyReady == readyCtr[D] = 0 /\ \A a \in Agent : ~ready[a]

LEMMA NobodyIsReady == NobodyReady => ReadyCounted
<1> SUFFICES ASSUME NobodyReady PROVE ReadyCounted
  OBVIOUS
<1>1. Counted = {} /\ readyCtr[D] = 0
  BY DEF Counted, NobodyReady
<1>2. Cardinality(Counted) = 0
  BY <1>1, NobodyCounted
<1>3. 0 < NumAgents
  BY AgentsFinite, NobodyCounted, SystemAssumption
<1> QED BY <1>1, <1>2, <1>3 DEF ReadyCounted

LEMMA NothingSent == NoBlocks => AcksCounted
<1> SUFFICES ASSUME NoBlocks, NEW a \in Agent, NEW b \in Agent
             PROVE  /\ acks[a] = Cardinality(Owed(a))
                    /\ peer[a][b] \in Seq({Block, Ack})
                    /\ peer[a][a] = <<>>
                    /\ Once(peer[a][b], Block) /\ Once(peer[a][b], Ack)
                    /\ ~(Has(peer[a][b], Block) /\ Has(peer[b][a], Ack))
  BY DEF AcksCounted
<1>1. \A x, y \in Agent : peer[x][y] = <<>> /\ acks[x] = 0
  BY DEF NoBlocks
<1>2. Owed(a) = {}
  BY <1>1, EmptyQueue DEF Owed
<1>3. Cardinality(Owed(a)) = 0
  BY <1>2, NobodyCounted
<1>4. <<>> \in Seq({Block, Ack})
  OBVIOUS
<1> QED BY <1>1, <1>3, <1>4, EmptyQueue

(* When nothing is on its way the system is unloaded or settled.           *)
LEMMA RestIs ==
  ASSUME Setting, TypeOK, LockInv, AtRest
  PROVE  /\ command[D] = <<>>
         /\ \/ Unloaded
            \/ Settled /\ \A a \in Agent : Idle(a) /\ down[a] = <<>> /\ up[a] = <<>>
<1>1. /\ command[D] = <<>>
      /\ \A a \in Agent : /\ state[a] \in {"NO_PROCESS", "IDLE"}
                          /\ up[a] = <<>> /\ down[a] = <<>>
      /\ \A a, b \in Agent : peer[a][b] = <<>>
  BY Alone DEF AtRest
<1>2. PICK z \in Agent : TRUE
  BY SystemAssumption
<1>3. ~Loads
  <2> SUFFICES ASSUME NEW c \in {"START", "UPDATE"}, LoadedBy(c) PROVE FALSE
    BY DEF Loads
  <2>1. \A a \in Agent : Owed(a) = {}
    BY <1>1, EmptyQueue DEF Owed
  <2>2. \A a \in Agent : acks[a] = 0
    BY <2>1, NobodyCounted DEF LoadedBy, AcksCounted
  <2>3. \A a \in Agent : ready[a] /\ up[a] = <<>>
    <3> SUFFICES ASSUME NEW a \in Agent PROVE ready[a]
      BY <1>1
    <3>1. <<DoCommand(c)>> # <<>>
      BY OneMessage
    <3>2. down[a] = <<>> /\ acks[a] = 0
      BY <1>1, <2>2
    <3>3. Loading(a, c)
      BY <3>1, <3>2 DEF LoadedBy
    <3> QED BY <3>2, <3>3 DEF Loading
  <2>4. Counted = Agent
    BY <2>3 DEF Counted
  <2>5. Cardinality(Counted) = NumAgents /\ NumAgents \in Nat
    BY <2>4, AgentsFinite, NumAgentsType
  <2> QED BY <2>5 DEF LoadedBy, ReadyCounted
<1>4. ~Updates
  BY <1>1, <1>2, OneMessage, TwoMessages DEF Updates, Updating, Leaving
<1>5. ~Computes
  BY <1>1, <1>2 DEF Computes, Released, Working, Waiting, Continuing
<1>6. ~Skips
  BY <1>1, <1>2, OneMessage DEF Skips, Skipping, Skipped
<1>7. Settled => \A a \in Agent : Idle(a)
  BY <1>1 DEF Settled, Leaving
<1> QED BY <1>1, <1>3, <1>4, <1>5, <1>6, <1>7 DEF LockInv

LEMMA CommandComes ==
  ASSUME Setting, TypeOK, LockInv, NEW c \in Commands, ClientCommand(c)
  PROVE  Unloaded' \/ Settled'
<1>1. /\ command[D] = <<>>
      /\ \/ Unloaded
         \/ Settled /\ \A a \in Agent : Idle(a) /\ down[a] = <<>> /\ up[a] = <<>>
  BY RestIs DEF ClientCommand
<1>2. UNCHANGED <<agentVars, dirVars, up, down, link, peer>> /\ commands' = commands + 1
  BY DEF ClientCommand
<1>3. command'[D] = <<c>>
  BY <1>1, Alone, OneMessage DEF ClientCommand
<1>4. commands \in Nat
  BY BoundAssumption DEF TypeOK
<1>5. CASE Unloaded
  <2>1. commands' > 0
    BY <1>2, <1>4
  <2>2. Unused(-1)' /\ NoBlocks'
    BY <1>2, <1>5 DEF Unloaded, Unused, NoBlocks, agentVars, dirVars
  <2>3. \A a \in Agent : First(a)' /\ Untouched(a)' /\ down'[a] = <<>>
    BY <1>2, <1>5 DEF Unloaded, First, Clean, Untouched, agentVars
  <2> QED BY <1>2, <1>3, <1>5, <2>1, <2>2, <2>3 DEF Unloaded, dirVars
<1>6. CASE Settled /\ \A a \in Agent : Idle(a) /\ down[a] = <<>> /\ up[a] = <<>>
  <2>1. c = "START"
    <3>1. PICK z \in Agent : TRUE
      BY SystemAssumption
    <3>2. state[z] # "NO_PROCESS"
      BY <1>6 DEF Idle
    <3> QED BY <3>2, ParameterAssumption DEF ClientCommand
  <2>2. commands' > 1 /\ commands' > 0
    BY <1>2, <1>4, <1>6 DEF Settled
  <2>3. Unused(-1)' /\ NoBlocks'
    BY <1>2, <1>6 DEF Settled, Unused, NoBlocks, agentVars, dirVars
  <2>4. \A a \in Agent : Idle(a)' /\ down'[a] = <<>> /\ up'[a] = <<>>
    BY <1>2, <1>6 DEF Idle, Clean, agentVars, dirVars
  <2> QED BY <1>2, <1>3, <1>6, <2>1, <2>2, <2>3, <2>4 DEF Settled, dirVars
<1> QED BY <1>1, <1>5, <1>6

(* The directory passes the command on.                                    *)
LEMMA CommandGoes ==
  ASSUME Setting, TypeOK, TypeOK', LockInv, NEW d \in Directory, DirCommand(d)
  PROVE  Loads' \/ Settled'
<1>1. d = D /\ D \in Directory /\ command[D] # <<>>
  BY Alone DEF DirCommand
<1>2. UNCHANGED <<agentVars, dirVars, up, link, peer, envVars>>
  BY DEF DirCommand
<1>3. ASSUME NEW c \in {"START", "UPDATE"}, command[D] = <<c>>
      PROVE  /\ command'[D] = <<>>
             /\ \A a \in Agent : down'[a] = Append(down[a], DoCommand(c))
  <2>1. command'[D] = <<>>
    BY <1>1, <1>3, OneMessage DEF DirCommand, TypeOK
  <2>2. down' = ToAgents(D, DoCommand(c))
    BY <1>1, <1>3, OneMessage DEF DirCommand, DoCommand, DoStart, DoUpdate
  <2> QED BY <2>1, <2>2, Published
<1>4. CASE Unloaded
  <2>1. PICK c \in {"START", "UPDATE"} : command[D] = <<c>>
    BY <1>1, <1>4, ParameterAssumption DEF Unloaded
  <2>2. /\ command'[D] = <<>>
        /\ \A a \in Agent : down'[a] = <<DoCommand(c)>>
    BY <1>3, <1>4, <2>1, OneMessage DEF Unloaded
  <2>3. NoBlocks' /\ Unused(-1)' /\ commands' > 0
    BY <1>1, <1>2, <1>4 DEF Unloaded, Unused, NoBlocks, agentVars, dirVars, envVars
  <2>4. AcksCounted'
    <3>1. NoBlocks' => AcksCounted'
      BY NothingSent, PTL
    <3> QED BY <2>3, <3>1
  <2>5. \A a \in Agent : First(a)' /\ Untouched(a)' /\ ~ready'[a]
    BY <1>2, <1>4 DEF Unloaded, First, Clean, Untouched, agentVars
  <2>6. ReadyCounted'
    <3>1. NobodyReady'
      BY <1>2, <1>4, <2>5 DEF Unloaded, NobodyReady, dirVars
    <3>2. NobodyReady' => ReadyCounted'
      BY NobodyIsReady, PTL
    <3> QED BY <3>1, <3>2
  <2>7. \A a \in Agent : (down[a] = <<DoCommand(c)>>)'
    BY <2>2 DEF DoCommand, DoStart, DoUpdate
  <2>8. LoadedBy(c)'
    BY <1>2, <1>4, <2>2, <2>3, <2>4, <2>5, <2>6, <2>7 DEF LoadedBy, Unloaded, dirVars
  <2> QED BY <2>8 DEF Loads
<1>5. CASE Settled
  <2>1. /\ command[D] = <<"START">>
        /\ \A a \in Agent : Idle(a) /\ down[a] = <<>> /\ up[a] = <<>>
    BY <1>1, <1>5 DEF Settled
  <2>2. command'[D] = <<>> /\ \A a \in Agent : down'[a] = <<DoStart>>
    BY <1>3, <2>1, OneMessage DEF DoCommand
  <2>3. NoBlocks' /\ Unused(-1)' /\ commands' > 0
    BY <1>1, <1>2, <1>5 DEF Settled, Unused, NoBlocks, agentVars, dirVars, envVars
  <2>4. \A a \in Agent : Idle(a)'
    BY <1>2, <2>1 DEF Idle, Clean, agentVars, dirVars
  <2>5. \A a \in Agent : (down[a] = <<DoStart>>)'
    BY <2>2 DEF DoStart
  <2> QED BY <1>2, <1>5, <2>2, <2>3, <2>4, <2>5 DEF Settled, dirVars
<1> QED BY <1>1, <1>4, <1>5
     DEF LockInv, Loads, LoadedBy, Updates, Computes, Skips

-----------------------------------------------------------------------------
(* Between two batches.                                                    *)

(* start_leaving_idle: HAVE_UPDATE goes out once.                          *)
LEMMA Asks ==
  ASSUME TypeOK, NEW a \in Agent, Idle(a), StartLeavingIdle(a)
  PROVE  /\ asked'[a] /\ (up'[a] = <<>> \/ up'[a] = <<Wake>>)
         /\ \A x \in Agent \ {a} : up'[x] = up[x] /\ asked'[x] = asked[x]
<1>1. up \in [Agent -> Seq(ToDirectory)] /\ asked \in [Agent -> BOOLEAN]
  BY DEF TypeOK
<1>2. Msg("HAVE_UPDATE", batch[a]) = Wake
  BY DEF Idle, Wake
<1>3. /\ asked' = [asked EXCEPT ![a] = TRUE]
      /\ up' = IF asked[a] THEN up ELSE [up EXCEPT ![a] = Append(@, Wake)]
  BY <1>2 DEF StartLeavingIdle, Pushed
<1>4. up[a] = <<>> \/ (up[a] = <<Wake>> /\ asked[a])
  BY DEF Idle
<1>5. up'[a] = <<>> \/ up'[a] = <<Wake>>
  BY <1>1, <1>3, <1>4, OneMessage
<1>6. asked'[a]
  BY <1>1, <1>3
<1>7. \A x \in Agent \ {a} : up'[x] = up[x] /\ asked'[x] = asked[x]
  BY <1>1, <1>3
<1> QED BY <1>5, <1>6, <1>7

(* Agent a stays idle, takes what it was sent or not, and may have asked;  *)
(* all else is as it was.                                                  *)
LEMMA SettledStays ==
  ASSUME Settled, NEW a \in Agent, Idle(a)', down'[a] \in {<<>>, <<DoStart>>},
         \A x \in Agent \ {a} : /\ up'[x] = up[x] /\ asked'[x] = asked[x]
                                /\ down'[x] = down[x] /\ state'[x] = state[x]
                                /\ it'[x] = it[x] /\ batch'[x] = batch[x]
                                /\ needed'[x] = needed[x],
         UNCHANGED <<ready, acks, peer, dirVars, command, commands>>,
         command[D] = <<>>
  PROVE  Settled'
<1>1. \A x \in Agent \ {a} :
        \/ Leaving(x)' /\ down'[x] = <<Msg("SYNC", 0)>>
        \/ Idle(x)' /\ down'[x] \in {<<>>, <<DoStart>>}
  <2> SUFFICES ASSUME NEW x \in Agent \ {a}
               PROVE  \/ Leaving(x)' /\ down'[x] = <<Msg("SYNC", 0)>>
                      \/ Idle(x)' /\ down'[x] \in {<<>>, <<DoStart>>}
    OBVIOUS
  <2>1. Leaving(x) => Leaving(x)'
    BY DEF Leaving, dirVars
  <2>2. Idle(x) => Idle(x)'
    BY DEF Idle, Clean, Wake, dirVars
  <2> QED BY <2>1, <2>2 DEF Settled
<1>2. \A x \in Agent : \/ (Leaving(x) /\ down[x] = <<Msg("SYNC", 0)>>)'
                       \/ (Idle(x) /\ down[x] \in {<<>>, <<DoStart>>})'
  BY <1>1 DEF DoStart, Msg
<1>3. Unused(-1)' /\ NoBlocks'
  BY DEF Settled, Unused, NoBlocks, dirVars
<1> QED BY <1>2, <1>3 DEF Settled, dirVars

LEMMA UpdatesStay ==
  ASSUME Updates, NEW a \in Agent, ReadyCounted',
         (Idle(a)' /\ down'[a] \in {<<Wake>>, <<DoStart, Wake>>}) \/ Updating(a)',
         \A x \in Agent \ {a} : /\ up'[x] = up[x] /\ asked'[x] = asked[x]
                                /\ down'[x] = down[x] /\ state'[x] = state[x]
                                /\ it'[x] = it[x] /\ batch'[x] = batch[x]
                                /\ needed'[x] = needed[x] /\ ready'[x] = ready[x],
         UNCHANGED <<acks, peer, dirIt, dirBatch, syncCtr, dormantSum, agentsIdle,
                     command, commands>>
  PROVE  Updates'
<1>1. \A x \in Agent \ {a} :
        \/ Leaving(x)' /\ down'[x] = <<Msg("SYNC", 0), Wake>>
        \/ Idle(x)' /\ down'[x] \in {<<Wake>>, <<DoStart, Wake>>}
        \/ Updating(x)'
  <2> SUFFICES ASSUME NEW x \in Agent \ {a}
               PROVE  \/ Leaving(x)' /\ down'[x] = <<Msg("SYNC", 0), Wake>>
                      \/ Idle(x)' /\ down'[x] \in {<<Wake>>, <<DoStart, Wake>>}
                      \/ Updating(x)'
    OBVIOUS
  <2>1. Leaving(x) => Leaving(x)'
    BY DEF Leaving
  <2>2. Idle(x) => Idle(x)'
    BY DEF Idle, Clean, Wake
  <2>3. Updating(x) => Updating(x)'
    BY DEF Updating, Clean, Wake, ReadyNvNe
  <2> QED BY <2>1, <2>2, <2>3 DEF Updates
<1>2. \A x \in Agent : \/ (Leaving(x) /\ down[x] = <<Msg("SYNC", 0), Wake>>)'
                       \/ (Idle(x) /\ down[x] \in {<<Wake>>, <<DoStart, Wake>>})'
                       \/ Updating(x)'
  BY <1>1 DEF DoStart, Msg, Wake
<1>3. Unused(-1)' /\ NoBlocks'
  BY DEF Updates, Unused, NoBlocks
<1> QED BY <1>2, <1>3 DEF Updates

(* START between two batches: the agent asks for the next one.             *)
LEMMA IdleStarts ==
  ASSUME TypeOK, NEW a \in Agent, Idle(a), RecvDoStart(a),
         \/ Settled /\ down[a] = <<DoStart>>
         \/ Updates /\ down[a] = <<DoStart, Wake>>
  PROVE  Settled' \/ Updates'
<1>1. state[a] = "IDLE" /\ ~ready[a]
  BY DEF Idle
<1>2. Take(a) /\ StartLeavingIdle(a)
  BY <1>1 DEF RecvDoStart
<1>3. UNCHANGED <<state, acks, ready, peer, it, batch, needed, dirVars, command, envVars>>
  BY <1>1 DEF RecvDoStart
<1>4. down \in [Agent -> Seq(ToAgent)] /\ Wake' = Wake
  BY <1>3 DEF TypeOK, Wake, dirVars
<1>5. Idle(a)'
  BY <1>2, <1>3, <1>4, Asks DEF Idle, Clean, dirVars
<1>6. \A x \in Agent \ {a} : /\ up'[x] = up[x] /\ asked'[x] = asked[x]
                             /\ down'[x] = down[x]
  BY <1>2, <1>4, Asks DEF Take
<1>7. CASE Settled /\ down[a] = <<DoStart>>
  <2>1. down'[a] = <<>>
    BY <1>2, <1>4, <1>7, OneMessage DEF Take
  <2>2. command[D] = <<>>
    BY <1>7, OneMessage DEF Settled
  <2> QED BY <1>3, <1>5, <1>6, <1>7, <2>1, <2>2, SettledStays DEF envVars
<1>8. CASE Updates /\ down[a] = <<DoStart, Wake>>
  <2>1. down'[a] = <<Wake>>
    BY <1>2, <1>4, <1>8, TwoMessages DEF Take
  <2>2. ReadyCounted'
    <3>1. (ready[a] /\ up[a] = <<>>) <=> (ready'[a] /\ up'[a] = <<>>)
      BY <1>1, <1>3
    <3>2. \A x \in Agent \ {a} : ready'[x] = ready[x] /\ up'[x] = up[x]
      BY <1>3, <1>6
    <3>3. ReadyCounted /\ UNCHANGED readyCtr
      BY <1>3, <1>8 DEF Updates, dirVars
    <3> QED BY <3>1, <3>2, <3>3, CountedStays
  <2>3. Idle(a)' /\ down'[a] \in {<<Wake>>, <<DoStart, Wake>>}
    BY <1>5, <2>1
  <2>4. UNCHANGED <<acks, peer, dirIt, dirBatch, syncCtr, dormantSum, agentsIdle,
                    command, commands>>
    BY <1>3 DEF dirVars, envVars
  <2>5. \A x \in Agent \ {a} : /\ up'[x] = up[x] /\ asked'[x] = asked[x]
                               /\ down'[x] = down[x] /\ state'[x] = state[x]
                               /\ it'[x] = it[x] /\ batch'[x] = batch[x]
                               /\ needed'[x] = needed[x] /\ ready'[x] = ready[x]
    BY <1>3, <1>6
  <2> QED BY <1>8, <2>2, <2>3, <2>4, <2>5, UpdatesStay
<1> QED BY <1>7, <1>8

(* An edge wakes an idle agent.  No START is about to be passed on then.   *)
LEMMA IdleGetsEdge ==
  ASSUME Setting, TypeOK, NEW a \in Agent, Settled \/ Updates, Idle(a), RecvUpdateEdge(a)
  PROVE  Settled' \/ Updates'
<1>1. state[a] = "IDLE" /\ ~ready[a]
  BY DEF Idle
<1>2. StartLeavingIdle(a)
  BY <1>1 DEF RecvUpdateEdge
<1>3. UNCHANGED <<state, acks, ready, peer, it, batch, needed, down, dirVars,
                  command, commands>>
  BY <1>1 DEF RecvUpdateEdge
<1>4. Wake' = Wake
  BY <1>3 DEF Wake, dirVars
<1>5. Idle(a)'
  BY <1>2, <1>3, <1>4, Asks DEF Idle, Clean, dirVars
<1>6. \A x \in Agent \ {a} : /\ up'[x] = up[x] /\ asked'[x] = asked[x]
                             /\ down'[x] = down[x]
  BY <1>2, <1>3, Asks
<1>7. CASE Settled
  <2>1. command[D] = <<>>
    <3>1. "UPDATE_EDGE" \in EdgeKinds /\ edges < MaxEdges
      BY DEF RecvUpdateEdge
    <3>2. MaxEdges # 0
      BY <3>1, BoundAssumption DEF TypeOK
    <3>3. MaxCommands <= 1
      BY <3>1, <3>2 DEF Setting, CommandsMeetNoEdge
    <3>4. ~(commands > 1)
      BY <3>3, BoundAssumption DEF TypeOK
    <3> QED BY <1>7, <3>4 DEF Settled
  <2>2. down'[a] \in {<<>>, <<DoStart>>}
    BY <1>1, <1>3, <1>7 DEF Settled, Leaving
  <2>3. \A x \in Agent \ {a} : /\ up'[x] = up[x] /\ asked'[x] = asked[x]
                               /\ down'[x] = down[x] /\ state'[x] = state[x]
                               /\ it'[x] = it[x] /\ batch'[x] = batch[x]
                               /\ needed'[x] = needed[x]
    BY <1>3, <1>6
  <2>4. UNCHANGED <<ready, acks, peer, dirVars, command, commands>>
    BY <1>3
  <2> QED BY <1>5, <1>7, <2>1, <2>2, <2>3, <2>4, SettledStays
<1>8. CASE Updates
  <2>1. Idle(a)' /\ down'[a] \in {<<Wake>>, <<DoStart, Wake>>}
    BY <1>1, <1>3, <1>5, <1>8 DEF Updates, Leaving, Updating
  <2>2. ReadyCounted'
    <3>1. (ready[a] /\ up[a] = <<>>) <=> (ready'[a] /\ up'[a] = <<>>)
      BY <1>1, <1>3
    <3>2. \A x \in Agent \ {a} : ready'[x] = ready[x] /\ up'[x] = up[x]
      BY <1>3, <1>6
    <3>3. ReadyCounted /\ UNCHANGED readyCtr
      BY <1>3, <1>8 DEF Updates, dirVars
    <3> QED BY <3>1, <3>2, <3>3, CountedStays
  <2>4. UNCHANGED <<acks, peer, dirIt, dirBatch, syncCtr, dormantSum, agentsIdle,
                    command, commands>>
    BY <1>3 DEF dirVars
  <2>5. \A x \in Agent \ {a} : /\ up'[x] = up[x] /\ asked'[x] = asked[x]
                               /\ down'[x] = down[x] /\ state'[x] = state[x]
                               /\ it'[x] = it[x] /\ batch'[x] = batch[x]
                               /\ needed'[x] = needed[x] /\ ready'[x] = ready[x]
    BY <1>3, <1>6
  <2> QED BY <1>8, <2>1, <2>2, <2>4, <2>5, UpdatesStay
<1> QED BY <1>7, <1>8

(* The last SYNC of a batch: the agent is idle, and asks for the next      *)
(* batch if it has edges.                                                  *)
LEMMA BatchLeft ==
  ASSUME Setting, TypeOK, NEW a \in Agent, Leaving(a), RecvSync(a),
         \/ Settled /\ down[a] = <<Msg("SYNC", 0)>>
         \/ Updates /\ down[a] = <<Msg("SYNC", 0), Wake>>
  PROVE  Settled' \/ Updates'
<1>1. state[a] = "WAIT_FOR_SYNC" /\ ~ready[a] /\ up[a] = <<>>
  BY DEF Leaving
<1>2. Head(down[a]).arg = 0
  BY HeadsOfDown
<1>3. Take(a) /\ EndBatch(a)
  BY <1>1, <1>2 DEF RecvSync
<1>4. UNCHANGED <<acks, ready, peer, dirVars, command, envVars>>
  BY <1>1, <1>3 DEF RecvSync, EndBatch
<1>5. /\ down \in [Agent -> Seq(ToAgent)] /\ up \in [Agent -> Seq(ToDirectory)]
      /\ state \in [Agent -> AgentState] /\ it \in [Agent -> -1 .. MaxIt]
      /\ batch \in [Agent -> Batch] /\ needed \in [Agent -> [Round -> Int]]
      /\ asked \in [Agent -> BOOLEAN] /\ pending \in [Agent -> BOOLEAN]
  BY DEF TypeOK
<1>6. batch[a] + 1 = dirBatch[D]
  <2>1. dirBatch \in [Directory -> Batch] /\ D \in Directory
    BY Alone DEF TypeOK
  <2>2. dirBatch[D] \in Nat
    BY <2>1, RoundBatchType
  <2>3. batch[a] = dirBatch[D] - 1
    BY DEF Leaving
  <2> QED BY <2>2, <2>3
<1>7. Msg("HAVE_UPDATE", batch[a] + 1) = Wake /\ Wake' = Wake
  BY <1>4, <1>6 DEF Wake, dirVars
<1>8. /\ state' = [state EXCEPT ![a] = "IDLE"]
      /\ batch' = [batch EXCEPT ![a] = batch[a] + 1]
      /\ it' = [it EXCEPT ![a] = -1]
      /\ needed' = [needed EXCEPT ![a] = [k \in Round |-> 0]]
      /\ asked' = [asked EXCEPT ![a] = pending[a]]
      /\ up' = IF pending[a] THEN [up EXCEPT ![a] = Append(@, Wake)] ELSE up
  BY <1>3, <1>7 DEF EndBatch, Pushed
<1>9. up'[a] = <<>> \/ (up'[a] = <<Wake>> /\ asked'[a])
  BY <1>1, <1>5, <1>8, OneMessage
<1>10. Idle(a)'
  <2>1. state'[a] = "IDLE" /\ batch'[a] = dirBatch'[D] /\ it'[a] = -1 /\ ~ready'[a]
    BY <1>1, <1>4, <1>5, <1>6, <1>8 DEF dirVars
  <2>2. \A k \in Round : needed'[a][k] = 0
    BY <1>5, <1>8
  <2> QED BY <1>7, <1>9, <2>1, <2>2 DEF Idle, Clean
<1>11. \A x \in Agent \ {a} : /\ up'[x] = up[x] /\ asked'[x] = asked[x]
                              /\ down'[x] = down[x] /\ state'[x] = state[x]
                              /\ it'[x] = it[x] /\ batch'[x] = batch[x]
                              /\ needed'[x] = needed[x] /\ ready'[x] = ready[x]
  BY <1>3, <1>4, <1>5, <1>8 DEF Take
<1>12. CASE Settled /\ down[a] = <<Msg("SYNC", 0)>>
  <2>1. down'[a] = <<>>
    BY <1>3, <1>5, <1>12, OneMessage DEF Take
  <2>2. command[D] = <<>>
    BY <1>1, <1>12 DEF Settled, Idle
  <2>3. UNCHANGED <<ready, acks, peer, dirVars, command, commands>>
    BY <1>4 DEF envVars
  <2> QED BY <1>10, <1>11, <1>12, <2>1, <2>2, <2>3, SettledStays
<1>13. CASE Updates /\ down[a] = <<Msg("SYNC", 0), Wake>>
  <2>1. down'[a] = <<Wake>>
    BY <1>3, <1>5, <1>13, TwoMessages DEF Take
  <2>2. ReadyCounted'
    <3>1. (ready[a] /\ up[a] = <<>>) <=> (ready'[a] /\ up'[a] = <<>>)
      BY <1>1, <1>4
    <3>2. \A x \in Agent \ {a} : ready'[x] = ready[x] /\ up'[x] = up[x]
      BY <1>11
    <3>3. ReadyCounted /\ UNCHANGED readyCtr
      BY <1>4, <1>13 DEF Updates, dirVars
    <3> QED BY <3>1, <3>2, <3>3, CountedStays
  <2>3. Idle(a)' /\ down'[a] \in {<<Wake>>, <<DoStart, Wake>>}
    BY <1>10, <2>1
  <2>4. UNCHANGED <<acks, peer, dirIt, dirBatch, syncCtr, dormantSum, agentsIdle,
                    command, commands>>
    BY <1>4 DEF dirVars, envVars
  <2> QED BY <1>11, <1>13, <2>2, <2>3, <2>4, UpdatesStay
<1> QED BY <1>12, <1>13

(* HAVE_UPDATE finds the agent idle.  Its edges are its own, so it is      *)
(* ready at once.                                                          *)
LEMMA UpdateBegins ==
  ASSUME Setting, TypeOK, NEW a \in Agent, Updates, Idle(a), down[a] = <<Wake>>,
         RecvHaveUpdate(a)
  PROVE  Updates'
<1>1. /\ state[a] = "IDLE" /\ ~ready[a] /\ batch[a] = dirBatch[D]
      /\ (up[a] = <<>> \/ up[a] = <<Wake>>)
  BY DEF Idle
<1>2. Head(down[a]).arg = batch[a]
  BY <1>1, HeadsOfDown
<1>3. /\ Take(a) /\ FinalizeGraphBatch(a)
      /\ state' = [state EXCEPT ![a] = "FINALIZE_GRAPH_BATCH"]
      /\ UNCHANGED <<it, batch, needed, dormant, asked, dirVars, command, envVars>>
  BY <1>2 DEF RecvHaveUpdate
<1>4. /\ down \in [Agent -> Seq(ToAgent)] /\ up \in [Agent -> Seq(ToDirectory)]
      /\ state \in [Agent -> AgentState] /\ acks \in [Agent -> Int]
      /\ ready \in [Agent -> BOOLEAN] /\ peer \in [Agent -> [Agent -> Seq(ToPeer)]]
  BY DEF TypeOK
<1>5. SendBlocks(a, {}, 1)
  BY <1>3 DEF FinalizeGraphBatch, Setting
<1>6. acks[a] = 0
  BY DEF Updates, NoBlocks
<1>7. acks' = acks /\ DoneWaitingReadyNvNe(a)
  <2>1. acks[a] + Cardinality({}) = 0
    BY <1>6, NobodyCounted
  <2>2. acks' = [acks EXCEPT ![a] = acks[a] + Cardinality({})]
    BY <1>5 DEF SendBlocks
  <2>3. DoneWaitingReadyNvNe(a)
    BY <1>5, <2>1 DEF SendBlocks
  <2>4. acks' = [acks EXCEPT ![a] = acks[a]]
    BY <1>6, <2>1, <2>2
  <2> QED BY <1>4, <2>3, <2>4
<1>8. peer' = peer
  BY <1>4, <1>5 DEF SendBlocks, Sent
<1>9. /\ up' = [up EXCEPT ![a] = Append(@, ReadyNvNe)]
      /\ ready' = [ready EXCEPT ![a] = TRUE]
  BY <1>7 DEF DoneWaitingReadyNvNe, Pushed, ReadyNvNe
<1>10. up'[a] = <<ReadyNvNe>> \/ up'[a] = <<Wake, ReadyNvNe>>
  <2>1. up'[a] = Append(up[a], ReadyNvNe)
    BY <1>4, <1>9
  <2>2. CASE up[a] = <<>>
    BY <2>1, <2>2, OneMessage
  <2>3. CASE up[a] = <<Wake>>
    BY <2>1, <2>3, TwoMessages
  <2> QED BY <1>1, <2>2, <2>3
<1>11. down'[a] = <<>> /\ state'[a] = "FINALIZE_GRAPH_BATCH" /\ ready'[a]
  BY <1>3, <1>4, <1>9, OneMessage DEF Take
<1>12. Wake' = Wake /\ ReadyNvNe' = ReadyNvNe
  BY <1>3 DEF Wake, ReadyNvNe, dirVars
<1>13. Updating(a)'
  <2>1. Clean(a)' /\ batch'[a] = dirBatch'[D]
    BY <1>3 DEF Idle, Clean, dirVars
  <2> QED BY <1>10, <1>11, <1>12, <2>1 DEF Updating
<1>14. \A x \in Agent \ {a} : /\ up'[x] = up[x] /\ asked'[x] = asked[x]
                              /\ down'[x] = down[x] /\ state'[x] = state[x]
                              /\ it'[x] = it[x] /\ batch'[x] = batch[x]
                              /\ needed'[x] = needed[x] /\ ready'[x] = ready[x]
  BY <1>3, <1>4, <1>9 DEF Take
<1>15. ReadyCounted'
  <2>1. (ready[a] /\ up[a] = <<>>) <=> (ready'[a] /\ up'[a] = <<>>)
    BY <1>1, <1>10, OneMessage, TwoMessages
  <2>2. \A x \in Agent \ {a} : ready'[x] = ready[x] /\ up'[x] = up[x]
    BY <1>14
  <2>3. ReadyCounted /\ UNCHANGED readyCtr
    BY <1>3 DEF Updates, dirVars
  <2> QED BY <2>1, <2>2, <2>3, CountedStays
<1>16. UNCHANGED <<acks, peer, dirIt, dirBatch, syncCtr, dormantSum, agentsIdle,
                   command, commands>>
  BY <1>3, <1>7, <1>8 DEF dirVars, envVars
<1> QED BY <1>13, <1>14, <1>15, <1>16, UpdatesStay

(* The first HAVE_UPDATE of a batch is published.                          *)
LEMMA UpdateOffered ==
  ASSUME Setting, TypeOK, TypeOK', NEW a \in Agent, Settled, Idle(a), up[a] = <<Wake>>,
         DirHaveUpdate(a)
  PROVE  Updates'
<1>1. /\ up' = [up EXCEPT ![a] = Tail(@)]
      /\ UNCHANGED <<agentVars, peer, command, envVars>>
      /\ OfferUpdate(D, Head(up[a]).arg, link)
  BY Alone DEF DirHaveUpdate, FromAgent
<1>2. Head(up[a]).arg = dirBatch[D] /\ agentsIdle[D]
  BY HeadsOfUp DEF Settled
<1>3. /\ down' = ToAgents(D, Wake)
      /\ agentsIdle' = [agentsIdle EXCEPT ![D] = FALSE]
      /\ UNCHANGED <<readyCtr, dirIt, dirBatch, syncCtr, dormantSum>>
  BY <1>1, <1>2 DEF OfferUpdate, Wake
<1>4. \A x \in Agent : down'[x] = Append(down[x], Wake)
  BY <1>3, Published
<1>5. ~agentsIdle'[D]
  BY <1>3, Alone DEF TypeOK
<1>6. up'[a] = <<>> /\ \A x \in Agent \ {a} : up'[x] = up[x]
  BY <1>1, OneMessage DEF TypeOK
<1>7. command[D] = <<>>
  BY OneMessage DEF Settled
<1>8. \A x \in Agent : /\ Leaving(x) => Leaving(x)'
                       /\ Idle(x) => Idle(x)'
  <2> SUFFICES ASSUME NEW x \in Agent
               PROVE  (Leaving(x) => Leaving(x)') /\ (Idle(x) => Idle(x)')
    OBVIOUS
  <2>1. up'[x] = up[x] \/ up'[x] = <<>>
    BY <1>6
  <2>2. Leaving(x) => Leaving(x)'
    BY <1>1, <1>3, <2>1 DEF Leaving, agentVars
  <2>3. Idle(x) => Idle(x)'
    BY <1>1, <1>3, <2>1 DEF Idle, Clean, Wake, agentVars
  <2> QED BY <2>2, <2>3
<1>9. \A x \in Agent : \/ (Leaving(x) /\ down[x] = <<Msg("SYNC", 0), Wake>>)'
                       \/ (Idle(x) /\ down[x] \in {<<Wake>>, <<DoStart, Wake>>})'
  <2> SUFFICES ASSUME NEW x \in Agent
               PROVE  \/ (Leaving(x) /\ down[x] = <<Msg("SYNC", 0), Wake>>)'
                      \/ (Idle(x) /\ down[x] \in {<<Wake>>, <<DoStart, Wake>>})'
    OBVIOUS
  <2>1. Wake' = Wake /\ DoStart' = DoStart
    BY <1>3 DEF Wake, DoStart
  <2>2. CASE Leaving(x) /\ down[x] = <<Msg("SYNC", 0)>>
    <3>1. down'[x] = <<Msg("SYNC", 0), Wake>>
      BY <1>4, <2>2, TwoMessages
    <3> QED BY <1>8, <2>1, <2>2, <3>1
  <2>3. CASE Idle(x) /\ down[x] \in {<<>>, <<DoStart>>}
    <3>1. down'[x] \in {<<Wake>>, <<DoStart, Wake>>}
      <4>1. down'[x] = Append(down[x], Wake)
        BY <1>4
      <4>2. CASE down[x] = <<>>
        BY <4>1, <4>2, OneMessage
      <4>3. CASE down[x] = <<DoStart>>
        BY <4>1, <4>3, TwoMessages
      <4> QED BY <2>3, <4>2, <4>3
    <3> QED BY <1>8, <2>1, <2>3, <3>1
  <2> QED BY <2>2, <2>3 DEF Settled
<1>10. Unused(-1)' /\ NoBlocks'
  BY <1>1, <1>3 DEF Settled, Unused, NoBlocks, agentVars
<1>11. ReadyCounted'
  <2>1. NobodyReady'
    BY <1>1, <1>3 DEF NobodyReady, Settled, Leaving, Idle, agentVars
  <2>2. NobodyReady' => ReadyCounted'
    BY NobodyIsReady, PTL
  <2> QED BY <2>1, <2>2
<1> QED BY <1>1, <1>3, <1>5, <1>7, <1>9, <1>10, <1>11 DEF Settled, Updates, envVars

(* A further HAVE_UPDATE for it is dropped.                                *)
LEMMA UpdateDropped ==
  ASSUME Setting, TypeOK, NEW a \in Agent, Updates, DirHaveUpdate(a),
         \/ Idle(a) /\ up[a] = <<Wake>>
         \/ Updating(a) /\ up[a] = <<Wake, ReadyNvNe>>
  PROVE  Updates'
<1>1. /\ up' = [up EXCEPT ![a] = Tail(@)]
      /\ UNCHANGED <<agentVars, peer, command, envVars>>
      /\ OfferUpdate(D, Head(up[a]).arg, link)
  BY Alone DEF DirHaveUpdate, FromAgent
<1>2. down' = down /\ UNCHANGED <<readyCtr, dirIt, dirBatch, syncCtr, dormantSum>>
  BY <1>1 DEF OfferUpdate, Updates
<1>3. agentsIdle' = agentsIdle
  BY <1>1, Alone DEF OfferUpdate, Updates, TypeOK
<1>4. up \in [Agent -> Seq(ToDirectory)] /\ Wake' = Wake
  BY <1>2 DEF TypeOK, Wake
<1>5. \A x \in Agent \ {a} : /\ up'[x] = up[x] /\ asked'[x] = asked[x]
                             /\ down'[x] = down[x] /\ state'[x] = state[x]
                             /\ it'[x] = it[x] /\ batch'[x] = batch[x]
                             /\ needed'[x] = needed[x] /\ ready'[x] = ready[x]
  BY <1>1, <1>2, <1>4 DEF agentVars
<1>6. UNCHANGED <<acks, peer, dirIt, dirBatch, syncCtr, dormantSum, agentsIdle,
                  command, commands>>
  BY <1>1, <1>2, <1>3 DEF agentVars, envVars
<1>7. ReadyCounted /\ UNCHANGED readyCtr
  BY <1>2 DEF Updates
<1>8. CASE Idle(a) /\ up[a] = <<Wake>>
  <2>1. up'[a] = <<>>
    BY <1>1, <1>4, <1>8, OneMessage
  <2>2. Idle(a)'
    BY <1>1, <1>2, <1>8, <2>1 DEF Idle, Clean, agentVars
  <2>3. down'[a] \in {<<Wake>>, <<DoStart, Wake>>}
    BY <1>2, <1>8 DEF Updates, Idle, Leaving, Updating
  <2>4. ReadyCounted'
    <3>1. ~ready[a] /\ ~ready'[a]
      BY <1>1, <1>8 DEF Idle, agentVars
    <3> QED BY <1>5, <1>7, <3>1, CountedStays
  <2> QED BY <1>5, <1>6, <2>2, <2>3, <2>4, UpdatesStay
<1>9. CASE Updating(a) /\ up[a] = <<Wake, ReadyNvNe>>
  <2>1. up'[a] = <<ReadyNvNe>>
    BY <1>1, <1>4, <1>9, TwoMessages
  <2>2. Updating(a)'
    BY <1>1, <1>2, <1>9, <2>1 DEF Updating, Clean, ReadyNvNe, agentVars
  <2>3. ReadyCounted'
    <3>1. up[a] # <<>> /\ up'[a] # <<>>
      BY <1>9, <2>1, OneMessage, TwoMessages
    <3> QED BY <1>5, <1>7, <3>1, CountedStays
  <2> QED BY <1>5, <1>6, <2>2, <2>3, UpdatesStay
<1> QED BY <1>8, <1>9

(* READY_NV_NE after HAVE_UPDATE.                                          *)
LEMMA UpdateIsReady ==
  ASSUME Setting, TypeOK, TypeOK', NEW a \in Agent, Updates, Updating(a),
         up[a] = <<ReadyNvNe>>, DirReadyNvNe(a)
  PROVE  Updates' \/ Computes'
<1>1. CountReady(D) /\ UNCHANGED <<agentVars, peer, command, envVars>>
  BY Alone DEF DirReadyNvNe, FromAgent
<1>2. up' = [up EXCEPT ![a] = <<>>] /\ ready' = ready /\ up[a] # <<>> /\ ready[a]
  BY <1>1, OneMessage DEF DirReadyNvNe, FromAgent, agentVars, Updating
<1>3. UNCHANGED <<dirBatch, syncCtr, dormantSum, agentsIdle, commands>> /\ D \in Directory
  BY <1>1, Alone DEF CountReady, envVars
<1>4. up \in [Agent -> Seq(ToDirectory)]
  BY DEF TypeOK
<1>5. CASE ReadyCounted' /\ UNCHANGED <<down, dirIt>>
  <2>1. Updating(a)'
    BY <1>1, <1>2, <1>3, <1>4, <1>5 DEF Updating, Clean, agentVars
  <2>2. \A x \in Agent \ {a} : /\ up'[x] = up[x] /\ asked'[x] = asked[x]
                               /\ down'[x] = down[x] /\ state'[x] = state[x]
                               /\ it'[x] = it[x] /\ batch'[x] = batch[x]
                               /\ needed'[x] = needed[x] /\ ready'[x] = ready[x]
    BY <1>1, <1>2, <1>4, <1>5 DEF agentVars
  <2>3. UNCHANGED <<acks, peer, dirIt, dirBatch, syncCtr, dormantSum, agentsIdle,
                    command, commands>>
    BY <1>1, <1>3, <1>5 DEF agentVars
  <2> QED BY <1>5, <2>1, <2>2, <2>3, UpdatesStay
<1>6. CASE /\ readyCtr'[D] = 0 /\ dirIt'[D] = 0
           /\ \A x \in Agent : /\ ready[x] /\ down'[x] = Append(down[x], Nv)
                               /\ up'[x] = <<>> /\ (x # a => up[x] = <<>>)
  <2>1. \A x \in Agent : Updating(x)
    BY <1>6 DEF Updates, Leaving, Idle
  <2>2. \A x \in Agent : Released(x)' /\ Clean(x)' /\ batch'[x] = dirBatch'[D]
    BY <1>1, <1>2, <1>3, <1>6, <2>1, OneMessage DEF Updating, Released, Clean, Nv, agentVars
  <2>3. NoBlocks' /\ Unused(-1)' /\ commands' > 0 /\ command'[D] = <<>>
    BY <1>1, <1>3 DEF Updates, NoBlocks, Unused, agentVars
  <2>4. AllReleased'
    BY <1>6, <2>2, <2>3 DEF AllReleased
  <2>5. AllReleased' => Computes'
    BY BeginsComputing, PTL
  <2> QED BY <2>4, <2>5
<1> QED BY <1>1, <1>2, <1>5, <1>6, ReadyArrives DEF Updates

-----------------------------------------------------------------------------
(* Supersteps.                                                             *)

(* A notification is taken.                                                *)
LEMMA NoteTaken ==
  ASSUME NEW k \in Nat, k + 1 \in Round, NEW i, NEW n \in [Agent -> [Round -> Int]],
         NEW p \in [Agent -> [Agent -> Seq(ToPeer)]], NotesIn(k, i, n, p),
         NEW a \in Agent, NEW b \in Agent, p[b][a] # <<>>
  PROVE  NotesIn(k, i, [n EXCEPT ![a] = [n[a] EXCEPT ![k + 1] = @ - 1]],
                 [p EXCEPT ![b][a] = Tail(@)])
<1> DEFINE m == [n EXCEPT ![a] = [n[a] EXCEPT ![k + 1] = @ - 1]]
           q == [p EXCEPT ![b][a] = Tail(@)]
<1>1. p[b][a] = <<Msg("OUT_VN", k + 1)>> /\ i[b] = k /\ a # b
  BY DEF NotesIn
<1>2. Tail(p[b][a]) = <<>>
  BY <1>1, OneMessage
<1>3. \A x, y \in Agent : q[x][y] = IF x = b /\ y = a THEN <<>> ELSE p[x][y]
  BY <1>2
<1>4. \A x \in Agent, r \in Round :
        m[x][r] = IF x = a /\ r = k + 1 THEN n[a][k + 1] - 1 ELSE n[x][r]
  OBVIOUS
<1> HIDE DEF m, q
<1>5. b \notin HeardIn(k, i, p, a) /\ HeardIn(k, i, q, a) = HeardIn(k, i, p, a) \cup {b}
  BY <1>1, <1>3 DEF HeardIn
<1>6. \A x \in Agent \ {a} : HeardIn(k, i, q, x) = HeardIn(k, i, p, x)
  BY <1>3 DEF HeardIn
<1>7. /\ Cardinality(HeardIn(k, i, q, a)) = Cardinality(HeardIn(k, i, p, a)) + 1
      /\ Cardinality(HeardIn(k, i, p, a)) \in Nat
  <2>1. HeardIn(k, i, p, a) \in SUBSET Agent
    BY DEF HeardIn
  <2> QED BY <1>5, <2>1, OneMore, AgentsFinite
<1>8. NumAgents \in Nat
  BY NumAgentsType
<1>9. ASSUME NEW x \in Agent, NEW r \in Round
      PROVE  m[x][r] = IF r # k + 1 THEN 0
                       ELSE (IF i[x] = k THEN NumAgents - 1 ELSE 0)
                              - Cardinality(HeardIn(k, i, q, x))
  <2>1. n[x][r] = IF r # k + 1 THEN 0
                  ELSE (IF i[x] = k THEN NumAgents - 1 ELSE 0)
                         - Cardinality(HeardIn(k, i, p, x))
    BY DEF NotesIn
  <2>2. CASE x = a /\ r = k + 1
    <3> DEFINE c == IF i[a] = k THEN NumAgents - 1 ELSE 0
    <3>1. c \in Int
      BY <1>8
    <3>2. n[a][k + 1] = c - Cardinality(HeardIn(k, i, p, a))
      BY <2>1, <2>2
    <3>3. m[a][k + 1] = n[a][k + 1] - 1
      BY <1>4
    <3> HIDE DEF c
    <3>4. m[a][k + 1] = c - Cardinality(HeardIn(k, i, q, a))
      BY <1>7, <3>1, <3>2, <3>3
    <3> QED BY <2>2, <3>4 DEF c
  <2>3. CASE x # a
    <3>1. HeardIn(k, i, q, x) = HeardIn(k, i, p, x) /\ m[x][r] = n[x][r]
      BY <1>4, <1>6, <2>3
    <3> QED BY <2>1, <3>1
  <2>4. CASE x = a /\ r # k + 1
    BY <1>4, <2>1, <2>4
  <2> QED BY <2>2, <2>3, <2>4
<1>10. ASSUME NEW x \in Agent, NEW y \in Agent, q[x][y] # <<>>
       PROVE  q[x][y] = <<Msg("OUT_VN", k + 1)>> /\ i[x] = k /\ x # y
  <2>1. q[x][y] = p[x][y]
    BY <1>3, <1>10
  <2> QED BY <1>10, <2>1 DEF NotesIn
<1>11. NotesIn(k, i, m, q)
  BY <1>9, <1>10 DEF NotesIn
<1> QED BY <1>11 DEF m, q

(* a runs superstep k and notifies everybody else.                         *)
LEMMA NotesSent ==
  ASSUME NEW k \in Nat, k + 1 \in Round, NEW i \in [Agent -> Int],
         NEW n \in [Agent -> [Round -> Int]],
         NEW p \in [Agent -> [Agent -> Seq(ToPeer)]], NotesIn(k, i, n, p),
         NEW a \in Agent, i[a] # k
  PROVE  NotesIn(k, [i EXCEPT ![a] = k],
                 [n EXCEPT ![a] = [n[a] EXCEPT ![k + 1] = @ + (NumAgents - 1)]],
                 Sent(p, a, Agent \ {a}, Msg("OUT_VN", k + 1)))
<1> DEFINE j == [i EXCEPT ![a] = k]
           m == [n EXCEPT ![a] = [n[a] EXCEPT ![k + 1] = @ + (NumAgents - 1)]]
           q == Sent(p, a, Agent \ {a}, Msg("OUT_VN", k + 1))
<1>1. \A b \in Agent : p[a][b] = <<>>
  BY DEF NotesIn
<1>2. \A x, y \in Agent :
        q[x][y] = IF x = a /\ y # a THEN <<Msg("OUT_VN", k + 1)>> ELSE p[x][y]
  BY <1>1, OneMessage DEF Sent
<1>3. \A x \in Agent : j[x] = IF x = a THEN k ELSE i[x]
  OBVIOUS
<1>4. \A x \in Agent, r \in Round :
        m[x][r] = IF x = a /\ r = k + 1 THEN n[a][k + 1] + (NumAgents - 1) ELSE n[x][r]
  OBVIOUS
<1> HIDE DEF j, m, q
<1>5. \A x \in Agent : HeardIn(k, j, q, x) = HeardIn(k, i, p, x)
  <2> SUFFICES ASSUME NEW x \in Agent, NEW b \in Agent \ {x}
               PROVE  (j[b] = k /\ q[b][x] = <<>>) <=> (i[b] = k /\ p[b][x] = <<>>)
    BY DEF HeardIn
  <2>1. CASE b = a
    <3>1. q[b][x] = <<Msg("OUT_VN", k + 1)>> /\ x \in Agent /\ x # a
      BY <1>2, <2>1
    <3>2. q[b][x] # <<>>
      BY <3>1, OneMessage
    <3> QED BY <2>1, <3>2
  <2>2. CASE b # a
    BY <1>2, <1>3, <2>2
  <2> QED BY <2>1, <2>2
<1>6. \A x \in Agent : Cardinality(HeardIn(k, i, p, x)) \in Nat
  <2>1. \A x \in Agent : HeardIn(k, i, p, x) \in SUBSET Agent
    BY DEF HeardIn
  <2> QED BY <2>1, AgentsFinite
<1>7. NumAgents \in Nat
  BY NumAgentsType
<1>8. ASSUME NEW x \in Agent, NEW r \in Round
      PROVE  m[x][r] = IF r # k + 1 THEN 0
                       ELSE (IF j[x] = k THEN NumAgents - 1 ELSE 0)
                              - Cardinality(HeardIn(k, j, q, x))
  <2>1. n[x][r] = IF r # k + 1 THEN 0
                  ELSE (IF i[x] = k THEN NumAgents - 1 ELSE 0)
                         - Cardinality(HeardIn(k, i, p, x))
    BY DEF NotesIn
  <2>2. HeardIn(k, j, q, x) = HeardIn(k, i, p, x)
    BY <1>5
  <2>3. CASE x = a /\ r = k + 1
    <3> DEFINE h == Cardinality(HeardIn(k, i, p, a))
    <3>1. n[a][k + 1] = 0 - h /\ h \in Nat
      BY <1>6, <2>1, <2>3
    <3>2. m[a][k + 1] = n[a][k + 1] + (NumAgents - 1) /\ j[a] = k
      BY <1>3, <1>4
    <3> HIDE DEF h
    <3>3. m[a][k + 1] = (NumAgents - 1) - h
      BY <1>7, <3>1, <3>2
    <3> QED BY <2>2, <2>3, <3>2, <3>3 DEF h
  <2>4. CASE x # a
    BY <1>3, <1>4, <2>1, <2>2, <2>4
  <2>5. CASE x = a /\ r # k + 1
    BY <1>4, <2>1, <2>5
  <2> QED BY <2>3, <2>4, <2>5
<1>9. ASSUME NEW x \in Agent, NEW y \in Agent, q[x][y] # <<>>
      PROVE  q[x][y] = <<Msg("OUT_VN", k + 1)>> /\ j[x] = k /\ x # y
  <2>1. CASE x = a /\ y # a
    BY <1>2, <1>3, <2>1
  <2>2. CASE ~(x = a /\ y # a)
    <3>1. q[x][y] = p[x][y]
      BY <1>2, <2>2
    <3> QED BY <1>3, <1>9, <3>1 DEF NotesIn
  <2> QED BY <2>1, <2>2
<1>10. NotesIn(k, j, m, q)
  BY <1>8, <1>9 DEF NotesIn
<1> QED BY <1>10 DEF j, m, q

(* After superstep k an agent needs the notifications it has not received. *)
LEMMA NotesLeft ==
  ASSUME NEW k \in Nat, k + 1 \in Round, NEW i, NEW n, NEW p, NotesIn(k, i, n, p),
         NEW a \in Agent, i[a] = k
  PROVE  /\ n[a][k + 1] \in Nat
         /\ n[a][k + 1] = 0 => \A b \in Agent \ {a} : i[b] = k /\ p[b][a] = <<>>
         /\ (\A b \in Agent \ {a} : i[b] = k /\ p[b][a] = <<>>) => n[a][k + 1] = 0
<1> DEFINE H == HeardIn(k, i, p, a)
<1>1. n[a][k + 1] = (NumAgents - 1) - Cardinality(H)
  BY DEF NotesIn
<1>2. H \in SUBSET (Agent \ {a}) /\ H \in SUBSET Agent
  BY DEF HeardIn
<1>3. /\ Cardinality(H) <= NumAgents - 1
      /\ Cardinality(H) + 1 = NumAgents <=> H = Agent \ {a}
  BY <1>2, AllOthers
<1>4. Cardinality(H) \in Nat /\ NumAgents \in Nat
  BY <1>2, AgentsFinite, NumAgentsType
<1>5. H = Agent \ {a} <=> \A b \in Agent \ {a} : i[b] = k /\ p[b][a] = <<>>
  BY DEF HeardIn
<1> HIDE DEF H
<1>6. n[a][k + 1] \in Nat /\ (n[a][k + 1] = 0 <=> Cardinality(H) + 1 = NumAgents)
  BY <1>1, <1>3, <1>4
<1> QED BY <1>3, <1>5, <1>6

(* Only agent a moves, within the superstep.                               *)
LEMMA ComputesStays ==
  ASSUME Computes, NEW a \in Agent, NotesCounted',
         Released(a)' \/ Working(a)' \/ Waiting(a)' \/ Continuing(a)',
         a \notin Synced, a \notin Synced',
         \A x \in Agent \ {a} :
           /\ state'[x] = state[x] /\ ready'[x] = ready[x]
           /\ up'[x] = up[x] /\ down'[x] = down[x]
           /\ it'[x] = it[x] /\ needed'[x] = needed[x],
         \A x \in Agent \ {a} : Waiting(x) =>
           \A b \in Agent \ {x} : it'[b] = dirIt[D] /\ peer'[b][x] = <<>>,
         UNCHANGED <<batch, dirVars, command, commands>>
  PROVE  Computes'
<1>1. UNCHANGED <<readyCtr, dirIt, dirBatch, syncCtr, dormantSum>>
  BY DEF dirVars
<1>2. Synced' = Synced
  BY DEF Synced
<1>3. SyncCounted'
  BY <1>1, <1>2 DEF Computes, SyncCounted
<1>4. \A k : Unused(k) => Unused(k)'
  BY <1>1 DEF Unused
<1>5. Unused(dirIt[D])'
  <2>1. Unused(dirIt[D])
    BY DEF Computes
  <2> QED BY <1>1, <2>1 DEF Unused
<1>6. ASSUME NEW x \in Agent \ {a}
      PROVE  Released(x)' \/ Working(x)' \/ Waiting(x)' \/ Continuing(x)'
  <2>1. Released(x) => Released(x)'
    BY <1>1 DEF Released, Nv
  <2>2. Working(x) => Working(x)'
    BY <1>1 DEF Working
  <2>3. Waiting(x) => Waiting(x)'
    BY <1>1 DEF Waiting
  <2>4. Continuing(x) => Continuing(x)'
    BY <1>1 DEF Continuing
  <2> QED BY <2>1, <2>2, <2>3, <2>4 DEF Computes
<1>7. \A x \in Agent : batch'[x] = dirBatch'[D]
  BY <1>1 DEF Computes
<1> QED BY <1>1, <1>3, <1>5, <1>6, <1>7 DEF Computes

(* NV arrives.                                                             *)
LEMMA NvComes ==
  ASSUME Setting, TypeOK, Computes, NEW a \in Agent, Released(a), RecvNv(a)
  PROVE  Computes'
<1>1. /\ state[a] # "NO_PROCESS" /\ down[a] = <<Nv>> /\ up[a] = <<>>
      /\ it[a] = -1 /\ dirIt[D] = 0
  BY DEF Released
<1>2. /\ Take(a) /\ state' = [state EXCEPT ![a] = "PROCESS"] /\ up' = up
      /\ ready' = [ready EXCEPT ![a] = FALSE]
      /\ UNCHANGED <<it, batch, needed, acks, dirVars, peer, command, envVars>>
  BY <1>1 DEF RecvNv
<1>3. /\ state \in [Agent -> AgentState] /\ ready \in [Agent -> BOOLEAN]
      /\ down \in [Agent -> Seq(ToAgent)]
  BY DEF TypeOK
<1>4. state'[a] = "PROCESS" /\ ~ready'[a] /\ down'[a] = <<>> /\ up'[a] = <<>>
  BY <1>1, <1>2, <1>3, OneMessage DEF Take
<1>5. Working(a)'
  BY <1>1, <1>2, <1>4 DEF Working, dirVars
<1>6. a \notin Synced /\ a \notin Synced'
  BY <1>1, <1>4, OneMessage DEF Synced
<1>7. NotesCounted'
  BY <1>2 DEF Computes, NotesCounted, dirVars
<1>8. \A x \in Agent \ {a} :
        /\ state'[x] = state[x] /\ ready'[x] = ready[x]
        /\ up'[x] = up[x] /\ down'[x] = down[x]
        /\ it'[x] = it[x] /\ needed'[x] = needed[x]
  BY <1>2, <1>3 DEF Take
<1>9. \A x \in Agent \ {a} : Waiting(x) =>
        \A b \in Agent \ {x} : it'[b] = dirIt[D] /\ peer'[b][x] = <<>>
  BY <1>2 DEF Waiting
<1>10. UNCHANGED <<batch, dirVars, command, commands>>
  BY <1>2 DEF envVars
<1> QED BY <1>5, <1>6, <1>7, <1>8, <1>9, <1>10, ComputesStays

(* A superstep, with the notifications for the next one as the handler has *)
(* left them: the agent joins the barrier if it has them all.              *)
LEMMA SuperstepRuns ==
  ASSUME Setting, TypeOK, Computes, NEW a \in Agent, it[a] + 1 = dirIt[D],
         dirIt[D] <= MaxIt,
         NEW need \in [Round -> Int], NEW net \in [Agent -> [Agent -> Seq(ToPeer)]],
         NotesIn(dirIt[D], it, [needed EXCEPT ![a] = need], net),
         ProcessVertices(a, need, net),
         up[a] = <<>>, down'[a] = <<>>, ~ready'[a], a \notin Synced,
         \A x \in Agent \ {a} : ready'[x] = ready[x] /\ down'[x] = down[x],
         UNCHANGED <<acks, batch, dirVars, command, commands>>
  PROVE  Computes'
<1> DEFINE k == dirIt[D]
           want == [need EXCEPT ![k + 1] = @ + (NumAgents - 1)]
<1>1. /\ it \in [Agent -> -1 .. MaxIt] /\ state \in [Agent -> AgentState]
      /\ needed \in [Agent -> [Round -> Int]] /\ up \in [Agent -> Seq(ToDirectory)]
  BY DEF TypeOK
<1>2. k \in Nat /\ k + 1 \in Round /\ it \in [Agent -> Int]
  <2>1. D \in Directory /\ dirIt \in [Directory -> Round]
    BY Alone DEF TypeOK
  <2>2. k \in Nat
    BY <2>1, RoundBatchType
  <2> QED BY <1>1, <2>2, BoundAssumption DEF Round
<1>3. it[a] # k
  BY <1>1
<1>4. /\ it' = [it EXCEPT ![a] = k] /\ needed' = [needed EXCEPT ![a] = want]
      /\ peer' = Sent(net, a, Agent \ {a}, Msg("OUT_VN", k + 1))
      /\ \E vote \in Vote(k) :
           IF want[k + 1] = 0
           THEN JoinBarrier(a, vote)
           ELSE state' = [state EXCEPT ![a] = "PROCESS"] /\ UNCHANGED up
  BY DEF ProcessVertices
<1> HIDE DEF k
<1>5. NotesIn(k, it', needed', peer')
  <2> DEFINE n == [needed EXCEPT ![a] = need]
  <2>1. /\ n \in [Agent -> [Round -> Int]] /\ n[a] = need
        /\ [n EXCEPT ![a] = want] = needed'
    BY <1>1, <1>4
  <2>2. NotesIn(k, it, n, net)
    BY DEF k
  <2> HIDE DEF n
  <2>3. NotesIn(k, [it EXCEPT ![a] = k],
                [n EXCEPT ![a] = [n[a] EXCEPT ![k + 1] = @ + (NumAgents - 1)]],
                Sent(net, a, Agent \ {a}, Msg("OUT_VN", k + 1)))
    BY <1>2, <1>3, <2>1, <2>2, NotesSent
  <2> QED BY <1>4, <2>1, <2>3
<1>6. NotesCounted'
  <2>1. dirIt'[D] = k
    BY DEF dirVars, k
  <2>2. \A x \in Agent : acks'[x] = 0
    BY DEF Computes, NotesCounted
  <2> QED BY <1>5, <2>1, <2>2 DEF NotesCounted
<1>7. it'[a] = k /\ needed'[a] = want
  BY <1>1, <1>4
<1>8. /\ want[k + 1] \in Nat
      /\ want[k + 1] = 0 => \A b \in Agent \ {a} : it'[b] = k /\ peer'[b][a] = <<>>
  <2> HIDE DEF want
  <2>1. it'[a] = k
    BY <1>7
  <2>2. /\ needed'[a][k + 1] \in Nat
        /\ needed'[a][k + 1] = 0 =>
             \A b \in Agent \ {a} : it'[b] = k /\ peer'[b][a] = <<>>
    BY <1>2, <1>5, <2>1, NotesLeft
  <2> QED BY <1>7, <2>2
<1>9. \A x \in Agent \ {a} : it'[x] = it[x] /\ needed'[x] = needed[x]
  BY <1>1, <1>4
<1> HIDE DEF want
<1>10. CASE want[k + 1] = 0
  <2>1. PICK vote \in Vote(k) : JoinBarrier(a, vote)
    BY <1>4, <1>10
  <2>2. /\ state' = [state EXCEPT ![a] = "WAIT_FOR_SYNC"]
        /\ up' = [up EXCEPT ![a] = Append(@, Msg("READY_SYNC", vote))]
    BY <2>1 DEF JoinBarrier, Pushed
  <2>3. state'[a] = "WAIT_FOR_SYNC" /\ up'[a] = <<Msg("READY_SYNC", vote)>>
    BY <1>1, <2>2, OneMessage
  <2>4. vote \in {0, 1}
    BY DEF Vote
  <2>5. Waiting(a)'
    BY <1>7, <1>8, <1>10, <2>3, <2>4 DEF Waiting, dirVars, k, Msg
  <2>6. a \notin Synced'
    BY <2>3, OneMessage DEF Synced
  <2>7. \A x \in Agent \ {a} :
          /\ state'[x] = state[x] /\ ready'[x] = ready[x]
          /\ up'[x] = up[x] /\ down'[x] = down[x]
          /\ it'[x] = it[x] /\ needed'[x] = needed[x]
    BY <1>1, <1>9, <2>2
  <2>8. \A x \in Agent \ {a} : ~Waiting(x)
    BY <1>3 DEF Waiting, k
  <2> QED BY <1>6, <2>5, <2>6, <2>7, <2>8, ComputesStays
<1>11. CASE want[k + 1] # 0
  <2>1. state' = [state EXCEPT ![a] = "PROCESS"] /\ up' = up
    BY <1>4, <1>11
  <2>2. state'[a] = "PROCESS"
    BY <1>1, <2>1
  <2>3. want[k + 1] > 0
    BY <1>8, <1>11
  <2>4. Working(a)'
    BY <1>7, <2>1, <2>2, <2>3 DEF Working, dirVars, k
  <2>5. a \notin Synced'
    BY <2>2 DEF Synced
  <2>6. \A x \in Agent \ {a} :
          /\ state'[x] = state[x] /\ ready'[x] = ready[x]
          /\ up'[x] = up[x] /\ down'[x] = down[x]
          /\ it'[x] = it[x] /\ needed'[x] = needed[x]
    BY <1>1, <1>9, <2>1
  <2>7. \A x \in Agent \ {a} : ~Waiting(x)
    BY <1>3 DEF Waiting, k
  <2> QED BY <1>6, <2>4, <2>5, <2>6, <2>7, ComputesStays
<1> QED BY <1>10, <1>11

(* pre_poll: the first superstep of a batch.  In a later one the agent     *)
(* still needs notifications.                                              *)
LEMMA LoopRuns ==
  ASSUME Setting, TypeOK, Computes, NEW a \in Agent, PrePoll(a)
  PROVE  Computes'
<1>1. state[a] = "PROCESS" /\ ProcessVertices(a, needed[a], peer)
  BY DEF PrePoll
<1>2. Working(a)
  BY <1>1 DEF Computes, Released, Waiting, Continuing
<1>3. it[a] = -1 /\ dirIt[D] = 0
  <2>1. ~(needed[a][it[a] + 1] > 0)
    <3>1. needed \in [Agent -> [Round -> Int]] /\ it[a] \in -1 .. MaxIt
      BY DEF TypeOK
    <3>2. needed[a][it[a] + 1] <= 0 /\ it[a] + 1 \in Round
      BY <1>1, <3>1, RoundBatchType DEF ProcessVertices
    <3>3. needed[a][it[a] + 1] \in Int
      BY <3>1, <3>2
    <3> QED BY <3>2, <3>3
  <2> QED BY <1>2, <2>1 DEF Working
<1>4. /\ needed \in [Agent -> [Round -> Int]]
      /\ peer \in [Agent -> [Agent -> Seq(ToPeer)]]
  BY DEF TypeOK
<1>5. /\ NotesIn(dirIt[D], it, [needed EXCEPT ![a] = needed[a]], peer)
      /\ needed[a] \in [Round -> Int]
  <2>1. [needed EXCEPT ![a] = needed[a]] = needed
    BY <1>4
  <2> QED BY <1>4, <2>1 DEF Computes, NotesCounted
<1>6. it[a] + 1 = dirIt[D] /\ dirIt[D] <= MaxIt
  BY <1>3, BoundAssumption
<1>7. up[a] = <<>> /\ down[a] = <<>> /\ ~ready[a] /\ a \notin Synced
  BY <1>1, <1>2 DEF Working, Synced
<1>8. UNCHANGED <<ready, down, acks, batch, dirVars, command, commands>>
  BY DEF PrePoll, envVars
<1>9. /\ down'[a] = <<>> /\ ~ready'[a]
      /\ \A x \in Agent \ {a} : ready'[x] = ready[x] /\ down'[x] = down[x]
  BY <1>7, <1>8
<1> QED BY <1>1, <1>4, <1>5, <1>6, <1>7, <1>8, <1>9, SuperstepRuns

(* A SYNC that another superstep follows.                                  *)
LEMMA NextBegins ==
  ASSUME Setting, TypeOK, Computes, NEW a \in Agent, Continuing(a), RecvSync(a)
  PROVE  Computes'
<1>1. /\ state[a] = "WAIT_FOR_SYNC" /\ ~ready[a] /\ up[a] = <<>>
      /\ it[a] = dirIt[D] - 1 /\ dirIt[D] > 0
  BY DEF Continuing
<1>2. PICK n \in Nat \ {0} : down[a] = <<Msg("SYNC", n)>>
  BY DEF Continuing
<1>3. Head(down[a]).arg # 0 /\ down[a] # <<>>
  BY <1>2, HeadsOfDown, OneMessage
<1>4. /\ Take(a) /\ NextSuperstep(a)
      /\ UNCHANGED <<acks, ready, dirVars, command, envVars>>
  BY <1>1, <1>3 DEF RecvSync
<1>5. /\ needed \in [Agent -> [Round -> Int]] /\ it[a] \in -1 .. MaxIt
      /\ peer \in [Agent -> [Agent -> Seq(ToPeer)]] /\ down \in [Agent -> Seq(ToAgent)]
      /\ dirIt[D] \in Round
  BY Alone DEF TypeOK
<1>6. dirIt[D] \in Nat /\ it[a] + 1 = dirIt[D] /\ it[a] \in Int
  BY <1>1, <1>5, RoundBatchType
<1>7. needed[a][dirIt[D]] = 0 /\ dirIt[D] # dirIt[D] + 1
  BY <1>5, <1>6 DEF Computes, NotesCounted, NotesIn
<1>8. ProcessVertices(a, needed[a], peer)
  BY <1>4, <1>6, <1>7 DEF NextSuperstep
<1>9. dirIt[D] <= MaxIt
  BY <1>6, <1>8 DEF ProcessVertices
<1>10. /\ NotesIn(dirIt[D], it, [needed EXCEPT ![a] = needed[a]], peer)
       /\ needed[a] \in [Round -> Int]
  <2>1. [needed EXCEPT ![a] = needed[a]] = needed
    BY <1>5
  <2> QED BY <1>5, <2>1 DEF Computes, NotesCounted
<1>11. /\ down'[a] = <<>> /\ ~ready'[a]
       /\ \A x \in Agent \ {a} : ready'[x] = ready[x] /\ down'[x] = down[x]
  <2>1. down' = [down EXCEPT ![a] = Tail(@)] /\ ready' = ready
    BY <1>4 DEF Take
  <2> QED BY <1>1, <1>2, <1>5, <2>1, OneMessage
<1>12. a \notin Synced
  BY <1>3 DEF Synced
<1>13. UNCHANGED <<acks, batch, dirVars, command, commands>>
  BY <1>4 DEF NextSuperstep, envVars
<1> QED BY <1>1, <1>5, <1>6, <1>8, <1>9, <1>10, <1>11, <1>12, <1>13, SuperstepRuns

(* A notification arrives.                                                 *)
LEMMA NoteArrives ==
  ASSUME Setting, TypeOK, Computes, NEW a \in Agent, NEW b \in Agent,
         peer[b][a] = <<Note>>, it[b] = dirIt[D], a # b, RecvOutVn(a, b)
  PROVE  Computes'
<1> DEFINE k == dirIt[D]
           need == [needed[a] EXCEPT ![k + 1] = @ - 1]
           net == [peer EXCEPT ![b][a] = Tail(@)]
<1>1. /\ needed \in [Agent -> [Round -> Int]] /\ it \in [Agent -> -1 .. MaxIt]
      /\ peer \in [Agent -> [Agent -> Seq(ToPeer)]] /\ down \in [Agent -> Seq(ToAgent)]
      /\ up \in [Agent -> Seq(ToDirectory)] /\ state \in [Agent -> AgentState]
      /\ k \in Round
  BY Alone DEF TypeOK
<1>2. k \in Nat /\ k <= MaxIt /\ k + 1 \in Round
  <2>1. k \in Nat /\ it[b] \in -1 .. MaxIt /\ it[b] = k
    BY <1>1, RoundBatchType
  <2>2. k <= MaxIt
    BY <2>1
  <2> QED BY <2>1, <2>2, BoundAssumption DEF Round
<1>3. Head(peer[b][a]).arg = k + 1 /\ peer[b][a] # <<>> /\ Tail(peer[b][a]) = <<>>
  <2>1. Head(peer[b][a]) = Note /\ peer[b][a] # <<>> /\ Tail(peer[b][a]) = <<>>
    BY OneMessage
  <2> QED BY <2>1, MsgParts DEF Note
<1> HIDE DEF k
<1>4. need \in [Round -> Int] /\ net \in [Agent -> [Agent -> Seq(ToPeer)]]
  <2>1. need \in [Round -> Int]
    <3>1. needed[a] \in [Round -> Int] /\ k + 1 \in Round
      BY <1>1, <1>2
    <3> QED BY <3>1
  <2>2. <<>> \in Seq(ToPeer)
    OBVIOUS
  <2>3. net \in [Agent -> [Agent -> Seq(ToPeer)]]
    BY <1>1, <1>3, <2>2
  <2> QED BY <2>1, <2>3
<1>5. NotesIn(k, it, [needed EXCEPT ![a] = need], net)
  <2>1. NotesIn(k, it, needed, peer)
    BY DEF k, Computes, NotesCounted
  <2> QED BY <1>1, <1>2, <1>3, <2>1, NoteTaken
<1>6. /\ \/ /\ state[a] = "PROCESS" /\ it[a] >= 0 /\ need[it[a] + 1] = 0
            /\ JoinBarrier(a, dormant[a])
            /\ needed' = [needed EXCEPT ![a] = need] /\ peer' = net
            /\ UNCHANGED <<it, dormant>>
         \/ /\ state[a] = "PROCESS" /\ ~(it[a] >= 0 /\ need[it[a] + 1] = 0)
            /\ ProcessVertices(a, need, net)
         \/ /\ state[a] # "PROCESS" \/ need[it[a] + 1] > 0
            /\ needed' = IF state[a] = "IDLE" THEN needed
                                             ELSE [needed EXCEPT ![a] = need]
            /\ peer' = net
            /\ UNCHANGED <<state, it, dormant, up>>
      /\ UNCHANGED <<batch, acks, ready, dirVars, down, command, envVars>>
  BY <1>3 DEF RecvOutVn
<1>7. Released(a) \/ Working(a) \/ Continuing(a)
  BY <1>3 DEF Computes, Waiting
<1>8. state[a] # "IDLE" /\ a \notin Synced
  BY <1>7, OneMessage DEF Released, Working, Continuing, Synced
<1>9. UNCHANGED <<batch, dirVars, command, commands, ready, down, acks>>
  BY <1>6 DEF envVars
<1>10. ASSUME peer' = net, needed' = [needed EXCEPT ![a] = need], it' = it
       PROVE  NotesCounted'
  <2>1. dirIt'[D] = k
    BY <1>9 DEF dirVars, k
  <2>2. \A x \in Agent : acks'[x] = 0
    BY <1>9 DEF Computes, NotesCounted
  <2> QED BY <1>5, <1>10, <2>1, <2>2 DEF NotesCounted
<1>11. \A x \in Agent \ {a} : \A y \in Agent \ {x} : net[y][x] = peer[y][x]
  BY <1>1
<1>12. \A x \in Agent \ {a} :
         [needed EXCEPT ![a] = need][x] = needed[x] /\ [needed EXCEPT ![a] = need][a] = need
  BY <1>1
<1>13. need[k + 1] = needed[a][k + 1] - 1 /\ \A r \in Round : r # k + 1 => need[r] = needed[a][r]
  BY <1>1, <1>2
<1> HIDE DEF need, net
<1>14. CASE Released(a) \/ Continuing(a)
  <2>1. state[a] # "PROCESS"
    BY <1>14 DEF Released, Continuing
  <2>2. /\ needed' = [needed EXCEPT ![a] = need] /\ peer' = net
        /\ UNCHANGED <<state, it, dormant, up>>
    BY <1>6, <1>8, <2>1
  <2>3. Released(a)' \/ Continuing(a)'
    BY <1>9, <1>14, <2>2 DEF Released, Continuing, Nv, Msg, dirVars
  <2>4. a \notin Synced'
    BY <1>8, <1>9, <2>2 DEF Synced
  <2>5. \A x \in Agent \ {a} :
          /\ state'[x] = state[x] /\ ready'[x] = ready[x]
          /\ up'[x] = up[x] /\ down'[x] = down[x]
          /\ it'[x] = it[x] /\ needed'[x] = needed[x]
    BY <1>9, <1>12, <2>2
  <2>6. \A x \in Agent \ {a} : Waiting(x) =>
          \A y \in Agent \ {x} : it'[y] = dirIt[D] /\ peer'[y][x] = <<>>
    BY <1>11, <2>2 DEF Waiting
  <2>7. NotesCounted'
    BY <1>10, <2>2
  <2> QED BY <1>8, <1>9, <2>3, <2>4, <2>5, <2>6, <2>7, ComputesStays
<1>15. CASE Working(a) /\ it[a] = -1 /\ k = 0
  <2>1. state[a] = "PROCESS" /\ need[it[a] + 1] = 0 /\ it[a] + 1 = k /\ ~(it[a] >= 0)
    <3>1. needed[a][0] = 0
      BY <1>2, <1>15, RoundBatchType DEF Computes, NotesCounted, NotesIn, k
    <3>2. need[0] = 0
      BY <1>13, <1>15, <3>1, RoundBatchType
    <3> QED BY <1>15, <3>2 DEF Working
  <2>2. ProcessVertices(a, need, net)
    BY <1>6, <2>1
  <2>3. up[a] = <<>> /\ down'[a] = <<>> /\ ~ready'[a]
    BY <1>9, <1>15 DEF Working
  <2>4. it[a] + 1 = dirIt[D] /\ dirIt[D] <= MaxIt
    BY <1>2, <2>1 DEF k
  <2>5. NotesIn(dirIt[D], it, [needed EXCEPT ![a] = need], net)
    BY <1>5 DEF k
  <2>6. \A x \in Agent \ {a} : ready'[x] = ready[x] /\ down'[x] = down[x]
    BY <1>9
  <2> QED BY <1>4, <1>8, <1>9, <2>2, <2>3, <2>4, <2>5, <2>6, SuperstepRuns
<1>16. CASE Working(a) /\ it[a] = k /\ needed[a][k + 1] > 0
  <2>1. state[a] = "PROCESS" /\ it[a] >= 0
    BY <1>2, <1>16 DEF Working
  <2>2. need[k + 1] \in Int /\ need[k + 1] >= 0
    <3>1. needed[a][k + 1] \in Int
      BY <1>1, <1>2
    <3> QED BY <1>13, <1>16, <3>1
  <2>3. ~(need[k + 1] # 0 /\ need[k + 1] <= 0)
    BY <2>2
  <2>4. ~(ProcessVertices(a, need, net) /\ need[k + 1] # 0)
    BY <1>16, <2>3 DEF ProcessVertices
  <2>5. needed' = [needed EXCEPT ![a] = need] /\ peer' = net /\ it' = it
    BY <1>6, <1>8, <1>16, <2>1, <2>4
  <2>6. NotesCounted'
    BY <1>10, <2>5
  <2>7. ready'[a] = ready[a] /\ down'[a] = <<>> /\ ~ready[a] /\ up[a] = <<>>
    BY <1>9, <1>16 DEF Working
  <2>8. ASSUME NEW x \in Agent \ {a}
        PROVE  /\ ready'[x] = ready[x] /\ down'[x] = down[x]
               /\ it'[x] = it[x] /\ needed'[x] = needed[x]
    BY <1>9, <1>12, <2>5
  <2>9. \A x \in Agent \ {a} : Waiting(x) =>
          \A y \in Agent \ {x} : it'[y] = dirIt[D] /\ peer'[y][x] = <<>>
    BY <1>11, <2>5 DEF Waiting
  <2>10. CASE need[k + 1] = 0
    <3>1. JoinBarrier(a, dormant[a])
      BY <1>6, <1>16, <2>1, <2>2, <2>10
    <3>2. /\ state' = [state EXCEPT ![a] = "WAIT_FOR_SYNC"]
          /\ up' = [up EXCEPT ![a] = Append(@, Msg("READY_SYNC", dormant[a]))]
      BY <3>1 DEF JoinBarrier, Pushed
    <3>3. /\ state'[a] = "WAIT_FOR_SYNC" /\ up'[a] = <<Msg("READY_SYNC", dormant[a])>>
          /\ dormant[a] \in {0, 1}
      BY <1>1, <2>7, <3>2, OneMessage DEF TypeOK
    <3>4. \A x \in Agent \ {a} : state'[x] = state[x] /\ up'[x] = up[x]
      BY <1>1, <3>2
    <3>5. \A y \in Agent \ {a} : it'[y] = k /\ peer'[y][a] = <<>>
      <4>1. NotesIn(k, it', needed', peer') /\ it'[a] = k /\ needed'[a][k + 1] = 0
        BY <1>5, <1>12, <1>16, <2>5, <2>10
      <4> QED BY <1>2, <4>1, NotesLeft
    <3>6. Waiting(a)'
      BY <1>9, <1>16, <2>5, <2>7, <3>3, <3>5 DEF Waiting, Msg, k, dirVars
    <3>7. a \notin Synced'
      BY <3>3, OneMessage DEF Synced
    <3> QED BY <1>8, <1>9, <2>6, <2>8, <2>9, <3>4, <3>6, <3>7, ComputesStays
  <2>11. CASE need[k + 1] # 0
    <3>1. UNCHANGED <<state, up>>
      BY <1>6, <1>16, <2>4, <2>11
    <3>2. needed'[a][k + 1] > 0
      BY <1>12, <2>2, <2>5, <2>11
    <3>3. Working(a)'
      BY <1>9, <1>16, <2>1, <2>5, <2>7, <3>1, <3>2 DEF Working, k, dirVars
    <3>4. a \notin Synced'
      BY <2>1, <3>1 DEF Synced
    <3> QED BY <1>8, <1>9, <2>6, <2>8, <2>9, <3>1, <3>3, <3>4, ComputesStays
  <2> QED BY <2>10, <2>11
<1> QED BY <1>7, <1>14, <1>15, <1>16 DEF Working, k

-----------------------------------------------------------------------------
(* The barrier.                                                            *)

(* No READY_SYNC was counted for this superstep, and a SYNC or NV is on    *)
(* its way to everybody.                                                   *)
BarrierBegins ==
  /\ TypeOK
  /\ \A b \in Batch, j \in Round :
       b = dirBatch[D] /\ j >= dirIt[D] => syncCtr[D][b][j] = 0
  /\ \A a \in Agent : down[a] # <<>>

LEMMA BarrierIsUnused == ASSUME Setting PROVE BarrierBegins => SyncCounted
<1> SUFFICES ASSUME BarrierBegins PROVE SyncCounted
  OBVIOUS
<1>1. Cardinality(Synced) = 0
  <2>1. Synced = {}
    BY DEF Synced, BarrierBegins
  <2> QED BY <2>1, NobodyCounted
<1>2. D \in Directory /\ dirBatch[D] \in Batch /\ dirIt[D] \in Round
  BY Alone DEF BarrierBegins, TypeOK
<1>3. dirIt[D] >= dirIt[D]
  <2>1. dirIt[D] \in Nat
    BY <1>2, WholeNumbers
  <2> QED BY <2>1
<1>4. syncCtr[D][dirBatch[D]][dirIt[D]] = 0
  BY <1>2, <1>3 DEF BarrierBegins
<1>5. 0 < NumAgents
  BY AgentsFinite, NobodyCounted, SystemAssumption
<1> QED BY <1>1, <1>4, <1>5 DEF SyncCounted

(* The vertices that want another superstep, with n more.                  *)
Wanted(n) == dormantSum[D][dirBatch[D]][dirIt[D]] + n

(* READY_SYNC is counted, and the last one opens the barrier.              *)
LEMMA SyncArrives ==
  ASSUME Setting, TypeOK, SyncCounted, NEW a \in Agent,
         state[a] = "WAIT_FOR_SYNC", down[a] = <<>>, up[a] # <<>>,
         state' = state, up' = [up EXCEPT ![a] = <<>>],
         NEW n \in Nat, CountSync(D, n, dirIt[D], dirBatch[D])
  PROVE  /\ fault' = fault /\ readyCtr' = readyCtr
         /\ \A b \in Batch, j \in Round :
              ~(b = dirBatch[D] /\ j = dirIt[D]) =>
                /\ syncCtr'[D][b][j] = syncCtr[D][b][j]
                /\ dormantSum'[D][b][j] = dormantSum[D][b][j]
         /\ dormantSum'[D][dirBatch[D]][dirIt[D]] = Wanted(n)
         /\ \/ SyncCounted' /\ UNCHANGED <<down, dirIt, dirBatch, agentsIdle>>
            \/ /\ dirIt[D] <= MaxIt /\ agentsIdle'[D]
               /\ dirIt'[D] = dirIt[D] + 1
               /\ dirBatch'[D] = IF Wanted(n) = 0 THEN dirBatch[D] + 1 ELSE dirBatch[D]
               /\ \A x \in Agent : /\ state[x] = "WAIT_FOR_SYNC" /\ down[x] = <<>>
                                   /\ down'[x] = <<Msg("SYNC", Wanted(n))>> /\ up'[x] = <<>>
                                   /\ (x # a => up[x] = <<>>)
<1> DEFINE k == dirIt[D]
           b0 == dirBatch[D]
           got == syncCtr[D][b0][k] + 1
           act == Wanted(n)
<1>1. /\ D \in Directory /\ k \in Round /\ b0 \in Batch
      /\ syncCtr \in [Directory -> [Batch -> [Round -> Nat]]]
      /\ dormantSum \in [Directory -> [Batch -> [Round -> Nat]]]
      /\ dirIt \in [Directory -> Round] /\ dirBatch \in [Directory -> Batch]
      /\ agentsIdle \in [Directory -> BOOLEAN] /\ up \in [Agent -> Seq(ToDirectory)]
  BY Alone DEF TypeOK
<1> DEFINE ctr == [syncCtr[D] EXCEPT ![b0][k] = @ + 1]
           sum == [dormantSum[D] EXCEPT ![b0][k] = @ + n]
<1>2. ctr[b0][k] = got /\ sum[b0][k] = act
  BY <1>1 DEF Wanted
<1> HIDE DEF act
<1>3. /\ syncCtr' = [syncCtr EXCEPT ![D] = ctr]
      /\ dormantSum' = [dormantSum EXCEPT ![D] = sum]
      /\ IF got = NumAgents
         THEN /\ k <= MaxIt
              /\ down' = ToAgents(D, Msg("SYNC", act))
              /\ dirBatch' = [dirBatch EXCEPT ![D] = IF act = 0 THEN @ + 1 ELSE @]
              /\ dirIt' = [dirIt EXCEPT ![D] = @ + 1]
              /\ agentsIdle' = [agentsIdle EXCEPT ![D] = TRUE]
         ELSE UNCHANGED <<down, dirBatch, dirIt, agentsIdle>>
      /\ fault' = IF got > NumAgents THEN "Received too many syncs" ELSE fault
      /\ readyCtr' = readyCtr
  <2> HIDE DEF got
  <2> QED BY <1>2 DEF CountSync
<1>4. /\ syncCtr'[D] = ctr /\ dormantSum'[D] = sum
  BY <1>1, <1>3
<1>5. \A b \in Batch, j \in Round : ~(b = b0 /\ j = k) =>
        ctr[b][j] = syncCtr[D][b][j] /\ sum[b][j] = dormantSum[D][b][j]
  BY <1>1
<1> HIDE DEF ctr, sum
<1>6. /\ Synced \in SUBSET (Agent \ {a}) /\ Synced \in SUBSET Agent
      /\ a \notin Synced
  BY DEF Synced
<1>7. /\ syncCtr[D][b0][k] = Cardinality(Synced) /\ syncCtr[D][b0][k] < NumAgents
      /\ syncCtr[D][b0][k] \in Nat /\ NumAgents \in Nat
  BY <1>1, NumAgentsType DEF SyncCounted
<1>8. got <= NumAgents /\ ~(got > NumAgents)
  BY <1>7
<1>9. /\ fault' = fault /\ readyCtr' = readyCtr
      /\ \A b \in Batch, j \in Round : ~(b = b0 /\ j = k) =>
           /\ syncCtr'[D][b][j] = syncCtr[D][b][j]
           /\ dormantSum'[D][b][j] = dormantSum[D][b][j]
      /\ dormantSum'[D][b0][k] = act
  BY <1>2, <1>3, <1>4, <1>5, <1>8
<1>10. CASE got = NumAgents
  <2>1. Cardinality(Synced) + 1 = NumAgents
    BY <1>7, <1>10
  <2>2. Synced = Agent \ {a}
    BY <1>6, <2>1, AllOthers
  <2>3. \A x \in Agent : down'[x] = Append(down[x], Msg("SYNC", act))
    <3>1. down' = ToAgents(D, Msg("SYNC", act))
      BY <1>3, <1>10
    <3> QED BY <3>1, Published
  <2>4. \A x \in Agent : /\ state[x] = "WAIT_FOR_SYNC" /\ down[x] = <<>>
                         /\ up'[x] = <<>> /\ (x # a => up[x] = <<>>)
    BY <1>1, <2>2 DEF Synced
  <2>5. \A x \in Agent : down'[x] = <<Msg("SYNC", act)>>
    BY <2>3, <2>4, OneMessage
  <2>6. /\ dirIt[D] <= MaxIt /\ agentsIdle'[D] /\ dirIt'[D] = dirIt[D] + 1
        /\ dirBatch'[D] = IF act = 0 THEN dirBatch[D] + 1 ELSE dirBatch[D]
    <3> HIDE DEF got
    <3> QED BY <1>1, <1>3, <1>10
  <2> QED BY <1>9, <2>4, <2>5, <2>6 DEF act
<1>11. CASE got # NumAgents
  <2>1. UNCHANGED <<down, dirIt, dirBatch, agentsIdle>>
    BY <1>3, <1>11
  <2>2. Synced' = Synced \cup {a}
    BY <1>1, <2>1 DEF Synced
  <2>3. Cardinality(Synced') = got
    BY <1>6, <1>7, <2>2, OneMore
  <2>4. got < NumAgents
    BY <1>7, <1>8, <1>11
  <2>5. syncCtr'[D][dirBatch'[D]][dirIt'[D]] = got
    BY <1>2, <1>4, <2>1
  <2>6. SyncCounted'
    <3> HIDE DEF got
    <3> QED BY <2>3, <2>4, <2>5 DEF SyncCounted
  <2> QED BY <1>9, <2>1, <2>6 DEF act
<1> QED BY <1>10, <1>11

(* READY_SYNC after a superstep.                                           *)
LEMMA SuperstepEnds ==
  ASSUME Setting, TypeOK, TypeOK', Computes, NEW a \in Agent, Waiting(a),
         NEW n \in {0, 1}, up[a] = <<Msg("READY_SYNC", n)>>, DirReadySync(a)
  PROVE  (Computes' \/ Settled') /\ fault' = fault
<1> DEFINE k == dirIt[D]
           b0 == dirBatch[D]
           act == Wanted(n)
<1>1. Head(up[a]).arg = n /\ up[a] # <<>> /\ Tail(up[a]) = <<>> /\ n \in Nat
  BY OneMessage, MsgParts
<1>2. /\ D \in Directory /\ k \in Round /\ k \in Nat /\ b0 \in Batch /\ b0 \in Nat
      /\ dormantSum[D][b0][k] \in Nat /\ act \in Nat /\ up \in [Agent -> Seq(ToDirectory)]
  <2>1. /\ D \in Directory /\ k \in Round /\ b0 \in Batch
        /\ dormantSum \in [Directory -> [Batch -> [Round -> Nat]]]
        /\ up \in [Agent -> Seq(ToDirectory)]
    BY Alone DEF TypeOK
  <2>2. k \in Nat /\ b0 \in Nat
    BY <2>1, RoundBatchType
  <2>3. dormantSum[D][b0][k] \in Nat
    BY <2>1
  <2>4. act \in Nat
    BY <1>1, <2>3 DEF Wanted
  <2> QED BY <2>1, <2>2, <2>3, <2>4
<1>3. /\ up' = [up EXCEPT ![a] = <<>>]
      /\ UNCHANGED <<agentVars, peer, command, envVars>>
      /\ CountSync(D, n, k, b0)
  BY <1>1, Alone DEF DirReadySync, FromAgent
<1>4. /\ state' = state /\ state[a] = "WAIT_FOR_SYNC" /\ down[a] = <<>> /\ SyncCounted
      /\ UNCHANGED <<it, batch, needed, acks, ready, peer, command, commands>>
  BY <1>3 DEF agentVars, envVars, Waiting, Computes
<1> HIDE DEF act
<1>5. /\ fault' = fault /\ readyCtr' = readyCtr
      /\ \A b \in Batch, j \in Round : ~(b = b0 /\ j = k) =>
           /\ syncCtr'[D][b][j] = syncCtr[D][b][j]
           /\ dormantSum'[D][b][j] = dormantSum[D][b][j]
      /\ \/ SyncCounted' /\ UNCHANGED <<down, dirIt, dirBatch, agentsIdle>>
         \/ /\ dirIt[D] <= MaxIt /\ agentsIdle'[D]
            /\ dirIt'[D] = k + 1
            /\ dirBatch'[D] = IF act = 0 THEN b0 + 1 ELSE b0
            /\ \A x \in Agent : /\ state[x] = "WAIT_FOR_SYNC" /\ down[x] = <<>>
                                /\ down'[x] = <<Msg("SYNC", act)>> /\ up'[x] = <<>>
                                /\ (x # a => up[x] = <<>>)
  <2> QED BY <1>1, <1>3, <1>4, SyncArrives DEF act
<1>6. Unused(k)
  BY DEF Computes
<1>7. CASE SyncCounted' /\ UNCHANGED <<down, dirIt, dirBatch, agentsIdle>>
  <2>1. Unused(dirIt[D])'
    <3> SUFFICES ASSUME NEW b \in Batch, NEW j \in Round,
                        b > b0 \/ (b = b0 /\ j > k)
                 PROVE  syncCtr'[D][b][j] = 0 /\ dormantSum'[D][b][j] = 0
      BY <1>7 DEF Unused
    <3>1. ~(b = b0 /\ j = k)
      BY <1>2
    <3> QED BY <1>5, <1>6, <3>1 DEF Unused
  <2>2. NotesCounted'
    BY <1>4, <1>7 DEF Computes, NotesCounted
  <2>3. \A x \in Agent : Released(x)' \/ Working(x)' \/ Waiting(x)' \/ Continuing(x)'
    <3> SUFFICES ASSUME NEW x \in Agent
                 PROVE  Released(x)' \/ Working(x)' \/ Waiting(x)' \/ Continuing(x)'
      OBVIOUS
    <3>1. up'[x] = up[x] \/ up'[x] = <<>>
      BY <1>2, <1>3
    <3>2. Released(x) => Released(x)'
      BY <1>4, <1>7, <3>1 DEF Released, Nv
    <3>3. Working(x) => Working(x)'
      BY <1>4, <1>7, <3>1 DEF Working
    <3>4. Waiting(x) => Waiting(x)'
      BY <1>4, <1>7, <3>1 DEF Waiting
    <3>5. Continuing(x) => Continuing(x)'
      BY <1>4, <1>7, <3>1 DEF Continuing
    <3> QED BY <3>2, <3>3, <3>4, <3>5 DEF Computes
  <2>4. /\ readyCtr'[D] = 0 /\ commands' > 0 /\ command'[D] = <<>>
        /\ \A x \in Agent : batch'[x] = dirBatch'[D]
    BY <1>4, <1>5, <1>7 DEF Computes
  <2> QED BY <1>5, <1>7, <2>1, <2>2, <2>3, <2>4 DEF Computes
<1>8. CASE /\ dirIt[D] <= MaxIt /\ agentsIdle'[D]
           /\ dirIt'[D] = k + 1
           /\ dirBatch'[D] = IF act = 0 THEN b0 + 1 ELSE b0
           /\ \A x \in Agent : /\ state[x] = "WAIT_FOR_SYNC" /\ down[x] = <<>>
                               /\ down'[x] = <<Msg("SYNC", act)>> /\ up'[x] = <<>>
                               /\ (x # a => up[x] = <<>>)
  <2>1. \A x \in Agent : Waiting(x)
    BY <1>8, OneMessage DEF Computes, Released, Working, Continuing
  <2>2. /\ \A x \in Agent : it[x] = k
        /\ \A x, y \in Agent : peer[x][y] = <<>>
    <3>1. \A x \in Agent : it[x] = k
      BY <2>1 DEF Waiting
    <3>2. \A x, y \in Agent : x # y => peer[x][y] = <<>>
      BY <2>1 DEF Waiting
    <3>3. \A x \in Agent : peer[x][x] = <<>>
      BY DEF Computes, NotesCounted, NotesIn
    <3> QED BY <3>1, <3>2, <3>3
  <2>3. NoBlocks'
    BY <1>4, <2>2 DEF NoBlocks, Computes, NotesCounted
  <2>4. /\ readyCtr'[D] = 0 /\ commands' > 0 /\ command'[D] = <<>>
        /\ \A x \in Agent : ready'[x] = FALSE /\ batch'[x] = b0 /\ it'[x] = k
    BY <1>4, <1>5, <2>1, <2>2 DEF Computes, Waiting, TypeOK
  <2>5. CASE act = 0
    <3>1. dirBatch'[D] = b0 + 1
      BY <1>8, <2>5
    <3>2. Unused(-1)'
      <4> SUFFICES ASSUME NEW b \in Batch, NEW j \in Round,
                          b > b0 + 1 \/ (b = b0 + 1 /\ j > -1)
                   PROVE  syncCtr'[D][b][j] = 0 /\ dormantSum'[D][b][j] = 0
        BY <3>1 DEF Unused
      <4>1. b > b0 /\ ~(b = b0 /\ j = k)
        BY <1>2, WholeNumbers
      <4> QED BY <1>5, <1>6, <4>1 DEF Unused
    <3>3. \A x \in Agent : Leaving(x)'
      <4> SUFFICES ASSUME NEW x \in Agent PROVE Leaving(x)'
        OBVIOUS
      <4>1. batch'[x] = dirBatch'[D] - 1 /\ it'[x] = dirIt'[D] - 1
        <5>1. (b0 + 1) - 1 = b0 /\ (k + 1) - 1 = k
          BY <1>2
        <5>2. dirBatch'[D] = b0 + 1 /\ dirIt'[D] = k + 1 /\ batch'[x] = b0 /\ it'[x] = k
          BY <1>8, <2>4, <3>1
        <5> HIDE DEF k, b0
        <5> QED BY <5>1, <5>2
      <4> QED BY <1>4, <1>8, <2>4, <4>1 DEF Leaving
    <3>4. \A x \in Agent : (down[x] = <<Msg("SYNC", 0)>>)'
      BY <1>8, <2>5 DEF Msg
    <3>5. dirBatch'[D] > 0 /\ dirIt'[D] > 0
      BY <1>2, <1>8, <3>1
    <3>6. Settled'
      BY <1>8, <2>3, <2>4, <3>2, <3>3, <3>4, <3>5 DEF Settled
    <3> QED BY <1>5, <3>6
  <2>6. CASE act # 0
    <3>1. dirBatch'[D] = b0
      BY <1>8, <2>6
    <3>2. Unused(dirIt[D])'
      <4> SUFFICES ASSUME NEW b \in Batch, NEW j \in Round,
                          b > b0 \/ (b = b0 /\ j > k + 1)
                   PROVE  syncCtr'[D][b][j] = 0 /\ dormantSum'[D][b][j] = 0
        BY <1>8, <3>1 DEF Unused
      <4>1. (b > b0 \/ (b = b0 /\ j > k)) /\ ~(b = b0 /\ j = k)
        BY <1>2, WholeNumbers
      <4> QED BY <1>5, <1>6, <4>1 DEF Unused
    <3>3. SyncCounted'
      <4>1. \A b \in Batch, j \in Round :
              b = dirBatch'[D] /\ j >= dirIt'[D] => syncCtr'[D][b][j] = 0
        <5> SUFFICES ASSUME NEW j \in Round, j >= k + 1
                     PROVE  syncCtr'[D][b0][j] = 0
          BY <1>8, <3>1
        <5>1. j > k /\ j # k
          BY <1>2, WholeNumbers
        <5>2. syncCtr'[D][b0][j] = syncCtr[D][b0][j]
          BY <1>2, <1>5, <5>1
        <5>3. syncCtr[D][b0][j] = 0
          BY <1>2, <1>6, <5>1 DEF Unused
        <5> QED BY <5>2, <5>3
      <4>2. \A x \in Agent : down'[x] # <<>>
        BY <1>8, OneMessage
      <4>3. BarrierBegins'
        BY <4>1, <4>2 DEF BarrierBegins
      <4>4. BarrierBegins' => SyncCounted'
        BY BarrierIsUnused, PTL
      <4> QED BY <4>3, <4>4
    <3>4. NotesCounted'
      <4>1. ASSUME NEW x \in Agent, NEW r \in Round PROVE needed'[x][r] = 0
        <5>1. k + 1 \in Round
          BY <1>2, <1>8, BoundAssumption DEF Round
        <5>2. NotesIn(k, it, needed, peer)
          BY DEF Computes, NotesCounted
        <5>3. /\ it[x] = k
              /\ \A y \in Agent \ {x} : it[y] = k /\ peer[y][x] = <<>>
          BY <2>2
        <5>4. needed[x][k + 1] = 0
          <6> HIDE DEF k
          <6>1. k \in Nat
            BY <1>2
          <6> QED BY <5>1, <5>2, <5>3, <6>1, NotesLeft
        <5>5. r # k + 1 => needed[x][r] = 0
          BY <5>2 DEF NotesIn
        <5> QED BY <1>4, <5>4, <5>5
      <4>2. \A x \in Agent : it'[x] # dirIt'[D]
        BY <1>2, <1>8, <2>4
      <4>3. NothingHeard'
        BY <2>3, <4>1, <4>2 DEF NothingHeard
      <4>4. NothingHeard' => NotesCounted'
        BY NothingIsHeard, PTL
      <4> QED BY <4>3, <4>4
    <3>5. \A x \in Agent : Continuing(x)'
      <4> SUFFICES ASSUME NEW x \in Agent PROVE Continuing(x)'
        OBVIOUS
      <4>1. it'[x] = dirIt'[D] - 1 /\ dirIt'[D] > 0
        <5>1. (k + 1) - 1 = k /\ k + 1 > 0
          BY <1>2
        <5>2. dirIt'[D] = k + 1 /\ it'[x] = k
          BY <1>8, <2>4
        <5> HIDE DEF k
        <5> QED BY <5>1, <5>2
      <4>2. act \in Nat \ {0}
        BY <1>2, <2>6
      <4>3. (\E m \in Nat \ {0} : down[x] = <<Msg("SYNC", m)>>)'
        BY <1>8, <4>2 DEF Msg
      <4> QED BY <1>4, <1>8, <2>4, <4>1, <4>3 DEF Continuing
    <3>6. Computes'
      BY <2>4, <3>1, <3>2, <3>3, <3>4, <3>5 DEF Computes
    <3> QED BY <1>5, <3>6
  <2> QED BY <2>5, <2>6
<1> QED BY <1>5, <1>7, <1>8

(* NV after UPDATE: straight to the barrier.                               *)
LEMMA NvSkips ==
  ASSUME Setting, TypeOK, Skips, NEW a \in Agent, Skipping(a), RecvNv(a)
  PROVE  Skips'
<1>1. /\ state[a] = "NO_PROCESS" /\ down[a] = <<Nv>> /\ up[a] = <<>> /\ First(a)
  BY DEF Skipping
<1>2. /\ Take(a) /\ JoinBarrier(a, dormant[a])
      /\ ready' = [ready EXCEPT ![a] = FALSE]
      /\ UNCHANGED <<it, batch, needed, dormant, acks, dirVars, peer, command, envVars>>
  BY <1>1 DEF RecvNv
<1>3. /\ state \in [Agent -> AgentState] /\ ready \in [Agent -> BOOLEAN]
      /\ down \in [Agent -> Seq(ToAgent)] /\ up \in [Agent -> Seq(ToDirectory)]
  BY DEF TypeOK
<1>4. dormant[a] = 0
  BY <1>1 DEF First
<1>5. /\ state' = [state EXCEPT ![a] = "WAIT_FOR_SYNC"]
      /\ up' = [up EXCEPT ![a] = Append(@, Msg("READY_SYNC", 0))]
  BY <1>2, <1>4 DEF JoinBarrier, Pushed
<1>6. /\ state'[a] = "WAIT_FOR_SYNC" /\ ~ready'[a] /\ down'[a] = <<>>
      /\ up'[a] = <<Msg("READY_SYNC", 0)>>
  BY <1>1, <1>2, <1>3, <1>5, OneMessage DEF Take
<1>7. \A x \in Agent : First(x)'
  BY <1>2 DEF Skips, Skipping, Skipped, First, Clean
<1>8. Skipped(a)'
  BY <1>6, <1>7 DEF Skipped, Msg
<1>9. \A x \in Agent \ {a} : Skipping(x)' \/ Skipped(x)'
  <2> SUFFICES ASSUME NEW x \in Agent \ {a} PROVE Skipping(x)' \/ Skipped(x)'
    OBVIOUS
  <2>1. /\ state'[x] = state[x] /\ ready'[x] = ready[x]
        /\ up'[x] = up[x] /\ down'[x] = down[x]
    BY <1>2, <1>3, <1>5 DEF Take
  <2>2. Skipping(x) => Skipping(x)'
    BY <1>7, <2>1 DEF Skipping, Nv, Msg
  <2>3. Skipped(x) => Skipped(x)'
    BY <1>7, <2>1 DEF Skipped, Msg
  <2> QED BY <2>2, <2>3 DEF Skips
<1>10. SyncCounted'
  <2>1. \A x \in Agent \ {a} : state'[x] = state[x] /\ up'[x] = up[x] /\ down'[x] = down[x]
    BY <1>2, <1>3, <1>5 DEF Take
  <2>2. a \notin Synced /\ a \notin Synced'
    BY <1>1, <1>6, OneMessage DEF Synced
  <2>3. Synced' = Synced
    BY <2>1, <2>2 DEF Synced
  <2> QED BY <1>2, <2>3 DEF Skips, SyncCounted, dirVars
<1>11. /\ dirBatch'[D] = 0 /\ dirIt'[D] = 0 /\ readyCtr'[D] = 0 /\ Unused(0)'
       /\ commands' > 0 /\ dormantSum'[D][0][0] = 0 /\ command'[D] = <<>>
       /\ NoBlocks'
  BY <1>2 DEF Skips, Unused, NoBlocks, dirVars, envVars
<1> QED BY <1>8, <1>9, <1>10, <1>11 DEF Skips

(* READY_SYNC of the empty batch.                                          *)
LEMMA EmptyBatchEnds ==
  ASSUME Setting, TypeOK, TypeOK', Skips, NEW a \in Agent, Skipped(a),
         up[a] = <<Msg("READY_SYNC", 0)>>, DirReadySync(a)
  PROVE  (Skips' \/ Settled') /\ fault' = fault
<1>1. Head(up[a]).arg = 0 /\ up[a] # <<>> /\ Tail(up[a]) = <<>>
  BY OneMessage, MsgParts
<1>2. /\ D \in Directory /\ dirIt[D] = 0 /\ dirBatch[D] = 0
      /\ up \in [Agent -> Seq(ToDirectory)]
      /\ dormantSum[D][dirBatch[D]][dirIt[D]] + 0 = 0 /\ 0 \in Round /\ 0 \in Batch
  BY Alone, BoundAssumption DEF TypeOK, Skips, Round, Batch
<1>3. /\ up' = [up EXCEPT ![a] = <<>>]
      /\ UNCHANGED <<agentVars, peer, command, envVars>>
      /\ CountSync(D, 0, dirIt[D], dirBatch[D])
  BY <1>1, Alone DEF DirReadySync, FromAgent
<1>4. /\ state' = state /\ state[a] = "WAIT_FOR_SYNC" /\ down[a] = <<>> /\ SyncCounted
      /\ UNCHANGED <<it, batch, needed, dormant, acks, ready, peer, command, commands>>
  BY <1>3 DEF agentVars, envVars, Skips, Skipped
<1>5. /\ fault' = fault /\ readyCtr' = readyCtr
      /\ \A b \in Batch, j \in Round : ~(b = dirBatch[D] /\ j = dirIt[D]) =>
           /\ syncCtr'[D][b][j] = syncCtr[D][b][j]
           /\ dormantSum'[D][b][j] = dormantSum[D][b][j]
      /\ dormantSum'[D][dirBatch[D]][dirIt[D]] = 0
      /\ \/ SyncCounted' /\ UNCHANGED <<down, dirIt, dirBatch, agentsIdle>>
         \/ /\ dirIt[D] <= MaxIt /\ agentsIdle'[D]
            /\ dirIt'[D] = dirIt[D] + 1
            /\ dirBatch'[D] = dirBatch[D] + 1
            /\ \A x \in Agent : /\ state[x] = "WAIT_FOR_SYNC" /\ down[x] = <<>>
                                /\ down'[x] = <<Msg("SYNC", 0)>> /\ up'[x] = <<>>
                                /\ (x # a => up[x] = <<>>)
  <2>1. Wanted(0) = 0 /\ 0 \in Nat
    BY <1>2 DEF Wanted
  <2>2. /\ fault' = fault /\ readyCtr' = readyCtr
        /\ \A b \in Batch, j \in Round : ~(b = dirBatch[D] /\ j = dirIt[D]) =>
             /\ syncCtr'[D][b][j] = syncCtr[D][b][j]
             /\ dormantSum'[D][b][j] = dormantSum[D][b][j]
        /\ dormantSum'[D][dirBatch[D]][dirIt[D]] = Wanted(0)
        /\ \/ SyncCounted' /\ UNCHANGED <<down, dirIt, dirBatch, agentsIdle>>
           \/ /\ dirIt[D] <= MaxIt /\ agentsIdle'[D]
              /\ dirIt'[D] = dirIt[D] + 1
              /\ dirBatch'[D] = IF Wanted(0) = 0 THEN dirBatch[D] + 1 ELSE dirBatch[D]
              /\ \A x \in Agent : /\ state[x] = "WAIT_FOR_SYNC" /\ down[x] = <<>>
                                  /\ down'[x] = <<Msg("SYNC", Wanted(0))>>
                                  /\ up'[x] = <<>> /\ (x # a => up[x] = <<>>)
    BY <1>1, <1>3, <1>4, <2>1, SyncArrives
  <2> QED BY <2>1, <2>2
<1>6. /\ Unused(0) /\ NoBlocks' /\ readyCtr'[D] = 0 /\ commands' > 0 /\ command'[D] = <<>>
      /\ \A x \in Agent : First(x)'
  BY <1>4, <1>5 DEF Skips, NoBlocks, Skipping, Skipped, First, Clean
<1>7. CASE SyncCounted' /\ UNCHANGED <<down, dirIt, dirBatch, agentsIdle>>
  <2>1. Unused(0)'
    <3> SUFFICES ASSUME NEW b \in Batch, NEW j \in Round, b > 0 \/ (b = 0 /\ j > 0)
                 PROVE  syncCtr'[D][b][j] = 0 /\ dormantSum'[D][b][j] = 0
      BY <1>2, <1>7 DEF Unused
    <3>1. ~(b = 0 /\ j = 0)
      OBVIOUS
    <3> QED BY <1>2, <1>5, <1>6, <3>1 DEF Unused
  <2>2. \A x \in Agent : Skipping(x)' \/ Skipped(x)'
    <3> SUFFICES ASSUME NEW x \in Agent PROVE Skipping(x)' \/ Skipped(x)'
      OBVIOUS
    <3>1. up'[x] = up[x] \/ up'[x] = <<>>
      BY <1>2, <1>3
    <3>2. Skipping(x) => Skipping(x)'
      BY <1>4, <1>6, <1>7, <3>1 DEF Skipping, Nv, Msg
    <3>3. Skipped(x) => Skipped(x)'
      BY <1>4, <1>6, <1>7, <3>1 DEF Skipped, Msg
    <3> QED BY <3>2, <3>3 DEF Skips
  <2>3. Skips'
    BY <1>2, <1>5, <1>6, <1>7, <2>1, <2>2 DEF Skips
  <2> QED BY <1>5, <2>3
<1>8. CASE /\ dirIt[D] <= MaxIt /\ agentsIdle'[D]
           /\ dirIt'[D] = dirIt[D] + 1
           /\ dirBatch'[D] = dirBatch[D] + 1
           /\ \A x \in Agent : /\ state[x] = "WAIT_FOR_SYNC" /\ down[x] = <<>>
                               /\ down'[x] = <<Msg("SYNC", 0)>> /\ up'[x] = <<>>
                               /\ (x # a => up[x] = <<>>)
  <2>1. dirIt'[D] = 1 /\ dirBatch'[D] = 1
    BY <1>2, <1>8
  <2>2. \A x \in Agent : ~ready[x]
    BY <1>8 DEF Skips, Skipping, Skipped
  <2>3. \A x \in Agent : Leaving(x)'
    BY <1>4, <1>6, <1>8, <2>1, <2>2 DEF Leaving, First, Clean
  <2>4. \A x \in Agent : (down[x] = <<Msg("SYNC", 0)>>)'
    BY <1>8 DEF Msg
  <2>5. Unused(-1)'
    <3> SUFFICES ASSUME NEW b \in Batch, NEW j \in Round, b > 1 \/ (b = 1 /\ j > -1)
                 PROVE  syncCtr'[D][b][j] = 0 /\ dormantSum'[D][b][j] = 0
      BY <2>1 DEF Unused
    <3>1. b > 0 /\ ~(b = 0 /\ j = 0)
      BY RoundBatchType
    <3> QED BY <1>2, <1>5, <1>6, <3>1 DEF Unused
  <2>6. Settled'
    BY <1>6, <1>8, <2>1, <2>3, <2>4, <2>5 DEF Settled
  <2> QED BY <1>5, <2>6
<1> QED BY <1>5, <1>7, <1>8

-----------------------------------------------------------------------------
(* Every step preserves the invariant.                                     *)

(* It says nothing of the edges that wait for the next batch.              *)
LEMMA NothingElse ==
  ASSUME LockInv,
         UNCHANGED <<state, it, batch, needed, dormant, acks, asked, ready,
                     dirVars, netVars, commands, fault>>
  PROVE  LockInv'
<1> USE DEF dirVars, netVars
<1>1. UNCHANGED <<readyCtr, dirIt, dirBatch, syncCtr, dormantSum, agentsIdle,
                  up, down, link, peer, command>>
  OBVIOUS
<1>2. UNCHANGED <<DoStart, DoUpdate, Wake, Nv, ReadyNvNe, Block, Ack>>
  BY <1>1 DEF DoStart, DoUpdate, Wake, Nv, ReadyNvNe, Block, Ack, Msg
<1>3. /\ UNCHANGED <<ReadyCounted, SyncCounted>>
      /\ NoBlocks => NoBlocks'
      /\ \A k : Unused(k) => Unused(k)'
  BY <1>1 DEF ReadyCounted, Counted, SyncCounted, Synced, NoBlocks, Unused
<1>4. \A a \in Agent : /\ First(a) => First(a)'
                       /\ Untouched(a) => Untouched(a)'
                       /\ Leaving(a) => Leaving(a)'
                       /\ Idle(a) => Idle(a)'
                       /\ Updating(a) => Updating(a)'
  BY <1>1, <1>2 DEF First, Clean, Untouched, Leaving, Idle, Updating
<1>5. CASE Unloaded
  <2>1. Unloaded'
    BY <1>1, <1>3, <1>4, <1>5 DEF Unloaded
  <2> QED BY <2>1 DEF LockInv
<1>6. CASE Loads
  <2>1. PICK c \in {"START", "UPDATE"} : LoadedBy(c)
    BY <1>6 DEF Loads
  <2>2. AcksCounted'
    BY <1>1, <1>2, <2>1 DEF LoadedBy, AcksCounted, Owed
  <2>3. \A a \in Agent : Loading(a, c) => Loading(a, c)'
    BY <1>1, <1>2 DEF Loading
  <2>4. \A a \in Agent : down[a] = <<DoCommand(c)>> => (down[a] = <<DoCommand(c)>>)'
    BY <1>1, <1>2 DEF DoCommand
  <2>5. LoadedBy(c)'
    BY <1>1, <1>3, <1>4, <2>1, <2>2, <2>3, <2>4 DEF LoadedBy
  <2> QED BY <2>5 DEF LockInv, Loads
<1>7. CASE Settled
  <2>1. \A a \in Agent : \/ (Leaving(a) /\ down[a] = <<Msg("SYNC", 0)>>)'
                         \/ (Idle(a) /\ down[a] \in {<<>>, <<DoStart>>})'
    BY <1>1, <1>2, <1>4, <1>7 DEF Settled, Msg
  <2>2. Settled'
    BY <1>1, <1>3, <1>4, <1>7, <2>1 DEF Settled
  <2> QED BY <2>2 DEF LockInv
<1>8. CASE Updates
  <2>1. \A a \in Agent : \/ (Leaving(a) /\ down[a] = <<Msg("SYNC", 0), Wake>>)'
                         \/ (Idle(a) /\ down[a] \in {<<Wake>>, <<DoStart, Wake>>})'
                         \/ Updating(a)'
    BY <1>1, <1>2, <1>4, <1>8 DEF Updates, Msg
  <2>2. Updates'
    BY <1>1, <1>3, <1>8, <2>1 DEF Updates
  <2> QED BY <2>2 DEF LockInv
<1>9. CASE Computes
  <2>1. NotesCounted'
    BY <1>1, <1>9 DEF Computes, NotesCounted
  <2>2. \A a \in Agent : Released(a)' \/ Working(a)' \/ Waiting(a)' \/ Continuing(a)'
    <3> SUFFICES ASSUME NEW a \in Agent
                 PROVE  Released(a)' \/ Working(a)' \/ Waiting(a)' \/ Continuing(a)'
      OBVIOUS
    <3>1. Released(a) => Released(a)'
      BY <1>1, <1>2 DEF Released
    <3>2. Working(a) => Working(a)'
      BY <1>1 DEF Working
    <3>3. Waiting(a) => Waiting(a)'
      BY <1>1 DEF Waiting
    <3>4. Continuing(a) => Continuing(a)'
      BY <1>1 DEF Continuing
    <3> QED BY <1>9, <3>1, <3>2, <3>3, <3>4 DEF Computes
  <2>3. Unused(dirIt[D])'
    BY <1>1, <1>9 DEF Computes, Unused
  <2>4. Computes'
    BY <1>1, <1>3, <1>9, <2>1, <2>2, <2>3 DEF Computes
  <2> QED BY <2>4 DEF LockInv
<1>10. CASE Skips
  <2>1. \A a \in Agent : Skipping(a)' \/ Skipped(a)'
    BY <1>1, <1>2, <1>4, <1>10 DEF Skips, Skipping, Skipped
  <2>2. Skips'
    BY <1>1, <1>3, <1>10, <2>1 DEF Skips
  <2> QED BY <2>2 DEF LockInv
<1> QED BY <1>5, <1>6, <1>7, <1>8, <1>9, <1>10 DEF LockInv

(* What an agent gets from the directory.                                  *)
LEMMA AgentHears ==
  ASSUME Setting, TypeOK, TypeOK', LockInv, NEW a \in Agent, FromDirectoryStep(a)
  PROVE  LockInv'
<1>1. CASE RecvDoStart(a)
  <2>1. NextIs(a, "DO_START")
    BY <1>1 DEF RecvDoStart
  <2>2. CASE LoadedBy("START") /\ Untouched(a) /\ down[a] = <<DoStart>>
    <3>1. state[a] = "NO_PROCESS" /\ down[a] = <<DoCommand("START")>>
      BY <2>2 DEF Untouched, DoCommand
    <3>2. /\ Take(a) /\ SendOutEdges(a)
          /\ state' = [state EXCEPT ![a] = "LEAVING_NO_PROCESS"]
          /\ UNCHANGED <<it, batch, needed, dormant, dirVars, link, command, envVars, fault>>
      BY <1>1, <3>1 DEF RecvDoStart
    <3>3. LoadedBy("START")'
      BY <2>2, <3>1, <3>2, LoadBegins
    <3> QED BY <3>2, <3>3 DEF LockInv, Loads
  <2>3. CASE Idle(a)
    <3>1. UNCHANGED <<link, fault>>
      BY <1>1, <2>3 DEF RecvDoStart, Idle
    <3>2. \/ Settled /\ down[a] = <<DoStart>>
          \/ Updates /\ down[a] = <<DoStart, Wake>>
      BY <2>1, <2>3, DownIs DEF Untouched, Idle
    <3>3. RecvDoStart(a) /\ Idle(a)
      BY <1>1, <2>3
    <3>4. Settled' \/ Updates'
      BY <3>2, <3>3, IdleStarts
    <3> QED BY <3>1, <3>4 DEF LockInv
  <2> QED BY <2>1, <2>2, <2>3, DownIs
<1>2. CASE RecvDoUpdate(a)
  <2>1. NextIs(a, "DO_UPDATE")
    BY <1>2 DEF RecvDoUpdate
  <2>2. LoadedBy("UPDATE") /\ Untouched(a) /\ down[a] = <<DoUpdate>>
    BY <2>1, DownIs
  <2>3. state[a] = "NO_PROCESS" /\ down[a] = <<DoCommand("UPDATE")>>
    BY <2>2 DEF Untouched, DoCommand
  <2>4. /\ Take(a) /\ SendOutEdges(a) /\ state' = state
        /\ UNCHANGED <<it, batch, needed, dormant, dirVars, link, command, envVars, fault>>
    BY <1>2, <2>3 DEF RecvDoUpdate
  <2>5. state' = [state EXCEPT ![a] = "NO_PROCESS"]
    BY <2>3, <2>4 DEF TypeOK
  <2>6. LoadedBy("UPDATE")'
    BY <2>2, <2>3, <2>4, <2>5, LoadBegins
  <2> QED BY <2>4, <2>6 DEF LockInv, Loads
<1>3. CASE RecvHaveUpdate(a)
  <2>1. NextIs(a, "HAVE_UPDATE")
    BY <1>3 DEF RecvHaveUpdate
  <2>2. Updates /\ Idle(a) /\ down[a] = <<Wake>>
    BY <2>1, DownIs
  <2>3. Head(down[a]).arg = batch[a]
    BY <2>2, HeadsOfDown DEF Idle
  <2>4. UNCHANGED <<link, fault>>
    BY <1>3, <2>3 DEF RecvHaveUpdate
  <2>5. Updates'
    BY <1>3, <2>2, UpdateBegins
  <2> QED BY <2>4, <2>5 DEF LockInv
<1>4. CASE RecvNv(a)
  <2>1. NextIs(a, "NV") /\ UNCHANGED <<link, fault>>
    BY <1>4 DEF RecvNv
  <2>2. (Computes /\ Released(a)) \/ (Skips /\ Skipping(a))
    BY <2>1, DownIs
  <2>3. Computes' \/ Skips'
    BY <1>4, <2>2, NvComes, NvSkips
  <2> QED BY <2>1, <2>3 DEF LockInv
<1>5. CASE RecvSync(a)
  <2>1. NextIs(a, "SYNC")
    BY <1>5 DEF RecvSync
  <2>2. \/ Settled /\ Leaving(a) /\ down[a] = <<Msg("SYNC", 0)>>
        \/ Updates /\ Leaving(a) /\ down[a] = <<Msg("SYNC", 0), Wake>>
        \/ Computes /\ Continuing(a)
    BY <2>1, DownIs
  <2>3. state[a] = "WAIT_FOR_SYNC"
    BY <2>2 DEF Leaving, Continuing
  <2>4. UNCHANGED <<link, fault>>
    BY <1>5, <2>3 DEF RecvSync
  <2>5. CASE Leaving(a) /\ \/ Settled /\ down[a] = <<Msg("SYNC", 0)>>
                           \/ Updates /\ down[a] = <<Msg("SYNC", 0), Wake>>
    <3>1. Settled' \/ Updates'
      BY <1>5, <2>5, BatchLeft
    <3> QED BY <2>4, <3>1 DEF LockInv
  <2>6. CASE Computes /\ Continuing(a)
    <3>1. Computes'
      BY <1>5, <2>6, NextBegins
    <3> QED BY <2>4, <3>1 DEF LockInv
  <2> QED BY <2>2, <2>5, <2>6
<1> QED BY <1>1, <1>2, <1>3, <1>4, <1>5 DEF FromDirectoryStep

(* What an agent gets from another one.                                    *)
LEMMA PeerTalks ==
  ASSUME Setting, TypeOK, TypeOK', LockInv, NEW a \in Agent, NEW b \in Agent,
         FromPeerStep(a, b)
  PROVE  LockInv'
<1>1. CASE RecvSendUpdates(a, b)
  <2>1. PeerSends(b, a, "SEND_UPDATES") /\ UNCHANGED <<link, fault>>
    BY <1>1 DEF RecvSendUpdates
  <2>2. Loads /\ Head(peer[b][a]) = Block /\ peer[b][a] # <<>>
    BY <2>1, PeerIs DEF PeerSends
  <2>3. Loads'
    BY <1>1, <2>2, LoadTakesBlock DEF Loads
  <2> QED BY <2>1, <2>3 DEF LockInv
<1>2. CASE RecvAckUpdates(a, b)
  <2>1. PeerSends(b, a, "ACK_UPDATES") /\ UNCHANGED <<link, fault>>
    BY <1>2 DEF RecvAckUpdates
  <2>2. Loads /\ Head(peer[b][a]) = Ack /\ peer[b][a] # <<>>
    BY <2>1, PeerIs DEF PeerSends
  <2>3. Loads'
    BY <1>2, <2>2, LoadTakesAck DEF Loads
  <2> QED BY <2>1, <2>3 DEF LockInv
<1>3. CASE RecvOutVn(a, b)
  <2>1. PeerSends(b, a, "OUT_VN") /\ UNCHANGED <<link, fault>>
    BY Zenon, <1>3 DEF RecvOutVn
  <2>2. Computes /\ peer[b][a] = <<Note>> /\ it[b] = dirIt[D] /\ a # b
    BY <2>1, PeerIs
  <2>3. Computes'
    BY <1>3, <2>2, NoteArrives
  <2> QED BY <2>1, <2>3 DEF LockInv
<1> QED BY <1>1, <1>2, <1>3 DEF FromPeerStep

(* What the directory gets from an agent.                                  *)
LEMMA DirectoryHears ==
  ASSUME Setting, TypeOK, TypeOK', LockInv, NEW a \in Agent, DirAgentStep(a)
  PROVE  LockInv'
<1>1. /\ link \in [Directory -> [Directory -> Seq(Linked)]] /\ link[D][D] = <<>>
      /\ Home[a] = D /\ D \in Directory /\ fault = "none" /\ dirBatch[D] \in Nat
  BY Alone, RoundBatchType DEF TypeOK, LockInv
<1>2. CASE DirReadyNvNe(a)
  <2>1. AgentSends(a, "READY_NV_NE")
    BY <1>2 DEF DirReadyNvNe, FromAgent
  <2>2. fault' = "none" /\ link'[D][D] = <<>>
    <3>1. link' = ToPeers(link, D, LinkMsg("READY_NV_NE_INT", 0, 0, 0))
      BY <1>1, <1>2 DEF DirReadyNvNe
    <3>2. link'[D][D] = <<>>
      BY <1>1, <3>1, OwnLink
    <3> QED BY <1>1, <1>2, <3>2 DEF DirReadyNvNe, CountReady
  <2>3. ready[a] /\ up[a] = <<ReadyNvNe>>
    BY <2>1, UpIs
  <2>4. CASE \E c \in {"START", "UPDATE"} : LoadedBy(c) /\ Loading(a, c)
    <3>1. Loads' \/ Computes' \/ Skips'
      BY <1>2, <2>3, <2>4, LoadIsReady DEF Loads
    <3> QED BY <2>2, <3>1 DEF LockInv
  <2>5. CASE Updates /\ Updating(a)
    <3>1. Updates' \/ Computes'
      BY <1>2, <2>3, <2>5, UpdateIsReady
    <3> QED BY <2>2, <3>1 DEF LockInv
  <2> QED BY <2>1, <2>4, <2>5, UpIs
<1>3. CASE DirReadySync(a)
  <2>1. AgentSends(a, "READY_SYNC")
    BY <1>3 DEF DirReadySync, FromAgent
  <2>2. link'[D][D] = <<>>
    <3>1. link' = ToPeers(link, D, LinkMsg("READY_SYNC_INT", Head(up[a]).arg,
                                           dirIt[D], dirBatch[D]))
      BY <1>1, <1>3 DEF DirReadySync
    <3> QED BY <1>1, <3>1, OwnLink
  <2>3. CASE /\ Computes /\ Waiting(a)
             /\ \E n \in {0, 1} : up[a] = <<Msg("READY_SYNC", n)>>
    <3>1. (Computes' \/ Settled') /\ fault' = fault
      BY <1>3, <2>3, SuperstepEnds
    <3> QED BY <1>1, <2>2, <3>1 DEF LockInv
  <2>4. CASE Skips /\ Skipped(a) /\ up[a] = <<Msg("READY_SYNC", 0)>>
    <3>1. (Skips' \/ Settled') /\ fault' = fault
      BY <1>3, <2>4, EmptyBatchEnds
    <3> QED BY <1>1, <2>2, <3>1 DEF LockInv
  <2> QED BY <2>1, <2>3, <2>4, UpIs
<1>4. CASE DirHaveUpdate(a)
  <2>1. AgentSends(a, "HAVE_UPDATE")
    BY <1>4 DEF DirHaveUpdate, FromAgent
  <2>2. \/ Settled /\ Idle(a) /\ up[a] = <<Wake>>
        \/ Updates /\ Idle(a) /\ up[a] = <<Wake>>
        \/ Updates /\ Updating(a) /\ up[a] = <<Wake, ReadyNvNe>>
    BY <2>1, UpIs
  <2>3. fault' = "none" /\ link'[D][D] = <<>>
    <3>1. Head(up[a]).arg = dirBatch[D]
      BY <2>2, HeadsOfUp
    <3>2. OfferUpdate(D, dirBatch[D], link)
      BY <1>1, <1>4, <3>1 DEF DirHaveUpdate
    <3>3. fault' = "none"
      <4>1. ~(dirBatch[D] > dirBatch[D])
        BY <1>1
      <4> QED BY <1>1, <3>2, <4>1 DEF OfferUpdate
    <3>4. link' = link \/ link' = ToPeers(link, D, LinkMsg("HAVE_UPDATE", dirBatch[D], 0, 0))
      BY <3>2 DEF OfferUpdate
    <3>5. link'[D][D] = <<>>
      <4>1. CASE link' = link
        BY <1>1, <4>1
      <4>2. CASE link' = ToPeers(link, D, LinkMsg("HAVE_UPDATE", dirBatch[D], 0, 0))
        BY <1>1, <4>2, OwnLink
      <4> QED BY <3>4, <4>1, <4>2
    <3> QED BY <3>3, <3>5
  <2>4. CASE Settled /\ Idle(a) /\ up[a] = <<Wake>>
    <3>1. Updates'
      BY <1>4, <2>4, UpdateOffered
    <3> QED BY <2>3, <3>1 DEF LockInv
  <2>5. CASE Updates /\ \/ Idle(a) /\ up[a] = <<Wake>>
                        \/ Updating(a) /\ up[a] = <<Wake, ReadyNvNe>>
    <3>1. Updates'
      BY <1>4, <2>5, UpdateDropped
    <3> QED BY <2>3, <3>1 DEF LockInv
  <2> QED BY <2>2, <2>4, <2>5
<1> QED BY <1>2, <1>3, <1>4 DEF DirAgentStep

(* A streamed edge.                                                        *)
LEMMA EdgeComes ==
  ASSUME Setting, TypeOK, TypeOK', LockInv, NEW a \in Agent,
         RecvUpdateEdge(a) \/ RecvUpdateEdges(a)
  PROVE  LockInv'
<1>1. CASE RecvUpdateEdges(a)
  BY <1>1, NothingElse DEF RecvUpdateEdges
<1>2. CASE RecvUpdateEdge(a) /\ state[a] # "IDLE"
  BY <1>2, NothingElse DEF RecvUpdateEdge, netVars
<1>3. CASE RecvUpdateEdge(a) /\ state[a] = "IDLE"
  <2>1. (Settled \/ Updates) /\ Idle(a)
    BY <1>3 DEF LockInv, Unloaded, Untouched, Loads, LoadedBy, Loading, Settled, Leaving,
                Updates, Updating, Computes, Released, Working, Waiting, Continuing,
                Skips, Skipping, Skipped
  <2>2. Settled' \/ Updates'
    BY <1>3, <2>1, IdleGetsEdge
  <2>3. UNCHANGED <<link, fault>>
    BY <1>3 DEF RecvUpdateEdge
  <2> QED BY <2>2, <2>3 DEF LockInv
<1> QED BY <1>1, <1>2, <1>3

LEMMA LockInit == ASSUME Setting, Init PROVE LockInv
<1>1. D \in Directory
  BY Alone
<1>2. \A a \in Agent : First(a) /\ Untouched(a) /\ down[a] = <<>>
  BY DEF Init, First, Clean, Untouched
<1>3. NoBlocks /\ Unused(-1)
  BY <1>1 DEF Init, NoBlocks, Unused
<1>4. /\ dirBatch[D] = 0 /\ dirIt[D] = 0 /\ readyCtr[D] = 0 /\ command[D] = <<>>
      /\ fault = "none" /\ link[D][D] = <<>>
  BY <1>1 DEF Init
<1> QED BY <1>2, <1>3, <1>4 DEF LockInv, Unloaded

LEMMA LockStep ==
  ASSUME Setting, TypeOK, TypeOK', LockInv, [Next]_vars
  PROVE  LockInv'
<1>1. ASSUME NEW a \in Agent, AgentStep(a) PROVE LockInv'
  <2>1. CASE FromDirectoryStep(a)
    BY <2>1, AgentHears
  <2>2. CASE PrePoll(a)
    <3>1. Computes
      BY <2>2 DEF PrePoll, LockInv, Unloaded, Untouched, Loads, LoadedBy, Loading,
                  Settled, Leaving, Idle, Updates, Updating, Skips, Skipping, Skipped
    <3>2. Computes' /\ UNCHANGED <<link, fault>>
      BY <2>2, <3>1, LoopRuns DEF PrePoll
    <3> QED BY <3>2 DEF LockInv
  <2>3. ASSUME NEW b \in Agent, FromPeerStep(a, b) PROVE LockInv'
    BY <2>3, PeerTalks
  <2> QED BY <1>1, <2>1, <2>2, <2>3 DEF AgentStep
<1>2. ASSUME NEW a \in Agent, DirAgentStep(a) PROVE LockInv'
  BY <1>2, DirectoryHears
<1>3. ASSUME NEW d \in Directory, DirCommand(d) PROVE LockInv'
  <2>1. Loads' \/ Settled'
    BY <1>3, CommandGoes
  <2> QED BY <1>3, <2>1 DEF LockInv, DirCommand
<1>4. ASSUME NEW d \in Directory, NEW e \in Directory, DirPeerStep(d, e) PROVE LockInv'
  <2>1. link[e][d] # <<>>
    BY <1>4 DEF DirPeerStep, DirReadyNvNeInt, DirReadySyncInt, DirHaveUpdateInt,
                FromDirectory, LinkSends
  <2> QED BY <2>1, Alone DEF LockInv
<1>5. ASSUME NEW a \in Agent, RecvUpdateEdge(a) \/ RecvUpdateEdges(a) PROVE LockInv'
  BY <1>5, EdgeComes
<1>6. ASSUME NEW c \in Commands, ClientCommand(c) PROVE LockInv'
  <2>1. Unloaded' \/ Settled'
    BY <1>6, CommandComes
  <2> QED BY <1>6, <2>1 DEF LockInv, ClientCommand
<1>7. CASE UNCHANGED vars
  BY <1>7, NothingElse DEF vars, agentVars, envVars
<1> QED BY <1>1, <1>2, <1>3, <1>4, <1>5, <1>6, <1>7 DEF Next, Rest

-----------------------------------------------------------------------------
(* The theorems.                                                           *)

(* In every reachable state the whole system is in one of the six phases,  *)
(* with the messages and the counters of that phase.                       *)
THEOREM InLockStep == ASSUME Setting PROVE Spec => []LockInv
<1>1. Init => LockInv
  BY LockInit
<1>2. TypeOK /\ TypeOK' /\ LockInv /\ [Next]_vars => LockInv'
  BY LockStep
<1> QED BY <1>1, <1>2, TypeCorrect, PTL DEF Spec

(* No agent and no directory ever meets a message that it throws an        *)
(* exception for: START in a wrong state (agent.cpp:757), UPDATE after the *)
(* first batch, a wrong batch (agent.cpp:700), a SYNC outside the barrier, *)
(* too many READY_SYNC or a batch of the future (directory.cpp:578, 691).  *)
THEOREM NeverThrows == ASSUME Setting PROVE Spec => []NoFault
<1>1. LockInv => NoFault
  BY DEF LockInv, NoFault
<1> QED BY <1>1, InLockStep, PTL

(* A HAVE_UPDATE, which restarts the agent whatever it is doing            *)
(* (agent.cpp:700), always finds it idle.                                  *)
THEOREM UpdatesFindIdle == ASSUME Setting PROVE Spec => []HaveUpdateFindsIdle
<1>1. LockInv => HaveUpdateFindsIdle
  <2> SUFFICES ASSUME LockInv, NEW a \in Agent, down[a] # <<>>,
                      Head(down[a]).type = "HAVE_UPDATE"
               PROVE  state[a] = "IDLE"
    BY DEF HaveUpdateFindsIdle
  <2>1. NextIs(a, "HAVE_UPDATE")
    BY DEF NextIs, Running, LockInv
  <2>2. Idle(a)
    BY <2>1, DownIs
  <2> QED BY <2>2 DEF Idle
<1> QED BY <1>1, InLockStep, PTL

(* When an agent waits at the barrier all the notifications for the next   *)
(* superstep have arrived, and none reaches it when it is idle, where      *)
(* process_vn would drop it (agent.cpp:387).                               *)
THEOREM NotificationsHaveArrived == ASSUME Setting PROVE Spec => []NotificationsArrive
<1>1. LockInv /\ TypeOK => NotificationsArrive
  <2> SUFFICES ASSUME LockInv, TypeOK, NEW a \in Agent, NEW b \in Agent,
                      NEW i \in DOMAIN peer[b][a], peer[b][a][i].type = "OUT_VN"
               PROVE  /\ state[a] # "IDLE"
                      /\ state[a] = "WAIT_FOR_SYNC" => peer[b][a][i].arg > it[a] + 1
    BY DEF NotificationsArrive
  <2>1. peer[b][a] # <<>>
    OBVIOUS
  <2>2. ~Loads
    <3> SUFFICES ASSUME NEW c \in {"START", "UPDATE"}, LoadedBy(c) PROVE FALSE
      BY DEF Loads
    <3>1. peer[b][a] \in Seq({Block, Ack})
      BY DEF LoadedBy, AcksCounted
    <3>2. peer[b][a][i] \in {Block, Ack}
      BY <3>1
    <3> QED BY <3>2, MsgParts DEF Block, Ack
  <2>3. Computes
    BY <2>1, <2>2 DEF LockInv, Unloaded, Settled, Updates, Skips, NoBlocks
  <2>4. peer[b][a] = <<Msg("OUT_VN", dirIt[D] + 1)>> /\ a # b
    BY <2>1, <2>3 DEF Computes, NotesCounted, NotesIn
  <2>5. peer[b][a][i] = Msg("OUT_VN", dirIt[D] + 1)
    <3> DEFINE m == Msg("OUT_VN", dirIt[D] + 1)
    <3> HIDE DEF m
    <3>1. \A j \in DOMAIN <<m>> : <<m>>[j] = m
      OBVIOUS
    <3> QED BY <2>4, <3>1 DEF m
  <2>6. peer[b][a][i].arg = dirIt[D] + 1
    BY <2>5, MsgParts
  <2>7. Released(a) \/ Working(a) \/ Continuing(a)
    BY <2>1, <2>3, <2>4 DEF Computes, Waiting
  <2>8. state[a] # "IDLE"
    BY <2>7 DEF Released, Working, Continuing
  <2>9. ASSUME state[a] = "WAIT_FOR_SYNC" PROVE dirIt[D] + 1 > it[a] + 1
    <3>1. it[a] = dirIt[D] - 1
      BY <2>7, <2>9 DEF Released, Working, Continuing
    <3>2. dirIt[D] \in Round
      BY Alone DEF TypeOK
    <3>3. dirIt[D] \in Int
      BY <3>2, RoundBatchType
    <3> QED BY <3>1, <3>3
  <2> QED BY <2>6, <2>8, <2>9
<1> QED BY <1>1, InLockStep, TypeCorrect, PTL

LEMMA OneContains ==
  \A x, t : Contains(<<x>>, t) => x.type = t
<1> SUFFICES ASSUME NEW x, NEW t, NEW i \in DOMAIN <<x>>, <<x>>[i].type = t PROVE x.type = t
  BY DEF Contains
<1>1. <<x>>[i] = x
  OBVIOUS
<1> QED BY <1>1

LEMMA TwoContain ==
  \A x, y, t : Contains(<<x, y>>, t) => x.type = t \/ y.type = t
<1> SUFFICES ASSUME NEW x, NEW y, NEW t, NEW i \in DOMAIN <<x, y>>, <<x, y>>[i].type = t
             PROVE  x.type = t \/ y.type = t
  BY DEF Contains
<1>1. <<x, y>>[i] = x \/ <<x, y>>[i] = y
  OBVIOUS
<1> QED BY <1>1

LEMMA NoneContain == \A t : ~Contains(<<>>, t)
BY DEF Contains

(* NV is under way only when every agent has said it is ready for this     *)
(* batch (directory.cpp:528-530): none is still updating its graph.        *)
THEOREM NvComesAfterAll == ASSUME Setting PROVE Spec => []NvAfterAllReady
<1>1. LockInv => NvAfterAllReady
  <2> SUFFICES ASSUME LockInv, NEW a \in Agent, Contains(down[a], "NV"), NEW b \in Agent
               PROVE  ready[b] \/ state[b] \in {"PROCESS", "WAIT_FOR_SYNC"}
    BY DEF NvAfterAllReady
  <2>1. ASSUME NEW t, NEW n, t # "NV" PROVE down[a] # <<Msg(t, n)>>
    <3> SUFFICES ASSUME Contains(<<Msg(t, n)>>, "NV") PROVE FALSE
      OBVIOUS
    <3>1. Msg(t, n).type = "NV"
      BY OneContains
    <3> QED BY <2>1, <3>1, MsgParts
  <2>2. /\ down[a] # <<>> /\ down[a] # <<DoStart>> /\ down[a] # <<DoUpdate>>
        /\ down[a] # <<Wake>> /\ down[a] # <<Msg("SYNC", 0)>>
    BY <2>1, NoneContain DEF DoStart, DoUpdate, Wake
  <2>3. /\ down[a] # <<DoStart, Wake>> /\ down[a] # <<Msg("SYNC", 0), Wake>>
    <3>1. ASSUME NEW t, NEW n, NEW u, NEW m, t # "NV", u # "NV"
          PROVE  down[a] # <<Msg(t, n), Msg(u, m)>>
      <4> SUFFICES ASSUME Contains(<<Msg(t, n), Msg(u, m)>>, "NV") PROVE FALSE
        OBVIOUS
      <4>1. Msg(t, n).type = "NV" \/ Msg(u, m).type = "NV"
        BY TwoContain
      <4> QED BY <3>1, <4>1, MsgParts
    <3> QED BY <3>1 DEF DoStart, Wake
  <2>4. Computes \/ Skips
    BY <2>2, <2>3 DEF LockInv, Unloaded, Loads, LoadedBy, Loading, DoCommand, Settled,
                      Updates, Updating
  <2>5. CASE Computes
    BY <2>5 DEF Computes, Released, Working, Waiting, Continuing
  <2>6. CASE Skips
    BY <2>6 DEF Skips, Skipping, Skipped
  <2> QED BY <2>4, <2>5, <2>6
<1> QED BY <1>1, InLockStep, PTL

-----------------------------------------------------------------------------
(* The cycle implements the barrier of BatchBarrier.                       *)

(* Only agent a may change its place in the abstract computation.          *)
OnlyMoves(a) ==
  \A x \in Agent \ {a} : /\ state'[x] = state[x] /\ it'[x] = it[x]
                         /\ batch'[x] = batch[x] /\ ready'[x] = ready[x]

LEMMA NobodyMoves ==
  ASSUME UNCHANGED <<state, it, batch, ready>>
  PROVE  UNCHANGED Barrier!barrierVars
BY DEF Barrier!barrierVars, Position, Finished

LEMMA Stays ==
  ASSUME NEW a \in Agent, OnlyMoves(a),
         Position(a)' = Position(a), Finished(a)' <=> Finished(a)
  PROVE  UNCHANGED Barrier!barrierVars
<1>1. \A x \in Agent : Position(x)' = Position(x) /\ (Finished(x)' <=> Finished(x))
  BY DEF OnlyMoves, Position, Finished
<1>2. [x \in Agent |-> Position(x)]' = [x \in Agent |-> Position(x)]
  BY <1>1
<1>3. [x \in Agent |-> IF Finished(x) THEN "wait" ELSE "work"]'
        = [x \in Agent |-> IF Finished(x) THEN "wait" ELSE "work"]
  BY <1>1
<1> QED BY <1>2, <1>3 DEF Barrier!barrierVars

LEMMA Arrives ==
  ASSUME NEW a \in Agent, OnlyMoves(a),
         Position(a)' = Position(a), ~Finished(a), Finished(a)'
  PROVE  Barrier!Arrive(a)
<1>1. \A x \in Agent \ {a} :
        Position(x)' = Position(x) /\ (Finished(x)' <=> Finished(x))
  BY DEF OnlyMoves, Position, Finished
<1>2. [x \in Agent |-> Position(x)]' = [x \in Agent |-> Position(x)]
  BY <1>1
<1> DEFINE l == [x \in Agent |-> IF Finished(x) THEN "wait" ELSE "work"]
<1>3. l[a] = "work"
  OBVIOUS
<1>4. l' = [l EXCEPT ![a] = "wait"]
  BY <1>1
<1> QED BY <1>2, <1>3, <1>4 DEF Barrier!Arrive

LEMMA Passes ==
  ASSUME NEW a \in Agent, OnlyMoves(a), Finished(a), NEW q,
         q \in Barrier!Successors(Position(a)), Position(a)' = q,
         \A b \in Agent : Position(b) = q \/ (Position(b) = Position(a) /\ Finished(b))
  PROVE  Barrier!Pass(a)
<1> DEFINE p == [x \in Agent |-> Position(x)]
           l == [x \in Agent |-> IF Finished(x) THEN "wait" ELSE "work"]
<1>1. \A x \in Agent \ {a} :
        Position(x)' = Position(x) /\ (Finished(x)' <=> Finished(x))
  BY DEF OnlyMoves, Position, Finished
<1>2. p' = [p EXCEPT ![a] = q]
  BY <1>1
<1>3. \E v \in {"work", "wait"} : l' = [l EXCEPT ![a] = v]
  <2>1. CASE Finished(a)'
    <3>1. l' = [l EXCEPT ![a] = "wait"]
      BY <1>1, <2>1
    <3> QED BY <3>1
  <2>2. CASE ~Finished(a)'
    <3>1. l' = [l EXCEPT ![a] = "work"]
      BY <1>1, <2>2
    <3> QED BY <3>1
  <2> QED BY <2>1, <2>2
<1>4. l[a] = "wait" /\ p[a] = Position(a)
  OBVIOUS
<1>5. \A b \in Agent : p[b] = q \/ (p[b] = p[a] /\ l[b] = "wait")
  OBVIOUS
<1>6. q \in Barrier!Successors(p[a])
  BY <1>4
<1> QED BY <1>2, <1>3, <1>4, <1>5, <1>6 DEF Barrier!Pass

(* The graph is updated: the agent gets ready, at once or not.             *)
LEMMA UpdatesGraph ==
  ASSUME NEW a \in Agent, OnlyMoves(a), ~ready[a],
         state[a] \notin {"PROCESS", "WAIT_FOR_SYNC"},
         state'[a] \notin {"PROCESS", "WAIT_FOR_SYNC"}, batch'[a] = batch[a]
  PROVE  Barrier!Arrive(a) \/ UNCHANGED Barrier!barrierVars
<1>1. Position(a)' = Position(a) /\ ~Finished(a)
  BY DEF Position, Finished
<1>2. CASE Finished(a)'
  BY <1>1, <1>2, Arrives
<1>3. CASE ~Finished(a)'
  BY <1>1, <1>3, Stays
<1> QED BY <1>2, <1>3

(* A superstep is run or completed: the agent joins the barrier or not.    *)
LEMMA RunsSuperstep ==
  ASSUME NEW a \in Agent, OnlyMoves(a), ~ready[a], ~ready'[a],
         state[a] = "PROCESS", state'[a] \in {"PROCESS", "WAIT_FOR_SYNC"},
         it'[a] = it[a] \/ (it[a] = -1 /\ it'[a] = 0), batch'[a] = batch[a]
  PROVE  Barrier!Arrive(a) \/ UNCHANGED Barrier!barrierVars
<1>1. Position(a)' = Position(a) /\ ~Finished(a)
  BY DEF Position, Finished
<1>2. CASE Finished(a)'
  BY <1>1, <1>2, Arrives
<1>3. CASE ~Finished(a)'
  BY <1>1, <1>3, Stays
<1> QED BY <1>2, <1>3

(* Where the agents are when NV or a SYNC is taken.                        *)
LEMMA ReleasedAt ==
  ASSUME Computes, dirIt[D] = 0, NEW b \in Agent
  PROVE  \/ Position(b) = <<dirBatch[D], 0>>
         \/ Released(b) /\ Position(b) = <<dirBatch[D], -1>> /\ Finished(b)
<1>1. batch[b] = dirBatch[D] /\ (Released(b) \/ Working(b) \/ Waiting(b) \/ Continuing(b))
  BY DEF Computes
<1>2. CASE Released(b)
  BY <1>1, <1>2 DEF Released, Position, Finished
<1>3. CASE Working(b)
  BY <1>1, <1>3 DEF Working, Position
<1>4. CASE Waiting(b)
  BY <1>1, <1>4 DEF Waiting, Position
<1>5. CASE Continuing(b)
  BY <1>5 DEF Continuing
<1> QED BY <1>1, <1>2, <1>3, <1>4, <1>5

LEMMA ContinuingAt ==
  ASSUME Computes, dirIt[D] \in Nat, dirIt[D] > 0, NEW b \in Agent
  PROVE  \/ Position(b) = <<dirBatch[D], dirIt[D]>>
         \/ /\ Continuing(b) /\ Position(b) = <<dirBatch[D], dirIt[D] - 1>>
            /\ Finished(b)
<1>1. batch[b] = dirBatch[D] /\ (Released(b) \/ Working(b) \/ Waiting(b) \/ Continuing(b))
  BY DEF Computes
<1>2. ~Released(b) /\ dirIt[D] # -1 /\ dirIt[D] - 1 # -1
  BY DEF Released
<1>3. CASE Working(b)
  BY <1>1, <1>2, <1>3 DEF Working, Position
<1>4. CASE Waiting(b)
  BY <1>1, <1>2, <1>4 DEF Waiting, Position
<1>5. CASE Continuing(b)
  BY <1>1, <1>2, <1>5 DEF Continuing, Position, Finished
<1> QED BY <1>1, <1>2, <1>3, <1>4, <1>5

LEMMA LeavingAt ==
  ASSUME Settled \/ Updates, dirIt[D] \in Nat, dirBatch[D] \in Nat, NEW b \in Agent
  PROVE  \/ ~Leaving(b) /\ Position(b) = <<dirBatch[D], -1>>
         \/ /\ Leaving(b) /\ Position(b) = <<dirBatch[D] - 1, dirIt[D] - 1>>
            /\ Finished(b)
<1>1. dirIt[D] > 0 /\ (Leaving(b) \/ Idle(b) \/ Updating(b))
  BY DEF Settled, Updates
<1>2. CASE Leaving(b)
  <2>1. state[b] = "WAIT_FOR_SYNC" /\ batch[b] = dirBatch[D] - 1
    BY <1>2 DEF Leaving
  <2>2. (IF it[b] = -1 THEN 0 ELSE it[b]) = dirIt[D] - 1
    <3>1. CASE it[b] = dirIt[D] - 1
      BY <1>1, <3>1
    <3>2. CASE it[b] = -1 /\ dirIt[D] = 1
      BY <3>2
    <3> QED BY <1>2, <3>1, <3>2 DEF Leaving
  <2> QED BY <1>2, <2>1, <2>2 DEF Position, Finished
<1>3. CASE Idle(b)
  BY <1>3 DEF Idle, Leaving, Position
<1>4. CASE Updating(b)
  BY <1>4 DEF Updating, Leaving, Position
<1> QED BY <1>1, <1>2, <1>3, <1>4

(* A step of an agent, as the barrier sees it.                             *)
LEMMA SendBlocksReady ==
  ASSUME TypeOK, NEW a \in Agent, NEW dests, NEW m, SendBlocks(a, dests, m)
  PROVE  \A x \in Agent \ {a} : ready'[x] = ready[x]
BY DEF SendBlocks, DoneWaitingReadyNvNe, TypeOK

LEMMA HearsMaps ==
  ASSUME Setting, TypeOK, LockInv, LockInv', NEW a \in Agent, FromDirectoryStep(a)
  PROVE  Barrier!Arrive(a) \/ Barrier!Pass(a) \/ UNCHANGED Barrier!barrierVars
<1>0. /\ state \in [Agent -> AgentState] /\ it \in [Agent -> -1 .. MaxIt]
      /\ batch \in [Agent -> Batch] /\ ready \in [Agent -> BOOLEAN]
      /\ dirIt[D] \in Nat /\ dirBatch[D] \in Nat
  BY Alone, RoundBatchType DEF TypeOK
<1>1. CASE RecvDoStart(a)
  <2>1. NextIs(a, "DO_START")
    BY <1>1 DEF RecvDoStart
  <2>2. CASE Untouched(a)
    <3>1. /\ state[a] = "NO_PROCESS" /\ ~ready[a] /\ SendOutEdges(a)
          /\ state' = [state EXCEPT ![a] = "LEAVING_NO_PROCESS"]
          /\ UNCHANGED <<it, batch>>
      BY <1>1, <2>2 DEF RecvDoStart, Untouched
    <3>2. OnlyMoves(a) /\ state'[a] = "LEAVING_NO_PROCESS"
      BY <1>0, <3>1, SendBlocksReady DEF SendOutEdges, OnlyMoves
    <3> QED BY <3>1, <3>2, UpdatesGraph
  <2>3. CASE Idle(a)
    <3>1. UNCHANGED <<state, it, batch, ready>>
      BY <1>1, <2>3 DEF RecvDoStart, Idle
    <3> QED BY <3>1, NobodyMoves
  <2> QED BY <2>1, <2>2, <2>3, DownIs
<1>2. CASE RecvDoUpdate(a)
  <2>1. NextIs(a, "DO_UPDATE")
    BY <1>2 DEF RecvDoUpdate
  <2>2. state[a] = "NO_PROCESS" /\ ~ready[a]
    BY <2>1, DownIs DEF Untouched
  <2>3. SendOutEdges(a) /\ UNCHANGED <<state, it, batch>>
    BY <1>2, <2>2 DEF RecvDoUpdate
  <2>4. OnlyMoves(a) /\ state'[a] = "NO_PROCESS"
    BY <2>2, <2>3, SendBlocksReady DEF SendOutEdges, OnlyMoves
  <2> QED BY <2>2, <2>3, <2>4, UpdatesGraph
<1>3. CASE RecvHaveUpdate(a)
  <2>1. NextIs(a, "HAVE_UPDATE")
    BY <1>3 DEF RecvHaveUpdate
  <2>2. Idle(a) /\ down[a] = <<Wake>>
    BY <2>1, DownIs
  <2>3. Head(down[a]).arg = batch[a] /\ state[a] = "IDLE" /\ ~ready[a]
    BY <2>2, HeadsOfDown DEF Idle
  <2>4. /\ FinalizeGraphBatch(a) /\ UNCHANGED <<it, batch>>
        /\ state' = [state EXCEPT ![a] = "FINALIZE_GRAPH_BATCH"]
    BY <1>3, <2>3 DEF RecvHaveUpdate
  <2>5. OnlyMoves(a) /\ state'[a] = "FINALIZE_GRAPH_BATCH"
    BY <1>0, <2>4, SendBlocksReady DEF FinalizeGraphBatch, OnlyMoves
  <2> QED BY <2>3, <2>4, <2>5, UpdatesGraph
<1>4. CASE RecvNv(a)
  <2>1. NextIs(a, "NV") /\ UNCHANGED <<it, batch>> /\ ready' = [ready EXCEPT ![a] = FALSE]
    BY <1>4 DEF RecvNv
  <2>2. /\ state' = [state EXCEPT ![a] = IF state[a] = "NO_PROCESS" THEN "WAIT_FOR_SYNC"
                                                                   ELSE "PROCESS"]
    BY <1>4 DEF RecvNv, JoinBarrier
  <2>3. OnlyMoves(a)
    BY <1>0, <2>1, <2>2 DEF OnlyMoves
  <2>4. state'[a] \in {"PROCESS", "WAIT_FOR_SYNC"}
    BY <1>0, <2>2
  <2>5. CASE Computes /\ Released(a)
    <3>1. dirIt[D] = 0 /\ it[a] = -1 /\ batch[a] = dirBatch[D]
      BY <2>5 DEF Released, Computes
    <3>2. Position(a) = <<dirBatch[D], -1>> /\ Finished(a)
      BY <2>5, <3>1 DEF Released, Position, Finished
    <3>3. Position(a)' = <<dirBatch[D], 0>>
      BY <2>1, <2>4, <3>1 DEF Position
    <3>4. <<dirBatch[D], 0>> \in Barrier!Successors(Position(a))
      BY <3>2 DEF Barrier!Successors
    <3>5. \A b \in Agent : \/ Position(b) = <<dirBatch[D], 0>>
                           \/ Position(b) = Position(a) /\ Finished(b)
      BY <2>5, <3>1, <3>2, ReleasedAt
    <3> QED BY <2>3, <3>2, <3>3, <3>4, <3>5, Passes
  <2>6. CASE Skips /\ Skipping(a)
    <3>1. \A b \in Agent : batch[b] = 0 /\ it[b] = -1
      BY <2>6 DEF Skips, Skipping, Skipped, First, Clean
    <3>2. Position(a) = <<0, -1>> /\ Finished(a)
      BY <2>6, <3>1 DEF Skipping, Position, Finished
    <3>3. Position(a)' = <<0, 0>>
      BY <2>1, <2>4, <3>1 DEF Position
    <3>4. <<0, 0>> \in Barrier!Successors(Position(a))
      BY <3>2 DEF Barrier!Successors
    <3>5. ASSUME NEW b \in Agent
          PROVE  Position(b) = <<0, 0>> \/ (Position(b) = Position(a) /\ Finished(b))
      <4>1. CASE Skipping(b)
        BY <3>1, <3>2, <4>1 DEF Skipping, Position, Finished
      <4>2. CASE Skipped(b)
        BY <3>1, <4>2 DEF Skipped, Position
      <4> QED BY <2>6, <4>1, <4>2 DEF Skips
    <3> QED BY <2>3, <3>2, <3>3, <3>4, <3>5, Passes
  <2> QED BY <2>1, <2>5, <2>6, DownIs
<1>5. CASE RecvSync(a)
  <2>1. NextIs(a, "SYNC")
    BY <1>5 DEF RecvSync
  <2>2. \/ (Settled \/ Updates) /\ Leaving(a) /\ Head(down[a]).arg = 0
        \/ Computes /\ Continuing(a) /\ Head(down[a]).arg # 0
    <3>1. Computes /\ Continuing(a) => Head(down[a]).arg # 0
      BY HeadsOfDown DEF Continuing
    <3> QED BY <2>1, <3>1, DownIs, HeadsOfDown
  <2>3. CASE (Settled \/ Updates) /\ Leaving(a) /\ Head(down[a]).arg = 0
    <3>1. EndBatch(a) /\ ready' = ready
      BY <1>5, <2>3 DEF RecvSync, Leaving
    <3>2. OnlyMoves(a) /\ state'[a] = "IDLE" /\ batch'[a] = batch[a] + 1
      BY <1>0, <3>1 DEF EndBatch, OnlyMoves
    <3>3. Position(a) = <<dirBatch[D] - 1, dirIt[D] - 1>> /\ Finished(a)
      BY <1>0, <2>3, LeavingAt
    <3>4. batch[a] + 1 = dirBatch[D] /\ (dirBatch[D] - 1) + 1 = dirBatch[D]
      BY <1>0, <2>3 DEF Leaving
    <3>5. Position(a)' = <<dirBatch[D], -1>>
      BY <3>2, <3>4 DEF Position
    <3>6. <<dirBatch[D], -1>> \in Barrier!Successors(Position(a))
      <4>1. dirIt[D] - 1 # -1
        BY <1>0, <2>3 DEF Settled, Updates
      <4> QED BY <3>3, <3>4, <4>1 DEF Barrier!Successors
    <3>7. \A b \in Agent : \/ Position(b) = <<dirBatch[D], -1>>
                           \/ Position(b) = Position(a) /\ Finished(b)
      BY <1>0, <2>3, <3>3, LeavingAt
    <3> QED BY <3>2, <3>3, <3>5, <3>6, <3>7, Passes
  <2>4. CASE Computes /\ Continuing(a) /\ Head(down[a]).arg # 0
    <3>1. /\ NextSuperstep(a) /\ UNCHANGED <<ready, dirVars>>
          /\ dirIt[D] > 0 /\ it[a] = dirIt[D] - 1 /\ ~ready[a]
      BY <1>5, <2>4 DEF RecvSync, Continuing
    <3>2. batch' = batch /\ dirIt' = dirIt /\ batch[a] = dirBatch[D]
      BY <2>4, <3>1 DEF NextSuperstep, dirVars, Computes
    <3>3. Computes'
      BY <1>5, <2>4, NextBegins
    <3>4. ProcessVertices(a, needed[a], peer)
      <4> SUFFICES ASSUME state' = [state EXCEPT ![a] = "PROCESS"], it' = it PROVE FALSE
        BY <3>1 DEF NextSuperstep
      <4>1. state'[a] = "PROCESS" /\ it'[a] # -1 /\ it'[a] # dirIt'[D]
        <5>1. it[a] # -1 /\ it[a] # dirIt[D]
          BY <1>0, <3>1
        <5> QED BY <1>0, <3>2, <5>1
      <4> QED BY <3>3, <4>1 DEF Computes, Released, Working, Waiting, Continuing
    <3>5. it[a] + 1 = dirIt[D]
      BY <1>0, <3>1
    <3>6. /\ it' = [it EXCEPT ![a] = dirIt[D]]
          /\ \/ state' = [state EXCEPT ![a] = "PROCESS"]
             \/ state' = [state EXCEPT ![a] = "WAIT_FOR_SYNC"]
      BY <3>4, <3>5 DEF ProcessVertices, JoinBarrier
    <3>7. /\ OnlyMoves(a) /\ it'[a] = dirIt[D]
          /\ state'[a] \in {"PROCESS", "WAIT_FOR_SYNC"}
      BY <1>0, <3>1, <3>2, <3>6 DEF OnlyMoves
    <3>8. /\ Position(a) = <<dirBatch[D], dirIt[D] - 1>> /\ Finished(a)
          /\ dirIt[D] - 1 # -1 /\ dirIt[D] # -1 /\ (dirIt[D] - 1) + 1 = dirIt[D]
      <4>1. /\ dirIt[D] - 1 # -1 /\ dirIt[D] # -1 /\ (dirIt[D] - 1) + 1 = dirIt[D]
        BY <1>0, <3>1
      <4> QED BY <2>4, <3>1, <3>2, <4>1 DEF Continuing, Position, Finished
    <3>9. Position(a)' = <<dirBatch[D], dirIt[D]>>
      BY <3>2, <3>7, <3>8 DEF Position
    <3>10. <<dirBatch[D], dirIt[D]>> \in Barrier!Successors(Position(a))
      BY <3>8 DEF Barrier!Successors
    <3>11. \A b \in Agent : \/ Position(b) = <<dirBatch[D], dirIt[D]>>
                            \/ Position(b) = Position(a) /\ Finished(b)
      BY <1>0, <2>4, <3>1, <3>8, ContinuingAt
    <3> QED BY <3>7, <3>8, <3>9, <3>10, <3>11, Passes
  <2> QED BY <2>2, <2>3, <2>4
<1> QED BY <1>1, <1>2, <1>3, <1>4, <1>5 DEF FromDirectoryStep

(* pre_poll and OUT_VN run a superstep only in the first one of a batch.   *)
LEMMA SuperstepMaps ==
  ASSUME TypeOK, Computes, Computes', NEW a \in Agent, state[a] = "PROCESS",
         NEW need, NEW net, ProcessVertices(a, need, net),
         UNCHANGED <<batch, ready, dirVars>>
  PROVE  Barrier!Arrive(a) \/ UNCHANGED Barrier!barrierVars
<1>1. /\ state \in [Agent -> AgentState] /\ it \in [Agent -> -1 .. MaxIt]
  BY DEF TypeOK
<1>2. /\ it' = [it EXCEPT ![a] = it[a] + 1]
      /\ \/ state' = [state EXCEPT ![a] = "PROCESS"]
         \/ state' = [state EXCEPT ![a] = "WAIT_FOR_SYNC"]
  BY DEF ProcessVertices, JoinBarrier
<1>3. Working(a)
  BY DEF Computes, Released, Waiting, Continuing
<1>4. it'[a] = it[a] + 1 /\ state'[a] \in {"PROCESS", "WAIT_FOR_SYNC"}
  BY <1>1, <1>2
<1>5. it[a] = -1
  <2> SUFFICES ASSUME it[a] # -1 PROVE FALSE
    OBVIOUS
  <2>1. it[a] = dirIt[D] /\ it[a] \in Nat /\ dirIt'[D] = dirIt[D]
    BY <1>1, <1>3 DEF Working, dirVars
  <2>2. it'[a] # -1 /\ it'[a] # dirIt'[D] /\ it'[a] # dirIt'[D] - 1
    BY <1>4, <2>1
  <2> QED BY <2>2 DEF Computes, Released, Working, Waiting, Continuing
<1>6. ~ready[a] /\ ~ready'[a] /\ batch'[a] = batch[a] /\ it'[a] = 0
  BY <1>3, <1>4, <1>5 DEF Working
<1>7. OnlyMoves(a)
  BY <1>1, <1>2 DEF OnlyMoves
<1> QED BY <1>4, <1>5, <1>6, <1>7, RunsSuperstep

LEMMA TalksMaps ==
  ASSUME Setting, TypeOK, LockInv, LockInv', NEW a \in Agent, NEW b \in Agent,
         FromPeerStep(a, b)
  PROVE  Barrier!Arrive(a) \/ UNCHANGED Barrier!barrierVars
<1>1. CASE RecvSendUpdates(a, b)
  BY <1>1, NobodyMoves DEF RecvSendUpdates
<1>2. CASE RecvAckUpdates(a, b)
  <2>1. PeerSends(b, a, "ACK_UPDATES") /\ UNCHANGED <<state, it, batch>>
    BY <1>2 DEF RecvAckUpdates
  <2>2. Loads /\ Head(peer[b][a]) = Ack /\ peer[b][a] # <<>>
    BY <2>1, PeerIs DEF PeerSends
  <2>3. PICK c \in {"START", "UPDATE"} : LoadedBy(c)
    BY <2>2 DEF Loads
  <2>4. acks[a] > 0
    BY <1>2, <2>2, <2>3, AckTaken DEF LoadedBy
  <2>5. ~ready[a] /\ state[a] \notin {"PROCESS", "WAIT_FOR_SYNC"}
    BY <2>3, <2>4 DEF LoadedBy, Untouched, Loading
  <2>6. ready' = ready \/ ready' = [ready EXCEPT ![a] = TRUE]
    BY <1>2 DEF RecvAckUpdates, DoneWaitingReadyNvNe
  <2>7. OnlyMoves(a)
    BY <2>1, <2>6 DEF OnlyMoves, TypeOK
  <2> QED BY <2>1, <2>5, <2>7, UpdatesGraph
<1>3. CASE RecvOutVn(a, b)
  <2>1. PeerSends(b, a, "OUT_VN") /\ UNCHANGED <<batch, ready, dirVars>>
    BY Zenon, <1>3 DEF RecvOutVn
  <2>2. Computes /\ peer[b][a] = <<Note>> /\ it[b] = dirIt[D] /\ a # b
    BY <2>1, PeerIs
  <2>3. Computes'
    <3>1. peer[b][a] = <<Note>> /\ it[b] = dirIt[D] /\ a # b /\ Computes
      BY <2>2
    <3> QED BY <1>3, <3>1, NoteArrives
  <2>4. \/ /\ state[a] = "PROCESS" /\ JoinBarrier(a, dormant[a]) /\ it' = it
        \/ state[a] = "PROCESS" /\ \E need, net : ProcessVertices(a, need, net)
        \/ UNCHANGED <<state, it>>
    BY Zenon, <1>3 DEF RecvOutVn
  <2>5. CASE state[a] = "PROCESS" /\ JoinBarrier(a, dormant[a]) /\ it' = it
    <3>1. Working(a)
      BY <2>2, <2>5 DEF Computes, Released, Waiting, Continuing
    <3>2. state' = [state EXCEPT ![a] = "WAIT_FOR_SYNC"]
      BY <2>5 DEF JoinBarrier
    <3>3. OnlyMoves(a) /\ state'[a] = "WAIT_FOR_SYNC"
      BY <2>1, <2>5, <3>2 DEF OnlyMoves, TypeOK
    <3>4. ~ready[a] /\ ~ready'[a]
      BY <2>1, <3>1 DEF Working
    <3> QED BY <2>1, <2>5, <3>3, <3>4, RunsSuperstep
  <2>6. CASE state[a] = "PROCESS" /\ \E need, net : ProcessVertices(a, need, net)
    <3>1. PICK need, net : ProcessVertices(a, need, net)
      BY <2>6
    <3> QED BY <2>1, <2>2, <2>3, <2>6, <3>1, SuperstepMaps
  <2>7. CASE UNCHANGED <<state, it>>
    BY <2>1, <2>7, NobodyMoves
  <2> QED BY <2>4, <2>5, <2>6, <2>7
<1> QED BY <1>1, <1>2, <1>3 DEF FromPeerStep

LEMMA StepMaps ==
  ASSUME Setting, TypeOK, LockInv, LockInv', [Next]_vars
  PROVE  [Barrier!Next]_(Barrier!barrierVars)
<1>1. ASSUME NEW a \in Agent, AgentStep(a)
      PROVE  Barrier!Arrive(a) \/ Barrier!Pass(a) \/ UNCHANGED Barrier!barrierVars
  <2>1. CASE FromDirectoryStep(a)
    BY <2>1, HearsMaps
  <2>2. CASE PrePoll(a)
    <3>1. /\ state[a] = "PROCESS" /\ ProcessVertices(a, needed[a], peer)
          /\ UNCHANGED <<batch, ready, dirVars>>
      BY <2>2 DEF PrePoll
    <3>2. Computes
      BY <3>1 DEF LockInv, Unloaded, Untouched, Loads, LoadedBy, Loading, Settled, Leaving,
                  Idle, Updates, Updating, Skips, Skipping, Skipped
    <3>3. Computes'
      BY <2>2, <3>2, LoopRuns
    <3> QED BY <3>1, <3>2, <3>3, SuperstepMaps
  <2>3. ASSUME NEW b \in Agent, FromPeerStep(a, b)
        PROVE  Barrier!Arrive(a) \/ UNCHANGED Barrier!barrierVars
    BY <2>3, TalksMaps
  <2> QED BY <1>1, <2>1, <2>2, <2>3 DEF AgentStep
<1>2. ASSUME NEW a \in Agent, DirAgentStep(a) PROVE UNCHANGED Barrier!barrierVars
  BY <1>2, NobodyMoves DEF DirAgentStep, DirReadyNvNe, DirReadySync, DirHaveUpdate,
                           FromAgent, agentVars
<1>3. ASSUME NEW d \in Directory, DirCommand(d) PROVE UNCHANGED Barrier!barrierVars
  BY <1>3, NobodyMoves DEF DirCommand, agentVars
<1>4. ASSUME NEW d \in Directory, NEW e \in Directory, DirPeerStep(d, e)
      PROVE  UNCHANGED Barrier!barrierVars
  BY <1>4, NobodyMoves DEF DirPeerStep, DirReadyNvNeInt, DirReadySyncInt,
                           DirHaveUpdateInt, FromDirectory, agentVars
<1>5. ASSUME NEW a \in Agent, RecvUpdateEdge(a) \/ RecvUpdateEdges(a)
      PROVE  UNCHANGED Barrier!barrierVars
  BY <1>5, NobodyMoves DEF RecvUpdateEdge, RecvUpdateEdges
<1>6. ASSUME NEW c \in Commands, ClientCommand(c) PROVE UNCHANGED Barrier!barrierVars
  BY <1>6, NobodyMoves DEF ClientCommand, agentVars
<1>7. CASE UNCHANGED vars
  BY <1>7, NobodyMoves DEF vars, agentVars
<1> QED BY <1>1, <1>2, <1>3, <1>4, <1>5, <1>6, <1>7 DEF Next, Rest, Barrier!Next

(* The cycle is a bulk-synchronous computation (agent.cpp:183-188): agents *)
(* pass from superstep to superstep in lock step and agree on where each   *)
(* batch ends.  Each step of the cycle is a stutter, or one agent arriving *)
(* at the barrier, or one agent passing it.                                *)
THEOREM CycleImplementsBarrier == ASSUME Setting PROVE Spec => ImplementsBarrier
<1>1. Init => Barrier!Init
  <2> SUFFICES ASSUME Init PROVE Barrier!Init
    OBVIOUS
  <2>1. \A a \in Agent : Position(a) = <<0, -1>> /\ ~Finished(a)
    BY DEF Init, Position, Finished
  <2> QED BY <2>1 DEF Barrier!Init
<1>2. TypeOK /\ LockInv /\ LockInv' /\ [Next]_vars => [Barrier!Next]_(Barrier!barrierVars)
  BY StepMaps
<1> QED BY <1>1, <1>2, TypeCorrect, InLockStep, PTL DEF Spec, ImplementsBarrier, Barrier!Spec

-----------------------------------------------------------------------------
(* The barrier itself, without messages.                                   *)

VARIABLES pos, loc
Abstract == INSTANCE BatchBarrier

(* Positions stay pairs of a batch and a superstep, also after batches end *)
(* (the position a directory packs into SYNC and NV).                      *)
THEOREM BarrierTypeCorrect == Abstract!Spec => []Abstract!TypeOK
<1>1. Abstract!Init => Abstract!TypeOK
  BY DEF Abstract!Init, Abstract!TypeOK, Abstract!Position
<1>2. Abstract!TypeOK /\ [Abstract!Next]_(Abstract!barrierVars) => Abstract!TypeOK'
  <2> SUFFICES ASSUME Abstract!TypeOK, [Abstract!Next]_(Abstract!barrierVars) PROVE Abstract!TypeOK'
    OBVIOUS
  <2> USE DEF Abstract!TypeOK
  <2>1. ASSUME NEW a \in Agent, Abstract!Arrive(a) PROVE Abstract!TypeOK'
    BY <2>1 DEF Abstract!Arrive
  <2>2. ASSUME NEW a \in Agent, Abstract!Pass(a) PROVE Abstract!TypeOK'
    <3>1. PICK q \in Abstract!Successors(pos[a]) : pos' = [pos EXCEPT ![a] = q]
      BY <2>2 DEF Abstract!Pass
    <3>2. pos[a] \in Abstract!Position
      OBVIOUS
    <3>3. q \in Abstract!Position
      BY <3>1, <3>2 DEF Abstract!Successors, Abstract!Position
    <3>4. loc' \in [Agent -> {"work", "wait"}]
      BY <2>2 DEF Abstract!Pass
    <3> QED BY <3>1, <3>3, <3>4
  <2>3. CASE UNCHANGED Abstract!barrierVars
    BY <2>3 DEF Abstract!barrierVars
  <2> QED BY <2>1, <2>2, <2>3 DEF Abstract!Next
<1> QED BY <1>1, <1>2, PTL DEF Abstract!Spec

(* The barrier of agent.cpp:183-188: no agent is ever more than one        *)
(* superstep ahead of another, nor in a batch the other has not left.      *)
(* LockStep is inductive, given the types.                                 *)
THEOREM LockStepHolds == Abstract!Spec => []Abstract!LockStep
<1>1. Abstract!Init => Abstract!LockStep
  BY DEF Abstract!Init, Abstract!LockStep
<1>2. Abstract!TypeOK /\ Abstract!LockStep /\ [Abstract!Next]_(Abstract!barrierVars) => Abstract!LockStep'
  <2> SUFFICES ASSUME Abstract!TypeOK, Abstract!LockStep, [Abstract!Next]_(Abstract!barrierVars),
                      NEW x \in Agent, NEW y \in Agent
               PROVE  (pos[x] = pos[y] \/ Abstract!OneAhead(x, y) \/ Abstract!OneAhead(y, x))'
    BY DEF Abstract!LockStep
  <2>0. pos[x] = pos[y] \/ Abstract!OneAhead(x, y) \/ Abstract!OneAhead(y, x)
    BY DEF Abstract!LockStep
  <2>1. ASSUME NEW a \in Agent, Abstract!Arrive(a)
        PROVE  (pos[x] = pos[y] \/ Abstract!OneAhead(x, y) \/ Abstract!OneAhead(y, x))'
    BY <2>0, <2>1 DEF Abstract!Arrive, Abstract!OneAhead, Abstract!TypeOK
  <2>2. ASSUME NEW a \in Agent, Abstract!Pass(a)
        PROVE  (pos[x] = pos[y] \/ Abstract!OneAhead(x, y) \/ Abstract!OneAhead(y, x))'
    <3>1. PICK q \in Abstract!Successors(pos[a]) :
            /\ \A b \in Agent : pos[b] = q \/ (pos[b] = pos[a] /\ loc[b] = "wait")
            /\ pos' = [pos EXCEPT ![a] = q]
      BY <2>2 DEF Abstract!Pass
    <3>2. \A b \in Agent \ {a} : pos'[b] = pos[b] /\ loc'[b] = loc[b]
      BY <2>2, <3>1 DEF Abstract!Pass, Abstract!TypeOK
    <3>3. pos'[a] = q
      BY <3>1 DEF Abstract!TypeOK
    (* Any other agent is at q already, or still waits where a was.        *)
    <3>4. ASSUME NEW b \in Agent \ {a} PROVE (pos[a] = pos[b] \/ Abstract!OneAhead(b, a))'
      BY <3>1, <3>2, <3>3, <3>4 DEF Abstract!OneAhead, Abstract!Successors
    <3>5. CASE x = a /\ y = a
      BY <3>5
    <3>6. CASE x = a /\ y # a
      BY <3>4, <3>6
    <3>7. CASE x # a /\ y = a
      BY <3>4, <3>7
    <3>8. CASE x # a /\ y # a
      BY <2>0, <3>2, <3>8 DEF Abstract!OneAhead, Abstract!Successors
    <3> QED BY <3>5, <3>6, <3>7, <3>8
  <2>3. CASE UNCHANGED Abstract!barrierVars
    BY <2>0, <2>3 DEF Abstract!barrierVars, Abstract!OneAhead, Abstract!Successors
  <2> QED BY <2>1, <2>2, <2>3 DEF Abstract!Next
<1> QED BY <1>1, <1>2, BarrierTypeCorrect, PTL DEF Abstract!Spec
=============================================================================
