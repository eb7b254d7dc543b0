----------------------------- MODULE BatchCycle -----------------------------
(***************************************************************************)
(* The batch cycle of ElGA: agents and directories taking the system from  *)
(* the loading phase through START, the reciprocal edges, the exchange of  *)
(* the global nV/nE, the supersteps and back to idle, and then through     *)
(* the batches that streamed edges or a further START begin.               *)
(*                                                                         *)
(* Each action is one message taken by one single-threaded loop            *)
(* (Participant::do_poll, Directory::start) together with everything the   *)
(* handler does, or one pass of Agent::pre_poll.  All connections are      *)
(* ZeroMQ pipes without a high-water mark: reliable, unbounded and ordered *)
(* between a given sender and receiver, with no order across connections.  *)
(*                                                                         *)
(* The build modelled is CONFIG_LBSP (WCC, BFS, k-core, LPA), without      *)
(* vertex replication and with a fixed set of agents.  The graph is        *)
(* abstracted: "pending" says whether update_set_ holds edges, and the     *)
(* agents that own the other end of an agent's edges are chosen freely.    *)
(***************************************************************************)
EXTENDS Integers, Sequences, FiniteSets

CONSTANTS
  Agent,        \* the agents of the system
  Directory,    \* the directories
  Home,         \* Home[a]: the directory agent a was given and subscribes to
  Commands,     \* the client commands used: a subset of {"START", "UPDATE"}
  EdgeKinds,    \* how streamers send edges: {"UPDATE_EDGE", "UPDATE_EDGES"}
  CrossEdges,   \* whether a streamed edge may have its ends on two agents
  MaxIt,        \* bound: the algorithm votes to stop at this superstep
  MaxBatch,     \* bound: batches
  MaxCommands,  \* bound: client commands
  MaxEdges      \* bound: messages of streamed edges

ASSUME SystemAssumption ==
  /\ Agent # {} /\ IsFiniteSet(Agent)
  /\ Home \in [Agent -> Directory]
ASSUME ParameterAssumption ==
  /\ Commands \subseteq {"START", "UPDATE"}
  /\ EdgeKinds \subseteq {"UPDATE_EDGE", "UPDATE_EDGES"}
  /\ CrossEdges \in BOOLEAN
ASSUME BoundAssumption ==
  MaxIt \in Nat /\ MaxBatch \in Nat /\ MaxCommands \in Nat /\ MaxEdges \in Nat

VARIABLES
  (* Agent *)
  state,        \* state_
  it,           \* it_: the last superstep run, -1 outside a batch
  batch,        \* batch_
  needed,       \* agent_msgs_needed_
  dormant,      \* num_dormant_: 1 if a vertex still wants a superstep, else 0
  acks,         \* update_acks_needed_
  pending,      \* update_set_ is not empty
  asked,        \* requested_leave_idle_
  (* Directory *)
  readyCtr,     \* ready_ctr_
  dirIt,        \* it_
  dirBatch,     \* batch_
  syncCtr,      \* sync_ctr_[batch][it]
  dormantSum,   \* num_dormant_[batch][it]
  agentsIdle,   \* agents_idle_
  (* connections *)
  up,           \* up[a]: a's PUSH socket to its directory
  down,         \* down[a]: what a's directory published for agents
  link,         \* link[d][e]: what d published, for its subscriber e
  peer,         \* peer[a][b]: a's PUSH socket to b
  command,      \* command[d]: client commands the directory master published
  (* environment and history *)
  commands,     \* client commands issued so far
  edges,        \* messages of streamed edges so far
  ready,        \* history: a has sent READY_NV_NE and not yet received NV
  fault         \* the exception that ended a process, "none" if none did

agentVars == <<state, it, batch, needed, dormant, acks, pending, asked, ready>>
dirVars   == <<readyCtr, dirIt, dirBatch, syncCtr, dormantSum, agentsIdle>>
netVars   == <<up, down, link, peer, command>>
envVars   == <<commands, edges>>
vars      == <<agentVars, dirVars, netVars, envVars, fault>>

NumAgents == Cardinality(Agent)
Round == 0 .. MaxIt + 1
Batch == 0 .. MaxBatch

AgentState == {"NO_PROCESS", "LEAVING_NO_PROCESS", "IDLE",
               "FINALIZE_GRAPH_BATCH", "PROCESS", "WAIT_FOR_SYNC"}

Fault == {"none", "Unknown control flow", "START from unknown state",
          "Update only valid before processing", "Received wrong batch",
          "Received too many syncs", "Future batch received"}

(* Messages: "arg" is the number the message carries, 0 if it has none.    *)
ToDirectory == [type : {"READY_NV_NE", "READY_SYNC", "HAVE_UPDATE"}, arg : Nat]
ToAgent == [type : {"DO_START", "DO_UPDATE", "NV", "SYNC", "HAVE_UPDATE"},
            arg : Nat]
ToPeer == [type : {"OUT_VN", "SEND_UPDATES", "ACK_UPDATES"}, arg : Round]
Linked == [type : {"READY_NV_NE_INT", "READY_SYNC_INT", "HAVE_UPDATE"},
           arg : Nat, it : Round, batch : Batch]

Msg(t, n) == [type |-> t, arg |-> n]
LinkMsg(t, n, k, b) == [type |-> t, arg |-> n, it |-> k, batch |-> b]

TypeOK ==
  /\ state \in [Agent -> AgentState]
  /\ it \in [Agent -> -1 .. MaxIt]
  /\ batch \in [Agent -> Batch]
  /\ needed \in [Agent -> [Round -> Int]]
  /\ dormant \in [Agent -> {0, 1}]
  /\ acks \in [Agent -> Int]
  /\ pending \in [Agent -> BOOLEAN]
  /\ asked \in [Agent -> BOOLEAN]
  /\ readyCtr \in [Directory -> Nat]
  /\ dirIt \in [Directory -> Round]
  /\ dirBatch \in [Directory -> Batch]
  /\ syncCtr \in [Directory -> [Batch -> [Round -> Nat]]]
  /\ dormantSum \in [Directory -> [Batch -> [Round -> Nat]]]
  /\ agentsIdle \in [Directory -> BOOLEAN]
  /\ up \in [Agent -> Seq(ToDirectory)]
  /\ down \in [Agent -> Seq(ToAgent)]
  /\ link \in [Directory -> [Directory -> Seq(Linked)]]
  /\ peer \in [Agent -> [Agent -> Seq(ToPeer)]]
  /\ command \in [Directory -> Seq(Commands)]
  /\ commands \in 0 .. MaxCommands
  /\ edges \in 0 .. MaxEdges
  /\ ready \in [Agent -> BOOLEAN]
  /\ fault \in Fault

Init ==
  /\ state = [a \in Agent |-> "NO_PROCESS"]
  /\ it = [a \in Agent |-> -1]
  /\ batch = [a \in Agent |-> 0]
  /\ needed = [a \in Agent |-> [k \in Round |-> 0]]
  /\ dormant = [a \in Agent |-> 0]
  /\ acks = [a \in Agent |-> 0]
  /\ pending = [a \in Agent |-> FALSE]
  /\ asked = [a \in Agent |-> FALSE]
  /\ readyCtr = [d \in Directory |-> 0]
  /\ dirIt = [d \in Directory |-> 0]
  /\ dirBatch = [d \in Directory |-> 0]
  /\ syncCtr = [d \in Directory |-> [b \in Batch |-> [k \in Round |-> 0]]]
  /\ dormantSum = [d \in Directory |-> [b \in Batch |-> [k \in Round |-> 0]]]
  /\ agentsIdle = [d \in Directory |-> FALSE]
  /\ up = [a \in Agent |-> <<>>]
  /\ down = [a \in Agent |-> <<>>]
  /\ link = [d \in Directory |-> [e \in Directory |-> <<>>]]
  /\ peer = [a \in Agent |-> [b \in Agent |-> <<>>]]
  /\ command = [d \in Directory |-> <<>>]
  /\ commands = 0
  /\ edges = 0
  /\ ready = [a \in Agent |-> FALSE]
  /\ fault = "none"

(* A C++ exception nobody catches: the process ends where it is.           *)
Throw(what) ==
  /\ fault' = what
  /\ UNCHANGED <<agentVars, dirVars, netVars, envVars>>

-----------------------------------------------------------------------------
(* Taking and sending messages.                                            *)

Running == fault = "none"

NextIs(a, t) == Running /\ down[a] # <<>> /\ Head(down[a]).type = t
PeerSends(b, a, t) == Running /\ peer[b][a] # <<>> /\ Head(peer[b][a]).type = t
AgentSends(a, t) == Running /\ up[a] # <<>> /\ Head(up[a]).type = t
LinkSends(e, d, t) == Running /\ link[e][d] # <<>> /\ Head(link[e][d]).type = t

Take(a) == down' = [down EXCEPT ![a] = Tail(@)]

Pushed(a, m) == [up EXCEPT ![a] = Append(@, m)]

(* The peer connections with one message m more from a to each of dests.   *)
Sent(net, a, dests, m) ==
  [net EXCEPT ![a] = [b \in Agent |-> IF b \in dests THEN Append(net[a][b], m)
                                                     ELSE net[a][b]]]

(* What the agents, or the other directories, get when d publishes m.      *)
ToAgents(d, m) ==
  [a \in Agent |-> IF Home[a] = d THEN Append(down[a], m) ELSE down[a]]
ToPeers(net, d, m) ==
  [net EXCEPT ![d] = [e \in Directory |-> IF e = d THEN net[d][e]
                                                   ELSE Append(net[d][e], m)]]

-----------------------------------------------------------------------------
(* Agent: leaving NO_PROCESS or IDLE and updating the graph.               *)

(* Mutant: the superstep is packed in the place of the batch.              *)
StartLeavingIdleWithIt(a) ==
  /\ asked' = [asked EXCEPT ![a] = TRUE]
  /\ up' = IF asked[a] THEN up ELSE Pushed(a, Msg("HAVE_UPDATE", it[a]))

(* The agent asks its directory for the next batch, once.                  *)
StartLeavingIdle(a) ==
  /\ asked' = [asked EXCEPT ![a] = TRUE]
  /\ up' = IF asked[a] THEN up ELSE Pushed(a, Msg("HAVE_UPDATE", batch[a]))

DoneWaitingReadyNvNe(a) ==
  /\ up' = Pushed(a, Msg("READY_NV_NE", 0))
  /\ ready' = [ready EXCEPT ![a] = TRUE]

(* One SEND_UPDATES to each agent of dests, which will acknowledge it.     *)
(* arg 1 marks a block that lists the IN edges of the sender instead of    *)
(* OUT edges of the receiver.                                              *)
SendBlocks(a, dests, misrouted) ==
  /\ peer' = Sent(peer, a, dests, Msg("SEND_UPDATES", misrouted))
  /\ acks' = [acks EXCEPT ![a] = @ + Cardinality(dests)]
  /\ IF acks[a] + Cardinality(dests) = 0
     THEN DoneWaitingReadyNvNe(a)
     ELSE UNCHANGED <<up, ready>>

(* send_out_edges: the OUT edge of each IN edge, to the agent owning it.   *)
SendOutEdges(a) == \E dests \in SUBSET (Agent \ {a}) : SendBlocks(a, dests, 0)

(* finalize_graph_batch: it pushes u itself, not new_u, for other agents.  *)
FinalizeGraphBatch(a) ==
  /\ \E dests \in IF pending[a] /\ CrossEdges THEN SUBSET (Agent \ {a}) ELSE {{}} :
       SendBlocks(a, dests, 1)
  /\ pending' = [pending EXCEPT ![a] = FALSE]

RecvDoStart(a) ==
  /\ NextIs(a, "DO_START")
  /\ IF state[a] \notin {"NO_PROCESS", "IDLE"}
     THEN Throw("START from unknown state")
     ELSE /\ Take(a)
          /\ \/ /\ state[a] = "NO_PROCESS"
                /\ state' = [state EXCEPT ![a] = "LEAVING_NO_PROCESS"]
                /\ SendOutEdges(a)
                /\ UNCHANGED asked
             \/ /\ state[a] = "IDLE"
                /\ StartLeavingIdle(a)
                /\ UNCHANGED <<state, acks, ready, peer>>
          /\ UNCHANGED <<it, batch, needed, dormant, pending,
                         dirVars, link, command, envVars, fault>>

RecvDoUpdate(a) ==
  /\ NextIs(a, "DO_UPDATE")
  /\ IF state[a] # "NO_PROCESS"
     THEN Throw("Update only valid before processing")
     ELSE /\ Take(a)
          /\ SendOutEdges(a)
          /\ UNCHANGED <<state, it, batch, needed, dormant, pending, asked,
                         dirVars, link, command, envVars, fault>>

(* No state is excluded: a HAVE_UPDATE always restarts the agent.          *)
RecvHaveUpdate(a) ==
  /\ NextIs(a, "HAVE_UPDATE")
  /\ IF Head(down[a]).arg # batch[a]
     THEN Throw("Received wrong batch")
     ELSE /\ Take(a)
          /\ state' = [state EXCEPT ![a] = "FINALIZE_GRAPH_BATCH"]
          /\ FinalizeGraphBatch(a)
          /\ UNCHANGED <<it, batch, needed, dormant, asked,
                         dirVars, link, command, envVars, fault>>

(* Mutant: the receiver takes no block for its own and returns every one.  *)
RecvSendUpdatesReturning(a, b) ==
  /\ PeerSends(b, a, "SEND_UPDATES")
  /\ peer' = [peer EXCEPT ![b][a] = Tail(@),
                          ![a][b] = @ \o <<Msg("SEND_UPDATES", 0), Msg("ACK_UPDATES", 0)>>]
  /\ acks' = [acks EXCEPT ![a] = @ + 1]
  /\ UNCHANGED <<state, it, batch, needed, dormant, pending, asked, ready,
                 up, down, dirVars, link, command, envVars, fault>>

(* A block of edges.  Edges another agent owns (arg 1) go straight back to *)
(* the sender, and have to be acknowledged; the block itself is then       *)
(* acknowledged.                                                           *)
RecvSendUpdates(a, b) ==
  /\ PeerSends(b, a, "SEND_UPDATES")
  /\ LET moves == Head(peer[b][a]).arg
         back  == IF moves = 1 THEN <<Msg("SEND_UPDATES", 0), Msg("ACK_UPDATES", 0)>>
                               ELSE <<Msg("ACK_UPDATES", 0)>>
         net   == [peer EXCEPT ![b][a] = Tail(@)]
     IN  /\ peer' = [net EXCEPT ![a][b] = @ \o back]
         /\ acks' = [acks EXCEPT ![a] = @ + moves]
  /\ UNCHANGED <<state, it, batch, needed, dormant, pending, asked, ready,
                 up, down, dirVars, link, command, envVars, fault>>

RecvAckUpdates(a, b) ==
  /\ PeerSends(b, a, "ACK_UPDATES")
  /\ peer' = [peer EXCEPT ![b][a] = Tail(@)]
  /\ acks' = [acks EXCEPT ![a] = @ - 1]
  /\ IF acks[a] - 1 = 0 THEN DoneWaitingReadyNvNe(a) ELSE UNCHANGED <<up, ready>>
  /\ UNCHANGED <<state, it, batch, needed, dormant, pending, asked,
                 down, dirVars, link, command, envVars, fault>>

(* Streamed edges.  In NO_PROCESS they go straight into the graph.  Both   *)
(* messages queue them otherwise, but only UPDATE_EDGE wakes an idle agent.*)
RecvUpdateEdge(a) ==
  /\ Running /\ "UPDATE_EDGE" \in EdgeKinds /\ edges < MaxEdges
  /\ state[a] # "NO_PROCESS"
  /\ edges' = edges + 1
  /\ pending' = [pending EXCEPT ![a] = TRUE]
  /\ IF state[a] = "IDLE" THEN StartLeavingIdle(a) ELSE UNCHANGED <<asked, up>>
  /\ UNCHANGED <<state, it, batch, needed, dormant, acks, ready,
                 down, peer, dirVars, link, command, commands, fault>>

RecvUpdateEdges(a) ==
  /\ Running /\ "UPDATE_EDGES" \in EdgeKinds /\ edges < MaxEdges
  /\ state[a] # "NO_PROCESS"
  /\ edges' = edges + 1
  /\ pending' = [pending EXCEPT ![a] = TRUE]
  /\ UNCHANGED <<state, it, batch, needed, dormant, acks, asked, ready,
                 netVars, dirVars, commands, fault>>

-----------------------------------------------------------------------------
(* Agent: supersteps.                                                      *)

(* Whether some vertex wants another superstep after superstep k.          *)
Vote(k) == IF k < MaxIt THEN {0, 1} ELSE {0}

JoinBarrier(a, active) ==
  /\ state' = [state EXCEPT ![a] = "WAIT_FOR_SYNC"]
  /\ up' = Pushed(a, Msg("READY_SYNC", active))

(* Mutant: the agent joins the barrier without the notifications.          *)
ProcessVerticesWithoutWaiting(a, need, net) ==
  LET k == it[a] + 1
  IN  /\ need[k] <= 0
      /\ k <= MaxIt
      /\ it' = [it EXCEPT ![a] = k]
      /\ needed' = [needed EXCEPT ![a] = [need EXCEPT ![k + 1] = @ + (NumAgents - 1)]]
      /\ peer' = Sent(net, a, Agent \ {a}, Msg("OUT_VN", k + 1))
      /\ \E vote \in Vote(k) :
           /\ dormant' = [dormant EXCEPT ![a] = vote]
           /\ JoinBarrier(a, vote)

(* One superstep of agent a, when it has the notifications for it: every   *)
(* vertex is processed, every other agent gets a (possibly empty) OUT_VN   *)
(* for the next superstep, and the agent joins the barrier if all those    *)
(* addressed to it are already here.  need and net are agent_msgs_needed_  *)
(* and the connections as the handler has left them so far.                *)
ProcessVertices(a, need, net) ==
  LET k    == it[a] + 1
      want == [need EXCEPT ![k + 1] = @ + (NumAgents - 1)]
  IN  /\ need[k] <= 0
      /\ k <= MaxIt
      /\ it' = [it EXCEPT ![a] = k]
      /\ needed' = [needed EXCEPT ![a] = want]
      /\ peer' = Sent(net, a, Agent \ {a}, Msg("OUT_VN", k + 1))
      /\ \E vote \in Vote(k) :
           /\ dormant' = [dormant EXCEPT ![a] = vote]
           /\ IF want[k + 1] = 0
              THEN JoinBarrier(a, vote)
              ELSE state' = [state EXCEPT ![a] = "PROCESS"] /\ UNCHANGED up

(* The loop's own pre_poll, between two messages.                          *)
PrePoll(a) ==
  /\ Running /\ state[a] = "PROCESS"
  /\ ProcessVertices(a, needed[a], peer)
  /\ UNCHANGED <<batch, acks, pending, asked, ready,
                 dirVars, down, link, command, envVars, fault>>

(* All agents are ready.  An agent that got here by UPDATE joins the       *)
(* barrier of an empty batch.                                              *)
RecvNv(a) ==
  /\ NextIs(a, "NV")
  /\ Take(a)
  /\ IF state[a] = "NO_PROCESS"
     THEN JoinBarrier(a, dormant[a])
     ELSE state' = [state EXCEPT ![a] = "PROCESS"] /\ UNCHANGED up
  /\ ready' = [ready EXCEPT ![a] = FALSE]
  /\ UNCHANGED <<it, batch, needed, dormant, acks, pending, asked,
                 dirVars, link, peer, command, envVars, fault>>

(* A notification block for superstep k arrives: an idle agent drops it,   *)
(* any other counts it; in PROCESS it may be the one that completes the    *)
(* superstep (to the barrier), or precede the first one (run it now).      *)
RecvOutVn(a, b) ==
  /\ PeerSends(b, a, "OUT_VN")
  /\ LET need == [needed[a] EXCEPT ![Head(peer[b][a]).arg] = @ - 1]
         net  == [peer EXCEPT ![b][a] = Tail(@)]
         next == need[it[a] + 1]
         last == state[a] = "PROCESS" /\ it[a] >= 0 /\ next = 0
     IN  \/ /\ last
            /\ JoinBarrier(a, dormant[a])
            /\ needed' = [needed EXCEPT ![a] = need]
            /\ peer' = net
            /\ UNCHANGED <<it, dormant>>
         \/ /\ state[a] = "PROCESS" /\ ~last
            /\ ProcessVertices(a, need, net)
         \/ /\ state[a] # "PROCESS" \/ next > 0
            /\ needed' = IF state[a] = "IDLE" THEN needed
                                             ELSE [needed EXCEPT ![a] = need]
            /\ peer' = net
            /\ UNCHANGED <<state, it, dormant, up>>
  /\ UNCHANGED <<batch, acks, pending, asked, ready,
                 down, dirVars, link, command, envVars, fault>>

(* Mutant: edges queued during the batch wait for somebody else's.         *)
EndBatchForgetting(a) ==
  /\ batch[a] < MaxBatch
  /\ state' = [state EXCEPT ![a] = "IDLE"]
  /\ batch' = [batch EXCEPT ![a] = @ + 1]
  /\ it' = [it EXCEPT ![a] = -1]
  /\ needed' = [needed EXCEPT ![a] = [k \in Round |-> 0]]
  /\ dormant' = [dormant EXCEPT ![a] = 0]
  /\ asked' = [asked EXCEPT ![a] = FALSE]
  /\ UNCHANGED <<peer, up>>

(* SYNC 0 ends the batch: clear_batch_mem, and on to the next batch if     *)
(* edges are queued.                                                       *)
EndBatch(a) ==
  /\ batch[a] < MaxBatch
  /\ state' = [state EXCEPT ![a] = "IDLE"]
  /\ batch' = [batch EXCEPT ![a] = @ + 1]
  /\ it' = [it EXCEPT ![a] = -1]
  /\ needed' = [needed EXCEPT ![a] = [k \in Round |-> 0]]
  /\ dormant' = [dormant EXCEPT ![a] = 0]
  /\ asked' = [asked EXCEPT ![a] = pending[a]]
  /\ up' = IF pending[a] THEN Pushed(a, Msg("HAVE_UPDATE", batch[a] + 1)) ELSE up
  /\ UNCHANGED peer

(* Any other SYNC starts the next superstep within the handler.            *)
NextSuperstep(a) ==
  /\ IF needed[a][it[a] + 1] > 0
     THEN /\ state' = [state EXCEPT ![a] = "PROCESS"]
          /\ dormant' = [dormant EXCEPT ![a] = 0]
          /\ UNCHANGED <<it, needed, peer, up>>
     ELSE ProcessVertices(a, needed[a], peer)
  /\ UNCHANGED <<batch, asked>>

RecvSync(a) ==
  /\ NextIs(a, "SYNC")
  /\ IF state[a] # "WAIT_FOR_SYNC"
     THEN Throw("Unknown control flow")
     ELSE /\ Take(a)
          /\ IF Head(down[a]).arg = 0 THEN EndBatch(a) ELSE NextSuperstep(a)
          /\ UNCHANGED <<acks, pending, ready, dirVars, link, command, envVars,
                         fault>>

-----------------------------------------------------------------------------
(* Directory.  Every handler exists for a message of one of its agents,    *)
(* which it publishes to the other directories, and for a message another  *)
(* directory published.                                                    *)

(* Mutant: the counter is not reset, so one message releases every later   *)
(* batch.                                                                  *)
CountReadyNoReset(d) ==
  LET all == readyCtr[d] + 1 >= NumAgents
  IN  /\ readyCtr' = [readyCtr EXCEPT ![d] = @ + 1]
      /\ dirIt' = [dirIt EXCEPT ![d] = IF all THEN 0 ELSE @]
      /\ down' = IF all THEN ToAgents(d, Msg("NV", 0)) ELSE down
      /\ UNCHANGED <<dirBatch, syncCtr, dormantSum, agentsIdle, fault>>

(* READY_NV_NE: the NumAgents-th one releases the agents.                  *)
CountReady(d) ==
  LET all == readyCtr[d] + 1 = NumAgents
  IN  /\ readyCtr' = [readyCtr EXCEPT ![d] = IF all THEN 0 ELSE @ + 1]
      /\ dirIt' = [dirIt EXCEPT ![d] = IF all THEN 0 ELSE @]
      /\ down' = IF all THEN ToAgents(d, Msg("NV", 0)) ELSE down
      /\ UNCHANGED <<dirBatch, syncCtr, dormantSum, agentsIdle, fault>>

(* Mutant: the barrier opens one agent too early.                          *)
CountSyncTooEarly(d, n, k, b) ==
  LET ctr == [syncCtr[d] EXCEPT ![b][k] = @ + 1]
      sum == [dormantSum[d] EXCEPT ![b][k] = @ + n]
      got == ctr[dirBatch[d]][dirIt[d]]
      all == got >= NumAgents - 1
      act == sum[dirBatch[d]][dirIt[d]]
  IN  /\ syncCtr' = [syncCtr EXCEPT ![d] = ctr]
      /\ dormantSum' = [dormantSum EXCEPT ![d] = sum]
      /\ IF all
         THEN /\ dirIt[d] <= MaxIt /\ (act = 0 => dirBatch[d] < MaxBatch)
              /\ down' = ToAgents(d, Msg("SYNC", act))
              /\ dirBatch' = [dirBatch EXCEPT ![d] = IF act = 0 THEN @ + 1 ELSE @]
              /\ dirIt' = [dirIt EXCEPT ![d] = @ + 1]
              /\ agentsIdle' = [agentsIdle EXCEPT ![d] = TRUE]
         ELSE UNCHANGED <<down, dirBatch, dirIt, agentsIdle>>
      /\ fault' = IF got > NumAgents THEN "Received too many syncs" ELSE fault
      /\ UNCHANGED readyCtr

(* READY_SYNC with n for superstep k of batch b.                           *)
CountSync(d, n, k, b) ==
  LET ctr == [syncCtr[d] EXCEPT ![b][k] = @ + 1]
      sum == [dormantSum[d] EXCEPT ![b][k] = @ + n]
      got == ctr[dirBatch[d]][dirIt[d]]
      all == got = NumAgents
      act == sum[dirBatch[d]][dirIt[d]]
  IN  /\ syncCtr' = [syncCtr EXCEPT ![d] = ctr]
      /\ dormantSum' = [dormantSum EXCEPT ![d] = sum]
      /\ IF all
         THEN /\ dirIt[d] <= MaxIt /\ (act = 0 => dirBatch[d] < MaxBatch)
              /\ down' = ToAgents(d, Msg("SYNC", act))
              /\ dirBatch' = [dirBatch EXCEPT ![d] = IF act = 0 THEN @ + 1 ELSE @]
              /\ dirIt' = [dirIt EXCEPT ![d] = @ + 1]
              /\ agentsIdle' = [agentsIdle EXCEPT ![d] = TRUE]
         ELSE UNCHANGED <<down, dirBatch, dirIt, agentsIdle>>
      /\ fault' = IF got > NumAgents THEN "Received too many syncs" ELSE fault
      /\ UNCHANGED readyCtr

(* Mutant: every HAVE_UPDATE for the current batch is published.           *)
OfferUpdateAgain(d, b, links) ==
  LET publish == b = dirBatch[d]
      m       == LinkMsg("HAVE_UPDATE", b, 0, 0)
  IN  /\ down' = IF publish THEN ToAgents(d, Msg("HAVE_UPDATE", b)) ELSE down
      /\ link' = IF publish THEN ToPeers(links, d, m) ELSE links
      /\ agentsIdle' = [agentsIdle EXCEPT ![d] = @ /\ ~publish]
      /\ fault' = IF b > dirBatch[d] THEN "Future batch received" ELSE fault
      /\ UNCHANGED <<readyCtr, dirIt, dirBatch, syncCtr, dormantSum>>

(* HAVE_UPDATE for batch b: published, to agents and directories alike, if *)
(* it is for the current batch and none was published since the last SYNC. *)
(* links are the connections as the handler has left them.                 *)
OfferUpdate(d, b, links) ==
  LET publish == b = dirBatch[d] /\ agentsIdle[d]
      m       == LinkMsg("HAVE_UPDATE", b, 0, 0)
  IN  /\ down' = IF publish THEN ToAgents(d, Msg("HAVE_UPDATE", b)) ELSE down
      /\ link' = IF publish THEN ToPeers(links, d, m) ELSE links
      /\ agentsIdle' = [agentsIdle EXCEPT ![d] = @ /\ ~publish]
      /\ fault' = IF b > dirBatch[d] THEN "Future batch received" ELSE fault
      /\ UNCHANGED <<readyCtr, dirIt, dirBatch, syncCtr, dormantSum>>

(* A message of agent a to its directory.                                  *)
FromAgent(a, t) ==
  /\ AgentSends(a, t)
  /\ up' = [up EXCEPT ![a] = Tail(@)]
  /\ UNCHANGED <<agentVars, peer, command, envVars>>

DirReadyNvNe(a) ==
  /\ FromAgent(a, "READY_NV_NE")
  /\ CountReady(Home[a])
  /\ link' = ToPeers(link, Home[a], LinkMsg("READY_NV_NE_INT", 0, 0, 0))

DirReadySync(a) ==
  /\ FromAgent(a, "READY_SYNC")
  /\ LET d == Home[a]
         n == Head(up[a]).arg
     IN  /\ CountSync(d, n, dirIt[d], dirBatch[d])
         /\ link' = ToPeers(link, d, LinkMsg("READY_SYNC_INT", n, dirIt[d], dirBatch[d]))

DirHaveUpdate(a) ==
  /\ FromAgent(a, "HAVE_UPDATE")
  /\ OfferUpdate(Home[a], Head(up[a]).arg, link)

(* A message directory e published, at directory d.                        *)
FromDirectory(d, e, t) ==
  /\ LinkSends(e, d, t)
  /\ UNCHANGED <<agentVars, up, peer, command, envVars>>

Taken(d, e) == [link EXCEPT ![e][d] = Tail(@)]

DirReadyNvNeInt(d, e) ==
  /\ FromDirectory(d, e, "READY_NV_NE_INT")
  /\ CountReady(d)
  /\ link' = Taken(d, e)

DirReadySyncInt(d, e) ==
  /\ FromDirectory(d, e, "READY_SYNC_INT")
  /\ LET m == Head(link[e][d]) IN CountSync(d, m.arg, m.it, m.batch)
  /\ link' = Taken(d, e)

DirHaveUpdateInt(d, e) ==
  /\ FromDirectory(d, e, "HAVE_UPDATE")
  /\ OfferUpdate(d, Head(link[e][d]).arg, Taken(d, e))

(* A client command, as the directory master published it, goes on to the  *)
(* agents as its DO_ variant.                                              *)
DirCommand(d) ==
  /\ Running /\ command[d] # <<>>
  /\ command' = [command EXCEPT ![d] = Tail(@)]
  /\ down' = ToAgents(d, Msg(IF Head(command[d]) = "START" THEN "DO_START"
                                                           ELSE "DO_UPDATE", 0))
  /\ UNCHANGED <<agentVars, dirVars, up, link, peer, envVars, fault>>

-----------------------------------------------------------------------------
(* No message is under way and every agent waits for a command or edges.   *)
AtRest ==
  /\ Running
  /\ \A a \in Agent : /\ state[a] \in {"NO_PROCESS", "IDLE"}
                      /\ up[a] = <<>> /\ down[a] = <<>>
                      /\ \A b \in Agent : peer[a][b] = <<>>
  /\ \A d, e \in Directory : command[d] = <<>> /\ link[d][e] = <<>>

(* The operator issues commands between runs, and UPDATE only before the   *)
(* first; the directory master publishes each to every directory.          *)
ClientCommand(c) ==
  /\ AtRest
  /\ commands < MaxCommands
  /\ c = "UPDATE" => \A a \in Agent : state[a] = "NO_PROCESS"
  /\ commands' = commands + 1
  /\ command' = [d \in Directory |-> Append(command[d], c)]
  /\ UNCHANGED <<agentVars, dirVars, up, down, link, peer, edges, fault>>

(* The system may stop only at rest, after the last command.               *)
Rest == AtRest /\ commands = MaxCommands /\ UNCHANGED vars

FromDirectoryStep(a) ==
  \/ RecvDoStart(a) \/ RecvDoUpdate(a) \/ RecvHaveUpdate(a)
  \/ RecvNv(a) \/ RecvSync(a)

FromPeerStep(a, b) ==
  RecvSendUpdates(a, b) \/ RecvAckUpdates(a, b) \/ RecvOutVn(a, b)

AgentStep(a) ==
  \/ FromDirectoryStep(a)
  \/ PrePoll(a)
  \/ \E b \in Agent : FromPeerStep(a, b)

DirAgentStep(a) == DirReadyNvNe(a) \/ DirReadySync(a) \/ DirHaveUpdate(a)

DirPeerStep(d, e) ==
  DirReadyNvNeInt(d, e) \/ DirReadySyncInt(d, e) \/ DirHaveUpdateInt(d, e)

Next ==
  \/ \E a \in Agent : AgentStep(a) \/ DirAgentStep(a)
  \/ \E d \in Directory : DirCommand(d)
  \/ \E d, e \in Directory : DirPeerStep(d, e)
  \/ \E a \in Agent : RecvUpdateEdge(a) \/ RecvUpdateEdges(a)
  \/ \E c \in Commands : ClientCommand(c)
  \/ Rest

(* Every loop polls all its sockets in every round, and ZeroMQ serves the  *)
(* connections of a socket in turn, so a message that is there is taken.   *)
(* Nothing is assumed of clients and streamers.                            *)
Fairness ==
  /\ \A a \in Agent : /\ WF_vars(FromDirectoryStep(a))
                      /\ WF_vars(PrePoll(a))
                      /\ WF_vars(DirAgentStep(a))
  /\ \A a, b \in Agent : WF_vars(FromPeerStep(a, b))
  /\ \A d \in Directory : WF_vars(DirCommand(d))
  /\ \A d, e \in Directory : WF_vars(DirPeerStep(d, e))

Spec == Init /\ [][Next]_vars
FairSpec == Spec /\ Fairness

-----------------------------------------------------------------------------
(* Properties.                                                             *)

Contains(s, t) == \E i \in DOMAIN s : s[i].type = t

(* No handler meets a message its "throw" says cannot come: agents and     *)
(* directories never disagree about the phase, the batch or the superstep. *)
NoFault == fault = "none"

(* HAVE_UPDATE puts the agent into FINALIZE_GRAPH_BATCH whatever it is     *)
(* doing (agent.cpp:700), so the directories must see to it that it always *)
(* finds the agent idle.                                                   *)
HaveUpdateFindsIdle ==
  \A a \in Agent :
    down[a] # <<>> /\ Head(down[a]).type = "HAVE_UPDATE" => state[a] = "IDLE"

(* When an agent waits at the barrier of superstep k every notification    *)
(* for superstep k + 1 has arrived, and none is left to reach it when it   *)
(* is idle, where process_vn would drop it (agent.cpp:387).                *)
NotificationsArrive ==
  \A a, b \in Agent : \A i \in DOMAIN peer[b][a] :
    peer[b][a][i].type = "OUT_VN" =>
      /\ state[a] # "IDLE"
      /\ state[a] = "WAIT_FOR_SYNC" => peer[b][a][i].arg > it[a] + 1

(* NV is under way only when every agent has said it is ready for this     *)
(* batch (directory.cpp:528-530) and none is still updating its graph.     *)
NvAfterAllReady ==
  \A a \in Agent : Contains(down[a], "NV") =>
    \A b \in Agent : ready[b] \/ state[b] \in {"PROCESS", "WAIT_FOR_SYNC"}

(* The agent's place in the abstract computation.                          *)
Position(a) ==
  <<batch[a], IF state[a] \in {"PROCESS", "WAIT_FOR_SYNC"}
              THEN IF it[a] = -1 THEN 0 ELSE it[a]
              ELSE -1>>
Finished(a) == state[a] = "WAIT_FOR_SYNC" \/ ready[a]

Barrier == INSTANCE BatchBarrier
  WITH pos <- [a \in Agent |-> Position(a)],
       loc <- [a \in Agent |-> IF Finished(a) THEN "wait" ELSE "work"]

(* The cycle is a bulk-synchronous computation: agents pass from superstep *)
(* to superstep in lock step and agree on where each batch ends.           *)
ImplementsBarrier == Barrier!Spec

(* Whatever begins a batch, every agent is idle again in the end.          *)
BatchEnds ==
  \A a \in Agent : state[a] \notin {"NO_PROCESS", "IDLE"} ~> state[a] = "IDLE"

(* Edges queued while the system is busy or idle get into the graph.       *)
UpdatesTaken == \A a \in Agent : pending[a] ~> ~pending[a]
=============================================================================
