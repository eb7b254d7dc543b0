------------------------------- MODULE Elastic -------------------------------
(***************************************************************************)
(* Agents come and go.  An agent registers with its directory, directories *)
(* tell each other and publish the list of agents at their next heartbeat, *)
(* and every agent that gets a new list sends the edges it no longer owns  *)
(* to their new owners (WAIT_EDGE_MOVE), who acknowledge them.  Load       *)
(* balancing changes the numbers of virtual agents, or distributes a new   *)
(* sketch, and makes all agents move their edges together.                 *)
(*                                                                         *)
(* Edges move between batches; the supersteps are not modelled here.  The  *)
(* messages are those of one PUSH connection per agent and directory or    *)
(* agent and agent, and of the PUB connection of each directory.           *)
(***************************************************************************)
EXTENDS ConsistentHash, FiniteSetsExt

CONSTANTS
  First,       \* the agents there from the beginning
  VAgents,     \* STARTING_VAGENTS
  Directory,
  Homes,       \* possible assignments of agents to directories
  Graphs,      \* possible sets of edges at the beginning
  Streamed,    \* edges that may be sent to agents in NO_PROCESS
  Commands,    \* load balancing commands, of "VA" and "CS_LB"
  MaxChanges,  \* bound: agents started and agents stopped; a command counts for two
  Careful      \* the operator waits for changes to finish, see Quiet

ASSUME ElasticAssumption ==
  /\ First \subseteq Agent /\ First # {} /\ VAgents \in Nat \ {0}
  /\ \A a \in Agent : Len(Position[a]) = VAgents
  /\ IsFiniteSet(Vertex)
  /\ Homes \subseteq [Agent -> Directory]
  /\ \A g \in Graphs \cup {Streamed} : g \subseteq Vertex \X Vertex
  /\ Commands \subseteq {"VA", "CS_LB"} /\ MaxChanges \in Nat
  /\ Careful \in BOOLEAN /\ Nobody \notin Agent

VARIABLES
  (* Agent *)
  phase,      \* state_: "out" (not started), "load" (NO_PROCESS), "idle", "moving"
              \* (WAIT_EDGE_MOVE), "balance" (WAIT_FOR_LB), "hold"
              \* (WAIT_FOR_LB_SYNC); "gone" and "thrown" for no process
  view,       \* the members of the last DIRECTORY_UPDATE, {} if none came
  vcount,     \* vagent_count_
  held,       \* graph_, as the copies of edges in it
  moves,      \* moves, as pairs <<agent, copy>>
  acks,       \* update_acks_needed_
  nE,         \* nE_
  stopping,   \* global_shutdown
  astray,     \* copies an agent gave to agent 0, see Strays: a history variable
  transposed, \* the edges of the last batch, as many as global_nE_ says
  (* Directory *)
  members,    \* agents_
  notify,     \* notify_ and notify_changed_: "no", "same" or "changed"
  syncs,      \* simple_sync_
  sketches,   \* cms_recv_
  ready,      \* ready_ctr_, counted up to one more than there are agents
  (* connections *)
  up, down, link, peer,
  (* environment *)
  home, changes, edges

agentVars == <<phase, view, vcount, held, moves, acks, nE, stopping, astray>>
dirVars   == <<members, notify, syncs, sketches, ready>>
netVars   == <<up, down, link, peer>>
envVars   == <<transposed, home, changes, edges>>
vars == <<agentVars, dirVars, netVars, envVars>>

(* The two copies of an edge.                                              *)
InCopy(e)  == [kind |-> "in", edge |-> e]
OutCopy(e) == [kind |-> "out", edge |-> e]
Copy == [kind : {"in", "out"}, edge : Vertex \X Vertex]

(* get_owner.                                                              *)
Owner(mem, c) ==
  IF c.kind = "in" THEN OwnerOf(mem, c.edge[2], c.edge[1])
  ELSE OwnerOf(mem, c.edge[1], c.edge[2])

Alive == {a \in Agent : phase[a] \notin {"out", "gone", "thrown"}}

Init ==
  /\ home \in Homes /\ edges \in Graphs
  /\ LET mem == First \X {VAgents}
     IN  \E begun \in BOOLEAN :
           /\ phase = [a \in Agent |-> IF a \notin First THEN "out"
                                       ELSE IF begun THEN "idle" ELSE "load"]
           /\ view = [a \in Agent |-> IF a \in First THEN mem ELSE {}]
           /\ members = [d \in Directory |-> mem]
           /\ held = [a \in Agent |->
                {c \in Copy : c.edge \in edges /\ Owner(mem, c) = a /\ (begun \/ c.kind = "in")}]
           /\ transposed = IF begun THEN edges ELSE {}
  /\ vcount = [a \in Agent |-> VAgents]
  /\ moves = [a \in Agent |-> {}]
  /\ acks = [a \in Agent |-> 0]
  /\ nE = [a \in Agent |-> Cardinality({c \in held[a] : c.kind = "in"})]
  /\ stopping = [a \in Agent |-> FALSE]
  /\ astray = [a \in Agent |-> {}]
  /\ notify = [d \in Directory |-> "no"]
  /\ syncs = [d \in Directory |-> 0]
  /\ sketches = [d \in Directory |-> 0]
  /\ ready = [d \in Directory |-> 0]
  /\ up = [a \in Agent |-> <<>>]
  /\ down = [a \in Agent |-> <<>>]
  /\ link = [d \in Directory |-> [e \in Directory |-> <<>>]]
  /\ peer = [a \in Agent |-> [b \in Agent |-> <<>>]]
  /\ changes = 0

-----------------------------------------------------------------------------
(* Messages.                                                               *)

Tell(a, ms) == [up EXCEPT ![a] = @ \o ms]
Join(a, n)  == [type |-> "AGENT_JOIN", member |-> <<a, n>>]
Leave(a, n) == [type |-> "AGENT_LEAVE", member |-> <<a, n>>]
Plain(t)    == [type |-> t]

(* The directories that run.                                               *)
Homed == {home[a] : a \in Agent}

(* A publication of directory d: to its agents, if they run; to the other  *)
(* directories, which subscribe to AGENT_JOIN, AGENT_LEAVE and not to      *)
(* SIMPLE_SYNC.                                                            *)
ToAgents(d, m) ==
  [a \in Agent |-> IF home[a] = d /\ a \in Alive THEN Append(down[a], m) ELSE down[a]]
ToPeers(d, m, net) ==
  [net EXCEPT ![d] = [e \in Directory |-> IF e = d \/ e \notin Homed THEN @[e] ELSE Append(@[e], m)]]

(* Mutant: acknowledgements are not waited for. *)
SentMovesNoAck(a, mv, net) ==
  [peer |-> [b \in Agent |-> IF \E x \in mv : x[1] = b
               THEN Append(net[a][b], [type |-> "moves", copies |-> {x[2] : x \in {y \in mv : y[1] = b}}])
               ELSE net[a][b]],
   acks |-> 0]

(* send_move_edges: a message for each agent in moves, and what agent a    *)
(* then has to wait for.  A message for Nobody goes nowhere.               *)
SentMoves(a, mv, net) ==
  [peer |-> [b \in Agent |-> IF \E x \in mv : x[1] = b
               THEN Append(net[a][b], [type |-> "moves", copies |-> {x[2] : x \in {y \in mv : y[1] = b}}])
               ELSE net[a][b]],
   acks |-> Cardinality({x[1] : x \in mv})]

InCount(copies) == Cardinality({c \in copies : c.kind = "in"})

(* Without a list every search ends at agent 0, and what is sent there     *)
(* neither arrives nor is acknowledged.                                    *)
Strays(mem, copies) == {c \in copies : Owner(mem, c) = Nobody}

-----------------------------------------------------------------------------
(* Agents.                                                                 *)

Change(n) == changes + n <= MaxChanges /\ changes' = changes + n

(* A load balancing command is under way.                                  *)
Balancing ==
  \E a \in Agent :
    \/ phase[a] \in {"balance", "hold"}
    \/ \E m \in ToSet(down[a]) : m.type \in {"DO_VA", "DO_CS_LB", "SIMPLE_SYNC_DONE"}

(* An agent that was told to stop runs, or somebody will still look for it. *)
Listed(b) ==
  \/ \E d \in Homed : \E m \in members[d] : m[1] = b
  \/ \E a \in Alive :
       \/ \E m \in view[a] : m[1] = b
       \/ \E u \in ToSet(down[a]) : u.type = "DIRECTORY_UPDATE" /\ \E m \in u.members : m[1] = b
Leaving == \E b \in Agent : stopping[b] /\ (b \in Alive \/ Listed(b))

(* An agent process starts: Participant() and register_dir.                *)
Start(a) ==
  /\ phase[a] = "out" /\ a \notin First /\ Change(1)
  /\ Careful => ~Balancing /\ ~Leaving
  /\ phase' = [phase EXCEPT ![a] = "load"]
  /\ up' = Tell(a, <<Plain("NEED_DIRECTORY"), Join(a, vcount[a])>>)
  /\ UNCHANGED <<view, vcount, held, moves, acks, nE, stopping, astray, dirVars, down, link, peer,
                 transposed, home, edges>>

(* Mutant: edges that move away are counted on. *)
MoveAwayCounting(a, mem, ph) ==
  LET lost == {c \in held[a] : Owner(mem, c) # a}
      mv   == moves[a] \cup {<<Owner(mem, c), c>> : c \in lost}
      sent == SentMoves(a, mv, peer)
  IN  /\ held' = [held EXCEPT ![a] = @ \ lost]
      /\ moves' = [moves EXCEPT ![a] = {}]
      /\ astray' = [astray EXCEPT ![a] = @ \cup Strays(mem, lost)]
      /\ peer' = [peer EXCEPT ![a] = sent.peer]
      /\ acks' = [acks EXCEPT ![a] = @ + sent.acks]
      /\ phase' = [phase EXCEPT ![a] = IF acks[a] + sent.acks # 0 THEN "moving" ELSE ph]
      /\ UNCHANGED nE

(* handle_directory_update outside of load balancing, in state ph.         *)
MoveAway(a, mem, ph) ==
  LET lost == {c \in held[a] : Owner(mem, c) # a}
      mv   == moves[a] \cup {<<Owner(mem, c), c>> : c \in lost}
      sent == SentMoves(a, mv, peer)
  IN  /\ held' = [held EXCEPT ![a] = @ \ lost]
      /\ nE' = [nE EXCEPT ![a] = @ - InCount(lost)]
      /\ moves' = [moves EXCEPT ![a] = {}]
      /\ astray' = [astray EXCEPT ![a] = @ \cup Strays(mem, lost)]
      /\ peer' = [peer EXCEPT ![a] = sent.peer]
      /\ acks' = [acks EXCEPT ![a] = @ + sent.acks]
      /\ phase' = [phase EXCEPT ![a] = IF acks[a] + sent.acks # 0 THEN "moving" ELSE ph]

(* Mutant: an agent that waits for the others reports every list. *)
RecvDirectoryAgain(a) ==
  /\ a \in Alive /\ down[a] # <<>> /\ Head(down[a]).type = "DIRECTORY_UPDATE"
  /\ LET m == Head(down[a])
     IN  /\ view' = [view EXCEPT ![a] = IF m.changed \/ @ = {} THEN m.members ELSE @]
         /\ down' = [down EXCEPT ![a] = Tail(@)]
         /\ CASE ~m.changed -> UNCHANGED <<phase, held, nE, moves, acks, astray, up, peer>>
              [] m.changed /\ phase[a] \in {"balance", "hold"} ->
                   /\ phase' = [phase EXCEPT ![a] = "hold"]
                   /\ up' = Tell(a, <<Plain("SIMPLE_SYNC")>>)
                   /\ UNCHANGED <<held, nE, moves, acks, astray, peer>>
              [] OTHER -> MoveAway(a, m.members, phase[a]) /\ UNCHANGED up
  /\ UNCHANGED <<vcount, stopping, dirVars, link, envVars>>

(* DIRECTORY_UPDATE.  Once it has a directory an agent subscribes only to  *)
(* those that changed.                                                     *)
RecvDirectory(a) ==
  /\ a \in Alive /\ down[a] # <<>> /\ Head(down[a]).type = "DIRECTORY_UPDATE"
  /\ LET m == Head(down[a])
     IN  /\ view' = [view EXCEPT ![a] = IF m.changed \/ @ = {} THEN m.members ELSE @]
         /\ down' = [down EXCEPT ![a] = Tail(@)]
         /\ CASE ~m.changed \/ phase[a] = "hold" ->
                   UNCHANGED <<phase, held, nE, moves, acks, astray, up, peer>>
              [] m.changed /\ phase[a] = "balance" ->
                   /\ phase' = [phase EXCEPT ![a] = "hold"]
                   /\ up' = Tell(a, <<Plain("SIMPLE_SYNC")>>)
                   /\ UNCHANGED <<held, nE, moves, acks, astray, peer>>
              [] OTHER -> MoveAway(a, m.members, phase[a]) /\ UNCHANGED up
  /\ UNCHANGED <<vcount, stopping, dirVars, link, envVars>>

(* SIMPLE_SYNC_DONE: all agents have the new directory.                    *)
RecvSyncDone(a) ==
  /\ a \in Alive /\ down[a] # <<>> /\ Head(down[a]).type = "SIMPLE_SYNC_DONE"
  /\ down' = [down EXCEPT ![a] = Tail(@)]
  /\ IF phase[a] = "hold" THEN MoveAway(a, view[a], "idle")
     ELSE /\ phase' = [phase EXCEPT ![a] = "thrown"]
          /\ UNCHANGED <<held, nE, moves, acks, astray, peer>>
  /\ UNCHANGED <<view, vcount, stopping, up, link, dirVars, envVars>>

(* Mutant: a copy that is sent on is kept as well. *)
RecvMovesKeeping(a, b) ==
  /\ a \in Alive /\ peer[b][a] # <<>> /\ Head(peer[b][a]).type = "moves"
  /\ LET copies == Head(peer[b][a]).copies
         away   == {c \in copies : Owner(view[a], c) # a}
         sent   == SentMoves(a, {<<Owner(view[a], c), c>> : c \in away}, peer)
     IN  /\ held' = [held EXCEPT ![a] = @ \cup copies]
         /\ nE' = [nE EXCEPT ![a] = @ + InCount(copies)]
         /\ acks' = [acks EXCEPT ![a] = @ + sent.acks]
         /\ astray' = [astray EXCEPT ![a] = @ \cup Strays(view[a], copies)]
         /\ peer' = [peer EXCEPT ![b][a] = Tail(@),
                                 ![a] = [sent.peer EXCEPT ![b] = Append(@, Plain("ack"))]]
  /\ UNCHANGED <<phase, view, vcount, moves, stopping, dirVars, up, down, link, envVars>>

(* Mutant: whatever comes is taken. *)
RecvMovesTrusting(a, b) ==
  /\ a \in Alive /\ peer[b][a] # <<>> /\ Head(peer[b][a]).type = "moves"
  /\ LET copies == Head(peer[b][a]).copies
     IN  /\ held' = [held EXCEPT ![a] = @ \cup copies]
         /\ nE' = [nE EXCEPT ![a] = @ + InCount(copies)]
         /\ peer' = [peer EXCEPT ![b][a] = Tail(@), ![a][b] = Append(@, Plain("ack"))]
  /\ UNCHANGED <<phase, view, vcount, moves, acks, stopping, astray, dirVars, up, down, link, envVars>>

(* SEND_UPDATES: change_edge for each, those of others are sent on, then   *)
(* the acknowledgement.                                                    *)
RecvMoves(a, b) ==
  /\ a \in Alive /\ peer[b][a] # <<>> /\ Head(peer[b][a]).type = "moves"
  /\ LET copies == Head(peer[b][a]).copies
         mine   == {c \in copies : Owner(view[a], c) = a}
         mv     == moves[a] \cup {<<Owner(view[a], c), c>> : c \in copies \ mine}
         sent   == SentMoves(a, mv, peer)
     IN  /\ held' = [held EXCEPT ![a] = @ \cup mine]
         /\ nE' = [nE EXCEPT ![a] = @ + InCount(mine)]
         /\ moves' = [moves EXCEPT ![a] = {}]
         /\ acks' = [acks EXCEPT ![a] = @ + sent.acks]
         /\ astray' = [astray EXCEPT ![a] = @ \cup Strays(view[a], copies)]
         /\ peer' = [peer EXCEPT ![b][a] = Tail(@),
                                 ![a] = [sent.peer EXCEPT ![b] = Append(@, Plain("ack"))]]
  /\ UNCHANGED <<phase, view, vcount, stopping, dirVars, up, down, link, envVars>>

(* ACK_UPDATES.  The last one ends the move; an agent that only sent on    *)
(* what others sent it reports that it is ready for a batch instead.       *)
RecvAck(a, b) ==
  /\ a \in Alive /\ peer[b][a] # <<>> /\ Head(peer[b][a]).type = "ack"
  /\ peer' = [peer EXCEPT ![b][a] = Tail(@)]
  /\ acks' = [acks EXCEPT ![a] = @ - 1]
  /\ CASE acks[a] = 1 /\ phase[a] = "moving" ->
            phase' = [phase EXCEPT ![a] = "idle"] /\ UNCHANGED up
       [] acks[a] = 1 /\ phase[a] # "moving" ->
            up' = Tell(a, <<Plain("READY_NV_NE")>>) /\ UNCHANGED phase
       [] OTHER -> UNCHANGED <<phase, up>>
  /\ UNCHANGED <<view, vcount, held, moves, nE, stopping, astray, dirVars, down, link, envVars>>

(* UPDATE_EDGE in NO_PROCESS, sent to the owner some agent knows of.  If   *)
(* this agent knows another owner, or no list, the edge waits in moves.    *)
RecvUpdateEdge(a) ==
  /\ phase[a] = "load" /\ ~stopping[a]
  /\ Careful => ~Balancing /\ ~Leaving
  /\ \E e \in Streamed \ edges :
       /\ \E b \in Alive : view[b] # {} /\ Owner(view[b], InCopy(e)) = a
       /\ edges' = edges \cup {e}
       /\ astray' = [astray EXCEPT ![a] = @ \cup Strays(view[a], {InCopy(e)})]
       /\ LET o == Owner(view[a], InCopy(e))
          IN  IF o = a
              THEN /\ held' = [held EXCEPT ![a] = @ \cup {InCopy(e)}]
                   /\ nE' = [nE EXCEPT ![a] = @ + 1]
                   /\ UNCHANGED moves
              ELSE /\ moves' = [moves EXCEPT ![a] = @ \cup {<<o, InCopy(e)>>}]
                   /\ UNCHANGED <<held, nE>>
  /\ UNCHANGED <<phase, view, vcount, acks, stopping, dirVars, netVars, transposed, home, changes>>

(* The virtual agents an agent keeps: up to the highest one that owns an   *)
(* edge of a vertex of the largest degree.                                 *)
Index(p) == CHOOSE i \in 1 .. VAgents : \E a \in Agent : Position[a][i] = p
OwnIndex(a, c) ==
  LET e == c.edge
  IN  IF c.kind = "in" THEN Index(OwnerPosition(view[a], e[2], e[1]))
      ELSE Index(OwnerPosition(view[a], e[1], e[2]))
Site(c) == IF c.kind = "in" THEN c.edge[2] ELSE c.edge[1]
Kept(a) ==
  LET Of(v) == {c \in held[a] : Site(c) = v}
      most  == {v \in Vertex : \A w \in Vertex : Cardinality(Of(v)) >= Cardinality(Of(w))}
  IN  {Min({vcount[a], Max({OwnIndex(a, c) : c \in Of(v)})}) : v \in most}

Overloaded(a) == nE[a] > ((5 * Cardinality(transposed)) \div Cardinality(view[a])) \div 4

(* DO_VA: balance_va.                                                      *)
RecvVa(a) ==
  /\ a \in Alive /\ down[a] # <<>> /\ Head(down[a]).type = "DO_VA" /\ view[a] # {}
  /\ down' = [down EXCEPT ![a] = Tail(@)]
  /\ phase' = [phase EXCEPT ![a] = "balance"]
  /\ \/ /\ Overloaded(a)
        /\ \E n \in Kept(a) :
             /\ up' = Tell(a, <<Leave(a, vcount[a]), Join(a, n)>>)
             /\ vcount' = [vcount EXCEPT ![a] = n]
     \/ ~Overloaded(a) /\ UNCHANGED <<up, vcount>>
  /\ UNCHANGED <<view, held, moves, acks, nE, stopping, astray, dirVars, link, peer, envVars>>

(* DO_CS_LB: push_sketch.                                                  *)
RecvCsLb(a) ==
  /\ a \in Alive /\ down[a] # <<>> /\ Head(down[a]).type = "DO_CS_LB"
  /\ down' = [down EXCEPT ![a] = Tail(@)]
  /\ phase' = [phase EXCEPT ![a] = "balance"]
  /\ up' = Tell(a, <<Plain("CS_UPDATE")>>)
  /\ UNCHANGED <<view, vcount, held, moves, acks, nE, stopping, astray, dirVars, link, peer, envVars>>

(* Each round of an agent's loop after SIGTERM: shutdown.                  *)
Shutdown(a) ==
  /\ a \in Alive /\ stopping[a]
  /\ IF nE[a] = 0 /\ acks[a] = 0
     THEN /\ phase' = [phase EXCEPT ![a] = "gone"]
          /\ UNCHANGED up
     ELSE /\ phase' = [phase EXCEPT ![a] = IF @ = "load" THEN "idle" ELSE @]
          /\ up' = Tell(a, <<Leave(a, vcount[a])>>)
          (* bound: not again while the last one is on its way              *)
          /\ Leave(a, vcount[a]) \notin ToSet(up[a])
  /\ UNCHANGED <<view, vcount, held, moves, acks, nE, stopping, astray, dirVars, down, link, peer, envVars>>

-----------------------------------------------------------------------------
(* Directories.                                                            *)

(* Mutant: the peers are not told. *)
ChangeMembersAlone(d, m, net) ==
  LET new == IF m.type = "AGENT_JOIN" THEN members[d] \cup {m.member}
             ELSE members[d] \ {m.member}
  IN  /\ members' = [members EXCEPT ![d] = new]
      /\ notify' = [notify EXCEPT ![d] = IF new = members[d] THEN @ ELSE "changed"]
      /\ link' = net

(* agent_join and agent_leave: a change is published to the peers, which    *)
(* publish it again.                                                       *)
ChangeMembers(d, m, net) ==
  LET new == IF m.type = "AGENT_JOIN" THEN members[d] \cup {m.member}
             ELSE members[d] \ {m.member}
  IN  IF new = members[d] THEN link' = net /\ UNCHANGED <<members, notify>>
      ELSE /\ members' = [members EXCEPT ![d] = new]
           /\ notify' = [notify EXCEPT ![d] = "changed"]
           /\ link' = ToPeers(d, m, net)

(* READY_NV_NE and READY_NV_NE_INT.  No agent should be ready now; that the *)
(* last of them begins the batch is left to BatchCycle.                    *)
CountReady(d) == ready' = [ready EXCEPT ![d] = Min({@ + 1, Cardinality(Agent) + 1})]

FromAgent(a) ==
  /\ up[a] # <<>>
  /\ up' = [up EXCEPT ![a] = Tail(@)]
  /\ LET m == Head(up[a])
         d == home[a]
     IN  \/ /\ m.type \in {"AGENT_JOIN", "AGENT_LEAVE"}
            /\ ChangeMembers(d, m, link)
            /\ UNCHANGED <<syncs, sketches, ready, down>>
         \/ /\ m.type = "NEED_DIRECTORY"
            /\ notify' = [notify EXCEPT ![d] = IF @ = "no" THEN "same" ELSE @]
            /\ UNCHANGED <<members, syncs, sketches, ready, down, link>>
         \/ /\ m.type = "CS_UPDATE"
            /\ LET all == sketches[d] + 1 >= Cardinality(members[d])
               IN  /\ sketches' = [sketches EXCEPT ![d] = IF all THEN 0 ELSE @ + 1]
                   /\ notify' = IF all THEN [notify EXCEPT ![d] = "changed"] ELSE notify
            /\ UNCHANGED <<members, syncs, ready, down, link>>
         \/ /\ m.type = "SIMPLE_SYNC"
            /\ LET all == syncs[d] + 1 >= Cardinality(members[d])
               IN  /\ syncs' = [syncs EXCEPT ![d] = IF all THEN 0 ELSE @ + 1]
                   /\ notify' = IF all THEN [notify EXCEPT ![d] = "changed"] ELSE notify
                   /\ down' = IF all THEN ToAgents(d, Plain("SIMPLE_SYNC_DONE")) ELSE down
            /\ UNCHANGED <<members, sketches, ready, link>>
         \/ /\ m.type = "READY_NV_NE"
            /\ CountReady(d)
            /\ link' = ToPeers(d, Plain("READY_NV_NE_INT"), link)
            /\ UNCHANGED <<members, notify, syncs, sketches, down>>
  /\ UNCHANGED <<agentVars, peer, envVars>>

FromPeer(d, e) ==
  /\ link[e][d] # <<>>
  /\ LET m == Head(link[e][d])
         net == [link EXCEPT ![e][d] = Tail(@)]
     IN  \/ /\ m.type = "READY_NV_NE_INT"
            /\ CountReady(d)
            /\ link' = net
            /\ UNCHANGED <<members, notify>>
         \/ /\ m.type # "READY_NV_NE_INT"
            /\ ChangeMembers(d, m, net)
            /\ UNCHANGED ready
  /\ UNCHANGED <<agentVars, syncs, sketches, up, down, peer, envVars>>

(* heartbeat: at most once a second the list of agents is published.       *)
Heartbeat(d) ==
  /\ notify[d] # "no"
  /\ notify' = [notify EXCEPT ![d] = "no"]
  /\ down' = ToAgents(d, [type |-> "DIRECTORY_UPDATE", changed |-> notify[d] = "changed",
                          members |-> members[d]])
  /\ UNCHANGED <<agentVars, members, syncs, sketches, ready, up, link, peer, envVars>>

-----------------------------------------------------------------------------
(* The operator.                                                           *)

(* Nothing is on its way and nobody waits for anything.  A careful         *)
(* operator stops an agent, or balances the load, only then; stops only    *)
(* agents that hold IN edges (others go without leaving the list), and     *)
(* none while an edge waits in moves for an agent that may go; balances    *)
(* with one directory (SIMPLE_SYNC and CS_UPDATE reach no other), if       *)
(* somebody is overloaded (else all wait for ever) and somebody is not     *)
(* (else all leave the list); and sends no edges and starts no agents      *)
(* while one leaves.                                                       *)
Quiet ==
  /\ \A a \in Agent :
       /\ up[a] = <<>> /\ down[a] = <<>> /\ acks[a] = 0
       /\ \A b \in Agent : peer[a][b] = <<>>
       /\ phase[a] \in {"out", "load", "idle", "gone"}
       /\ stopping[a] => phase[a] = "gone"
  /\ \A d, e \in Directory : notify[d] = "no" /\ link[d][e] = <<>>

(* SIGTERM to an agent.                                                    *)
Stop(a) ==
  /\ a \in Alive /\ ~stopping[a]
  /\ Change(1)
  /\ \E b \in Alive \ {a} : ~stopping[b]
  /\ Careful => Quiet /\ nE[a] > 0 /\ \A b \in Agent : moves[b] = {}
  /\ stopping' = [stopping EXCEPT ![a] = TRUE]
  /\ UNCHANGED <<phase, view, vcount, held, moves, acks, nE, astray, dirVars, netVars, transposed, home, edges>>

(* The client's va or lb, which every directory publishes.                 *)
Command ==
  /\ Change(2) /\ \A a \in Alive : view[a] # {}
  /\ Careful => Quiet /\ Cardinality(Homed) = 1
  /\ \E c \in Commands :
       /\ (Careful /\ c = "VA") => /\ transposed # {}
                                  /\ \E a, b \in Alive : Overloaded(a) /\ ~Overloaded(b)
       /\ down' = [a \in Agent |-> IF a \in Alive
                     THEN Append(down[a], Plain(IF c = "VA" THEN "DO_VA" ELSE "DO_CS_LB"))
                     ELSE down[a]]
  /\ UNCHANGED <<agentVars, dirVars, up, link, peer, transposed, home, edges>>

(* Nothing is on its way, and who waits gave edges to agent 0, which never *)
(* acknowledges them.                                                      *)
Resting ==
  /\ \A a \in Agent :
       /\ up[a] = <<>> /\ down[a] = <<>>
       /\ \A b \in Agent : peer[a][b] = <<>>
       /\ astray[a] = {} => /\ acks[a] = 0 /\ phase[a] \in {"out", "load", "idle", "gone"}
                            /\ stopping[a] => phase[a] = "gone"
  /\ \A d, e \in Directory : notify[d] = "no" /\ link[d][e] = <<>>

Done == Resting /\ UNCHANGED vars

(* An agent takes what its directory published.                            *)
RecvDown(a) == RecvDirectory(a) \/ RecvSyncDone(a) \/ RecvVa(a) \/ RecvCsLb(a)

(* An agent takes what another one sent.                                   *)
RecvPeers(a) == \E b \in Agent : RecvMoves(a, b) \/ RecvAck(a, b)

Next ==
  \/ \E a \in Agent : RecvDown(a) \/ RecvPeers(a) \/ Shutdown(a) \/ FromAgent(a)
  \/ \E d \in Directory : Heartbeat(d)
  \/ \E d, e \in Directory : FromPeer(d, e)
  \/ \E a \in Agent : Start(a) \/ Stop(a) \/ RecvUpdateEdge(a)
  \/ Command \/ Done

Spec == Init /\ [][Next]_vars

(* Agents and directories poll all their sockets in a loop, and heartbeat  *)
(* has a timer.  For the first two the condition of WF is written out.     *)
FairSpec ==
  /\ Spec
  /\ \A a \in Agent :
       /\ []<>(a \notin Alive \/ down[a] = <<>>) \/ []<><<RecvDown(a)>>_vars
       /\ []<>(a \notin Alive \/ \A b \in Agent : peer[b][a] = <<>>) \/ []<><<RecvPeers(a)>>_vars
       /\ WF_vars(FromAgent(a)) /\ WF_vars(Shutdown(a))
  /\ \A d \in Directory : WF_vars(Heartbeat(d)) /\ WF_vars(\E e \in Directory : FromPeer(d, e))

-----------------------------------------------------------------------------
(* Properties.                                                             *)

(* Types.                                                                  *)
TypeOK ==
  /\ phase \in [Agent -> {"out", "load", "idle", "moving", "balance", "hold",
                          "gone", "thrown"}]
  /\ \A a \in Agent :
       /\ view[a] \subseteq Member /\ vcount[a] \in 1 .. VAgents
       /\ held[a] \subseteq Copy /\ moves[a] \subseteq (Agent \cup {Nobody}) \X Copy
       /\ acks[a] \in Nat /\ nE[a] \in Nat /\ stopping[a] \in BOOLEAN /\ astray[a] \subseteq Copy
  /\ \A d \in Directory :
       /\ members[d] \subseteq Member /\ notify[d] \in {"no", "same", "changed"}
       /\ syncs[d] \in Nat /\ sketches[d] \in Nat /\ ready[d] \in 0 .. Cardinality(Agent) + 1

(* The places of the messages of type t from a to b.                       *)
Sent(a, b, t) == {i \in DOMAIN peer[a][b] : peer[a][b][i].type = t}

(* The number of places a copy is in; where no process is it is lost.      *)
Places(c) ==
    Cardinality({a \in Alive : c \in held[a]})
  + Cardinality(UNION {{<<a, x>> : x \in moves[a]} \cap ({a} \X (Agent \X {c})) : a \in Alive})
  + Cardinality(UNION {{<<a, b, i>> : i \in {j \in Sent(a, b, "moves") : c \in peer[a][b][j].copies}} :
                         a \in Agent, b \in Alive})

(* The number of times a copy was given to agent 0.                        *)
GivenAway(c) == Cardinality({a \in Agent : c \in astray[a]})

(* Whatever order lists of agents, moved edges and acknowledgements come   *)
(* in, and whoever stops meanwhile, every copy of every edge is at one     *)
(* agent, or on its way to one, and at no second one (agent.cpp:258-383).  *)
(* There is one way to lose it: an agent that was started later sends it   *)
(* to agent 0, because it came before the list (agent.cpp:585-624).        *)
EdgesConserved ==
  /\ \A e \in edges :
       /\ Places(InCopy(e)) + GivenAway(InCopy(e)) = 1
       /\ e \in transposed => Places(OutCopy(e)) + GivenAway(OutCopy(e)) = 1
  /\ \A a \in First : astray[a] = {}

(* When the moves end every copy is where a client or the streamer, who    *)
(* ask the directory for the list, would look for it (agent.cpp:258-350).  *)
OwnersExact ==
  Quiet => \A a \in Alive : \A c \in held[a] : Owner(members[home[a]], c) = a

(* When the changes end all directories and agents have the same list, and *)
(* it has exactly the running agents with the virtual agents they have:    *)
(* directories echo what they hear without undoing it (directory.cpp:353). *)
ListsExact ==
  Quiet => LET now == {<<a, vcount[a]>> : a \in Alive}
           IN  /\ \A d \in Homed : members[d] = now
               /\ \A a \in Alive : view[a] = now

(* Load balancing is the same round for all agents: none is asked to move  *)
(* its edges before it has the new list (agent.cpp:844-852).               *)
NoThrow == \A a \in Agent : phase[a] # "thrown"

(* The binary search, over every ring that occurs, finds the first         *)
(* position not below the key, or the last one, and the following ones     *)
(* around the ring (consistenthasher.cpp:24-58).                           *)
SearchExact ==
  \A a \in Agent, u \in Vertex :
    view[a] # {} =>
      LET ring  == Ring(view[a])
          found == Find(Sorted(ring), Hash[u], Replicas[u])
      IN  /\ Len(found) = Replicas[u]
          /\ IsSuccessor(ring, Hash[u], found[1])
          /\ \A i \in 1 .. Len(found) - 1 : IsNext(ring, found[i], found[i + 1])

(* Every start, stop and load balancing ends: the moves are acknowledged,  *)
(* an agent that is told to stop hands over its edges and goes, balancing  *)
(* agents go back to IDLE.  Only an agent that was sent edges before its   *)
(* first list, and sent them to agent 0, waits for ever (agent.cpp:378).   *)
Settles == []<>Resting
=============================================================================
