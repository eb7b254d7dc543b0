# A TLA+ verification project for ElGA

ElGA (Elastic Graph Analysis) keeps a dynamic graph partitioned over *agents*
and runs vertex-centric algorithms (WCC, BFS, k-core, label propagation,
PageRank) on it in batches: edges stream in, a batch makes them part of the
graph, the algorithm runs in supersteps until it converges, and the system is
idle until more edges come. *Directories* count who is ready and release
barriers, a *directory master* introduces directories to everybody and hands
out the client's commands, *streamers* send edges, *clients* send commands and
queries. Every process is one single-threaded loop around ZeroMQ sockets.

Paths below are relative to `implementation/src/` of the repository.

## 1. Inventory

### Components, their state and their operations

| component | state | operations |
|---|---|---|
| **Agent** (`agent.cpp`, `agent.hpp`) | `state_` (NO_PROCESS, LEAVING_NO_PROCESS, IDLE, FINALIZE_GRAPH_BATCH, PROCESS, JOIN_BARRIER, WAIT_FOR_SYNC, WAIT_EDGE_MOVE), `it_`, `batch_`, `graph_` (in/out neighbors of each vertex), `update_set_`, `update_nV_set_`, `update_nE_`, `update_acks_needed_`, `requested_leave_idle_`, `moves`, virtual agents, sketch | one handler per message of `handle_msg` (DO_START, DO_UPDATE, HAVE_UPDATE, SEND_UPDATES, ACK_UPDATES, UPDATE_EDGE(S), NV, SYNC, RV, OUT_VN, DO_RESET, DO_SAVE, DO_DUMP, DO_CHK_T, DO_VA, SIMPLE_SYNC_DONE, queries), `pre_poll`, `heartbeat`, `handle_directory_update`, `shutdown` |
| **Supersteps** (`agentlbsp.cpp`; `agentbsp.cpp` for PageRank) | `agent_msgs_needed_`, `num_dormant_`, `active_`, vertex-notification buffers `vn_*` | `process_vertices`, `process_vn` |
| **Algorithms** (`*algorithm.hpp/.cpp`) | per-vertex local storage | `run`, `pack_vertex`, `reset_state`, `set_need` |
| **Directory** (`directory.cpp`) | `agents_`, `ready_ctr_`, `nV_`, `nE_`, `sync_ctr_[batch][it]`, `num_dormant_[batch][it]`, `batch_`, `it_`, `agents_idle_`, `simple_sync_ctr_`, peers, sketch, autoscaler | AGENT_JOIN/LEAVE, READY_NV_NE(_INT), READY_SYNC(_INT), HAVE_UPDATE, SIMPLE_SYNC(_INT), commands, CS_UPDATE, heartbeat, autoscale |
| **Participant** (`participant.cpp`) | known agents, hash ring, cache of PUSH sockets | `do_poll`, `directory_update`, `find_agent`, `get_requester` |
| **Directory master** (`directory_master.cpp`) | list of directories, round-robin counter | DIRECTORY_JOIN/LEAVE, GET_DIRECTORY, publication of client commands |
| **Streamer** (`streamer.cpp`) | edges collected per agent | reading files and pipes, `change_edge`, `send_batch`, `listen` |
| **Client** (`client.cpp`) | – | commands, `query_vertex`, `workload`, `start_vtx` |
| **Consistent hashing** (`consistenthasher.cpp`), replication map, count sketches | ring of hashed virtual agents; counters | `find`, `find_one`, `update_agents`; `count`, `query_count`, `merge` |
| **ZeroMQ wrapper** (`chatterbox.cpp`) | sockets | REQ/REP, PUSH/PULL, PUB/SUB |

### How they interact

* Client to directory master: REQ. Master to directories: PUB of START, UPDATE
  and the other commands; a directory publishes the `DO_` variant to agents.
* Agent to its directory: PUSH (READY_NV_NE, READY_SYNC, HAVE_UPDATE, joins).
  Directory to its agents: PUB (NV, SYNC, HAVE_UPDATE, DO_*).
* Directory to directory: PUB of `_INT` messages; each directory counts what its
  own agents and the other directories tell it. No directory leads.
* Agent to agent: PUSH (SEND_UPDATES and its acknowledgement, OUT_VN, RV).
* Streamer to agent: PUSH (UPDATE_EDGE, UPDATE_EDGES).

An edge is stored twice: at the agent that owns its destination (IN) and at the
agent that owns its source (OUT). A streamer sends only the IN edge; the batch
makes the OUT copy.

The cycle of one batch, agent by agent:

    NO_PROCESS --START--> LEAVING_NO_PROCESS --\            (send_out_edges)
    IDLE --HAVE_UPDATE--> FINALIZE_GRAPH_BATCH --> READY_NV_NE when all blocks
                                                   of edges are acknowledged
    all agents ready: NV --> PROCESS --> superstep, OUT_VN to every other agent
        --> all OUT_VN here: READY_SYNC, WAIT_FOR_SYNC --> all agents there: SYNC n
        n > 0: next superstep in PROCESS        n = 0: clear_batch_mem, IDLE

### What is hard

Nothing locks and nothing blocks, so the hazards are in the order of messages of
different connections: vertex notifications of a faster agent, SYNC against
READY_SYNC_INT, HAVE_UPDATE against START, blocks of edges against
acknowledgements, NV against late blocks; in counters that count messages and
not senders; in flags that must agree with queues (`requested_leave_idle_`,
`agents_idle_`, `update_set_`); in agents that join or leave while a count is
open; in results of one superstep that arrive while another is computed; in
lists of agents that differ between processes while edges move. Nothing is
persisted and nothing is retried: there is no crash recovery to model. Processes
do come and go at any time, by SIGTERM, SHUTDOWN or an uncaught exception.
Timeouts exist in heartbeats and in the streamer, which takes a pause of its
feeder for the end of a batch. `PROJECT.json` lists each hazard at its line.

### What makes each component correct

| component | properties |
|---|---|
| batch cycle (agent + directory) | no process meets a message it throws at; barriers are passed together (refinement of a barrier); NV only when every agent is ready and has its acknowledgements; every batch ends; every queued edge is taken |
| graph | while agents compute, IN and OUT edges are each other's transposes; no edge or vertex is lost or counted twice in nE and nV |
| elasticity | no edge is doubled while lists of agents change, and none is lost but at an agent that has no list yet; when it is over each is at its owner, and all lists are the same |
| consistent hashing | a join takes keys only to the joining agent, a leave only from the leaving one; lookups agree between processes with the same ring |
| algorithms | values at the end of a batch are those of a sequential computation on the graph |
| sketches | the estimate is never below the count; merging is the sum |
| streamer | what reaches the agents is the input; a wait ends, and means that the changes are in the graph |
| directories, master | processes that start and stop at any time find each other; a command arrives once; when the master or a directory ends, the directories that run and the agents that have a list hear of it |

## 2. Modules

| module | models | composed with |
|---|---|---|
| `BatchCycle` | the batch cycle of agents and directories, with every message of it | implements `BatchBarrier` |
| `BatchBarrier` | abstract specification: a bulk-synchronous computation without messages | |
| `GraphBatch` | what the batches do to the graph: IN/OUT edges, blocks, nV and nE | phases are those of `BatchCycle` |
| `Supersteps` | the LBSP agent and four algorithms, with the vertex values | graph as `GraphBatch` leaves it |
| `PageRank` | the BSP agent and PageRank, with the vertex values | graph as `GraphBatch` leaves it |
| `ConsistentHash` | the ring, the search, `find_agent` | extended by `Elastic` |
| `Elastic` | agents that join, leave and balance load; edges that move | the states between two batches of `BatchCycle` |
| `Streamer` | the streamer's loop, options, waits | the agents are a summary of `BatchCycle` |
| `Bootstrap` | how master, directories, agents and clients find each other, commands, queries, shutdown | `BatchCycle` begins where the processes are connected |
| `MC*` | instances for TLC | |
| `LockStep_proofs` | theorems about `BatchCycle` and `BatchBarrier`: types; safety properties and the refinement, with one directory | |
| `GraphBatch_proofs`, `PageRank_proofs`, `Streamer_proofs`, `Bootstrap_proofs` | theorems about the modules they are named for | |
| `Elastic_proofs` | theorems about `ConsistentHash`, and those about `Elastic` that hold whatever the operator does | |
| `ElasticCareful_proofs` | theorems about `Elastic` with a careful operator | extends `Elastic_proofs` |
| `DataLemmas` | lemmas about numbers, finite sets, recursive functions, queues | used by the other proofs |

### BatchCycle

One action is one message taken by one loop, with everything the handler does,
or one pass of `pre_poll`. The variables are the members of `Agent` and
`Directory` of the same meaning (each is commented with the member's name), the
connections, the environment's bounds, and one history variable, `ready` (the
agent has sent READY_NV_NE and not yet received NV), which no guard reads.

* Connections are ordered and reliable queues per sender and receiver, as ZeroMQ
  pipes without high-water mark are: `up[a]` (PUSH to the directory), `down[a]`
  (the directory's PUB as `a` sees it), `link[d][e]` (PUB between directories),
  `peer[a][b]` (PUSH between agents), `command[d]` (the master's PUB). Messages of
  different connections interleave freely.
* JOIN_BARRIER exists only inside a handler (`pre_poll` leaves it at once), so an
  agent is never between two messages in that state and it is not in `AgentState`.
* An exception that nobody catches ends its process: `fault` holds which one, and
  nothing happens any more. `NoFault` says that none is thrown.
* `SYNC` and the vertex notifications run `process_vertices` within the handler,
  as the code does by calling `pre_poll`.
* The graph is abstracted to what the cycle can see of it: `pending` (update_set_
  is not empty), `dormant` (whether a vertex wants another superstep, chosen
  freely up to superstep `MaxIt`), and the agents a block of edges goes to, chosen
  freely. Blocks for other agents at a HAVE_UPDATE exist only with `CrossEdges`.
* `READY_SYNC` is relayed with the batch and superstep the *directory* has
  reached, not the agent, as the code packs it.

`BatchBarrier` has a position <<batch, superstep>> and "work" or "wait" per agent.
`Position` and `Finished` in `BatchCycle` are the refinement mapping.

### GraphBatch

The same agents seen from the graph. `inCount` and `outCount` are the number of
entries of an edge in the neighbor lists at the two owners, `updates`, `newV`,
`newE` and `acks` are `update_set_`, `update_nV_set_`, `update_nE_` and
`update_acks_needed_`; `nV`, `nE`, `readyCtr` are the directory's. The phases are
"load" (NO_PROCESS), "update" and "run" (NV to the next HAVE_UPDATE); the
supersteps are one phase because they do not touch the graph, and a HAVE_UPDATE is
published only when everybody is in it, which is what `HaveUpdateFindsIdle` and
`NvAfterAllReady` check in `BatchCycle`. `Loaded` edges reach their owner while it
is in NO_PROCESS, `Streamed` ones afterwards; a block's foreign edges are moved on
as `change_edge` and `send_move_edges` do.
nV and nE are compared with sums over all agents and edges, which `Total` defines as
the size of a set of units rather than by recursion, so that it can be proved about.
`removed` counts the repeated entries that `send_out_edges` takes off `nE_` but not
off `update_nE_`: `EdgesAccounted` says that this is the only difference between
the directory's total and the graph.

### Supersteps and PageRank

The supersteps with the values. The graph is transposed and changes only between
batches, the directory is reduced to the barrier that `BatchCycle` is shown to
implement. One action is again one message with its whole handler, or one
`pre_poll`; `process_vertices` is inside the handlers that call it.

In `Supersteps` a vertex has the members of the algorithm's `LocalStorage` that it
reads, an agent has one slot per neighbor (`vn_`), and notifications carry the
value; vertices of one agent run in any order, because the hash map has none, so
`process_vertices` is a set of outcomes. The references are computed in one place:
components by closure, distances, cores by peeling; label propagation, which need
not converge, is checked to be stable when it stops.

In `PageRank` the slots are kept per superstep, every vertex runs in every
superstep, and an agent waits only for agents it has an edge from, while it sends
to every agent `out_vn_msgs` ever had an entry for (`links`). Ranks are numbers
modulo a prime: additions and divisions by degrees are exact, so that a rank of
another superstep, of another batch or of no vertex differs, and `RanksExact`
compares every rank in every superstep with power iteration.

### ConsistentHash and Elastic

A ring is a set of positions; `Search` is the code's binary search between two
indices, `Find` its n positions around the end, `OwnerPosition` the owner of one
side of an edge, with the second search among the replicas. `IsSuccessor` and
`IsNext` say what the search is meant to find. Keys above all positions belong to
the *last* position, as the code has it, not to the first.

`Elastic` has agents with `graph_` as a set of copies of edges (each edge has an IN
and an OUT copy), `moves`, acknowledgements, their list of agents (`view`), and
directories with `agents_`, `notify_`, the counters of simple sync and of sketches.
"out", "gone" and "thrown" are processes that do not run. What a stopped agent is
sent is lost. `Careful` is the operator's: see the bounds.

A new agent may be sent edges before its first list: they come from another agent's
PUSH socket, the list from the directory's PUB socket, and nothing orders the two. Its
ring is empty, `find_one` answers 0, and agent.cpp:585-624 and `change_edge` send the
edges to agent 0, which does not exist. The model has this in every run of `Elastic`:
the owner is `Nobody`, an acknowledgement is counted that never comes, the agent stays
in WAIT_EDGE_MOVE, and `astray`, a history, holds what it gave away. `EdgesConserved` says
that this is the only way to lose a copy, that nothing is lost twice or lost and found,
and that the first agents never do it; `Settles` that all others come to rest.

### Streamer

`pc` is the place in the program, from the argument it handles (`arg`) to the
innermost wait; `program` is a command line. `read` and `sent` are histories: the
changes in the order they were read, and for each change sent the agent it goes to,
the message it is in (`msg`, with `vector` for UPDATE_EDGES) and whether the options
make the streamer wait for it (`paced`: only changes of a file are waited for, in
`parse_file`). `changes_`, a list per agent in the code, is one sequence `queued`
whose entries name their agent. What is under way is the part of `sent` that no
agent has (`arrived`, `running` and `finished` hold positions of it). The agents take
changes, begin a batch when an
UPDATE_EDGE finds them idle, and publish two SYNCs per batch, the last with nobody
active. `list` is the list of agents the streamer has, which is updated only while
it waits.

### Bootstrap

`request[x]` is what process x waits for an answer to, from the master or an agent;
`subs` and `pipe` are the publishers' connections; `Pub` sends to those connected
and subscribed. A connection is made in effect when `sub_connect` returns, which
ZeroMQ does not promise, although directory.cpp:302-303 relies on it ("so we are okay
to query and not worry about missed joins"): what is shown holds when connecting is
quick. `due` is a history: which
agents a command has to reach, namely those whose directory is connected to the
master when the command is published, and who are connected to that.

## 3. Runs

Passing runs:

| run | instance | distinct states | what it shows |
|---|---|---|---|
| `CycleDirectories` | 3 agents over 2 directories, START, 2 streamed messages of either kind, up to 3 batches | 562 thousand | no exception; HAVE_UPDATE finds agents idle; no notification is dropped or counted for another superstep; NV only after all are ready; the directories, each counting relayed messages for itself, implement the barrier |
| `CycleCommands` | 2 agents, START and UPDATE in any legal order, 3 commands, 3 supersteps | 15 thousand | the same for repeated commands, and for the empty batch of UPDATE |
| `CycleLiveness` | 2 agents, fairness | 5 thousand | every batch ends, every queued edge is taken |
| `GraphBatch` | 3 agents, 4 vertices, 5 edges sent, repeats allowed | 79 thousand | transposition, and conservation of edges and vertices on the way to nE and nV |
| `Supersteps` | 4 algorithms, 4 graphs, 2 agents, 2 batches | 11 thousand | results are those of a sequential computation; copies are of the right superstep; every batch but label propagation's ends |
| `PageRank` | 3 agents, 4 graphs, 3 batches of 4 supersteps | 21 thousand | ranks are those of power iteration, in every superstep; every batch ends |
| `Elastic` | 3 agents of 2 virtual agents over 1 or 2 directories, 3 edges and a streamed one, 2 changes | 87 thousand | no copy of an edge is doubled, or lost but by a new agent that has no list yet; owners, lists and the search agree; everything but such an agent comes to rest |
| `Streamer` | 9 command lines, 2 lists of agents, Ctrl+C | 102 thousand | every change is sent once; waits mean what they say and end |
| `Bootstrap` | 2 directories, an agent, a client with any of four purposes | 1.6 million | directories know each other; a command arrives once; directories that run and agents that have a list are told to go |

Runs that show the code doing something else than the repository says (each is
explained in `PROJECT.json`, "findings"):

| run | what happens |
|---|---|
| `GraphCrossEdges` | `finalize_graph_batch` sends `u`, not `new_u`, for other agents (agent.cpp:1309): the edge has two IN entries and no OUT entry |
| `StepsStreamed` | WCC after a streamed edge between two finished components leaves one of them with its old label |
| `ElasticStop` | an agent that has only OUT edges is stopped and leaves with them, and stays on every list |

### What the passing runs exclude, and why

These were found by the same models with other constants, and are why the passing
instances are as they are; `PROJECT.json` lists them as hazards.

* Edges across agents streamed after the first batch (`CrossEdges`, `Streamed` of
  `GraphBatch`): the misrouted block bounces, the sender reports READY_NV_NE twice,
  and NV is published before another agent is ready.
* Three directories: a HAVE_UPDATE overtakes a READY_SYNC_INT, and a directory
  throws "Future batch received". A directory without agents: it relays a
  HAVE_UPDATE of the running batch late. So `CycleDirectories` has two, both with
  agents.
* With two directories, or with streamed edges, a second START meets the HAVE_UPDATE
  that another agent's START caused, and the agent throws. So `CycleCommands` has one
  directory and no edges, `CycleDirectories` one START.
* An edge that arrives between UPDATE and NV is never transposed; an OUT block may
  create a vertex after READY_NV_NE was sent, so the batch runs with an nV without
  it (a later batch adds it, which is what `VerticesAccounted` says).
* UPDATE_EDGES does not wake an idle agent (agent.cpp:656-667): `UpdatesTaken` is
  about UPDATE_EDGE, and the streamer's waits in batch mode, or after an empty
  file, last for ever: `MCStreamer` waits with +no+batch only. With mini-batches
  larger than one a wait may take the end of a batch begun by the first of its
  changes: `WaitMeansDone` is for +mb 1.
* The exception at a message of the streamer's socket that is no sequence of edges
  (streamer.cpp:173) is not modelled: what feeds it sends whole edges.
* Joins during a batch are not in `Elastic`: such an agent has `batch_` 0, and
  throws at its first HAVE_UPDATE. An agent that passes on edges it was sent also
  sends a READY_NV_NE that the directory counts (`ready`): no property says it does
  not, because it does.
* With `Careful = FALSE` the operator of `Elastic` does what the code does not bear.
  It starts agents during load balancing (one throws), balances with nobody
  overloaded or with two directories (all wait for ever), or stops agents that wait for
  others. If every
  agent is overloaded each leaves the list in its DO_VA before one joins again
  (agent.cpp:1412), a heartbeat in between publishes an empty list, and edges go to
  the address 0. While an agent leaves, an edge streamed to one whose list is old
  waits in `moves` for the owner by that list (agent.cpp:258, 383), which may be the
  one that has left when it is sent; and a new agent, by a list that still has the
  leaving one, passes edges to it that it sends back.
* An edge across agents that is deleted under PageRank leaves the sender with an
  entry in `out_vn_msgs`: its empty messages are counted as if they were another's,
  and supersteps run without the barrier. `Streamed` of `PageRank` is within an agent.
* A directory that hears of the leaving of one it never connected to throws
  (directory.cpp:153); an agent that starts when there is no directory throws; a
  process that asks a master that has ended waits for ever, and so does a client that
  takes SHUTDOWN before its list: it leaves its loop, finds agent 0 in its empty ring,
  and reads an answer that never comes (client.cpp:197-218). These are states of
  `Bootstrap`, which stay there, so its run does not check deadlock; a directory
  that starts after an agent registered never learns of that agent.

### Bounds, and why they are enough

* Three agents: the smallest number with two agents that race for a third one's
  counter; two where a second run varies something else, or where the values of
  vertices are modelled (any two agents of LBSP exchange the same messages). Two
  directories are what the relaying and the echoes of joins need.
* `MaxIt` 1 or 2: supersteps 0 and 1 have different code paths (first superstep
  from NV, later ones from SYNC), superstep 2 repeats 1. The vote to stop is free
  before `MaxIt`.
* `MaxBatch` 3: the first batch (from NO_PROCESS), a second one (from IDLE), and a
  third begun by what happens during the second. `MaxEdges` 2 lets one arrive in
  each of two phases, so one may be queued while another begins a batch.
* `MaxSends` 5: an edge and its repetition, its reverse, and two streamed ones.
* The graphs of `MCSupersteps` and `MCPageRank` have edges within an agent, across
  agents in one direction and in both, a self-loop, cycles, an agent without
  vertices, and two components that a second batch joins.
* `PAGERANK_SUPERSTEPS` is 2 instead of 20: the first superstep, one that reads
  values and has read values behind it, the last one that notifies, and the one that
  only votes are all different. The prime 11 is larger than all degrees; two values
  of 1/nV let batches differ.
* `MCElastic`: two virtual agents each, interleaved on the ring, a key above all
  positions, one at a position, a vertex with two replicas. `MaxChanges` 2: two
  starts or stops overlap, or one load balancing.
* `MCStreamer`: files of three or four changes, so that mini-batches of one, two
  and three divide them or not; `CtrLimit` (10000000 in the code) of 4 and
  `MidBatchSize` of 3 are passed.
* Bounds are guards of the environment's actions (`ClientCommand`,
  `RecvUpdateEdge(s)`, `Begin`, `Start`, `Stop`, `Command`, `Feed`), and of counters
  that would otherwise end the finite types (`MaxIt`, `MaxBatch` in `CountSync`,
  `EndBatch`, `ProcessVertices`). In `Elastic` an agent that is stopped repeats
  AGENT_LEAVE in every round of its loop; the model sends the next one when the last
  one was taken. Deadlock is checked in all runs but `Bootstrap` and
  `PageRank`, whose environment may stop asking for anything (`EveryBatchEnds` says
  that nobody waits in the middle of a batch).

### Fairness

* `BatchCycle`: weak fairness for each loop and each of its sources of messages:
  the directory's publications, `pre_poll`, each other agent, each directory's agents
  and peers. `do_poll` polls all sockets in every round and ZeroMQ serves the
  connections of one socket in turn, so a message that is there is taken.
* `Elastic`: the same for an agent's two sockets and each directory, and the
  heartbeat, which has a timer. For the first two the condition of weak fairness is
  written out, because TLC evaluates it faster than ENABLED.
* `Supersteps`: weak fairness for each agent's `pre_poll` and each kind of message.
  `PageRank`: while some process has something to do, one of them does something,
  which is less.
* `Streamer`: the streamer's own loop, delivery of messages, and batches of the
  agents, which `CycleLiveness` shows to end.
* Nothing is assumed of clients, streamers, feeders and operators. `Bootstrap` has
  safety properties only.

### Mutants

Each property of a passing run names a mutated definition under which TLC must
find it violated: a counter not reset, a barrier one agent too early, a HAVE_UPDATE
that is published again, acknowledgements not waited for, a copy kept that was sent
on, values collected too early, a directory that does not listen to the master, a
command that peers take for one of the master's. The mutated operators stand before
the definitions they replace and are used nowhere.

## 4. Proofs

Each theorem is about every value of the constants that the module's named
assumptions allow; hypotheses beyond them are in the statements. The properties named
below in parentheses are the very definitions that the runs check on their instances.

### The batch cycle

All in `LockStep_proofs`.

* `TypeCorrect`: `Spec => []TypeOK` for all agents, directories,
  homes, commands and bounds, also with `CrossEdges`. One lemma per handler; the
  lemmas about publishing and sending (`ToAgents`, `ToPeers`, `Sent`) are stated once.
  What is not obvious in it is that counters never leave their ranges although
  handlers call each other, and that every message ever queued has a handler's type
  and an argument in range.
* `LockStepHolds`: in the abstract computation no two agents
  are more than one barrier apart, for any number of agents. Its `LockStep` is
  inductive together with `TypeOK` (`BarrierTypeCorrect`): an agent that passes
  needs all others at its own position or at the very position it goes to, so
  the two possible successors of a superstep cannot both be occupied.
* `NoFault` (`NeverThrows`), `HaveUpdateFindsIdle`
  (`UpdatesFindIdle`), `NotificationsArrive` (`NotificationsHaveArrived`),
  `NvAfterAllReady` (`NvComesAfterAll`), and that `BatchCycle` implements
  `BatchBarrier` (`CycleImplementsBarrier`), for any number of agents, batches,
  supersteps and streamed edges. None of these is inductive: why an agent does not
  throw at a SYNC depends on what the directory has counted, which depends on what
  every other agent has sent. The invariant, `LockInv` (`InLockStep`), says that the
  whole system is in one of six phases: before the first command, loading, idle, at
  the beginning of a later batch, in a superstep, or in the empty batch of UPDATE.
  In a phase each agent is in one of a few states, written together with the exact
  contents of its connections to and from the directory (`Leaving`, `Idle`,
  `Updating`, `Released`, `Working`, `Waiting`, `Continuing`, ...), and each counter
  is the size of a set: `ready_ctr_` of the agents whose READY_NV_NE has arrived,
  `sync_ctr_` of those whose READY_SYNC has, `update_acks_needed_` of the agents a
  block is on its way to or an acknowledgement on its way from, and
  `agent_msgs_needed_` is what is left when those who were heard are taken off. One
  lemma says how each handler keeps a phase or leads from it into another. In the
  refinement a step is a stutter, one agent that arrives at the barrier, or one that
  passes; the lemmas `ReleasedAt`, `ContinuingAt` and `LeavingAt` give the positions
  of all the others that the abstract step's guard asks for.

  These theorems have the hypothesis `Setting`, whose three parts are the conditions
  under which the code does what they say:
  - one directory. With two, READY_SYNC_INT and HAVE_UPDATE of different directories
    race (the run `CycleDirectories` has the instance in which they do no harm; with
    three directories, or a second START, a process throws);
  - no edges across agents after the first batch (`~CrossEdges`): an agent that passes
    on a block reports READY_NV_NE a second time, and NV comes too early;
  - no UPDATE_EDGE, or at most one command: the batch that an UPDATE_EDGE begins
    between a START and its DO_START brings agents into FINALIZE_GRAPH_BATCH, where
    they throw at DO_START. UPDATE_EDGES, which begins no batch, is not restricted.

### The graph

`GraphBatch_proofs`, for any agents, vertices, assignment of vertices to agents and
set of edges:

* `GraphTyped` (`TypeOK`), `NoEdgeIsLost` (`EdgesAccounted`) and `NoVertexIsLost`
  (`VerticesAccounted`), for both commands and all streamed edges. The three are
  inductive only together, and with what `update_set_` and `update_nV_set_` may
  contain (`CountsInv`): only edges the agent owns, only vertices that have an edge.
  The sums over agents and edges are sizes of sets of units; the lemmas about `Total`
  say what a term more, or less, or a term's change makes of it.
* `EveryEdgeHasItsCopy` (`Transposed`), with the hypothesis `LocalStreams`: the
  command is START, and edges that come while the agents compute are within an
  agent. `GraphCrossEdges` shows what happens without the second; after UPDATE no
  OUT entries are made until the next batch. `CopiesInv` adds that
  between two agents there is at most one block and one acknowledgement, never the
  acknowledgement of a block that has not arrived, that acknowledgements needed are
  blocks and acknowledgements under way, that an IN entry has its OUT entry in the
  graph or in such a block, and how `ready_ctr_` is made up; so NV, which needs all
  to be ready, leaves no block on its way.

### Directories, master and clients

`Bootstrap_proofs`, for any directories, agents and clients: `BootstrapTyped`
(`TypeOK`), `DirectoriesFindEachOther` (`PeersKnown`), `NobodyIsLeftBehind`
(`NobodyLeftBehind`) and `CommandsComeOnce` (`CommandsOnce`). `BootstrapInv` says who
is connected to whom in every state of a process (`Connected`), that a directory's
peers differ from the master's list by the joins and leaves on their way, a leave
behind its join (`DirectoriesKnown`), that a farewell waits for everybody who may
still run (`MasterFarewell`, `DirectoryFarewells`), and where the one copy of a
command is: in its client's request, at the master's publication, or at the agent's
directory (`CommandsSent`, `CommandsPassed`). Requests and connections are any
sequences and sets: nothing is bounded.

### The streamer

`Streamer_proofs`, for any command lines, feeds, interruptions and sequences of lists
of agents: `StreamerTyped` (`TypeOK`), `EveryChangeIsSent` (`InputSent`) and
`WaitingMeansDone` (`WaitMeansDone`). The first two need which argument is handled in
each place of the program (`Placement`). The last one is inductive with `OneAtATime`:
nothing is under way, or one change is and no SYNC that ends a batch, or its batch
has ended and exactly one such SYNC is in the socket. That the streamer waits in
`parse_file` only, and not for what the socket brings, is in `Paced` because the
proof does not go through without it: an edge of the socket with mini-batches of one
is not waited for.

### PageRank

`PageRank_proofs`, for any agents, graphs, deletions, numbers of supersteps and primes:
`TypesKept` (`TypeOK`) and `PowerIteration` (`RanksExact`): a vertex that has run k
times has the k-th rank of power iteration, on the graph of this batch, although there
is no barrier and agents that do not depend on each other are any number of supersteps
apart. `IInv` says how far: a notification for superstep j that is on its way from b to
a has the ranks b had then (`Right`), notifications of one connection come in order
(`Ordered`), `agent_msgs_needed_` for superstep j is the number of agents it reads from
whose notification for j has not arrived (`Counted`), which is why an agent that goes on
has all values, and has them for the right superstep (`Valued`). The sums are over sets
of vertices of any size; `SumOver` of a set less one element, and of equal terms, are
lemmas, and so is that numbers modulo a prime have reciprocals.

### Consistent hashing

`Elastic_proofs`: for every set of positions, of any size, `SuccessorUnique`
(two processes with one list find one owner), `JoinMovesOnlyToNew` and
`LeaveMovesOnlyFromGone` (a key moves only to positions that join, or from
positions that leave). They are about what the search is meant to find. `FindExact`
and `SearchedRings` (`SearchExact`) say that the code's binary search finds it, for
every ring and key and any number of replicas, by induction over the width of the
interval: a key above all positions is found at the last one, as in the code.
`OwnerIsMember`: who owns an edge is on the list that was searched.

### Agents that come and go

`Elastic_proofs` and `ElasticCareful_proofs`, for any agents, directories, virtual
agents, edges and changes:

* `TypesElastic` (`TypeOK`), `FoundWhereSought` (`OwnersExact`, no copy of an edge is
  twice, and at rest each is where everybody looks for it): whatever the operator does.
* `BalancedTogether` (`NoThrow`), `SameLists` (`ListsExact`) and `NothingIsLost`
  (`EdgesConserved`: at one place, or given once to agent 0 by an agent that was started
  later): with a careful operator (`Careful`). `ElasticStop`, and section 3, say what
  happens with another one. No operator can see to it that a new agent has its list
  before edges come, so nothing is assumed of that.

All have the hypothesis `Fitting`: the replicas of a vertex fit on the ring of every
list that is not empty. `find_agent` reads past the end of its array otherwise
(consistenthasher.cpp), and nothing in the code prevents it. A list may be one agent
with one virtual agent, so this means two replicas at most; in the build modelled,
whose threshold is 1e10, vertices have one.

The invariants come in layers, each inductive with those before it.

1. `Types`; an agent sends itself nothing (`Apart`).
2. `Books`: an agent waits for at least as many acknowledgements as there are blocks of
   its edges, and acknowledgements for it, on their way (`Accounts`); no copy is held, waiting and
   on its way at more than one place (`Distinct`).
3. `Course`: the lists on their way to an agent, the one it has, and its directory's
   agree, or the directory is about to publish (`Pipeline`); what an agent holds and
   does not send away is its own by its list (`Owned`).
4. `Orderly`: who is on a directory's list, by the joins and leaves on their way, those
   of one agent in order over any number of directories (`Registered`); everybody has
   or gets a list (`Heard`); in a round of load balancing all
   agents wait or none does, an agent changes its membership no more when it has sent
   SIMPLE_SYNC, and the directory has counted fewer than there are while one has not
   (`Rounds`); one agent leaves at a time, and stays until every directory
   has dropped it (`Parted`).
5. `Conserved`: every copy of an edge of the graph is held, waits, or is on its way to
   an agent that runs, or was given to agent 0 (`NothingLost`, `Delivered`, `Deposits`),
   and then is nowhere else (`Strayed`). What makes that inductive: somebody stays on
   every list (`Somebody`), so no list is empty (`Filled`), an agent that has one finds a
   member for every copy, and the first agents always have one (`Seeing`); whoever is on
   a list runs or was told to stop (`Traced`); what an agent held when it was told to
   stop is there, at its heir, or between the two (`HandedOver`), and whoever sends it
   something after that acknowledges something later (`Answers`), so that it has not left
   before it comes.

### What is model-checked only

* Liveness: `BatchEnds`, `UpdatesTaken`, the streamer's `EverythingHandled`,
  `EveryBatchEnds` of `Supersteps` and `PageRank`, and `Settles` of `Elastic`. The
  prover has no ENABLED.
* `Supersteps`: its types, `CopiesFresh`, `NeverThrows`, and the results of the four
  algorithms.
* `BatchCycle`'s safety properties and its refinement with two directories.

### How induction is done

The induction theorems of the library have an operator for a parameter, which the
provers cannot instantiate. `DataLemmas` has what can be used instead, with sets for
predicates: a set that has 0 and is closed under successor has all numbers
(`ByNaturals`), one that has the empty set and is closed under one more element has all
finite sets (`ByElements`), a set of numbers has a least one, and a bounded one a
greatest (`LeastNatural`, `GreatestNatural`), and a recursive function over numbers is
what its equation says (`Recursion`). So recursive definitions are recursive functions
in all modules with theorems.

## 5. Not modelled, and the plan

Not modelled:

* replicas of vertices and RV messages: off in the build modelled, whose threshold
  is 1e10 (`ConsistentHash` has the replicas' part of `find_agent`), and with them the
  count sketches, which are used for replication only;
* deletion of edges across agents and in GraphBatch; membership changes during a batch;
* the autoscaler, a build option that is off by default;
* SAVE, DUMP, DO_CHK_T and the contents of queries, which only write or read values;
  the client's workload, which repeats random queries;
* the fully asynchronous agent, which no algorithm selects; the caches of lookups and
  sockets; timers, argument parsing, message layout, ZeroMQ's slow joiners.

Left for later: deletion in `GraphBatch` (agent.cpp:156-176 and the unordered
`update_set_`); joins during a batch, by composing `Elastic` with `BatchCycle`.

Proofs, in order: `Supersteps`, whose invariant needs the counts of `PageRank`'s with
a barrier, then per algorithm what values and copies may be; then `LockInv` with two
directories, in which each one's counters are made up of its own agents' messages and
those relayed to it.
