----------------------------- MODULE Bootstrap ------------------------------
(***************************************************************************)
(* How a cluster comes up and goes down.  The directory master keeps the   *)
(* list of directories and publishes the client's commands; directories    *)
(* find each other through it and pass commands on to their agents; agents *)
(* and clients ask it for a directory, any one of the list.                *)
(*                                                                         *)
(* A request to the master waits for its answer.  Publications go to those *)
(* who are connected; those of one publisher arrive in order.  A           *)
(* connection is in effect when sub_connect returns, which ZeroMQ does not *)
(* promise.  What agents do with a command is in BatchCycle, how they      *)
(* leave in Elastic.                                                       *)
(***************************************************************************)
EXTENDS Naturals, Sequences, FiniteSets, SequencesExt

CONSTANTS
  Directory, Agent, Client,
  Ops,       \* what the operator may run a client for, or "interrupt"
  Leavers,   \* the directories that may get a SIGTERM
  Nobody     \* neither a directory nor an agent

Participant == Agent \cup Client
Process == Directory \cup Participant
Server == {"dm"} \cup Directory

ASSUME BootstrapAssumption ==
  /\ Ops \subseteq {"START", "SHUTDOWN", "directories", "query", "interrupt"}
  /\ Leavers \subseteq Directory
  /\ Nobody \notin Process \cup Server
  /\ Directory \cap Participant = {} /\ Agent \cap Client = {} /\ "dm" \notin Process

VARIABLES
  op,                   \* op[c]: what client c is run for
  mstate, directories,  \* the master: "running" or "ended"; directories_
  request,              \* request[x]: what x waits for an answer to, or Idle
  dstate,               \* what a directory does
  agents, notify,       \* agents_; notify_ and notify_changed_: "no", "all" or "changed"
  pstate,               \* what a participant does
  home,                 \* directory_
  list,                 \* agents_ of a participant
  got,                  \* commands an agent got
  subs,                 \* subs[s]: who is connected to s
  pipe,                 \* pipe[s][x]: publications of s on their way to x
  pull,                 \* pull[p]: messages of p on their way to its directory
  due                   \* history: <<a, c>>, commands that have to arrive

master == <<mstate, directories>>
directory == <<dstate, agents, notify>>
participant == <<pstate, home, list, got>>
vars == <<op, master, request, directory, participant, subs, pipe, pull, due>>

Idle == [to |-> Nobody, type |-> "none"]
Asks(x, to, t) == request' = [request EXCEPT ![x] = [to |-> to, type |-> t]]

Init ==
  /\ op \in [Client -> Ops]
  /\ mstate = "running" /\ directories = {}
  /\ request = [x \in Process |-> Idle]
  /\ dstate = [d \in Directory |-> "down"]
  /\ agents = [d \in Directory |-> {}] /\ notify = [d \in Directory |-> "no"]
  /\ pstate = [p \in Participant |-> "down"]
  /\ home = [p \in Participant |-> Nobody] /\ list = [p \in Participant |-> {}]
  /\ got = [a \in Agent |-> <<>>]
  /\ subs = [s \in Server |-> {}]
  /\ pipe = [s \in Server |-> [x \in Process |-> <<>>]]
  /\ pull = [p \in Participant |-> <<>>]
  /\ due = {}

-----------------------------------------------------------------------------
(* Publishing: q becomes q with m sent to those who are connected to s and *)
(* subscribe to it.  A participant that has a list takes changed ones only. *)
(* What nobody will read any more is left out.                             *)

Reads(x) ==
  \/ x \in Directory /\ dstate[x] \in {"joining", "running"}
  \/ x \in Agent /\ pstate[x] \in {"waiting", "ready"}
  \/ x \in Client /\ pstate[x] = "waiting" /\ op[x] = "query"

Wants(x, m) ==
  \/ m.type = "SHUTDOWN"
  \/ x \in Directory /\ m.type \in {"DIRECTORY_JOIN", "DIRECTORY_LEAVE", "AGENT_JOIN", "START"}
  \/ x \in Participant /\ m.type = "DISCONNECT"
  \/ x \in Participant /\ m.type = "DIRECTORY_UPDATE" /\ (m.changed \/ pstate[x] = "waiting")
  \/ x \in Agent /\ m.type = "DO_START"

Pub(q, s, m) ==
  [q EXCEPT ![s] = [x \in Process |-> IF x \in subs[s] /\ Reads(x) /\ Wants(x, m) THEN Append(q[s][x], m) ELSE q[s][x]]]

Taken(s, x) == [pipe EXCEPT ![s][x] = Tail(@)]
Closed(q, x) == [s \in Server |-> [q[s] EXCEPT ![x] = <<>>]]

Shutdown == [type |-> "SHUTDOWN"]
Start(c) == [type |-> "START", of |-> c]
DoStart(c) == [type |-> "DO_START", of |-> c]
ADirectory(t, d) == [type |-> t, of |-> d]

-----------------------------------------------------------------------------
(* The master.                                                             *)

(* The request of x gets the answer r: nothing for an ack.                 *)
Reply(x, r) == request' = [request EXCEPT ![x] = [to |-> x, type |-> @.type, reply |-> r]]
Answered(x, t) == request[x].to = x /\ request[x].type = t

(* get_directories, get_directory: any directory, an ack if there is none. *)
MasterGet(x) ==
  /\ \/ request[x].type = "GET_DIRECTORIES" /\ Reply(x, directories)
     \/ request[x].type = "GET_DIRECTORY" /\ directories = {} /\ Reply(x, Nobody)
     \/ request[x].type = "GET_DIRECTORY" /\ \E d \in directories : Reply(x, d)
  /\ UNCHANGED <<op, master, pipe, due>>

(* dir_join, dir_leave.                                                    *)
MasterDirectory(x) ==
  /\ request[x].type \in {"DIRECTORY_JOIN", "DIRECTORY_LEAVE"}
  /\ directories' = IF request[x].type = "DIRECTORY_JOIN" THEN directories \cup {x} ELSE directories \ {x}
  /\ Reply(x, {})
  /\ pipe' = Pub(pipe, "dm", ADirectory(request[x].type, x))
  /\ UNCHANGED <<mstate, due>>

(* Agents that are reached: their directory is connected and they to it.   *)
Reached == {a \in Agent : home[a] \in subs["dm"] /\ dstate[home[a]] = "running" /\ a \in subs[home[a]]}

(* A command is acknowledged and published.                                *)
MasterCommand(x) ==
  /\ request[x].type = "START"
  /\ Reply(x, {})
  /\ pipe' = Pub(pipe, "dm", Start(x))
  /\ due' = due \cup (Reached \X {x})
  /\ UNCHANGED master

MasterShutdown(x) ==
  /\ request[x].type = "SHUTDOWN"
  /\ Reply(x, {})
  /\ pipe' = Pub(pipe, "dm", Shutdown) /\ mstate' = "ended"
  /\ UNCHANGED <<directories, due>>

(* Ctrl+C, if that is what the operator does.                              *)
MasterInterrupted ==
  /\ \E c \in Client : op[c] = "interrupt"
  /\ pipe' = Pub(pipe, "dm", Shutdown) /\ mstate' = "ended"
  /\ UNCHANGED <<directories, request, due>>

Master ==
  /\ mstate = "running"
  /\ \/ MasterInterrupted
     \/ \E x \in Process :
       /\ request[x].to = "dm"
       /\ MasterGet(x) \/ MasterDirectory(x) \/ MasterCommand(x) \/ MasterShutdown(x)
  /\ UNCHANGED <<op, directory, participant, subs, pull>>

-----------------------------------------------------------------------------
(* A directory.                                                            *)

(* Mutant: the directory does not listen to the master. *)
StartDirectoryUnconnected(d) ==
  /\ dstate[d] = "down"
  /\ dstate' = [dstate EXCEPT ![d] = "joining"]
  /\ Asks(d, "dm", "DIRECTORY_JOIN")
  /\ UNCHANGED <<op, master, agents, notify, participant, subs, pipe, pull, due>>

(* join_directory: connected to the master first, then registered.         *)
StartDirectory(d) ==
  /\ dstate[d] = "down"
  /\ dstate' = [dstate EXCEPT ![d] = "joining"]
  /\ subs' = [subs EXCEPT !["dm"] = @ \cup {d}]
  /\ Asks(d, "dm", "DIRECTORY_JOIN")
  /\ UNCHANGED <<op, master, agents, notify, participant, pipe, pull, due>>

(* join_peers asks for the list, then connects to each other directory.    *)
AskPeers(d) ==
  /\ dstate[d] = "joining" /\ Answered(d, "DIRECTORY_JOIN")
  /\ Asks(d, "dm", "GET_DIRECTORIES")
  /\ UNCHANGED <<op, master, directory, participant, subs, pipe, pull, due>>

JoinPeers(d) ==
  /\ dstate[d] = "joining" /\ Answered(d, "GET_DIRECTORIES")
  /\ dstate' = [dstate EXCEPT ![d] = "running"]
  /\ request' = [request EXCEPT ![d] = Idle]
  /\ subs' = [s \in Server |-> IF s \in request[d].reply \ {d} THEN subs[s] \cup {d} ELSE subs[s]]
  /\ UNCHANGED <<op, master, agents, notify, participant, pipe, pull, due>>

(* Mutant: a directory joins itself. *)
PeerJoinedItself(d, e) ==
  /\ subs' = [subs EXCEPT ![e] = @ \cup {d}]
  /\ UNCHANGED <<dstate, agents, notify>>

(* join_peer; leave_peer disconnects, which fails if there is no           *)
(* connection.                                                             *)
PeerJoined(d, e) ==
  /\ subs' = IF e = d THEN subs ELSE [subs EXCEPT ![e] = @ \cup {d}]
  /\ UNCHANGED <<dstate, agents, notify>>

PeerLeft(d, e, q) ==
  /\ \/ d \in subs[e] /\ subs' = [subs EXCEPT ![e] = @ \ {d}] /\ pipe' = q /\ UNCHANGED dstate
     \/ d \notin subs[e] /\ dstate' = [dstate EXCEPT ![d] = "thrown"] /\ pipe' = Closed(q, d) /\ UNCHANGED subs
  /\ UNCHANGED <<agents, notify>>

(* agent_join: a new agent is published, so peers hear of it.  q is the    *)
(* publications without the message that brought it.                       *)
AgentJoined(d, a, q) ==
  /\ IF a \in agents[d] THEN pipe' = q /\ UNCHANGED <<agents, notify>>
     ELSE /\ agents' = [agents EXCEPT ![d] = @ \cup {a}]
          /\ notify' = [notify EXCEPT ![d] = "changed"]
          /\ pipe' = Pub(q, d, [type |-> "AGENT_JOIN", of |-> a])
  /\ UNCHANGED <<subs, dstate>>

(* SHUTDOWN is passed on, then the directory stops.                        *)
Stopped(d, q) ==
  /\ pipe' = Closed(Pub(q, d, Shutdown), d)
  /\ dstate' = [dstate EXCEPT ![d] = "ended"]
  /\ UNCHANGED <<subs, agents, notify>>

(* Mutant: a command is published as it came, so peers take it for one. *)
PassedOnAsIs(d, c, q) == pipe' = Pub(Pub(q, d, Start(c)), d, DoStart(c)) /\ UNCHANGED <<subs, directory>>

(* A command becomes its DO_ variant, which peers do not subscribe to.     *)
PassedOn(d, c, q) == pipe' = Pub(q, d, DoStart(c)) /\ UNCHANGED <<subs, directory>>

(* A publication of the master or a peer.                                  *)
RecvPublished(d) ==
  /\ dstate[d] = "running"
  /\ \E s \in Server :
       /\ pipe[s][d] # <<>>
       /\ LET m == Head(pipe[s][d])
              q == Taken(s, d)
          IN  \/ m.type = "DIRECTORY_JOIN" /\ PeerJoined(d, m.of) /\ pipe' = q
              \/ m.type = "DIRECTORY_LEAVE" /\ PeerLeft(d, m.of, q)
              \/ m.type = "AGENT_JOIN" /\ AgentJoined(d, m.of, q)
              \/ m.type = "START" /\ PassedOn(d, m.of, q)
              \/ m.type = "SHUTDOWN" /\ Stopped(d, q)
  /\ UNCHANGED <<op, master, request, participant, pull, due>>

(* A message of one of its participants.                                   *)
RecvPushed(d) ==
  /\ dstate[d] = "running"
  /\ \E p \in Participant :
       /\ home[p] = d /\ pull[p] # <<>>
       /\ pull' = [pull EXCEPT ![p] = Tail(@)]
       /\ \/ Head(pull[p]) = "AGENT_JOIN" /\ AgentJoined(d, p, pipe)
          \/ /\ Head(pull[p]) = "NEED_DIRECTORY"
             /\ notify' = [notify EXCEPT ![d] = IF @ = "no" THEN "all" ELSE @]
             /\ UNCHANGED <<subs, dstate, agents, pipe>>
  /\ UNCHANGED <<op, master, request, participant, due>>

(* heartbeat: the list of agents, when somebody needs it.                  *)
Heartbeat(d) ==
  /\ dstate[d] = "running" /\ notify[d] # "no"
  /\ pipe' = Pub(pipe, d, [type |-> "DIRECTORY_UPDATE", changed |-> notify[d] = "changed", agents |-> agents[d]])
  /\ notify' = [notify EXCEPT ![d] = "no"]
  /\ UNCHANGED <<op, master, request, dstate, agents, participant, subs, pull, due>>

(* SIGTERM: the master is told; nothing else is handled.                   *)
Leave(d) ==
  /\ d \in Leavers /\ dstate[d] = "running"
  /\ dstate' = [dstate EXCEPT ![d] = "leaving"]
  /\ Asks(d, "dm", "DIRECTORY_LEAVE") /\ pipe' = Closed(pipe, d)
  /\ UNCHANGED <<op, master, agents, notify, participant, subs, pull, due>>

(* Mutant: nobody is told. *)
LeftSilently(d) ==
  /\ dstate[d] = "leaving" /\ Answered(d, "DIRECTORY_LEAVE")
  /\ dstate' = [dstate EXCEPT ![d] = "ended"]
  /\ request' = [request EXCEPT ![d] = Idle]
  /\ UNCHANGED <<op, master, agents, notify, participant, subs, pipe, pull, due>>

(* ... and its participants are told to go.                                *)
Left(d) ==
  /\ dstate[d] = "leaving" /\ Answered(d, "DIRECTORY_LEAVE")
  /\ dstate' = [dstate EXCEPT ![d] = "ended"]
  /\ request' = [request EXCEPT ![d] = Idle]
  /\ pipe' = Pub(pipe, d, [type |-> "DISCONNECT"])
  /\ UNCHANGED <<op, master, agents, notify, participant, subs, pull, due>>

-----------------------------------------------------------------------------
(* An agent or a client.                                                   *)

(* The constructor asks for a directory, ...                               *)
StartAgent(a) ==
  /\ pstate[a] = "down"
  /\ pstate' = [pstate EXCEPT ![a] = "asking"]
  /\ Asks(a, "dm", "GET_DIRECTORY")
  /\ UNCHANGED <<op, master, directory, home, list, got, subs, pipe, pull, due>>

(* ... connects to it, and asks for its list.  An agent registers.         *)
ConnectTo(p, d, messages) ==
  /\ home' = [home EXCEPT ![p] = d]
  /\ subs' = [subs EXCEPT ![d] = @ \cup {p}]
  /\ pull' = [pull EXCEPT ![p] = messages]

ConnectAgent(a) ==
  /\ pstate[a] = "asking" /\ Answered(a, "GET_DIRECTORY") /\ request[a].reply # Nobody
  /\ ConnectTo(a, request[a].reply, <<"NEED_DIRECTORY", "AGENT_JOIN">>)
  /\ pstate' = [pstate EXCEPT ![a] = "waiting"]
  /\ request' = [request EXCEPT ![a] = Idle]
  /\ UNCHANGED <<op, master, directory, list, got, pipe, due>>

(* Without a directory an agent fails to register; ...                     *)
NoDirectory(a) ==
  /\ pstate[a] = "asking" /\ Answered(a, "GET_DIRECTORY") /\ request[a].reply = Nobody
  /\ pstate' = [pstate EXCEPT ![a] = "thrown"]
  /\ request' = [request EXCEPT ![a] = Idle]
  /\ UNCHANGED <<op, master, directory, home, list, got, subs, pipe, pull, due>>

(* ... a client goes on.  (Its request for a directory is one step here:   *)
(* nothing it does depends on a directory that leaves meanwhile.)          *)
StartClient(c) ==
  /\ pstate[c] = "down" /\ mstate = "running" /\ op[c] # "interrupt"
  /\ \/ directories = {} /\ UNCHANGED <<home, subs, pull>>
     \/ \E d \in directories : ConnectTo(c, d, <<"NEED_DIRECTORY">>)
  /\ pstate' = [pstate EXCEPT ![c] = "waiting"]
  /\ UNCHANGED <<op, master, request, directory, list, got, pipe, due>>

(* do_poll.  A client polls until it has a list or is shut down, and goes  *)
(* on either way: without a list it asks agent 0, which never answers.     *)
Poll(p) ==
  /\ Reads(p) /\ home[p] # Nobody /\ pipe[home[p]][p] # <<>>
  /\ pipe' = IF Head(pipe[home[p]][p]).type \in {"SHUTDOWN", "DISCONNECT"} \/ p \in Client
             THEN Closed(pipe, p) ELSE Taken(home[p], p)
  /\ LET m == Head(pipe[home[p]][p])
     IN  \/ /\ m.type = "DIRECTORY_UPDATE"
            /\ list' = [list EXCEPT ![p] = m.agents]
            /\ pstate' = [pstate EXCEPT ![p] = "ready"] /\ UNCHANGED got
         \/ /\ m.type = "DO_START"
            /\ got' = [got EXCEPT ![p] = Append(@, m.of)] /\ UNCHANGED <<list, pstate>>
         \/ /\ m.type = "SHUTDOWN"
            /\ pstate' = [pstate EXCEPT ![p] = IF p \in Client THEN "ready" ELSE "ended"] /\ UNCHANGED <<list, got>>
         \/ /\ m.type = "DISCONNECT"
            /\ pstate' = [pstate EXCEPT ![p] = "thrown"] /\ UNCHANGED <<list, got>>
  /\ UNCHANGED <<op, master, request, directory, home, subs, pull, due>>

(* query, query_directories: to the master, whether or not there is a      *)
(* list.                                                                   *)
Command(c) ==
  /\ pstate[c] = "waiting" /\ op[c] # "query"
  /\ pstate' = [pstate EXCEPT ![c] = "calling"]
  /\ Asks(c, "dm", IF op[c] = "directories" THEN "GET_DIRECTORIES" ELSE op[c])
  /\ UNCHANGED <<op, master, directory, home, list, got, subs, pipe, pull, due>>

(* query_vertex: to an agent of the list, to nobody if that is empty.      *)
QueryVertex(c) ==
  /\ pstate[c] = "ready" /\ op[c] = "query"
  /\ pstate' = [pstate EXCEPT ![c] = "calling"]
  /\ \E a \in IF list[c] = {} THEN {Nobody} ELSE list[c] : Asks(c, a, "QUERY")
  /\ UNCHANGED <<op, master, directory, home, list, got, subs, pipe, pull, due>>

(* An agent answers a query in any state.                                  *)
AnswerQuery(a) ==
  /\ pstate[a] \in {"waiting", "ready"}
  /\ \E c \in Client : request[c].to = a /\ Reply(c, {})
  /\ UNCHANGED <<op, master, directory, participant, subs, pipe, pull, due>>

ClientDone(c) ==
  /\ pstate[c] = "calling" /\ request[c].to = c
  /\ pstate' = [pstate EXCEPT ![c] = "ended"]
  /\ request' = [request EXCEPT ![c] = Idle]
  /\ UNCHANGED <<op, master, directory, home, list, got, subs, pipe, pull, due>>

-----------------------------------------------------------------------------
Next ==
  \/ Master
  \/ \E d \in Directory :
       \/ StartDirectory(d) \/ AskPeers(d) \/ JoinPeers(d) \/ RecvPublished(d) \/ RecvPushed(d)
       \/ Heartbeat(d) \/ Leave(d) \/ Left(d)
  \/ \E a \in Agent : StartAgent(a) \/ ConnectAgent(a) \/ NoDirectory(a) \/ Poll(a) \/ AnswerQuery(a)
  \/ \E c \in Client : StartClient(c) \/ Poll(c) \/ Command(c) \/ QueryVertex(c) \/ ClientDone(c)

Spec == Init /\ [][Next]_vars

-----------------------------------------------------------------------------
(* Properties.                                                             *)

TypeOK ==
  /\ mstate \in {"running", "ended"} /\ directories \subseteq Directory
  /\ \A x \in Process : request[x].to \in {"dm", Nobody, x} \cup Agent
  /\ dstate \in [Directory -> {"down", "joining", "running", "leaving", "ended", "thrown"}]
  /\ agents \in [Directory -> SUBSET Agent] /\ notify \in [Directory -> {"no", "all", "changed"}]
  /\ pstate \in [Participant -> {"down", "asking", "waiting", "ready", "calling", "ended", "thrown"}]
  /\ home \in [Participant -> Directory \cup {Nobody}] /\ list \in [Participant -> SUBSET Agent]
  /\ \A a \in Agent : got[a] \in Seq(Client)
  /\ \A s \in Server : subs[s] \subseteq Process \ {s}

Waits(s, x, m) == \E i \in DOMAIN pipe[s][x] : pipe[s][x][i] = m

(* Directories that start and stop at any time find each other: a running  *)
(* directory is connected to every directory of the master's list, or its  *)
(* DIRECTORY_JOIN is on the way; and is not connected to one that has left *)
(* unless its DIRECTORY_LEAVE is (directory.cpp:97-157, 298-327).          *)
PeersKnown ==
  \A d, e \in Directory : (dstate[d] = "running" /\ d # e) =>
    /\ e \in directories => d \in subs[e] \/ Waits("dm", d, ADirectory("DIRECTORY_JOIN", e))
    /\ d \in subs[e] => e \in directories \/ Waits("dm", d, ADirectory("DIRECTORY_LEAVE", e))

(* A command reaches an agent once, through its own directory only         *)
(* (directory.cpp:562-580), and no running directory loses it.             *)
Copies(a, c) ==
  LET h == home[a]
  IN  Cardinality({i \in DOMAIN got[a] : got[a][i] = c})
      + (IF h = Nobody THEN 0
         ELSE Cardinality({i \in DOMAIN pipe[h][a] : pipe[h][a][i] = DoStart(c)})
              + Cardinality({x \in UNION {{s} \X DOMAIN pipe[s][h] : s \in Server} :
                               pipe[x[1]][h][x[2]] = Start(c)}))
CommandsOnce ==
  \A a \in Agent, c \in Client :
    /\ Copies(a, c) <= 1
    /\ (<<a, c>> \in due /\ dstate[home[a]] = "running") => Copies(a, c) = 1

(* Nobody is left behind when the system goes down, however directories    *)
(* start, stop or wait meanwhile: once the master has ended its SHUTDOWN   *)
(* is on its way to every directory that runs, and once a directory has    *)
(* ended, its SHUTDOWN or DISCONNECT to every agent that has a list of it  *)
(* (directory_master.cpp:109-116, directory.cpp:329-351, 551-561).  (A     *)
(* directory or a participant that asks the master for something then      *)
(* waits for ever, and with a directory all its participants.)             *)
NobodyLeftBehind ==
  /\ \A d \in Directory : (mstate = "ended" /\ dstate[d] = "running") => Waits("dm", d, Shutdown)
  /\ \A a \in Agent : (pstate[a] = "ready" /\ dstate[home[a]] = "ended") =>
       Waits(home[a], a, Shutdown) \/ Waits(home[a], a, [type |-> "DISCONNECT"])
=============================================================================
