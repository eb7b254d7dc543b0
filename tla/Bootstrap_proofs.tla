-------------------------- MODULE Bootstrap_proofs --------------------------
(***************************************************************************)
(* Proofs about how a cluster comes up and goes down, for every set of     *)
(* directories, agents and clients.                                        *)
(***************************************************************************)
EXTENDS Bootstrap, DataLemmas, FiniteSetTheorems

-----------------------------------------------------------------------------
(* Types of what Bootstrap's TypeOK leaves open.                           *)

MasterMessage ==
       [type : {"SHUTDOWN"}]
  \cup [type : {"DIRECTORY_JOIN", "DIRECTORY_LEAVE"}, of : Directory]
  \cup [type : {"START"}, of : Client]
DirectoryMessage ==
       [type : {"SHUTDOWN", "DISCONNECT"}]
  \cup [type : {"AGENT_JOIN"}, of : Agent]
  \cup [type : {"DO_START"}, of : Client]
  \cup [type : {"DIRECTORY_UPDATE"}, changed : BOOLEAN, agents : SUBSET Agent]

(* The master and the directories publish different things.                *)
Published(s) == IF s = "dm" THEN MasterMessage ELSE DirectoryMessage
Pipes ==
  {q \in [Server -> [Process -> Seq(MasterMessage \cup DirectoryMessage)]] :
     \A s \in Server, x \in Process : q[s][x] \in Seq(Published(s))}

RequestType ==
  {"none", "DIRECTORY_JOIN", "DIRECTORY_LEAVE", "GET_DIRECTORIES", "GET_DIRECTORY",
   "START", "SHUTDOWN", "QUERY", "interrupt"}
Replies == (SUBSET Directory) \cup Directory \cup {Nobody}
Requests ==
       [to : {"dm", Nobody} \cup Agent, type : RequestType]
  \cup [to : Process, type : RequestType, reply : Replies]

(* Only agents register.                                                   *)
Pulls ==
  {f \in [Participant -> Seq({"NEED_DIRECTORY", "AGENT_JOIN"})] :
     \A c \in Client : f[c] \in Seq({"NEED_DIRECTORY"})}

(* A directory asks the master to join, for the list, or to leave.         *)
Asking(d) ==
  /\ request[d].to \in {"dm", d, Nobody}
  /\ request[d].to # Nobody =>
       \/ request[d].type \in {"DIRECTORY_JOIN", "GET_DIRECTORIES"} /\ dstate[d] = "joining"
       \/ request[d].type = "DIRECTORY_LEAVE" /\ dstate[d] = "leaving"
  /\ Answered(d, "GET_DIRECTORIES") => request[d].reply \subseteq Directory

Typed ==
  /\ TypeOK
  /\ op \in [Client -> Ops]
  /\ pipe \in Pipes
  /\ request \in [Process -> Requests]
  /\ subs \in [Server -> SUBSET Process]
  /\ got \in [Agent -> Seq(Client)]
  /\ pull \in Pulls
  /\ due \subseteq Agent \X Client
  /\ \A d \in Directory : Asking(d)
  /\ \A a \in Agent :
       /\ request[a].to # Nobody => request[a].type = "GET_DIRECTORY"
       /\ Answered(a, "GET_DIRECTORY") => request[a].reply \in Directory \cup {Nobody}
  /\ \A c \in Client :
       request[c].to # Nobody => request[c].type \notin {"DIRECTORY_JOIN", "DIRECTORY_LEAVE"}

-----------------------------------------------------------------------------
(* Publishing.                                                             *)

JoinOf(e)  == ADirectory("DIRECTORY_JOIN", e)
LeaveOf(e) == ADirectory("DIRECTORY_LEAVE", e)
Disconnect == [type |-> "DISCONNECT"]

LEMMA Names ==
  /\ "dm" \in Server /\ "dm" \notin Process
  /\ Directory \subseteq Server /\ Directory \subseteq Process
  /\ Agent \subseteq Participant /\ Client \subseteq Participant
  /\ Participant \subseteq Process
  /\ Directory \cap Participant = {} /\ Agent \cap Client = {}
  /\ Nobody \notin Process /\ Nobody \notin Server
  /\ \A s \in Server : s # "dm" => s \in Directory
BY BootstrapAssumption DEF Process, Server, Participant

LEMMA MessageTypes ==
  /\ Shutdown \in MasterMessage /\ Shutdown \in DirectoryMessage
  /\ Disconnect \in DirectoryMessage
  /\ \A e \in Directory : JoinOf(e) \in MasterMessage /\ LeaveOf(e) \in MasterMessage
  /\ \A c \in Client : Start(c) \in MasterMessage /\ DoStart(c) \in DirectoryMessage
BY DEF Shutdown, Disconnect, JoinOf, LeaveOf, ADirectory, Start, DoStart,
       MasterMessage, DirectoryMessage

(* What a publication changes.                                             *)
LEMMA PubPlaces ==
  ASSUME NEW q \in Pipes, NEW s \in Server, NEW m \in Published(s)
  PROVE  /\ Pub(q, s, m) \in Pipes
         /\ \A t \in Server, x \in Process :
              Pub(q, s, m)[t][x] = IF t = s /\ x \in subs[s] /\ Reads(x) /\ Wants(x, m)
                                   THEN Append(q[t][x], m) ELSE q[t][x]
<1> DEFINE new == [x \in Process |-> IF x \in subs[s] /\ Reads(x) /\ Wants(x, m)
                                     THEN Append(q[s][x], m) ELSE q[s][x]]
<1>1. Pub(q, s, m) = [q EXCEPT ![s] = new]
  BY DEF Pub
<1>2. DOMAIN q = Server /\ \A x \in Process : q[s][x] \in Seq(Published(s))
  BY DEF Pipes
<1>3. \A x \in Process : new[x] \in Seq(Published(s))
  BY <1>2, AppendPlaces
<1>4. \A t \in Server : Pub(q, s, m)[t] = IF t = s THEN new ELSE q[t]
  BY <1>1, <1>2
<1>5. Published(s) \subseteq MasterMessage \cup DirectoryMessage
  BY DEF Published
<1>6. new \in [Process -> Seq(MasterMessage \cup DirectoryMessage)]
  BY <1>3, <1>5
<1> HIDE DEF new
<1>7. Pub(q, s, m) \in [Server -> [Process -> Seq(MasterMessage \cup DirectoryMessage)]]
  BY <1>1, <1>6 DEF Pipes
<1>8. \A t \in Server, x \in Process : Pub(q, s, m)[t][x] \in Seq(Published(t))
  BY <1>3, <1>4 DEF Pipes
<1> QED BY ZenonT(60), <1>4, <1>7, <1>8 DEF Pipes, new

LEMMA TakenPlaces ==
  ASSUME pipe \in Pipes, NEW s \in Server, NEW x \in Process, pipe[s][x] # <<>>
  PROVE  /\ Taken(s, x) \in Pipes
         /\ Head(pipe[s][x]) \in Published(s)
         /\ \A t \in Server, y \in Process :
              Taken(s, x)[t][y] = IF t = s /\ y = x THEN Tail(pipe[s][x]) ELSE pipe[t][y]
<1>1. pipe[s][x] \in Seq(Published(s))
  BY DEF Pipes
<1>2. Head(pipe[s][x]) \in Published(s) /\ Tail(pipe[s][x]) \in Seq(Published(s))
  BY <1>1, TailPlaces
<1>3. \A t \in Server, y \in Process :
        Taken(s, x)[t][y] = IF t = s /\ y = x THEN Tail(pipe[s][x]) ELSE pipe[t][y]
  BY DEF Taken, Pipes
<1>4. Tail(pipe[s][x]) \in Seq(MasterMessage \cup DirectoryMessage)
  <2>1. pipe[s][x] \in Seq(MasterMessage \cup DirectoryMessage)
    BY DEF Pipes
  <2> QED BY <2>1, TailPlaces
<1>5. Taken(s, x) \in [Server -> [Process -> Seq(MasterMessage \cup DirectoryMessage)]]
  BY <1>4 DEF Taken, Pipes
<1> QED BY <1>2, <1>3, <1>5 DEF Pipes

LEMMA ClosedPlaces ==
  ASSUME NEW q \in Pipes, NEW x \in Process
  PROVE  /\ Closed(q, x) \in Pipes
         /\ \A t \in Server, y \in Process :
              Closed(q, x)[t][y] = IF y = x THEN <<>> ELSE q[t][y]
<1>1. \A t \in Server, y \in Process :
        Closed(q, x)[t][y] = IF y = x THEN <<>> ELSE q[t][y]
  BY DEF Closed, Pipes
<1>2. Closed(q, x) \in [Server -> [Process -> Seq(MasterMessage \cup DirectoryMessage)]]
  BY DEF Closed, Pipes
<1>3. \A s \in Server : <<>> \in Seq(Published(s))
  OBVIOUS
<1> QED BY <1>1, <1>2, <1>3 DEF Pipes

-----------------------------------------------------------------------------
(* The inductive invariant.                                                *)

(* An agent is connected to its directory and to no other one.             *)
AgentConnected(a) ==
  /\ \A d \in Directory : a \in subs[d] => home[a] = d
  /\ pstate[a] # "calling"
  /\ pstate[a] \in {"waiting", "ready"} => home[a] \in Directory /\ a \in subs[home[a]]
  /\ pstate[a] \in {"down", "asking"} => home[a] = Nobody /\ got[a] = <<>>

(* Who is connected, by the state of the process.  Nothing waits for a     *)
(* process that does not read.                                             *)
Connected ==
  /\ \A x \in Process, s \in Server : ~Reads(x) => pipe[s][x] = <<>>
  /\ \A d \in Directory :
       /\ dstate[d] # "down" => d \in subs["dm"]
       /\ dstate[d] \in {"down", "joining"} => \A e \in Directory : d \notin subs[e]
  /\ \A a \in Agent : AgentConnected(a)

(* A directory's leaving is behind its joining, and for good; a list of    *)
(* directories is as good as the messages behind it.                       *)
DirectoriesKnown ==
  \A d, e \in Directory :
    /\ e \in directories \/ Followed(pipe["dm"][d], JoinOf(e), LeaveOf(e))
    /\ Has(pipe["dm"][d], LeaveOf(e)) =>
         e \notin directories /\ dstate[e] \in {"leaving", "ended"}
    /\ (dstate[d] = "joining" /\ Answered(d, "GET_DIRECTORIES") /\ d # e) =>
         /\ e \in directories => e \in request[d].reply \/ Has(pipe["dm"][d], JoinOf(e))
         /\ e \in request[d].reply => e \in directories \/ Has(pipe["dm"][d], LeaveOf(e))
    /\ (dstate[d] = "running" /\ d # e) =>
         /\ e \in directories => d \in subs[e] \/ Has(pipe["dm"][d], JoinOf(e))
         /\ d \in subs[e] => e \in directories \/ Has(pipe["dm"][d], LeaveOf(e))

(* The master's last message waits for every directory that may run.       *)
MasterFarewell ==
  mstate = "ended" => \A d \in Directory :
    dstate[d] = "running" \/ (dstate[d] = "joining" /\ request[d].to = d)
      => Has(pipe["dm"][d], Shutdown)

(* The last message of a directory waits for its agents.                   *)
Farewell(d, a) == Has(pipe[d][a], Shutdown) \/ Has(pipe[d][a], Disconnect)
FarewellSent(d, a) ==
  /\ dstate[d] = "ended" /\ (pstate[a] = "ready" \/ (Reads(a) /\ pipe[d][a] # <<>>))
       => Farewell(d, a)
  /\ Farewell(d, a) \/ pstate[a] \in {"ended", "thrown"} => dstate[d] = "ended"
DirectoryFarewells ==
  \A d \in Directory, a \in Agent : home[a] = d => FarewellSent(d, a)

(* A client sends its command once.                                        *)
Unsent(c) == pstate[c] \in {"down", "waiting"} \/ request[c].to = "dm"
CommandsSent ==
  \A c \in Client :
    /\ request[c].to # Nobody => pstate[c] = "calling"
    /\ \A d \in Directory :
         /\ Once(pipe["dm"][d], Start(c))
         /\ Unsent(c) => ~Has(pipe["dm"][d], Start(c))

(* A command is at one place on its way to an agent.                       *)
AtDirectory(a, c) == Has(pipe["dm"][home[a]], Start(c))
OnItsWay(a, c) == Has(pipe[home[a]][a], DoStart(c))
Arrived(a, c) == Has(got[a], c)
CommandPassed(a, c) ==
  /\ Once(got[a], c)
  /\ Unsent(c) => ~Arrived(a, c) /\ <<a, c>> \notin due
  /\ <<a, c>> \in due => home[a] \in Directory /\ dstate[home[a]] \notin {"down", "joining"}
  /\ home[a] \in Directory =>
       /\ Once(pipe[home[a]][a], DoStart(c))
       /\ Unsent(c) => ~OnItsWay(a, c)
       /\ ~(AtDirectory(a, c) /\ OnItsWay(a, c))
       /\ ~(AtDirectory(a, c) /\ Arrived(a, c))
       /\ ~(OnItsWay(a, c) /\ Arrived(a, c))
       /\ <<a, c>> \in due /\ dstate[home[a]] = "running" =>
            AtDirectory(a, c) \/ OnItsWay(a, c) \/ Arrived(a, c)
CommandsPassed == \A a \in Agent, c \in Client : CommandPassed(a, c)

(* The inductive invariant.                                                *)
BootstrapInv ==
  /\ Typed /\ Connected /\ DirectoriesKnown
  /\ MasterFarewell /\ DirectoryFarewells
  /\ CommandsSent /\ CommandsPassed

-----------------------------------------------------------------------------
(* Requests.                                                               *)

LEMMA AsksPlaces ==
  ASSUME Typed, NEW x \in Process, NEW to \in {"dm", Nobody} \cup Agent, NEW t \in RequestType,
         Asks(x, to, t)
  PROVE  /\ request' \in [Process -> Requests]
         /\ \A y \in Process : y # x => request'[y] = request[y]
         /\ request'[x].to = to /\ request'[x].type = t
BY DEF Typed, Requests, Asks

LEMMA RepliedPlaces ==
  ASSUME Typed, NEW x \in Process, NEW r \in Replies,
         Reply(x, r)
  PROVE  /\ request' \in [Process -> Requests]
         /\ \A y \in Process : y # x => request'[y] = request[y]
         /\ request'[x].to = x /\ request'[x].type = request[x].type /\ request'[x].reply = r
<1>1. request[x].type \in RequestType /\ request \in [Process -> Requests]
  BY DEF Typed, Requests
<1> QED BY <1>1 DEF Requests, Reply

LEMMA IdlePlaces ==
  ASSUME Typed, NEW x \in Process, request' = [request EXCEPT ![x] = Idle]
  PROVE  /\ request' \in [Process -> Requests]
         /\ \A y \in Process : y # x => request'[y] = request[y]
         /\ request'[x].to = Nobody /\ request'[x].type = "none"
<1>1. Asks(x, Nobody, "none")
  BY DEF Asks, Idle
<1>2. Nobody \in {"dm", Nobody} \cup Agent /\ "none" \in RequestType
  BY DEF RequestType
<1> QED BY <1>1, <1>2, AsksPlaces

-----------------------------------------------------------------------------
(* Every action keeps the types.                                           *)

LEMMA InitTyped == Init => Typed
<1> SUFFICES ASSUME Init PROVE Typed
  OBVIOUS
<1>1. pipe \in Pipes
  <2>1. \A S : <<>> \in Seq(S)
    OBVIOUS
  <2>2. [x \in Process |-> <<>>] \in [Process -> Seq(MasterMessage \cup DirectoryMessage)]
    BY <2>1
  <2> QED BY <2>1, <2>2 DEF Init, Pipes
<1>2. request \in [Process -> Requests]
  <2>1. Idle \in [to : {"dm", Nobody} \cup Agent, type : RequestType]
    BY DEF Idle, RequestType
  <2> QED BY <2>1 DEF Init, Requests
<1>3. got \in [Agent -> Seq(Client)] /\ pull \in Pulls
  <2>1. \A S : <<>> \in Seq(S)
    OBVIOUS
  <2>2. pull \in Pulls
    BY <2>1, Names DEF Init, Pulls
  <2> QED BY <2>1, <2>2 DEF Init
<1>4. \A x \in Process : request[x].to = Nobody
  BY DEF Init, Idle
<1>5. TypeOK
  BY <1>3, <1>4 DEF Init, TypeOK
<1> QED BY <1>1, <1>2, <1>3, <1>4, <1>5, Names DEF Init, Typed, Asking, Answered

LEMMA MasterTyped == ASSUME Typed, Master PROVE Typed'
<1> USE Names
<1>1. ASSUME NEW q \in Pipes, NEW m \in MasterMessage PROVE Pub(q, "dm", m) \in Pipes
  BY PubPlaces DEF Published
<1>2. CASE MasterInterrupted
  <2>1. pipe' \in Pipes
    BY <1>1, <1>2, MessageTypes DEF MasterInterrupted, Typed
  <2> QED BY <1>2, <2>1 DEF Master, MasterInterrupted, Typed, TypeOK, Asking, Answered,
                            directory, participant
<1>3. ASSUME NEW x \in Process, request[x].to = "dm",
             MasterGet(x) \/ MasterDirectory(x) \/ MasterCommand(x) \/ MasterShutdown(x)
      PROVE  Typed'
  <2>1. PICK r \in Replies :
          /\ Reply(x, r)
          /\ request[x].type = "GET_DIRECTORIES" => r \subseteq Directory
          /\ request[x].type = "GET_DIRECTORY" => r \in Directory \cup {Nobody}
    <3>1. directories \subseteq Directory
      BY DEF Typed, TypeOK
    <3>2. CASE MasterGet(x)
      <4>1. CASE request[x].type = "GET_DIRECTORIES" /\ Reply(x, directories)
        BY <3>1, <4>1 DEF Replies
      <4>2. CASE request[x].type = "GET_DIRECTORY" /\ Reply(x, Nobody)
        BY <4>2 DEF Replies
      <4>3. CASE request[x].type = "GET_DIRECTORY" /\ \E d \in directories : Reply(x, d)
        <5>1. PICK d \in directories : Reply(x, d)
          BY <4>3
        <5>2. d \in Directory
          BY <3>1
        <5> QED BY <4>3, <5>1, <5>2 DEF Replies
      <4> QED BY <3>2, <4>1, <4>2, <4>3 DEF MasterGet
    <3>3. CASE MasterDirectory(x) \/ MasterCommand(x) \/ MasterShutdown(x)
      <4>1. Reply(x, {}) /\ request[x].type \notin {"GET_DIRECTORIES", "GET_DIRECTORY"}
        BY <3>3 DEF MasterDirectory, MasterCommand, MasterShutdown
      <4> QED BY <4>1 DEF Replies
    <3> QED BY <1>3, <3>2, <3>3
  <2>2. /\ request' \in [Process -> Requests]
        /\ \A y \in Process : y # x => request'[y] = request[y]
        /\ request'[x].to = x /\ request'[x].type = request[x].type /\ request'[x].reply = r
    BY <2>1, RepliedPlaces
  <2>3. UNCHANGED <<op, directory, participant, subs, pull>>
    BY DEF Master
  <2>4. mstate' \in {"running", "ended"} /\ directories' \subseteq Directory
    BY <1>3 DEF MasterGet, MasterDirectory, MasterCommand, MasterShutdown, Typed, TypeOK,
                Asking, master, Participant, Process
  <2>5. pipe' \in Pipes /\ due' \subseteq Agent \X Client
    <3>1. CASE MasterGet(x)
      BY <3>1 DEF MasterGet, Typed
    <3>2. CASE MasterDirectory(x)
      <4>1. x \in Directory
        BY <1>3, <3>2 DEF MasterDirectory, Typed, Process, Participant
      <4>2. ADirectory(request[x].type, x) \in MasterMessage
        BY <3>2, <4>1, MessageTypes DEF MasterDirectory, JoinOf, LeaveOf
      <4> QED BY <1>1, <3>2, <4>2 DEF MasterDirectory, Typed
    <3>3. CASE MasterCommand(x)
      <4>1. x \in Client
        BY <1>3, <3>3 DEF MasterCommand, Typed, Process, Participant, Asking
      <4> QED BY <1>1, <3>3, <4>1, MessageTypes DEF MasterCommand, Typed, Reached
    <3>4. CASE MasterShutdown(x)
      BY <1>1, <3>4, MessageTypes DEF MasterShutdown, Typed
    <3> QED BY <1>3, <3>1, <3>2, <3>3, <3>4
  <2>6. \A d \in Directory : Asking(d)'
    BY <1>3, <2>1, <2>2, <2>3 DEF Typed, Asking, Answered, directory
  <2>7. \A a \in Agent :
          /\ request'[a].to # Nobody => request'[a].type = "GET_DIRECTORY"
          /\ Answered(a, "GET_DIRECTORY")' => request'[a].reply \in Directory \cup {Nobody}
    BY <1>3, <2>1, <2>2 DEF Typed, Answered
  <2>8. \A c \in Client :
          request'[c].to # Nobody => request'[c].type \notin {"DIRECTORY_JOIN", "DIRECTORY_LEAVE"}
    BY <1>3, <2>1, <2>2 DEF Typed
  <2>9. \A y \in Process : request'[y].to \in {"dm", Nobody, y} \cup Agent
    BY <2>2 DEF Typed, TypeOK
  <2> QED BY <2>2, <2>3, <2>4, <2>5, <2>6, <2>7, <2>8, <2>9
          DEF Typed, TypeOK, directory, participant
<1> QED BY <1>2, <1>3 DEF Master

(* What a step of a directory leaves alone.                                *)
LEMMA DirectoryTyped ==
  ASSUME Typed, NEW d \in Directory,
         UNCHANGED <<op, master, participant, due>>,
         dstate' \in [Directory -> {"down", "joining", "running", "leaving", "ended", "thrown"}],
         agents' \in [Directory -> SUBSET Agent], notify' \in [Directory -> {"no", "all", "changed"}],
         \A e \in Directory : e # d => dstate'[e] = dstate[e],
         request' \in [Process -> Requests],
         \A y \in Process : y # d => request'[y] = request[y],
         Asking(d)',
         subs' \in [Server -> SUBSET Process], \A s \in Server : s \notin subs'[s],
         pipe' \in Pipes,
         pull' \in Pulls
  PROVE  Typed'
<1> USE Names
<1>1. TypeOK'
  <2>1. \A x \in Process : request'[x].to \in {"dm", Nobody, x} \cup Agent
    BY DEF Typed, TypeOK, Asking
  <2>2. \A s \in Server : subs'[s] \subseteq Process \ {s}
    OBVIOUS
  <2> QED BY <2>1, <2>2 DEF Typed, TypeOK, master, participant
<1>2. \A e \in Directory : Asking(e)'
  BY DEF Typed, Asking, Answered
<1>3. \A p \in Participant : request'[p] = request[p]
  OBVIOUS
<1> QED BY <1>1, <1>2, <1>3 DEF Typed, Answered, master, participant

LEMMA StartDirectoryTyped == ASSUME Typed, NEW d \in Directory, StartDirectory(d) PROVE Typed'
<1> USE Names
<1>1. /\ request' \in [Process -> Requests]
      /\ \A y \in Process : y # d => request'[y] = request[y]
      /\ request'[d].to = "dm" /\ request'[d].type = "DIRECTORY_JOIN"
  <2>1. Asks(d, "dm", "DIRECTORY_JOIN") /\ "DIRECTORY_JOIN" \in RequestType
    BY DEF StartDirectory, RequestType
  <2> QED BY <2>1, AsksPlaces
<1>2. dstate'[d] = "joining"
  BY DEF StartDirectory, Typed, TypeOK
<1>3. Asking(d)'
  BY <1>1, <1>2 DEF Asking, Answered
<1>4. subs' \in [Server -> SUBSET Process] /\ \A s \in Server : s \notin subs'[s]
  BY DEF StartDirectory, Typed, TypeOK
<1> QED BY <1>1, <1>3, <1>4, DirectoryTyped DEF StartDirectory, Typed, TypeOK

LEMMA AskPeersTyped == ASSUME Typed, NEW d \in Directory, AskPeers(d) PROVE Typed'
<1> USE Names
<1>1. /\ request' \in [Process -> Requests]
      /\ \A y \in Process : y # d => request'[y] = request[y]
      /\ request'[d].to = "dm" /\ request'[d].type = "GET_DIRECTORIES"
  <2>1. Asks(d, "dm", "GET_DIRECTORIES") /\ "GET_DIRECTORIES" \in RequestType
    BY DEF AskPeers, RequestType
  <2> QED BY <2>1, AsksPlaces
<1>2. dstate'[d] = "joining"
  BY DEF AskPeers, directory
<1>3. Asking(d)'
  BY <1>1, <1>2 DEF Asking, Answered
<1> QED BY <1>1, <1>3, DirectoryTyped DEF AskPeers, Typed, TypeOK, directory

LEMMA JoinPeersTyped == ASSUME Typed, NEW d \in Directory, JoinPeers(d) PROVE Typed'
<1> USE Names
<1>1. /\ request' \in [Process -> Requests]
      /\ \A y \in Process : y # d => request'[y] = request[y]
      /\ request'[d].to = Nobody /\ request'[d].type = "none"
  BY IdlePlaces DEF JoinPeers
<1>2. Asking(d)'
  BY <1>1 DEF Asking, Answered
<1>3. subs' \in [Server -> SUBSET Process] /\ \A s \in Server : s \notin subs'[s]
  BY DEF JoinPeers, Typed, TypeOK
<1>4. dstate' \in [Directory -> {"down", "joining", "running", "leaving", "ended", "thrown"}]
      /\ \A e \in Directory : e # d => dstate'[e] = dstate[e]
  BY DEF JoinPeers, Typed, TypeOK
<1> QED BY <1>1, <1>2, <1>3, <1>4, DirectoryTyped DEF JoinPeers, Typed, TypeOK

LEMMA LeaveTyped == ASSUME Typed, NEW d \in Directory, Leave(d) PROVE Typed'
<1> USE Names
<1>1. /\ request' \in [Process -> Requests]
      /\ \A y \in Process : y # d => request'[y] = request[y]
      /\ request'[d].to = "dm" /\ request'[d].type = "DIRECTORY_LEAVE"
  <2>1. Asks(d, "dm", "DIRECTORY_LEAVE") /\ "DIRECTORY_LEAVE" \in RequestType
    BY DEF Leave, RequestType
  <2> QED BY <2>1, AsksPlaces
<1>2. dstate'[d] = "leaving"
  BY DEF Leave, Typed, TypeOK
<1>3. Asking(d)'
  BY <1>1, <1>2 DEF Asking, Answered
<1>4. pipe' \in Pipes
  BY ClosedPlaces DEF Leave, Typed
<1> QED BY <1>1, <1>3, <1>4, DirectoryTyped DEF Leave, Typed, TypeOK

LEMMA LeftTyped == ASSUME Typed, NEW d \in Directory, Left(d) PROVE Typed'
<1> USE Names
<1>1. /\ request' \in [Process -> Requests]
      /\ \A y \in Process : y # d => request'[y] = request[y]
      /\ request'[d].to = Nobody /\ request'[d].type = "none"
  BY IdlePlaces DEF Left
<1>2. Asking(d)'
  BY <1>1 DEF Asking, Answered
<1>3. pipe' \in Pipes
  BY PubPlaces, MessageTypes DEF Left, Typed, Published, Disconnect
<1> QED BY <1>1, <1>2, <1>3, DirectoryTyped DEF Left, Typed, TypeOK

LEMMA HeartbeatTyped == ASSUME Typed, NEW d \in Directory, Heartbeat(d) PROVE Typed'
<1> USE Names
<1>1. [type |-> "DIRECTORY_UPDATE", changed |-> notify[d] = "changed", agents |-> agents[d]]
        \in DirectoryMessage
  BY DEF Typed, TypeOK, DirectoryMessage
<1>2. pipe' \in Pipes
  BY <1>1, PubPlaces DEF Heartbeat, Typed, Published
<1>3. Asking(d)'
  BY DEF Heartbeat, Typed, Asking, Answered
<1> QED BY <1>2, <1>3, DirectoryTyped DEF Heartbeat, Typed, TypeOK

(* A directory that gets a message asks for nothing.                       *)
LEMMA RunningAsksNothing ==
  ASSUME Typed, NEW d \in Directory, dstate[d] = "running"
  PROVE  request[d].to = Nobody
BY DEF Typed, Asking

LEMMA AgentJoinedTyped ==
  ASSUME Typed, NEW d \in Directory, NEW a \in Agent, NEW q \in Pipes, AgentJoined(d, a, q)
  PROVE  /\ pipe' \in Pipes /\ UNCHANGED <<subs, dstate>>
         /\ agents' \in [Directory -> SUBSET Agent]
         /\ notify' \in [Directory -> {"no", "all", "changed"}]
<1> USE Names
<1>1. [type |-> "AGENT_JOIN", of |-> a] \in DirectoryMessage
  BY DEF DirectoryMessage
<1>2. pipe' \in Pipes
  BY <1>1, PubPlaces DEF AgentJoined, Published
<1>3. CASE a \in agents[d]
  BY <1>2, <1>3 DEF AgentJoined, Typed, TypeOK
<1>4. CASE a \notin agents[d]
  <2>1. /\ agents' = [agents EXCEPT ![d] = @ \cup {a}]
        /\ notify' = [notify EXCEPT ![d] = "changed"]
        /\ UNCHANGED <<subs, dstate>>
    BY <1>4 DEF AgentJoined
  <2> QED BY <1>2, <2>1 DEF Typed, TypeOK
<1> QED BY <1>3, <1>4

(* What a publication of s can be, by its type.                            *)
LEMMA PublishedTypes ==
  ASSUME NEW s \in Server, NEW m \in Published(s)
  PROVE  /\ m.type = "DIRECTORY_JOIN" => s = "dm" /\ m.of \in Directory /\ m = JoinOf(m.of)
         /\ m.type = "DIRECTORY_LEAVE" => s = "dm" /\ m.of \in Directory /\ m = LeaveOf(m.of)
         /\ m.type = "START" => s = "dm" /\ m.of \in Client /\ m = Start(m.of)
         /\ m.type = "AGENT_JOIN" => s # "dm" /\ m.of \in Agent
         /\ m.type = "DO_START" => s # "dm" /\ m.of \in Client /\ m = DoStart(m.of)
         /\ m.type = "DISCONNECT" => s # "dm" /\ m = Disconnect
         /\ m.type = "SHUTDOWN" => m = Shutdown
         /\ m.type = "DIRECTORY_UPDATE" => s # "dm" /\ m.agents \subseteq Agent
BY DEF Published, MasterMessage, DirectoryMessage, JoinOf, LeaveOf, ADirectory, Start, DoStart,
       Disconnect, Shutdown

LEMMA RecvPublishedTyped == ASSUME Typed, NEW d \in Directory, RecvPublished(d) PROVE Typed'
<1> USE Names
<1> DEFINE m(s) == Head(pipe[s][d])
           q(s) == Taken(s, d)
<1>1. PICK s \in Server :
        /\ pipe[s][d] # <<>>
        /\ \/ m(s).type = "DIRECTORY_JOIN" /\ PeerJoined(d, m(s).of) /\ pipe' = q(s)
           \/ m(s).type = "DIRECTORY_LEAVE" /\ PeerLeft(d, m(s).of, q(s))
           \/ m(s).type = "AGENT_JOIN" /\ AgentJoined(d, m(s).of, q(s))
           \/ m(s).type = "START" /\ PassedOn(d, m(s).of, q(s))
           \/ m(s).type = "SHUTDOWN" /\ Stopped(d, q(s))
  BY DEF RecvPublished
<1>2. q(s) \in Pipes /\ m(s) \in Published(s)
  BY <1>1, TakenPlaces DEF Typed
<1> HIDE DEF m, q
<1>3. /\ pipe' \in Pipes
      /\ dstate' \in [Directory -> {"down", "joining", "running", "leaving", "ended", "thrown"}]
      /\ \A e \in Directory : e # d => dstate'[e] = dstate[e]
      /\ subs' \in [Server -> SUBSET Process] /\ \A t \in Server : t \notin subs'[t]
      /\ agents' \in [Directory -> SUBSET Agent]
      /\ notify' \in [Directory -> {"no", "all", "changed"}]
  <2>1. CASE m(s).type = "DIRECTORY_JOIN" /\ PeerJoined(d, m(s).of) /\ pipe' = q(s)
    BY <1>2, <2>1, PublishedTypes DEF PeerJoined, Typed, TypeOK
  <2>2. CASE m(s).type = "DIRECTORY_LEAVE" /\ PeerLeft(d, m(s).of, q(s))
    <3>1. m(s).of \in Directory
      BY <1>2, <2>2, PublishedTypes
    <3>2. CASE d \in subs[m(s).of]
      <4>1. /\ subs' = [subs EXCEPT ![m(s).of] = @ \ {d}] /\ pipe' = q(s)
            /\ UNCHANGED <<dstate, agents, notify>>
        BY <2>2, <3>2 DEF PeerLeft
      <4> QED BY <1>2, <3>1, <4>1 DEF Typed, TypeOK
    <3>3. CASE d \notin subs[m(s).of]
      <4>1. /\ dstate' = [dstate EXCEPT ![d] = "thrown"] /\ pipe' = Closed(q(s), d)
            /\ UNCHANGED <<subs, agents, notify>>
        BY <2>2, <3>3 DEF PeerLeft
      <4> QED BY <1>2, <4>1, ClosedPlaces DEF Typed, TypeOK
    <3> QED BY <3>2, <3>3
  <2>3. CASE m(s).type = "AGENT_JOIN" /\ AgentJoined(d, m(s).of, q(s))
    BY <1>2, <2>3, PublishedTypes, AgentJoinedTyped DEF Typed, TypeOK
  <2>4. CASE m(s).type = "START" /\ PassedOn(d, m(s).of, q(s))
    <3>1. DoStart(m(s).of) \in Published(d)
      BY <1>2, <2>4, PublishedTypes, MessageTypes DEF Published
    <3> QED BY <1>2, <2>4, <3>1, PubPlaces DEF PassedOn, directory, Typed, TypeOK
  <2>5. CASE m(s).type = "SHUTDOWN" /\ Stopped(d, q(s))
    <3>1. Pub(q(s), d, Shutdown) \in Pipes
      BY <1>2, PubPlaces, MessageTypes DEF Published
    <3> QED BY <2>5, <3>1, ClosedPlaces DEF Stopped, Typed, TypeOK
  <2> QED BY <1>1, <2>1, <2>2, <2>3, <2>4, <2>5
<1>4. UNCHANGED <<op, master, request, participant, pull, due>>
  BY DEF RecvPublished
<1>5. Asking(d)'
  BY <1>4, RunningAsksNothing DEF RecvPublished, Asking, Answered
<1> QED BY <1>3, <1>4, <1>5, DirectoryTyped DEF Typed

LEMMA RecvPushedTyped == ASSUME Typed, NEW d \in Directory, RecvPushed(d) PROVE Typed'
<1> USE Names
<1>1. PICK p \in Participant :
        /\ home[p] = d /\ pull[p] # <<>>
        /\ pull' = [pull EXCEPT ![p] = Tail(@)]
        /\ \/ Head(pull[p]) = "AGENT_JOIN" /\ AgentJoined(d, p, pipe)
           \/ /\ Head(pull[p]) = "NEED_DIRECTORY"
              /\ notify' = [notify EXCEPT ![d] = IF @ = "no" THEN "all" ELSE @]
              /\ UNCHANGED <<subs, dstate, agents, pipe>>
  BY DEF RecvPushed
<1>2. pull[p] \in Seq({"NEED_DIRECTORY", "AGENT_JOIN"})
      /\ (p \in Client => pull[p] \in Seq({"NEED_DIRECTORY"}))
  BY DEF Typed, Pulls
<1>3. Head(pull[p]) = "AGENT_JOIN" => p \in Agent
  BY <1>1, <1>2, TailPlaces DEF Participant
<1>4. pull' \in Pulls
  <2>1. Tail(pull[p]) \in Seq({"NEED_DIRECTORY", "AGENT_JOIN"})
        /\ (p \in Client => Tail(pull[p]) \in Seq({"NEED_DIRECTORY"}))
    BY <1>1, <1>2, TailPlaces
  <2> QED BY <1>1, <2>1 DEF Typed, Pulls
<1>5. /\ pipe' \in Pipes /\ UNCHANGED <<subs, dstate>>
      /\ agents' \in [Directory -> SUBSET Agent]
      /\ notify' \in [Directory -> {"no", "all", "changed"}]
  <2>1. CASE Head(pull[p]) = "AGENT_JOIN" /\ AgentJoined(d, p, pipe)
    BY <1>3, <2>1, AgentJoinedTyped DEF Typed
  <2>2. CASE /\ notify' = [notify EXCEPT ![d] = IF @ = "no" THEN "all" ELSE @]
             /\ UNCHANGED <<subs, dstate, agents, pipe>>
    BY <2>2 DEF Typed, TypeOK
  <2> QED BY <1>1, <2>1, <2>2
<1>6. UNCHANGED <<op, master, request, participant, due>>
  BY DEF RecvPushed
<1>7. Asking(d)'
  BY <1>6, RunningAsksNothing DEF RecvPushed, Asking, Answered
<1> QED BY <1>4, <1>5, <1>6, <1>7, DirectoryTyped DEF Typed, TypeOK

(* What a step of a participant leaves alone.                              *)
LEMMA ParticipantTyped ==
  ASSUME Typed, NEW p \in Participant,
         UNCHANGED <<op, master, directory, due>>,
         pstate' \in [Participant -> {"down", "asking", "waiting", "ready", "calling", "ended", "thrown"}],
         home' \in [Participant -> Directory \cup {Nobody}],
         list' \in [Participant -> SUBSET Agent], got' \in [Agent -> Seq(Client)],
         request' \in [Process -> Requests],
         \A y \in Process : y # p => request'[y] = request[y],
         request'[p].to \in {"dm", Nobody, p} \cup Agent,
         p \in Agent =>
           /\ request'[p].to # Nobody => request'[p].type = "GET_DIRECTORY"
           /\ Answered(p, "GET_DIRECTORY")' => request'[p].reply \in Directory \cup {Nobody},
         p \in Client =>
           (request'[p].to # Nobody => request'[p].type \notin {"DIRECTORY_JOIN", "DIRECTORY_LEAVE"}),
         subs' \in [Server -> SUBSET Process], \A s \in Server : s \notin subs'[s],
         pipe' \in Pipes, pull' \in Pulls
  PROVE  Typed'
<1> USE Names
<1>1. TypeOK'
  <2>1. \A x \in Process : request'[x].to \in {"dm", Nobody, x} \cup Agent
    BY DEF Typed, TypeOK
  <2>2. \A s \in Server : subs'[s] \subseteq Process \ {s}
    OBVIOUS
  <2>3. \A a \in Agent : got'[a] \in Seq(Client)
    OBVIOUS
  <2> QED BY <2>1, <2>2, <2>3 DEF Typed, TypeOK, master, directory
<1>2. \A e \in Directory : request'[e] = request[e]
  OBVIOUS
<1>3. \A e \in Directory : Asking(e)'
  BY <1>2 DEF Typed, Asking, Answered, directory
<1>4. \A a \in Agent :
        /\ request'[a].to # Nobody => request'[a].type = "GET_DIRECTORY"
        /\ Answered(a, "GET_DIRECTORY")' => request'[a].reply \in Directory \cup {Nobody}
  BY DEF Typed, Answered
<1>5. \A c \in Client :
        request'[c].to # Nobody => request'[c].type \notin {"DIRECTORY_JOIN", "DIRECTORY_LEAVE"}
  BY DEF Typed
<1> QED BY <1>1, <1>3, <1>4, <1>5 DEF Typed

(* What a step that does not change them keeps.                            *)
LEMMA TypesOfParts ==
  ASSUME Typed
  PROVE  /\ pstate \in [Participant -> {"down", "asking", "waiting", "ready", "calling", "ended", "thrown"}]
         /\ home \in [Participant -> Directory \cup {Nobody}]
         /\ list \in [Participant -> SUBSET Agent] /\ got \in [Agent -> Seq(Client)]
         /\ subs \in [Server -> SUBSET Process] /\ \A s \in Server : s \notin subs[s]
         /\ pipe \in Pipes /\ pull \in Pulls
BY DEF Typed, TypeOK

LEMMA StartAgentTyped == ASSUME Typed, NEW a \in Agent, StartAgent(a) PROVE Typed'
<1> USE Names
<1>1. /\ request' \in [Process -> Requests]
      /\ \A y \in Process : y # a => request'[y] = request[y]
      /\ request'[a].to = "dm" /\ request'[a].type = "GET_DIRECTORY"
  <2>1. Asks(a, "dm", "GET_DIRECTORY") /\ "GET_DIRECTORY" \in RequestType
    BY DEF StartAgent, RequestType
  <2> QED BY <2>1, AsksPlaces
<1>2. pstate' \in [Participant -> {"down", "asking", "waiting", "ready", "calling", "ended", "thrown"}]
      /\ UNCHANGED <<op, master, directory, home, list, got, subs, pipe, pull, due>>
  BY TypesOfParts DEF StartAgent
<1> QED BY <1>1, <1>2, TypesOfParts, ParticipantTyped DEF Answered

(* Connecting to a directory, or not being able to.                        *)
LEMMA ConnectToTyped ==
  ASSUME Typed, NEW p \in Participant, NEW d \in Directory, NEW f,
         f \in Seq({"NEED_DIRECTORY", "AGENT_JOIN"}), p \in Client => f \in Seq({"NEED_DIRECTORY"}),
         ConnectTo(p, d, f)
  PROVE  /\ home' \in [Participant -> Directory \cup {Nobody}]
         /\ subs' \in [Server -> SUBSET Process] /\ \A s \in Server : s \notin subs'[s]
         /\ pull' \in Pulls
<1> USE Names
<1>1. pull' \in Pulls
  BY DEF ConnectTo, Typed, Pulls
<1>2. subs' \in [Server -> SUBSET Process] /\ \A s \in Server : s \notin subs'[s]
  BY DEF ConnectTo, Typed, TypeOK
<1> QED BY <1>1, <1>2 DEF ConnectTo, Typed, TypeOK

LEMMA ConnectAgentTyped == ASSUME Typed, NEW a \in Agent, ConnectAgent(a) PROVE Typed'
<1> USE Names
<1>1. /\ request' \in [Process -> Requests]
      /\ \A y \in Process : y # a => request'[y] = request[y]
      /\ request'[a].to = Nobody /\ request'[a].type = "none"
  BY IdlePlaces DEF ConnectAgent
<1>2. request[a].reply \in Directory
  BY DEF ConnectAgent, Typed
<1>3. <<"NEED_DIRECTORY", "AGENT_JOIN">> \in Seq({"NEED_DIRECTORY", "AGENT_JOIN"})
  OBVIOUS
<1>4. ConnectTo(a, request[a].reply, <<"NEED_DIRECTORY", "AGENT_JOIN">>)
  BY DEF ConnectAgent
<1>5. /\ home' \in [Participant -> Directory \cup {Nobody}]
      /\ subs' \in [Server -> SUBSET Process] /\ \A s \in Server : s \notin subs'[s]
      /\ pull' \in Pulls
  BY <1>2, <1>3, <1>4, ConnectToTyped
<1>6. /\ pstate' \in [Participant -> {"down", "asking", "waiting", "ready", "calling", "ended", "thrown"}]
      /\ UNCHANGED <<op, master, directory, list, got, pipe, due>>
  BY DEF ConnectAgent, Typed, TypeOK
<1>7. list' \in [Participant -> SUBSET Agent] /\ got' \in [Agent -> Seq(Client)] /\ pipe' \in Pipes
  BY <1>6, TypesOfParts
<1>8. request'[a].to \in {"dm", Nobody, a} \cup Agent /\ ~Answered(a, "GET_DIRECTORY")'
  BY <1>1 DEF Answered
<1> QED BY <1>1, <1>5, <1>6, <1>7, <1>8, ParticipantTyped

LEMMA NoDirectoryTyped == ASSUME Typed, NEW a \in Agent, NoDirectory(a) PROVE Typed'
<1> USE Names
<1>1. /\ request' \in [Process -> Requests]
      /\ \A y \in Process : y # a => request'[y] = request[y]
      /\ request'[a].to = Nobody /\ request'[a].type = "none"
  BY IdlePlaces DEF NoDirectory
<1>2. pstate' \in [Participant -> {"down", "asking", "waiting", "ready", "calling", "ended", "thrown"}]
      /\ UNCHANGED <<op, master, directory, home, list, got, subs, pipe, pull, due>>
  BY TypesOfParts DEF NoDirectory
<1> QED BY <1>1, <1>2, TypesOfParts, ParticipantTyped DEF Answered

LEMMA StartClientTyped == ASSUME Typed, NEW c \in Client, StartClient(c) PROVE Typed'
<1> USE Names
<1>1. <<"NEED_DIRECTORY">> \in Seq({"NEED_DIRECTORY"})
      /\ <<"NEED_DIRECTORY">> \in Seq({"NEED_DIRECTORY", "AGENT_JOIN"})
  OBVIOUS
<1>2. /\ home' \in [Participant -> Directory \cup {Nobody}]
      /\ subs' \in [Server -> SUBSET Process] /\ \A s \in Server : s \notin subs'[s]
      /\ pull' \in Pulls
  <2>1. CASE UNCHANGED <<home, subs, pull>>
    BY <2>1 DEF Typed, TypeOK
  <2>2. CASE \E d \in directories : ConnectTo(c, d, <<"NEED_DIRECTORY">>)
    <3>1. PICK d \in Directory : ConnectTo(c, d, <<"NEED_DIRECTORY">>)
      BY <2>2 DEF Typed, TypeOK
    <3> QED BY <1>1, <3>1, ConnectToTyped
  <2> QED BY <2>1, <2>2 DEF StartClient
<1>3. /\ pstate' \in [Participant -> {"down", "asking", "waiting", "ready", "calling", "ended", "thrown"}]
      /\ UNCHANGED <<op, master, request, directory, list, got, pipe, due>>
  BY DEF StartClient, Typed, TypeOK
<1> QED BY <1>2, <1>3, ParticipantTyped DEF Answered, Typed, TypeOK

LEMMA PollTyped == ASSUME Typed, NEW p \in Participant, Poll(p) PROVE Typed'
<1> USE Names
<1> DEFINE m == Head(pipe[home[p]][p])
<1>1. home[p] \in Directory /\ home[p] \in Server /\ home[p] # "dm"
  BY DEF Poll, Typed, TypeOK
<1>2. m \in Published(home[p]) /\ Taken(home[p], p) \in Pipes
  BY <1>1, TakenPlaces DEF Poll, Typed
<1>3. pipe' \in Pipes
  <2>1. Closed(pipe, p) \in Pipes
    BY ClosedPlaces DEF Typed
  <2> QED BY <1>2, <2>1 DEF Poll
<1> HIDE DEF m
<1>4. /\ pstate' \in [Participant -> {"down", "asking", "waiting", "ready", "calling", "ended", "thrown"}]
      /\ list' \in [Participant -> SUBSET Agent] /\ got' \in [Agent -> Seq(Client)]
  <2>1. CASE /\ m.type = "DIRECTORY_UPDATE"
             /\ list' = [list EXCEPT ![p] = m.agents]
             /\ pstate' = [pstate EXCEPT ![p] = "ready"] /\ UNCHANGED got
    BY <1>2, <2>1, PublishedTypes, <1>1 DEF Typed, TypeOK
  <2>2. CASE /\ m.type = "DO_START"
             /\ got' = [got EXCEPT ![p] = Append(@, m.of)] /\ UNCHANGED <<list, pstate>>
    <3>1. m.of \in Client
      BY <1>2, <2>2, PublishedTypes, <1>1
    <3>2. p \in Agent => Append(got[p], m.of) \in Seq(Client)
      BY <3>1 DEF Typed
    <3>3. got' \in [Agent -> Seq(Client)]
      <4>1. \A a \in Agent : a # p => got'[a] = got[a]
        BY <2>2, TypesOfParts
      <4>2. p \in Agent => got'[p] = Append(got[p], m.of)
        BY <2>2, TypesOfParts
      <4>3. \A a \in Agent : got'[a] \in Seq(Client)
        BY <3>2, <4>1, <4>2, TypesOfParts
      <4>4. got' = [a \in Agent |-> got'[a]]
        BY <2>2, TypesOfParts
      <4> QED BY <4>3, <4>4
    <3> QED BY <2>2, <3>3, TypesOfParts
  <2>3. CASE /\ m.type \in {"SHUTDOWN", "DISCONNECT"}
             /\ \E s \in {"ready", "ended", "thrown"} : pstate' = [pstate EXCEPT ![p] = s]
             /\ UNCHANGED <<list, got>>
    BY <2>3 DEF Typed, TypeOK
  <2> QED BY <2>1, <2>2, <2>3 DEF Poll, m
<1>5. UNCHANGED <<op, master, request, directory, home, subs, pull, due>>
  BY DEF Poll
<1> QED BY <1>3, <1>4, <1>5, ParticipantTyped DEF Answered, Typed, TypeOK

LEMMA CommandTyped == ASSUME Typed, NEW c \in Client, Command(c) PROVE Typed'
<1> USE Names
<1> DEFINE t == IF op[c] = "directories" THEN "GET_DIRECTORIES" ELSE op[c]
<1>1. t \in RequestType /\ t \notin {"DIRECTORY_JOIN", "DIRECTORY_LEAVE"} /\ Asks(c, "dm", t)
  <2>1. op[c] \in {"START", "SHUTDOWN", "directories", "query", "interrupt"}
    BY BootstrapAssumption DEF Typed
  <2> QED BY <2>1 DEF Command, RequestType
<1> HIDE DEF t
<1>2. /\ request' \in [Process -> Requests]
      /\ \A y \in Process : y # c => request'[y] = request[y]
      /\ request'[c].to = "dm" /\ request'[c].type = t
  BY <1>1, AsksPlaces
<1>3. pstate' \in [Participant -> {"down", "asking", "waiting", "ready", "calling", "ended", "thrown"}]
      /\ UNCHANGED <<op, master, directory, home, list, got, subs, pipe, pull, due>>
  BY TypesOfParts DEF Command
<1> QED BY <1>1, <1>2, <1>3, TypesOfParts, ParticipantTyped DEF Answered

LEMMA QueryVertexTyped == ASSUME Typed, NEW c \in Client, QueryVertex(c) PROVE Typed'
<1> USE Names
<1>1. PICK a \in {"dm", Nobody} \cup Agent : Asks(c, a, "QUERY")
  BY DEF QueryVertex, Typed, TypeOK
<1>2. "QUERY" \in RequestType
  BY DEF RequestType
<1>3. /\ request' \in [Process -> Requests]
      /\ \A y \in Process : y # c => request'[y] = request[y]
      /\ request'[c].to = a /\ request'[c].type = "QUERY"
  BY <1>1, <1>2, AsksPlaces
<1>4. pstate' \in [Participant -> {"down", "asking", "waiting", "ready", "calling", "ended", "thrown"}]
      /\ UNCHANGED <<op, master, directory, home, list, got, subs, pipe, pull, due>>
  BY TypesOfParts DEF QueryVertex
<1> QED BY <1>3, <1>4, TypesOfParts, ParticipantTyped DEF Answered

LEMMA AnswerQueryTyped == ASSUME Typed, NEW a \in Agent, AnswerQuery(a) PROVE Typed'
<1> USE Names
<1>1. PICK c \in Client : request[c].to = a /\ Reply(c, {})
  BY DEF AnswerQuery
<1>2. {} \in Replies
  BY DEF Replies
<1>3. /\ request' \in [Process -> Requests]
      /\ \A y \in Process : y # c => request'[y] = request[y]
      /\ request'[c].to = c /\ request'[c].type = request[c].type
  BY <1>1, <1>2, RepliedPlaces
<1>4. request'[c].type \notin {"DIRECTORY_JOIN", "DIRECTORY_LEAVE"}
  BY <1>1, <1>3 DEF Typed
<1>5. UNCHANGED <<op, master, directory, participant, subs, pipe, pull, due>>
  BY DEF AnswerQuery
<1> QED BY <1>3, <1>4, <1>5, TypesOfParts, ParticipantTyped DEF participant

LEMMA ClientDoneTyped == ASSUME Typed, NEW c \in Client, ClientDone(c) PROVE Typed'
<1> USE Names
<1>1. /\ request' \in [Process -> Requests]
      /\ \A y \in Process : y # c => request'[y] = request[y]
      /\ request'[c].to = Nobody /\ request'[c].type = "none"
  BY IdlePlaces DEF ClientDone
<1> QED BY SMTT(30), <1>1, ParticipantTyped DEF ClientDone, Typed, TypeOK

LEMMA NextTyped == ASSUME Typed, [Next]_vars PROVE Typed'
<1>1. CASE UNCHANGED vars
  BY <1>1 DEF vars, master, directory, participant, Typed, TypeOK, Asking, Answered
<1>2. CASE Master
  BY <1>2, MasterTyped
<1>3. ASSUME NEW d \in Directory,
             \/ StartDirectory(d) \/ AskPeers(d) \/ JoinPeers(d) \/ RecvPublished(d)
             \/ RecvPushed(d) \/ Heartbeat(d) \/ Leave(d) \/ Left(d)
      PROVE  Typed'
  BY <1>3, StartDirectoryTyped, AskPeersTyped, JoinPeersTyped, RecvPublishedTyped,
     RecvPushedTyped, HeartbeatTyped, LeaveTyped, LeftTyped
<1>4. ASSUME NEW a \in Agent,
             StartAgent(a) \/ ConnectAgent(a) \/ NoDirectory(a) \/ Poll(a) \/ AnswerQuery(a)
      PROVE  Typed'
  BY <1>4, Names, StartAgentTyped, ConnectAgentTyped, NoDirectoryTyped, PollTyped, AnswerQueryTyped
<1>5. ASSUME NEW c \in Client,
             StartClient(c) \/ Poll(c) \/ Command(c) \/ QueryVertex(c) \/ ClientDone(c)
      PROVE  Typed'
  BY <1>5, Names, StartClientTyped, PollTyped, CommandTyped, QueryVertexTyped, ClientDoneTyped
<1> QED BY <1>1, <1>2, <1>3, <1>4, <1>5 DEF Next

(* Bootstrap's state has the types the code's declarations give it,        *)
(* whatever directories, agents and clients there are.                     *)
THEOREM BootstrapTyped == Spec => []TypeOK
<1>1. Init => Typed
  BY InitTyped
<1>2. Typed /\ [Next]_vars => Typed'
  BY NextTyped
<1>3. Typed => TypeOK
  BY DEF Typed
<1> QED BY <1>1, <1>2, <1>3, PTL DEF Spec

-----------------------------------------------------------------------------
(* What waits in a connection after it was published to, read or closed.   *)

LEMMA PubHas ==
  ASSUME NEW q \in Pipes, NEW s \in Server, NEW m \in Published(s),
         NEW t \in Server, NEW x \in Process
  PROVE  LET old == q[t][x]
             new == Pub(q, s, m)[t][x]
             sent == t = s /\ x \in subs[s] /\ Reads(x) /\ Wants(x, m)
         IN  /\ \A n : Has(new, n) <=> Has(old, n) \/ (sent /\ n = m)
             /\ \A n : Once(old, n) /\ (n = m => ~Has(old, n)) => Once(new, n)
             /\ \A n, k : Followed(old, n, k) /\ m # n => Followed(new, n, k)
             /\ \A n : sent /\ m # n => Followed(new, n, m)
<1> DEFINE old == q[t][x]
           new == Pub(q, s, m)[t][x]
           sent == t = s /\ x \in subs[s] /\ Reads(x) /\ Wants(x, m)
<1>1. new = IF sent THEN Append(old, m) ELSE old
  BY PubPlaces
<1>2. sent => m \in Published(t) /\ old \in Seq(Published(t))
  BY DEF Pipes
<1> HIDE DEF old, new, sent
<1>3. CASE sent
  <2>1. new = Append(old, m) /\ m \in Published(t) /\ old \in Seq(Published(t))
    BY <1>1, <1>2, <1>3
  <2>2. \A n : Has(new, n) <=> Has(old, n) \/ n = m
    BY <2>1, HasAppend
  <2>3. \A n : Once(old, n) /\ (n = m => ~Has(old, n)) => Once(new, n)
    BY <2>1, OnceAppend
  <2>4. \A n, k : m # n => /\ Followed(old, n, k) => Followed(new, n, k)
                           /\ m = k => Followed(new, n, k)
    BY <2>1, FollowedAppend
  <2> QED BY <1>3, <2>2, <2>3, <2>4 DEF old, new, sent
<1>4. CASE ~sent
  <2>1. new = old
    BY <1>1, <1>4
  <2> QED BY <1>4, <2>1 DEF old, new, sent
<1> QED BY <1>3, <1>4

LEMMA TakenHas ==
  ASSUME pipe \in Pipes, NEW s \in Server, NEW x \in Process, pipe[s][x] # <<>>
  PROVE  LET head == Head(pipe[s][x])
             new == Taken(s, x)[s][x]
         IN  /\ \A n : Has(pipe[s][x], n) <=> n = head \/ Has(new, n)
             /\ \A n : Once(pipe[s][x], n) => Once(new, n) /\ (n = head => ~Has(new, n))
             /\ \A n, k : Followed(pipe[s][x], n, k) =>
                            /\ Followed(new, n, k)
                            /\ n = head /\ n # k => Has(new, k)
             /\ \A t \in Server, y \in Process :
                  t # s \/ y # x => Taken(s, x)[t][y] = pipe[t][y]
<1> DEFINE old == pipe[s][x]
           new == Taken(s, x)[s][x]
<1>1. old \in Seq(Published(s)) /\ old # <<>>
  BY DEF Pipes
<1>2. new = Tail(old) /\ \A t \in Server, y \in Process :
                           t # s \/ y # x => Taken(s, x)[t][y] = pipe[t][y]
  BY TakenPlaces
<1> HIDE DEF old, new
<1>3. \A n : Has(old, n) <=> n = Head(old) \/ Has(new, n)
  BY <1>1, <1>2, HasTail
<1>4. \A n : Once(old, n) => Once(new, n) /\ (n = Head(old) => ~Has(new, n))
  BY <1>1, <1>2, OnceTail
<1>5. \A n, k : Followed(old, n, k) =>
                  /\ Followed(new, n, k)
                  /\ n = Head(old) /\ n # k => Has(new, k)
  BY <1>1, <1>2, FollowedTail
<1> QED BY <1>2, <1>3, <1>4, <1>5 DEF old, new

(* The messages that the invariants are about are different ones.          *)
LEMMA DifferentMessages ==
  /\ \A d, e : JoinOf(d) # LeaveOf(e) /\ (JoinOf(d) = JoinOf(e) => d = e) /\ (LeaveOf(d) = LeaveOf(e) => d = e)
  /\ \A c, k : (Start(c) = Start(k) => c = k) /\ (DoStart(c) = DoStart(k) => c = k)
  /\ \A d : JoinOf(d).type = "DIRECTORY_JOIN" /\ LeaveOf(d).type = "DIRECTORY_LEAVE"
            /\ JoinOf(d).of = d /\ LeaveOf(d).of = d
  /\ \A c : Start(c).type = "START" /\ DoStart(c).type = "DO_START"
            /\ Start(c).of = c /\ DoStart(c).of = c
  /\ Shutdown.type = "SHUTDOWN" /\ Disconnect.type = "DISCONNECT"
<1>1. \A d : JoinOf(d).type = "DIRECTORY_JOIN" /\ LeaveOf(d).type = "DIRECTORY_LEAVE"
             /\ JoinOf(d).of = d /\ LeaveOf(d).of = d
  BY DEF JoinOf, LeaveOf, ADirectory
<1>2. \A c : Start(c).type = "START" /\ DoStart(c).type = "DO_START"
             /\ Start(c).of = c /\ DoStart(c).of = c
  BY DEF Start, DoStart
<1>3. Shutdown.type = "SHUTDOWN" /\ Disconnect.type = "DISCONNECT"
  BY DEF Shutdown, Disconnect
<1>4. \A d, e : JoinOf(d) # LeaveOf(e)
  <2> TAKE d, e
  <2>1. JoinOf(d).type = "DIRECTORY_JOIN" /\ LeaveOf(e).type = "DIRECTORY_LEAVE"
    BY <1>1
  <2> QED BY <2>1
<1>5. \A d, e : (JoinOf(d) = JoinOf(e) => d = e) /\ (LeaveOf(d) = LeaveOf(e) => d = e)
  <2> TAKE d, e
  <2>1. JoinOf(d).of = d /\ JoinOf(e).of = e /\ LeaveOf(d).of = d /\ LeaveOf(e).of = e
    BY <1>1
  <2> QED BY <2>1
<1>6. \A c, k : (Start(c) = Start(k) => c = k) /\ (DoStart(c) = DoStart(k) => c = k)
  <2> TAKE c, k
  <2>1. Start(c).of = c /\ Start(k).of = k /\ DoStart(c).of = c /\ DoStart(k).of = k
    BY <1>2
  <2> QED BY <2>1
<1> QED BY <1>1, <1>2, <1>3, <1>4, <1>5, <1>6

-----------------------------------------------------------------------------
(* What keeps each part of the invariant.                                  *)

(* The step does not change whether m waits for x.                         *)
Keeps(s, x, m) ==
  /\ Has(pipe'[s][x], m) <=> Has(pipe[s][x], m)
  /\ Once(pipe[s][x], m) => Once(pipe'[s][x], m)
KeepsFollowed(s, x, m, n) == Followed(pipe[s][x], m, n) => Followed(pipe'[s][x], m, n)

LEMMA PubKeeps ==
  ASSUME pipe \in Pipes, NEW s \in Server, NEW m \in Published(s), pipe' = Pub(pipe, s, m),
         NEW t \in Server, NEW x \in Process
  PROVE  /\ \A n : n # m \/ t # s => Keeps(t, x, n)
         /\ \A n, k : n # m \/ t # s => KeepsFollowed(t, x, n, k)
<1>1. CASE t = s
  <2>1. \A n : n # m => Keeps(t, x, n)
    BY PubHas DEF Keeps
  <2>2. \A n, k : n # m => KeepsFollowed(t, x, n, k)
    BY PubHas DEF KeepsFollowed
  <2> QED BY <1>1, <2>1, <2>2
<1>2. CASE t # s
  <2>1. pipe'[t][x] = pipe[t][x]
    BY <1>2, PubPlaces
  <2> QED BY <2>1 DEF Keeps, KeepsFollowed
<1> QED BY <1>1, <1>2

LEMMA TakenKeeps ==
  ASSUME pipe \in Pipes, NEW s \in Server, NEW y \in Process, pipe[s][y] # <<>>,
         pipe' = Taken(s, y), NEW t \in Server, NEW x \in Process
  PROVE  /\ \A n : n # Head(pipe[s][y]) \/ t # s \/ x # y => Keeps(t, x, n)
         /\ \A n, k : KeepsFollowed(t, x, n, k)
<1>1. CASE t = s /\ x = y
  BY <1>1, TakenHas DEF Keeps, KeepsFollowed
<1>2. CASE t # s \/ x # y
  <2>1. pipe'[t][x] = pipe[t][x]
    BY <1>2, TakenHas
  <2> QED BY <2>1 DEF Keeps, KeepsFollowed
<1> QED BY <1>1, <1>2

(* A message is taken and another one published.                           *)
LEMMA TakenPubKeeps ==
  ASSUME pipe \in Pipes, NEW s \in Server, NEW y \in Process, pipe[s][y] # <<>>,
         NEW e \in Server, NEW m \in Published(e), pipe' = Pub(Taken(s, y), e, m),
         NEW t \in Server, NEW x \in Process
  PROVE  /\ \A n : (n # Head(pipe[s][y]) \/ t # s \/ x # y) /\ (n # m \/ t # e) => Keeps(t, x, n)
         /\ \A n, k : (n # m \/ t # e) => KeepsFollowed(t, x, n, k)
<1> DEFINE q == Taken(s, y)
<1>1. q \in Pipes
  BY TakenPlaces
<1>2. /\ \A n : n # Head(pipe[s][y]) \/ t # s \/ x # y =>
             /\ Has(q[t][x], n) <=> Has(pipe[t][x], n)
             /\ Once(pipe[t][x], n) => Once(q[t][x], n)
      /\ \A n, k : Followed(pipe[t][x], n, k) => Followed(q[t][x], n, k)
  <2>1. CASE t = s /\ x = y
    BY <2>1, TakenHas
  <2>2. CASE t # s \/ x # y
    <3>1. q[t][x] = pipe[t][x]
      BY <2>2, TakenHas
    <3> QED BY <3>1
  <2> QED BY <2>1, <2>2
<1> HIDE DEF q
<1>3. /\ \A n : n # m \/ t # e =>
             /\ Has(pipe'[t][x], n) <=> Has(q[t][x], n)
             /\ Once(q[t][x], n) => Once(pipe'[t][x], n)
      /\ \A n, k : n # m \/ t # e => (Followed(q[t][x], n, k) => Followed(pipe'[t][x], n, k))
  <2>1. pipe' = Pub(q, e, m)
    BY DEF q
  <2>2. CASE t = e
    <3>1. \A n : n # m =>
             /\ Has(pipe'[t][x], n) <=> Has(q[t][x], n)
             /\ Once(q[t][x], n) => Once(pipe'[t][x], n)
      BY <1>1, <2>1, PubHas
    <3>2. \A n, k : n # m => (Followed(q[t][x], n, k) => Followed(pipe'[t][x], n, k))
      BY <1>1, <2>1, PubHas
    <3> QED BY <2>2, <3>1, <3>2
  <2>3. CASE t # e
    <3>1. pipe'[t][x] = q[t][x]
      BY <1>1, <2>1, <2>3, PubPlaces
    <3> QED BY <3>1
  <2> QED BY <2>2, <2>3
<1> QED BY <1>2, <1>3 DEF Keeps, KeepsFollowed

LEMMA ConnectedKept ==
  ASSUME Connected, UNCHANGED <<op, dstate, pstate, home, got, subs>>,
         \A x \in Process, s \in Server : ~Reads(x) => pipe'[s][x] = pipe[s][x]
  PROVE  Connected'
BY DEF Connected, AgentConnected, Reads

LEMMA DirectoriesKnownKept ==
  ASSUME DirectoriesKnown, directories' = directories,
         \A d \in Directory : dstate[d] \in {"leaving", "ended"} => dstate'[d] \in {"leaving", "ended"},
         \A d \in Directory : dstate'[d] = "joining" /\ Answered(d, "GET_DIRECTORIES")' =>
           dstate[d] = "joining" /\ request'[d] = request[d],
         \A d \in Directory : dstate'[d] = "running" => dstate[d] = "running",
         \A d, e \in Directory : dstate'[d] = "running" => (d \in subs'[e] <=> d \in subs[e]),
         \A d \in Directory :
           \/ dstate'[d] \notin {"joining", "running"} /\ pipe'["dm"][d] = <<>>
           \/ \A e \in Directory :
                /\ Keeps("dm", d, JoinOf(e)) /\ Keeps("dm", d, LeaveOf(e))
                /\ KeepsFollowed("dm", d, JoinOf(e), LeaveOf(e))
  PROVE  DirectoriesKnown'
<1> SUFFICES ASSUME NEW d \in Directory, NEW e \in Directory
             PROVE  /\ e \in directories' \/ Followed(pipe'["dm"][d], JoinOf(e), LeaveOf(e))
                    /\ Has(pipe'["dm"][d], LeaveOf(e)) =>
                         e \notin directories' /\ dstate'[e] \in {"leaving", "ended"}
                    /\ (dstate'[d] = "joining" /\ Answered(d, "GET_DIRECTORIES")' /\ d # e) =>
                         /\ e \in directories' => e \in request'[d].reply \/ Has(pipe'["dm"][d], JoinOf(e))
                         /\ e \in request'[d].reply => e \in directories' \/ Has(pipe'["dm"][d], LeaveOf(e))
                    /\ (dstate'[d] = "running" /\ d # e) =>
                         /\ e \in directories' => d \in subs'[e] \/ Has(pipe'["dm"][d], JoinOf(e))
                         /\ d \in subs'[e] => e \in directories' \/ Has(pipe'["dm"][d], LeaveOf(e))
  BY DEF DirectoriesKnown
<1>1. CASE dstate'[d] \notin {"joining", "running"} /\ pipe'["dm"][d] = <<>>
  BY <1>1, EmptyQueue
<1>2. CASE /\ Keeps("dm", d, JoinOf(e)) /\ Keeps("dm", d, LeaveOf(e))
           /\ KeepsFollowed("dm", d, JoinOf(e), LeaveOf(e))
  BY <1>2 DEF DirectoriesKnown, Keeps, KeepsFollowed, Answered
<1> QED BY <1>1, <1>2

LEMMA MasterFarewellKept ==
  ASSUME MasterFarewell, mstate' = mstate,
         \A d \in Directory :
           dstate'[d] = "running" \/ (dstate'[d] = "joining" /\ request'[d].to = d) =>
             /\ dstate[d] = "running" \/ (dstate[d] = "joining" /\ request[d].to = d)
             /\ Keeps("dm", d, Shutdown)
  PROVE  MasterFarewell'
BY DEF MasterFarewell, Keeps

LEMMA DirectoryFarewellsKept ==
  ASSUME DirectoryFarewells, UNCHANGED <<pstate, home>>,
         \A a \in Agent : home[a] \in Directory =>
           /\ dstate'[home[a]] = "ended" <=> dstate[home[a]] = "ended"
           /\ Keeps(home[a], a, Shutdown) /\ Keeps(home[a], a, Disconnect)
           /\ dstate[home[a]] = "ended" => pipe'[home[a]][a] = pipe[home[a]][a]
  PROVE  DirectoryFarewells'
BY Names DEF DirectoryFarewells, FarewellSent, Farewell, Keeps, Reads

LEMMA CommandsSentKept ==
  ASSUME CommandsSent,
         \A c \in Client : request'[c].to # Nobody => pstate'[c] = "calling",
         \A c \in Client : Unsent(c)' => Unsent(c),
         \A c \in Client, d \in Directory :
           Keeps("dm", d, Start(c)) \/ pipe'["dm"][d] = <<>>
  PROVE  CommandsSent'
<1> SUFFICES ASSUME NEW c \in Client, NEW d \in Directory
             PROVE  /\ Once(pipe'["dm"][d], Start(c))
                    /\ Unsent(c)' => ~Has(pipe'["dm"][d], Start(c))
  BY DEF CommandsSent
<1>1. CASE Keeps("dm", d, Start(c))
  BY <1>1 DEF Keeps, CommandsSent
<1>2. CASE pipe'["dm"][d] = <<>>
  BY <1>2, EmptyQueue
<1> QED BY <1>1, <1>2

LEMMA CommandsPassedKept ==
  ASSUME CommandsPassed, UNCHANGED <<home, got, due>>,
         \A c \in Client : Unsent(c)' => Unsent(c),
         \A d \in Directory :
           /\ dstate'[d] \in {"down", "joining"} => dstate[d] \in {"down", "joining"}
           /\ dstate'[d] = "running" => dstate[d] \in {"joining", "running"},
         \A a \in Agent, c \in Client : home[a] \in Directory =>
           /\ Keeps(home[a], a, DoStart(c))
           /\ Keeps("dm", home[a], Start(c))
              \/ (dstate'[home[a]] # "running" /\ pipe'["dm"][home[a]] = <<>>)
  PROVE  CommandsPassed'
<1> SUFFICES ASSUME NEW a \in Agent, NEW c \in Client
             PROVE  /\ <<a, c>> \in due => home[a] \in Directory /\ dstate'[home[a]] \notin {"down", "joining"}
                    /\ home[a] \in Directory =>
                         /\ Once(pipe'[home[a]][a], DoStart(c))
                         /\ Unsent(c)' => ~OnItsWay(a, c)'
                         /\ ~(AtDirectory(a, c)' /\ OnItsWay(a, c)')
                         /\ ~(AtDirectory(a, c)' /\ Arrived(a, c)')
                         /\ ~(OnItsWay(a, c)' /\ Arrived(a, c)')
                         /\ <<a, c>> \in due /\ dstate'[home[a]] = "running" =>
                              AtDirectory(a, c)' \/ OnItsWay(a, c)' \/ Arrived(a, c)'
  BY DEF CommandsPassed, CommandPassed, Arrived
<1>1. <<a, c>> \in due => home[a] \in Directory /\ dstate'[home[a]] \notin {"down", "joining"}
  BY DEF CommandsPassed, CommandPassed
<1>2. ASSUME home[a] \in Directory
      PROVE  /\ Arrived(a, c)' <=> Arrived(a, c)
             /\ OnItsWay(a, c)' <=> OnItsWay(a, c)
             /\ AtDirectory(a, c)' => AtDirectory(a, c)
             /\ dstate'[home[a]] = "running" /\ AtDirectory(a, c) => AtDirectory(a, c)'
  <2>1. CASE Keeps("dm", home[a], Start(c))
    BY <1>2, <2>1 DEF Keeps, Arrived, OnItsWay, AtDirectory
  <2>2. CASE dstate'[home[a]] # "running" /\ pipe'["dm"][home[a]] = <<>>
    BY <1>2, <2>2, EmptyQueue DEF Keeps, Arrived, OnItsWay, AtDirectory
  <2> QED BY <1>2, <2>1, <2>2
<1>3. home[a] \in Directory => Once(pipe'[home[a]][a], DoStart(c))
  BY DEF CommandsPassed, CommandPassed, Keeps
<1> QED BY <1>1, <1>2, <1>3 DEF CommandsPassed, CommandPassed

-----------------------------------------------------------------------------
(* Every action of the master keeps the invariant.                         *)

(* The master answers x.                                                   *)
Answer(x) ==
  /\ x \in Process /\ request[x].to = "dm"
  /\ \A y \in Process : y # x => request'[y] = request[y]
  /\ request'[x].to = x /\ request'[x].type = request[x].type

LEMMA MasterSteps ==
  ASSUME Typed, Master
  PROVE  /\ UNCHANGED <<op, directory, participant, subs, pull>> /\ mstate = "running"
         /\ \/ /\ UNCHANGED <<mstate, directories, pipe, due>>
               /\ \E x \in Process : Answer(x) /\ (request[x].type = "GET_DIRECTORIES" =>
                                                     request'[x].reply = directories)
            \/ /\ UNCHANGED <<mstate, due>>
               /\ \E x \in Directory :
                    /\ Answer(x) /\ request[x].type = "DIRECTORY_JOIN"
                    /\ directories' = directories \cup {x} /\ pipe' = Pub(pipe, "dm", JoinOf(x))
            \/ /\ UNCHANGED <<mstate, due>>
               /\ \E x \in Directory :
                    /\ Answer(x) /\ request[x].type = "DIRECTORY_LEAVE"
                    /\ directories' = directories \ {x} /\ pipe' = Pub(pipe, "dm", LeaveOf(x))
            \/ /\ UNCHANGED master
               /\ \E x \in Client :
                    /\ Answer(x) /\ request[x].type = "START"
                    /\ pipe' = Pub(pipe, "dm", Start(x))
                    /\ due' = due \cup (Reached \X {x})
            \/ /\ UNCHANGED <<directories, due>> /\ mstate' = "ended"
               /\ pipe' = Pub(pipe, "dm", Shutdown)
               /\ request' = request \/ \E x \in Process : Answer(x) /\ request[x].type = "SHUTDOWN"
<1> USE Names
<1>1. UNCHANGED <<op, directory, participant, subs, pull>> /\ mstate = "running"
  BY DEF Master
<1>2. ASSUME NEW x \in Process, NEW r \in Replies, request[x].to = "dm", Reply(x, r)
      PROVE  Answer(x) /\ request'[x].reply = r
  BY <1>2, RepliedPlaces DEF Answer
<1>3. {} \in Replies /\ Nobody \in Replies /\ directories \in Replies /\ directories \subseteq Replies
  BY DEF Replies, Typed, TypeOK
<1>4. CASE MasterInterrupted
  BY <1>1, <1>4 DEF MasterInterrupted
<1>5. ASSUME NEW x \in Process, request[x].to = "dm", MasterGet(x)
      PROVE  /\ UNCHANGED <<mstate, directories, pipe, due>>
             /\ Answer(x) /\ (request[x].type = "GET_DIRECTORIES" => request'[x].reply = directories)
  <2>1. CASE request[x].type = "GET_DIRECTORIES" /\ Reply(x, directories)
    BY <1>2, <1>3, <1>5, <2>1 DEF MasterGet, master
  <2>2. CASE request[x].type = "GET_DIRECTORY" /\ \E r \in Replies : Reply(x, r)
    BY <1>2, <1>5, <2>2 DEF MasterGet, master
  <2> QED BY <1>3, <1>5, <2>1, <2>2 DEF MasterGet
<1>6. ASSUME NEW x \in Process, request[x].to = "dm", MasterDirectory(x)
      PROVE  /\ UNCHANGED <<mstate, due>> /\ x \in Directory /\ Answer(x)
             /\ \/ /\ request[x].type = "DIRECTORY_JOIN"
                   /\ directories' = directories \cup {x} /\ pipe' = Pub(pipe, "dm", JoinOf(x))
                \/ /\ request[x].type = "DIRECTORY_LEAVE"
                   /\ directories' = directories \ {x} /\ pipe' = Pub(pipe, "dm", LeaveOf(x))
  <2>1. x \in Directory
    BY <1>6 DEF MasterDirectory, Typed, Process, Participant
  <2>2. Answer(x)
    BY <1>2, <1>3, <1>6 DEF MasterDirectory
  <2> QED BY <1>6, <2>1, <2>2 DEF MasterDirectory, JoinOf, LeaveOf
<1>7. ASSUME NEW x \in Process, request[x].to = "dm", MasterCommand(x)
      PROVE  /\ UNCHANGED master /\ x \in Client /\ Answer(x) /\ pipe' = Pub(pipe, "dm", Start(x))
             /\ due' = due \cup (Reached \X {x}) /\ request[x].type = "START"
  <2>1. x \in Client
    BY <1>7 DEF MasterCommand, Typed, Process, Participant, Asking
  <2> QED BY <1>2, <1>3, <1>7, <2>1 DEF MasterCommand
<1>8. ASSUME NEW x \in Process, request[x].to = "dm", MasterShutdown(x)
      PROVE  /\ UNCHANGED <<directories, due>> /\ mstate' = "ended"
             /\ pipe' = Pub(pipe, "dm", Shutdown) /\ Answer(x) /\ request[x].type = "SHUTDOWN"
  BY <1>2, <1>3, <1>8 DEF MasterShutdown
<1>9. CASE \E x \in Process : /\ request[x].to = "dm"
                              /\ MasterGet(x) \/ MasterDirectory(x) \/ MasterCommand(x) \/ MasterShutdown(x)
  <2>1. PICK x \in Process : /\ request[x].to = "dm"
                             /\ MasterGet(x) \/ MasterDirectory(x) \/ MasterCommand(x) \/ MasterShutdown(x)
    BY <1>9
  <2>2. CASE MasterGet(x)
    BY <1>1, <1>5, <2>1, <2>2
  <2>3. CASE MasterDirectory(x)
    BY <1>1, <1>6, <2>1, <2>3
  <2>4. CASE MasterCommand(x)
    BY <1>1, <1>7, <2>1, <2>4
  <2>5. CASE MasterShutdown(x)
    BY <1>1, <1>8, <2>1, <2>5
  <2> QED BY <2>1, <2>2, <2>3, <2>4, <2>5
<1> QED BY <1>4, <1>9 DEF Master

(* Publishing changes nothing for who does not read; an answer changes no  *)
(* other request.                                                          *)
LEMMA MasterConnected ==
  ASSUME Typed, Connected, UNCHANGED <<op, directory, participant, subs>>,
         pipe' = pipe \/ \E m \in MasterMessage : pipe' = Pub(pipe, "dm", m)
  PROVE  Connected'
<1>1. \A x \in Process, s \in Server : ~Reads(x) => pipe'[s][x] = pipe[s][x]
  BY Names, PubPlaces DEF Typed, Published
<1> QED BY <1>1, ConnectedKept DEF directory, participant

LEMMA MasterDirectoryFarewells ==
  ASSUME Typed, DirectoryFarewells, UNCHANGED <<op, directory, participant, subs>>,
         pipe' = pipe \/ \E m \in MasterMessage : pipe' = Pub(pipe, "dm", m)
  PROVE  DirectoryFarewells'
<1>1. \A d \in Directory, a \in Agent : pipe'[d][a] = pipe[d][a]
  BY Names, PubPlaces DEF Typed, Published
<1>2. \A a \in Agent : home[a] \in Directory =>
        /\ Keeps(home[a], a, Shutdown) /\ Keeps(home[a], a, Disconnect)
        /\ pipe'[home[a]][a] = pipe[home[a]][a]
  BY <1>1 DEF Keeps
<1> QED BY <1>2, DirectoryFarewellsKept DEF directory, participant

(* Commands, if the master answers and no client's is published.           *)
LEMMA MasterCommandsKept ==
  ASSUME Typed, CommandsSent, CommandsPassed, UNCHANGED <<op, directory, participant, subs, due>>,
         request' = request \/ \E x \in Process : Answer(x),
         \/ pipe' = pipe
         \/ \E m \in MasterMessage : pipe' = Pub(pipe, "dm", m) /\ m.type # "START"
  PROVE  CommandsSent' /\ CommandsPassed'
<1> USE Names
<1>1. \A c \in Client : /\ request'[c].to # Nobody => request[c].to # Nobody
                        /\ request'[c].to = "dm" => request[c].to = "dm"
  BY DEF Answer
<1>2. \A c \in Client : Unsent(c)' => Unsent(c)
  BY <1>1 DEF Unsent, participant
<1>3. \A c \in Client, d \in Directory : Keeps("dm", d, Start(c))
  <2>1. CASE pipe' = pipe
    BY <2>1 DEF Keeps
  <2>2. ASSUME NEW m \in MasterMessage, pipe' = Pub(pipe, "dm", m), m.type # "START"
        PROVE  \A c \in Client, d \in Directory : Keeps("dm", d, Start(c))
    <3>1. \A c \in Client : Start(c) # m
      BY <2>2, DifferentMessages
    <3> QED BY <2>2, <3>1, PubKeeps DEF Typed, Published
  <2> QED BY <2>1, <2>2
<1>4. \A a \in Agent, d \in Directory : pipe'[d][a] = pipe[d][a]
  BY PubPlaces DEF Typed, Published
<1>5. CommandsSent'
  BY <1>1, <1>2, <1>3, CommandsSentKept DEF CommandsSent, participant
<1>6. \A a \in Agent, c \in Client : home[a] \in Directory =>
        Keeps(home[a], a, DoStart(c)) /\ Keeps("dm", home[a], Start(c))
  BY <1>3, <1>4 DEF Keeps
<1>7. CommandsPassed'
  BY <1>2, <1>6, CommandsPassedKept DEF directory, participant
<1> QED BY <1>5, <1>7

LEMMA MasterGetKeeps ==
  ASSUME BootstrapInv, UNCHANGED <<op, directory, participant, subs, pull>>,
         UNCHANGED <<mstate, directories, pipe, due>>, mstate = "running",
         NEW x \in Process, Answer(x),
         request[x].type = "GET_DIRECTORIES" => request'[x].reply = directories
  PROVE  /\ Connected' /\ DirectoriesKnown' /\ MasterFarewell' /\ DirectoryFarewells'
         /\ CommandsSent' /\ CommandsPassed'
<1> USE Names
<1>1. Connected' /\ DirectoryFarewells' /\ CommandsSent' /\ CommandsPassed'
  BY MasterConnected, MasterDirectoryFarewells, MasterCommandsKept DEF BootstrapInv
<1>2. MasterFarewell'
  BY DEF MasterFarewell
<1>3. DirectoriesKnown'
  <2> SUFFICES ASSUME NEW d \in Directory, NEW e \in Directory,
                      dstate'[d] = "joining", Answered(d, "GET_DIRECTORIES")', d # e
               PROVE  /\ e \in directories => e \in request'[d].reply \/ Has(pipe["dm"][d], JoinOf(e))
                      /\ e \in request'[d].reply => e \in directories \/ Has(pipe["dm"][d], LeaveOf(e))
    BY DEF BootstrapInv, DirectoriesKnown, directory
  <2>1. CASE d = x
    BY <2>1 DEF Answer, Answered
  <2>2. CASE d # x
    BY <2>2 DEF BootstrapInv, DirectoriesKnown, directory, Answer, Answered
  <2> QED BY <2>1, <2>2
<1> QED BY <1>1, <1>2, <1>3

(* A directory joins before it leaves, so none of its farewells waits.     *)
LEMMA MasterJoinKeeps ==
  ASSUME BootstrapInv, UNCHANGED <<op, directory, participant, subs, pull>>,
         UNCHANGED <<mstate, due>>, mstate = "running",
         NEW x \in Directory, Answer(x), request[x].type = "DIRECTORY_JOIN",
         directories' = directories \cup {x}, pipe' = Pub(pipe, "dm", JoinOf(x))
  PROVE  /\ Connected' /\ DirectoriesKnown' /\ MasterFarewell' /\ DirectoryFarewells'
         /\ CommandsSent' /\ CommandsPassed'
<1> USE Names
<1>1. JoinOf(x) \in MasterMessage /\ JoinOf(x).type = "DIRECTORY_JOIN" /\ JoinOf(x).of = x
  BY MessageTypes, DifferentMessages
<1>2. Connected' /\ DirectoryFarewells' /\ CommandsSent' /\ CommandsPassed'
  BY <1>1, MasterConnected, MasterDirectoryFarewells, MasterCommandsKept DEF BootstrapInv
<1>3. MasterFarewell'
  BY DEF MasterFarewell
<1>4. dstate[x] = "joining"
  BY DEF BootstrapInv, Typed, Asking, Answer
<1>5. \A d \in Directory : dstate[d] \in {"joining", "running"} => Has(pipe'["dm"][d], JoinOf(x))
  <2> TAKE d \in Directory
  <2> HAVE dstate[d] \in {"joining", "running"}
  <2>1. d \in subs["dm"] /\ Reads(d) /\ Wants(d, JoinOf(x))
    BY <1>1 DEF BootstrapInv, Connected, AgentConnected, Reads, Wants
  <2>2. pipe \in Pipes /\ JoinOf(x) \in Published("dm")
    BY <1>1 DEF BootstrapInv, Typed, Published
  <2> QED BY <2>1, <2>2, PubHas
<1>6. \A d, e \in Directory :
        /\ Has(pipe["dm"][d], JoinOf(e)) => Has(pipe'["dm"][d], JoinOf(e))
        /\ Has(pipe'["dm"][d], LeaveOf(e)) <=> Has(pipe["dm"][d], LeaveOf(e))
        /\ e # x /\ Followed(pipe["dm"][d], JoinOf(e), LeaveOf(e)) =>
             Followed(pipe'["dm"][d], JoinOf(e), LeaveOf(e))
  <2> TAKE d, e \in Directory
  <2>1. Has(pipe["dm"][d], JoinOf(e)) => Has(pipe'["dm"][d], JoinOf(e))
    <3>1. pipe \in Pipes /\ JoinOf(x) \in Published("dm")
      BY <1>1 DEF BootstrapInv, Typed, Published
    <3> QED BY <3>1, PubHas
  <2>2. Keeps("dm", d, LeaveOf(e))
    BY <1>1, DifferentMessages, PubKeeps DEF BootstrapInv, Typed, Published
  <2>3. e # x => KeepsFollowed("dm", d, JoinOf(e), LeaveOf(e))
    BY <1>1, DifferentMessages, PubKeeps DEF BootstrapInv, Typed, Published
  <2> QED BY <2>1, <2>2, <2>3 DEF Keeps, KeepsFollowed
<1>7. \A d \in Directory : Answered(d, "GET_DIRECTORIES")' =>
        Answered(d, "GET_DIRECTORIES") /\ request'[d] = request[d]
  BY DEF Answer, Answered
<1>8. DirectoriesKnown'
  <2> SUFFICES ASSUME NEW d \in Directory, NEW e \in Directory
               PROVE  /\ e \in directories' \/ Followed(pipe'["dm"][d], JoinOf(e), LeaveOf(e))
                      /\ Has(pipe'["dm"][d], LeaveOf(e)) =>
                           e \notin directories' /\ dstate'[e] \in {"leaving", "ended"}
                      /\ (dstate'[d] = "joining" /\ Answered(d, "GET_DIRECTORIES")' /\ d # e) =>
                           /\ e \in directories' => e \in request'[d].reply \/ Has(pipe'["dm"][d], JoinOf(e))
                           /\ e \in request'[d].reply => e \in directories' \/ Has(pipe'["dm"][d], LeaveOf(e))
                      /\ (dstate'[d] = "running" /\ d # e) =>
                           /\ e \in directories' => d \in subs'[e] \/ Has(pipe'["dm"][d], JoinOf(e))
                           /\ d \in subs'[e] => e \in directories' \/ Has(pipe'["dm"][d], LeaveOf(e))
    BY DEF DirectoriesKnown
  <2>1. CASE e = x
    <3>1. ~Has(pipe["dm"][d], LeaveOf(x))
      BY <1>4 DEF BootstrapInv, DirectoriesKnown
    <3> QED BY <1>5, <1>6, <2>1, <3>1 DEF directory
  <2>2. CASE e # x
    BY <1>6, <1>7, <2>2 DEF BootstrapInv, DirectoriesKnown, directory
  <2> QED BY <2>1, <2>2
<1> QED BY <1>2, <1>3, <1>8

(* A farewell goes to every directory that will ask or has asked for x.    *)
LEMMA MasterLeaveKeeps ==
  ASSUME BootstrapInv, UNCHANGED <<op, directory, participant, subs, pull>>,
         UNCHANGED <<mstate, due>>, mstate = "running",
         NEW x \in Directory, Answer(x), request[x].type = "DIRECTORY_LEAVE",
         directories' = directories \ {x}, pipe' = Pub(pipe, "dm", LeaveOf(x))
  PROVE  /\ Connected' /\ DirectoriesKnown' /\ MasterFarewell' /\ DirectoryFarewells'
         /\ CommandsSent' /\ CommandsPassed'
<1> USE Names
<1>1. LeaveOf(x) \in MasterMessage /\ LeaveOf(x).type = "DIRECTORY_LEAVE" /\ LeaveOf(x).of = x
  BY MessageTypes, DifferentMessages
<1>2. Connected' /\ DirectoryFarewells' /\ CommandsSent' /\ CommandsPassed'
  BY <1>1, MasterConnected, MasterDirectoryFarewells, MasterCommandsKept DEF BootstrapInv
<1>3. MasterFarewell'
  BY DEF MasterFarewell
<1>4. dstate[x] = "leaving"
  BY DEF BootstrapInv, Typed, Asking, Answer
<1>5. \A d \in Directory :
        /\ dstate[d] \in {"joining", "running"} => Has(pipe'["dm"][d], LeaveOf(x))
        /\ Followed(pipe'["dm"][d], JoinOf(x), LeaveOf(x))
  <2> TAKE d \in Directory
  <2>1. CASE dstate[d] \in {"joining", "running"}
    <3>1. d \in subs["dm"] /\ Reads(d) /\ Wants(d, LeaveOf(x))
      BY <1>1, <2>1 DEF BootstrapInv, Connected, AgentConnected, Reads, Wants
    <3>2. pipe \in Pipes /\ LeaveOf(x) \in Published("dm")
      BY <1>1 DEF BootstrapInv, Typed, Published
    <3>3. LeaveOf(x) # JoinOf(x)
      BY DifferentMessages
    <3> QED BY <3>1, <3>2, <3>3, PubHas
  <2>2. CASE dstate[d] \notin {"joining", "running"}
    <3>1. ~Reads(d)
      BY <2>2 DEF Reads, Participant
    <3>2. pipe'["dm"][d] = <<>>
      BY <1>1, <3>1, PubPlaces DEF BootstrapInv, Connected, AgentConnected, Typed, Published
    <3> QED BY <2>2, <3>2, EmptyQueue
  <2> QED BY <2>1, <2>2
<1>6. \A d, e \in Directory :
        /\ Has(pipe'["dm"][d], JoinOf(e)) <=> Has(pipe["dm"][d], JoinOf(e))
        /\ Has(pipe["dm"][d], LeaveOf(e)) => Has(pipe'["dm"][d], LeaveOf(e))
        /\ e # x /\ Has(pipe'["dm"][d], LeaveOf(e)) => Has(pipe["dm"][d], LeaveOf(e))
        /\ Followed(pipe["dm"][d], JoinOf(e), LeaveOf(e)) =>
             Followed(pipe'["dm"][d], JoinOf(e), LeaveOf(e))
  <2> TAKE d, e \in Directory
  <2>1. /\ Has(pipe["dm"][d], LeaveOf(e)) => Has(pipe'["dm"][d], LeaveOf(e))
        /\ e # x /\ Has(pipe'["dm"][d], LeaveOf(e)) => Has(pipe["dm"][d], LeaveOf(e))
    <3>1. pipe \in Pipes /\ LeaveOf(x) \in Published("dm")
      BY <1>1 DEF BootstrapInv, Typed, Published
    <3>2. LeaveOf(e) = LeaveOf(x) => e = x
      BY DifferentMessages
    <3> QED BY <3>1, <3>2, PubHas
  <2>2. Keeps("dm", d, JoinOf(e)) /\ KeepsFollowed("dm", d, JoinOf(e), LeaveOf(e))
    BY <1>1, DifferentMessages, PubKeeps DEF BootstrapInv, Typed, Published
  <2> QED BY <2>1, <2>2 DEF Keeps, KeepsFollowed
<1>7. \A d \in Directory : Answered(d, "GET_DIRECTORIES")' =>
        Answered(d, "GET_DIRECTORIES") /\ request'[d] = request[d]
  BY DEF Answer, Answered
<1>8. DirectoriesKnown'
  <2> SUFFICES ASSUME NEW d \in Directory, NEW e \in Directory
               PROVE  /\ e \in directories' \/ Followed(pipe'["dm"][d], JoinOf(e), LeaveOf(e))
                      /\ Has(pipe'["dm"][d], LeaveOf(e)) =>
                           e \notin directories' /\ dstate'[e] \in {"leaving", "ended"}
                      /\ (dstate'[d] = "joining" /\ Answered(d, "GET_DIRECTORIES")' /\ d # e) =>
                           /\ e \in directories' => e \in request'[d].reply \/ Has(pipe'["dm"][d], JoinOf(e))
                           /\ e \in request'[d].reply => e \in directories' \/ Has(pipe'["dm"][d], LeaveOf(e))
                      /\ (dstate'[d] = "running" /\ d # e) =>
                           /\ e \in directories' => d \in subs'[e] \/ Has(pipe'["dm"][d], JoinOf(e))
                           /\ d \in subs'[e] => e \in directories' \/ Has(pipe'["dm"][d], LeaveOf(e))
    BY DEF DirectoriesKnown
  <2>1. CASE e = x
    BY <1>4, <1>5, <2>1 DEF directory
  <2>2. CASE e # x
    BY <1>6, <1>7, <2>2 DEF BootstrapInv, DirectoriesKnown, directory
  <2> QED BY <2>1, <2>2
<1> QED BY <1>2, <1>3, <1>8

(* The other publications of the master name no directory.                 *)
LEMMA MasterOtherKnown ==
  ASSUME BootstrapInv, UNCHANGED <<op, directory, participant, subs, directories>>,
         request' = request \/ \E x \in Process : Answer(x) /\ request[x].type # "GET_DIRECTORIES",
         NEW m \in MasterMessage, m.type \in {"START", "SHUTDOWN"}, pipe' = Pub(pipe, "dm", m)
  PROVE  DirectoriesKnown'
<1> USE Names
<1>1. \A e : JoinOf(e) # m /\ LeaveOf(e) # m
  BY DifferentMessages
<1>2. \A d, e \in Directory :
        /\ Keeps("dm", d, JoinOf(e)) /\ Keeps("dm", d, LeaveOf(e))
        /\ KeepsFollowed("dm", d, JoinOf(e), LeaveOf(e))
  BY <1>1, PubKeeps DEF BootstrapInv, Typed, Published
<1>3. \A d \in Directory : Answered(d, "GET_DIRECTORIES")' => request'[d] = request[d]
  BY DEF Answer, Answered
<1> QED BY <1>2, <1>3, DirectoriesKnownKept DEF BootstrapInv, directory

(* A command: nothing of it is on its way yet, and it waits for every      *)
(* agent that is reached.                                                  *)
LEMMA MasterCommandKeeps ==
  ASSUME BootstrapInv, UNCHANGED <<op, directory, participant, subs, pull>>,
         UNCHANGED master, mstate = "running",
         NEW x \in Client, Answer(x), request[x].type = "START",
         pipe' = Pub(pipe, "dm", Start(x)), due' = due \cup (Reached \X {x})
  PROVE  /\ Connected' /\ DirectoriesKnown' /\ MasterFarewell' /\ DirectoryFarewells'
         /\ CommandsSent' /\ CommandsPassed'
<1> USE Names
<1>1. /\ Start(x) \in MasterMessage /\ Start(x).type = "START"
      /\ Start(x) \in Published("dm") /\ pipe \in Pipes
  BY MessageTypes, DifferentMessages DEF Published, BootstrapInv, Typed
<1>2. Connected' /\ DirectoryFarewells'
  BY <1>1, MasterConnected, MasterDirectoryFarewells DEF BootstrapInv
<1>3. MasterFarewell'
  BY DEF MasterFarewell, master
<1>4. DirectoriesKnown'
  BY <1>1, MasterOtherKnown DEF master
<1>5. /\ Unsent(x) /\ \A c \in Client : Unsent(c)' => Unsent(c) /\ c # x
      /\ \A c \in Client : request'[c].to # Nobody => request[c].to # Nobody
  <2>1. pstate[x] = "calling" /\ x # "dm"
    BY DEF BootstrapInv, CommandsSent, Answer
  <2> QED BY <2>1 DEF Unsent, Answer, participant
<1>6. \A d \in Directory, c \in Client : c # x => Keeps("dm", d, Start(c))
  BY <1>1, DifferentMessages, PubKeeps
<1>7. \A d \in Directory : ~Has(pipe["dm"][d], Start(x)) /\ Once(pipe'["dm"][d], Start(x))
  BY <1>1, <1>5, PubHas DEF BootstrapInv, CommandsSent
<1>8. CommandsSent'
  <2> SUFFICES ASSUME NEW c \in Client
               PROVE  /\ request'[c].to # Nobody => pstate'[c] = "calling"
                      /\ \A d \in Directory :
                           /\ Once(pipe'["dm"][d], Start(c))
                           /\ Unsent(c)' => ~Has(pipe'["dm"][d], Start(c))
    BY DEF CommandsSent
  <2>1. CASE c = x
    BY <1>5, <1>7, <2>1 DEF BootstrapInv, CommandsSent, participant
  <2>2. CASE c # x
    BY <1>5, <1>6, <2>2 DEF BootstrapInv, CommandsSent, participant, Keeps
  <2> QED BY <2>1, <2>2
<1>9. CommandsPassed'
  <2>1. \A a \in Agent, d \in Directory : pipe'[d][a] = pipe[d][a]
    BY <1>1, PubPlaces
  <2>2. ASSUME NEW a \in Reached
        PROVE  /\ home[a] \in Directory /\ dstate[home[a]] = "running"
               /\ Has(pipe'["dm"][home[a]], Start(x))
    <3>1. home[a] \in Directory /\ home[a] \in subs["dm"] /\ dstate[home[a]] = "running"
      BY DEF Reached, BootstrapInv, Typed, TypeOK
    <3>2. Reads(home[a]) /\ Wants(home[a], Start(x))
      BY <1>1, <3>1 DEF Reads, Wants
    <3> QED BY <1>1, <3>1, <3>2, PubHas
  <2>3. \A a \in Agent, c \in Client :
          <<a, c>> \in due' <=> <<a, c>> \in due \/ (a \in Reached /\ c = x)
    BY DEF Reached
  <2>4. \A a \in Agent, c \in Client : home[a] \in Directory =>
          /\ Once(pipe'[home[a]][a], DoStart(c)) <=> Once(pipe[home[a]][a], DoStart(c))
          /\ OnItsWay(a, c)' <=> OnItsWay(a, c)
          /\ Arrived(a, c)' <=> Arrived(a, c)
          /\ AtDirectory(a, c) => AtDirectory(a, c)'
          /\ c # x => (AtDirectory(a, c)' <=> AtDirectory(a, c))
    <3> TAKE a \in Agent, c \in Client
    <3> HAVE home[a] \in Directory
    <3>1. home' = home /\ got' = got /\ pipe'[home[a]][a] = pipe[home[a]][a]
      BY <2>1 DEF participant
    <3>2. AtDirectory(a, c) => AtDirectory(a, c)'
      BY <1>1, <3>1, PubHas DEF AtDirectory
    <3>3. c # x => (AtDirectory(a, c)' <=> AtDirectory(a, c))
      BY <1>6, <3>1 DEF AtDirectory, Keeps
    <3> QED BY <3>1, <3>2, <3>3 DEF OnItsWay, Arrived
  <2> SUFFICES ASSUME NEW a \in Agent, NEW c \in Client
               PROVE  /\ Once(got[a], c)
                      /\ Unsent(c)' => ~Arrived(a, c)' /\ <<a, c>> \notin due'
                      /\ <<a, c>> \in due' => home[a] \in Directory /\ dstate[home[a]] \notin {"down", "joining"}
                      /\ home[a] \in Directory =>
                           /\ Once(pipe'[home[a]][a], DoStart(c))
                           /\ Unsent(c)' => ~OnItsWay(a, c)'
                           /\ ~(AtDirectory(a, c)' /\ OnItsWay(a, c)')
                           /\ ~(AtDirectory(a, c)' /\ Arrived(a, c)')
                           /\ ~(OnItsWay(a, c)' /\ Arrived(a, c)')
                           /\ <<a, c>> \in due' /\ dstate[home[a]] = "running" =>
                                AtDirectory(a, c)' \/ OnItsWay(a, c)' \/ Arrived(a, c)'
    BY DEF CommandsPassed, CommandPassed, directory, participant
  <2>5. Arrived(a, c)' <=> Arrived(a, c)
    BY DEF Arrived, participant
  <2>6. CASE c = x
    <3>1. ~Arrived(a, c) /\ <<a, c>> \notin due /\ (home[a] \in Directory => ~OnItsWay(a, c))
      BY <1>5, <2>6 DEF BootstrapInv, CommandsPassed, CommandPassed
    <3>2. a \in Reached => home[a] \in Directory /\ dstate[home[a]] = "running" /\ AtDirectory(a, c)'
      BY <2>2, <2>6 DEF AtDirectory, participant
    <3> QED BY <1>5, <2>3, <2>4, <2>5, <2>6, <3>1, <3>2 DEF BootstrapInv, CommandsPassed, CommandPassed
  <2>7. CASE c # x
    BY <1>5, <2>3, <2>4, <2>5, <2>7 DEF BootstrapInv, CommandsPassed, CommandPassed
  <2> QED BY <2>6, <2>7
<1> QED BY <1>2, <1>3, <1>4, <1>8, <1>9

(* The farewell goes to every directory that runs or has joined.           *)
LEMMA MasterEndKeeps ==
  ASSUME BootstrapInv, UNCHANGED <<op, directory, participant, subs, pull>>,
         UNCHANGED <<directories, due>>, mstate' = "ended",
         pipe' = Pub(pipe, "dm", Shutdown),
         request' = request \/ \E x \in Process : Answer(x) /\ request[x].type = "SHUTDOWN"
  PROVE  /\ Connected' /\ DirectoriesKnown' /\ MasterFarewell' /\ DirectoryFarewells'
         /\ CommandsSent' /\ CommandsPassed'
<1> USE Names
<1>1. /\ Shutdown \in MasterMessage /\ Shutdown.type = "SHUTDOWN"
      /\ Shutdown \in Published("dm") /\ pipe \in Pipes
  BY MessageTypes, DifferentMessages DEF Published, BootstrapInv, Typed
<1>2. Connected' /\ DirectoryFarewells' /\ CommandsSent' /\ CommandsPassed'
  BY <1>1, MasterConnected, MasterDirectoryFarewells, MasterCommandsKept DEF BootstrapInv
<1>3. DirectoriesKnown'
  BY <1>1, MasterOtherKnown
<1>4. ASSUME NEW d \in Directory, dstate[d] \in {"joining", "running"}
      PROVE  Has(pipe'["dm"][d], Shutdown)
  <2>1. d \in subs["dm"] /\ Reads(d) /\ Wants(d, Shutdown)
    BY <1>1, <1>4 DEF BootstrapInv, Connected, AgentConnected, Reads, Wants
  <2> QED BY <1>1, <2>1, PubHas
<1>5. MasterFarewell'
  BY <1>4 DEF MasterFarewell, directory
<1> QED BY <1>2, <1>3, <1>5

LEMMA MasterKeeps ==
  ASSUME BootstrapInv, Master
  PROVE  BootstrapInv'
<1>1. Typed'
  BY MasterTyped DEF BootstrapInv
<1>2. /\ Connected' /\ DirectoriesKnown' /\ MasterFarewell' /\ DirectoryFarewells'
      /\ CommandsSent' /\ CommandsPassed'
  BY MasterSteps, MasterGetKeeps, MasterJoinKeeps, MasterLeaveKeeps, MasterCommandKeeps,
     MasterEndKeeps DEF BootstrapInv
<1> QED BY <1>1, <1>2 DEF BootstrapInv

-----------------------------------------------------------------------------
(* Every action of a directory keeps the invariant.                        *)

LEMMA SamePipe ==
  ASSUME pipe' = pipe, NEW s, NEW x
  PROVE  \A m, n : Keeps(s, x, m) /\ KeepsFollowed(s, x, m, n)
BY DEF Keeps, KeepsFollowed

(* What clients send does not depend on what directories do.               *)
LEMMA SameUnsent ==
  ASSUME CommandsSent, pstate' = pstate, \A c \in Client : request'[c] = request[c]
  PROVE  \A c \in Client : /\ Unsent(c)' => Unsent(c)
                           /\ request'[c].to # Nobody => pstate'[c] = "calling"
BY DEF Unsent, CommandsSent

LEMMA StartDirectoryKeeps ==
  ASSUME BootstrapInv, NEW d \in Directory, StartDirectory(d)
  PROVE  BootstrapInv'
<1> USE Names
<1>1. Typed'
  BY StartDirectoryTyped DEF BootstrapInv
<1>2. /\ dstate[d] = "down" /\ dstate'[d] = "joining"
      /\ \A e \in Directory : e # d => dstate'[e] = dstate[e]
      /\ subs' = [subs EXCEPT !["dm"] = @ \cup {d}] /\ pipe' = pipe
      /\ UNCHANGED <<op, master, participant, due>>
  BY DEF StartDirectory, BootstrapInv, Typed, TypeOK
<1>3. /\ \A y \in Process : y # d => request'[y] = request[y]
      /\ request'[d].to = "dm"
  <2>1. Asks(d, "dm", "DIRECTORY_JOIN") /\ "DIRECTORY_JOIN" \in RequestType
    BY DEF StartDirectory, RequestType
  <2> QED BY <2>1, AsksPlaces DEF BootstrapInv
<1>4. \A s \in Server : /\ s # "dm" => subs'[s] = subs[s]
                        /\ s = "dm" => subs'[s] = subs[s] \cup {d}
  BY <1>2 DEF BootstrapInv, Typed
<1>5. Connected'
  <2>1. \A x \in Process : Reads(x) => Reads(x)'
    BY <1>2 DEF Reads, participant
  <2>2. \A x \in Process, s \in Server : ~Reads(x)' => pipe'[s][x] = <<>>
    BY <1>2, <2>1 DEF BootstrapInv, Connected, AgentConnected
  <2>3. \A e \in Directory :
          /\ dstate'[e] # "down" => e \in subs'["dm"]
          /\ dstate'[e] \in {"down", "joining"} => \A f \in Directory : e \notin subs'[f]
    BY <1>2, <1>4 DEF BootstrapInv, Connected, AgentConnected
  <2> QED BY <1>2, <1>4, <2>2, <2>3 DEF BootstrapInv, Connected, AgentConnected, participant
<1>6. DirectoriesKnown'
  <2>1. \A e \in Directory : dstate'[e] = "joining" /\ Answered(e, "GET_DIRECTORIES")' =>
          dstate[e] = "joining" /\ request'[e] = request[e]
    BY <1>2, <1>3 DEF Answered
  <2> QED BY <1>2, <1>4, <2>1, SamePipe, DirectoriesKnownKept DEF BootstrapInv, master
<1>7. MasterFarewell'
  BY <1>2, <1>3, SamePipe, MasterFarewellKept DEF BootstrapInv, master
<1>8. DirectoryFarewells'
  BY <1>2, SamePipe, DirectoryFarewellsKept DEF BootstrapInv, participant
<1>9. CommandsSent' /\ CommandsPassed'
  BY <1>2, <1>3, SamePipe, SameUnsent, CommandsSentKept, CommandsPassedKept
     DEF BootstrapInv, participant
<1> QED BY <1>1, <1>5, <1>6, <1>7, <1>8, <1>9 DEF BootstrapInv

LEMMA AskPeersKeeps ==
  ASSUME BootstrapInv, NEW d \in Directory, AskPeers(d)
  PROVE  BootstrapInv'
<1> USE Names
<1>1. Typed'
  BY AskPeersTyped DEF BootstrapInv
<1>2. UNCHANGED <<op, master, directory, participant, subs, pipe, due>>
  BY DEF AskPeers
<1>3. /\ \A y \in Process : y # d => request'[y] = request[y]
      /\ request'[d].to = "dm"
  <2>1. Asks(d, "dm", "GET_DIRECTORIES") /\ "GET_DIRECTORIES" \in RequestType
    BY DEF AskPeers, RequestType
  <2> QED BY <2>1, AsksPlaces DEF BootstrapInv
<1>4. Connected'
  BY <1>2, ConnectedKept DEF BootstrapInv, directory, participant
<1>5. DirectoriesKnown'
  <2>1. \A e \in Directory : Answered(e, "GET_DIRECTORIES")' => request'[e] = request[e]
    BY <1>3 DEF Answered
  <2> QED BY <1>2, <2>1, SamePipe, DirectoriesKnownKept DEF BootstrapInv, master, directory, Answered
<1>6. MasterFarewell'
  BY <1>2, <1>3, SamePipe, MasterFarewellKept DEF BootstrapInv, master, directory
<1>7. DirectoryFarewells'
  BY <1>2, SamePipe, DirectoryFarewellsKept DEF BootstrapInv, participant, directory
<1>8. CommandsSent' /\ CommandsPassed'
  BY <1>2, <1>3, SamePipe, SameUnsent, CommandsSentKept, CommandsPassedKept
     DEF BootstrapInv, participant, directory
<1> QED BY <1>1, <1>4, <1>5, <1>6, <1>7, <1>8 DEF BootstrapInv

(* The directory is connected to the directories of its answer, and to no  *)
(* other one.                                                              *)
LEMMA JoinPeersKeeps ==
  ASSUME BootstrapInv, NEW d \in Directory, JoinPeers(d)
  PROVE  BootstrapInv'
<1> USE Names
<1>1. Typed'
  BY JoinPeersTyped DEF BootstrapInv
<1>2. /\ dstate[d] = "joining" /\ dstate'[d] = "running" /\ Answered(d, "GET_DIRECTORIES")
      /\ \A e \in Directory : e # d => dstate'[e] = dstate[e]
      /\ \A s \in Server : subs'[s] = IF s \in request[d].reply \ {d} THEN subs[s] \cup {d} ELSE subs[s]
      /\ pipe' = pipe /\ UNCHANGED <<op, master, participant, due>>
  BY DEF JoinPeers, BootstrapInv, Typed, TypeOK
<1>3. /\ \A y \in Process : y # d => request'[y] = request[y]
      /\ request'[d].to = Nobody /\ request[d].to = d
      /\ request[d].reply \subseteq Directory
  BY <1>2, IdlePlaces DEF JoinPeers, Answered, BootstrapInv, Typed, Asking
<1>4. \A s \in Server : /\ \A x : x # d => (x \in subs'[s] <=> x \in subs[s])
                        /\ d \in subs'[s] <=> d \in subs[s] \/ s \in request[d].reply \ {d}
  <2> TAKE s \in Server
  <2>1. CASE s \in request[d].reply \ {d}
    <3>1. subs'[s] = subs[s] \cup {d}
      BY <1>2, <2>1
    <3> QED BY <2>1, <3>1
  <2>2. CASE s \notin request[d].reply \ {d}
    <3>1. subs'[s] = subs[s]
      BY <1>2, <2>2
    <3> QED BY <2>2, <3>1
  <2> QED BY <2>1, <2>2
<1>5. Connected'
  <2>1. \A x \in Process : Reads(x) <=> Reads(x)'
    BY <1>2 DEF Reads, participant
  <2>2. \A e \in Directory :
          /\ dstate'[e] # "down" => e \in subs'["dm"]
          /\ dstate'[e] \in {"down", "joining"} => \A f \in Directory : e \notin subs'[f]
    BY <1>2, <1>4 DEF BootstrapInv, Connected, AgentConnected
  <2>3. \A a \in Agent, s \in Server : a \in subs'[s] <=> a \in subs[s]
    BY <1>2
  <2> QED BY <1>2, <2>1, <2>2, <2>3 DEF BootstrapInv, Connected, AgentConnected, participant
<1>6. DirectoriesKnown'
  <2> SUFFICES ASSUME NEW f \in Directory, NEW e \in Directory
               PROVE  /\ e \in directories \/ Followed(pipe["dm"][f], JoinOf(e), LeaveOf(e))
                      /\ Has(pipe["dm"][f], LeaveOf(e)) =>
                           e \notin directories /\ dstate'[e] \in {"leaving", "ended"}
                      /\ (dstate'[f] = "joining" /\ Answered(f, "GET_DIRECTORIES")' /\ f # e) =>
                           /\ e \in directories => e \in request'[f].reply \/ Has(pipe["dm"][f], JoinOf(e))
                           /\ e \in request'[f].reply => e \in directories \/ Has(pipe["dm"][f], LeaveOf(e))
                      /\ (dstate'[f] = "running" /\ f # e) =>
                           /\ e \in directories => f \in subs'[e] \/ Has(pipe["dm"][f], JoinOf(e))
                           /\ f \in subs'[e] => e \in directories \/ Has(pipe["dm"][f], LeaveOf(e))
    BY <1>2 DEF DirectoriesKnown, master
  <2>1. CASE f = d
    <3>1. e # d => (d \in subs'[e] <=> e \in request[d].reply)
      <4>1. d \notin subs[e]
        BY <1>2 DEF BootstrapInv, Connected, AgentConnected
      <4> QED BY <1>4, <4>1
    <3> QED BY <1>2, <2>1, <3>1 DEF BootstrapInv, DirectoriesKnown
  <2>2. CASE f # d
    <3>1. f \in subs'[e] <=> f \in subs[e]
      BY <1>4, <2>2
    <3> QED BY <1>2, <1>3, <2>2, <3>1 DEF BootstrapInv, DirectoriesKnown, Answered
  <2> QED BY <2>1, <2>2
<1>7. MasterFarewell'
  BY <1>2, <1>3, SamePipe, MasterFarewellKept DEF BootstrapInv, master
<1>8. DirectoryFarewells'
  BY <1>2, SamePipe, DirectoryFarewellsKept DEF BootstrapInv, participant
<1>9. CommandsSent' /\ CommandsPassed'
  BY ZenonT(60), <1>2, <1>3, SamePipe, SameUnsent, CommandsSentKept, CommandsPassedKept
     DEF BootstrapInv, participant
<1> QED BY <1>1, <1>5, <1>6, <1>7, <1>8, <1>9 DEF BootstrapInv

(* A step of a directory that changes nothing but what is published, and   *)
(* that neither publishes nor takes a message the invariant is about.      *)
Quiet ==
  /\ UNCHANGED <<op, master, request, dstate, participant, subs, due>>
  /\ \A x \in Process, s \in Server : ~Reads(x) => pipe'[s][x] = pipe[s][x]
  /\ \A d \in Directory :
       /\ Keeps("dm", d, Shutdown)
       /\ \A e \in Directory : /\ Keeps("dm", d, JoinOf(e)) /\ Keeps("dm", d, LeaveOf(e))
                               /\ KeepsFollowed("dm", d, JoinOf(e), LeaveOf(e))
       /\ \A a \in Agent :
            /\ Keeps(d, a, Shutdown) /\ Keeps(d, a, Disconnect)
            /\ dstate[d] = "ended" => pipe'[d][a] = pipe[d][a]

LEMMA QuietKeeps ==
  ASSUME BootstrapInv, Quiet
  PROVE  Connected' /\ DirectoriesKnown' /\ MasterFarewell' /\ DirectoryFarewells'
<1> USE Names DEF Quiet
<1>1. Connected'
  BY ConnectedKept DEF BootstrapInv, participant
<1>2. DirectoriesKnown'
  BY DirectoriesKnownKept DEF BootstrapInv, master
<1>3. MasterFarewell'
  BY MasterFarewellKept DEF BootstrapInv, master
<1>4. DirectoryFarewells'
  BY DirectoryFarewellsKept DEF BootstrapInv, participant
<1> QED BY <1>1, <1>2, <1>3, <1>4

LEMMA QuietCommands ==
  ASSUME BootstrapInv, Quiet,
         \A c \in Client, d \in Directory :
           Keeps("dm", d, Start(c)) /\ \A a \in Agent : Keeps(d, a, DoStart(c))
  PROVE  CommandsSent' /\ CommandsPassed'
<1> USE Names DEF Quiet
<1>1. /\ \A c \in Client : Unsent(c)' => Unsent(c)
      /\ \A c \in Client : request'[c].to # Nobody => pstate'[c] = "calling"
  BY DEF Unsent, BootstrapInv, CommandsSent, participant
<1>2. CommandsSent'
  BY <1>1, CommandsSentKept DEF BootstrapInv
<1>3. CommandsPassed'
  BY <1>1, CommandsPassedKept DEF BootstrapInv, participant
<1> QED BY <1>2, <1>3

(* A directory publishes, maybe because of a message.                      *)
LEMMA PublishQuiet ==
  ASSUME BootstrapInv, Typed', NEW d \in Directory, dstate[d] = "running",
         UNCHANGED <<op, master, request, dstate, participant, subs, due>>,
         NEW m \in DirectoryMessage, m.type \in {"AGENT_JOIN", "DIRECTORY_UPDATE"},
         \/ pipe' = pipe
         \/ pipe' = Pub(pipe, d, m)
         \/ \E s \in Server : /\ pipe[s][d] # <<>> /\ Head(pipe[s][d]).type = "AGENT_JOIN"
                              /\ pipe' = Taken(s, d) \/ pipe' = Pub(Taken(s, d), d, m)
  PROVE  BootstrapInv'
<1> USE Names
<1>1. pipe \in Pipes /\ m \in Published(d)
  BY DEF BootstrapInv, Typed, Published
<1>2. \A x \in Process, s \in Server : ~Reads(x) \/ (s \in Directory /\ s # d /\ x # d) => pipe'[s][x] = pipe[s][x]
  <2>1. Reads(d)
    BY DEF Reads
  <2>2. CASE pipe' = Pub(pipe, d, m)
    BY <1>1, <2>2, PubPlaces
  <2>3. ASSUME NEW s \in Server, pipe[s][d] # <<>>,
               pipe' = Taken(s, d) \/ pipe' = Pub(Taken(s, d), d, m)
        PROVE  \A x \in Process, t \in Server :
                 ~Reads(x) \/ (t \in Directory /\ t # d /\ x # d) => pipe'[t][x] = pipe[t][x]
    <3>1. /\ Taken(s, d) \in Pipes
          /\ \A x \in Process, t \in Server : x # d => Taken(s, d)[t][x] = pipe[t][x]
      BY <1>1, <2>3, TakenPlaces
    <3>2. CASE pipe' = Taken(s, d)
      BY <2>1, <3>1, <3>2
    <3>3. CASE pipe' = Pub(Taken(s, d), d, m)
      BY <1>1, <2>1, <3>1, <3>3, PubPlaces
    <3> QED BY <2>3, <3>2, <3>3
  <2> QED BY <2>2, <2>3
<1>3. ASSUME NEW n, n.type \notin {"AGENT_JOIN", "DIRECTORY_UPDATE"}, NEW t \in Server, NEW x \in Process
      PROVE  Keeps(t, x, n) /\ \A k : KeepsFollowed(t, x, n, k)
  <2>1. n # m
    BY <1>3
  <2>2. CASE pipe' = pipe
    BY <2>2, SamePipe
  <2>3. CASE pipe' = Pub(pipe, d, m)
    BY <1>1, <2>1, <2>3, PubKeeps
  <2>4. ASSUME NEW s \in Server, pipe[s][d] # <<>>, Head(pipe[s][d]).type = "AGENT_JOIN",
               pipe' = Taken(s, d) \/ pipe' = Pub(Taken(s, d), d, m)
        PROVE  Keeps(t, x, n) /\ \A k : KeepsFollowed(t, x, n, k)
    <3>1. n # Head(pipe[s][d])
      BY <1>3, <2>4
    <3>2. CASE pipe' = Taken(s, d)
      BY <1>1, <2>4, <3>1, <3>2, TakenKeeps
    <3>3. CASE pipe' = Pub(Taken(s, d), d, m)
      BY <1>1, <2>1, <2>4, <3>1, <3>3, TakenPubKeeps
    <3> QED BY <2>4, <3>2, <3>3
  <2> QED BY <2>2, <2>3, <2>4
<1>4. Quiet
  BY <1>2, <1>3, DifferentMessages DEF Quiet
<1>5. \A c \in Client, e \in Directory :
           Keeps("dm", e, Start(c)) /\ \A a \in Agent : Keeps(e, a, DoStart(c))
  BY <1>3, DifferentMessages
<1> QED BY <1>4, <1>5, QuietKeeps, QuietCommands DEF BootstrapInv

LEMMA HeartbeatKeeps ==
  ASSUME BootstrapInv, NEW d \in Directory, Heartbeat(d)
  PROVE  BootstrapInv'
<1> DEFINE m == [type |-> "DIRECTORY_UPDATE", changed |-> notify[d] = "changed", agents |-> agents[d]]
<1>1. m \in DirectoryMessage /\ m.type = "DIRECTORY_UPDATE"
  BY DEF BootstrapInv, Typed, TypeOK, DirectoryMessage
<1>2. pipe' = Pub(pipe, d, m)
  BY DEF Heartbeat
<1> HIDE DEF m
<1>3. Typed'
  BY HeartbeatTyped DEF BootstrapInv
<1> QED BY <1>1, <1>2, <1>3, PublishQuiet DEF Heartbeat

LEMMA RecvPushedKeeps ==
  ASSUME BootstrapInv, NEW d \in Directory, RecvPushed(d)
  PROVE  BootstrapInv'
<1> USE Names
<1>1. PICK p \in Participant :
        /\ home[p] = d /\ pull[p] # <<>>
        /\ \/ Head(pull[p]) = "AGENT_JOIN" /\ AgentJoined(d, p, pipe)
           \/ UNCHANGED <<subs, dstate, agents, pipe>>
  BY DEF RecvPushed
<1>2. Typed'
  BY RecvPushedTyped DEF BootstrapInv
<1>3. Head(pull[p]) = "AGENT_JOIN" => p \in Agent
  <2>1. p \in Client => pull[p] \in Seq({"NEED_DIRECTORY"})
    BY DEF BootstrapInv, Typed, Pulls
  <2> QED BY <1>1, <2>1, TailPlaces DEF Participant
<1>4. UNCHANGED <<op, master, request, participant, due>> /\ dstate[d] = "running"
  BY DEF RecvPushed
<1>5. CASE UNCHANGED <<subs, dstate, agents, pipe>>
  <2>1. \A x, s, m, n : Keeps(s, x, m) /\ KeepsFollowed(s, x, m, n)
    BY <1>5, SamePipe
  <2>2. Quiet
    BY <1>4, <1>5, <2>1 DEF Quiet
  <2> QED BY <1>2, <2>1, <2>2, QuietKeeps, QuietCommands DEF BootstrapInv
<1>6. CASE Head(pull[p]) = "AGENT_JOIN" /\ AgentJoined(d, p, pipe)
  <2> DEFINE m == [type |-> "AGENT_JOIN", of |-> p]
  <2>1. m \in DirectoryMessage /\ m.type = "AGENT_JOIN"
    BY <1>3, <1>6 DEF DirectoryMessage
  <2>2. pipe' = pipe \/ pipe' = Pub(pipe, d, m)
    BY <1>6 DEF AgentJoined
  <2>3. UNCHANGED <<subs, dstate>>
    BY <1>6 DEF AgentJoined
  <2> HIDE DEF m
  <2> QED BY <1>2, <1>4, <2>1, <2>2, <2>3, PublishQuiet
<1> QED BY <1>1, <1>5, <1>6

(* A directory that reads no more, by a signal or an exception.            *)
LEMMA StopsReadingKeeps ==
  ASSUME BootstrapInv, Typed', NEW d \in Directory, dstate[d] = "running",
         dstate'[d] \in {"leaving", "thrown"},
         \A e \in Directory : e # d => dstate'[e] = dstate[e],
         \A y \in Process : y # d => request'[y] = request[y],
         \A s \in Server, y \in Process : pipe'[s][y] = IF y = d THEN <<>> ELSE pipe[s][y],
         UNCHANGED <<op, master, participant, subs, due>>
  PROVE  BootstrapInv'
<1> USE Names
<1>1. Connected'
  <2>1. \A x \in Process : x # d => (Reads(x) <=> Reads(x)')
    BY DEF Reads, participant
  <2>2. \A x \in Process, s \in Server : ~Reads(x)' => pipe'[s][x] = <<>>
    BY <2>1 DEF BootstrapInv, Connected, AgentConnected
  <2>3. \A e \in Directory :
          /\ dstate'[e] # "down" => e \in subs["dm"]
          /\ dstate'[e] \in {"down", "joining"} => \A f \in Directory : e \notin subs[f]
    BY DEF BootstrapInv, Connected, AgentConnected
  <2> QED BY <2>2, <2>3 DEF BootstrapInv, Connected, AgentConnected, participant
<1>2. \A s \in Server, y \in Process : y # d => \A m, n : Keeps(s, y, m) /\ KeepsFollowed(s, y, m, n)
  BY DEF Keeps, KeepsFollowed
<1>3. DirectoriesKnown'
  <2>1. \A e \in Directory :
          /\ dstate[e] \in {"leaving", "ended"} => dstate'[e] \in {"leaving", "ended"}
          /\ dstate'[e] = "running" => dstate[e] = "running"
          /\ dstate'[e] = "joining" => dstate[e] = "joining" /\ request'[e] = request[e]
    OBVIOUS
  <2>2. \A e \in Directory :
           \/ dstate'[e] \notin {"joining", "running"} /\ pipe'["dm"][e] = <<>>
           \/ \A f \in Directory :
                /\ Keeps("dm", e, JoinOf(f)) /\ Keeps("dm", e, LeaveOf(f))
                /\ KeepsFollowed("dm", e, JoinOf(f), LeaveOf(f))
    BY <1>2
  <2> QED BY <2>1, <2>2, DirectoriesKnownKept DEF BootstrapInv, master
<1>4. MasterFarewell'
  BY <1>2, MasterFarewellKept DEF BootstrapInv, master
<1>5. DirectoryFarewells'
  <2>1. \A e \in Directory : dstate'[e] = "ended" <=> dstate[e] = "ended"
    OBVIOUS
  <2>2. \A a \in Agent, s \in Server : pipe'[s][a] = pipe[s][a] /\ a # d
    OBVIOUS
  <2> QED BY <1>2, <2>1, <2>2, DirectoryFarewellsKept DEF BootstrapInv, participant
<1>6. CommandsSent'
  BY <1>2, SameUnsent, CommandsSentKept DEF BootstrapInv, participant
<1>7. CommandsPassed'
  <2>1. \A e \in Directory :
           /\ dstate'[e] \in {"down", "joining"} => dstate[e] \in {"down", "joining"}
           /\ dstate'[e] = "running" => dstate[e] \in {"joining", "running"}
    OBVIOUS
  <2>2. \A a \in Agent, c \in Client : home[a] \in Directory =>
           /\ Keeps(home[a], a, DoStart(c))
           /\ Keeps("dm", home[a], Start(c))
              \/ (dstate'[home[a]] # "running" /\ pipe'["dm"][home[a]] = <<>>)
    BY <1>2
  <2>3. \A c \in Client : Unsent(c)' => Unsent(c)
    BY SameUnsent DEF BootstrapInv, participant
  <2> QED BY <2>1, <2>2, <2>3, CommandsPassedKept DEF BootstrapInv, participant
<1> QED BY <1>1, <1>3, <1>4, <1>5, <1>6, <1>7 DEF BootstrapInv

LEMMA LeaveKeeps ==
  ASSUME BootstrapInv, NEW d \in Directory, Leave(d)
  PROVE  BootstrapInv'
<1> USE Names
<1>1. Typed'
  BY LeaveTyped DEF BootstrapInv
<1>2. /\ dstate[d] = "running" /\ dstate'[d] = "leaving"
      /\ \A e \in Directory : e # d => dstate'[e] = dstate[e]
      /\ UNCHANGED <<op, master, participant, subs, due>>
  BY DEF Leave, BootstrapInv, Typed, TypeOK
<1>3. \A y \in Process : y # d => request'[y] = request[y]
  <2>1. Asks(d, "dm", "DIRECTORY_LEAVE") /\ "DIRECTORY_LEAVE" \in RequestType
    BY DEF Leave, RequestType
  <2> QED BY <2>1, AsksPlaces DEF BootstrapInv
<1>4. \A s \in Server, y \in Process : pipe'[s][y] = IF y = d THEN <<>> ELSE pipe[s][y]
  BY ClosedPlaces DEF Leave, BootstrapInv, Typed
<1> QED BY <1>1, <1>2, <1>3, <1>4, StopsReadingKeeps

(* A directory that ends has its farewell sent to all of its agents.       *)
LEMMA EndsKeeps ==
  ASSUME BootstrapInv, Typed', NEW d \in Directory, dstate[d] \in {"running", "leaving"},
         dstate'[d] = "ended",
         \A e \in Directory : e # d => dstate'[e] = dstate[e],
         \A y \in Process : y # d => request'[y] = request[y],
         NEW m \in {Shutdown, Disconnect},
         \A s \in Server, y \in Process :
           pipe'[s][y] = IF y = d THEN <<>> ELSE Pub(pipe, d, m)[s][y],
         UNCHANGED <<op, master, participant, subs, due>>
  PROVE  BootstrapInv'
<1> USE Names
<1>1. /\ pipe \in Pipes /\ m \in Published(d) /\ m.type \in {"SHUTDOWN", "DISCONNECT"}
      /\ \A a \in Agent : Wants(a, m)
  BY MessageTypes, DifferentMessages DEF BootstrapInv, Typed, Published, Wants
<1>2. \A s \in Server, y \in Process :
        ~Reads(y) \/ (y # d /\ s # d) => pipe'[s][y] = pipe[s][y]
  BY <1>1, PubPlaces DEF BootstrapInv, Connected, AgentConnected
<1>3. \A s \in Server, y \in Process : y # d => \A n : n # m => Keeps(s, y, n)
  <2> TAKE s \in Server, y \in Process
  <2> HAVE y # d
  <2>1. \A n : n # m => /\ Has(Pub(pipe, d, m)[s][y], n) <=> Has(pipe[s][y], n)
                        /\ Once(pipe[s][y], n) => Once(Pub(pipe, d, m)[s][y], n)
    BY SMTT(30), <1>1, PubHas
  <2> QED BY <2>1 DEF Keeps
<1>4. \A e \in Directory : e # d => \A n, k : Keeps("dm", e, n) /\ KeepsFollowed("dm", e, n, k)
  BY <1>2 DEF Keeps, KeepsFollowed
<1>5. Connected'
  <2>1. \A x \in Process : x # d => (Reads(x) <=> Reads(x)')
    BY DEF Reads, participant
  <2>2. \A x \in Process, s \in Server : ~Reads(x)' => pipe'[s][x] = <<>>
    BY <1>2, <2>1 DEF BootstrapInv, Connected, AgentConnected
  <2>3. \A e \in Directory :
          /\ dstate'[e] # "down" => e \in subs["dm"]
          /\ dstate'[e] \in {"down", "joining"} => \A f \in Directory : e \notin subs[f]
    BY DEF BootstrapInv, Connected, AgentConnected
  <2> QED BY <2>2, <2>3 DEF BootstrapInv, Connected, AgentConnected, participant
<1>6. DirectoriesKnown'
  <2>1. \A e \in Directory :
          /\ dstate[e] \in {"leaving", "ended"} => dstate'[e] \in {"leaving", "ended"}
          /\ dstate'[e] = "running" => dstate[e] = "running"
          /\ dstate'[e] = "joining" => dstate[e] = "joining" /\ request'[e] = request[e]
    OBVIOUS
  <2>2. \A e \in Directory :
           \/ dstate'[e] \notin {"joining", "running"} /\ pipe'["dm"][e] = <<>>
           \/ \A f \in Directory :
                /\ Keeps("dm", e, JoinOf(f)) /\ Keeps("dm", e, LeaveOf(f))
                /\ KeepsFollowed("dm", e, JoinOf(f), LeaveOf(f))
    BY <1>4
  <2> QED BY <2>1, <2>2, DirectoriesKnownKept DEF BootstrapInv, master
<1>7. MasterFarewell'
  BY <1>4, MasterFarewellKept DEF BootstrapInv, master
<1>8. DirectoryFarewells'
  <2> SUFFICES ASSUME NEW e \in Directory, NEW a \in Agent, home[a] = e
               PROVE  /\ dstate'[e] = "ended" /\ (pstate[a] = "ready" \/ (Reads(a)' /\ pipe'[e][a] # <<>>))
                           => Farewell(e, a)'
                      /\ Farewell(e, a)' \/ pstate[a] \in {"ended", "thrown"} => dstate'[e] = "ended"
    BY DEF DirectoryFarewells, FarewellSent, participant
  <2>1. a # d /\ (Reads(a)' <=> Reads(a)) /\ (pstate[a] = "ready" => Reads(a))
    BY DEF Reads, participant
  <2>2. CASE e = d
    <3>1. Reads(a) => a \in subs[d]
      BY <2>2 DEF Reads, BootstrapInv, Connected, AgentConnected
    <3>2. Reads(a) => Has(pipe'[d][a], m)
      BY <1>1, <2>1, <3>1, PubHas
    <3> QED BY <2>1, <2>2, <3>2 DEF Farewell
  <2>3. CASE e # d
    <3>1. pipe'[e][a] = pipe[e][a]
      BY <1>2, <2>1, <2>3
    <3> QED BY <2>1, <2>3, <3>1 DEF BootstrapInv, DirectoryFarewells, FarewellSent, Farewell
  <2> QED BY <2>2, <2>3
<1>9. CommandsSent'
  BY <1>4, SameUnsent, CommandsSentKept DEF BootstrapInv, participant
<1>10. CommandsPassed'
  <2>1. \A e \in Directory :
           /\ dstate'[e] \in {"down", "joining"} => dstate[e] \in {"down", "joining"}
           /\ dstate'[e] = "running" => dstate[e] \in {"joining", "running"}
    OBVIOUS
  <2>2. \A c \in Client : DoStart(c) # m
    BY <1>1, DifferentMessages
  <2>3. \A a \in Agent, c \in Client : home[a] \in Directory =>
           /\ Keeps(home[a], a, DoStart(c))
           /\ Keeps("dm", home[a], Start(c))
              \/ (dstate'[home[a]] # "running" /\ pipe'["dm"][home[a]] = <<>>)
    BY <1>3, <1>4, <2>2
  <2>4. \A c \in Client : Unsent(c)' => Unsent(c)
    BY SameUnsent DEF BootstrapInv, participant
  <2> QED BY <2>1, <2>3, <2>4, CommandsPassedKept DEF BootstrapInv, participant
<1> QED BY <1>5, <1>6, <1>7, <1>8, <1>9, <1>10 DEF BootstrapInv

LEMMA LeftKeeps ==
  ASSUME BootstrapInv, NEW d \in Directory, Left(d)
  PROVE  BootstrapInv'
<1> USE Names
<1>1. Typed'
  BY LeftTyped DEF BootstrapInv
<1>2. /\ dstate[d] = "leaving" /\ dstate'[d] = "ended"
      /\ \A e \in Directory : e # d => dstate'[e] = dstate[e]
      /\ pipe' = Pub(pipe, d, Disconnect)
      /\ UNCHANGED <<op, master, participant, subs, due>>
  BY DEF Left, Disconnect, BootstrapInv, Typed, TypeOK
<1>3. \A y \in Process : y # d => request'[y] = request[y]
  BY IdlePlaces DEF Left, BootstrapInv
<1>4. \A s \in Server, y \in Process :
        pipe'[s][y] = IF y = d THEN <<>> ELSE Pub(pipe, d, Disconnect)[s][y]
  <2>1. ~Reads(d)
    BY <1>2 DEF Reads, Participant
  <2>2. pipe \in Pipes /\ Disconnect \in Published(d)
    BY MessageTypes DEF BootstrapInv, Typed, Published
  <2> QED BY <1>2, <2>1, <2>2, PubPlaces DEF BootstrapInv, Connected, AgentConnected
<1> QED BY <1>1, <1>2, <1>3, <1>4, EndsKeeps

(* A directory connects to one that has joined, or disconnects from one    *)
(* that has left.  d reads the message that names e.                       *)
LEMMA PeersReadKeeps ==
  ASSUME BootstrapInv, Typed', NEW d \in Directory, dstate[d] = "running",
         NEW e \in Directory, pipe["dm"][d] # <<>>, pipe' = Taken("dm", d),
         Head(pipe["dm"][d]) \in {JoinOf(e), LeaveOf(e)},
         \A s \in Server, x \in Process : x # d \/ s # e => (x \in subs'[s] <=> x \in subs[s]),
         e # d => (d \in subs'[e] <=> Head(pipe["dm"][d]) = JoinOf(e)),
         UNCHANGED <<op, master, request, dstate, participant, due>>
  PROVE  BootstrapInv'
<1> USE Names
<1> DEFINE head == Head(pipe["dm"][d])
<1>1. pipe \in Pipes /\ "dm" \in Server /\ head \in {JoinOf(e), LeaveOf(e)}
  BY DEF BootstrapInv, Typed
<1>2. head.type \in {"DIRECTORY_JOIN", "DIRECTORY_LEAVE"} /\ head.of = e
  BY <1>1, DifferentMessages
<1>3. \A s \in Server, x \in Process : \A n, k :
        /\ s # "dm" \/ x # d \/ n # head => Keeps(s, x, n)
        /\ KeepsFollowed(s, x, n, k)
  BY <1>1, TakenKeeps
<1>4. \A s \in Server, x \in Process : s # "dm" \/ x # d => pipe'[s][x] = pipe[s][x]
  BY <1>1, TakenPlaces
<1>5. /\ \A n : Has(pipe["dm"][d], n) <=> n = head \/ Has(pipe'["dm"][d], n)
      /\ \A k : Followed(pipe["dm"][d], head, k) /\ head # k => Has(pipe'["dm"][d], k)
  <2>1. \A n : Has(pipe["dm"][d], n) <=> n = head \/ Has(pipe'["dm"][d], n)
    BY <1>1, TakenHas
  <2>2. \A k : Followed(pipe["dm"][d], head, k) /\ head # k => Has(pipe'["dm"][d], k)
    <3>1. pipe["dm"][d] \in Seq(Published("dm"))
      BY <1>1 DEF Pipes
    <3>2. pipe'["dm"][d] = Tail(pipe["dm"][d])
      BY <1>1, TakenPlaces
    <3> QED BY <3>1, <3>2, FollowedTail
  <2> QED BY <2>1, <2>2
<1> HIDE DEF head
<1>6. Connected'
  <2>1. \A x \in Process, s \in Server : ~Reads(x)' => pipe'[s][x] = <<>>
    BY <1>4 DEF Reads, BootstrapInv, Connected, AgentConnected, participant
  <2>2. \A x \in Directory : x \in subs'["dm"] <=> x \in subs["dm"]
    OBVIOUS
  <2>3. \A x, f \in Directory :
          dstate[x] \in {"down", "joining"} => (x \in subs'[f] <=> x \in subs[f])
    OBVIOUS
  <2>4. \A a \in Agent, s \in Server : a \in subs'[s] <=> a \in subs[s]
    OBVIOUS
  <2> QED BY <2>1, <2>2, <2>3, <2>4 DEF BootstrapInv, Connected, AgentConnected, participant
<1>7. DirectoriesKnown'
  <2> SUFFICES ASSUME NEW f \in Directory, NEW g \in Directory
               PROVE  /\ g \in directories \/ Followed(pipe'["dm"][f], JoinOf(g), LeaveOf(g))
                      /\ Has(pipe'["dm"][f], LeaveOf(g)) =>
                           g \notin directories /\ dstate[g] \in {"leaving", "ended"}
                      /\ (dstate[f] = "joining" /\ Answered(f, "GET_DIRECTORIES") /\ f # g) =>
                           /\ g \in directories => g \in request[f].reply \/ Has(pipe'["dm"][f], JoinOf(g))
                           /\ g \in request[f].reply => g \in directories \/ Has(pipe'["dm"][f], LeaveOf(g))
                      /\ (dstate[f] = "running" /\ f # g) =>
                           /\ g \in directories => f \in subs'[g] \/ Has(pipe'["dm"][f], JoinOf(g))
                           /\ f \in subs'[g] => g \in directories \/ Has(pipe'["dm"][f], LeaveOf(g))
    BY DEF DirectoriesKnown, master, Answered
  <2>1. CASE f # d
    <3>1. pipe'["dm"][f] = pipe["dm"][f] /\ (f \in subs'[g] <=> f \in subs[g])
      BY <1>4, <2>1
    <3> QED BY <3>1 DEF BootstrapInv, DirectoriesKnown
  <2>2. CASE f = d /\ g # e
    <3>1. head # JoinOf(g) /\ head # LeaveOf(g)
      BY <1>2, <2>2, DifferentMessages
    <3>2. f \in subs'[g] <=> f \in subs[g]
      BY <2>2
    <3>3. KeepsFollowed("dm", d, JoinOf(g), LeaveOf(g))
      BY <1>3
    <3> QED BY <1>5, <2>2, <3>1, <3>2, <3>3 DEF BootstrapInv, DirectoriesKnown, KeepsFollowed
  <2>3. CASE f = d /\ g = e
    <3>1. KeepsFollowed("dm", d, JoinOf(e), LeaveOf(e))
      BY <1>3
    <3>2. CASE head = JoinOf(e)
      <4>1. JoinOf(e) # LeaveOf(e)
        BY DifferentMessages
      <4>2. e \in directories \/ Has(pipe'["dm"][d], LeaveOf(e))
        BY <1>5, <3>2, <4>1 DEF BootstrapInv, DirectoriesKnown
      <4> QED BY <1>5, <2>3, <3>1, <3>2, <4>1, <4>2
              DEF BootstrapInv, DirectoriesKnown, KeepsFollowed, head
    <3>3. CASE head = LeaveOf(e)
      <4>1. JoinOf(e) # LeaveOf(e)
        BY DifferentMessages
      <4>2. e \notin directories
        BY <1>5, <3>3 DEF BootstrapInv, DirectoriesKnown
      <4> QED BY <1>5, <2>3, <3>1, <3>3, <4>1, <4>2
              DEF BootstrapInv, DirectoriesKnown, KeepsFollowed, head
    <3> QED BY <1>1, <3>2, <3>3
  <2> QED BY <2>1, <2>2, <2>3
<1>8. MasterFarewell'
  <2>1. head # Shutdown
    BY <1>2, DifferentMessages
  <2> QED BY <1>3, <2>1, MasterFarewellKept DEF BootstrapInv, master
<1>9. DirectoryFarewells'
  BY <1>3, <1>4, DirectoryFarewellsKept DEF BootstrapInv, participant
<1>10. CommandsSent' /\ CommandsPassed'
  <2>1. \A c \in Client : head # Start(c)
    BY <1>2, DifferentMessages
  <2>2. CommandsSent'
    BY <1>3, <2>1, SameUnsent, CommandsSentKept DEF BootstrapInv, participant
  <2>3. CommandsPassed'
    BY <1>3, <2>1, SameUnsent, CommandsPassedKept DEF BootstrapInv, participant
  <2> QED BY <2>2, <2>3
<1> QED BY <1>6, <1>7, <1>8, <1>9, <1>10 DEF BootstrapInv

(* A command is passed on: it reaches the agents that wait for it, and it  *)
(* is the only one of its client.                                          *)
LEMMA PassedOnKeeps ==
  ASSUME BootstrapInv, Typed', NEW d \in Directory, dstate[d] = "running",
         NEW c \in Client, pipe["dm"][d] # <<>>, Head(pipe["dm"][d]) = Start(c),
         pipe' = Pub(Taken("dm", d), d, DoStart(c)),
         UNCHANGED <<op, master, request, directory, participant, subs, due>>
  PROVE  BootstrapInv'
<1> USE Names
<1>1. /\ pipe \in Pipes /\ Taken("dm", d) \in Pipes /\ "dm" \in Server
      /\ DoStart(c) \in Published(d) /\ DoStart(c).type = "DO_START" /\ Start(c).type = "START"
  BY TakenPlaces, MessageTypes, DifferentMessages DEF BootstrapInv, Typed, Published
<1>2. \A s \in Server, x \in Process : \A n, k :
        /\ (n # Start(c) \/ s # "dm" \/ x # d) /\ (n # DoStart(c) \/ s # d) => Keeps(s, x, n)
        /\ n # DoStart(c) => KeepsFollowed(s, x, n, k)
  BY <1>1, TakenPubKeeps
<1>3. \A s \in Server, x \in Process :
        ~Reads(x) \/ (s \in Directory /\ s # d) => pipe'[s][x] = pipe[s][x]
  <2>1. Reads(d)
    BY DEF Reads
  <2>2. \A s \in Server, x \in Process : x # d \/ s # "dm" => Taken("dm", d)[s][x] = pipe[s][x]
    BY <1>1, TakenPlaces
  <2> QED BY <1>1, <2>1, <2>2, PubPlaces
<1>4. Quiet
  <2>1. \A n : n.type \notin {"START", "DO_START"} =>
          \A s \in Server, x \in Process : Keeps(s, x, n) /\ \A k : KeepsFollowed(s, x, n, k)
    BY <1>1, <1>2
  <2> QED BY <1>3, <2>1, DifferentMessages DEF Quiet, directory
<1>5. Connected' /\ DirectoriesKnown' /\ MasterFarewell' /\ DirectoryFarewells'
  BY <1>4, QuietKeeps
<1>6. /\ Has(pipe["dm"][d], Start(c)) /\ ~Has(pipe'["dm"][d], Start(c))
      /\ Once(pipe'["dm"][d], Start(c))
  <2>1. Once(pipe["dm"][d], Start(c))
    BY DEF BootstrapInv, CommandsSent
  <2>2. pipe'["dm"][d] = Taken("dm", d)["dm"][d]
    BY <1>1, PubPlaces
  <2> QED BY <1>1, <2>1, <2>2, TakenHas
<1>7. ~Unsent(c) /\ \A k \in Client : Unsent(k)' <=> Unsent(k)
  BY <1>6 DEF BootstrapInv, CommandsSent, Unsent, participant
<1>8. \A k \in Client : k # c => Start(k) # Start(c) /\ DoStart(k) # DoStart(c)
  BY DifferentMessages
<1>9. \A k \in Client : Start(k) # DoStart(c)
  BY <1>1, DifferentMessages
<1>10. \A f \in Directory, k \in Client : f # d \/ k # c => Keeps("dm", f, Start(k))
  BY <1>2, <1>8, <1>9
<1>11. CommandsSent'
  <2> SUFFICES ASSUME NEW k \in Client, NEW f \in Directory
               PROVE  /\ Once(pipe'["dm"][f], Start(k))
                      /\ Unsent(k) => ~Has(pipe'["dm"][f], Start(k))
    BY <1>7 DEF BootstrapInv, CommandsSent, participant
  <2>1. CASE f = d /\ k = c
    BY <1>6, <2>1
  <2>2. CASE f # d \/ k # c
    BY <1>10, <2>2 DEF BootstrapInv, CommandsSent, Keeps
  <2> QED BY <2>1, <2>2
<1>12. CommandsPassed'
  <2> SUFFICES ASSUME NEW a \in Agent, NEW k \in Client, home[a] \in Directory
               PROVE  /\ Once(pipe'[home[a]][a], DoStart(k))
                      /\ Unsent(k) => ~OnItsWay(a, k)'
                      /\ ~(AtDirectory(a, k)' /\ OnItsWay(a, k)')
                      /\ ~(AtDirectory(a, k)' /\ Arrived(a, k))
                      /\ ~(OnItsWay(a, k)' /\ Arrived(a, k))
                      /\ <<a, k>> \in due /\ dstate[home[a]] = "running" =>
                           AtDirectory(a, k)' \/ OnItsWay(a, k)' \/ Arrived(a, k)
    BY <1>7 DEF BootstrapInv, CommandsPassed, CommandPassed, Arrived, participant, directory
  <2>1. CASE home[a] = d /\ k = c
    <3>1. AtDirectory(a, c)
      BY <1>6, <2>1 DEF AtDirectory
    <3>2. ~AtDirectory(a, c)'
      BY <1>6, <2>1 DEF AtDirectory, participant
    <3>3. ~OnItsWay(a, c) /\ ~Arrived(a, c) /\ Once(pipe[d][a], DoStart(c))
      BY <2>1, <3>1 DEF BootstrapInv, CommandsPassed, CommandPassed
    <3>4. Taken("dm", d)[d][a] = pipe[d][a]
      BY <1>1, TakenPlaces
    <3>5. /\ Once(pipe'[d][a], DoStart(c))
          /\ a \in subs[d] /\ Reads(a) /\ Wants(a, DoStart(c)) => Has(pipe'[d][a], DoStart(c))
      <4>1. Once(Taken("dm", d)[d][a], DoStart(c)) /\ ~Has(Taken("dm", d)[d][a], DoStart(c))
        BY <2>1, <3>3, <3>4 DEF OnItsWay
      <4>2. Once(pipe'[d][a], DoStart(c))
        BY <1>1, <4>1, PubHas
      <4>3. a \in subs[d] /\ Reads(a) /\ Wants(a, DoStart(c)) => Has(pipe'[d][a], DoStart(c))
        BY <1>1, PubHas
      <4> QED BY <4>2, <4>3
    <3>6. pstate[a] \in {"waiting", "ready"}
      <4>1. pstate[a] \notin {"ended", "thrown"}
        BY <2>1 DEF BootstrapInv, DirectoryFarewells, FarewellSent
      <4>2. pstate[a] \notin {"down", "asking", "calling"}
        BY <2>1 DEF BootstrapInv, Connected, AgentConnected
      <4> QED BY <4>1, <4>2 DEF BootstrapInv, Typed, TypeOK
    <3>7. a \in subs[d] /\ Reads(a) /\ Wants(a, DoStart(c))
      BY <1>1, <2>1, <3>6 DEF BootstrapInv, Connected, AgentConnected, Reads, Wants
    <3>8. OnItsWay(a, c)'
      BY <2>1, <3>5, <3>7 DEF OnItsWay, participant
    <3> QED BY <1>7, <2>1, <3>2, <3>3, <3>5, <3>8
  <2>2. CASE home[a] # d \/ k # c
    <3>1. Keeps(home[a], a, DoStart(k))
      BY <1>1, <1>2, <1>8, <2>2, DifferentMessages
    <3>2. Keeps("dm", home[a], Start(k))
      BY <1>10, <2>2
    <3>3. /\ OnItsWay(a, k)' <=> OnItsWay(a, k)
          /\ AtDirectory(a, k)' <=> AtDirectory(a, k)
      BY <3>1, <3>2 DEF Keeps, OnItsWay, AtDirectory, participant
    <3> QED BY <3>1, <3>3 DEF BootstrapInv, CommandsPassed, CommandPassed, Keeps
  <2> QED BY <2>1, <2>2
<1> QED BY <1>5, <1>11, <1>12 DEF BootstrapInv

LEMMA RecvPublishedKeeps ==
  ASSUME BootstrapInv, NEW d \in Directory, RecvPublished(d)
  PROVE  BootstrapInv'
<1> USE Names
<1> DEFINE m(s) == Head(pipe[s][d])
           q(s) == Taken(s, d)
<1>1. PICK s \in Server :
        /\ pipe[s][d] # <<>>
        /\ \/ m(s).type = "DIRECTORY_JOIN" /\ PeerJoined(d, m(s).of) /\ pipe' = q(s)
           \/ m(s).type = "DIRECTORY_LEAVE" /\ PeerLeft(d, m(s).of, q(s))
           \/ m(s).type = "AGENT_JOIN" /\ AgentJoined(d, m(s).of, q(s))
           \/ m(s).type = "START" /\ PassedOn(d, m(s).of, q(s))
           \/ m(s).type = "SHUTDOWN" /\ Stopped(d, q(s))
  BY DEF RecvPublished
<1>2. Typed'
  BY RecvPublishedTyped DEF BootstrapInv
<1>3. UNCHANGED <<op, master, request, participant, pull, due>> /\ dstate[d] = "running"
  BY DEF RecvPublished
<1>4. /\ pipe \in Pipes /\ q(s) \in Pipes /\ m(s) \in Published(s)
      /\ \A t \in Server, y \in Process : y # d => q(s)[t][y] = pipe[t][y]
  BY <1>1, TakenPlaces DEF BootstrapInv, Typed
<1> HIDE DEF m, q
<1>5. /\ \A f \in Directory : [dstate EXCEPT ![d] = "thrown"][f] = IF f = d THEN "thrown" ELSE dstate[f]
      /\ \A f \in Directory : [dstate EXCEPT ![d] = "ended"][f] = IF f = d THEN "ended" ELSE dstate[f]
      /\ \A e \in Directory, t \in Server :
           /\ [subs EXCEPT ![e] = @ \cup {d}][t] = IF t = e THEN subs[t] \cup {d} ELSE subs[t]
           /\ [subs EXCEPT ![e] = @ \ {d}][t] = IF t = e THEN subs[t] \ {d} ELSE subs[t]
  BY DEF BootstrapInv, Typed, TypeOK
<1>6. CASE m(s).type = "DIRECTORY_JOIN" /\ PeerJoined(d, m(s).of) /\ pipe' = q(s)
  <2>1. s = "dm" /\ m(s).of \in Directory /\ m(s) = JoinOf(m(s).of)
    BY <1>4, <1>6, PublishedTypes
  <2>2. UNCHANGED <<dstate, agents, notify>>
        /\ subs' = IF m(s).of = d THEN subs ELSE [subs EXCEPT ![m(s).of] = @ \cup {d}]
    BY <1>6 DEF PeerJoined
  <2>3. /\ \A t \in Server, x \in Process : x # d \/ t # m(s).of => (x \in subs'[t] <=> x \in subs[t])
        /\ m(s).of # d => d \in subs'[m(s).of]
    <3>1. CASE m(s).of = d
      BY <2>2, <3>1
    <3>2. CASE m(s).of # d
      <4>1. \A t \in Server : subs'[t] = IF t = m(s).of THEN subs[t] \cup {d} ELSE subs[t]
        BY <1>5, <2>1, <2>2, <3>2
      <4> QED BY ZenonT(60), <2>1, <4>1
    <3> QED BY <3>1, <3>2
  <2>4. pipe["dm"][d] # <<>> /\ pipe' = Taken("dm", d) /\ Head(pipe["dm"][d]) = JoinOf(m(s).of)
    BY <1>1, <1>6, <2>1 DEF m, q
  <2> QED BY <1>2, <1>3, <2>1, <2>2, <2>3, <2>4, PeersReadKeeps
<1>7. CASE m(s).type = "DIRECTORY_LEAVE" /\ PeerLeft(d, m(s).of, q(s))
  <2>1. s = "dm" /\ m(s).of \in Directory /\ m(s) = LeaveOf(m(s).of)
    BY <1>4, <1>7, PublishedTypes
  <2>2. CASE d \in subs[m(s).of]
    <3>1. /\ subs' = [subs EXCEPT ![m(s).of] = @ \ {d}] /\ pipe' = q(s)
          /\ UNCHANGED <<dstate, agents, notify>>
      BY <1>7, <2>2 DEF PeerLeft
    <3>2. /\ \A t \in Server, x \in Process : x # d \/ t # m(s).of => (x \in subs'[t] <=> x \in subs[t])
          /\ d \notin subs'[m(s).of]
      <4>1. \A t \in Server : subs'[t] = IF t = m(s).of THEN subs[t] \ {d} ELSE subs[t]
        BY <1>5, <2>1, <3>1
      <4> QED BY <2>1, <4>1
    <3>3. pipe["dm"][d] # <<>> /\ pipe' = Taken("dm", d) /\ Head(pipe["dm"][d]) = LeaveOf(m(s).of)
      BY <1>1, <2>1, <3>1 DEF m, q
    <3>4. Head(pipe["dm"][d]) # JoinOf(m(s).of)
      BY <2>1, <3>3, DifferentMessages
    <3>5. d \in subs'[m(s).of] <=> Head(pipe["dm"][d]) = JoinOf(m(s).of)
      BY <3>2, <3>4
    <3>6. UNCHANGED <<op, master, request, dstate, participant, due>>
      BY <1>3, <3>1
    <3>7. PICK e \in Directory : e = m(s).of
      BY <2>1
    <3>8. /\ \A t \in Server, x \in Process : x # d \/ t # e => (x \in subs'[t] <=> x \in subs[t])
          /\ e # d => (d \in subs'[e] <=> Head(pipe["dm"][d]) = JoinOf(e))
          /\ Head(pipe["dm"][d]) \in {JoinOf(e), LeaveOf(e)}
      BY <3>2, <3>3, <3>5, <3>7
    <3> QED BY <1>2, <1>3, <3>3, <3>6, <3>8, PeersReadKeeps
  <2>3. CASE d \notin subs[m(s).of]
    <3>1. /\ dstate' = [dstate EXCEPT ![d] = "thrown"] /\ pipe' = Closed(q(s), d)
          /\ UNCHANGED <<subs, agents, notify>>
      BY <1>7, <2>3 DEF PeerLeft
    <3>2. \A t \in Server, y \in Process : pipe'[t][y] = IF y = d THEN <<>> ELSE pipe[t][y]
      BY <1>4, <3>1, ClosedPlaces
    <3> QED BY <1>2, <1>3, <1>5, <3>1, <3>2, StopsReadingKeeps
  <2> QED BY <2>2, <2>3
<1>8. CASE m(s).type = "AGENT_JOIN" /\ AgentJoined(d, m(s).of, q(s))
  <2> DEFINE n == [type |-> "AGENT_JOIN", of |-> m(s).of]
  <2>1. n \in DirectoryMessage /\ n.type = "AGENT_JOIN"
    BY <1>4, <1>8, PublishedTypes DEF DirectoryMessage
  <2>2. (pipe' = q(s) \/ pipe' = Pub(q(s), d, n)) /\ UNCHANGED <<subs, dstate>>
    BY <1>8 DEF AgentJoined
  <2> HIDE DEF n
  <2> QED BY <1>1, <1>2, <1>3, <1>8, <2>1, <2>2, PublishQuiet DEF m, q
<1>9. CASE m(s).type = "START" /\ PassedOn(d, m(s).of, q(s))
  <2>1. s = "dm" /\ m(s).of \in Client /\ m(s) = Start(m(s).of)
    BY <1>4, <1>9, PublishedTypes
  <2>2. pipe' = Pub(q(s), d, DoStart(m(s).of)) /\ UNCHANGED <<subs, directory>>
    BY <1>9 DEF PassedOn
  <2> QED BY <1>1, <1>2, <1>3, <2>1, <2>2, PassedOnKeeps DEF m, q
<1>10. CASE m(s).type = "SHUTDOWN" /\ Stopped(d, q(s))
  <2>1. /\ pipe' = Closed(Pub(q(s), d, Shutdown), d)
        /\ dstate' = [dstate EXCEPT ![d] = "ended"]
        /\ UNCHANGED <<subs, agents, notify>>
    BY <1>10 DEF Stopped
  <2>2. Shutdown \in Published(d)
    BY MessageTypes DEF Published
  <2>3. \A t \in Server, y \in Process :
          pipe'[t][y] = IF y = d THEN <<>> ELSE Pub(pipe, d, Shutdown)[t][y]
    <3>1. Pub(q(s), d, Shutdown) \in Pipes
      BY <1>4, <2>2, PubPlaces
    <3>2. \A t \in Server, y \in Process : y # d =>
            Pub(q(s), d, Shutdown)[t][y] = Pub(pipe, d, Shutdown)[t][y]
      BY <1>4, <2>2, PubPlaces
    <3> QED BY <2>1, <3>1, <3>2, ClosedPlaces
  <2> QED BY <1>2, <1>3, <1>5, <2>1, <2>3, EndsKeeps
<1> QED BY <1>1, <1>6, <1>7, <1>8, <1>9, <1>10

-----------------------------------------------------------------------------
(* Every action of a participant keeps the invariant.                      *)

(* A participant only changes what is said of itself.                      *)
LEMMA ParticipantKeeps ==
  ASSUME BootstrapInv, Typed', NEW p \in Participant,
         UNCHANGED <<op, master, directory, due>>,
         \A y \in Process : y # p => request'[y] = request[y],
         \A y \in Participant : y # p => pstate'[y] = pstate[y] /\ home'[y] = home[y],
         \A a \in Agent : a # p => got'[a] = got[a],
         \A s \in Server, y \in Process :
           y # p => (y \in subs'[s] <=> y \in subs[s]) /\ pipe'[s][y] = pipe[s][y],
         ~Reads(p)' => \A s \in Server : pipe'[s][p] = <<>>,
         p \in Agent => /\ AgentConnected(p)'
                        /\ \A d \in Directory : home'[p] = d => FarewellSent(d, p)'
                        /\ \A c \in Client : CommandPassed(p, c)',
         p \in Client => /\ request'[p].to # Nobody => pstate'[p] = "calling"
                         /\ Unsent(p)' => Unsent(p)
  PROVE  BootstrapInv'
<1> USE Names
<1>1. /\ \A y \in Process : y # p => (Reads(y)' <=> Reads(y))
      /\ \A y \in Agent : y # p => (Reads(y)' <=> Reads(y))
  BY DEF Reads, directory
<1>2. Connected'
  <2>1. \A x \in Process, s \in Server : ~Reads(x)' => pipe'[s][x] = <<>>
    BY <1>1 DEF BootstrapInv, Connected
  <2>2. \A d \in Directory, s \in Server : d \in subs'[s] <=> d \in subs[s]
    OBVIOUS
  <2>3. ASSUME NEW a \in Agent, a # p PROVE AgentConnected(a)'
    <3>1. /\ AgentConnected(a) /\ home'[a] = home[a] /\ pstate'[a] = pstate[a] /\ got'[a] = got[a]
          /\ \A s \in Server : a \in subs'[s] <=> a \in subs[s]
      BY <2>3 DEF BootstrapInv, Connected
    <3> QED BY <3>1 DEF AgentConnected
  <2> QED BY <2>1, <2>2, <2>3 DEF BootstrapInv, Connected, directory
<1>3. \A s \in Server, y \in Process : y # p => \A m, n : Keeps(s, y, m) /\ KeepsFollowed(s, y, m, n)
  BY DEF Keeps, KeepsFollowed
<1>4. DirectoriesKnown'
  <2>1. \A d \in Directory : request'[d] = request[d]
    OBVIOUS
  <2>2. \A d, e \in Directory : d \in subs'[e] <=> d \in subs[e]
    OBVIOUS
  <2>3. \A d, e \in Directory : /\ Keeps("dm", d, JoinOf(e)) /\ Keeps("dm", d, LeaveOf(e))
                                /\ KeepsFollowed("dm", d, JoinOf(e), LeaveOf(e))
    BY <1>3
  <2> QED BY <2>1, <2>2, <2>3, DirectoriesKnownKept DEF BootstrapInv, master, directory
<1>5. MasterFarewell'
  <2>1. \A d \in Directory : request'[d] = request[d] /\ Keeps("dm", d, Shutdown)
    BY <1>3
  <2> QED BY <2>1, MasterFarewellKept DEF BootstrapInv, master, directory
<1>6. DirectoryFarewells'
  <2> SUFFICES ASSUME NEW d \in Directory, NEW a \in Agent, home'[a] = d, a # p
               PROVE  FarewellSent(d, a)'
    BY DEF DirectoryFarewells
  <2>1. /\ FarewellSent(d, a) /\ pstate'[a] = pstate[a] /\ pipe'[d][a] = pipe[d][a]
        /\ Reads(a)' <=> Reads(a)
    BY <1>1 DEF BootstrapInv, DirectoryFarewells
  <2> QED BY <2>1 DEF FarewellSent, Farewell, directory
<1>7. \A c \in Client : Unsent(c)' => Unsent(c)
  BY DEF Unsent
<1>8. CommandsSent'
  <2>1. \A c \in Client, d \in Directory : Keeps("dm", d, Start(c))
    BY <1>3
  <2>2. \A c \in Client : request'[c].to # Nobody => pstate'[c] = "calling"
    BY DEF BootstrapInv, CommandsSent
  <2> QED BY <1>7, <2>1, <2>2, CommandsSentKept DEF BootstrapInv
<1>9. CommandsPassed'
  <2> SUFFICES ASSUME NEW a \in Agent, NEW c \in Client, a # p
               PROVE  CommandPassed(a, c)'
    BY DEF CommandsPassed
  <2>1. /\ home'[a] = home[a] /\ got'[a] = got[a]
        /\ home[a] \in Directory => /\ pipe'[home[a]][a] = pipe[home[a]][a]
                                    /\ pipe'["dm"][home[a]] = pipe["dm"][home[a]]
    OBVIOUS
  <2>2. CommandPassed(a, c)
    BY DEF BootstrapInv, CommandsPassed
  <2> QED BY <1>7, <2>1, <2>2 DEF CommandPassed, AtDirectory, OnItsWay, Arrived, directory
<1> QED BY <1>2, <1>4, <1>5, <1>6, <1>8, <1>9 DEF BootstrapInv

(* What an agent's part of the invariant depends on.                       *)
LEMMA AgentKept ==
  ASSUME BootstrapInv, NEW a \in Agent, UNCHANGED <<op, directory, due>>,
         pipe' = pipe, subs' = subs, home' = home, got' = got,
         \A c \in Client : Unsent(c)' => Unsent(c)
  PROVE  \A c \in Client : CommandPassed(a, c)'
BY DEF BootstrapInv, CommandsPassed, CommandPassed, AtDirectory, OnItsWay, Arrived, directory

LEMMA StartAgentKeeps ==
  ASSUME BootstrapInv, NEW a \in Agent, StartAgent(a)
  PROVE  BootstrapInv'
<1> USE Names
<1>1. Typed'
  BY StartAgentTyped DEF BootstrapInv
<1>2. \A y \in Process : y # a => request'[y] = request[y]
  <2>1. Asks(a, "dm", "GET_DIRECTORY") /\ "GET_DIRECTORY" \in RequestType
    BY DEF StartAgent, RequestType
  <2> QED BY <2>1, AsksPlaces DEF BootstrapInv
<1>3. /\ pstate[a] = "down" /\ pstate'[a] = "asking"
      /\ \A y \in Participant : y # a => pstate'[y] = pstate[y]
      /\ UNCHANGED <<op, master, directory, home, list, got, subs, pipe, pull, due>>
  BY DEF StartAgent, BootstrapInv, Typed, TypeOK
<1>4. home[a] = Nobody
  BY <1>3 DEF BootstrapInv, Connected, AgentConnected
<1>5. AgentConnected(a)'
  BY <1>3 DEF BootstrapInv, Connected, AgentConnected
<1>6. \A c \in Client : Unsent(c)' => Unsent(c)
  BY <1>2, <1>3 DEF Unsent
<1>7. \A c \in Client : CommandPassed(a, c)'
  BY <1>3, <1>6, AgentKept
<1>8. \A s \in Server : pipe'[s][a] = <<>>
  <2>1. ~Reads(a)
    BY <1>3 DEF Reads
  <2> QED BY <1>3, <2>1 DEF BootstrapInv, Connected
<1> QED BY <1>1, <1>2, <1>3, <1>4, <1>5, <1>7, <1>8, ParticipantKeeps

LEMMA NoDirectoryKeeps ==
  ASSUME BootstrapInv, NEW a \in Agent, NoDirectory(a)
  PROVE  BootstrapInv'
<1> USE Names
<1>1. Typed'
  BY NoDirectoryTyped DEF BootstrapInv
<1>2. \A y \in Process : y # a => request'[y] = request[y]
  BY IdlePlaces DEF NoDirectory, BootstrapInv
<1>3. /\ pstate[a] = "asking" /\ pstate'[a] = "thrown"
      /\ \A y \in Participant : y # a => pstate'[y] = pstate[y]
      /\ UNCHANGED <<op, master, directory, home, list, got, subs, pipe, pull, due>>
  BY DEF NoDirectory, BootstrapInv, Typed, TypeOK
<1>4. home[a] = Nobody
  BY <1>3 DEF BootstrapInv, Connected, AgentConnected
<1>5. AgentConnected(a)'
  BY <1>3 DEF BootstrapInv, Connected, AgentConnected
<1>6. \A c \in Client : Unsent(c)' => Unsent(c)
  BY <1>2, <1>3 DEF Unsent
<1>7. \A c \in Client : CommandPassed(a, c)'
  BY <1>3, <1>6, AgentKept
<1>8. \A s \in Server : pipe'[s][a] = <<>>
  <2>1. ~Reads(a)
    BY <1>3 DEF Reads
  <2> QED BY <1>3, <2>1 DEF BootstrapInv, Connected
<1> QED BY <1>1, <1>2, <1>3, <1>4, <1>5, <1>7, <1>8, ParticipantKeeps

(* Nothing waits for an agent that connects, and nothing is due to it.     *)
LEMMA ConnectAgentKeeps ==
  ASSUME BootstrapInv, NEW a \in Agent, ConnectAgent(a)
  PROVE  BootstrapInv'
<1> USE Names
<1> DEFINE h == request[a].reply
<1>1. Typed'
  BY ConnectAgentTyped DEF BootstrapInv
<1>2. \A y \in Process : y # a => request'[y] = request[y]
  BY IdlePlaces DEF ConnectAgent, BootstrapInv
<1>3. h \in Directory
  BY DEF ConnectAgent, BootstrapInv, Typed
<1> HIDE DEF h
<1>4. /\ pstate[a] = "asking" /\ pstate'[a] = "waiting"
      /\ \A y \in Participant : y # a => pstate'[y] = pstate[y]
      /\ home'[a] = h /\ \A y \in Participant : y # a => home'[y] = home[y]
      /\ \A s \in Server : subs'[s] = IF s = h THEN subs[s] \cup {a} ELSE subs[s]
      /\ UNCHANGED <<op, master, directory, list, got, pipe, due>>
  BY <1>3 DEF ConnectAgent, ConnectTo, BootstrapInv, Typed, TypeOK, h
<1>5. home[a] = Nobody /\ got[a] = <<>> /\ \A d \in Directory : a \notin subs[d]
  BY <1>4 DEF BootstrapInv, Connected, AgentConnected
<1>6. \A s \in Server : pipe'[s][a] = <<>>
  <2>1. ~Reads(a)
    BY <1>4 DEF Reads
  <2> QED BY <1>4, <2>1 DEF BootstrapInv, Connected
<1>7. AgentConnected(a)'
  BY <1>3, <1>4, <1>5 DEF AgentConnected
<1>8. \A d \in Directory : home'[a] = d => FarewellSent(d, a)'
  BY <1>3, <1>4, <1>6, EmptyQueue DEF FarewellSent, Farewell
<1>9. \A c \in Client : CommandPassed(a, c)'
  <2> TAKE c \in Client
  <2>1. <<a, c>> \notin due'
    BY <1>4, <1>5 DEF BootstrapInv, CommandsPassed, CommandPassed
  <2>2. Once(got'[a], c) /\ ~Arrived(a, c)'
    BY <1>4, <1>5, EmptyQueue DEF Arrived
  <2>3. Once(pipe'[home'[a]][a], DoStart(c)) /\ ~OnItsWay(a, c)'
    BY <1>3, <1>4, <1>6, EmptyQueue DEF OnItsWay
  <2> QED BY <2>1, <2>2, <2>3 DEF CommandPassed
<1>10. \A s \in Server, y \in Process : y # a => (y \in subs'[s] <=> y \in subs[s])
  BY ZenonT(60), <1>4
<1> QED BY <1>1, <1>2, <1>4, <1>6, <1>7, <1>8, <1>9, <1>10, ParticipantKeeps

LEMMA AnswerQueryKeeps ==
  ASSUME BootstrapInv, NEW a \in Agent, AnswerQuery(a)
  PROVE  BootstrapInv'
<1> USE Names
<1>1. Typed'
  BY AnswerQueryTyped DEF BootstrapInv
<1>2. UNCHANGED <<op, master, directory, participant, subs, pipe, pull, due>>
  BY DEF AnswerQuery
<1>3. PICK c \in Client : request[c].to = a /\ Reply(c, {})
  BY DEF AnswerQuery
<1>4. (\A y \in Process : y # c => request'[y] = request[y]) /\ request'[c].to = c
  BY <1>3, RepliedPlaces DEF BootstrapInv, Replies
<1>5. pstate[c] = "calling"
  BY <1>3 DEF BootstrapInv, CommandsSent
<1>6. Unsent(c)' => Unsent(c)
  BY <1>2, <1>4, <1>5 DEF Unsent, participant
<1>7. ~Reads(c)' => \A s \in Server : pipe'[s][c] = <<>>
  BY <1>2 DEF Reads, BootstrapInv, Connected, participant, directory
<1> QED BY <1>1, <1>2, <1>4, <1>5, <1>6, <1>7, ParticipantKeeps DEF participant

LEMMA StartClientKeeps ==
  ASSUME BootstrapInv, NEW c \in Client, StartClient(c)
  PROVE  BootstrapInv'
<1> USE Names
<1>1. Typed'
  BY StartClientTyped DEF BootstrapInv
<1>2. /\ pstate[c] = "down" /\ pstate'[c] = "waiting"
      /\ \A y \in Participant : y # c => pstate'[y] = pstate[y]
      /\ UNCHANGED <<op, master, request, directory, list, got, pipe, due>>
  BY DEF StartClient, BootstrapInv, Typed, TypeOK
<1>3. /\ \A y \in Participant : y # c => home'[y] = home[y]
      /\ \A s \in Server, y \in Process : y # c => (y \in subs'[s] <=> y \in subs[s])
  <2>1. CASE UNCHANGED <<home, subs, pull>>
    BY <2>1
  <2>2. CASE \E d \in directories : ConnectTo(c, d, <<"NEED_DIRECTORY">>)
    <3>1. PICK d \in Directory : ConnectTo(c, d, <<"NEED_DIRECTORY">>)
      BY <2>2 DEF BootstrapInv, Typed, TypeOK
    <3>2. /\ \A y \in Participant : y # c => home'[y] = home[y]
          /\ \A s \in Server : subs'[s] = IF s = d THEN subs[s] \cup {c} ELSE subs[s]
      BY <3>1 DEF ConnectTo, BootstrapInv, Typed, TypeOK
    <3> QED BY <3>2
  <2> QED BY <2>1, <2>2 DEF StartClient
<1>4. \A s \in Server : pipe'[s][c] = <<>>
  <2>1. ~Reads(c)
    BY <1>2 DEF Reads
  <2> QED BY <1>2, <2>1 DEF BootstrapInv, Connected
<1>5. request[c].to = Nobody /\ Unsent(c)
  BY <1>2 DEF BootstrapInv, CommandsSent, Unsent
<1> QED BY <1>1, <1>2, <1>3, <1>4, <1>5, ParticipantKeeps

LEMMA CommandKeeps ==
  ASSUME BootstrapInv, NEW c \in Client, Command(c)
  PROVE  BootstrapInv'
<1> USE Names
<1> DEFINE t == IF op[c] = "directories" THEN "GET_DIRECTORIES" ELSE op[c]
<1>1. Typed'
  BY CommandTyped DEF BootstrapInv
<1>2. \A y \in Process : y # c => request'[y] = request[y]
  <2>1. t \in RequestType /\ Asks(c, "dm", t)
    <3>1. op[c] \in {"START", "SHUTDOWN", "directories", "query", "interrupt"}
      BY BootstrapAssumption DEF BootstrapInv, Typed
    <3> QED BY <3>1 DEF Command, RequestType
  <2> HIDE DEF t
  <2> QED BY <2>1, AsksPlaces DEF BootstrapInv
<1>3. /\ pstate[c] = "waiting" /\ op[c] # "query" /\ pstate'[c] = "calling"
      /\ \A y \in Participant : y # c => pstate'[y] = pstate[y]
      /\ UNCHANGED <<op, master, directory, home, list, got, subs, pipe, pull, due>>
  BY DEF Command, BootstrapInv, Typed, TypeOK
<1>4. \A s \in Server : pipe'[s][c] = <<>>
  <2>1. ~Reads(c)
    BY <1>3 DEF Reads
  <2> QED BY <1>3, <2>1 DEF BootstrapInv, Connected
<1>5. Unsent(c)
  BY <1>3 DEF Unsent
<1> QED BY <1>1, <1>2, <1>3, <1>4, <1>5, ParticipantKeeps

LEMMA QueryVertexKeeps ==
  ASSUME BootstrapInv, NEW c \in Client, QueryVertex(c)
  PROVE  BootstrapInv'
<1> USE Names
<1>1. Typed'
  BY QueryVertexTyped DEF BootstrapInv
<1>2. (\A y \in Process : y # c => request'[y] = request[y]) /\ request'[c].to # "dm"
  <2>1. PICK a \in Agent \cup {Nobody} : Asks(c, a, "QUERY")
    BY DEF QueryVertex, BootstrapInv, Typed, TypeOK
  <2>2. "QUERY" \in RequestType /\ a \in {"dm", Nobody} \cup Agent /\ a # "dm"
    BY DEF RequestType
  <2> QED BY <2>1, <2>2, AsksPlaces DEF BootstrapInv
<1>3. /\ pstate[c] = "ready" /\ op[c] = "query" /\ pstate'[c] = "calling"
      /\ \A y \in Participant : y # c => pstate'[y] = pstate[y]
      /\ UNCHANGED <<op, master, directory, home, list, got, subs, pipe, pull, due>>
  BY DEF QueryVertex, BootstrapInv, Typed, TypeOK
<1>4. \A s \in Server : pipe'[s][c] = <<>>
  <2>1. ~Reads(c)
    BY <1>3 DEF Reads
  <2> QED BY <1>3, <2>1 DEF BootstrapInv, Connected
<1>5. ~Unsent(c)'
  BY <1>2, <1>3 DEF Unsent
<1> QED BY <1>1, <1>2, <1>3, <1>4, <1>5, ParticipantKeeps

LEMMA ClientDoneKeeps ==
  ASSUME BootstrapInv, NEW c \in Client, ClientDone(c)
  PROVE  BootstrapInv'
<1> USE Names
<1>1. Typed'
  BY ClientDoneTyped DEF BootstrapInv
<1>2. (\A y \in Process : y # c => request'[y] = request[y]) /\ request'[c].to = Nobody
  BY IdlePlaces DEF ClientDone, BootstrapInv
<1>3. /\ pstate[c] = "calling" /\ pstate'[c] = "ended"
      /\ \A y \in Participant : y # c => pstate'[y] = pstate[y]
      /\ UNCHANGED <<op, master, directory, home, list, got, subs, pipe, pull, due>>
  BY DEF ClientDone, BootstrapInv, Typed, TypeOK
<1>4. \A s \in Server : pipe'[s][c] = <<>>
  <2>1. ~Reads(c)
    BY <1>3 DEF Reads
  <2> QED BY <1>3, <2>1 DEF BootstrapInv, Connected
<1>5. ~Unsent(c)'
  BY <1>2, <1>3 DEF Unsent
<1> QED BY <1>1, <1>2, <1>3, <1>4, <1>5, ParticipantKeeps

LEMMA PollClientKeeps ==
  ASSUME BootstrapInv, NEW c \in Client, Poll(c)
  PROVE  BootstrapInv'
<1> USE Names
<1>1. Typed'
  BY PollTyped DEF BootstrapInv
<1>2. pstate[c] = "waiting"
  BY DEF Poll, Reads
<1>3. \A s \in Server, y \in Process : pipe'[s][y] = IF y = c THEN <<>> ELSE pipe[s][y]
  <2>1. pipe' = Closed(pipe, c)
    BY DEF Poll
  <2> QED BY <2>1, ClosedPlaces DEF BootstrapInv, Typed
<1>4. /\ \A y \in Participant : y # c => pstate'[y] = pstate[y]
      /\ \A a \in Agent : a # c => got'[a] = got[a]
  BY DEF Poll, BootstrapInv, Typed, TypeOK
<1>5. UNCHANGED <<op, master, request, directory, home, subs, pull, due>>
  BY DEF Poll
<1>6. request[c].to = Nobody /\ Unsent(c)
  BY <1>2 DEF BootstrapInv, CommandsSent, Unsent
<1> QED BY <1>1, <1>3, <1>4, <1>5, <1>6, ParticipantKeeps

(* What an agent reads: its list, a command, or a farewell.                *)
LEMMA PollAgentSteps ==
  ASSUME BootstrapInv, NEW a \in Agent, Poll(a)
  PROVE  LET h == home[a]
             m == Head(pipe[h][a])
         IN  /\ h \in Directory /\ a \in subs[h] /\ pstate[a] \in {"waiting", "ready"}
             /\ pipe[h][a] # <<>> /\ m \in Published(h)
             /\ UNCHANGED <<op, master, request, directory, home, subs, pull, due>>
             /\ \A y \in Participant : y # a => pstate'[y] = pstate[y]
             /\ \A b \in Agent : b # a => got'[b] = got[b]
             /\ \/ /\ m.type = "DIRECTORY_UPDATE" /\ pipe' = Taken(h, a)
                   /\ pstate'[a] = "ready" /\ got'[a] = got[a]
                \/ /\ m.type = "DO_START" /\ pipe' = Taken(h, a)
                   /\ pstate'[a] = pstate[a] /\ got'[a] = Append(got[a], m.of)
                \/ /\ m.type \in {"SHUTDOWN", "DISCONNECT"} /\ pipe' = Closed(pipe, a)
                   /\ pstate'[a] \in {"ended", "thrown"} /\ got'[a] = got[a]
<1> USE Names
<1> DEFINE h == home[a]
           m == Head(pipe[h][a])
<1>1. pstate[a] \in {"waiting", "ready"} /\ h # Nobody /\ pipe[h][a] # <<>>
  BY DEF Poll, Reads
<1>2. h \in Directory /\ a \in subs[h]
  BY <1>1 DEF BootstrapInv, Connected, AgentConnected
<1>3. m \in Published(h)
  BY <1>1, <1>2, TakenPlaces DEF BootstrapInv, Typed
<1>4. UNCHANGED <<op, master, request, directory, home, subs, pull, due>>
  BY DEF Poll
<1>5. pipe' = IF m.type \in {"SHUTDOWN", "DISCONNECT"} THEN Closed(pipe, a) ELSE Taken(h, a)
  BY DEF Poll
<1>6. \/ /\ m.type = "DIRECTORY_UPDATE"
         /\ pstate' = [pstate EXCEPT ![a] = "ready"] /\ UNCHANGED got
      \/ /\ m.type = "DO_START"
         /\ got' = [got EXCEPT ![a] = Append(@, m.of)] /\ UNCHANGED pstate
      \/ /\ m.type = "SHUTDOWN"
         /\ pstate' = [pstate EXCEPT ![a] = "ended"] /\ UNCHANGED got
      \/ /\ m.type = "DISCONNECT"
         /\ pstate' = [pstate EXCEPT ![a] = "thrown"] /\ UNCHANGED got
  BY DEF Poll
<1> HIDE DEF m, h
<1>7. pstate \in [Participant -> {"down", "asking", "waiting", "ready", "calling", "ended", "thrown"}]
      /\ got \in [Agent -> Seq(Client)]
  BY DEF BootstrapInv, Typed, TypeOK
<1>8. /\ \A y \in Participant : y # a => pstate'[y] = pstate[y]
      /\ \A b \in Agent : b # a => got'[b] = got[b]
  BY <1>6, <1>7
<1>9. \/ /\ m.type = "DIRECTORY_UPDATE" /\ pipe' = Taken(h, a)
         /\ pstate'[a] = "ready" /\ got'[a] = got[a]
      \/ /\ m.type = "DO_START" /\ pipe' = Taken(h, a)
         /\ pstate'[a] = pstate[a] /\ got'[a] = Append(got[a], m.of)
      \/ /\ m.type \in {"SHUTDOWN", "DISCONNECT"} /\ pipe' = Closed(pipe, a)
         /\ pstate'[a] \in {"ended", "thrown"} /\ got'[a] = got[a]
  BY <1>5, <1>6, <1>7
<1> QED BY <1>1, <1>2, <1>3, <1>4, <1>8, <1>9 DEF h, m

LEMMA PollAgentKeeps ==
  ASSUME BootstrapInv, NEW a \in Agent, Poll(a)
  PROVE  BootstrapInv'
<1> USE Names
<1>1. Typed'
  BY PollTyped DEF BootstrapInv
<1>2. PICK h \in Directory : h = home[a]
  BY PollAgentSteps
<1>3. PICK m \in Published(h) : m = Head(pipe[h][a])
  BY <1>2, PollAgentSteps
<1>4. /\ a \in subs[h] /\ pstate[a] \in {"waiting", "ready"} /\ pipe[h][a] # <<>>
      /\ UNCHANGED <<op, master, request, directory, home, subs, pull, due>>
      /\ \A y \in Participant : y # a => pstate'[y] = pstate[y]
      /\ \A b \in Agent : b # a => got'[b] = got[b]
  BY <1>2, PollAgentSteps
<1>5. \/ /\ m.type = "DIRECTORY_UPDATE" /\ pipe' = Taken(h, a)
         /\ pstate'[a] = "ready" /\ got'[a] = got[a]
      \/ /\ m.type = "DO_START" /\ pipe' = Taken(h, a)
         /\ pstate'[a] = pstate[a] /\ got'[a] = Append(got[a], m.of)
      \/ /\ m.type \in {"SHUTDOWN", "DISCONNECT"} /\ pipe' = Closed(pipe, a)
         /\ pstate'[a] \in {"ended", "thrown"} /\ got'[a] = got[a]
  BY <1>2, <1>3, PollAgentSteps
<1>6. /\ pipe \in Pipes /\ AgentConnected(a) /\ FarewellSent(h, a)
      /\ \A c \in Client : CommandPassed(a, c)
      /\ got[a] \in Seq(Client) /\ Reads(a)
  BY <1>2, <1>4 DEF BootstrapInv, Typed, Connected, DirectoryFarewells, CommandsPassed, Reads
<1>7. \A s \in Server, y \in Process : y # a => pipe'[s][y] = pipe[s][y]
  BY <1>4, <1>5, <1>6, TakenPlaces, ClosedPlaces
<1>8. \A c \in Client : Unsent(c)' <=> Unsent(c)
  BY <1>4 DEF Unsent
<1>9. \A c \in Client : AtDirectory(a, c)' <=> AtDirectory(a, c)
  BY <1>2, <1>4, <1>7 DEF AtDirectory
<1>10. AgentConnected(a)'
  BY <1>2, <1>4, <1>5, <1>6 DEF AgentConnected
<1>11. CASE m.type \in {"SHUTDOWN", "DISCONNECT"} /\ pipe' = Closed(pipe, a)
            /\ pstate'[a] \in {"ended", "thrown"} /\ got'[a] = got[a]
  <2>1. \A s \in Server : pipe'[s][a] = <<>>
    BY <1>6, <1>11, ClosedPlaces
  <2>2. dstate[h] = "ended"
    <3>1. m \in {Shutdown, Disconnect}
      BY <1>11, PublishedTypes
    <3>2. Has(pipe[h][a], m)
      BY <1>3, <1>4, <1>6, TakenHas
    <3> QED BY <1>6, <3>1, <3>2 DEF FarewellSent, Farewell
  <2>3. FarewellSent(h, a)'
    <3>1. pstate'[a] # "ready" /\ ~Reads(a)' /\ dstate'[h] = "ended"
      BY <1>4, <1>11, <2>2 DEF Reads, directory
    <3> QED BY <3>1 DEF FarewellSent
  <2>4. \A c \in Client : CommandPassed(a, c)'
    <3> TAKE c \in Client
    <3>1. ~OnItsWay(a, c)' /\ Once(pipe'[home'[a]][a], DoStart(c))
      BY <1>2, <1>4, <2>1, EmptyQueue DEF OnItsWay
    <3>2. Arrived(a, c)' <=> Arrived(a, c)
      BY <1>11 DEF Arrived
    <3>3. dstate'[home'[a]] = "ended"
      BY <1>2, <1>4, <2>2 DEF directory
    <3> QED BY <1>2, <1>4, <1>6, <1>8, <1>9, <1>11, <3>1, <3>2, <3>3 DEF CommandPassed
  <2> QED BY <1>1, <1>2, <1>4, <1>7, <1>10, <2>1, <2>3, <2>4, ParticipantKeeps
<1>12. CASE /\ m.type \in {"DIRECTORY_UPDATE", "DO_START"} /\ pipe' = Taken(h, a)
            /\ \/ m.type = "DIRECTORY_UPDATE" /\ pstate'[a] = "ready" /\ got'[a] = got[a]
               \/ m.type = "DO_START" /\ pstate'[a] = pstate[a] /\ got'[a] = Append(got[a], m.of)
  <2>1. \A n : n # m => Keeps(h, a, n)
    BY <1>3, <1>4, <1>6, <1>12, TakenKeeps
  <2>2. m # Shutdown /\ m # Disconnect
    BY <1>12, DifferentMessages
  <2>3. Farewell(h, a)' <=> Farewell(h, a)
    BY <2>1, <2>2 DEF Farewell, Keeps
  <2>4. FarewellSent(h, a)'
    BY <1>4, <1>6, <1>12, <2>3 DEF FarewellSent, directory
  <2>5. Reads(a)'
    BY <1>4, <1>12 DEF Reads
  <2>6. \A c \in Client : m # DoStart(c) => CommandPassed(a, c)'
    <3> TAKE c \in Client
    <3> HAVE m # DoStart(c)
    <3>1. Keeps(h, a, DoStart(c))
      BY <2>1
    <3>2. Once(got'[a], c) /\ (Arrived(a, c)' <=> Arrived(a, c))
      <4>1. CASE got'[a] = got[a]
        BY <1>6, <4>1 DEF CommandPassed, Arrived
      <4>2. CASE m.type = "DO_START" /\ got'[a] = Append(got[a], m.of)
        <5>1. m.of \in Client /\ m.of # c
          BY <4>2, PublishedTypes
        <5>2. Once(got[a], c)
          BY <1>6 DEF CommandPassed
        <5> QED BY <1>6, <4>2, <5>1, <5>2, HasAppend, OnceAppend DEF Arrived
      <4> QED BY <1>12, <4>1, <4>2
    <3>3. OnItsWay(a, c)' <=> OnItsWay(a, c)
      BY <1>2, <1>4, <3>1 DEF OnItsWay, Keeps
    <3>4. Once(pipe[h][a], DoStart(c)) => Once(pipe'[h][a], DoStart(c))
      BY <3>1 DEF Keeps
    <3> QED BY <1>2, <1>4, <1>6, <1>8, <1>9, <3>2, <3>3, <3>4 DEF CommandPassed, directory
  <2>7. \A c \in Client : m = DoStart(c) => CommandPassed(a, c)'
    <3> TAKE c \in Client
    <3> HAVE m = DoStart(c)
    <3>1. m.type = "DO_START" /\ m.of = c
      BY DifferentMessages
    <3>2. got'[a] = Append(got[a], c)
      BY <1>12, <3>1
    <3>3. Once(pipe[h][a], DoStart(c)) /\ OnItsWay(a, c)
      <4>1. Has(pipe[h][a], m)
        BY <1>3, <1>4, <1>6, TakenHas
      <4> QED BY <1>2, <1>6, <4>1 DEF CommandPassed, OnItsWay
    <3>4. ~Unsent(c) /\ ~AtDirectory(a, c) /\ ~Arrived(a, c) /\ Once(got[a], c)
      BY <1>2, <1>6, <3>3 DEF CommandPassed
    <3>5. Once(pipe'[h][a], DoStart(c)) /\ ~Has(pipe'[h][a], DoStart(c))
      BY SMTT(30), <1>3, <1>4, <1>6, <1>12, <3>3, TakenHas
    <3>6. Once(got'[a], c) /\ Arrived(a, c)'
      BY <1>6, <3>2, <3>4, HasAppend, OnceAppend DEF Arrived
    <3>7. ~OnItsWay(a, c)'
      BY <1>2, <1>4, <3>5 DEF OnItsWay
    <3> QED BY <1>2, <1>4, <1>6, <1>8, <1>9, <3>4, <3>5, <3>6, <3>7 DEF CommandPassed, directory
  <2> QED BY <1>1, <1>2, <1>4, <1>7, <1>10, <2>4, <2>5, <2>6, <2>7, ParticipantKeeps
<1> QED BY <1>5, <1>11, <1>12

-----------------------------------------------------------------------------
(* The theorems.                                                           *)

LEMMA InitBootstrapInv == Init => BootstrapInv
<1> SUFFICES ASSUME Init PROVE BootstrapInv
  OBVIOUS
<1> USE Names
<1>1. Typed
  BY InitTyped
<1>2. /\ \A s \in Server, x \in Process : pipe[s][x] = <<>>
      /\ \A s \in Server : subs[s] = {}
      /\ \A x \in Process : request[x].to = Nobody
      /\ \A d \in Directory : dstate[d] = "down"
      /\ \A p \in Participant : pstate[p] = "down" /\ home[p] = Nobody
      /\ \A a \in Agent : got[a] = <<>>
      /\ mstate = "running" /\ directories = {} /\ due = {}
  BY DEF Init, Idle
<1>3. Connected
  BY <1>2 DEF Connected, AgentConnected
<1>4. DirectoriesKnown
  BY <1>2, EmptyQueue DEF DirectoriesKnown
<1>5. MasterFarewell /\ DirectoryFarewells
  BY <1>2 DEF MasterFarewell, DirectoryFarewells
<1>6. CommandsSent
  BY <1>2, EmptyQueue DEF CommandsSent
<1>7. CommandsPassed
  BY <1>2, EmptyQueue DEF CommandsPassed, CommandPassed, Arrived
<1> QED BY <1>1, <1>3, <1>4, <1>5, <1>6, <1>7 DEF BootstrapInv

LEMMA NextBootstrapInv == ASSUME BootstrapInv, [Next]_vars PROVE BootstrapInv'
<1>1. CASE UNCHANGED vars
  <2>1. Typed'
    BY <1>1, NextTyped DEF BootstrapInv
  <2>2. UNCHANGED <<op, mstate, directories, request, dstate, pstate, home, got, subs, pipe, due>>
    BY <1>1 DEF vars, master, directory, participant
  <2>3. Connected' /\ DirectoriesKnown' /\ MasterFarewell'
    BY <2>2 DEF BootstrapInv, Connected, AgentConnected, DirectoriesKnown, MasterFarewell, Reads, Answered
  <2>4. DirectoryFarewells'
    BY <2>2 DEF BootstrapInv, DirectoryFarewells, FarewellSent, Farewell, Reads
  <2>5. CommandsSent' /\ CommandsPassed'
    BY <2>2 DEF BootstrapInv, CommandsSent, CommandsPassed, CommandPassed, Unsent, AtDirectory,
                OnItsWay, Arrived
  <2> QED BY <2>1, <2>3, <2>4, <2>5 DEF BootstrapInv
<1>2. CASE Master
  BY <1>2, MasterKeeps
<1>3. ASSUME NEW d \in Directory,
             \/ StartDirectory(d) \/ AskPeers(d) \/ JoinPeers(d) \/ RecvPublished(d)
             \/ RecvPushed(d) \/ Heartbeat(d) \/ Leave(d) \/ Left(d)
      PROVE  BootstrapInv'
  BY <1>3, StartDirectoryKeeps, AskPeersKeeps, JoinPeersKeeps, RecvPublishedKeeps,
     RecvPushedKeeps, HeartbeatKeeps, LeaveKeeps, LeftKeeps
<1>4. ASSUME NEW a \in Agent,
             StartAgent(a) \/ ConnectAgent(a) \/ NoDirectory(a) \/ Poll(a) \/ AnswerQuery(a)
      PROVE  BootstrapInv'
  BY <1>4, StartAgentKeeps, ConnectAgentKeeps, NoDirectoryKeeps, PollAgentKeeps, AnswerQueryKeeps
<1>5. ASSUME NEW c \in Client,
             StartClient(c) \/ Poll(c) \/ Command(c) \/ QueryVertex(c) \/ ClientDone(c)
      PROVE  BootstrapInv'
  BY <1>5, StartClientKeeps, PollClientKeeps, CommandKeeps, QueryVertexKeeps, ClientDoneKeeps
<1> QED BY <1>1, <1>2, <1>3, <1>4, <1>5 DEF Next

LEMMA BootstrapInvariant == Spec => []BootstrapInv
<1>1. Init => BootstrapInv
  BY InitBootstrapInv
<1>2. BootstrapInv /\ [Next]_vars => BootstrapInv'
  BY NextBootstrapInv
<1> QED BY <1>1, <1>2, PTL DEF Spec

(* Running directories know each other, however many there are and in      *)
(* whatever order they start and stop (directory.cpp:97-157, 298-327).     *)
THEOREM DirectoriesFindEachOther == Spec => []PeersKnown
<1>1. BootstrapInv => PeersKnown
  BY DEF BootstrapInv, DirectoriesKnown, PeersKnown, Waits, Has, JoinOf, LeaveOf
<1> QED BY <1>1, BootstrapInvariant, PTL

(* Whoever runs when the system goes down has its farewell on the way      *)
(* (directory_master.cpp:109-116, directory.cpp:329-351, 551-561).         *)
THEOREM NobodyIsLeftBehind == Spec => []NobodyLeftBehind
<1>1. ASSUME BootstrapInv PROVE NobodyLeftBehind
  <2> USE Names
  <2>1. ASSUME NEW d \in Directory, mstate = "ended", dstate[d] = "running"
        PROVE  Waits("dm", d, Shutdown)
    BY <1>1, <2>1 DEF BootstrapInv, MasterFarewell, Waits, Has
  <2>2. ASSUME NEW a \in Agent, pstate[a] = "ready", dstate[home[a]] = "ended"
        PROVE  Waits(home[a], a, Shutdown) \/ Waits(home[a], a, Disconnect)
    <3>1. home[a] \in Directory
      BY <1>1, <2>2 DEF BootstrapInv, Connected, AgentConnected
    <3>2. FarewellSent(home[a], a)
      BY <1>1, <3>1 DEF BootstrapInv, DirectoryFarewells
    <3> QED BY <2>2, <3>2 DEF FarewellSent, Farewell, Waits, Has
  <2> QED BY <2>1, <2>2 DEF NobodyLeftBehind, Disconnect
<1> QED BY <1>1, BootstrapInvariant, PTL

(* How often a message is in a queue it is in at most once.                *)
LEMMA OneOrNone ==
  ASSUME NEW q, NEW m, Once(q, m)
  PROVE  Cardinality({i \in DOMAIN q : q[i] = m}) = IF Has(q, m) THEN 1 ELSE 0
<1> DEFINE S == {i \in DOMAIN q : q[i] = m}
<1>1. CASE Has(q, m)
  <2>1. PICK i \in DOMAIN q : q[i] = m
    BY <1>1 DEF Has
  <2>2. S = {i}
    BY <2>1 DEF Once
  <2> QED BY <1>1, <2>2, FS_Singleton
<1>2. CASE ~Has(q, m)
  <2>1. S = {}
    BY <1>2 DEF Has
  <2> QED BY <1>2, <2>1, FS_EmptySet
<1> QED BY <1>1, <1>2

(* Only the master publishes commands as such.                             *)
LEMMA CommandsFromMaster ==
  ASSUME BootstrapInv, NEW h \in Directory, NEW c \in Client
  PROVE  Cardinality({x \in UNION {{s} \X DOMAIN pipe[s][h] : s \in Server} :
                        pipe[x[1]][h][x[2]] = Start(c)})
         = IF Has(pipe["dm"][h], Start(c)) THEN 1 ELSE 0
<1> USE Names
<1> DEFINE places == UNION {{s} \X DOMAIN pipe[s][h] : s \in Server}
           S == {x \in places : pipe[x[1]][h][x[2]] = Start(c)}
<1>1. \A x \in S : x[1] = "dm" /\ x[2] \in DOMAIN pipe["dm"][h] /\ x = <<"dm", x[2]>>
                   /\ pipe["dm"][h][x[2]] = Start(c)
  <2> TAKE x \in S
  <2>1. PICK s \in Server : x \in {s} \X DOMAIN pipe[s][h]
    OBVIOUS
  <2>2. /\ x[1] = s /\ x[2] \in DOMAIN pipe[s][h] /\ x = <<s, x[2]>>
        /\ pipe[s][h][x[2]] = Start(c)
    BY <2>1
  <2>3. pipe[s][h][x[2]] \in Published(s)
    <3>1. pipe[s][h] \in Seq(Published(s))
      BY DEF BootstrapInv, Typed, Pipes
    <3> QED BY <2>2, <3>1
  <2>4. s = "dm"
    BY <2>2, <2>3, PublishedTypes, DifferentMessages
  <2> QED BY <2>2, <2>4
<1>2. \A i \in DOMAIN pipe["dm"][h] : pipe["dm"][h][i] = Start(c) => <<"dm", i>> \in S
  <2> TAKE i \in DOMAIN pipe["dm"][h]
  <2>1. <<"dm", i>> \in {"dm"} \X DOMAIN pipe["dm"][h]
    OBVIOUS
  <2>2. <<"dm", i>> \in places
    BY <2>1
  <2> QED BY <2>2
<1>3. Once(pipe["dm"][h], Start(c))
  BY DEF BootstrapInv, CommandsSent
<1> HIDE DEF S
<1>4. CASE Has(pipe["dm"][h], Start(c))
  <2>1. PICK i \in DOMAIN pipe["dm"][h] : pipe["dm"][h][i] = Start(c)
    BY <1>4 DEF Has
  <2>2. \A x \in S : x = <<"dm", i>>
    BY <1>1, <1>3, <2>1 DEF Once
  <2>3. S = {<<"dm", i>>}
    BY <1>2, <2>1, <2>2
  <2> QED BY <1>4, <2>3, FS_Singleton DEF S
<1>5. CASE ~Has(pipe["dm"][h], Start(c))
  <2>1. S = {}
    BY <1>1, <1>5 DEF Has
  <2> QED BY <1>5, <2>1, FS_EmptySet DEF S
<1> QED BY <1>4, <1>5

(* A command comes to an agent at most once, and to every agent that was   *)
(* reached when it was given and whose directory runs (directory.cpp:      *)
(* 562-580).                                                               *)
THEOREM CommandsComeOnce == Spec => []CommandsOnce
<1>1. ASSUME BootstrapInv PROVE CommandsOnce
  <2> USE Names
  <2> SUFFICES ASSUME NEW a \in Agent, NEW c \in Client
               PROVE  /\ Copies(a, c) <= 1
                      /\ (<<a, c>> \in due /\ dstate[home[a]] = "running") => Copies(a, c) = 1
    BY DEF CommandsOnce
  <2>1. CommandPassed(a, c) /\ home[a] \in Directory \cup {Nobody} /\ Nobody \notin Directory
    BY <1>1 DEF BootstrapInv, CommandsPassed, Typed, TypeOK
  <2>2. Cardinality({i \in DOMAIN got[a] : got[a][i] = c}) = IF Arrived(a, c) THEN 1 ELSE 0
    BY <2>1, OneOrNone DEF CommandPassed, Arrived
  <2>3. CASE home[a] = Nobody
    <3>1. Copies(a, c) = IF Arrived(a, c) THEN 1 ELSE 0
      BY <2>2, <2>3 DEF Copies
    <3>2. <<a, c>> \notin due
      BY <2>1, <2>3 DEF CommandPassed
    <3> QED BY <3>1, <3>2
  <2>4. CASE home[a] \in Directory
    <3> DEFINE h == home[a]
               onItsWay == Cardinality({i \in DOMAIN pipe[h][a] : pipe[h][a][i] = DoStart(c)})
               atDirectory == Cardinality({x \in UNION {{s} \X DOMAIN pipe[s][h] : s \in Server} :
                                             pipe[x[1]][h][x[2]] = Start(c)})
    <3>1. onItsWay = IF OnItsWay(a, c) THEN 1 ELSE 0
      BY <2>1, <2>4, OneOrNone DEF CommandPassed, OnItsWay
    <3>2. atDirectory = IF AtDirectory(a, c) THEN 1 ELSE 0
      BY <1>1, <2>4, CommandsFromMaster DEF AtDirectory
    <3>3. Copies(a, c) = (IF Arrived(a, c) THEN 1 ELSE 0) + (onItsWay + atDirectory)
      BY <2>1, <2>2, <2>4 DEF Copies
    <3> HIDE DEF onItsWay, atDirectory
    <3>4. /\ ~(AtDirectory(a, c) /\ OnItsWay(a, c)) /\ ~(AtDirectory(a, c) /\ Arrived(a, c))
          /\ ~(OnItsWay(a, c) /\ Arrived(a, c))
          /\ <<a, c>> \in due /\ dstate[home[a]] = "running" =>
               AtDirectory(a, c) \/ OnItsWay(a, c) \/ Arrived(a, c)
      BY <2>1, <2>4 DEF CommandPassed
    <3>5. CASE Arrived(a, c)
      BY <3>1, <3>2, <3>3, <3>4, <3>5
    <3>6. CASE OnItsWay(a, c)
      BY <3>1, <3>2, <3>3, <3>4, <3>6
    <3>7. CASE ~Arrived(a, c) /\ ~OnItsWay(a, c)
      BY <3>1, <3>2, <3>3, <3>4, <3>7
    <3> QED BY <3>5, <3>6, <3>7
  <2> QED BY <2>1, <2>3, <2>4
<1> QED BY <1>1, BootstrapInvariant, PTL
=============================================================================
