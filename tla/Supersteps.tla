----------------------------- MODULE Supersteps -----------------------------
(***************************************************************************)
(* What the agents compute.  BatchCycle shows that the agents go through   *)
(* the supersteps of a batch in step; this module adds the values: the     *)
(* vertices of each agent, its copies vn_ of the values other vertices     *)
(* notified, and the four algorithms built on the LBSP agent.              *)
(*                                                                         *)
(* An agent keeps ONE copy per vertex, not one per superstep.  A vertex    *)
(* processed later in the same superstep sees the new value of a vertex    *)
(* of the same agent, and notifications of a faster agent are seen a       *)
(* superstep early.  Each superstep takes the vertices of the agent in an  *)
(* arbitrary order (the order of a hash map).                              *)
(*                                                                         *)
(* The graph is transposed and does not change while the agents compute    *)
(* (GraphBatch); no vertex is replicated; one directory.  Vertices are     *)
(* always set ACTIVE before they run, so their states are left out.        *)
(***************************************************************************)
EXTENDS Integers, Sequences, FiniteSets, FiniteSetsExt, SequencesExt

CONSTANTS
  Agent,
  Owner,         \* Owner[v]: the agent a vertex, a number, hashes to
  Graphs,        \* graphs the first batch may find, sets of edges <<u, v>>
  Streamed,      \* edges streamed into a later batch
  Algorithms,    \* the algorithms ElGA may be built with
  Starts,        \* vertices a BFS may start from
  Commands,      \* START or UPDATE, which may begin the first batch
  MaxBatches,    \* bound: batches of a behaviour
  MaxIt          \* bound: supersteps of a batch

Vertex == DOMAIN Owner

ASSUME SuperstepsAssumption ==
  /\ Vertex \subseteq Nat /\ IsFiniteSet(Vertex) /\ \A v \in Vertex : Owner[v] \in Agent
  /\ Graphs \subseteq SUBSET (Vertex \X Vertex) /\ Streamed \subseteq Vertex \X Vertex
  /\ \A e \in Streamed : Owner[e[1]] = Owner[e[2]]
  /\ Algorithms \subseteq {"WCC", "BFS", "KCORE", "LPA"} /\ Starts \subseteq Vertex
  /\ Commands \subseteq {"START", "UPDATE"}
  /\ MaxBatches \in Nat \ {0} /\ MaxIt \in Nat \ {0}

(* The largest vertex_t, and "not in vn_".                                 *)
Infinity == Max(Vertex) + Cardinality(Vertex) + 1
None == -1

VARIABLES
  alg, graph,
  (* VertexStorage *)
  val,       \* cc, dist, tau or lp
  fresh,     \* iteration = 0
  (* Agent *)
  phase,     \* state_; "update" is every state that waits for NV
  it,        \* it_
  needed,    \* agent_msgs_needed_
  vn,        \* vn_: vn[a][v] the value of v agent a has been notified of
  vote,      \* num_dormant_ > 0
  start,     \* start_
  (* connections *)
  sync,      \* SYNC on its way to an agent
  peer,      \* peer[a][b]: OUT_VN from a to b
  (* history *)
  batches,   \* batches begun
  scratch,   \* the graph the values were computed on from scratch, or {}
  sources    \* start vertices since then

vertexVars == <<val, fresh>>
agentVars  == <<phase, it, needed, vn, vote>>
history    == <<batches, scratch, sources>>
vars == <<alg, graph, vertexVars, agentVars, start, sync, peer, history>>

TypeOK ==
  /\ alg \in Algorithms /\ graph \subseteq Vertex \X Vertex
  /\ val \in [Vertex -> Nat] /\ fresh \in [Vertex -> BOOLEAN]
  /\ phase \in [Agent -> {"load", "update", "process", "sync", "idle", "thrown"}]
  /\ it \in [Agent -> -1 .. MaxIt]
  /\ needed \in [Agent -> [0 .. MaxIt + 1 -> Int]]
  /\ vn \in [Agent -> [Vertex -> Nat \cup {None}]]
  /\ vote \in [Agent -> BOOLEAN]
  /\ start \in Starts
  /\ sync \in [Agent -> {"none", "go", "stop"}]
  /\ \A a, b \in Agent : \A i \in DOMAIN peer[a][b] :
       /\ peer[a][b][i].it \in 0 .. MaxIt + 1
       /\ DOMAIN peer[a][b][i].vals \subseteq Vertex
  /\ batches \in 1 .. MaxBatches /\ scratch \subseteq Vertex \X Vertex
  /\ sources \subseteq Starts

Nothing == [v \in Vertex |-> None]

Init ==
  /\ alg \in Algorithms /\ graph \in Graphs
  /\ val = [v \in Vertex |-> Infinity] /\ fresh = [v \in Vertex |-> TRUE]
  /\ \E c \in Commands :
       /\ phase = [a \in Agent |-> IF c = "START" THEN "update" ELSE "load"]
       /\ scratch = IF c = "START" THEN graph ELSE {}
  /\ it = [a \in Agent |-> -1]
  /\ needed = [a \in Agent |-> [k \in 0 .. MaxIt + 1 |-> 0]]
  /\ vn = [a \in Agent |-> Nothing]
  /\ vote = [a \in Agent |-> FALSE]
  /\ start \in IF alg = "BFS" THEN Starts ELSE {CHOOSE s \in Starts : TRUE}
  /\ sync = [a \in Agent |-> "none"]
  /\ peer = [a \in Agent |-> [b \in Agent |-> <<>>]]
  /\ batches = 1
  /\ sources = {start}

-----------------------------------------------------------------------------
(* The graph.                                                              *)

In(v) == {u \in Vertex : <<u, v>> \in graph}
Out(v) == {u \in Vertex : <<v, u>> \in graph}
Neighbours(v) == In(v) \cup Out(v)
Mine(a) == {v \in Vertex : Owner[v] = a /\ Neighbours(v) # {}}

(* in_neighbors and out_neighbors, of those the vertices of S: a vertex    *)
(* may be in both.                                                         *)
CountNeighbours(v, S) == Cardinality(In(v) \cap S) + Cardinality(Out(v) \cap S)

-----------------------------------------------------------------------------
(* The algorithms: what run leaves in vertex v, given its value and the    *)
(* copies its agent has.                                                   *)

Result(new, notify, ok) == [new |-> new, notify |-> notify, ok |-> ok]

(* A value that is not in vn: WCC and LPA insert the vertex's own id.      *)
OwnIdIfNone(copies, u) == IF copies[u] = None THEN u ELSE copies[u]

(* Mutant: only the sources of a vertex's edges are looked at. *)
WccInOnly(v, old, first, copies) ==
  LET cc  == IF first THEN v ELSE old
      new == Min({cc} \cup {OwnIdIfNone(copies, u) : u \in In(v)})
  IN  Result(new, first \/ new < cc, TRUE)

(* Mutant: a vertex tells its neighbours although its label is the same. *)
WccTelling(v, old, first, copies) ==
  Result(Min({IF first THEN v ELSE old} \cup {OwnIdIfNone(copies, u) : u \in Neighbours(v)}),
         TRUE, TRUE)

(* Mutant: a value that is not in vn is read all the same. *)
WccAbsent(v, old, first, copies) ==
  LET cc  == IF first THEN v ELSE old
      new == Min({cc} \cup {copies[u] : u \in Neighbours(v)})
  IN  Result(new, first \/ new < cc, TRUE)

Wcc(v, old, first, copies) ==
  LET cc  == IF first THEN v ELSE old
      new == Min({cc} \cup {OwnIdIfNone(copies, u) : u \in Neighbours(v)})
  IN  Result(new, first \/ new < cc, TRUE)

(* Mutant: the neighbours are read in the first superstep only. *)
BfsOneStep(v, old, first, copies) ==
  LET known == {copies[u] : u \in Neighbours(v)} \ {None}
      new   == IF first THEN (IF v = start THEN 0 ELSE Infinity)
               ELSE Min({Infinity} \cup {x \in known : x < 2})
  IN  Result(Min({old, new}), new < old, TRUE)

(* SYM_BFS: edges are followed both ways.                                  *)
Bfs(v, old, first, copies) ==
  LET known == {copies[u] : u \in Neighbours(v)} \ {None}
      new   == IF first THEN (IF v = start THEN 0 ELSE Infinity)
               ELSE Min({Infinity} \cup known)
  IN  Result(Min({old, new}), new < old, TRUE)

(* Mutant: taus[new_tau] >= new_tau. *)
HIndexOffByOne(v, copies) ==
  LET Degree == CountNeighbours(v, Vertex)
  IN  Max({h \in 0 .. Degree : CountNeighbours(v, {u \in Neighbours(v) : copies[u] >= h - 1}) >= h})

(* The largest h such that h entries are at least h.                       *)
HIndex(v, copies) ==
  LET Degree == CountNeighbours(v, Vertex)
  IN  Max({h \in 0 .. Degree : CountNeighbours(v, {u \in Neighbours(v) : copies[u] >= h}) >= h})

(* run throws if a neighbour has no value, or if tau would increase.       *)
KCore(v, old, first, copies) ==
  IF first THEN Result(CountNeighbours(v, Vertex), TRUE, TRUE)
  ELSE LET new == HIndex(v, copies)
       IN  Result(Min({old, new}), new < old,
                  new <= old /\ \A u \in Neighbours(v) : copies[u] # None)

(* The most frequent label, the smallest of several.                       *)
Lpa(v, old, first, copies) ==
  LET lp      == IF first THEN v ELSE old
      Freq(l) == CountNeighbours(v, {u \in Neighbours(v) : OwnIdIfNone(copies, u) = l})
      labels  == {OwnIdIfNone(copies, u) : u \in Neighbours(v)}
      new     == Min({l \in labels : \A m \in labels : Freq(m) <= Freq(l)})
  IN  Result(new, first \/ new # lp, TRUE)

Run(v, old, first, copies) ==
  CASE alg = "WCC"   -> Wcc(v, old, first, copies)
    [] alg = "BFS"   -> Bfs(v, old, first, copies)
    [] alg = "KCORE" -> KCore(v, old, first, copies)
    [] alg = "LPA"   -> Lpa(v, old, first, copies)

(* Whether reset_state sets the iteration back to 0, so that the next      *)
(* batch begins again; otherwise it goes on with 1.                        *)
WccBeginsAgain == FALSE
BfsBeginsAgain == TRUE
KCoreBeginsAgain == TRUE
LpaBeginsAgain == FALSE

BeginsAgain ==
  CASE alg = "WCC" -> WccBeginsAgain   [] alg = "BFS" -> BfsBeginsAgain
    [] alg = "KCORE" -> KCoreBeginsAgain [] alg = "LPA" -> LpaBeginsAgain

(* What is notified of a value.                                            *)
Notified(x) == IF alg = "BFS" THEN x + 1 ELSE x

-----------------------------------------------------------------------------
(* A superstep.                                                            *)

(* proc_block: vertex v runs and its notification goes into vn_ at once.   *)
Step(v, s) ==
  LET r == Run(v, s.val[v], fresh[v], s.copies)
  IN  [done   |-> s.done \cup {v},
       val    |-> [s.val EXCEPT ![v] = r.new],
       copies |-> IF r.notify THEN [s.copies EXCEPT ![v] = Notified(r.new)] ELSE s.copies,
       told   |-> IF r.notify THEN s.told \cup {v} ELSE s.told,
       ok     |-> s.ok /\ r.ok]

(* What may come of running every vertex of agent a, in any order: from    *)
(* what may come of running n of them to what may come of one more.        *)
Outcomes(a, copies) ==
  LET After[n \in 0 .. Cardinality(Mine(a))] ==
        IF n = 0
        THEN {[done |-> {}, val |-> val, copies |-> copies, told |-> {}, ok |-> TRUE]}
        ELSE UNION {{Step(v, s) : v \in Mine(a) \ s.done} : s \in After[n - 1]}
  IN  After[Cardinality(Mine(a))]

(* The OUT_VN for agent b, which is sent even if it is empty.              *)
Notifications(a, b, s, k) ==
  [it |-> k, vals |-> [v \in {w \in s.told : \E u \in Neighbours(w) : Owner[u] = b} |-> Notified(s.val[v])]]

(* Mutant: an agent does not wait for the notifications of the others. *)
ProcessVerticesUnwaiting(a, copies, need, net) ==
  \E s \in Outcomes(a, copies) :
    LET k == it[a] + 1
    IN  /\ need[k] <= 0 /\ k <= MaxIt
        /\ IF ~s.ok
           THEN /\ phase' = [phase EXCEPT ![a] = "thrown"]
                /\ UNCHANGED <<vertexVars, it, needed, vn, vote, peer>>
           ELSE /\ val' = s.val
                /\ fresh' = [v \in Vertex |-> fresh[v] /\ v \notin Mine(a)]
                /\ it' = [it EXCEPT ![a] = k]
                /\ vn' = [vn EXCEPT ![a] = s.copies]
                /\ vote' = [vote EXCEPT ![a] = s.told # {}]
                /\ needed' = [needed EXCEPT ![a] = [need EXCEPT ![k + 1] = 0]]
                /\ peer' = [net EXCEPT ![a] = [b \in Agent |->
                              IF b = a THEN @[b] ELSE Append(@[b], Notifications(a, b, s, k + 1))]]
                /\ phase' = [phase EXCEPT ![a] = "sync"]

(* process_vertices, for an agent with these copies, counts and sockets:   *)
(* all notifications for superstep k are in.  If those for the next one    *)
(* are in as well the agent joins the barrier.                             *)
ProcessVertices(a, copies, need, net) ==
  \E s \in Outcomes(a, copies) :
    LET k     == it[a] + 1
        after == [need EXCEPT ![k + 1] = @ + (Cardinality(Agent) - 1)]
    IN  /\ need[k] <= 0 /\ k <= MaxIt
        /\ IF ~s.ok
           THEN /\ phase' = [phase EXCEPT ![a] = "thrown"]
                /\ UNCHANGED <<vertexVars, it, needed, vn, vote, peer>>
           ELSE /\ val' = s.val
                /\ fresh' = [v \in Vertex |-> fresh[v] /\ v \notin Mine(a)]
                /\ it' = [it EXCEPT ![a] = k]
                /\ vn' = [vn EXCEPT ![a] = s.copies]
                /\ vote' = [vote EXCEPT ![a] = s.told # {}]
                /\ needed' = [needed EXCEPT ![a] = after]
                /\ peer' = [net EXCEPT ![a] = [b \in Agent |->
                              IF b = a THEN @[b] ELSE Append(@[b], Notifications(a, b, s, k + 1))]]
                /\ phase' = [phase EXCEPT ![a] = IF after[k + 1] = 0 THEN "sync" ELSE "process"]

(* An agent that is polled in PROCESS before its first superstep.          *)
PrePoll(a) ==
  /\ phase[a] = "process"
  /\ ProcessVertices(a, vn[a], needed[a], peer)
  /\ UNCHANGED <<alg, graph, start, sync, history>>

(* NV.  After UPDATE it finds the agent in NO_PROCESS, and it goes to the  *)
(* barrier without a superstep.                                            *)
RecvNv(a) ==
  /\ \/ /\ phase[a] = "update"
        /\ phase' = [phase EXCEPT ![a] = "process"]
     \/ /\ phase[a] = "load"
        /\ phase' = [phase EXCEPT ![a] = "sync"]
  /\ UNCHANGED <<alg, graph, vertexVars, it, needed, vn, vote, start, sync, peer, history>>

(* Mutant: a copy that is already there is kept. *)
WithNotesFirst(copies, vals) ==
  [v \in Vertex |-> IF v \in DOMAIN vals /\ copies[v] = None THEN vals[v] ELSE copies[v]]

WithNotes(copies, vals) == [v \in Vertex |-> IF v \in DOMAIN vals THEN vals[v] ELSE copies[v]]

(* OUT_VN: process_vn.  It ends in pre_poll, so an agent that has been     *)
(* waiting in PROCESS for its first superstep begins it.                   *)
RecvOutVn(a, b) ==
  /\ peer[b][a] # <<>> /\ phase[a] # "thrown"
  /\ LET m      == Head(peer[b][a])
         net    == [peer EXCEPT ![b][a] = Tail(@)]
         need   == [needed[a] EXCEPT ![m.it] = @ - 1]
         copies == WithNotes(vn[a], m.vals)
         joins  == phase[a] = "process" /\ it[a] >= 0 /\ need[it[a] + 1] = 0
     IN  CASE phase[a] = "idle" ->
                /\ peer' = net
                /\ UNCHANGED <<vertexVars, agentVars>>
           [] phase[a] = "process" /\ ~joins /\ need[it[a] + 1] <= 0 ->
                ProcessVertices(a, copies, need, net)
           [] OTHER ->
                /\ peer' = net
                /\ needed' = [needed EXCEPT ![a] = need]
                /\ vn' = [vn EXCEPT ![a] = copies]
                /\ phase' = IF joins THEN [phase EXCEPT ![a] = "sync"] ELSE phase
                /\ UNCHANGED <<vertexVars, it, vote>>
  /\ UNCHANGED <<alg, graph, start, sync, history>>

(* The directory has every READY_SYNC.                                     *)
DirSync ==
  /\ \A a \in Agent : phase[a] = "sync" /\ sync[a] = "none"
  /\ sync' = [a \in Agent |-> IF \E b \in Agent : vote[b] THEN "go" ELSE "stop"]
  /\ UNCHANGED <<alg, graph, vertexVars, agentVars, start, peer, history>>

(* Mutant: the iterations go on counting in the next batch. *)
KeepIteration(a) == fresh

(* reset_state, for every vertex of the agent.                             *)
ResetIteration(a) == [v \in Vertex |-> IF v \in Mine(a) THEN BeginsAgain ELSE fresh[v]]

(* SYNC.                                                                   *)
RecvSync(a) ==
  /\ phase[a] = "sync" /\ sync[a] # "none"
  /\ sync' = [sync EXCEPT ![a] = "none"]
  /\ \/ /\ sync[a] = "go"
        /\ ProcessVertices(a, vn[a], needed[a], peer)
     \/ /\ sync[a] = "stop"
        /\ phase' = [phase EXCEPT ![a] = "idle"]
        /\ it' = [it EXCEPT ![a] = -1]
        /\ needed' = [needed EXCEPT ![a] = [k \in 0 .. MaxIt + 1 |-> 0]]
        /\ vn' = [vn EXCEPT ![a] = Nothing]
        /\ vote' = [vote EXCEPT ![a] = FALSE]
        /\ fresh' = ResetIteration(a)
        /\ UNCHANGED <<val, peer>>
  /\ UNCHANGED <<alg, graph, start, history>>

-----------------------------------------------------------------------------
(* Between batches.                                                        *)

Rest == \A a \in Agent : phase[a] = "idle"

(* The next batch begins: with a START, of a BFS perhaps from another      *)
(* vertex, or because of a streamed edge.                                  *)
Begin(g, s) ==
  /\ Rest /\ batches < MaxBatches
  /\ batches' = batches + 1
  /\ graph' = g /\ start' = s
  /\ phase' = [a \in Agent |-> "update"]
  /\ LET anew == \A v \in Vertex : val[v] = Infinity /\ fresh[v]
     IN  /\ scratch' = IF anew THEN g ELSE IF alg = "LPA" THEN {} ELSE scratch
         /\ sources' = IF anew THEN {s} ELSE sources \cup {s}
  /\ UNCHANGED <<alg, vertexVars, it, needed, vn, vote, sync, peer>>

BeginStart == \E s \in Starts : (s = start \/ alg = "BFS") /\ Begin(graph, s)
BeginStreamed == \E e \in Streamed \ graph : Begin(graph \cup {e}, start)

(* DO_RESET: clear_batch_mem, then reset_output, at every agent before     *)
(* anything else is sent to it.                                            *)
Reset ==
  /\ Rest /\ batches < MaxBatches
  /\ \E v \in Vertex : val[v] # Infinity \/ ~fresh[v]
  /\ val' = [v \in Vertex |-> Infinity]
  /\ fresh' = [v \in Vertex |-> TRUE]
  /\ UNCHANGED <<alg, graph, agentVars, start, sync, peer, history>>

(* The client gives no more commands; or LPA, which may go round for ever, *)
(* is at the bound.                                                        *)
Done ==
  /\ \/ Rest /\ batches = MaxBatches
     \/ \E a \in Agent : it[a] = MaxIt
  /\ UNCHANGED vars

Next ==
  \/ \E a \in Agent : PrePoll(a) \/ RecvNv(a) \/ RecvSync(a)
  \/ \E a, b \in Agent : RecvOutVn(a, b)
  \/ DirSync
  \/ BeginStart \/ BeginStreamed \/ Reset
  \/ Done

Fairness ==
  /\ WF_vars(DirSync)
  /\ \A a \in Agent : WF_vars(PrePoll(a)) /\ WF_vars(RecvNv(a)) /\ WF_vars(RecvSync(a))
  /\ \A a, b \in Agent : WF_vars(RecvOutVn(a, b))

Spec == Init /\ [][Next]_vars
FairSpec == Spec /\ Fairness

-----------------------------------------------------------------------------
(* References the results are compared with.                               *)

(* The vertices within d edges of S, in either direction.                  *)
Within(S, d) ==
  FoldLeft(LAMBDA T, i : T \cup UNION {Neighbours(v) : v \in T}, S, [i \in 1 .. d |-> i])

Component(v) == Within({v}, Cardinality(Vertex))

Distance(v) ==
  IF sources \cap Component(v) = {} THEN Infinity
  ELSE CHOOSE d \in 0 .. Cardinality(Vertex) :
         v \in Within(sources, d) /\ (d = 0 \/ v \notin Within(sources, d - 1))

(* The largest k such that v is in a part of the graph whose vertices all  *)
(* have k entries for each other.                                          *)
Coreness(v) ==
  Max({k \in 0 .. 2 * Cardinality(Vertex) :
         \E S \in SUBSET Vertex :
           v \in S /\ \A u \in S : CountNeighbours(u, S) >= k})

InGraph == {v \in Vertex : Neighbours(v) # {}}

(* A batch has just ended, with supersteps.                                *)
Computed == Rest /\ \E v \in Vertex : val[v] # Infinity

-----------------------------------------------------------------------------
(* Properties.                                                             *)

(* At the end of a batch WCC has labelled each vertex with the smallest    *)
(* vertex of its component, if the vertices started from their own ids on  *)
(* this graph (wccalgorithm.cpp:28-30), in whatever order agents and       *)
(* vertices ran.                                                           *)
ComponentsExact ==
  (alg = "WCC" /\ Computed /\ scratch = graph) =>
    \A v \in InGraph : val[v] = Min(Component(v))

(* A BFS ends with the undirected distances from the start vertices used   *)
(* since the graph was reset: the distances of an earlier start are kept   *)
(* (bfsalgorithm.cpp:77-81), so a second start can only shorten them.      *)
DistancesExact ==
  (alg = "BFS" /\ Computed /\ scratch = graph) =>
    \A v \in InGraph : val[v] = Distance(v)

(* KCore ends with the coreness of every vertex, also in batches that only *)
(* streamed edges began: it starts from the degrees each time.             *)
CorenessExact == (alg = "KCORE" /\ Computed) => \A v \in InGraph : val[v] = Coreness(v)

(* If LPA ends, each vertex has the most frequent label of its neighbours, *)
(* the smallest of several (README:189-190).                               *)
LabelsStable ==
  (alg = "LPA" /\ Computed /\ scratch = graph) =>
    \A v \in InGraph : val[v] = Lpa(v, val[v], FALSE, val).new

(* No value arrives late: when every agent is at the barrier, what an      *)
(* agent was ever notified of a neighbour in this batch is its value now.  *)
(* The superstep that follows cannot read anything older.                  *)
CopiesFresh ==
  (\A a \in Agent : phase[a] = "sync" /\ sync[a] = "none" /\ it[a] >= 0) =>
    \A a \in Agent : \A v \in Mine(a) : \A u \in Neighbours(v) :
      vn[a][u] \in {None, Notified(val[u])}

(* WCC after any batch, streamed edges included: ElGA supports "dynamic,   *)
(* continuously changing graphs" (README:4-5) for Weakly Connected         *)
(* Components.                                                             *)
ComponentsDynamic ==
  (alg = "WCC" /\ Computed) => \A v \in InGraph : val[v] = Min(Component(v))

(* KCore finds a value of every neighbour and no tau ever rises, although  *)
(* values of two supersteps are mixed ("No neighbor value" and "tau        *)
(* increasing", kcorealgorithm.cpp:42-65).                                 *)
NeverThrows == \A a \in Agent : phase[a] # "thrown"

(* Every batch ends, except for LPA, whose labels may go round for ever.   *)
EveryBatchEnds ==
  (alg # "LPA" /\ \E a \in Agent : phase[a] = "update") ~> Rest
=============================================================================
