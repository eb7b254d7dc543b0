------------------------------ MODULE Streamer ------------------------------
(***************************************************************************)
(* The streamer: a process that reads changes of edges from files, from a  *)
(* socket or from a random generator, and sends each to the agent that     *)
(* owns the IN edge.  Its arguments are options and inputs, handled in     *)
(* order: changes are sent one by one (+no+batch) or collected per agent   *)
(* (+batch, the default); with +wait+batch it waits for a batch of the     *)
(* agents to end after each file, or after every mb changes.               *)
(*                                                                         *)
(* The streamer polls its subscriptions only while it waits, so it may use *)
(* an old list of agents, and SYNCs pile up while it reads.                *)
(*                                                                         *)
(* The agents and their directory are what BatchCycle shows of them: they  *)
(* have had a START, an UPDATE_EDGE that reaches idle agents begins a      *)
(* batch, UPDATE_EDGES does not, and changes that come during a batch      *)
(* begin the next one.  No other client or streamer is there.              *)
(***************************************************************************)
EXTENDS Integers, Sequences, FiniteSets

CONSTANTS
  Agent,
  Owners,        \* Owners[n][e]: the agent of edge e in the n-th list of agents
  Programs,      \* the arguments, sequences of the records of Argument
  Feeds,         \* what may be sent to a listening streamer: sequences of messages
  MidBatchSize,  \* MID_BATCH_SIZE
  CtrLimit       \* 10000000, where ctr begins at 0 again

Lists == DOMAIN Owners
Edge == DOMAIN Owners[1]

ASSUME StreamerAssumption ==
  /\ 1 \in Lists /\ Lists \subseteq Nat \ {0}
  /\ \A n \in Lists : Owners[n] \in [Edge -> Agent]
  /\ \A p \in Programs : Len(p) \in Nat /\ DOMAIN p = 1 .. Len(p)
  /\ \A p \in Programs : \A i \in DOMAIN p :
       /\ p[i].op \in {"file", "rg", "+batch", "+wait+batch", "+mb", "listen"}
       /\ p[i].op = "file" => p[i].changes \in Seq((Edge \X BOOLEAN) \cup {<<"bad line">>})
       /\ p[i].op = "rg" =>
            /\ p[i].N \in Nat /\ p[i].M \in Nat /\ p[i].P \in 1 .. p[i].N /\ p[i].r \in 0 .. p[i].P - 1
            /\ (0 .. p[i].N - 1) \X (0 .. p[i].N - 1) \subseteq Edge
       /\ p[i].op = "+batch" => p[i].val \in BOOLEAN
       /\ p[i].op = "+mb" => p[i].val \in Nat
  /\ Feeds \subseteq Seq(Seq(Edge))
  /\ MidBatchSize \in Nat \ {0} /\ CtrLimit \in Nat \ {0}

VARIABLES
  program,
  (* Streamer *)
  pc,          \* where it is: "start", "args", "file", "wait", "endwait", "lastpoll",
               \* "rg", "listen", "drain", "end" or "thrown"
  arg,         \* the argument it handles
  batch, wait, mb,  \* batch_, wait_, mb_
  input,       \* what is left of the file
  ctr,
  chosen,      \* chosen, of rg
  queued,      \* changes_: the edges of all its vectors, and to whom each goes
  size,        \* batch_size_
  count,       \* batch_count
  seen,        \* cur_batch_count
  list,        \* the list of agents it has, 0 if none
  interrupted, \* global_shutdown
  (* connections *)
  socket,      \* publications on their way to the streamer
  receiver,    \* messages on their way to a listening streamer
  feed,        \* what the feeder has not sent yet
  (* the agents *)
  newest,      \* the last list of agents published
  busy,        \* a batch has been asked for or runs
  arrived,     \* changes that wait for the next batch
  running,     \* changes of this batch
  finished,    \* changes of earlier batches
  (* history *)
  read,        \* the changes read
  sent         \* the changes sent: to whom, in which message (vector or not), and
               \* whether +mb 1 holds the next one back

options   == <<batch, wait, mb>>
place     == <<pc, arg, input, ctr, chosen, seen>>
buffer    == <<queued, size>>
outside   == <<receiver, feed>>
clusterVars == <<newest, busy, arrived, running, finished>>
vars == <<program, options, place, buffer, count, list, interrupted, socket, outside,
          clusterVars, read, sent>>

Init ==
  /\ program \in Programs
  /\ pc = "start" /\ arg = 1
  /\ batch = TRUE /\ wait = FALSE /\ mb = 0
  /\ input = <<>> /\ ctr = 0 /\ chosen = {} /\ seen = 0
  /\ queued = <<>> /\ size = 0
  /\ count = 0 /\ list = 0 /\ interrupted = FALSE
  /\ socket = <<[type |-> "DIRECTORY_UPDATE", list |-> 1]>>
  /\ receiver = <<>> /\ feed \in Feeds
  /\ newest = 1 /\ busy = FALSE /\ arrived = {} /\ running = {} /\ finished = {}
  /\ read = <<>> /\ sent = <<>>

-----------------------------------------------------------------------------
(* Sending.                                                                *)

(* parse_file waits after this change.                                     *)
Paced == pc = "file" /\ wait /\ mb = 1 /\ ~batch

(* A change in a message that begins at position m of sent.                *)
Record(c, a, m, v) == [change |-> c, to |-> a, msg |-> m, vector |-> v, paced |-> Paced]

(* change_edge, for a sequence of changes: each to the owner that this     *)
(* streamer knows.                                                         *)
ChangeEdge(cs) ==
  sent' = sent \o [i \in DOMAIN cs |-> Record(cs[i], Owners[list][cs[i][1]], Len(sent) + i, FALSE)]

(* Insertions wait in changes_ for their owners' messages.                 *)
Placed(es) == queued \o [i \in DOMAIN es |-> [edge |-> es[i], to |-> Owners[list][es[i]]]]
Queue(es) == queued' = Placed(es) /\ size' = size + Len(es)

(* One message for each agent that something in q is for; rest stays.      *)
SendVectors(q, rest) ==
  /\ sent' = sent \o [i \in DOMAIN q |-> Record(<<q[i].edge, TRUE>>, q[i].to, Len(sent) + 1, TRUE)]
  /\ queued' = rest

(* Mutant: the vectors of changes_ are not cleared. *)
SendBatchKeeping(q) == SendVectors(q, q)

(* send_batch, when q is what changes_ has.                                *)
SendBatch(q) == SendVectors(q, <<>>)

-----------------------------------------------------------------------------
(* Subscriptions.                                                          *)

(* do_poll takes one publication; handle_msg counts SYNCs up to active.    *)
Take(active) ==
  /\ socket # <<>>
  /\ socket' = Tail(socket)
  /\ LET m == Head(socket)
     IN  \/ m.type = "DIRECTORY_UPDATE" /\ list' = m.list /\ UNCHANGED count
         \/ /\ m.type = "SYNC" /\ UNCHANGED list
            /\ count' = IF m.active <= active THEN count + 1 ELSE count

(* Mutant: every superstep counts. *)
PollEverySync == Take(1)

(* The SYNC with nobody active is the end of a batch.                      *)
Poll == Take(0)

(* wait_until_ready.                                                       *)
WaitUntilReady ==
  /\ pc = "start" /\ Poll
  /\ pc' = IF list' # 0 THEN "args" ELSE "start"
  /\ UNCHANGED <<program, options, arg, input, ctr, chosen, seen, buffer, interrupted,
                 outside, clusterVars, read, sent>>

-----------------------------------------------------------------------------
(* main: the next argument.                                                *)

NextArg == pc' = "args" /\ arg' = arg + 1

Argument ==
  /\ pc = "args" /\ arg <= Len(program)
  /\ LET p == program[arg]
     IN  \/ /\ p.op = "file"
            /\ pc' = "file" /\ input' = p.changes /\ ctr' = 0 /\ seen' = count
            /\ UNCHANGED <<arg, chosen, options>>
         \/ /\ p.op = "rg"
            /\ pc' = "rg" /\ chosen' = {}
            /\ UNCHANGED <<arg, input, ctr, seen, options>>
         \/ /\ p.op = "listen"
            /\ pc' = "listen" /\ ctr' = 0
            /\ UNCHANGED <<arg, input, chosen, seen, options>>
         \/ /\ p.op = "+batch" /\ batch' = p.val /\ NextArg
            /\ UNCHANGED <<input, ctr, chosen, seen, wait, mb>>
         \/ /\ p.op = "+wait+batch" /\ wait' = TRUE /\ NextArg
            /\ UNCHANGED <<input, ctr, chosen, seen, batch, mb>>
         \/ /\ p.op = "+mb" /\ mb' = p.val /\ NextArg
            /\ UNCHANGED <<input, ctr, chosen, seen, batch, wait>>
  /\ UNCHANGED <<program, buffer, count, list, interrupted, socket, outside, clusterVars,
                 read, sent>>

Exit ==
  /\ pc = "args" /\ arg = Len(program) + 1
  /\ pc' = "end"
  /\ UNCHANGED <<program, options, arg, input, ctr, chosen, seen, buffer, count, list, interrupted,
                 socket, outside, clusterVars, read, sent>>

-----------------------------------------------------------------------------
(* parse_file.                                                             *)

(* A line.  In batch mode deletions are sent at once, insertions wait.     *)
Line ==
  /\ pc = "file" /\ ~interrupted /\ input # <<>> /\ Head(input) # <<"bad line">>
  /\ input' = Tail(input) /\ read' = Append(read, Head(input))
  /\ ctr' = IF ctr + 1 >= CtrLimit THEN 0 ELSE ctr + 1
  /\ pc' = IF mb > 0 /\ ctr' % mb = 0 /\ wait THEN "wait" ELSE "file"
  /\ IF batch /\ Head(input)[2]
     THEN Queue(<<Head(input)[1]>>) /\ UNCHANGED sent
     ELSE ChangeEdge(<<Head(input)>>) /\ UNCHANGED buffer
  /\ UNCHANGED <<program, options, arg, chosen, seen, count, list, interrupted, socket,
                 outside, clusterVars>>

(* A line that cannot be parsed ends the process.                          *)
BadLine ==
  /\ pc = "file" /\ ~interrupted /\ input # <<>> /\ Head(input) = <<"bad line">>
  /\ pc' = "thrown"
  /\ UNCHANGED <<program, options, arg, input, ctr, chosen, seen, buffer, count, list, interrupted,
                 socket, outside, clusterVars, read, sent>>

(* The end of the file: what was collected is sent.                        *)
EndOfFile ==
  /\ pc = "file" /\ input = <<>>
  /\ IF batch THEN SendBatch(queued) ELSE UNCHANGED <<queued, sent>>
  /\ IF wait /\ (mb = 0 \/ ctr % mb # 0) THEN pc' = "endwait" /\ UNCHANGED arg ELSE NextArg
  /\ UNCHANGED <<program, options, input, ctr, chosen, seen, size, count, list, interrupted, socket,
                 outside, clusterVars, read>>

(* A step of the loops that wait; cur_batch_count becomes c after mb       *)
(* changes.                                                                *)
WaitStep(c) ==
  /\ pc \in {"wait", "endwait"} /\ ~interrupted
  /\ Poll
  /\ LET over == count' > seen
     IN  /\ pc' = CASE ~over -> pc [] over /\ pc = "wait" -> "file" [] OTHER -> "lastpoll"
         /\ seen' = IF over /\ pc = "wait" THEN c ELSE seen
  /\ UNCHANGED <<program, options, arg, input, ctr, chosen, buffer, interrupted, outside,
                 clusterVars, read, sent>>

(* Mutant: one batch too many. *)
WaitOneMore == WaitStep(count' + 1)

(* Waiting for a batch to end, after mb changes or after the file.         *)
Wait == WaitStep(count')

(* do_poll, which may time out.                                            *)
PollOrTimeout == Poll \/ (socket = <<>> /\ UNCHANGED <<socket, list, count>>)

(* One more do_poll after the file.                                        *)
LastPoll ==
  /\ pc = "lastpoll"
  /\ PollOrTimeout
  /\ NextArg
  /\ UNCHANGED <<program, options, input, ctr, chosen, seen, buffer, interrupted, outside,
                 clusterVars, read, sent>>

(* Ctrl+C: parse_file or listen returns; what was collected stays where it *)
(* is.                                                                     *)
Interrupted ==
  /\ interrupted
  /\ \/ pc \in {"file", "listen", "drain"} /\ UNCHANGED <<socket, list, count>>
     \/ pc \in {"wait", "endwait"} /\ PollOrTimeout
  /\ NextArg
  /\ UNCHANGED <<program, options, input, ctr, chosen, seen, buffer, interrupted, outside,
                 clusterVars, read, sent>>

-----------------------------------------------------------------------------
(* rg: rank r of P draws its share of M edges between N vertices, the      *)
(* sources from its own part of the vertices.  (The test for self-loops    *)
(* has no effect: `continue' goes on to the condition of the loop.)        *)

Share(p) == (p.M \div p.P) + (IF p.r = p.P - 1 THEN p.M % p.P ELSE 0)
Sources(p) ==
  p.r * (p.N \div p.P) .. (IF p.r = p.P - 1 THEN p.N ELSE (p.r + 1) * (p.N \div p.P)) - 1

Rg ==
  /\ pc = "rg"
  /\ LET p == program[arg]
     IN  \/ /\ Cardinality(chosen) = Share(p)
            /\ NextArg
            /\ UNCHANGED <<chosen, read, sent>>
         \/ /\ Cardinality(chosen) < Share(p)
            /\ \E e \in (Sources(p) \X (0 .. p.N - 1)) \ chosen :
                 /\ chosen' = chosen \cup {e}
                 /\ read' = Append(read, <<e, TRUE>>)
                 /\ ChangeEdge(<<<<e, TRUE>>>>)
            /\ UNCHANGED <<pc, arg>>
         \/ /\ Cardinality(chosen) < Share(p) /\ chosen # {}   \* 101 draws chosen before
            /\ pc' = "thrown"
            /\ UNCHANGED <<arg, chosen, read, sent>>
  /\ UNCHANGED <<program, options, input, ctr, seen, buffer, count, list, interrupted, socket, outside,
                 clusterVars>>

-----------------------------------------------------------------------------
(* listen.                                                                 *)

(* Something to read: it is read until nothing is left.                    *)
ListenPoll ==
  /\ pc = "listen" /\ ~interrupted /\ receiver # <<>>
  /\ pc' = "drain"
  /\ UNCHANGED <<program, options, arg, input, ctr, chosen, seen, buffer, count, list, interrupted,
                 socket, outside, clusterVars, read, sent>>

(* A pause; left stays in changes_.                                        *)
Pause(left) ==
  /\ pc = "listen" /\ ~interrupted /\ receiver = <<>> /\ ctr > 0
  /\ ctr' = 0
  /\ IF batch /\ left # queued THEN SendVectors(queued, left) ELSE UNCHANGED <<queued, sent>>
  /\ UNCHANGED <<program, options, pc, arg, input, chosen, seen, size, count, list, interrupted,
                 socket, outside, clusterVars, read>>

(* Mutant: only MID_BATCH_SIZE edges are sent. *)
ListenTimeoutForgetting == Pause(queued)

(* A timeout ends what the streamer takes for a batch and sends it.        *)
(* batch_size_ is not reset.                                               *)
ListenTimeout == Pause(<<>>)

(* A message: parse_incoming_batch.                                        *)
ListenRead ==
  /\ pc = "drain" /\ ~interrupted /\ receiver # <<>>
  /\ LET es == Head(receiver)
         cs == [i \in DOMAIN es |-> <<es[i], TRUE>>]
     IN  /\ receiver' = Tail(receiver)
         /\ read' = read \o cs
         /\ ctr' = ctr + Len(es)
         /\ CASE ~batch -> ChangeEdge(cs) /\ UNCHANGED buffer
              [] batch /\ size + Len(es) >= MidBatchSize -> SendBatch(Placed(es)) /\ size' = 0
              [] OTHER -> Queue(es) /\ UNCHANGED sent
  /\ UNCHANGED <<program, options, pc, arg, input, chosen, seen, count, list, interrupted, socket,
                 feed, clusterVars>>

ListenEmpty ==
  /\ pc = "drain" /\ ~interrupted /\ receiver = <<>>
  /\ pc' = "listen"
  /\ UNCHANGED <<program, options, arg, input, ctr, chosen, seen, buffer, count, list, interrupted,
                 socket, outside, clusterVars, read, sent>>

(* The streamer's next step.                                               *)
Stream ==
  \/ WaitUntilReady \/ Argument \/ Exit
  \/ Line \/ BadLine \/ EndOfFile \/ Wait \/ LastPoll \/ Interrupted
  \/ Rg
  \/ ListenPoll \/ ListenTimeout \/ ListenRead \/ ListenEmpty

-----------------------------------------------------------------------------
(* The agents, their directory, the feeder and the user.                   *)

(* What is on its way to agent a.                                          *)
OnItsWay(a) == {i \in DOMAIN sent \ (arrived \cup running \cup finished) : sent[i].to = a}

(* Messages to an agent arrive in the order they were sent.                *)
Deliver(a) ==
  \E first \in OnItsWay(a) :
    /\ \A i \in OnItsWay(a) : first <= i
    /\ arrived' = arrived \cup {i \in OnItsWay(a) : sent[i].msg = sent[first].msg}
    /\ busy' = (busy \/ ~sent[first].vector)
    /\ UNCHANGED <<program, options, place, buffer, count, list, interrupted, socket, outside, newest,
                   running, finished, read, sent>>

(* HAVE_UPDATE: the changes that wait become those of the batch.           *)
BatchBegins ==
  /\ busy /\ running = {} /\ arrived # {}
  /\ running' = arrived /\ arrived' = {}
  /\ UNCHANGED <<program, options, place, buffer, count, list, interrupted, socket, outside,
                 newest, busy, finished, read, sent>>

(* The supersteps: SYNCs, of which the last has nobody active.  A batch    *)
(* has two here.                                                           *)
BatchEnds ==
  /\ running # {}
  /\ finished' = finished \cup running /\ running' = {}
  /\ busy' = (arrived # {})
  /\ socket' = IF wait THEN socket \o <<[type |-> "SYNC", active |-> 1], [type |-> "SYNC", active |-> 0]>>
               ELSE socket
  /\ UNCHANGED <<program, options, place, buffer, count, list, interrupted, outside, newest,
                 arrived, read, sent>>

(* The directory publishes a new list of agents.                           *)
NewList ==
  /\ newest + 1 \in Lists
  /\ newest' = newest + 1
  /\ socket' = Append(socket, [type |-> "DIRECTORY_UPDATE", list |-> newest + 1])
  /\ UNCHANGED <<program, options, place, buffer, count, list, interrupted, outside, busy,
                 arrived, running, finished, read, sent>>

Feed ==
  /\ feed # <<>> /\ pc \in {"listen", "drain"}
  /\ feed' = Tail(feed) /\ receiver' = Append(receiver, Head(feed))
  /\ UNCHANGED <<program, options, place, buffer, count, list, interrupted, socket, clusterVars,
                 read, sent>>

(* Ctrl+C, once there is a list of agents.                                 *)
Interrupt ==
  /\ ~interrupted /\ pc \notin {"start", "end", "thrown"}
  /\ interrupted' = TRUE
  /\ UNCHANGED <<program, options, place, buffer, count, list, socket, outside, clusterVars, read,
                 sent>>

(* Nothing more happens: the process has ended or only listens.            *)
Quiet ==
  /\ pc \in {"end", "thrown"} \/ (pc = "listen" /\ receiver = <<>> /\ ctr = 0)
  /\ UNCHANGED vars

Next ==
  \/ Stream
  \/ \E a \in Agent : Deliver(a)
  \/ BatchBegins \/ BatchEnds \/ NewList \/ Feed \/ Interrupt \/ Quiet

Spec == Init /\ [][Next]_vars

(* The streamer runs, messages arrive and batches end.                     *)
FairSpec ==
  /\ Spec
  /\ WF_vars(Stream) /\ WF_vars(BatchBegins) /\ WF_vars(BatchEnds)
  /\ \A a \in Agent : WF_vars(Deliver(a))

-----------------------------------------------------------------------------
(* Properties.                                                             *)

TypeOK ==
  /\ pc \in {"start", "args", "file", "wait", "endwait", "lastpoll", "rg", "listen", "drain", "end",
             "thrown"}
  /\ arg \in 1 .. Len(program) + 1 /\ ctr \in Nat /\ chosen \subseteq Edge
  /\ queued \in Seq([edge : Edge, to : Agent]) /\ size \in Nat
  /\ count \in Nat /\ seen \in 0 .. count /\ list \in Lists \cup {0}
  /\ arrived \cup running \cup finished \subseteq DOMAIN sent

Occurrences(s, x) == Cardinality({i \in DOMAIN s : s[i] = x})

(* Whatever the options, the mini-batches, the timeouts and the new lists  *)
(* of agents: every change that was read was sent once, or waits in        *)
(* changes_; and if none ever waited they were sent in the order of the    *)
(* input (streamer.cpp:161-282, 386-405, 416-472).                         *)
InputSent ==
  LET out == [i \in DOMAIN sent |-> sent[i].change]
  IN  /\ \A c \in Edge \X BOOLEAN :
           Occurrences(read, c) = Occurrences(out, c)
             + (IF c[2] THEN Cardinality({i \in DOMAIN queued : queued[i].edge = c[1]}) ELSE 0)
      /\ ((\A i \in DOMAIN program : program[i].op = "+batch" => ~program[i].val)
            /\ program[1].op = "+batch") => out = read

(* With +no+batch +wait+batch +mb 1, and nobody else who streams, a change *)
(* is read only when all earlier ones are in a batch that has ended        *)
(* (streamer.cpp:246-260).  With a larger mini-batch a SYNC may be that of *)
(* a batch begun before the mini-batch was complete, and this is not so.   *)
WaitMeansDone ==
  (pc = "file" /\ ~interrupted /\ \A i \in DOMAIN sent : sent[i].paced) => finished = DOMAIN sent

(* A wait of +no+batch on a file that is not empty ends: each takes one    *)
(* end of a batch, and there is one for it (streamer.cpp:249, 274); and    *)
(* edges do not stay in changes_ when the feeder pauses (streamer.cpp:     *)
(* 340-360).                                                               *)
EverythingHandled ==
  <>[](\/ pc = "thrown" \/ interrupted
       \/ pc \in {"end", "listen"} /\ receiver = <<>> /\ queued = <<>>)
=============================================================================
