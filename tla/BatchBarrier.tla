---------------------------- MODULE BatchBarrier ----------------------------
(***************************************************************************)
(* What the agents of ElGA are promised by their directories, without the  *)
(* messages: a bulk-synchronous computation.                               *)
(*                                                                         *)
(* A run of the system is a sequence of batches, a batch is the update of  *)
(* the graph followed by supersteps 0, 1, ... of the algorithm.  Position  *)
(* <<b, -1>> is "idle or updating the graph for batch b" and <<b, k>> is   *)
(* "in superstep k of batch b".  An agent works at its position, then      *)
(* waits; it moves only when every agent has finished the same position,   *)
(* and all agents move to the same next one, although each does so at a    *)
(* time of its own.  This is the comment of Agent::pre_poll (agent.cpp:    *)
(* 183-188) and of the states PROCESS, JOIN_BARRIER and WAIT_FOR_SYNC      *)
(* (agent.hpp:90-100) as a specification.                                  *)
(***************************************************************************)
EXTENDS Integers

CONSTANT Agent

VARIABLES
  pos,    \* pos[a] = <<batch, superstep>>, superstep -1 before the first
  loc     \* loc[a]: "work" or "wait"

barrierVars == <<pos, loc>>

Position == Nat \X (Nat \cup {-1})

TypeOK ==
  /\ pos \in [Agent -> Position]
  /\ loc \in [Agent -> {"work", "wait"}]

(* Where the agents at p may go together.  After the update phase comes    *)
(* superstep 0; after a superstep comes the next one, or the next batch.   *)
Successors(p) ==
  IF p[2] = -1 THEN {<<p[1], 0>>}
               ELSE {<<p[1], p[2] + 1>>, <<p[1] + 1, -1>>}

Init ==
  /\ pos = [a \in Agent |-> <<0, -1>>]
  /\ loc = [a \in Agent |-> "work"]

(* The agent has done its part at its position and tells the directory.    *)
Arrive(a) ==
  /\ loc[a] = "work"
  /\ loc' = [loc EXCEPT ![a] = "wait"]
  /\ UNCHANGED pos

(* The agent is released to q: everyone else is still waiting at the       *)
(* position it leaves, or has been released to the very same q.  It may    *)
(* finish q within the same step.                                          *)
Pass(a) ==
  /\ loc[a] = "wait"
  /\ \E q \in Successors(pos[a]) :
       /\ \A b \in Agent : pos[b] = q \/ (pos[b] = pos[a] /\ loc[b] = "wait")
       /\ pos' = [pos EXCEPT ![a] = q]
  /\ \E l \in {"work", "wait"} : loc' = [loc EXCEPT ![a] = l]

Next == \E a \in Agent : Arrive(a) \/ Pass(a)

Spec == Init /\ [][Next]_barrierVars

-----------------------------------------------------------------------------
(* b has been released from the position where a still waits.              *)
OneAhead(a, b) == loc[a] = "wait" /\ pos[b] \in Successors(pos[a])

(* Any two agents are in the same superstep of the same batch, or one of   *)
(* them has just been released and the other has finished the superstep    *)
(* it is released from: nobody computes with values of a superstep that    *)
(* somebody has not finished (the barrier of agent.cpp:183-188).           *)
LockStep ==
  \A a, b \in Agent : pos[a] = pos[b] \/ OneAhead(a, b) \/ OneAhead(b, a)
=============================================================================
