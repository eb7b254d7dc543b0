---------------------------- MODULE MCBatchCycle ----------------------------
(* Instances of BatchCycle for TLC.                                        *)
EXTENDS BatchCycle, TLC

CONSTANTS a1, a2, a3, d1, d2, d3

OneDirectory == [a \in Agent |-> d1]
TwoDirectories == (a1 :> d1) @@ (a2 :> d2) @@ (a3 :> d2)
HomeTwo == (a1 :> d1) @@ (a2 :> d2)
HomeThree == (a1 :> d1) @@ (a2 :> d2) @@ (a3 :> d3)

Symmetry == Permutations(Agent)
=============================================================================
