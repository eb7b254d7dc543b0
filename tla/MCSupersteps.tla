---------------------------- MODULE MCSupersteps ----------------------------
(* Instances of Supersteps for TLC.                                        *)
EXTENDS Supersteps, TLC

CONSTANTS a1, a2, a3

TwoOwners == (1 :> a1) @@ (2 :> a2) @@ (3 :> a2) @@ (4 :> a1)
ThreeOwners == (1 :> a1) @@ (2 :> a2) @@ (3 :> a2) @@ (4 :> a3)

(* A path through all four vertices that changes agents, a triangle with a *)
(* tail, edges in both directions, and two components.                     *)
Path      == {<<4, 2>>, <<3, 4>>, <<1, 3>>}
Triangle  == {<<1, 2>>, <<2, 3>>, <<3, 1>>, <<4, 3>>}
BothWays  == {<<1, 2>>, <<2, 1>>, <<4, 2>>, <<4, 1>>}
Apart     == {<<2, 1>>, <<3, 4>>}
Shapes    == {Path, Triangle, BothWays, Apart}
Bridge    == {<<2, 3>>}
=============================================================================
