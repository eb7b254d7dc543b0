---------------------------- MODULE MCGraphBatch ----------------------------
(* Instances of GraphBatch for TLC: agent a1 owns two vertices.            *)
EXTENDS GraphBatch, TLC

CONSTANTS a1, a2, a3, v1, v2, v3, w1

TwoOwners == (v1 :> a1) @@ (w1 :> a1) @@ (v2 :> a2)
ThreeOwners == TwoOwners @@ (v3 :> a3)

(* Two edges between the same agents, one back, and one to a third agent   *)
(* that no edge leads away from.                                           *)
Path == {<<v1, v2>>, <<v2, v1>>, <<w1, v2>>, <<v2, v3>>}
TwoWay == {<<v1, v2>>, <<v2, v1>>}
Local == {<<v1, w1>>, <<v2, v2>>}
Cross == {<<v1, v2>>}
=============================================================================
