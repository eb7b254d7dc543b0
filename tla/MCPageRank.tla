----------------------------- MODULE MCPageRank -----------------------------
(* Instances of PageRank for TLC.                                          *)
EXTENDS PageRank, TLC

CONSTANTS a1, a2, a3

ThreeOwners == (1 :> a1) @@ (2 :> a2) @@ (3 :> a2) @@ (4 :> a3) @@ (5 :> a3)

(* Around the agents, one way only, so that an agent waits for nobody,     *)
(* edges in both directions, and an agent without vertices.                *)
Ring   == {<<1, 2>>, <<2, 4>>, <<4, 1>>, <<3, 2>>, <<3, 5>>}
OneWay == {<<1, 2>>, <<1, 3>>, <<2, 4>>, <<3, 5>>}
Both   == {<<1, 2>>, <<2, 1>>, <<1, 4>>, <<5, 3>>, <<4, 4>>}
Empty  == {<<2, 4>>, <<3, 4>>, <<5, 2>>}
Shapes == {Ring, OneWay, Both, Empty}
Local  == {<<2, 3>>, <<3, 2>>}
=============================================================================
