------------------------------ MODULE MCElastic ------------------------------
(* Instances of Elastic for TLC.                                           *)
EXTENDS Elastic, TLC

CONSTANTS a1, a2, a3, d1, d2

(* The keys are spread over the ring, one is above all positions; each     *)
(* agent has two virtual agents.                                           *)
Positions == (a1 :> <<10, 40>>) @@ (a2 :> <<20, 60>>) @@ (a3 :> <<30, 50>>)
Hashes    == (1 :> 10) @@ (2 :> 25) @@ (3 :> 45) @@ (4 :> 65)
Copies    == (1 :> 1) @@ (2 :> 2) @@ (3 :> 1) @@ (4 :> 1)

OneHome   == [a \in {a1, a2, a3} |-> d1]
TwoHomes  == (a1 :> d1) @@ (a2 :> d2) @@ (a3 :> d1)
EitherHome == {OneHome, TwoHomes}

Star == {{<<2, 1>>, <<2, 3>>, <<4, 3>>}}
Late == {<<1, 4>>}
=============================================================================
