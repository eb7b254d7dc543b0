---------------------------- MODULE MCBootstrap -----------------------------
(* Instances of Bootstrap for TLC.                                         *)
EXTENDS Bootstrap, TLC

CONSTANTS a1, a2, d1, d2, d3, c1, c2
=============================================================================
