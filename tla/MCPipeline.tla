----------------------------- MODULE MCPipeline -----------------------------
(* Instances of Pipeline for TLC. *)
EXTENDS Pipeline, TLC

CONSTANTS d1, d2, d3, r1, r2

OneRun == [d \in Doc |-> r1]
OneEach == (d1 :> r1) @@ (d2 :> r2)
TwoAndOne == (d1 :> r1) @@ (d2 :> r1) @@ (d3 :> r2)

AllPairs == {p \in SUBSET Doc : Cardinality(p) = 2}
=============================================================================
