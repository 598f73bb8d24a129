------------------------------ MODULE MCExport ------------------------------
(* Instances of Export for TLC. *)
EXTENDS Export, TLC

CONSTANTS x, xa, xb, y, ya, name, p, same, l

(***************************************************************************)
(* Four entities that four pairs join in a cycle; two of their names       *)
(* differ in the hashes only.                                              *)
(***************************************************************************)
Chain == {<<xa, xb>>, <<xb, ya>>, <<y, ya>>, <<y, xa>>}
About == {<<xa, p, xa>>, <<xa, p, ya>>, <<xb, name, l>>, <<y, p, xb>>}
Once == (xa :> x) @@ (xb :> x) @@ (x :> x) @@ (ya :> y) @@ (y :> y)
=============================================================================
