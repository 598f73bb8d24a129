---------------------------- MODULE MCDocuments ----------------------------
(* Instances of Documents for TLC. *)
EXTENDS Documents, TLC

CONSTANTS d1, d2, o1, o2, a12, a1, a2, l1, l2, t1, t2, t3, t4, t5, r1, n1

(***************************************************************************)
(* One run of two documents. Each document has a statement; an entity of   *)
(* one aligns with an entity of the other, and an entity of each is looked *)
(* up. An alignment is derived from the documents that can be traced, what *)
(* was looked up from both documents, as they are the run.                 *)
(***************************************************************************)
Sources ==
  (o1 :> {d1}) @@ (o2 :> {d2})
  @@ (a12 :> {d1, d2}) @@ (a1 :> {d1}) @@ (a2 :> {d2})
  @@ (l1 :> {d1, d2}) @@ (l2 :> {d1, d2})
Kinds ==
  [o \in Original |-> CASE o \in {o1, o2} -> "extraction"
                        [] o \in {a12, a1, a2} -> "alignment"
                        [] OTHER -> "lookup"]
Homes ==
  [o \in Original |-> CASE o \in {o1, l1} -> {d1}
                        [] o \in {o2, l2} -> {d2}
                        [] OTHER -> Doc]
Runs == [o \in Original |-> r1]
Triples ==
  [o \in Original |-> CASE o = o1 -> t1
                        [] o = o2 -> t2
                        [] Kinds[o] = "alignment" -> t3
                        [] o = l1 -> t4
                        [] o = l2 -> t5]
Batches == [s \in Run |-> {Doc}]
NoEdits == [o \in Original |-> {}]

\* The two documents with what is derived from them can be exchanged.
Exchange ==
  (d1 :> d2) @@ (o1 :> o2) @@ (a1 :> a2) @@ (l1 :> l2) @@ (t1 :> t2) @@ (t4 :> t5)
Symmetry ==
  {Exchange @@ [x \in {d2, o2, a2, l2, t2, t5} |-> CHOOSE y \in DOMAIN Exchange : Exchange[y] = x]}
=============================================================================
