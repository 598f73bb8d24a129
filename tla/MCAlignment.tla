---------------------------- MODULE MCAlignment ----------------------------
(* Instances of Alignment for TLC. *)
EXTENDS Alignment, TLC

CONSTANTS d1, d2, d3, r1, r2

(***************************************************************************)
(* A paper is cited with its DOI and with that of its preprint, and again  *)
(* in a later run; two documents use one IRI for something else and for    *)
(* the paper. Two conferences have names that only their embeddings show   *)
(* to be alike.                                                            *)
(***************************************************************************)
Batches == [d \in {d1, d2, d3} |-> IF d = d3 THEN r2 ELSE r1]
Paper(u, title, dois) == {<<u, "type", "Article">>, <<u, "title", title>>} \cup {<<u, "doi", v>> : v \in dois}
Conf(u, name) == {<<u, "type", "Conference">>, <<u, "name", name>>}
Texts ==
  (d1 :> Paper("a1", "T", {"10.1"}) \cup Paper("s", "U", {}))
  @@ (d2 :> Paper("a2", "T", {"10.2"}) \cup Paper("s", "T", {"10.1"}))
  @@ (d3 :> Paper("a3", "T", {"10.1"}) \cup Conf("c1", "ICSE 24") \cup Conf("c2", "Int. Conf. on SE"))

TypeNames == <<"Article", "Conference">>
\* config/scholarySchema/alignment_config.yaml
Shipped ==
  ("Article" :>
     [unique_keys |-> {"identifier", "doi", "issn", "eissn"}, threshold |-> 85,
      weights |-> [structural |-> 10, syntactic |-> 90, semantic |-> 0],
      comparison_predicates |-> {"title"}, semantic_text_predicates |-> {"name"},
      sparsity_penalty |-> 100, sparsity_max_fields |-> 1, hard_match_predicates |-> << >>])
  @@ ("Conference" :>
     [unique_keys |-> {"identifier", "doi", "issn", "eissn", "startDate", "edition"}, threshold |-> 82,
      weights |-> [structural |-> 5, syntactic |-> 15, semantic |-> 80],
      comparison_predicates |-> {"name", "location"}, semantic_text_predicates |-> {"name", "location"},
      sparsity_penalty |-> 100, sparsity_max_fields |-> 1, hard_match_predicates |-> << >>])
Strings == {"T", "U", "ICSE 24", "Int. Conf. on SE"}
Equal == [v, w \in Strings |-> IF v = w THEN 100 ELSE 60]
Similar(v, w) == 95

Touched ==
  {{<<d1, <<"a1", "doi", "10.1">>>>},
   {<<d1, <<"a1", "type", "Article">>>>, <<d1, <<"a1", "title", "T">>>>}}
=============================================================================
