------------------------------ MODULE MCLookup ------------------------------
(* Instances of Lookup for TLC. *)
EXTENDS Lookup, TLC

(****************************************************************************)
(* A person of an institution. Three people in ORCID have that name, one of *)
(* them is at the institution; two have an item in Wikidata, like someone   *)
(* without an ORCID. The text may give the ORCID of one of them, one that   *)
(* does not exist, an identifier that is none, two of these, or nothing.    *)
(****************************************************************************)
Entities == {"p", "i"}
Preds == {"identifier", "orcid", "name", "affiliation"}
People == {"0001", "0002", "0003"}
Items == {"Q1", "Q2", "Q3", "Qbook", "Qinst"}
Values == People \cup {"0009", "url1", "url2", "url9", "urlx", "x", "Ann", "Inst", "Book"}
Types == [e \in Entities |-> IF e = "p" THEN "Person" ELSE "Organization"]
Relations == [e \in Entities |-> ("affiliation" :> IF e = "p" THEN <<"i">> ELSE << >>)]
Segments ==
  [v \in Values |-> CASE v = "url1" -> "0001" [] v = "url2" -> "0002" [] v = "url9" -> "0009"
                      [] v = "urlx" -> "x" [] OTHER -> v]

Nothing == [p \in Preds |-> << >>]
Extracted(ids, orcids) ==
  [e \in Entities |->
     IF e = "p" THEN [Nothing EXCEPT !["name"] = <<"Ann">>, !["identifier"] = ids, !["orcid"] = orcids]
     ELSE [Nothing EXCEPT !["name"] = <<"Inst">>]]
Texts ==
  {Extracted(ids, << >>) : ids \in {<< >>, <<"url1">>, <<"url9">>, <<"urlx">>, <<"url9", "url2">>}}
    \cup {Extracted(<< >>, <<"0002">>)}

Derivations ==
  [type \in {"Person", "Organization"} |->
     IF type = "Person"
     THEN <<[as |-> "orcid", from_literal |-> "identifier"],
            [as |-> "affiliation", relation |-> "affiliation", relation_literal |-> "name"]>>
     ELSE << >>]

Rule(preds) == [predicates |-> preds, optional |-> {}, require_all |-> TRUE]
Person(require, rules, threshold, hard, fuzzy) ==
  [require_any_of |-> require, search_queries |-> rules, comparison_predicates |-> {"name"},
   hard_match_predicates |-> hard, syntactic |-> 100, threshold |-> threshold,
   fuzzy_match_penalty |-> fuzzy, unresolved_orcid_penalty |-> 40]
Organization ==
  [require_any_of |-> {}, search_queries |-> <<Rule(<<"name">>)>>, comparison_predicates |-> {"name"},
   hard_match_predicates |-> << >>, syntactic |-> 85, threshold |-> 90,
   fuzzy_match_penalty |-> 0, unresolved_orcid_penalty |-> 0]
\* config/scholarySchema/lookup_config.yaml, with one predicate for all names.
Shipped ==
  [source \in Source |-> [type \in {"Person", "Organization"} |->
     CASE source = "orcid" /\ type = "Person" ->
            Person({"affiliation"}, <<Rule(<<"name", "affiliation">>), Rule(<<"name">>)>>, 90, ("orcid" :> 100), 5)
       [] source = "orcid" /\ type = "Organization" -> None
       [] source = "wikidata" /\ type = "Person" ->
            Person({"name"}, <<Rule(<<"name">>)>>, 95, ("name" :> 98), 10)
       [] OTHER -> Organization]]

SearchHits(source, q) ==
  CASE source = "orcid" /\ "affiliation" \in DOMAIN q -> <<"0001">>
    [] source = "orcid" -> <<"0002", "0003">>
    [] "name" \in DOMAIN q /\ q["name"] = "Ann" -> <<"Q3", "Q2">>
    [] OTHER -> <<"Qbook", "Qinst">>
ItemOf == [id \in Values |-> CASE id = "0001" -> "Q1" [] id = "0002" -> "Q2" [] OTHER -> None]
InstanceOf ==
  [u \in Items |-> CASE u = "Qinst" -> {"Organization"} [] u = "Qbook" -> {} [] OTHER -> {"Person"}]
SameName(name, orcids) == [Nothing EXCEPT !["name"] = <<name>>, !["orcid"] = orcids]
WhatTheySay ==
  [u \in People \cup Items |->
     CASE u \in People -> SameName("Ann", <<u>>)
       [] u = "Q1" -> SameName("Ann", <<"0001">>)
       [] u = "Q2" -> SameName("Ann", <<"0002">>)
       [] u = "Q3" -> SameName("Ann", << >>)
       [] u = "Qbook" -> SameName("Book", << >>)
       [] OTHER -> SameName("Inst", << >>)]
Equal == [v, w \in Values |-> IF v = w THEN 100 ELSE 70]
=============================================================================
