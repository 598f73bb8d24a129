------------------------------- MODULE Lookup -------------------------------
(***************************************************************************)
(* The lookup of a run's entities in ORCID and then in Wikidata            *)
(* (pipeline/lookup.py, pipeline/lookup_clients). A request that fails     *)
(* returns what a service that knows nothing would return. Scores are      *)
(* percents of percents; how alike two values are is a constant.           *)
(***************************************************************************)
EXTENDS Integers, SequencesExt

CONSTANTS
  Entity,
  Predicate,      \* names of literals; "orcid" and "name" are among them
  Value,          \* values of literals, ORCIDs included
  Orcid,          \* ORCIDs that have a record, each the IRI of a candidate
  WellFormed,     \* values that have the form of an ORCID
  Item,           \* items of Wikidata
  TypeOf,         \* type of each entity
  Related,        \* entities that an entity is related to, by relation
  Segment,        \* what follows the last / of a value
  Initial,        \* literals the extraction may have found
  Rules,          \* literal_derivation, by type
  Config,         \* what each source is configured to do, by type
  CandidateFacts, \* literals of each candidate
  Claimed,        \* item a service names for an ORCID, or None
  Hits(_, _),     \* what the search of a source finds for a query
  Classes,        \* types whose instance_of each item satisfies
  Unrestricted,   \* types without instance_of
  Alike,          \* similarity of two values, in percent
  Close,          \* cosine of their embeddings, in percent
  Limit,          \* candidate_limit
  MaxFailures,    \* bound on requests of one lookup of one entity that fail
  None

Source == {"orcid", "wikidata"}
Candidate == Orcid \cup Item
Literals == [Predicate -> Seq(Value)]

\* What can be asked for: values of some predicates.
Asked == UNION {[preds -> Value] : preds \in SUBSET Predicate}

RuleOK(e, rule) ==
  /\ rule.as \in Predicate
  /\ IF "from_literal" \in DOMAIN rule THEN rule.from_literal \in Predicate
     ELSE rule.relation_literal \in Predicate /\ Related[e][rule.relation] \in Seq(Entity)

SearchRule == [predicates: Seq(Predicate) \ {<< >>}, optional: SUBSET Predicate, require_all: BOOLEAN]

\* Nothing checks a configuration; fractions are fractions.
ConfigOK(cfg) ==
  /\ cfg.require_any_of \subseteq Predicate
  /\ cfg.search_queries \in Seq(SearchRule)
  /\ cfg.comparison_predicates \subseteq Predicate
  /\ DOMAIN cfg.hard_match_predicates \subseteq Predicate
  /\ \A p \in DOMAIN cfg.hard_match_predicates : cfg.hard_match_predicates[p] \in 0..100
  /\ cfg.syntactic \in 0..100 /\ cfg.threshold \in 1..100
  /\ cfg.fuzzy_match_penalty \in 0..99 /\ cfg.unresolved_orcid_penalty \in 0..100

ASSUME LookupAssumption ==
  /\ IsFiniteSet(Predicate) /\ {"orcid", "name"} \subseteq Predicate
  /\ Orcid \subseteq Value /\ None \notin Candidate
  /\ Segment \in [Value -> Value]
  /\ Initial \subseteq [Entity -> Literals]
  /\ CandidateFacts \in [Candidate -> Literals]
  /\ \A id \in WellFormed : Claimed[id] \in Item \cup {None}
  /\ \A q \in Asked : Hits("orcid", q) \in Seq(Orcid) /\ Hits("wikidata", q) \in Seq(Item)
  /\ \A e \in Entity :
       /\ Rules[TypeOf[e]] \in Seq(ToSet(Rules[TypeOf[e]]))
       /\ \A rule \in ToSet(Rules[TypeOf[e]]) : RuleOK(e, rule)
       /\ \A source \in Source :
            Config[source][TypeOf[e]] # None => ConfigOK(Config[source][TypeOf[e]])
  /\ Alike \in [Value \X Value -> 0..100] /\ Close \in [Value \X Value -> -100..100]
  /\ Limit \in Nat

VARIABLES
  known,     \* literals as they were extracted
  literals,  \* literals with what was derived from the neighbours
  found,     \* ORCIDs that the ORCID lookup appended
  stage,
  todo,      \* entities the stage has not come to
  cands,     \* candidates of the source that is asked
  results    \* what was written: source, entity, candidate and score

vars == <<known, literals, found, stage, todo, cands, results>>

Flagged == [uri: Candidate, fuzzy: BOOLEAN, unresolved: BOOLEAN]

TypeOK ==
  /\ known \in Initial
  /\ \A e \in Entity : literals[e] \in Literals
  /\ \A e \in Entity : found[e] \in Seq(Orcid)
  /\ stage \in {"derive", "orcid", "wikidata", "done"}
  /\ todo \subseteq Entity
  /\ \A e \in Entity : cands[e] \in Seq(Flagged) /\ Len(cands[e]) <= Limit
  /\ results \subseteq [source: Source, entity: Entity, uri: Candidate, score: 1..10000]

Init ==
  /\ known \in Initial
  /\ literals = known
  /\ found = [e \in Entity |-> << >>]
  /\ stage = "derive"
  /\ todo = Entity
  /\ cands = [e \in Entity |-> << >>]
  /\ results = {}

distinct(seq) == FoldLeft(LAMBDA acc, v : IF Contains(acc, v) THEN acc ELSE Append(acc, v), << >>, seq)
upto(seq, n) == SubSeq(seq, 1, IF Len(seq) < n THEN Len(seq) ELSE n)
map(op(_), seq) == [i \in 1..Len(seq) |-> op(seq[i])]
keep(test(_), seq) == FlattenSeq(map(LAMBDA v : IF test(v) THEN <<v>> ELSE << >>, seq))

Facts(e) == [literals[e] EXCEPT !["orcid"] = distinct(@ \o found[e])]
-----------------------------------------------------------------------------
(* derive_lookup_literals *)

derived(lits, e, rule) ==
  IF "from_literal" \in DOMAIN rule THEN map(LAMBDA v : Segment[v], lits[e][rule.from_literal])
  ELSE FlattenSeq(map(LAMBDA other : lits[other][rule.relation_literal], Related[e][rule.relation]))

\* A wrong apply_rule: what the rule does not find is forgotten.
apply_rule_always(lits, e, rule) ==
  [lits EXCEPT ![e][rule.as] = distinct(derived(lits, e, rule))]

apply_rule(lits, e, rule) ==
  IF derived(lits, e, rule) = << >> THEN lits
  ELSE [lits EXCEPT ![e][rule.as] = distinct(derived(lits, e, rule))]

\* The entities come from a graph, in any order, and are changed in place.
Derive(e) ==
  /\ stage = "derive" /\ e \in todo
  /\ literals' = FoldLeft(LAMBDA lits, rule : apply_rule(lits, e, rule), literals, Rules[TypeOf[e]])
  /\ todo' = IF todo = {e} THEN Entity ELSE todo \ {e}
  /\ stage' = IF todo = {e} THEN "orcid" ELSE stage
  /\ UNCHANGED <<known, found, cands, results>>
-----------------------------------------------------------------------------
(* Queries *)

\* The first value of each predicate, or each value of the only one.
value_sets(lits, rule, optional) ==
  LET some == {p \in ToSet(rule.predicates) : lits[p] # << >>}
      extra == {p \in optional : lits[p] # << >>}
      with_optional(value_set) ==
        [p \in DOMAIN value_set \cup extra |-> IF p \in extra THEN lits[p][1] ELSE value_set[p]]
  IN IF some = {} \/ (rule.require_all /\ some # ToSet(rule.predicates)) THEN << >>
     ELSE IF Len(rule.predicates) = 1
          THEN map(LAMBDA v : with_optional([p \in some |-> v]), lits[rule.predicates[1]])
          ELSE <<with_optional([p \in some |-> lits[p][1]])>>

resolve_rule_value_sets(source, lits, rule) ==
  value_sets(lits, rule, IF source = "orcid" THEN rule.optional ELSE {})

has_sufficient_data(lits, cfg) ==
  cfg.require_any_of = {} \/ \E p \in cfg.require_any_of : lits[p] # << >>

queries(source, lits, cfg) ==
  distinct(FlattenSeq(map(LAMBDA rule : resolve_rule_value_sets(source, lits, rule), cfg.search_queries)))
-----------------------------------------------------------------------------
(* Candidates; F is the set of requests that fail *)

fetch_wikidata_entity_details(item, F) == IF <<"details", item>> \in F THEN {} ELSE Classes[item]

passes_class_filter(uri, type, F) ==
  uri \in Orcid \/ type \in Unrestricted \/ type \in fetch_wikidata_entity_details(uri, F)

\* A wrong as_candidates: nothing tells what was found by name from what was verified.
as_verified(uris, fuzzy, unresolved) ==
  map(LAMBDA u : [uri |-> u, fuzzy |-> FALSE, unresolved |-> unresolved], uris)

as_candidates(uris, fuzzy, unresolved) ==
  map(LAMBDA u : [uri |-> u, fuzzy |-> fuzzy, unresolved |-> unresolved], uris)

\* search_orcid, search_wikidata
search(source, q, F) ==
  IF <<"search", q>> \in F THEN << >> ELSE upto(Hits(source, q), Limit)

\* The candidates the queries find, in the order they find them.
hits(source, lits, type, F) ==
  LET asked == queries(source, lits, Config[source][type])
      uris == distinct(FlattenSeq(map(LAMBDA q : search(source, q, F), asked)))
  IN keep(LAMBDA u : passes_class_filter(u, type, F), uris)

\* A wrong search_candidates: only each query is limited.
search_unbounded(source, lits, type, F, unresolved) ==
  as_candidates(hits(source, lits, type, F), TRUE, unresolved)

search_candidates(source, lits, type, F, unresolved) ==
  upto(as_candidates(hits(source, lits, type, F), TRUE, unresolved), Limit)

fetch_orcid_record(id, F) ==
  IF id \in Orcid /\ <<"known", id>> \notin F THEN id ELSE None

search_wikidata_by_orcid(id, F) ==
  IF id \in WellFormed /\ <<"known", id>> \notin F THEN Claimed[id] ELSE None

known_candidates(source, ids, type, F) ==
  LET resolve(id) == IF source = "orcid" THEN fetch_orcid_record(id, F) ELSE search_wikidata_by_orcid(id, F)
      uris == map(resolve, upto(ids, Limit))
  IN as_candidates(keep(LAMBDA u : u # None /\ passes_class_filter(u, type, F), uris), FALSE, FALSE)

\* A wrong generate_candidates: the search after a known ORCID is like any other.
generate_unflagged(source, lits, type, F) ==
  LET verified == known_candidates(source, lits["orcid"], type, F)
  IN IF verified # << >> THEN verified
     ELSE search_candidates(source, lits, type, F, FALSE)

generate_candidates(source, lits, type, F) ==
  LET verified == known_candidates(source, lits["orcid"], type, F)
  IN IF verified # << >> THEN verified
     ELSE search_candidates(source, lits, type, F, lits["orcid"] # << >>)

\* query_orcid_for_entities, query_wikidata_for_entities
query(source, e, lits, F) ==
  LET cfg == Config[source][TypeOf[e]]
  IN IF cfg = None THEN << >>
     ELSE IF lits["orcid"] = << >> /\ ~ has_sufficient_data(lits, cfg) THEN << >>
     ELSE generate_candidates(source, lits, TypeOf[e], F)

\* Requests that a lookup of e may send.
Requests(source, lits, e) ==
  LET cfg == Config[source][TypeOf[e]]
  IN IF cfg = None THEN {}
     ELSE {<<"known", id>> : id \in ToSet(lits["orcid"])}
          \cup {<<"search", q>> : q \in ToSet(queries(source, lits, cfg))}
          \cup (IF source = "orcid" THEN {} ELSE {<<"details", u>> : u \in Item})

Query(source, e) ==
  /\ stage = source /\ e \in todo
  /\ \E F \in UNION {kSubset(k, Requests(source, Facts(e), e)) : k \in 0..MaxFailures} :
       cands' = [cands EXCEPT ![e] = query(source, e, Facts(e), F)]
  /\ todo' = todo \ {e}
  /\ UNCHANGED <<known, literals, found, stage, results>>
-----------------------------------------------------------------------------
(* Scores *)

best(values, others, like) == Max({like[pair] : pair \in ToSet(values) \X ToSet(others)})

shared(lits, others, preds) == {p \in preds : lits[p] # << >> /\ others[p] # << >>}

syntactic_similarity(lits, others, cfg) ==
  LET fields == shared(lits, others, cfg.comparison_predicates)
  IN IF fields = {} THEN 0
     ELSE MapThenSumSet(LAMBDA p : best(lits[p], others[p], Alike), fields) \div Cardinality(fields)

\* Batches that still fail after three attempts are left out.
get_embeddings_batch == BOOLEAN

\* An embedding that is missing counts as no similarity.
semantic_similarity(lits, others, embedded) ==
  IF ~ embedded \/ shared(lits, others, {"name"}) = {} THEN 0
  ELSE best(lits["name"], others["name"], Close)

combined_similarity(lits, others, cfg, embedded) ==
  IF \E p \in shared(lits, others, DOMAIN cfg.hard_match_predicates) :
       best(lits[p], others[p], Alike) < cfg.hard_match_predicates[p]
  THEN 0
  ELSE cfg.syntactic * syntactic_similarity(lits, others, cfg)
       + (100 - cfg.syntactic) * semantic_similarity(lits, others, embedded)

lowered(score, penalty) == (score * (100 - penalty)) \div 100

\* What is written for a candidate, if anything.
result(source, e, c, lits, embedded) ==
  LET cfg == Config[source][TypeOf[e]]
      full == combined_similarity(lits, CandidateFacts[c.uri], cfg, embedded)
      kept == IF c.unresolved THEN lowered(full, cfg.unresolved_orcid_penalty) ELSE full
  IN IF kept < cfg.threshold * 100 THEN {}
     ELSE {[source |-> source, entity |-> e, uri |-> c.uri,
            score |-> IF c.fuzzy THEN lowered(kept, cfg.fuzzy_match_penalty) ELSE kept]}

scored(source, embedded) ==
  UNION {UNION {result(source, e, c, Facts(e), embedded) : c \in ToSet(cands[e])} : e \in Entity}

score_and_write_results(source, embedded) ==
  /\ stage = source /\ todo = {}
  /\ results' = results \cup scored(source, embedded)
  /\ cands' = [e \in Entity |-> << >>]
  /\ todo' = Entity
  /\ UNCHANGED <<known, literals>>

\* The ORCIDs above the threshold narrow the search in Wikidata down.
above(e, embedded) ==
  keep(LAMBDA u : \E r \in scored("orcid", embedded) : r.entity = e /\ r.uri = u,
       map(LAMBDA c : c.uri, cands[e]))

WriteOrcid ==
  \E embedded \in get_embeddings_batch :
    /\ score_and_write_results("orcid", embedded)
    /\ found' = [e \in Entity |-> above(e, embedded)]
    /\ stage' = "wikidata"

WriteWikidata ==
  \E embedded \in get_embeddings_batch :
    /\ score_and_write_results("wikidata", embedded)
    /\ stage' = "done"
    /\ UNCHANGED found

Next ==
  \/ \E e \in Entity : Derive(e) \/ (\E source \in Source : Query(source, e))
  \/ WriteOrcid
  \/ WriteWikidata

Spec == Init /\ [][Next]_vars
-----------------------------------------------------------------------------
(* Properties *)

shared_value(values, others) == ToSet(values) \cap ToSet(others) # {}

\* Not lowered, of a type whose searches by name lower the confidence.
full_score(r) ==
  LET cfg == Config[r.source][TypeOf[r.entity]]
  IN /\ cfg.fuzzy_match_penalty > 0
     /\ \E embedded \in BOOLEAN :
          r.score = combined_similarity(Facts(r.entity), CandidateFacts[r.uri], cfg, embedded)

\* Whatever the order of the entities, what was derived is what the literals
\* that were extracted say of the neighbours, and nothing that was extracted
\* is lost for a rule that finds nothing (lookup.py:30).
DerivedFromText ==
  stage # "derive" =>
    \A e \in Entity, p \in Predicate :
      LET rules == {rule \in ToSet(Rules[TypeOf[e]]) : rule.as = p /\ derived(known, e, rule) # << >>}
      IN IF rules = {} THEN literals[e][p] = known[e][p]
         ELSE \E rule \in rules : ToSet(literals[e][p]) = ToSet(derived(known, e, rule))

\* An entity with an ORCID is never matched with a candidate that has another
\* one or none, whichever requests fail: what the search finds after the ORCID
\* could not be resolved stays below the threshold (orcid_client.py:219,
\* wikidata_client.py:459, lookup.py:151).
OrcidsAgree ==
  \A r \in results :
    LET orcids == IF r.source = "orcid" THEN literals[r.entity]["orcid"] ELSE Facts(r.entity)["orcid"]
    IN orcids # << >> => shared_value(orcids, CandidateFacts[r.uri]["orcid"])

\* A confidence without the penalty for a search by name is only given to a
\* candidate with an ORCID the entity has (lookup.py:155).
FullScoreHasIdentifier ==
  \A r \in results :
    full_score(r) => shared_value(Facts(r.entity)["orcid"], CandidateFacts[r.uri]["orcid"])
=============================================================================
