----------------------------- MODULE Alignment -----------------------------
(***************************************************************************)
(* Which entities are proposed as the same (pipeline/entity_alignment.py,  *)
(* pipeline/metrics/similarity_metrics.py): each document is aligned with  *)
(* itself from the Turtle of its extraction, then the documents of a run   *)
(* with each other and with what the curation graph says of all others,    *)
(* while curators go on. Pipeline has the tasks with their failures and    *)
(* the lock, Documents what becomes of the alignments afterwards.          *)
(***************************************************************************)
EXTENDS Integers, FiniteSetsExt, SequencesExt

CONSTANTS
  Doc, Run, RunOf,   \* the documents of the runs
  Text,              \* what is extracted: Doc -> sets of <<entity, predicate, value>>
  Types,             \* names of types in the order sorted gives them
  Config,            \* the alignment configuration of each type
  Alike,             \* fuzzy match of two values, in percent
  Close(_, _),       \* cosine of the embeddings of two joined texts, in percent
  Curated,           \* bound: the sets of statements that curators touch at once
  Unknown            \* no source document

ASSUME AlignmentAssumption ==
  /\ RunOf \in [Doc -> Run]
  /\ Unknown \notin Doc
  /\ IsFiniteSet(Doc)
  /\ \A d \in Doc : IsFiniteSet(Text[d])

VARIABLES
  job,       \* where the chain of each document is
  run,       \* where each run is
  written,   \* curation graph: the documents whose statements it has
  curated,   \* the statements with an accepted or reset version
  rejected,  \* the statements with a rejected version
  plan,      \* the pairs a run has scored and not yet written
  same,      \* the owl:sameAs statements
  past       \* what curators did: rejected, or early, before the run of a document ended

graphVars == <<written, curated, rejected>>
vars == <<job, run, graphVars, plan, same, past>>

JobStep == {"queued", "extracted", "filed", "failed"}
RunStep == {"chord", "cross", "end"}
Subjects(triples) == {t[1] : t \in triples}
Uri == UNION {Subjects(Text[d]) : d \in Doc}
Pair == kSubset(2, Uri)
SameAs == [uris: Pair, docs: SUBSET (Doc \cup {Unknown}), by: Run]
Act == {"rejected", "early"} \X Doc \X Uri

Statements == UNION {{<<d, t>> : t \in Text[d]} : d \in written}

TypeOK ==
  /\ job \in [Doc -> JobStep]
  /\ run \in [Run -> RunStep]
  /\ written \subseteq Doc
  /\ curated \cup rejected \subseteq Statements /\ curated \cap rejected = {}
  /\ plan \in [Run -> SUBSET SameAs]
  /\ same \subseteq SameAs
  /\ past \subseteq Act

Init ==
  /\ job = [d \in Doc |-> "queued"]
  /\ run = [r \in Run |-> "chord"]
  /\ written = {} /\ curated = {} /\ rejected = {}
  /\ plan = [r \in Run |-> {}]
  /\ same = {} /\ past = {}

-----------------------------------------------------------------------------
(* Entities *)

\* load_entity_information: one entity for each subject.
entities(triples, source, prior) ==
  {[uri |-> s, doc |-> source[s], prior |-> prior,
    facts |-> {<<t[2], t[3]>> : t \in {u \in triples : u[1] = s}}] : s \in Subjects(triples)}

\* x and y are the facts of an entity.
values(x, p) == {f[2] : f \in {g \in x : g[1] = p}}
literals(x) == {f[1] : f \in x} \ {"type"}
typed(x) == values(x, "type") # {}
bucket(x) == Types[Min({i \in DOMAIN Types : Types[i] \in values(x, "type")})]
cfg(x) == Config[bucket(x)]

Of(d) == entities(Text[d], [s \in Uri |-> d], FALSE)
Filed(r) == {d \in Doc : RunOf[d] = r /\ job[d] = "filed"}

Traced(r) == {s \in Statements \ (curated \cup rejected) : s[1] \notin Filed(r)}

\* get_prior_entities: a curated version does not link to its document any
\* more, and is found whichever document it is from.
Visible(r) == Traced(r) \cup curated

\* The document of a prior entity is that of any statement that has one.
Sources(r) ==
  LET links == {<<s[2][1], s[1]>> : s \in Traced(r)}
      of(u) == {l[2] : l \in {k \in links : k[1] = u}}
      several == {u \in Uri : Cardinality(of(u)) > 1}
      one(u, f) == IF u \in several THEN f[u] ELSE IF of(u) = {} THEN Unknown ELSE CHOOSE d \in of(u) : TRUE
  IN {[u \in Uri |-> one(u, f)] : f \in {g \in [several -> Doc] : \A u \in several : g[u] \in of(u)}}

\* The files in any order, the entities of each in any order.
Loaded(r) ==
  {q \in SetToSeqs(UNION {Of(d) : d \in Filed(r)}) :
     \A i, j, k \in DOMAIN q : i < j /\ j < k /\ q[i].doc = q[k].doc => q[j].doc = q[i].doc}

prior_entities(r, source) == entities({s[2] : s \in Visible(r)}, source, TRUE)

-----------------------------------------------------------------------------
(* Candidate pairs *)

both(x, y, f) == values(x, f) # {} /\ values(y, f) # {}
hard_match(x, y) == \E f \in cfg(x).unique_keys : values(x, f) \cap values(y, f) # {}
hard_conflict(x, y) ==
  \E f \in cfg(x).unique_keys : both(x, y, f) /\ values(x, f) \cap values(y, f) = {}

comparable(a, b) ==
  /\ typed(a.facts) /\ typed(b.facts) /\ bucket(a.facts) = bucket(b.facts)
  /\ a.uri # b.uri

\* A wrong candidate: unique keys only speak for a pair.
candidate_by_type(a, b) == comparable(a, b)

candidate(a, b) ==
  comparable(a, b) /\ (hard_match(a.facts, b.facts) \/ ~ hard_conflict(a.facts, b.facts))

\* Bucket by bucket in the order they appear, each row by row; of several
\* entities with the same two IRIs the first pair is kept.
generate_candidate_pairs(es) ==
  LET places == {i \in DOMAIN es : typed(es[i].facts)}
      type == [i \in places |-> bucket(es[i].facts)]
      appears == [i \in places |-> Min({k \in places : type[k] = type[i]})]
      before(p, q) ==
        \/ appears[p[1]] < appears[q[1]]
        \/ appears[p[1]] = appears[q[1]] /\ p[1] < q[1]
        \/ p[1] = q[1] /\ p[2] <= q[2]
      uris(p) == {es[p[1]].uri, es[p[2]].uri}
      found == {p \in places \X places : p[1] < p[2] /\ candidate(es[p[1]], es[p[2]])}
  IN {<<es[p[1]], es[p[2]]>> :
        p \in {q \in found : \A o \in found : uris(o) = uris(q) => before(q, o)}}

-----------------------------------------------------------------------------
(* Scores, in percents of percents *)

best(x, y, f) == Max({Alike[v, w] : v \in values(x, f), w \in values(y, f)})
shared(x, y, fields) == {f \in fields : both(x, y, f)}

structural_similarity(x, y) ==
  LET fewer == Min({Cardinality(literals(x)), Cardinality(literals(y))})
  IN IF fewer = 0 THEN 40
     ELSE Max({40, (100 * Cardinality(literals(x) \cap literals(y))) \div fewer})

syntactic_similarity(x, y) ==
  LET fields == shared(x, y, cfg(x).comparison_predicates)
      avg == MapThenSumSet(LAMBDA f : best(x, y, f), fields) \div Cardinality(fields)
      sparse == Cardinality(fields) <= cfg(x).sparsity_max_fields
                  /\ Cardinality(cfg(x).comparison_predicates) > cfg(x).sparsity_max_fields
  IN IF fields = {} THEN 0
     ELSE IF sparse THEN (avg * cfg(x).sparsity_penalty) \div 100 ELSE avg

\* Texts whose embedding could not be had are left out.
semantic_similarity(x, y, embedded) ==
  LET fields == shared(x, y, cfg(x).semantic_text_predicates)
      text(z) == UNION {values(z, f) : f \in fields}
  IN IF fields = {} \/ ~ embedded THEN 0 ELSE Close(text(x), text(y))

combined_similarity(x, y, embedded) ==
  LET w == cfg(x).weights
      hard == cfg(x).hard_match_predicates
  IN IF \E f \in shared(x, y, DOMAIN hard) : best(x, y, f) < hard[f] THEN 0
     ELSE w.structural * structural_similarity(x, y) + w.syntactic * syntactic_similarity(x, y)
            + w.semantic * semantic_similarity(x, y, embedded)

above_threshold(x, y, embedded) ==
  combined_similarity(x, y, embedded) >= 100 * cfg(x).threshold

\* What is proposed of some pairs.
alike(pairs, embedded) == {p \in pairs : above_threshold(p[1].facts, p[2].facts, embedded)}

-----------------------------------------------------------------------------
(* The tasks *)

Extract(d) ==
  /\ job[d] = "queued"
  /\ job' = [job EXCEPT ![d] = "extracted"]
  /\ written' = written \cup {d}
  /\ UNCHANGED <<run, curated, rejected, plan, same, past>>

FailJob(d) ==
  /\ job[d] \in {"queued", "extracted"}
  /\ job' = [job EXCEPT ![d] = "failed"]
  /\ UNCHANGED <<run, graphVars, plan, same, past>>

\* Wrong SameAsOf: nothing says which run it is.
SameAsOfNoRun(pairs, r) ==
  {[uris |-> {p[1].uri, p[2].uri}, docs |-> {p[1].doc, p[2].doc}, by |-> Unknown] : p \in pairs}

\* write_alignment_results
SameAsOf(pairs, r) ==
  {[uris |-> {p[1].uri, p[2].uri}, docs |-> {p[1].doc, p[2].doc}, by |-> r] : p \in pairs}

\* run_inner_document_alignment, and the copy of the Turtle for the run, which
\* may fail. The entities of a document have different IRIs, so that their
\* order is of no account.
AlignInner(d) ==
  /\ job[d] = "extracted"
  /\ \E embedded \in BOOLEAN :
       LET pairs == generate_candidate_pairs(SetToSeq(Of(d)))
       IN same' = same \cup SameAsOf(alike(pairs, embedded), RunOf[d])
  /\ \E step \in {"filed", "failed"} : job' = [job EXCEPT ![d] = step]
  /\ UNCHANGED <<run, graphVars, plan, past>>

\* A wrong across: entities of prior documents are left out.
across_new(a, b) == ~ a.prior /\ ~ b.prior /\ a.doc # b.doc

across(a, b) == ~ (a.prior /\ b.prior) /\ a.doc # b.doc

\* run_cross_document_alignment, under the lock of the workspace: the Turtle
\* of the run is read in any order, then the entities of prior documents, whose
\* order is of no account as pairs of theirs come last, and the pairs are scored.
Compare(r) ==
  /\ run[r] = "chord" /\ \A s \in Run : run[s] # "cross"
  /\ \A d \in Doc : RunOf[d] = r => job[d] \in {"filed", "failed"}
  /\ \E new \in Loaded(r), source \in Sources(r) :
       LET all == generate_candidate_pairs(new \o SetToSeq(prior_entities(r, source)))
           pairs == {p \in all : across(p[1], p[2])}
       IN \E embedded \in BOOLEAN :
            plan' = [plan EXCEPT ![r] = SameAsOf(alike(pairs, embedded), r)]
  /\ run' = [run EXCEPT ![r] = "cross"]
  /\ UNCHANGED <<job, graphVars, same, past>>

\* get_existing_alignment_pairs, and what is left is written.
WriteCross(r) ==
  /\ run[r] = "cross"
  /\ same' = same \cup {s \in plan[r] : \A t \in same : t.uris # s.uris}
  /\ plan' = [plan EXCEPT ![r] = {}]
  /\ run' = [run EXCEPT ![r] = "end"]
  /\ UNCHANGED <<job, graphVars, past>>

Early(S) ==
  {<<"early", s[1], s[2][1]>> : s \in {t \in S : run[RunOf[t[1]]] # "end"}}

\* accept and reset leave a version that counts
Accept(S) ==
  /\ S \subseteq Statements /\ ~ S \subseteq curated
  /\ curated' = curated \cup S
  /\ rejected' = rejected \ S
  /\ past' = past \cup Early(S)
  /\ UNCHANGED <<job, run, written, plan, same>>

Reject(S) ==
  /\ S \subseteq Statements /\ ~ S \subseteq rejected
  /\ rejected' = rejected \cup S
  /\ curated' = curated \ S
  /\ past' = past \cup Early(S) \cup {<<"rejected", s[1], s[2][1]>> : s \in S}
  /\ UNCHANGED <<job, run, written, plan, same>>

Next ==
  \/ \E d \in Doc : Extract(d) \/ FailJob(d) \/ AlignInner(d)
  \/ \E r \in Run : Compare(r) \/ WriteCross(r)
  \/ \E S \in Curated : Accept(S) \/ Reject(S)

Spec == Init /\ [][Next]_vars

-----------------------------------------------------------------------------
(* Properties *)

Mentions == UNION {Of(d) : d \in Doc}
Named(u) == {a \in Mentions : a.uri = u}
agree(a, b) ==
  LET keys == cfg(a.facts).unique_keys
  IN \/ \E f \in keys : values(a.facts, f) \cap values(b.facts, f) # {}
     \/ \A f \in keys : values(a.facts, f) = {} \/ values(b.facts, f) = {}
Happened(acts, u) == \E act \in acts, d \in Doc : <<act, d, u>> \in past

(***************************************************************************)
(* Entities with different values for a unique key are never proposed as   *)
(* the same (the docstring of generate_candidate_pairs), in a document,    *)
(* between documents or between runs, unless a curator rejected one of     *)
(* their statements, or touched one before the run of its document ended.  *)
(* The exception is real: an accepted statement of a document of the run   *)
(* makes a second entity of its IRI that lacks what is not accepted yet.   *)
(***************************************************************************)
ConflictsStayApart ==
  \A s \in same :
    \/ \E u, v \in s.uris : u # v /\ \E a \in Named(u), b \in Named(v) : agree(a, b)
    \/ \E u \in s.uris : Happened({"rejected", "early"}, u)

(***************************************************************************)
(* When all runs have ended, any two entities of different documents that  *)
(* match by what was extracted are proposed as the same, whichever runs    *)
(* they belong to, in whatever order these went on, whatever curators      *)
(* accepted meanwhile and whether or not embeddings could be had. It takes *)
(* IRIs that no two documents share: of those only one pair is compared.   *)
(* It takes entities of one type: the accepted statements of two others    *)
(* may be a pair of another type, which comes first and is then left out.  *)
(***************************************************************************)
Comparables(d, e) ==
  {p \in Of(d) \X Of(e) :
     /\ Named(p[1].uri) = {p[1]} /\ Named(p[2].uri) = {p[2]}
     /\ comparable(p[1], p[2]) /\ agree(p[1], p[2])
     /\ \A k \in 1..2 : \E i \in DOMAIN Types : values(p[k].facts, "type") = {Types[i]}
     /\ \A embedded \in BOOLEAN :
          /\ above_threshold(p[1].facts, p[2].facts, embedded)
          /\ above_threshold(p[2].facts, p[1].facts, embedded)
     /\ ~ Happened({"rejected"}, p[1].uri) /\ ~ Happened({"rejected"}, p[2].uri)}

MatchesAreProposed ==
  (\A r \in Run : run[r] = "end") =>
    \A d, e \in Doc : d # e /\ job[d] = "filed" /\ job[e] = "filed" =>
      \A p \in Comparables(d, e) : \E s \in same : s.uris = {p[1].uri, p[2].uri}
=============================================================================
