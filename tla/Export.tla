------------------------------- MODULE Export -------------------------------
(***************************************************************************)
(* The deduplicated export of a data graph (store/queries.py): the graph   *)
(* and the accepted alignments are read in two requests while curators go  *)
(* on, aligned entities are merged with a union-find, and the fallback     *)
(* hashes are stripped off the names that stay unique without them.        *)
(***************************************************************************)
EXTENDS Integers, FiniteSets

CONSTANTS
  Uri,       \* names of entities, hashed or not
  Literal,
  Predicate,
  SameAs,    \* owl:sameAs
  Plain,     \* triples of the data graph other than links
  Pair,      \* <<subject, object>> of the alignment statements
  Stripped   \* what is left of a name without one _xxxxxx at its end

Triple == Uri \X Predicate \X (Uri \cup Literal)
Link(pair) == <<pair[1], SameAs, pair[2]>>

ASSUME ExportAssumption ==
  /\ Uri \cap Literal = {}
  /\ SameAs \in Predicate
  /\ Plain \subseteq Triple
  /\ Pair \subseteq Uri \X Uri
  /\ \A pair \in Pair : pair[1] # pair[2] /\ Link(pair) \notin Plain
  /\ Stripped \in [Uri -> Uri]

VARIABLES
  graph,     \* the data graph in the store
  accepted,  \* pairs whose current statement is accepted
  pc,
  data,      \* the graph as it was read
  pairs,     \* the pairs as they were read
  done,      \* those the loop has gone through
  parent,    \* the union-find, a function on the names that were merged away
  aligned,   \* the graph with aligned entities merged
  merged     \* the graph that is exported

store == <<graph, accepted>>
local == <<pc, data, pairs, done, parent, aligned, merged>>
vars == <<store, local>>

TypeOK ==
  /\ graph \subseteq Triple
  /\ accepted \subseteq Pair
  /\ pc \in {"data", "pairs", "union", "strip", "done"}
  /\ data \subseteq Triple /\ aligned \subseteq Triple /\ merged \subseteq Triple
  /\ pairs \subseteq Pair /\ done \subseteq pairs
  /\ DOMAIN parent \subseteq Uri /\ parent \in [DOMAIN parent -> Uri]
  /\ \A x \in DOMAIN parent : parent[x] # x

Init ==
  /\ graph = Plain
  /\ accepted = {}
  /\ pc = "data"
  /\ data = {} /\ pairs = {} /\ done = {} /\ aligned = {} /\ merged = {}
  /\ parent = << >>
-----------------------------------------------------------------------------
(* find *)

Up(x) == IF x \in DOMAIN parent THEN parent[x] ELSE x

\* The names the loop of find passes when it starts at x.
Passed(x) ==
  {y \in Uri : \A S \in SUBSET Uri :
                 x \in S /\ (\A z \in S : Up(z) \in S) => y \in S}

find(x) == CHOOSE root \in Passed(x) : Up(root) = root
-----------------------------------------------------------------------------
(* The export *)

ReadData ==
  /\ pc = "data"
  /\ pc' = "pairs"
  /\ data' = graph
  /\ UNCHANGED <<store, pairs, done, parent, aligned, merged>>

get_accepted_alignment_pairs ==
  /\ pc = "pairs"
  /\ pc' = "union"
  /\ pairs' = accepted
  /\ UNCHANGED <<store, data, done, parent, aligned, merged>>

\* A wrong Union: the names themselves are linked, whatever they were merged with.
UnionOfNames(pair) ==
  /\ pc = "union" /\ pair \in pairs \ done
  /\ done' = done \cup {pair}
  /\ parent' = IF find(pair[1]) = find(pair[2]) THEN parent
               ELSE [x \in DOMAIN parent \cup {pair[2]} |->
                       IF x = pair[2] THEN pair[1] ELSE parent[x]]
  /\ UNCHANGED <<store, pc, data, pairs, aligned, merged>>

\* A wrong Union: names that are merged already are merged again.
UnionAgain(pair) ==
  /\ pc = "union" /\ pair \in pairs \ done
  /\ done' = done \cup {pair}
  /\ parent' = [x \in DOMAIN parent \cup {find(pair[2])} |->
                  IF x = find(pair[2]) THEN find(pair[1]) ELSE parent[x]]
  /\ UNCHANGED <<store, pc, data, pairs, aligned, merged>>

\* The pairs come out of a set, in any order.
Union(pair) ==
  /\ pc = "union" /\ pair \in pairs \ done
  /\ done' = done \cup {pair}
  /\ LET root_a == find(pair[1])
         root_b == find(pair[2])
     IN parent' = IF root_a = root_b THEN parent
                  ELSE [x \in DOMAIN parent \cup {root_b} |->
                          IF x = root_b THEN root_a ELSE parent[x]]
  /\ UNCHANGED <<store, pc, data, pairs, aligned, merged>>

rewrite_aligned(term) == IF term \in DOMAIN parent THEN find(term) ELSE term

\* A wrong Loops: the links between merged entities stay.
NoLoops == {}

\* Triples that the merge turns into loops.
Loops ==
  {t \in data : t[1] # t[3] /\ rewrite_aligned(t[1]) = rewrite_aligned(t[3])}

Align ==
  /\ pc = "union" /\ done = pairs
  /\ pc' = "strip"
  /\ aligned' = {<<rewrite_aligned(t[1]), t[2], rewrite_aligned(t[3])>> : t \in data \ Loops}
  /\ UNCHANGED <<store, data, pairs, done, parent, merged>>

EntityUris(triples) == Uri \cap UNION {{t[1], t[3]} : t \in triples}

\* A wrong hash_stripping_rewrite: strips without looking for conflicts.
strip_all(uris, term) == IF term \in uris THEN Stripped[term] ELSE term

hash_stripping_rewrite(uris, term) ==
  IF term \in uris /\ \A other \in uris : Stripped[other] = Stripped[term] => other = term
  THEN Stripped[term] ELSE term

Strip ==
  /\ pc = "strip"
  /\ pc' = "done"
  /\ LET rewrite_hash(term) == hash_stripping_rewrite(EntityUris(aligned), term)
     IN merged' = {<<rewrite_hash(t[1]), t[2], rewrite_hash(t[3])>> : t \in aligned}
  /\ UNCHANGED <<store, data, pairs, done, parent, aligned>>
-----------------------------------------------------------------------------
(* Curators, as far as the export sees them *)

Accept(pair) ==
  /\ pair \notin accepted
  /\ accepted' = accepted \cup {pair}
  /\ graph' = graph \cup {Link(pair)}
  /\ UNCHANGED local

\* reject_statement takes the triple away first.
TakeAway(pair) ==
  /\ Link(pair) \in graph
  /\ graph' = graph \ {Link(pair)}
  /\ UNCHANGED <<accepted, local>>

Retire(pair) ==
  /\ pair \in accepted /\ Link(pair) \notin graph
  /\ accepted' = accepted \ {pair}
  /\ UNCHANGED <<graph, local>>

Curate == \E pair \in Pair : Accept(pair) \/ TakeAway(pair) \/ Retire(pair)

\* The bound: once both requests were answered nothing depends on the store.
Export == ReadData \/ get_accepted_alignment_pairs \/ (\E pair \in pairs : Union(pair)) \/ Align \/ Strip
Next == (pc \in {"data", "pairs"} /\ Curate) \/ Export

Spec == Init /\ [][Next]_vars
-----------------------------------------------------------------------------
(* Properties *)

(***************************************************************************)
(* The reference: two names are linked when no set that contains both ends *)
(* of every pair or none of them tells them apart.                         *)
(***************************************************************************)
Linked(P, x, y) ==
  \A S \in SUBSET Uri :
    x \in S /\ (\A pair \in P : pair[1] \in S <=> pair[2] \in S) => y \in S

\* Whatever the order of the pairs, chains, cycles and pairs that say the same
\* twice included, find gives two names one representative exactly when the
\* pairs gone through link them (queries.py:171).
ComponentsMerged ==
  \A x, y \in Uri : find(x) = find(y) <=> Linked(done, x, y)

\* Different entities keep different names when the hashes are stripped
\* (queries.py:132, "ensuring no conflicts").
NamesApart ==
  pc = "done" =>
    LET uris == EntityUris(aligned)
    IN \A x, y \in uris :
         hash_stripping_rewrite(uris, x) = hash_stripping_rewrite(uris, y) => x = y

\* A triple about itself is exported only where the data graph has one: no
\* link between merged entities is left, and no genuine loop is lost
\* (queries.py:186).
LoopsAreGenuine ==
  pc = "done" =>
    \A x \in EntityUris(merged), p \in Predicate :
      <<x, p, x>> \in merged <=>
        \E y \in Uri : /\ <<y, p, y>> \in data
                       /\ hash_stripping_rewrite(EntityUris(aligned), find(y)) = x
=============================================================================
