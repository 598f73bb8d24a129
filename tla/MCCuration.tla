----------------------------- MODULE MCCuration -----------------------------
(* Instances of Curation for TLC. *)
EXTENDS CurationRefinement, TLC

CONSTANTS o1, o2, t1, t2, t3

\* Two statements extracted with different triples.
DistinctTriples == (o1 :> t1) @@ (o2 :> t2)
\* The same triple extracted from two documents.
SharedTriple == (o1 :> t1) @@ (o2 :> t1)
OneTriple == (o1 :> t1)

\* Curators may type any triple, also one of another statement.
AnyEdit == [o \in Original |-> Triple]
\* Edits of different statements never coincide.
OwnEdits == (o1 :> {t1, t3}) @@ (o2 :> {t2})

FreshSymmetry == Permutations(Version \ Original)
CuratorSymmetry == FreshSymmetry \cup Permutations(Curator)
\* Sound when the originals have the same triple and the same edits.
SharedSymmetry == CuratorSymmetry \cup Permutations(Original)
=============================================================================
