-------------------------- MODULE AlignmentProofs --------------------------
(***************************************************************************)
(* Proofs about Alignment: what contradicts is never proposed as the same, *)
(* and what matches is, for every number of documents and runs, every      *)
(* extraction, every configuration and every similarity of values.         *)
(***************************************************************************)
EXTENDS Alignment, FiniteSetTheorems, TLAPS

-----------------------------------------------------------------------------
(* Sets and their listings.                                                *)

\* The image of a finite set is finite.
LEMMA ImageFinite ==
  ASSUME NEW S, IsFiniteSet(S), NEW f, DOMAIN f = S
  PROVE  IsFiniteSet({f[x] : x \in S})
<1> DEFINE T == {f[x] : x \in S}
           g == [x \in S |-> f[x]]
<1>1. g \in Surjection(S, T)
  BY DEF Surjection
<1>2. QED
  BY <1>1, FS_Surjection

\* A listing of a finite set has each element at one place.
LEMMA Listing ==
  ASSUME NEW S, IsFiniteSet(S), NEW q \in SetToSeqs(S)
  PROVE  /\ q \in Seq(S) /\ Len(q) \in Nat /\ DOMAIN q = 1..Len(q)
         /\ \A i \in 1..Len(q) : q[i] \in S
         /\ \A i, j \in 1..Len(q) : q[i] = q[j] => i = j
         /\ \A x \in S : \E i \in 1..Len(q) : q[i] = x
<1> DEFINE n == Cardinality(S)
<1>1. n \in Nat
  BY FS_CardinalityType
<1>2. q \in [1..n -> S] /\ \A i, j \in 1..n : i # j => q[i] # q[j]
  BY DEF SetToSeqs
<1>3. q \in Seq(S) /\ Len(q) = n /\ DOMAIN q = 1..n
  BY <1>1, <1>2
<1>4. q \in Injection(1..n, S)
  BY <1>2 DEF Injection, IsInjective
<1>5. Cardinality(1..n) = n
  BY <1>1, FS_Interval
<1>6. q \in Surjection(1..n, S)
  BY <1>4, <1>5, FS_Injection
<1>7. \A x \in S : \E i \in 1..n : q[i] = x
  BY <1>6 DEF Surjection
<1>8. QED
  BY <1>1, <1>2, <1>3, <1>7

LEMMA SomeListing ==
  ASSUME NEW S, IsFiniteSet(S)
  PROVE  SetToSeq(S) \in SetToSeqs(S)
<1>1. ExistsBijection(1..Cardinality(S), S)
  BY FS_CardinalityType
<1>2. \E f \in [1..Cardinality(S) -> S] : IsInjective(f)
  BY <1>1 DEF ExistsBijection, Bijection, Injection
<1>3. SetToSeq(S) \in [1..Cardinality(S) -> S] /\ IsInjective(SetToSeq(S))
  BY <1>2 DEF SetToSeq
<1>4. QED
  BY <1>3 DEF SetToSeqs, IsInjective

-----------------------------------------------------------------------------
(* Entities.                                                               *)

FactsOf(triples, u) == {<<t[2], t[3]>> : t \in {w \in triples : w[1] = u}}

LEMMA EntityIs ==
  ASSUME NEW triples, NEW source, NEW prior
  PROVE  /\ \A x \in entities(triples, source, prior) :
              /\ x.uri \in Subjects(triples) /\ x.doc = source[x.uri] /\ x.prior = prior
              /\ x.facts = FactsOf(triples, x.uri)
         /\ \A u \in Subjects(triples) :
              \E x \in entities(triples, source, prior) : x.uri = u
         /\ \A x, y \in entities(triples, source, prior) : x.uri = y.uri => x = y
<1> DEFINE e(u) == [uri |-> u, doc |-> source[u], prior |-> prior, facts |-> FactsOf(triples, u)]
<1>1. entities(triples, source, prior) = {e(u) : u \in Subjects(triples)}
  BY DEF entities, FactsOf
<1>2. \A u : e(u).uri = u /\ e(u).doc = source[u] /\ e(u).prior = prior
             /\ e(u).facts = FactsOf(triples, u)
  OBVIOUS
<1> HIDE DEF e
<1>3. QED
  BY <1>1, <1>2

LEMMA EntitiesAreFinite ==
  ASSUME NEW triples, IsFiniteSet(triples), NEW source, NEW prior
  PROVE  IsFiniteSet(entities(triples, source, prior))
<1> DEFINE f == [t \in triples |-> t[1]]
           g == [u \in Subjects(triples) |->
                   [uri |-> u, doc |-> source[u], prior |-> prior, facts |-> FactsOf(triples, u)]]
<1>1. Subjects(triples) = {f[t] : t \in triples}
  BY DEF Subjects
<1>2. IsFiniteSet({f[t] : t \in triples})
  <2>1. DOMAIN f = triples
    OBVIOUS
  <2> HIDE DEF f
  <2>2. QED
    BY <2>1, ImageFinite
<1>3. entities(triples, source, prior) = {g[u] : u \in Subjects(triples)}
  BY DEF entities, FactsOf
<1>4. IsFiniteSet({g[u] : u \in Subjects(triples)})
  <2>1. DOMAIN g = Subjects(triples) /\ IsFiniteSet(Subjects(triples))
    BY <1>1, <1>2
  <2> HIDE DEF g
  <2>2. QED
    BY <2>1, ImageFinite
<1>5. QED
  BY <1>3, <1>4

\* What a document says of an entity.
LEMMA MentionIs ==
  ASSUME NEW d \in Doc
  PROVE  /\ \A x \in Of(d) :
              /\ x.uri \in Subjects(Text[d]) /\ x.uri \in Uri /\ x.doc = d /\ x.prior = FALSE
              /\ x.facts = FactsOf(Text[d], x.uri)
              /\ x \in Named(x.uri)
         /\ \A u \in Subjects(Text[d]) : \E x \in Of(d) : x.uri = u
         /\ \A x, y \in Of(d) : x.uri = y.uri => x = y
<1>1. Subjects(Text[d]) \subseteq Uri
  BY DEF Uri
<1>2. Of(d) \subseteq Mentions
  BY DEF Mentions
<1> DEFINE source == [s \in Uri |-> d]
           new == FALSE
<1>3. /\ Of(d) = entities(Text[d], source, new) /\ new = FALSE
      /\ \A u \in Uri : source[u] = d
  BY DEF Of
<1> HIDE DEF source, new
<1>4. /\ \A x \in Of(d) :
           /\ x.uri \in Subjects(Text[d]) /\ x.doc = source[x.uri] /\ x.prior = new
           /\ x.facts = FactsOf(Text[d], x.uri)
      /\ \A u \in Subjects(Text[d]) : \E x \in Of(d) : x.uri = u
      /\ \A x, y \in Of(d) : x.uri = y.uri => x = y
  BY <1>3, EntityIs
<1>5. QED
  BY <1>1, <1>2, <1>3, <1>4 DEF Named

LEMMA Mentioned ==
  \A d \in Doc : \A x \in Of(d) : x.uri \in Uri /\ x.doc = d /\ x \in Named(x.uri)
  BY MentionIs

LEMMA MentionFacts ==
  \A d \in Doc : \A x \in Of(d) : x.facts = FactsOf(Text[d], x.uri)
  BY MentionIs

LEMMA EachIsMentioned ==
  \A d \in Doc : \A u \in Subjects(Text[d]) : \E x \in Of(d) : x.uri = u
  BY MentionIs

LEMMA MentionsAreFinite ==
  /\ \A d \in Doc : IsFiniteSet(Of(d))
  /\ \A D \in SUBSET Doc : IsFiniteSet(UNION {Of(d) : d \in D})
<1>1. ASSUME NEW d \in Doc
      PROVE  IsFiniteSet(Of(d))
  <2> DEFINE source == [s \in Uri |-> d]
  <2>1. Of(d) = entities(Text[d], source, FALSE)
    BY DEF Of
  <2>2. IsFiniteSet(Text[d])
    BY AlignmentAssumption
  <2> HIDE DEF source
  <2>3. QED
    BY <2>1, <2>2, EntitiesAreFinite
<1>2. ASSUME NEW D \in SUBSET Doc
      PROVE  IsFiniteSet(UNION {Of(d) : d \in D})
  <2> DEFINE f == [d \in D |-> Of(d)]
  <2>1. IsFiniteSet(D)
    BY FS_Subset, AlignmentAssumption
  <2>2. IsFiniteSet({f[d] : d \in D})
    <3>1. DOMAIN f = D
      OBVIOUS
    <3> HIDE DEF f
    <3>2. QED
      BY <2>1, <3>1, ImageFinite
  <2>3. \A T \in {f[d] : d \in D} : IsFiniteSet(T)
    BY <1>1
  <2>4. IsFiniteSet(UNION {f[d] : d \in D})
    BY <2>2, <2>3, FS_UNION
  <2>5. {f[d] : d \in D} = {Of(d) : d \in D}
    OBVIOUS
  <2>6. QED
    BY <2>4, <2>5
<1>3. QED
  BY <1>1, <1>2

Said(r) == {s[2] : s \in Visible(r)}

LEMMA StatementIs ==
  \A s \in Statements :
    /\ s = <<s[1], s[2]>> /\ s[1] \in written /\ s[2] \in Text[s[1]]
  BY DEF Statements

LEMMA VisibleIs ==
  ASSUME TypeOK, NEW r \in Run
  PROVE  /\ Visible(r) \subseteq Statements
         /\ \A s \in Visible(r) : s[1] \in Doc /\ s[2] \in Text[s[1]] /\ s[2][1] \in Uri
         /\ IsFiniteSet(Said(r))
<1>1. Visible(r) \subseteq Statements
  BY DEF Visible, Traced, TypeOK
<1>2. ASSUME NEW s \in Visible(r)
      PROVE  s[1] \in Doc /\ s[2] \in Text[s[1]] /\ s[2][1] \in Uri
  <2>1. s[1] \in Doc /\ s[2] \in Text[s[1]]
    BY <1>1, StatementIs DEF TypeOK
  <2>2. s[2][1] \in Subjects(Text[s[1]])
    BY <2>1 DEF Subjects
  <2>3. QED
    BY <2>1, <2>2 DEF Uri
<1>3. IsFiniteSet(Said(r))
  <2> DEFINE f == [d \in Doc |-> Text[d]]
  <2>1. IsFiniteSet({f[d] : d \in Doc})
    <3>1. DOMAIN f = Doc
      OBVIOUS
    <3> HIDE DEF f
    <3>2. QED
      BY <3>1, ImageFinite, AlignmentAssumption
  <2>2. \A T \in {f[d] : d \in Doc} : IsFiniteSet(T)
    BY AlignmentAssumption
  <2>3. IsFiniteSet(UNION {f[d] : d \in Doc})
    BY <2>1, <2>2, FS_UNION
  <2>4. Said(r) \in SUBSET UNION {f[d] : d \in Doc}
    BY <1>2 DEF Said
  <2> HIDE DEF f
  <2>5. QED
    BY <2>3, <2>4, FS_Subset
<1>4. QED
  BY <1>1, <1>2, <1>3

-----------------------------------------------------------------------------
(* Candidate pairs.                                                        *)

(***************************************************************************)
(* What generate_candidate_pairs returns are candidates, each of two       *)
(* entities of the sequence.                                               *)
(***************************************************************************)
LEMMA PairsAreCandidates ==
  ASSUME NEW es, NEW p \in generate_candidate_pairs(es)
  PROVE  \E i, j \in DOMAIN es :
           i < j /\ p = <<es[i], es[j]>> /\ candidate(es[i], es[j])
  BY DEF generate_candidate_pairs

(***************************************************************************)
(* A candidate is returned when, of all places with its two IRIs, its own  *)
(* come first, and none has another type.                                  *)
(***************************************************************************)
LEMMA FirstPairIsKept ==
  ASSUME NEW S, NEW es \in Seq(S),
         NEW i \in 1..Len(es), NEW j \in 1..Len(es), i < j, candidate(es[i], es[j]),
         \A k \in 1..Len(es) : es[k].uri \in {es[i].uri, es[j].uri} /\ typed(es[k].facts) =>
           /\ k >= i /\ bucket(es[k].facts) = bucket(es[i].facts)
           /\ es[k].uri = es[j].uri => k >= j
  PROVE  <<es[i], es[j]>> \in generate_candidate_pairs(es)
<1> DEFINE places == {k \in DOMAIN es : typed(es[k].facts)}
           type == [k \in places |-> bucket(es[k].facts)]
           appears == [k \in places |-> Min({l \in places : type[l] = type[k]})]
           before(p, q) ==
             \/ appears[p[1]] < appears[q[1]]
             \/ appears[p[1]] = appears[q[1]] /\ p[1] < q[1]
             \/ p[1] = q[1] /\ p[2] <= q[2]
           uris(p) == {es[p[1]].uri, es[p[2]].uri}
           found == {p \in places \X places : p[1] < p[2] /\ candidate(es[p[1]], es[p[2]])}
           first == <<i, j>>
<1>1. DOMAIN es = 1..Len(es) /\ Len(es) \in Nat
  OBVIOUS
<1>2. i \in places /\ j \in places /\ first \in found
  BY <1>1 DEF candidate, comparable
<1>3. ASSUME NEW o \in found, uris(o) = uris(first)
      PROVE  before(first, o)
  <2>1. /\ o[1] \in places /\ o[2] \in places /\ o[1] < o[2]
        /\ o[1] \in 1..Len(es) /\ o[2] \in 1..Len(es)
        /\ es[o[1]].uri # es[o[2]].uri
    BY <1>1 DEF candidate, comparable
  <2>2. {es[o[1]].uri, es[o[2]].uri} = {es[i].uri, es[j].uri}
    BY <1>3
  <2>3. o[1] >= i /\ bucket(es[o[1]].facts) = bucket(es[i].facts)
    BY <2>1, <2>2
  <2>4. appears[o[1]] = appears[i]
    <3>1. type[o[1]] = type[i]
      BY <1>2, <2>1, <2>3
    <3>2. {l \in places : type[l] = type[o[1]]} = {l \in places : type[l] = type[i]}
      BY <3>1
    <3>3. QED
      BY <1>2, <2>1, <3>2
  <2>5. CASE o[1] = i
    <3>1. es[o[2]].uri = es[j].uri
      BY <2>1, <2>2, <2>5
    <3>2. o[2] >= j
      BY <2>1, <3>1
    <3>3. QED
      BY <2>1, <2>5, <3>2
  <2>6. CASE o[1] # i
    BY <2>1, <2>3, <2>4, <2>6
  <2>7. QED
    BY <2>5, <2>6
<1>4. first \in {q \in found : \A o \in found : uris(o) = uris(q) => before(q, o)}
  BY <1>2, <1>3
<1>5. <<es[first[1]], es[first[2]]>> \in
        {<<es[p[1]], es[p[2]]>> :
           p \in {q \in found : \A o \in found : uris(o) = uris(q) => before(q, o)}}
  BY <1>4
<1>6. QED
  BY <1>5 DEF generate_candidate_pairs

-----------------------------------------------------------------------------
(* What an alignment across documents compares.                            *)

Compared(r, new, source) == new \o SetToSeq(prior_entities(r, source))

\* The document of a prior entity is one that a traced statement links to.
LEMMA SourceIs ==
  ASSUME TypeOK, NEW r \in Run, NEW source \in Sources(r), NEW u \in Uri
  PROVE  \/ source[u] = Unknown
         \/ source[u] \in Doc /\ \E s \in Traced(r) : s[2][1] = u /\ s[1] = source[u]
<1> DEFINE links == {<<s[2][1], s[1]>> : s \in Traced(r)}
           of(v) == {l[2] : l \in {k \in links : k[1] = v}}
           several == {v \in Uri : Cardinality(of(v)) > 1}
           one(v, f) == IF v \in several THEN f[v]
                        ELSE IF of(v) = {} THEN Unknown ELSE CHOOSE d \in of(v) : TRUE
<1>1. PICK f \in {g \in [several -> Doc] : \A v \in several : g[v] \in of(v)} :
        source = [v \in Uri |-> one(v, f)]
  BY DEF Sources
<1>2. source[u] = one(u, f)
  BY <1>1
<1>3. source[u] = Unknown \/ source[u] \in of(u)
  BY <1>1, <1>2
<1>4. ASSUME source[u] \in of(u)
      PROVE  source[u] \in Doc /\ \E s \in Traced(r) : s[2][1] = u /\ s[1] = source[u]
  <2>1. PICK s \in Traced(r) : s[2][1] = u /\ s[1] = source[u]
    BY <1>4
  <2>2. s[1] \in Doc
    BY VisibleIs DEF Visible
  <2>3. QED
    BY <2>1, <2>2
<1>5. QED
  BY <1>3, <1>4

LEMMA PriorIs ==
  ASSUME TypeOK, NEW r \in Run, NEW source \in Sources(r)
  PROVE  /\ \A x \in prior_entities(r, source) :
              /\ x.uri \in Uri /\ x.doc = source[x.uri] /\ x.doc \in Doc \cup {Unknown}
              /\ x.prior = TRUE
              /\ x.facts = FactsOf(Said(r), x.uri) /\ x.uri \in Subjects(Said(r))
         /\ \A u \in Subjects(Said(r)) : \E x \in prior_entities(r, source) : x.uri = u
         /\ \A x, y \in prior_entities(r, source) : x.uri = y.uri => x = y
         /\ IsFiniteSet(prior_entities(r, source))
<1> DEFINE old == TRUE
           said == Said(r)
           E == prior_entities(r, source)
<1>1. E = entities(said, source, old) /\ old = TRUE /\ said = Said(r)
  BY DEF prior_entities, Said
<1> HIDE DEF old, said, E
<1>2. Subjects(Said(r)) \subseteq Uri
  BY VisibleIs DEF Subjects, Said
<1>3. /\ \A x \in E :
           /\ x.uri \in Subjects(said) /\ x.doc = source[x.uri] /\ x.prior = old
           /\ x.facts = FactsOf(said, x.uri)
      /\ \A u \in Subjects(said) : \E x \in E : x.uri = u
      /\ \A x, y \in E : x.uri = y.uri => x = y
  <2>1. /\ \A x \in entities(said, source, old) :
             /\ x.uri \in Subjects(said) /\ x.doc = source[x.uri] /\ x.prior = old
             /\ x.facts = FactsOf(said, x.uri)
        /\ \A u \in Subjects(said) : \E x \in entities(said, source, old) : x.uri = u
        /\ \A x, y \in entities(said, source, old) : x.uri = y.uri => x = y
    BY EntityIs
  <2>2. QED
    BY <1>1, <2>1
<1>4. IsFiniteSet(E)
  BY <1>1, VisibleIs, EntitiesAreFinite
<1>5. \A u \in Uri : source[u] \in Doc \cup {Unknown}
  BY SourceIs
<1>6. QED
  BY <1>1, <1>2, <1>3, <1>4, <1>5 DEF E

LEMMA PriorFacts ==
  ASSUME TypeOK, NEW r \in Run, NEW source \in Sources(r)
  PROVE  \A x \in prior_entities(r, source) :
           x.uri \in Uri /\ x.doc = source[x.uri] /\ x.facts = FactsOf(Said(r), x.uri)
  BY PriorIs

LEMMA LoadedIs ==
  ASSUME NEW r \in Run, NEW new \in Loaded(r)
  PROVE  /\ Len(new) \in Nat /\ DOMAIN new = 1..Len(new)
         /\ new \in Seq(UNION {Of(d) : d \in Filed(r)})
         /\ \A i \in 1..Len(new) : \E d \in Filed(r) : new[i] \in Of(d)
         /\ \A i, j \in 1..Len(new) : new[i] = new[j] => i = j
         /\ \A d \in Filed(r) : \A x \in Of(d) : \E i \in 1..Len(new) : new[i] = x
<1> DEFINE S == UNION {Of(d) : d \in Filed(r)}
<1>1. IsFiniteSet(S)
  BY MentionsAreFinite DEF Filed
<1>2. new \in SetToSeqs(S)
  BY DEF Loaded
<1>3. /\ Len(new) \in Nat /\ DOMAIN new = 1..Len(new) /\ new \in Seq(S)
      /\ \A i \in 1..Len(new) : new[i] \in S
      /\ \A i, j \in 1..Len(new) : new[i] = new[j] => i = j
      /\ \A x \in S : \E i \in 1..Len(new) : new[i] = x
  <2> HIDE DEF S
  <2>1. QED
    BY <1>1, <1>2, Listing
<1>4. QED
  BY <1>3

\* First the entities of the run, then those of prior documents.
LEMMA ComparedIs ==
  ASSUME TypeOK, NEW r \in Run, NEW new \in Loaded(r), NEW source \in Sources(r)
  PROVE  LET es == Compared(r, new, source)
             n == Len(new)
         IN /\ \E S : es \in Seq(S)
            /\ n \in Nat /\ Len(es) \in Nat /\ n <= Len(es) /\ DOMAIN es = 1..Len(es)
            /\ \A k \in 1..n : \E d \in Filed(r) : es[k] \in Of(d)
            /\ \A k \in 1..Len(es) : k > n => es[k] \in prior_entities(r, source)
            /\ \A i, j \in 1..n : es[i] = es[j] => i = j
            /\ \A i, j \in 1..Len(es) : i > n /\ j > n /\ es[i] = es[j] => i = j
            /\ \A d \in Filed(r) : \A x \in Of(d) : \E k \in 1..n : es[k] = x
            /\ \A x \in prior_entities(r, source) : \E k \in 1..Len(es) : k > n /\ es[k] = x
<1> DEFINE P == prior_entities(r, source)
           N == UNION {Of(d) : d \in Filed(r)}
           old == SetToSeq(P)
           n == Len(new)
           es == new \o old
<1>1. /\ n \in Nat /\ DOMAIN new = 1..n /\ new \in Seq(N)
      /\ \A i \in 1..n : \E d \in Filed(r) : new[i] \in Of(d)
      /\ \A i, j \in 1..n : new[i] = new[j] => i = j
      /\ \A d \in Filed(r) : \A x \in Of(d) : \E i \in 1..n : new[i] = x
  BY LoadedIs
<1>2. /\ old \in Seq(P) /\ Len(old) \in Nat
      /\ \A i \in 1..Len(old) : old[i] \in P
      /\ \A i, j \in 1..Len(old) : old[i] = old[j] => i = j
      /\ \A x \in P : \E i \in 1..Len(old) : old[i] = x
  <2>1. IsFiniteSet(P)
    BY PriorIs
  <2> HIDE DEF P
  <2>2. QED
    BY <2>1, SomeListing, Listing
<1> HIDE DEF P, N, old
<1>3. new \in Seq(N \cup P) /\ old \in Seq(N \cup P)
  BY <1>1, <1>2
<1>4. /\ es \in Seq(N \cup P) /\ Len(es) = n + Len(old) /\ DOMAIN es = 1..Len(es)
      /\ \A k \in 1..n : es[k] = new[k]
      /\ \A k \in 1..Len(old) : es[n + k] = old[k]
  BY <1>3, <1>1, <1>2
<1>5. \A k \in 1..Len(es) : k > n => k - n \in 1..Len(old) /\ es[k] = old[k - n]
  BY <1>1, <1>2, <1>4
<1>7. n \in Nat /\ n <= Len(es) /\ Len(es) \in Nat
  BY <1>1, <1>2, <1>4
<1> HIDE DEF es, n
<1>6. /\ \A k \in 1..Len(es) : k > n => es[k] \in P
      /\ \A i, j \in 1..Len(es) : i > n /\ j > n /\ es[i] = es[j] => i = j
      /\ \A x \in P : \E k \in 1..Len(es) : k > n /\ es[k] = x
  <2>1. \A k \in 1..Len(es) : k > n => es[k] \in P
    BY <1>2, <1>5
  <2>2. ASSUME NEW i \in 1..Len(es), NEW j \in 1..Len(es), i > n, j > n, es[i] = es[j]
        PROVE  i = j
    <3>1. /\ i - n \in 1..Len(old) /\ es[i] = old[i - n]
          /\ j - n \in 1..Len(old) /\ es[j] = old[j - n]
      BY <1>5, <2>2
    <3>2. i - n = j - n
      BY <1>2, <2>2, <3>1
    <3>3. i \in Int /\ j \in Int /\ n \in Int
      BY <1>7, <2>2
    <3>4. QED
      BY <3>2, <3>3
  <2>3. ASSUME NEW x \in P
        PROVE  \E k \in 1..Len(es) : k > n /\ es[k] = x
    <3>1. PICK i \in 1..Len(old) : old[i] = x
      BY <1>2
    <3>2. es[n + i] = x
      BY <1>4, <3>1
    <3>3. n + i \in 1..Len(es) /\ n + i > n
      <4>1. n \in Nat /\ Len(old) \in Nat /\ i \in 1..Len(old) /\ Len(es) = n + Len(old)
        BY <1>2, <1>4, <1>7
      <4>2. QED
        BY <4>1
    <3>4. QED
      BY <3>2, <3>3
  <2>4. QED
    BY <2>1, <2>2, <2>3
<1>8. /\ \A i, j \in 1..n : es[i] = es[j] => i = j
      /\ \A k \in 1..n : \E d \in Filed(r) : es[k] \in Of(d)
      /\ \A d \in Filed(r) : \A x \in Of(d) : \E k \in 1..n : es[k] = x
  BY <1>1, <1>4
<1>9. QED
  BY <1>1, <1>4, <1>6, <1>7, <1>8 DEF Compared, P, old, es, n

-----------------------------------------------------------------------------
(* The pairs of each task.                                                 *)

LEMMA InnerPairs ==
  ASSUME NEW d \in Doc, NEW p \in generate_candidate_pairs(SetToSeq(Of(d)))
  PROVE  p[1] \in Of(d) /\ p[2] \in Of(d) /\ candidate(p[1], p[2])
<1> DEFINE es == SetToSeq(Of(d))
<1>1. DOMAIN es = 1..Len(es) /\ \A i \in 1..Len(es) : es[i] \in Of(d)
  BY MentionsAreFinite, SomeListing, Listing
<1>2. PICK i \in DOMAIN es, j \in DOMAIN es : p = <<es[i], es[j]>> /\ candidate(es[i], es[j])
  <2> HIDE DEF es
  <2>1. p \in generate_candidate_pairs(es)
    BY DEF es
  <2>2. QED
    BY <2>1, PairsAreCandidates
<1>3. QED
  BY <1>1, <1>2

\* The pairs across documents that are scored.
Across(r, new, source) ==
  {p \in generate_candidate_pairs(Compared(r, new, source)) : across(p[1], p[2])}

LEMMA AcrossPairs ==
  ASSUME TypeOK, NEW r \in Run, NEW new \in Loaded(r), NEW source \in Sources(r),
         NEW p \in Across(r, new, source)
  PROVE  /\ candidate(p[1], p[2])
         /\ \E d \in Filed(r) : p[1] \in Of(d)
         /\ (\E d \in Filed(r) : p[2] \in Of(d)) \/ p[2] \in prior_entities(r, source)
<1> DEFINE es == Compared(r, new, source)
           n == Len(new)
<1>1. /\ n \in Nat /\ Len(es) \in Nat /\ n <= Len(es) /\ DOMAIN es = 1..Len(es)
      /\ \A k \in 1..n : \E d \in Filed(r) : es[k] \in Of(d)
      /\ \A k \in 1..Len(es) : k > n => es[k] \in prior_entities(r, source)
  BY ComparedIs
<1>2. p \in generate_candidate_pairs(es) /\ ~ (p[1].prior /\ p[2].prior)
  BY DEF Across, across
<1> HIDE DEF es, n
<1>3. PICK i \in DOMAIN es, j \in DOMAIN es :
        i < j /\ p = <<es[i], es[j]>> /\ candidate(es[i], es[j])
  BY <1>2, PairsAreCandidates
<1>4. i <= n
  <2> SUFFICES ASSUME i > n PROVE FALSE
    BY <1>1, <1>3
  <2>1. es[i] \in prior_entities(r, source) /\ es[j] \in prior_entities(r, source)
    BY <1>1, <1>3
  <2>2. QED
    BY <1>2, <1>3, <2>1, PriorIs
<1>5. \E d \in Filed(r) : es[i] \in Of(d)
  BY <1>1, <1>4
<1>6. (\E d \in Filed(r) : es[j] \in Of(d)) \/ es[j] \in prior_entities(r, source)
  BY <1>1
<1>7. QED
  BY <1>3, <1>5, <1>6

\* What an alignment across documents plans.
LEMMA CompareIs ==
  ASSUME NEW r \in Run, Compare(r)
  PROVE  \E new \in Loaded(r), source \in Sources(r), embedded \in BOOLEAN :
           plan' = [plan EXCEPT ![r] = SameAsOf(alike(Across(r, new, source), embedded), r)]
<1>1. PICK new \in Loaded(r), source \in Sources(r) :
        LET all == generate_candidate_pairs(new \o SetToSeq(prior_entities(r, source)))
            pairs == {p \in all : across(p[1], p[2])}
        IN \E embedded \in BOOLEAN :
             plan' = [plan EXCEPT ![r] = SameAsOf(alike(pairs, embedded), r)]
  BY DEF Compare
<1>2. {p \in generate_candidate_pairs(new \o SetToSeq(prior_entities(r, source))) :
         across(p[1], p[2])} = Across(r, new, source)
  BY DEF Across, Compared
<1>3. \E embedded \in BOOLEAN :
        plan' = [plan EXCEPT ![r] = SameAsOf(alike(Across(r, new, source), embedded), r)]
  BY <1>1, <1>2
<1>4. QED
  BY <1>3

LEMMA SameAsTypes ==
  ASSUME NEW pairs, NEW r \in Run,
         \A p \in pairs : /\ p[1].uri \in Uri /\ p[2].uri \in Uri /\ p[1].uri # p[2].uri
                          /\ p[1].doc \in Doc \cup {Unknown} /\ p[2].doc \in Doc \cup {Unknown}
  PROVE  SameAsOf(pairs, r) \subseteq SameAs
<1> SUFFICES ASSUME NEW p \in pairs
             PROVE  [uris |-> {p[1].uri, p[2].uri}, docs |-> {p[1].doc, p[2].doc}, by |-> r] \in SameAs
  BY DEF SameAsOf
<1> DEFINE x == p[1].uri
           y == p[2].uri
           one == {x}
<1>1. IsFiniteSet(one) /\ Cardinality(one) = 1
  BY FS_Singleton
<1>2. y \notin one
  OBVIOUS
<1>3. Cardinality(one \cup {y}) = 2
  <2> HIDE DEF one, y
  <2>1. Cardinality(one \cup {y}) = Cardinality(one) + 1
    BY <1>1, <1>2, FS_AddElement
  <2>2. QED
    BY <1>1, <2>1
<1>4. one \cup {y} = {x, y}
  OBVIOUS
<1>5. {x, y} \in Pair
  BY <1>3, <1>4 DEF Pair, kSubset
<1>6. QED
  BY <1>5 DEF SameAs

-----------------------------------------------------------------------------
(* Types.                                                                  *)

LEMMA NextTypeOK == TypeOK /\ [Next]_vars => TypeOK'
<1> SUFFICES ASSUME TypeOK, [Next]_vars PROVE TypeOK'
  OBVIOUS
<1>1. CASE UNCHANGED vars
  BY <1>1 DEF vars, graphVars, TypeOK, Statements
<1>2. ASSUME NEW d \in Doc, Extract(d)
      PROVE  TypeOK'
  <2>1. written \subseteq written' /\ Statements \subseteq Statements'
    BY <1>2 DEF Extract, Statements
  <2>2. QED
    BY <1>2, <2>1 DEF Extract, TypeOK, JobStep
<1>3. ASSUME NEW d \in Doc, FailJob(d)
      PROVE  TypeOK'
  BY <1>3 DEF FailJob, TypeOK, JobStep, graphVars, Statements
<1>4. ASSUME NEW d \in Doc, AlignInner(d)
      PROVE  TypeOK'
  <2> DEFINE pairs == generate_candidate_pairs(SetToSeq(Of(d)))
  <2>1. PICK embedded \in BOOLEAN : same' = same \cup SameAsOf(alike(pairs, embedded), RunOf[d])
    BY <1>4 DEF AlignInner
  <2>2. \A p \in alike(pairs, embedded) :
          /\ p[1].uri \in Uri /\ p[2].uri \in Uri /\ p[1].uri # p[2].uri
          /\ p[1].doc \in Doc \cup {Unknown} /\ p[2].doc \in Doc \cup {Unknown}
    <3>1. \A p \in alike(pairs, embedded) :
            p[1] \in Of(d) /\ p[2] \in Of(d) /\ candidate(p[1], p[2])
      BY InnerPairs DEF alike
    <3>2. \A x \in Of(d) : x.uri \in Uri /\ x.doc \in Doc
      BY MentionIs
    <3>3. QED
      BY <3>1, <3>2 DEF candidate, comparable
  <2>3. RunOf[d] \in Run
    BY AlignmentAssumption
  <2> HIDE DEF pairs
  <2>4. SameAsOf(alike(pairs, embedded), RunOf[d]) \subseteq SameAs
    BY <2>2, <2>3, SameAsTypes
  <2>5. same' \subseteq SameAs
    BY <2>1, <2>4 DEF TypeOK
  <2>6. QED
    BY <1>4, <2>5 DEF AlignInner, TypeOK, JobStep, graphVars, Statements
<1>5. ASSUME NEW r \in Run, Compare(r)
      PROVE  TypeOK'
  <2>1. PICK new \in Loaded(r) :
          \E source \in Sources(r), embedded \in BOOLEAN :
            plan' = [plan EXCEPT ![r] = SameAsOf(alike(Across(r, new, source), embedded), r)]
    BY <1>5, CompareIs
  <2>2. PICK source \in Sources(r), embedded \in BOOLEAN :
          plan' = [plan EXCEPT ![r] = SameAsOf(alike(Across(r, new, source), embedded), r)]
    BY <2>1
  <2>3. \A p \in Across(r, new, source) :
          /\ p[1].uri \in Uri /\ p[2].uri \in Uri /\ p[1].uri # p[2].uri
          /\ p[1].doc \in Doc \cup {Unknown} /\ p[2].doc \in Doc \cup {Unknown}
    <3> SUFFICES ASSUME NEW p \in Across(r, new, source)
                 PROVE  /\ p[1].uri \in Uri /\ p[2].uri \in Uri /\ p[1].uri # p[2].uri
                        /\ p[1].doc \in Doc \cup {Unknown} /\ p[2].doc \in Doc \cup {Unknown}
      OBVIOUS
    <3>1. /\ candidate(p[1], p[2])
          /\ \E d \in Filed(r) : p[1] \in Of(d)
          /\ (\E d \in Filed(r) : p[2] \in Of(d)) \/ p[2] \in prior_entities(r, source)
      BY AcrossPairs
    <3>2. \A d \in Filed(r) : \A x \in Of(d) : x.uri \in Uri /\ x.doc \in Doc
      BY MentionIs DEF Filed
    <3>3. \A x \in prior_entities(r, source) : x.uri \in Uri /\ x.doc \in Doc \cup {Unknown}
      BY PriorIs
    <3>4. QED
      BY <3>1, <3>2, <3>3 DEF candidate, comparable
  <2>4. \A p \in alike(Across(r, new, source), embedded) : p \in Across(r, new, source)
    BY DEF alike
  <2>5. SameAsOf(alike(Across(r, new, source), embedded), r) \subseteq SameAs
    BY <2>3, <2>4, SameAsTypes
  <2>6. plan' \in [Run -> SUBSET SameAs]
    BY <2>2, <2>5 DEF TypeOK
  <2>7. QED
    BY <1>5, <2>6 DEF Compare, TypeOK, RunStep, graphVars, Statements
<1>6. ASSUME NEW r \in Run, WriteCross(r)
      PROVE  TypeOK'
  BY <1>6 DEF WriteCross, TypeOK, RunStep, graphVars, Statements
<1>7. ASSUME NEW S \in Curated, Accept(S) \/ Reject(S)
      PROVE  TypeOK'
  <2>1. S \subseteq Statements /\ Statements' = Statements
    BY <1>7 DEF Accept, Reject, Statements
  <2>2. \A s \in S : s[1] \in Doc /\ s[2][1] \in Uri
    <3> SUFFICES ASSUME NEW s \in S PROVE s[1] \in Doc /\ s[2][1] \in Uri
      OBVIOUS
    <3>1. s[1] \in Doc /\ s[2] \in Text[s[1]]
      BY <2>1, StatementIs DEF TypeOK
    <3>2. QED
      BY <3>1 DEF Uri, Subjects
  <2>3. past' \subseteq Act
    BY <1>7, <2>2 DEF Accept, Reject, Early, Act, TypeOK
  <2>4. QED
    BY <1>7, <2>1, <2>3 DEF Accept, Reject, TypeOK
<1>8. QED
  BY <1>1, <1>2, <1>3, <1>4, <1>5, <1>6, <1>7 DEF Next

(***************************************************************************)
(* Each variable keeps its type; in particular a proposal always relates   *)
(* two different entities (generate_candidate_pairs skips equal IRIs), and *)
(* curators only touch statements that are in the graph.                   *)
(***************************************************************************)
THEOREM AlignmentTypes == Spec => []TypeOK
<1>1. Init => TypeOK
  BY DEF Init, TypeOK, JobStep, RunStep
<1>2. QED
  BY <1>1, NextTypeOK, PTL DEF Spec

-----------------------------------------------------------------------------
(* Conflicts.                                                              *)

Cleared(s) ==
  \/ \E u, v \in s.uris : u # v /\ \E a \in Named(u), b \in Named(v) : agree(a, b)
  \/ \E u \in s.uris : Happened({"rejected", "early"}, u)

\* Why a pair may be proposed.
ClearedPair(a, b) ==
  /\ a.uri # b.uri
  /\ \/ \E x \in Named(a.uri), y \in Named(b.uri) : agree(x, y)
     \/ Happened({"rejected", "early"}, b.uri)

\* What the graph has of a statement that curators touched goes back to them.
PastInv ==
  /\ \A s \in rejected : <<"rejected", s[1], s[2][1]>> \in past
  /\ \A s \in curated : run[RunOf[s[1]]] # "end" => <<"early", s[1], s[2][1]>> \in past

ConflictInv ==
  /\ TypeOK /\ PastInv
  /\ \A s \in same : Cleared(s)
  /\ \A r \in Run : \A s \in plan[r] : Cleared(s)

LEMMA ValueIs ==
  \A triples, u, f, w :
    w \in values(FactsOf(triples, u), f) <=>
      \E t \in triples : t[1] = u /\ t[2] = f /\ t[3] = w
<1> SUFFICES ASSUME NEW triples, NEW u, NEW f, NEW w
             PROVE  w \in values(FactsOf(triples, u), f) <=>
                      \E t \in triples : t[1] = u /\ t[2] = f /\ t[3] = w
  OBVIOUS
<1>1. ASSUME NEW t \in triples, t[1] = u, t[2] = f, t[3] = w
      PROVE  w \in values(FactsOf(triples, u), f)
  <2>1. <<f, w>> \in FactsOf(triples, u)
    BY <1>1 DEF FactsOf
  <2>2. QED
    BY <2>1 DEF values
<1>2. ASSUME w \in values(FactsOf(triples, u), f)
      PROVE  \E t \in triples : t[1] = u /\ t[2] = f /\ t[3] = w
  <2>1. PICK g \in FactsOf(triples, u) : g[1] = f /\ g[2] = w
    BY <1>2 DEF values
  <2>2. QED
    BY <2>1 DEF FactsOf
<1>3. QED
  BY <1>1, <1>2

\* Two mentions that are a candidate agree.
LEMMA CandidatesAgree ==
  ASSUME NEW a, NEW b, candidate(a, b)
  PROVE  agree(a, b)
  BY DEF candidate, hard_match, hard_conflict, both, agree

(***************************************************************************)
(* A prior entity that no curator spoiled has all that some document says  *)
(* of it.                                                                  *)
(***************************************************************************)
LEMMA PriorIsWhole ==
  ASSUME TypeOK, PastInv, NEW r \in Run, run[r] # "end",
         NEW s \in Visible(r), ~ Happened({"rejected", "early"}, s[2][1])
  PROVE  \A t \in Text[s[1]] : t[1] = s[2][1] => <<s[1], t>> \in Visible(r)
<1> SUFFICES ASSUME NEW t \in Text[s[1]], t[1] = s[2][1]
             PROVE  <<s[1], t>> \in Visible(r)
  OBVIOUS
<1> DEFINE q == <<s[1], t>>
           d == s[1]
<1>1. s \in Statements /\ d \in Doc /\ d \in written
  BY VisibleIs, StatementIs
<1>2. q \in Statements /\ q[1] = d /\ q[2] = t
  BY <1>1 DEF Statements
<1>3. q \notin rejected
  BY <1>1, <1>2 DEF PastInv, Happened
<1>4. CASE q \in curated
  BY <1>4 DEF Visible
<1>5. CASE q \notin curated
  <2>1. d \notin Filed(r)
    <3> SUFFICES ASSUME d \in Filed(r) PROVE FALSE
      OBVIOUS
    <3>1. s \in curated /\ run[RunOf[d]] # "end"
      BY DEF Visible, Traced, Filed
    <3>2. QED
      BY <1>1, <3>1 DEF PastInv, Happened
  <2>2. QED
    BY <1>2, <1>3, <1>5, <2>1 DEF Visible, Traced
<1>6. QED
  BY <1>4, <1>5

LEMMA PriorIsCleared ==
  ASSUME TypeOK, PastInv, NEW r \in Run, run[r] # "end", NEW source \in Sources(r),
         NEW d \in Doc, NEW a \in Of(d), NEW b \in prior_entities(r, source), candidate(a, b)
  PROVE  ClearedPair(a, b)
<1>1. a.uri # b.uri /\ a \in Named(a.uri)
  BY MentionIs DEF candidate, comparable
<1>2. b.facts = FactsOf(Said(r), b.uri) /\ b.uri \in Subjects(Said(r))
  BY PriorIs
<1> DEFINE keys == cfg(a.facts).unique_keys
<1>3. \A s \in Visible(r) : \E x \in Of(s[1]) :
        /\ s[1] \in Doc /\ x.uri = s[2][1] /\ x.facts = FactsOf(Text[s[1]], x.uri)
        /\ x \in Named(s[2][1])
  <2> SUFFICES ASSUME NEW s \in Visible(r)
               PROVE  \E x \in Of(s[1]) :
                        /\ s[1] \in Doc /\ x.uri = s[2][1] /\ x.facts = FactsOf(Text[s[1]], x.uri)
                        /\ x \in Named(s[2][1])
    OBVIOUS
  <2>1. s[1] \in Doc /\ s[2][1] \in Subjects(Text[s[1]])
    BY VisibleIs DEF Subjects
  <2>2. PICK x \in Of(s[1]) : x.uri = s[2][1]
    BY <2>1, EachIsMentioned
  <2>3. x.facts = FactsOf(Text[s[1]], x.uri) /\ x \in Named(x.uri)
    BY <2>1, Mentioned, MentionFacts
  <2>4. QED
    BY <2>1, <2>2, <2>3
<1>4. CASE hard_match(a.facts, b.facts)
  <2>1. PICK f \in keys : values(a.facts, f) \cap values(b.facts, f) # {}
    BY <1>4 DEF hard_match
  <2>2. PICK w : w \in values(a.facts, f) /\ w \in values(b.facts, f)
    BY <2>1
  <2>3. PICK t \in Said(r) : t[1] = b.uri /\ t[2] = f /\ t[3] = w
    BY <1>2, <2>2, ValueIs
  <2>4. PICK s \in Visible(r) : s[2] = t
    BY <2>3 DEF Said
  <2>5. PICK x \in Of(s[1]) : /\ x.uri = b.uri /\ x.facts = FactsOf(Text[s[1]], x.uri)
                              /\ x \in Named(b.uri)
    BY <1>3, <2>3, <2>4
  <2>6. w \in values(x.facts, f)
    BY <2>3, <2>4, <2>5, VisibleIs, ValueIs
  <2>7. agree(a, x)
    BY <2>1, <2>2, <2>6 DEF agree
  <2>8. QED
    BY <1>1, <2>5, <2>7 DEF ClearedPair
<1>5. CASE ~ hard_match(a.facts, b.facts) /\ ~ Happened({"rejected", "early"}, b.uri)
  <2>1. PICK s \in Visible(r) : s[2][1] = b.uri
    BY <1>2 DEF Subjects, Said
  <2>2. PICK x \in Of(s[1]) : /\ x.uri = b.uri /\ x.facts = FactsOf(Text[s[1]], x.uri)
                              /\ x \in Named(b.uri)
    BY <1>3, <2>1
  <2>3. \A t \in Text[s[1]] : t[1] = b.uri => t \in Said(r)
    <3>1. \A t \in Text[s[1]] : t[1] = s[2][1] => <<s[1], t>> \in Visible(r)
      BY <1>5, <2>1, PriorIsWhole
    <3>2. \A t : <<s[1], t>>[2] = t
      OBVIOUS
    <3>3. QED
      BY <2>1, <3>1, <3>2 DEF Said
  <2>4. \A f : values(x.facts, f) \subseteq values(b.facts, f)
    BY <1>2, <2>2, <2>3, ValueIs
  <2>5. \A f \in keys : values(a.facts, f) = {} \/ values(b.facts, f) = {}
    BY <1>5 DEF candidate, hard_conflict, hard_match, both
  <2>6. agree(a, x)
    BY <2>4, <2>5 DEF agree
  <2>7. QED
    BY <1>1, <2>2, <2>6 DEF ClearedPair
<1>6. QED
  BY <1>1, <1>4, <1>5 DEF ClearedPair

LEMMA AcrossIsCleared ==
  ASSUME TypeOK, PastInv, NEW r \in Run, run[r] # "end",
         NEW new \in Loaded(r), NEW source \in Sources(r), NEW p \in Across(r, new, source)
  PROVE  ClearedPair(p[1], p[2])
<1>1. /\ candidate(p[1], p[2])
      /\ \E d \in Filed(r) : p[1] \in Of(d)
      /\ (\E d \in Filed(r) : p[2] \in Of(d)) \/ p[2] \in prior_entities(r, source)
  BY AcrossPairs
<1>2. PICK d \in Doc : p[1] \in Of(d)
  BY <1>1 DEF Filed
<1>3. CASE \E e \in Filed(r) : p[2] \in Of(e)
  <2>1. PICK e \in Doc : p[2] \in Of(e)
    BY <1>3 DEF Filed
  <2>2. p[1] \in Named(p[1].uri) /\ p[2] \in Named(p[2].uri)
    BY <1>2, <2>1, Mentioned
  <2>3. agree(p[1], p[2])
    BY <1>1, CandidatesAgree
  <2>4. QED
    BY <1>1, <2>2, <2>3 DEF ClearedPair, candidate, comparable
<1>4. CASE p[2] \in prior_entities(r, source)
  BY <1>1, <1>2, <1>4, PriorIsCleared
<1>5. QED
  BY <1>1, <1>3, <1>4

LEMMA ClearedPairs ==
  ASSUME NEW pairs, NEW r, \A p \in pairs : ClearedPair(p[1], p[2])
  PROVE  \A s \in SameAsOf(pairs, r) : Cleared(s)
<1> SUFFICES ASSUME NEW p \in pairs, NEW s, s.uris = {p[1].uri, p[2].uri}
             PROVE  Cleared(s)
  BY DEF SameAsOf
<1>1. ClearedPair(p[1], p[2])
  OBVIOUS
<1>2. QED
  BY <1>1 DEF ClearedPair, Cleared

\* What happened stays so.
LEMMA ClearedStays ==
  ASSUME past \subseteq past', NEW s, Cleared(s)
  PROVE  Cleared(s)'
  BY DEF Cleared, Happened

LEMMA PastGrows == [Next]_vars => past \subseteq past'
  BY DEF Next, vars, Extract, FailJob, AlignInner, Compare, WriteCross, Accept, Reject

LEMMA NextPastInv == TypeOK /\ PastInv /\ [Next]_vars => PastInv'
<1> SUFFICES ASSUME TypeOK, PastInv, [Next]_vars PROVE PastInv'
  OBVIOUS
<1>1. CASE UNCHANGED <<curated, rejected, past, run>>
  BY <1>1 DEF PastInv
<1>2. ASSUME NEW r \in Run, Compare(r) \/ WriteCross(r)
      PROVE  PastInv'
  <2>1. UNCHANGED <<curated, rejected, past>>
    BY <1>2 DEF Compare, WriteCross, graphVars
  <2>2. \A t \in Run : run'[t] # "end" => run[t] # "end"
    BY <1>2 DEF Compare, WriteCross, TypeOK
  <2>3. \A s \in curated : RunOf[s[1]] \in Run
    <3> SUFFICES ASSUME NEW s \in curated PROVE RunOf[s[1]] \in Run
      OBVIOUS
    <3>1. s[1] \in Doc
      BY StatementIs DEF TypeOK
    <3>2. QED
      BY <3>1, AlignmentAssumption
  <2>4. QED
    BY <2>1, <2>2, <2>3 DEF PastInv
<1>3. ASSUME NEW S \in Curated, Accept(S) \/ Reject(S)
      PROVE  PastInv'
  <2>1. run' = run /\ past \subseteq past' /\ Early(S) \subseteq past'
    BY <1>3 DEF Accept, Reject
  <2>2. \A s \in S : run[RunOf[s[1]]] # "end" => <<"early", s[1], s[2][1]>> \in Early(S)
    BY DEF Early
  <2>3. \A s \in curated' : s \in curated \/ s \in S
    BY <1>3 DEF Accept, Reject
  <2>4. \A s \in rejected' : s \in rejected \/ <<"rejected", s[1], s[2][1]>> \in past'
    BY <1>3 DEF Accept, Reject
  <2>5. QED
    BY <2>1, <2>2, <2>3, <2>4 DEF PastInv
<1>4. QED
  BY <1>1, <1>2, <1>3 DEF Next, vars, graphVars, Extract, FailJob, AlignInner

LEMMA NextConflictInv == ConflictInv /\ [Next]_vars => ConflictInv'
<1> SUFFICES ASSUME ConflictInv, [Next]_vars PROVE ConflictInv'
  OBVIOUS
<1>1. TypeOK /\ TypeOK' /\ PastInv /\ PastInv'
  BY NextTypeOK, NextPastInv DEF ConflictInv
<1>2. \A s : Cleared(s) => Cleared(s)'
  BY PastGrows, ClearedStays
<1>3. CASE same' \subseteq same \cup UNION {plan[r] : r \in Run} /\ \A r \in Run : plan'[r] \subseteq plan[r]
  BY <1>1, <1>2, <1>3 DEF ConflictInv
<1>4. ASSUME NEW d \in Doc, AlignInner(d)
      PROVE  ConflictInv'
  <2> DEFINE pairs == generate_candidate_pairs(SetToSeq(Of(d)))
  <2>1. PICK embedded \in BOOLEAN : same' = same \cup SameAsOf(alike(pairs, embedded), RunOf[d])
    BY <1>4 DEF AlignInner
  <2>2. ASSUME NEW p \in alike(pairs, embedded)
        PROVE  ClearedPair(p[1], p[2])
    <3>1. p[1] \in Of(d) /\ p[2] \in Of(d) /\ candidate(p[1], p[2])
      BY <2>2, InnerPairs DEF alike
    <3>2. p[1] \in Named(p[1].uri) /\ p[2] \in Named(p[2].uri)
      BY <3>1, Mentioned
    <3>3. agree(p[1], p[2])
      BY <3>1, CandidatesAgree
    <3>4. QED
      BY <3>1, <3>2, <3>3 DEF ClearedPair, candidate, comparable
  <2> HIDE DEF pairs
  <2>3. \A s \in SameAsOf(alike(pairs, embedded), RunOf[d]) : Cleared(s)
    BY <2>2, ClearedPairs
  <2>4. plan' = plan
    BY <1>4 DEF AlignInner
  <2>5. QED
    BY <1>1, <1>2, <2>1, <2>3, <2>4 DEF ConflictInv
<1>5. ASSUME NEW r \in Run, Compare(r)
      PROVE  ConflictInv'
  <2>1. PICK new \in Loaded(r) :
          \E source \in Sources(r), embedded \in BOOLEAN :
            plan' = [plan EXCEPT ![r] = SameAsOf(alike(Across(r, new, source), embedded), r)]
    BY <1>5, CompareIs
  <2>2. PICK source \in Sources(r), embedded \in BOOLEAN :
          plan' = [plan EXCEPT ![r] = SameAsOf(alike(Across(r, new, source), embedded), r)]
    BY <2>1
  <2>3. run[r] # "end" /\ same' = same
    BY <1>5 DEF Compare
  <2>4. \A p \in alike(Across(r, new, source), embedded) : ClearedPair(p[1], p[2])
    BY <1>1, <2>3, AcrossIsCleared DEF alike
  <2>5. \A s \in SameAsOf(alike(Across(r, new, source), embedded), r) : Cleared(s)
    BY <2>4, ClearedPairs
  <2>6. \A t \in Run : \A s \in plan'[t] : Cleared(s)
    BY <1>1, <2>2, <2>5 DEF ConflictInv, TypeOK
  <2>7. QED
    BY <1>1, <1>2, <2>3, <2>6 DEF ConflictInv
<1>6. ASSUME NEW r \in Run, WriteCross(r)
      PROVE  ConflictInv'
  <2>1. same' \subseteq same \cup plan[r] /\ \A t \in Run : plan'[t] \subseteq plan[t]
    BY <1>6 DEF WriteCross
  <2>2. QED
    BY <1>1, <1>2, <2>1 DEF ConflictInv
<1>7. QED
  BY <1>3, <1>4, <1>5, <1>6 DEF Next, vars, graphVars, Extract, FailJob, Accept, Reject

(***************************************************************************)
(* Two entities with different values for a unique key are never proposed  *)
(* as the same, whatever was extracted and however things are compared,    *)
(* unless a curator rejected a statement of one of them or touched one     *)
(* before its run ended: what get_prior_entities finds of an entity is     *)
(* otherwise all that some document says of it.                            *)
(***************************************************************************)
THEOREM ConflictsAreNeverProposed == Spec => []ConflictsStayApart
<1>1. Init => ConflictInv
  <2>1. Init => TypeOK
    BY DEF Init, TypeOK, JobStep, RunStep
  <2>2. QED
    BY <2>1 DEF Init, ConflictInv, PastInv
<1>2. ConflictInv => ConflictsStayApart
  BY DEF ConflictInv, ConflictsStayApart, Cleared
<1>3. QED
  BY <1>1, <1>2, NextConflictInv, PTL DEF Spec

-----------------------------------------------------------------------------
(* Matches.                                                                *)

OneType(x) == \E i \in DOMAIN Types : values(x.facts, "type") = {Types[i]}

\* Two mentions match, in either order and with or without embeddings.
Match(a, b) ==
  /\ comparable(a, b) /\ agree(a, b) /\ OneType(a) /\ OneType(b)
  /\ \A embedded \in BOOLEAN :
       /\ above_threshold(a.facts, b.facts, embedded)
       /\ above_threshold(b.facts, a.facts, embedded)

LEMMA MatchIsSymmetric ==
  ASSUME NEW a, NEW b, Match(a, b)
  PROVE  Match(b, a)
<1>1. cfg(b.facts) = cfg(a.facts)
  BY DEF Match, comparable, cfg
<1>2. agree(b, a)
  BY <1>1 DEF Match, agree
<1>3. comparable(b, a)
  BY DEF Match, comparable
<1>4. QED
  BY <1>2, <1>3 DEF Match

LEMMA MatchesAreCandidates ==
  ASSUME NEW a, NEW b, NEW x, Match(a, b), x.facts = b.facts, x.uri = b.uri
  PROVE  candidate(a, x)
<1>1. comparable(a, x)
  BY DEF Match, comparable
<1>2. hard_match(a.facts, x.facts) \/ ~ hard_conflict(a.facts, x.facts)
  BY DEF Match, agree, hard_match, hard_conflict, both
<1>3. QED
  BY <1>1, <1>2 DEF candidate

\* An IRI that one document mentions.
Alone(m, d) == d \in Doc /\ m \in Of(d) /\ Named(m.uri) = {m}

LEMMA AloneIs ==
  ASSUME NEW m, NEW d, Alone(m, d), NEW e \in Doc, m.uri \in Subjects(Text[e])
  PROVE  e = d
<1>1. PICK x \in Of(e) : x.uri = m.uri
  BY EachIsMentioned
<1>2. x \in Named(m.uri) /\ x.doc = e /\ m.doc = d
  BY <1>1, Mentioned DEF Alone
<1>3. QED
  BY <1>2 DEF Alone

\* What the graph has of such an entity is from its document.
LEMMA SaidOfAlone ==
  ASSUME TypeOK, NEW r \in Run, NEW m, NEW d, Alone(m, d),
         NEW s \in Visible(r), s[2][1] = m.uri
  PROVE  s[1] = d /\ s[2] \in Text[d]
<1>1. s[1] \in Doc /\ s[2] \in Text[s[1]] /\ m.uri \in Subjects(Text[s[1]])
  BY VisibleIs DEF Subjects
<1>2. QED
  BY <1>1, AloneIs

LEMMA PriorOfAlone ==
  ASSUME TypeOK, NEW r \in Run, NEW source \in Sources(r), NEW m, NEW d, Alone(m, d), OneType(m),
         NEW x \in prior_entities(r, source), x.uri = m.uri
  PROVE  /\ x.doc \in {d, Unknown}
         /\ typed(x.facts) => bucket(x.facts) = bucket(m.facts)
<1>1. x.doc = source[m.uri] /\ x.facts = FactsOf(Said(r), m.uri) /\ m.uri \in Uri
  BY PriorFacts
<1>2. x.doc \in {d, Unknown}
  <2>1. CASE source[m.uri] = Unknown
    BY <1>1, <2>1
  <2>2. ASSUME NEW s \in Traced(r), s[2][1] = m.uri, s[1] = source[m.uri]
        PROVE  x.doc = d
    <3>1. s \in Visible(r)
      BY DEF Visible
    <3>2. QED
      BY <1>1, <2>2, <3>1, SaidOfAlone
  <2>3. QED
    BY <1>1, <2>1, <2>2, SourceIs
<1>3. m.facts = FactsOf(Text[d], m.uri)
  BY MentionFacts DEF Alone
<1>4. values(x.facts, "type") \subseteq values(m.facts, "type")
  <2> SUFFICES ASSUME NEW w \in values(x.facts, "type") PROVE w \in values(m.facts, "type")
    OBVIOUS
  <2>1. PICK t \in Said(r) : t[1] = m.uri /\ t[2] = "type" /\ t[3] = w
    BY <1>1, ValueIs
  <2>2. PICK s \in Visible(r) : s[2] = t
    BY <2>1 DEF Said
  <2>3. t \in Text[d]
    BY <2>1, <2>2, SaidOfAlone
  <2>4. QED
    BY <1>3, <2>1, <2>3, ValueIs
<1>5. typed(x.facts) => values(x.facts, "type") = values(m.facts, "type")
  BY <1>4 DEF typed, OneType
<1>6. QED
  BY <1>2, <1>5 DEF bucket

(***************************************************************************)
(* A prior entity of which no statement was rejected is as its document    *)
(* mentions it.                                                            *)
(***************************************************************************)
LEMMA PriorIsThere ==
  ASSUME TypeOK, PastInv, NEW r \in Run, NEW source \in Sources(r), NEW m, NEW e, Alone(m, e),
         e \in written, e \notin Filed(r), ~ Happened({"rejected"}, m.uri)
  PROVE  \E x \in prior_entities(r, source) : x.uri = m.uri /\ x.facts = m.facts
<1>1. e \in Doc /\ m.uri \in Subjects(Text[e]) /\ m.facts = FactsOf(Text[e], m.uri)
  BY MentionIs DEF Alone
<1>2. ASSUME NEW t \in Text[e], t[1] = m.uri
      PROVE  t \in Said(r)
  <2> DEFINE q == <<e, t>>
  <2>1. q \in Statements /\ q[1] = e /\ q[2] = t
    BY DEF Statements
  <2>2. q \notin rejected
    BY <1>1, <1>2, <2>1 DEF PastInv, Happened
  <2>3. q \in Visible(r)
    BY <2>1, <2>2 DEF Visible, Traced
  <2> HIDE DEF q
  <2>4. QED
    BY <2>1, <2>3 DEF Said
<1>3. ASSUME NEW t \in Said(r), t[1] = m.uri
      PROVE  t \in Text[e]
  <2>1. PICK s \in Visible(r) : s[2] = t
    BY DEF Said
  <2>2. QED
    BY <1>3, <2>1, SaidOfAlone
<1>4. {t \in Said(r) : t[1] = m.uri} = {t \in Text[e] : t[1] = m.uri}
  BY <1>2, <1>3
<1>5. FactsOf(Said(r), m.uri) = m.facts
  BY <1>1, <1>4 DEF FactsOf
<1>6. m.uri \in Subjects(Said(r))
  BY <1>1, <1>2 DEF Subjects
<1>7. PICK x \in prior_entities(r, source) : x.uri = m.uri
  BY <1>6, PriorIs
<1>8. x.facts = m.facts
  BY <1>5, <1>7, PriorFacts
<1>9. QED
  BY <1>7, <1>8

(***************************************************************************)
(* A match of two documents, the first of them in the run, is scored when  *)
(* the second is in the run too, later in the sequence, or a prior one.    *)
(***************************************************************************)
LEMMA MatchIsScored ==
  ASSUME TypeOK, NEW r \in Run, NEW new \in Loaded(r), NEW source \in Sources(r),
         NEW d \in Filed(r), NEW e \in Doc, d # e, NEW a, NEW b, Alone(a, d), Alone(b, e),
         Match(a, b),
         NEW i \in 1..Len(new), NEW j \in 1..Len(Compared(r, new, source)), i < j,
         Compared(r, new, source)[i] = a,
         Compared(r, new, source)[j].uri = b.uri, Compared(r, new, source)[j].facts = b.facts,
         j <= Len(new) => e \in Filed(r) /\ Compared(r, new, source)[j] = b,
         j > Len(new) => e \notin Filed(r)
  PROVE  <<a, Compared(r, new, source)[j]>> \in Across(r, new, source)
<1> DEFINE es == Compared(r, new, source)
           n == Len(new)
           P == prior_entities(r, source)
<1>1. PICK S : es \in Seq(S)
  BY ComparedIs
<1>2. /\ n \in Nat /\ Len(es) \in Nat /\ n <= Len(es)
      /\ \A k \in 1..n : \E f \in Filed(r) : es[k] \in Of(f)
      /\ \A k \in 1..Len(es) : k > n => es[k] \in P
      /\ \A k, l \in 1..n : es[k] = es[l] => k = l
      /\ \A k, l \in 1..Len(es) : k > n /\ l > n /\ es[k] = es[l] => k = l
  BY ComparedIs
<1>3. /\ es[i] = a /\ es[j].uri = b.uri /\ es[j].facts = b.facts
      /\ j <= n => es[j] = b
      /\ j > n => e \notin Filed(r)
  OBVIOUS
<1>4. \A x, y \in P : x.uri = y.uri => x = y
  BY PriorIs
<1>5. /\ a.uri # b.uri /\ bucket(a.facts) = bucket(b.facts)
      /\ OneType(a) /\ OneType(b)
  BY DEF Match, comparable
<1>6. /\ \A x \in P : x.uri = a.uri /\ typed(x.facts) => bucket(x.facts) = bucket(a.facts)
      /\ \A x \in P : x.uri = b.uri => x.doc \in {e, Unknown}
      /\ \A x \in P : x.uri = b.uri /\ typed(x.facts) => bucket(x.facts) = bucket(b.facts)
  BY <1>5, PriorOfAlone
<1>7. a \in Of(d) /\ b \in Of(e) /\ a.doc = d /\ b.doc = e /\ ~ a.prior
  BY MentionIs DEF Alone
<1>8. i \in 1..Len(es) /\ j \in 1..Len(es) /\ i <= n
  BY <1>2
<1> HIDE DEF es, n, P
<1>9. ASSUME NEW k \in 1..n, es[k].uri \in {a.uri, b.uri}
      PROVE  es[k] = a \/ (es[k] = b /\ e \in Filed(r))
  <2>1. PICK f \in Filed(r) : es[k] \in Of(f)
    BY <1>2
  <2>2. f \in Doc /\ es[k] \in Named(es[k].uri) /\ es[k].doc = f
    BY <2>1, Mentioned DEF Filed
  <2>3. es[k] = a \/ es[k] = b
    BY <1>9, <2>2 DEF Alone
  <2>4. QED
    BY <1>7, <2>2, <2>3
<1>10. ASSUME NEW k \in 1..Len(es), es[k].uri \in {es[i].uri, es[j].uri}, typed(es[k].facts)
       PROVE  /\ k >= i /\ bucket(es[k].facts) = bucket(es[i].facts)
              /\ es[k].uri = es[j].uri => k >= j
  <2>1. CASE k <= n
    <3>1. k \in 1..n
      BY <1>2, <2>1
    <3>2. CASE es[k] = a
      <4>1. k = i
        BY <1>2, <1>3, <1>8, <3>1, <3>2
      <4>2. QED
        BY <1>3, <1>5, <1>8, <4>1
    <3>3. CASE es[k] = b /\ e \in Filed(r)
      <4>1. j <= n /\ es[j] = b
        BY <1>2, <1>3, <1>8, <3>3
      <4>2. k = j
        BY <1>2, <1>8, <3>1, <3>3, <4>1
      <4>3. QED
        BY <1>2, <1>3, <1>5, <1>8, <4>2
    <3>4. QED
      BY <1>3, <1>9, <1>10, <3>1, <3>2, <3>3
  <2>2. CASE k > n
    <3>1. es[k] \in P /\ k >= i
      BY <1>2, <1>8, <2>2
    <3>2. bucket(es[k].facts) = bucket(es[i].facts)
      BY <1>3, <1>5, <1>6, <1>10, <3>1
    <3>3. ASSUME es[k].uri = es[j].uri
          PROVE  k >= j
      <4>1. CASE j <= n
        BY <1>2, <1>8, <2>2, <4>1
      <4>2. CASE j > n
        <5>1. es[j] \in P
          BY <1>2, <1>8, <4>2
        <5>2. es[k] = es[j]
          BY <1>4, <3>1, <3>3, <5>1
        <5>3. k = j
          BY <1>2, <1>8, <2>2, <4>2, <5>2
        <5>4. QED
          BY <1>2, <1>8, <5>3
      <4>3. QED
        BY <1>2, <1>8, <4>1, <4>2
    <3>4. QED
      BY <3>1, <3>2, <3>3
  <2>3. QED
    BY <1>2, <2>1, <2>2
<1>11. candidate(es[i], es[j])
  BY <1>3, MatchesAreCandidates
<1>12. <<es[i], es[j]>> \in generate_candidate_pairs(es)
  BY <1>1, <1>8, <1>10, <1>11, FirstPairIsKept
<1>13. es[j].doc \in {e, Unknown}
  <2>1. CASE j <= n
    BY <1>3, <1>7, <2>1
  <2>2. CASE j > n
    BY <1>2, <1>3, <1>6, <1>8, <2>2
  <2>3. QED
    BY <1>2, <1>8, <2>1, <2>2
<1>14. across(es[i], es[j])
  <2>1. d \in Doc /\ d # Unknown
    BY AlignmentAssumption DEF Alone
  <2>2. QED
    BY <1>3, <1>7, <1>13, <2>1 DEF across
<1>15. QED
  BY <1>3, <1>12, <1>14 DEF Across, es

LEMMA SameAsOfEach ==
  ASSUME NEW pairs, NEW r, NEW p \in pairs
  PROVE  \E s \in SameAsOf(pairs, r) : s.uris = {p[1].uri, p[2].uri}
<1> DEFINE s == [uris |-> {p[1].uri, p[2].uri}, docs |-> {p[1].doc, p[2].doc}, by |-> r]
<1>1. s \in SameAsOf(pairs, r) /\ s.uris = {p[1].uri, p[2].uri}
  BY DEF SameAsOf
<1>2. QED
  BY <1>1

\* Something relates two IRIs or is about to.
Proposed(U) ==
  \/ \E s \in same : s.uris = U
  \/ \E r \in Run : \E s \in plan[r] : s.uris = U

Unspoiled(m) == ~ Happened({"rejected"}, m.uri)

(***************************************************************************)
(* A run that has compared is through with its documents, and what matches *)
(* between two such runs, or in one, is proposed.                          *)
(***************************************************************************)
MatchInv ==
  /\ TypeOK /\ PastInv
  /\ \A r \in Run : run[r] # "cross" => plan[r] = {}
  /\ \A d \in Doc : job[d] \in {"extracted", "filed"} => d \in written
  /\ \A d \in Doc : run[RunOf[d]] # "chord" => job[d] \in {"filed", "failed"}
  /\ \A d, e \in Doc :
       /\ d # e /\ job[d] = "filed" /\ job[e] = "filed"
       /\ run[RunOf[d]] # "chord" /\ run[RunOf[e]] # "chord"
       => \A a, b : Alone(a, d) /\ Alone(b, e) /\ Match(a, b) /\ Unspoiled(a) /\ Unspoiled(b)
                      => Proposed({a.uri, b.uri})

(***************************************************************************)
(* The run of one of two documents compares, that of the other has done so *)
(* or is the same.                                                         *)
(***************************************************************************)
LEMMA CompareProposes ==
  ASSUME MatchInv, NEW r \in Run, Compare(r), NEW d \in Filed(r), NEW e \in Doc, d # e,
         job[e] = "filed",
         NEW a, NEW b, Alone(a, d), Alone(b, e), Match(a, b), Unspoiled(b)
  PROVE  Proposed({a.uri, b.uri})'
<1>1. PICK new \in Loaded(r) :
        \E source \in Sources(r), embedded \in BOOLEAN :
          plan' = [plan EXCEPT ![r] = SameAsOf(alike(Across(r, new, source), embedded), r)]
  BY CompareIs
<1>2. PICK source \in Sources(r), embedded \in BOOLEAN :
        plan' = [plan EXCEPT ![r] = SameAsOf(alike(Across(r, new, source), embedded), r)]
  BY <1>1
<1> DEFINE es == Compared(r, new, source)
           n == Len(new)
<1>3. ASSUME NEW x, NEW y, x.uri = a.uri, x.facts = a.facts, y.uri = b.uri, y.facts = b.facts,
             <<x, y>> \in Across(r, new, source) \/ <<y, x>> \in Across(r, new, source)
      PROVE  Proposed({a.uri, b.uri})'
  <2>1. above_threshold(x.facts, y.facts, embedded) /\ above_threshold(y.facts, x.facts, embedded)
    BY <1>3 DEF Match
  <2>2. \E p \in alike(Across(r, new, source), embedded) : {p[1].uri, p[2].uri} = {a.uri, b.uri}
    <3>1. CASE <<x, y>> \in Across(r, new, source)
      <4>1. <<x, y>> \in alike(Across(r, new, source), embedded)
        BY <2>1, <3>1 DEF alike
      <4>2. {<<x, y>>[1].uri, <<x, y>>[2].uri} = {a.uri, b.uri}
        BY <1>3
      <4>3. QED
        BY <4>1, <4>2
    <3>2. CASE <<y, x>> \in Across(r, new, source)
      <4>1. <<y, x>> \in alike(Across(r, new, source), embedded)
        BY <2>1, <3>2 DEF alike
      <4>2. {<<y, x>>[1].uri, <<y, x>>[2].uri} = {a.uri, b.uri}
        BY <1>3
      <4>3. QED
        BY <4>1, <4>2
    <3>3. QED
      BY <1>3, <3>1, <3>2
  <2>3. \E s \in SameAsOf(alike(Across(r, new, source), embedded), r) : s.uris = {a.uri, b.uri}
    <3> DEFINE A == alike(Across(r, new, source), embedded)
    <3>1. PICK p \in A : {p[1].uri, p[2].uri} = {a.uri, b.uri}
      BY <2>2
    <3> HIDE DEF A
    <3>2. \E s \in SameAsOf(A, r) : s.uris = {p[1].uri, p[2].uri}
      BY SameAsOfEach
    <3>3. QED
      BY <3>1, <3>2 DEF A
  <2>4. \E s \in plan'[r] : s.uris = {a.uri, b.uri}
    <3>1. plan'[r] = SameAsOf(alike(Across(r, new, source), embedded), r)
      BY <1>2 DEF MatchInv, TypeOK
    <3>2. QED
      BY <2>3, <3>1
  <2>5. QED
    BY <2>4 DEF Proposed
<1>4. /\ n \in Nat /\ Len(es) \in Nat /\ n <= Len(es)
      /\ \A f \in Filed(r) : \A x \in Of(f) : \E k \in 1..n : es[k] = x
      /\ \A x \in prior_entities(r, source) : \E k \in 1..Len(es) : k > n /\ es[k] = x
  BY ComparedIs DEF MatchInv
<1>5. PICK i \in 1..n : es[i] = a
  BY <1>4 DEF Alone
<1>6. d \in Doc /\ i \in 1..Len(es)
  BY <1>4 DEF Filed
<1>7. TypeOK /\ PastInv /\ e \in written
  BY DEF MatchInv
<1> HIDE DEF es, n
<1>8. CASE e \in Filed(r)
  <2>1. PICK j \in 1..n : es[j] = b
    BY <1>4, <1>8 DEF Alone
  <2>2. i # j
    BY <1>5, <2>1 DEF Match, comparable
  <2>3. j \in 1..Len(es) /\ i <= n /\ j <= n /\ ~ i > n /\ ~ j > n
    BY <1>4, <2>1
  <2>4. CASE i < j
    <3>1. <<a, es[j]>> \in Across(r, new, source)
      BY <1>5, <1>7, <1>8, <2>1, <2>3, <2>4, MatchIsScored DEF es, n
    <3>2. QED
      BY <1>3, <2>1, <3>1
  <2>5. CASE j < i
    <3>1. Match(b, a)
      BY MatchIsSymmetric
    <3>2. <<b, es[i]>> \in Across(r, new, source)
      BY <1>5, <1>6, <1>7, <1>8, <2>1, <2>3, <2>5, <3>1, MatchIsScored DEF es, n
    <3>3. QED
      BY <1>3, <1>5, <3>2
  <2>6. i < j \/ j < i
    BY <1>4, <2>1, <2>2
  <2>7. QED
    BY <2>4, <2>5, <2>6
<1>9. CASE e \notin Filed(r)
  <2>1. PICK x \in prior_entities(r, source) : x.uri = b.uri /\ x.facts = b.facts
    BY <1>7, <1>9, PriorIsThere DEF Unspoiled
  <2>2. PICK j \in 1..Len(es) : j > n /\ es[j] = x
    BY <1>4, <2>1
  <2>3. i < j /\ ~ j <= n
    BY <1>4, <2>2
  <2>4. <<a, es[j]>> \in Across(r, new, source)
    BY <1>5, <1>7, <1>9, <2>1, <2>2, <2>3, MatchIsScored DEF es, n
  <2>5. QED
    BY <1>3, <2>1, <2>2, <2>4
<1>10. QED
  BY <1>8, <1>9

\* What is proposed stays so; a run that writes drops what is there already.
LEMMA ProposedStays ==
  ASSUME MatchInv, [Next]_vars, NEW U, Proposed(U)
  PROVE  Proposed(U)'
<1>1. CASE same \subseteq same' /\ \A r \in Run : plan[r] \subseteq plan'[r]
  BY <1>1 DEF Proposed
<1>2. ASSUME NEW r \in Run, Compare(r)
      PROVE  Proposed(U)'
  <2>1. same' = same /\ plan[r] = {}
    BY <1>2 DEF Compare, MatchInv
  <2>2. \A t \in Run : t # r => plan'[t] = plan[t]
    BY <1>2, CompareIs DEF MatchInv, TypeOK
  <2>3. QED
    BY <2>1, <2>2 DEF Proposed
<1>3. ASSUME NEW r \in Run, WriteCross(r)
      PROVE  Proposed(U)'
  <2>1. same' = same \cup {s \in plan[r] : \A t \in same : t.uris # s.uris}
    BY <1>3 DEF WriteCross
  <2>2. \A t \in Run : t # r => plan'[t] = plan[t]
    BY <1>3 DEF WriteCross, MatchInv, TypeOK
  <2>3. \A s \in plan[r] : \E t \in same' : t.uris = s.uris
    BY <2>1
  <2>4. QED
    BY <2>1, <2>2, <2>3 DEF Proposed
<1>4. QED
  BY <1>1, <1>2, <1>3 DEF Next, vars, graphVars, Extract, FailJob, AlignInner, Accept, Reject

LEMMA NextMatchInv == MatchInv /\ [Next]_vars => MatchInv'
<1> SUFFICES ASSUME MatchInv, [Next]_vars PROVE MatchInv'
  OBVIOUS
<1>1. TypeOK /\ TypeOK' /\ PastInv /\ PastInv'
  BY NextTypeOK, NextPastInv DEF MatchInv
<1>2. \A m : Unspoiled(m)' => Unspoiled(m)
  BY PastGrows DEF Unspoiled, Happened
<1>3. /\ \A r \in Run : run'[r] # "cross" => plan'[r] = {}
      /\ \A d \in Doc : job'[d] \in {"extracted", "filed"} => d \in written'
      /\ \A d \in Doc : run'[RunOf[d]] # "chord" => job'[d] \in {"filed", "failed"}
  <2>1. CASE UNCHANGED <<job, run, written, plan>>
    BY <2>1 DEF MatchInv
  <2>2. ASSUME NEW d \in Doc, Extract(d) \/ FailJob(d) \/ AlignInner(d)
        PROVE  <1>3!1 /\ <1>3!2 /\ <1>3!3
    <3>1. UNCHANGED <<run, plan>> /\ written \subseteq written' /\ job[d] \notin {"filed", "failed"}
      BY <2>2 DEF Extract, FailJob, AlignInner, graphVars
    <3>2. /\ \A e \in Doc : e # d => job'[e] = job[e]
          /\ job'[d] \in {"extracted", "filed"} => d \in written'
      BY <1>1, <2>2 DEF Extract, FailJob, AlignInner, graphVars, MatchInv, TypeOK
    <3>3. run[RunOf[d]] = "chord"
      BY <3>1 DEF MatchInv
    <3>4. QED
      BY <3>1, <3>2, <3>3 DEF MatchInv
  <2>3. ASSUME NEW r \in Run, Compare(r)
        PROVE  <1>3!1 /\ <1>3!2 /\ <1>3!3
    <3>1. /\ UNCHANGED <<job, written>> /\ run'[r] = "cross"
          /\ \A t \in Run : t # r => run'[t] = run[t]
          /\ \A d \in Doc : RunOf[d] = r => job[d] \in {"filed", "failed"}
      BY <1>1, <2>3 DEF Compare, graphVars, TypeOK
    <3>2. \A t \in Run : t # r => plan'[t] = plan[t]
      BY <1>1, <2>3, CompareIs DEF TypeOK
    <3>3. QED
      BY <3>1, <3>2, AlignmentAssumption DEF MatchInv
  <2>4. ASSUME NEW r \in Run, WriteCross(r)
        PROVE  <1>3!1 /\ <1>3!2 /\ <1>3!3
    <3>1. /\ UNCHANGED <<job, written>> /\ run[r] = "cross" /\ plan'[r] = {}
          /\ \A t \in Run : t # r => run'[t] = run[t] /\ plan'[t] = plan[t]
      BY <1>1, <2>4 DEF WriteCross, graphVars, TypeOK
    <3>2. QED
      BY <3>1, AlignmentAssumption DEF MatchInv
  <2>5. QED
    BY <2>1, <2>2, <2>3, <2>4 DEF Next, vars, graphVars, Accept, Reject
<1>4. ASSUME NEW d \in Doc, NEW e \in Doc, d # e, job'[d] = "filed", job'[e] = "filed",
             run'[RunOf[d]] # "chord", run'[RunOf[e]] # "chord",
             NEW a, NEW b, Alone(a, d), Alone(b, e), Match(a, b),
             Unspoiled(a)', Unspoiled(b)'
      PROVE  Proposed({a.uri, b.uri})'
  <2>1. Unspoiled(a) /\ Unspoiled(b)
    BY <1>2, <1>4
  <2>2. CASE job[d] = "filed" /\ job[e] = "filed" /\ run[RunOf[d]] # "chord" /\ run[RunOf[e]] # "chord"
    BY <1>4, <2>1, <2>2, ProposedStays DEF MatchInv
  <2>3. ASSUME NEW r \in Run, Compare(r)
        PROVE  Proposed({a.uri, b.uri})'
    <3>1. job' = job /\ run[r] = "chord" /\ \A t \in Run : t # r => run'[t] = run[t]
      BY <1>1, <2>3 DEF Compare, TypeOK
    <3>2. CASE RunOf[d] = r
      <4>1. d \in Filed(r) /\ job[e] = "filed"
        BY <1>4, <3>1, <3>2 DEF Filed
      <4>2. QED
        BY <1>4, <2>1, <2>3, <4>1, CompareProposes
    <3>3. CASE RunOf[e] = r
      <4>1. e \in Filed(r) /\ job[d] = "filed"
        BY <1>4, <3>1, <3>3 DEF Filed
      <4>2. Match(b, a)
        BY <1>4, MatchIsSymmetric
      <4>3. Proposed({b.uri, a.uri})'
        BY <1>4, <2>1, <2>3, <4>1, <4>2, CompareProposes
      <4>4. {b.uri, a.uri} = {a.uri, b.uri}
        OBVIOUS
      <4>5. QED
        BY <4>3, <4>4
    <3>4. CASE RunOf[d] # r /\ RunOf[e] # r
      <4>1. run[RunOf[d]] # "chord" /\ run[RunOf[e]] # "chord"
        BY <1>4, <3>1, <3>4, AlignmentAssumption
      <4>2. QED
        BY <1>4, <2>2, <3>1, <4>1
    <3>5. QED
      BY <3>2, <3>3, <3>4
  <2>4. ASSUME NEW f \in Doc, Extract(f) \/ FailJob(f) \/ AlignInner(f)
        PROVE  Proposed({a.uri, b.uri})'
    <3>1. run' = run /\ job[f] \notin {"filed", "failed"} /\ \A g \in Doc : g # f => job'[g] = job[g]
      BY <1>1, <2>4 DEF Extract, FailJob, AlignInner, TypeOK
    <3>2. d # f /\ e # f
      BY <1>4, <3>1 DEF MatchInv
    <3>3. QED
      BY <1>4, <2>2, <3>1, <3>2
  <2>5. ASSUME NEW r \in Run, WriteCross(r)
        PROVE  Proposed({a.uri, b.uri})'
    <3>1. job' = job /\ \A t \in Run : run'[t] # "chord" => run[t] # "chord"
      BY <1>1, <2>5 DEF WriteCross, TypeOK
    <3>2. QED
      BY <1>4, <2>2, <3>1, AlignmentAssumption
  <2>6. CASE UNCHANGED <<job, run>>
    BY <1>4, <2>2, <2>6
  <2>7. QED
    BY <2>3, <2>4, <2>5, <2>6 DEF Next, vars, Accept, Reject
<1>5. QED
  BY <1>1, <1>3, <1>4 DEF MatchInv

(***************************************************************************)
(* When all runs have ended, any two entities of different documents that  *)
(* match are proposed as the same, for every order of tasks, files and     *)
(* entities, whatever was accepted meanwhile and whether or not embeddings *)
(* could be had: of two runs, the one that compares later finds everything *)
(* that was extracted in the other, and no pair of the same two entities   *)
(* comes first.                                                            *)
(***************************************************************************)
THEOREM MatchesAreNeverMissed == Spec => []MatchesAreProposed
<1>1. Init => MatchInv
  <2>1. Init => TypeOK
    BY DEF Init, TypeOK, JobStep, RunStep
  <2>2. QED
    BY <2>1, AlignmentAssumption DEF Init, MatchInv, PastInv
<1>2. MatchInv => MatchesAreProposed
  <2> SUFFICES ASSUME MatchInv, \A r \in Run : run[r] = "end",
                      NEW d \in Doc, NEW e \in Doc, d # e, job[d] = "filed", job[e] = "filed",
                      NEW p \in Comparables(d, e)
               PROVE  \E s \in same : s.uris = {p[1].uri, p[2].uri}
    BY DEF MatchesAreProposed
  <2>1. /\ p[1] \in Of(d) /\ p[2] \in Of(e)
        /\ Named(p[1].uri) = {p[1]} /\ Named(p[2].uri) = {p[2]}
        /\ Unspoiled(p[1]) /\ Unspoiled(p[2])
    BY DEF Comparables, Unspoiled
  <2>2. Match(p[1], p[2])
    BY DEF Comparables, Match, OneType
  <2>3. Alone(p[1], d) /\ Alone(p[2], e)
    BY <2>1 DEF Alone
  <2>4. run[RunOf[d]] # "chord" /\ run[RunOf[e]] # "chord"
    BY AlignmentAssumption
  <2>5. Proposed({p[1].uri, p[2].uri})
    BY <2>1, <2>2, <2>3, <2>4 DEF MatchInv
  <2>6. \A r \in Run : plan[r] = {}
    BY DEF MatchInv
  <2>7. QED
    BY <2>5, <2>6 DEF Proposed
<1>3. QED
  BY <1>1, <1>2, NextMatchInv, PTL DEF Spec

=============================================================================
