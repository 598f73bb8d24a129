---------------------------- MODULE ExportProofs ----------------------------
(***************************************************************************)
(* The union-find of the export merges what the accepted pairs link, for   *)
(* every set of names and pairs and every order of the pairs; and names    *)
(* stay apart when no name has two hashes.                                 *)
(*                                                                         *)
(* find is the end of a walk, and what a walk reaches would take induction.*)
(* The invariant says instead that some function f gives every name its    *)
(* root, and that the root is in every set that the walk cannot leave:     *)
(* there is only one such f, and a union changes it at one class.          *)
(***************************************************************************)
EXTENDS Export, TLAPS

ClosedUp(S) == \A z \in S : Up(z) \in S

Roots(f) ==
  /\ f \in [Uri -> Uri]
  /\ \A x \in Uri : f[Up(x)] = f[x]
  /\ \A x \in Uri : Up(f[x]) = f[x]
  /\ \A x \in Uri : \A S \in SUBSET Uri : x \in S /\ ClosedUp(S) => f[x] \in S

Classes(f, P) == \A x, y \in Uri : f[x] = f[y] <=> Linked(P, x, y)

Shape ==
  /\ accepted \subseteq Pair /\ pairs \subseteq Pair /\ done \subseteq pairs
  /\ pc \in {"data", "pairs"} => done = {}
  /\ DOMAIN parent \subseteq Uri /\ parent \in [DOMAIN parent -> Uri]

IInv == Shape /\ \E f : Roots(f) /\ Classes(f, done)
-----------------------------------------------------------------------------
(* find *)

\* A step of the walk stays among the names.
LEMMA UpInUri == ASSUME Shape PROVE \A x \in Uri : Up(x) \in Uri
  BY DEF Shape, Up

\* A root is its own root.
LEMMA RootOfRoot ==
  ASSUME NEW f, Roots(f), NEW r \in Uri, Up(r) = r
  PROVE  f[r] = r
<1>1. {r} \in SUBSET Uri /\ ClosedUp({r})
  BY DEF ClosedUp
<1> QED
  BY <1>1 DEF Roots

\* find is the function of the invariant.
LEMMA FindIsRoot ==
  ASSUME Shape, NEW f, Roots(f), NEW x \in Uri
  PROVE  find(x) = f[x]
<1>1. f[x] \in Uri /\ Up(f[x]) = f[x]
  BY DEF Roots
<1>2. f[x] \in Passed(x)
  BY <1>1 DEF Roots, Passed, ClosedUp
<1>3. ASSUME NEW r \in Passed(x), Up(r) = r
      PROVE  r = f[x]
  <2> DEFINE S == {y \in Uri : f[y] = f[x]}
  <2>1. S \in SUBSET Uri /\ x \in S
    OBVIOUS
  <2>2. \A z \in S : Up(z) \in S
    BY UpInUri DEF Roots
  <2>3. r \in Uri /\ r \in S
    BY <1>3, <2>1, <2>2 DEF Passed
  <2> QED
    BY <1>3, <2>3, RootOfRoot
<1> QED
  BY <1>1, <1>2, <1>3 DEF find
-----------------------------------------------------------------------------
(* A union *)

\* f after the class of b was joined to the class of a.
Joined(f, a, b) == [x \in Uri |-> IF f[x] = f[b] THEN f[a] ELSE f[x]]

\* Joining two classes is what one more pair does to the links.
LEMMA LinksJoin ==
  ASSUME NEW f \in [Uri -> Uri], NEW P \in SUBSET (Uri \X Uri), Classes(f, P),
         NEW a \in Uri, NEW b \in Uri
  PROVE  Classes(Joined(f, a, b), P \cup {<<a, b>>})
<1> DEFINE g == Joined(f, a, b)
           Q == P \cup {<<a, b>>}
<1>0. \A z \in Uri : g[z] = IF f[z] = f[b] THEN f[a] ELSE f[z]
  BY DEF Joined
<1>1. \A pair \in P : pair[1] \in Uri /\ pair[2] \in Uri /\ f[pair[1]] = f[pair[2]]
  <2> TAKE pair \in P
  <2>1. pair[1] \in Uri /\ pair[2] \in Uri
    OBVIOUS
  <2>2. Linked(P, pair[1], pair[2])
    BY DEF Linked
  <2> QED
    BY <2>1, <2>2 DEF Classes
<1> SUFFICES ASSUME NEW x \in Uri, NEW y \in Uri
             PROVE  g[x] = g[y] <=> Linked(Q, x, y)
  BY DEF Classes
<1>2. ASSUME Linked(Q, x, y) PROVE g[x] = g[y]
  <2> DEFINE S == {z \in Uri : g[z] = g[x]}
  <2>1. S \in SUBSET Uri /\ x \in S
    OBVIOUS
  <2>2. g[a] = f[a] /\ g[b] = f[a]
    BY <1>0
  <2>3. \A pair \in Q : pair[1] \in S <=> pair[2] \in S
    <3> TAKE pair \in Q
    <3>1. CASE pair \in P
      <4>1. g[pair[1]] = g[pair[2]]
        BY <1>0, <1>1, <3>1
      <4> QED
        BY <1>1, <3>1, <4>1
    <3>2. CASE pair = <<a, b>>
      <4>1. pair[1] = a /\ pair[2] = b
        BY <3>2
      <4> QED
        BY <2>2, <4>1
    <3> QED
      BY <3>1, <3>2
  <2>4. y \in S
    <3> HIDE DEF S, Q, g
    <3> QED
      BY <1>2, <2>1, <2>3 DEF Linked
  <2> QED
    BY <2>4
<1>3. ASSUME g[x] = g[y] PROVE Linked(Q, x, y)
  <2> SUFFICES ASSUME NEW S \in SUBSET Uri, x \in S,
                      \A pair \in Q : pair[1] \in S <=> pair[2] \in S
               PROVE  y \in S
    BY DEF Linked
  <2>1. \A u, v \in Uri : f[u] = f[v] /\ u \in S => v \in S
    BY DEF Classes, Linked
  <2>2. a \in S <=> b \in S
    <3>1. <<a, b>> \in Q
      OBVIOUS
    <3>2. <<a, b>>[1] = a /\ <<a, b>>[2] = b
      OBVIOUS
    <3> QED
      BY <3>1, <3>2
  <2>3. CASE f[x] = f[y]
    BY <2>1, <2>3
  <2>4. CASE f[x] # f[y] /\ f[x] = f[b]
    <3>1. f[y] = f[a]
      BY <1>0, <1>3, <2>4
    <3> QED
      BY <2>1, <2>2, <2>4, <3>1
  <2>5. CASE f[x] # f[y] /\ f[x] # f[b]
    <3>1. f[y] = f[b] /\ f[x] = f[a]
      BY <1>0, <1>3, <2>5
    <3> QED
      BY <2>1, <2>2, <3>1
  <2> QED
    BY <2>3, <2>4, <2>5
<1> QED
  BY <1>2, <1>3

\* The union-find after a union has the joined roots.
LEMMA RootsJoin ==
  ASSUME Shape, NEW f, Roots(f), NEW a \in Uri, NEW b \in Uri, f[a] # f[b],
         parent' = [x \in DOMAIN parent \cup {f[b]} |->
                      IF x = f[b] THEN f[a] ELSE parent[x]]
  PROVE  Roots(Joined(f, a, b))'
<1> DEFINE g == Joined(f, a, b)
           ra == f[a]
           rb == f[b]
<1>0. /\ f \in [Uri -> Uri] /\ ra \in Uri /\ rb \in Uri /\ ra # rb
      /\ Up(ra) = ra /\ Up(rb) = rb /\ f[ra] = ra /\ f[rb] = rb
  BY RootOfRoot DEF Roots
<1>1. \A z \in Uri : g[z] = IF f[z] = rb THEN ra ELSE f[z]
  BY DEF Joined
<1>2. g \in [Uri -> Uri]
  BY <1>0 DEF Joined
<1>3. \A z \in Uri : Up(z)' = IF z = rb THEN ra ELSE Up(z)
  BY DEF Up, Shape
<1>4. \A z \in Uri : Up(z) \in Uri /\ f[Up(z)] = f[z] /\ Up(f[z]) = f[z] /\ f[z] \in Uri
  BY UpInUri DEF Roots
<1> HIDE DEF g, ra, rb
<1>5. \A z \in Uri : g[Up(z)'] = g[z]
  BY <1>0, <1>1, <1>3, <1>4
<1>6. \A z \in Uri : Up(g[z])' = g[z]
  BY <1>0, <1>1, <1>3, <1>4
<1>7. ASSUME NEW z \in Uri, NEW S \in SUBSET Uri, z \in S, \A u \in S : Up(u)' \in S
      PROVE  g[z] \in S
  <2>1. \A u \in S : Up(u) \in S
    BY <1>0, <1>3, <1>7
  <2>2. f[z] \in S
    BY <1>7, <2>1 DEF Roots, ClosedUp
  <2>3. rb \in S => ra \in S
    BY <1>0, <1>3, <1>7
  <2> QED
    BY <1>1, <2>2, <2>3
<1>8. (\A z \in Uri : \A S \in SUBSET Uri : z \in S /\ ClosedUp(S) => g[z] \in S)'
  BY <1>7 DEF ClosedUp
<1>9. g = Joined(f, a, b)
  BY DEF g
<1> QED
  BY <1>2, <1>5, <1>6, <1>8, <1>9 DEF Roots
-----------------------------------------------------------------------------
(* The invariant *)

LEMMA InitIInv == ASSUME Init PROVE IInv
<1> DEFINE f == [x \in Uri |-> x]
<1>1. \A x \in Uri : Up(x) = x
  BY DEF Init, Up
<1>2. Shape
  BY DEF Init, Shape
<1>3. Roots(f)
  BY <1>1 DEF Roots
<1>4. Classes(f, done)
  <2> SUFFICES ASSUME NEW x \in Uri, NEW y \in Uri
               PROVE  x = y <=> Linked({}, x, y)
    BY DEF Init, Classes
  <2>1. ASSUME Linked({}, x, y) PROVE x = y
    <3>1. {x} \in SUBSET Uri /\ x \in {x}
      OBVIOUS
    <3>2. y \in {x}
      BY <2>1, <3>1 DEF Linked
    <3> QED
      BY <3>2
  <2> QED
    BY <2>1 DEF Linked
<1> QED
  BY <1>2, <1>3, <1>4 DEF IInv

\* A step that leaves the union-find and the pairs gone through alone.
LEMMA Frame ==
  ASSUME IInv, Shape', UNCHANGED <<done, parent>>
  PROVE  IInv'
<1>1. PICK f : Roots(f) /\ Classes(f, done)
  BY DEF IInv
<1>2. Roots(f)'
  BY <1>1 DEF Roots, ClosedUp, Up
<1>3. Classes(f, done)'
  BY <1>1 DEF Classes, Linked
<1> QED
  BY <1>2, <1>3 DEF IInv

LEMMA UnionIInv ==
  ASSUME IInv, NEW pair \in pairs, Union(pair)
  PROVE  IInv'
<1>1. PICK f : Roots(f) /\ Classes(f, done)
  BY DEF IInv
<1>2. Shape
  BY DEF IInv
<1>3. PICK a \in Uri, b \in Uri : pair = <<a, b>>
  BY <1>2, ExportAssumption DEF Shape
<1>4. pair[1] = a /\ pair[2] = b /\ find(a) = f[a] /\ find(b) = f[b]
  BY <1>1, <1>2, <1>3, FindIsRoot
<1>5. /\ f \in [Uri -> Uri]
      /\ done \in SUBSET (Uri \X Uri)
  BY <1>1, <1>2, ExportAssumption DEF Shape, Roots
<1>6. /\ done' = done \cup {<<a, b>>}
      /\ parent' = IF f[a] = f[b] THEN parent
                   ELSE [x \in DOMAIN parent \cup {f[b]} |->
                           IF x = f[b] THEN f[a] ELSE parent[x]]
      /\ UNCHANGED <<accepted, pairs>> /\ pc = "union" /\ pc' = pc
  BY <1>3, <1>4 DEF Union, store
<1>7. Shape'
  <2>1. f[a] \in Uri /\ f[b] \in Uri
    BY <1>5
  <2>2. DOMAIN parent' \subseteq Uri /\ parent' \in [DOMAIN parent' -> Uri]
    BY <1>2, <1>6, <2>1 DEF Shape
  <2> QED
    BY <1>2, <1>3, <1>6, <2>2 DEF Shape
<1>8. Classes(Joined(f, a, b), done')
  BY <1>1, <1>5, <1>6, LinksJoin
<1>9. CASE f[a] = f[b]
  <2>1. Joined(f, a, b) = f
    BY <1>5, <1>9 DEF Joined
  <2>2. Roots(f)'
    BY <1>1, <1>6, <1>9 DEF Roots, ClosedUp, Up
  <2>3. Classes(f, done')
    BY <1>8, <2>1
  <2>4. Classes(f, done)'
    BY <2>3 DEF Classes, Linked
  <2> QED
    BY <1>7, <2>2, <2>4 DEF IInv
<1>10. CASE f[a] # f[b]
  <2>1. Roots(Joined(f, a, b))'
    BY <1>1, <1>2, <1>6, <1>10, RootsJoin
  <2>2. Classes(Joined(f, a, b), done)'
    BY <1>8 DEF Classes, Linked, Joined
  <2> QED
    BY <1>7, <2>1, <2>2 DEF IInv
<1> QED
  BY <1>9, <1>10

LEMMA StepIInv == ASSUME IInv, [Next]_vars PROVE IInv'
<1>0. Shape
  BY DEF IInv
<1>1. CASE ReadData
  BY <1>0, <1>1, Frame DEF ReadData, Shape, store
<1>2. CASE get_accepted_alignment_pairs
  <2>1. done = {} /\ UNCHANGED <<done, parent, accepted>> /\ pairs' = accepted
    BY <1>0, <1>2 DEF get_accepted_alignment_pairs, store, Shape
  <2> QED
    BY <1>0, <2>1, Frame DEF Shape
<1>3. ASSUME NEW pair \in pairs, Union(pair) PROVE IInv'
  BY <1>3, UnionIInv
<1>4. CASE Align
  BY <1>0, <1>4, Frame DEF Align, Shape, store
<1>5. CASE Strip
  BY <1>0, <1>5, Frame DEF Strip, Shape, store
<1>6. ASSUME NEW pair \in Pair, Accept(pair) \/ TakeAway(pair) \/ Retire(pair)
      PROVE  IInv'
  <2>1. UNCHANGED <<pc, pairs, done, parent>> /\ accepted' \subseteq Pair
    BY <1>0, <1>6 DEF Accept, TakeAway, Retire, local, Shape
  <2> QED
    BY <1>0, <2>1, Frame DEF Shape
<1>7. CASE UNCHANGED vars
  BY <1>0, <1>7, Frame DEF vars, store, local, Shape
<1> QED
  BY <1>1, <1>2, <1>3, <1>4, <1>5, <1>6, <1>7 DEF Next, Export, Curate

LEMMA IInvImplies == ASSUME IInv PROVE ComponentsMerged
<1>1. PICK f : Roots(f) /\ Classes(f, done)
  BY DEF IInv
<1>2. \A x \in Uri : find(x) = f[x]
  BY <1>1, FindIsRoot DEF IInv
<1> QED
  BY <1>1, <1>2 DEF ComponentsMerged, Classes

\* The representatives of the export are those of the connected components of
\* the accepted pairs (queries.py:171).
THEOREM ExportMergesComponents == Spec => []ComponentsMerged
  BY InitIInv, StepIInv, IInvImplies, PTL DEF Spec
-----------------------------------------------------------------------------
(* The names *)

\* Where no name has two hashes, stripping gives different entities different
\* names (queries.py:132). Without it, n, n_aaaaaa and
\* n_aaaaaa_bbbbbb become two names.
OneHash == \A u \in Uri : Stripped[Stripped[u]] = Stripped[u]

LEMMA StrippedApart ==
  ASSUME OneHash, NEW uris \in SUBSET Uri, NEW x \in uris, NEW y \in uris,
         hash_stripping_rewrite(uris, x) = hash_stripping_rewrite(uris, y)
  PROVE  x = y
  BY DEF OneHash, hash_stripping_rewrite

\* The names of an export stay apart when no name has two hashes.
THEOREM ExportKeepsNamesApart == ASSUME OneHash PROVE Spec => []NamesApart
<1>1. NamesApart
  <2> SUFFICES ASSUME NEW x \in EntityUris(aligned), NEW y \in EntityUris(aligned),
                      hash_stripping_rewrite(EntityUris(aligned), x)
                        = hash_stripping_rewrite(EntityUris(aligned), y)
               PROVE  x = y
    BY DEF NamesApart
  <2>1. EntityUris(aligned) \in SUBSET Uri
    BY DEF EntityUris
  <2> QED
    BY <2>1, StrippedApart
<1> QED
  BY <1>1, PTL
-----------------------------------------------------------------------------
(* Type correctness                                                        *)

LEMMA FindInUri == ASSUME IInv PROVE \A x \in Uri : find(x) \in Uri
<1>1. PICK f : Roots(f)
  BY DEF IInv
<1>2. \A x \in Uri : find(x) = f[x]
  BY <1>1, FindIsRoot DEF IInv
<1> QED
  BY <1>1, <1>2 DEF Roots

\* A triple whose names are replaced by names is a triple.
LEMMA RewrittenTriple ==
  ASSUME NEW t \in Triple, NEW a, NEW b, t[1] \in Uri => a \in Uri,
         t[3] \in Uri => b \in Uri, t[3] \notin Uri => b = t[3]
  PROVE  <<a, t[2], b>> \in Triple
  BY DEF Triple

LEMMA RewriteAlignedTypes ==
  ASSUME IInv, TypeOK, NEW x
  PROVE  /\ x \in Uri => rewrite_aligned(x) \in Uri
         /\ x \notin Uri => rewrite_aligned(x) = x
  BY FindInUri DEF rewrite_aligned, TypeOK

LEMMA StrippedTypes ==
  ASSUME NEW uris \in SUBSET Uri, NEW x
  PROVE  /\ x \in Uri => hash_stripping_rewrite(uris, x) \in Uri
         /\ x \notin Uri => hash_stripping_rewrite(uris, x) = x
  BY ExportAssumption DEF hash_stripping_rewrite

LEMMA LinkIsTriple == \A pair \in Pair : Link(pair) \in Triple
  BY ExportAssumption DEF Link, Triple

LEMMA UnionTypeOK ==
  ASSUME IInv, TypeOK, NEW pair \in pairs, Union(pair)
  PROVE  TypeOK'
<1> DEFINE a == find(pair[1])
           b == find(pair[2])
<1>1. a \in Uri /\ b \in Uri
  <2>1. pair[1] \in Uri /\ pair[2] \in Uri
    BY ExportAssumption DEF TypeOK
  <2> QED
    BY <2>1, FindInUri
<1>2. /\ parent' = IF a = b THEN parent
                   ELSE [x \in DOMAIN parent \cup {b} |-> IF x = b THEN a ELSE parent[x]]
      /\ done' = done \cup {pair}
      /\ UNCHANGED <<store, pc, data, pairs, aligned, merged>>
  BY DEF Union
<1> HIDE DEF a, b
<1>3. /\ DOMAIN parent' \subseteq Uri /\ parent' \in [DOMAIN parent' -> Uri]
      /\ \A x \in DOMAIN parent' : parent'[x] # x
  BY <1>1, <1>2 DEF TypeOK
<1> QED
  BY <1>2, <1>3 DEF TypeOK, store

LEMMA StepTypeOK == ASSUME IInv, TypeOK, [Next]_vars PROVE TypeOK'
<1>1. CASE ReadData \/ get_accepted_alignment_pairs
  <2>1. done = {} /\ pairs' \subseteq Pair
    BY <1>1 DEF ReadData, get_accepted_alignment_pairs, IInv, Shape, TypeOK
  <2> QED
    BY <1>1, <2>1 DEF ReadData, get_accepted_alignment_pairs, TypeOK, store
<1>2. ASSUME NEW pair \in pairs, Union(pair) PROVE TypeOK'
  BY <1>2, UnionTypeOK
<1>3. CASE Align
  <2>1. \A t \in data : <<rewrite_aligned(t[1]), t[2], rewrite_aligned(t[3])>> \in Triple
    <3> TAKE t \in data
    <3>1. t \in Triple
      BY DEF TypeOK
    <3> QED
      BY <3>1, RewriteAlignedTypes, RewrittenTriple
  <2>2. aligned' \subseteq Triple
    BY <1>3, <2>1 DEF Align
  <2> QED
    BY <1>3, <2>2 DEF Align, TypeOK, store
<1>4. CASE Strip
  <2> DEFINE r(term) == hash_stripping_rewrite(EntityUris(aligned), term)
  <2>1. EntityUris(aligned) \in SUBSET Uri
    BY DEF EntityUris
  <2>2. \A t \in aligned : <<r(t[1]), t[2], r(t[3])>> \in Triple
    <3> TAKE t \in aligned
    <3>1. t \in Triple
      BY DEF TypeOK
    <3>2. (t[1] \in Uri => r(t[1]) \in Uri) /\ (t[3] \in Uri => r(t[3]) \in Uri)
      BY <2>1, StrippedTypes
    <3>3. t[3] \notin Uri => r(t[3]) = t[3]
      BY <2>1, StrippedTypes
    <3> HIDE DEF r
    <3> QED
      BY <3>1, <3>2, <3>3, RewrittenTriple
  <2>3. merged' = {<<r(t[1]), t[2], r(t[3])>> : t \in aligned}
    BY <1>4 DEF Strip
  <2> HIDE DEF r
  <2>4. merged' \subseteq Triple
    BY <2>2, <2>3
  <2> QED
    BY <1>4, <2>4 DEF Strip, TypeOK, store
<1>5. ASSUME NEW pair \in Pair, Accept(pair) \/ TakeAway(pair) \/ Retire(pair) PROVE TypeOK'
  <2>1. Link(pair) \in Triple
    BY LinkIsTriple
  <2>2. graph' \subseteq Triple /\ accepted' \subseteq Pair
    BY <1>5, <2>1 DEF Accept, TakeAway, Retire, TypeOK
  <2> QED
    BY <1>5, <2>2 DEF Accept, TakeAway, Retire, TypeOK, local
<1>6. CASE UNCHANGED vars
  BY <1>6 DEF vars, store, local, TypeOK
<1> QED
  BY <1>1, <1>2, <1>3, <1>4, <1>5, <1>6 DEF Next, Export, Curate

LEMMA InitTypeOK == ASSUME Init PROVE TypeOK
  BY ExportAssumption DEF Init, TypeOK

\* Rewriting keeps names names and literals literals, and no name of the
\* union-find is its own parent.
THEOREM ExportTypes == Spec => []TypeOK
  BY InitIInv, StepIInv, InitTypeOK, StepTypeOK, PTL DEF Spec
-----------------------------------------------------------------------------
(* Loops                                                                   *)

\* What the two passes over the triples have written. Nothing they depend on
\* changes afterwards.
Written ==
  /\ pc \in {"strip", "done"} =>
       aligned = {<<rewrite_aligned(t[1]), t[2], rewrite_aligned(t[3])>> : t \in data \ Loops}
  /\ pc = "done" =>
       LET r(term) == hash_stripping_rewrite(EntityUris(aligned), term)
       IN merged = {<<r(t[1]), t[2], r(t[3])>> : t \in aligned}

LEMMA StepWritten == ASSUME IInv, TypeOK, Written, [Next]_vars PROVE Written'
<1>1. CASE ReadData \/ get_accepted_alignment_pairs \/ \E pair \in pairs : Union(pair)
  BY <1>1 DEF ReadData, get_accepted_alignment_pairs, Union, Written
<1>2. ASSUME UNCHANGED <<data, parent>>
      PROVE  /\ Loops' = Loops
             /\ \A term : rewrite_aligned(term)' = rewrite_aligned(term)
  <2>1. \A term : find(term)' = find(term)
    BY <1>2 DEF find, Passed, Up
  <2> QED
    BY <1>2, <2>1 DEF Loops, rewrite_aligned
<1>3. CASE Align
  <2>1. /\ pc' = "strip" /\ UNCHANGED <<data, parent>>
        /\ aligned' = {<<rewrite_aligned(t[1]), t[2], rewrite_aligned(t[3])>> : t \in data \ Loops}
    BY <1>3 DEF Align
  <2> QED
    BY <2>1, <1>2 DEF Written
<1>4. CASE Strip
  <2>1. /\ pc = "strip" /\ pc' = "done" /\ UNCHANGED <<data, parent, aligned>>
        /\ LET r(term) == hash_stripping_rewrite(EntityUris(aligned), term)
           IN merged' = {<<r(t[1]), t[2], r(t[3])>> : t \in aligned}
    BY <1>4 DEF Strip
  <2>2. aligned = {<<rewrite_aligned(t[1]), t[2], rewrite_aligned(t[3])>> : t \in data \ Loops}
    BY <2>1 DEF Written
  <2>3. \A term : hash_stripping_rewrite(EntityUris(aligned), term)'
                    = hash_stripping_rewrite(EntityUris(aligned), term)
    BY <2>1 DEF hash_stripping_rewrite, EntityUris
  <2> QED
    BY <2>1, <2>2, <2>3, <1>2 DEF Written
<1>5. CASE (pc \in {"data", "pairs"} /\ Curate) \/ UNCHANGED vars
  <2>1. UNCHANGED local
    BY <1>5 DEF Curate, Accept, TakeAway, Retire, vars
  <2>2. UNCHANGED <<pc, data, parent, aligned, merged>>
    BY <2>1 DEF local
  <2>3. \A term : hash_stripping_rewrite(EntityUris(aligned), term)'
                    = hash_stripping_rewrite(EntityUris(aligned), term)
    BY <2>2 DEF hash_stripping_rewrite, EntityUris
  <2> QED
    BY <2>2, <2>3, <1>2 DEF Written
<1> QED
  BY <1>1, <1>3, <1>4, <1>5 DEF Next, Export

\* A name that was not merged away is its own representative.
LEMMA RewriteIsFind ==
  ASSUME IInv, NEW x \in Uri
  PROVE  rewrite_aligned(x) = find(x)
<1>1. PICK f : Roots(f)
  BY DEF IInv
<1>2. find(x) = f[x]
  BY <1>1, FindIsRoot DEF IInv
<1>3. CASE x \notin DOMAIN parent
  BY <1>1, <1>2, <1>3, RootOfRoot DEF Up, rewrite_aligned
<1> QED
  BY <1>3 DEF rewrite_aligned

\* A triple about itself that is exported comes from one of the data graph.
LEMMA LoopHasOrigin ==
  ASSUME OneHash, IInv, TypeOK, Written, pc = "done",
         NEW x \in Uri, NEW p \in Predicate, <<x, p, x>> \in merged
  PROVE  \E y \in Uri : /\ <<y, p, y>> \in data
                        /\ hash_stripping_rewrite(EntityUris(aligned), find(y)) = x
<1> DEFINE r(term) == hash_stripping_rewrite(EntityUris(aligned), term)
<1>1. merged = {<<r(t[1]), t[2], r(t[3])>> : t \in aligned}
  BY DEF Written
<1>2. EntityUris(aligned) \in SUBSET Uri
  BY DEF EntityUris
<1>3. PICK a \in aligned : <<x, p, x>> = <<r(a[1]), a[2], r(a[3])>>
  <2> HIDE DEF r
  <2> QED
    BY <1>1
<1>4. a \in Triple /\ r(a[1]) = x /\ a[2] = p /\ r(a[3]) = x
  BY <1>3 DEF TypeOK
<1>5. a[1] \in Uri /\ a[3] \in Uri
  <2>1. a[1] \in Uri
    BY <1>4 DEF Triple
  <2>2. a[3] \notin Uri => r(a[3]) = a[3]
    BY <1>2, StrippedTypes
  <2> HIDE DEF r
  <2> QED
    BY <1>4, <2>1, <2>2
<1>6. a[1] \in EntityUris(aligned) /\ a[3] \in EntityUris(aligned)
  BY <1>3, <1>5 DEF EntityUris
<1>7. a[1] = a[3]
  BY <1>2, <1>4, <1>6, StrippedApart
<1>8. PICK t \in data \ Loops : a = <<rewrite_aligned(t[1]), t[2], rewrite_aligned(t[3])>>
  BY <1>3 DEF Written
<1>9. t \in Triple /\ t[1] = t[3]
  BY <1>7, <1>8 DEF Loops, TypeOK
<1>10. t = <<t[1], p, t[1]>> /\ t[1] \in Uri
  BY <1>4, <1>8, <1>9 DEF Triple
<1>11. a[1] = find(t[1])
  BY <1>8, <1>10, RewriteIsFind
<1> QED
  BY <1>4, <1>8, <1>10, <1>11

\* A triple about itself of the data graph is exported under the new name.
LEMMA LoopIsKept ==
  ASSUME IInv, Written, pc = "done", NEW y \in Uri, NEW p \in Predicate, <<y, p, y>> \in data
  PROVE  LET x == hash_stripping_rewrite(EntityUris(aligned), find(y)) IN <<x, p, x>> \in merged
<1> DEFINE r(term) == hash_stripping_rewrite(EntityUris(aligned), term)
           t == <<y, p, y>>
<1>1. t[1] = y /\ t[2] = p /\ t[3] = y /\ t \in data \ Loops
  BY DEF Loops
<1>2. <<rewrite_aligned(t[1]), t[2], rewrite_aligned(t[3])>> \in aligned
  BY <1>1 DEF Written
<1>3. <<find(y), p, find(y)>> \in aligned
  BY <1>1, <1>2, RewriteIsFind
<1>4. merged = {<<r(u[1]), u[2], r(u[3])>> : u \in aligned}
  BY DEF Written
<1>5. <<r(find(y)), p, r(find(y))>> \in merged
  <2> HIDE DEF r
  <2>1. LET u == <<find(y), p, find(y)>> IN u[1] = find(y) /\ u[2] = p /\ u[3] = find(y)
    OBVIOUS
  <2> QED
    BY <1>3, <1>4, <2>1
<1> QED
  BY <1>5

\* When no name has two hashes, a triple about itself is exported exactly
\* where the data graph has one: for any pairs, chains and cycles of pairs
\* (queries.py:186).
THEOREM ExportLoopsAreGenuine == ASSUME OneHash PROVE Spec => []LoopsAreGenuine
<1>1. IInv /\ TypeOK /\ Written => LoopsAreGenuine
  <2> SUFFICES ASSUME IInv, TypeOK, Written, pc = "done",
                      NEW x \in EntityUris(merged), NEW p \in Predicate
               PROVE  <<x, p, x>> \in merged <=>
                        \E y \in Uri : /\ <<y, p, y>> \in data
                                       /\ hash_stripping_rewrite(EntityUris(aligned), find(y)) = x
    BY DEF LoopsAreGenuine
  <2>1. x \in Uri
    BY DEF EntityUris
  <2> QED
    BY <2>1, LoopHasOrigin, LoopIsKept
<1>2. Init => Written
  BY DEF Init, Written
<1> QED
  BY <1>1, <1>2, InitIInv, StepIInv, InitTypeOK, StepTypeOK, StepWritten, PTL DEF Spec
=============================================================================
