---------------------------- MODULE LookupProofs ----------------------------
(***************************************************************************)
(* Proofs about Lookup, for every text, configuration and answer of the    *)
(* services. What a fold computes is proved by way of the least natural    *)
(* number for which it would be wrong.                                     *)
(***************************************************************************)
EXTENDS Lookup, FiniteSetTheorems, WellFoundedInduction, TLAPS

\* Every set of natural numbers has a least one.
LEMMA Least ==
  ASSUME NEW T \in SUBSET Nat, T # {}
  PROVE  \E x \in T : \A y \in T : x <= y
<1> DEFINE R == {q \in Nat \X Nat : q[1] < q[2]}
<1>1. IsWellFoundedOn(R, Nat)
  BY NatLessThanWellFounded, Zenon DEF OpToRel
<1> HIDE DEF R
<1>2. PICK x \in T : \A y \in T : ~ (<<y, x>> \in R)
  BY <1>1, WFMin, Zenon
<1>3. \A y \in T : ~ (y < x)
  BY <1>2 DEF R
<1>4. QED
  BY <1>3

\* A set with zero and, for each number in it, the next one has all.
LEMMA Successors ==
  ASSUME NEW T, 0 \in T, \A n \in Nat : n \in T => n + 1 \in T
  PROVE  Nat \subseteq T
<1> SUFFICES ASSUME Nat \ T # {} PROVE FALSE
  OBVIOUS
<1>1. PICK x \in Nat \ T : \A y \in Nat \ T : x <= y
  BY Least
<1>2. x # 0 /\ x - 1 \in Nat
  BY <1>1
<1>3. x - 1 \in T
  BY <1>1, <1>2
<1>4. QED
  BY <1>1, <1>2, <1>3

-----------------------------------------------------------------------------
(* Folds over a finite set S: choice gives the element of a subset that is *)
(* taken off, and step what it makes of the value for the others.          *)

Takes(S, choice) == \A s \in SUBSET S : s # {} => choice[s] \in s

Folded(S, base, step, choice, it) ==
  it = [s \in SUBSET S |->
          IF s = {} THEN base ELSE step[choice[s]][it[s \ {choice[s]}]]]

\* Values of the subsets with at most n elements.
Upto(S, n) == {s \in SUBSET S : Cardinality(s) <= n}

LEMMA TakenOff ==
  ASSUME NEW S, IsFiniteSet(S), NEW choice, Takes(S, choice), NEW s \in SUBSET S, s # {}
  PROVE  /\ s \ {choice[s]} \in SUBSET S /\ Cardinality(s) \in Nat
         /\ Cardinality(s \ {choice[s]}) = Cardinality(s) - 1
         /\ Cardinality(s) - 1 \in Nat
<1>1. IsFiniteSet(s) /\ choice[s] \in s
  BY FS_Subset DEF Takes
<1>2. Cardinality(s) \in Nat /\ Cardinality(s) # 0
  BY <1>1, FS_CardinalityType, FS_EmptySet
<1>3. Cardinality(s \ {choice[s]}) = Cardinality(s) - 1
  BY <1>1, FS_RemoveElement
<1>4. QED
  BY <1>2, <1>3

LEMMA FoldExists ==
  ASSUME NEW S, IsFiniteSet(S), NEW base, NEW step, NEW choice, Takes(S, choice)
  PROVE  \E it : Folded(S, base, step, choice, it)
<1> DEFINE Up(it, n) ==
      it = [s \in Upto(S, n) |->
              IF s = {} THEN base ELSE step[choice[s]][it[s \ {choice[s]}]]]
    Has(n) == \E it : Up(it, n)
    T == {n \in Nat : Has(n)}
<1>1. 0 \in T
  <2> DEFINE it == [s \in Upto(S, 0) |-> base]
  <2>1. ASSUME NEW s \in Upto(S, 0), s # {} PROVE FALSE
    <3>1. Cardinality(s) \in Nat /\ Cardinality(s) - 1 \in Nat
      BY <2>1, TakenOff DEF Upto
    <3>2. QED
      BY <2>1, <3>1 DEF Upto
  <2>2. Up(it, 0)
    BY <2>1
  <2>3. QED
    BY <2>2
<1>2. ASSUME NEW n \in Nat, n \in T PROVE n + 1 \in T
  <2>1. PICK it : Up(it, n)
    BY <1>2
  <2> DEFINE more == [s \in Upto(S, n + 1) |->
                        IF s = {} THEN base ELSE step[choice[s]][it[s \ {choice[s]}]]]
  <2>2. ASSUME NEW s \in Upto(S, n + 1), s # {}
        PROVE  more[s \ {choice[s]}] = it[s \ {choice[s]}]
    <3>1. s \ {choice[s]} \in Upto(S, n) /\ s \ {choice[s]} \in Upto(S, n + 1)
      BY <2>2, TakenOff DEF Upto
    <3>2. QED
      BY <2>1, <3>1
  <2> DEFINE again == [s \in Upto(S, n + 1) |->
                         IF s = {} THEN base ELSE step[choice[s]][more[s \ {choice[s]}]]]
  <2>3. \A s \in Upto(S, n + 1) : more[s] = again[s]
    BY <2>2
  <2>4. more = again
    BY <2>3
  <2> HIDE DEF more
  <2>5. Up(more, n + 1)
    BY <2>4
  <2>6. Has(n + 1)
    BY <2>5
  <2> HIDE DEF Has
  <2>7. QED
    BY <2>6
<1>3. Cardinality(S) \in T
  BY <1>1, <1>2, Successors, FS_CardinalityType
<1>4. Upto(S, Cardinality(S)) = SUBSET S
  BY FS_Subset DEF Upto
<1>5. QED
  BY <1>3, <1>4 DEF Folded

\* What holds of the empty set and of each set if it does without the element
\* that is taken off holds of all subsets.
LEMMA SubsetInduction ==
  ASSUME NEW S, IsFiniteSet(S), NEW choice, Takes(S, choice), NEW Good, {} \in Good,
         \A s \in SUBSET S : s # {} /\ s \ {choice[s]} \in Good => s \in Good
  PROVE  SUBSET S \subseteq Good
<1> DEFINE Bad == (SUBSET S) \ Good
           T == {Cardinality(s) : s \in Bad}
<1>1. SUFFICES ASSUME Bad # {} PROVE FALSE
  OBVIOUS
<1>2. T \in SUBSET Nat /\ T # {}
  <2>1. \A s \in SUBSET S : Cardinality(s) \in Nat
    BY FS_Subset, FS_CardinalityType
  <2>2. QED
    BY <1>1, <2>1
<1>3. PICK s \in Bad : \A t \in Bad : Cardinality(s) <= Cardinality(t)
  <2>1. PICK n \in T : \A m \in T : n <= m
    BY <1>2, Least
  <2>2. QED
    BY <2>1
<1> HIDE DEF T
<1>4. s \in SUBSET S /\ s \notin Good
  BY Zenon
<1>5. s # {}
  BY <1>4, Zenon
<1>6. /\ s \ {choice[s]} \in SUBSET S /\ Cardinality(s) \in Nat
      /\ Cardinality(s \ {choice[s]}) = Cardinality(s) - 1
  BY <1>4, <1>5, TakenOff
<1>7. s \ {choice[s]} \notin Bad
  BY <1>3, <1>6
<1>8. s \ {choice[s]} \in Good
  BY <1>6, <1>7
<1>9. QED
  BY <1>4, <1>5, <1>8, Zenon

\* Max is the largest element of a set that has an upper bound.
LEMMA Largest ==
  ASSUME NEW S \in SUBSET Int, S # {}, NEW n \in Int, \A x \in S : x <= n
  PROVE  Max(S) \in S /\ \A y \in S : Max(S) >= y
<1> DEFINE T == {n - x : x \in S}
<1>1. T \in SUBSET Nat /\ T # {}
  <2>1. \A x \in S : n - x \in Nat
    OBVIOUS
  <2>2. QED
    BY <2>1
<1>2. PICK t \in T : \A u \in T : t <= u
  BY <1>1, Least
<1>3. PICK x \in S : t = n - x
  BY <1>2
<1>4. \A y \in S : x >= y
  <2>1. ASSUME NEW y \in S PROVE x >= y
    <3>1. n - x <= n - y
      BY <1>2, <1>3
    <3>2. QED
      BY <3>1
  <2>2. QED
    BY <2>1
<1>5. QED
  BY <1>4 DEF Max

-----------------------------------------------------------------------------
(* Sequences                                                               *)

LEMMA Elements ==
  ASSUME NEW S, NEW s \in Seq(S)
  PROVE  /\ Len(s) \in Nat /\ DOMAIN s = 1..Len(s) /\ ToSet(s) \subseteq S
         /\ s = << >> <=> ToSet(s) = {}
         /\ s # << >> => s[1] \in ToSet(s)
  BY DEF ToSet

LEMMA Wider ==
  ASSUME NEW S, NEW T, S \subseteq T, NEW s \in Seq(S)
  PROVE  s \in Seq(T)
  OBVIOUS

LEMMA Appended ==
  ASSUME NEW S, NEW s \in Seq(S), NEW x \in S
  PROVE  Append(s, x) \in Seq(S) /\ ToSet(Append(s, x)) = ToSet(s) \cup {x}
<1>1. Append(s, x) \in Seq(S) /\ Len(Append(s, x)) = Len(s) + 1
  OBVIOUS
<1>2. DOMAIN Append(s, x) = 1..(Len(s) + 1)
  OBVIOUS
<1>3. \A i \in 1..Len(s) : Append(s, x)[i] = s[i]
  OBVIOUS
<1>4. Append(s, x)[Len(s) + 1] = x
  OBVIOUS
<1>5. ToSet(s) \cup {x} \subseteq ToSet(Append(s, x))
  BY <1>2, <1>3, <1>4 DEF ToSet
<1>6. ToSet(Append(s, x)) \subseteq ToSet(s) \cup {x}
  BY <1>2, <1>3, <1>4 DEF ToSet
<1>7. QED
  BY <1>1, <1>5, <1>6

LEMMA Joined ==
  ASSUME NEW S, NEW s \in Seq(S), NEW t \in Seq(S)
  PROVE  s \o t \in Seq(S) /\ ToSet(s \o t) = ToSet(s) \cup ToSet(t)
<1>1. s \o t \in Seq(S) /\ Len(s \o t) = Len(s) + Len(t) /\ DOMAIN (s \o t) = 1..(Len(s) + Len(t))
  OBVIOUS
<1>2. \A i \in 1..Len(s) : (s \o t)[i] = s[i]
  OBVIOUS
<1>3. \A i \in 1..Len(t) : (s \o t)[Len(s) + i] = t[i]
  OBVIOUS
<1>4. ToSet(s) \cup ToSet(t) \subseteq ToSet(s \o t)
  <2>1. \A i \in 1..Len(s) : i \in DOMAIN (s \o t)
    BY <1>1
  <2>2. \A i \in 1..Len(t) : Len(s) + i \in DOMAIN (s \o t)
    BY <1>1
  <2>3. ToSet(s) \subseteq ToSet(s \o t)
    BY <1>2, <2>1 DEF ToSet
  <2>4. ASSUME NEW i \in 1..Len(t) PROVE t[i] \in ToSet(s \o t)
    BY <1>3, <2>2 DEF ToSet
  <2>5. QED
    BY <2>3, <2>4 DEF ToSet
<1>5. ASSUME NEW i \in DOMAIN (s \o t) PROVE (s \o t)[i] \in ToSet(s) \cup ToSet(t)
  <2>1. CASE i \in 1..Len(s)
    BY <1>2, <2>1 DEF ToSet
  <2>2. CASE i \notin 1..Len(s)
    <3>1. i - Len(s) \in 1..Len(t) /\ i = Len(s) + (i - Len(s))
      BY <1>1, <1>5, <2>2
    <3>2. (s \o t)[i] = t[i - Len(s)]
      BY <1>3, <3>1
    <3>3. QED
      BY <3>1, <3>2 DEF ToSet
  <2>3. QED
    BY <2>1, <2>2
<1>6. QED
  BY <1>1, <1>4, <1>5 DEF ToSet

Flattened(seqs, n, f) ==
  f = [i \in 1..n |-> IF i = 1 THEN seqs[i] ELSE f[i - 1] \o seqs[i]]

LEMMA FlattenExists ==
  ASSUME NEW seqs, NEW n \in Nat
  PROVE  \E f : Flattened(seqs, n, f)
<1> DEFINE Has(m) == \E f : Flattened(seqs, m, f)
           T == {m \in Nat : Has(m)}
<1>1. 0 \in T
  <2> DEFINE f == [i \in 1..0 |-> seqs]
  <2>1. Flattened(seqs, 0, f)
    BY DEF Flattened
  <2>2. QED
    BY <2>1
<1>2. ASSUME NEW m \in Nat, m \in T PROVE m + 1 \in T
  <2>1. PICK f : Flattened(seqs, m, f)
    BY <1>2
  <2> DEFINE more == [i \in 1..(m + 1) |-> IF i = 1 THEN seqs[i] ELSE f[i - 1] \o seqs[i]]
  <2>2. ASSUME NEW i \in 1..(m + 1), i # 1 PROVE more[i - 1] = f[i - 1]
    <3>1. i - 1 \in 1..m /\ i - 1 \in 1..(m + 1)
      BY <2>2
    <3>2. QED
      BY <2>1, <3>1 DEF Flattened
  <2> DEFINE again == [i \in 1..(m + 1) |-> IF i = 1 THEN seqs[i] ELSE more[i - 1] \o seqs[i]]
  <2>3. \A i \in 1..(m + 1) : more[i] = again[i]
    BY <2>2
  <2>4. more = again
    BY <2>3
  <2> HIDE DEF more
  <2>5. Flattened(seqs, m + 1, more)
    BY <2>4 DEF Flattened
  <2>6. Has(m + 1)
    BY <2>5
  <2> HIDE DEF Has
  <2>7. QED
    BY <2>6
<1>3. n \in T
  BY <1>1, <1>2, Successors
<1>4. QED
  BY <1>3

\* FlattenSeq joins sequences: nothing is lost and nothing comes in.
LEMMA FlattenSeqOf ==
  ASSUME NEW S, NEW seqs \in Seq(Seq(S))
  PROVE  /\ FlattenSeq(seqs) \in Seq(S)
         /\ ToSet(FlattenSeq(seqs)) = UNION {ToSet(seqs[i]) : i \in 1..Len(seqs)}
         /\ (\A i \in 1..Len(seqs) : Len(seqs[i]) <= 1) => Len(FlattenSeq(seqs)) <= Len(seqs)
<1>1. CASE Len(seqs) = 0
  BY <1>1 DEF FlattenSeq, ToSet
<1>2. CASE Len(seqs) # 0
  <2> DEFINE n == Len(seqs)
             flatten == CHOOSE f : Flattened(seqs, n, f)
             All(i) == UNION {ToSet(seqs[j]) : j \in 1..i}
             Single == \A i \in 1..n : Len(seqs[i]) <= 1
             Good(i) == /\ flatten[i] \in Seq(S) /\ ToSet(flatten[i]) = All(i)
                        /\ Single => Len(flatten[i]) <= i
             T == {0} \cup {i \in Nat : i > n} \cup {i \in 1..n : Good(i)}
  <2>1. n \in Nat /\ n > 0 /\ \A i \in 1..n : seqs[i] \in Seq(S)
    BY <1>2
  <2>2. FlattenSeq(seqs) = flatten[n]
    BY <1>2, Zenon DEF FlattenSeq, Flattened
  <2>3. Flattened(seqs, n, flatten)
    BY <2>1, FlattenExists
  <2> HIDE DEF flatten
  <2>4. ASSUME NEW i \in Nat, i \in T PROVE i + 1 \in T
    <3>1. CASE i + 1 > n
      BY <3>1
    <3>2. CASE i = 0 /\ n > 0
      <4>1. flatten[1] = seqs[1]
        BY <2>1, <2>3 DEF Flattened
      <4>2. All(1) = ToSet(seqs[1])
        OBVIOUS
      <4>3. Single => Len(flatten[1]) <= 1
        BY <2>1, <4>1
      <4> HIDE DEF Single, All
      <4>4. Good(1) /\ 1 \in 1..n
        BY <2>1, <4>1, <4>2, <4>3
      <4>5. QED
        BY <3>2, <4>4
    <3>3. CASE i > 0 /\ i + 1 <= n
      <4>1. i \in 1..n /\ i + 1 \in 1..n /\ Good(i) /\ i + 1 # 1 /\ (i + 1) - 1 = i
        BY <2>1, <2>4, <3>3
      <4>2. flatten[i + 1] = flatten[i] \o seqs[i + 1]
        BY <2>3, <4>1 DEF Flattened
      <4>3. All(i + 1) = All(i) \cup ToSet(seqs[i + 1])
        <5>1. 1..(i + 1) = (1..i) \cup {i + 1}
          BY <4>1
        <5>2. QED
          BY <5>1
      <4>4. Good(i + 1)
        <5>1. /\ flatten[i] \in Seq(S) /\ seqs[i + 1] \in Seq(S) /\ ToSet(flatten[i]) = All(i)
              /\ Single => Len(flatten[i]) <= i /\ Len(seqs[i + 1]) <= 1
          BY <2>1, <4>1
        <5>2. /\ flatten[i] \o seqs[i + 1] \in Seq(S)
              /\ ToSet(flatten[i] \o seqs[i + 1]) = ToSet(flatten[i]) \cup ToSet(seqs[i + 1])
              /\ Len(flatten[i] \o seqs[i + 1]) = Len(flatten[i]) + Len(seqs[i + 1])
          <6>1. \A s, t \in Seq(S) : /\ s \o t \in Seq(S) /\ ToSet(s \o t) = ToSet(s) \cup ToSet(t)
                                    /\ Len(s \o t) = Len(s) + Len(t)
            BY Joined
          <6>2. QED
            BY <5>1, <6>1, Zenon
        <5> HIDE DEF All, Single
        <5>3. Len(flatten[i]) \in Nat /\ Len(seqs[i + 1]) \in Nat
          BY <5>1
        <5>4. ASSUME Single PROVE Len(flatten[i + 1]) <= i + 1
          <6>1. Len(flatten[i]) <= i /\ Len(seqs[i + 1]) <= 1
            BY <5>1, <5>4
          <6>2. Len(flatten[i + 1]) = Len(flatten[i]) + Len(seqs[i + 1])
            BY <4>2, <5>2, Zenon
          <6>3. \A a, b \in Nat : a <= i /\ b <= 1 => a + b <= i + 1
            OBVIOUS
          <6>4. QED
            BY <5>3, <6>1, <6>2, <6>3, Zenon
        <5>5. flatten[i + 1] \in Seq(S) /\ ToSet(flatten[i + 1]) = All(i + 1)
          BY <4>2, <4>3, <5>1, <5>2
        <5>6. QED
          BY <5>4, <5>5
      <4>5. QED
        BY <4>1, <4>4
    <3>4. QED
      BY <2>1, <3>1, <3>2, <3>3
  <2>5. n \in T
    BY <2>1, <2>4, Successors
  <2>6. QED
    BY <2>1, <2>2, <2>5
<1>3. QED
  BY <1>1, <1>2

\* distinct takes duplicates out (dict.fromkeys), and nothing else.
LEMMA DistinctOf ==
  ASSUME NEW S, NEW seq \in Seq(S)
  PROVE  distinct(seq) \in Seq(S) /\ ToSet(distinct(seq)) = ToSet(seq)
<1> DEFINE D == DOMAIN seq
           A == Seq(S)
           add(i, acc) == IF Contains(acc, seq[i]) THEN acc ELSE Append(acc, seq[i])
           step == [i \in D |-> [acc \in A |-> add(i, acc)]]
           choice == [s \in SUBSET D |-> Max(s)]
           Of(s) == {seq[i] : i \in s}
           Rec(it) == it = [s \in SUBSET D |->
                              IF s = {} THEN << >> ELSE add(Max(s), it[s \ {Max(s)}])]
           iter == CHOOSE it : Rec(it)
<1>1. IsFiniteSet(D) /\ D \subseteq Int /\ \A i \in D : seq[i] \in S /\ i <= Len(seq)
  BY FS_Interval
<1>2. Takes(D, choice)
  <2>1. ASSUME NEW s \in SUBSET D, s # {} PROVE Max(s) \in s
    <3>1. s \in SUBSET Int /\ Len(seq) \in Int /\ \A x \in s : x <= Len(seq)
      BY <1>1
    <3>2. QED
      BY <2>1, <3>1, Largest
  <2>2. QED
    BY <2>1 DEF Takes
<1>3. \A acc \in A, i \in D : add(i, acc) \in A /\ ToSet(add(i, acc)) = ToSet(acc) \cup {seq[i]}
  <2> SUFFICES ASSUME NEW acc \in A, NEW i \in D
               PROVE  add(i, acc) \in A /\ ToSet(add(i, acc)) = ToSet(acc) \cup {seq[i]}
    OBVIOUS
  <2>1. CASE Contains(acc, seq[i])
    BY <2>1 DEF Contains, ToSet
  <2>2. CASE ~ Contains(acc, seq[i])
    BY <1>1, <2>2, Appended
  <2>3. QED
    BY <2>1, <2>2
<1>4. \E it : Rec(it)
  <2>1. PICK it : Folded(D, << >>, step, choice, it)
    BY <1>1, <1>2, FoldExists
  <2> DEFINE Good == {s \in SUBSET D : it[s] \in A}
  <2>2. {} \in Good
    BY <2>1 DEF Folded
  <2>3. ASSUME NEW s \in SUBSET D, s # {}, s \ {choice[s]} \in Good PROVE s \in Good
    <3>1. choice[s] \in D
      BY <1>2, <2>3 DEF Takes
    <3>2. it[s] = add(choice[s], it[s \ {choice[s]}])
      BY <2>1, <2>3, <3>1 DEF Folded
    <3>3. QED
      BY <1>3, <2>3, <3>1, <3>2
  <2>4. SUBSET D \subseteq Good
    <3> HIDE DEF choice, Good, D
    <3>1. \A s \in SUBSET D : s # {} /\ s \ {choice[s]} \in Good => s \in Good
      BY <2>3, Zenon
    <3>2. IsFiniteSet(D)
      BY <1>1, Zenon
    <3>3. QED
      BY <1>2, <2>2, <3>1, <3>2, SubsetInduction
  <2>5. ASSUME NEW s \in SUBSET D, s # {} PROVE it[s] = add(Max(s), it[s \ {Max(s)}])
    <3>1. choice[s] \in D /\ choice[s] = Max(s) /\ s \ {choice[s]} \in Good
      BY <1>2, <2>4, <2>5 DEF Takes
    <3>2. QED
      BY <2>1, <2>5, <3>1 DEF Folded
  <2>6. Rec(it)
    BY <2>1, <2>5 DEF Folded
  <2>7. QED
    BY <2>6
<1>5. Rec(iter)
  BY <1>4
<1>6. distinct(seq) = iter[D]
  BY Zenon DEF distinct, FoldLeft, MapThenFoldSet
<1> HIDE DEF iter
<1> DEFINE Good == {s \in SUBSET D : iter[s] \in A /\ ToSet(iter[s]) = Of(s)}
<1>7. {} \in Good
  BY <1>5 DEF ToSet
<1>8. ASSUME NEW s \in SUBSET D, s # {}, s \ {choice[s]} \in Good PROVE s \in Good
  <2>1. choice[s] \in s /\ choice[s] = Max(s)
    BY <1>2, <1>8 DEF Takes
  <2>2. iter[s] = add(choice[s], iter[s \ {choice[s]}])
    BY <1>5, <1>8, <2>1
  <2>3. iter[s] \in A /\ ToSet(iter[s]) = Of(s \ {choice[s]}) \cup {seq[choice[s]]}
    BY <1>3, <1>8, <2>1, <2>2
  <2>4. Of(s) = Of(s \ {choice[s]}) \cup {seq[choice[s]]}
    BY <2>1
  <2>5. QED
    BY <2>3, <2>4
<1>9. D \in Good
  <2> HIDE DEF choice, Good, D
  <2>1. \A s \in SUBSET D : s # {} /\ s \ {choice[s]} \in Good => s \in Good
    BY <1>8, Zenon
  <2>2. IsFiniteSet(D)
    BY <1>1, Zenon
  <2>3. QED
    BY <1>2, <1>7, <2>1, <2>2, SubsetInduction
<1>10. QED
  BY <1>6, <1>9 DEF ToSet

\* keep keeps what passes a test.
LEMMA KeptOf ==
  ASSUME NEW S, NEW seq \in Seq(S), NEW T,
         NEW parts, parts = [i \in 1..Len(seq) |-> IF seq[i] \in T THEN <<seq[i]>> ELSE << >>]
  PROVE  /\ FlattenSeq(parts) \in Seq(S) /\ Len(FlattenSeq(parts)) <= Len(seq)
         /\ ToSet(FlattenSeq(parts)) = ToSet(seq) \cap T
<1>1. Len(seq) \in Nat /\ \A i \in 1..Len(seq) : seq[i] \in S
  OBVIOUS
<1>2. \A i \in 1..Len(seq) : /\ parts[i] \in Seq(S) /\ Len(parts[i]) <= 1
                             /\ ToSet(parts[i]) = {seq[i]} \cap T
  BY <1>1 DEF ToSet
<1>3. parts \in Seq(Seq(S)) /\ Len(parts) = Len(seq)
  BY <1>1, <1>2
<1>4. /\ FlattenSeq(parts) \in Seq(S) /\ Len(FlattenSeq(parts)) <= Len(seq)
      /\ ToSet(FlattenSeq(parts)) = UNION {ToSet(parts[i]) : i \in 1..Len(seq)}
  <2>1. \A i \in 1..Len(parts) : Len(parts[i]) <= 1
    BY <1>2, <1>3
  <2>2. QED
    BY <1>3, <2>1, FlattenSeqOf
<1>5. UNION {ToSet(parts[i]) : i \in 1..Len(seq)} = ToSet(seq) \cap T
  <2>1. DOMAIN seq = 1..Len(seq)
    OBVIOUS
  <2>2. ToSet(seq) = {seq[i] : i \in 1..Len(seq)}
    BY <2>1 DEF ToSet
  <2>3. UNION {{seq[i]} \cap T : i \in 1..Len(seq)} = ToSet(seq) \cap T
    BY <2>2
  <2>4. {ToSet(parts[i]) : i \in 1..Len(seq)} = {{seq[i]} \cap T : i \in 1..Len(seq)}
    BY <1>2
  <2>5. QED
    BY <2>3, <2>4
<1>6. QED
  BY <1>4, <1>5

\* The first n elements, or all (candidate_limit).
LEMMA UptoOf ==
  ASSUME NEW S, NEW seq \in Seq(S), NEW n \in Nat
  PROVE  upto(seq, n) \in Seq(S) /\ Len(upto(seq, n)) <= n /\ ToSet(upto(seq, n)) \subseteq ToSet(seq)
<1> DEFINE k == IF Len(seq) < n THEN Len(seq) ELSE n
<1>1. k \in 0..Len(seq) /\ k <= n
  OBVIOUS
<1>2. upto(seq, n) = SubSeq(seq, 1, k)
  BY DEF upto
<1> HIDE DEF k
<1>3. SubSeq(seq, 1, k) \in Seq(S) /\ Len(SubSeq(seq, 1, k)) = k
  BY <1>1
<1>4. DOMAIN SubSeq(seq, 1, k) = 1..k /\ \A i \in 1..k : SubSeq(seq, 1, k)[i] = seq[i]
  BY <1>1
<1>5. ToSet(SubSeq(seq, 1, k)) \subseteq ToSet(seq)
  BY <1>1, <1>4 DEF ToSet
<1>6. QED
  BY <1>1, <1>2, <1>3, <1>5

LEMMA Mapped ==
  ASSUME NEW S, NEW T, NEW seq \in Seq(S), NEW f, \A x \in S : f[x] \in T
  PROVE  /\ [i \in 1..Len(seq) |-> f[seq[i]]] \in Seq(T)
         /\ ToSet([i \in 1..Len(seq) |-> f[seq[i]]]) = {f[x] : x \in ToSet(seq)}
         /\ Len([i \in 1..Len(seq) |-> f[seq[i]]]) = Len(seq)
  BY DEF ToSet

-----------------------------------------------------------------------------
(* Derivation: what a rule changes, and what the fold over rules does.     *)

LEMMA DerivedType ==
  ASSUME NEW lits \in [Entity -> Literals], NEW e \in Entity, NEW rule, RuleOK(e, rule)
  PROVE  derived(lits, e, rule) \in Seq(Value) /\ rule.as \in Predicate
<1>1. CASE "from_literal" \in DOMAIN rule
  <2>1. rule.from_literal \in Predicate /\ lits[e] \in [Predicate -> Seq(Value)]
    BY <1>1 DEF RuleOK, Literals
  <2>2. lits[e][rule.from_literal] \in Seq(Value) /\ \A v \in Value : Segment[v] \in Value
    BY <2>1, LookupAssumption
  <2>3. derived(lits, e, rule)
          = [i \in 1..Len(lits[e][rule.from_literal]) |-> Segment[lits[e][rule.from_literal][i]]]
    BY <1>1 DEF derived, map
  <2>4. derived(lits, e, rule) \in Seq(Value)
    BY <2>2, <2>3, Mapped
  <2>5. QED
    BY <2>4 DEF RuleOK
<1>2. CASE "from_literal" \notin DOMAIN rule
  <2> DEFINE others == Related[e][rule.relation]
             p == rule.relation_literal
             parts == [i \in 1..Len(others) |-> lits[others[i]][p]]
  <2>1. p \in Predicate /\ others \in Seq(Entity)
    BY <1>2 DEF RuleOK
  <2>2. \A other \in Entity : lits[other][p] \in Seq(Value)
    BY <2>1 DEF Literals
  <2>3. derived(lits, e, rule) = FlattenSeq(parts)
    BY <1>2 DEF derived, map
  <2> HIDE DEF others, p
  <2>4. parts \in Seq(Seq(Value))
    BY <2>1, <2>2
  <2>5. derived(lits, e, rule) \in Seq(Value)
    BY <2>3, <2>4, FlattenSeqOf
  <2>6. QED
    BY <2>5 DEF RuleOK
<1>3. QED
  BY <1>1, <1>2

LEMMA RuleStep ==
  ASSUME NEW lits \in [Entity -> Literals], NEW e \in Entity, NEW rule, RuleOK(e, rule)
  PROVE  LET new == apply_rule(lits, e, rule)
         IN  /\ new \in [Entity -> Literals]
             /\ \A o \in Entity : o # e => new[o] = lits[o]
             /\ \A p \in Predicate :
                  p # rule.as \/ derived(lits, e, rule) = << >> => new[e][p] = lits[e][p]
             /\ derived(lits, e, rule) # << >> =>
                  ToSet(new[e][rule.as]) = ToSet(derived(lits, e, rule))
<1> DEFINE d == derived(lits, e, rule)
           new == apply_rule(lits, e, rule)
<1>1. /\ d \in Seq(Value) /\ rule.as \in Predicate
      /\ distinct(d) \in Seq(Value) /\ ToSet(distinct(d)) = ToSet(d)
  BY DerivedType, DistinctOf
<1>2. new = IF d = << >> THEN lits ELSE [lits EXCEPT ![e][rule.as] = distinct(d)]
  BY DEF apply_rule
<1> HIDE DEF d, new
<1>3. CASE d = << >>
  BY <1>2, <1>3 DEF d, new
<1>4. CASE d # << >>
  <2>1. /\ lits[e] \in [Predicate -> Seq(Value)]
        /\ new = [lits EXCEPT ![e] = [lits[e] EXCEPT ![rule.as] = distinct(d)]]
    BY <1>2, <1>4 DEF Literals
  <2>2. new[e] = [lits[e] EXCEPT ![rule.as] = distinct(d)] /\ new[e] \in Literals
    BY <1>1, <2>1 DEF Literals
  <2>3. new \in [Entity -> Literals] /\ \A o \in Entity : o # e => new[o] = lits[o]
    BY <2>1, <2>2
  <2>4. new[e][rule.as] = distinct(d) /\ \A p \in Predicate : p # rule.as => new[e][p] = lits[e][p]
    BY <1>1, <2>1, <2>2
  <2>5. QED
    BY <1>1, <1>4, <2>3, <2>4 DEF d, new
<1>5. QED
  BY <1>3, <1>4

\* The rules of an entity: what they write, and that they read something else.
Written(e) == {rule.as : rule \in ToSet(Rules[TypeOf[e]])}

RulesReadText ==
  \A e \in Entity : \A rule \in ToSet(Rules[TypeOf[e]]) :
    IF "from_literal" \in DOMAIN rule THEN rule.from_literal \notin Written(e)
    ELSE \A o \in ToSet(Related[e][rule.relation]) : rule.relation_literal \notin Written(o)

\* a says of what the rules of all entities read the same as b.
SameText(a, b) == \A o \in Entity, p \in Predicate : p \notin Written(o) => a[o][p] = b[o][p]

LEMMA DerivedSame ==
  ASSUME RulesReadText, NEW a, NEW b, SameText(a, b),
         NEW e \in Entity, NEW rule \in ToSet(Rules[TypeOf[e]])
  PROVE  derived(a, e, rule) = derived(b, e, rule)
<1>1. RuleOK(e, rule)
  BY LookupAssumption
<1>2. CASE "from_literal" \in DOMAIN rule
  <2>1. a[e][rule.from_literal] = b[e][rule.from_literal]
    BY <1>1, <1>2 DEF RuleOK, RulesReadText, SameText
  <2>2. QED
    BY <1>2, <2>1 DEF derived, map
<1>3. CASE "from_literal" \notin DOMAIN rule
  <2> DEFINE others == Related[e][rule.relation]
             p == rule.relation_literal
  <2>1. p \in Predicate /\ others \in Seq(Entity)
    BY <1>1, <1>3 DEF RuleOK
  <2>2. \A i \in 1..Len(others) : others[i] \in ToSet(others) /\ others[i] \in Entity
    BY <2>1 DEF ToSet
  <2>3. \A o \in ToSet(others) : p \notin Written(o)
    BY <1>3 DEF RulesReadText
  <2>4. \A i \in 1..Len(others) : a[others[i]][p] = b[others[i]][p]
    BY <2>1, <2>2, <2>3 DEF SameText
  <2>5. [i \in 1..Len(others) |-> a[others[i]][p]] = [i \in 1..Len(others) |-> b[others[i]][p]]
    BY <2>4
  <2>6. QED
    BY <1>3, <2>5 DEF derived, map
<1>4. QED
  BY <1>2, <1>3

\* The rules at the places s that write p and find something in old.
Finding(old, e, p, s) ==
  {i \in s : Rules[TypeOf[e]][i].as = p /\ derived(old, e, Rules[TypeOf[e]][i]) # << >>}

TextOf(new, old, e, s) ==
  \A p \in Predicate :
    IF Finding(old, e, p, s) = {} THEN new[e][p] = old[e][p]
    ELSE \E i \in Finding(old, e, p, s) :
           ToSet(new[e][p]) = ToSet(derived(old, e, Rules[TypeOf[e]][i]))

OnlyRules(new, old, e) ==
  /\ new \in [Entity -> Literals]
  /\ \A o \in Entity : o # e => new[o] = old[o]
  /\ \A p \in Predicate : p \notin Written(e) => new[e][p] = old[e][p]

LEMMA RuleAfter ==
  ASSUME NEW old \in [Entity -> Literals], NEW lits, NEW e \in Entity,
         NEW s \in SUBSET DOMAIN Rules[TypeOf[e]], NEW i \in s,
         OnlyRules(lits, old, e), RulesReadText => TextOf(lits, old, e, s \ {i})
  PROVE  /\ OnlyRules(apply_rule(lits, e, Rules[TypeOf[e]][i]), old, e)
         /\ RulesReadText => TextOf(apply_rule(lits, e, Rules[TypeOf[e]][i]), old, e, s)
<1> DEFINE rule == Rules[TypeOf[e]][i]
           new == apply_rule(lits, e, rule)
<1>1. rule \in ToSet(Rules[TypeOf[e]]) /\ RuleOK(e, rule)
  <2>1. rule \in ToSet(Rules[TypeOf[e]])
    BY DEF ToSet
  <2>2. QED
    BY <2>1, LookupAssumption
<1>2. rule.as \in Predicate /\ rule.as \in Written(e)
  BY <1>1 DEF RuleOK, Written
<1>3. lits \in [Entity -> Literals]
  BY DEF OnlyRules
<1>4. /\ new \in [Entity -> Literals]
      /\ \A o \in Entity : o # e => new[o] = lits[o]
      /\ \A p \in Predicate : p # rule.as \/ derived(lits, e, rule) = << >> => new[e][p] = lits[e][p]
      /\ derived(lits, e, rule) # << >> => ToSet(new[e][rule.as]) = ToSet(derived(lits, e, rule))
  BY <1>1, <1>3, RuleStep
<1> HIDE DEF new
<1>5. OnlyRules(new, old, e)
  <2>1. \A p \in Predicate : p \notin Written(e) => new[e][p] = lits[e][p]
    BY <1>2, <1>4
  <2>2. QED
    BY <1>4, <2>1 DEF OnlyRules
<1>6. ASSUME RulesReadText PROVE TextOf(new, old, e, s)
  <2>1. SameText(lits, old)
    BY DEF OnlyRules, SameText
  <2>2. derived(lits, e, rule) = derived(old, e, rule)
    BY <1>1, <1>6, <2>1, DerivedSame
  <2> SUFFICES ASSUME NEW p \in Predicate
      PROVE  IF Finding(old, e, p, s) = {} THEN new[e][p] = old[e][p]
             ELSE \E j \in Finding(old, e, p, s) :
                    ToSet(new[e][p]) = ToSet(derived(old, e, Rules[TypeOf[e]][j]))
    BY DEF TextOf
  <2>3. CASE i \in Finding(old, e, p, s)
    <3>1. rule.as = p /\ derived(old, e, rule) # << >>
      BY <2>3 DEF Finding
    <3>2. ToSet(new[e][p]) = ToSet(derived(old, e, rule))
      BY <1>4, <2>2, <3>1
    <3>3. QED
      BY <2>3, <3>2
  <2>4. CASE i \notin Finding(old, e, p, s)
    <3>1. Finding(old, e, p, s) = Finding(old, e, p, s \ {i})
      BY <2>4 DEF Finding
    <3>2. p # rule.as \/ derived(old, e, rule) = << >>
      BY <2>4 DEF Finding
    <3>3. new[e][p] = lits[e][p]
      BY <1>4, <2>2, <3>2
    <3>4. QED
      BY <1>6, <3>1, <3>3 DEF TextOf
  <2>5. QED
    BY <2>3, <2>4
<1>7. QED
  BY <1>5, <1>6 DEF new

LEMMA RulesApplied ==
  ASSUME NEW old \in [Entity -> Literals], NEW e \in Entity
  PROVE  LET new == FoldLeft(LAMBDA lits, rule : apply_rule(lits, e, rule), old, Rules[TypeOf[e]])
         IN  /\ OnlyRules(new, old, e)
             /\ RulesReadText => TextOf(new, old, e, DOMAIN Rules[TypeOf[e]])
<1> DEFINE rules == Rules[TypeOf[e]]
           D == DOMAIN rules
           A == [Entity -> Literals]
           step == [i \in D |-> [lits \in A |-> apply_rule(lits, e, rules[i])]]
           choice == [s \in SUBSET D |-> Max(s)]
           Rec(it) == it = [s \in SUBSET D |->
                              IF s = {} THEN old ELSE apply_rule(it[s \ {Max(s)}], e, rules[Max(s)])]
           iter == CHOOSE it : Rec(it)
<1>1. rules \in Seq(ToSet(rules)) /\ \A i \in D : RuleOK(e, rules[i])
  <2>1. \A i \in D : rules[i] \in ToSet(rules)
    BY DEF ToSet
  <2>2. QED
    BY <2>1, LookupAssumption
<1>2. IsFiniteSet(D) /\ D \subseteq Int /\ Len(rules) \in Int /\ \A i \in D : i <= Len(rules)
  BY <1>1, FS_Interval
<1> HIDE DEF rules
<1>3. Takes(D, choice)
  <2>1. ASSUME NEW s \in SUBSET D, s # {} PROVE Max(s) \in s
    <3>1. s \in SUBSET Int /\ \A x \in s : x <= Len(rules)
      BY <1>2
    <3>2. QED
      BY <1>2, <2>1, <3>1, Largest
  <2>2. QED
    BY <2>1 DEF Takes
<1>4. \A lits \in A, i \in D : apply_rule(lits, e, rules[i]) \in A
  BY <1>1, RuleStep
<1>5. \E it : Rec(it)
  <2>1. PICK it : Folded(D, old, step, choice, it)
    BY <1>2, <1>3, FoldExists
  <2> DEFINE Good == {s \in SUBSET D : it[s] \in A}
  <2>2. {} \in Good
    BY <2>1 DEF Folded
  <2>3. ASSUME NEW s \in SUBSET D, s # {}, s \ {choice[s]} \in Good PROVE s \in Good
    <3>1. choice[s] \in D
      BY <1>3, <2>3 DEF Takes
    <3>2. it[s \ {choice[s]}] \in A
      BY <2>3
    <3>3. it[s] = step[choice[s]][it[s \ {choice[s]}]]
      BY <2>1, <2>3 DEF Folded
    <3> HIDE DEF A, choice
    <3>4. it[s] = apply_rule(it[s \ {choice[s]}], e, rules[choice[s]])
      BY <3>1, <3>2, <3>3
    <3>5. it[s] \in A
      BY <1>4, <3>1, <3>2, <3>4
    <3>6. QED
      BY <3>5
  <2>4. SUBSET D \subseteq Good
    <3> HIDE DEF choice, Good, D
    <3>1. \A s \in SUBSET D : s # {} /\ s \ {choice[s]} \in Good => s \in Good
      BY <2>3, Zenon
    <3>2. IsFiniteSet(D)
      BY <1>2, Zenon
    <3>3. QED
      BY <1>3, <2>2, <3>1, <3>2, SubsetInduction
  <2>5. ASSUME NEW s \in SUBSET D, s # {}
        PROVE  it[s] = apply_rule(it[s \ {Max(s)}], e, rules[Max(s)])
    <3>1. choice[s] \in D /\ choice[s] = Max(s) /\ s \ {choice[s]} \in Good
      BY <1>3, <2>4, <2>5 DEF Takes
    <3>2. it[s] = step[choice[s]][it[s \ {choice[s]}]] /\ it[s \ {choice[s]}] \in A
      BY <2>1, <2>5, <3>1 DEF Folded
    <3> HIDE DEF A
    <3>3. QED
      BY <3>1, <3>2
  <2>6. Rec(it)
    BY <2>1, <2>5 DEF Folded
  <2>7. QED
    BY <2>6
<1>6. Rec(iter)
  BY <1>5
<1>7. FoldLeft(LAMBDA lits, rule : apply_rule(lits, e, rule), old, Rules[TypeOf[e]]) = iter[D]
  BY Zenon DEF FoldLeft, MapThenFoldSet, rules
<1> HIDE DEF iter
<1> DEFINE Good == {s \in SUBSET D : /\ OnlyRules(iter[s], old, e)
                                     /\ RulesReadText => TextOf(iter[s], old, e, s)}
<1>8. {} \in Good
  <2>1. iter[{}] = old
    BY <1>6
  <2>2. OnlyRules(old, old, e) /\ TextOf(old, old, e, {})
    BY DEF OnlyRules, TextOf, Finding
  <2>3. QED
    BY <2>1, <2>2
<1>9. ASSUME NEW s \in SUBSET D, s # {}, s \ {choice[s]} \in Good PROVE s \in Good
  <2>1. choice[s] \in s /\ choice[s] = Max(s)
    BY <1>3, <1>9 DEF Takes
  <2>2. iter[s] = apply_rule(iter[s \ {choice[s]}], e, rules[choice[s]])
    BY <1>6, <1>9, <2>1
  <2>3. /\ OnlyRules(iter[s \ {choice[s]}], old, e)
        /\ RulesReadText => TextOf(iter[s \ {choice[s]}], old, e, s \ {choice[s]})
    BY <1>9
  <2>4. /\ OnlyRules(iter[s], old, e)
        /\ RulesReadText => TextOf(iter[s], old, e, s)
    <3> HIDE DEF choice
    <3>1. QED
      BY <2>1, <2>2, <2>3, RuleAfter DEF rules
  <2>5. QED
    BY <2>4
<1>10. D \in Good
  <2> HIDE DEF choice, Good, D
  <2>1. \A s \in SUBSET D : s # {} /\ s \ {choice[s]} \in Good => s \in Good
    BY <1>9, Zenon
  <2>2. QED
    BY <1>2, <1>3, <1>8, <2>1, SubsetInduction
<1>11. QED
  BY <1>7, <1>10 DEF rules

-----------------------------------------------------------------------------
(* Candidates                                                              *)

Sourced(source) == IF source = "orcid" THEN Orcid ELSE Item

LEMMA FactsOf ==
  ASSUME NEW lits \in Literals, NEW ids \in Seq(Orcid)
  PROVE  LET facts == [lits EXCEPT !["orcid"] = distinct(@ \o ids)]
         IN  /\ facts \in Literals
             /\ ToSet(facts["orcid"]) = ToSet(lits["orcid"]) \cup ToSet(ids)
             /\ \A p \in Predicate : p # "orcid" => facts[p] = lits[p]
<1>1. "orcid" \in Predicate /\ Orcid \subseteq Value
  BY LookupAssumption
<1>2. lits \in [Predicate -> Seq(Value)] /\ lits["orcid"] \in Seq(Value)
  BY <1>1 DEF Literals
<1>3. ids \in Seq(Value)
  BY <1>1
<1> DEFINE all == lits["orcid"] \o ids
<1>4. all \in Seq(Value) /\ ToSet(all) = ToSet(lits["orcid"]) \cup ToSet(ids)
  BY <1>2, <1>3, Joined
<1>5. [lits EXCEPT !["orcid"] = distinct(@ \o ids)] = [lits EXCEPT !["orcid"] = distinct(all)]
  OBVIOUS
<1> HIDE DEF all
<1>6. distinct(all) \in Seq(Value) /\ ToSet(distinct(all)) = ToSet(all)
  BY <1>4, DistinctOf
<1>7. QED
  BY <1>1, <1>2, <1>4, <1>5, <1>6 DEF Literals

LEMMA FactsType ==
  ASSUME literals \in [Entity -> Literals], found \in [Entity -> Seq(Orcid)], NEW e \in Entity
  PROVE  /\ Facts(e) \in Literals
         /\ ToSet(Facts(e)["orcid"]) = ToSet(literals[e]["orcid"]) \cup ToSet(found[e])
         /\ \A p \in Predicate : p # "orcid" => Facts(e)[p] = literals[e][p]
<1>1. literals[e] \in Literals /\ found[e] \in Seq(Orcid)
  OBVIOUS
<1>2. QED
  BY <1>1, FactsOf DEF Facts

LEMMA ValueSetsType ==
  ASSUME NEW lits \in Literals, NEW rule \in SearchRule, NEW optional \in SUBSET Predicate
  PROVE  value_sets(lits, rule, optional) \in Seq(Asked)
<1> DEFINE some == {p \in ToSet(rule.predicates) : lits[p] # << >>}
           extra == {p \in optional : lits[p] # << >>}
           with_optional(value_set) ==
             [p \in DOMAIN value_set \cup extra |-> IF p \in extra THEN lits[p][1] ELSE value_set[p]]
           first == rule.predicates[1]
<1>1. /\ rule.predicates \in Seq(Predicate) /\ rule.predicates # << >>
      /\ ToSet(rule.predicates) \subseteq Predicate
  <2>1. rule.predicates \in Seq(Predicate) /\ rule.predicates # << >>
    BY DEF SearchRule
  <2>2. QED
    BY <2>1, Elements
<1>2. \A p \in Predicate : lits[p] \in Seq(Value) /\ (lits[p] # << >> => lits[p][1] \in Value)
  BY DEF Literals
<1>3. some \subseteq Predicate /\ extra \subseteq Predicate
  BY <1>1
<1>4. \A p \in some \cup extra : lits[p][1] \in Value
  BY <1>2, <1>3
<1>5. ASSUME NEW q \in [some -> Value] PROVE with_optional(q) \in Asked
  <2>1. with_optional(q) \in [some \cup extra -> Value]
    BY <1>4, <1>5
  <2>2. some \cup extra \in SUBSET Predicate
    BY <1>3
  <2>3. QED
    BY <2>1, <2>2 DEF Asked
<1>6. CASE some = {} \/ (rule.require_all /\ some # ToSet(rule.predicates))
  <2>1. value_sets(lits, rule, optional) = << >>
    BY <1>6, Zenon DEF value_sets
  <2>2. QED
    BY <2>1
<1>7. CASE ~ (some = {} \/ (rule.require_all /\ some # ToSet(rule.predicates))) /\ Len(rule.predicates) = 1
  <2>1. value_sets(lits, rule, optional)
          = [i \in 1..Len(lits[first]) |-> with_optional([p \in some |-> lits[first][i]])]
    BY <1>7 DEF value_sets, map
  <2>2. lits[first] \in Seq(Value)
    BY <1>1, <1>2
  <2>3. ASSUME NEW i \in 1..Len(lits[first])
        PROVE  with_optional([p \in some |-> lits[first][i]]) \in Asked
    <3>1. [p \in some |-> lits[first][i]] \in [some -> Value]
      BY <2>2
    <3> HIDE DEF with_optional, some
    <3>2. QED
      BY <1>5, <3>1, Zenon
  <2> HIDE DEF with_optional, some, first
  <2>4. QED
    BY <2>1, <2>2, <2>3
<1>8. CASE ~ (some = {} \/ (rule.require_all /\ some # ToSet(rule.predicates))) /\ Len(rule.predicates) # 1
  <2>1. value_sets(lits, rule, optional) = <<with_optional([p \in some |-> lits[p][1]])>>
    BY <1>8, Zenon DEF value_sets
  <2>2. [p \in some |-> lits[p][1]] \in [some -> Value]
    BY <1>4
  <2> HIDE DEF with_optional, some
  <2>3. QED
    BY <1>5, <2>1, <2>2
<1>9. QED
  BY <1>6, <1>7, <1>8

LEMMA QueriesType ==
  ASSUME NEW source, NEW lits \in Literals, NEW cfg, ConfigOK(cfg)
  PROVE  queries(source, lits, cfg) \in Seq(Asked)
<1> DEFINE rules == cfg.search_queries
           parts == [i \in 1..Len(rules) |-> resolve_rule_value_sets(source, lits, rules[i])]
<1>1. rules \in Seq(SearchRule)
  BY DEF ConfigOK
<1>2. ASSUME NEW rule \in SearchRule
      PROVE  resolve_rule_value_sets(source, lits, rule) \in Seq(Asked)
  BY ValueSetsType DEF resolve_rule_value_sets, SearchRule
<1>3. queries(source, lits, cfg) = distinct(FlattenSeq(parts))
  BY Zenon DEF queries, map
<1> HIDE DEF rules
<1>4. parts \in Seq(Seq(Asked))
  BY <1>1, <1>2
<1>5. FlattenSeq(parts) \in Seq(Asked)
  BY <1>4, FlattenSeqOf
<1>6. QED
  BY <1>3, <1>5, DistinctOf

LEMMA HitsType ==
  ASSUME NEW source \in Source, NEW lits \in Literals, NEW type,
         ConfigOK(Config[source][type]), NEW F
  PROVE  hits(source, lits, type, F) \in Seq(Sourced(source))
<1> DEFINE asked == queries(source, lits, Config[source][type])
           parts == [i \in 1..Len(asked) |-> search(source, asked[i], F)]
           uris == distinct(FlattenSeq(parts))
           T == {u \in ToSet(uris) : passes_class_filter(u, type, F)}
           kept == [i \in 1..Len(uris) |-> IF passes_class_filter(uris[i], type, F)
                                           THEN <<uris[i]>> ELSE << >>]
<1>1. asked \in Seq(Asked)
  BY QueriesType
<1>2. ASSUME NEW q \in Asked PROVE search(source, q, F) \in Seq(Sourced(source))
  <2>1. Hits(source, q) \in Seq(Sourced(source)) /\ Limit \in Nat
    BY LookupAssumption DEF Source, Sourced
  <2>2. QED
    BY <2>1, UptoOf DEF search
<1>3. hits(source, lits, type, F) = FlattenSeq(kept)
  BY Zenon DEF hits, keep, map
<1> HIDE DEF asked
<1>4. parts \in Seq(Seq(Sourced(source)))
  BY <1>1, <1>2
<1>5. uris \in Seq(Sourced(source))
  BY <1>4, FlattenSeqOf, DistinctOf
<1> HIDE DEF uris
<1>6. kept = [i \in 1..Len(uris) |-> IF uris[i] \in T THEN <<uris[i]>> ELSE << >>]
  <2>1. \A i \in 1..Len(uris) : uris[i] \in ToSet(uris)
    BY <1>5 DEF ToSet
  <2>2. \A i \in 1..Len(uris) : uris[i] \in T <=> passes_class_filter(uris[i], type, F)
    BY <2>1
  <2> HIDE DEF T
  <2>3. QED
    BY <2>2
<1> HIDE DEF T, kept
<1>7. FlattenSeq(kept) \in Seq(Sourced(source))
  BY <1>5, <1>6, KeptOf, Zenon
<1>8. QED
  BY <1>3, <1>7

LEMMA AsCandidates ==
  ASSUME NEW S, NEW uris \in Seq(S), NEW fuzzy \in BOOLEAN, NEW unresolved \in BOOLEAN
  PROVE  /\ as_candidates(uris, fuzzy, unresolved)
              \in Seq([uri: ToSet(uris), fuzzy: {fuzzy}, unresolved: {unresolved}])
         /\ Len(as_candidates(uris, fuzzy, unresolved)) = Len(uris)
  BY DEF as_candidates, map, ToSet

\* What the search by name finds.
LEMMA SearchedOf ==
  ASSUME NEW source \in Source, NEW lits \in Literals, NEW type,
         ConfigOK(Config[source][type]), NEW F, NEW unresolved \in BOOLEAN
  PROVE  LET searched == search_candidates(source, lits, type, F, unresolved)
         IN  /\ searched \in Seq([uri: Sourced(source), fuzzy: {TRUE}, unresolved: {unresolved}])
             /\ Len(searched) <= Limit
<1> DEFINE all == hits(source, lits, type, F)
           S == [uri: Sourced(source), fuzzy: {TRUE}, unresolved: {unresolved}]
<1>1. all \in Seq(Sourced(source)) /\ ToSet(all) \subseteq Sourced(source)
  BY HitsType, Elements
<1>2. as_candidates(all, TRUE, unresolved)
        \in Seq([uri: ToSet(all), fuzzy: {TRUE}, unresolved: {unresolved}])
  BY <1>1, AsCandidates
<1>3. as_candidates(all, TRUE, unresolved) \in Seq(S)
  <2> HIDE DEF all
  <2>1. \A A, B : A \subseteq B => [uri: A, fuzzy: {TRUE}, unresolved: {unresolved}]
                                    \subseteq [uri: B, fuzzy: {TRUE}, unresolved: {unresolved}]
    OBVIOUS
  <2>2. [uri: ToSet(all), fuzzy: {TRUE}, unresolved: {unresolved}] \subseteq S
    BY <1>1, <2>1, Zenon
  <2>3. \A A, B : A \subseteq B => Seq(A) \subseteq Seq(B)
    OBVIOUS
  <2> HIDE DEF S
  <2>4. QED
    BY <1>2, <2>2, <2>3, Zenon
<1>4. Limit \in Nat
  BY LookupAssumption
<1> HIDE DEF S
<1>5. upto(as_candidates(all, TRUE, unresolved), Limit) \in Seq(S)
      /\ Len(upto(as_candidates(all, TRUE, unresolved), Limit)) <= Limit
  BY <1>3, <1>4, UptoOf
<1>6. QED
  BY <1>5 DEF search_candidates, S

\* What the services say of an ORCID is of the one that was asked for: a
\* record of ORCID is of its identifier (orcid_client.py), and an item of
\* Wikidata is found by the statement that it has it (wikidata_client.py).
IdentifiersStated ==
  /\ \A id \in Orcid : id \in ToSet(CandidateFacts[id]["orcid"])
  /\ \A id \in WellFormed : Claimed[id] # None => id \in ToSet(CandidateFacts[Claimed[id]]["orcid"])

\* u shares an identifier with ids.
Confirmed(ids, u) == IdentifiersStated => shared_value(ids, CandidateFacts[u]["orcid"])

\* What a known ORCID leads to.
LEMMA KnownOf ==
  ASSUME NEW source \in Source, NEW ids \in Seq(Value), NEW type, NEW F
  PROVE  LET verified == known_candidates(source, ids, type, F)
         IN  /\ verified \in Seq([uri: {u \in Sourced(source) : Confirmed(ids, u)},
                                  fuzzy: {FALSE}, unresolved: {FALSE}])
             /\ Len(verified) <= Limit
<1> DEFINE resolve(id) == IF source = "orcid" THEN fetch_orcid_record(id, F)
                          ELSE search_wikidata_by_orcid(id, F)
           asked == upto(ids, Limit)
           uris == [i \in 1..Len(asked) |-> resolve(asked[i])]
           passes(u) == u # None /\ passes_class_filter(u, type, F)
           T == {u \in ToSet(uris) : passes(u)}
           kept == [i \in 1..Len(uris) |-> IF passes(uris[i]) THEN <<uris[i]>> ELSE << >>]
           G == {u \in Sourced(source) : Confirmed(ids, u)}
           S == G \cup {None}
<1>1. Limit \in Nat /\ None \notin Candidate
  BY LookupAssumption
<1>2. asked \in Seq(Value) /\ Len(asked) <= Limit /\ ToSet(asked) \subseteq ToSet(ids)
  BY <1>1, UptoOf
<1>3. ASSUME NEW id \in ToSet(ids) PROVE resolve(id) \in S
  <2>1. CASE source = "orcid"
    <3>1. CASE resolve(id) = id /\ id \in Orcid
      <4>1. IdentifiersStated => id \in ToSet(CandidateFacts[id]["orcid"])
        BY <3>1 DEF IdentifiersStated
      <4>2. QED
        BY <1>3, <2>1, <3>1, <4>1 DEF Confirmed, shared_value, Sourced
    <3>2. CASE resolve(id) = None
      BY <3>2
    <3>3. QED
      BY <2>1, <3>1, <3>2 DEF fetch_orcid_record
  <2>2. CASE source # "orcid"
    <3>1. CASE resolve(id) = Claimed[id] /\ id \in WellFormed
      <4>1. Claimed[id] \in Item \cup {None}
        BY <3>1, LookupAssumption
      <4>2. IdentifiersStated /\ Claimed[id] # None => id \in ToSet(CandidateFacts[Claimed[id]]["orcid"])
        BY <3>1 DEF IdentifiersStated
      <4>3. QED
        BY <1>3, <2>2, <3>1, <4>1, <4>2 DEF Confirmed, shared_value, Sourced
    <3>2. CASE resolve(id) = None
      BY <3>2
    <3>3. QED
      BY <2>2, <3>1, <3>2 DEF search_wikidata_by_orcid
  <2>3. QED
    BY <2>1, <2>2
<1>4. known_candidates(source, ids, type, F) = as_candidates(FlattenSeq(kept), FALSE, FALSE)
  BY Zenon DEF known_candidates, keep, map
<1> HIDE DEF asked, resolve
<1>5. uris \in Seq(S) /\ Len(uris) <= Limit
  <2>1. \A i \in 1..Len(asked) : asked[i] \in ToSet(ids)
    <3>1. \A i \in 1..Len(asked) : asked[i] \in ToSet(asked)
      BY <1>2, Elements DEF ToSet
    <3>2. QED
      BY <1>2, <3>1
  <2>2. \A i \in 1..Len(asked) : resolve(asked[i]) \in S
    BY <1>3, <2>1
  <2> HIDE DEF S
  <2>3. QED
    BY <1>1, <1>2, <2>2
<1> HIDE DEF uris
<1>6. kept = [i \in 1..Len(uris) |-> IF uris[i] \in T THEN <<uris[i]>> ELSE << >>]
  <2>1. \A i \in 1..Len(uris) : uris[i] \in ToSet(uris)
    BY <1>5 DEF ToSet
  <2>2. \A i \in 1..Len(uris) : uris[i] \in T <=> passes(uris[i])
    BY <2>1
  <2> HIDE DEF T, passes
  <2>3. QED
    BY <2>2
<1>7. T \cap {None} = {}
  OBVIOUS
<1> HIDE DEF T, kept, S
<1>8. /\ FlattenSeq(kept) \in Seq(S) /\ Len(FlattenSeq(kept)) <= Len(uris)
      /\ ToSet(FlattenSeq(kept)) = ToSet(uris) \cap T
  BY <1>5, <1>6, KeptOf, Zenon
<1>9. ToSet(FlattenSeq(kept)) \subseteq G
  <2>1. ToSet(uris) \subseteq S
    BY <1>5, Elements
  <2> HIDE DEF G
  <2>2. QED
    BY <1>7, <1>8, <2>1 DEF S
<1>10. /\ as_candidates(FlattenSeq(kept), FALSE, FALSE)
            \in Seq([uri: ToSet(FlattenSeq(kept)), fuzzy: {FALSE}, unresolved: {FALSE}])
       /\ Len(as_candidates(FlattenSeq(kept), FALSE, FALSE)) = Len(FlattenSeq(kept))
  BY <1>8, AsCandidates
<1>11. as_candidates(FlattenSeq(kept), FALSE, FALSE) \in Seq([uri: G, fuzzy: {FALSE}, unresolved: {FALSE}])
  <2> DEFINE new == as_candidates(FlattenSeq(kept), FALSE, FALSE)
             V == [uri: ToSet(FlattenSeq(kept)), fuzzy: {FALSE}, unresolved: {FALSE}]
             W == [uri: G, fuzzy: {FALSE}, unresolved: {FALSE}]
  <2> HIDE DEF G
  <2>1. V \subseteq W
    BY <1>9
  <2>2. new \in Seq(V)
    BY <1>10
  <2> HIDE DEF new, V, W
  <2>3. new \in Seq(W)
    BY <2>1, <2>2, Wider
  <2>4. QED
    BY <2>3 DEF new, W
<1>12. Len(as_candidates(FlattenSeq(kept), FALSE, FALSE)) <= Limit
  <2>1. Len(uris) \in Nat /\ Len(FlattenSeq(kept)) \in Nat
    BY <1>5, <1>8
  <2>2. \A a, b, c \in Nat : a <= b /\ b <= c => a <= c
    OBVIOUS
  <2>3. Len(FlattenSeq(kept)) <= Limit
    BY <1>1, <1>5, <1>8, <2>1, <2>2, Zenon
  <2>4. QED
    BY <1>10, <2>3, Zenon
<1>13. QED
  BY <1>4, <1>11, <1>12

\* A candidate for an entity with the literals lits: verified by one of its
\* ORCIDs, or found by name, with a note of whether it has any.
Grounded(lits, c) ==
  IF c.fuzzy THEN c.unresolved = (lits["orcid"] # << >>)
  ELSE c.unresolved = FALSE /\ Confirmed(lits["orcid"], c.uri)

LEMMA QueryOf ==
  ASSUME NEW source \in Source, NEW e \in Entity, NEW lits \in Literals, NEW F
  PROVE  LET new == query(source, e, lits, F)
         IN  /\ new \in Seq({c \in Flagged : c.uri \in Sourced(source) /\ Grounded(lits, c)})
             /\ Len(new) <= Limit
             /\ new # << >> => Config[source][TypeOf[e]] # None
<1> DEFINE S == {c \in Flagged : c.uri \in Sourced(source) /\ Grounded(lits, c)}
           type == TypeOf[e]
           ids == lits["orcid"]
           verified == known_candidates(source, ids, type, F)
           searched == search_candidates(source, lits, type, F, ids # << >>)
           new == query(source, e, lits, F)
<1>1. ids \in Seq(Value) /\ Limit \in Nat /\ (Config[source][type] # None => ConfigOK(Config[source][type]))
  BY LookupAssumption DEF Literals
<1>2. Sourced(source) \subseteq Candidate
  BY DEF Sourced, Candidate
<1>3. \A A, B : A \subseteq B => Seq(A) \subseteq Seq(B)
  OBVIOUS
<1>4. verified \in Seq(S) /\ Len(verified) <= Limit
  <2> DEFINE V == [uri: {u \in Sourced(source) : Confirmed(ids, u)}, fuzzy: {FALSE}, unresolved: {FALSE}]
  <2>1. verified \in Seq(V) /\ Len(verified) <= Limit
    BY <1>1, KnownOf
  <2>2. V \subseteq S
    BY <1>2 DEF Grounded, Flagged
  <2> HIDE DEF V, S
  <2>3. QED
    BY <1>3, <2>1, <2>2, Zenon
<1>5. ASSUME Config[source][type] # None PROVE searched \in Seq(S) /\ Len(searched) <= Limit
  <2> DEFINE V == [uri: Sourced(source), fuzzy: {TRUE}, unresolved: {ids # << >>}]
  <2>1. searched \in Seq(V) /\ Len(searched) <= Limit
    <3>1. (ids # << >>) \in BOOLEAN /\ ConfigOK(Config[source][type])
      BY <1>1, <1>5
    <3>2. QED
      BY <3>1, SearchedOf
  <2>2. V \subseteq S
    BY <1>2 DEF Grounded, Flagged
  <2> HIDE DEF V, S, searched
  <2>3. QED
    BY <1>3, <2>1, <2>2, Zenon
<1>6. CASE new = << >>
  <2>1. << >> \in Seq(S) /\ Len(<< >>) <= Limit
    BY <1>1
  <2>2. QED
    BY <1>6, <2>1
<1>7. CASE Config[source][type] # None /\ new = verified
  BY <1>4, <1>7
<1>8. CASE Config[source][type] # None /\ new = searched
  BY <1>5, <1>8
<1>9. QED
  <2>1. new = << >> \/ (Config[source][type] # None /\ new = generate_candidates(source, lits, type, F))
    BY Zenon DEF query
  <2>2. generate_candidates(source, lits, type, F) \in {verified, searched}
    BY DEF generate_candidates
  <2> HIDE DEF verified, searched, new
  <2>3. QED
    BY <1>6, <1>7, <1>8, <2>1, <2>2

-----------------------------------------------------------------------------
(* Scores                                                                  *)

LEMMA BestOf ==
  ASSUME NEW values \in Seq(Value), values # << >>, NEW others \in Seq(Value), others # << >>,
         NEW low \in Int, NEW high \in Int, NEW like \in [Value \X Value -> low..high]
  PROVE  best(values, others, like) \in low..high
<1> DEFINE pairs == ToSet(values) \X ToSet(others)
           S == {like[pair] : pair \in pairs}
<1>1. /\ ToSet(values) \subseteq Value /\ ToSet(others) \subseteq Value
      /\ values[1] \in ToSet(values) /\ others[1] \in ToSet(others)
  BY Elements
<1>2. pairs \subseteq Value \X Value /\ pairs # {}
  <2>1. <<values[1], others[1]>> \in pairs
    BY <1>1
  <2>2. QED
    BY <1>1, <2>1
<1>3. best(values, others, like) = Max(S)
  BY DEF best
<1> HIDE DEF pairs
<1>4. S \subseteq low..high /\ S # {}
  BY <1>2
<1> HIDE DEF S
<1>5. S \in SUBSET Int /\ \A x \in S : x <= high
  BY <1>4
<1>6. Max(S) \in S
  BY <1>4, <1>5, Largest
<1>7. QED
  BY <1>3, <1>4, <1>6

LEMMA SharedOf ==
  ASSUME NEW lits \in Literals, NEW others \in Literals, NEW preds \in SUBSET Predicate,
         NEW p \in shared(lits, others, preds)
  PROVE  /\ p \in Predicate
         /\ lits[p] \in Seq(Value) /\ lits[p] # << >>
         /\ others[p] \in Seq(Value) /\ others[p] # << >>
  BY DEF shared, Literals

AnyOf(s) == CHOOSE x \in s : TRUE

\* Sums of how alike the values of some fields are.
Plus(lits, others, p, n) == best(lits[p], others[p], Alike) + n

Sums(lits, others, fields, it) ==
  it = [s \in SUBSET fields |->
          IF s = {} THEN 0 ELSE Plus(lits, others, AnyOf(s), it[s \ {AnyOf(s)}])]

LEMMA SyntacticSum ==
  ASSUME NEW lits \in Literals, NEW others \in Literals, NEW cfg, ConfigOK(cfg)
  PROVE  LET fields == shared(lits, others, cfg.comparison_predicates)
         IN  /\ IsFiniteSet(fields) /\ \A p \in fields : best(lits[p], others[p], Alike) \in 0..100
             /\ \E it : /\ Sums(lits, others, fields, it)
                        /\ syntactic_similarity(lits, others, cfg)
                             = IF fields = {} THEN 0 ELSE it[fields] \div Cardinality(fields)
<1> DEFINE fields == shared(lits, others, cfg.comparison_predicates)
           choice == [s \in SUBSET fields |-> AnyOf(s)]
           plus(p, n) == Plus(lits, others, p, n)
           step == [p \in fields |-> [n \in Int |-> plus(p, n)]]
           iter == CHOOSE it : Sums(lits, others, fields, it)
<1>1. fields \subseteq Predicate /\ IsFiniteSet(fields) /\ cfg.comparison_predicates \in SUBSET Predicate
  <2>1. fields \subseteq Predicate /\ IsFiniteSet(Predicate) /\ cfg.comparison_predicates \in SUBSET Predicate
    BY LookupAssumption DEF shared, ConfigOK
  <2>2. QED
    BY <2>1, FS_Subset
<1>2. \A p \in fields : best(lits[p], others[p], Alike) \in 0..100
  <2>1. Alike \in [Value \X Value -> 0..100]
    BY LookupAssumption
  <2>2. \A p \in fields : /\ lits[p] \in Seq(Value) /\ lits[p] # << >>
                          /\ others[p] \in Seq(Value) /\ others[p] # << >>
    BY <1>1, SharedOf
  <2>3. \A v, w \in Seq(Value) : v # << >> /\ w # << >> => best(v, w, Alike) \in 0..100
    <3>1. 0 \in Int /\ 100 \in Int
      OBVIOUS
    <3>2. QED
      BY <2>1, <3>1, BestOf, Zenon
  <2>4. QED
    BY <2>2, <2>3, Zenon
<1> HIDE DEF fields
<1>3. \A p \in fields, n \in Int : plus(p, n) \in Int
  BY <1>2 DEF Plus
<1>4. Takes(fields, choice)
  BY Zenon DEF Takes, AnyOf
<1>5. \E it : Sums(lits, others, fields, it)
  <2>1. PICK it : Folded(fields, 0, step, choice, it)
    BY <1>1, <1>4, FoldExists
  <2> DEFINE Good == {s \in SUBSET fields : it[s] \in Int}
  <2>2. {} \in Good
    BY <2>1 DEF Folded
  <2>3. ASSUME NEW s \in SUBSET fields, s # {}, s \ {choice[s]} \in Good PROVE s \in Good
    <3>1. choice[s] \in fields
      BY <1>4, <2>3 DEF Takes
    <3>2. it[s] = plus(choice[s], it[s \ {choice[s]}])
      BY <2>1, <2>3, <3>1 DEF Folded
    <3>3. QED
      BY <1>3, <2>3, <3>1, <3>2
  <2>4. SUBSET fields \subseteq Good
    <3> HIDE DEF choice, Good
    <3>1. \A s \in SUBSET fields : s # {} /\ s \ {choice[s]} \in Good => s \in Good
      BY <2>3, Zenon
    <3>2. QED
      BY <1>1, <1>4, <2>2, <3>1, SubsetInduction
  <2>5. ASSUME NEW s \in SUBSET fields, s # {}
        PROVE  it[s] = plus(AnyOf(s), it[s \ {AnyOf(s)}])
    <3>1. choice[s] \in fields /\ choice[s] = AnyOf(s) /\ s \ {choice[s]} \in Good
      BY <1>4, <2>4, <2>5 DEF Takes
    <3>2. it[s] = step[choice[s]][it[s \ {choice[s]}]] /\ it[s \ {choice[s]}] \in Int
      BY <2>1, <2>5, <3>1 DEF Folded
    <3>3. QED
      BY <3>1, <3>2
  <2>6. Sums(lits, others, fields, it)
    BY <2>1, <2>5 DEF Folded, Sums
  <2>7. QED
    BY <2>6
<1>6. Sums(lits, others, fields, iter)
  BY <1>5
<1>7. syntactic_similarity(lits, others, cfg)
        = IF fields = {} THEN 0 ELSE iter[fields] \div Cardinality(fields)
  BY Zenon DEF AnyOf, Plus, Sums, syntactic_similarity, MapThenSumSet, MapThenFoldSet, fields
<1> HIDE DEF iter
<1>8. /\ IsFiniteSet(fields) /\ \A p \in fields : best(lits[p], others[p], Alike) \in 0..100
      /\ \E it : /\ Sums(lits, others, fields, it)
                 /\ syntactic_similarity(lits, others, cfg)
                      = IF fields = {} THEN 0 ELSE it[fields] \div Cardinality(fields)
  BY <1>1, <1>2, <1>6, <1>7
<1>9. QED
  BY <1>8 DEF fields

LEMMA SumsOf ==
  ASSUME NEW lits, NEW others, NEW fields, NEW it, Sums(lits, others, fields, it)
  PROVE  /\ it[{}] = 0
         /\ \A s \in SUBSET fields : s # {} =>
              /\ AnyOf(s) \in s
              /\ it[s] = best(lits[AnyOf(s)], others[AnyOf(s)], Alike) + it[s \ {AnyOf(s)}]
<1>1. \A s \in SUBSET fields : s # {} => AnyOf(s) \in s
  BY Zenon DEF AnyOf
<1>2. QED
  BY <1>1 DEF Sums, Plus

\* The similarity of the compared values is a percent.
LEMMA SyntacticRange ==
  ASSUME NEW lits \in Literals, NEW others \in Literals, NEW cfg, ConfigOK(cfg)
  PROVE  syntactic_similarity(lits, others, cfg) \in 0..100
<1> DEFINE fields == shared(lits, others, cfg.comparison_predicates)
           n == Cardinality(fields)
           choice == [s \in SUBSET fields |-> AnyOf(s)]
<1> HIDE DEF fields
<1>1. /\ IsFiniteSet(fields) /\ \A p \in fields : best(lits[p], others[p], Alike) \in 0..100
      /\ \E it : /\ Sums(lits, others, fields, it)
                 /\ syntactic_similarity(lits, others, cfg) = IF fields = {} THEN 0 ELSE it[fields] \div n
  BY SyntacticSum DEF fields
<1>2. PICK it : /\ Sums(lits, others, fields, it)
                /\ syntactic_similarity(lits, others, cfg) = IF fields = {} THEN 0 ELSE it[fields] \div n
  BY <1>1
<1>3. /\ it[{}] = 0
      /\ \A s \in SUBSET fields : s # {} =>
           /\ AnyOf(s) \in s
           /\ it[s] = best(lits[AnyOf(s)], others[AnyOf(s)], Alike) + it[s \ {AnyOf(s)}]
  BY <1>2, SumsOf
<1>4. Takes(fields, choice)
  BY <1>3 DEF Takes
<1> DEFINE Good == {s \in SUBSET fields : it[s] \in Nat /\ it[s] <= 100 * Cardinality(s)}
<1>5. {} \in Good
  BY <1>3, FS_EmptySet
<1>6. ASSUME NEW s \in SUBSET fields, s # {}, s \ {choice[s]} \in Good PROVE s \in Good
  <2>1. /\ choice[s] \in s /\ choice[s] = AnyOf(s)
        /\ it[s] = best(lits[choice[s]], others[choice[s]], Alike) + it[s \ {choice[s]}]
    BY <1>3, <1>6
  <2>2. Cardinality(s) \in Nat /\ Cardinality(s \ {choice[s]}) = Cardinality(s) - 1
    BY <1>1, <1>4, <1>6, TakenOff
  <2>3. best(lits[choice[s]], others[choice[s]], Alike) \in 0..100
    BY <1>1, <2>1
  <2>4. \A a \in 0..100, b, c \in Nat : b <= 100 * (c - 1) => a + b \in Nat /\ a + b <= 100 * c
    OBVIOUS
  <2>5. it[s] \in Nat /\ it[s] <= 100 * Cardinality(s)
    BY <1>6, <2>1, <2>2, <2>3, <2>4
  <2>6. QED
    BY <2>5
<1>7. fields \in Good
  <2> HIDE DEF choice, Good
  <2>1. \A s \in SUBSET fields : s # {} /\ s \ {choice[s]} \in Good => s \in Good
    BY <1>6, Zenon
  <2>2. QED
    BY <1>1, <1>4, <1>5, <2>1, SubsetInduction
<1>8. CASE fields # {}
  <2>1. n \in Nat /\ n # 0
    BY <1>1, <1>8, FS_CardinalityType, FS_EmptySet
  <2>2. \A a, b \in Nat : b # 0 /\ a <= 100 * b => a \div b \in 0..100
    OBVIOUS
  <2>3. it[fields] \div n \in 0..100
    BY <1>7, <2>1, <2>2
  <2>4. QED
    BY <1>2, <1>8, <2>3
<1>9. QED
  BY <1>2, <1>8

\* The similarity depends on the fields that are compared, and on nothing else.
LEMMA SyntacticSame ==
  ASSUME NEW a \in Literals, NEW b \in Literals, NEW others \in Literals, NEW cfg, ConfigOK(cfg),
         \A p \in cfg.comparison_predicates : a[p] = b[p]
  PROVE  syntactic_similarity(a, others, cfg) = syntactic_similarity(b, others, cfg)
<1> DEFINE fields == shared(a, others, cfg.comparison_predicates)
           choice == [s \in SUBSET fields |-> AnyOf(s)]
<1>1. fields = shared(b, others, cfg.comparison_predicates) /\ \A p \in fields : a[p] = b[p]
  BY DEF shared
<1> HIDE DEF fields
<1>2. /\ IsFiniteSet(fields)
      /\ \E it : /\ Sums(a, others, fields, it)
                 /\ syntactic_similarity(a, others, cfg)
                      = IF fields = {} THEN 0 ELSE it[fields] \div Cardinality(fields)
      /\ \E it : /\ Sums(b, others, fields, it)
                 /\ syntactic_similarity(b, others, cfg)
                      = IF fields = {} THEN 0 ELSE it[fields] \div Cardinality(fields)
  <2> DEFINE same == shared(b, others, cfg.comparison_predicates)
  <2>1. /\ IsFiniteSet(fields)
        /\ \E it : /\ Sums(a, others, fields, it)
                   /\ syntactic_similarity(a, others, cfg)
                        = IF fields = {} THEN 0 ELSE it[fields] \div Cardinality(fields)
    BY SyntacticSum DEF fields
  <2>2. \E it : /\ Sums(b, others, same, it)
               /\ syntactic_similarity(b, others, cfg)
                    = IF same = {} THEN 0 ELSE it[same] \div Cardinality(same)
    BY SyntacticSum
  <2>3. fields = same
    BY <1>1
  <2> HIDE DEF same
  <2>4. QED
    BY <2>1, <2>2, <2>3
<1>3. PICK i : /\ Sums(a, others, fields, i)
               /\ syntactic_similarity(a, others, cfg)
                    = IF fields = {} THEN 0 ELSE i[fields] \div Cardinality(fields)
  BY <1>2
<1>4. PICK j : /\ Sums(b, others, fields, j)
               /\ syntactic_similarity(b, others, cfg)
                    = IF fields = {} THEN 0 ELSE j[fields] \div Cardinality(fields)
  BY <1>2
<1>5. /\ i[{}] = 0
      /\ \A s \in SUBSET fields : s # {} =>
           /\ AnyOf(s) \in s
           /\ i[s] = best(a[AnyOf(s)], others[AnyOf(s)], Alike) + i[s \ {AnyOf(s)}]
  BY <1>3, SumsOf
<1>6. /\ j[{}] = 0
      /\ \A s \in SUBSET fields : s # {} =>
           j[s] = best(b[AnyOf(s)], others[AnyOf(s)], Alike) + j[s \ {AnyOf(s)}]
  BY <1>4, SumsOf
<1>7. Takes(fields, choice)
  BY <1>5 DEF Takes
<1> DEFINE Good == {s \in SUBSET fields : i[s] = j[s]}
<1>8. {} \in Good
  BY <1>5, <1>6
<1>9. ASSUME NEW s \in SUBSET fields, s # {}, s \ {choice[s]} \in Good PROVE s \in Good
  <2>1. choice[s] = AnyOf(s) /\ AnyOf(s) \in fields
    BY <1>5, <1>9
  <2>2. a[AnyOf(s)] = b[AnyOf(s)] /\ i[s \ {AnyOf(s)}] = j[s \ {AnyOf(s)}]
    BY <1>1, <1>9, <2>1
  <2>3. i[s] = j[s]
    BY <1>5, <1>6, <1>9, <2>2
  <2>4. QED
    BY <2>3
<1>10. fields \in Good
  <2> HIDE DEF choice, Good
  <2>1. \A s \in SUBSET fields : s # {} /\ s \ {choice[s]} \in Good => s \in Good
    BY <1>9, Zenon
  <2>2. QED
    BY <1>2, <1>7, <1>8, <2>1, SubsetInduction
<1>11. QED
  BY <1>3, <1>4, <1>10

\* A score of 100 percent of 100 percent.
Whole == 10000

LEMMA WeightedSum ==
  ASSUME NEW a \in 0..100, NEW s \in 0..100, NEW m \in Int, m <= 100
  PROVE  a * s + (100 - a) * m \in Int /\ a * s + (100 - a) * m <= Whole
<1>1. a * s <= a * 100
  OBVIOUS
<1>2. (100 - a) * m <= (100 - a) * 100
  <2>1. \A b \in Nat, i \in Int : i <= 100 => b * i <= b * 100
    OBVIOUS
  <2>2. 100 - a \in Nat
    OBVIOUS
  <2>3. QED
    BY <2>1, <2>2
<1>3. QED
  BY <1>1, <1>2 DEF Whole

\* A score before penalties is at most what the values alone give, or 100%.
LEMMA CombinedRange ==
  ASSUME NEW lits \in Literals, NEW others \in Literals, NEW cfg, ConfigOK(cfg), NEW embedded
  PROVE  LET full == combined_similarity(lits, others, cfg, embedded)
         IN  /\ full \in Int /\ full <= Whole
             /\ cfg.syntactic = 100 => full \in {0, 100 * syntactic_similarity(lits, others, cfg)}
<1> DEFINE full == combined_similarity(lits, others, cfg, embedded)
           syn == syntactic_similarity(lits, others, cfg)
           sem == semantic_similarity(lits, others, embedded)
<1>1. syn \in 0..100
  BY SyntacticRange
<1>2. sem \in -100..100
  <2>1. CASE sem = 0
    BY <2>1
  <2>2. CASE shared(lits, others, {"name"}) # {} /\ sem = best(lits["name"], others["name"], Close)
    <3>1. PICK p \in shared(lits, others, {"name"}) : TRUE
      BY <2>2
    <3>2. {"name"} \in SUBSET Predicate /\ Close \in [Value \X Value -> -100..100]
      BY LookupAssumption
    <3>3. p = "name"
      BY DEF shared
    <3>4. /\ lits["name"] \in Seq(Value) /\ lits["name"] # << >>
          /\ others["name"] \in Seq(Value) /\ others["name"] # << >>
      BY <3>2, <3>3, SharedOf
    <3>5. -100 \in Int /\ 100 \in Int
      OBVIOUS
    <3>6. best(lits["name"], others["name"], Close) \in -100..100
      BY <3>2, <3>4, <3>5, BestOf, Zenon
    <3>7. QED
      BY <2>2, <3>6
  <2>3. QED
    BY <2>1, <2>2 DEF semantic_similarity
<1>3. full = 0 \/ full = cfg.syntactic * syn + (100 - cfg.syntactic) * sem
  BY DEF combined_similarity
<1>4. cfg.syntactic \in 0..100
  BY DEF ConfigOK
<1> HIDE DEF full, syn, sem
<1>5. cfg.syntactic = 100 => cfg.syntactic * syn + (100 - cfg.syntactic) * sem = 100 * syn
  <2>1. \A s, m \in Int : 100 * s + (100 - 100) * m = 100 * s
    OBVIOUS
  <2>2. QED
    BY <1>1, <1>2, <2>1
<1>6. full \in Int /\ full <= Whole
  <2>1. sem \in Int /\ sem <= 100
    BY <1>2
  <2>2. /\ cfg.syntactic * syn + (100 - cfg.syntactic) * sem \in Int
        /\ cfg.syntactic * syn + (100 - cfg.syntactic) * sem <= Whole
    BY <1>1, <1>4, <2>1, WeightedSum
  <2>3. 0 <= Whole
    BY DEF Whole
  <2>4. QED
    BY <1>3, <2>2, <2>3
<1>7. cfg.syntactic = 100 => full \in {0, 100 * syn}
  BY <1>3, <1>5
<1>8. QED
  BY <1>6, <1>7 DEF full, syn

\* A penalty lowers a score, one that is not zero a score above zero.
LEMMA LoweredOf ==
  ASSUME NEW score \in Int, score <= Whole, NEW penalty \in 0..100
  PROVE  /\ lowered(score, penalty) \in Int
         /\ lowered(score, penalty) <= 100 * (100 - penalty)
         /\ lowered(score, penalty) > 0 => score > 0 /\ lowered(score, penalty) <= score
         /\ score >= 100 /\ penalty <= 99 => lowered(score, penalty) \in 1..score
         /\ score > 0 /\ penalty > 0 => lowered(score, penalty) < score
<1> DEFINE n == score * (100 - penalty)
           low == n \div 100
<1>1. n \in Int /\ low \in Int /\ 100 * low <= n /\ n < 100 * low + 100
  BY DEF lowered
<1>2. 100 - penalty \in 0..100
  OBVIOUS
<1>3. n <= Whole * (100 - penalty)
  BY <1>2 DEF Whole
<1>4. score > 0 => n <= score * 100
  BY <1>2
<1>5. score <= 0 => n <= 0
  BY <1>2
<1>6. score > 0 /\ penalty > 0 => n < score * 100
  <2> SUFFICES ASSUME score > 0, penalty > 0 PROVE n < score * 100
    OBVIOUS
  <2>1. score * penalty > 0
    OBVIOUS
  <2>2. n = score * 100 - score * penalty
    OBVIOUS
  <2>3. QED
    BY <2>1, <2>2
<1>7. score >= 100 /\ penalty <= 99 => n >= 100
  <2> SUFFICES ASSUME score >= 100, penalty <= 99 PROVE n >= 100
    OBVIOUS
  <2>1. 100 - penalty >= 1
    OBVIOUS
  <2>2. score * (100 - penalty) >= score * 1
    BY <2>1
  <2>3. QED
    BY <2>2
<1>8. lowered(score, penalty) = low
  BY DEF lowered
<1> HIDE DEF n, low
<1>9. low <= 100 * (100 - penalty)
  BY <1>1, <1>3 DEF Whole
<1>10. low > 0 => score > 0 /\ low <= score
  BY <1>1, <1>4, <1>5
<1>11. score >= 100 /\ penalty <= 99 => low \in 1..score
  BY <1>1, <1>4, <1>7
<1>12. score > 0 /\ penalty > 0 => low < score
  BY <1>1, <1>6
<1>13. QED
  BY <1>1, <1>8, <1>9, <1>10, <1>11, <1>12

OneOf(x, a, b) == x = a \/ x = b

\* A score that reaches the threshold, with its penalties.
LEMMA Penalised ==
  ASSUME NEW full \in Int, full <= Whole,
         NEW least \in 1..100, NEW unresolved \in 0..100, NEW fuzzy \in 0..99,
         NEW kept, OneOf(kept, full, lowered(full, unresolved)),
         NEW score, OneOf(score, kept, lowered(kept, fuzzy)),
         ~ (kept < least * 100)
  PROVE  /\ score \in 1..Whole /\ full > 0
         /\ kept = lowered(full, unresolved) => least + unresolved <= 100
         /\ score = lowered(kept, fuzzy) /\ fuzzy > 0 => score < full
<1>1. /\ lowered(full, unresolved) \in Int
      /\ lowered(full, unresolved) <= 100 * (100 - unresolved)
      /\ lowered(full, unresolved) > 0 => full > 0 /\ lowered(full, unresolved) <= full
  BY LoweredOf, Zenon
<1>2. kept \in Int /\ kept >= 100 /\ kept <= Whole /\ full > 0 /\ kept <= full
  BY <1>1 DEF Whole, OneOf
<1>3. kept = lowered(full, unresolved) => least + unresolved <= 100
  BY <1>1
<1>4. /\ lowered(kept, fuzzy) \in 1..kept
      /\ fuzzy > 0 => lowered(kept, fuzzy) < kept
  <2>1. fuzzy \in 0..100 /\ fuzzy <= 99 /\ kept > 0
    BY <1>2
  <2>2. QED
    BY <1>2, <2>1, LoweredOf, Zenon
<1>5. score \in 1..Whole /\ (score = lowered(kept, fuzzy) /\ fuzzy > 0 => score < full)
  <2>1. kept \in 1..kept
    BY <1>2
  <2>2. score \in 1..kept
    BY <1>4, <2>1 DEF OneOf
  <2>3. score = lowered(kept, fuzzy) /\ fuzzy > 0 => score < kept
    BY <1>4
  <2>4. score \in 1..Whole
    BY <1>2, <2>2 DEF Whole
  <2>5. score < kept => score < full
    BY <1>2, <2>2 DEF Whole
  <2>6. QED
    BY <2>3, <2>4, <2>5, Zenon
<1>6. QED
  BY <1>2, <1>3, <1>5, Zenon

Scored == [source: Source, entity: Entity, uri: Candidate, score: 1..Whole]

\* What is written for a candidate found by name is below its full score, and
\* for one found in spite of an ORCID only if the penalty may leave enough.
LEMMA ResultOf ==
  ASSUME NEW source \in Source, NEW e \in Entity, NEW c \in Flagged, NEW lits \in Literals,
         NEW embedded, NEW cfg, cfg = Config[source][TypeOf[e]], ConfigOK(cfg),
         NEW r \in result(source, e, c, lits, embedded)
  PROVE  /\ r \in Scored
         /\ r.source = source /\ r.entity = e /\ r.uri = c.uri
         /\ c.unresolved => cfg.threshold + cfg.unresolved_orcid_penalty <= 100
         /\ c.fuzzy /\ cfg.fuzzy_match_penalty > 0 /\ cfg.syntactic = 100 =>
              r.score < 100 * syntactic_similarity(lits, CandidateFacts[c.uri], cfg)
<1> DEFINE others == CandidateFacts[c.uri]
           full == combined_similarity(lits, others, cfg, embedded)
           kept == IF c.unresolved THEN lowered(full, cfg.unresolved_orcid_penalty) ELSE full
           score == IF c.fuzzy THEN lowered(kept, cfg.fuzzy_match_penalty) ELSE kept
           syn == syntactic_similarity(lits, others, cfg)
<1>1. /\ c.uri \in Candidate /\ c.fuzzy \in BOOLEAN /\ c.unresolved \in BOOLEAN
      /\ others \in Literals
  <2>1. c.uri \in Candidate /\ c.fuzzy \in BOOLEAN /\ c.unresolved \in BOOLEAN
    BY DEF Flagged
  <2>2. CandidateFacts \in [Candidate -> Literals]
    BY LookupAssumption
  <2>3. QED
    BY <2>1, <2>2
<1>2. /\ cfg.threshold \in 1..100 /\ cfg.fuzzy_match_penalty \in 0..99
      /\ cfg.unresolved_orcid_penalty \in 0..100
  BY DEF ConfigOK
<1>3. full \in Int /\ full <= Whole /\ (cfg.syntactic = 100 => full \in {0, 100 * syn})
  BY <1>1, CombinedRange
<1>4. /\ ~ (kept < cfg.threshold * 100)
      /\ r = [source |-> source, entity |-> e, uri |-> c.uri, score |-> score]
  <2>1. result(source, e, c, lits, embedded)
          = IF kept < cfg.threshold * 100 THEN {}
            ELSE {[source |-> source, entity |-> e, uri |-> c.uri, score |-> score]}
    BY DEF result
  <2> HIDE DEF kept, score
  <2>2. QED
    BY <2>1
<1>5. /\ kept \in {full, lowered(full, cfg.unresolved_orcid_penalty)}
      /\ score \in {kept, lowered(kept, cfg.fuzzy_match_penalty)}
      /\ c.unresolved => kept = lowered(full, cfg.unresolved_orcid_penalty)
      /\ c.fuzzy => score = lowered(kept, cfg.fuzzy_match_penalty)
  OBVIOUS
<1> HIDE DEF full, kept, score, syn
<1>6. /\ score \in 1..Whole /\ full > 0
      /\ c.unresolved => cfg.threshold + cfg.unresolved_orcid_penalty <= 100
      /\ c.fuzzy /\ cfg.fuzzy_match_penalty > 0 => score < full
  <2> DEFINE least == cfg.threshold
             unresolved == cfg.unresolved_orcid_penalty
             fuzzy == cfg.fuzzy_match_penalty
  <2>1. least \in 1..100 /\ unresolved \in 0..100 /\ fuzzy \in 0..99
    BY <1>2
  <2>2. full \in Int /\ full <= Whole
    BY <1>3
  <2>3. OneOf(kept, full, lowered(full, unresolved)) /\ OneOf(score, kept, lowered(kept, fuzzy))
    BY <1>5 DEF OneOf
  <2>4. ~ (kept < least * 100)
    BY <1>4
  <2> HIDE DEF least, unresolved, fuzzy
  <2>5. /\ score \in 1..Whole /\ full > 0
        /\ kept = lowered(full, unresolved) => least + unresolved <= 100
        /\ score = lowered(kept, fuzzy) /\ fuzzy > 0 => score < full
    BY <2>1, <2>2, <2>3, <2>4, Penalised, Zenon
  <2>6. QED
    BY <1>5, <2>5 DEF least, unresolved, fuzzy
<1>7. cfg.syntactic = 100 => full = 100 * syn
  BY <1>3, <1>6
<1>8. r \in Scored
  BY <1>1, <1>4, <1>6 DEF Scored
<1>9. c.fuzzy /\ cfg.fuzzy_match_penalty > 0 /\ cfg.syntactic = 100 => r.score < 100 * syn
  BY <1>4, <1>6, <1>7
<1>10. QED
  BY <1>4, <1>6, <1>8, <1>9 DEF syn

-----------------------------------------------------------------------------
(* The states of a lookup                                                  *)

\* The types of the variables, and which of them are still, or again, empty.
Shape ==
  /\ known \in Initial
  /\ literals \in [Entity -> Literals]
  /\ found \in [Entity -> Seq(Orcid)]
  /\ stage \in {"derive", "orcid", "wikidata", "done"}
  /\ todo \subseteq Entity
  /\ cands \in [Entity -> Seq(Flagged)]
  /\ \A e \in Entity : Len(cands[e]) <= Limit
  /\ results \subseteq Scored
  /\ stage = "derive" => \A e \in Entity : cands[e] = << >>
  /\ stage = "orcid" => \A e \in Entity : \A c \in ToSet(cands[e]) : c.uri \in Orcid
  /\ stage \in Source => \A e \in Entity : cands[e] # << >> => Config[stage][TypeOf[e]] # None

LEMMA ShapeTypes == Shape => TypeOK
  BY DEF Shape, TypeOK, Scored, Whole

LEMMA ShapeInit == Init => Shape
<1> SUFFICES ASSUME Init PROVE Shape
  OBVIOUS
<1>1. Initial \subseteq [Entity -> Literals] /\ Limit \in Nat
  BY LookupAssumption
<1>2. ToSet(<< >>) = {}
  BY DEF ToSet
<1>3. QED
  BY <1>1, <1>2 DEF Init, Shape, Source

LEMMA ShapeDerive == ASSUME Shape, NEW e \in Entity, Derive(e) PROVE Shape'
<1>1. /\ stage = "derive" /\ literals' \in [Entity -> Literals]
  <2>1. literals' = FoldLeft(LAMBDA lits, rule : apply_rule(lits, e, rule), literals, Rules[TypeOf[e]])
    BY Zenon DEF Derive
  <2>2. literals \in [Entity -> Literals]
    BY DEF Shape
  <2>3. OnlyRules(FoldLeft(LAMBDA lits, rule : apply_rule(lits, e, rule), literals, Rules[TypeOf[e]]),
                  literals, e)
    BY <2>2, RulesApplied
  <2>4. QED
    BY <2>1, <2>3, Zenon DEF Derive, OnlyRules
<1>2. /\ UNCHANGED <<known, found, cands, results>>
      /\ todo' \subseteq Entity /\ stage' \in {"derive", "orcid"}
  <2>1. /\ todo' = IF todo = {e} THEN Entity ELSE todo \ {e}
        /\ stage' = IF todo = {e} THEN "orcid" ELSE stage
        /\ UNCHANGED <<known, found, cands, results>>
    BY Zenon DEF Derive
  <2>2. QED
    BY <1>1, <2>1 DEF Shape
<1>3. \A o \in Entity : cands[o] = << >> /\ ToSet(cands[o]) = {}
  BY <1>1 DEF Shape, ToSet
<1>4. QED
  BY <1>1, <1>2, <1>3 DEF Shape

LEMMA QueryEffect ==
  ASSUME Shape, NEW source \in Source, NEW e \in Entity, Query(source, e)
  PROVE  \E new : /\ cands' = [cands EXCEPT ![e] = new]
                  /\ new \in Seq({c \in Flagged : c.uri \in Sourced(source) /\ Grounded(Facts(e), c)})
                  /\ Len(new) <= Limit
                  /\ new # << >> => Config[source][TypeOf[e]] # None
<1>1. Facts(e) \in Literals
  BY FactsType DEF Shape
<1>2. PICK F : cands' = [cands EXCEPT ![e] = query(source, e, Facts(e), F)]
  BY Zenon DEF Query
<1>3. QED
  BY <1>1, <1>2, QueryOf, Zenon

LEMMA ShapeQuery ==
  ASSUME Shape, NEW source \in Source, NEW e \in Entity, Query(source, e)
  PROVE  Shape'
<1> DEFINE S == {c \in Flagged : c.uri \in Sourced(source) /\ Grounded(Facts(e), c)}
<1>1. PICK new : /\ cands' = [cands EXCEPT ![e] = new] /\ new \in Seq(S) /\ Len(new) <= Limit
                 /\ new # << >> => Config[source][TypeOf[e]] # None
  BY QueryEffect, Zenon
<1>2. /\ stage = source /\ UNCHANGED <<known, literals, found, stage, results>>
      /\ todo' \subseteq Entity
  BY DEF Query, Shape
<1>3. new \in Seq(Flagged) /\ \A c \in ToSet(new) : c.uri \in Sourced(source)
  <2>1. ToSet(new) \subseteq S
    BY <1>1, Elements
  <2>2. S \subseteq Flagged
    OBVIOUS
  <2>3. \A c \in S : c.uri \in Sourced(source)
    OBVIOUS
  <2> HIDE DEF S
  <2>4. QED
    BY <1>1, <2>1, <2>2, <2>3, Wider
<1>4. cands' \in [Entity -> Seq(Flagged)] /\ cands'[e] = new /\ \A o \in Entity : o # e => cands'[o] = cands[o]
  BY <1>1, <1>3 DEF Shape
<1>5. \A o \in Entity : Len(cands'[o]) <= Limit
  BY <1>1, <1>4 DEF Shape
<1>6. stage' = "orcid" => \A o \in Entity : \A c \in ToSet(cands'[o]) : c.uri \in Orcid
  BY <1>2, <1>3, <1>4 DEF Shape, Sourced
<1>7. \A o \in Entity : cands'[o] # << >> => Config[source][TypeOf[o]] # None
  BY <1>1, <1>2, <1>4 DEF Shape
<1>8. QED
  BY <1>2, <1>4, <1>5, <1>6, <1>7 DEF Shape, Source

LEMMA ScoredOf ==
  ASSUME Shape, NEW source \in Source, stage = source, NEW embedded, NEW r \in scored(source, embedded)
  PROVE  \E e \in Entity : \E c \in ToSet(cands[e]) :
           /\ r \in result(source, e, c, Facts(e), embedded)
           /\ c \in Flagged /\ Facts(e) \in Literals
           /\ Config[source][TypeOf[e]] # None /\ ConfigOK(Config[source][TypeOf[e]])
<1>1. PICK e \in Entity : \E c \in ToSet(cands[e]) : r \in result(source, e, c, Facts(e), embedded)
  BY DEF scored
<1>2. PICK c \in ToSet(cands[e]) : r \in result(source, e, c, Facts(e), embedded)
  BY <1>1
<1>3. cands[e] \in Seq(Flagged)
  BY DEF Shape
<1>4. c \in Flagged /\ cands[e] # << >>
  BY <1>3, Elements
<1>5. Facts(e) \in Literals
  BY FactsType DEF Shape
<1>6. Config[source][TypeOf[e]] # None
  BY <1>4 DEF Shape
<1>7. ConfigOK(Config[source][TypeOf[e]])
  BY <1>6, LookupAssumption
<1>8. QED
  BY <1>2, <1>4, <1>5, <1>6, <1>7, Zenon

\* What is scored is typed, and the candidates are forgotten.
LEMMA WriteEffect ==
  ASSUME Shape, NEW source \in Source, NEW embedded, score_and_write_results(source, embedded)
  PROVE  /\ stage = source /\ results' = results \cup scored(source, embedded)
         /\ results' \subseteq Scored
         /\ cands' \in [Entity -> Seq(Flagged)] /\ todo' = Entity
         /\ \A e \in Entity : cands'[e] = << >> /\ ToSet(cands'[e]) = {} /\ Len(cands'[e]) <= Limit
         /\ UNCHANGED <<known, literals>>
<1>1. /\ stage = source /\ results' = results \cup scored(source, embedded)
      /\ cands' = [e \in Entity |-> << >>] /\ todo' = Entity
      /\ UNCHANGED <<known, literals>>
  BY DEF score_and_write_results
<1>2. ASSUME NEW r \in scored(source, embedded)
      PROVE  r \in Scored
  <2>1. PICK e \in Entity : \E c \in ToSet(cands[e]) :
           /\ r \in result(source, e, c, Facts(e), embedded)
           /\ c \in Flagged /\ Facts(e) \in Literals
           /\ Config[source][TypeOf[e]] # None /\ ConfigOK(Config[source][TypeOf[e]])
    BY <1>1, ScoredOf
  <2>2. PICK c \in ToSet(cands[e]) :
           /\ r \in result(source, e, c, Facts(e), embedded)
           /\ c \in Flagged /\ Facts(e) \in Literals
           /\ Config[source][TypeOf[e]] # None /\ ConfigOK(Config[source][TypeOf[e]])
    BY <2>1
  <2>3. QED
    BY <2>2, ResultOf
<1>3. results' \subseteq Scored
  BY <1>1, <1>2 DEF Shape
<1>4. \A e \in Entity : cands'[e] = << >>
  BY <1>1
<1>5. << >> \in Seq(Flagged) /\ ToSet(<< >>) = {} /\ Len(<< >>) <= Limit
  BY LookupAssumption DEF ToSet
<1>6. cands' \in [Entity -> Seq(Flagged)]
  BY <1>1, <1>5
<1>7. \A e \in Entity : cands'[e] = << >> /\ ToSet(cands'[e]) = {} /\ Len(cands'[e]) <= Limit
  BY <1>4, <1>5
<1>8. QED
  BY <1>1, <1>3, <1>6, <1>7

LEMMA AboveType ==
  ASSUME Shape, stage = "orcid", NEW e \in Entity, NEW embedded
  PROVE  /\ above(e, embedded) \in Seq(Orcid)
         /\ cands[e] = << >> => above(e, embedded) = << >>
<1> DEFINE test(u) == \E r \in scored("orcid", embedded) : r.entity = e /\ r.uri = u
           uris == [i \in 1..Len(cands[e]) |-> cands[e][i].uri]
           T == {u \in ToSet(uris) : test(u)}
           kept == [i \in 1..Len(uris) |-> IF test(uris[i]) THEN <<uris[i]>> ELSE << >>]
<1>1. cands[e] \in Seq(Flagged) /\ \A c \in ToSet(cands[e]) : c.uri \in Orcid
  BY DEF Shape
<1>2. uris \in Seq(Orcid)
  <2>1. \A i \in 1..Len(cands[e]) : cands[e][i] \in ToSet(cands[e])
    BY <1>1 DEF ToSet
  <2>2. QED
    BY <1>1, <2>1
<1>3. above(e, embedded) = FlattenSeq(kept)
  BY Zenon DEF above, keep, map
<1>4. cands[e] = << >> => Len(uris) = 0
  OBVIOUS
<1> HIDE DEF uris
<1>5. kept = [i \in 1..Len(uris) |-> IF uris[i] \in T THEN <<uris[i]>> ELSE << >>]
  <2>1. \A i \in 1..Len(uris) : uris[i] \in ToSet(uris)
    BY <1>2 DEF ToSet
  <2>2. \A i \in 1..Len(uris) : uris[i] \in T <=> test(uris[i])
    BY <2>1
  <2> HIDE DEF T
  <2>3. QED
    BY <2>2
<1> HIDE DEF T, kept
<1>6. FlattenSeq(kept) \in Seq(Orcid) /\ Len(FlattenSeq(kept)) <= Len(uris)
  BY <1>2, <1>5, KeptOf, Zenon
<1>7. Len(uris) = 0 => FlattenSeq(kept) = << >>
  BY <1>6
<1>8. QED
  BY <1>3, <1>6, <1>7, <1>4

LEMMA ShapeWriteOrcid == ASSUME Shape, WriteOrcid PROVE Shape'
<1>1. PICK embedded \in BOOLEAN :
        /\ score_and_write_results("orcid", embedded)
        /\ found' = [e \in Entity |-> above(e, embedded)]
        /\ stage' = "wikidata"
  BY Zenon DEF WriteOrcid, get_embeddings_batch
<1>2. "orcid" \in Source
  BY DEF Source
<1>3. /\ stage = "orcid" /\ results' \subseteq Scored
      /\ cands' \in [Entity -> Seq(Flagged)] /\ todo' = Entity
      /\ \A e \in Entity : cands'[e] = << >> /\ ToSet(cands'[e]) = {} /\ Len(cands'[e]) <= Limit
      /\ known' = known /\ literals' = literals
  BY <1>1, <1>2, WriteEffect
<1>4. found' \in [Entity -> Seq(Orcid)]
  <2>1. \A e \in Entity : above(e, embedded) \in Seq(Orcid)
    BY <1>3, AboveType
  <2>2. QED
    BY <1>1, <2>1
<1>5. stage' = "wikidata"
  BY <1>1
<1>6. QED
  BY <1>3, <1>4, <1>5 DEF Shape

LEMMA ShapeWriteWikidata == ASSUME Shape, WriteWikidata PROVE Shape'
<1>1. PICK embedded : score_and_write_results("wikidata", embedded)
  BY Zenon DEF WriteWikidata
<1>2. "wikidata" \in Source /\ stage' = "done" /\ found' = found
  BY DEF Source, WriteWikidata
<1>3. /\ results' \subseteq Scored
      /\ cands' \in [Entity -> Seq(Flagged)] /\ todo' = Entity
      /\ \A e \in Entity : cands'[e] = << >> /\ ToSet(cands'[e]) = {} /\ Len(cands'[e]) <= Limit
      /\ known' = known /\ literals' = literals
  BY <1>1, <1>2, WriteEffect
<1>4. QED
  BY <1>2, <1>3 DEF Shape, Source

LEMMA ShapeStep == ASSUME Shape, [Next]_vars PROVE Shape'
<1>1. CASE UNCHANGED vars
  BY <1>1 DEF vars, Shape
<1>2. CASE \E e \in Entity : Derive(e) \/ (\E source \in Source : Query(source, e))
  BY <1>2, ShapeDerive, ShapeQuery
<1>3. CASE WriteOrcid
  BY <1>3, ShapeWriteOrcid
<1>4. CASE WriteWikidata
  BY <1>4, ShapeWriteWikidata
<1>5. QED
  BY <1>1, <1>2, <1>3, <1>4 DEF Next

LEMMA AlwaysShape == Spec => []Shape
<1>1. Init => Shape
  BY ShapeInit
<1>2. Shape /\ [Next]_vars => Shape'
  BY ShapeStep
<1>3. QED
  BY <1>1, <1>2, PTL DEF Spec

\* Whatever the services answer, no more candidates are kept than the limit
\* allows, and each score that is written is above zero and at most 100%: no
\* penalty takes one above the threshold down to zero (lookup.py:151).
THEOREM LookupTypes == Spec => []TypeOK
  BY AlwaysShape, ShapeTypes, PTL

-----------------------------------------------------------------------------
(* Derivation: what an entity is given does not depend on the order.       *)

\* What DerivedFromText says of an entity.
FromText(e) ==
  \A p \in Predicate :
    LET rules == {rule \in ToSet(Rules[TypeOf[e]]) : rule.as = p /\ derived(known, e, rule) # << >>}
    IN IF rules = {} THEN literals[e][p] = known[e][p]
       ELSE \E rule \in rules : ToSet(literals[e][p]) = ToSet(derived(known, e, rule))

LEMMA TextDerived ==
  ASSUME Shape, RulesReadText, SameText(literals, known), NEW e \in Entity,
         literals[e] = known[e], NEW new, TextOf(new, literals, e, DOMAIN Rules[TypeOf[e]])
  PROVE  \A p \in Predicate :
           LET rules == {rule \in ToSet(Rules[TypeOf[e]]) : rule.as = p /\ derived(known, e, rule) # << >>}
           IN IF rules = {} THEN new[e][p] = known[e][p]
              ELSE \E rule \in rules : ToSet(new[e][p]) = ToSet(derived(known, e, rule))
<1> SUFFICES ASSUME NEW p \in Predicate
    PROVE  LET rules == {rule \in ToSet(Rules[TypeOf[e]]) : rule.as = p /\ derived(known, e, rule) # << >>}
           IN IF rules = {} THEN new[e][p] = known[e][p]
              ELSE \E rule \in rules : ToSet(new[e][p]) = ToSet(derived(known, e, rule))
  OBVIOUS
<1> DEFINE D == DOMAIN Rules[TypeOf[e]]
           of(i) == Rules[TypeOf[e]][i]
           rules == {rule \in ToSet(Rules[TypeOf[e]]) : rule.as = p /\ derived(known, e, rule) # << >>}
           some == Finding(literals, e, p, D)
<1>1. ToSet(Rules[TypeOf[e]]) = {of(i) : i \in D}
  BY DEF ToSet
<1>2. \A rule \in ToSet(Rules[TypeOf[e]]) : derived(literals, e, rule) = derived(known, e, rule)
  BY DerivedSame
<1>3. \A i \in D : i \in some <=> of(i) \in rules
  BY <1>1, <1>2 DEF Finding
<1>4. some \subseteq D /\ \A rule \in rules : \E i \in D : rule = of(i)
  BY <1>1 DEF Finding
<1>5. IF some = {} THEN new[e][p] = literals[e][p]
      ELSE \E i \in some : ToSet(new[e][p]) = ToSet(derived(literals, e, of(i)))
  BY DEF TextOf
<1> HIDE DEF rules, some, of, D
<1>6. CASE some = {}
  <2>1. rules = {}
    BY <1>3, <1>4, <1>6
  <2>2. QED
    BY <1>5, <1>6, <2>1 DEF rules
<1>7. CASE some # {}
  <2>1. PICK i \in some : ToSet(new[e][p]) = ToSet(derived(literals, e, of(i)))
    BY <1>5, <1>7
  <2>2. of(i) \in rules
    BY <1>3, <1>4, <2>1
  <2>3. derived(literals, e, of(i)) = derived(known, e, of(i))
    BY <1>2, <2>2 DEF rules
  <2>4. QED
    BY <2>1, <2>2, <2>3 DEF rules
<1>8. QED
  BY <1>6, <1>7

\* Entities that are still to come are as they were extracted.
Text ==
  /\ Shape
  /\ SameText(literals, known)
  /\ stage = "derive" => \A e \in todo : literals[e] = known[e]
  /\ RulesReadText => \A e \in Entity : (stage = "derive" /\ e \in todo) \/ FromText(e)

LEMMA DeriveEffect ==
  ASSUME Shape, NEW e \in Entity, Derive(e)
  PROVE  /\ OnlyRules(literals', literals, e)
         /\ RulesReadText => TextOf(literals', literals, e, DOMAIN Rules[TypeOf[e]])
<1>1. literals' = FoldLeft(LAMBDA lits, rule : apply_rule(lits, e, rule), literals, Rules[TypeOf[e]])
  BY Zenon DEF Derive
<1>2. literals \in [Entity -> Literals]
  BY DEF Shape
<1>3. QED
  BY <1>1, <1>2, RulesApplied, Zenon

LEMMA TextInit == Init => Text
<1> SUFFICES ASSUME Init PROVE Text
  OBVIOUS
<1>1. Shape
  BY ShapeInit
<1>2. QED
  BY <1>1 DEF Init, Text, SameText

LEMMA TextDerive == ASSUME Text, NEW e \in Entity, Derive(e) PROVE Text'
<1>1. Shape /\ Shape'
  BY ShapeDerive DEF Text
<1>2. /\ OnlyRules(literals', literals, e)
      /\ RulesReadText => TextOf(literals', literals, e, DOMAIN Rules[TypeOf[e]])
  BY <1>1, DeriveEffect
<1>3. /\ \A o \in Entity : o # e => literals'[o] = literals[o]
      /\ \A p \in Predicate : p \notin Written(e) => literals'[e][p] = literals[e][p]
  BY <1>2 DEF OnlyRules
<1>4. SameText(literals', known')
  BY <1>3 DEF Derive, Text, SameText
<1>5. stage = "derive" /\ e \in todo /\ known' = known /\ literals[e] = known[e]
  BY DEF Derive, Text
<1>6. IF stage' = "derive" THEN todo' = todo \ {e} ELSE todo = {e}
  BY <1>5 DEF Derive
<1>7. \A o \in Entity : o # e => (stage' = "derive" /\ o \in todo' <=> o \in todo)
  BY <1>6
<1>8. stage' = "derive" => \A o \in todo' : literals'[o] = known'[o]
  <2>1. \A o \in todo : literals[o] = known[o] /\ o \in Entity
    BY <1>1, <1>5 DEF Text, Shape
  <2>2. QED
    BY <1>3, <1>5, <1>6, <2>1
<1>9. ASSUME RulesReadText PROVE \A o \in Entity : (stage' = "derive" /\ o \in todo') \/ FromText(o)'
  <2>1. FromText(e)'
    <3>1. TextOf(literals', literals, e, DOMAIN Rules[TypeOf[e]]) /\ SameText(literals, known)
      BY <1>2, <1>9 DEF Text
    <3>2. \A p \in Predicate :
           LET rules == {rule \in ToSet(Rules[TypeOf[e]]) : rule.as = p /\ derived(known, e, rule) # << >>}
           IN IF rules = {} THEN literals'[e][p] = known[e][p]
              ELSE \E rule \in rules : ToSet(literals'[e][p]) = ToSet(derived(known, e, rule))
      BY <1>1, <1>5, <1>9, <3>1, TextDerived
    <3>3. QED
      BY <1>5, <3>2 DEF FromText
  <2>2. ASSUME NEW o \in Entity, o # e PROVE (stage' = "derive" /\ o \in todo') \/ FromText(o)'
    <3>1. CASE o \in todo
      BY <1>7, <2>2, <3>1
    <3>2. CASE o \notin todo
      <4>1. FromText(o) /\ literals'[o] = literals[o]
        BY <1>3, <1>9, <2>2, <3>2 DEF Text
      <4>2. FromText(o)'
        BY <1>5, <4>1 DEF FromText
      <4>3. QED
        BY <4>2
    <3>3. QED
      BY <3>1, <3>2
  <2>3. QED
    BY <2>1, <2>2
<1>10. QED
  BY <1>1, <1>4, <1>8, <1>9 DEF Text

\* Nothing changes the literals afterwards.
LEMMA TextKept ==
  ASSUME Text, Shape', known' = known, literals' = literals, stage # "derive", stage' # "derive"
  PROVE  Text'
<1>1. RulesReadText => \A e \in Entity : FromText(e) /\ FromText(e)'
  BY DEF Text, FromText
<1>2. QED
  BY <1>1 DEF Text, SameText

LEMMA TextStep == ASSUME Text, [Next]_vars PROVE Text'
<1>1. Shape /\ Shape'
  BY ShapeStep DEF Text
<1>2. CASE UNCHANGED vars
  BY <1>1, <1>2 DEF vars, Text, SameText, FromText
<1>3. CASE \E e \in Entity : Derive(e)
  BY <1>3, TextDerive
<1>4. CASE \E e \in Entity, source \in Source : Query(source, e)
  BY <1>1, <1>4, TextKept DEF Query, Source
<1>5. CASE WriteOrcid \/ WriteWikidata
  BY <1>1, <1>5, TextKept DEF WriteOrcid, WriteWikidata, score_and_write_results
<1>6. QED
  BY <1>2, <1>3, <1>4, <1>5, Zenon DEF Next

LEMMA AlwaysText == Spec => []Text
<1>1. Init => Text
  BY TextInit
<1>2. Text /\ [Next]_vars => Text'
  BY TextStep
<1>3. QED
  BY <1>1, <1>2, PTL DEF Spec

\* In whatever order the entities come, what was derived is what the text says
\* of the neighbours, if no rule reads what a rule writes; every configuration
\* that is shipped is like that (lookup.py:30).
THEOREM DerivationReadsText ==
  ASSUME RulesReadText
  PROVE  Spec => []DerivedFromText
<1>1. Text => DerivedFromText
  BY Zenon DEF Text, DerivedFromText, FromText
<1>2. QED
  BY <1>1, AlwaysText, PTL

-----------------------------------------------------------------------------
(* Identifiers: what a result of the lookup rests on.                      *)

\* No text, rule or lookup gives e an ORCID (organizations).
WithoutOrcid(e) ==
  /\ \A text \in Initial : text[e]["orcid"] = << >>
  /\ "orcid" \notin Written(e)
  /\ Config["orcid"][TypeOf[e]] = None

\* A candidate found by name for an entity that has an ORCID stays below the
\* threshold (unresolved_orcid_penalty of the shipped configurations).
UnresolvedRejected ==
  \A source \in Source, e \in Entity :
    LET cfg == Config[source][TypeOf[e]]
    IN cfg # None => cfg.threshold + cfg.unresolved_orcid_penalty > 100 \/ WithoutOrcid(e)

\* Where a search by name lowers the score, values alone are compared, ORCIDs
\* not among them (the weights of Person in the shipped configurations).
FuzzyByValues ==
  \A source \in Source, e \in Entity :
    LET cfg == Config[source][TypeOf[e]]
    IN cfg # None /\ cfg.fuzzy_match_penalty > 0 =>
         cfg.syntactic = 100 /\ "orcid" \notin cfg.comparison_predicates

\* A result for an entity with the literals lits and the ORCIDs ids: confirmed
\* by one of them, or as low as what is found by name is.
VouchedBy(lits, ids, r) ==
  LET cfg == Config[r.source][TypeOf[r.entity]]
  IN /\ cfg # None
     /\ \/ Confirmed(ids, r.uri)
        \/ /\ ids # << >> => cfg.threshold + cfg.unresolved_orcid_penalty <= 100
           /\ FuzzyByValues /\ cfg.fuzzy_match_penalty > 0 =>
                r.score < 100 * syntactic_similarity(lits, CandidateFacts[r.uri], cfg)

\* The ORCIDs the entity had when the source was asked.
IdentifiersOf(r) ==
  IF r.source = "orcid" THEN literals[r.entity]["orcid"] ELSE Facts(r.entity)["orcid"]

Vouched(r) == VouchedBy(Facts(r.entity), IdentifiersOf(r), r)

AllGrounded == \A e \in Entity : \A c \in ToSet(cands[e]) : Grounded(Facts(e), c)

LEMMA VouchedSame ==
  ASSUME NEW a \in Literals, NEW b \in Literals, NEW ids \in Seq(Value), NEW others \in Seq(Value),
         \A p \in Predicate : p # "orcid" => a[p] = b[p], ToSet(ids) = ToSet(others),
         NEW r \in Scored, VouchedBy(a, ids, r)
  PROVE  VouchedBy(b, others, r)
<1> DEFINE cfg == Config[r.source][TypeOf[r.entity]]
           facts == CandidateFacts[r.uri]
<1>1. r.source \in Source /\ r.entity \in Entity /\ r.uri \in Candidate
  BY DEF Scored
<1>2. cfg # None /\ ConfigOK(cfg) /\ facts \in Literals
  <2>1. cfg # None
    BY DEF VouchedBy
  <2>2. CandidateFacts \in [Candidate -> Literals]
    BY LookupAssumption
  <2>3. QED
    BY <1>1, <2>1, <2>2, LookupAssumption
<1>3. FuzzyByValues /\ cfg.fuzzy_match_penalty > 0 =>
        syntactic_similarity(a, facts, cfg) = syntactic_similarity(b, facts, cfg)
  <2> SUFFICES ASSUME FuzzyByValues, cfg.fuzzy_match_penalty > 0
               PROVE  syntactic_similarity(a, facts, cfg) = syntactic_similarity(b, facts, cfg)
    OBVIOUS
  <2>1. "orcid" \notin cfg.comparison_predicates
    BY <1>1, <1>2 DEF FuzzyByValues
  <2>2. cfg.comparison_predicates \subseteq Predicate
    BY <1>2 DEF ConfigOK
  <2>3. \A p \in cfg.comparison_predicates : a[p] = b[p]
    BY <2>1, <2>2
  <2> HIDE DEF cfg, facts
  <2>4. QED
    BY <1>2, <2>3, SyntacticSame
<1>4. Confirmed(ids, r.uri) => Confirmed(others, r.uri)
  BY DEF Confirmed, shared_value
<1>5. ids = << >> <=> others = << >>
  BY Elements
<1>6. QED
  BY <1>2, <1>3, <1>4, <1>5 DEF VouchedBy

LEMMA VouchedNew ==
  ASSUME Shape, AllGrounded, NEW source \in Source, stage = source, NEW embedded,
         NEW r \in scored(source, embedded)
  PROVE  /\ r \in Scored /\ r.source = source
         /\ VouchedBy(Facts(r.entity), Facts(r.entity)["orcid"], r)
<1>1. PICK e \in Entity : \E c \in ToSet(cands[e]) :
         /\ r \in result(source, e, c, Facts(e), embedded)
         /\ c \in Flagged /\ Facts(e) \in Literals
         /\ Config[source][TypeOf[e]] # None /\ ConfigOK(Config[source][TypeOf[e]])
  BY ScoredOf
<1>2. PICK c \in ToSet(cands[e]) :
         /\ r \in result(source, e, c, Facts(e), embedded)
         /\ c \in Flagged /\ Facts(e) \in Literals
         /\ Config[source][TypeOf[e]] # None /\ ConfigOK(Config[source][TypeOf[e]])
  BY <1>1
<1> DEFINE cfg == Config[source][TypeOf[e]]
           lits == Facts(e)
           syn == syntactic_similarity(lits, CandidateFacts[c.uri], cfg)
<1>3. /\ r \in Scored /\ r.source = source /\ r.entity = e /\ r.uri = c.uri
      /\ c.unresolved => cfg.threshold + cfg.unresolved_orcid_penalty <= 100
      /\ c.fuzzy /\ cfg.fuzzy_match_penalty > 0 /\ cfg.syntactic = 100 => r.score < 100 * syn
  BY <1>2, ResultOf
<1>4. Grounded(lits, c)
  BY <1>2 DEF AllGrounded
<1>5. FuzzyByValues /\ cfg.fuzzy_match_penalty > 0 => cfg.syntactic = 100
  BY <1>2 DEF FuzzyByValues
<1> HIDE DEF cfg, lits, syn
<1>6. CASE c.fuzzy
  <2>1. /\ lits["orcid"] # << >> => cfg.threshold + cfg.unresolved_orcid_penalty <= 100
        /\ FuzzyByValues /\ cfg.fuzzy_match_penalty > 0 => r.score < 100 * syn
    BY <1>3, <1>4, <1>5, <1>6 DEF Grounded
  <2>2. QED
    BY <1>2, <1>3, <2>1 DEF VouchedBy, cfg, lits, syn
<1>7. CASE ~ c.fuzzy
  <2>1. Confirmed(lits["orcid"], c.uri)
    BY <1>4, <1>7 DEF Grounded
  <2>2. QED
    BY <1>2, <1>3, <2>1 DEF VouchedBy, cfg, lits
<1>8. QED
  BY <1>6, <1>7

Identified ==
  /\ Text
  /\ stage \in {"derive", "orcid"} => results = {} /\ \A e \in Entity : found[e] = << >>
  /\ stage # "done" => \A r \in results : r.source = "orcid"
  /\ \A e \in Entity : WithoutOrcid(e) => found[e] = << >>
  /\ AllGrounded
  /\ \A r \in results : Vouched(r)

LEMMA IdentifiedInit == Init => Identified
<1> SUFFICES ASSUME Init PROVE Identified
  OBVIOUS
<1>1. Text
  BY TextInit
<1>2. \A e \in Entity : ToSet(cands[e]) = {}
  BY DEF Init, ToSet
<1>3. QED
  BY <1>1, <1>2 DEF Init, Identified, AllGrounded

LEMMA IdentifiedDerive == ASSUME Identified, NEW e \in Entity, Derive(e) PROVE Identified'
<1>1. Text' /\ Shape
  BY TextDerive DEF Identified, Text
<1>2. stage = "derive" /\ stage' \in {"derive", "orcid"} /\ UNCHANGED <<found, cands, results>>
  BY DEF Derive
<1>3. \A o \in Entity : cands'[o] = << >> /\ ToSet(cands'[o]) = {}
  BY <1>1, <1>2 DEF Shape, ToSet
<1>4. results' = {} /\ \A o \in Entity : found'[o] = << >>
  BY <1>2 DEF Identified
<1>5. QED
  BY <1>1, <1>2, <1>3, <1>4 DEF Identified, AllGrounded

LEMMA FactsKept ==
  ASSUME literals' = literals, found' = found
  PROVE  /\ \A e : Facts(e)' = Facts(e)
         /\ \A r : Vouched(r) => Vouched(r)'
  BY DEF Facts, Vouched, VouchedBy, IdentifiersOf

LEMMA IdentifiedQuery ==
  ASSUME Identified, Text', NEW source \in Source, NEW e \in Entity, Query(source, e)
  PROVE  Identified'
<1>1. Shape
  BY DEF Identified, Text
<1>2. stage = source /\ UNCHANGED <<known, literals, found, stage, results>>
  BY DEF Query
<1>3. PICK new : /\ cands' = [cands EXCEPT ![e] = new]
                 /\ new \in Seq({c \in Flagged : c.uri \in Sourced(source) /\ Grounded(Facts(e), c)})
  BY <1>1, QueryEffect, Zenon
<1>4. cands'[e] = new /\ \A o \in Entity : o # e => cands'[o] = cands[o]
  BY <1>1, <1>3 DEF Shape
<1>5. \A c \in ToSet(new) : Grounded(Facts(e), c)
  <2>1. ToSet(new) \subseteq {c \in Flagged : c.uri \in Sourced(source) /\ Grounded(Facts(e), c)}
    BY <1>3, Elements
  <2>2. QED
    BY <2>1
<1>6. \A o : Facts(o)' = Facts(o)
  BY <1>2, FactsKept
<1>7. AllGrounded'
  <2>1. ASSUME NEW o \in Entity, NEW c \in ToSet(cands'[o]) PROVE Grounded(Facts(o)', c)
    <3>1. CASE o = e
      BY <1>4, <1>5, <1>6, <2>1, <3>1
    <3>2. CASE o # e
      BY <1>4, <1>6, <2>1, <3>2 DEF Identified, AllGrounded
    <3>3. QED
      BY <3>1, <3>2
  <2>2. QED
    BY <2>1 DEF AllGrounded, Grounded, Confirmed
<1>8. \A r \in results' : Vouched(r)'
  BY <1>2, FactsKept DEF Identified
<1>9. QED
  BY <1>2, <1>7, <1>8 DEF Identified

LEMMA IdentifiedWriteOrcid == ASSUME Identified, Text', WriteOrcid PROVE Identified'
<1>1. Shape /\ Shape' /\ AllGrounded /\ "orcid" \in Source
  BY DEF Identified, Text, Source
<1>2. PICK embedded \in BOOLEAN :
        /\ score_and_write_results("orcid", embedded)
        /\ found' = [e \in Entity |-> above(e, embedded)]
        /\ stage' = "wikidata"
  BY Zenon DEF WriteOrcid, get_embeddings_batch
<1>3. /\ stage = "orcid" /\ results' = results \cup scored("orcid", embedded)
      /\ \A e \in Entity : ToSet(cands'[e]) = {}
      /\ literals' = literals
  BY <1>1, <1>2, WriteEffect
<1>4. results = {} /\ \A e \in Entity : found[e] = << >> /\ ToSet(found[e]) = {}
  BY <1>3 DEF Identified, ToSet
<1>5. \A e \in Entity : WithoutOrcid(e) => found'[e] = << >>
  <2> SUFFICES ASSUME NEW e \in Entity, WithoutOrcid(e) PROVE found'[e] = << >>
    OBVIOUS
  <2>1. cands[e] = << >>
    BY <1>1, <1>3 DEF Shape, WithoutOrcid
  <2>2. above(e, embedded) = << >>
    BY <1>1, <1>3, <2>1, AboveType
  <2>3. QED
    BY <1>2, <2>2
<1>6. ASSUME NEW r \in results' PROVE r.source = "orcid" /\ Vouched(r)'
  <2>1. r \in scored("orcid", embedded)
    BY <1>3, <1>4
  <2>2. /\ r \in Scored /\ r.source = "orcid"
        /\ VouchedBy(Facts(r.entity), Facts(r.entity)["orcid"], r)
    BY <1>1, <1>3, <2>1, VouchedNew
  <2> DEFINE e == r.entity
  <2>3. e \in Entity /\ "orcid" \in Predicate
    <3>1. "orcid" \in Predicate
      BY LookupAssumption
    <3>2. QED
      BY <2>2, <3>1 DEF Scored
  <2>4. /\ Facts(e) \in Literals
        /\ ToSet(Facts(e)["orcid"]) = ToSet(literals[e]["orcid"]) \cup ToSet(found[e])
        /\ \A p \in Predicate : p # "orcid" => Facts(e)[p] = literals[e][p]
    BY <1>1, <2>3, FactsType DEF Shape
  <2>5. /\ Facts(e)' \in Literals
        /\ \A p \in Predicate : p # "orcid" => Facts(e)'[p] = literals[e][p]
    <3>1. literals' \in [Entity -> Literals] /\ found' \in [Entity -> Seq(Orcid)]
      BY <1>1 DEF Shape
    <3>2. /\ Facts(e)' \in Literals
          /\ \A p \in Predicate : p # "orcid" => Facts(e)'[p] = literals'[e][p]
      <4>1. literals'[e] \in Literals /\ found'[e] \in Seq(Orcid)
        BY <2>3, <3>1
      <4>2. QED
        BY <4>1, FactsOf DEF Facts
    <3>3. QED
      BY <1>3, <3>2
  <2>6. ToSet(Facts(e)["orcid"]) = ToSet(literals[e]["orcid"])
    BY <1>4, <2>3, <2>4
  <2>7. Facts(e)["orcid"] \in Seq(Value) /\ literals[e]["orcid"] \in Seq(Value)
    <3>1. literals[e] \in Literals
      BY <1>1, <2>3 DEF Shape
    <3>2. QED
      BY <2>3, <2>4, <3>1 DEF Literals
  <2>8. VouchedBy(Facts(e)', literals[e]["orcid"], r)
    <3>1. \A p \in Predicate : p # "orcid" => Facts(e)[p] = Facts(e)'[p]
      BY <2>4, <2>5
    <3>2. QED
      BY <2>2, <2>4, <2>5, <2>6, <2>7, <3>1, VouchedSame
  <2>9. QED
    BY <1>3, <2>2, <2>8 DEF Vouched, VouchedBy, IdentifiersOf
<1>7. QED
  BY <1>2, <1>3, <1>5, <1>6 DEF Identified, AllGrounded

LEMMA IdentifiedWriteWikidata == ASSUME Identified, Text', WriteWikidata PROVE Identified'
<1>1. Shape /\ AllGrounded /\ "wikidata" \in Source
  BY DEF Identified, Text, Source
<1>2. PICK embedded \in BOOLEAN : score_and_write_results("wikidata", embedded)
  BY Zenon DEF WriteWikidata, get_embeddings_batch
<1>3. stage' = "done" /\ found' = found
  BY DEF WriteWikidata
<1>4. /\ stage = "wikidata" /\ results' = results \cup scored("wikidata", embedded)
      /\ \A e \in Entity : ToSet(cands'[e]) = {}
      /\ literals' = literals
  BY <1>1, <1>2, WriteEffect
<1>5. ASSUME NEW r \in results' PROVE Vouched(r)'
  <2>1. CASE r \in results
    BY <1>3, <1>4, <2>1, FactsKept DEF Identified
  <2>2. CASE r \in scored("wikidata", embedded)
    <3>1. /\ r.source = "wikidata"
          /\ VouchedBy(Facts(r.entity), Facts(r.entity)["orcid"], r)
      BY <1>1, <1>4, <2>2, VouchedNew
    <3>2. Vouched(r)
      BY <3>1 DEF Vouched, IdentifiersOf
    <3>3. QED
      BY <1>3, <1>4, <3>2, FactsKept
  <2>3. QED
    BY <1>4, <1>5, <2>1, <2>2
<1>6. QED
  BY <1>3, <1>4, <1>5 DEF Identified, AllGrounded

LEMMA IdentifiedStep == ASSUME Identified, [Next]_vars PROVE Identified'
<1>1. Text'
  BY TextStep DEF Identified
<1>2. CASE UNCHANGED vars
  <2>1. /\ \A e : Facts(e)' = Facts(e)
        /\ \A r : Vouched(r) => Vouched(r)'
    BY <1>2, FactsKept DEF vars
  <2>2. QED
    BY <1>1, <1>2, <2>1 DEF vars, Identified, AllGrounded, Grounded, Confirmed
<1>3. CASE \E e \in Entity : Derive(e)
  BY <1>3, IdentifiedDerive
<1>4. CASE \E e \in Entity, source \in Source : Query(source, e)
  BY <1>1, <1>4, IdentifiedQuery
<1>5. CASE WriteOrcid
  BY <1>1, <1>5, IdentifiedWriteOrcid
<1>6. CASE WriteWikidata
  BY <1>1, <1>6, IdentifiedWriteWikidata
<1>7. QED
  BY <1>2, <1>3, <1>4, <1>5, <1>6, Zenon DEF Next

LEMMA AlwaysIdentified == Spec => []Identified
<1>1. Init => Identified
  BY IdentifiedInit
<1>2. Identified /\ [Next]_vars => Identified'
  BY IdentifiedStep
<1>3. QED
  BY <1>1, <1>2, PTL DEF Spec

LEMMA IdentifiersType ==
  ASSUME Shape, NEW r \in Scored
  PROVE  /\ IdentifiersOf(r) \in Seq(Value) /\ Facts(r.entity)["orcid"] \in Seq(Value)
         /\ ToSet(IdentifiersOf(r)) \subseteq ToSet(Facts(r.entity)["orcid"])
<1>1. r.entity \in Entity
  BY DEF Scored
<1>2. "orcid" \in Predicate
  BY LookupAssumption
<1>3. /\ Facts(r.entity) \in Literals /\ literals[r.entity] \in Literals
      /\ ToSet(Facts(r.entity)["orcid"]) = ToSet(literals[r.entity]["orcid"]) \cup ToSet(found[r.entity])
  BY <1>1, FactsType DEF Shape
<1>4. QED
  BY <1>2, <1>3 DEF IdentifiersOf, Literals

\* Someone without ORCIDs has none.
LEMMA NoneGiven ==
  ASSUME Identified, NEW r \in Scored, WithoutOrcid(r.entity)
  PROVE  IdentifiersOf(r) = << >>
<1>1. r.entity \in Entity
  BY DEF Scored
<1>2. "orcid" \in Predicate /\ Initial \subseteq [Entity -> Literals]
  BY LookupAssumption
<1>3. Shape /\ SameText(literals, known)
  BY DEF Identified, Text
<1>4. literals[r.entity]["orcid"] = << >>
  <2>1. known[r.entity]["orcid"] = << >>
    BY <1>3 DEF Shape, WithoutOrcid
  <2>2. literals[r.entity]["orcid"] = known[r.entity]["orcid"]
    BY <1>1, <1>2, <1>3 DEF SameText, WithoutOrcid
  <2>3. QED
    BY <2>1, <2>2
<1>5. ToSet(Facts(r.entity)["orcid"]) = {}
  <2>1. found[r.entity] = << >>
    BY <1>1 DEF Identified
  <2>2. ToSet(literals[r.entity]["orcid"]) = {} /\ ToSet(found[r.entity]) = {}
    BY <1>4, <2>1 DEF ToSet
  <2>3. QED
    BY <1>1, <1>3, <2>2, FactsType DEF Shape
<1>6. IdentifiersOf(r) \in Seq(Value) /\ ToSet(IdentifiersOf(r)) = {}
  BY <1>3, <1>5, IdentifiersType
<1>7. QED
  BY <1>6, Elements

\* Whichever requests fail, and whatever the searches find: an entity with an
\* ORCID is only matched with a candidate that has it, if the services answer
\* of the ORCID they are asked for and the penalty for an ORCID that leads
\* nowhere takes 100% below the threshold (orcid_client.py:219,
\* wikidata_client.py:459, lookup.py:151).
THEOREM OrcidsNeverContradicted ==
  ASSUME IdentifiersStated, UnresolvedRejected
  PROVE  Spec => []OrcidsAgree
<1>1. Identified => OrcidsAgree
  <2> SUFFICES ASSUME Identified, NEW r \in results, IdentifiersOf(r) # << >>
               PROVE  shared_value(IdentifiersOf(r), CandidateFacts[r.uri]["orcid"])
    BY Zenon DEF OrcidsAgree, IdentifiersOf
  <2> DEFINE cfg == Config[r.source][TypeOf[r.entity]]
  <2>1. r \in Scored /\ VouchedBy(Facts(r.entity), IdentifiersOf(r), r)
    BY DEF Identified, Text, Shape, Vouched
  <2>2. r.source \in Source /\ r.entity \in Entity
    BY <2>1 DEF Scored
  <2>3. cfg # None
    BY <2>1 DEF VouchedBy
  <2>4. ~ WithoutOrcid(r.entity)
    BY <2>1, NoneGiven
  <2>5. cfg.threshold + cfg.unresolved_orcid_penalty > 100
    BY <2>2, <2>3, <2>4 DEF UnresolvedRejected
  <2>6. ConfigOK(cfg)
    BY <2>2, <2>3, LookupAssumption
  <2>7. ~ (cfg.threshold + cfg.unresolved_orcid_penalty <= 100)
    <3> DEFINE least == cfg.threshold
               unresolved == cfg.unresolved_orcid_penalty
    <3>1. least \in 1..100 /\ unresolved \in 0..100
      BY <2>6 DEF ConfigOK
    <3>2. least + unresolved > 100
      BY <2>5
    <3> HIDE DEF least, unresolved
    <3>3. ~ (least + unresolved <= 100)
      BY <3>1, <3>2
    <3>4. QED
      BY <3>3 DEF least, unresolved
  <2>8. Confirmed(IdentifiersOf(r), r.uri)
    BY <2>1, <2>7 DEF VouchedBy
  <2>9. QED
    BY <2>8 DEF Confirmed
<1>2. QED
  BY <1>1, AlwaysIdentified, PTL

\* A confidence that was not lowered is only given to a candidate with an
\* ORCID that the entity has, where the confidence is of values alone and the
\* services answer of the ORCID they are asked for (lookup.py:155).
THEOREM FullScoresAreVerified ==
  ASSUME IdentifiersStated, FuzzyByValues
  PROVE  Spec => []FullScoreHasIdentifier
<1>1. Identified => FullScoreHasIdentifier
  <2> SUFFICES ASSUME Identified, NEW r \in results, full_score(r)
               PROVE  shared_value(Facts(r.entity)["orcid"], CandidateFacts[r.uri]["orcid"])
    BY DEF FullScoreHasIdentifier
  <2> DEFINE cfg == Config[r.source][TypeOf[r.entity]]
             lits == Facts(r.entity)
             others == CandidateFacts[r.uri]
             syn == syntactic_similarity(lits, others, cfg)
  <2>1. r \in Scored /\ VouchedBy(lits, IdentifiersOf(r), r) /\ Shape
    BY DEF Identified, Text, Shape, Vouched
  <2>2. r.source \in Source /\ r.entity \in Entity /\ r.uri \in Candidate /\ r.score \in Nat /\ r.score > 0
    <3>1. r.source \in Source /\ r.entity \in Entity /\ r.uri \in Candidate /\ r.score \in 1..Whole
      BY <2>1, Zenon DEF Scored
    <3>2. QED
      BY <3>1
  <2>3. cfg # None /\ cfg.fuzzy_match_penalty > 0
    BY <2>1 DEF VouchedBy, full_score
  <2>4. cfg.syntactic = 100 /\ ConfigOK(cfg)
    <3>1. cfg.syntactic = 100
      BY <2>2, <2>3 DEF FuzzyByValues
    <3>2. QED
      BY <2>2, <2>3, <3>1, LookupAssumption
  <2>5. PICK embedded \in BOOLEAN : r.score = combined_similarity(lits, others, cfg, embedded)
    BY DEF full_score
  <2>6. lits \in Literals /\ others \in Literals
    <3>1. CandidateFacts \in [Candidate -> Literals]
      BY LookupAssumption
    <3>2. QED
      BY <2>1, <2>2, <3>1, FactsType DEF Shape
  <2> HIDE DEF lits, others, cfg, syn
  <2>7. combined_similarity(lits, others, cfg, embedded) \in {0, 100 * syn}
    BY <2>4, <2>6, CombinedRange DEF syn
  <2>8. r.score = 100 * syn
    BY <2>2, <2>5, <2>7
  <2>9. ~ (r.score < 100 * syn)
    BY <2>2, <2>8
  <2>10. Confirmed(IdentifiersOf(r), r.uri)
    BY <2>1, <2>3, <2>9 DEF VouchedBy, cfg, lits, others, syn
  <2>11. ToSet(IdentifiersOf(r)) \subseteq ToSet(lits["orcid"])
    BY <2>1, IdentifiersType DEF lits
  <2>12. QED
    BY <2>10, <2>11 DEF Confirmed, shared_value, lits
<1>2. QED
  BY <1>1, AlwaysIdentified, PTL
=============================================================================
