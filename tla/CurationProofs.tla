--------------------------- MODULE CurationProofs ---------------------------
(***************************************************************************)
(* Proofs about Curation: for every set of curators, statements and        *)
(* triples, any number of requests in progress and any number of requests  *)
(* that break off.                                                         *)
(***************************************************************************)
EXTENDS Curation, TLAPS

\* The part of the invariant the types rest on.
TypeInv ==
  /\ TypeOK
  /\ \A c \in Curator : RequestOK(req[c])

LEMMA NoneIsNoRecord == None \notin VersionRec /\ None \notin Version
  BY BoundAssumption

LEMMA NotBad == None \notin Bad /\ Unwritable \in Bad /\ \A t \in Triple : t \notin Bad
  BY OriginalAssumption, BoundAssumption DEF Bad

LEMMA WrittenIsRecord ==
  ASSUME TypeOK
  PROVE  \A v \in Written : v \in Version /\ ver[v] \in VersionRec
  BY DEF TypeOK, Written

(***************************************************************************)
(* A load of written versions is a well-typed copy of the store.           *)
(***************************************************************************)
LEMMA LoadType ==
  ASSUME TypeOK, NEW S \in SUBSET Version
  PROVE  Load(S) \in [Version -> VersionRec \cup {None}]
  BY DEF Load, TypeOK

LEMMA InitTypeInv == Init => TypeInv
<1> SUFFICES ASSUME Init PROVE TypeInv
  OBVIOUS
<1>1. \A o \in Original : Extracted(o) \in VersionRec
  BY OriginalAssumption DEF Extracted, VersionRec, Status
<1>2. ver \in [Version -> VersionRec \cup {None}]
  BY <1>1 DEF Init
<1>3. Idle \in Request /\ RequestOK(Idle)
  BY NotBad DEF Idle, Request, RequestOK, NoLoad, Step, Op
<1>4. QED
  BY <1>2, <1>3 DEF Init, TypeInv, TypeOK

(***************************************************************************)
(* Starting a request keeps the types when what it remembers is well       *)
(* typed.                                                                  *)
(***************************************************************************)
LEMMA BeginTypeInv ==
  ASSUME TypeInv, NEW c \in Curator, NEW op \in Op, NEW S \in SUBSET Version,
         NEW into \in Triple \cup Bad \cup {None}, NEW pc \in Step,
         Begin(c, op, Load(S), into, pc),
         RequestOK([pc |-> pc, op |-> op, load |-> Load(S), into |-> into])
  PROVE  TypeInv'
<1> DEFINE r == [pc |-> pc, op |-> op, load |-> Load(S), into |-> into]
<1>1. r \in Request
  BY LoadType DEF Request, TypeInv
<1>2. req' = [req EXCEPT ![c] = r] /\ UNCHANGED <<ver, data, faults, abandoned>>
  BY DEF Begin
<1>3. req' \in [Curator -> Request]
  BY <1>1, <1>2 DEF TypeInv, TypeOK
<1>4. TypeOK'
  BY <1>2, <1>3 DEF TypeInv, TypeOK
<1>5. \A d \in Curator : RequestOK(req'[d])
  BY <1>2 DEF TypeInv, TypeOK
<1>6. QED
  BY <1>2, <1>4, <1>5 DEF TypeInv, Written

LEMMA IdleOK == Idle \in Request /\ RequestOK(Idle)
  BY NotBad DEF Idle, Request, RequestOK, NoLoad, Step, Op

(***************************************************************************)
(* Going back to idle, or to a step whose request is well formed, keeps    *)
(* the part of the types that is about requests.                           *)
(***************************************************************************)
LEMMA MoveOn ==
  ASSUME TypeInv, NEW c \in Curator, NEW r \in Request, RequestOK(r),
         req' = [req EXCEPT ![c] = r]
  PROVE  req' \in [Curator -> Request] /\ \A d \in Curator : RequestOK(req'[d])
  BY DEF TypeInv, TypeOK

(***************************************************************************)
(* The version an operation writes is a version record.                    *)
(***************************************************************************)
LEMMA SuccessorType ==
  ASSUME NEW v \in Version, NEW r \in VersionRec, NEW t \in Triple,
         NEW s \in Status, NEW m \in {"iri", "literal"}
  PROVE  /\ Successor(v, r, t, s, m) \in VersionRec
         /\ Successor(v, r, t, s, m).triple = t
         /\ Successor(v, r, t, s, m).status = s
         /\ Successor(v, r, t, s, m).term = m
         /\ Successor(v, r, t, s, m).root = r.root
         /\ Successor(v, r, t, s, m).current
  BY DEF Successor, VersionRec

LEMMA RetiredType ==
  ASSUME TypeOK, NEW v \in Version
  PROVE  /\ Retired(v) \in VersionRec \cup {None}
         /\ v \in Written => /\ Retired(v) \in VersionRec
                             /\ Retired(v).triple = ver[v].triple
                             /\ Retired(v).status = ver[v].status
                             /\ Retired(v).root = ver[v].root
  BY WrittenIsRecord DEF Retired, VersionRec

-----------------------------------------------------------------------------
(* Types: one lemma per action that writes.                                *)

LEMMA ApplyAcceptTypeInv ==
  ASSUME TypeInv, NEW c \in Curator, ApplyAccept(c)
  PROVE  TypeInv'
<1> USE DEF TypeInv
<1>1. PICK new \in SUBSET Unused : \E from \in [new -> Target(c)] :
        ver' = Accepted(c, from)
  BY DEF ApplyAccept
<1>2. PICK from \in [new -> Target(c)] :
        ver' = Accepted(c, from)
  BY <1>1
<1>3. ASSUME NEW s \in Target(c)
      PROVE  /\ s \in Version /\ req[c].load[s] \in VersionRec
             /\ Successor(s, req[c].load[s], req[c].load[s].triple, "accepted", "iri")
                  \in VersionRec
  <2>1. s \in Version /\ req[c].load[s] \in VersionRec
    BY DEF Target, TypeOK, Request
  <2>2. req[c].load[s].triple \in Triple
    BY <2>1 DEF VersionRec
  <2>3. QED
    BY <2>1, <2>2, SuccessorType DEF Status
<1>4. ASSUME NEW v \in Version
      PROVE  ver'[v] \in VersionRec \cup {None} /\ (v \in Written => ver'[v] \in VersionRec)
  <2>1. CASE v \in new
    <3>1. from[v] \in Target(c)
      BY <2>1
    <3>2. ver'[v] = Successor(from[v], req[c].load[from[v]],
                              req[c].load[from[v]].triple, "accepted", "iri")
      BY <1>2, <2>1 DEF Accepted
    <3>3. QED
      BY <1>3, <3>1, <3>2
  <2>2. CASE v \notin new /\ v \in Target(c)
    BY <1>2, <2>2, RetiredType DEF Accepted
  <2>3. CASE v \notin new /\ v \notin Target(c)
    BY <1>2, <2>3, WrittenIsRecord DEF Accepted, TypeOK
  <2>4. QED
    BY <2>1, <2>2, <2>3
<1>5. ver' \in [Version -> VersionRec \cup {None}]
  BY <1>2, <1>4 DEF Accepted
<1>6. data' \in SUBSET Triple
  BY <1>3 DEF ApplyAccept, TypeOK, VersionRec
<1>7. req' \in [Curator -> Request] /\ \A d \in Curator : RequestOK(req'[d])
  BY IdleOK, MoveOn DEF ApplyAccept
<1>8. QED
  BY <1>5, <1>6, <1>7 DEF ApplyAccept, TypeOK

LEMMA LoadAcceptTypeInv ==
  ASSUME TypeInv, NEW c \in Curator, LoadAccept(c)
  PROVE  TypeInv'
<1>1. PICK S \in SUBSET Written : Begin(c, "accept", Load(S), None, "apply")
  BY DEF LoadAccept
<1>2. QED
  BY <1>1, BeginTypeInv, NotBad DEF Written, Op, Step, RequestOK

LEMMA AfterCheckStep == \A r : AfterCheck(r) \in Step /\ AfterCheck(r) \in {"drop", "retire"}
  BY DEF AfterCheck, Step

LEMMA LoadTypeInv ==
  ASSUME TypeInv, NEW c \in Curator, NEW v \in Version,
         LoadReject(c, v) \/ LoadEdit(c, v) \/ LoadReset(c, v)
  PROVE  TypeInv'
<1>1. CASE LoadReject(c, v)
  <2>1. ver[v].triple \in Triple
    BY <1>1, WrittenIsRecord DEF LoadReject, IsCurrent, VersionRec, TypeInv
  <2>2. RequestOK([pc |-> AfterCheck(ver[v]), op |-> "reject", load |-> Load({v}),
                   into |-> ver[v].triple])
    BY <2>1, NotBad DEF RequestOK, Load
  <2>3. QED
    BY <1>1, <2>1, <2>2, BeginTypeInv, AfterCheckStep DEF LoadReject, Op
<1>2. CASE LoadEdit(c, v)
  <2>1. ver[v].root \in Original
    BY <1>2, WrittenIsRecord DEF LoadEdit, IsCurrent, VersionRec, TypeInv
  <2>2. PICK t \in Edits[ver[v].root] \cup Bad :
          /\ BadEdits \/ ValidEdit(t, ver[v])
          /\ ver[v].status = "accepted" \/ PassesChecks(t, ver[v])
          /\ Begin(c, "edit", Load({v}), t, AfterCheck(ver[v]))
    BY <1>2 DEF LoadEdit
  <2>3. t \in Triple \cup Bad \cup {None}
    BY <2>1, <2>2, OriginalAssumption
  <2>4. RequestOK([pc |-> AfterCheck(ver[v]), op |-> "edit", load |-> Load({v}), into |-> t])
    <3>1. t \in Bad => BadEdits
      BY <2>2, NotBad DEF ValidEdit
    <3>2. AfterCheck(ver[v]) = "retire" => t \in Triple \/ t = Unwritable
      BY <2>1, <2>2, OriginalAssumption DEF AfterCheck, PassesChecks, Bad
    <3>3. t \in Triple \/ t \in Bad
      BY <2>1, <2>2, OriginalAssumption
    <3>4. QED
      BY <3>1, <3>2, <3>3 DEF RequestOK, AfterCheck, Load
  <2>5. QED
    BY <2>2, <2>3, <2>4, BeginTypeInv, AfterCheckStep DEF Op
<1>3. CASE LoadReset(c, v)
  BY <1>3, BeginTypeInv, NotBad DEF LoadReset, Op, Step, RequestOK, Load
<1>4. QED
  BY <1>1, <1>2, <1>3

LEMMA LoadOriginTypeInv ==
  ASSUME TypeInv, NEW c \in Curator, NEW v \in Version, LoadOrigin(c, v)
  PROVE  TypeInv'
<1> DEFINE r == req[c].load[v]
           moved == [req[c] EXCEPT !.into = ver[r.root].triple, !.pc = AfterCheck(r)]
<1>1. /\ r \in VersionRec /\ req[c] \in Request
      /\ RequestOK(req[c]) /\ req[c].pc = "origin"
  BY DEF LoadOrigin, Target, TypeInv, TypeOK, Request
<1>2. r.root \in Written => ver[r.root].triple \in Triple
  BY <1>1, WrittenIsRecord DEF VersionRec, TypeInv
<1>3. r.root \in Written => moved \in Request /\ RequestOK(moved)
  BY <1>1, <1>2, AfterCheckStep, NotBad DEF Request, RequestOK
<1>4. \/ r.root \in Written /\ req' = [req EXCEPT ![c] = moved]
      \/ req' = [req EXCEPT ![c] = Idle]
  BY DEF LoadOrigin
<1> HIDE DEF moved
<1>5. req' \in [Curator -> Request] /\ \A d \in Curator : RequestOK(req'[d])
  BY <1>3, <1>4, IdleOK, MoveOn
<1>6. QED
  BY <1>5 DEF LoadOrigin, TypeInv, TypeOK, Written

LEMMA DropTypeInv ==
  ASSUME TypeInv, NEW c \in Curator, NEW v \in Version, Drop(c, v)
  PROVE  TypeInv'
<1> DEFINE moved == [req[c] EXCEPT !.pc = "retire"]
<1>1. req[c] \in Request /\ RequestOK(req[c]) /\ req[c].pc = "drop"
  BY DEF Drop, TypeInv, TypeOK
<1>2. CASE req[c].op = "edit" /\ ~ PassesChecks(req[c].into, req[c].load[v])
  <2>1. req' = [req EXCEPT ![c] = Idle]
    BY <1>2 DEF Drop
  <2>2. req' \in [Curator -> Request] /\ \A d \in Curator : RequestOK(req'[d])
    BY <2>1, IdleOK, MoveOn
  <2>3. QED
    BY <2>2 DEF Drop, TypeInv, TypeOK, Written
<1>3. CASE ~ (req[c].op = "edit" /\ ~ PassesChecks(req[c].into, req[c].load[v]))
  <2>1. req' = [req EXCEPT ![c] = moved]
    BY <1>3 DEF Drop
  <2>2. req[c].into \in Triple \/ (req[c].op = "edit" /\ req[c].into = Unwritable)
    <3>1. CASE req[c].op = "edit"
      BY <1>1, <1>3, <3>1 DEF PassesChecks, RequestOK, Bad
    <3>2. CASE req[c].op # "edit"
      BY <1>1, <3>2 DEF RequestOK
    <3>3. QED
      BY <3>1, <3>2
  <2>3. moved \in Request /\ RequestOK(moved)
    BY <1>1, <2>2 DEF Request, RequestOK, Step
  <2> HIDE DEF moved
  <2>4. req' \in [Curator -> Request] /\ \A d \in Curator : RequestOK(req'[d])
    BY <2>1, <2>3, MoveOn
  <2>5. QED
    BY <2>4 DEF Drop, TypeInv, TypeOK, Written
<1>4. QED
  BY <1>2, <1>3

\* A request that retires goes on to insert, or it ends because its new
\* version cannot be written.
LEMMA RetireMoves ==
  ASSUME TypeInv, NEW c \in Curator, NEW v \in Version, Retire(c, v)
  PROVE  \E r \in Request :
           /\ RequestOK(r) /\ req' = [req EXCEPT ![c] = r]
           /\ IF Refused(c) THEN r = Idle ELSE r.pc = "insert" /\ r.load = req[c].load
<1> DEFINE moved == [req[c] EXCEPT !.pc = "insert"]
<1>1. req[c] \in Request /\ RequestOK(req[c]) /\ req[c].pc = "retire"
  BY DEF Retire, TypeInv, TypeOK
<1>2. CASE Refused(c)
  BY <1>2, IdleOK DEF Retire
<1>3. CASE ~ Refused(c)
  <2>1. moved \in Request /\ RequestOK(moved) /\ moved.pc = "insert" /\ moved.load = req[c].load
    BY <1>1, <1>3 DEF Request, RequestOK, Step, Refused
  <2>2. req' = [req EXCEPT ![c] = moved]
    BY <1>3 DEF Retire
  <2> HIDE DEF moved
  <2>3. QED
    BY <1>3, <2>1, <2>2
<1>4. QED
  BY <1>2, <1>3

LEMMA RetireTypeInv ==
  ASSUME TypeInv, NEW c \in Curator, NEW v \in Version, Retire(c, v)
  PROVE  TypeInv'
<1>1. req' \in [Curator -> Request] /\ \A d \in Curator : RequestOK(req'[d])
  BY RetireMoves, MoveOn
<1>2. ver' \in [Version -> VersionRec \cup {None}]
  BY RetiredType, NoneIsNoRecord DEF Retire, TypeInv, TypeOK, Written
<1>3. req[c].load[v].root \in Original
  BY DEF Retire, Target, TypeInv, TypeOK, Request, VersionRec
<1>4. abandoned' \in SUBSET Original /\ UNCHANGED <<data, faults>>
  BY <1>3 DEF Retire, TypeInv, TypeOK
<1>5. QED
  BY <1>1, <1>2, <1>4 DEF TypeInv, TypeOK

LEMMA NewVersionType ==
  ASSUME TypeInv, NEW c \in Curator, NEW v \in Target(c), req[c].pc = "insert"
  PROVE  NewVersion(c, v) \in VersionRec
<1> DEFINE r == req[c].load[v]
<1>1. r \in VersionRec /\ req[c].into \in Triple /\ v \in Version
  BY DEF Target, TypeInv, TypeOK, Request, RequestOK
<1>2. r.status \in Status
  BY <1>1 DEF VersionRec
<1> DEFINE s == CASE req[c].op = "reject" -> "rejected"
                  [] req[c].op = "edit"   -> r.status
                  [] OTHER                -> "pending"
           m == IF req[c].op = "edit" THEN "literal" ELSE "iri"
<1>3. s \in Status /\ m \in {"iri", "literal"}
  BY <1>2 DEF Status
<1>4. NewVersion(c, v) = Successor(v, r, req[c].into, s, m)
  BY DEF NewVersion
<1> HIDE DEF r, s, m
<1>5. QED
  BY <1>1, <1>3, <1>4, SuccessorType

LEMMA InsertTypeInv ==
  ASSUME TypeInv, NEW c \in Curator, NEW v \in Version, Insert(c, v)
  PROVE  TypeInv'
<1>1. NewVersion(c, v) \in VersionRec
  BY NewVersionType DEF Insert
<1>2. PICK n \in Unused : ver' = [ver EXCEPT ![n] = NewVersion(c, v)]
  BY DEF Insert
<1>3. ver' \in [Version -> VersionRec \cup {None}]
  BY <1>1, <1>2, NoneIsNoRecord DEF TypeInv, TypeOK, Written, Unused
<1>4. req' \in [Curator -> Request] /\ \A d \in Curator : RequestOK(req'[d])
  BY IdleOK, MoveOn DEF Insert
<1>5. QED
  BY <1>3, <1>4 DEF Insert, TypeInv, TypeOK

LEMMA BreakOffTypeInv ==
  ASSUME TypeInv, NEW c \in Curator, BreakOff(c)
  PROVE  TypeInv'
<1>1. req' \in [Curator -> Request] /\ \A d \in Curator : RequestOK(req'[d])
  BY IdleOK, MoveOn DEF BreakOff
<1>2. QED
  BY <1>1 DEF BreakOff, TypeInv, TypeOK, Written

LEMMA NextTypeInv == TypeInv /\ [Next]_vars => TypeInv'
<1> SUFFICES ASSUME TypeInv, [Next]_vars PROVE TypeInv'
  OBVIOUS
<1>1. CASE UNCHANGED vars
  BY <1>1 DEF vars, TypeInv, TypeOK, Written
<1>2. ASSUME NEW c \in Curator, LoadAccept(c) \/ ApplyAccept(c) \/ BreakOff(c)
      PROVE  TypeInv'
  BY <1>2, LoadAcceptTypeInv, ApplyAcceptTypeInv, BreakOffTypeInv
<1>3. ASSUME NEW c \in Curator, NEW v \in Version,
             LoadReject(c, v) \/ LoadEdit(c, v) \/ LoadReset(c, v) \/ LoadOrigin(c, v)
      PROVE  TypeInv'
  BY <1>3, LoadTypeInv, LoadOriginTypeInv
<1>4. ASSUME NEW c \in Curator, NEW v \in Version,
             Drop(c, v) \/ Retire(c, v) \/ Insert(c, v)
      PROVE  TypeInv'
  BY <1>4, DropTypeInv, RetireTypeInv, InsertTypeInv
<1>5. QED
  BY <1>1, <1>2, <1>3, <1>4 DEF Next

(***************************************************************************)
(* The store, the data graph and the requests in progress keep their       *)
(* types; in particular no version is ever written with a triple that      *)
(* validate_iri refused.                                                   *)
(***************************************************************************)
THEOREM TypeCorrect == Spec => []TypeOK
<1>1. TypeInv => TypeOK
  BY DEF TypeInv
<1>2. QED
  BY <1>1, InitTypeInv, NextTypeInv, PTL DEF Spec

LEMMA AlwaysTypeInv == Spec => []TypeInv
  BY InitTypeInv, NextTypeInv, PTL DEF Spec

-----------------------------------------------------------------------------
(* Materialization. The lemmas are about a set R of originals, and they do *)
(* not need that all the originals are there: Documents composes these     *)
(* steps with others that write originals and take them away, and asks     *)
(* that the witnesses are versions of those that nobody is removing.       *)

Inv == TypeInv /\ LoadedIsWritten

\* Each materialized triple has a version of R that nobody is about to retire.
Witnessed(R) ==
  \A t \in data : \E v \in Version :
    Justifies(v, t) /\ ~ Retiring(v) /\ ver[v].root \in R

HeldFrom(R) == \A c \in Curator : \A v \in Target(c) : req[c].load[v].root \in R

StaysWitnessed(R) == Witnessed(R) /\ HeldFrom(R) => Witnessed(R)'

LEMMA InitInv == Init => Inv
  BY InitTypeInv DEF Inv, Init, LoadedIsWritten, Target, Idle, NoLoad

(***************************************************************************)
(* Versions that stay written with the same triple and status keep every   *)
(* loaded copy true, whichever requests end.                               *)
(***************************************************************************)
Keeps(v) ==
  /\ v \in Written'
  /\ ver'[v].triple = ver[v].triple
  /\ ver'[v].status = ver[v].status
  /\ ver'[v].root = ver[v].root

LEMMA LoadedStays ==
  ASSUME Inv, \A v \in Written : Keeps(v),
         NEW c \in Curator, NEW r \in Request, req' = [req EXCEPT ![c] = r],
         \A v \in Version : r.load[v] # None =>
           /\ v \in Written
           /\ ver[v].triple = r.load[v].triple
           /\ ver[v].status = r.load[v].status
           /\ ver[v].root = r.load[v].root
  PROVE  LoadedIsWritten'
  BY DEF Inv, TypeInv, TypeOK, LoadedIsWritten, Target, Keeps

(***************************************************************************)
(* A witness that survives: the data graph did not gain the triple, the    *)
(* version stays accepted and current, and no request starts to retire it. *)
(***************************************************************************)
LEMMA WitnessStays ==
  ASSUME Inv, NEW R, NEW t \in data,
         NEW v \in Version, Justifies(v, t), ~ Retiring(v), ver[v].root \in R,
         v \in Written', ver'[v] = ver[v],
         NEW c \in Curator, NEW r \in Request, req' = [req EXCEPT ![c] = r],
         ~ (r.pc = "retire" /\ r.load[v] # None)
  PROVE  Justifies(v, t)' /\ ~ Retiring(v)' /\ ver'[v].root \in R
<1>1. Justifies(v, t)'
  BY DEF Justifies, IsCurrent
<1>2. ASSUME NEW d \in Curator, req'[d].pc = "retire", v \in Target(d)'
      PROVE  FALSE
  <2>1. CASE d = c
    BY <1>2, <2>1 DEF Target, Inv, TypeInv, TypeOK
  <2>2. CASE d # c
    BY <1>2, <2>2 DEF Target, Retiring, Inv, TypeInv, TypeOK
  <2>3. QED
    BY <2>1, <2>2
<1>3. QED
  BY <1>1, <1>2 DEF Retiring

(***************************************************************************)
(* A step that only starts or ends requests keeps the invariant when it    *)
(* does not begin to retire an accepted version.                           *)
(***************************************************************************)
LEMMA RequestStep ==
  ASSUME Inv, NEW R, TypeInv', UNCHANGED <<ver, data>>,
         NEW c \in Curator, NEW r \in Request, req' = [req EXCEPT ![c] = r],
         \A v \in Version : r.load[v] # None =>
           /\ v \in Written
           /\ ver[v].triple = r.load[v].triple
           /\ ver[v].status = r.load[v].status
           /\ ver[v].root = r.load[v].root
           /\ r.pc = "retire" => ver[v].status # "accepted"
  PROVE  Inv' /\ StaysWitnessed(R)
<1>1. \A v \in Written : Keeps(v)
  BY DEF Keeps, Written
<1>2. LoadedIsWritten'
  BY <1>1, LoadedStays
<1>3. ASSUME Witnessed(R), HeldFrom(R), NEW t \in data'
      PROVE  \E v \in Version : Justifies(v, t)' /\ ~ Retiring(v)' /\ ver'[v].root \in R
  <2>1. t \in data
    BY <1>3
  <2>2. PICK v \in Version : Justifies(v, t) /\ ~ Retiring(v) /\ ver[v].root \in R
    BY <1>3, <2>1 DEF Witnessed
  <2>3. v \in Written' /\ ver'[v] = ver[v]
    BY <2>2 DEF Justifies, IsCurrent, Written
  <2>4. ~ (r.pc = "retire" /\ r.load[v] # None)
    BY <2>2 DEF Justifies
  <2>5. QED
    BY <2>1, <2>2, <2>3, <2>4, WitnessStays
<1>4. QED
  BY <1>2, <1>3 DEF Inv, StaysWitnessed, Witnessed

LEMMA IdleLoadsNothing == \A v \in Version : Idle.load[v] = None
  BY DEF Idle, NoLoad

LEMMA BreakOffInv ==
  ASSUME Inv, NEW R, NEW c \in Curator, BreakOff(c)
  PROVE  Inv' /\ StaysWitnessed(R)
<1>1. TypeInv'
  BY BreakOffTypeInv DEF Inv
<1>2. QED
  BY <1>1, IdleOK, IdleLoadsNothing, RequestStep DEF BreakOff

(***************************************************************************)
(* A request begins with true copies of current versions; it goes straight *)
(* to retiring only when what it loaded is not accepted.                   *)
(***************************************************************************)
LEMMA BeginInv ==
  ASSUME Inv, NEW R, TypeInv', NEW c \in Curator, NEW op, NEW S \in SUBSET Written,
         NEW into, NEW pc,
         Begin(c, op, Load(S), into, pc),
         pc = "retire" => \A v \in S : ver[v].status # "accepted"
  PROVE  Inv' /\ StaysWitnessed(R)
<1> DEFINE r == [pc |-> pc, op |-> op, load |-> Load(S), into |-> into]
<1>1. req' = [req EXCEPT ![c] = r] /\ UNCHANGED <<ver, data>>
  BY DEF Begin
<1>2. r \in Request
  BY <1>1 DEF TypeInv, TypeOK, Inv
<1>3. \A v \in Version : r.load[v] # None => v \in S /\ r.load[v] = ver[v]
  BY DEF Load
<1>4. r.pc = pc
  OBVIOUS
<1> HIDE DEF r
<1>5. QED
  BY <1>1, <1>2, <1>3, <1>4, RequestStep

LEMMA LoadInv ==
  ASSUME Inv, NEW R, NEW c \in Curator, NEW v \in Version,
         LoadReject(c, v) \/ LoadEdit(c, v) \/ LoadReset(c, v)
  PROVE  Inv' /\ StaysWitnessed(R)
<1>1. TypeInv' /\ {v} \in SUBSET Written
  BY LoadTypeInv DEF Inv, LoadReject, LoadEdit, LoadReset, IsCurrent
<1>2. AfterCheck(ver[v]) = "retire" => \A u \in {v} : ver[u].status # "accepted"
  BY DEF AfterCheck
<1>3. CASE LoadReject(c, v)
  BY <1>1, <1>2, <1>3, BeginInv DEF LoadReject
<1>4. CASE LoadEdit(c, v)
  BY <1>1, <1>2, <1>4, BeginInv DEF LoadEdit
<1>5. CASE LoadReset(c, v)
  BY <1>1, <1>5, BeginInv DEF LoadReset
<1>6. QED
  BY <1>3, <1>4, <1>5

LEMMA LoadAcceptInv ==
  ASSUME Inv, NEW R, NEW c \in Curator, LoadAccept(c)
  PROVE  Inv' /\ StaysWitnessed(R)
<1>1. PICK S \in SUBSET Written : Begin(c, "accept", Load(S), None, "apply")
  BY DEF LoadAccept
<1>2. TypeInv'
  BY LoadAcceptTypeInv DEF Inv
<1>3. QED
  BY <1>1, <1>2, BeginInv

(***************************************************************************)
(* The requests that change one statement hold a single version.           *)
(***************************************************************************)
LEMMA SingleTarget ==
  ASSUME Inv, NEW c \in Curator, NEW v \in Target(c), req[c].pc # "apply",
         NEW w \in Version, req[c].load[w] # None
  PROVE  w = v
  BY DEF Inv, TypeInv, RequestOK, Target

LEMMA LoadOriginInv ==
  ASSUME Inv, NEW R, NEW c \in Curator, NEW v \in Version, LoadOrigin(c, v)
  PROVE  Inv' /\ StaysWitnessed(R)
<1> DEFINE into == ver[req[c].load[v].root].triple
           step == AfterCheck(req[c].load[v])
           moved == [req[c] EXCEPT !.into = into, !.pc = step]
<1>1. TypeInv' /\ TypeInv
  BY LoadOriginTypeInv DEF Inv
<1>2. CASE req' = [req EXCEPT ![c] = Idle]
  <2>1. UNCHANGED <<ver, data>>
    BY DEF LoadOrigin
  <2>2. QED
    BY <1>1, <1>2, <2>1, IdleOK, IdleLoadsNothing, RequestStep
<1>3. CASE req' = [req EXCEPT ![c] = moved]
  <2>1. moved \in Request
    BY <1>1, <1>3 DEF TypeInv, TypeOK
  <2>2. moved.load = req[c].load /\ moved.pc = step
    BY <1>1 DEF TypeInv, TypeOK, Request
  <2>3. ASSUME NEW w \in Version, req[c].load[w] # None
        PROVE  /\ w \in Written
               /\ ver[w].triple = req[c].load[w].triple
               /\ ver[w].status = req[c].load[w].status
               /\ ver[w].root = req[c].load[w].root
               /\ step = "retire" => ver[w].status # "accepted"
    <3>1. w = v
      BY <2>3, SingleTarget DEF LoadOrigin
    <3>2. w \in Written /\ ver[w].triple = req[c].load[w].triple
          /\ ver[w].status = req[c].load[w].status
          /\ ver[w].root = req[c].load[w].root
      BY <2>3 DEF Inv, LoadedIsWritten, Target
    <3>3. QED
      BY <3>1, <3>2 DEF AfterCheck
  <2> HIDE DEF moved, step
  <2>4. UNCHANGED <<ver, data>>
    BY DEF LoadOrigin
  <2>5. QED
    BY <1>1, <1>3, <2>1, <2>2, <2>3, <2>4, RequestStep
<1>4. QED
  BY <1>2, <1>3 DEF LoadOrigin

(***************************************************************************)
(* Taking a triple away: the copy in the request tells which triple the    *)
(* version has, so no version about to be retired is still a witness.      *)
(***************************************************************************)
LEMMA DropInv ==
  ASSUME Inv, NEW R, NEW c \in Curator, NEW v \in Version, Drop(c, v)
  PROVE  Inv' /\ StaysWitnessed(R)
<1> DEFINE moved == [req[c] EXCEPT !.pc = "retire"]
<1>1. TypeInv' /\ TypeInv
  BY DropTypeInv DEF Inv
<1>2. PICK r \in Request :
        /\ req' = [req EXCEPT ![c] = r]
        /\ r.load = req[c].load \/ \A w \in Version : r.load[w] = None
  <2>1. Idle \in Request /\ \A w \in Version : Idle.load[w] = None
    BY IdleOK, IdleLoadsNothing
  <2>2. moved \in Request /\ moved.load = req[c].load
    BY <1>1 DEF TypeInv, TypeOK, Request, Step
  <2>3. req' = [req EXCEPT ![c] = Idle] \/ req' = [req EXCEPT ![c] = moved]
    BY DEF Drop
  <2> HIDE DEF moved
  <2>4. QED
    BY <2>1, <2>2, <2>3
<1>3. ASSUME NEW w \in Version, r.load[w] # None
      PROVE  /\ w = v /\ w \in Written
             /\ ver[w].triple = r.load[w].triple
             /\ ver[w].status = r.load[w].status
             /\ ver[w].root = r.load[w].root
  BY <1>2, <1>3, SingleTarget
  DEF Drop, Inv, LoadedIsWritten, Target
<1>4. LoadedIsWritten'
  <2>1. \A w \in Written : Keeps(w)
    BY DEF Drop, Keeps, Written
  <2>2. \A w \in Version : r.load[w] # None =>
          /\ w \in Written
          /\ ver[w].triple = r.load[w].triple
          /\ ver[w].status = r.load[w].status
          /\ ver[w].root = r.load[w].root
    BY <1>3
  <2>3. req' = [req EXCEPT ![c] = r]
    BY <1>2
  <2>4. QED
    BY <2>1, <2>2, <2>3, LoadedStays
<1>5. ASSUME Witnessed(R), HeldFrom(R), NEW t \in data'
      PROVE  \E w \in Version : Justifies(w, t)' /\ ~ Retiring(w)' /\ ver'[w].root \in R
  <2>1. t \in data /\ t # req[c].load[v].triple
    BY <1>5 DEF Drop
  <2>2. PICK w \in Version : Justifies(w, t) /\ ~ Retiring(w) /\ ver[w].root \in R
    BY <1>5, <2>1 DEF Witnessed
  <2>3. w # v
    BY <2>1, <2>2
    DEF Drop, Justifies, Inv, LoadedIsWritten
  <2>4. w \in Written' /\ ver'[w] = ver[w]
    BY <2>2 DEF Drop, Justifies, IsCurrent, Written
  <2>5. r.load[w] = None
    BY <1>3, <2>3
  <2>6. req' = [req EXCEPT ![c] = r] /\ ~ (r.pc = "retire" /\ r.load[w] # None)
    BY <1>2, <2>5
  <2>7. Justifies(w, t)' /\ ~ Retiring(w)' /\ ver'[w].root \in R
    BY <2>1, <2>2, <2>4, <2>6, WitnessStays
  <2>8. QED
    BY <2>7
<1>6. QED
  BY <1>1, <1>4, <1>5 DEF Inv, StaysWitnessed, Witnessed

LEMMA RetireInv ==
  ASSUME Inv, NEW R, NEW c \in Curator, NEW v \in Version, Retire(c, v)
  PROVE  Inv' /\ StaysWitnessed(R)
<1>1. TypeInv' /\ TypeInv
  BY RetireTypeInv DEF Inv
<1>2. PICK r \in Request : /\ req' = [req EXCEPT ![c] = r] /\ r.pc # "retire"
                           /\ (r.load = req[c].load \/ \A w \in Version : r.load[w] = None)
  BY <1>1, RetireMoves, IdleLoadsNothing DEF Idle
<1>3. req' = [req EXCEPT ![c] = r] /\ data' = data /\ ver' = [ver EXCEPT ![v] = Retired(v)]
  BY <1>2 DEF Retire
<1>4. \A w \in Written : Keeps(w)
  BY <1>1, <1>3, RetiredType, NoneIsNoRecord DEF Keeps, Written, TypeInv, TypeOK
<1>5. LoadedIsWritten'
  <2>1. \A w \in Version : r.load[w] # None =>
          /\ w \in Written
          /\ ver[w].triple = r.load[w].triple
          /\ ver[w].status = r.load[w].status
          /\ ver[w].root = r.load[w].root
    BY <1>2 DEF Inv, LoadedIsWritten, Target
  <2>2. QED
    BY <1>2, <1>3, <1>4, <2>1, LoadedStays
<1>6. ASSUME Witnessed(R), HeldFrom(R), NEW t \in data'
      PROVE  \E w \in Version : Justifies(w, t)' /\ ~ Retiring(w)' /\ ver'[w].root \in R
  <2>1. PICK w \in Version : Justifies(w, t) /\ ~ Retiring(w) /\ ver[w].root \in R
    BY <1>3, <1>6 DEF Witnessed
  <2>2. w # v
    BY <2>1 DEF Retire, Retiring
  <2>3. w \in Written' /\ ver'[w] = ver[w]
    BY <1>3, <2>1, <2>2 DEF Justifies, IsCurrent, Written
  <2>4. ~ (r.pc = "retire" /\ r.load[w] # None)
    BY <1>2
  <2>5. Justifies(w, t)' /\ ~ Retiring(w)' /\ ver'[w].root \in R
    BY <1>3, <2>1, <2>3, <2>4, WitnessStays
  <2>6. QED
    BY <2>5
<1>7. QED
  BY <1>1, <1>5, <1>6 DEF Inv, StaysWitnessed, Witnessed

LEMMA InsertInv ==
  ASSUME Inv, NEW R, NEW c \in Curator, NEW v \in Version, Insert(c, v)
  PROVE  Inv' /\ StaysWitnessed(R)
<1>1. TypeInv' /\ TypeInv
  BY InsertTypeInv DEF Inv
<1>2. PICK n \in Unused : ver' = [ver EXCEPT ![n] = NewVersion(c, v)]
  BY DEF Insert
<1>3. req' = [req EXCEPT ![c] = Idle] /\ data' = data
  BY DEF Insert
<1>4. \A w \in Written : w # n /\ w \in Written' /\ ver'[w] = ver[w]
  BY <1>1, <1>2 DEF Written, Unused, TypeInv, TypeOK
<1>5. \A w \in Written : Keeps(w)
  BY <1>4 DEF Keeps
<1>6. LoadedIsWritten'
  BY <1>3, <1>5, IdleOK, IdleLoadsNothing, LoadedStays
<1>7. ASSUME Witnessed(R), HeldFrom(R), NEW t \in data'
      PROVE  \E w \in Version : Justifies(w, t)' /\ ~ Retiring(w)' /\ ver'[w].root \in R
  <2>1. PICK w \in Version : Justifies(w, t) /\ ~ Retiring(w) /\ ver[w].root \in R
    BY <1>3, <1>7 DEF Witnessed
  <2>2. w \in Written' /\ ver'[w] = ver[w]
    BY <1>4, <2>1 DEF Justifies, IsCurrent
  <2>3. QED
    BY <1>3, <1>7, <2>1, <2>2, IdleOK, IdleLoadsNothing, WitnessStays
<1>8. QED
  BY <1>1, <1>6, <1>7 DEF Inv, StaysWitnessed, Witnessed

(***************************************************************************)
(* Accepting: a version it retires hands its triple to its successor, and  *)
(* the successor is fresh, so no request can be about to retire it.        *)
(***************************************************************************)
LEMMA ApplyAcceptInv ==
  ASSUME Inv, NEW R, NEW c \in Curator, ApplyAccept(c)
  PROVE  Inv' /\ StaysWitnessed(R)
<1> DEFINE child(s) == Successor(s, req[c].load[s], req[c].load[s].triple, "accepted", "iri")
<1>1. TypeInv' /\ TypeInv
  BY ApplyAcceptTypeInv DEF Inv
<1>2. PICK new \in SUBSET Unused : \E from \in [new -> Target(c)] :
        /\ Onto(from, Target(c))
        /\ ver' = Accepted(c, from)
  BY DEF ApplyAccept
<1>3. PICK from \in [new -> Target(c)] :
        /\ Onto(from, Target(c))
        /\ ver' = Accepted(c, from)
  BY <1>2
<1>4. /\ req' = [req EXCEPT ![c] = Idle]
      /\ data' = data \cup {req[c].load[s].triple : s \in Target(c)}
  BY DEF ApplyAccept
<1>5. ASSUME NEW s \in Target(c)
      PROVE  /\ s \in Written
             /\ ver[s].triple = req[c].load[s].triple
             /\ req[c].load[s] \in VersionRec
  BY DEF Inv, LoadedIsWritten, Target, TypeInv, TypeOK, Request
<1>6. ASSUME NEW n \in new
      PROVE  n \in Version /\ from[n] \in Target(c) /\ ver'[n] = child(from[n])
  <2>1. n \in Version /\ from[n] \in Target(c)
    BY DEF Unused
  <2>2. QED
    BY <1>3, <2>1 DEF Accepted
<1>7. ASSUME NEW n \in new, NEW t, t = req[c].load[from[n]].triple
      PROVE  /\ n \in Version /\ Justifies(n, t)' /\ ~ Retiring(n)'
             /\ ver'[n].root = req[c].load[from[n]].root
  <2> DEFINE s == from[n]
  <2>1. child(s) \in VersionRec /\ child(s).triple = t
        /\ child(s).status = "accepted" /\ child(s).term = "iri" /\ child(s).current
    <3>1. t \in Triple /\ s \in Version /\ "accepted" \in Status
      BY <1>5, <1>6, <1>7 DEF VersionRec, Written, Status
    <3>2. req[c].load[s] \in VersionRec
      BY <1>5, <1>6
    <3>3. QED
      BY <1>7, <3>1, <3>2, SuccessorType
  <2>2. n \in Version /\ Justifies(n, t)'
    <3>1. n \in Version /\ ver'[n] = child(s)
      BY <1>6
    <3> HIDE DEF child
    <3>2. QED
      BY <2>1, <3>1, NoneIsNoRecord DEF Justifies, IsCurrent, Written
  <2>3. ASSUME NEW d \in Curator, req'[d].pc = "retire", n \in Target(d)'
        PROVE  FALSE
    <3>1. d # c
      BY <1>1, <1>4, <2>3 DEF Idle, TypeInv, TypeOK
    <3>2. n \in Target(d)
      BY <1>1, <1>4, <2>3, <3>1 DEF Target, TypeInv, TypeOK
    <3>3. QED
      BY <3>2 DEF Inv, LoadedIsWritten, Unused
  <2>4. child(s).root = req[c].load[s].root
    BY DEF Successor
  <2>5. ~ Retiring(n)'
    BY <2>3 DEF Retiring
  <2> HIDE DEF child
  <2>6. QED
    BY <1>6, <2>2, <2>4, <2>5
<1>8. ASSUME NEW w \in Written, w \notin Target(c)
      PROVE  w \in Written' /\ ver'[w] = ver[w]
  BY <1>3, <1>8 DEF Accepted, Written, Unused
<1>9. \A w \in Written : Keeps(w)
  BY <1>1, <1>3, <1>8, RetiredType, NoneIsNoRecord
  DEF Accepted, Keeps, Written, Unused, TypeInv
<1>10. LoadedIsWritten'
  BY <1>4, <1>9, IdleOK, IdleLoadsNothing, LoadedStays
<1>11. ASSUME Witnessed(R), HeldFrom(R), NEW t \in data'
       PROVE  \E w \in Version : Justifies(w, t)' /\ ~ Retiring(w)' /\ ver'[w].root \in R
  <2>1. CASE \E s \in Target(c) : t = req[c].load[s].triple
    <3>1. PICK s \in Target(c) : t = req[c].load[s].triple
      BY <2>1
    <3>2. PICK n \in new : from[n] = s
      BY <1>3, <3>1 DEF Onto
    <3>3. /\ n \in Version /\ Justifies(n, t)' /\ ~ Retiring(n)'
          /\ ver'[n].root = req[c].load[s].root
      BY <1>7, <3>1, <3>2
    <3>4. req[c].load[s].root \in R
      BY <1>11, <3>1 DEF HeldFrom
    <3>5. QED
      BY <3>3, <3>4
  <2>2. CASE t \in data /\ ~ \E s \in Target(c) : t = req[c].load[s].triple
    <3>1. PICK w \in Version : Justifies(w, t) /\ ~ Retiring(w) /\ ver[w].root \in R
      BY <1>11, <2>2 DEF Witnessed
    <3>2. w \in Written' /\ ver'[w] = ver[w]
      BY <1>5, <1>8, <2>2, <3>1 DEF Justifies, IsCurrent
    <3>3. QED
      BY <1>4, <2>2, <3>1, <3>2, IdleOK, IdleLoadsNothing, WitnessStays
  <2>3. QED
    BY <1>4, <1>11, <2>1, <2>2
<1>12. QED
  BY <1>1, <1>10, <1>11 DEF Inv, StaysWitnessed, Witnessed

LEMMA NextInvWitnessed ==
  ASSUME Inv, [Next]_vars, NEW R
  PROVE  Inv' /\ StaysWitnessed(R)
<1>1. CASE UNCHANGED vars
  BY <1>1 DEF vars, Inv, TypeInv, TypeOK, LoadedIsWritten, StaysWitnessed, Witnessed,
              Justifies, IsCurrent, Retiring, Target, Written
<1>2. ASSUME NEW c \in Curator, LoadAccept(c) \/ ApplyAccept(c) \/ BreakOff(c)
      PROVE  Inv' /\ StaysWitnessed(R)
  BY <1>2, LoadAcceptInv, ApplyAcceptInv, BreakOffInv
<1>3. ASSUME NEW c \in Curator, NEW v \in Version,
             LoadReject(c, v) \/ LoadEdit(c, v) \/ LoadReset(c, v) \/ LoadOrigin(c, v)
      PROVE  Inv' /\ StaysWitnessed(R)
  BY <1>3, LoadInv, LoadOriginInv
<1>4. ASSUME NEW c \in Curator, NEW v \in Version,
             Drop(c, v) \/ Retire(c, v) \/ Insert(c, v)
      PROVE  Inv' /\ StaysWitnessed(R)
  BY <1>4, DropInv, RetireInv, InsertInv
<1>5. QED
  BY <1>1, <1>2, <1>3, <1>4 DEF Next

LEMMA NextInv == Inv /\ [Next]_vars => Inv'
  BY NextInvWitnessed

-----------------------------------------------------------------------------
(* Versions are immutable. Only the updates of accept, the retiring and    *)
(* the inserting requests write versions, and they write fresh ids or      *)
(* clear the flag of a version that is there.                              *)

AppendOnly ==
  \A v \in Written :
    /\ ver'[v] # None
    /\ ver'[v] \in {ver[v], [ver[v] EXCEPT !.current = FALSE]}

LEMMA StepAppendsOnly == TypeInv /\ TypeInv' /\ [Next]_vars => AppendOnly
<1> SUFFICES ASSUME TypeInv, TypeInv', [Next]_vars, NEW v \in Written
             PROVE  /\ ver'[v] # None
                    /\ ver'[v] \in {ver[v], [ver[v] EXCEPT !.current = FALSE]}
  BY DEF AppendOnly
<1>1. ver[v] \in VersionRec /\ v \in Version
  BY WrittenIsRecord DEF TypeInv, Written
<1>2. ver[v] # None /\ [ver[v] EXCEPT !.current = FALSE] # None
  <2>1. [ver[v] EXCEPT !.current = FALSE] \in VersionRec
    BY <1>1 DEF VersionRec
  <2>2. QED
    BY <1>1, <2>1, NoneIsNoRecord
<1>3. Retired(v) = [ver[v] EXCEPT !.current = FALSE]
  BY DEF Retired
<1>4. CASE ver' = ver
  BY <1>2, <1>4
<1>5. ASSUME NEW c \in Curator, ApplyAccept(c)
      PROVE  ver'[v] \in {ver[v], [ver[v] EXCEPT !.current = FALSE]}
  <2>1. PICK new \in SUBSET Unused : \E from \in [new -> Target(c)] :
          ver' = Accepted(c, from)
    BY <1>5 DEF ApplyAccept
  <2>2. PICK from \in [new -> Target(c)] : ver' = Accepted(c, from)
    BY <2>1
  <2>3. v \notin new
    BY DEF Unused
  <2>4. QED
    BY <1>1, <1>3, <2>2, <2>3 DEF Accepted
<1>6. ASSUME NEW c \in Curator, NEW w \in Version, Retire(c, w)
      PROVE  ver'[v] \in {ver[v], [ver[v] EXCEPT !.current = FALSE]}
  BY <1>1, <1>3, <1>6 DEF Retire, TypeInv, TypeOK
<1>7. ASSUME NEW c \in Curator, NEW w \in Version, Insert(c, w)
      PROVE  ver'[v] \in {ver[v], [ver[v] EXCEPT !.current = FALSE]}
  BY <1>1, <1>7 DEF Insert, Unused, TypeInv, TypeOK
<1>8. ASSUME NEW c \in Curator, LoadAccept(c) \/ BreakOff(c)
      PROVE  ver' = ver
  BY <1>8 DEF LoadAccept, BreakOff, Begin
<1>9. ASSUME NEW c \in Curator, NEW w \in Version,
             LoadReject(c, w) \/ LoadEdit(c, w) \/ LoadReset(c, w) \/ LoadOrigin(c, w)
             \/ Drop(c, w)
      PROVE  ver' = ver
  BY <1>9 DEF LoadReject, LoadEdit, LoadReset, LoadOrigin, Drop, Begin
<1>10. CASE UNCHANGED vars
  BY <1>4, <1>10 DEF vars
<1>11. QED
  BY <1>2, <1>4, <1>5, <1>6, <1>7, <1>8, <1>9, <1>10 DEF Next

(***************************************************************************)
(* What a step does to what requests hold: it loads true copies of written *)
(* versions, or it holds no more than before.                              *)
(***************************************************************************)
LEMMA HeldSince ==
  ASSUME TypeInv, [Next]_vars, NEW c \in Curator, NEW v \in Version, req'[c].load[v] # None
  PROVE  \/ req[c].load[v] = req'[c].load[v]
         \/ /\ req[c].pc = "idle" /\ req'[c].pc # "idle"
            /\ v \in Written /\ req'[c].load[v] = ver[v]
<1> DEFINE Held == \/ req[c].load[v] = req'[c].load[v]
                   \/ /\ req[c].pc = "idle" /\ req'[c].pc # "idle"
                      /\ v \in Written /\ req'[c].load[v] = ver[v]
<1>1. req[c] \in Request /\ Idle.load[v] = None
  BY IdleLoadsNothing DEF TypeInv, TypeOK
<1>2. ASSUME NEW d \in Curator, NEW S \in SUBSET Written, NEW op, NEW into, NEW pc,
             pc # "idle", Begin(d, op, Load(S), into, pc)
      PROVE  Held
  <2>1. CASE c = d
    BY <1>2, <2>1 DEF Begin, Load, TypeInv, TypeOK
  <2>2. CASE c # d
    BY <1>2, <2>2 DEF Begin, TypeInv, TypeOK
  <2>3. QED
    BY <2>1, <2>2
<1>3. CASE UNCHANGED vars
  BY <1>3 DEF vars
<1>4. ASSUME NEW d \in Curator, LoadAccept(d)
      PROVE  Held
  <2>1. PICK S \in SUBSET Written : Begin(d, "accept", Load(S), None, "apply")
    BY <1>4 DEF LoadAccept
  <2>2. QED
    BY <1>2, <2>1
<1>5. ASSUME NEW d \in Curator, NEW w \in Version,
             LoadReject(d, w) \/ LoadEdit(d, w) \/ LoadReset(d, w)
      PROVE  Held
  <2>1. \E op, into, pc : pc # "idle" /\ Begin(d, op, Load({w}), into, pc)
    BY <1>5 DEF LoadReject, LoadEdit, LoadReset, AfterCheck
  <2>2. {w} \in SUBSET Written
    BY <1>5 DEF LoadReject, LoadEdit, LoadReset, IsCurrent
  <2>3. QED
    BY <1>2, <2>1, <2>2
<1>6. ASSUME NEW d \in Curator, ApplyAccept(d) \/ BreakOff(d) \/ \E w \in Version : Insert(d, w)
      PROVE  Held
  <2>1. req' = [req EXCEPT ![d] = Idle]
    BY <1>6 DEF ApplyAccept, BreakOff, Insert
  <2>2. QED
    BY <1>1, <2>1 DEF TypeInv, TypeOK
<1>7. ASSUME NEW d \in Curator, NEW w \in Version, LoadOrigin(d, w) \/ Drop(d, w) \/ Retire(d, w)
      PROVE  Held
  <2>1. req'[c] = req[c] \/ req'[c] = Idle \/ req'[c].load = req[c].load
    <3>1. CASE LoadOrigin(d, w)
      BY <1>1, <3>1 DEF LoadOrigin, TypeInv, TypeOK, Request
    <3>2. CASE Drop(d, w) \/ Retire(d, w)
      BY <1>1, <3>2 DEF Drop, Retire, TypeInv, TypeOK, Request
    <3>3. QED
      BY <1>7, <3>1, <3>2
  <2>2. QED
    BY <1>1, <2>1
<1>8. QED
  BY <1>3, <1>4, <1>5, <1>6, <1>7 DEF Next

(***************************************************************************)
(* Whatever curators do at the same time, a version that was written is    *)
(* never rewritten and never becomes current again: the provenance of a    *)
(* statement can be trusted.                                               *)
(***************************************************************************)
THEOREM VersionsAreImmutable == Spec => HistoryAppendOnly
<1>1. Inv => TypeInv
  BY DEF Inv
<1>2. Inv /\ Inv' /\ [Next]_vars => [AppendOnly]_vars
  BY <1>1, StepAppendsOnly DEF Inv
<1>3. Spec => [][AppendOnly]_vars
  BY <1>2, InitInv, NextInv, PTL DEF Spec
<1>4. QED
  BY <1>3 DEF HistoryAppendOnly, AppendOnly

-----------------------------------------------------------------------------
(* What was extracted stays, so every loaded version has its original.     *)

MaterialInv == Inv /\ Original \subseteq Written /\ Witnessed(Original)

LEMMA InitMaterialInv == Init => MaterialInv
<1> SUFFICES ASSUME Init PROVE Original \subseteq Written /\ data = {}
  BY InitInv DEF MaterialInv, Witnessed
<1>1. \A o \in Original : Extracted(o) \in VersionRec
  BY OriginalAssumption DEF Extracted, VersionRec, Status
<1>2. QED
  BY <1>1, NoneIsNoRecord, OriginalAssumption DEF Init, Written

LEMMA NextMaterialInv == MaterialInv /\ [Next]_vars => MaterialInv'
<1> SUFFICES ASSUME MaterialInv, [Next]_vars PROVE MaterialInv'
  OBVIOUS
<1>1. Inv /\ Inv' /\ StaysWitnessed(Original)
  BY NextInvWitnessed DEF MaterialInv
<1>2. HeldFrom(Original)
  BY DEF HeldFrom, MaterialInv, Inv, TypeInv, TypeOK, Target, Request, VersionRec
<1>3. AppendOnly
  BY <1>1, StepAppendsOnly DEF Inv
<1>4. (Original \subseteq Written)'
  BY <1>3 DEF AppendOnly, MaterialInv, Written
<1>5. QED
  BY <1>1, <1>2, <1>4 DEF MaterialInv, StaysWitnessed

(***************************************************************************)
(* The data graph is always justified by an accepted current version, and  *)
(* so is what a request has loaded and is about to remove or replace,      *)
(* whatever the others have done since.                                    *)
(***************************************************************************)
THEOREM MaterializationHolds == Spec => []MaterializationInvariant
<1>1. MaterialInv => MaterializationInvariant
  BY DEF MaterialInv, Inv, TypeInv, Witnessed, MaterializationInvariant
<1>2. QED
  BY <1>1, InitMaterialInv, NextMaterialInv, PTL DEF Spec

(***************************************************************************)
(* However the requests of any number of curators interleave and break     *)
(* off, the data graph holds only triples of versions that are accepted    *)
(* and current: what ADR 0005 says is materialized.                        *)
(***************************************************************************)
THEOREM OnlyAcceptedIsMaterialized == Spec => []MaterializedIsAccepted
<1>1. MaterialInv => MaterializedIsAccepted
  BY DEF MaterialInv, Witnessed, MaterializedIsAccepted
<1>2. QED
  BY <1>1, InitMaterialInv, NextMaterialInv, PTL DEF Spec

-----------------------------------------------------------------------------
(* No statement is lost: a step that retires a current version leaves a    *)
(* successor behind, or a request that is about to insert one.             *)

HasCurrent(o) == \E v \in Chain(o) : ver[v].current
Present(o) == HasCurrent(o) \/ \E c \in Curator : Inserting(c, o)

\* The request of another curator who is inserting goes on undisturbed.
LEMMA OthersInsert ==
  ASSUME TypeInv, NEW c \in Curator, NEW r \in Request, req' = [req EXCEPT ![c] = r],
         NEW o \in Original, NEW d \in Curator, d # c, Inserting(d, o)
  PROVE  Inserting(d, o)'
  BY DEF Inserting, Target, TypeInv, TypeOK

(***************************************************************************)
(* A step of a curator who is not inserting and who retires nothing.       *)
(***************************************************************************)
LEMMA StaysPresent ==
  ASSUME TypeInv, NEW c \in Curator, NEW r \in Request, req' = [req EXCEPT ![c] = r],
         req[c].pc # "insert", ver' = ver,
         NEW o \in Original, Present(o)
  PROVE  Present(o)'
<1>1. CASE HasCurrent(o)
  BY <1>1 DEF Present, HasCurrent, Chain, Written
<1>2. CASE \E d \in Curator : Inserting(d, o)
  <2>1. PICK d \in Curator : Inserting(d, o)
    BY <1>2
  <2>2. d # c
    BY <2>1 DEF Inserting
  <2>3. QED
    BY <2>1, <2>2, OthersInsert DEF Present
<1>3. QED
  BY <1>1, <1>2 DEF Present

LEMMA ApplyAcceptPresent ==
  ASSUME Inv, Inv', NEW c \in Curator, ApplyAccept(c), NEW o \in Original, Present(o)
  PROVE  Present(o)'
<1>1. TypeInv /\ req' = [req EXCEPT ![c] = Idle] /\ req[c].pc = "apply"
  BY DEF ApplyAccept, Inv
<1>2. CASE \E d \in Curator : Inserting(d, o)
  <2>1. PICK d \in Curator : Inserting(d, o)
    BY <1>2
  <2>2. d # c
    BY <1>1, <2>1 DEF Inserting
  <2>3. QED
    BY <1>1, <2>1, <2>2, IdleOK, OthersInsert DEF Present
<1>3. CASE HasCurrent(o)
  <2>1. PICK v \in Chain(o) : ver[v].current
    BY <1>3 DEF HasCurrent
  <2>2. v \in Written /\ v \in Version /\ ver[v].root = o
    BY <2>1 DEF Chain, Written
  <2>3. PICK new \in SUBSET Unused : \E from \in [new -> Target(c)] :
          Onto(from, Target(c)) /\ ver' = Accepted(c, from)
    BY DEF ApplyAccept
  <2>4. PICK from \in [new -> Target(c)] :
          Onto(from, Target(c)) /\ ver' = Accepted(c, from)
    BY <2>3
  <2>5. CASE v \in Target(c)
    <3>1. PICK n \in new : from[n] = v
      BY <2>4, <2>5 DEF Onto
    <3>2. n \in Version
      BY DEF Unused
    <3>3. ver'[n] = Successor(v, req[c].load[v], req[c].load[v].triple, "accepted", "iri")
      BY <2>4, <3>1, <3>2 DEF Accepted
    <3>4. req[c].load[v].root = o
      BY <2>2, <2>5 DEF Inv, LoadedIsWritten
    <3>5. ver'[n].root = o /\ ver'[n].current
      BY <3>3, <3>4 DEF Successor
    <3>6. ver'[n] \in VersionRec
      <4>1. req[c].load[v] \in VersionRec
        BY <1>1, <2>5 DEF Target, TypeInv, TypeOK, Request
      <4>2. QED
        BY <2>2, <3>3, <4>1, SuccessorType DEF VersionRec, Status
    <3>7. QED
      BY <3>2, <3>5, <3>6, NoneIsNoRecord DEF Present, HasCurrent, Chain, Written
  <2>6. CASE v \notin Target(c)
    <3>1. v \notin new
      BY <2>2 DEF Unused
    <3>2. ver'[v] = ver[v]
      BY <2>2, <2>4, <2>6, <3>1 DEF Accepted
    <3>3. QED
      BY <2>1, <2>2, <3>2 DEF Present, HasCurrent, Chain, Written
  <2>7. QED
    BY <2>5, <2>6
<1>4. QED
  BY <1>2, <1>3 DEF Present

(***************************************************************************)
(* Unless the request cannot write the new version, and abandons it.       *)
(***************************************************************************)
LEMMA RetirePresent ==
  ASSUME Inv, Inv', NEW c \in Curator, NEW v \in Version, Retire(c, v),
         NEW o \in Original, o \notin abandoned', Present(o)
  PROVE  Present(o)'
<1>1. TypeInv /\ req[c].pc = "retire" /\ v \in Target(c)
  BY DEF Retire, Inv
<1>2. PICK r \in Request :
        /\ req' = [req EXCEPT ![c] = r]
        /\ IF Refused(c) THEN r = Idle ELSE r.pc = "insert" /\ r.load = req[c].load
  BY <1>1, RetireMoves
<1>3. CASE \E d \in Curator : Inserting(d, o)
  <2>1. PICK d \in Curator : Inserting(d, o)
    BY <1>3
  <2>2. d # c
    BY <1>1, <2>1 DEF Inserting
  <2>3. QED
    BY <1>1, <1>2, <2>1, <2>2, OthersInsert DEF Present
<1>4. CASE HasCurrent(o)
  <2>1. PICK w \in Chain(o) : ver[w].current
    BY <1>4 DEF HasCurrent
  <2>2. CASE w = v
    <3>1. req[c].load[v].root = o
      BY <1>1, <2>1, <2>2 DEF Chain, Inv, LoadedIsWritten
    <3>2. ~ Refused(c)
      BY <3>1 DEF Retire
    <3>3. req'[c] = r /\ r.pc = "insert" /\ r.load = req[c].load
      BY <1>1, <1>2, <3>2 DEF TypeInv, TypeOK
    <3>4. Inserting(c, o)'
      BY <1>1, <3>1, <3>3 DEF Inserting, Target
    <3>5. QED
      BY <3>4 DEF Present
  <2>3. CASE w # v
    <3>1. ver'[w] = ver[w]
      BY <1>1, <2>1, <2>3 DEF Retire, Chain, Written, TypeInv, TypeOK
    <3>2. QED
      BY <2>1, <3>1 DEF Present, HasCurrent, Chain, Written
  <2>4. QED
    BY <2>2, <2>3
<1>5. QED
  BY <1>3, <1>4 DEF Present

(***************************************************************************)
(* A request that breaks off while it inserts abandons what it works on.   *)
(***************************************************************************)
LEMMA BreakOffPresent ==
  ASSUME Inv, NEW c \in Curator, BreakOff(c),
         NEW o \in Original, o \notin abandoned', Present(o)
  PROVE  Present(o)'
<1>1. TypeInv /\ req' = [req EXCEPT ![c] = Idle] /\ ver' = ver
  BY DEF BreakOff, Inv
<1>2. CASE HasCurrent(o)
  BY <1>1, <1>2 DEF Present, HasCurrent, Chain, Written
<1>3. CASE \E d \in Curator : Inserting(d, o)
  <2>1. PICK d \in Curator : Inserting(d, o)
    BY <1>3
  <2>2. d # c
    BY <2>1 DEF BreakOff
  <2>3. QED
    BY <1>1, <2>1, <2>2, IdleOK, OthersInsert DEF Present
<1>4. QED
  BY <1>2, <1>3 DEF Present

LEMMA InsertPresent ==
  ASSUME Inv, Inv', NEW c \in Curator, NEW v \in Version, Insert(c, v),
         NEW o \in Original, Present(o)
  PROVE  Present(o)'
<1>1. TypeInv /\ req' = [req EXCEPT ![c] = Idle] /\ req[c].pc = "insert" /\ v \in Target(c)
  BY DEF Insert, Inv
<1>2. PICK n \in Unused : ver' = [ver EXCEPT ![n] = NewVersion(c, v)]
  BY DEF Insert
<1>3. n \in Version /\ ver'[n] = NewVersion(c, v)
  BY <1>1, <1>2 DEF Unused, TypeInv, TypeOK
<1>4. CASE \E d \in Curator : d # c /\ Inserting(d, o)
  BY <1>1, <1>4, IdleOK, OthersInsert DEF Present
<1>5. CASE Inserting(c, o)
  <2>1. PICK w \in Target(c) : req[c].load[w].root = o
    BY <1>5 DEF Inserting
  <2>2. w = v
    BY <1>1, <2>1, SingleTarget DEF Target
  <2>3. ver'[n].root = o /\ ver'[n].current
    BY <1>3, <2>1, <2>2 DEF NewVersion, Successor
  <2>4. ver'[n] # None
    BY <1>1, <1>3, NewVersionType, NoneIsNoRecord
  <2>5. QED
    BY <1>3, <2>3, <2>4 DEF Present, HasCurrent, Chain, Written
<1>6. CASE HasCurrent(o)
  <2>1. PICK w \in Chain(o) : ver[w].current
    BY <1>6 DEF HasCurrent
  <2>2. w # n /\ w \in Version
    BY <1>2, <2>1 DEF Chain, Unused, Written
  <2>3. ver'[w] = ver[w]
    BY <1>2, <2>2
  <2>4. QED
    BY <2>1, <2>2, <2>3 DEF Present, HasCurrent, Chain, Written
<1>7. QED
  BY <1>4, <1>5, <1>6 DEF Present

(***************************************************************************)
(* The other steps write no version, and their curator is not inserting.   *)
(***************************************************************************)
LEMMA QuietStepPresent ==
  ASSUME Inv, Inv', NEW c \in Curator, NEW o \in Original, Present(o),
         \/ LoadAccept(c)
         \/ \E v \in Version : \/ LoadReject(c, v) \/ LoadEdit(c, v) \/ LoadReset(c, v)
                               \/ LoadOrigin(c, v) \/ Drop(c, v)
  PROVE  Present(o)'
<1>1. TypeInv /\ req' \in [Curator -> Request]
  BY DEF Inv, TypeInv, TypeOK
<1>2. req[c].pc # "insert" /\ ver' = ver /\ \E r : req' = [req EXCEPT ![c] = r]
  BY DEF LoadAccept, LoadReject, LoadEdit, LoadReset, LoadOrigin, Drop, Begin
<1>3. PICK r : req' = [req EXCEPT ![c] = r]
  BY <1>2
<1>4. r \in Request
  BY <1>1, <1>3 DEF TypeInv, TypeOK
<1>5. QED
  BY <1>1, <1>2, <1>3, <1>4, StaysPresent

\* What is abandoned stays so.
LEMMA AbandonedStays == [Next]_vars => abandoned \subseteq abandoned'
  BY DEF Next, vars, LoadAccept, ApplyAccept, BreakOff, LoadReject, LoadEdit, LoadReset,
         LoadOrigin, Drop, Retire, Insert, Begin

(***************************************************************************)
(* Any step, for a statement it does not abandon; the original need not be *)
(* there.                                                                  *)
(***************************************************************************)
LEMMA NextPresent ==
  ASSUME Inv, Inv', [Next]_vars, NEW o \in Original, o \notin abandoned', Present(o)
  PROVE  Present(o)'
<1>1. CASE UNCHANGED vars
  BY <1>1 DEF vars, Present, HasCurrent, Chain, Written, Inserting, Target
<1>2. CASE Next
  <2>1. PICK c \in Curator :
          \/ LoadAccept(c) \/ ApplyAccept(c) \/ BreakOff(c)
          \/ \E v \in Version : \/ LoadReject(c, v) \/ LoadEdit(c, v) \/ LoadReset(c, v)
                                \/ LoadOrigin(c, v) \/ Drop(c, v)
                                \/ Retire(c, v) \/ Insert(c, v)
    BY <1>2 DEF Next
  <2>2. CASE BreakOff(c)
    BY <2>2, BreakOffPresent
  <2>3. CASE ApplyAccept(c)
    BY <2>3, ApplyAcceptPresent
  <2>4. CASE \E v \in Version : Retire(c, v)
    BY <2>4, RetirePresent
  <2>5. CASE \E v \in Version : Insert(c, v)
    BY <2>5, InsertPresent
  <2>6. CASE \/ LoadAccept(c)
             \/ \E v \in Version : \/ LoadReject(c, v) \/ LoadEdit(c, v) \/ LoadReset(c, v)
                                   \/ LoadOrigin(c, v) \/ Drop(c, v)
    BY <2>6, QuietStepPresent
  <2>7. QED
    BY <2>1, <2>2, <2>3, <2>4, <2>5, <2>6
<1>3. QED
  BY <1>1, <1>2

LEMMA NextNoStatementLost ==
  ASSUME Inv, Inv', [Next]_vars, NoStatementLost
  PROVE  NoStatementLost'
<1>1. ASSUME NEW o \in Original, o \notin abandoned'
      PROVE  Present(o)'
  <2>1. o \notin abandoned
    BY <1>1, AbandonedStays
  <2>2. Present(o)
    BY <2>1 DEF NoStatementLost, Present, HasCurrent
  <2>3. QED
    BY <1>1, <2>2, NextPresent
<1>2. QED
  BY <1>1 DEF NoStatementLost, Present, HasCurrent

(***************************************************************************)
(* However many curators work on a statement and wherever requests break   *)
(* off, it keeps a current version or a request that is about to insert    *)
(* one. The exceptions are those it names: the statement of a request that *)
(* broke off between retiring and inserting, and of an edit whose IRI is   *)
(* refused there.                                                          *)
(***************************************************************************)
THEOREM NothingIsLost == Spec => []NoStatementLost
<1>1. Init => NoStatementLost
  <2> SUFFICES ASSUME Init, NEW o \in Original PROVE HasCurrent(o)
    BY DEF NoStatementLost, HasCurrent
  <2>1. o \in Written
    BY InitMaterialInv DEF MaterialInv
  <2>2. ver[o] = Extracted(o) /\ o \in Version
    BY OriginalAssumption DEF Init
  <2>3. QED
    BY <2>1, <2>2 DEF Extracted, HasCurrent, Chain
<1>2. Inv /\ Inv' /\ [Next]_vars /\ NoStatementLost => NoStatementLost'
  BY NextNoStatementLost
<1>3. QED
  BY <1>1, <1>2, InitInv, NextInv, PTL DEF Spec

=============================================================================
