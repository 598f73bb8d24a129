-------------------------- MODULE DocumentsProofs --------------------------
(***************************************************************************)
(* Proofs about Documents: for every set of documents, runs, curators and  *)
(* statements. The steps of the curators are those of Curation, and what   *)
(* CurationProofs and CurationHistoryProofs say of a step is used here; no *)
(* original need be there from the start.                                  *)
(***************************************************************************)
EXTENDS Documents, TLAPS

P == INSTANCE CurationHistoryProofs

-----------------------------------------------------------------------------
(* The two instances of Curation, C of the model and P of the proofs.      *)

LEMMA Assumed == P!OriginalAssumption /\ P!BoundAssumption
  BY CurationAssumption
  DEF C!OriginalAssumption, C!BoundAssumption, C!VersionRec, C!Status,
      P!OriginalAssumption, P!BoundAssumption, P!VersionRec, P!Status

LEMMA SameState ==
  /\ Written = P!Written
  /\ C!Idle = P!Idle
  /\ \A c : C!Target(c) = P!Target(c)
  /\ \A v : C!Extracted(v) = P!Extracted(v)
  BY DEF Written, C!Written, C!Idle, C!NoLoad, C!Target, C!Extracted,
         P!Written, P!Idle, P!NoLoad, P!Target, P!Extracted

LEMMA SameTypes == C!TypeOK <=> P!TypeOK
  BY DEF C!TypeOK, C!VersionRec, C!Status, C!Request, C!Step, C!Op, C!Bad,
         P!TypeOK, P!VersionRec, P!Status, P!Request, P!Step, P!Op, P!Bad

LEMMA SameMaterialized == C!MaterializedIsAccepted <=> P!MaterializedIsAccepted
  BY DEF C!MaterializedIsAccepted, C!Justifies, C!IsCurrent, C!Written,
         P!MaterializedIsAccepted, P!Justifies, P!IsCurrent, P!Written

LEMMA SameAccept ==
  \A c \in Curator : /\ C!LoadAccept(c) => P!LoadAccept(c)
                     /\ C!ApplyAccept(c) => P!ApplyAccept(c)
                     /\ C!BreakOff(c) => P!BreakOff(c)
<1> SUFFICES ASSUME NEW c \in Curator
             PROVE  /\ C!LoadAccept(c) => P!LoadAccept(c)
                    /\ C!ApplyAccept(c) => P!ApplyAccept(c)
                    /\ C!BreakOff(c) => P!BreakOff(c)
  OBVIOUS
<1>1. C!LoadAccept(c) => P!LoadAccept(c)
  BY DEF C!LoadAccept, C!Begin, C!Load, C!Written, C!Cardinality, C!IsFiniteSet,
         P!LoadAccept, P!Begin, P!Load, P!Written, P!Cardinality, P!IsFiniteSet
<1>2. C!ApplyAccept(c) => P!ApplyAccept(c)
  BY DEF C!ApplyAccept, C!Accepted, C!Successor, C!Retired, C!Target, C!Unused, C!Written,
         C!Onto, C!Injective, C!Idle, C!NoLoad,
         P!ApplyAccept, P!Accepted, P!Successor, P!Retired, P!Target, P!Unused, P!Written,
         P!Onto, P!Injective, P!Idle, P!NoLoad
<1>3. C!BreakOff(c) => P!BreakOff(c)
  BY DEF C!BreakOff, C!Inserting, C!Target, C!Idle, C!NoLoad,
         P!BreakOff, P!Inserting, P!Target, P!Idle, P!NoLoad
<1>4. QED
  BY <1>1, <1>2, <1>3

LEMMA SameLoads ==
  \A c \in Curator, v \in Version : /\ C!LoadReject(c, v) => P!LoadReject(c, v)
                                    /\ C!LoadEdit(c, v) => P!LoadEdit(c, v)
                                    /\ C!LoadReset(c, v) => P!LoadReset(c, v)
  BY DEF C!LoadReject, C!LoadEdit, C!LoadReset, C!Begin, C!Load, C!IsCurrent, C!Written,
         C!AfterCheck, C!ValidEdit, C!PassesChecks, C!Bad,
         P!LoadReject, P!LoadEdit, P!LoadReset, P!Begin, P!Load, P!IsCurrent, P!Written,
         P!AfterCheck, P!ValidEdit, P!PassesChecks, P!Bad

LEMMA SameRequests ==
  \A c \in Curator, v \in Version : /\ C!LoadOrigin(c, v) => P!LoadOrigin(c, v)
                                    /\ C!Drop(c, v) => P!Drop(c, v)
                                    /\ C!Retire(c, v) => P!Retire(c, v)
                                    /\ C!Insert(c, v) => P!Insert(c, v)
<1> SUFFICES ASSUME NEW c \in Curator, NEW v \in Version
             PROVE  /\ C!LoadOrigin(c, v) => P!LoadOrigin(c, v)
                    /\ C!Drop(c, v) => P!Drop(c, v)
                    /\ C!Retire(c, v) => P!Retire(c, v)
                    /\ C!Insert(c, v) => P!Insert(c, v)
  OBVIOUS
<1>1. C!LoadOrigin(c, v) => P!LoadOrigin(c, v)
  BY DEF C!LoadOrigin, C!Target, C!Written, C!AfterCheck, C!Idle, C!NoLoad,
         P!LoadOrigin, P!Target, P!Written, P!AfterCheck, P!Idle, P!NoLoad
<1>2. C!Drop(c, v) => P!Drop(c, v)
  BY DEF C!Drop, C!Target, C!PassesChecks, C!Idle, C!NoLoad,
         P!Drop, P!Target, P!PassesChecks, P!Idle, P!NoLoad
<1>3. C!Retire(c, v) => P!Retire(c, v)
  BY DEF C!Retire, C!Target, C!Retired, C!Written, C!Refused, C!Idle, C!NoLoad,
         P!Retire, P!Target, P!Retired, P!Written, P!Refused, P!Idle, P!NoLoad
<1>4. C!Insert(c, v) => P!Insert(c, v)
  BY DEF C!Insert, C!Target, C!Unused, C!Written, C!NewVersion, C!Successor, C!Idle, C!NoLoad,
         P!Insert, P!Target, P!Unused, P!Written, P!NewVersion, P!Successor, P!Idle, P!NoLoad
<1>5. QED
  BY <1>1, <1>2, <1>3, <1>4

LEMMA SameNext == C!Next => P!Next
<1> SUFFICES ASSUME C!Next PROVE P!Next
  OBVIOUS
<1>1. PICK c \in Curator :
        \/ C!LoadAccept(c) \/ C!ApplyAccept(c) \/ C!BreakOff(c)
        \/ \E v \in Version :
             \/ C!LoadReject(c, v) \/ C!LoadEdit(c, v) \/ C!LoadReset(c, v)
             \/ C!LoadOrigin(c, v) \/ C!Drop(c, v) \/ C!Retire(c, v) \/ C!Insert(c, v)
  BY DEF C!Next
<1>2. QED
  BY <1>1, SameAccept, SameLoads, SameRequests DEF P!Next

-----------------------------------------------------------------------------
(* Types.                                                                  *)

\* The types, and the types of the requests in P.
TypeInv == TypeOK /\ P!TypeInv

LEMMA TypesOfP == TypeInv => P!TypeOK
  BY DEF TypeInv, P!TypeInv

LEMMA ExtractedType ==
  \A o \in Original : /\ o \in Version
                      /\ C!Extracted(o) \in P!VersionRec
                      /\ C!Extracted(o) # None
<1>1. None \notin P!VersionRec
  BY Assumed DEF P!BoundAssumption
<1>2. \A o \in Original : P!Extracted(o) \in P!VersionRec
  BY Assumed DEF P!OriginalAssumption, P!Extracted, P!VersionRec, P!Status
<1>3. Original \subseteq Version
  BY Assumed DEF P!OriginalAssumption
<1>4. QED
  BY <1>1, <1>2, <1>3, SameState

LEMMA InitTypeInv == Init => TypeInv
<1> SUFFICES ASSUME Init PROVE TypeInv
  OBVIOUS
<1>1. ver \in [Version -> P!VersionRec \cup {None}]
  BY DEF Init
<1>2. P!Idle \in P!Request /\ P!RequestOK(P!Idle)
  BY Assumed, P!IdleOK
<1>3. P!TypeInv
  BY <1>1, <1>2, SameState DEF Init, P!TypeInv, P!TypeOK
<1>4. QED
  BY <1>3, SameTypes
  DEF Init, TypeInv, TypeOK, P!TypeInv, Row, JobStep, RunStep, NoRemoval

\* A step that writes originals or takes versions away keeps the types of Curation.
LEMMA VersionsKeepType ==
  ASSUME TypeInv, UNCHANGED <<req, faults, abandoned>>, data' \in SUBSET data,
         NEW S, ver' = [v \in Version |-> IF v \in S THEN C!Extracted(v) ELSE ver[v]],
         S \subseteq Original
  PROVE  P!TypeInv'
<1>1. ver' \in [Version -> P!VersionRec \cup {None}]
  BY ExtractedType DEF TypeInv, P!TypeInv, P!TypeOK
<1>2. QED
  BY <1>1 DEF TypeInv, P!TypeInv, P!TypeOK

LEMMA RemovingKeepsType ==
  ASSUME TypeInv, UNCHANGED <<req, faults, abandoned>>, data' \in SUBSET data,
         NEW S, ver' = [v \in Version |-> IF v \in S THEN None ELSE ver[v]]
  PROVE  P!TypeInv'
  BY DEF TypeInv, P!TypeInv, P!TypeOK

LEMMA GraphsKept ==
  ASSUME TypeInv, UNCHANGED <<ver, req, faults, abandoned>>, data' \in SUBSET data PROVE P!TypeInv'
  BY DEF TypeInv, P!TypeInv, P!TypeOK

\* The rest of the state.
RestOK ==
  /\ entity \in SUBSET Doc
  /\ spent \in SUBSET Version
  /\ row \in [Doc -> Row]
  /\ job \in [Doc -> JobStep]
  /\ batch \in [Run -> SUBSET Doc]
  /\ run \in [Run -> RunStep]
  /\ files \in SUBSET Doc
  /\ plan \in [Run -> SUBSET Original]
  /\ breaks \in Nat
  /\ removal \in [Doc -> {NoRemoval} \cup [pc : RemovalStep, why : {"delete", "retry"}]]

LEMMA TypeSplit == TypeInv <=> P!TypeInv /\ RestOK
  BY SameTypes DEF TypeInv, TypeOK, RestOK, P!TypeInv

LEMMA CurateTypeInv ==
  ASSUME TypeInv, Curate PROVE TypeInv'
<1>1. P!TypeInv'
  BY Assumed, SameNext, P!NextTypeInv DEF Curate, TypeInv
<1>2. RestOK'
  BY TypeSplit DEF Curate, RestOK, runVars
<1>3. QED
  BY <1>1, <1>2, TypeSplit, PTL

LEMMA UploadTypeInv ==
  ASSUME TypeInv, NEW r \in Run,
         BeginUpload(r) \/ Enqueue(r) \/ BreakUpload(r) \/ \E d \in Doc : CreateRow(r, d)
  PROVE  TypeInv'
<1> USE DEF Row, JobStep, RunStep
<1>1. RestOK
  BY TypeSplit
<1>2. P!TypeInv'
  BY GraphsKept DEF BeginUpload, Enqueue, BreakUpload, CreateRow, graphVars
<1>3. RestOK'
  <2>1. CASE BeginUpload(r)
    <3>1. PICK B \in Uploads[r] : batch' = [batch EXCEPT ![r] = B]
      BY <2>1 DEF BeginUpload
    <3>2. batch' \in [Run -> SUBSET Doc]
      BY <1>1, <3>1, DocumentsAssumption DEF RestOK
    <3>3. QED
      BY <1>1, <2>1, <3>2 DEF BeginUpload, RestOK, graphVars
  <2>2. CASE Enqueue(r)
    BY <1>1, <2>2 DEF Enqueue, RestOK, graphVars
  <2>3. CASE BreakUpload(r)
    BY <1>1, <2>3 DEF BreakUpload, RestOK, graphVars
  <2>4. CASE \E d \in Doc : CreateRow(r, d)
    BY <1>1, <2>4 DEF CreateRow, RestOK, graphVars
  <2>5. QED
    BY <2>1, <2>2, <2>3, <2>4
<1>4. QED
  BY <1>2, <1>3, TypeSplit, PTL

LEMMA JobTypeInv ==
  ASSUME TypeInv, NEW d \in Doc, JobNext(d)
  PROVE  TypeInv'
<1> USE DEF JobStep
<1>1. RestOK
  BY TypeSplit
<1>2. P!TypeInv'
  <2>1. CASE Extract(d)
    <3>1. {o \in Of("extraction") : Source[o] = {d}} \subseteq Original
      BY DEF Of
    <3>2. UNCHANGED <<req, faults, abandoned>> /\ data' \in SUBSET data
      BY <2>1 DEF Extract, Put, JobGoes
    <3>3. QED
      BY <2>1, <3>1, <3>2, VersionsKeepType DEF Extract, Put
  <2>2. CASE Fetch(d) \/ File(d) \/ FailJob(d)
    BY <2>2, GraphsKept DEF Fetch, File, FailJob, JobGoes, graphVars
  <2>3. QED
    BY <2>1, <2>2 DEF JobNext
<1>3. RestOK'
  <2>1. CASE Fetch(d)
    BY <1>1, <2>1 DEF Fetch, JobGoes, RestOK, graphVars
  <2>2. CASE Extract(d)
    BY <1>1, <2>2 DEF Extract, Put, JobGoes, RestOK
  <2>3. CASE File(d) \/ FailJob(d)
    BY <1>1, <2>3 DEF File, FailJob, JobGoes, RestOK, graphVars
  <2>4. QED
    BY <2>1, <2>2, <2>3 DEF JobNext
<1>4. QED
  BY <1>2, <1>3, TypeSplit, PTL

TailNext(r) ==
  ListAlign(r) \/ WriteAlign(r) \/ ListLookup(r) \/ WriteLookup(r) \/ FailTail(r)

LEMMA TailTypeInv ==
  ASSUME TypeInv, NEW r \in Run, TailNext(r)
  PROVE  TypeInv'
<1> USE DEF JobStep, RunStep
<1>1. RestOK /\ plan[r] \in SUBSET Original
  BY TypeSplit DEF RestOK
<1>2. P!TypeInv'
  <2>1. CASE WriteAlign(r)
    <3>1. PICK o \in plan[r] : Put({o}) /\ RunGoes(r, "align", plan[r] \ {o})
      BY <2>1 DEF WriteAlign
    <3>2. UNCHANGED <<req, faults, abandoned>> /\ data' \in SUBSET data /\ {o} \subseteq Original
      BY <1>1, <3>1 DEF Put, RunGoes
    <3>3. QED
      BY <3>1, <3>2, VersionsKeepType DEF Put
  <2>2. CASE WriteLookup(r)
    <3>1. UNCHANGED <<req, faults, abandoned>> /\ data' \in SUBSET data
      BY <2>2 DEF WriteLookup, Put, RunGoes
    <3>2. QED
      BY <1>1, <2>2, <3>1, VersionsKeepType DEF WriteLookup, Put
  <2>3. CASE ListAlign(r) \/ ListLookup(r) \/ FailTail(r)
    BY <2>3, GraphsKept DEF ListAlign, ListLookup, FailTail, RunGoes, graphVars
  <2>4. QED
    BY <2>1, <2>2, <2>3 DEF TailNext
<1>3. RestOK'
  <2>1. CASE ListAlign(r)
    BY <1>1, <2>1 DEF ListAlign, RunGoes, RestOK, graphVars, Proposed, Of
  <2>2. CASE WriteAlign(r)
    BY <1>1, <2>2 DEF WriteAlign, Put, RunGoes, RestOK
  <2>3. CASE ListLookup(r)
    BY <1>1, <2>3 DEF ListLookup, RunGoes, RestOK, graphVars, Of
  <2>4. CASE WriteLookup(r)
    BY <1>1, <2>4 DEF WriteLookup, Put, RunGoes, RestOK
  <2>5. CASE FailTail(r)
    BY <1>1, <2>5 DEF FailTail, RunGoes, RestOK, graphVars
  <2>6. QED
    BY <2>1, <2>2, <2>3, <2>4, <2>5 DEF TailNext
<1>4. QED
  BY <1>2, <1>3, TypeSplit, PTL

LEMMA RemovalTypeInv ==
  ASSUME TypeInv, NEW d \in Doc, RemovalNext(d)
  PROVE  TypeInv'
<1> USE DEF Row, JobStep, RunStep, RemovalStep, NoRemoval
<1>1. RestOK
  BY TypeSplit
<1>2. P!TypeInv'
  <2>1. CASE DropTriples(d)
    <3>1. UNCHANGED <<ver, req, faults, abandoned>> /\ data' \in SUBSET data
      BY <2>1 DEF DropTriples, RemovalGoes
    <3>2. QED
      BY <3>1, GraphsKept
  <2>2. CASE DropStatements(d)
    <3>1. UNCHANGED <<req, faults, abandoned>> /\ data' \in SUBSET data
      BY <2>2 DEF DropStatements, RemovalGoes
    <3>2. QED
      BY <2>2, <3>1, RemovingKeepsType DEF DropStatements
  <2>3. CASE Delete(d) \/ Retry(d) \/ DropEntity(d) \/ FinishDelete(d) \/ FinishRetry(d)
             \/ BreakRemoval(d)
    BY <2>3, GraphsKept
    DEF Delete, Retry, StartRemoval, DropEntity, RemovalGoes, FinishDelete, FinishRetry,
        BreakRemoval, graphVars
  <2>4. QED
    BY <2>1, <2>2, <2>3 DEF RemovalNext
<1>3. RestOK'
  <2>1. CASE Delete(d) \/ Retry(d)
    <3>1. \E why \in {"delete", "retry"} : StartRemoval(d, why)
      BY <2>1 DEF Delete, Retry
    <3>2. QED
      BY <1>1, <3>1 DEF StartRemoval, RestOK, graphVars, runVars
  <2>2. CASE DropTriples(d) \/ DropStatements(d) \/ DropEntity(d)
    <3>1. PICK step \in RemovalStep, next \in RemovalStep : RemovalGoes(d, step, next)
      BY <2>2 DEF DropTriples, DropStatements, DropEntity
    <3>2. removal' \in [Doc -> {NoRemoval} \cup [pc : RemovalStep, why : {"delete", "retry"}]]
      BY <1>1, <3>1 DEF RemovalGoes, RestOK
    <3>3. entity' \in SUBSET Doc /\ spent' \in SUBSET Version
      BY <1>1, <2>2
      DEF DropTriples, DropStatements, DropEntity, RestOK, Derived, Written, C!Written
    <3>4. QED
      BY <1>1, <3>1, <3>2, <3>3 DEF RemovalGoes, RestOK, runVars
  <2>3. CASE FinishDelete(d)
    BY <1>1, <2>3 DEF FinishDelete, RestOK, graphVars
  <2>4. CASE FinishRetry(d)
    BY <1>1, <2>4 DEF FinishRetry, RestOK, graphVars
  <2>5. CASE BreakRemoval(d)
    BY <1>1, <2>5 DEF BreakRemoval, RestOK, graphVars, runVars
  <2>6. QED
    BY <2>1, <2>2, <2>3, <2>4, <2>5 DEF RemovalNext
<1>4. QED
  BY <1>2, <1>3, TypeSplit, PTL

LEMMA NextTypeInv == TypeInv /\ [Next]_vars => TypeInv'
<1> SUFFICES ASSUME TypeInv, [Next]_vars PROVE TypeInv'
  OBVIOUS
<1>1. CASE UNCHANGED vars
  <2>1. P!TypeInv'
    BY <1>1, GraphsKept DEF vars, graphVars
  <2>2. RestOK'
    BY <1>1, TypeSplit DEF vars, graphVars, runVars, RestOK
  <2>3. QED
    BY <2>1, <2>2, TypeSplit, PTL
<1>2. CASE Curate
  BY <1>2, CurateTypeInv
<1>3. ASSUME NEW r \in Run, RunNext(r)
      PROVE  TypeInv'
  BY <1>3, UploadTypeInv, TailTypeInv DEF RunNext, TailNext
<1>4. ASSUME NEW d \in Doc, JobNext(d) \/ RemovalNext(d)
      PROVE  TypeInv'
  BY <1>4, JobTypeInv, RemovalTypeInv
<1>5. QED
  BY <1>1, <1>2, <1>3, <1>4 DEF Next

(***************************************************************************)
(* Whatever overlaps, the graphs, the rows, the chains, the runs and the   *)
(* removals keep their types.                                              *)
(***************************************************************************)
THEOREM DocumentsTypes == Spec => []TypeOK
<1>1. TypeInv => TypeOK
  BY DEF TypeInv
<1>2. QED
  BY <1>1, InitTypeInv, NextTypeInv, PTL DEF Spec

LEMMA AlwaysTypeInv == Spec => []TypeInv
  BY InitTypeInv, NextTypeInv, PTL DEF Spec

-----------------------------------------------------------------------------
(* Histories: each version has the root of the one it was made from, so    *)
(* the path of prov:wasDerivedFrom that the removals follow leads to the   *)
(* documents its root is derived from.                                     *)

From(d) == {v \in Written : d \in DerivedFrom(v)}

Lineage ==
  \A v \in Written :
    IF v \in Original
      THEN /\ ver[v].root = v /\ ver[v].parent = None
           /\ ver[v].triple = OriginalTriple[v]
           /\ ver[v].status = "pending" /\ ver[v].term = "iri"
      ELSE ver[v].parent \in Written /\ ver[v].root = ver[ver[v].parent].root

Reachable == \A d \in Doc : \A S \in SUBSET Written : Steps(d, S) => From(d) \subseteq S

HistoryInv == TypeInv /\ Lineage /\ Reachable

LEMMA WrittenRecords ==
  ASSUME TypeInv, NEW v \in Written
  PROVE  /\ v \in Version /\ ver[v] \in P!VersionRec /\ ver[v].root \in Original
         /\ None \notin Written
  BY Assumed, SameState
  DEF TypeInv, P!TypeInv, P!TypeOK, P!Written, P!VersionRec, P!BoundAssumption

(***************************************************************************)
(* What a removal finds along the paths are the versions that are derived  *)
(* from the document.                                                      *)
(***************************************************************************)
LEMMA DerivedIsFrom ==
  ASSUME HistoryInv, NEW d \in Doc
  PROVE  Derived(d) = From(d)
<1>1. Steps(d, From(d))
  <2> SUFFICES ASSUME NEW v \in Written,
                      (v \in Original /\ d \in Source[v]) \/ ver[v].parent \in From(d)
               PROVE  v \in From(d)
    BY DEF Steps
  <2>1. CASE v \in Original /\ d \in Source[v]
    BY <2>1 DEF HistoryInv, Lineage, From, DerivedFrom
  <2>2. CASE ver[v].parent \in From(d)
    <3>1. v \notin Original
      BY <2>2, WrittenRecords DEF HistoryInv, Lineage, From
    <3>2. ver[v].root = ver[ver[v].parent].root
      BY <3>1 DEF HistoryInv, Lineage
    <3>3. QED
      BY <2>2, <3>2 DEF From, DerivedFrom
  <2>3. QED
    BY <2>1, <2>2
<1>2. From(d) \in SUBSET Written
  BY DEF From
<1>3. From(d) = DerivedOnce(d) \cup (From(d) \ Original)
  BY <1>2 DEF DerivedOnce, HistoryInv, Lineage, From, DerivedFrom
<1>4. Derived(d) \subseteq From(d)
  <2>1. From(d) \ Original \in SUBSET (Written \ Original)
    BY <1>2
  <2>2. QED
    BY <1>1, <1>3, <2>1 DEF Derived
<1>5. From(d) \subseteq Derived(d)
  <2> SUFFICES ASSUME NEW v \in From(d), NEW S \in SUBSET (Written \ Original),
                      Steps(d, DerivedOnce(d) \cup S)
               PROVE  v \in DerivedOnce(d) \cup S
    BY <1>2 DEF Derived
  <2>1. DerivedOnce(d) \cup S \in SUBSET Written
    BY DEF DerivedOnce
  <2>2. QED
    BY <2>1 DEF HistoryInv, Reachable
<1>6. QED
  BY <1>4, <1>5

(***************************************************************************)
(* Writers and curators only add versions, each with the history of one    *)
(* that is there, and keep what is said of those that are there.           *)
(***************************************************************************)
Extends ==
  /\ \A v \in Written :
       /\ v \in Written'
       /\ ver'[v].root = ver[v].root /\ ver'[v].parent = ver[v].parent
       /\ ver'[v].triple = ver[v].triple
       /\ ver'[v].status = ver[v].status /\ ver'[v].term = ver[v].term
  /\ \A n \in Written' \ Written :
       IF n \in Original
         THEN ver'[n] = C!Extracted(n)
         ELSE ver'[n].parent \in Written /\ ver'[n].root = ver[ver'[n].parent].root

LEMMA SameVersions == HistoryInv /\ UNCHANGED ver => Extends
  BY DEF Extends, Written, C!Written

LEMMA ExtendsLineage ==
  ASSUME HistoryInv, Extends PROVE Lineage'
<1>1. ASSUME NEW v \in Written', v \in Written
      PROVE  IF v \in Original
               THEN /\ ver'[v].root = v /\ ver'[v].parent = None
                    /\ ver'[v].triple = OriginalTriple[v]
                    /\ ver'[v].status = "pending" /\ ver'[v].term = "iri"
               ELSE ver'[v].parent \in Written' /\ ver'[v].root = ver'[ver'[v].parent].root
  BY <1>1 DEF HistoryInv, Lineage, Extends
<1>2. ASSUME NEW v \in Written', v \notin Written
      PROVE  IF v \in Original
               THEN /\ ver'[v].root = v /\ ver'[v].parent = None
                    /\ ver'[v].triple = OriginalTriple[v]
                    /\ ver'[v].status = "pending" /\ ver'[v].term = "iri"
               ELSE ver'[v].parent \in Written' /\ ver'[v].root = ver'[ver'[v].parent].root
  <2>1. CASE v \in Original
    <3>1. v \in Written' \ Written
      BY <1>2
    <3>2. ver'[v] = C!Extracted(v)
      BY <2>1, <3>1 DEF Extends
    <3>3. QED
      BY <2>1, <3>2 DEF C!Extracted
  <2>2. CASE v \notin Original
    BY <1>2, <2>2 DEF Extends
  <2>3. QED
    BY <2>1, <2>2
<1>3. QED
  BY <1>1, <1>2 DEF Lineage

LEMMA ExtendsReachable ==
  ASSUME HistoryInv, Extends PROVE Reachable'
<1> SUFFICES ASSUME NEW d \in Doc, NEW T \in SUBSET Written', Steps(d, T)',
                    NEW v \in Written', d \in DerivedFrom(v)'
             PROVE  v \in T
  BY DEF Reachable, From
<1> DEFINE S == T \cap Written
<1>1. Steps(d, S)
  <2> SUFFICES ASSUME NEW w \in Written,
                      (w \in Original /\ d \in Source[w]) \/ ver[w].parent \in S
               PROVE  w \in S
    BY DEF Steps
  <2>1. w \in Written' /\ ver'[w].parent = ver[w].parent
    BY DEF Extends
  <2>2. QED
    BY <2>1 DEF Steps
<1>2. \A w \in Written : d \in DerivedFrom(w) => w \in T
  <2>1. S \in SUBSET Written
    OBVIOUS
  <2>2. From(d) \subseteq S
    BY <1>1, <2>1 DEF HistoryInv, Reachable
  <2>3. QED
    BY <2>2 DEF From
<1>3. CASE v \in Written
  BY <1>2, <1>3 DEF Extends, DerivedFrom
<1>4. CASE v \notin Written /\ v \in Original
  <2>1. v \in Written' \ Written
    BY <1>4
  <2>2. ver'[v] = C!Extracted(v)
    BY <1>4, <2>1 DEF Extends
  <2>3. ver'[v].root = v
    BY <2>2 DEF C!Extracted
  <2>4. QED
    BY <1>4, <2>3 DEF Steps, DerivedFrom
<1>5. CASE v \notin Written /\ v \notin Original
  <2> DEFINE p == ver'[v].parent
  <2>1. p \in Written /\ ver'[v].root = ver[p].root
    BY <1>5 DEF Extends
  <2>2. p \in T
    BY <1>2, <2>1 DEF DerivedFrom
  <2>3. QED
    BY <2>2 DEF Steps
<1>6. QED
  BY <1>3, <1>4, <1>5

(***************************************************************************)
(* A removal takes whole histories away.                                   *)
(***************************************************************************)
TakesAway(e) == ver' = [v \in Version |-> IF v \in Derived(e) THEN None ELSE ver[v]]

LEMMA StaysOrGoes ==
  ASSUME HistoryInv, NEW e \in Doc, TakesAway(e)
  PROVE  /\ Written' = Written \ From(e)
         /\ \A v \in Written' : ver'[v] = ver[v]
<1>1. Derived(e) = From(e)
  BY DerivedIsFrom
<1>2. QED
  BY <1>1 DEF TakesAway, Written, C!Written

LEMMA TakesAwayLineage ==
  ASSUME HistoryInv, NEW e \in Doc, TakesAway(e) PROVE Lineage'
<1> SUFFICES ASSUME NEW v \in Written'
             PROVE  IF v \in Original
                      THEN /\ ver'[v].root = v /\ ver'[v].parent = None
                           /\ ver'[v].triple = OriginalTriple[v]
                           /\ ver'[v].status = "pending" /\ ver'[v].term = "iri"
                      ELSE ver'[v].parent \in Written' /\ ver'[v].root = ver'[ver'[v].parent].root
  BY DEF Lineage
<1>1. v \in Written /\ v \notin From(e) /\ ver'[v] = ver[v]
  BY StaysOrGoes
<1>2. CASE v \in Original
  BY <1>1, <1>2 DEF HistoryInv, Lineage
<1>3. CASE v \notin Original
  <2> DEFINE p == ver[v].parent
  <2>1. p \in Written /\ ver[v].root = ver[p].root
    BY <1>1, <1>3 DEF HistoryInv, Lineage
  <2>2. p \notin From(e)
    BY <1>1, <2>1 DEF From, DerivedFrom
  <2>3. p \in Written' /\ ver'[p] = ver[p]
    BY <2>1, <2>2, StaysOrGoes
  <2>4. QED
    BY <1>1, <1>3, <2>1, <2>3
<1>4. QED
  BY <1>2, <1>3

LEMMA TakesAwayReachable ==
  ASSUME HistoryInv, NEW e \in Doc, TakesAway(e) PROVE Reachable'
<1> SUFFICES ASSUME NEW d \in Doc, NEW T \in SUBSET Written', Steps(d, T)',
                    NEW v \in Written', d \in DerivedFrom(v)'
             PROVE  v \in T
  BY DEF Reachable, From
<1> DEFINE S == T \cup From(e)
<1>1. Steps(d, S)
  <2> SUFFICES ASSUME NEW w \in Written, w \notin From(e),
                      (w \in Original /\ d \in Source[w]) \/ ver[w].parent \in S
               PROVE  w \in T
    BY DEF Steps
  <2>1. w \in Written' /\ ver'[w] = ver[w]
    BY StaysOrGoes
  <2>2. CASE w \in Original /\ d \in Source[w]
    BY <2>1, <2>2 DEF Steps
  <2>3. CASE ver[w].parent \in T
    BY <2>1, <2>3 DEF Steps
  <2>4. CASE ver[w].parent \in From(e)
    <3>1. w \notin Original
      BY <2>4, WrittenRecords DEF HistoryInv, Lineage, From
    <3>2. ver[w].root = ver[ver[w].parent].root
      BY <3>1 DEF HistoryInv, Lineage
    <3>3. QED
      BY <2>4, <3>2 DEF From, DerivedFrom
  <2>5. QED
    BY <2>2, <2>3, <2>4
<1>2. S \in SUBSET Written
  BY StaysOrGoes DEF From
<1>3. From(d) \subseteq S
  BY <1>1, <1>2 DEF HistoryInv, Reachable
<1>4. v \in Written /\ v \notin From(e) /\ ver'[v] = ver[v]
  BY StaysOrGoes
<1>5. v \in From(d)
  BY <1>4 DEF From, DerivedFrom
<1>6. QED
  BY <1>3, <1>4, <1>5

-----------------------------------------------------------------------------
(* What the steps do to the versions.                                      *)

LEMMA PutExtends ==
  ASSUME HistoryInv, NEW S \in SUBSET Original, Put(S)
  PROVE  /\ Extends
         /\ Written' = Written \cup S
         /\ \A v \in Written \ Original : ver'[v] = ver[v]
<1>1. \A v \in Version : ver'[v] = IF v \in S THEN C!Extracted(v) ELSE ver[v]
  BY DEF Put
<1>2. S \subseteq Version /\ \A v \in S : C!Extracted(v) # None
  BY ExtractedType
<1>3. Written' = Written \cup S
  BY <1>1, <1>2 DEF Written, C!Written
<1>4. ASSUME NEW v \in Written
      PROVE  /\ v \in Written'
             /\ ver'[v].root = ver[v].root /\ ver'[v].parent = ver[v].parent
             /\ ver'[v].triple = ver[v].triple
             /\ ver'[v].status = ver[v].status /\ ver'[v].term = ver[v].term
  <2>1. CASE v \in S
    <3>1. ver'[v] = C!Extracted(v) /\ v \in Original
      BY <1>1, <1>2, <2>1
    <3>2. /\ ver[v].root = v /\ ver[v].parent = None /\ ver[v].triple = OriginalTriple[v]
          /\ ver[v].status = "pending" /\ ver[v].term = "iri"
      BY <3>1 DEF HistoryInv, Lineage
    <3>3. QED
      BY <1>3, <3>1, <3>2 DEF C!Extracted
  <2>2. CASE v \notin S
    BY <1>1, <1>3, <2>2, WrittenRecords DEF HistoryInv
  <2>3. QED
    BY <2>1, <2>2
<1>5. ASSUME NEW n \in Written' \ Written
      PROVE  n \in Original /\ ver'[n] = C!Extracted(n)
  BY <1>1, <1>2, <1>3
<1>6. \A v \in Written \ Original : ver'[v] = ver[v]
  BY <1>1, WrittenRecords DEF HistoryInv
<1>7. QED
  BY <1>3, <1>4, <1>5, <1>6 DEF Extends

\* What a request of a curator makes of what it holds.
Succeeds(n) ==
  /\ n \notin Original
  /\ \E c \in Curator : \E s \in C!Target(c) :
       /\ s \in Written
       /\ ver'[n].parent = s
       /\ ver'[n].root = ver[s].root /\ req[c].load[s].root = ver[s].root

LEMMA CurateSucceeds ==
  ASSUME HistoryInv, P!Inv, Curate, NEW n \in Written', n \notin Written
  PROVE  Succeeds(n)
<1>1. n \notin Original
  BY DEF Curate, Fresh, Written, C!Written
<1>2. n \in P!Written' /\ n \notin P!Written
  BY DEF Written, C!Written, P!Written
<1>3. PICK c \in Curator : \E s \in P!Target(c) :
           \/ /\ P!ApplyAccept(c)
              /\ ver'[n] = P!Successor(s, req[c].load[s], req[c].load[s].triple, "accepted", "iri")
           \/ P!Insert(c, s) /\ ver'[n] = P!NewVersion(c, s)
  BY <1>2, Assumed, SameNext, P!FreshVersion DEF Curate
<1>4. PICK s \in P!Target(c) :
           \/ /\ P!ApplyAccept(c)
              /\ ver'[n] = P!Successor(s, req[c].load[s], req[c].load[s].triple, "accepted", "iri")
           \/ P!Insert(c, s) /\ ver'[n] = P!NewVersion(c, s)
  BY <1>3
<1>5. ver'[n].parent = s /\ ver'[n].root = req[c].load[s].root
  BY <1>4 DEF P!Successor, P!NewVersion
<1>6. s \in Written /\ req[c].load[s].root = ver[s].root
  BY SameState DEF P!Inv, P!LoadedIsWritten
<1>7. QED
  BY <1>1, <1>5, <1>6, SameState DEF Succeeds

LEMMA CurateExtends ==
  ASSUME HistoryInv, P!Inv, Curate
  PROVE  Extends
<1>1. ASSUME NEW v \in Written
      PROVE  /\ v \in Written'
             /\ ver'[v].root = ver[v].root /\ ver'[v].parent = ver[v].parent
             /\ ver'[v].triple = ver[v].triple
             /\ ver'[v].status = ver[v].status /\ ver'[v].term = ver[v].term
  <2>1. P!TypeInv /\ P!TypeInv'
    BY Assumed, SameNext, P!NextTypeInv DEF Curate, P!Inv
  <2>2. P!AppendOnly
    BY <2>1, Assumed, SameNext, P!StepAppendsOnly DEF Curate
  <2>3. ver'[v] # None /\ ver'[v] \in {ver[v], [ver[v] EXCEPT !.current = FALSE]}
    BY <2>2, SameState DEF P!AppendOnly
  <2>4. ver[v] \in P!VersionRec /\ v \in Version
    BY WrittenRecords DEF HistoryInv
  <2>5. QED
    BY <2>3, <2>4 DEF P!VersionRec, Written, C!Written
<1>2. ASSUME NEW n \in Written' \ Written
      PROVE  n \notin Original /\ ver'[n].parent \in Written
             /\ ver'[n].root = ver[ver'[n].parent].root
  BY CurateSucceeds DEF Succeeds
<1>3. QED
  BY <1>1, <1>2 DEF Extends

\* The other steps of the runs, the chains and the removals, by what they change.
LEMMA RunWrites ==
  ASSUME TypeInv, NEW r \in Run, RunNext(r)
  PROVE  /\ UNCHANGED <<data, req, faults, abandoned, spent, entity, removal>>
         /\ ver' = ver \/ \E S \in SUBSET plan[r] : Put(S)
         /\ plan[r] \in SUBSET Original
<1>0. plan[r] \in SUBSET Original
  BY TypeSplit DEF RestOK
<1>1. CASE WriteAlign(r)
  <2>1. PICK o \in plan[r] : Put({o})
    BY <1>1 DEF WriteAlign
  <2>2. QED
    BY <1>0, <1>1, <2>1 DEF WriteAlign, Put, RunGoes
<1>2. CASE WriteLookup(r)
  BY <1>0, <1>2 DEF WriteLookup, Put, RunGoes
<1>3. CASE ~ WriteAlign(r) /\ ~ WriteLookup(r)
  BY <1>0, <1>3 DEF RunNext, BeginUpload, Enqueue, BreakUpload, CreateRow, ListAlign, ListLookup,
              FailTail, RunGoes, graphVars
<1>4. QED
  BY <1>1, <1>2, <1>3

LEMMA JobWrites ==
  ASSUME NEW d \in Doc, JobNext(d)
  PROVE  /\ UNCHANGED <<data, req, faults, abandoned, spent, removal>>
         /\ \/ ver' = ver /\ entity' = entity
            \/ Extract(d) /\ Put({o \in Of("extraction") : Source[o] = {d}})
  BY DEF JobNext, Fetch, Extract, File, FailJob, JobGoes, Put, graphVars

LEMMA RemovalWrites ==
  ASSUME TypeInv, NEW d \in Doc, RemovalNext(d)
  PROVE  /\ UNCHANGED <<req, faults, abandoned>>
         /\ \/ /\ UNCHANGED <<ver, data>>
               /\ ~ DropStatements(d) /\ ~ DropTriples(d)
            \/ DropTriples(d) /\ ver' = ver
            \/ DropStatements(d) /\ TakesAway(d) /\ data' = data
  BY DEF RemovalNext, Delete, Retry, StartRemoval, DropTriples, DropStatements, DropEntity,
         RemovalGoes, FinishDelete, FinishRetry, BreakRemoval, graphVars, TakesAway

-----------------------------------------------------------------------------
(* Curators and removals are kept apart: nobody works on what is derived   *)
(* from a document that is being removed.                                  *)

CuratorsApart == "curate" \notin Overlap

HeldApart ==
  \A c \in Curator : \A v \in C!Target(c) : Source[req[c].load[v].root] \cap Removing = {}

ApartInv == HistoryInv /\ P!LoadedIsWritten /\ HeldApart

LEMMA CurationInv == ApartInv => P!Inv
  BY DEF ApartInv, HistoryInv, TypeInv, P!Inv

LEMMA HeldVersion ==
  ASSUME ApartInv, NEW c \in Curator, NEW v \in C!Target(c)
  PROVE  /\ v \in Written /\ v \in Version /\ req[c].load[v] # None
         /\ ver[v].root = req[c].load[v].root
         /\ ver[v].triple = req[c].load[v].triple
         /\ ver[v].status = req[c].load[v].status
         /\ DerivedFrom(v) \cap Removing = {}
  BY SameState DEF ApartInv, HeldApart, P!LoadedIsWritten, P!Target, DerivedFrom

LEMMA InitApartInv == Init => ApartInv
<1> SUFFICES ASSUME Init PROVE ApartInv
  OBVIOUS
<1>1. Written = {}
  BY DEF Init, Written, C!Written
<1>2. \A c \in Curator : C!Target(c) = {}
  BY DEF Init, C!Target, C!Idle, C!NoLoad
<1>3. TypeInv
  BY InitTypeInv
<1>4. QED
  BY <1>1, <1>2, <1>3, SameState
  DEF ApartInv, HistoryInv, Lineage, Reachable, From, HeldApart, P!LoadedIsWritten

\* Steps that keep the requests and extend the versions keep what was loaded.
LEMMA ExtendsLoaded ==
  ASSUME ApartInv, Extends, req' = req
  PROVE  P!LoadedIsWritten'
<1> SUFFICES ASSUME NEW c \in Curator, NEW v \in P!Target(c)'
             PROVE  /\ v \in P!Written'
                    /\ ver'[v].triple = req'[c].load[v].triple
                    /\ ver'[v].status = req'[c].load[v].status
                    /\ ver'[v].root = req'[c].load[v].root
  BY DEF P!LoadedIsWritten
<1>1. v \in C!Target(c)
  BY DEF P!Target, C!Target
<1>2. v \in Written'
  BY <1>1, HeldVersion DEF Extends
<1>3. v \in P!Written'
  BY <1>2 DEF Written, C!Written, P!Written
<1>4. QED
  BY <1>1, <1>3, HeldVersion DEF Extends

LEMMA ExtendsApartInv ==
  ASSUME ApartInv, TypeInv', Extends, req' = req, removal' = removal
  PROVE  ApartInv'
<1>1. Lineage' /\ Reachable' /\ P!LoadedIsWritten'
  BY ExtendsLineage, ExtendsReachable, ExtendsLoaded DEF ApartInv
<1>2. HeldApart'
  BY DEF ApartInv, HeldApart, Removing, C!Target
<1>3. QED
  BY <1>1, <1>2 DEF ApartInv, HistoryInv

LEMMA CurateApartInv ==
  ASSUME CuratorsApart, ApartInv, Curate
  PROVE  ApartInv'
<1>1. TypeInv' /\ P!Inv'
  BY CurateTypeInv, CurationInv, Assumed, SameNext, P!NextInv DEF Curate, ApartInv, HistoryInv
<1>2. Lineage' /\ Reachable'
  BY CurateExtends, CurationInv, ExtendsLineage, ExtendsReachable DEF ApartInv
<1>3. ASSUME NEW c \in Curator, NEW v \in C!Target(c)'
      PROVE  Source[req'[c].load[v].root] \cap Removing' = {}
  <2>1. v \in Version /\ req'[c].load[v] # None /\ Removing' = Removing
    BY <1>3 DEF C!Target, Curate, Removing
  <2>2. P!TypeInv /\ [P!Next]_P!vars
    BY SameNext DEF ApartInv, HistoryInv, TypeInv, Curate
  <2>3. \/ req[c].load[v] = req'[c].load[v]
        \/ /\ req[c].pc = "idle" /\ req'[c].pc # "idle"
           /\ v \in P!Written /\ req'[c].load[v] = ver[v]
    BY <2>1, <2>2, Assumed, P!HeldSince
  <2>4. CASE req[c].load[v] = req'[c].load[v]
    <3>1. v \in C!Target(c)
      BY <2>1, <2>4 DEF C!Target
    <3>2. QED
      BY <2>1, <2>4, <3>1 DEF ApartInv, HeldApart
  <2>5. CASE /\ req[c].pc = "idle" /\ req'[c].pc # "idle"
             /\ v \in P!Written /\ req'[c].load[v] = ver[v]
    <3>1. Starts(c) /\ v \in Written
      BY <2>5, SameState DEF Starts
    <3>2. DerivedFrom(v) \cap Removing = {}
      BY <2>1, <3>1 DEF Curate, CuratorsApart
    <3>3. QED
      BY <2>1, <2>5, <3>2 DEF DerivedFrom
  <2>6. QED
    BY <2>3, <2>4, <2>5
<1>4. QED
  BY <1>1, <1>2, <1>3 DEF ApartInv, HistoryInv, HeldApart, P!Inv

\* Which documents are being removed after a step of a removal.
LEMMA RemovingNext ==
  ASSUME TypeInv, NEW d \in Doc, RemovalNext(d)
  PROVE  \/ Removing' \subseteq Removing
         \/ /\ Removing' = Removing \cup {d} /\ UNCHANGED <<ver, req>>
            /\ \E why \in {"delete", "retry"} : StartRemoval(d, why)
<1>1. removal \in [Doc -> {NoRemoval} \cup [pc : RemovalStep, why : {"delete", "retry"}]]
  BY TypeSplit DEF RestOK
<1>2. CASE Delete(d) \/ Retry(d)
  <2>1. PICK why \in {"delete", "retry"} : StartRemoval(d, why)
    BY <1>2 DEF Delete, Retry
  <2>2. [pc |-> "triples", why |-> why] # NoRemoval
    BY DEF NoRemoval
  <2>3. Removing' = Removing \cup {d}
    BY <1>1, <2>1, <2>2 DEF StartRemoval, Removing
  <2>4. QED
    BY <2>1, <2>3 DEF StartRemoval, graphVars
<1>3. CASE DropTriples(d) \/ DropStatements(d) \/ DropEntity(d)
  <2>1. PICK step \in RemovalStep, next \in RemovalStep : RemovalGoes(d, step, next)
    BY <1>3 DEF DropTriples, DropStatements, DropEntity, RemovalStep
  <2>2. removal[d] # NoRemoval
    BY <2>1 DEF RemovalGoes, NoRemoval, RemovalStep
  <2>3. QED
    BY <1>1, <2>1, <2>2 DEF RemovalGoes, Removing
<1>4. CASE FinishDelete(d) \/ FinishRetry(d) \/ BreakRemoval(d)
  BY <1>1, <1>4 DEF FinishDelete, FinishRetry, BreakRemoval, Removing
<1>5. QED
  BY <1>2, <1>3, <1>4 DEF RemovalNext

LEMMA RemovalApartInv ==
  ASSUME CuratorsApart, ApartInv, NEW d \in Doc, RemovalNext(d)
  PROVE  ApartInv'
<1>1. TypeInv /\ TypeInv' /\ HistoryInv /\ req' = req
  BY RemovalTypeInv, RemovalWrites DEF ApartInv, HistoryInv
<1>2. HeldApart'
  <2>1. CASE Removing' \subseteq Removing
    BY <1>1, <2>1 DEF ApartInv, HeldApart, C!Target
  <2>2. ASSUME Removing' = Removing \cup {d},
               \E why \in {"delete", "retry"} : StartRemoval(d, why)
        PROVE  HeldApart'
    BY <1>1, <2>2 DEF StartRemoval, CuratorsApart, NoCurator, ApartInv, HeldApart, C!Target
  <2>3. QED
    BY <1>1, <2>1, <2>2, RemovingNext
<1>3. CASE ver' = ver
  <2>1. Extends
    BY <1>1, <1>3, SameVersions
  <2>2. QED
    BY <1>1, <1>2, <2>1, ExtendsLineage, ExtendsReachable, ExtendsLoaded
    DEF ApartInv, HistoryInv
<1>4. CASE DropStatements(d) /\ TakesAway(d)
  <2>1. Lineage' /\ Reachable'
    BY <1>1, <1>4, TakesAwayLineage, TakesAwayReachable
  <2>2. d \in Removing
    BY <1>4 DEF DropStatements, RemovalGoes, Removing, NoRemoval
  <2>3. ASSUME NEW c \in Curator, NEW v \in P!Target(c)'
        PROVE  /\ v \in P!Written'
               /\ ver'[v].triple = req'[c].load[v].triple
               /\ ver'[v].status = req'[c].load[v].status
               /\ ver'[v].root = req'[c].load[v].root
    <3>1. v \in C!Target(c)
      BY <1>1, <2>3 DEF P!Target, C!Target
    <3>2. v \in Written' /\ ver'[v] = ver[v]
      BY <1>1, <1>4, <2>2, <3>1, HeldVersion, StaysOrGoes DEF From
    <3>3. v \in P!Written'
      BY <3>2 DEF Written, C!Written, P!Written
    <3>4. QED
      BY <1>1, <3>1, <3>2, <3>3, HeldVersion
  <2>4. QED
    BY <1>1, <1>2, <2>1, <2>3 DEF ApartInv, HistoryInv, P!LoadedIsWritten
<1>5. QED
  BY <1>1, <1>3, <1>4, RemovalWrites

LEMMA WritersApartInv ==
  ASSUME ApartInv,
         (\E r \in Run : RunNext(r)) \/ (\E d \in Doc : JobNext(d))
  PROVE  ApartInv'
<1>1. TypeInv /\ HistoryInv
  BY DEF ApartInv, HistoryInv
<1>2. ASSUME NEW r \in Run, RunNext(r)
      PROVE  ApartInv'
  <2>1. TypeInv' /\ req' = req /\ removal' = removal
    BY <1>1, <1>2, UploadTypeInv, TailTypeInv, RunWrites DEF RunNext, TailNext
  <2>2. Extends
    BY <1>1, <1>2, RunWrites, PutExtends, SameVersions
  <2>3. QED
    BY <2>1, <2>2, ExtendsApartInv
<1>3. ASSUME NEW d \in Doc, JobNext(d)
      PROVE  ApartInv'
  <2>1. TypeInv' /\ req' = req /\ removal' = removal
    BY <1>1, <1>3, JobTypeInv, JobWrites
  <2>2. {o \in Of("extraction") : Source[o] = {d}} \in SUBSET Original
    BY DEF Of
  <2>3. Extends
    BY <1>1, <1>3, <2>2, JobWrites, PutExtends, SameVersions
  <2>4. QED
    BY <2>1, <2>3, ExtendsApartInv
<1>4. QED
  BY <1>2, <1>3

LEMMA NextApartInv == CuratorsApart /\ ApartInv /\ [Next]_vars => ApartInv'
<1> SUFFICES ASSUME CuratorsApart, ApartInv, [Next]_vars PROVE ApartInv'
  OBVIOUS
<1>1. CASE UNCHANGED vars
  <2>1. TypeInv' /\ Extends /\ req' = req /\ removal' = removal
    BY <1>1, NextTypeInv, SameVersions DEF vars, graphVars, ApartInv, HistoryInv
  <2>2. QED
    BY <2>1, ExtendsApartInv
<1>2. CASE Curate
  BY <1>2, CurateApartInv
<1>3. CASE (\E r \in Run : RunNext(r)) \/ (\E d \in Doc : JobNext(d))
  BY <1>3, WritersApartInv
<1>4. ASSUME NEW d \in Doc, RemovalNext(d)
      PROVE  ApartInv'
  BY <1>4, RemovalApartInv
<1>5. QED
  BY <1>1, <1>2, <1>3, <1>4 DEF Next

-----------------------------------------------------------------------------
(* Materialization: between dropping the triples of a document and its     *)
(* statements, the triples that are left have witnesses derived from other *)
(* documents.                                                              *)

Untouched == {o \in Original : \A d \in Doc : removal[d].pc = "statements" => d \notin Source[o]}

MaterialInv == ApartInv /\ P!Witnessed(Untouched)

\* What an accepted version that justifies a triple is.
LEMMA WitnessIs ==
  ASSUME ApartInv, NEW v \in Version, NEW t, P!Justifies(v, t)
  PROVE  v \in Written \ Original /\ ver[v].triple = t
<1>1. v \in Written /\ ver[v].status = "accepted" /\ ver[v].triple = t
  BY SameState DEF P!Justifies, P!IsCurrent
<1>2. QED
  BY <1>1 DEF ApartInv, HistoryInv, Lineage

LEMMA KeepsWitnesses ==
  ASSUME MaterialInv, req' = req,
         \A t \in data' : \A v \in Written \ Original :
           ver[v].triple = t /\ ver[v].root \in Untouched /\ t \in data
             => v \in Written' /\ ver'[v] = ver[v] /\ ver[v].root \in Untouched',
         data' \in SUBSET data
  PROVE  P!Witnessed(Untouched)'
<1> SUFFICES ASSUME NEW t \in data'
             PROVE  \E v \in Version :
                      P!Justifies(v, t)' /\ ~ P!Retiring(v)' /\ ver'[v].root \in Untouched'
  BY DEF P!Witnessed
<1>1. t \in data
  OBVIOUS
<1>2. PICK v \in Version : P!Justifies(v, t) /\ ~ P!Retiring(v) /\ ver[v].root \in Untouched
  BY <1>1 DEF MaterialInv, P!Witnessed
<1>3. v \in Written' /\ ver'[v] = ver[v] /\ ver[v].root \in Untouched'
  BY <1>1, <1>2, WitnessIs DEF MaterialInv
<1>4. P!Justifies(v, t)'
  BY <1>2, <1>3 DEF P!Justifies, P!IsCurrent, P!Written, Written, C!Written
<1>5. ~ P!Retiring(v)'
  BY <1>2 DEF P!Retiring, P!Target
<1>6. QED
  BY <1>3, <1>4, <1>5

LEMMA CurateWitnesses ==
  ASSUME MaterialInv, Curate
  PROVE  P!Witnessed(Untouched)'
<1>1. PICK R : R = Untouched
  OBVIOUS
<1>2. P!Witnessed(R)
  BY <1>1 DEF MaterialInv
<1>3. P!HeldFrom(R)
  <2> SUFFICES ASSUME NEW c \in Curator, NEW v \in P!Target(c)
               PROVE  req[c].load[v].root \in R
    BY DEF P!HeldFrom
  <2>1. v \in C!Target(c)
    BY SameState
  <2>2. /\ v \in Written /\ ver[v].root = req[c].load[v].root
        /\ DerivedFrom(v) \cap Removing = {}
    BY <2>1, HeldVersion DEF MaterialInv
  <2>3. ver[v].root \in Original
    BY <2>2, WrittenRecords DEF MaterialInv, ApartInv, HistoryInv
  <2>4. \A d \in Doc : removal[d].pc = "statements" => d \in Removing
    BY DEF Removing, NoRemoval
  <2>5. QED
    BY <1>1, <2>2, <2>3, <2>4 DEF Untouched, DerivedFrom
<1>4. P!Inv /\ [P!Next]_P!vars
  BY CurationInv, SameNext DEF MaterialInv, Curate
<1>5. P!StaysWitnessed(R)
  BY <1>4, Assumed, P!NextInvWitnessed
<1>6. P!Witnessed(R)'
  BY <1>2, <1>3, <1>5 DEF P!StaysWitnessed
<1>7. Untouched' = R
  BY <1>1 DEF Curate, Untouched
<1>8. QED
  BY <1>6, <1>7 DEF P!Witnessed

LEMMA RemovalWitnesses ==
  ASSUME MaterialInv, NEW d \in Doc, RemovalNext(d)
  PROVE  P!Witnessed(Untouched)'
<1>1. removal \in [Doc -> {NoRemoval} \cup [pc : RemovalStep, why : {"delete", "retry"}]]
  BY TypeSplit DEF MaterialInv, ApartInv, HistoryInv, RestOK
<1>2. req' = req
  BY RemovalWrites DEF MaterialInv, ApartInv, HistoryInv
<1>3. CASE DropTriples(d)
  <2>1. /\ ver' = ver /\ data' = data \ {ver[v].triple : v \in Derived(d)}
        /\ removal' = [removal EXCEPT ![d].pc = "statements"]
    BY <1>3 DEF DropTriples, RemovalGoes
  <2>2. Derived(d) = From(d)
    BY DerivedIsFrom DEF MaterialInv, ApartInv
  <2>3. ASSUME NEW t \in data', NEW v \in Written \ Original,
               ver[v].triple = t, ver[v].root \in Untouched
        PROVE  ver[v].root \in Untouched'
    <3>1. v \notin From(d)
      BY <2>1, <2>2, <2>3
    <3>2. d \notin Source[ver[v].root]
      BY <3>1 DEF From, DerivedFrom
    <3>3. QED
      BY <1>1, <2>1, <2>3, <3>2 DEF Untouched
  <2>4. Written' = Written
    BY <2>1 DEF Written, C!Written
  <2>5. QED
    BY <1>2, <2>1, <2>3, <2>4, KeepsWitnesses
<1>4. CASE DropStatements(d)
  <2>1. /\ removal[d].pc = "statements" /\ TakesAway(d) /\ data' = data
        /\ removal' = [removal EXCEPT ![d].pc = "entity"]
    BY <1>4 DEF DropStatements, RemovalGoes, TakesAway
  <2>2. ASSUME NEW v \in Written, ver[v].root \in Untouched
        PROVE  v \in Written' /\ ver'[v] = ver[v] /\ ver[v].root \in Untouched'
    <3>1. v \notin From(d)
      BY <2>1, <2>2 DEF From, DerivedFrom, Untouched
    <3>2. v \in Written' /\ ver'[v] = ver[v]
      BY <2>1, <3>1, StaysOrGoes DEF MaterialInv, ApartInv
    <3>3. ver[v].root \in Untouched'
      BY <1>1, <2>1, <2>2 DEF Untouched
    <3>4. QED
      BY <3>2, <3>3
  <2>3. QED
    BY <1>2, <2>1, <2>2, KeepsWitnesses
<1>5. CASE ~ DropTriples(d) /\ ~ DropStatements(d)
  <2>1. UNCHANGED <<ver, data>>
    BY <1>5, RemovalWrites DEF MaterialInv, ApartInv, HistoryInv
  <2>2. \E e : removal' = [removal EXCEPT ![d] = e] /\ e.pc # "statements"
    <3>1. CASE DropEntity(d)
      <4>1. removal' = [removal EXCEPT ![d] = [removal[d] EXCEPT !.pc = "finish"]]
        BY <3>1 DEF DropEntity, RemovalGoes
      <4>2. removal[d] \in [pc : RemovalStep, why : {"delete", "retry"}]
        BY <1>1, <3>1 DEF DropEntity, RemovalGoes, NoRemoval
      <4>3. [removal[d] EXCEPT !.pc = "finish"].pc # "statements"
        BY <4>2
      <4>4. QED
        BY <4>1, <4>3
    <3>2. CASE Delete(d) \/ Retry(d)
      <4>1. PICK why : removal' = [removal EXCEPT ![d] = [pc |-> "triples", why |-> why]]
        BY <3>2 DEF Delete, Retry, StartRemoval
      <4>2. PICK e : e = [pc |-> "triples", why |-> why]
        OBVIOUS
      <4>3. e.pc # "statements"
        BY <4>2
      <4>4. QED
        BY <4>1, <4>2, <4>3
    <3>3. CASE FinishDelete(d) \/ FinishRetry(d) \/ BreakRemoval(d)
      <4>1. removal' = [removal EXCEPT ![d] = NoRemoval] /\ NoRemoval.pc # "statements"
        BY <3>3 DEF FinishDelete, FinishRetry, BreakRemoval, NoRemoval
      <4>2. QED
        BY <4>1
    <3>4. QED
      BY <1>5, <3>1, <3>2, <3>3 DEF RemovalNext
  <2>3. PICK e : removal' = [removal EXCEPT ![d] = e] /\ e.pc # "statements"
    BY <2>2
  <2>4. Untouched \subseteq Untouched'
    BY <1>1, <2>3 DEF Untouched
  <2>5. Written' = Written
    BY <2>1 DEF Written, C!Written
  <2>6. QED
    BY <1>2, <2>1, <2>4, <2>5, KeepsWitnesses
<1>6. QED
  BY <1>3, <1>4, <1>5

LEMMA WritersWitnesses ==
  ASSUME MaterialInv,
         (\E r \in Run : RunNext(r)) \/ (\E d \in Doc : JobNext(d))
  PROVE  P!Witnessed(Untouched)'
<1>1. TypeInv /\ HistoryInv
  BY DEF MaterialInv, ApartInv, HistoryInv
<1>2. /\ UNCHANGED <<data, req, removal>>
      /\ ver' = ver \/ \E S \in SUBSET Original : Put(S)
  <2>1. ASSUME NEW r \in Run, RunNext(r)
        PROVE  /\ UNCHANGED <<data, req, removal>>
               /\ ver' = ver \/ \E S \in SUBSET Original : Put(S)
    BY <1>1, <2>1, RunWrites
  <2>2. ASSUME NEW d \in Doc, JobNext(d)
        PROVE  /\ UNCHANGED <<data, req, removal>>
               /\ ver' = ver \/ \E S \in SUBSET Original : Put(S)
    <3>1. {o \in Of("extraction") : Source[o] = {d}} \in SUBSET Original
      BY DEF Of
    <3>2. QED
      BY <2>2, <3>1, JobWrites
  <2>3. QED
    BY <2>1, <2>2
<1>3. \A v \in Written \ Original : v \in Written' /\ ver'[v] = ver[v]
  <2>1. ASSUME NEW S \in SUBSET Original, Put(S)
        PROVE  \A v \in Written \ Original : v \in Written' /\ ver'[v] = ver[v]
    BY <1>1, <2>1, PutExtends
  <2>2. CASE ver' = ver
    BY <2>2 DEF Written, C!Written
  <2>3. QED
    BY <1>2, <2>1, <2>2
<1>4. Untouched' = Untouched
  BY <1>2 DEF Untouched
<1>5. QED
  BY <1>2, <1>3, <1>4, KeepsWitnesses

LEMMA NextMaterialInv == CuratorsApart /\ MaterialInv /\ [Next]_vars => MaterialInv'
<1> SUFFICES ASSUME CuratorsApart, MaterialInv, [Next]_vars PROVE MaterialInv'
  OBVIOUS
<1>1. ApartInv'
  BY NextApartInv DEF MaterialInv
<1>2. P!Witnessed(Untouched)'
  <2>1. CASE UNCHANGED vars
    <3>1. Untouched' = Untouched /\ Written' = Written
      BY <2>1 DEF vars, graphVars, Untouched, Written, C!Written
    <3>2. QED
      BY <2>1, <3>1, KeepsWitnesses DEF vars, graphVars
  <2>2. CASE Curate
    BY <2>2, CurateWitnesses
  <2>3. CASE (\E r \in Run : RunNext(r)) \/ (\E d \in Doc : JobNext(d))
    BY <2>3, WritersWitnesses
  <2>4. ASSUME NEW d \in Doc, RemovalNext(d)
        PROVE  P!Witnessed(Untouched)'
    BY <2>4, RemovalWitnesses
  <2>5. QED
    BY <2>1, <2>2, <2>3, <2>4 DEF Next
<1>3. QED
  BY <1>1, <1>2 DEF MaterialInv

(***************************************************************************)
(* When removals keep apart from the curators, the data graph holds only   *)
(* triples of accepted and current versions: however many documents are    *)
(* removed at the same time, whichever runs write meanwhile, and wherever  *)
(* removals and requests break off (delete_document_data takes the triples *)
(* of all versions before it takes the statements).                        *)
(***************************************************************************)
THEOREM RemovedTriplesGoFirst ==
  ASSUME CuratorsApart PROVE Spec => []MaterializedIsAccepted
<1>1. CuratorsApart
  OBVIOUS
<1>2. Init => MaterialInv
  BY InitApartInv DEF MaterialInv, Init, P!Witnessed
<1>3. MaterialInv => MaterializedIsAccepted
  BY SameMaterialized
  DEF MaterialInv, MaterializedIsAccepted, P!Witnessed, P!MaterializedIsAccepted
<1>4. QED
  BY <1>1, <1>2, <1>3, NextMaterialInv, PTL DEF Spec

-----------------------------------------------------------------------------
(* Runs and removals are kept apart as well: what a run is about to write  *)
(* is derived from documents that nobody removes.                          *)

RemovalsApart == "curate" \notin Overlap /\ "run" \notin Overlap

InTail(r) == run[r] \in {"align", "lookup"}
AtWork(d) == job[d] \in {"extracting", "extracted"} \/ d \in files

AloneInv ==
  /\ Removing # {} => \A r \in Run : ~ InTail(r)
  /\ \A d \in Removing : ~ AtWork(d) /\ row[d] = "present"
  /\ \A d \in Doc : AtWork(d) => row[d] = "present"
  /\ \A r \in Run : ~ InTail(r) => plan[r] = {}

LEMMA InitAloneInv == Init => AloneInv
  BY DEF Init, AloneInv, InTail, AtWork, Removing

LEMMA RunAlone ==
  ASSUME RemovalsApart, TypeInv, AloneInv, NEW r \in Run, RunNext(r)
  PROVE  AloneInv'
<1>1. RestOK /\ removal' = removal /\ Removing' = Removing
  BY TypeSplit, RunWrites DEF Removing
<1>2. CASE \/ BeginUpload(r) \/ BreakUpload(r) \/ Enqueue(r) \/ \E d \in Doc : CreateRow(r, d)
  <2>1. /\ plan' = plan /\ files' = files
        /\ run[r] \in {"none", "rows"} /\ \A s \in Run : s # r => run'[s] = run[s]
        /\ run'[r] \notin {"align", "lookup"}
    BY <1>1, <1>2 DEF BeginUpload, BreakUpload, Enqueue, CreateRow, RestOK
  <2>2. \A d \in Doc : job'[d] = job[d] \/ job'[d] = "queued"
    BY <1>1, <1>2 DEF BeginUpload, BreakUpload, Enqueue, CreateRow, RestOK
  <2>3. \A d \in Doc : row[d] = "present" => row'[d] = "present"
    BY <1>1, <1>2 DEF BeginUpload, BreakUpload, Enqueue, CreateRow, RestOK
  <2>4. \A d \in Doc : AtWork(d)' => AtWork(d)
    BY <2>1, <2>2 DEF AtWork
  <2>5. \A s \in Run : InTail(s)' <=> InTail(s)
    BY <2>1 DEF InTail
  <2>6. QED
    BY <1>1, <2>1, <2>3, <2>4, <2>5 DEF AloneInv, Removing
<1>3. CASE ListAlign(r) \/ ListLookup(r)
  <2>1. Removing = {} /\ row' = row /\ job' = job /\ files' = files /\ InTail(r)'
    BY <1>1, <1>3 DEF ListAlign, ListLookup, RunGoes, RemovalsApart, InTail, RestOK
  <2>2. \A s \in Run : s # r => run'[s] = run[s] /\ plan'[s] = plan[s]
    BY <1>1, <1>3 DEF ListAlign, ListLookup, RunGoes, RestOK
  <2>3. QED
    BY <1>1, <2>1, <2>2 DEF AloneInv, InTail, AtWork
<1>4. CASE WriteAlign(r) \/ WriteLookup(r) \/ FailTail(r)
  <2>1. InTail(r) /\ row' = row /\ files' \subseteq files
    BY <1>4 DEF WriteAlign, WriteLookup, FailTail, RunGoes, InTail
  <2>2. \A s \in Run : s # r => run'[s] = run[s] /\ plan'[s] = plan[s]
    BY <1>1, <1>4 DEF WriteAlign, WriteLookup, FailTail, RunGoes, RestOK
  <2>3. InTail(r)' \/ plan'[r] = {}
    BY <1>1, <1>4 DEF WriteAlign, WriteLookup, FailTail, RunGoes, InTail, RestOK
  <2>4. \A d \in Doc : job'[d] = job[d] \/ job'[d] = "failed"
    BY <1>1, <1>4 DEF WriteAlign, WriteLookup, FailTail, RunGoes, RestOK
  <2>5. \A d \in Doc : AtWork(d)' => AtWork(d)
    BY <2>1, <2>4 DEF AtWork
  <2>6. QED
    BY <1>1, <2>1, <2>2, <2>3, <2>5 DEF AloneInv, InTail, Removing
<1>5. QED
  BY <1>2, <1>3, <1>4 DEF RunNext

LEMMA JobAlone ==
  ASSUME RemovalsApart, TypeInv, AloneInv, NEW d \in Doc, JobNext(d)
  PROVE  AloneInv'
<1>1. RestOK /\ Removing' = Removing /\ row' = row /\ run' = run /\ plan' = plan
  BY TypeSplit, JobWrites DEF Removing, JobNext, Fetch, Extract, File, FailJob, JobGoes
<1>2. \A e \in Doc : e # d => (AtWork(e)' <=> AtWork(e))
  BY <1>1 DEF AtWork, JobNext, Fetch, Extract, File, FailJob, JobGoes, RestOK
<1>3. \/ ~ AtWork(d)' \/ AtWork(d)
      \/ d \notin Removing /\ row[d] = "present"
  <2>1. CASE Fetch(d)
    <3>1. files' = files /\ d \notin Removing
      BY <2>1 DEF Fetch, RemovalsApart
    <3>2. job'[d] = IF row[d] = "present" THEN "extracting" ELSE "failed"
      BY <1>1, <2>1 DEF Fetch, JobGoes, RestOK
    <3>3. QED
      BY <3>1, <3>2 DEF AtWork
  <2>2. CASE Extract(d) \/ File(d)
    BY <2>2 DEF AtWork, Extract, File
  <2>3. CASE FailJob(d)
    BY <2>3 DEF AtWork, FailJob
  <2>4. QED
    BY <2>1, <2>2, <2>3 DEF JobNext
<1>4. QED
  BY <1>1, <1>2, <1>3 DEF AloneInv, InTail, Removing

LEMMA RemovalAlone ==
  ASSUME RemovalsApart, TypeInv, AloneInv, NEW d \in Doc, RemovalNext(d)
  PROVE  AloneInv'
<1>1. RestOK /\ files' = files /\ plan' = plan
  BY TypeSplit DEF RemovalNext, Delete, Retry, StartRemoval, DropTriples, DropStatements,
     DropEntity, RemovalGoes, FinishDelete, FinishRetry, BreakRemoval, runVars
<1>2. CASE Delete(d) \/ Retry(d)
  <2>1. PICK why \in {"delete", "retry"} : StartRemoval(d, why)
    BY <1>2 DEF Delete, Retry
  <2>2. Removing' \subseteq Removing \cup {d}
    BY <1>1, <2>1 DEF StartRemoval, Removing, RestOK
  <2>3. /\ ~ AtWork(d) /\ row[d] = "present" /\ \A r \in Run : ~ InTail(r)
        /\ run' = run /\ job' = job /\ row' = row
    BY <2>1 DEF StartRemoval, NoRun, RemovalsApart, AtWork, InTail, runVars
  <2>4. QED
    BY <1>1, <2>2, <2>3 DEF AloneInv, AtWork, InTail
<1>3. CASE DropTriples(d) \/ DropStatements(d) \/ DropEntity(d) \/ BreakRemoval(d)
  <2>1. Removing' \subseteq Removing
    <3>1. ~ \E why \in {"delete", "retry"} : StartRemoval(d, why)
      BY <1>3 DEF DropTriples, DropStatements, DropEntity, BreakRemoval, RemovalGoes,
         StartRemoval, NoRemoval, Removing
    <3>2. QED
      BY <3>1, RemovingNext
  <2>2. run' = run /\ job' = job /\ row' = row
    BY <1>3 DEF DropTriples, DropStatements, DropEntity, BreakRemoval, RemovalGoes, runVars
  <2>3. QED
    BY <1>1, <2>1, <2>2 DEF AloneInv, AtWork, InTail
<1>4. CASE FinishDelete(d) \/ FinishRetry(d)
  <2>1. d \in Removing /\ Removing' = Removing \ {d}
    BY <1>1, <1>4 DEF FinishDelete, FinishRetry, Removing, NoRemoval, RestOK
  <2>2. /\ \A e \in Doc : job'[e] = job[e] \/ job'[e] = "queued"
        /\ \A e \in Doc : e # d => row'[e] = row[e]
        /\ \A r \in Run : run'[r] = run[r] \/ run'[r] = "chord"
    BY <1>1, <1>4 DEF FinishDelete, FinishRetry, RestOK
  <2>3. ~ AtWork(d)' /\ \A e \in Doc : AtWork(e)' => AtWork(e)
    BY <1>1, <2>1, <2>2 DEF AtWork, AloneInv
  <2>4. \A r \in Run : ~ InTail(r) /\ ~ InTail(r)'
    BY <2>1, <2>2 DEF AloneInv, InTail
  <2>5. QED
    BY <1>1, <2>1, <2>2, <2>3, <2>4 DEF AloneInv, Removing
<1>5. QED
  BY <1>2, <1>3, <1>4 DEF RemovalNext

LEMMA NextAloneInv ==
  ASSUME RemovalsApart, TypeInv, AloneInv, [Next]_vars
  PROVE  AloneInv'
<1>1. CASE UNCHANGED vars \/ Curate
  <2>1. UNCHANGED <<runVars, removal>>
    BY <1>1 DEF vars, Curate
  <2>2. QED
    BY <2>1 DEF runVars, AloneInv, InTail, AtWork, Removing
<1>2. ASSUME NEW r \in Run, RunNext(r)
      PROVE  AloneInv'
  BY <1>2, RunAlone
<1>3. ASSUME NEW d \in Doc, JobNext(d) \/ RemovalNext(d)
      PROVE  AloneInv'
  BY <1>3, JobAlone, RemovalAlone
<1>4. QED
  BY <1>1, <1>2, <1>3 DEF Next

-----------------------------------------------------------------------------
(* Origins: every version is derived from a document that has its entity,  *)
(* and nothing is derived from a document whose removal has come so far.   *)

OriginInv ==
  /\ \A d \in Doc : removal[d].pc \in {"entity", "finish"} => From(d) = {}
  /\ \A d \in Doc : removal[d].pc = "finish" => d \notin entity
  /\ \A d \in Doc : job[d] = "extracted" \/ d \in files => d \in entity
  /\ \A r \in Run : \A o \in plan[r] :
       /\ Source[o] \cap entity # {}
       /\ \A d \in Source[o] : row[d] # "removed"
  /\ \A v \in Written : DerivedFrom(v) \cap entity # {} /\ ver[v].root \in Written
  /\ \A d \in Doc : row[d] = "removed" => d \notin entity /\ From(d) = {}

FullInv == ApartInv /\ AloneInv /\ OriginInv

LEMMA InitOriginInv == Init => OriginInv
<1> SUFFICES ASSUME Init PROVE OriginInv
  OBVIOUS
<1>1. Written = {}
  BY DEF Init, Written, C!Written
<1>2. QED
  BY <1>1 DEF Init, OriginInv, NoRemoval, From

\* A document whose removal has come to some step is being removed.
LEMMA AtStep ==
  \A d \in Doc : removal[d].pc \in RemovalStep => d \in Removing
  BY DEF Removing, NoRemoval, RemovalStep

(***************************************************************************)
(* What curators write has the root of something that is there.            *)
(***************************************************************************)
LEMMA CurateOrigins ==
  ASSUME FullInv, Curate
  PROVE  OriginInv'
<1>1. UNCHANGED <<entity, row, job, run, files, plan, removal>>
  BY DEF Curate, runVars
<1>2. ASSUME NEW n \in Written'
      PROVE  \E s \in Written : ver'[n].root = ver[s].root
  <2>1. CASE n \in Written
    BY <2>1, CurateExtends, CurationInv DEF FullInv, ApartInv, Extends
  <2>2. CASE n \notin Written
    BY <2>2, CurateSucceeds, CurationInv DEF FullInv, ApartInv, Succeeds
  <2>3. QED
    BY <2>1, <2>2
<1>3. \A v \in Written : v \in Written'
  BY CurateExtends, CurationInv DEF FullInv, ApartInv, Extends
<1>4. ASSUME NEW n \in Written'
      PROVE  DerivedFrom(n)' \cap entity' # {} /\ ver'[n].root \in Written'
  <2>1. PICK s \in Written : ver'[n].root = ver[s].root
    BY <1>2
  <2>2. DerivedFrom(s) \cap entity # {} /\ ver[s].root \in Written
    BY DEF FullInv, OriginInv
  <2>3. QED
    BY <1>1, <1>3, <2>1, <2>2 DEF DerivedFrom
<1>5. ASSUME NEW d \in Doc, From(d) = {}
      PROVE  From(d)' = {}
  <2> SUFFICES ASSUME NEW n \in Written', d \in DerivedFrom(n)' PROVE FALSE
    BY DEF From
  <2>1. PICK s \in Written : ver'[n].root = ver[s].root
    BY <1>2
  <2>2. s \in From(d)
    BY <2>1 DEF From, DerivedFrom
  <2>3. QED
    BY <1>5, <2>2
<1>6. QED
  BY <1>1, <1>4, <1>5 DEF FullInv, OriginInv

\* What a step that writes originals needs.
LEMMA PutOrigins ==
  ASSUME FullInv, NEW S \in SUBSET Original, Put(S)
  PROVE  /\ \A n \in Written' :
              \/ n \in Written /\ ver'[n].root = ver[n].root
              \/ n \in S /\ ver'[n].root = n
         /\ Written' = Written \cup S
<1>1. HistoryInv
  BY DEF FullInv, ApartInv
<1>2. Extends /\ Written' = Written \cup S
  BY <1>1, PutExtends
<1>3. \A n \in S : ver'[n] = C!Extracted(n)
  BY ExtractedType DEF Put
<1>4. \A n \in S : C!Extracted(n).root = n
  BY DEF C!Extracted
<1>5. \A n \in S : ver'[n].root = n
  BY <1>3, <1>4
<1>6. QED
  BY <1>2, <1>5 DEF Extends

LEMMA ExtractOrigins ==
  ASSUME FullInv, NEW d \in Doc, Extract(d)
  PROVE  OriginInv'
<1> DEFINE S == {o \in Of("extraction") : Source[o] = {d}}
<1>1. S \in SUBSET Original /\ Put(S)
  BY DEF Extract, Of
<1>2. /\ entity' = entity \cup {d} /\ job' = [job EXCEPT ![d] = "extracted"]
      /\ UNCHANGED <<row, run, files, plan, removal>>
  BY DEF Extract, JobGoes
<1>3. AtWork(d) /\ d \notin Removing /\ row[d] = "present"
  BY DEF Extract, AtWork, FullInv, AloneInv
<1>4. ASSUME NEW n \in Written'
      PROVE  /\ DerivedFrom(n)' \cap entity' # {} /\ ver'[n].root \in Written'
             /\ \A e \in Doc : e # d /\ e \in DerivedFrom(n)' => From(e) # {}
  <2>1. CASE n \in Written /\ ver'[n].root = ver[n].root
    <3>1. DerivedFrom(n)' = DerivedFrom(n)
      BY <2>1 DEF DerivedFrom
    <3>2. DerivedFrom(n) \cap entity # {} /\ ver[n].root \in Written
      BY <2>1 DEF FullInv, OriginInv
    <3>3. \A e \in Doc : e \in DerivedFrom(n) => From(e) # {}
      BY <2>1 DEF From
    <3>4. QED
      BY <1>1, <1>2, <2>1, <3>1, <3>2, <3>3, PutOrigins
  <2>2. CASE n \in S /\ ver'[n].root = n
    <3>1. DerivedFrom(n)' = {d}
      BY <2>2 DEF DerivedFrom
    <3>2. QED
      BY <1>2, <2>2, <3>1
  <2> HIDE DEF S
  <2>3. QED
    BY <1>1, <2>1, <2>2, PutOrigins
<1>5. ASSUME NEW e \in Doc, From(e) = {}, e # d
      PROVE  From(e)' = {}
  BY <1>4, <1>5 DEF From
<1>6. \A e \in Doc : removal[e].pc \in {"entity", "finish"} => e # d
  BY <1>3, AtStep DEF RemovalStep
<1>7. \A e \in Doc : job'[e] = "extracted" => e = d \/ job[e] = "extracted"
  BY <1>2, TypeSplit DEF RestOK, FullInv, ApartInv, HistoryInv
<1>8. QED
  BY <1>2, <1>3, <1>4, <1>5, <1>6, <1>7 DEF FullInv, OriginInv

\* Steps that leave the graphs alone.
LEMMA GraphsStay ==
  ASSUME FullInv, UNCHANGED <<ver, entity>>
  PROVE  /\ \A d \in Doc : From(d)' = From(d)
         /\ Written' = Written
         /\ \A v \in Written : DerivedFrom(v)' = DerivedFrom(v)
  BY DEF From, DerivedFrom, Written, C!Written

LEMMA JobOrigins ==
  ASSUME FullInv, NEW d \in Doc, Fetch(d) \/ File(d) \/ FailJob(d)
  PROVE  OriginInv'
<1>1. UNCHANGED <<ver, entity, row, run, plan, removal>>
  BY DEF Fetch, File, FailJob, JobGoes, graphVars
<1>2. \A e \in Doc : job'[e] = "extracted" \/ e \in files'
                       => job[e] = "extracted" \/ e \in files
  BY TypeSplit DEF Fetch, File, FailJob, JobGoes, RestOK, FullInv, ApartInv, HistoryInv
<1>3. QED
  BY <1>1, <1>2, GraphsStay DEF FullInv, OriginInv

LEMMA UploadOrigins ==
  ASSUME FullInv, NEW r \in Run,
         BeginUpload(r) \/ BreakUpload(r) \/ Enqueue(r) \/ \E d \in Doc : CreateRow(r, d)
  PROVE  OriginInv'
<1>1. UNCHANGED <<ver, entity, files, plan, removal>>
  BY DEF BeginUpload, Enqueue, BreakUpload, CreateRow, graphVars
<1>2. RestOK
  BY TypeSplit DEF FullInv, ApartInv, HistoryInv
<1>3. \A d \in Doc : job'[d] = "extracted" => job[d] = "extracted"
  BY <1>2 DEF BeginUpload, Enqueue, BreakUpload, CreateRow, RestOK
<1>4. \A d \in Doc : row'[d] = "removed" => row[d] = "removed"
  BY <1>2 DEF BeginUpload, Enqueue, BreakUpload, CreateRow, RestOK
<1>5. \A s \in Run : \A o \in plan'[s] :
        /\ Source[o] \cap entity' # {}
        /\ \A d \in Source[o] : row'[d] # "removed"
  <2> SUFFICES ASSUME NEW s \in Run, NEW o \in plan[s]
               PROVE  /\ Source[o] \cap entity # {}
                      /\ \A d \in Source[o] : row'[d] # "removed"
    BY <1>1
  <2>1. Source[o] \subseteq Doc
    BY <1>2, DocumentsAssumption DEF RestOK
  <2>2. QED
    BY <1>4, <2>1 DEF FullInv, OriginInv
<1>6. QED
  BY <1>1, <1>3, <1>4, <1>5, GraphsStay DEF FullInv, OriginInv

(***************************************************************************)
(* What a run plans to write is derived from a document that has its       *)
(* entity, and from none that is gone.                                     *)
(***************************************************************************)
Sound(S) ==
  \A o \in S : Source[o] \cap entity # {} /\ \A d \in Source[o] : row[d] # "removed"

LEMMA FiledIsThere ==
  ASSUME FullInv, NEW r \in Run, NEW d \in Filed(r)
  PROVE  d \in Doc /\ d \in entity /\ row[d] = "present" /\ d \in batch[r]
<1>1. d \in Doc /\ d \in files /\ d \in batch[r]
  BY TypeSplit DEF Filed, FullInv, ApartInv, HistoryInv, RestOK
<1>2. QED
  BY <1>1 DEF FullInv, OriginInv, AloneInv, AtWork

LEMMA TracedIsThere ==
  ASSUME FullInv, NEW d \in Doc, Traced(d)
  PROVE  row[d] # "removed"
<1>1. PICK v \in CurrentOf(d) : v \in Original
  BY DEF Traced
<1>2. v \in Written /\ Kind[ver[v].root] = "extraction" /\ Home[ver[v].root] = {d}
  BY DEF CurrentOf
<1>3. ver[v].root = v
  BY <1>1, <1>2 DEF FullInv, ApartInv, HistoryInv, Lineage
<1>4. Source[ver[v].root] = {d}
  BY <1>1, <1>2, <1>3, DocumentsAssumption
<1>5. v \in From(d)
  BY <1>2, <1>4 DEF From, DerivedFrom
<1>6. QED
  BY <1>5 DEF FullInv, OriginInv

LEMMA ProposedIsSound ==
  ASSUME FullInv, NEW r \in Run
  PROVE  Sound(Proposed(r))
<1> SUFFICES ASSUME NEW o \in Proposed(r)
             PROVE  Source[o] \cap entity # {} /\ \A d \in Source[o] : row[d] # "removed"
  BY DEF Sound
<1>1. /\ Home[o] \cap Filed(r) # {}
      /\ Source[o] = {d \in Home[o] : d \in Filed(r) \/ Traced(d)}
  BY DEF Proposed
<1>2. o \in Original /\ Source[o] \subseteq Doc
  BY DocumentsAssumption DEF Proposed, Of
<1>3. PICK d \in Home[o] : d \in Filed(r)
  BY <1>1
<1>4. d \in Source[o] /\ d \in entity
  BY <1>1, <1>3, FiledIsThere
<1>5. ASSUME NEW e \in Source[o]
      PROVE  row[e] # "removed"
  <2>1. CASE e \in Filed(r)
    BY <2>1, FiledIsThere
  <2>2. CASE Traced(e)
    BY <1>2, <2>2, TracedIsThere
  <2>3. QED
    BY <1>1, <2>1, <2>2
<1>6. QED
  BY <1>4, <1>5

LEMMA LookupIsSound ==
  ASSUME FullInv, NEW r \in Run
  PROVE  Sound({o \in Of("lookup") : Home[o] \cap Filed(r) # {} /\ Source[o] = Present(r)})
<1> SUFFICES ASSUME NEW o \in Of("lookup"), Home[o] \cap Filed(r) # {}, Source[o] = Present(r)
             PROVE  Source[o] \cap entity # {} /\ \A d \in Source[o] : row[d] # "removed"
  BY DEF Sound
<1>1. PICK d \in Home[o] : d \in Filed(r)
  OBVIOUS
<1>2. d \in Source[o] /\ d \in entity
  BY <1>1, FiledIsThere DEF Present
<1>3. QED
  BY <1>2 DEF Present

(***************************************************************************)
(* Whatever part of its plan a run writes, and however it goes on.         *)
(***************************************************************************)
LEMMA PlanOrigins ==
  ASSUME FullInv, NEW r \in Run, NEW S \in SUBSET Original, Put(S), S \subseteq plan[r],
         InTail(r),
         UNCHANGED <<entity, row, removal>>,
         \A s \in Run : plan'[s] \subseteq plan[s],
         \A d \in Doc : job'[d] = "extracted" \/ d \in files' => job[d] = "extracted" \/ d \in files
  PROVE  OriginInv'
<1>1. Removing = {}
  BY DEF FullInv, AloneInv
<1>2. Sound(S) /\ S \subseteq Written'
  BY PutOrigins DEF Sound, FullInv, OriginInv
<1>3. ASSUME NEW n \in Written'
      PROVE  /\ DerivedFrom(n)' \cap entity' # {} /\ ver'[n].root \in Written'
             /\ \A d \in Doc : d \in DerivedFrom(n)' => row[d] # "removed"
  <2>1. CASE n \in Written /\ ver'[n].root = ver[n].root
    <3>1. DerivedFrom(n)' = DerivedFrom(n)
      BY <2>1 DEF DerivedFrom
    <3>2. DerivedFrom(n) \cap entity # {} /\ ver[n].root \in Written
      BY <2>1 DEF FullInv, OriginInv
    <3>3. \A d \in Doc : d \in DerivedFrom(n) => From(d) # {}
      BY <2>1 DEF From
    <3>4. ver[n].root \in Written'
      BY <3>2, PutOrigins
    <3>5. QED
      BY <2>1, <3>1, <3>2, <3>3, <3>4 DEF FullInv, OriginInv
  <2>2. CASE n \in S /\ ver'[n].root = n
    <3>1. DerivedFrom(n)' = Source[n]
      BY <2>2 DEF DerivedFrom
    <3>2. QED
      BY <1>2, <2>2, <3>1 DEF Sound
  <2>3. QED
    BY <2>1, <2>2, PutOrigins
<1>4. \A d \in Doc : row[d] = "removed" => From(d)' = {}
  BY <1>3 DEF From
<1>5. \A d \in Doc : removal[d].pc \notin {"entity", "finish"}
  BY <1>1, AtStep DEF RemovalStep
<1>6. QED
  BY <1>3, <1>4, <1>5 DEF FullInv, OriginInv

LEMMA TailOrigins ==
  ASSUME RemovalsApart, FullInv, NEW r \in Run, TailNext(r)
  PROVE  OriginInv'
<1>1. RestOK /\ plan[r] \subseteq Original
  BY TypeSplit DEF FullInv, ApartInv, HistoryInv, RestOK
<1>2. ASSUME NEW S, Sound(S), plan' = [plan EXCEPT ![r] = S],
             UNCHANGED <<graphVars, job, files, row, removal>>
      PROVE  OriginInv'
  <2>1. \A s \in Run : Sound(plan[s])'
    BY <1>1, <1>2 DEF Sound, FullInv, OriginInv, graphVars, RestOK
  <2>2. QED
    BY <1>2, <2>1, GraphsStay DEF Sound, FullInv, OriginInv, graphVars
<1>3. CASE ListAlign(r)
  BY <1>2, <1>3, ProposedIsSound DEF ListAlign, RunGoes
<1>4. CASE ListLookup(r)
  BY <1>2, <1>4, LookupIsSound DEF ListLookup, RunGoes
<1>5. CASE WriteAlign(r)
  <2>1. PICK o \in plan[r] : Put({o}) /\ RunGoes(r, "align", plan[r] \ {o})
    BY <1>5 DEF WriteAlign
  <2>2. /\ InTail(r) /\ UNCHANGED <<entity, job, files, row, removal>>
        /\ \A s \in Run : plan'[s] \subseteq plan[s]
    BY <1>1, <1>5, <2>1 DEF WriteAlign, RunGoes, InTail, RestOK
  <2>3. {o} \in SUBSET Original /\ {o} \subseteq plan[r]
    BY <1>1
  <2>4. QED
    BY <2>1, <2>2, <2>3, PlanOrigins
<1>6. CASE WriteLookup(r)
  <2>1. /\ InTail(r) /\ UNCHANGED <<entity, job, row, removal>> /\ files' \subseteq files
        /\ \A s \in Run : plan'[s] \subseteq plan[s]
        /\ Put(plan[r])
    BY <1>1, <1>6 DEF WriteLookup, RunGoes, InTail, RestOK
  <2>2. plan[r] \in SUBSET Original /\ plan[r] \subseteq plan[r]
    BY <1>1
  <2>3. QED
    BY <2>1, <2>2, PlanOrigins
<1>7. CASE FailTail(r)
  <2>1. /\ UNCHANGED <<ver, entity, row, removal>> /\ files' \subseteq files
        /\ \A s \in Run : plan'[s] \subseteq plan[s]
        /\ \A d \in Doc : job'[d] = "extracted" => job[d] = "extracted"
    BY <1>1, <1>7 DEF FailTail, RunGoes, RestOK, graphVars
  <2>2. QED
    BY <2>1, GraphsStay DEF FullInv, OriginInv
<1>8. QED
  BY <1>3, <1>4, <1>5, <1>6, <1>7 DEF TailNext

(***************************************************************************)
(* A removal takes the statements before the entity they need, and ends    *)
(* when both are gone.                                                     *)
(***************************************************************************)
LEMMA RemovingIsAlone ==
  ASSUME FullInv, NEW d \in Removing
  PROVE  /\ \A r \in Run : plan[r] = {}
         /\ job[d] # "extracted" /\ d \notin files
  BY DEF FullInv, AloneInv, AtWork

LEMMA DropOrigins ==
  ASSUME FullInv, NEW d \in Doc, DropStatements(d) \/ DropEntity(d)
  PROVE  OriginInv'
<1>1. HistoryInv /\ RestOK
  BY TypeSplit DEF FullInv, ApartInv, HistoryInv
<1>2. UNCHANGED <<row, job, run, files, plan>> /\ d \in Removing
  BY DEF DropStatements, DropEntity, RemovalGoes, runVars, Removing, NoRemoval
<1>3. /\ \A r \in Run : plan[r] = {}
      /\ job[d] # "extracted" /\ d \notin files
  BY <1>2, RemovingIsAlone
<1>4. CASE DropStatements(d)
  <2>1. /\ TakesAway(d) /\ entity' = entity
        /\ removal' = [removal EXCEPT ![d].pc = "entity"]
    BY <1>4 DEF DropStatements, RemovalGoes, TakesAway
  <2>2. Written' = Written \ From(d) /\ \A v \in Written' : ver'[v] = ver[v]
    BY <1>1, <2>1, StaysOrGoes
  <2>3. \A e \in Doc : From(e)' = From(e) \ From(d)
    BY <2>2 DEF From, DerivedFrom
  <2>4. ASSUME NEW v \in Written'
        PROVE  DerivedFrom(v)' \cap entity' # {} /\ ver'[v].root \in Written'
    <3>1. v \in Written /\ v \notin From(d) /\ ver'[v] = ver[v]
      BY <2>2
    <3>2. DerivedFrom(v) \cap entity # {} /\ ver[v].root \in Written
      BY <3>1 DEF FullInv, OriginInv
    <3>3. ver[ver[v].root].root = ver[v].root
      BY <1>1, <3>1, <3>2, WrittenRecords DEF HistoryInv, Lineage
    <3>4. ver[v].root \notin From(d)
      BY <3>1, <3>3 DEF From, DerivedFrom
    <3>5. QED
      BY <2>1, <2>2, <3>1, <3>2, <3>4 DEF DerivedFrom
  <2>5. From(d)' = {}
    BY <2>3
  <2>6. \A e \in Doc : e # d => removal'[e] = removal[e]
    BY <1>1, <2>1 DEF RestOK
  <2>7. removal'[d].pc = "entity"
    BY <1>1, <1>2, <2>1 DEF RestOK, Removing
  <2>8. \A e \in Doc : From(e) = {} => From(e)' = {}
    BY <2>3
  <2>9. QED
    BY <1>2, <1>3, <2>1, <2>4, <2>5, <2>6, <2>7, <2>8 DEF FullInv, OriginInv
<1>5. CASE DropEntity(d)
  <2>1. /\ ver' = ver /\ entity' = entity \ {d} /\ removal[d].pc = "entity"
        /\ removal' = [removal EXCEPT ![d].pc = "finish"]
    BY <1>5 DEF DropEntity, RemovalGoes
  <2>2. /\ \A e \in Doc : From(e)' = From(e)
        /\ Written' = Written
        /\ \A v \in Written : DerivedFrom(v)' = DerivedFrom(v)
    BY <2>1 DEF From, DerivedFrom, Written, C!Written
  <2>3. From(d) = {}
    BY <2>1 DEF FullInv, OriginInv
  <2>4. \A e \in Doc : e # d => removal'[e] = removal[e]
    BY <1>1, <2>1 DEF RestOK
  <2>5. \A v \in Written : d \notin DerivedFrom(v)
    BY <2>3 DEF From
  <2>6. \A v \in Written : DerivedFrom(v) \cap entity' # {} /\ ver[v].root \in Written
    BY <2>1, <2>5 DEF FullInv, OriginInv
  <2>7. QED
    BY <1>2, <1>3, <2>1, <2>2, <2>3, <2>4, <2>6 DEF FullInv, OriginInv
<1>6. QED
  BY <1>4, <1>5

LEMMA RemovalOrigins ==
  ASSUME FullInv, NEW d \in Doc, RemovalNext(d)
  PROVE  OriginInv'
<1>1. RestOK
  BY TypeSplit DEF FullInv, ApartInv, HistoryInv
<1>2. CASE Delete(d) \/ Retry(d)
  <2>1. PICK why \in {"delete", "retry"} : StartRemoval(d, why)
    BY <1>2 DEF Delete, Retry
  <2>2. /\ UNCHANGED <<ver, entity, row, job, files, plan>>
        /\ \A e \in Doc : removal'[e].pc \in {"entity", "finish"} => removal'[e] = removal[e]
    BY <1>1, <2>1 DEF StartRemoval, graphVars, runVars, RestOK
  <2>3. QED
    BY <2>2, GraphsStay DEF FullInv, OriginInv
<1>3. CASE DropTriples(d)
  <2>1. /\ UNCHANGED <<ver, entity, row, job, files, plan>>
        /\ removal' = [removal EXCEPT ![d].pc = "statements"]
    BY <1>3 DEF DropTriples, RemovalGoes, runVars
  <2>2. \A e \in Doc : removal'[e].pc \in {"entity", "finish"} => removal'[e] = removal[e]
    BY <1>1, <2>1 DEF RestOK
  <2>3. QED
    BY <2>1, <2>2, GraphsStay DEF FullInv, OriginInv
<1>4. CASE FinishDelete(d)
  <2>1. /\ UNCHANGED <<ver, entity, job, files, plan>> /\ removal[d].pc = "finish"
        /\ removal' = [removal EXCEPT ![d] = NoRemoval] /\ row' = [row EXCEPT ![d] = "removed"]
    BY <1>4 DEF FinishDelete, graphVars
  <2>2. \A e \in Doc : removal'[e].pc \in {"entity", "finish"} => removal'[e] = removal[e]
    BY <1>1, <2>1 DEF RestOK, NoRemoval
  <2>3. \A e \in Doc : row'[e] = "removed" => e = d \/ row[e] = "removed"
    BY <1>1, <2>1 DEF RestOK
  <2>4. d \notin entity /\ From(d) = {}
    BY <2>1 DEF FullInv, OriginInv
  <2>5. \A r \in Run : plan[r] = {}
    BY <2>1, AtStep, RemovingIsAlone DEF RemovalStep
  <2>6. QED
    BY <2>1, <2>2, <2>3, <2>4, <2>5, GraphsStay DEF FullInv, OriginInv
<1>5. CASE FinishRetry(d) \/ BreakRemoval(d)
  <2>1. /\ UNCHANGED <<ver, entity, row, files, plan>>
        /\ removal' = [removal EXCEPT ![d] = NoRemoval]
        /\ \A e \in Doc : job'[e] = "extracted" => job[e] = "extracted"
    BY <1>1, <1>5 DEF FinishRetry, BreakRemoval, graphVars, runVars, RestOK
  <2>2. \A e \in Doc : removal'[e].pc \in {"entity", "finish"} => removal'[e] = removal[e]
    BY <1>1, <2>1 DEF RestOK, NoRemoval
  <2>3. QED
    BY <2>1, <2>2, GraphsStay DEF FullInv, OriginInv
<1>6. QED
  BY <1>2, <1>3, <1>4, <1>5, DropOrigins DEF RemovalNext

LEMMA NextFullInv == RemovalsApart /\ FullInv /\ [Next]_vars => FullInv'
<1> SUFFICES ASSUME RemovalsApart, FullInv, [Next]_vars PROVE FullInv'
  OBVIOUS
<1>1. ApartInv' /\ AloneInv'
  BY NextApartInv, NextAloneInv
  DEF RemovalsApart, CuratorsApart, FullInv, ApartInv, HistoryInv
<1>2. CASE UNCHANGED vars
  <2>1. UNCHANGED <<ver, entity, row, job, files, plan, removal>>
    BY <1>2 DEF vars, graphVars, runVars
  <2>2. OriginInv'
    BY <2>1, GraphsStay DEF FullInv, OriginInv
  <2>3. QED
    BY <1>1, <2>2 DEF FullInv
<1>3. CASE Curate
  BY <1>1, <1>3, CurateOrigins DEF FullInv
<1>4. ASSUME NEW r \in Run, RunNext(r)
      PROVE  FullInv'
  BY <1>1, <1>4, UploadOrigins, TailOrigins DEF FullInv, RunNext, TailNext
<1>5. ASSUME NEW d \in Doc, JobNext(d) \/ RemovalNext(d)
      PROVE  FullInv'
  BY <1>1, <1>5, JobOrigins, ExtractOrigins, RemovalOrigins DEF FullInv, JobNext
<1>6. QED
  BY <1>2, <1>3, <1>4, <1>5 DEF Next

LEMMA AlwaysFullInv ==
  ASSUME RemovalsApart PROVE Spec => []FullInv
<1>1. RemovalsApart
  OBVIOUS
<1>2. Init => FullInv
  BY InitApartInv, InitAloneInv, InitOriginInv DEF FullInv
<1>3. QED
  BY <1>1, <1>2, NextFullInv, PTL DEF Spec

(***************************************************************************)
(* When removals keep apart from curators and runs, a document whose row   *)
(* is gone has left neither its entity nor a version derived from it, for  *)
(* every interleaving of uploads, runs, curators and removals and wherever *)
(* they break off: delete_document_data takes the statements, then the     *)
(* entity, and the row is deleted last.                                    *)
(***************************************************************************)
THEOREM RemovalLeavesNothing ==
  ASSUME RemovalsApart PROVE Spec => []NoTraceLeft
<1>1. FullInv => NoTraceLeft
  BY DEF FullInv, OriginInv, NoTraceLeft, From
<1>2. QED
  BY <1>1, AlwaysFullInv, PTL

(***************************************************************************)
(* Under the same condition every version has its chain of predecessors,   *)
(* the original at its end, and a source document that still has its       *)
(* entity: what find_original_candidate_statement needs for a reset.       *)
(***************************************************************************)
THEOREM EveryVersionCanBeReset ==
  ASSUME RemovalsApart PROVE Spec => []EveryStatementHasAnOrigin
<1>1. FullInv => EveryStatementHasAnOrigin
  BY DEF FullInv, ApartInv, HistoryInv, Lineage, OriginInv, EveryStatementHasAnOrigin
<1>2. QED
  BY <1>1, AlwaysFullInv, PTL

-----------------------------------------------------------------------------
(* What the steps do to the graphs, in three kinds.                        *)

LEMMA GraphSteps ==
  ASSUME TypeInv, [Next]_vars
  PROVE  \/ Curate
         \/ /\ UNCHANGED <<req, faults, abandoned>>
            /\ \/ ver' = ver
               \/ \E S \in SUBSET Original : Put(S)
               \/ \E d \in Doc : TakesAway(d)
<1>1. CASE UNCHANGED vars
  BY <1>1 DEF vars, graphVars
<1>2. ASSUME NEW r \in Run, RunNext(r)
      PROVE  /\ UNCHANGED <<req, faults, abandoned>>
             /\ ver' = ver \/ \E S \in SUBSET Original : Put(S)
  <2>1. /\ UNCHANGED <<req, faults, abandoned>> /\ plan[r] \in SUBSET Original
        /\ ver' = ver \/ \E S \in SUBSET plan[r] : Put(S)
    BY <1>2, RunWrites
  <2>2. \A S \in SUBSET plan[r] : S \in SUBSET Original
    BY <2>1
  <2>3. QED
    BY <2>1, <2>2
<1>3. ASSUME NEW d \in Doc, JobNext(d)
      PROVE  /\ UNCHANGED <<req, faults, abandoned>>
             /\ ver' = ver \/ \E S \in SUBSET Original : Put(S)
  <2>1. {o \in Of("extraction") : Source[o] = {d}} \in SUBSET Original
    BY DEF Of
  <2>2. QED
    BY <1>3, <2>1, JobWrites
<1>4. ASSUME NEW d \in Doc, RemovalNext(d)
      PROVE  UNCHANGED <<req, faults, abandoned>> /\ (ver' = ver \/ TakesAway(d))
  BY <1>4, RemovalWrites
<1>5. QED
  BY <1>1, <1>2, <1>3, <1>4 DEF Next

\* The root of a version after a step is that of one before, or an original that is written.
LEMMA CurateRoots ==
  ASSUME ApartInv, Curate, NEW n \in Written'
  PROVE  \E s \in Written : ver'[n].root = ver[s].root
<1>1. CASE n \in Written
  BY <1>1, CurateExtends, CurationInv DEF ApartInv, Extends
<1>2. CASE n \notin Written
  BY <1>2, CurateSucceeds, CurationInv DEF ApartInv, Succeeds
<1>3. QED
  BY <1>1, <1>2

\* Curators draw no id of an original.
LEMMA CurateOriginals ==
  ASSUME Curate PROVE \A o \in Original : o \in Written' => o \in Written
  BY DEF Curate, Fresh, Written, C!Written

LEMMA RootWritten ==
  ASSUME FullInv, NEW v \in Written
  PROVE  /\ ver[v].root \in Written /\ ver[v].root \in Original
         /\ ver[ver[v].root].root = ver[v].root
<1>1. ver[v].root \in Written /\ ver[v].root \in Original
  BY WrittenRecords DEF FullInv, ApartInv, HistoryInv, OriginInv
<1>2. QED
  BY <1>1 DEF FullInv, ApartInv, HistoryInv, Lineage

-----------------------------------------------------------------------------
(* No statement is lost, also when originals come and go.                  *)

PresentInv == \A o \in (Original \cap Written) \ abandoned : P!Present(o)

LEMMA CuratePresent ==
  ASSUME ApartInv, PresentInv, Curate, P!Inv' PROVE PresentInv'
<1> SUFFICES ASSUME NEW o \in Original, o \in Written', o \notin abandoned'
             PROVE  P!Present(o)'
  BY DEF PresentInv
<1>1. P!Inv /\ [P!Next]_P!vars
  BY CurationInv, SameNext DEF Curate
<1>2. o \in Written /\ o \notin abandoned
  BY <1>1, CurateOriginals, Assumed, P!AbandonedStays
<1>3. P!Present(o)
  BY <1>2 DEF PresentInv
<1>4. QED
  BY <1>1, <1>3, Assumed, P!NextPresent

LEMMA PutPresent ==
  ASSUME HistoryInv, PresentInv, NEW S \in SUBSET Original, Put(S), UNCHANGED <<req, faults, abandoned>>
  PROVE  PresentInv'
<1> SUFFICES ASSUME NEW o \in Original, o \in Written', o \notin abandoned
             PROVE  P!Present(o)'
  BY DEF PresentInv
<1>1. \A v \in S : /\ v \in Version /\ ver'[v] = C!Extracted(v) /\ ver'[v] # None
                   /\ C!Extracted(v).root = v /\ C!Extracted(v).current
  BY ExtractedType DEF Put, C!Extracted
<1>2. CASE o \in S
  BY <1>1, <1>2 DEF P!Present, P!HasCurrent, P!Chain, P!Written
<1>3. CASE o \notin S
  <2>1. P!Present(o)
    BY <1>3, PutExtends DEF PresentInv
  <2>2. CASE P!HasCurrent(o)
    <3>1. PICK v \in P!Chain(o) : ver[v].current
      BY <2>2 DEF P!HasCurrent
    <3>2. v \in Version /\ ver[v] # None /\ ver[v].root = o /\ v \in Written
      BY <3>1, SameState DEF P!Chain, P!Written
    <3>3. CASE v \in S
      <4>1. ver[v].root = v
        BY <3>2, <3>3 DEF HistoryInv, Lineage
      <4>2. QED
        BY <1>3, <3>2, <3>3, <4>1
    <3>4. CASE v \notin S
      <4>1. ver'[v] = ver[v]
        BY <3>2, <3>4 DEF Put
      <4>2. QED
        BY <3>1, <3>2, <4>1 DEF P!Present, P!HasCurrent, P!Chain, P!Written
    <3>5. QED
      BY <3>3, <3>4
  <2>3. CASE \E c \in Curator : P!Inserting(c, o)
    BY <2>3 DEF P!Present, P!Inserting, P!Target
  <2>4. QED
    BY <2>1, <2>2, <2>3 DEF P!Present
<1>4. QED
  BY <1>2, <1>3

LEMMA TakesAwayPresent ==
  ASSUME HistoryInv, PresentInv, NEW d \in Doc, TakesAway(d), UNCHANGED <<req, faults, abandoned>>
  PROVE  PresentInv'
<1> SUFFICES ASSUME NEW o \in Original, o \in Written', o \notin abandoned
             PROVE  P!Present(o)'
  BY DEF PresentInv
<1>1. o \in Written /\ o \notin From(d)
  BY StaysOrGoes
<1>2. d \notin Source[o]
  BY <1>1 DEF HistoryInv, Lineage, From, DerivedFrom
<1>3. P!Present(o)
  BY <1>1 DEF PresentInv
<1>4. CASE P!HasCurrent(o)
  <2>1. PICK v \in P!Chain(o) : ver[v].current
    BY <1>4 DEF P!HasCurrent
  <2>2. v \in Written /\ ver[v].root = o
    BY <2>1, SameState DEF P!Chain
  <2>3. v \in Written' /\ ver'[v] = ver[v]
    BY <1>2, <2>2, StaysOrGoes DEF From, DerivedFrom
  <2>4. v \in P!Written'
    BY <2>3 DEF Written, C!Written, P!Written
  <2>5. QED
    BY <2>1, <2>2, <2>3, <2>4 DEF P!Present, P!HasCurrent, P!Chain
<1>5. CASE \E c \in Curator : P!Inserting(c, o)
  BY <1>5 DEF P!Present, P!Inserting, P!Target
<1>6. QED
  BY <1>3, <1>4, <1>5 DEF P!Present

LEMMA NextPresentInv ==
  ASSUME ApartInv, ApartInv', PresentInv, [Next]_vars PROVE PresentInv'
<1>1. HistoryInv /\ TypeInv /\ P!Inv'
  BY CurationInv, PTL DEF ApartInv, HistoryInv
<1>2. CASE UNCHANGED <<ver, req, faults, abandoned>>
  BY <1>2 DEF PresentInv, Written, C!Written, P!Present, P!HasCurrent, P!Chain, P!Written,
              P!Inserting, P!Target
<1>3. QED
  BY <1>1, <1>2, GraphSteps, CuratePresent, PutPresent, TakesAwayPresent

-----------------------------------------------------------------------------
(* What a statement says is what was extracted or what a curator typed.    *)

LEMMA NextPurpose ==
  ASSUME BadEdits = FALSE, ApartInv, ApartInv', P!PurposeInv, [Next]_vars
  PROVE  P!PurposeInv'
<1>1. HistoryInv /\ TypeInv /\ P!Inv /\ P!Inv' /\ Lineage'
  BY CurationInv, PTL DEF ApartInv, HistoryInv
<1>2. CASE Curate
  <2>1. P!OriginalsNotDrawn
    BY <1>2, CurateOriginals DEF P!OriginalsNotDrawn, P!Written, Written, C!Written
  <2>2. [P!Next]_P!vars
    BY <1>2, SameNext DEF Curate
  <2>3. QED
    BY <1>1, <2>1, <2>2, Assumed, P!NextPurposeInv
<1>3. ASSUME req' = req,
             \A v \in Written' :
               \/ v \in Written /\ ver'[v].triple = ver[v].triple /\ ver'[v].root = ver[v].root
               \/ v \in Original
      PROVE  P!PurposeInv'
  <2>1. (\A c \in Curator : P!Purpose(req[c]))'
    BY <1>3 DEF P!PurposeInv, P!Purpose, P!ValidEdit
  <2>2. \A v \in Written' : v \in Original =>
          ver'[v].root = v /\ ver'[v].triple = OriginalTriple[v]
    BY <1>1 DEF Lineage
  <2>3. P!Written' = Written'
    BY DEF P!Written, Written, C!Written
  <2>4. P!OriginalsKept'
    BY <2>2, <2>3 DEF P!OriginalsKept
  <2>5. P!OwnTriplesOnly'
    BY <1>3, <2>2, <2>3, SameState DEF P!PurposeInv, P!OwnTriplesOnly, P!Own
  <2>6. QED
    BY <2>1, <2>4, <2>5 DEF P!PurposeInv
<1>4. CASE req' = req /\ ver' = ver
  BY <1>3, <1>4 DEF Written, C!Written
<1>5. ASSUME req' = req, NEW S \in SUBSET Original, Put(S)
      PROVE  P!PurposeInv'
  <2>1. Extends /\ Written' = Written \cup S
    BY <1>1, <1>5, PutExtends
  <2>2. QED
    BY <1>3, <1>5, <2>1 DEF Extends
<1>6. ASSUME req' = req, NEW d \in Doc, TakesAway(d)
      PROVE  P!PurposeInv'
  BY <1>1, <1>3, <1>6, StaysOrGoes
<1>7. QED
  BY <1>1, <1>2, <1>4, <1>5, <1>6, GraphSteps

-----------------------------------------------------------------------------
(* No pair is proposed twice: an alignment that is there has a current     *)
(* version with its triple or a curator who replaces one, the list is made *)
(* while nobody does, and no other run aligns until it is written.         *)

Aligned(v) == Kind[ver[v].root] = "alignment"

\* Removals keep apart from all other work, and alignments from curators.
NothingOverlaps == Overlap = {}

\* Nobody edits an alignment.
PairsStay == BadEdits = FALSE /\ \A o \in Of("alignment") : Edits[o] = {}

\* The id of an alignment is a hash of the pair, the run and the documents it is
\* derived from; where the two entities are from is a matter of the pair.
PairIds ==
  \A o, p \in Of("alignment") : OriginalTriple[o] = OriginalTriple[p] =>
    Home[o] = Home[p] /\ (By[o] = By[p] /\ Source[o] = Source[p] => o = p)

AlignsAlone == \A r, s \in Run : run[r] = "align" /\ run[s] = "align" => r = s

\* A run writes what its task is about.
PlansInv ==
  \A r \in Run : /\ run[r] = "align" => plan[r] \subseteq Of("alignment")
                 /\ run[r] = "lookup" => plan[r] \subseteq Of("lookup")

PairInv ==
  /\ \A r \in Run : run[r] = "align" =>
       /\ \A o, p \in plan[r] : OriginalTriple[o] = OriginalTriple[p] => o = p
       /\ abandoned = {} =>
            \A v \in Written : Aligned(v) =>
              \A o \in plan[r] : OriginalTriple[ver[v].root] # OriginalTriple[o]
  /\ PairStatedOnce

KeptInv == FullInv /\ AlignsAlone /\ PlansInv /\ PresentInv /\ P!PurposeInv /\ PairInv

LEMMA AbandonedGrows ==
  ASSUME Curate, abandoned' = {} PROVE abandoned = {}
  BY SameNext, Assumed, P!AbandonedStays DEF Curate

LEMMA NextAlignsAlone ==
  ASSUME TypeInv, AlignsAlone, [Next]_vars PROVE AlignsAlone'
<1>1. RestOK
  BY TypeSplit
<1>2. CASE UNCHANGED vars \/ Curate
  BY <1>2 DEF vars, Curate, runVars, AlignsAlone
<1>3. ASSUME NEW r \in Run, RunNext(r)
      PROVE  AlignsAlone'
  <2>1. \A s \in Run : s # r => run'[s] = run[s]
    BY <1>1, <1>3 DEF RestOK, RunNext, BeginUpload, Enqueue, BreakUpload, CreateRow, ListAlign,
       WriteAlign, ListLookup, WriteLookup, FailTail, RunGoes
  <2>2. CASE ListAlign(r)
    BY <2>1, <2>2 DEF ListAlign, AlignsAlone
  <2>3. CASE ~ ListAlign(r)
    <3>1. run'[r] = "align" => run[r] = "align"
      BY <1>1, <1>3, <2>3 DEF RestOK, RunNext, BeginUpload, Enqueue, BreakUpload, CreateRow,
         WriteAlign, ListLookup, WriteLookup, FailTail, RunGoes
    <3>2. QED
      BY <2>1, <3>1 DEF AlignsAlone
  <2>4. QED
    BY <2>2, <2>3
<1>4. ASSUME NEW d \in Doc, JobNext(d) \/ RemovalNext(d)
      PROVE  AlignsAlone'
  <2>1. \A r \in Run : run'[r] = "align" => run[r] = "align"
    BY <1>1, <1>4 DEF RestOK, JobNext, Fetch, Extract, File, FailJob, JobGoes, RemovalNext, Delete,
       Retry, StartRemoval, DropTriples, DropStatements, DropEntity, RemovalGoes, FinishDelete,
       FinishRetry, BreakRemoval, runVars
  <2>2. QED
    BY <2>1 DEF AlignsAlone
<1>5. QED
  BY <1>2, <1>3, <1>4 DEF Next

LEMMA NextPlansInv ==
  ASSUME TypeInv, PlansInv, AloneInv, [Next]_vars PROVE PlansInv'
<1>1. RestOK
  BY TypeSplit
<1>2. CASE UNCHANGED vars \/ Curate
  BY <1>2 DEF vars, Curate, runVars, PlansInv
<1>3. ASSUME NEW r \in Run, RunNext(r)
      PROVE  PlansInv'
  <2>1. \A s \in Run : s # r => run'[s] = run[s] /\ plan'[s] = plan[s]
    BY <1>1, <1>3 DEF RestOK, RunNext, BeginUpload, Enqueue, BreakUpload, CreateRow, ListAlign,
       WriteAlign, ListLookup, WriteLookup, FailTail, RunGoes
  <2>2. /\ run'[r] = "align" => plan'[r] \subseteq Of("alignment")
        /\ run'[r] = "lookup" => plan'[r] \subseteq Of("lookup")
    <3>1. CASE ListAlign(r)
      BY <1>1, <3>1 DEF RestOK, ListAlign, RunGoes, Proposed
    <3>2. CASE ListLookup(r)
      <4>1. /\ run' = [run EXCEPT ![r] = "lookup"]
            /\ plan' = [plan EXCEPT ![r] =
                 {o \in Of("lookup") : Home[o] \cap Filed(r) # {} /\ Source[o] = Present(r)}]
        BY <3>2 DEF ListLookup, RunGoes
      <4>2. run'[r] = "lookup" /\ plan'[r] \subseteq Of("lookup")
        BY <1>1, <4>1 DEF RestOK
      <4>3. QED
        BY <4>2
    <3>3. CASE WriteAlign(r)
      BY <1>1, <3>3 DEF RestOK, WriteAlign, RunGoes, PlansInv
    <3>4. CASE ~ ListAlign(r) /\ ~ ListLookup(r) /\ ~ WriteAlign(r)
      BY <1>1, <1>3, <3>4 DEF RestOK, RunNext, BeginUpload, Enqueue, BreakUpload, CreateRow,
         WriteLookup, FailTail, RunGoes, PlansInv
    <3>5. QED
      BY <3>1, <3>2, <3>3, <3>4
  <2>3. QED
    BY <2>1, <2>2 DEF PlansInv
<1>4. ASSUME NEW d \in Doc, JobNext(d) \/ RemovalNext(d)
      PROVE  PlansInv'
  <2>1. /\ plan' = plan
        /\ \A r \in Run : run'[r] = run[r] \/ run'[r] = "chord"
    BY <1>1, <1>4 DEF RestOK, JobNext, Fetch, Extract, File, FailJob, JobGoes, RemovalNext, Delete,
       Retry, StartRemoval, DropTriples, DropStatements, DropEntity, RemovalGoes, FinishDelete,
       FinishRetry, BreakRemoval, runVars
  <2>2. QED
    BY <2>1 DEF PlansInv
<1>5. QED
  BY <1>2, <1>3, <1>4 DEF Next

\* A pair whose alignment is there is stated, or a curator replaces it.
LEMMA AlignedIsStated ==
  ASSUME PairsStay, FullInv, PresentInv, P!PurposeInv, abandoned = {},
         NEW v \in Written, Aligned(v), NEW o, OriginalTriple[ver[v].root] = OriginalTriple[o]
  PROVE  Stated(o) \/ Replacing
<1> DEFINE p == ver[v].root
<1>1. p \in Written /\ p \in Original /\ p \in Of("alignment")
  BY RootWritten DEF Aligned, Of
<1>2. P!Present(p)
  BY <1>1 DEF PresentInv
<1>3. CASE P!HasCurrent(p)
  <2>1. PICK w \in P!Chain(p) : ver[w].current
    BY <1>3 DEF P!HasCurrent
  <2>2. w \in Written /\ ver[w].root = p
    BY <2>1, SameState DEF P!Chain
  <2>3. ver[w].triple \in P!Own(p)
    BY <2>2, SameState DEF P!PurposeInv, P!OwnTriplesOnly
  <2>4. ver[w].triple = OriginalTriple[p]
    BY <1>1, <2>3 DEF P!Own, PairsStay
  <2>5. QED
    BY <2>1, <2>2, <2>4 DEF Stated, Aligned
<1>4. CASE \E c \in Curator : P!Inserting(c, p)
  <2>1. PICK c \in Curator : P!Inserting(c, p)
    BY <1>4
  <2>2. req[c].pc = "insert" /\ \E w \in C!Target(c) : req[c].load[w].root = p
    BY <2>1, SameState DEF P!Inserting
  <2>3. QED
    BY <2>2 DEF Replacing, Aligned
<1>5. QED
  BY <1>2, <1>3, <1>4 DEF P!Present

\* As long as the roots of the alignments and the plans stay.
LEMMA PairsKept ==
  ASSUME FullInv, Lineage', PairInv, abandoned' = {} => abandoned = {},
         \A n \in Written' : Aligned(n)' => \E s \in Written : ver'[n].root = ver[s].root,
         \A r \in Run : run'[r] = "align" => run[r] = "align" /\ plan'[r] \subseteq plan[r]
  PROVE  PairInv'
<1>1. ASSUME NEW n \in Written', Aligned(n)'
      PROVE  \E s \in Written : Aligned(s) /\ ver'[n].root = ver[s].root
  BY <1>1 DEF Aligned
<1>2. ASSUME NEW o \in Of("alignment"), o \in Written'
      PROVE  o \in Written
  <2>1. ver'[o].root = o /\ Aligned(o)'
    BY <1>2 DEF Lineage, Of, Aligned
  <2>2. PICK s \in Written : ver[s].root = o
    BY <1>1, <1>2, <2>1
  <2>3. QED
    BY <2>2, RootWritten
<1>3. PairStatedOnce'
  BY <1>2 DEF PairInv, PairStatedOnce
<1>4. ASSUME NEW r \in Run, run'[r] = "align"
      PROVE  \A o, p \in plan'[r] : OriginalTriple[o] = OriginalTriple[p] => o = p
  BY <1>4 DEF PairInv
<1>5. ASSUME NEW r \in Run, run'[r] = "align", abandoned' = {},
             NEW v \in Written', Aligned(v)', NEW o \in plan'[r]
      PROVE  OriginalTriple[ver'[v].root] # OriginalTriple[o]
  <2>1. PICK s \in Written : Aligned(s) /\ ver'[v].root = ver[s].root
    BY <1>1, <1>5
  <2>2. QED
    BY <1>5, <2>1 DEF PairInv
<1>6. QED
  BY <1>3, <1>4, <1>5 DEF PairInv

LEMMA ListedPairs ==
  ASSUME NothingOverlaps, PairsStay, PairIds, FullInv, PresentInv, P!PurposeInv, PairInv,
         NEW r \in Run, ListAlign(r)
  PROVE  PairInv'
<1>1. /\ UNCHANGED <<ver, faults, abandoned>> /\ ~ Replacing
      /\ run' = [run EXCEPT ![r] = "align"] /\ plan' = [plan EXCEPT ![r] = Proposed(r)]
  BY DEF ListAlign, RunGoes, NothingOverlaps, graphVars
<1>2. \A s \in Run : run[s] # "align"
  BY DEF ListAlign
<1>3. RestOK
  BY TypeSplit DEF FullInv, ApartInv, HistoryInv
<1>4. \A s \in Run : run'[s] = "align" => s = r /\ plan'[s] = Proposed(r)
  BY <1>1, <1>2, <1>3 DEF RestOK
<1>5. \A o \in Proposed(r) :
        /\ o \in Of("alignment") /\ By[o] = r /\ ~ Stated(o)
        /\ Source[o] = {d \in Home[o] : d \in Filed(r) \/ Traced(d)}
  BY DEF Proposed
<1>6. ASSUME NEW o \in Proposed(r), NEW p \in Proposed(r), OriginalTriple[o] = OriginalTriple[p]
      PROVE  o = p
  <2>1. o \in Of("alignment") /\ p \in Of("alignment") /\ By[o] = By[p]
    BY <1>5
  <2>2. Home[o] = Home[p]
    BY <1>6, <2>1 DEF PairIds
  <2>3. Source[o] = Source[p]
    BY <1>5, <2>2
  <2>4. QED
    BY <1>6, <2>1, <2>3 DEF PairIds
<1>7. ASSUME abandoned = {}, NEW v \in Written, Aligned(v), NEW o \in Proposed(r)
      PROVE  OriginalTriple[ver[v].root] # OriginalTriple[o]
  BY <1>1, <1>5, <1>7, AlignedIsStated
<1>8. Written' = Written /\ \A v : Aligned(v)' <=> Aligned(v)
  BY <1>1 DEF Written, C!Written, Aligned
<1>9. PairStatedOnce'
  BY <1>1, <1>8 DEF PairInv, PairStatedOnce
<1>10. QED
  BY <1>1, <1>4, <1>5, <1>6, <1>7, <1>8, <1>9 DEF PairInv

\* What is written was in the plan, so that no other version says it.
LEMMA WrittenPair ==
  ASSUME FullInv, FullInv', AlignsAlone, PlansInv, PairInv, NEW r \in Run, WriteAlign(r)
  PROVE  PairInv'
<1>1. RestOK /\ HistoryInv
  BY TypeSplit DEF FullInv, ApartInv, HistoryInv
<1>2. PICK o \in plan[r] : Put({o}) /\ RunGoes(r, "align", plan[r] \ {o})
  BY DEF WriteAlign
<1>3. /\ run[r] = "align" /\ abandoned' = abandoned
      /\ run' = [run EXCEPT ![r] = "align"] /\ plan' = [plan EXCEPT ![r] = plan[r] \ {o}]
  BY <1>2 DEF WriteAlign, RunGoes
<1>4. o \in Original /\ o \in Of("alignment") /\ {o} \in SUBSET Original
  <2>1. o \in Of("alignment")
    BY <1>2, <1>3 DEF PlansInv
  <2>2. QED
    BY <2>1 DEF Of
<1>5. \A n \in Written' : \/ n \in Written /\ ver'[n].root = ver[n].root
                          \/ n = o /\ ver'[n].root = o
  BY <1>2, <1>4, PutOrigins
<1>6. \A s \in Run : run'[s] = "align" => s = r /\ plan'[s] = plan[r] \ {o}
  BY <1>1, <1>3 DEF RestOK, AlignsAlone
<1>7. ASSUME abandoned = {}, NEW n \in Written', Aligned(n)'
      PROVE  /\ \A p \in plan[r] \ {o} : OriginalTriple[ver'[n].root] # OriginalTriple[p]
             /\ n # o /\ n \in Original => OriginalTriple[n] # OriginalTriple[o]
  <2>1. CASE n = o /\ ver'[n].root = o
    BY <1>3, <2>1 DEF PairInv
  <2>2. CASE n \in Written /\ ver'[n].root = ver[n].root
    <3>1. Aligned(n)
      BY <1>7, <2>2 DEF Aligned
    <3>2. \A p \in plan[r] : OriginalTriple[ver[n].root] # OriginalTriple[p]
      BY <1>3, <1>7, <2>2, <3>1 DEF PairInv
    <3>3. n \in Original => ver[n].root = n
      BY <1>1, <2>2 DEF HistoryInv, Lineage
    <3>4. QED
      BY <2>2, <3>2, <3>3
  <2>3. QED
    BY <1>5, <2>1, <2>2
<1>8. ASSUME abandoned = {}, NEW p \in Of("alignment"), NEW q \in Of("alignment"),
             p \in Written', q \in Written', OriginalTriple[p] = OriginalTriple[q]
      PROVE  p = q
  <2>1. /\ p \in Original /\ q \in Original
        /\ p \in Written \/ p = o
        /\ q \in Written \/ q = o
    BY <1>5, <1>8 DEF Of
  <2>2. ver'[p].root = p /\ ver'[q].root = q
    BY <1>8, <2>1 DEF FullInv, ApartInv, HistoryInv, Lineage
  <2>3. Aligned(p)' /\ Aligned(q)'
    BY <1>8, <2>2 DEF Aligned, Of
  <2>4. CASE p \in Written /\ q \in Written
    BY <1>8, <2>4 DEF PairInv, PairStatedOnce
  <2>5. QED
    BY <1>7, <1>8, <2>1, <2>3, <2>4
<1>9. PairStatedOnce'
  BY <1>3, <1>8 DEF PairStatedOnce
<1>10. \A p, q \in plan[r] \ {o} : OriginalTriple[p] = OriginalTriple[q] => p = q
  BY <1>3 DEF PairInv
<1>11. QED
  BY <1>3, <1>6, <1>7, <1>9, <1>10 DEF PairInv

LEMMA NextPairInv ==
  ASSUME NothingOverlaps, PairsStay, PairIds, KeptInv, FullInv', [Next]_vars
  PROVE  PairInv'
<1>1. RestOK /\ HistoryInv /\ TypeInv /\ Lineage'
  BY TypeSplit DEF KeptInv, FullInv, ApartInv, HistoryInv
<1>2. ASSUME NEW S \in SUBSET Original, Put(S), \A o \in S : Kind[o] # "alignment"
      PROVE  \A n \in Written' : Aligned(n)' => \E s \in Written : ver'[n].root = ver[s].root
  BY <1>2, PutOrigins DEF KeptInv, Aligned
<1>3. ver' = ver =>
        \A n \in Written' : Aligned(n)' => \E s \in Written : ver'[n].root = ver[s].root
  BY DEF Written, C!Written
<1>4. CASE UNCHANGED vars
  BY <1>1, <1>3, <1>4, PairsKept DEF KeptInv, vars, graphVars, runVars
<1>5. CASE Curate
  <2>1. \A n \in Written' : \E s \in Written : ver'[n].root = ver[s].root
    BY <1>5, CurateRoots DEF KeptInv, FullInv
  <2>2. abandoned' = {} => abandoned = {}
    BY <1>1, <1>5, AbandonedGrows
  <2>3. QED
    BY <1>1, <1>5, <2>1, <2>2, PairsKept DEF KeptInv, Curate, runVars
<1>6. ASSUME NEW d \in Doc, JobNext(d)
      PROVE  PairInv'
  <2>1. {o \in Of("extraction") : Source[o] = {d}} \in SUBSET Original
    BY DEF Of
  <2>2. \A o \in {o \in Of("extraction") : Source[o] = {d}} : Kind[o] # "alignment"
    BY DEF Of
  <2>3. \A n \in Written' : Aligned(n)' => \E s \in Written : ver'[n].root = ver[s].root
    BY <1>2, <1>3, <1>6, <2>1, <2>2, JobWrites
  <2>4. UNCHANGED <<faults, abandoned, run, plan>>
    BY <1>6 DEF JobNext, Fetch, Extract, File, FailJob, JobGoes
  <2>5. QED
    BY <1>1, <2>3, <2>4, PairsKept DEF KeptInv
<1>7. ASSUME NEW d \in Doc, RemovalNext(d)
      PROVE  PairInv'
  <2>1. \A n \in Written' : Aligned(n)' => \E s \in Written : ver'[n].root = ver[s].root
    BY <1>1, <1>3, <1>7, RemovalWrites, StaysOrGoes
  <2>2. /\ plan' = plan /\ abandoned' = abandoned
        /\ \A r \in Run : run'[r] = "align" => run[r] = "align"
    BY <1>1, <1>7 DEF RestOK, RemovalNext, Delete,
       Retry, StartRemoval, DropTriples, DropStatements, DropEntity, RemovalGoes, FinishDelete,
       FinishRetry, BreakRemoval, runVars
  <2>3. QED
    BY <1>1, <2>1, <2>2, PairsKept DEF KeptInv
<1>8. ASSUME NEW r \in Run, RunNext(r)
      PROVE  PairInv'
  <2>1. CASE ListAlign(r)
    BY <2>1, ListedPairs DEF KeptInv
  <2>2. CASE WriteAlign(r)
    BY <2>2, WrittenPair DEF KeptInv
  <2>3. CASE ~ ListAlign(r) /\ ~ WriteAlign(r)
    <3>1. /\ \A s \in Run : run'[s] = "align" => run[s] = "align" /\ plan'[s] = plan[s]
          /\ abandoned' = abandoned
      BY <1>1, <1>8, <2>3 DEF RestOK, RunNext, BeginUpload, Enqueue, BreakUpload, CreateRow,
         ListLookup, WriteLookup, FailTail, RunGoes
    <3>2. \A n \in Written' : Aligned(n)' => \E s \in Written : ver'[n].root = ver[s].root
      <4>1. CASE WriteLookup(r)
        <5>1. Put(plan[r]) /\ plan[r] \in SUBSET Original
          BY <1>1, <4>1 DEF WriteLookup, RestOK
        <5>2. \A o \in plan[r] : Kind[o] # "alignment"
          BY <4>1 DEF WriteLookup, KeptInv, PlansInv, Of
        <5>3. QED
          BY <1>2, <5>1, <5>2
      <4>2. CASE ~ WriteLookup(r)
        <5>1. ver' = ver
          BY <1>8, <2>3, <4>2 DEF RunNext, BeginUpload, Enqueue, BreakUpload, CreateRow,
             ListLookup, FailTail, RunGoes, graphVars
        <5>2. QED
          BY <1>3, <5>1
      <4>3. QED
        BY <4>1, <4>2
    <3>3. QED
      BY <1>1, <3>1, <3>2, PairsKept DEF KeptInv
  <2>4. QED
    BY <2>1, <2>2, <2>3
<1>9. QED
  BY <1>4, <1>5, <1>6, <1>7, <1>8 DEF Next

LEMMA NextKeptInv ==
  ASSUME NothingOverlaps, PairsStay, PairIds, KeptInv, [Next]_vars
  PROVE  KeptInv'
<1>1. FullInv'
  BY NextFullInv DEF NothingOverlaps, RemovalsApart, KeptInv
<1>2. ApartInv /\ ApartInv' /\ AloneInv /\ TypeInv
  BY <1>1, PTL DEF KeptInv, FullInv, ApartInv, HistoryInv
<1>3. AlignsAlone' /\ PlansInv'
  BY <1>2, NextAlignsAlone, NextPlansInv DEF KeptInv
<1>4. PresentInv'
  BY <1>2, NextPresentInv DEF KeptInv
<1>5. P!PurposeInv'
  BY <1>2, NextPurpose DEF KeptInv, PairsStay
<1>6. PairInv'
  BY <1>1, NextPairInv
<1>7. QED
  BY <1>1, <1>3, <1>4, <1>5, <1>6 DEF KeptInv

LEMMA InitKeptInv == Init => KeptInv
<1> SUFFICES ASSUME Init PROVE KeptInv
  OBVIOUS
<1>1. FullInv
  BY InitApartInv, InitAloneInv, InitOriginInv DEF FullInv
<1>2. Written = {} /\ \A r \in Run : run[r] = "none" /\ plan[r] = {}
  BY DEF Init, Written, C!Written
<1>3. P!PurposeInv
  <2>1. \A c \in Curator : P!Purpose(req[c])
    BY DEF Init, P!Purpose, C!Idle, C!NoLoad
  <2>2. QED
    BY <1>2, <2>1, SameState DEF P!PurposeInv, P!OriginalsKept, P!OwnTriplesOnly
<1>4. QED
  BY <1>1, <1>2, <1>3
  DEF KeptInv, AlignsAlone, PlansInv, PresentInv, PairInv, PairStatedOnce

LEMMA AlwaysKeptInv ==
  ASSUME NothingOverlaps, PairsStay, PairIds PROVE Spec => []KeptInv
<1>1. NothingOverlaps /\ PairsStay /\ PairIds
  OBVIOUS
<1>2. KeptInv /\ [Next]_vars => KeptInv'
  BY <1>1, NextKeptInv
<1>3. QED
  BY <1>2, InitKeptInv, PTL DEF Spec

(***************************************************************************)
(* When nobody edits alignments and neither removals nor curators overlap  *)
(* with a cross-document alignment, no pair has two alignments as long as  *)
(* no statement was abandoned: whatever was curated, retried or            *)
(* deleted in between, and whichever ids the pair had in other runs, the   *)
(* list drops the pairs that are stated and no other run aligns before it  *)
(* is written.                                                             *)
(***************************************************************************)
THEOREM PairsAreStatedOnce ==
  ASSUME NothingOverlaps, PairsStay, PairIds PROVE Spec => []PairStatedOnce
<1>1. KeptInv => PairStatedOnce
  BY DEF KeptInv, PairInv
<1>2. QED
  BY <1>1, AlwaysKeptInv, PTL

-----------------------------------------------------------------------------
(* An original is written into a graph that has no version of it: each     *)
(* writer is done with it before it is planned again, or a removal has     *)
(* taken what was written.                                                 *)

\* The runs whose job was started.
Going == {"chord", "align", "lookup", "end"}

BatchesApart == \A r, s \in Run : r # s => batch[r] \cap batch[s] = {}

Started == \A d \in Doc : job[d] # "none" => \E r \in Run : d \in batch[r] /\ run[r] \in Going

Retried == \A d \in Doc : removal[d].why = "retry" => job[d] # "none"

BooksInv == BatchesApart /\ Started /\ Retried

LEMMA RunBooks ==
  ASSUME TypeInv, BooksInv, NEW r \in Run, RunNext(r)
  PROVE  BooksInv'
<1>1. RestOK /\ removal' = removal
  BY TypeSplit, RunWrites
<1>2. BatchesApart'
  <2>1. CASE BeginUpload(r)
    <3>1. PICK B \in Uploads[r] :
            (\A s \in Run : B \cap batch[s] = {}) /\ batch' = [batch EXCEPT ![r] = B]
      BY <2>1 DEF BeginUpload
    <3>2. QED
      BY <1>1, <3>1 DEF BooksInv, BatchesApart, RestOK
  <2>2. CASE ~ BeginUpload(r)
    <3>1. batch' = batch
      BY <2>2 DEF RunNext, Enqueue, BreakUpload, CreateRow, ListAlign, WriteAlign, ListLookup,
         WriteLookup, FailTail, RunGoes
    <3>2. QED
      BY <3>1 DEF BooksInv, BatchesApart
  <2>3. QED
    BY <2>1, <2>2
<1>3. /\ \A s \in Run : s # r => run'[s] = run[s] /\ batch'[s] = batch[s]
      /\ run[r] \in Going => run'[r] \in Going /\ batch'[r] = batch[r]
  BY <1>1 DEF RestOK, Going, RunNext, BeginUpload, Enqueue, BreakUpload, CreateRow, ListAlign,
     WriteAlign, ListLookup, WriteLookup, FailTail, RunGoes
<1>4. \A d \in Doc :
        \/ job'[d] = job[d]
        \/ job'[d] # "none" /\ d \in batch'[r] /\ run'[r] \in Going
  BY <1>1 DEF RestOK, Going, RunNext, BeginUpload, Enqueue, BreakUpload, CreateRow, ListAlign,
     WriteAlign, ListLookup, WriteLookup, FailTail, RunGoes
<1>5. Started'
  BY <1>3, <1>4 DEF BooksInv, Started
<1>6. Retried'
  BY <1>1, <1>4 DEF BooksInv, Retried
<1>7. QED
  BY <1>2, <1>5, <1>6 DEF BooksInv

LEMMA RemovalWhy ==
  ASSUME TypeInv, NEW d \in Doc, RemovalNext(d)
  PROVE  \/ Retry(d) /\ job[d] = "failed"
         \/ \A e \in Doc : removal'[e].why = "retry" => removal[e].why = "retry"
<1>1. removal \in [Doc -> {NoRemoval} \cup [pc : RemovalStep, why : {"delete", "retry"}]]
  BY TypeSplit DEF RestOK
<1>2. CASE Delete(d)
  BY <1>1, <1>2 DEF Delete, StartRemoval
<1>3. CASE Retry(d)
  BY <1>3 DEF Retry
<1>4. CASE DropTriples(d) \/ DropStatements(d) \/ DropEntity(d)
  <2>1. PICK next : removal' = [removal EXCEPT ![d].pc = next]
    BY <1>4 DEF DropTriples, DropStatements, DropEntity, RemovalGoes
  <2>2. removal' = [removal EXCEPT ![d] = [removal[d] EXCEPT !.pc = next]]
    BY <2>1
  <2>3. [removal[d] EXCEPT !.pc = next].why = removal[d].why
    BY <1>1 DEF NoRemoval
  <2>4. QED
    BY <1>1, <2>2, <2>3
<1>5. CASE FinishDelete(d) \/ FinishRetry(d) \/ BreakRemoval(d)
  BY <1>1, <1>5 DEF FinishDelete, FinishRetry, BreakRemoval, NoRemoval
<1>6. QED
  BY <1>2, <1>3, <1>4, <1>5 DEF RemovalNext

LEMMA NextBooksInv ==
  ASSUME TypeInv, BooksInv, [Next]_vars PROVE BooksInv'
<1>1. RestOK
  BY TypeSplit
<1>2. CASE UNCHANGED vars \/ Curate
  BY <1>2 DEF vars, Curate, runVars, BooksInv, BatchesApart, Started, Retried
<1>3. ASSUME NEW r \in Run, RunNext(r)
      PROVE  BooksInv'
  BY <1>3, RunBooks
<1>4. ASSUME NEW d \in Doc, JobNext(d)
      PROVE  BooksInv'
  <2>1. /\ UNCHANGED <<batch, run, removal>> /\ job[d] # "none"
        /\ \A e \in Doc : e # d => job'[e] = job[e]
        /\ job'[d] # "none"
    BY <1>1, <1>4 DEF RestOK, JobNext, Fetch, Extract, File, FailJob, JobGoes
  <2>2. QED
    BY <2>1 DEF BooksInv, BatchesApart, Started, Retried
<1>5. ASSUME NEW d \in Doc, RemovalNext(d)
      PROVE  BooksInv'
  <2>1. /\ batch' = batch
        /\ \A r \in Run : run[r] \in Going => run'[r] \in Going
        /\ \A e \in Doc : job'[e] = job[e] \/ (job'[e] = "queued" /\ removal[e].why = "retry")
    <3>1. CASE FinishRetry(d)
      <4>1. removal[d].why = "retry"
        BY <3>1 DEF FinishRetry
      <4>2. QED
        BY <1>1, <3>1, <4>1 DEF FinishRetry, RestOK, Going
    <3>2. CASE ~ FinishRetry(d)
      <4>1. UNCHANGED <<batch, run, job>>
        BY <1>5, <3>2 DEF RemovalNext, Delete, Retry, StartRemoval, DropTriples,
           DropStatements, DropEntity, RemovalGoes, FinishDelete, BreakRemoval, runVars
      <4>2. QED
        BY <4>1
    <3>3. QED
      BY <3>1, <3>2
  <2>2. \A e \in Doc : removal'[e].why = "retry" => job'[e] # "none"
    <3>1. CASE Retry(d) /\ job[d] = "failed"
      <4>1. \A e \in Doc : e # d => removal'[e] = removal[e]
        BY <1>1, <3>1 DEF RestOK, Retry, StartRemoval
      <4>2. QED
        BY <2>1, <3>1, <4>1 DEF BooksInv, Retried
    <3>2. CASE \A e \in Doc : removal'[e].why = "retry" => removal[e].why = "retry"
      BY <2>1, <3>2 DEF BooksInv, Retried
    <3>3. QED
      BY <1>5, <3>1, <3>2, RemovalWhy
  <2>3. QED
    BY <2>1, <2>2 DEF BooksInv, BatchesApart, Started, Retried
<1>6. QED
  BY <1>2, <1>3, <1>4, <1>5 DEF Next

(***************************************************************************)
(* Until a document is extracted nothing was extracted from it; a lookup   *)
(* is about the documents of a run that are there, at the end of that run. *)
(***************************************************************************)
Extracts(v, d) == Kind[ver[v].root] = "extraction" /\ Source[ver[v].root] = {d}

NotYet ==
  \A d \in Doc : job[d] \in {"none", "queued", "extracting"} =>
    \A v \in Written : ~ Extracts(v, d)

Covers(r, S) == run[r] = "end" /\ S \subseteq batch[r] /\ Present(r) \subseteq S

LookedUp ==
  \A v \in Written : Kind[ver[v].root] = "lookup" =>
    \E r \in Run : Covers(r, Source[ver[v].root])

LookupPlans ==
  \A r \in Run : run[r] = "lookup" => \A o \in plan[r] : Source[o] = Present(r)

OnceInv == KeptInv /\ BooksInv /\ NotYet /\ LookedUp /\ LookupPlans

\* Rows are created for runs that have not started.
LEMMA RunKeepsPresent ==
  ASSUME TypeInv, BooksInv, NEW r \in Run, RunNext(r), NEW s \in Run, run[s] \in Going
  PROVE  batch'[s] = batch[s] /\ Present(s)' = Present(s)
<1>1. RestOK
  BY TypeSplit
<1>2. CASE \E d \in Doc : CreateRow(r, d)
  <2>1. PICK d \in Doc : CreateRow(r, d)
    BY <1>2
  <2>2. s # r /\ d \in batch[r] /\ batch' = batch /\ row' = [row EXCEPT ![d] = "present"]
    BY <2>1 DEF CreateRow, Going
  <2>3. d \notin batch[s]
    BY <2>2 DEF BooksInv, BatchesApart
  <2>4. \A e \in batch[s] : row'[e] = row[e]
    BY <1>1, <2>2, <2>3 DEF RestOK
  <2>5. QED
    BY <2>2, <2>4 DEF Present
<1>3. CASE ~ \E d \in Doc : CreateRow(r, d)
  <2>1. row' = row /\ batch'[s] = batch[s]
    BY <1>1, <1>3 DEF RestOK, Going, RunNext, BeginUpload, Enqueue, BreakUpload, ListAlign,
       WriteAlign, ListLookup, WriteLookup, FailTail, RunGoes
  <2>2. QED
    BY <2>1 DEF Present
<1>4. QED
  BY <1>2, <1>3

LEMMA NextLookupPlans ==
  ASSUME RemovalsApart, TypeInv, AloneInv, BooksInv, LookupPlans, [Next]_vars
  PROVE  LookupPlans'
<1>1. RestOK
  BY TypeSplit
<1>2. CASE UNCHANGED vars \/ Curate
  BY <1>2 DEF vars, Curate, runVars, LookupPlans, Present
<1>3. ASSUME NEW r \in Run, RunNext(r)
      PROVE  LookupPlans'
  <2>1. \A s \in Run : run[s] \in Going => Present(s)' = Present(s)
    BY <1>3, RunKeepsPresent
  <2>2. \A s \in Run : s # r => run'[s] = run[s] /\ plan'[s] = plan[s]
    BY <1>1, <1>3 DEF RestOK, RunNext, BeginUpload, Enqueue, BreakUpload, CreateRow, ListAlign,
       WriteAlign, ListLookup, WriteLookup, FailTail, RunGoes
  <2>3. run'[r] = "lookup" => \A o \in plan'[r] : Source[o] = Present(r)'
    <3>1. CASE ListLookup(r)
      <4>1. plan' = [plan EXCEPT ![r] =
                 {o \in Of("lookup") : Home[o] \cap Filed(r) # {} /\ Source[o] = Present(r)}]
        BY <3>1 DEF ListLookup, RunGoes
      <4>2. \A o \in plan'[r] : Source[o] = Present(r)
        BY <1>1, <4>1 DEF RestOK
      <4>3. run[r] \in Going
        BY <3>1 DEF ListLookup, Going
      <4>4. QED
        BY <2>1, <4>2, <4>3
    <3>2. CASE ~ ListLookup(r)
      BY <1>1, <1>3, <3>2 DEF RestOK, RunNext, BeginUpload, Enqueue, BreakUpload, CreateRow,
         ListAlign, WriteAlign, WriteLookup, FailTail, RunGoes
    <3>3. QED
      BY <3>1, <3>2
  <2>4. QED
    BY <2>1, <2>2, <2>3 DEF LookupPlans, Going
<1>4. ASSUME NEW d \in Doc, JobNext(d)
      PROVE  LookupPlans'
  BY <1>4 DEF JobNext, Fetch, Extract, File, FailJob, JobGoes, LookupPlans, Present
<1>5. ASSUME NEW d \in Doc, RemovalNext(d)
      PROVE  LookupPlans'
  <2>1. CASE FinishDelete(d) \/ FinishRetry(d)
    <3>1. Removing # {}
      BY <2>1 DEF FinishDelete, FinishRetry, Removing, NoRemoval
    <3>2. \A r \in Run : run[r] # "lookup"
      BY <3>1 DEF AloneInv, InTail
    <3>3. \A r \in Run : run'[r] # "lookup"
      BY <1>1, <2>1, <3>2 DEF FinishDelete, FinishRetry, RestOK
    <3>4. QED
      BY <3>3 DEF LookupPlans
  <2>2. CASE ~ (FinishDelete(d) \/ FinishRetry(d))
    <3>1. UNCHANGED runVars
      BY <1>5, <2>2 DEF RemovalNext, Delete, Retry, StartRemoval, DropTriples,
         DropStatements, DropEntity, RemovalGoes, BreakRemoval
    <3>2. QED
      BY <3>1 DEF runVars, LookupPlans, Present
  <2>3. QED
    BY <2>1, <2>2
<1>6. QED
  BY <1>2, <1>3, <1>4, <1>5 DEF Next

\* What is written, in a step that starts no chain over and in which no run that covers goes on.
LEMMA RootsKeepOnce ==
  ASSUME NotYet, LookedUp,
         NEW new,
         \A n \in Written' : \/ \E s \in Written : ver'[n].root = ver[s].root
                             \/ n \in new /\ ver'[n].root = n,
         \A d \in Doc : job'[d] \in {"none", "queued", "extracting"} =>
           /\ \/ job[d] \in {"none", "queued", "extracting"}
              \/ \A v \in Written : ~ Extracts(v, d)
           /\ \A n \in new : ~ (Kind[n] = "extraction" /\ Source[n] = {d}),
         \A n \in new : Kind[n] = "lookup" => \E r \in Run : Covers(r, Source[n])',
         \A r \in Run : \A S :
           (\E v \in Written : Source[ver[v].root] = S) /\ Covers(r, S) => Covers(r, S)'
  PROVE  NotYet' /\ LookedUp'
<1>1. ASSUME NEW d \in Doc, job'[d] \in {"none", "queued", "extracting"}, NEW n \in Written'
      PROVE  ~ Extracts(n, d)'
  <2>1. CASE \E s \in Written : ver'[n].root = ver[s].root
    <3>1. PICK s \in Written : ver'[n].root = ver[s].root
      BY <2>1
    <3>2. ~ Extracts(s, d)
      BY <1>1 DEF NotYet
    <3>3. QED
      BY <3>1, <3>2 DEF Extracts
  <2>2. CASE n \in new /\ ver'[n].root = n
    BY <1>1, <2>2 DEF Extracts
  <2>3. QED
    BY <2>1, <2>2
<1>2. ASSUME NEW n \in Written', Kind[ver'[n].root] = "lookup",
             NEW S, S = Source[ver'[n].root]
      PROVE  \E r \in Run : Covers(r, S)'
  <2>1. CASE \E s \in Written : ver'[n].root = ver[s].root
    <3>1. PICK s \in Written : ver'[n].root = ver[s].root
      BY <2>1
    <3>2. PICK r \in Run : Covers(r, S)
      BY <1>2, <3>1 DEF LookedUp
    <3>3. Covers(r, S)'
      BY <1>2, <3>1, <3>2
    <3>4. QED
      BY <3>3
  <2>2. CASE n \in new /\ ver'[n].root = n
    BY <1>2, <2>2
  <2>3. QED
    BY <2>1, <2>2
<1>3. LookedUp'
  <2> SUFFICES ASSUME NEW n \in Written', Kind[ver'[n].root] = "lookup"
               PROVE  \E r \in Run : /\ run'[r] = "end" /\ Source[ver'[n].root] \subseteq batch'[r]
                                    /\ Present(r)' \subseteq Source[ver'[n].root]
    BY DEF LookedUp, Covers
  <2>1. PICK S : S = Source[ver'[n].root]
    OBVIOUS
  <2>2. PICK r \in Run : Covers(r, S)'
    BY <1>2, <2>1
  <2>3. run'[r] = "end" /\ S \subseteq batch'[r] /\ Present(r)' \subseteq S
    BY <2>2 DEF Covers
  <2>4. QED
    BY <2>1, <2>3
<1>4. QED
  BY <1>1, <1>3 DEF NotYet

LEMMA NothingNewKeepsOnce ==
  ASSUME NotYet, LookedUp,
         \A n \in Written' : \E s \in Written : ver'[n].root = ver[s].root,
         \A d \in Doc : job'[d] \in {"none", "queued", "extracting"} =>
           \/ job[d] \in {"none", "queued", "extracting"}
           \/ \A v \in Written : ~ Extracts(v, d),
         \A r \in Run : \A S :
           (\E v \in Written : Source[ver[v].root] = S) /\ Covers(r, S) => Covers(r, S)'
  PROVE  NotYet' /\ LookedUp'
<1>1. PICK new : new = {}
  OBVIOUS
<1>2. \A n \in new : Kind[n] = "lookup" => \E r \in Run : Covers(r, Source[n])'
  BY <1>1
<1>3. \A d \in Doc : \A n \in new : ~ (Kind[n] = "extraction" /\ Source[n] = {d})
  BY <1>1
<1>4. QED
  BY <1>2, <1>3, RootsKeepOnce

LEMMA CurateOnce ==
  ASSUME OnceInv, Curate PROVE NotYet' /\ LookedUp'
<1>1. \A n \in Written' : \E s \in Written : ver'[n].root = ver[s].root
  BY CurateRoots DEF OnceInv, KeptInv, FullInv
<1>2. UNCHANGED <<row, job, batch, run>>
  BY DEF Curate, runVars
<1>3. \A r \in Run : \A S : Covers(r, S) => Covers(r, S)'
  BY <1>2 DEF Covers, Present
<1>4. QED
  BY <1>1, <1>2, <1>3, NothingNewKeepsOnce DEF OnceInv

LEMMA JobOnce ==
  ASSUME OnceInv, NEW d \in Doc, JobNext(d) PROVE NotYet' /\ LookedUp'
<1>1. RestOK /\ FullInv
  BY TypeSplit DEF OnceInv, KeptInv, FullInv, ApartInv, HistoryInv
<1>2. UNCHANGED <<row, batch, run>>
  BY DEF JobNext, Fetch, Extract, File, FailJob, JobGoes
<1>3. \A r \in Run : \A S : Covers(r, S) => Covers(r, S)'
  BY <1>2 DEF Covers, Present
<1>4. CASE Extract(d)
  <2> DEFINE new == {o \in Of("extraction") : Source[o] = {d}}
  <2>1. new \in SUBSET Original /\ Put(new)
    BY <1>4 DEF Extract, Of
  <2>2. \A n \in new : Kind[n] = "extraction" /\ Source[n] = {d}
    BY DEF Of
  <2>3. job' = [job EXCEPT ![d] = "extracted"]
    BY <1>4 DEF Extract, JobGoes
  <2> HIDE DEF new
  <2>4. \A n \in Written' : \/ \E s \in Written : ver'[n].root = ver[s].root
                            \/ n \in new /\ ver'[n].root = n
    BY <1>1, <2>1, PutOrigins
  <2>5. \A e \in Doc : job'[e] \in {"none", "queued", "extracting"} =>
           /\ job[e] \in {"none", "queued", "extracting"}
           /\ \A n \in new : ~ (Kind[n] = "extraction" /\ Source[n] = {e})
    BY <1>1, <2>2, <2>3 DEF RestOK
  <2>6. \A n \in new : Kind[n] # "lookup"
    BY <2>2
  <2>7. QED
    BY <1>3, <2>4, <2>5, <2>6, RootsKeepOnce DEF OnceInv
<1>5. CASE ~ Extract(d)
  <2>1. Written' = Written /\ ver' = ver
    BY <1>5, JobWrites DEF Written, C!Written
  <2>2. \A e \in Doc : job'[e] \in {"none", "queued", "extracting"} =>
           job[e] \in {"none", "queued", "extracting"}
    BY <1>1, <1>5 DEF RestOK, JobNext, Fetch, File, FailJob, JobGoes
  <2>3. QED
    BY <1>3, <2>1, <2>2, NothingNewKeepsOnce DEF OnceInv
<1>6. QED
  BY <1>4, <1>5

LEMMA RemovalOnce ==
  ASSUME OnceInv, NEW d \in Doc, RemovalNext(d) PROVE NotYet' /\ LookedUp'
<1>1. RestOK /\ FullInv /\ HistoryInv /\ TypeInv
  BY TypeSplit DEF OnceInv, KeptInv, FullInv, ApartInv, HistoryInv
<1>2. \A n \in Written' : \E s \in Written : ver'[n].root = ver[s].root
  <2>1. ver' = ver => Written' = Written
    BY DEF Written, C!Written
  <2>2. QED
    BY <1>1, <2>1, RemovalWrites, StaysOrGoes
<1>4. CASE FinishRetry(d)
  <2>1. /\ removal[d].pc = "finish" /\ UNCHANGED <<row, batch>>
        /\ job' = [job EXCEPT ![d] = "queued"]
        /\ run' = [r \in Run |-> IF d \in batch[r] THEN "chord" ELSE run[r]]
    BY <1>4 DEF FinishRetry
  <2>2. d \in Removing
    BY <2>1, AtStep DEF RemovalStep
  <2>3. row[d] = "present"
    BY <1>1, <2>2 DEF FullInv, AloneInv
  <2>4. From(d) = {}
    BY <1>1, <2>1 DEF FullInv, OriginInv
  <2>5. \A v \in Written : d \notin Source[ver[v].root]
    BY <2>4 DEF From, DerivedFrom
  <2>6. ASSUME NEW r \in Run, NEW S, NEW v \in Written, Source[ver[v].root] = S, Covers(r, S)
        PROVE  Covers(r, S)'
    <3>1. d \notin batch[r]
      BY <2>3, <2>5, <2>6 DEF Covers, Present
    <3>2. QED
      BY <2>1, <2>6, <3>1 DEF Covers, Present
  <2>7. \A e \in Doc : job'[e] \in {"none", "queued", "extracting"} =>
           \/ job[e] \in {"none", "queued", "extracting"}
           \/ \A v \in Written : ~ Extracts(v, e)
    BY <1>1, <2>1, <2>5 DEF RestOK, Extracts
  <2>8. QED
    BY <1>2, <2>6, <2>7, NothingNewKeepsOnce DEF OnceInv
<1>5. CASE ~ FinishRetry(d)
  <2>1. /\ UNCHANGED <<job, batch, run>>
        /\ \A e \in Doc : row'[e] = "present" => row[e] = "present"
    BY <1>1, <1>5 DEF RestOK, RemovalNext, Delete, Retry, StartRemoval, DropTriples,
       DropStatements, DropEntity, RemovalGoes, FinishDelete, BreakRemoval, runVars
  <2>2. \A r \in Run : Present(r)' \subseteq Present(r)
    BY <1>1, <2>1 DEF Present, RestOK
  <2>3. \A r \in Run : \A S : Covers(r, S) => Covers(r, S)'
    BY <2>1, <2>2 DEF Covers
  <2>4. QED
    BY <1>2, <2>1, <2>3, NothingNewKeepsOnce DEF OnceInv
<1>6. QED
  BY <1>4, <1>5

LEMMA RunOnce ==
  ASSUME OnceInv, NEW r \in Run, RunNext(r) PROVE NotYet' /\ LookedUp'
<1>1. RestOK /\ FullInv /\ TypeInv /\ BooksInv
  BY TypeSplit DEF OnceInv, KeptInv, FullInv, ApartInv, HistoryInv
<1>2. \A s \in Run : \A S : Covers(s, S) => Covers(s, S)'
  <2> SUFFICES ASSUME NEW s \in Run, NEW S, Covers(s, S) PROVE Covers(s, S)'
    OBVIOUS
  <2>1. run[s] = "end" /\ run[s] \in Going
    BY DEF Covers, Going
  <2>2. run'[s] = "end"
    BY <1>1, <2>1 DEF RestOK, RunNext, BeginUpload, Enqueue, BreakUpload, CreateRow, ListAlign,
       WriteAlign, ListLookup, WriteLookup, FailTail, RunGoes
  <2>3. QED
    BY <1>1, <2>1, <2>2, RunKeepsPresent DEF Covers
<1>3. \A d \in Doc : job'[d] \in {"none", "queued", "extracting"} =>
        job[d] \in {"none", "queued", "extracting"}
  <2>1. CASE Enqueue(r)
    <3>1. /\ run[r] = "rows"
          /\ job' = [d \in Doc |-> IF d \in batch[r] THEN "queued" ELSE job[d]]
      BY <2>1 DEF Enqueue
    <3>2. \A d \in batch[r] : d \in Doc => job[d] = "none"
      BY <1>1, <3>1 DEF BooksInv, Started, BatchesApart, Going
    <3>3. QED
      BY <3>1, <3>2
  <2>2. CASE ~ Enqueue(r)
    BY <1>1, <2>2 DEF RestOK, RunNext, BeginUpload, BreakUpload, CreateRow, ListAlign,
       WriteAlign, ListLookup, WriteLookup, FailTail, RunGoes
  <2>3. QED
    BY <2>1, <2>2
<1>4. ASSUME NEW new \in SUBSET Original, Put(new), \A n \in new : Kind[n] # "extraction",
             \A n \in new : Kind[n] = "lookup" => \E s \in Run : Covers(s, Source[n])'
      PROVE  NotYet' /\ LookedUp'
  <2>1. \A n \in Written' : \/ \E s \in Written : ver'[n].root = ver[s].root
                            \/ n \in new /\ ver'[n].root = n
    BY <1>1, <1>4, PutOrigins
  <2>2. \A d \in Doc : \A n \in new : ~ (Kind[n] = "extraction" /\ Source[n] = {d})
    BY <1>4
  <2>3. QED
    BY <1>2, <1>3, <1>4, <2>1, <2>2, RootsKeepOnce DEF OnceInv
<1>5. CASE WriteAlign(r)
  <2>1. PICK o \in plan[r] : Put({o})
    BY <1>5 DEF WriteAlign
  <2>2. o \in Of("alignment")
    BY <1>5 DEF WriteAlign, OnceInv, KeptInv, PlansInv
  <2>3. {o} \in SUBSET Original /\ \A n \in {o} : Kind[n] = "alignment"
    BY <2>2 DEF Of
  <2>4. QED
    BY <1>4, <2>1, <2>3
<1>6. CASE WriteLookup(r)
  <2>1. /\ run[r] = "lookup" /\ run' = [run EXCEPT ![r] = "end"]
        /\ UNCHANGED <<row, batch>> /\ Put(plan[r])
    BY <1>6 DEF WriteLookup, RunGoes
  <2>2. plan[r] \in SUBSET Original /\ \A n \in plan[r] : Kind[n] = "lookup"
    BY <1>1, <2>1 DEF RestOK, OnceInv, KeptInv, PlansInv, Of
  <2>3. \A n \in plan[r] : Source[n] = Present(r)
    BY <2>1 DEF OnceInv, LookupPlans
  <2>4. \A n \in plan[r] : Covers(r, Source[n])'
    BY <1>1, <2>1, <2>3 DEF Covers, Present, RestOK
  <2>5. QED
    BY <1>4, <2>1, <2>2, <2>4
<1>7. CASE ~ WriteAlign(r) /\ ~ WriteLookup(r)
  <2>1. ver' = ver
    BY <1>7 DEF RunNext, BeginUpload, Enqueue, BreakUpload, CreateRow, ListAlign,
       ListLookup, FailTail, RunGoes, graphVars
  <2>2. \A n \in Written' : \E s \in Written : ver'[n].root = ver[s].root
    BY <2>1 DEF Written, C!Written
  <2>3. QED
    BY <1>2, <1>3, <2>2, NothingNewKeepsOnce DEF OnceInv
<1>8. QED
  BY <1>5, <1>6, <1>7

LEMMA NextOnceInv ==
  ASSUME NothingOverlaps, PairsStay, PairIds, OnceInv, [Next]_vars
  PROVE  OnceInv'
<1>1. KeptInv'
  BY NextKeptInv DEF OnceInv
<1>2. TypeInv /\ AloneInv /\ RemovalsApart
  BY DEF OnceInv, KeptInv, FullInv, ApartInv, HistoryInv, NothingOverlaps, RemovalsApart
<1>3. BooksInv' /\ LookupPlans'
  BY <1>2, NextBooksInv, NextLookupPlans DEF OnceInv
<1>4. CASE UNCHANGED vars
  <2>1. NotYet'
    BY <1>4 DEF vars, graphVars, runVars, OnceInv, NotYet, Extracts, Written, C!Written
  <2>2. LookedUp'
    BY <1>4 DEF vars, graphVars, runVars, OnceInv, LookedUp, Covers, Present, Written, C!Written
  <2>3. QED
    BY <1>1, <1>3, <2>1, <2>2 DEF OnceInv
<1>5. CASE Next
  <2>1. NotYet' /\ LookedUp'
    BY <1>5, CurateOnce, RunOnce, JobOnce, RemovalOnce DEF Next
  <2>2. QED
    BY <1>1, <1>3, <2>1 DEF OnceInv
<1>6. QED
  BY <1>4, <1>5

LEMMA InitOnceInv == Init => OnceInv
<1> SUFFICES ASSUME Init PROVE OnceInv
  OBVIOUS
<1>1. KeptInv
  BY InitKeptInv
<1>2. Written = {}
  BY DEF Init, Written, C!Written
<1>3. BooksInv
  BY DEF Init, BooksInv, BatchesApart, Started, Retried, NoRemoval
<1>4. LookupPlans
  BY DEF Init, LookupPlans
<1>5. QED
  BY <1>1, <1>2, <1>3, <1>4 DEF OnceInv, NotYet, LookedUp

\* Nothing has the root of what a writer writes.
Unwritten(S) == \A o \in S : \A v \in Written : ver[v].root # o

LEMMA ExtractsUnwritten ==
  ASSUME OnceInv, NEW d \in Doc, job[d] = "extracting"
  PROVE  Unwritten({o \in Of("extraction") : Source[o] = {d}})
<1> SUFFICES ASSUME NEW o \in Of("extraction"), Source[o] = {d},
                    NEW v \in Written, ver[v].root = o
             PROVE  FALSE
  BY DEF Unwritten
<1>1. Kind[o] = "extraction"
  BY DEF Of
<1>2. Extracts(v, d)
  BY <1>1 DEF Extracts
<1>3. QED
  BY <1>2 DEF OnceInv, NotYet

LEMMA PlanUnwritten ==
  ASSUME OnceInv, abandoned = {}, NEW r \in Run, run[r] \in {"align", "lookup"}
  PROVE  Unwritten(plan[r])
<1> SUFFICES ASSUME NEW o \in plan[r], NEW v \in Written, ver[v].root = o
             PROVE  FALSE
  BY DEF Unwritten
<1>1. CASE run[r] = "align"
  <2>1. o \in Of("alignment")
    BY <1>1 DEF OnceInv, KeptInv, PlansInv
  <2>2. Aligned(v)
    BY <2>1 DEF Aligned, Of
  <2>3. OriginalTriple[ver[v].root] # OriginalTriple[o]
    BY <1>1, <2>2 DEF OnceInv, KeptInv, PairInv
  <2>4. QED
    BY <2>3
<1>2. CASE run[r] = "lookup"
  <2>1. o \in Of("lookup") /\ Source[o] = Present(r)
    BY <1>2 DEF OnceInv, KeptInv, PlansInv, LookupPlans
  <2>2. Kind[ver[v].root] = "lookup"
    BY <2>1 DEF Of
  <2>3. PICK s \in Run : Covers(s, Source[o])
    BY <2>2 DEF OnceInv, LookedUp
  <2>4. s # r /\ Present(r) \subseteq batch[s] /\ Present(r) \subseteq batch[r]
    BY <1>2, <2>1, <2>3 DEF Covers, Present
  <2>5. Present(r) = {}
    BY <2>4 DEF OnceInv, BooksInv, BatchesApart
  <2>6. Source[o] \cap entity # {}
    BY DEF OnceInv, KeptInv, FullInv, OriginInv
  <2>7. QED
    BY <2>1, <2>5, <2>6
<1>3. QED
  BY <1>1, <1>2

\* What a step writes.
LEMMA StepPuts ==
  ASSUME OnceInv, abandoned = {}, [Next]_vars
  PROVE  \/ Curate
         \/ ver' = ver
         \/ \E S \in SUBSET Original : Put(S) /\ Unwritten(S)
         \/ \E d \in Doc : TakesAway(d)
<1>1. RestOK /\ TypeInv
  BY TypeSplit DEF OnceInv, KeptInv, FullInv, ApartInv, HistoryInv
<1>2. CASE UNCHANGED vars
  BY <1>2 DEF vars, graphVars
<1>3. ASSUME NEW r \in Run, RunNext(r)
      PROVE  ver' = ver \/ \E S \in SUBSET Original : Put(S) /\ Unwritten(S)
  <2>1. CASE WriteAlign(r)
    <3>1. PICK o \in plan[r] : Put({o})
      BY <2>1 DEF WriteAlign
    <3>2. Unwritten(plan[r]) /\ plan[r] \in SUBSET Original
      BY <1>1, <2>1, PlanUnwritten DEF WriteAlign, RestOK
    <3>3. Unwritten({o}) /\ {o} \in SUBSET Original
      BY <3>2 DEF Unwritten
    <3>4. QED
      BY <3>1, <3>3
  <2>2. CASE WriteLookup(r)
    <3>1. Put(plan[r]) /\ Unwritten(plan[r]) /\ plan[r] \in SUBSET Original
      BY <1>1, <2>2, PlanUnwritten DEF WriteLookup, RestOK
    <3>2. QED
      BY <3>1
  <2>3. CASE ~ WriteAlign(r) /\ ~ WriteLookup(r)
    BY <1>3, <2>3 DEF RunNext, BeginUpload, Enqueue, BreakUpload, CreateRow, ListAlign,
       ListLookup, FailTail, RunGoes, graphVars
  <2>4. QED
    BY <2>1, <2>2, <2>3
<1>4. ASSUME NEW d \in Doc, JobNext(d)
      PROVE  ver' = ver \/ \E S \in SUBSET Original : Put(S) /\ Unwritten(S)
  <2>1. CASE Extract(d)
    <3> DEFINE S == {o \in Of("extraction") : Source[o] = {d}}
    <3>1. Put(S) /\ Unwritten(S) /\ S \in SUBSET Original
      BY <2>1, ExtractsUnwritten DEF Extract, Of
    <3>2. QED
      BY <3>1
  <2>2. CASE ~ Extract(d)
    BY <1>4, <2>2, JobWrites
  <2>3. QED
    BY <2>1, <2>2
<1>5. ASSUME NEW d \in Doc, RemovalNext(d)
      PROVE  ver' = ver \/ TakesAway(d)
  BY <1>1, <1>5, RemovalWrites
<1>6. QED
  BY <1>2, <1>3, <1>4, <1>5 DEF Next

\* The step of WrittenOnce.
WritesOnce ==
  abandoned = {} =>
    \A o \in Original :
      ver'[o] # None /\ ver'[o] # ver[o] /\ (ver'[o].current \/ ver[o] = None)
        => C!Chain(o) = {}

LEMMA StepWritesOnce ==
  ASSUME OnceInv, [Next]_vars PROVE WritesOnce
<1> SUFFICES ASSUME abandoned = {}, NEW o \in Original, ver'[o] # None, ver'[o] # ver[o],
                    ver'[o].current \/ ver[o] = None
             PROVE  C!Chain(o) = {}
  BY DEF WritesOnce
<1>1. HistoryInv /\ TypeInv /\ ApartInv /\ o \in Version
  BY ExtractedType DEF OnceInv, KeptInv, FullInv, ApartInv, HistoryInv
<1>2. CASE Curate
  <2>1. o \in Written
    BY <1>1, <1>2, CurateOriginals DEF Written, C!Written
  <2>2. P!TypeInv /\ P!TypeInv'
    BY <1>1, <1>2, Assumed, SameNext, P!NextTypeInv DEF Curate, TypeInv
  <2>3. P!AppendOnly
    BY <1>2, <2>2, Assumed, SameNext, P!StepAppendsOnly DEF Curate
  <2>4. ver'[o] = [ver[o] EXCEPT !.current = FALSE]
    BY <2>1, <2>3, SameState DEF P!AppendOnly
  <2>5. ver[o] \in P!VersionRec /\ ver[o] # None
    BY <1>1, <2>1, WrittenRecords DEF Written, C!Written
  <2>6. QED
    BY <2>4, <2>5 DEF P!VersionRec
<1>3. ASSUME NEW S \in SUBSET Original, Put(S), Unwritten(S)
      PROVE  C!Chain(o) = {}
  BY <1>1, <1>3 DEF Put, Unwritten, C!Chain, Written
<1>4. ASSUME NEW d \in Doc, TakesAway(d)
      PROVE  FALSE
  BY <1>1, <1>4 DEF TakesAway
<1>5. QED
  BY <1>2, <1>3, <1>4, StepPuts

LEMMA AlwaysOnceInv ==
  ASSUME NothingOverlaps, PairsStay, PairIds PROVE Spec => []OnceInv
<1>1. NothingOverlaps /\ PairsStay /\ PairIds
  OBVIOUS
<1>2. OnceInv /\ [Next]_vars => OnceInv'
  BY <1>1, NextOnceInv
<1>3. QED
  BY <1>2, InitOnceInv, PTL DEF Spec

(***************************************************************************)
(* Under the same conditions, and as long as no statement was abandoned,   *)
(* no original is written while the graph has a version of it, although    *)
(* the id of a statement repeats when a run is retried: the removal of the *)
(* retry takes the statements before the job is queued, the pairs that are *)
(* stated are dropped, and a lookup that was written covers all documents  *)
(* of its run, so that the retry of any of them takes it along.            *)
(***************************************************************************)
THEOREM OriginalsAreWrittenOnce ==
  ASSUME NothingOverlaps, PairsStay, PairIds PROVE Spec => WrittenOnce
<1>1. OnceInv /\ [Next]_vars => WritesOnce
  BY StepWritesOnce
<1>2. Spec => []OnceInv
  BY AlwaysOnceInv
<1>3. QED
  BY <1>1, <1>2, PTL DEF Spec, WrittenOnce, WritesOnce

-----------------------------------------------------------------------------
(* A single curator: the histories of the statements are lines, also when  *)
(* originals come and go.                                                  *)

\* Originals come when they have no version, and what goes takes nothing along that stays.
LEMMA LinesKept ==
  ASSUME P!LineInv, HistoryInv, Lineage', P!LoadedIsWritten, P!LoadedIsWritten', req' = req,
         NEW S \in SUBSET Original, Unwritten(S),
         \A v \in Written' : \/ v \in Written /\ ver'[v] = ver[v]
                             \/ v \in S /\ v \notin Written /\ ver'[v] = C!Extracted(v)
  PROVE  P!LineInv'
<1> USE SameState
<1>0. /\ P!Written = Written /\ P!Written' = Written'
      /\ None \notin Written
      /\ \A v \in Written : ver[v].root \in Original
  BY WrittenRecords DEF HistoryInv, P!Written, Written, C!Written
<1>1. \A v \in S : C!Extracted(v).root = v /\ C!Extracted(v).parent = None
  BY DEF C!Extracted
<1>2. \A v \in Written : ver[v].root \notin S /\ v \notin S
  BY DEF Unwritten, HistoryInv, Lineage
<1>3. \A v \in Written' :
        \/ v \in Written /\ ver'[v] = ver[v] /\ v \notin S /\ ver[v].root \notin S
        \/ v \in S /\ v \notin Written /\ ver'[v].root = v /\ ver'[v].parent = None
  BY <1>1, <1>2
<1>4. P!ParentsWritten'
  BY <1>0 DEF Lineage, P!ParentsWritten
<1>5. P!LinearHistory'
  <2>1. ASSUME NEW v \in Written', NEW w \in Written', ver'[v].parent = ver'[w].parent,
               ver'[v].parent # None
        PROVE  v = w
    BY <1>0, <1>3, <2>1 DEF P!LineInv, P!LinearHistory
  <2>2. ASSUME NEW v \in Written', NEW w \in Written', ver'[w].parent = v
        PROVE  ~ ver'[v].current
    <3>1. v # None
      BY <1>0, <1>3, ExtractedType, Assumed DEF P!OriginalAssumption, P!BoundAssumption
    <3>2. w \in Written /\ ver'[w] = ver[w]
      BY <1>3, <2>2, <3>1
    <3>3. v \in Written
      BY <2>2, <3>1, <3>2 DEF HistoryInv, Lineage
    <3>4. QED
      BY <1>0, <1>3, <2>2, <3>2, <3>3 DEF P!LineInv, P!LinearHistory
  <2>3. QED
    BY <1>0, <2>1, <2>2 DEF P!LinearHistory
<1>6. P!OneCurrentVersion'
  <2> SUFFICES ASSUME NEW v \in Written', NEW w \in Written', ver'[v].current, ver'[w].current,
                      ver'[v].root = ver'[w].root
               PROVE  v = w
    BY <1>0 DEF P!OneCurrentVersion, P!IsCurrent
  <2>1. QED
    BY <1>0, <1>3 DEF P!LineInv, P!OneCurrentVersion, P!IsCurrent
<1>7. P!HeldVersions'
  <2> SUFFICES ASSUME NEW c \in Curator, NEW v \in P!Target(c)
               PROVE  IF req[c].pc = "insert"
                        THEN /\ \A w \in Written' : ver'[w].parent # v
                             /\ \A w \in Written' : ver'[w].root = ver'[v].root => ~ ver'[w].current
                        ELSE ver'[v].current
    BY <1>0 DEF P!HeldVersions, P!NoSuccessor, P!NoCurrent, P!Target
  <2>1. v \in Written /\ v \in Written' /\ v # None
    <3>1. P!Target(c)' = P!Target(c)
      BY DEF P!Target
    <3>2. QED
      BY <1>0, <3>1 DEF P!LoadedIsWritten
  <2>2. ver'[v] = ver[v] /\ ver[v].root \notin S
    BY <1>3, <2>1
  <2>3. IF req[c].pc = "insert"
          THEN /\ \A w \in Written : ver[w].parent # v
               /\ \A w \in Written : ver[w].root = ver[v].root => ~ ver[w].current
          ELSE ver[v].current
    BY <1>0 DEF P!LineInv, P!HeldVersions, P!NoSuccessor, P!NoCurrent
  <2>4. CASE req[c].pc = "insert"
    BY <1>3, <2>1, <2>2, <2>3, <2>4
  <2>5. QED
    BY <2>2, <2>3, <2>4
<1>8. QED
  BY <1>4, <1>5, <1>6, <1>7 DEF P!LineInv

LEMMA NextLines ==
  ASSUME P!OneAtATime, OnceInv, OnceInv', abandoned = {}, P!LineInv, [Next]_vars
  PROVE  P!LineInv'
<1>1. /\ HistoryInv /\ TypeInv /\ ApartInv /\ Lineage'
      /\ P!LoadedIsWritten /\ P!LoadedIsWritten' /\ P!Inv /\ P!Inv'
  BY CurationInv, PTL DEF OnceInv, KeptInv, FullInv, ApartInv, HistoryInv
<1>2. CASE Curate
  BY <1>1, <1>2, Assumed, SameNext, P!NextLineInv DEF Curate
<1>3. CASE ~ Curate
  <2>1. req' = req
    BY <1>1, <1>3, GraphSteps
  <2>2. ASSUME NEW S \in SUBSET Original, Put(S), Unwritten(S)
        PROVE  P!LineInv'
    <3>1. Written' = Written \cup S
      BY <1>1, <2>2, PutExtends
    <3>2. \A v \in Version : ver'[v] = IF v \in S THEN C!Extracted(v) ELSE ver[v]
      BY <2>2 DEF Put
    <3>3. \A v \in Written : v \in Version /\ v \notin S
      BY <1>1, <2>2, WrittenRecords DEF Unwritten, HistoryInv, Lineage
    <3>4. \A v \in S : v \in Version
      BY ExtractedType
    <3>5. \A v \in Written' : \/ v \in Written /\ ver'[v] = ver[v]
                              \/ v \in S /\ v \notin Written /\ ver'[v] = C!Extracted(v)
      BY <3>1, <3>2, <3>3, <3>4
    <3>6. QED
      BY <1>1, <2>1, <2>2, <3>5, LinesKept
  <2>3. ASSUME \A v \in Written' : v \in Written /\ ver'[v] = ver[v]
        PROVE  P!LineInv'
    <3>1. PICK S : S = {}
      OBVIOUS
    <3>2. S \in SUBSET Original /\ Unwritten(S)
      BY <3>1 DEF Unwritten
    <3>3. QED
      BY <1>1, <2>1, <2>3, <3>2, LinesKept
  <2>4. CASE ver' = ver
    <3>1. \A v \in Written' : v \in Written /\ ver'[v] = ver[v]
      BY <2>4 DEF Written, C!Written
    <3>2. QED
      BY <2>3, <3>1
  <2>5. ASSUME NEW d \in Doc, TakesAway(d)
        PROVE  P!LineInv'
    BY <1>1, <2>3, <2>5, StaysOrGoes
  <2>6. QED
    BY <1>3, <2>2, <2>4, <2>5, StepPuts
<1>4. QED
  BY <1>2, <1>3

(***************************************************************************)
(* Which triples removals and curators take away: as far as the statements *)
(* that are there share none, a removal takes only those of the document,  *)
(* and until it ends the statements of the document may lack theirs.       *)
(***************************************************************************)

\* Statements say different things, except for the alignments of one pair.
SharedByPairs ==
  \A o, p \in Original : o # p /\ P!Own(o) \cap P!Own(p) # {} =>
    Kind[o] = "alignment" /\ Kind[p] = "alignment" /\ OriginalTriple[o] = OriginalTriple[p]

Supported(v) == P!Materialized(v) \/ DerivedFrom(v) \cap Removing # {}

SupportInv == breaks = 0 => \A v \in Written : Supported(v)

(***************************************************************************)
(* What was extracted is there until its document is removed.              *)
(***************************************************************************)
IsThere(d) ==
  /\ row[d] = "present" /\ job[d] \in {"extracted", "done"}
  /\ removal[d].pc \notin {"entity", "finish"}

ThereInv ==
  breaks = 0 =>
    \A o \in Of("extraction"), d \in Doc : Source[o] = {d} /\ IsThere(d) => o \in Written

OthersInv == OnceInv /\ abandoned = {} /\ P!LineInv /\ SupportInv

LEMMA NothingIsShared ==
  ASSUME SharedByPairs, OnceInv, abandoned = {} PROVE P!NothingShared
<1> SUFFICES ASSUME NEW v \in Written, NEW w \in Written, ver[v].root # ver[w].root
             PROVE  P!Own(ver[v].root) \cap P!Own(ver[w].root) = {}
  BY SameState DEF P!NothingShared
<1>1. FullInv /\ PairStatedOnce
  BY DEF OnceInv, KeptInv, PairInv
<1>2. /\ ver[v].root \in Written /\ ver[v].root \in Original
      /\ ver[w].root \in Written /\ ver[w].root \in Original
  BY <1>1, RootWritten
<1>3. QED
  BY <1>1, <1>2 DEF SharedByPairs, PairStatedOnce, Of

\* What a step does that is no step of a curator.
LEMMA SupportStays ==
  ASSUME SupportInv, req' = req, breaks' = 0 => breaks = 0,
         \A v \in Written' :
           \/ /\ v \in Written /\ ver'[v] = ver[v]
              /\ \/ ver[v].triple \in data' \/ ver[v].triple \notin data
                 \/ DerivedFrom(v) \cap Removing' # {}
              /\ \/ DerivedFrom(v) \cap Removing = {} \/ DerivedFrom(v) \cap Removing' # {}
           \/ ver'[v].status = "pending"
  PROVE  SupportInv'
<1> SUFFICES ASSUME breaks' = 0, NEW v \in Written', ver'[v].status # "pending"
             PROVE  Supported(v)'
  BY DEF SupportInv, Supported, P!Materialized, P!IsAccepted
<1>1. v \in Written /\ ver'[v] = ver[v] /\ Supported(v) /\ DerivedFrom(v)' = DerivedFrom(v)
  BY DEF SupportInv, DerivedFrom
<1>2. P!IsAccepted(v)' => P!IsAccepted(v)
  BY <1>1, SameState DEF P!IsAccepted, P!IsCurrent
<1>3. P!Retiring(v)' <=> P!Retiring(v)
  BY DEF P!Retiring, P!Target
<1>4. QED
  BY <1>1, <1>2, <1>3 DEF Supported, P!Materialized

LEMMA CurateSupport ==
  ASSUME P!Undisturbed, SharedByPairs, OthersInv, OnceInv', P!LineInv', Curate
  PROVE  SupportInv'
<1>1. /\ P!HistoryInv /\ P!HistoryInv'
      /\ HistoryInv /\ P!Inv
  BY CurationInv, PTL DEF OthersInv, OnceInv, KeptInv, FullInv, ApartInv, P!HistoryInv
<1>2. P!NothingShared /\ [P!Next]_P!vars
  BY NothingIsShared, SameNext DEF OthersInv, Curate
<1>3. breaks' = breaks /\ Removing' = Removing
  BY DEF Curate, Removing
<1> SUFFICES ASSUME breaks = 0, NEW v \in Written'
             PROVE  Supported(v)'
  BY <1>3 DEF SupportInv
<1>4. v \in Version
  BY DEF Written, C!Written
<1>5. CASE P!Materialized(v)
  BY <1>1, <1>2, <1>4, <1>5, Assumed, P!NextMaterialized DEF Supported
<1>6. CASE ~ P!Materialized(v)
  <2>1. v \in Written
    BY <1>6, SameState DEF P!Materialized, P!IsAccepted, P!IsCurrent
  <2>2. DerivedFrom(v) \cap Removing # {}
    BY <1>6, <2>1 DEF OthersInv, SupportInv, Supported
  <2>3. DerivedFrom(v)' = DerivedFrom(v)
    BY <1>1, <2>1, CurateExtends DEF Extends, DerivedFrom
  <2>4. QED
    BY <1>3, <2>2, <2>3 DEF Supported
<1>7. QED
  BY <1>5, <1>6

LEMMA WritersSupport ==
  ASSUME OthersInv, (\E r \in Run : RunNext(r)) \/ (\E d \in Doc : JobNext(d))
  PROVE  SupportInv'
<1>1. HistoryInv /\ TypeInv /\ RestOK
  BY TypeSplit DEF OthersInv, OnceInv, KeptInv, FullInv, ApartInv, HistoryInv
<1>2. /\ UNCHANGED <<data, req, removal>>
      /\ ver' = ver \/ \E S \in SUBSET Original : Put(S)
  <2>1. ASSUME NEW r \in Run, RunNext(r)
        PROVE  /\ UNCHANGED <<data, req, removal>>
               /\ ver' = ver \/ \E S \in SUBSET Original : Put(S)
    BY <1>1, <2>1, RunWrites
  <2>2. ASSUME NEW d \in Doc, JobNext(d)
        PROVE  /\ UNCHANGED <<data, req, removal>>
               /\ ver' = ver \/ \E S \in SUBSET Original : Put(S)
    <3>1. {o \in Of("extraction") : Source[o] = {d}} \in SUBSET Original
      BY DEF Of
    <3>2. QED
      BY <2>2, <3>1, JobWrites
  <2>3. QED
    BY <2>1, <2>2
<1>3. breaks' = 0 => breaks = 0
  <2>1. breaks' = breaks \/ breaks' = breaks + 1
    BY DEF RunNext, BeginUpload, Enqueue, BreakUpload, CreateRow, ListAlign, WriteAlign,
       ListLookup, WriteLookup, FailTail, RunGoes, JobNext, Fetch, Extract, File, FailJob, JobGoes
  <2>2. QED
    BY <1>1, <2>1 DEF RestOK
<1>4. \A v \in Written' : \/ v \in Written /\ ver'[v] = ver[v]
                          \/ ver'[v].status = "pending"
  <2>1. CASE ver' = ver
    BY <2>1 DEF Written, C!Written
  <2>2. ASSUME NEW S \in SUBSET Original, Put(S)
        PROVE  \A v \in Written' : \/ v \in Written /\ ver'[v] = ver[v]
                                   \/ ver'[v].status = "pending"
    BY <2>2 DEF Put, Written, C!Written, C!Extracted
  <2>3. QED
    BY <1>2, <2>1, <2>2
<1>5. Removing' = Removing
  BY <1>2 DEF Removing
<1>6. QED
  BY <1>2, <1>3, <1>4, <1>5, SupportStays DEF OthersInv

LEMMA RemovalSupport ==
  ASSUME SharedByPairs, OthersInv, NEW d \in Doc, RemovalNext(d)
  PROVE  SupportInv'
<1>1. HistoryInv /\ TypeInv /\ RestOK /\ FullInv
  BY TypeSplit DEF OthersInv, OnceInv, KeptInv, FullInv, ApartInv, HistoryInv
<1>2. req' = req
  BY <1>1, RemovalWrites
<1>3. CASE BreakRemoval(d)
  <2>1. breaks' # 0
    BY <1>1, <1>3 DEF BreakRemoval, RestOK
  <2>2. QED
    BY <2>1 DEF SupportInv
<1>4. CASE FinishDelete(d) \/ FinishRetry(d)
  <2>1. /\ removal[d].pc = "finish" /\ removal' = [removal EXCEPT ![d] = NoRemoval]
        /\ UNCHANGED <<ver, data, breaks>>
    BY <1>4 DEF FinishDelete, FinishRetry, graphVars
  <2>2. Removing' = Removing \ {d}
    BY <1>1, <2>1 DEF Removing, RestOK
  <2>3. \A v \in Written : d \notin DerivedFrom(v)
    BY <1>1, <2>1 DEF FullInv, OriginInv, From
  <2>4. Written' = Written
    BY <2>1 DEF Written, C!Written
  <2>5. QED
    BY <1>2, <2>1, <2>2, <2>3, <2>4, SupportStays DEF OthersInv
<1>5. CASE ~ BreakRemoval(d) /\ ~ FinishDelete(d) /\ ~ FinishRetry(d)
  <2>1. breaks' = breaks
    BY <1>5 DEF RemovalNext, Delete, Retry, StartRemoval, DropTriples, DropStatements,
       DropEntity, RemovalGoes
  <2>2. Removing \subseteq Removing'
    <3>1. CASE Delete(d) \/ Retry(d)
      <4>1. PICK why : removal' = [removal EXCEPT ![d] = [pc |-> "triples", why |-> why]]
        BY <3>1 DEF Delete, Retry, StartRemoval
      <4>2. [pc |-> "triples", why |-> why] # NoRemoval
        BY DEF NoRemoval
      <4>3. QED
        BY <1>1, <4>1, <4>2 DEF Removing, RestOK
    <3>2. CASE DropTriples(d) \/ DropStatements(d) \/ DropEntity(d)
      <4>1. PICK step \in RemovalStep, next \in RemovalStep : RemovalGoes(d, step, next)
        BY <3>2 DEF DropTriples, DropStatements, DropEntity, RemovalStep
      <4>2. removal'[d] # NoRemoval
        BY <1>1, <4>1 DEF RemovalGoes, RestOK, NoRemoval, RemovalStep
      <4>3. \A e \in Doc : e # d => removal'[e] = removal[e]
        BY <1>1, <4>1 DEF RemovalGoes, RestOK
      <4>4. QED
        BY <4>2, <4>3 DEF Removing
    <3>3. QED
      BY <1>5, <3>1, <3>2 DEF RemovalNext
  <2>3. CASE DropTriples(d)
    <3>1. /\ ver' = ver /\ data' = data \ {ver[v].triple : v \in Derived(d)}
          /\ removal[d].pc = "triples" /\ d \in Removing'
      BY <2>2, <2>3 DEF DropTriples, RemovalGoes, Removing, NoRemoval
    <3>2. Derived(d) = From(d)
      BY <1>1, DerivedIsFrom
    <3>3. ASSUME NEW v \in Written, ver[v].triple \in data, ver[v].triple \notin data'
          PROVE  DerivedFrom(v) \cap Removing' # {}
      <4>1. PICK w \in From(d) : ver[w].triple = ver[v].triple
        BY <3>1, <3>2, <3>3
      <4>2. w \in Written /\ d \in DerivedFrom(w)
        BY DEF From
      <4>3. ver[v].triple \in P!Own(ver[v].root) /\ ver[w].triple \in P!Own(ver[w].root)
        BY <4>2, SameState DEF OthersInv, OnceInv, KeptInv, P!PurposeInv, P!OwnTriplesOnly
      <4>4. ver[v].root = ver[w].root
        BY <4>1, <4>2, <4>3, NothingIsShared, SameState
        DEF OthersInv, P!NothingShared
      <4>5. QED
        BY <3>1, <4>2, <4>4 DEF DerivedFrom
    <3>4. Written' = Written
      BY <3>1 DEF Written, C!Written
    <3>5. QED
      BY <1>2, <2>1, <2>2, <3>1, <3>3, <3>4, SupportStays DEF OthersInv
  <2>4. CASE ~ DropTriples(d)
    <3>1. data' = data /\ (ver' = ver \/ TakesAway(d))
      BY <1>1, <2>4, RemovalWrites
    <3>2. \A v \in Written' : v \in Written /\ ver'[v] = ver[v]
      <4>1. CASE ver' = ver
        BY <4>1 DEF Written, C!Written
      <4>2. QED
        BY <1>1, <3>1, <4>1, StaysOrGoes
    <3>3. QED
      BY <1>2, <2>1, <2>2, <3>1, <3>2, SupportStays DEF OthersInv
  <2>5. QED
    BY <2>3, <2>4
<1>6. QED
  BY <1>3, <1>4, <1>5

(***************************************************************************)
(* With valid edits and when no request breaks off nothing is abandoned.   *)
(***************************************************************************)
LEMMA NothingAbandoned ==
  ASSUME P!Undisturbed, TypeInv, P!Inv, P!PurposeInv, abandoned = {}, [Next]_vars
  PROVE  abandoned' = {}
<1>1. CASE Curate
  <2>1. PICK c \in Curator :
          \/ P!LoadAccept(c) \/ P!ApplyAccept(c) \/ P!BreakOff(c)
          \/ \E v \in Version :
               \/ P!LoadReject(c, v) \/ P!LoadEdit(c, v) \/ P!LoadReset(c, v)
               \/ P!LoadOrigin(c, v) \/ P!Drop(c, v) \/ P!Retire(c, v) \/ P!Insert(c, v)
    <3>1. P!Next \/ UNCHANGED P!vars
      BY <1>1, SameNext DEF Curate
    <3>2. P!Next
      BY <1>1, SameNext DEF Curate
    <3>3. QED
      BY <3>2 DEF P!Next
  <2>2. ~ P!BreakOff(c)
    BY Assumed, P!NoBreakOff
  <2>3. ASSUME NEW v \in Version, P!Retire(c, v)
        PROVE  abandoned' = abandoned
    <3>1. v \in P!Target(c)
      BY <2>3 DEF P!Retire
    <3>2. ~ P!Refused(c)
      BY <3>1, Assumed, P!ValidIsCarriedOut DEF P!Undisturbed
    <3>3. QED
      BY <2>3, <3>2 DEF P!Retire
  <2>4. CASE \/ P!LoadAccept(c) \/ P!ApplyAccept(c)
             \/ \E v \in Version :
                  \/ P!LoadReject(c, v) \/ P!LoadEdit(c, v) \/ P!LoadReset(c, v)
                  \/ P!LoadOrigin(c, v) \/ P!Drop(c, v) \/ P!Insert(c, v)
    BY <2>4 DEF P!LoadAccept, P!ApplyAccept, P!LoadReject, P!LoadEdit, P!LoadReset,
                P!LoadOrigin, P!Drop, P!Insert, P!Begin
  <2>5. QED
    BY <2>1, <2>2, <2>3, <2>4
<1>2. QED
  BY <1>1, GraphSteps

LEMMA NextOthersInv ==
  ASSUME P!Undisturbed, NothingOverlaps, PairsStay, PairIds, SharedByPairs,
         OthersInv, [Next]_vars
  PROVE  OthersInv'
<1>1. OnceInv'
  BY NextOnceInv DEF OthersInv
<1>a. abandoned' = {}
  <2>1. TypeInv /\ P!Inv /\ P!PurposeInv
    BY CurationInv DEF OthersInv, OnceInv, KeptInv, FullInv, ApartInv, HistoryInv
  <2>2. QED
    BY <2>1, NothingAbandoned DEF OthersInv
<1>2. P!LineInv'
  BY <1>1, NextLines DEF OthersInv, P!Undisturbed
<1>3. SupportInv'
  <2>1. CASE UNCHANGED vars
    <3>1. req' = req /\ breaks' = breaks /\ Removing' = Removing /\ Written' = Written
      BY <2>1 DEF vars, graphVars, Removing, Written, C!Written
    <3>2. QED
      BY <2>1, <3>1, SupportStays DEF OthersInv, vars, graphVars
  <2>2. CASE Curate
    BY <1>1, <1>2, <2>2, CurateSupport
  <2>3. CASE (\E r \in Run : RunNext(r)) \/ (\E d \in Doc : JobNext(d))
    BY <2>3, WritersSupport
  <2>4. ASSUME NEW d \in Doc, RemovalNext(d)
        PROVE  SupportInv'
    BY <2>4, RemovalSupport
  <2>5. QED
    BY <2>1, <2>2, <2>3, <2>4 DEF Next
<1>4. QED
  BY <1>1, <1>a, <1>2, <1>3 DEF OthersInv

(***************************************************************************)
(* Only the removal of its own document takes away what was extracted.     *)
(***************************************************************************)
LEMMA NextThereInv ==
  ASSUME OnceInv, ThereInv, [Next]_vars PROVE ThereInv'
<1>1. HistoryInv /\ ApartInv /\ TypeInv /\ RestOK
  BY TypeSplit DEF OnceInv, KeptInv, FullInv, ApartInv, HistoryInv
<1> SUFFICES ASSUME breaks' = 0, NEW o \in Of("extraction"), NEW d \in Doc,
                    Source[o] = {d}, IsThere(d)'
             PROVE  o \in Written'
  BY DEF ThereInv
<1>2. o \in Original
  BY DEF Of
<1>3. breaks = 0 /\ IsThere(d) => o \in Written
  BY DEF ThereInv
<1>4. CASE UNCHANGED vars
  BY <1>3, <1>4 DEF vars, graphVars, runVars, IsThere, Written, C!Written
<1>5. CASE Curate
  <2>1. o \in Written
    BY <1>3, <1>5 DEF Curate, runVars, IsThere
  <2>2. QED
    BY <1>1, <1>5, <2>1, CurateExtends, CurationInv DEF Extends
<1>6. ASSUME NEW r \in Run, RunNext(r)
      PROVE  o \in Written'
  <2>1. breaks = 0
    <3>1. breaks' = breaks \/ breaks' = breaks + 1
      BY <1>6 DEF RunNext, BeginUpload, Enqueue, BreakUpload, CreateRow, ListAlign, WriteAlign,
         ListLookup, WriteLookup, FailTail, RunGoes
    <3>2. QED
      BY <1>1, <3>1 DEF RestOK
  <2>2. removal' = removal /\ job'[d] = job[d]
    BY <1>1, <1>6 DEF RestOK, RunNext, BeginUpload, Enqueue, BreakUpload, CreateRow, ListAlign,
       WriteAlign, ListLookup, WriteLookup, FailTail, RunGoes, IsThere
  <2>3. row'[d] = row[d]
    <3>1. ~ CreateRow(r, d)
      <4>1. job[d] # "none"
        BY <2>2 DEF IsThere
      <4>2. PICK s \in Run : d \in batch[s] /\ run[s] \in Going
        BY <4>1 DEF OnceInv, BooksInv, Started
      <4>3. d \in batch[r] => s = r
        BY <4>2 DEF OnceInv, BooksInv, BatchesApart
      <4>4. QED
        BY <4>2, <4>3 DEF CreateRow, Going
    <3>2. ASSUME NEW e \in Doc, CreateRow(r, e)
          PROVE  row'[d] = row[d]
      BY <1>1, <3>1, <3>2 DEF CreateRow, RestOK
    <3>3. QED
      BY <1>6, <3>2 DEF RunNext, BeginUpload, Enqueue, BreakUpload, ListAlign, WriteAlign,
         ListLookup, WriteLookup, FailTail, RunGoes
  <2>4. o \in Written
    BY <1>3, <2>1, <2>2, <2>3 DEF IsThere
  <2>5. CASE ver' = ver
    BY <2>4, <2>5 DEF Written, C!Written
  <2>6. ASSUME NEW S \in SUBSET plan[r], Put(S), plan[r] \in SUBSET Original
        PROVE  o \in Written'
    BY <1>1, <2>4, <2>6, PutExtends DEF Extends
  <2>7. QED
    BY <1>1, <1>6, <2>5, <2>6, RunWrites
<1>7. ASSUME NEW e \in Doc, JobNext(e)
      PROVE  o \in Written'
  <2>1. /\ row' = row /\ removal' = removal /\ breaks' = breaks
        /\ \A f \in Doc : f # e => job'[f] = job[f]
    BY <1>1, <1>7 DEF RestOK, JobNext, Fetch, Extract, File, FailJob, JobGoes
  <2>2. CASE Extract(e)
    <3> DEFINE S == {p \in Of("extraction") : Source[p] = {e}}
    <3>1. Put(S) /\ S \in SUBSET Original
      BY <2>2 DEF Extract, Of
    <3>2. Written' = Written \cup S
      BY <1>1, <3>1, PutExtends
    <3>3. CASE e = d
      BY <3>2, <3>3
    <3>4. CASE e # d
      BY <1>3, <2>1, <3>2, <3>4 DEF IsThere
    <3>5. QED
      BY <3>3, <3>4
  <2>3. CASE ~ Extract(e)
    <3>1. ver' = ver
      BY <1>7, <2>3, JobWrites
    <3>2. job[d] \in {"extracted", "done"}
      BY <1>1, <1>7, <2>3 DEF RestOK, JobNext, Fetch, File, FailJob, JobGoes, IsThere
    <3>3. QED
      BY <1>3, <2>1, <3>1, <3>2 DEF IsThere, Written, C!Written
  <2>4. QED
    BY <2>2, <2>3
<1>8. ASSUME NEW e \in Doc, RemovalNext(e)
      PROVE  o \in Written'
  <2>1. ~ BreakRemoval(e)
    BY <1>1 DEF BreakRemoval, RestOK
  <2>2. breaks = 0
    BY <1>8, <2>1 DEF RemovalNext, Delete, Retry, StartRemoval, DropTriples, DropStatements,
       DropEntity, RemovalGoes, FinishDelete, FinishRetry
  <2>3. row'[d] = row[d] /\ job'[d] = job[d]
    BY <1>1, <1>8, <2>1 DEF RestOK, RemovalNext, Delete, Retry, StartRemoval, DropTriples,
       DropStatements, DropEntity, RemovalGoes, FinishDelete, FinishRetry, IsThere, runVars
  <2>4. removal[d].pc \notin {"entity", "finish"}
    <3>1. \A f \in Doc : f # e => removal'[f] = removal[f]
      BY <1>1, <1>8, <2>1 DEF RestOK, RemovalNext, Delete, Retry, StartRemoval, DropTriples,
         DropStatements, DropEntity, RemovalGoes, FinishDelete, FinishRetry
    <3>2. CASE e # d
      BY <3>1, <3>2 DEF IsThere
    <3>3. CASE e = d
      <4>1. CASE Delete(d) \/ Retry(d)
        BY <4>1 DEF Delete, Retry, StartRemoval, NoRemoval
      <4>2. CASE DropTriples(d) \/ DropStatements(d)
        BY <4>2 DEF DropTriples, DropStatements, RemovalGoes
      <4>3. ~ DropEntity(d)
        BY <1>1 DEF DropEntity, RemovalGoes, IsThere, RestOK, RemovalStep, NoRemoval
      <4>4. ~ FinishDelete(d)
        BY <1>1 DEF FinishDelete, IsThere, RestOK
      <4>5. ~ FinishRetry(d)
        BY <1>1 DEF FinishRetry, IsThere, RestOK
      <4>6. QED
        BY <1>8, <2>1, <3>3, <4>1, <4>2, <4>3, <4>4, <4>5 DEF RemovalNext
    <3>4. QED
      BY <3>2, <3>3
  <2>5. o \in Written
    BY <1>3, <2>2, <2>3, <2>4 DEF IsThere
  <2>6. CASE ver' = ver
    BY <2>5, <2>6 DEF Written, C!Written
  <2>7. CASE DropStatements(e) /\ TakesAway(e)
    <3>1. e # d
      BY <1>1, <2>7 DEF DropStatements, RemovalGoes, IsThere, RestOK, RemovalStep, NoRemoval
    <3>2. DerivedFrom(o) = {d}
      BY <1>1, <1>2, <2>5 DEF HistoryInv, Lineage, DerivedFrom
    <3>3. o \notin From(e)
      BY <3>1, <3>2 DEF From
    <3>4. QED
      BY <1>1, <2>5, <2>7, <3>3, StaysOrGoes
  <2>8. QED
    BY <1>1, <1>8, <2>6, <2>7, RemovalWrites
<1>9. QED
  BY <1>4, <1>5, <1>6, <1>7, <1>8 DEF Next

(***************************************************************************)
(* A single curator with valid edits, no overlaps, and no two statements   *)
(* that may say the same but the alignments of one pair: then, as long as  *)
(* nothing broke off, between two requests and outside of the removals the *)
(* triple of every accepted statement that is left is in the data graph,   *)
(* and all that was extracted from the documents that are there has a      *)
(* current version or a request that is about to insert one. Nothing is    *)
(* said of what was aligned or looked up with a document that was removed. *)
(***************************************************************************)
THEOREM RemovalSparesOthers ==
  ASSUME P!Undisturbed, NothingOverlaps, PairsStay, PairIds, SharedByPairs
  PROVE  Spec => []OthersAreSpared
<1>1. P!Undisturbed /\ NothingOverlaps /\ PairsStay /\ PairIds /\ SharedByPairs
  OBVIOUS
<1>2. Init => OthersInv /\ ThereInv
  <2> SUFFICES ASSUME Init PROVE OthersInv /\ ThereInv
    OBVIOUS
  <2>1. Written = {}
    BY DEF Init, Written, C!Written
  <2>2. P!LineInv
    <3>1. \A c \in Curator : P!Target(c) = {}
      BY DEF Init, P!Target, C!Idle, C!NoLoad
    <3>2. QED
      BY <2>1, <3>1, SameState
      DEF P!LineInv, P!ParentsWritten, P!LinearHistory, P!OneCurrentVersion, P!HeldVersions
  <2>3. ThereInv
    BY DEF Init, ThereInv, IsThere
  <2>4. QED
    BY <2>1, <2>2, <2>3, InitOnceInv DEF Init, OthersInv, SupportInv
<1>3. OthersInv /\ [Next]_vars => OthersInv'
  BY <1>1, NextOthersInv
<1>4. OthersInv /\ ThereInv /\ [Next]_vars => ThereInv'
  BY NextThereInv DEF OthersInv
<1>5. OthersInv /\ ThereInv => OthersAreSpared
  <2> SUFFICES ASSUME OthersInv, ThereInv, faults + breaks = 0, Removing = {}
               PROVE  /\ C!AcceptedIsMaterialized
                      /\ \A o \in Of("extraction") \ abandoned, d \in Doc :
                           Source[o] = {d} /\ row[d] = "present"
                             /\ job[d] \in {"extracted", "done"} =>
                                \/ \E v \in C!Chain(o) : ver[v].current
                                \/ \E c \in Curator : C!Inserting(c, o)
    BY DEF OthersAreSpared
  <2>1. TypeInv /\ RestOK
    BY TypeSplit DEF OthersInv, OnceInv, KeptInv, FullInv, ApartInv, HistoryInv
  <2>2. breaks = 0
    BY <2>1 DEF RestOK, TypeInv, P!TypeInv, P!TypeOK
  <2>3. ASSUME C!Quiet, NEW v \in Version, C!IsCurrent(v), ver[v].status = "accepted",
               ver[v].term = "iri"
        PROVE  ver[v].triple \in data
    <3>1. v \in Written
      BY <2>3 DEF C!IsCurrent, Written
    <3>2. P!Materialized(v)
      BY <2>2, <3>1 DEF OthersInv, SupportInv, Supported
    <3>3. P!IsAccepted(v)
      BY <2>3, <3>1, SameState DEF P!IsAccepted, P!IsCurrent, C!IsCurrent
    <3>4. ~ P!Retiring(v)
      BY <2>3 DEF P!Retiring, C!Quiet
    <3>5. QED
      BY <3>2, <3>3, <3>4 DEF P!Materialized
  <2>4. ASSUME NEW o \in Of("extraction"), NEW d \in Doc, Source[o] = {d},
               row[d] = "present", job[d] \in {"extracted", "done"}
        PROVE  \/ \E v \in C!Chain(o) : ver[v].current
               \/ \E c \in Curator : C!Inserting(c, o)
    <3>1. removal[d].pc \notin {"entity", "finish"}
      BY DEF Removing, NoRemoval
    <3>2. o \in Written /\ o \in Original
      BY <2>2, <2>4, <3>1 DEF ThereInv, IsThere, Of
    <3>3. P!Present(o)
      BY <3>2 DEF OthersInv, OnceInv, KeptInv, PresentInv
    <3>4. QED
      BY <3>3 DEF P!Present, P!HasCurrent, P!Chain, P!Written, P!Inserting, P!Target,
                  C!Chain, C!Written, C!Inserting, C!Target
  <2>5. C!AcceptedIsMaterialized
    BY <2>3 DEF C!AcceptedIsMaterialized
  <2>6. QED
    BY <2>4, <2>5
<1>6. QED
  BY <1>2, <1>3, <1>4, <1>5, PTL DEF Spec

=============================================================================
