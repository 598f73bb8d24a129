----------------------- MODULE CurationHistoryProofs -----------------------
(***************************************************************************)
(* Proofs about a single curator: the history of a statement is a line of  *)
(* versions, what is accepted is materialized, and the versions and the    *)
(* separate requests implement StatementLedger. With two curators all      *)
(* three are false (MCCuration_fork.cfg).                                  *)
(***************************************************************************)
EXTENDS CurationProofs, CurationRefinement, FiniteSetTheorems

\* One request at a time, and no statement listed twice in a bulk accept.
OneAtATime ==
  /\ \A c, d \in Curator : c = d
  /\ Repeats = FALSE

(***************************************************************************)
(* The inductive invariant: versions derive from written ones, a version a *)
(* request holds is current until the request retires it, and from then on *)
(* until the insert it is the last one of its statement.                   *)
(***************************************************************************)
NoSuccessor(v) == \A w \in Written : ver[w].parent # v
NoCurrent(o) == \A w \in Written : ver[w].root = o => ~ ver[w].current

ParentsWritten == \A v \in Written : ver[v].parent # None => ver[v].parent \in Written

HeldVersions ==
  \A c \in Curator : \A v \in Target(c) :
    IF req[c].pc = "insert"
      THEN NoSuccessor(v) /\ NoCurrent(ver[v].root)
      ELSE ver[v].current

LineInv == ParentsWritten /\ LinearHistory /\ OneCurrentVersion /\ HeldVersions

LEMMA InitLineInv == Init => LineInv
<1> SUFFICES ASSUME Init PROVE LineInv
  OBVIOUS
<1>1. \A v \in Written : v \in Original /\ ver[v] = Extracted(v)
  BY OriginalAssumption DEF Init, Written
<1>2. \A c \in Curator : Target(c) = {}
  BY DEF Init, Target, Idle, NoLoad
<1>3. None \notin Written
  BY NoneIsNoRecord DEF Written
<1>4. \A v \in Written : ver[v].parent = None /\ ver[v].root = v
  <2>1. \A v : Extracted(v).parent = None /\ Extracted(v).root = v
    BY DEF Extracted
  <2>2. QED
    BY <1>1, <2>1
<1>5. ParentsWritten /\ LinearHistory
  BY <1>3, <1>4 DEF ParentsWritten, LinearHistory
<1>6. OneCurrentVersion
  BY <1>4 DEF OneCurrentVersion
<1>7. HeldVersions
  BY <1>2 DEF HeldVersions
<1>8. QED
  BY <1>5, <1>6, <1>7 DEF LineInv

(***************************************************************************)
(* A request that writes no version, and holds only current ones.          *)
(***************************************************************************)
LEMMA NothingWrittenKeepsLine ==
  ASSUME LineInv, ver' = ver,
         \A c \in Curator : \A v \in Target(c)' : req'[c].pc # "insert" /\ ver[v].current
  PROVE  LineInv'
<1>1. Written' = Written /\ \A v : IsCurrent(v)' <=> IsCurrent(v)
  BY DEF Written, IsCurrent
<1>2. ParentsWritten' /\ LinearHistory' /\ OneCurrentVersion'
  BY <1>1 DEF LineInv, ParentsWritten, LinearHistory, OneCurrentVersion
<1>3. HeldVersions'
  BY DEF HeldVersions
<1>4. QED
  BY <1>2, <1>3 DEF LineInv

(***************************************************************************)
(* Writing successors: each new version succeeds another version that has  *)
(* no successor yet and is the only one of its statement that may still    *)
(* have been current, and none of these stays current.                     *)
(***************************************************************************)
Succeeded(S) ==
  /\ S \subseteq Written
  /\ \A s \in S : /\ NoSuccessor(s)
                  /\ \A w \in Written : ver[w].root = ver[s].root /\ ver[w].current => w \in S
                  /\ \A t \in S : ver[s].root = ver[t].root => s = t

Succeed(S, new, from) ==
  /\ new \subseteq Unused
  /\ from \in [new -> S] /\ Injective(from)
  /\ Written' = Written \cup new
  /\ \A n \in new : ver'[n].parent = from[n] /\ ver'[n].root = ver[from[n]].root
  /\ \A v \in Written : /\ ver'[v].parent = ver[v].parent
                        /\ ver'[v].root = ver[v].root
                        /\ ver'[v].current => ver[v].current /\ v \notin S

LEMMA SuccessorsKeepLine ==
  ASSUME LineInv, NEW S, NEW new, NEW from, Succeeded(S), Succeed(S, new, from)
  PROVE  ParentsWritten' /\ LinearHistory' /\ OneCurrentVersion'
<1> USE DEF Succeeded, Succeed
<1>1. \A n \in new : n \notin Written /\ from[n] \in Written
  BY DEF Unused
<1>2. ParentsWritten'
  BY <1>1 DEF LineInv, ParentsWritten
<1>3. ASSUME NEW v \in Written', NEW w \in Written', ver'[v].parent = ver'[w].parent,
             ver'[v].parent # None
      PROVE  v = w
  <2>1. CASE v \in Written /\ w \in Written
    BY <1>3, <2>1 DEF LineInv, LinearHistory
  <2>2. CASE v \in new /\ w \in new
    BY <1>3, <2>2 DEF Injective
  <2>3. CASE v \in Written /\ w \in new
    BY <1>3, <2>3 DEF NoSuccessor
  <2>4. CASE v \in new /\ w \in Written
    BY <1>3, <2>4 DEF NoSuccessor
  <2>5. QED
    BY <2>1, <2>2, <2>3, <2>4
<1>4. ASSUME NEW v \in Written', NEW w \in Written', ver'[w].parent = v
      PROVE  ~ ver'[v].current
  <2>1. v # None
    BY <1>4, NoneIsNoRecord DEF Unused, Written
  <2>2. CASE w \in new
    BY <1>1, <1>4, <2>2
  <2>3. CASE w \in Written
    <3>1. v \in Written
      BY <1>4, <2>1, <2>3 DEF LineInv, ParentsWritten
    <3>2. QED
      BY <1>4, <2>3, <3>1 DEF LineInv, LinearHistory
  <2>4. QED
    BY <2>2, <2>3
<1>5. ASSUME NEW v \in Written', NEW w \in Written', ver'[v].current, ver'[w].current,
             ver'[v].root = ver'[w].root
      PROVE  v = w
  <2>1. CASE v \in Written /\ w \in Written
    BY <1>5, <2>1 DEF LineInv, OneCurrentVersion, IsCurrent
  <2>2. CASE v \in new /\ w \in new
    BY <1>5, <2>2 DEF Injective
  <2>3. CASE v \in Written /\ w \in new
    BY <1>5, <2>3
  <2>4. CASE v \in new /\ w \in Written
    BY <1>5, <2>4
  <2>5. QED
    BY <2>1, <2>2, <2>3, <2>4
<1>6. QED
  BY <1>2, <1>3, <1>4, <1>5 DEF LinearHistory, OneCurrentVersion, IsCurrent

\* What a current version held by a request allows.
LEMMA CurrentIsLast ==
  ASSUME LineInv, NEW v \in Written, ver[v].current
  PROVE  /\ NoSuccessor(v)
         /\ \A w \in Written : ver[w].root = ver[v].root /\ ver[w].current => w = v
  BY DEF LineInv, LinearHistory, OneCurrentVersion, IsCurrent, NoSuccessor

LEMMA HeldIsWritten ==
  ASSUME Inv, NEW c \in Curator, NEW v \in Target(c)
  PROVE  /\ v \in Written /\ v \in Version
         /\ req[c].load[v] \in VersionRec
         /\ req[c].load[v].triple = ver[v].triple
         /\ req[c].load[v].status = ver[v].status
         /\ req[c].load[v].root = ver[v].root
  BY DEF Inv, TypeInv, TypeOK, LoadedIsWritten, Target, Request

-----------------------------------------------------------------------------
(* The steps of the only curator.                                          *)

LEMMA LoadKeepsLine ==
  ASSUME OneAtATime, Inv, Inv', LineInv, NEW c \in Curator,
         \/ LoadAccept(c)
         \/ \E v \in Version : LoadReject(c, v) \/ LoadEdit(c, v) \/ LoadReset(c, v)
  PROVE  LineInv'
<1>a. \E S \in SUBSET Written :
        /\ \A v \in S : ver[v].current
        /\ \E op, into, pc : pc # "insert" /\ Begin(c, op, Load(S), into, pc)
  <2>1. CASE LoadAccept(c)
    BY <2>1 DEF LoadAccept
  <2>2. ASSUME NEW v \in Version, LoadReject(c, v) \/ LoadEdit(c, v) \/ LoadReset(c, v)
        PROVE  \E S \in SUBSET Written :
                 /\ \A u \in S : ver[u].current
                 /\ \E op, into, pc : pc # "insert" /\ Begin(c, op, Load(S), into, pc)
    <3>1. \E op, into, pc : pc # "insert" /\ Begin(c, op, Load({v}), into, pc)
      BY <2>2 DEF LoadReject, LoadEdit, LoadReset, AfterCheck
    <3>2. {v} \in SUBSET Written /\ ver[v].current
      BY <2>2 DEF LoadReject, LoadEdit, LoadReset, IsCurrent
    <3>3. QED
      BY <3>1, <3>2
  <2>3. QED
    BY <2>1, <2>2
<1>b. PICK S \in SUBSET Written :
        /\ \A v \in S : ver[v].current
        /\ \E op, into, pc : pc # "insert" /\ Begin(c, op, Load(S), into, pc)
  BY <1>a
<1>1. PICK op, into, pc : pc # "insert" /\ Begin(c, op, Load(S), into, pc)
  BY <1>b
<1>2. ver' = ver /\ req'[c] = [pc |-> pc, op |-> op, load |-> Load(S), into |-> into]
  BY <1>1 DEF Begin, Inv, TypeInv, TypeOK
<1>3. \A d \in Curator : \A v \in Target(d)' : req'[d].pc # "insert" /\ ver[v].current
  BY <1>b, <1>1, <1>2 DEF OneAtATime, Target, Load
<1>4. QED
  BY <1>2, <1>3, NothingWrittenKeepsLine

LEMMA CheckKeepsLine ==
  ASSUME OneAtATime, Inv, Inv', LineInv, NEW c \in Curator,
         BreakOff(c) \/ \E v \in Version : LoadOrigin(c, v) \/ Drop(c, v)
  PROVE  LineInv'
<1>1. ver' = ver /\ \A v : Idle.load[v] = None \/ v \notin Version
  BY IdleLoadsNothing DEF BreakOff, LoadOrigin, Drop
<1>2. \/ req'[c] = Idle
      \/ /\ req'[c].load = req[c].load
         /\ req[c].pc # "insert" /\ req'[c].pc # "insert"
  <2>1. req \in [Curator -> Request] /\ req[c] \in Request
    BY DEF Inv, TypeInv, TypeOK
  <2>2. CASE BreakOff(c)
    BY <2>1, <2>2 DEF BreakOff
  <2>3. ASSUME NEW v \in Version, LoadOrigin(c, v)
        PROVE  <1>2!1 \/ <1>2!2
    BY <2>1, <2>3 DEF LoadOrigin, Request, AfterCheck
  <2>4. ASSUME NEW v \in Version, Drop(c, v)
        PROVE  <1>2!1 \/ <1>2!2
    BY <2>1, <2>4 DEF Drop, Request
  <2>5. QED
    BY <2>2, <2>3, <2>4
<1>3. \A d \in Curator : \A v \in Target(d)' : req'[d].pc # "insert" /\ ver[v].current
  BY <1>1, <1>2 DEF OneAtATime, Target, LineInv, HeldVersions
<1>4. QED
  BY <1>1, <1>3, NothingWrittenKeepsLine

LEMMA RetireKeepsLine ==
  ASSUME OneAtATime, Inv, Inv', LineInv, NEW c \in Curator, NEW v \in Version, Retire(c, v)
  PROVE  LineInv'
<1>1. /\ ver' = [ver EXCEPT ![v] = Retired(v)]
      /\ req[c].pc = "retire" /\ v \in Target(c)
      /\ \/ req'[c].pc = "insert" /\ req'[c].load = req[c].load
         \/ req'[c] = Idle
  BY DEF Retire, Inv, TypeInv, TypeOK, Request
<1>2. v \in Written /\ ver[v] \in VersionRec
  BY <1>1, HeldIsWritten, WrittenIsRecord DEF Inv, TypeInv
<1>3. ver'[v] = [ver[v] EXCEPT !.current = FALSE] /\ \A w \in Version : w # v => ver'[w] = ver[w]
  BY <1>1, <1>2 DEF Retired, Inv, TypeInv, TypeOK
<1>4. /\ ver'[v].parent = ver[v].parent /\ ver'[v].root = ver[v].root
      /\ ~ ver'[v].current /\ ver'[v] \in VersionRec
  BY <1>2, <1>3 DEF VersionRec
<1>5. Written' = Written
  BY <1>2, <1>3, <1>4, NoneIsNoRecord DEF Written
<1>6. \A w \in Written : /\ ver'[w].parent = ver[w].parent /\ ver'[w].root = ver[w].root
                         /\ ver'[w].current => ver[w].current /\ w # v
  BY <1>3, <1>4 DEF Written
<1>7. ver[v].current
  BY <1>1 DEF LineInv, HeldVersions
<1>8. ParentsWritten' /\ LinearHistory' /\ OneCurrentVersion'
  BY <1>5, <1>6 DEF LineInv, ParentsWritten, LinearHistory, OneCurrentVersion, IsCurrent
<1>9. NoSuccessor(v)' /\ NoCurrent(ver[v].root)'
  BY <1>2, <1>5, <1>6, <1>7, CurrentIsLast DEF NoSuccessor, NoCurrent
<1>10. \A d \in Curator : \A w \in Target(d)' : d = c /\ w = v /\ req'[c].pc = "insert"
  BY <1>1, SingleTarget, IdleLoadsNothing DEF OneAtATime, Target
<1>11. HeldVersions'
  BY <1>1, <1>4, <1>9, <1>10 DEF HeldVersions
<1>12. QED
  BY <1>8, <1>11 DEF LineInv

LEMMA InsertKeepsLine ==
  ASSUME OneAtATime, Inv, Inv', LineInv, NEW c \in Curator, NEW v \in Version, Insert(c, v)
  PROVE  LineInv'
<1>1. PICK n \in Unused : ver' = [ver EXCEPT ![n] = NewVersion(c, v)]
  BY DEF Insert
<1>2. v \in Target(c) /\ req[c].pc = "insert" /\ req'[c] = Idle
  BY DEF Insert, Inv, TypeInv, TypeOK
<1>3. v \in Written /\ req[c].load[v].root = ver[v].root
  BY <1>2, HeldIsWritten
<1>4. /\ NewVersion(c, v).parent = v /\ NewVersion(c, v).root = ver[v].root
      /\ NewVersion(c, v) \in VersionRec
  BY <1>2, <1>3, NewVersionType DEF NewVersion, Successor, Inv
<1>5. n \in Version /\ n \notin Written
  BY DEF Unused
<1>6. ver'[n] = NewVersion(c, v) /\ \A w \in Version : w # n => ver'[w] = ver[w]
  BY <1>1, <1>5 DEF Inv, TypeInv, TypeOK
<1>7. NoSuccessor(v) /\ NoCurrent(ver[v].root)
  BY <1>2 DEF LineInv, HeldVersions
<1> DEFINE from == [m \in {n} |-> v]
<1>8. from \in [{n} -> {v}] /\ Injective(from) /\ {n} \subseteq Unused
  BY DEF Injective
<1>9. Written' = Written \cup {n}
  BY <1>4, <1>5, <1>6, NoneIsNoRecord DEF Written
<1>10. \A w \in Written : /\ ver'[w].parent = ver[w].parent /\ ver'[w].root = ver[w].root
                          /\ ver'[w].current => ver[w].current /\ w \notin {v}
  BY <1>3, <1>5, <1>6, <1>7 DEF Written, NoCurrent
<1>11. \A m \in {n} : ver'[m].parent = from[m] /\ ver'[m].root = ver[from[m]].root
  BY <1>4, <1>6
<1>12. Succeeded({v})
  BY <1>3, <1>7 DEF NoCurrent, Succeeded
<1> HIDE DEF from
<1>13. ParentsWritten' /\ LinearHistory' /\ OneCurrentVersion'
  <2>1. Succeed({v}, {n}, from)
    BY <1>8, <1>9, <1>10, <1>11 DEF Succeed
  <2>2. QED
    BY <1>12, <2>1, SuccessorsKeepLine
<1>14. HeldVersions'
  BY <1>2, IdleLoadsNothing DEF HeldVersions, OneAtATime, Target
<1>15. QED
  BY <1>13, <1>14 DEF LineInv

LEMMA AcceptKeepsLine ==
  ASSUME OneAtATime, Inv, Inv', LineInv, NEW c \in Curator, ApplyAccept(c)
  PROVE  LineInv'
<1> DEFINE S == Target(c)
<1>1. PICK new \in SUBSET Unused : \E from \in [new -> S] :
        Injective(from) /\ ver' = Accepted(c, from)
  BY DEF ApplyAccept, OneAtATime
<1>2. PICK from \in [new -> S] : Injective(from) /\ ver' = Accepted(c, from)
  BY <1>1
<1>3. req[c].pc = "apply" /\ req'[c] = Idle
  BY DEF ApplyAccept, Inv, TypeInv, TypeOK
<1>4. \A s \in S : s \in Written /\ s \in Version /\ req[c].load[s].root = ver[s].root
                   /\ req[c].load[s] \in VersionRec
  BY HeldIsWritten
<1>5. \A s \in S : ver[s].current
  BY <1>3 DEF LineInv, HeldVersions
<1>6. \A n \in new : n \in Version /\ n \notin Written
  BY DEF Unused
<1>7. ASSUME NEW n \in new
      PROVE  /\ ver'[n] \in VersionRec
             /\ ver'[n].parent = from[n] /\ ver'[n].root = ver[from[n]].root
  <2> DEFINE r == req[c].load[from[n]]
  <2>1. from[n] \in S
    OBVIOUS
  <2>2. r \in VersionRec /\ r.triple \in Triple /\ r.root = ver[from[n]].root
        /\ from[n] \in Version
    BY <1>4, <2>1 DEF VersionRec
  <2>3. ver'[n] = Successor(from[n], r, r.triple, "accepted", "iri")
    BY <1>2, <1>6 DEF Accepted
  <2>4. Successor(from[n], r, r.triple, "accepted", "iri") \in VersionRec
    BY <2>2, SuccessorType DEF Status
  <2>5. QED
    BY <2>2, <2>3, <2>4 DEF Successor
<1>8. ASSUME NEW w \in Written
      PROVE  /\ ver'[w] \in VersionRec
             /\ ver'[w].parent = ver[w].parent /\ ver'[w].root = ver[w].root
             /\ ver'[w].current => ver[w].current /\ w \notin S
  <2>1. w \in Version /\ w \notin new /\ ver[w] \in VersionRec
    BY <1>6, WrittenIsRecord DEF Inv, TypeInv
  <2>2. ver'[w] = IF w \in S THEN Retired(w) ELSE ver[w]
    BY <1>2, <2>1 DEF Accepted
  <2>3. Retired(w) = [ver[w] EXCEPT !.current = FALSE]
    BY DEF Retired
  <2>4. QED
    BY <2>1, <2>2, <2>3 DEF VersionRec
<1>9. Written' = Written \cup new
  <2>1. \A w \in Version : w \notin Written /\ w \notin new => ver'[w] = None
    BY <1>2, <1>4 DEF Accepted, Written
  <2>2. QED
    BY <1>6, <1>7, <1>8, <2>1, NoneIsNoRecord DEF Written
<1>10. \A s \in S : /\ NoSuccessor(s)
                    /\ \A w \in Written : ver[w].root = ver[s].root /\ ver[w].current => w \in S
                    /\ \A t \in S : ver[s].root = ver[t].root => s = t
  BY <1>4, <1>5, CurrentIsLast
<1> HIDE DEF S
<1>11. Succeeded(S)
  BY <1>4, <1>10 DEF Succeeded
<1>12. ParentsWritten' /\ LinearHistory' /\ OneCurrentVersion'
  <2>1. Succeed(S, new, from)
    BY <1>2, <1>7, <1>8, <1>9 DEF Succeed
  <2>2. QED
    BY <1>11, <2>1, SuccessorsKeepLine
<1>13. HeldVersions'
  BY <1>3, IdleLoadsNothing DEF HeldVersions, OneAtATime, Target
<1>14. QED
  BY <1>12, <1>13 DEF LineInv

LEMMA NextLineInv == OneAtATime /\ Inv /\ Inv' /\ LineInv /\ [Next]_vars => LineInv'
<1> SUFFICES ASSUME OneAtATime, Inv, Inv', LineInv, [Next]_vars PROVE LineInv'
  OBVIOUS
<1>1. CASE UNCHANGED vars
  BY <1>1 DEF vars, LineInv, ParentsWritten, LinearHistory, OneCurrentVersion, HeldVersions,
              NoSuccessor, NoCurrent, IsCurrent, Target, Written
<1>2. ASSUME NEW c \in Curator,
             \/ LoadAccept(c)
             \/ \E v \in Version : LoadReject(c, v) \/ LoadEdit(c, v) \/ LoadReset(c, v)
      PROVE  LineInv'
  BY <1>2, LoadKeepsLine
<1>3. ASSUME NEW c \in Curator,
             BreakOff(c) \/ \E v \in Version : LoadOrigin(c, v) \/ Drop(c, v)
      PROVE  LineInv'
  BY <1>3, CheckKeepsLine
<1>4. ASSUME NEW c \in Curator, ApplyAccept(c)
      PROVE  LineInv'
  BY <1>4, AcceptKeepsLine
<1>5. ASSUME NEW c \in Curator, NEW v \in Version, Retire(c, v) \/ Insert(c, v)
      PROVE  LineInv'
  BY <1>5, RetireKeepsLine, InsertKeepsLine
<1>6. QED
  BY <1>1, <1>2, <1>3, <1>4, <1>5 DEF Next

LEMMA AlwaysLineInv == ASSUME OneAtATime PROVE Spec => [](Inv /\ LineInv)
<1>1. OneAtATime
  OBVIOUS
<1>2. Init => Inv /\ LineInv
  BY InitInv, InitLineInv
<1>3. Inv /\ LineInv /\ [Next]_vars => Inv' /\ LineInv'
  BY <1>1, NextInv, NextLineInv
<1>4. QED
  BY <1>2, <1>3, PTL DEF Spec

(***************************************************************************)
(* With one curator the provenance of a statement is a line: no version    *)
(* has two successors and none with a successor is current, also when      *)
(* requests break off.                                                     *)
(***************************************************************************)
THEOREM OneLineOfVersions == ASSUME OneAtATime PROVE Spec => []LinearHistory
<1>1. LineInv => LinearHistory
  BY DEF LineInv
<1>2. QED
  BY <1>1, AlwaysLineInv, PTL

(***************************************************************************)
(* Two versions of a statement are never current for a single curator, so  *)
(* get_current_candidate_statement never finds several (store/queries.py). *)
(***************************************************************************)
THEOREM SingleCuratorNeverForks == ASSUME OneAtATime PROVE Spec => []OneCurrentVersion
<1>1. LineInv => OneCurrentVersion
  BY DEF LineInv
<1>2. QED
  BY <1>1, AlwaysLineInv, PTL

-----------------------------------------------------------------------------
(* What a request knows about the version it will insert.                  *)

(***************************************************************************)
(* A rejected statement keeps its triple, an edited one gets another that  *)
(* a curator typed for it, a reset one gets the extracted one; the data    *)
(* graph is changed first only for a version that was accepted.            *)
(***************************************************************************)
Purpose(r) ==
  \A v \in Version : r.load[v] # None =>
    /\ r.op = "reject" => r.into = r.load[v].triple
    /\ r.op = "edit" => r.into \in Edits[r.load[v].root] /\ ValidEdit(r.into, r.load[v])
    /\ r.op = "reset" /\ r.pc # "origin" => r.into = OriginalTriple[r.load[v].root]
    /\ r.pc \in {"drop", "retire", "insert"} => r.op \in {"reject", "edit", "reset"}
    /\ r.pc = "drop" => r.load[v].status = "accepted"
    /\ r.pc = "origin" => r.op = "reset"

OriginalsKept ==
  \A o \in Original \cap Written : ver[o].root = o /\ ver[o].triple = OriginalTriple[o]

\* What a statement may ever say.
Own(o) == {OriginalTriple[o]} \cup Edits[o]

OwnTriplesOnly == \A v \in Written : ver[v].triple \in Own(ver[v].root)

PurposeInv ==
  /\ \A c \in Curator : Purpose(req[c])
  /\ OriginalsKept
  /\ OwnTriplesOnly

LEMMA InitPurposeInv == Init => PurposeInv
<1> SUFFICES ASSUME Init PROVE PurposeInv
  OBVIOUS
<1>1. \A c \in Curator : Purpose(req[c])
  BY IdleLoadsNothing DEF Init, Purpose
<1>2. \A v \in Written : v \in Original /\ ver[v] = Extracted(v)
  BY OriginalAssumption DEF Init, Written
<1>3. \A o : Extracted(o).root = o /\ Extracted(o).triple = OriginalTriple[o]
  BY DEF Extracted
<1>4. OriginalsKept
  BY <1>2, <1>3 DEF OriginalsKept
<1>5. OwnTriplesOnly
  BY <1>2, <1>3 DEF OwnTriplesOnly, Own
<1>6. QED
  BY <1>1, <1>4, <1>5 DEF PurposeInv

(***************************************************************************)
(* A step keeps what is written, apart from the flags.                     *)
(***************************************************************************)
LEMMA FieldsKept ==
  ASSUME Inv, Inv', [Next]_vars, NEW v \in Written
  PROVE  /\ v \in Written' /\ v \in Version
         /\ ver'[v].triple = ver[v].triple /\ ver'[v].status = ver[v].status
         /\ ver'[v].root = ver[v].root /\ ver'[v].term = ver[v].term
         /\ ver'[v].current => ver[v].current
<1>1. v \in Version /\ ver[v] \in VersionRec
  BY WrittenIsRecord DEF Inv, TypeInv
<1>2. ver'[v] # None /\ ver'[v] \in {ver[v], [ver[v] EXCEPT !.current = FALSE]}
  BY StepAppendsOnly DEF Inv, AppendOnly
<1>3. QED
  BY <1>1, <1>2 DEF VersionRec, Written

(***************************************************************************)
(* Only the update of accept and the insert write new versions.            *)
(***************************************************************************)
LEMMA FreshVersion ==
  ASSUME Inv, [Next]_vars, NEW n \in Written', n \notin Written
  PROVE  \E c \in Curator : \E s \in Target(c) :
           \/ /\ ApplyAccept(c)
              /\ ver'[n] = Successor(s, req[c].load[s], req[c].load[s].triple, "accepted", "iri")
           \/ Insert(c, s) /\ ver'[n] = NewVersion(c, s)
<1>1. n \in Version /\ ver[n] = None /\ ver'[n] # None
  BY DEF Written
<1>2. ver' # ver
  BY <1>1
<1>3. PICK c \in Curator :
        ApplyAccept(c) \/ \E v \in Version : Retire(c, v) \/ Insert(c, v)
  <2>1. ASSUME NEW c \in Curator,
               \/ LoadAccept(c) \/ BreakOff(c)
               \/ \E v \in Version : \/ LoadReject(c, v) \/ LoadEdit(c, v) \/ LoadReset(c, v)
                                     \/ LoadOrigin(c, v) \/ Drop(c, v)
        PROVE  FALSE
    BY <1>2, <2>1 DEF LoadAccept, BreakOff, LoadReject, LoadEdit, LoadReset, LoadOrigin, Drop, Begin
  <2>2. QED
    BY <1>2, <2>1 DEF Next, vars
<1>4. CASE ApplyAccept(c)
  <2>1. PICK new \in SUBSET Unused : \E from \in [new -> Target(c)] : ver' = Accepted(c, from)
    BY <1>4 DEF ApplyAccept
  <2>2. PICK from \in [new -> Target(c)] : ver' = Accepted(c, from)
    BY <2>1
  <2>3. \A s \in Target(c) : s \in Written
    BY HeldIsWritten
  <2>4. n \in new
    BY <1>1, <2>2, <2>3 DEF Accepted, Written
  <2>5. from[n] \in Target(c)
    BY <2>4
  <2>6. ver'[n] = Successor(from[n], req[c].load[from[n]], req[c].load[from[n]].triple,
                            "accepted", "iri")
    BY <1>1, <2>2, <2>4 DEF Accepted
  <2>7. QED
    BY <1>4, <2>5, <2>6
<1>5. ASSUME NEW v \in Version, Retire(c, v) PROVE FALSE
  <2>1. v \in Written
    BY <1>5, HeldIsWritten DEF Retire
  <2>2. ver'[n] = ver[n]
    BY <1>1, <1>5, <2>1 DEF Retire, Written, Inv, TypeInv, TypeOK
  <2>3. QED
    BY <1>1, <2>2
<1>6. ASSUME NEW v \in Version, Insert(c, v)
      PROVE  v \in Target(c) /\ ver'[n] = NewVersion(c, v)
  BY <1>1, <1>6 DEF Insert, Inv, TypeInv, TypeOK
<1>7. QED
  BY <1>3, <1>4, <1>5, <1>6

(***************************************************************************)
(* Requests do what they were made for; only here it matters that clients  *)
(* send no edits the code refuses.                                         *)
(***************************************************************************)
LEMMA NewRequestHasPurpose ==
  ASSUME BadEdits = FALSE, Inv, NEW c \in Curator, NEW v \in Version,
         LoadReject(c, v) \/ LoadEdit(c, v) \/ LoadReset(c, v)
  PROVE  Purpose(req'[c])
<1>1. \A u \in Version : Load({v})[u] # None => u = v /\ Load({v})[u] = ver[v]
  BY DEF Load
<1>2. AfterCheck(ver[v]) \in {"drop", "retire"}
      /\ (AfterCheck(ver[v]) = "drop" => ver[v].status = "accepted")
  BY DEF AfterCheck
<1>3. CASE LoadReject(c, v)
  <2>1. req'[c] = [pc |-> AfterCheck(ver[v]), op |-> "reject", load |-> Load({v}),
                   into |-> ver[v].triple]
    BY <1>3 DEF LoadReject, Begin, Inv, TypeInv, TypeOK
  <2>2. QED
    BY <1>1, <1>2, <2>1 DEF Purpose
<1>4. CASE LoadEdit(c, v)
  <2>1. PICK t \in Edits[ver[v].root] \cup Bad :
          /\ ValidEdit(t, ver[v])
          /\ Begin(c, "edit", Load({v}), t, AfterCheck(ver[v]))
    BY <1>4 DEF LoadEdit
  <2>2. t \in Edits[ver[v].root]
    BY <2>1, NotBad DEF ValidEdit
  <2>3. req'[c] = [pc |-> AfterCheck(ver[v]), op |-> "edit", load |-> Load({v}), into |-> t]
    BY <2>1 DEF Begin, Inv, TypeInv, TypeOK
  <2>4. QED
    BY <1>1, <1>2, <2>1, <2>2, <2>3 DEF Purpose
<1>5. CASE LoadReset(c, v)
  <2>1. req'[c] = [pc |-> "origin", op |-> "reset", load |-> Load({v}), into |-> None]
    BY <1>5 DEF LoadReset, Begin, Inv, TypeInv, TypeOK
  <2>2. QED
    BY <1>1, <2>1 DEF Purpose
<1>6. QED
  BY <1>3, <1>4, <1>5

LEMMA RequestKeepsPurpose ==
  ASSUME Inv, PurposeInv, NEW c \in Curator, NEW v \in Version,
         LoadOrigin(c, v) \/ Drop(c, v) \/ Retire(c, v)
  PROVE  Purpose(req'[c])
<1>1. req[c] \in Request /\ Purpose(req[c]) /\ Purpose(Idle)
  BY IdleLoadsNothing DEF Inv, TypeInv, TypeOK, PurposeInv, Purpose
<1>2. CASE LoadOrigin(c, v)
  <2> DEFINE r == req[c].load[v]
  <2>1. v \in Target(c) /\ req[c].pc = "origin"
    BY <1>2 DEF LoadOrigin
  <2>2. /\ r.root \in Original
        /\ r.root \in Written => ver[r.root].triple = OriginalTriple[r.root]
    BY <2>1, HeldIsWritten DEF VersionRec, PurposeInv, OriginalsKept
  <2>3. CASE req'[c] = Idle
    BY <1>1, <2>3
  <2>4. CASE /\ r.root \in Written
             /\ req'[c] = [req[c] EXCEPT !.into = ver[r.root].triple, !.pc = AfterCheck(r)]
    <3>1. /\ req'[c].load = req[c].load /\ req'[c].op = req[c].op
          /\ req'[c].into = OriginalTriple[r.root] /\ req'[c].pc = AfterCheck(r)
      BY <1>1, <2>2, <2>4 DEF Request
    <3>2. \A u \in Version : req[c].load[u] # None => u = v
      BY <2>1, SingleTarget
    <3>3. req[c].op = "reset"
      BY <1>1, <2>1 DEF Purpose, Target
    <3>4. QED
      BY <3>1, <3>2, <3>3 DEF Purpose, AfterCheck
  <2>5. QED
    BY <1>2, <2>3, <2>4 DEF LoadOrigin, Inv, TypeInv, TypeOK
<1>3. CASE Drop(c, v) \/ Retire(c, v)
  <2>1. req'[c] = Idle \/ \E pc \in {"retire", "insert"} : req'[c] = [req[c] EXCEPT !.pc = pc]
    BY <1>3 DEF Drop, Retire, Inv, TypeInv, TypeOK
  <2>2. req[c].pc \in {"drop", "retire"}
    BY <1>3 DEF Drop, Retire
  <2>3. ASSUME NEW pc \in {"retire", "insert"}, req'[c] = [req[c] EXCEPT !.pc = pc]
        PROVE  Purpose(req'[c])
    <3>1. /\ req'[c].load = req[c].load /\ req'[c].op = req[c].op
          /\ req'[c].into = req[c].into /\ req'[c].pc = pc
      BY <1>1, <2>3 DEF Request
    <3>2. QED
      BY <1>1, <2>2, <3>1 DEF Purpose
  <2>4. QED
    BY <1>1, <2>1, <2>3
<1>4. QED
  BY <1>2, <1>3

LEMMA StepKeepsPurpose ==
  ASSUME BadEdits = FALSE, Inv, PurposeInv, [Next]_vars, NEW d \in Curator
  PROVE  Purpose(req'[d])
<1>1. Purpose(req[d]) /\ Purpose(Idle)
  BY IdleLoadsNothing DEF PurposeInv, Purpose
<1>2. CASE UNCHANGED vars
  BY <1>1, <1>2 DEF vars
<1>3. ASSUME NEW c \in Curator, NEW v \in Version,
             \/ LoadReject(c, v) \/ LoadEdit(c, v) \/ LoadReset(c, v)
             \/ LoadOrigin(c, v) \/ Drop(c, v) \/ Retire(c, v)
      PROVE  Purpose(req'[d])
  <2>1. c # d => req'[d] = req[d]
    BY <1>3 DEF LoadReject, LoadEdit, LoadReset, LoadOrigin, Drop, Retire, Begin, Inv, TypeInv, TypeOK
  <2>2. QED
    BY <1>1, <1>3, <2>1, NewRequestHasPurpose, RequestKeepsPurpose
<1>4. ASSUME NEW c \in Curator,
             ApplyAccept(c) \/ BreakOff(c) \/ \E v \in Version : Insert(c, v)
      PROVE  Purpose(req'[d])
  <2>1. req'[d] = req[d] \/ req'[d] = Idle
    BY <1>4 DEF ApplyAccept, BreakOff, Insert, Inv, TypeInv, TypeOK
  <2>2. QED
    BY <1>1, <2>1
<1>5. ASSUME NEW c \in Curator, LoadAccept(c)
      PROVE  Purpose(req'[d])
  <2>1. PICK load : req' = [req EXCEPT ![c] = [pc |-> "apply", op |-> "accept", load |-> load,
                                              into |-> None]]
    BY <1>5 DEF LoadAccept, Begin
  <2>2. \/ req'[d] = req[d]
        \/ req'[d] = [pc |-> "apply", op |-> "accept", load |-> load, into |-> None]
    BY <2>1 DEF Inv, TypeInv, TypeOK
  <2>3. QED
    BY <1>1, <2>2 DEF Purpose
<1>6. QED
  BY <1>2, <1>3, <1>4, <1>5 DEF Next

\* What an insert writes says something its statement may say.
LEMMA InsertedIsOwn ==
  ASSUME Inv, PurposeInv, NEW c \in Curator, NEW v \in Target(c), req[c].pc = "insert"
  PROVE  req[c].into \in Own(req[c].load[v].root)
<1>1. req[c].load[v].triple \in Own(req[c].load[v].root) /\ v \in Version
  BY HeldIsWritten DEF PurposeInv, OwnTriplesOnly
<1>2. Purpose(req[c]) /\ req[c].load[v] # None
  BY DEF PurposeInv, Target
<1>3. QED
  BY <1>1, <1>2 DEF Purpose, Own

\* No uuid4 is the id of an extracted version.
OriginalsNotDrawn == Original \cap Written' \subseteq Written

LEMMA NextPurposeInv ==
  ASSUME BadEdits = FALSE, Inv, Inv', PurposeInv, [Next]_vars, OriginalsNotDrawn
  PROVE  PurposeInv'
<1>1. (\A c \in Curator : Purpose(req[c]))'
  BY StepKeepsPurpose DEF Purpose, ValidEdit
<1>2. OriginalsKept'
  BY FieldsKept DEF PurposeInv, OriginalsKept, OriginalsNotDrawn
<1>3. ASSUME NEW n \in Written'
      PROVE  ver'[n].triple \in Own(ver'[n].root)
  <2>1. CASE n \in Written
    BY <2>1, FieldsKept DEF PurposeInv, OwnTriplesOnly
  <2>2. CASE n \notin Written
    <3>0. PICK c \in Curator : \E s \in Target(c) :
            \/ /\ ApplyAccept(c)
               /\ ver'[n] = Successor(s, req[c].load[s], req[c].load[s].triple, "accepted", "iri")
            \/ Insert(c, s) /\ ver'[n] = NewVersion(c, s)
      BY <2>2, FreshVersion
    <3>1. PICK s \in Target(c) :
            \/ /\ ApplyAccept(c)
               /\ ver'[n] = Successor(s, req[c].load[s], req[c].load[s].triple, "accepted", "iri")
            \/ Insert(c, s) /\ ver'[n] = NewVersion(c, s)
      BY <3>0
    <3>2. req[c].load[s].triple \in Own(req[c].load[s].root)
      BY HeldIsWritten DEF PurposeInv, OwnTriplesOnly
    <3>3. CASE Insert(c, s) /\ ver'[n] = NewVersion(c, s)
      <4>1. req[c].into \in Own(req[c].load[s].root)
        BY <3>3, InsertedIsOwn DEF Insert
      <4>2. QED
        BY <3>3, <4>1 DEF NewVersion, Successor
    <3>4. QED
      BY <3>1, <3>2, <3>3 DEF Successor
  <2>3. QED
    BY <2>1, <2>2
<1>4. QED
  BY <1>1, <1>2, <1>3 DEF PurposeInv, OwnTriplesOnly

-----------------------------------------------------------------------------
(* Every accepted statement is materialized, for one curator with valid    *)
(* edits whose requests run to the end, when statements share no triples.  *)

Undisturbed == OneAtATime /\ BadEdits = FALSE /\ MaxFaults = 0

OwnTriples == \A o, p \in Original : o # p => Own(o) \cap Own(p) = {}

\* What the statements that are there may say differs.
NothingShared ==
  \A v, w \in Written : ver[v].root # ver[w].root => Own(ver[v].root) \cap Own(ver[w].root) = {}

(***************************************************************************)
(* A request takes the triple away first and retires the version next: in  *)
(* between, and only then, an accepted version lacks its triple.           *)
(***************************************************************************)
IsAccepted(v) == IsCurrent(v) /\ ver[v].status = "accepted" /\ ver[v].term = "iri"

Materialized(v) == IsAccepted(v) => ver[v].triple \in data \/ Retiring(v)

AcceptedInv == \A v \in Version : Materialized(v)

HistoryInv == Inv /\ LineInv /\ PurposeInv

LEMMA NoBreakOff ==
  ASSUME Undisturbed, Inv, NEW c \in Curator
  PROVE  ~ BreakOff(c)
  BY DEF Undisturbed, BreakOff, Inv, TypeInv, TypeOK

\* Edits that are valid pass the checks, and can be written.
LEMMA ValidIsCarriedOut ==
  ASSUME BadEdits = FALSE, Inv, PurposeInv, NEW c \in Curator, NEW v \in Target(c)
  PROVE  /\ ~ (req[c].op = "edit" /\ ~ PassesChecks(req[c].into, req[c].load[v]))
         /\ ~ Refused(c)
<1>1. Purpose(req[c]) /\ v \in Version /\ req[c].load[v] # None
  BY DEF PurposeInv, Target
<1>2. RequestOK(req[c])
  BY DEF Inv, TypeInv
<1>3. ~ Refused(c)
  BY <1>2, NotBad DEF RequestOK, Refused
<1>4. QED
  BY <1>1, <1>3, NotBad DEF Purpose, ValidEdit, PassesChecks, Bad

LEMMA AcceptedBefore ==
  ASSUME HistoryInv, HistoryInv', [Next]_vars, NEW v \in Written, IsAccepted(v)'
  PROVE  IsAccepted(v) /\ ver'[v].triple = ver[v].triple
  BY FieldsKept DEF HistoryInv, IsAccepted, IsCurrent

(***************************************************************************)
(* The steps of a request that is not about to retire a version, and that  *)
(* takes no triple away.                                                   *)
(***************************************************************************)
LEMMA AcceptedStays ==
  ASSUME Undisturbed, HistoryInv, HistoryInv', [Next]_vars,
         data \subseteq data', \A c \in Curator : req[c].pc # "retire",
         NEW v \in Written, Materialized(v), IsAccepted(v)'
  PROVE  ver'[v].triple \in data'
  BY AcceptedBefore DEF Materialized, Retiring

LEMMA DropKeepsAccepted ==
  ASSUME Undisturbed, NothingShared, HistoryInv, HistoryInv', NEW w \in Version, Materialized(w),
         NEW c \in Curator, NEW v \in Version, Drop(c, v), [Next]_vars
  PROVE  Materialized(w)'
<1>1. v \in Target(c) /\ req[c].pc = "drop" /\ data' = data \ {req[c].load[v].triple} /\ ver' = ver
  BY DEF Drop
<1>2. v \in Written /\ req[c].load[v].triple = ver[v].triple /\ req[c].load[v] # None
  BY <1>1, HeldIsWritten DEF HistoryInv, Target
<1>3. ver[v].current
  BY <1>1 DEF HistoryInv, LineInv, HeldVersions
<1>4. \A d \in Curator : req[d].pc # "retire"
  BY <1>1 DEF Undisturbed, OneAtATime
<1>5. req'[c].pc = "retire" /\ v \in Target(c)'
  <2>1. req[c] \in Request /\ Purpose(req[c])
    BY DEF HistoryInv, Inv, TypeInv, TypeOK, PurposeInv
  <2>2. ~ (req[c].op = "edit" /\ ~ PassesChecks(req[c].into, req[c].load[v]))
    BY <1>1, ValidIsCarriedOut DEF Undisturbed, HistoryInv
  <2>3. req'[c] = [req[c] EXCEPT !.pc = "retire"]
    BY <2>2 DEF Drop, HistoryInv, Inv, TypeInv, TypeOK
  <2>4. req'[c].pc = "retire" /\ req'[c].load = req[c].load
    BY <2>1, <2>3 DEF Request
  <2>5. QED
    BY <1>1, <2>4 DEF Target
<1>6. CASE IsAccepted(w)' /\ w # v
  <2>1. w \in Written /\ IsAccepted(w)
    BY <1>1, <1>6 DEF IsAccepted, IsCurrent, Written
  <2>2. ver[w].triple \in data
    BY <1>4, <2>1 DEF Materialized, Retiring
  <2>3. ver[w].root # ver[v].root
    BY <1>2, <1>3, <1>6, <2>1, CurrentIsLast DEF HistoryInv, IsAccepted, IsCurrent
  <2>4. ver[w].triple \in Own(ver[w].root) /\ ver[v].triple \in Own(ver[v].root)
    BY <1>2, <2>1 DEF HistoryInv, PurposeInv, OwnTriplesOnly
  <2>5. ver[w].triple # ver[v].triple
    BY <1>2, <2>1, <2>3, <2>4 DEF NothingShared
  <2>6. QED
    BY <1>1, <1>2, <2>2, <2>5 DEF Materialized
<1>7. QED
  BY <1>5, <1>6 DEF Materialized, Retiring

LEMMA RetireKeepsAccepted ==
  ASSUME Undisturbed, HistoryInv, HistoryInv', NEW w \in Version, Materialized(w),
         NEW c \in Curator, NEW v \in Version, Retire(c, v), [Next]_vars
  PROVE  Materialized(w)'
<1> SUFFICES ASSUME IsAccepted(w)' PROVE ver'[w].triple \in data'
  BY DEF Materialized
<1>1. v \in Target(c) /\ req[c].pc = "retire" /\ data' = data
  BY DEF Retire
<1>2. v \in Written /\ ver'[v] = Retired(v) /\ ver[v] \in VersionRec
  BY <1>1, HeldIsWritten, WrittenIsRecord DEF Retire, HistoryInv, Inv, TypeInv, TypeOK
<1>3. ~ ver'[v].current
  BY <1>2 DEF Retired, VersionRec
<1>4. w # v /\ w \in Written
  BY <1>3 DEF IsAccepted, IsCurrent, Retire, Written, HistoryInv, Inv, TypeInv, TypeOK
<1>5. IsAccepted(w) /\ ver'[w].triple = ver[w].triple
  BY <1>4, AcceptedBefore
<1>6. ~ Retiring(w)
  BY <1>1, <1>4, SingleTarget DEF Retiring, Undisturbed, OneAtATime, HistoryInv, Target
<1>7. QED
  BY <1>1, <1>5, <1>6 DEF Materialized

LEMMA WriteKeepsAccepted ==
  ASSUME Undisturbed, HistoryInv, HistoryInv', NEW w \in Version, Materialized(w),
         NEW c \in Curator, ApplyAccept(c) \/ \E v \in Version : Insert(c, v), [Next]_vars
  PROVE  Materialized(w)'
<1> SUFFICES ASSUME IsAccepted(w)' PROVE ver'[w].triple \in data'
  BY DEF Materialized
<1>1. data \subseteq data' /\ \A d \in Curator : req[d].pc # "retire"
  BY DEF ApplyAccept, Insert, Undisturbed, OneAtATime
<1>2. CASE w \in Written
  BY <1>1, <1>2, AcceptedStays
<1>3. CASE w \notin Written
  <2>1. w \in Written'
    BY DEF IsAccepted, IsCurrent
  <2>2. PICK d \in Curator : \E s \in Target(d) :
          \/ /\ ApplyAccept(d)
             /\ ver'[w] = Successor(s, req[d].load[s], req[d].load[s].triple, "accepted", "iri")
          \/ Insert(d, s) /\ ver'[w] = NewVersion(d, s)
    BY <1>3, <2>1, FreshVersion DEF HistoryInv
  <2>3. PICK s \in Target(d) :
          \/ /\ ApplyAccept(d)
             /\ ver'[w] = Successor(s, req[d].load[s], req[d].load[s].triple, "accepted", "iri")
          \/ Insert(d, s) /\ ver'[w] = NewVersion(d, s)
    BY <2>2
  <2>4. CASE ApplyAccept(d) /\ ver'[w] = Successor(s, req[d].load[s], req[d].load[s].triple,
                                                   "accepted", "iri")
    BY <2>4 DEF ApplyAccept, Successor
  <2>5. CASE Insert(d, s) /\ ver'[w] = NewVersion(d, s)
    <3>1. req[d].op \in {"reject", "edit", "reset"}
      BY <2>5 DEF Insert, HistoryInv, PurposeInv, Purpose, Target
    <3>2. ver'[w].status # "accepted" \/ ver'[w].term # "iri"
      BY <2>5, <3>1 DEF NewVersion, Successor
    <3>3. QED
      BY <3>2 DEF IsAccepted
  <2>6. QED
    BY <2>3, <2>4, <2>5
<1>4. QED
  BY <1>2, <1>3

LEMMA ReadKeepsAccepted ==
  ASSUME Undisturbed, HistoryInv, HistoryInv', NEW w \in Version, Materialized(w),
         NEW c \in Curator, [Next]_vars,
         \/ LoadAccept(c)
         \/ \E v \in Version : \/ LoadReject(c, v) \/ LoadEdit(c, v) \/ LoadReset(c, v)
                               \/ LoadOrigin(c, v)
  PROVE  Materialized(w)'
<1>1. ver' = ver /\ data' = data /\ req[c].pc \in {"idle", "origin"}
  BY DEF LoadAccept, LoadReject, LoadEdit, LoadReset, LoadOrigin, Begin
<1>2. \A d \in Curator : req[d].pc # "retire"
  BY <1>1 DEF Undisturbed, OneAtATime
<1>3. IsAccepted(w)' => w \in Written
  BY <1>1 DEF IsAccepted, IsCurrent, Written
<1>4. QED
  BY <1>1, <1>2, <1>3, AcceptedStays DEF Materialized

(***************************************************************************)
(* For each version on its own, as nothing else is known of versions whose *)
(* triples a removal has taken away.                                       *)
(***************************************************************************)
LEMMA NextMaterialized ==
  ASSUME Undisturbed, NothingShared, HistoryInv, HistoryInv', [Next]_vars,
         NEW w \in Version, Materialized(w)
  PROVE  Materialized(w)'
<1>1. CASE UNCHANGED vars
  BY <1>1 DEF vars, Materialized, IsAccepted, IsCurrent, Written, Retiring, Target
<1>2. ASSUME NEW c \in Curator,
             \/ LoadAccept(c)
             \/ \E v \in Version : \/ LoadReject(c, v) \/ LoadEdit(c, v) \/ LoadReset(c, v)
                                   \/ LoadOrigin(c, v)
      PROVE  Materialized(w)'
  BY <1>2, ReadKeepsAccepted
<1>3. ASSUME NEW c \in Curator, ApplyAccept(c) \/ \E v \in Version : Insert(c, v)
      PROVE  Materialized(w)'
  BY <1>3, WriteKeepsAccepted
<1>4. ASSUME NEW c \in Curator, NEW v \in Version, Drop(c, v) \/ Retire(c, v)
      PROVE  Materialized(w)'
  BY <1>4, DropKeepsAccepted, RetireKeepsAccepted
<1>5. ASSUME NEW c \in Curator, BreakOff(c)
      PROVE  Materialized(w)'
  BY <1>5, NoBreakOff DEF HistoryInv
<1>6. QED
  BY <1>1, <1>2, <1>3, <1>4, <1>5 DEF Next

LEMMA NextAcceptedInv ==
  ASSUME Undisturbed, OwnTriples, HistoryInv, HistoryInv', AcceptedInv, [Next]_vars
  PROVE  AcceptedInv'
<1>1. NothingShared
  BY WrittenIsRecord DEF NothingShared, OwnTriples, HistoryInv, Inv, TypeInv, VersionRec
<1>2. QED
  BY <1>1, NextMaterialized DEF AcceptedInv

\* In Curation all the originals are there from the start.
FullHistory == HistoryInv /\ Original \subseteq Written

LEMMA InitFullHistory == Init => FullHistory
  BY InitInv, InitMaterialInv, InitLineInv, InitPurposeInv
  DEF FullHistory, HistoryInv, MaterialInv

LEMMA NextFullHistory ==
  ASSUME Undisturbed, FullHistory, [Next]_vars
  PROVE  FullHistory'
<1>1. Inv' /\ LineInv'
  BY NextInv, NextLineInv DEF FullHistory, HistoryInv, Undisturbed
<1>2. OriginalsNotDrawn
  BY DEF OriginalsNotDrawn, FullHistory
<1>3. PurposeInv'
  BY <1>1, <1>2, NextPurposeInv DEF FullHistory, HistoryInv, Undisturbed
<1>4. (Original \subseteq Written)'
  BY <1>1, FieldsKept DEF FullHistory, HistoryInv
<1>5. QED
  BY <1>1, <1>3, <1>4 DEF FullHistory, HistoryInv

LEMMA AlwaysHistoryInv == ASSUME Undisturbed PROVE Spec => []HistoryInv
<1>1. Undisturbed
  OBVIOUS
<1>2. FullHistory /\ [Next]_vars => FullHistory'
  BY <1>1, NextFullHistory
<1>3. FullHistory => HistoryInv
  BY DEF FullHistory
<1>4. QED
  BY <1>2, <1>3, InitFullHistory, PTL DEF Spec

(***************************************************************************)
(* If a single curator works with valid edits, nothing breaks off and no   *)
(* two statements may say the same, then between two requests the triple   *)
(* of every statement that is accepted by an operation is in the data      *)
(* graph. Where statements share triples it may not be: rejecting one of   *)
(* them takes the triple away.                                             *)
(***************************************************************************)
THEOREM AcceptedTriplesAreThere ==
  ASSUME Undisturbed, OwnTriples PROVE Spec => []AcceptedIsMaterialized
<1>1. Undisturbed /\ OwnTriples
  OBVIOUS
<1>2. Init => AcceptedInv
  <2> SUFFICES ASSUME Init, NEW v \in Version, IsAccepted(v) PROVE FALSE
    BY DEF AcceptedInv, Materialized
  <2>1. ver[v] = Extracted(v)
    BY DEF Init, IsAccepted, IsCurrent, Written
  <2>2. QED
    BY <2>1 DEF Extracted, IsAccepted
<1>3. HistoryInv /\ HistoryInv' /\ AcceptedInv /\ [Next]_vars => AcceptedInv'
  BY <1>1, NextAcceptedInv
<1>4. AcceptedInv => AcceptedIsMaterialized
  BY DEF AcceptedInv, Materialized, AcceptedIsMaterialized, IsAccepted, Quiet, Retiring
<1>5. QED
  BY <1>1, <1>2, <1>3, <1>4, AlwaysHistoryInv, PTL DEF Spec

-----------------------------------------------------------------------------
(* The versions and the requests implement StatementLedger.                *)

(***************************************************************************)
(* What the mapping needs: no request broke off, so a statement without a  *)
(* current version has a request that inserts one; and a bulk accept is    *)
(* about as many statements as it may be about.                            *)
(***************************************************************************)
BulkSize ==
  \A c \in Curator : req[c].pc = "apply" =>
    Target(c) # {} /\ Cardinality(Target(c)) <= MaxBulk

LedgerInv ==
  /\ Undisturbed
  /\ HistoryInv /\ Original \subseteq Written
  /\ NoStatementLost /\ faults = 0 /\ abandoned = {}
  /\ BulkSize

LEMMA InitLedgerInv == ASSUME Undisturbed PROVE Init => LedgerInv
<1> SUFFICES ASSUME Init PROVE LedgerInv
  OBVIOUS
<1>1. HistoryInv /\ Original \subseteq Written /\ faults = 0 /\ abandoned = {}
  BY InitFullHistory DEF FullHistory, Init
<1>2. BulkSize
  BY DEF Init, Idle, BulkSize
<1>3. NoStatementLost
  <2> SUFFICES ASSUME NEW o \in Original PROVE \E v \in Chain(o) : ver[v].current
    BY DEF NoStatementLost
  <2>1. o \in Written
    BY <1>1
  <2>2. ver[o] = Extracted(o) /\ o \in Version
    BY OriginalAssumption DEF Init
  <2>3. QED
    BY <2>1, <2>2 DEF Extracted, Chain
<1>4. QED
  BY <1>1, <1>2, <1>3 DEF LedgerInv

LEMMA AcceptLoadsFew ==
  ASSUME Inv, NEW c \in Curator, LoadAccept(c)
  PROVE  Target(c)' # {} /\ Cardinality(Target(c)') <= MaxBulk
<1>1. PICK S \in SUBSET Written :
        S # {} /\ Cardinality(S) <= MaxBulk /\ Begin(c, "accept", Load(S), None, "apply")
  BY DEF LoadAccept
<1>2. req'[c].load = Load(S)
  BY <1>1 DEF Begin, Inv, TypeInv, TypeOK
<1>3. Target(c)' = S
  BY <1>2, NoneIsNoRecord DEF Target, Load, Written
<1>4. QED
  BY <1>1, <1>3

LEMMA NextBulkSize ==
  ASSUME Inv, BulkSize, [Next]_vars PROVE BulkSize'
<1> SUFFICES ASSUME NEW d \in Curator, req'[d].pc = "apply"
             PROVE  Target(d)' # {} /\ Cardinality(Target(d)') <= MaxBulk
  BY DEF BulkSize
<1>1. CASE req'[d] = req[d]
  BY <1>1 DEF BulkSize, Target
<1>2. ASSUME NEW c \in Curator, LoadAccept(c), req'[d] # req[d]
      PROVE  Target(d)' # {} /\ Cardinality(Target(d)') <= MaxBulk
  <2>1. c = d
    BY <1>2 DEF LoadAccept, Begin, Inv, TypeInv, TypeOK
  <2>2. QED
    BY <1>2, <2>1, AcceptLoadsFew
<1>3. ASSUME NEW c \in Curator, req'[d] # req[d],
             \/ ApplyAccept(c) \/ BreakOff(c)
             \/ \E v \in Version : \/ LoadReject(c, v) \/ LoadEdit(c, v) \/ LoadReset(c, v)
                                   \/ Insert(c, v)
      PROVE  FALSE
  <2>1. \/ req' = [req EXCEPT ![c] = Idle]
        \/ \E op, load, into, pc : pc # "apply"
             /\ req' = [req EXCEPT ![c] = [pc |-> pc, op |-> op, load |-> load, into |-> into]]
    <3>1. CASE ApplyAccept(c) \/ BreakOff(c) \/ \E v \in Version : Insert(c, v)
      BY <3>1 DEF ApplyAccept, BreakOff, Insert
    <3>2. ASSUME NEW v \in Version, LoadReject(c, v) \/ LoadEdit(c, v) \/ LoadReset(c, v)
          PROVE  \E op, load, into, pc : pc # "apply" /\ Begin(c, op, load, into, pc)
      BY <3>2 DEF LoadReject, LoadEdit, LoadReset, AfterCheck
    <3>3. QED
      BY <1>3, <3>1, <3>2 DEF Begin
  <2>2. Idle.pc # "apply"
    BY DEF Idle
  <2>3. QED
    BY <1>3, <2>1, <2>2 DEF Inv, TypeInv, TypeOK
<1>4. ASSUME NEW c \in Curator, NEW v \in Version, req'[d] # req[d],
             LoadOrigin(c, v) \/ Drop(c, v) \/ Retire(c, v)
      PROVE  FALSE
  <2>1. req[c] \in Request /\ Idle.pc # "apply"
    BY DEF Idle, Inv, TypeInv, TypeOK
  <2>2. req'[c].pc # "apply"
    BY <1>4, <2>1 DEF LoadOrigin, Drop, Retire, AfterCheck, Request, Inv, TypeInv, TypeOK
  <2>3. c = d
    BY <1>4 DEF LoadOrigin, Drop, Retire, Inv, TypeInv, TypeOK
  <2>4. QED
    BY <2>2, <2>3
<1>5. QED
  BY <1>1, <1>2, <1>3, <1>4 DEF Next, vars

LEMMA NextLedgerInv == LedgerInv /\ [Next]_vars => LedgerInv'
<1> SUFFICES ASSUME LedgerInv, [Next]_vars PROVE LedgerInv'
  OBVIOUS
<1>1. HistoryInv' /\ (Original \subseteq Written)'
  BY NextFullHistory DEF LedgerInv, FullHistory
<1>2. NoStatementLost'
  BY <1>1, NextNoStatementLost DEF LedgerInv, HistoryInv
<1>3. BulkSize'
  BY NextBulkSize DEF LedgerInv, HistoryInv
<1>4. faults' = 0 /\ abandoned' = {}
  <2>1. \A c \in Curator : ~ BreakOff(c)
    BY NoBreakOff DEF LedgerInv, HistoryInv
  <2>2. \A c \in Curator : \A v \in Target(c) : ~ Refused(c)
    BY ValidIsCarriedOut DEF LedgerInv, HistoryInv, Undisturbed
  <2>3. \A c \in Curator : \A v \in Version : Retire(c, v) => abandoned' = abandoned
    BY <2>2 DEF Retire
  <2>4. ASSUME NEW c \in Curator,
               \/ LoadAccept(c) \/ ApplyAccept(c)
               \/ \E v \in Version : \/ LoadReject(c, v) \/ LoadEdit(c, v) \/ LoadReset(c, v)
                                     \/ LoadOrigin(c, v) \/ Drop(c, v) \/ Insert(c, v)
        PROVE  faults' = faults /\ abandoned' = abandoned
    BY <2>4 DEF LoadAccept, ApplyAccept, LoadReject, LoadEdit, LoadReset, LoadOrigin,
                Drop, Insert, Begin
  <2>5. ASSUME NEW c \in Curator, NEW v \in Version, Retire(c, v)
        PROVE  faults' = faults /\ abandoned' = abandoned
    BY <2>3, <2>5 DEF Retire
  <2>6. UNCHANGED vars => faults' = faults /\ abandoned' = abandoned
    BY DEF vars
  <2>7. QED
    BY <2>1, <2>4, <2>5, <2>6 DEF Next, LedgerInv
<1>5. QED
  BY <1>1, <1>2, <1>3, <1>4 DEF LedgerInv, Undisturbed, OneAtATime

(***************************************************************************)
(* The mapping without CHOOSE: a statement that no request is about to     *)
(* replace shows its only current version, one that is being replaced      *)
(* shows the version that the request will insert.                         *)
(***************************************************************************)
IsReplaced(o) == \E c \in Curator : Changing(c, o)

Shown(o, r) == LatestEntries[o] = [triple |-> r.triple, status |-> r.status]

EntriesCorrect ==
  /\ DOMAIN LatestEntries = Original
  /\ LatestEntries = [o \in Original |-> LatestEntries[o]]
  /\ \A o \in Original : IsReplaced(o) \/ \E v \in Chain(o) : ver[v].current
  /\ \A o \in Original : \A v \in Chain(o) :
       ver[v].current /\ ~ IsReplaced(o) => Shown(o, ver[v])
  /\ \A c \in Curator : \A v \in Target(c) : req[c].pc \in {"retire", "insert"} =>
       /\ req[c].load[v].root \in Original
       /\ Shown(req[c].load[v].root, NewVersion(c, v))
       /\ \A o \in Original : IsReplaced(o) => o = req[c].load[v].root

LEMMA EntriesAreCorrect == LedgerInv => EntriesCorrect
<1> SUFFICES ASSUME LedgerInv PROVE EntriesCorrect
  OBVIOUS
<1>1. /\ DOMAIN LatestEntries = Original
      /\ LatestEntries = [o \in Original |-> LatestEntries[o]]
      /\ \A o \in Original :
           LatestEntries[o] = [triple |-> LatestVersion(o).triple, status |-> LatestVersion(o).status]
  BY DEF LatestEntries
<1>2. \A o \in Original : IsReplaced(o) \/ \E v \in Chain(o) : ver[v].current
  BY DEF LedgerInv, NoStatementLost, IsReplaced, Changing, Inserting
<1>3. ASSUME NEW o \in Original, NEW v \in Chain(o), ver[v].current, ~ IsReplaced(o)
      PROVE  Shown(o, ver[v])
  <2>1. \A w \in Chain(o) : ver[w].current => w = v
    BY <1>3 DEF Chain, LedgerInv, HistoryInv, LineInv, OneCurrentVersion, IsCurrent
  <2>2. (CHOOSE w \in Chain(o) : ver[w].current) = v
    BY <1>3, <2>1
  <2>3. LatestVersion(o) = ver[v]
    BY <1>3, <2>2 DEF LatestVersion, IsReplaced
  <2>4. QED
    BY <1>1, <2>3 DEF Shown
<1>4. ASSUME NEW c \in Curator, NEW v \in Target(c), req[c].pc \in {"retire", "insert"}
      PROVE  /\ req[c].load[v].root \in Original
             /\ Shown(req[c].load[v].root, NewVersion(c, v))
             /\ \A o \in Original : IsReplaced(o) => o = req[c].load[v].root
  <2> DEFINE o == req[c].load[v].root
  <2>1. o \in Original
    BY HeldIsWritten DEF LedgerInv, HistoryInv, VersionRec
  <2>2. Changing(c, o) /\ \A d \in Curator : d = c
    BY <1>4 DEF Changing, LedgerInv, Undisturbed, OneAtATime
  <2>3. \A w \in Target(c) : w = v
    BY <1>4, SingleTarget DEF LedgerInv, HistoryInv, Target
  <2>4. (CHOOSE w \in Target(c) : TRUE) = v
    BY <2>3
  <2>5. (CHOOSE d \in Curator : Changing(d, o)) = c
    BY <2>2
  <2>6. LatestVersion(o) = NewVersion(c, v)
    BY <2>2, <2>4, <2>5 DEF LatestVersion
  <2>7. Shown(o, NewVersion(c, v))
    BY <1>1, <2>1, <2>6 DEF Shown
  <2>8. \A p \in Original : IsReplaced(p) => p = o
    BY <2>2, <2>3 DEF IsReplaced, Changing
  <2>9. QED
    BY <2>1, <2>7, <2>8
<1>5. QED
  BY <1>1, <1>2, <1>3, <1>4 DEF EntriesCorrect

LEMMA EntriesStayCorrect == LedgerInv' => EntriesCorrect'
  BY EntriesAreCorrect, PTL

(***************************************************************************)
(* A statement shows the same as before when its current version stays.    *)
(***************************************************************************)
LEMMA EntryKept ==
  ASSUME LedgerInv, LedgerInv', NEW o \in Original, NEW w \in Chain(o), ver[w].current,
         ~ IsReplaced(o), ~ IsReplaced(o)', ver'[w] = ver[w]
  PROVE  LatestEntries'[o] = LatestEntries[o]
<1>1. w \in Chain(o)' /\ ver'[w].current
  BY DEF Chain, Written
<1>2. Shown(o, ver[w]) /\ Shown(o, ver[w])'
  BY <1>1, EntriesAreCorrect, EntriesStayCorrect DEF EntriesCorrect
<1>3. QED
  BY <1>2 DEF Shown

LEMMA SameEntries ==
  ASSUME LedgerInv, LedgerInv', \A o \in Original : LatestEntries'[o] = LatestEntries[o]
  PROVE  LatestEntries' = LatestEntries
  BY EntriesAreCorrect, EntriesStayCorrect DEF EntriesCorrect

LEMMA NoneReplaced ==
  ASSUME LedgerInv, NEW c \in Curator, req[c].pc \notin {"retire", "insert"}, NEW o
  PROVE  ~ IsReplaced(o)
  BY DEF LedgerInv, Undisturbed, OneAtATime, IsReplaced, Changing

LEMMA NoneReplacedNext ==
  ASSUME LedgerInv, NEW c \in Curator, req'[c].pc \notin {"retire", "insert"}, NEW o
  PROVE  ~ IsReplaced(o)'
  BY DEF LedgerInv, Undisturbed, OneAtATime, IsReplaced, Changing

LEMMA ReadShowsSame ==
  ASSUME LedgerInv, LedgerInv', NEW c \in Curator, ver' = ver,
         req[c].pc \notin {"retire", "insert"}, req'[c].pc \notin {"retire", "insert"}
  PROVE  LatestEntries' = LatestEntries
<1>1. ASSUME NEW o \in Original
      PROVE  LatestEntries'[o] = LatestEntries[o]
  <2>1. ~ IsReplaced(o) /\ ~ IsReplaced(o)'
    BY NoneReplaced, NoneReplacedNext
  <2>2. PICK w \in Chain(o) : ver[w].current
    BY <2>1, EntriesAreCorrect DEF EntriesCorrect
  <2>3. ver'[w] = ver[w]
    OBVIOUS
  <2>4. QED
    BY <2>1, <2>2, <2>3, EntryKept
<1>2. QED
  BY <1>1, SameEntries

(***************************************************************************)
(* A request takes effect when it begins to replace a version: with the    *)
(* delete from the data graph, or with its last load when the version was  *)
(* not accepted.                                                           *)
(***************************************************************************)
LEMMA TakesEffect ==
  ASSUME LedgerInv, LedgerInv', NEW c \in Curator, ver' = ver,
         req[c].pc \notin {"retire", "insert"}, req'[c].pc = "retire",
         NEW v \in Target(c)',
         data' = data \ (IF ver[v].status = "accepted" THEN {ver[v].triple} ELSE {})
  PROVE  Ledger!LedgerNext
<1> DEFINE r == req'[c].load[v]
           o == r.root
           new == [triple |-> NewVersion(c, v)'.triple, status |-> NewVersion(c, v)'.status]
<1>1. /\ v \in Written /\ v \in Version /\ r # None
      /\ r.triple = ver[v].triple /\ r.status = ver[v].status /\ ver[v].root = o
  BY DEF LedgerInv, HistoryInv, Inv, LoadedIsWritten, Target, Written
<1>2. ver[v].current
  BY DEF LedgerInv, HistoryInv, LineInv, HeldVersions
<1>3. o \in Original /\ v \in Chain(o) /\ ver[v] \in VersionRec
  BY <1>1, WrittenIsRecord DEF LedgerInv, HistoryInv, Inv, TypeInv, VersionRec, Chain
<1>4. LatestEntries[o] = [triple |-> ver[v].triple, status |-> ver[v].status]
  <2>1. ~ IsReplaced(o)
    BY NoneReplaced
  <2>2. Shown(o, ver[v])
    BY <1>2, <1>3, <2>1, EntriesAreCorrect DEF EntriesCorrect
  <2>3. QED
    BY <2>2 DEF Shown
<1>5. LatestEntries'[o] = new /\ \A p \in Original : IsReplaced(p)' => p = o
  BY EntriesStayCorrect DEF EntriesCorrect, Shown
<1>6. ASSUME NEW p \in Original, p # o
      PROVE  LatestEntries'[p] = LatestEntries[p]
  <2>1. ~ IsReplaced(p) /\ ~ IsReplaced(p)'
    BY <1>5, <1>6, NoneReplaced
  <2>2. PICK w \in Chain(p) : ver[w].current
    BY <2>1, EntriesAreCorrect DEF EntriesCorrect
  <2>3. ver'[w] = ver[w]
    OBVIOUS
  <2>4. QED
    BY <2>1, <2>2, <2>3, EntryKept
<1>7. LatestEntries' = [LatestEntries EXCEPT ![o] = new]
  <2>1. /\ LatestEntries = [p \in Original |-> LatestEntries[p]]
        /\ LatestEntries' = [p \in Original |-> LatestEntries'[p]]
    BY EntriesAreCorrect, EntriesStayCorrect DEF EntriesCorrect
  <2> HIDE DEF new, o
  <2>2. QED
    BY <1>3, <1>5, <1>6, <2>1
<1>8. data' = data \ Ledger!GivenUp(o)
  BY <1>4 DEF Ledger!GivenUp
<1>9. /\ new.triple = req'[c].into
      /\ new.status = CASE req'[c].op = "reject" -> "rejected"
                        [] req'[c].op = "edit"   -> r.status
                        [] OTHER                 -> "pending"
  BY DEF NewVersion, Successor
<1>10. /\ req'[c].op \in {"reject", "edit", "reset"}
       /\ req'[c].op = "reject" => req'[c].into = r.triple
       /\ req'[c].op = "edit" => req'[c].into \in Edits[o] /\ req'[c].into # r.triple
       /\ req'[c].op = "reset" => req'[c].into = OriginalTriple[o]
  BY <1>1 DEF LedgerInv, HistoryInv, PurposeInv, Purpose, ValidEdit
<1>11. new = [triple |-> new.triple, status |-> new.status]
  OBVIOUS
<1> HIDE DEF new, r, o
<1>12. CASE req'[c].op = "reject"
  <2>1. new = [LatestEntries[o] EXCEPT !.status = "rejected"]
    BY <1>1, <1>4, <1>9, <1>10, <1>11, <1>12
  <2>2. Ledger!Reject(o)
    BY <1>7, <1>8, <2>1 DEF Ledger!Reject, Ledger!Change
  <2>3. QED
    BY <1>3, <2>2 DEF Ledger!LedgerNext
<1>13. CASE req'[c].op = "edit"
  <2>1. new = [LatestEntries[o] EXCEPT !.triple = req'[c].into]
    BY <1>1, <1>4, <1>9, <1>11, <1>13
  <2>2. req'[c].into \in Edits[o] \ {LatestEntries[o].triple}
    BY <1>1, <1>4, <1>10, <1>13
  <2>3. Ledger!Edit(o)
    BY <1>7, <1>8, <2>1, <2>2 DEF Ledger!Edit, Ledger!Change
  <2>4. QED
    BY <1>3, <2>3 DEF Ledger!LedgerNext
<1>14. CASE req'[c].op = "reset"
  <2>1. new = [triple |-> OriginalTriple[o], status |-> "pending"]
    BY <1>9, <1>10, <1>11, <1>14
  <2>2. Ledger!Reset(o)
    BY <1>7, <1>8, <2>1 DEF Ledger!Reset, Ledger!Change
  <2>3. QED
    BY <1>3, <2>2 DEF Ledger!LedgerNext
<1>15. QED
  BY <1>10, <1>12, <1>13, <1>14

LedgerStep ==
  \/ Ledger!LedgerNext
  \/ /\ LatestEntries' = LatestEntries
     /\ data' = data

LEMMA LoadImplementsLedger ==
  ASSUME LedgerInv, LedgerInv', NEW c \in Curator, NEW v \in Version,
         LoadReject(c, v) \/ LoadEdit(c, v) \/ LoadReset(c, v)
  PROVE  LedgerStep
<1>1. PICK op, into, pc :
        /\ Begin(c, op, Load({v}), into, pc)
        /\ pc \in {"origin", "drop", "retire"}
        /\ pc = "retire" => ver[v].status # "accepted"
  <2>1. \/ AfterCheck(ver[v]) = "drop"
        \/ AfterCheck(ver[v]) = "retire" /\ ver[v].status # "accepted"
    BY DEF AfterCheck
  <2>2. QED
    BY <2>1 DEF LoadReject, LoadEdit, LoadReset
<1>2. /\ req[c].pc = "idle" /\ ver' = ver /\ data' = data
      /\ req'[c].pc = pc /\ req'[c].load = Load({v})
  BY <1>1 DEF Begin, LedgerInv, HistoryInv, Inv, TypeInv, TypeOK
<1>3. CASE pc = "retire"
  <2>1. v \in Target(c)'
    BY <1>2, NoneIsNoRecord DEF LoadReject, LoadEdit, LoadReset, IsCurrent, Written, Load, Target
  <2>2. data' = data \ (IF ver[v].status = "accepted" THEN {ver[v].triple} ELSE {})
    BY <1>1, <1>2, <1>3
  <2>3. QED
    BY <1>2, <1>3, <2>1, <2>2, TakesEffect DEF LedgerStep
<1>4. CASE pc # "retire"
  <2>1. req[c].pc \notin {"retire", "insert"} /\ req'[c].pc \notin {"retire", "insert"}
    BY <1>1, <1>2, <1>4
  <2>2. QED
    BY <1>2, <2>1, ReadShowsSame DEF LedgerStep
<1>5. QED
  BY <1>3, <1>4

LEMMA LoadAcceptImplementsLedger ==
  ASSUME LedgerInv, LedgerInv', NEW c \in Curator, LoadAccept(c)
  PROVE  LedgerStep
<1>1. PICK S : Begin(c, "accept", Load(S), None, "apply")
  BY DEF LoadAccept
<1>2. /\ req[c].pc \notin {"retire", "insert"} /\ req'[c].pc \notin {"retire", "insert"}
      /\ ver' = ver /\ data' = data
  BY <1>1 DEF Begin, LedgerInv, HistoryInv, Inv, TypeInv, TypeOK
<1>3. QED
  BY <1>2, ReadShowsSame DEF LedgerStep

LEMMA LoadOriginImplementsLedger ==
  ASSUME LedgerInv, LedgerInv', NEW c \in Curator, NEW v \in Version, LoadOrigin(c, v)
  PROVE  LedgerStep
<1> DEFINE r == req[c].load[v]
           moved == [req[c] EXCEPT !.into = ver[r.root].triple, !.pc = AfterCheck(r)]
<1>1. /\ v \in Target(c) /\ req[c].pc = "origin" /\ ver' = ver /\ data' = data
      /\ req'[c] = moved \/ req'[c] = Idle
      /\ req[c] \in Request /\ Idle.pc = "idle"
  BY DEF LoadOrigin, Idle, LedgerInv, HistoryInv, Inv, TypeInv, TypeOK
<1>2. moved.pc = AfterCheck(r) /\ moved.load = req[c].load
  BY <1>1 DEF Request
<1>3. r.status = ver[v].status
  BY <1>1, HeldIsWritten DEF LedgerInv, HistoryInv
<1> HIDE DEF moved, r
<1>4. CASE req'[c] = moved /\ AfterCheck(r) = "retire"
  <2>1. v \in Target(c)' /\ req'[c].pc = "retire"
    BY <1>1, <1>2, <1>4 DEF Target
  <2>2. data' = data \ (IF ver[v].status = "accepted" THEN {ver[v].triple} ELSE {})
    BY <1>1, <1>3, <1>4 DEF AfterCheck
  <2>3. req[c].pc \notin {"retire", "insert"}
    BY <1>1
  <2>4. QED
    BY <1>1, <2>1, <2>2, <2>3, TakesEffect DEF LedgerStep
<1>5. CASE ~ (req'[c] = moved /\ AfterCheck(r) = "retire")
  <2>1. req[c].pc \notin {"retire", "insert"} /\ req'[c].pc \notin {"retire", "insert"}
    BY <1>1, <1>2, <1>5 DEF AfterCheck
  <2>2. QED
    BY <1>1, <2>1, ReadShowsSame DEF LedgerStep
<1>6. QED
  BY <1>4, <1>5

LEMMA DropImplementsLedger ==
  ASSUME LedgerInv, LedgerInv', NEW c \in Curator, NEW v \in Version, Drop(c, v)
  PROVE  LedgerStep
<1>1. /\ v \in Target(c) /\ req[c].pc = "drop" /\ ver' = ver
      /\ data' = data \ {req[c].load[v].triple}
      /\ req[c] \in Request /\ Purpose(req[c])
  BY DEF Drop, LedgerInv, HistoryInv, PurposeInv, Inv, TypeInv, TypeOK
<1>2. /\ req[c].load[v].triple = ver[v].triple /\ req[c].load[v].status = ver[v].status
      /\ v \in Version /\ req[c].load[v] # None
  BY <1>1, HeldIsWritten DEF LedgerInv, HistoryInv, Target
<1>3. ver[v].status = "accepted"
  BY <1>1, <1>2 DEF Purpose
<1>4. req'[c] = [req[c] EXCEPT !.pc = "retire"]
  <2>1. ~ (req[c].op = "edit" /\ ~ PassesChecks(req[c].into, req[c].load[v]))
    BY <1>1, ValidIsCarriedOut DEF LedgerInv, HistoryInv, Undisturbed
  <2>2. QED
    BY <2>1 DEF Drop, LedgerInv, HistoryInv, Inv, TypeInv, TypeOK
<1>5. req'[c].pc = "retire" /\ req'[c].load = req[c].load
  BY <1>1, <1>4 DEF Request
<1>6. v \in Target(c)'
  BY <1>1, <1>5 DEF Target
<1>7. data' = data \ (IF ver[v].status = "accepted" THEN {ver[v].triple} ELSE {})
  BY <1>1, <1>2, <1>3
<1>8. req[c].pc \notin {"retire", "insert"}
  BY <1>1
<1>9. QED
  BY <1>1, <1>5, <1>6, <1>7, <1>8, TakesEffect DEF LedgerStep

(***************************************************************************)
(* The two requests that replace the version stutter.                      *)
(***************************************************************************)
LEMMA RetireImplementsLedger ==
  ASSUME LedgerInv, LedgerInv', NEW c \in Curator, NEW v \in Version, Retire(c, v)
  PROVE  LedgerStep
<1>1. /\ v \in Target(c) /\ req[c].pc = "retire" /\ data' = data
      /\ ver' = [ver EXCEPT ![v] = Retired(v)]
      /\ req'[c] = [req[c] EXCEPT !.pc = "insert"] /\ req[c] \in Request
  BY ValidIsCarriedOut DEF Retire, LedgerInv, HistoryInv, Undisturbed, Inv, TypeInv, TypeOK
<1>2. /\ req'[c].pc = "insert" /\ req'[c].load = req[c].load
      /\ req'[c].op = req[c].op /\ req'[c].into = req[c].into
  BY <1>1 DEF Request
<1>3. v \in Target(c)' /\ NewVersion(c, v)' = NewVersion(c, v)
  BY <1>1, <1>2 DEF Target, NewVersion, Successor
<1>a. PICK o \in Original : o = req[c].load[v].root
  BY <1>1, EntriesAreCorrect DEF EntriesCorrect
<1>4. /\ Shown(o, NewVersion(c, v)) /\ Shown(o, NewVersion(c, v))'
      /\ \A p \in Original : IsReplaced(p) \/ IsReplaced(p)' => p = o
  <2>1. /\ Shown(o, NewVersion(c, v))
        /\ \A p \in Original : IsReplaced(p) => p = o
    BY <1>1, <1>a, EntriesAreCorrect DEF EntriesCorrect
  <2>2. /\ Shown(o, NewVersion(c, v))'
        /\ \A p \in Original : IsReplaced(p)' => p = o
    BY <1>2, <1>3, <1>a, EntriesStayCorrect DEF EntriesCorrect, Shown
  <2>3. QED
    BY <2>1, <2>2
<1>5. ver[v].root = o
  BY <1>1, <1>a, HeldIsWritten DEF LedgerInv, HistoryInv
<1>6. ASSUME NEW p \in Original
      PROVE  LatestEntries'[p] = LatestEntries[p]
  <2>1. CASE p = o
    BY <1>3, <1>4, <2>1 DEF Shown
  <2>2. CASE p # o
    <3>1. ~ IsReplaced(p) /\ ~ IsReplaced(p)'
      BY <1>4, <2>2
    <3>2. PICK w \in Chain(p) : ver[w].current
      BY <3>1, EntriesAreCorrect DEF EntriesCorrect
    <3>3. ver'[w] = ver[w]
      BY <1>1, <1>5, <2>2, <3>2 DEF Chain, Written, LedgerInv, HistoryInv, Inv, TypeInv, TypeOK
    <3>4. QED
      BY <3>1, <3>2, <3>3, EntryKept
  <2>3. QED
    BY <2>1, <2>2
<1>7. QED
  BY <1>1, <1>6, SameEntries DEF LedgerStep

LEMMA InsertImplementsLedger ==
  ASSUME LedgerInv, LedgerInv', NEW c \in Curator, NEW v \in Version, Insert(c, v)
  PROVE  LedgerStep
<1>1. PICK n \in Unused : ver' = [ver EXCEPT ![n] = NewVersion(c, v)]
  BY DEF Insert
<1>2. /\ v \in Target(c) /\ req[c].pc = "insert" /\ data' = data
      /\ req'[c].pc \notin {"retire", "insert"}
  BY DEF Insert, Idle, LedgerInv, HistoryInv, Inv, TypeInv, TypeOK
<1>3. n \in Version /\ n \notin Written /\ ver'[n] = NewVersion(c, v)
  BY <1>1 DEF Unused, LedgerInv, HistoryInv, Inv, TypeInv, TypeOK
<1>a. PICK o \in Original : o = req[c].load[v].root
  BY <1>2, EntriesAreCorrect DEF EntriesCorrect
<1>4. /\ Shown(o, NewVersion(c, v))
      /\ \A p \in Original : IsReplaced(p) => p = o
  BY <1>2, <1>a, EntriesAreCorrect DEF EntriesCorrect
<1>5. \A p \in Original : ~ IsReplaced(p)'
  BY <1>2, NoneReplacedNext
<1>6. Shown(o, ver[n])'
  <2>1. NewVersion(c, v).root = o /\ NewVersion(c, v).current
    BY <1>a DEF NewVersion, Successor
  <2>2. NewVersion(c, v) # None
    BY <1>2, NewVersionType, NoneIsNoRecord DEF LedgerInv, HistoryInv, Inv
  <2>3. n \in Chain(o)' /\ ver'[n].current
    BY <1>3, <2>1, <2>2 DEF Chain, Written
  <2>4. QED
    BY <1>4, <1>5, <2>3, EntriesStayCorrect DEF EntriesCorrect
<1>7. ASSUME NEW p \in Original
      PROVE  LatestEntries'[p] = LatestEntries[p]
  <2>1. CASE p = o
    BY <1>3, <1>4, <1>6, <2>1 DEF Shown
  <2>2. CASE p # o
    <3>1. ~ IsReplaced(p) /\ ~ IsReplaced(p)'
      BY <1>4, <1>5, <2>2
    <3>2. PICK w \in Chain(p) : ver[w].current
      BY <3>1, EntriesAreCorrect DEF EntriesCorrect
    <3>3. ver'[w] = ver[w]
      BY <1>1, <1>3, <3>2 DEF Chain, Written
    <3>4. QED
      BY <3>1, <3>2, <3>3, EntryKept
  <2>3. QED
    BY <2>1, <2>2
<1>8. QED
  BY <1>2, <1>7, SameEntries DEF LedgerStep

(***************************************************************************)
(* The update of a bulk accept accepts every listed statement at once.     *)
(* Their number is that of the listed versions, since no two of them are   *)
(* versions of the same statement.                                         *)
(***************************************************************************)
LEMMA FewStatements ==
  ASSUME LedgerInv, IsFiniteSet(Original), NEW c \in Curator, req[c].pc = "apply"
  PROVE  LET R == {req[c].load[s].root : s \in Target(c)}
         IN  R \in SUBSET Original /\ R # {} /\ Cardinality(R) <= MaxBulk
<1> DEFINE S == Target(c)
           rootOf(s) == req[c].load[s].root
           R == {rootOf(s) : s \in S}
<1>1. \A s \in S : s \in Written /\ rootOf(s) \in Original /\ rootOf(s) = ver[s].root
                   /\ ver[s].current
  BY HeldIsWritten DEF LedgerInv, HistoryInv, VersionRec, LineInv, HeldVersions
<1>2. \A s, t \in S : rootOf(s) = rootOf(t) => s = t
  BY <1>1 DEF LedgerInv, HistoryInv, LineInv, OneCurrentVersion, IsCurrent
<1>3. S # {} /\ Cardinality(S) <= MaxBulk
  BY DEF LedgerInv, BulkSize
<1> HIDE DEF S, rootOf
<1>4. IsFiniteSet(S)
  <2> DEFINE f == [s \in S |-> rootOf(s)]
  <2>1. f \in Injection(S, Original)
    BY <1>1, <1>2 DEF Injection, IsInjective
  <2>2. QED
    BY <2>1, FS_Injection
<1>5. IsFiniteSet(R) /\ Cardinality(R) <= Cardinality(S)
  <2> DEFINE g == [o \in R |-> CHOOSE s \in S : rootOf(s) = o]
  <2>1. \A o \in R : g[o] \in S /\ rootOf(g[o]) = o
    OBVIOUS
  <2>2. g \in [R -> S]
    BY <2>1
  <2> HIDE DEF g
  <2>3. g \in Injection(R, S)
    BY <2>1, <2>2 DEF Injection, IsInjective
  <2>4. QED
    BY <1>4, <2>3, FS_Injection
<1>6. Cardinality(R) <= MaxBulk
  BY <1>3, <1>4, <1>5, FS_CardinalityType, BoundAssumption
<1>7. R \in SUBSET Original /\ R # {}
  BY <1>1, <1>3
<1>8. QED
  BY <1>6, <1>7 DEF S, rootOf

LEMMA AcceptImplementsLedger ==
  ASSUME LedgerInv, LedgerInv', IsFiniteSet(Original), NEW c \in Curator, ApplyAccept(c)
  PROVE  LedgerStep
<1> DEFINE S == Target(c)
           R == {req[c].load[s].root : s \in S}
<1>1. PICK new \in SUBSET Unused : \E from \in [new -> S] :
        Onto(from, S) /\ ver' = Accepted(c, from)
  BY DEF ApplyAccept
<1>2. PICK from \in [new -> S] : Onto(from, S) /\ ver' = Accepted(c, from)
  BY <1>1
<1>3. /\ req[c].pc = "apply" /\ req'[c].pc \notin {"retire", "insert"}
      /\ data' = data \cup {req[c].load[s].triple : s \in S}
  BY DEF ApplyAccept, Idle, LedgerInv, HistoryInv, Inv, TypeInv, TypeOK
<1>4. R \in SUBSET Original /\ R # {} /\ Cardinality(R) <= MaxBulk
  BY <1>3, FewStatements
<1>5. \A p \in Original : ~ IsReplaced(p) /\ ~ IsReplaced(p)'
  BY <1>3, NoneReplaced, NoneReplacedNext
<1>6. ASSUME NEW s \in S
      PROVE  /\ s \in Version /\ req[c].load[s] \in VersionRec
             /\ req[c].load[s].root \in Original
             /\ LatestEntries[req[c].load[s].root] =
                  [triple |-> req[c].load[s].triple, status |-> req[c].load[s].status]
  <2>1. /\ s \in Written /\ s \in Version /\ req[c].load[s] \in VersionRec
        /\ req[c].load[s].triple = ver[s].triple /\ req[c].load[s].status = ver[s].status
        /\ req[c].load[s].root = ver[s].root
    BY HeldIsWritten DEF LedgerInv, HistoryInv
  <2>2. ver[s].current
    BY <1>3 DEF LedgerInv, HistoryInv, LineInv, HeldVersions
  <2>3. req[c].load[s].root \in Original /\ s \in Chain(req[c].load[s].root)
    BY <2>1 DEF VersionRec, Chain
  <2>4. Shown(req[c].load[s].root, ver[s])
    BY <1>5, <2>2, <2>3, EntriesAreCorrect DEF EntriesCorrect
  <2>5. QED
    BY <2>1, <2>3, <2>4 DEF Shown
<1>7. ASSUME NEW s \in S
      PROVE  LatestEntries'[req[c].load[s].root] =
               [triple |-> req[c].load[s].triple, status |-> "accepted"]
  <2> DEFINE r == req[c].load[s]
             child == Successor(s, r, r.triple, "accepted", "iri")
  <2>a. PICK o \in Original : o = r.root
    BY <1>6
  <2>1. PICK n \in new : from[n] = s
    BY <1>2 DEF Onto
  <2>2. n \in Version /\ ver'[n] = child
    BY <1>2, <2>1 DEF Accepted, Unused
  <2>3. child \in VersionRec /\ child.root = r.root /\ child.current
        /\ child.triple = r.triple /\ child.status = "accepted"
    <3>1. s \in Version /\ r \in VersionRec
      BY <1>6
    <3>2. r.triple \in Triple /\ "accepted" \in Status /\ "iri" \in {"iri", "literal"}
      BY <3>1 DEF VersionRec, Status
    <3> HIDE DEF r
    <3>3. QED
      BY <3>1, <3>2, SuccessorType
  <2> HIDE DEF child
  <2>4. n \in Chain(o)' /\ ver'[n].current
    BY <2>2, <2>3, <2>a, NoneIsNoRecord DEF Chain, Written
  <2>5. Shown(o, ver[n])'
    BY <1>5, <2>4, EntriesStayCorrect DEF EntriesCorrect
  <2>6. LatestEntries'[o] = [triple |-> ver'[n].triple, status |-> ver'[n].status]
    BY <2>5 DEF Shown
  <2>7. QED
    BY <2>2, <2>3, <2>6, <2>a
<1>8. ASSUME NEW p \in Original, p \notin R
      PROVE  LatestEntries'[p] = LatestEntries[p]
  <2>1. PICK w \in Chain(p) : ver[w].current
    BY <1>5, EntriesAreCorrect DEF EntriesCorrect
  <2>2. w \in Written /\ w \in Version /\ ver[w].root = p
    BY <2>1 DEF Chain, Written
  <2>3. w \notin S /\ w \notin new
    BY <1>8, <2>2, HeldIsWritten DEF LedgerInv, HistoryInv, Unused
  <2>4. ver'[w] = ver[w]
    BY <1>2, <2>2, <2>3 DEF Accepted
  <2>5. QED
    BY <1>5, <2>1, <2>4, EntryKept
<1>9. LatestEntries' = [p \in Original |->
          IF p \in R THEN [LatestEntries[p] EXCEPT !.status = "accepted"] ELSE LatestEntries[p]]
  <2>1. LatestEntries' = [p \in Original |-> LatestEntries'[p]]
    BY EntriesStayCorrect DEF EntriesCorrect
  <2>2. ASSUME NEW p \in R
        PROVE  LatestEntries'[p] = [LatestEntries[p] EXCEPT !.status = "accepted"]
    <3>1. PICK s \in S : p = req[c].load[s].root
      OBVIOUS
    <3>2. /\ LatestEntries[p] =
               [triple |-> req[c].load[s].triple, status |-> req[c].load[s].status]
          /\ LatestEntries'[p] = [triple |-> req[c].load[s].triple, status |-> "accepted"]
      BY <1>6, <1>7, <3>1
    <3>3. QED
      BY <3>2
  <2> HIDE DEF R
  <2>3. QED
    BY <1>8, <2>1, <2>2
<1>10. data' = data \cup {LatestEntries[p].triple : p \in R}
  <2>1. ASSUME NEW s \in S
        PROVE  LatestEntries[req[c].load[s].root].triple = req[c].load[s].triple
    <3>1. LatestEntries[req[c].load[s].root] =
            [triple |-> req[c].load[s].triple, status |-> req[c].load[s].status]
      BY <1>6
    <3>2. QED
      BY <3>1
  <2>2. {LatestEntries[p].triple : p \in R} = {req[c].load[s].triple : s \in S}
    BY <2>1
  <2>3. QED
    BY <1>3, <2>2
<1> HIDE DEF R
<1>11. Ledger!Accept(R)
  <2>1. Ledger!Cardinality(R) = Cardinality(R)
    BY DEF Ledger!Cardinality, Cardinality, Ledger!IsFiniteSet, IsFiniteSet
  <2>2. QED
    BY <1>4, <1>9, <1>10, <2>1 DEF Ledger!Accept
<1>12. QED
  BY <1>4, <1>11 DEF Ledger!LedgerNext, LedgerStep

LEMMA NextImplementsLedger ==
  ASSUME IsFiniteSet(Original)
  PROVE  LedgerInv /\ LedgerInv' /\ [Next]_vars => [Ledger!LedgerNext]_<<LatestEntries, data>>
<1> SUFFICES ASSUME LedgerInv, LedgerInv', [Next]_vars PROVE LedgerStep
  BY DEF LedgerStep
<1>1. CASE UNCHANGED vars
  <2>1. LatestEntries' = LatestEntries
    BY <1>1 DEF vars, LatestEntries, LatestVersion, Changing, Chain, Written, Target,
                NewVersion, Successor
  <2>2. QED
    BY <1>1, <2>1 DEF vars, LedgerStep
<1>2. ASSUME NEW c \in Curator, LoadAccept(c) \/ ApplyAccept(c)
      PROVE  LedgerStep
  BY <1>2, LoadAcceptImplementsLedger, AcceptImplementsLedger
<1>3. ASSUME NEW c \in Curator, NEW v \in Version,
             LoadReject(c, v) \/ LoadEdit(c, v) \/ LoadReset(c, v)
      PROVE  LedgerStep
  BY <1>3, LoadImplementsLedger
<1>4. ASSUME NEW c \in Curator, NEW v \in Version, LoadOrigin(c, v) \/ Drop(c, v)
      PROVE  LedgerStep
  BY <1>4, LoadOriginImplementsLedger, DropImplementsLedger
<1>5. ASSUME NEW c \in Curator, NEW v \in Version, Retire(c, v) \/ Insert(c, v)
      PROVE  LedgerStep
  BY <1>5, RetireImplementsLedger, InsertImplementsLedger
<1>6. ASSUME NEW c \in Curator, BreakOff(c)
      PROVE  LedgerStep
  BY <1>6, NoBreakOff DEF LedgerInv, HistoryInv
<1>7. QED
  BY <1>1, <1>2, <1>3, <1>4, <1>5, <1>6 DEF Next

LEMMA InitImplementsLedger == LedgerInv /\ Init => Ledger!LedgerInit
<1> SUFFICES ASSUME LedgerInv, Init PROVE Ledger!LedgerInit
  OBVIOUS
<1>1. ASSUME NEW o \in Original
      PROVE  LatestEntries[o] = [triple |-> OriginalTriple[o], status |-> "pending"]
  <2>1. ~ IsReplaced(o)
    BY DEF Init, Idle, IsReplaced, Changing
  <2>2. o \in Version /\ ver[o] = Extracted(o) /\ o \in Written
    BY OriginalAssumption DEF Init, LedgerInv, HistoryInv, Inv, TypeInv
  <2>3. o \in Chain(o) /\ ver[o].current
    BY <2>2 DEF Extracted, Chain
  <2>4. Shown(o, ver[o])
    BY <2>1, <2>3, EntriesAreCorrect DEF EntriesCorrect
  <2>5. QED
    BY <2>2, <2>4 DEF Shown, Extracted
<1>2. LatestEntries = [o \in Original |-> LatestEntries[o]]
  BY EntriesAreCorrect DEF EntriesCorrect
<1>3. LatestEntries = [o \in Original |-> [triple |-> OriginalTriple[o], status |-> "pending"]]
  BY <1>1, <1>2
<1>4. QED
  BY <1>3 DEF Init, Ledger!LedgerInit

(***************************************************************************)
(* For a single curator with valid edits whose requests run to the end,    *)
(* any number of statements with any triples, also shared ones, and bulk   *)
(* accepts of any size, the versions, the flags and the separate SPARQL    *)
(* requests of store/writer.py implement the ledger: each operation        *)
(* changes the statement and the final knowledge graph in one step.        *)
(***************************************************************************)
THEOREM LedgerIsImplemented ==
  ASSUME Undisturbed, IsFiniteSet(Original) PROVE Spec => ImplementsLedger
<1>1. Init => LedgerInv
  BY InitLedgerInv
<1>2. Init => Ledger!LedgerInit
  BY <1>1, InitImplementsLedger
<1>3. LedgerInv /\ LedgerInv' /\ [Next]_vars => [Ledger!LedgerNext]_<<LatestEntries, data>>
  BY NextImplementsLedger
<1>4. QED
  BY <1>1, <1>2, <1>3, NextLedgerInv, PTL DEF Spec, ImplementsLedger, Ledger!LedgerSpec

=============================================================================
