------------------------------ MODULE Curation ------------------------------
(***************************************************************************)
(* Curation of candidate statements (backend/app/store/writer.py).         *)
(*                                                                         *)
(* The curation graph holds immutable versions of statements; a version    *)
(* is linked to the one it was made from by prov:wasDerivedFrom and        *)
(* carries a status and an isCurrentVersion flag. The data graph holds     *)
(* the bare triples of accepted statements. Curators accept, reject, edit  *)
(* and reset statements through HTTP requests that run in threads of the   *)
(* API process (asyncio.to_thread), without any lock: every SPARQL request *)
(* is atomic in the store, and an operation is several of them. An action  *)
(* of this module is one SPARQL request together with the local code that  *)
(* follows it.                                                             *)
(***************************************************************************)
EXTENDS Naturals, FiniteSets

CONSTANTS
  Curator,         \* users with the role owner or editor
  Version,         \* ids of versions: the extracted ones and fresh uuid4 ones
  Original,        \* the versions written by the extraction
  Triple,          \* subject, predicate and object of a statement
  OriginalTriple,  \* what the extraction found: Original -> Triple
  Edits,           \* what curators type when editing: Original -> SUBSET Triple
  Malformed,       \* an edit that is refused before anything is retired
  Unwritable,      \* one that validate_iri passes and NamedNode refuses, see Retire
  BadEdits,        \* whether clients send edits that the code refuses
  Repeats,         \* whether a bulk accept may list a statement twice
  MaxBulk,         \* bound: statements in one bulk accept
  MaxFaults,       \* bound: requests that break off between two SPARQL requests
  None             \* no version

ASSUME OriginalAssumption ==
  /\ Original \subseteq Version
  /\ OriginalTriple \in [Original -> Triple]
  /\ Edits \in [Original -> SUBSET Triple]
  /\ Malformed \notin Triple
  /\ Unwritable \notin Triple \cup {Malformed}

Status == {"pending", "accepted", "rejected"}

(***************************************************************************)
(* term is the kind of RDF term paco:curationStatus holds: an IRI, or the  *)
(* plain literal edit_statement writes. root is a history variable: the    *)
(* extracted version the chain of prov:wasDerivedFrom ends in.             *)
(***************************************************************************)
VersionRec ==
  [triple: Triple, status: Status, term: {"iri", "literal"},
   parent: Version \cup {None}, root: Original, current: BOOLEAN]

ASSUME BoundAssumption ==
  /\ BadEdits \in BOOLEAN
  /\ Repeats \in BOOLEAN
  /\ MaxBulk \in Nat \ {0}
  /\ MaxFaults \in Nat
  /\ None \notin Version \cup VersionRec \cup {Malformed, Unwritable}

VARIABLES
  ver,     \* curation graph: the version stored under each id
  data,    \* data graph: the materialized triples
  req,     \* the request each curator has in progress
  faults,  \* requests broken off so far
  abandoned  \* history: statements a request left between Retire and Insert

vars == <<ver, data, req, faults, abandoned>>

Bad == {Malformed, Unwritable}

Op == {"none", "accept", "reject", "edit", "reset"}
Step == {"idle", "apply", "origin", "drop", "retire", "insert"}

(***************************************************************************)
(* What a request remembers between two SPARQL requests: the versions it   *)
(* loaded and the triple its new version will have.                        *)
(***************************************************************************)
Request ==
  [pc: Step, op: Op,
   load: [Version -> VersionRec \cup {None}],
   into: Triple \cup Bad \cup {None}]

NoLoad == [v \in Version |-> None]
Idle == [pc |-> "idle", op |-> "none", load |-> NoLoad, into |-> None]

Written == {v \in Version : ver[v] # None}
Unused == Version \ Written
IsCurrent(v) == v \in Written /\ ver[v].current

\* The statements a request works on.
Target(c) == {v \in Version : req[c].load[v] # None}

-----------------------------------------------------------------------------
(* The extraction has written each original as pending and current.        *)

Extracted(o) ==
  [triple |-> OriginalTriple[o], status |-> "pending", term |-> "iri",
   parent |-> None, root |-> o, current |-> TRUE]

Init ==
  /\ ver = [v \in Version |-> IF v \in Original THEN Extracted(v) ELSE None]
  /\ data = {}
  /\ req = [c \in Curator |-> Idle]
  /\ faults = 0
  /\ abandoned = {}

-----------------------------------------------------------------------------
(* Helpers shared by the four operations.                                  *)

\* What a SPARQL load of the versions in S returns.
Load(S) == [v \in Version |-> IF v \in S THEN ver[v] ELSE None]

\* A wrong Retired: statements updated in place.
RetiredInPlace(v) ==
  IF v \in Written THEN [ver[v] EXCEPT !.current = FALSE, !.status = "rejected"] ELSE None

\* DELETE isCurrentVersion true, INSERT false, WHERE it is still true.
Retired(v) == IF v \in Written THEN [ver[v] EXCEPT !.current = FALSE] ELSE None

\* A wrong Successor: the flag is forgotten.
SuccessorNotCurrent(v, r, triple, status, term) ==
  [triple |-> triple, status |-> status, term |-> term,
   parent |-> v, root |-> r.root, current |-> FALSE]

\* The version an operation derives from the loaded record r of version v.
Successor(v, r, triple, status, term) ==
  [triple |-> triple, status |-> status, term |-> term,
   parent |-> v, root |-> r.root, current |-> TRUE]

Begin(c, op, load, into, pc) ==
  /\ req[c].pc = "idle"
  /\ req' = [req EXCEPT ![c] = [pc |-> pc, op |-> op, load |-> load, into |-> into]]
  /\ UNCHANGED <<ver, data, faults, abandoned>>

\* A wrong AfterCheck: the materialized triple stays behind.
AfterCheckNoDrop(r) == "retire"

\* Only an accepted version has a triple to take out of the data graph first.
AfterCheck(r) == IF r.status = "accepted" THEN "drop" ELSE "retire"

-----------------------------------------------------------------------------
(* accept_statement and accept_statements_bulk: one SELECT, then one       *)
(* update that retires the old versions, writes the new ones and           *)
(* materializes their triples. The inserts are unconditional.              *)

LoadAccept(c) ==
  \E S \in SUBSET {v \in Written : ver[v].current} :
    /\ S # {} /\ Cardinality(S) <= MaxBulk
    /\ Begin(c, "accept", Load(S), None, "apply")

Onto(from, S) == \A v \in S : \E n \in DOMAIN from : from[n] = v
Injective(from) == \A m, n \in DOMAIN from : from[m] = from[n] => m = n

\* The versions after the update, when each new one succeeds from[v].
Accepted(c, from) ==
  [v \in Version |->
     IF v \in DOMAIN from
       THEN LET r == req[c].load[from[v]]
            IN  Successor(from[v], r, r.triple, "accepted", "iri")
     ELSE IF v \in Target(c) THEN Retired(v)
     ELSE ver[v]]

\* Every listed id gets a successor, an id that is listed twice gets two.
ApplyAccept(c) ==
  /\ req[c].pc = "apply"
  /\ \E new \in SUBSET Unused : \E from \in [new -> Target(c)] :
       /\ Onto(from, Target(c))
       /\ Repeats \/ Injective(from)
       /\ ver' = Accepted(c, from)
  /\ data' = data \cup {req[c].load[s].triple : s \in Target(c)}
  /\ req' = [req EXCEPT ![c] = Idle]
  /\ UNCHANGED <<faults, abandoned>>

-----------------------------------------------------------------------------
(* reject_statement, edit_statement and reset_statement: a load, a delete  *)
(* from the data graph when the loaded version was accepted, an update     *)
(* that retires it and an insert of its successor, all separate requests.  *)

\* A wrong LoadReject: without the check of isCurrentVersion.
LoadRejectAny(c, v) ==
  /\ v \in Written
  /\ Begin(c, "reject", Load({v}), ver[v].triple, AfterCheck(ver[v]))

LoadReject(c, v) ==
  /\ IsCurrent(v)
  /\ Begin(c, "reject", Load({v}), ver[v].triple, AfterCheck(ver[v]))

\* An edit that is carried out.
ValidEdit(t, r) == t \in Triple /\ t # r.triple

\* The checks of edit_statement: validate_iri looks for a scheme and a host, so
\* that a subject like http://example.org/a b passes.
PassesChecks(t, r) == t # Malformed /\ t # r.triple

\* A wrong LoadEdit: the edit of a pending statement is not validated.
LoadEditUnchecked(c, v) ==
  /\ IsCurrent(v)
  /\ \E t \in Edits[ver[v].root] \cup Bad :
       Begin(c, "edit", Load({v}), t, AfterCheck(ver[v]))

(***************************************************************************)
(* The edit is checked after the data graph was changed, so one that fails *)
(* the checks has an effect only when the version was accepted.            *)
(***************************************************************************)
LoadEdit(c, v) ==
  /\ IsCurrent(v)
  /\ \E t \in Edits[ver[v].root] \cup Bad :
       /\ BadEdits \/ ValidEdit(t, ver[v])
       /\ ver[v].status = "accepted" \/ PassesChecks(t, ver[v])
       /\ Begin(c, "edit", Load({v}), t, AfterCheck(ver[v]))

LoadReset(c, v) ==
  /\ IsCurrent(v)
  /\ Begin(c, "reset", Load({v}), None, "origin")

\* find_original_candidate_statement and the load of what it found; both raise
\* when the extracted version is gone (see Documents).
LoadOrigin(c, v) ==
  /\ req[c].pc = "origin" /\ v \in Target(c)
  /\ LET r == req[c].load[v] IN
       req' = [req EXCEPT ![c] =
                 IF r.root \in Written /\ ~ ver[r.root].current
                   THEN [@ EXCEPT !.into = ver[r.root].triple, !.pc = AfterCheck(r)]
                   ELSE Idle]
  /\ UNCHANGED <<ver, data, faults, abandoned>>

Drop(c, v) ==
  /\ req[c].pc = "drop" /\ v \in Target(c)
  /\ LET r == req[c].load[v] IN
       /\ data' = data \ {r.triple}
       /\ req' = [req EXCEPT ![c] =
                    IF req[c].op = "edit" /\ ~ PassesChecks(req[c].into, r)
                      THEN Idle
                      ELSE [@ EXCEPT !.pc = "retire"]]
  /\ UNCHANGED <<ver, faults, abandoned>>

\* The new version is put together when the old one is retired already, and
\* NamedNode raises when its subject or predicate cannot be written as an IRI.
Refused(c) == req[c].into = Unwritable

Retire(c, v) ==
  /\ req[c].pc = "retire" /\ v \in Target(c)
  /\ ver' = [ver EXCEPT ![v] = Retired(v)]
  /\ req' = [req EXCEPT ![c] = IF Refused(c) THEN Idle ELSE [@ EXCEPT !.pc = "insert"]]
  /\ abandoned' = abandoned \cup {o \in {req[c].load[v].root} : Refused(c)}
  /\ UNCHANGED <<data, faults>>

\* Wrong NewVersions: an edit that writes its status as an IRI without
\* materializing the triple, and a reset that keeps the status.
NewVersionIri(c, v) ==
  LET r == req[c].load[v]
      status == CASE req[c].op = "reject" -> "rejected"
                  [] req[c].op = "edit"   -> r.status
                  [] OTHER                -> "pending"
  IN  Successor(v, r, req[c].into, status, "iri")

NewVersionKeepsStatus(c, v) ==
  LET r == req[c].load[v]
  IN  Successor(v, r, req[c].into, IF req[c].op = "reject" THEN "rejected" ELSE r.status,
                IF req[c].op = "edit" THEN "literal" ELSE "iri")

\* edit_statement writes the old status back as a literal and does not
\* materialize the edited triple; reset_statement starts over as pending.
NewVersion(c, v) ==
  LET r == req[c].load[v]
      status == CASE req[c].op = "reject" -> "rejected"
                  [] req[c].op = "edit"   -> r.status
                  [] OTHER                -> "pending"
  IN  Successor(v, r, req[c].into, status, IF req[c].op = "edit" THEN "literal" ELSE "iri")

Insert(c, v) ==
  /\ req[c].pc = "insert" /\ v \in Target(c)
  /\ \E n \in Unused : ver' = [ver EXCEPT ![n] = NewVersion(c, v)]
  /\ req' = [req EXCEPT ![c] = Idle]
  /\ UNCHANGED <<data, faults, abandoned>>

-----------------------------------------------------------------------------
(* A SPARQL request that fails or times out raises, and a restart of the   *)
(* API kills the thread: what the operation already wrote stays.           *)

Inserting(c, o) ==
  req[c].pc = "insert" /\ \E v \in Target(c) : req[c].load[v].root = o

BreakOff(c) ==
  /\ req[c].pc # "idle"
  /\ faults < MaxFaults
  /\ faults' = faults + 1
  /\ req' = [req EXCEPT ![c] = Idle]
  /\ abandoned' = abandoned \cup {o \in Original : Inserting(c, o)}
  /\ UNCHANGED <<ver, data>>

Next ==
  \E c \in Curator :
    \/ LoadAccept(c)
    \/ ApplyAccept(c)
    \/ BreakOff(c)
    \/ \E v \in Version :
         \/ LoadReject(c, v)
         \/ LoadEdit(c, v)
         \/ LoadReset(c, v)
         \/ LoadOrigin(c, v)
         \/ Drop(c, v)
         \/ Retire(c, v)
         \/ Insert(c, v)

Spec == Init /\ [][Next]_vars

-----------------------------------------------------------------------------
(* Properties.                                                             *)

TypeOK ==
  /\ ver \in [Version -> VersionRec \cup {None}]
  /\ data \in SUBSET Triple
  /\ req \in [Curator -> Request]
  /\ faults \in Nat
  /\ abandoned \in SUBSET Original

(***************************************************************************)
(* Only statements that are accepted and current are materialized          *)
(* (.docs/adr-log/0005-Provenance_Tracking.md): whatever the curators do   *)
(* at the same time and wherever a request breaks off, every triple of the *)
(* data graph is the triple of a current version with paco:accepted as its *)
(* status; the text that an edit leaves does not count.                    *)
(***************************************************************************)
Justifies(v, t) ==
  IsCurrent(v) /\ ver[v].status = "accepted" /\ ver[v].term = "iri" /\ ver[v].triple = t

MaterializedIsAccepted == \A t \in data : \E v \in Version : Justifies(v, t)

(***************************************************************************)
(* The invariant that makes it so. Loaded copies stay true of versions     *)
(* that are never rewritten; and each materialized triple has an accepted  *)
(* current version that no request is about to retire, because a request   *)
(* retires an accepted version only after it took its triple away.         *)
(***************************************************************************)
RequestOK(r) ==
  /\ r.pc = "insert" => r.into \in Triple
  /\ r.pc = "retire" => r.into \in Triple \/ (r.op = "edit" /\ r.into = Unwritable)
  /\ r.into \in Bad => BadEdits
  /\ r.pc = "drop" => r.into \in Triple \/ (r.op = "edit" /\ r.into \in Bad)
  /\ r.pc # "apply" => \A v, w \in Version : r.load[v] # None /\ r.load[w] # None => v = w

LoadedIsWritten ==
  \A c \in Curator : \A v \in Target(c) :
    /\ v \in Written
    /\ ver[v].triple = req[c].load[v].triple
    /\ ver[v].status = req[c].load[v].status
    /\ ver[v].root = req[c].load[v].root

Retiring(v) == \E c \in Curator : req[c].pc = "retire" /\ v \in Target(c)

MaterializationInvariant ==
  /\ \A c \in Curator : RequestOK(req[c])
  /\ Original \subseteq Written
  /\ LoadedIsWritten
  /\ \A t \in data : \E v \in Version : Justifies(v, t) /\ ~ Retiring(v)

(***************************************************************************)
(* A statement is only lost when a request ends between retiring a version *)
(* and inserting its successor: it breaks off there, or it is an edit with *)
(* an IRI that only NamedNode refuses (writer.py:1006). Every other        *)
(* statement has a current version or a request that is about to insert    *)
(* one, however many curators work on it and break off elsewhere.          *)
(***************************************************************************)
Chain(o) == {v \in Written : ver[v].root = o}

NoStatementLost ==
  \A o \in Original \ abandoned :
    \/ \E v \in Chain(o) : ver[v].current
    \/ \E c \in Curator : Inserting(c, o)

(***************************************************************************)
(* Versions are immutable: a step may only write new versions and retire   *)
(* old ones, and a retired version never becomes current again.            *)
(***************************************************************************)
HistoryAppendOnly ==
  [][\A v \in Written :
       /\ ver'[v] # None
       /\ ver'[v] \in {ver[v], [ver[v] EXCEPT !.current = FALSE]}]_vars

(***************************************************************************)
(* The history of a statement is one line of versions: no version has two  *)
(* successors, and only its last one can be current. Holds for a single    *)
(* curator, also when requests break off.                                  *)
(***************************************************************************)
LinearHistory ==
  /\ \A v, w \in Written : ver[v].parent = ver[w].parent /\ ver[v].parent # None => v = w
  /\ \A v, w \in Written : ver[w].parent = v => ~ ver[v].current

(***************************************************************************)
(* isCurrentVersion marks the current active version within a derivation   *)
(* chain, and get_current_candidate_statement raises when it finds several *)
(* (store/queries.py). Two curators break this: both load the same current *)
(* version, and both insert a successor.                                   *)
(***************************************************************************)
OneCurrentVersion ==
  \A v, w \in Written :
    IsCurrent(v) /\ IsCurrent(w) /\ ver[v].root = ver[w].root => v = w

Quiet == \A c \in Curator : req[c].pc = "idle"

(***************************************************************************)
(* The other direction of the rule on materialization: when no request is  *)
(* in progress, the triple of every version that is current and has        *)
(* paco:accepted as its status is in the data graph.                       *)
(***************************************************************************)
AcceptedIsMaterialized ==
  Quiet => \A v \in Version :
    IsCurrent(v) /\ ver[v].status = "accepted" /\ ver[v].term = "iri" => ver[v].triple \in data

=============================================================================
