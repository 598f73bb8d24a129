----------------------------- MODULE Documents -----------------------------
(***************************************************************************)
(* The life of a document (backend/app/routes/extraction.py,               *)
(* routes/documents.py, tasks, store/writer.py): it is uploaded with       *)
(* others as a run, extracted, aligned and looked up, its statements are   *)
(* curated, and it is retried or deleted. What the documents contributed   *)
(* lies in the two graphs that the curators change at the same time; this  *)
(* module composes Curation with the writers and the removers of the       *)
(* original statements. Pipeline has the tasks in detail; here a task is   *)
(* what it reads and what it writes to the graphs.                         *)
(***************************************************************************)
EXTENDS Naturals, FiniteSets

CONSTANTS
  Curator, Version, Original, Triple, OriginalTriple, Edits,
  Malformed, Unwritable, BadEdits, Repeats, MaxBulk, MaxFaults, None,   \* see Curation
  Doc,       \* ids of documents
  Run,       \* ids of runs
  MaxBreaks, \* bound: uploads and removals that break off
  Uploads,   \* what clients upload: Run -> sets of documents
  Kind,      \* Original -> who writes it
  Home,      \* Original -> the documents with the entities it is about
  Source,    \* Original -> the documents it is derived from
  By,        \* Original -> the run that writes it, when the documents leave it open
  Overlap    \* what may overlap: removals with curators and runs, alignments with curators

ASSUME DocumentsAssumption ==
  /\ Uploads \in [Run -> SUBSET SUBSET Doc]
  /\ MaxBreaks \in Nat
  /\ Kind \in [Original -> {"extraction", "alignment", "lookup"}]
  /\ Home \in [Original -> SUBSET Doc]
  /\ Source \in [Original -> SUBSET Doc]
  /\ \A o \in Original : Kind[o] = "extraction" => Source[o] = Home[o]
  /\ By \in [Original -> Run \cup {None}]
  /\ Overlap \subseteq {"curate", "run", "align"}

VARIABLES
  ver, data, req, faults, abandoned,   \* see Curation
  entity,    \* curation graph: documents typed as paco:SourceDocument
  spent,     \* versions that were deleted: a uuid4 is not drawn again
  row,       \* documents in PostgreSQL
  job,       \* where the chain of each document is
  batch,     \* the documents of each run
  run,       \* where each run is
  files,     \* working directories: the documents with a TTL
  plan,      \* the originals a run is about to write
  breaks,    \* uploads and removals broken off so far
  removal    \* the delete_document_data in progress for each document

graphVars == <<ver, data, entity, spent>>
runVars == <<row, job, batch, run, files, plan>>
vars == <<graphVars, req, faults, abandoned, breaks, runVars, removal>>

C == INSTANCE Curation

\* What Curation assumes about its constants.
ASSUME CurationAssumption == C!OriginalAssumption /\ C!BoundAssumption

Row == {"absent", "present", "removed"}
JobStep == {"none", "queued", "extracting", "extracted", "done", "failed"}
RunStep == {"none", "rows", "broken", "chord", "align", "lookup", "end"}
RemovalStep == {"triples", "statements", "entity", "finish"}
NoRemoval == [pc |-> "none", why |-> "none"]

Init ==
  /\ ver = [v \in Version |-> None]
  /\ data = {}
  /\ req = [c \in Curator |-> C!Idle]
  /\ faults = 0 /\ abandoned = {}
  /\ entity = {} /\ spent = {}
  /\ row = [d \in Doc |-> "absent"]
  /\ job = [d \in Doc |-> "none"]
  /\ batch = [r \in Run |-> {}]
  /\ run = [r \in Run |-> "none"]
  /\ files = {}
  /\ plan = [r \in Run |-> {}]
  /\ breaks = 0
  /\ removal = [d \in Doc |-> NoRemoval]

-----------------------------------------------------------------------------
(* create_documents: the row of the run, one commit per document, and the  *)
(* job at the very end. An error in between leaves what was committed.     *)

Present(r) == {d \in batch[r] : row[d] = "present"}

BeginUpload(r) ==
  /\ run[r] = "none"
  /\ \E B \in Uploads[r] :
       /\ \A s \in Run : B \cap batch[s] = {}
       /\ batch' = [batch EXCEPT ![r] = B]
  /\ run' = [run EXCEPT ![r] = "rows"]
  /\ UNCHANGED <<graphVars, req, faults, abandoned, breaks, row, job, files, plan, removal>>

CreateRow(r, d) ==
  /\ run[r] = "rows" /\ d \in batch[r] /\ row[d] = "absent"
  /\ row' = [row EXCEPT ![d] = "present"]
  /\ UNCHANGED <<graphVars, req, faults, abandoned, breaks, job, batch, run, files, plan, removal>>

Enqueue(r) ==
  /\ run[r] = "rows" /\ \A d \in batch[r] : row[d] # "absent"
  /\ job' = [d \in Doc |-> IF d \in batch[r] THEN "queued" ELSE job[d]]
  /\ run' = [run EXCEPT ![r] = "chord"]
  /\ UNCHANGED <<graphVars, req, faults, abandoned, breaks, row, batch, files, plan, removal>>

\* A file of an unsupported type, a content that is there already, a crash.
BreakUpload(r) ==
  /\ run[r] = "rows"
  /\ breaks < MaxBreaks /\ breaks' = breaks + 1
  /\ run' = [run EXCEPT ![r] = "broken"]
  /\ UNCHANGED <<graphVars, req, faults, abandoned, row, job, batch, files, plan, removal>>

-----------------------------------------------------------------------------
(* The chain of a document: the row is read, and when the language model   *)
(* is done the statements are written, whether or not the row is still     *)
(* there. The id of an original is a hash of what it says, of its run and  *)
(* of its source documents, so the same original may be written again, and *)
(* INSERT DATA adds to what the graph has under its id.                    *)

Written == C!Written
Removing == {d \in Doc : removal[d] # NoRemoval}

Put(S) ==
  /\ ver' = [v \in Version |-> IF v \in S THEN C!Extracted(v) ELSE ver[v]]
  /\ UNCHANGED <<data, spent>>

Of(kind) == {o \in Original : Kind[o] = kind}

JobGoes(d, step) ==
  /\ job' = [job EXCEPT ![d] = step]
  /\ UNCHANGED <<req, faults, abandoned, breaks, row, batch, run, plan, removal>>

Fetch(d) ==
  /\ job[d] = "queued"
  /\ "run" \in Overlap \/ d \notin Removing
  /\ JobGoes(d, IF row[d] = "present" THEN "extracting" ELSE "failed")
  /\ UNCHANGED <<graphVars, files>>

Extract(d) ==
  /\ job[d] = "extracting"
  /\ Put({o \in Of("extraction") : Source[o] = {d}})
  /\ entity' = entity \cup {d}
  /\ JobGoes(d, "extracted")
  /\ UNCHANGED files

\* The inner alignment puts the TTL into the working directory of the run.
File(d) ==
  /\ job[d] = "extracted"
  /\ files' = files \cup {d}
  /\ JobGoes(d, "done")
  /\ UNCHANGED graphVars

\* A wrong FailJob: a status that does not exist.
FailJobError(d) ==
  /\ job[d] \in {"extracting", "extracted"}
  /\ JobGoes(d, "error")
  /\ UNCHANGED <<graphVars, files>>

FailJob(d) ==
  /\ job[d] \in {"extracting", "extracted"}
  /\ JobGoes(d, "failed")
  /\ UNCHANGED <<graphVars, files>>

-----------------------------------------------------------------------------
(* The tail of a run: the cross-document alignment reads the TTLs of the   *)
(* run, the entities of prior documents and the pairs that are stated      *)
(* already, and then writes; the lookup does so with the rows of the run.  *)

Filed(r) == batch[r] \cap files

RunGoes(r, step, planned) ==
  /\ run' = [run EXCEPT ![r] = step]
  /\ plan' = [plan EXCEPT ![r] = planned]
  /\ UNCHANGED <<req, faults, abandoned, breaks, row, batch, removal>>

CurrentOf(d) ==
  {v \in Written : ver[v].current /\ Kind[ver[v].root] = "extraction" /\ Home[ver[v].root] = {d}}

\* get_prior_entities finds entities in current statements that are not rejected.
Prior(d) == \E v \in CurrentOf(d) : ver[v].status # "rejected" \/ ver[v].term = "literal"

\* Only an extracted version links to its document: when all were curated, the
\* document of the entity is unknown.
Traced(d) == \E v \in CurrentOf(d) : v \in Original

Stated(o) ==
  \E v \in Written : ver[v].current /\ Kind[ver[v].root] = "alignment" /\ ver[v].triple = OriginalTriple[o]

\* A wrong Proposed: the pairs that are stated already are not dropped.
ProposedAgain(r) ==
  {o \in Of("alignment") :
     /\ By[o] = r
     /\ Home[o] \cap Filed(r) # {}
     /\ \A d \in Home[o] : d \in Filed(r) \/ Prior(d)
     /\ Source[o] = {d \in Home[o] : d \in Filed(r) \/ Traced(d)}}

Proposed(r) ==
  {o \in Of("alignment") :
     /\ By[o] = r
     /\ Home[o] \cap Filed(r) # {}
     /\ \A d \in Home[o] : d \in Filed(r) \/ Prior(d)
     /\ Source[o] = {d \in Home[o] : d \in Filed(r) \/ Traced(d)}
     /\ ~ Stated(o)}

\* While a curator replaces a version, the pair seems not to be stated.
Replacing ==
  \E c \in Curator : req[c].pc = "insert" /\ \E v \in C!Target(c) : Kind[req[c].load[v].root] = "alignment"

\* The lock of the workspace keeps alignments apart.
ListAlign(r) ==
  /\ run[r] = "chord" /\ \A d \in batch[r] : job[d] \in {"done", "failed"}
  /\ \A s \in Run : run[s] # "align"
  /\ "run" \in Overlap \/ Removing = {}
  /\ "align" \in Overlap \/ ~ Replacing
  /\ RunGoes(r, "align", Proposed(r))
  /\ UNCHANGED <<graphVars, job, files>>

\* The statements of each pair of documents are an update of their own.
WriteAlign(r) ==
  /\ run[r] = "align"
  /\ \E o \in plan[r] :
       /\ Put({o})
       /\ RunGoes(r, "align", plan[r] \ {o})
  /\ UNCHANGED <<entity, job, files>>

\* The rows of deleted documents have lost their document id.
ListLookup(r) ==
  /\ run[r] = "align" /\ plan[r] = {}
  /\ "run" \in Overlap \/ Removing = {}
  /\ RunGoes(r, "lookup",
       {o \in Of("lookup") : Home[o] \cap Filed(r) # {} /\ Source[o] = Present(r)})
  /\ UNCHANGED <<graphVars, job, files>>

\* The working directory is removed when the lookup ends, however it ends.
WriteLookup(r) ==
  /\ run[r] = "lookup"
  /\ Put(plan[r])
  /\ RunGoes(r, "end", {})
  /\ files' = files \ batch[r]
  /\ UNCHANGED <<entity, job>>

\* update_all marks the rows of the run as failed.
FailTail(r) ==
  /\ run[r] \in {"align", "lookup"}
  /\ RunGoes(r, "end", {})
  /\ job' = [d \in Doc |-> IF d \in batch[r] THEN "failed" ELSE job[d]]
  /\ files' = IF run[r] = "lookup" THEN files \ batch[r] ELSE files
  /\ UNCHANGED graphVars

-----------------------------------------------------------------------------
(* Curators work as in Curation. Unless the two may overlap, no one begins *)
(* to work on what is derived from a document that is being removed.       *)

DerivedFrom(v) == Source[ver[v].root]

\* A deleted uuid4 is not drawn again, and no uuid4 is the hash of an original.
Fresh == Version \ (Written \cup Original \cup spent)

Starts(c) == req[c].pc = "idle" /\ req'[c].pc # "idle"

Curate ==
  /\ C!Next
  /\ \A v \in Version \ Written : ver'[v] # None => v \in Fresh
  /\ Fresh = {} => \A c \in Curator : ~ Starts(c)   \* bound: the ids of an instance
  /\ \/ "curate" \in Overlap
     \/ \A c \in Curator : Starts(c) =>
          \A v \in Written : req'[c].load[v] # None => DerivedFrom(v) \cap Removing = {}
  /\ UNCHANGED <<entity, spent, runVars, breaks, removal>>

-----------------------------------------------------------------------------
(* delete_document_data, on behalf of delete_document or retry_document.   *)
(* The updates match every version from which a path of                    *)
(* prov:wasDerivedFrom leads to the document, current or not.              *)

Steps(d, S) ==
  \A v \in Written :
    (v \in Original /\ d \in Source[v]) \/ ver[v].parent \in S => v \in S

\* The originals. A wrong Derived: prov:wasDerivedFrom is followed only once.
DerivedOnce(d) == {v \in Written : v \in Original /\ d \in Source[v]}

\* The least set with the originals and with all that is made of its versions.
Derived(d) ==
  LET first == DerivedOnce(d)
  IN  {v \in Written : \A S \in SUBSET (Written \ Original) :
                         Steps(d, first \cup S) => v \in first \cup S}

NoCurator(d) ==
  \A c \in Curator : \A v \in C!Target(c) : d \notin Source[req[c].load[v].root]

NoRun(d) ==
  /\ job[d] \notin {"extracting", "extracted"} /\ d \notin files
  /\ \A r \in Run : run[r] \notin {"align", "lookup"}

StartRemoval(d, why) ==
  /\ row[d] = "present" /\ removal[d] = NoRemoval
  /\ "curate" \in Overlap \/ NoCurator(d)
  /\ "run" \in Overlap \/ NoRun(d)
  /\ removal' = [removal EXCEPT ![d] = [pc |-> "triples", why |-> why]]
  /\ UNCHANGED <<graphVars, req, faults, abandoned, breaks, runVars>>

Delete(d) == StartRemoval(d, "delete")

\* A wrong Retry: nothing is deleted before the document is extracted again.
RetryKeeps(d) ==
  /\ job[d] = "failed" /\ \E r \in Run : d \in batch[r] /\ run[r] = "end"
  /\ row[d] = "present" /\ removal[d] = NoRemoval
  /\ removal' = [removal EXCEPT ![d] = [pc |-> "finish", why |-> "retry"]]
  /\ UNCHANGED <<graphVars, req, faults, abandoned, breaks, runVars>>

\* Pipeline has the retries that overlap with their run or with each other.
Retry(d) ==
  /\ job[d] = "failed" /\ \E r \in Run : d \in batch[r] /\ run[r] = "end"
  /\ StartRemoval(d, "retry")

RemovalGoes(d, step, next) ==
  /\ removal[d].pc = step
  /\ removal' = [removal EXCEPT ![d].pc = next]
  /\ UNCHANGED <<req, faults, abandoned, breaks, runVars>>

\* Wrong DropTriples: the data graph is forgotten, and it is cleared.
DropNoTriples(d) ==
  /\ RemovalGoes(d, "triples", "statements")
  /\ UNCHANGED <<ver, data, entity, spent>>

DropAllTriples(d) ==
  /\ RemovalGoes(d, "triples", "statements")
  /\ data' = {}
  /\ UNCHANGED <<ver, entity, spent>>

DropTriples(d) ==
  /\ RemovalGoes(d, "triples", "statements")
  /\ data' = data \ {ver[v].triple : v \in Derived(d)}
  /\ UNCHANGED <<ver, entity, spent>>

\* A wrong DropStatements: only the current versions.
DropCurrentStatements(d) ==
  /\ RemovalGoes(d, "statements", "entity")
  /\ ver' = [v \in Version |-> IF v \in Derived(d) /\ ver[v].current THEN None ELSE ver[v]]
  /\ spent' = spent \cup {v \in Derived(d) : ver[v].current}
  /\ UNCHANGED <<data, entity>>

DropStatements(d) ==
  LET gone == Derived(d) IN
    /\ RemovalGoes(d, "statements", "entity")
    /\ ver' = [v \in Version |-> IF v \in gone THEN None ELSE ver[v]]
    /\ spent' = spent \cup gone
    /\ UNCHANGED <<data, entity>>

DropEntity(d) ==
  /\ RemovalGoes(d, "entity", "finish")
  /\ entity' = entity \ {d}
  /\ UNCHANGED <<ver, data, spent>>

FinishDelete(d) ==
  /\ removal[d] = [pc |-> "finish", why |-> "delete"]
  /\ removal' = [removal EXCEPT ![d] = NoRemoval]
  /\ row' = [row EXCEPT ![d] = "removed"]
  /\ UNCHANGED <<graphVars, req, faults, abandoned, breaks, job, batch, run, files, plan>>

FinishRetry(d) ==
  /\ removal[d] = [pc |-> "finish", why |-> "retry"]
  /\ removal' = [removal EXCEPT ![d] = NoRemoval]
  /\ job' = [job EXCEPT ![d] = "queued"]
  /\ run' = [r \in Run |-> IF d \in batch[r] THEN "chord" ELSE run[r]]
  /\ UNCHANGED <<graphVars, req, faults, abandoned, breaks, row, batch, files, plan>>

\* An update that fails raises: the document stays and can be removed again.
BreakRemoval(d) ==
  /\ d \in Removing
  /\ breaks < MaxBreaks /\ breaks' = breaks + 1
  /\ removal' = [removal EXCEPT ![d] = NoRemoval]
  /\ UNCHANGED <<graphVars, req, faults, abandoned, runVars>>

RunNext(r) ==
  \/ BeginUpload(r) \/ Enqueue(r) \/ BreakUpload(r)
  \/ \E d \in Doc : CreateRow(r, d)
  \/ ListAlign(r) \/ WriteAlign(r) \/ ListLookup(r) \/ WriteLookup(r) \/ FailTail(r)

JobNext(d) == Fetch(d) \/ Extract(d) \/ File(d) \/ FailJob(d)

RemovalNext(d) ==
  \/ Delete(d) \/ Retry(d)
  \/ DropTriples(d) \/ DropStatements(d) \/ DropEntity(d)
  \/ FinishDelete(d) \/ FinishRetry(d) \/ BreakRemoval(d)

Next ==
  \/ Curate
  \/ \E r \in Run : RunNext(r)
  \/ \E d \in Doc : JobNext(d) \/ RemovalNext(d)

Spec == Init /\ [][Next]_vars

-----------------------------------------------------------------------------
(* Properties.                                                             *)

TypeOK ==
  /\ C!TypeOK
  /\ entity \in SUBSET Doc
  /\ spent \in SUBSET Version
  /\ row \in [Doc -> Row]
  /\ job \in [Doc -> JobStep]
  /\ batch \in [Run -> SUBSET Doc]
  /\ run \in [Run -> RunStep]
  /\ files \in SUBSET Doc
  /\ plan \in [Run -> SUBSET Original]
  /\ breaks \in Nat
  /\ removal \in [Doc -> {NoRemoval} \cup [pc : RemovalStep, why : {"delete", "retry"}]]

(***************************************************************************)
(* Deleting a document removes everything it contributed to the graphs     *)
(* (the docstring of delete_document_data): when its row is gone, no       *)
(* version is left whose history begins at an original derived from it,    *)
(* and neither is its source document entity. Triples of the data graph    *)
(* are covered by MaterializedIsAccepted. It holds wherever a removal, an  *)
(* upload or a curation breaks off, because the row is deleted last.       *)
(***************************************************************************)
NoTraceLeft ==
  \A d \in Doc : row[d] = "removed" =>
    /\ d \notin entity
    /\ \A v \in Written : d \notin DerivedFrom(v)

(***************************************************************************)
(* Only accepted and current statements are materialized, also while       *)
(* documents are removed and when a removal breaks off: the triples go     *)
(* before the statements, those of all versions.                           *)
(***************************************************************************)
MaterializedIsAccepted == C!MaterializedIsAccepted

(***************************************************************************)
(* What a removal spares. It takes along what is derived from its document *)
(* and from others too: the alignments with other documents, and all that  *)
(* was looked up in its run, also about entities of other documents        *)
(* (get_matching_statements_update). What was extracted from others stays: *)
(* unless something broke off, every such statement keeps a current        *)
(* version or a curator who replaces it, and the triples of the accepted   *)
(* statements that are left stay in the data graph, provided that no two   *)
(* statements share a triple.                                              *)
(***************************************************************************)
OthersAreSpared ==
  faults + breaks = 0 /\ Removing = {} =>
    /\ C!AcceptedIsMaterialized
    /\ \A o \in Of("extraction") \ abandoned, d \in Doc :
         Source[o] = {d} /\ row[d] = "present" /\ job[d] \in {"extracted", "done"} =>
           \/ \E v \in C!Chain(o) : ver[v].current
           \/ \E c \in Curator : C!Inserting(c, o)

(***************************************************************************)
(* Every statement can be reset: find_original_candidate_statement walks   *)
(* back from each version to its original and from there to a document     *)
(* that has its source document entity, whatever was removed or retried.   *)
(***************************************************************************)
EveryStatementHasAnOrigin ==
  \A v \in Written :
    /\ IF v \in Original THEN ver[v].root = v ELSE ver[v].parent \in Written
    /\ ver[v].root \in Written
    /\ DerivedFrom(v) \cap entity # {}

(***************************************************************************)
(* No two alignments of the same pair are proposed, also when prior        *)
(* statements were curated, documents retried and the ids differ: the      *)
(* cross-document alignment drops the pairs that have a current statement, *)
(* and only a statement that was abandoned is left without one.            *)
(***************************************************************************)
PairStatedOnce ==
  abandoned = {} =>
    \A o, p \in Of("alignment") \cap Written : OriginalTriple[o] = OriginalTriple[p] => o = p

(***************************************************************************)
(* No original is written while the graph still has versions of it: an id  *)
(* repeats when a run is retried, and INSERT DATA would add a second       *)
(* status and flag to a version that was curated. That takes that no       *)
(* statement was abandoned, because an alignment without a current version *)
(* is proposed again.                                                      *)
(***************************************************************************)
WrittenOnce ==
  [][abandoned = {} =>
       \A o \in Original :
         ver'[o] # None /\ ver'[o] # ver[o] /\ (ver'[o].current \/ ver[o] = None)
           => C!Chain(o) = {}]_vars

=============================================================================
