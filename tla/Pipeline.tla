------------------------------ MODULE Pipeline ------------------------------
(***************************************************************************)
(* The extraction pipeline of one workspace (backend/app/tasks,            *)
(* routes/extraction.py, repositories/run.py, core/locks.py).              *)
(*                                                                         *)
(* A run starts one Celery chord: a chain convert, extract, align for each *)
(* document, and when all of them ended the cross-document alignment and   *)
(* the lookup. A document that failed can be retried: a job of its own     *)
(* that runs the chain of this document and then the cross-document        *)
(* alignment and the lookup of its run again. Jobs run in worker processes *)
(* and meet in the rows of run_tasks, in the curation graph, in the        *)
(* working directory of the run and at the Redis lock of the workspace.    *)
(* A head is the chain of one document, a tail what follows the heads.     *)
(***************************************************************************)
EXTENDS Naturals, FiniteSets

CONSTANTS
  Run,             \* the runs of the workspace
  Doc,             \* their documents
  RunOf,           \* Doc -> Run
  Pdf,             \* the documents that are converted first
  Retry,           \* ids of retry requests
  Alike,           \* pairs of documents with entities that score as the same
  SlowAlignment,   \* whether an alignment may take longer than the lock lives
  MaxCrashes,      \* bound: processes that die in the middle of a task
  None             \* no job

ASSUME PipelineAssumption ==
  /\ RunOf \in [Doc -> Run]
  /\ Pdf \subseteq Doc
  /\ Run \cap Retry = {}
  /\ None \notin Run \cup Retry
  /\ SlowAlignment \in BOOLEAN
  /\ MaxCrashes \in Nat

Job == Run \cup Retry   \* the main job of a run has the run's name

VARIABLES
  status,     \* run_tasks.status of each document
  docs,       \* the documents whose heads a job runs
  head,       \* where a job is with each of them
  tail,       \* where a job is after them, or before for a retry
  todo,       \* the rows update_all has still to write
  input,      \* the documents whose TTL the stage has listed
  pairs,      \* the pairs the alignment has still to write
  extracted,  \* curation graph: documents with candidate statements
  aligned,    \* curation graph: cross-document sameAs statements, <<pair, run>>
  compared,   \* pairs of documents some alignment has compared
  looked,     \* documents some lookup has covered
  files,      \* working directories: the documents with a TTL
  merged,     \* working directories: the documents merged.ttl was made from
  lock,       \* who holds the lock of the workspace
  crashes     \* processes that died so far

jobVars == <<docs, head, tail, todo, input, pairs>>
graphVars == <<extracted, aligned, compared, looked>>
dirVars == <<files, merged>>
vars == <<status, jobVars, graphVars, dirVars, lock, crashes>>

Status == {"Queued", "Running", "Waiting", "Done", "Failed"}

HeadStep ==
  {"none", "convert", "converting", "extract", "checked", "extracting", "extracted",
   "align", "aligning", "queued", "waiting", "done", "lost"}

\* The steps of the cross-document alignment that runs under the lock.
CrossBody == {"cross_running", "compare", "write", "cross_done", "cross_failed"}
LookupBody == {"lookup_running", "lookup_body", "lookup_done", "lookup_failed"}
RetrySteps == {"delete", "reset", "enqueue"}
TailStep == {"idle", "blocked", "lookup", "end", "dead", "lost"}
            \cup CrossBody \cup LookupBody \cup RetrySteps

\* The first task of a document's chain.
First(d) == IF d \in Pdf THEN "convert" ELSE "extract"

\* All documents of the run a job works on.
Scope(j) == {d \in Doc : \E e \in docs[j] : RunOf[e] = RunOf[d]}

Init ==
  /\ status = [d \in Doc |-> "Queued"]
  /\ docs = [j \in Job |-> {d \in Doc : RunOf[d] = j}]
  /\ head = [j \in Job |-> [d \in Doc |-> IF RunOf[d] = j THEN First(d) ELSE "none"]]
  /\ tail = [j \in Job |-> IF j \in Run THEN "blocked" ELSE "idle"]
  /\ todo = [j \in Job |-> {}]
  /\ input = [j \in Job |-> {}]
  /\ pairs = [j \in Job |-> {}]
  /\ extracted = {} /\ aligned = {} /\ compared = {} /\ looked = {}
  /\ files = {} /\ merged = {}
  /\ lock = None
  /\ crashes = 0

-----------------------------------------------------------------------------
(* The chain of one document. A task that fails marks the row and ends     *)
(* normally, so that the chord goes on with the other documents.           *)

HeadGoes(j, d, step) ==
  /\ head' = [head EXCEPT ![j][d] = step]
  /\ UNCHANGED <<docs, tail, todo, input, pairs, lock, crashes>>

Set(d, s) == status' = [status EXCEPT ![d] = s]

StartConvert(j, d) ==
  /\ head[j][d] = "convert"
  /\ Set(d, "Running") /\ HeadGoes(j, d, "converting")
  /\ UNCHANGED <<graphVars, dirVars>>

Convert(j, d) ==
  /\ head[j][d] = "converting"
  /\ Set(d, "Queued") \/ Set(d, "Failed")
  /\ HeadGoes(j, d, "extract")
  /\ UNCHANGED <<graphVars, dirVars>>

\* A wrong CheckExtract: the stage before is not looked at.
CheckExtractAlways(j, d) ==
  /\ head[j][d] = "extract"
  /\ HeadGoes(j, d, "checked")
  /\ UNCHANGED <<status, graphVars, dirVars>>

\* A document whose conversion failed is skipped, here and by the alignment.
CheckExtract(j, d) ==
  /\ head[j][d] = "extract"
  /\ HeadGoes(j, d, IF status[d] = "Failed" THEN "done" ELSE "checked")
  /\ UNCHANGED <<status, graphVars, dirVars>>

StartExtract(j, d) ==
  /\ head[j][d] = "checked"
  /\ Set(d, "Running") /\ HeadGoes(j, d, "extracting")
  /\ UNCHANGED <<graphVars, dirVars>>

Extract(j, d) ==
  /\ head[j][d] = "extracting"
  /\ HeadGoes(j, d, "extracted")
  /\ extracted' = extracted \cup {d}
  /\ UNCHANGED <<status, aligned, compared, looked, dirVars>>

\* A wrong FailHead: the exception is swallowed.
FailHeadSilent(j, d) ==
  /\ head[j][d] \in {"extracting", "aligning"}
  /\ HeadGoes(j, d, "done")
  /\ UNCHANGED <<status, graphVars, dirVars>>

FailHead(j, d) ==
  /\ head[j][d] \in {"extracting", "aligning"}
  /\ Set(d, "Failed") /\ HeadGoes(j, d, "done")
  /\ UNCHANGED <<graphVars, dirVars>>

QueueAlign(j, d) ==
  /\ head[j][d] = "extracted"
  /\ Set(d, "Queued") /\ HeadGoes(j, d, "align")
  /\ UNCHANGED <<graphVars, dirVars>>

StartAlign(j, d) ==
  /\ head[j][d] = "align"
  /\ Set(d, "Running") /\ HeadGoes(j, d, "aligning")
  /\ UNCHANGED <<graphVars, dirVars>>

\* The TTL is copied to the working directory, then the other rows are read.
Align(j, d) ==
  /\ head[j][d] = "aligning"
  /\ files' = files \cup {d}
  /\ HeadGoes(j, d,
       IF \A e \in Scope(j) \ {d} : status[e] \in {"Waiting", "Done", "Failed"}
         THEN "queued" ELSE "waiting")
  /\ UNCHANGED <<status, graphVars, merged>>

Settle(j, d) ==
  /\ head[j][d] \in {"queued", "waiting"}
  /\ Set(d, IF head[j][d] = "queued" THEN "Queued" ELSE "Waiting")
  /\ HeadGoes(j, d, "done")
  /\ UNCHANGED <<graphVars, dirVars>>

HeadsDone(j) == \A d \in docs[j] : head[j][d] = "done"

-----------------------------------------------------------------------------
(* update_all: the rows are read once, then those that were not Failed are *)
(* written one by one. The read belongs to the step before.                *)

NotFailed(j) == {d \in Scope(j) : status[d] # "Failed"}

TailGoes(j, step, rows, listed, found) ==
  /\ tail' = [tail EXCEPT ![j] = step]
  /\ todo' = [todo EXCEPT ![j] = rows]
  /\ input' = [input EXCEPT ![j] = listed]
  /\ pairs' = [pairs EXCEPT ![j] = found]
  /\ UNCHANGED <<docs, head, status, crashes>>

\* A wrong MarkAs: a status that does not exist.
MarkAsError(step) ==
  CASE step \in {"cross_running", "lookup_running"} -> "Running"
    [] step \in {"cross_done", "lookup_done"} -> "Done"
    [] step \in {"cross_failed", "lookup_failed"} -> "Error"

MarkAs(step) ==
  CASE step \in {"cross_running", "lookup_running"} -> "Running"
    [] step \in {"cross_done", "lookup_done"} -> "Done"
    [] step \in {"cross_failed", "lookup_failed"} -> "Failed"

Mark(j, d) ==
  /\ d \in todo[j]
  /\ Set(d, MarkAs(tail[j]))
  /\ todo' = [todo EXCEPT ![j] = @ \ {d}]
  /\ UNCHANGED <<docs, head, tail, input, pairs, graphVars, dirVars, lock, crashes>>

-----------------------------------------------------------------------------
(* align_cross_document_task. A busy lock makes Celery try again later.    *)

CrossReady(j) == tail[j] = "blocked" /\ HeadsDone(j)

SkipCross(j) ==
  /\ CrossReady(j) /\ NotFailed(j) = {}
  /\ TailGoes(j, "lookup", {}, {}, {})
  /\ UNCHANGED <<graphVars, dirVars, lock>>

\* A wrong StartCross: without the lock.
StartCrossUnlocked(j) ==
  /\ CrossReady(j) /\ NotFailed(j) # {}
  /\ TailGoes(j, "cross_running", NotFailed(j), {}, {})
  /\ UNCHANGED <<graphVars, dirVars, lock>>

StartCross(j) ==
  /\ CrossReady(j) /\ NotFailed(j) # {}
  /\ lock = None /\ lock' = j
  /\ TailGoes(j, "cross_running", NotFailed(j), {}, {})
  /\ UNCHANGED <<graphVars, dirVars>>

(***************************************************************************)
(* run_cross_document_alignment: list the TTLs of the run, get the         *)
(* entities of prior documents from the curation graph and compare each    *)
(* listed document with every other one.                                   *)
(***************************************************************************)
\* A wrong PairsWith: the prior documents are forgotten.
PairsWithListed(listed) == {p \in SUBSET listed : Cardinality(p) = 2}

PairsWith(listed) ==
  {p \in SUBSET (listed \cup extracted) : Cardinality(p) = 2 /\ p \cap listed # {}}

Compare(j) ==
  /\ tail[j] = "cross_running" /\ todo[j] = {}
  /\ LET listed == files \cap Scope(j) IN TailGoes(j, "compare", {}, listed, PairsWith(listed))
  /\ UNCHANGED <<graphVars, dirVars, lock>>

\* score_and_filter keeps the pairs above the threshold.
ScoreAndFilter(found) == found \cap Alike

\* get_existing_alignment_pairs: the pair has a sameAs statement of some run.
HasStatement(p) == \E r \in Run : <<p, r>> \in aligned

\* A wrong FilterExisting: only the statements of the own run are looked up.
FilterExistingOwn(j) ==
  /\ tail[j] = "compare"
  /\ TailGoes(j, "write", {}, input[j],
       {p \in ScoreAndFilter(pairs[j]) : \A r \in Run \cap {j} : <<p, r>> \notin aligned})
  /\ compared' = compared \cup pairs[j]
  /\ UNCHANGED <<extracted, aligned, looked, dirVars, lock>>

\* Drop the pairs that have a sameAs statement already.
FilterExisting(j) ==
  /\ tail[j] = "compare"
  /\ TailGoes(j, "write", {}, input[j],
       {p \in ScoreAndFilter(pairs[j]) : ~ HasStatement(p)})
  /\ compared' = compared \cup pairs[j]
  /\ UNCHANGED <<extracted, aligned, looked, dirVars, lock>>

\* The run is part of a statement's id, and merged.ttl needs an alignment.
RunOfJob(j) == CHOOSE r \in Run : \E d \in docs[j] : RunOf[d] = r

WriteAlignments(j) ==
  /\ tail[j] = "write"
  /\ aligned' = aligned \cup {<<p, RunOfJob(j)>> : p \in pairs[j]}
  /\ merged' = IF pairs[j] = {} THEN merged ELSE (merged \ Scope(j)) \cup input[j]
  /\ TailGoes(j, "cross_done", NotFailed(j), {}, {})
  /\ UNCHANGED <<extracted, compared, looked, files, lock>>

FailCross(j) ==
  /\ tail[j] \in {"compare", "write"}
  /\ TailGoes(j, "cross_failed", NotFailed(j), {}, {})
  /\ UNCHANGED <<graphVars, dirVars, lock>>

\* A lock that has expired is not released a second time. After a failure
\* the exception ends the chain: no lookup, and the directory stays.
Release(j) ==
  /\ tail[j] \in {"cross_done", "cross_failed"} /\ todo[j] = {}
  /\ lock' = IF lock = j THEN None ELSE lock
  /\ TailGoes(j, IF tail[j] = "cross_done" THEN "lookup" ELSE "dead", {}, {}, {})
  /\ UNCHANGED <<graphVars, dirVars>>

-----------------------------------------------------------------------------
(* lookup_wikidata_task: it takes the entities of merged.ttl or else of    *)
(* the TTLs, and removes the working directory of the run in any case.     *)

StartLookup(j) ==
  /\ tail[j] = "lookup"
  /\ TailGoes(j, "lookup_running", NotFailed(j), {}, {})
  /\ UNCHANGED <<graphVars, dirVars, lock>>

ListLookup(j) ==
  /\ tail[j] = "lookup_running" /\ todo[j] = {}
  /\ LET mine == Scope(j) IN
       TailGoes(j, "lookup_body", {},
                IF merged \cap mine # {} THEN merged \cap mine ELSE files \cap mine, {})
  /\ UNCHANGED <<graphVars, dirVars, lock>>

Lookup(j) ==
  /\ tail[j] = "lookup_body"
  /\ \/ /\ looked' = looked \cup input[j]
        /\ TailGoes(j, "lookup_done", NotFailed(j), {}, {})
     \/ /\ TailGoes(j, "lookup_failed", NotFailed(j), {}, {})
        /\ UNCHANGED looked
  /\ UNCHANGED <<extracted, aligned, compared, dirVars, lock>>

Cleanup(j) ==
  /\ tail[j] \in {"lookup_done", "lookup_failed"} /\ todo[j] = {}
  /\ files' = files \ Scope(j)
  /\ merged' = merged \ Scope(j)
  /\ TailGoes(j, IF tail[j] = "lookup_done" THEN "end" ELSE "dead", {}, {}, {})
  /\ UNCHANGED <<graphVars, lock>>

-----------------------------------------------------------------------------
(* retry_document: check, delete what the document contributed, reset the  *)
(* row and start a job, each a request of its own.                         *)

RetryCheck(j, d) ==
  /\ j \in Retry /\ tail[j] = "idle"
  /\ status[d] = "Failed"
  /\ tail' = [tail EXCEPT ![j] = "delete"]
  /\ docs' = [docs EXCEPT ![j] = {d}]
  /\ UNCHANGED <<status, head, todo, input, pairs, graphVars, dirVars, lock, crashes>>

RetryDelete(j) ==
  /\ tail[j] = "delete"
  /\ extracted' = extracted \ docs[j]
  /\ looked' = looked \ docs[j]
  /\ aligned' = {a \in aligned : a[1] \cap docs[j] = {}}
  /\ compared' = {p \in compared : p \cap docs[j] = {}}
  /\ TailGoes(j, "reset", {}, {}, {})
  /\ UNCHANGED <<dirVars, lock>>

\* A wrong RetryReset: no job is started after it.
RetryResetOnly(j) ==
  /\ tail[j] = "reset"
  /\ \E d \in docs[j] : Set(d, "Queued")
  /\ tail' = [tail EXCEPT ![j] = "dead"]
  /\ UNCHANGED <<docs, head, todo, input, pairs, graphVars, dirVars, lock, crashes>>

RetryReset(j) ==
  /\ tail[j] = "reset"
  /\ \E d \in docs[j] : Set(d, "Queued")
  /\ tail' = [tail EXCEPT ![j] = "enqueue"]
  /\ UNCHANGED <<docs, head, todo, input, pairs, graphVars, dirVars, lock, crashes>>

RetryEnqueue(j) ==
  /\ tail[j] = "enqueue"
  /\ head' = [head EXCEPT ![j] = [d \in Doc |-> IF d \in docs[j] THEN First(d) ELSE "none"]]
  /\ tail' = [tail EXCEPT ![j] = "blocked"]
  /\ UNCHANGED <<status, docs, todo, input, pairs, graphVars, dirVars, lock, crashes>>

-----------------------------------------------------------------------------
(* Celery acknowledges a task when it starts, so a process that dies loses *)
(* it and nothing that waits for it ever starts. The lock outlives its     *)
(* holder and expires.                                                     *)

CrashHead(j, d) ==
  /\ head[j][d] \in HeadStep \ {"none", "convert", "extract", "align", "done", "lost"}
  /\ crashes < MaxCrashes /\ crashes' = crashes + 1
  /\ head' = [head EXCEPT ![j][d] = "lost"]
  /\ UNCHANGED <<status, docs, tail, todo, input, pairs, graphVars, dirVars, lock>>

CrashTail(j) ==
  /\ tail[j] \in CrossBody \cup LookupBody \cup RetrySteps
  /\ crashes < MaxCrashes /\ crashes' = crashes + 1
  /\ tail' = [tail EXCEPT ![j] = "lost"]
  /\ todo' = [todo EXCEPT ![j] = {}]
  /\ UNCHANGED <<status, docs, head, input, pairs, graphVars, dirVars, lock>>

\* Wrong Expires: a lock without a timeout, and one that is too short.
ExpireNever == FALSE /\ UNCHANGED vars

ExpireEarly ==
  /\ lock # None
  /\ lock' = None
  /\ UNCHANGED <<status, jobVars, graphVars, dirVars, crashes>>

Expire ==
  /\ lock # None
  /\ SlowAlignment \/ tail[lock] \notin CrossBody
  /\ lock' = None
  /\ UNCHANGED <<status, jobVars, graphVars, dirVars, crashes>>

-----------------------------------------------------------------------------
HeadNext(j, d) ==
  \/ StartConvert(j, d) \/ Convert(j, d)
  \/ CheckExtract(j, d) \/ StartExtract(j, d) \/ Extract(j, d) \/ QueueAlign(j, d)
  \/ StartAlign(j, d) \/ Align(j, d) \/ Settle(j, d)
  \/ FailHead(j, d)

TailNext(j) ==
  \/ \E d \in Doc : Mark(j, d)
  \/ SkipCross(j) \/ StartCross(j) \/ Compare(j) \/ FilterExisting(j)
  \/ WriteAlignments(j) \/ FailCross(j) \/ Release(j)
  \/ StartLookup(j) \/ ListLookup(j) \/ Lookup(j) \/ Cleanup(j)
  \/ RetryDelete(j) \/ RetryReset(j) \/ RetryEnqueue(j)

Next ==
  \/ Expire
  \/ \E j \in Job :
       \/ TailNext(j)
       \/ CrashTail(j)
       \/ \E d \in Doc : RetryCheck(j, d) \/ HeadNext(j, d) \/ CrashHead(j, d)

Spec == Init /\ [][Next]_vars

(***************************************************************************)
(* Every task that is queued is run to its end or dies, and the lock       *)
(* expires. Retries are up to the users, crashes never have to happen.     *)
(***************************************************************************)
Fairness ==
  /\ WF_vars(Expire)
  /\ \A j \in Job : WF_vars(TailNext(j))
  /\ \A j \in Job : \A d \in Doc : WF_vars(HeadNext(j, d))

FairSpec == Spec /\ Fairness

-----------------------------------------------------------------------------
(* Properties.                                                             *)

TypeOK ==
  /\ status \in [Doc -> Status]
  /\ docs \in [Job -> SUBSET Doc]
  /\ head \in [Job -> [Doc -> HeadStep]]
  /\ tail \in [Job -> TailStep]
  /\ todo \in [Job -> SUBSET Doc]
  /\ input \in [Job -> SUBSET Doc]
  /\ pairs \in [Job -> SUBSET SUBSET Doc]
  /\ extracted \in SUBSET Doc
  /\ aligned \in SUBSET ((SUBSET Doc) \X Run)
  /\ compared \in SUBSET SUBSET Doc
  /\ looked \in SUBSET Doc
  /\ files \in SUBSET Doc
  /\ merged \in SUBSET Doc
  /\ lock \in Job \cup {None}
  /\ crashes \in Nat

(***************************************************************************)
(* At most one cross-document alignment runs in the workspace at a time    *)
(* (the docstring of workspace_alignment_lock), also when processes die    *)
(* while they hold the lock. It rests on alignments being shorter than the *)
(* timeout of the lock.                                                    *)
(***************************************************************************)
AtMostOneAlignment ==
  \A j, k \in Job : tail[j] \in CrossBody /\ tail[k] \in CrossBody => j = k

(***************************************************************************)
(* No two runs propose the same alignment: run_cross_document_alignment    *)
(* filters the pairs that have a sameAs statement already, and the lock    *)
(* keeps this read and the write of the new pairs together.                *)
(***************************************************************************)
NoDuplicateAlignment ==
  \A p \in Alike : \A r, s \in Run :
    <<p, r>> \in aligned /\ <<p, s>> \in aligned => r = s

Quiet == \A j \in Job : tail[j] \in {"idle", "end", "dead"}

(***************************************************************************)
(* When all jobs have ended, a document shown as Done has its statements   *)
(* in the curation graph and went through the lookup.                      *)
(***************************************************************************)
DoneIsProcessed ==
  Quiet => \A d \in Doc : status[d] = "Done" => d \in extracted \cap looked

(***************************************************************************)
(* When all jobs have ended, any two documents shown as Done have been     *)
(* compared, whichever runs they belong to and in whatever order these     *)
(* extracted, aligned and failed.                                          *)
(***************************************************************************)
DonePairsCompared ==
  Quiet => \A d, e \in Doc :
    status[d] = "Done" /\ status[e] = "Done" /\ d # e => {d, e} \in compared

(***************************************************************************)
(* A document that failed stays Failed until it is reset by a retry:       *)
(* extraction and alignment skip it and update_all leaves its row alone.   *)
(***************************************************************************)
Resetting(j, d) == d \in docs[j] /\ tail[j] = "reset" /\ tail'[j] = "enqueue"

FailedUntilRetry ==
  [][\A d \in Doc : status[d] = "Failed" /\ status'[d] # "Failed"
       => \E j \in Retry : Resetting(j, d)]_vars

(***************************************************************************)
(* Without crashes every document ends as Done or Failed and stays so, for *)
(* any failures of tasks, any contention for the lock and any retries.     *)
(***************************************************************************)
EveryDocumentSettles ==
  [](crashes = 0) => \A d \in Doc : <>[](status[d] \in {"Done", "Failed"})

(***************************************************************************)
(* The lock expires to avoid deadlocks when a worker crashes               *)
(* (core/locks.py): a job that waits for the lock gets it in the end.      *)
(***************************************************************************)
EveryAlignmentGetsItsTurn == \A j \in Job : (CrossReady(j) ~> ~ CrossReady(j))

=============================================================================
