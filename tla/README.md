# OntoCurate: TLA+ models, model checking and proofs

OntoCurate extracts statements from documents with a language model, aligns the entities of
different documents, looks them up in Wikidata and ORCID, and lets the members of a workspace curate
the result. Each extraction and each curation writes a new immutable version of a statement
(PROV-O), and only accepted statements are materialized into the final knowledge graph.

This directory models the parts of the backend where several actors meet: curators on the same
statement, runs and retries on the same workspace, processes that fail in the middle. Each
definition is translated from `src/`; `PROJECT.json` maps it to its lines.

## 1. Inventory

Paths are relative to `src/backend/app/`.

| Component | State | Operations | Interacts through |
|---|---|---|---|
| Curation (`routes/statements.py`, `store/writer.py`, `store/queries.py`) | curation graph: versions with status, parent, `isCurrentVersion`; data graph: bare triples | accept, bulk accept, reject, edit, reset | the two graphs; no lock, threads of the API process |
| Extraction pipeline (`tasks/`, `worker.py`) | where each Celery task is; the working directory of a run | convert, extract, inner alignment per document; cross-document alignment and lookup per run | rows of `run_tasks`, curation graph, directories, Redis lock |
| Run records (`repositories/run.py`, `models/run.py`) | one status per document | update, reset | all tasks and the API write the same rows |
| Retry (`routes/extraction.py`) | - | check, delete data, reset, enqueue | the same rows, a second job on the same run |
| Workspace lock (`core/locks.py`) | Redis lock with a timeout of 600 s | acquire without blocking, release, expire | all alignments of a workspace |
| Entity alignment (`pipeline/entity_alignment.py`) | `owl:sameAs` candidate statements | list, compare, filter known pairs, write | curation graph |
| Lookup (`pipeline/lookup*.py`) | alignment statements to Wikidata/ORCID, caches | query, score, write | curation graph, network |
| Upload (`routes/extraction.py`) | documents, runs, rows | create documents and start a run | PostgreSQL, Celery |
| Document removal (`delete_document_data`) | - | four SPARQL updates and a row | curation graph while curators and jobs work |
| Workspaces and members (`routes/workspaces.py`, `repositories/workspace.py`) | members with roles, curator nodes | create, delete, add, remove | PostgreSQL and curation graph, in separate steps |
| Accounts (`routes/auth.py`) | users | register, login, delete | as above |
| Export (`store/queries.py`) | - | union-find over accepted `sameAs`, rewriting of IRIs | reads both graphs |
| Extraction, metrics, OntoGPT patches | - | pure computation and calls to a model | files |
| Frontend | forms | calls to the API | HTTP, any order |

What is hard: curation operations are up to five separate SPARQL requests with checks that are not
repeated when they write; tasks read rows and write them later; a retry is a second job over the
directory, the rows and the graph of the first; the lock has a timeout; Celery acknowledges a task
when it starts, so a process that dies takes its task with it. The list of hazards, with lines and
the properties that cover them, is in `PROJECT.json`.

What makes each component right:

- Curation: only accepted current versions are materialized, and all of them; history is immutable;
  a statement has one current version and is never lost.
- Pipeline: alignments of a workspace exclude each other and propose no pair twice; a document shown
  as Done was extracted, looked up and compared with every other one; a failed document stays failed
  until it is retried; every document settles.
- Membership: a workspace keeps an owner; a deleted account leaves no personal data in a graph.
- Removal: what a document contributed is gone, and what was extracted from others stays.
- Export: connected components of accepted pairs are merged to one representative each.
- Lookup and alignment: what contradicts a known identifier is never proposed, and what matches is.

## 2. Plan

In the order of work, the most important first. All modules are built; what is left is in the last
paragraph.

1. `Curation`, `StatementLedger` (what curation promises), `CurationRefinement`, `CurationProofs`.
2. `Pipeline` with the lock and retries, `PipelineProofs`.
3. `Documents`, which composes `Curation` with uploads, the writers of a run, retries and deletions.
4. `Membership` and `MembershipProofs`: workspaces, members, accounts and the curator nodes.
5. `Export` and `ExportProofs`: union-find and hash stripping against connected components.
6. `Lookup` and `Alignment`: what is proposed from outside and as the same, with the scores.

Each component has its proofs in a module of its own (`CurationHistoryProofs` for what holds of a
single curator). Left to do: what section 5 lists as only model-checked.

## 3. Modules

### Curation

One action is one SPARQL request with the local code after it; the store executes a request
atomically. `ver` is the curation graph, `data` the data graph, `req` what the thread of each
curator remembers between two requests.

| Code | Actions |
|---|---|
| `accept_statements_bulk` | `LoadAccept`, `ApplyAccept` |
| `reject_statement` | `LoadReject`, `Drop` (if accepted), `Retire`, `Insert` |
| `edit_statement` | `LoadEdit`, `Drop`, `Retire`, `Insert`; the checks come after `Drop`, and `NamedNode` may still refuse the edit after `Retire` |
| `reset_statement` | `LoadReset`, `LoadOrigin`, `Drop`, `Retire`, `Insert` |
| a request that fails, a restart of the API | `BreakOff` |

Details the model keeps: the check of `isCurrentVersion` is made on the loaded copy only; the
inserts are unconditional; an edit writes the old status as a plain literal (`term`), which the API
still reports as accepted and queries for the IRI miss; a bulk accept that lists an id twice inserts
two successors (`Repeats`). What it leaves out: activities, timestamps, confidence and text spans,
which no later step reads. `root` is a history variable that stands for the walk along
`prov:wasDerivedFrom` in `find_original_candidate_statement`.

An edit is a triple or one of two values that stand for edits the code refuses (`BadEdits`):
`Malformed` fails the checks of `edit_statement`, after the triple of an accepted statement was
taken away; `Unwritable` is an IRI that `validate_iri` passes, since it has a scheme and a host, and
that `NamedNode` refuses, after the old version was retired as well (`writer.py:1006`). `abandoned`
is a history variable: the statements of requests that ended between retiring a version and
inserting its successor, by such an edit or by breaking off.

`StatementLedger` has no versions and no requests: a statement is a triple and a status, and each
operation is one step. `CurationRefinement` maps an operation in progress to the version it will
insert.

### Pipeline

A job is the chord of a run or of a retry. `head` is where its chain is for each document, `tail`
where it is after the chord, `status` the rows of `run_tasks`, `files` and `merged` the working
directory, `extracted`, `aligned`, `compared`, `looked` what the curation graph holds.

| Code | Actions |
|---|---|
| `convert_pdf_task` | `StartConvert`, `Convert` |
| `extract_document_task` | `CheckExtract`, `StartExtract`, `Extract`, `QueueAlign`, `FailHead` |
| `align_document_task` | `StartAlign`, `Align`, `Settle`, `FailHead` |
| `align_cross_document_task` | `SkipCross`, `StartCross`, `Mark`, `Compare`, `FilterExisting`, `WriteAlignments`, `FailCross`, `Release` |
| `lookup_wikidata_task` | `StartLookup`, `Mark`, `ListLookup`, `Lookup`, `Cleanup` |
| `retry_document` | `RetryCheck`, `RetryDelete`, `RetryReset`, `RetryEnqueue` |
| a worker or API process that dies | `CrashHead`, `CrashTail` |
| Redis | `Expire` |

`update_all` reads all rows once and writes them one at a time: `todo` is what it has still to
write, and each write is a `Mark`. Steps that are merged because nothing the other actors do can
tell them apart, or because the window between them only repeats one that is modelled: the read of
`update_all` with the step before it; the check for failed rows with the acquisition of the lock;
the copy of a Turtle file with the read of the other rows in `align_document_task`. Database calls
do not fail. Scores are a constant relation `Alike` between documents. `WriteAlignments` is one step
for what the code writes in one update for each pair of documents, so a failure in the middle, which
leaves a part, is left out; a later alignment finds that part as pairs that are stated. Nobody
curates here, so `HasStatement` has no `isCurrentVersion`; `RetryDelete` takes what belongs to its
own document, and that it takes the lookup statements of the run along is in `Documents`.

### Documents

`C == INSTANCE Curation` over the same graphs: curators take its steps, and around them documents
are uploaded as runs, extracted, aligned, looked up, retried and deleted. `ver`, `data`, `req` are
those of Curation; `entity` is which documents the graph knows, `row`, `job`, `batch`, `run`,
`files` the rows and the stage of each document and run, `plan` what a run has found and not yet
written, `removal` where a `delete_document_data` is, `spent` the ids that were deleted.

| Code | Actions |
|---|---|
| `create_documents` | `BeginUpload`, `CreateRow`, `Enqueue`, `BreakUpload` |
| tasks of a document | `Fetch`, `Extract`, `File`, `FailJob` |
| tasks of a run | `ListAlign`, `WriteAlign`, `ListLookup`, `WriteLookup`, `FailTail` |
| `delete_document`, `retry_document` | `Delete`, `Retry`, then `DropTriples`, `DropStatements`, `DropEntity`, then `FinishDelete` or `FinishRetry`; `BreakRemoval` |

The id of an extracted statement is a hash of what it says, of its run and of its documents, so a
retry can write it again: an original is its content, and `Source` (the documents it is derived
from) is part of it. A curated version has a random id; what it is derived from is found along its
history (`DerivedFrom`, `Derived`). The unique hash of the content of a file is part of the identity
of a document. Activities and agents in the graph are left out: nothing reads them. The update of a
removal that deletes activities is left out with them; the statements of one pair of documents are
one update, so one step of `WriteAlign`. `WriteLookup` is one step for the two updates with the
results of ORCID and of Wikidata. Where the code names a document that does not exist, `Source`
leaves it out: the deleted ones of a run, which `tasks/lookup.py:49` passes as `None`, and the
`unknown` one of a prior entity (`entity_alignment.py:344`); no removal looks for either.

### Membership

Each request is a thread (`req`): the reads and checks a handler begins with are one step, since the
session reads them in one go; every commit and every SPARQL update is a step of its own. Rows are
loaded with `expire_on_commit=False`, so what a handler has read stays what it was. The keys of
`workspace_members` and the cascades of the foreign keys are in `InsertMember`, `DeleteWorkspace`
and `DeleteAccount`. `node` is what the curation graph of a workspace says of a user: a typed node,
the name and e-mail, or that the account was deleted.

| Code | Actions |
|---|---|
| `create_workspace`, `add_workspace_member` | `StartCreate`, `StartAdd`, `InsertMember`, `Strip`, `Name` |
| `remove_workspace_member` | `StartRemove`, `RemoveRow` |
| `delete_workspace` | `StartDelete`, `DropGraphs`, `DeleteTables`, `DeleteWorkspace` |
| `delete_me` | `StartLeave`, `Anonymize`, `DeleteAccount` |
| uploads and curations, as far as a workspace notices them | `StartUpload`, `InsertDocument`, `StartCurate`, `WriteStatement` |
| an update that fails, a restart | `BreakOff` |

### Export

`export_deduplicated_graph`: `ReadData`, `get_accepted_alignment_pairs` (two requests, with curators
in between), `Union` for each pair in any order, `Align`, `Strip`. `find` is the end of the walk
along `parent`, defined by sets the walk cannot leave instead of recursion, and `Linked` is the
reference: names that no union of components tells apart. `Stripped` is what the regular expression
leaves of a name.

### Lookup

`Derive` (`derive_lookup_literals`), `Query` for each source and entity (candidates by identifier,
then by search), `WriteOrcid`, `WriteWikidata` (`score_and_write_results`). A request that fails
returns what a service that knows nothing returns: `F` is the set of requests of one lookup that
fail. The cache of labels is left out, and so are the structural weight and the sparsity penalty,
which no shipped configuration of the lookup uses. Scores are integers (percents of percents); how
alike two values or two embeddings are is a constant, and the embedding of several names together is
taken as the best of their pairs, which no property depends on. Types without `instance_of` are
`Unrestricted`: none of those the shipped configurations look up.

### Alignment

Entities are what `load_entity_information` makes of triples. `AlignInner` is
`run_inner_document_alignment`; `Compare` and `WriteCross` are the two halves of
`run_cross_document_alignment`, between which curators go on. `generate_candidate_pairs` keeps the
order of the code (bucket by bucket, row by row, the first pair of two IRIs: `before`, `alike`), over
files and entities in any order. `Visible` is what `get_prior_entities` finds and `Sources` what it takes for
the document of an entity when statements disagree. Accept, reset and edit leave a version that
counts and reject one that does not; an edit that changes a value is left out, and so is the
curation of the proposals themselves, which `Documents` has. `WriteCross` is one step for one update
for each pair of documents. Failures of the cross-document task are in `Pipeline`.

### MC modules

Instances: which original has which triple, which document belongs to which run, texts and the
shipped configuration (`config/scholarySchema`), symmetry sets.

## 4. Runs

| Run | Instance | What it shows |
|---|---|---|
| `curation_concurrent` | 2 curators, 2 statements with one triple, 3 fresh versions, refused edits, repeated ids | materialized implies accepted and current (with the invariant that is proved inductive); no statement is lost but by an edit that `NamedNode` refuses; versions are only appended and retired |
| `curation_broken` | 1 curator, 2 statements with one triple, 4 fresh versions, 2 break-offs, refused edits | requests that break off never fork the history, and what is materialized stays accepted |
| `curation_single` | 1 curator, 2 statements, 4 fresh versions, valid edits, distinct triples | accepted statements are materialized; the requests implement `StatementLedger` |
| `curation_fork` | 2 curators, 1 statement | violated: two current versions |
| `pipeline_runs` | 2 runs, 3 documents, one PDF, any failure of a task | mutual exclusion, no duplicates, Done means processed and compared, Failed stays |
| `pipeline_live` | 1 document, 2 retries, 1 crash | the lock still excludes and is always handed on; without a crash the document settles |
| `pipeline_stale` | 2 documents, 1 retry | violated: `update_all` overwrites Failed by a status it has read before |
| `removal` | 1 run of 2 documents, 1 curator, 1 break-off | what was deleted leaves nothing; what was extracted from the other document stays, and so do the triples of the accepted statements that are left; every statement can be reset; no pair is proposed twice; nothing is written twice |
| `membership_apart` | 3 users, 1 workspace, 2 requests at a time, 1 break-off | deleted accounts and workspaces leave nothing, every member is named, an owner remains |
| `export` | 5 names, 4 pairs in a cycle, curators between the two reads | components are merged exactly, names stay apart, no loop appears or is lost |
| `lookup` | a person and an institution, 6 texts, up to 2 failing requests per lookup | ORCIDs are never contradicted; a full score rests on an ORCID; derivation does not depend on the order |
| `alignment` | 2 runs, 3 documents, curators on 2 sets of statements of one paper | what conflicts is never proposed, what matches always is |

Bounds. Three or four fresh versions let one statement go through accept, edit, reset and a race of
two curators. Two curators suffice for each hazard in the list, since every race is between two
requests on one version; the theorems cover any number. `MaxFaults` and `MaxCrashes` count
break-offs: one is enough to stop at every step once, a second one to stop again on what the first
left behind. Two curators together with break-offs would be too many states for a run; the theorems
cover them. With three documents in two runs there are pairs inside a run and across runs.
`CHECK_DEADLOCK FALSE`: curation stops when the fresh ids are used up, and a pipeline stops when its
jobs have ended. The symmetry sets permute fresh versions and curators, and originals only where
they have the same triple and the same edits; no run with a liveness property uses symmetry.

In `removal` one fresh version is enough for a statement to be curated before and between removals;
the seven originals are all that two documents with a statement and a lookup each and one alignment
can give, the alignment under each set of documents it may be derived from. The documents are
exchanged by symmetry, with all that belongs to them. In `membership_apart` three users give an
owner, another owner and a member; two requests overlap in every way the instance allows. In `export` the pairs close a cycle,
so that each order merges and repeats; curators stop when both requests were answered, since nothing
depends on the store after that. In `lookup` the people, items and texts are one for each way a
candidate can be found. In `alignment` one paper has a DOI that contradicts the one in its own run
and agrees with one of another run, one IRI is used by two documents, and two conferences match only
by their embeddings; the sets of statements curators touch (`Curated`) are the bound.

Assumptions the passing runs make, each with the reason and with what happens without it. Most of
these are behaviours of the code that a team would want to know of.

- `curation_single` has no break-offs, since a request that stops after `Drop` leaves an accepted
  statement without its triple, and takes `BadEdits = FALSE`: `edit_statement` removes the triple
  before it validates the edit (`writer.py:905`), so an edit that is refused leaves an accepted
  statement without its triple. It takes distinct triples: rejecting one of two accepted statements
  with the same triple removes the triple of the other (`writer.py:737`). It and `curation_broken`
  take `Repeats = FALSE`: with repeated ids even a single curator forks the history.
- An edit that `NamedNode` refuses (the subject `http://example.org/a b`) loses its statement: the
  request answers with an error, the old version is retired, there is no new one, and every later
  operation on the statement is refused (`writer.py:956` to `1007`). `NoStatementLost` names it as
  its exception, together with requests that break off at the same place.
- An accepted statement that is edited keeps its status as the literal `"accepted"`
  (`writer.py:1009`): the API reports it as accepted, queries for the IRI miss it, and it is not
  materialized. In the model its `term` is `"literal"`, and no property counts it as accepted.
- `SlowAlignment = FALSE` in all pipeline runs: an alignment takes less than the 600 s of the lock.
  With `TRUE`, `AtMostOneAlignment` and `NoDuplicateAlignment` are violated.
- `pipeline_runs` has no retries: with one, the job of the run can remove the directory (`Cleanup`)
  into which the retry has just put its Turtle, and `DonePairsCompared` is violated.
- Two retries of one document can both find it Failed, and the second runs while the job of the
  first does ("Only allowed if the document is in a failed state", `routes/extraction.py:130`).
  `pipeline_live` has them; no property of it forbids them.
- `EveryDocumentSettles` speaks of behaviours without a crash: after one, the rows stay Running or
  Queued and the code has no recovery.
- `removal` takes `Overlap = {}`. With `{"curate"}`, a curator loads a statement before the update
  that deletes it and writes its successor afterwards: that version is connected to no document, no
  later deletion finds it, and `NoTraceLeft` fails (`writer.py:526`; the docstring at
  `writer.py:483` says "Removes everything a document contributed to a workspace from oxigraph").
  With `{"run"}`, an extraction under way writes after the removal, with the same result. With
  `{"align"}`, an alignment lists the stated pairs while a curator is between retiring a version and
  inserting its successor: the pair seems not to be stated and is proposed again (`PairStatedOnce`).
  With `{"curate"}`, `MaterializedIsAccepted` fails as well: an accept between the update that drops
  the triples and the one that deletes the statements leaves its triple behind. Triples are distinct
  as above: the triple that a statement of another document shares goes with the document.
- A removal takes more than its document gave: an alignment goes with either document, and a lookup
  statement is derived from every document of its run (`writer.py:459`), so deleting or retrying one
  document deletes what was looked up about entities of the others, with the triples of what was
  accepted of it. In `removal`, `l2` is about `d2` alone and goes with `d1`. `OthersAreSpared` says
  what stays; the lookup of `d2` is not run again.
- `membership_apart` keeps eight pairs of operations apart. Two removals: two owners who remove each
  other are both counted, and the workspace has none ("Cannot remove the last owner.",
  `routes/workspaces.py:390`). A removal and the deletion of an account: the other owner leaves
  after the count. The deletion of an account and the addition of a member, or the creation of a
  workspace: the name is written after it was made anonymous. The deletion of a workspace and an
  addition, its creation or a curation: a node is written into a graph that was dropped. The
  deletion of a workspace and an upload: the new row keeps the workspace row from being deleted,
  after its graphs are gone.
- `WorkspaceKeepsOwner` excepts the step that deletes an account: nothing in `delete_me` counts
  owners.
- Names in `export` carry at most one hash (`OneHash` in the proofs). Of `n`, `n_aaaaaa` and
  `n_aaaaaa_bbbbbb` the last loses its hash and becomes the second ("ensuring no conflicts",
  `queries.py:134`).
- `FullScoreHasIdentifier` counts the ORCIDs the first lookup appended. An ORCID that was itself
  found by name counts as known in the second lookup, so an item of Wikidata with it is not lowered
  although the comment of `fuzzy_match_penalty` in `config/scholarySchema/lookup_config.yaml` says
  "Candidates that were not resolved through fix uri get lower confidence automatically".
- `ConflictsStayApart` excepts statements that were touched before the run of their document ended,
  or rejected. When type and title of a paper are accepted while its run is under way, these come
  back as a prior entity of unknown document and without the DOI that is still pending, and are
  aligned with a paper whose DOI contradicts (`queries.py:46`).
- `MatchesAreProposed` takes IRIs no two documents share: the first pair of two IRIs is the only one
  compared; when both come from one document it is dropped afterwards (`entity_alignment.py:126`,
  `:307`), and the match across documents is missed.

Fairness (`FairSpec`). Weak fairness for each document chain and each tail: Celery runs what is
queued, and a task ends. Weak fairness of `Expire`: Redis drops a key after its timeout. A task that
finds the lock taken is retried by Celery without a limit (`tasks/cross_document_align.py`). No
fairness for retries (users) and crashes.

## 5. Proofs

Every theorem holds for all values of the constants that satisfy the named assumptions of the module
it is about (`OriginalAssumption`, `BoundAssumption`, `CurationAssumption`, `PipelineAssumption`,
...); what it needs beyond them is a hypothesis of the theorem, defined with a name and a comment
before it. All hypotheses hold in the instance of the run that checks the property.

### Curation

`CurationProofs`, for any curators, versions, statements, bounds and edits:

- `TypeCorrect`.
- `MaterializationHolds` and, from it, `OnlyAcceptedIsMaterialized`. `MaterializedIsAccepted` is not
  inductive: a curator who has loaded a version as accepted could retire it and leave its triple.
  `MaterializationInvariant` adds that loaded copies stay true of versions (which are never
  rewritten) and that each materialized triple has a justifying version no request is about to
  retire (`Witnessed`). `Drop` is what makes it hold: it removes the triple before `Retire` of the
  same version, so no triple is left for that version to justify.
- `VersionsAreImmutable`: each action that writes versions writes fresh ids or clears the flag.
- `NothingIsLost`: `NoStatementLost` is inductive relative to the invariant above, with any number of
  break-offs and refused edits. What it needs from it is that a loaded copy has the root of its
  version and that the requests which change one statement hold a single version; then `Retire` hands
  the statement over to the request that is about to insert, and `Insert` and `ApplyAccept` to a
  successor with the same root. A `Retire` that refuses the edit and a `BreakOff` in `insert` put the
  statement into `abandoned`, which only grows; no other step takes the last current version away.

The lemmas of a step do not assume that all originals are in the graph, so that `DocumentsProofs` can
use them; `Witnessed(R)` is about a set `R` of originals that are not.

`CurationHistoryProofs`, for one curator (`OneAtATime`: also no id twice in a bulk accept):

- `OneLineOfVersions`, `SingleCuratorNeverForks`: `LineInv` says that a version a request holds is
  current until `Retire`, and from then on the last one of its statement until `Insert`. It holds
  with break-offs and refused edits.
- `AcceptedTriplesAreThere`: `PurposeInv` is what a request knows of the version it will insert, and
  an accepted version has its triple unless the request that holds it has dropped it. It needs
  `Undisturbed` (one curator, valid edits, no break-offs) and `OwnTriples` (no two statements may
  come to say the same).
- `LedgerIsImplemented`: the refinement of `StatementLedger`. Each of the five requests of an
  operation maps to a stutter but one; the refinement mapping takes the latest version of each
  statement, or the version a request is about to insert (`LatestEntries`). It needs `Undisturbed`
  only: with shared triples the code still does what the ledger does, which is to take the triple of
  both.

### Pipeline

`PipelineProofs`, for any runs, documents and crashes. `TypeCorrect`. `MutualExclusion`: without slow
alignments, at most one job is in the steps under the lock (inductive: the job in these steps is the
holder). `NoDuplicates`: no two runs write the same pair, because what the job in `write` is about
to write has no statement yet, and only the holder writes. Both assume `~ SlowAlignment` and allow
retries.

Without retries, and with or without slow alignments and crashes: `DoneMeansProcessed`,
`DoneMeansCompared`, `FailedForGood`. `OutcomeInv` relates the rows to where the chain of each
document and the tail of each job are: a row that is Failed is written by nobody, a row can become
Done only after its document was extracted and its pairs were compared or left out because one of
the two had failed. Of two runs, the one that lists its pairs later finds what the other has
extracted; the lock is not needed for that.

### Membership

`MembershipProofs`, for any finite set of users, any workspaces and any number of requests that
overlap. `TypeCorrect` needs nothing else. What may not overlap is a hypothesis of each of the
others, and weaker than in the run:

- `DeletedAccountsAreAnonymous`: the deletion of an account overlaps with no addition and no
  creation; then a request that is about to write a name belongs to an account nobody is deleting.
- `OwnersRemain`: removals overlap neither with each other nor with the deletion of an account; then
  whoever is about to be removed leaves another owner.
- `DeletionIsComplete`: nobody adds a member, creates the workspace or curates while it is deleted
  (`GoneInv`). Uploads may go on: they endanger the rows, not what is gone.
- `EveryMemberIsNamed`: nothing is uploaded while a workspace is deleted (`NamedInv`): an upload
  makes the deletion of the row fail after the graphs are gone, and the members then have no name.

All rest on what `Begin` has checked staying true (`Separate`).

### Documents

`DocumentsProofs` uses the steps of Curation through two instances: `C`, which the module has, and
`P`, of `CurationHistoryProofs`; the lemmas `Same...` say that they define the same. For any
documents, runs, curators, originals and bounds:

- `DocumentsTypes`.
- `RemovedTriplesGoFirst` (`MaterializedIsAccepted`) if curators and removals keep apart: nobody
  holds a version derived from a document that is being removed (`HeldApart`). The triples of a
  removal are those of all versions derived from the document, so each version whose statement goes
  has lost its triple before; the witnesses of the others are `Untouched`. `Derived` is a closure
  along `wasDerivedFrom`; the invariant `Lineage` (each version has the root of its parent) and
  `Reachable` make it a set that is defined without it (`From`).
- `RemovalLeavesNothing` and `EveryVersionCanBeReset` if runs keep apart as well (`RemovalsApart`):
  what a task is about to write is derived from documents that nobody removes (`AloneInv`).
  Alignments may overlap with curators. Neither needs that requests run to the end.
- `PairsAreStatedOnce` if nothing overlaps, nobody edits an alignment (`PairsStay`), and the ids of
  the alignments are hashes of pair, run and source (`PairIds`), as long as no statement was
  abandoned. `PresentInv` says that a statement
  that is there has a current version or a curator who replaces one; so a list that is made while
  nobody does finds every pair that is stated, and no other run aligns until it is written
  (`PairInv`).
- `OriginalsAreWrittenOnce` under the same hypotheses, as long as no statement was abandoned. `OnceInv`
  says of each stage of a document and a run what has not been written yet (`NotYet`); of a retry it
  needs that a lookup which was written covers all documents of its run (`LookedUp`), so that a
  retry of any of them takes it along.
- `RemovalSparesOthers` for one curator with valid edits (`Undisturbed`) where statements say
  different things, except for alignments of one pair (`SharedByPairs`): outside of removals every
  accepted statement has its triple. `SupportInv` excepts, during a removal, what is derived from
  its document. The other half of `OthersAreSpared` is `ThereInv`: what was extracted from a document
  that is not being removed is in the graph, and by `PresentInv` it has a current version or a
  curator who replaces one.

### Export

`ExportProofs`, for any names, pairs and orders. `ExportMergesComponents`: `find` is a walk, and
what it reaches would take induction. The invariant says that some function `f` gives each name its
root, and that the root lies in every set the walk cannot leave: then `find` is `f`, and a union
changes `f` on one class, which is what `Linked` does when a pair is added (`LinksJoin`,
`RootsJoin`). `ExportTypes` needs nothing. `ExportKeepsNamesApart` and `ExportLoopsAreGenuine` (a
loop is exported where the data has one, and none is made by merging) assume `OneHash`.

### Alignment

`AlignmentProofs`, for any documents, files, configurations and similarities.
`AlignmentTypes`. `ConflictsAreNeverProposed`: `PastInv` says that what is visible of an entity nobody
touched or rejected is all its document says; then a pair that was proposed had no conflicting
values when it was compared (`ConflictInv`). `MatchesAreNeverMissed`: what is compared is listed
(`Listing`s of finite sets: there is a first pair of two IRIs), and of two runs the one that
compares later sees what the other extracted (`MatchInv`). It takes that no IRI is used by two
documents, that an entity has one type (otherwise accepted statements alone may make a prior entity
of another type, whose pair comes first and is dropped), and that things compare the same in both
orders; these are parts of the property itself.

### Lookup

`LookupProofs`, for any text, configuration, answers of the services and failing requests. The
definitions of `Lookup` fold over rules, predicates and lists of candidates. The induction theorems
of the library cannot be used, so induction is by the least natural number for which a fact would be
false: `Least`, from it `Successors` and `SubsetInduction` (a set with the empty set and, for each
subset in it, the next larger one that a choice gives), and `FoldExists`, that the function a fold
is defined by exists. What is then proved of a helper (`DistinctOf`, `KeptOf`, `UptoOf`, ...) is
used as a fact.

- `LookupTypes`: `Shape` adds to the types that candidates of ORCID are ORCIDs and that only a type
  that is configured for a service has candidates. That a score is above zero rests on no penalty
  taking one above the threshold down to zero (`LookupAssumption`).
- `DerivationReadsText` if no rule reads what a rule writes (`RulesReadText`: the shipped
  configurations are like that; otherwise the order of the entities would matter). `Text`
  says that literals no rule writes are as extracted, entity by entity.
- `OrcidsNeverContradicted` if the services answer of the ORCID they are asked for
  (`IdentifiersStated`) and a candidate found by name for an entity with an ORCID stays below the
  threshold (`UnresolvedRejected`: for persons, the shipped threshold and penalty add up to more than 100%).
  `Identified` says of every candidate and result what it rests on: an ORCID of the entity
  (`Confirmed`), or a search whose score is lowered.
- `FullScoresAreVerified` if the services answer of the ORCID they are asked for and, where a search
  by name lowers the score, values alone are compared and ORCIDs not among them (`FuzzyByValues`:
  with embeddings the score of the lookup and one computed later may differ, and an ORCID found in
  between would change it).

### What the proofs found

- Fewer operations have to be kept apart than the runs keep apart, as said for each theorem.
- A single curator cannot fork the history even when requests break off in the middle.
- With triples that statements share, `AcceptedIsMaterialized` fails but the refinement holds: the
  promise of one triple per accepted statement is more than what the operations, taken as single
  steps, would keep.
- Types of entities matter for the alignment: see `MatchesAreNeverMissed`.
- Comparing rows as wholes is what orders the pairs; an order of entities alone would not have told
  rows of one entity apart.

### Only model-checked

- Liveness: `EveryDocumentSettles`, `EveryAlignmentGetsItsTurn`. Fairness and ENABLED are out of the
  prover's reach.

Every invariant and action property that a passing run checks is a theorem, under the hypotheses
named above.

## 6. Not modelled

- Language model calls and the clean-up of their output, the patched OntoGPT engine, conversion:
  text in, text out, no state between two calls. Whether they succeed is in `Pipeline` and
  `Documents`.
- The scoring of datatype and object properties: it gives the confidence of an extracted statement,
  a number that is shown and that nothing decides on. How alike two strings or two embeddings are:
  constants of `Lookup` and `Alignment`.
- Passwords, tokens and the OAuth redirects: libraries.
- Paging, counting and serialisation of reads, the SPARQL endpoint: they keep no state.
- The frontend: any order of requests it can send is a behaviour of the models.
