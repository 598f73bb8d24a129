--------------------------- MODULE PipelineProofs ---------------------------
(***************************************************************************)
(* Proofs about Pipeline: for any number of runs, documents, retries and   *)
(* crashes.                                                                *)
(***************************************************************************)
EXTENDS Pipeline, FiniteSetTheorems, TLAPS

\* The steps during which update_all writes rows.
Marking == {"cross_running", "cross_done", "cross_failed",
            "lookup_running", "lookup_done", "lookup_failed"}

\* What the types rest on: rows are written only in the marking steps, and a
\* job that runs the alignment has documents.
TypeInv ==
  /\ TypeOK
  /\ \A j \in Job : todo[j] # {} => tail[j] \in Marking
  /\ \A j \in Job : tail[j] \in CrossBody => docs[j] # {}

-----------------------------------------------------------------------------
(* Type correctness.                                                       *)

LEMMA InitTypeInv == Init => TypeInv
  BY PipelineAssumption
  DEF Init, TypeInv, TypeOK, Job, Status, HeadStep, TailStep, First, CrossBody, LookupBody,
      RetrySteps, Marking

LEMMA ScopeType == ASSUME NEW j \in Job PROVE Scope(j) \in SUBSET Doc /\ NotFailed(j) \in SUBSET Doc
  BY DEF Scope, NotFailed

\* The run of a job that has documents.
LEMMA RunOfJobType ==
  ASSUME TypeInv, NEW j \in Job, docs[j] # {}
  PROVE  RunOfJob(j) \in Run
<1>1. \E r \in Run : \E d \in docs[j] : RunOf[d] = r
  BY PipelineAssumption DEF TypeInv, TypeOK
<1>2. QED
  BY <1>1 DEF RunOfJob

\* A task of a head touches nothing that belongs to the tails.
LEMMA HeadFrame ==
  ASSUME NEW j \in Job, NEW d \in Doc, HeadNext(j, d)
  PROVE  UNCHANGED <<docs, tail, todo, input, pairs, aligned, compared, looked, merged, lock, crashes>>
  BY DEF HeadNext, HeadGoes, StartConvert, Convert, CheckExtract, StartExtract, Extract, QueueAlign,
         StartAlign, Align, Settle, FailHead, graphVars, dirVars

LEMMA HeadTypeInv ==
  ASSUME TypeInv, NEW j \in Job, NEW d \in Doc, HeadNext(j, d)
  PROVE  TypeInv'
<1>1. UNCHANGED <<docs, tail, todo, input, pairs, aligned, compared, looked, merged, lock, crashes>>
  BY HeadFrame
<1>2. head' \in [Job -> [Doc -> HeadStep]]
  <2>1. \E step \in HeadStep : HeadGoes(j, d, step)
    BY DEF HeadNext, StartConvert, Convert, CheckExtract, StartExtract, Extract, QueueAlign,
           StartAlign, Align, Settle, FailHead, HeadStep
  <2>2. PICK step \in HeadStep : head' = [head EXCEPT ![j][d] = step]
    BY <2>1 DEF HeadGoes
  <2>3. QED
    BY <2>2 DEF TypeInv, TypeOK
<1>3. status' \in [Doc -> Status]
  BY DEF HeadNext, Set, StartConvert, Convert, CheckExtract, StartExtract, Extract, QueueAlign,
         StartAlign, Align, Settle, FailHead, TypeInv, TypeOK, Status
<1>4. extracted' \in SUBSET Doc /\ files' \in SUBSET Doc
  BY DEF HeadNext, StartConvert, Convert, CheckExtract, StartExtract, Extract, QueueAlign,
         StartAlign, Align, Settle, FailHead, TypeInv, TypeOK, graphVars, dirVars
<1>5. QED
  BY <1>1, <1>2, <1>3, <1>4 DEF TypeInv, TypeOK

\* What a step from one tail state to another needs to keep the types.
LEMMA TailGoesTypeInv ==
  ASSUME TypeInv, NEW j \in Job, NEW step \in TailStep, NEW rows \in SUBSET Doc,
         NEW listed \in SUBSET Doc, NEW found \in SUBSET SUBSET Doc,
         TailGoes(j, step, rows, listed, found),
         rows # {} => step \in Marking,
         step \in CrossBody => docs[j] # {},
         extracted' \in SUBSET Doc, looked' \in SUBSET Doc, compared' \in SUBSET SUBSET Doc,
         aligned' \in SUBSET ((SUBSET Doc) \X Run),
         files' \in SUBSET Doc, merged' \in SUBSET Doc, lock' \in Job \cup {None}
  PROVE  TypeInv'
<1>1. tail' \in [Job -> TailStep] /\ todo' \in [Job -> SUBSET Doc]
  BY DEF TailGoes, TypeInv, TypeOK
<1>2. input' \in [Job -> SUBSET Doc] /\ pairs' \in [Job -> SUBSET SUBSET Doc]
  BY DEF TailGoes, TypeInv, TypeOK
<1>3. TypeOK'
  BY <1>1, <1>2 DEF TailGoes, TypeInv, TypeOK
<1>4. \A k \in Job : todo'[k] # {} => tail'[k] \in Marking
  BY DEF TailGoes, TypeInv, TypeOK
<1>5. \A k \in Job : tail'[k] \in CrossBody => docs'[k] # {}
  BY DEF TailGoes, TypeInv, TypeOK
<1>6. QED
  BY <1>3, <1>4, <1>5 DEF TypeInv

LEMMA MarkTypeInv ==
  ASSUME TypeInv, NEW j \in Job, NEW d \in Doc, Mark(j, d)
  PROVE  TypeInv'
<1>1. MarkAs(tail[j]) \in Status
  BY DEF Mark, MarkAs, TypeInv, Marking, Status
<1>2. status' \in [Doc -> Status] /\ todo' \in [Job -> SUBSET Doc]
  BY <1>1 DEF Mark, Set, TypeInv, TypeOK
<1>3. \A k \in Job : todo'[k] # {} => todo[k] # {}
  BY DEF Mark, TypeInv, TypeOK
<1>4. TypeOK'
  BY <1>2 DEF Mark, TypeInv, TypeOK, graphVars, dirVars
<1>5. QED
  BY <1>3, <1>4 DEF Mark, TypeInv

\* The steps of a tail other than the writes of update_all.
TailMove(j) ==
  \/ SkipCross(j) \/ StartCross(j) \/ Compare(j) \/ FilterExisting(j)
  \/ WriteAlignments(j) \/ FailCross(j) \/ Release(j)
  \/ StartLookup(j) \/ ListLookup(j) \/ Lookup(j) \/ Cleanup(j)
  \/ RetryDelete(j)

LEMMA TailMoveTypeInv ==
  ASSUME TypeInv, NEW j \in Job, TailMove(j)
  PROVE  TypeInv'
<1> USE ScopeType DEF TypeInv, TypeOK, TailStep, CrossBody, LookupBody, RetrySteps, Marking,
                      graphVars, dirVars
<1>1. CASE SkipCross(j)
  BY <1>1, TailGoesTypeInv DEF SkipCross
<1>2. CASE StartCross(j)
  <2>1. docs[j] # {}
    BY <1>2 DEF StartCross, NotFailed, Scope
  <2>2. QED
    BY <1>2, <2>1, TailGoesTypeInv DEF StartCross
<1>3. CASE Compare(j)
  <2>1. PairsWith(files \cap Scope(j)) \in SUBSET SUBSET Doc
    BY DEF PairsWith
  <2>2. QED
    BY <1>3, <2>1, TailGoesTypeInv DEF Compare
<1>4. CASE FilterExisting(j)
  <2> DEFINE found == {p \in ScoreAndFilter(pairs[j]) : ~ HasStatement(p)}
  <2>1. found \in SUBSET SUBSET Doc
    BY DEF ScoreAndFilter
  <2>2. compared' \in SUBSET SUBSET Doc
    BY <1>4 DEF FilterExisting
  <2>3. TailGoes(j, "write", {}, input[j], found)
    BY <1>4 DEF FilterExisting
  <2>4. input[j] \in SUBSET Doc /\ docs[j] # {}
    BY <1>4 DEF FilterExisting
  <2> HIDE DEF found
  <2>5. QED
    BY <1>4, <2>1, <2>2, <2>3, <2>4, TailGoesTypeInv DEF FilterExisting
<1>5. CASE WriteAlignments(j)
  <2>1. RunOfJob(j) \in Run
    BY <1>5, RunOfJobType DEF WriteAlignments
  <2>2. aligned' \in SUBSET ((SUBSET Doc) \X Run)
    BY <1>5, <2>1 DEF WriteAlignments
  <2>3. QED
    BY <1>5, <2>2, TailGoesTypeInv DEF WriteAlignments
<1>6. CASE FailCross(j)
  BY <1>6, TailGoesTypeInv DEF FailCross
<1>7. CASE Release(j)
  BY <1>7, TailGoesTypeInv DEF Release
<1>8. CASE StartLookup(j)
  BY <1>8, TailGoesTypeInv DEF StartLookup
<1>9. CASE ListLookup(j)
  BY <1>9, TailGoesTypeInv DEF ListLookup
<1>10. CASE Lookup(j)
  BY <1>10, TailGoesTypeInv DEF Lookup
<1>11. CASE Cleanup(j)
  BY <1>11, TailGoesTypeInv DEF Cleanup
<1>12. CASE RetryDelete(j)
  BY <1>12, TailGoesTypeInv DEF RetryDelete
<1>13. QED
  BY <1>1, <1>2, <1>3, <1>4, <1>5, <1>6, <1>7, <1>8, <1>9, <1>10, <1>11, <1>12 DEF TailMove

\* The steps of a retry request that start or continue it, and crashes.
OtherMove(j) ==
  \/ RetryReset(j) \/ RetryEnqueue(j) \/ CrashTail(j)
  \/ \E d \in Doc : RetryCheck(j, d) \/ CrashHead(j, d)

LEMMA OtherMoveTypeInv ==
  ASSUME TypeInv, NEW j \in Job, OtherMove(j)
  PROVE  TypeInv'
<1> USE DEF TypeInv, TypeOK, graphVars, dirVars, TailStep, CrossBody, LookupBody, RetrySteps, Marking
<1>1. CASE RetryReset(j)
  <2>1. status' \in [Doc -> Status]
    BY <1>1 DEF RetryReset, Set, Status
  <2>2. QED
    BY <1>1, <2>1 DEF RetryReset
<1>2. CASE RetryEnqueue(j)
  <2>1. head' \in [Job -> [Doc -> HeadStep]]
    BY <1>2 DEF RetryEnqueue, First, HeadStep
  <2>2. QED
    BY <1>2, <2>1 DEF RetryEnqueue
<1>3. CASE CrashTail(j)
  BY <1>3 DEF CrashTail
<1>4. ASSUME NEW d \in Doc, RetryCheck(j, d) PROVE TypeInv'
  BY <1>4 DEF RetryCheck
<1>5. ASSUME NEW d \in Doc, CrashHead(j, d) PROVE TypeInv'
  BY <1>5 DEF CrashHead, HeadStep
<1>6. QED
  BY <1>1, <1>2, <1>3, <1>4, <1>5 DEF OtherMove

LEMMA NextCases ==
  ASSUME Next
  PROVE  \/ Expire
         \/ \E j \in Job :
              \/ TailMove(j) \/ OtherMove(j)
              \/ \E d \in Doc : Mark(j, d) \/ HeadNext(j, d)
  BY DEF Next, TailNext, TailMove, OtherMove

LEMMA StepTypeInv == TypeInv /\ [Next]_vars => TypeInv'
<1> SUFFICES ASSUME TypeInv, [Next]_vars PROVE TypeInv'
  OBVIOUS
<1>1. CASE Expire
  BY <1>1 DEF Expire, TypeInv, TypeOK, jobVars, graphVars, dirVars
<1>2. ASSUME NEW j \in Job, TailMove(j) \/ OtherMove(j) PROVE TypeInv'
  BY <1>2, TailMoveTypeInv, OtherMoveTypeInv
<1>3. ASSUME NEW j \in Job, NEW d \in Doc, Mark(j, d) \/ HeadNext(j, d) PROVE TypeInv'
  BY <1>3, MarkTypeInv, HeadTypeInv
<1>4. CASE UNCHANGED vars
  BY <1>4 DEF vars, TypeInv, TypeOK, jobVars, graphVars, dirVars
<1>5. QED
  BY <1>1, <1>2, <1>3, <1>4, NextCases

LEMMA AlwaysTypeInv == Spec => []TypeInv
  BY InitTypeInv, StepTypeInv, PTL DEF Spec

(***************************************************************************)
(* Type correctness: in particular rows of run_tasks only ever hold one of *)
(* the five statuses, and each sameAs statement belongs to a run.          *)
(***************************************************************************)
THEOREM TypeCorrect == Spec => []TypeOK
<1>1. TypeInv => TypeOK
  BY DEF TypeInv
<1>2. QED
  BY <1>1, AlwaysTypeInv, PTL

-----------------------------------------------------------------------------
(* Mutual exclusion of the cross-document alignments.                      *)

\* Who is in the body holds the lock.
HoldsLock == \A j \in Job : tail[j] \in CrossBody => lock = j

\* A step that keeps the lock and takes no job into the body.
LEMMA KeepsLock ==
  ASSUME HoldsLock, lock' = lock,
         \A j \in Job : tail'[j] \in CrossBody => tail[j] \in CrossBody
  PROVE  HoldsLock'
  BY DEF HoldsLock

\* Only StartCross takes a job into the body, only Release and Expire touch
\* the lock besides it.
LEMMA TailMoveFrame ==
  ASSUME TypeInv, NEW j \in Job, TailMove(j), ~ StartCross(j), ~ Release(j)
  PROVE  /\ lock' = lock
         /\ \A k \in Job : tail'[k] \in CrossBody => tail[k] \in CrossBody
  BY DEF TailMove, SkipCross, Compare, FilterExisting, WriteAlignments, FailCross, StartLookup,
         ListLookup, Lookup, Cleanup, RetryDelete, TailGoes, TypeInv, TypeOK, CrossBody

LEMMA StepHoldsLock ==
  ASSUME ~ SlowAlignment, TypeInv, HoldsLock, [Next]_vars
  PROVE  HoldsLock'
<1>1. CASE Expire
  BY <1>1, PipelineAssumption DEF Expire, HoldsLock, jobVars, Job
<1>2. ASSUME NEW j \in Job, StartCross(j) PROVE HoldsLock'
  BY <1>2, PipelineAssumption DEF StartCross, TailGoes, HoldsLock, TypeInv, TypeOK, Job
<1>3. ASSUME NEW j \in Job, Release(j) PROVE HoldsLock'
  BY <1>3 DEF Release, TailGoes, HoldsLock, TypeInv, TypeOK, CrossBody
<1>4. ASSUME NEW j \in Job, TailMove(j), ~ StartCross(j), ~ Release(j) PROVE HoldsLock'
  BY <1>4, TailMoveFrame, KeepsLock
<1>5. ASSUME NEW j \in Job, OtherMove(j) PROVE HoldsLock'
  BY <1>5, KeepsLock DEF OtherMove, RetryReset, RetryEnqueue, CrashTail, RetryCheck, CrashHead,
       TypeInv, TypeOK, CrossBody
<1>6. ASSUME NEW j \in Job, NEW d \in Doc, Mark(j, d) PROVE HoldsLock'
  BY <1>6, KeepsLock DEF Mark
<1>7. ASSUME NEW j \in Job, NEW d \in Doc, HeadNext(j, d) PROVE HoldsLock'
  BY <1>7, HeadFrame, KeepsLock
<1>8. CASE UNCHANGED vars
  BY <1>8, KeepsLock DEF vars, jobVars
<1>9. QED
  BY <1>1, <1>2, <1>3, <1>4, <1>5, <1>6, <1>7, <1>8, NextCases

LEMMA InitHoldsLock == Init => HoldsLock
  BY DEF Init, HoldsLock, CrossBody

(***************************************************************************)
(* At most one cross-document alignment runs at a time, provided no        *)
(* alignment outlasts the timeout of the lock: for any number of runs,     *)
(* retries and processes that die.                                         *)
(***************************************************************************)
THEOREM MutualExclusion == ~ SlowAlignment => (Spec => []AtMostOneAlignment)
<1> SUFFICES ASSUME ~ SlowAlignment PROVE Spec => []AtMostOneAlignment
  OBVIOUS
<1>1. TypeInv /\ HoldsLock /\ [Next]_vars => HoldsLock'
  BY StepHoldsLock
<1>2. HoldsLock => AtMostOneAlignment
  BY DEF HoldsLock, AtMostOneAlignment
<1>3. QED
  BY <1>1, <1>2, InitHoldsLock, AlwaysTypeInv, PTL DEF Spec

-----------------------------------------------------------------------------
(* No two runs propose the same alignment.                                 *)

\* What an alignment is about to write is still new: nobody else has
\* written since it looked, because nobody else holds the lock.
WritesNewPairs ==
  \A j \in Job : tail[j] = "write" =>
    \A p \in pairs[j] : \A r \in Run : <<p, r>> \notin aligned

DuplicateInv == WritesNewPairs /\ NoDuplicateAlignment

\* A step that writes no alignment and takes no job to the write.
LEMMA KeepsNew ==
  ASSUME DuplicateInv, aligned' \subseteq aligned,
         \A j \in Job : tail'[j] = "write" => tail[j] = "write" /\ pairs'[j] = pairs[j]
  PROVE  DuplicateInv'
  BY DEF DuplicateInv, WritesNewPairs, NoDuplicateAlignment

LEMMA WriteKeepsNew ==
  ASSUME TypeInv, HoldsLock, DuplicateInv, NEW j \in Job, WriteAlignments(j)
  PROVE  DuplicateInv'
<1>1. tail[j] = "write" /\ aligned' = aligned \cup {<<p, RunOfJob(j)>> : p \in pairs[j]}
  BY DEF WriteAlignments
<1>2. tail' = [tail EXCEPT ![j] = "cross_done"]
  BY DEF WriteAlignments, TailGoes
<1>3. \A k \in Job : tail'[k] # "write"
  BY <1>1, <1>2 DEF HoldsLock, CrossBody, TypeInv, TypeOK
<1>4. \A p \in Alike : \A r, s \in Run : <<p, r>> \in aligned' /\ <<p, s>> \in aligned' => r = s
  BY <1>1 DEF DuplicateInv, WritesNewPairs, NoDuplicateAlignment
<1>5. QED
  BY <1>3, <1>4 DEF DuplicateInv, WritesNewPairs, NoDuplicateAlignment

LEMMA FilterKeepsNew ==
  ASSUME TypeInv, DuplicateInv, NEW j \in Job, FilterExisting(j)
  PROVE  DuplicateInv'
<1> DEFINE found == {p \in ScoreAndFilter(pairs[j]) : ~ HasStatement(p)}
<1>1. aligned' = aligned
  BY DEF FilterExisting
<1>2. tail' = [tail EXCEPT ![j] = "write"] /\ pairs' = [pairs EXCEPT ![j] = found]
  BY DEF FilterExisting, TailGoes
<1>3. \A p \in found : \A r \in Run : <<p, r>> \notin aligned
  BY DEF HasStatement
<1> HIDE DEF found
<1>4. WritesNewPairs'
  BY <1>1, <1>2, <1>3 DEF DuplicateInv, WritesNewPairs, TypeInv, TypeOK
<1>5. QED
  BY <1>1, <1>4 DEF DuplicateInv, NoDuplicateAlignment

LEMMA StepDuplicateInv ==
  ASSUME TypeInv, HoldsLock, DuplicateInv, [Next]_vars
  PROVE  DuplicateInv'
<1>1. CASE Expire
  BY <1>1, KeepsNew DEF Expire, jobVars, graphVars
<1>2. ASSUME NEW j \in Job, WriteAlignments(j) PROVE DuplicateInv'
  BY <1>2, WriteKeepsNew
<1>3. ASSUME NEW j \in Job, FilterExisting(j) PROVE DuplicateInv'
  BY <1>3, FilterKeepsNew
<1>4. ASSUME NEW j \in Job, TailMove(j), ~ WriteAlignments(j), ~ FilterExisting(j)
      PROVE  DuplicateInv'
  <2>1. aligned' \subseteq aligned
    BY <1>4 DEF TailMove, SkipCross, StartCross, Compare, FailCross, Release, StartLookup,
                ListLookup, Lookup, Cleanup, RetryDelete, graphVars
  <2>2. \A k \in Job : tail'[k] = "write" => tail[k] = "write" /\ pairs'[k] = pairs[k]
    BY <1>4 DEF TailMove, SkipCross, StartCross, Compare, FailCross, Release, StartLookup,
                ListLookup, Lookup, Cleanup, RetryDelete, TailGoes, TypeInv, TypeOK
  <2>3. QED
    BY <2>1, <2>2, KeepsNew
<1>5. ASSUME NEW j \in Job, OtherMove(j) PROVE DuplicateInv'
  BY <1>5, KeepsNew DEF OtherMove, RetryReset, RetryEnqueue, CrashTail, RetryCheck, CrashHead,
       TypeInv, TypeOK, graphVars
<1>6. ASSUME NEW j \in Job, NEW d \in Doc, Mark(j, d) PROVE DuplicateInv'
  BY <1>6, KeepsNew DEF Mark, graphVars
<1>7. ASSUME NEW j \in Job, NEW d \in Doc, HeadNext(j, d) PROVE DuplicateInv'
  BY <1>7, HeadFrame, KeepsNew
<1>8. CASE UNCHANGED vars
  BY <1>8, KeepsNew DEF vars, jobVars, graphVars
<1>9. QED
  BY <1>1, <1>2, <1>3, <1>4, <1>5, <1>6, <1>7, <1>8, NextCases

LEMMA InitDuplicateInv == Init => DuplicateInv
  BY DEF Init, DuplicateInv, WritesNewPairs, NoDuplicateAlignment

(***************************************************************************)
(* The filter of existing pairs is enough to avoid duplicate alignments    *)
(* between runs, as long as no alignment outlasts the lock.                *)
(***************************************************************************)
THEOREM NoDuplicates == ~ SlowAlignment => (Spec => []NoDuplicateAlignment)
<1> SUFFICES ASSUME ~ SlowAlignment PROVE Spec => []NoDuplicateAlignment
  OBVIOUS
<1>1. TypeInv /\ HoldsLock /\ [Next]_vars => HoldsLock'
  BY StepHoldsLock
<1>2. TypeInv /\ HoldsLock /\ DuplicateInv /\ [Next]_vars => DuplicateInv'
  BY StepDuplicateInv
<1>3. DuplicateInv => NoDuplicateAlignment
  BY DEF DuplicateInv
<1>4. QED
  BY <1>1, <1>2, <1>3, InitHoldsLock, InitDuplicateInv, AlwaysTypeInv, PTL DEF Spec

-----------------------------------------------------------------------------
(* What a run that is never retried leaves behind. Crashes are allowed, and *)
(* alignments that outlast the lock.                                        *)

Own(j) == {d \in Doc : RunOf[d] = j}

\* The documents of a run that have not failed.
Live(j) == {d \in Own(j) : status[d] # "Failed"}

\* Between these steps of its chain a document cannot be Failed.
Working ==
  {"convert", "converting", "checked", "extracting", "extracted", "align", "aligning",
   "queued", "waiting"}

\* Every job is the main job of a run, and its tail waits for the heads.
MainJobs ==
  /\ docs = [j \in Job |-> Own(j)]
  /\ \A j \in Job : \A d \in Doc \ Own(j) : head[j][d] = "none"
  /\ \A j \in Job : tail[j] \notin RetrySteps \cup {"idle"}
  /\ \A j \in Job : tail[j] # "blocked" => \A d \in Own(j) : head[j][d] = "done"

\* Nobody is about to overwrite the row of a document that failed.
FailedLeftAlone ==
  /\ \A j \in Job : \A d \in Own(j) : head[j][d] \in Working => status[d] # "Failed"
  /\ \A j \in Job : todo[j] \subseteq Live(j)

\* What the chain of a document has left in the graph and in the directory.
ChainLeaves(j, d) ==
  /\ head[j][d] \in {"extracted", "align", "aligning", "queued", "waiting"} => d \in extracted
  /\ head[j][d] \in {"queued", "waiting"} => d \in files
  /\ head[j][d] = "done" /\ status[d] # "Failed" => d \in extracted
  /\ head[j][d] = "done" /\ status[d] # "Failed" /\ tail[j] \notin {"end", "dead", "lost"}
       => d \in files

HeadsLeave == \A j \in Job : \A d \in Own(j) : ChainLeaves(j, d)

\* What the tail of a run has left: the documents that have not failed are in
\* the stage's input, in merged.ttl if it exists, and in what was looked up.
TailLeaves(j) ==
  /\ input[j] \subseteq Own(j)
  /\ tail[j] \in {"compare", "write", "lookup_body"} => Live(j) \subseteq input[j]
  /\ merged \cap Own(j) = {} \/ Live(j) \subseteq merged
  /\ tail[j] \in {"lookup_done", "end"} => Live(j) \subseteq looked
  /\ tail[j] \in {"cross_failed", "lookup_failed"} => Live(j) \subseteq todo[j]
  /\ tail[j] = "dead" => Live(j) = {}

TailsLeave == \A j \in Job : TailLeaves(j)

\* The steps of a run that has listed its pairs and has not failed since.
Listed ==
  {"compare", "write", "cross_done", "lookup", "lookup_running", "lookup_body",
   "lookup_done", "lookup_failed", "end"}

\* Of two runs that have listed their pairs one has listed those between them.
PairCovered(j, k, p) ==
  \/ p \in compared
  \/ tail[j] = "compare" /\ p \in pairs[j]
  \/ tail[k] = "compare" /\ p \in pairs[k]

PairsCovered ==
  \A j, k \in Job : tail[j] \in Listed /\ tail[k] \in Listed =>
    \A d \in Live(j), e \in Live(k) : d # e => PairCovered(j, k, {d, e})

OutcomeInv == MainJobs /\ FailedLeftAlone /\ HeadsLeave /\ TailsLeave /\ PairsCovered

LEMMA InitOutcomeInv == Retry = {} /\ Init => OutcomeInv
<1> SUFFICES ASSUME Retry = {}, Init PROVE OutcomeInv
  OBVIOUS
<1> USE PipelineAssumption DEF Init, Job
<1>1. MainJobs
  BY DEF MainJobs, Own, RetrySteps
<1>2. FailedLeftAlone
  BY DEF FailedLeftAlone, Own
<1>3. HeadsLeave
  BY DEF HeadsLeave, ChainLeaves, First, Own
<1>4. TailsLeave
  BY DEF TailsLeave, TailLeaves
<1>5. PairsCovered
  BY DEF PairsCovered, Listed
<1>6. QED
  BY <1>1, <1>2, <1>3, <1>4, <1>5 DEF OutcomeInv

LEMMA ScopeIsOwn ==
  ASSUME MainJobs, NEW j \in Job
  PROVE  Scope(j) = Own(j) /\ NotFailed(j) = Live(j)
<1>1. Scope(j) = Own(j)
  BY DEF MainJobs, Scope, Own
<1>2. QED
  BY <1>1 DEF NotFailed, Live

\* Documents only leave Live when no row of a document that failed changes.
LEMMA LiveShrinks ==
  ASSUME \A d \in Doc : status[d] = "Failed" => status'[d] = "Failed"
  PROVE  \A j \in Job : Live(j)' \subseteq Live(j)
  BY DEF Live, Own

LEMMA KeepsTailLeaves ==
  ASSUME TailsLeave, \A j \in Job : Live(j)' \subseteq Live(j),
         UNCHANGED <<tail, todo, input, merged, looked>>
  PROVE  TailsLeave'
<1>1. ASSUME NEW j \in Job PROVE TailLeaves(j)'
  <2>1. TailLeaves(j) /\ Live(j)' \subseteq Live(j) /\ Own(j)' = Own(j)
    BY DEF TailsLeave, Own
  <2>2. QED
    BY <2>1 DEF TailLeaves
<1>2. QED
  BY <1>1 DEF TailsLeave

\* A step that lets no run list its pairs keeps those that are covered.
LEMMA KeepsPairsCovered ==
  ASSUME PairsCovered, \A j \in Job : Live(j)' \subseteq Live(j), compared \subseteq compared',
         \A j \in Job : tail'[j] \in Listed => tail[j] \in Listed,
         \A j \in Job : tail[j] = "compare" /\ tail'[j] # "compare" /\ tail'[j] \in Listed
                          => pairs[j] \subseteq compared',
         \A j \in Job : tail[j] = "compare" /\ tail'[j] = "compare" => pairs'[j] = pairs[j]
  PROVE  PairsCovered'
<1>1. ASSUME NEW j \in Job, NEW k \in Job, tail'[j] \in Listed, tail'[k] \in Listed,
             NEW d \in Live(j)', NEW e \in Live(k)', d # e
      PROVE  PairCovered(j, k, {d, e})'
  <2>1. PairCovered(j, k, {d, e})
    BY <1>1 DEF PairsCovered
  <2>2. QED
    BY <1>1, <2>1 DEF PairCovered
<1>2. QED
  BY <1>1 DEF PairsCovered

\* A head that moves belongs to the run, whose tail is still waiting.
LEMMA HeadOfOwnRun ==
  ASSUME TypeInv, MainJobs, NEW j \in Job, NEW d \in Doc, HeadNext(j, d)
  PROVE  d \in Own(j) /\ tail[j] = "blocked"
<1>1. head[j][d] \notin {"none", "done"}
  BY DEF HeadNext, StartConvert, Convert, CheckExtract, StartExtract, Extract, QueueAlign,
         StartAlign, Align, Settle, FailHead
<1>2. QED
  BY <1>1 DEF MainJobs

\* What the chain of a document does with its row and with its own head.
LEMMA HeadEffect ==
  ASSUME TypeInv, MainJobs, FailedLeftAlone, HeadsLeave,
         NEW j \in Job, NEW d \in Doc, HeadNext(j, d)
  PROVE  /\ head' = [head EXCEPT ![j][d] = head'[j][d]]
         /\ \A e \in Doc \ {d} : status'[e] = status[e]
         /\ status[d] = "Failed" => status'[d] = "Failed"
         /\ head'[j][d] # "none"
         /\ head'[j][d] \in Working => status'[d] # "Failed"
         /\ extracted \subseteq extracted' /\ files \subseteq files'
         /\ ChainLeaves(j, d)'
<1> USE DEF TypeInv, TypeOK
<1>1. d \in Own(j) /\ tail[j] = "blocked" /\ tail' = tail
  BY HeadOfOwnRun, HeadFrame
<1>2. ChainLeaves(j, d) /\ (head[j][d] \in Working => status[d] # "Failed")
  BY <1>1 DEF HeadsLeave, FailedLeftAlone
<1>3. \E step \in HeadStep : head' = [head EXCEPT ![j][d] = step]
  BY DEF HeadNext, HeadGoes, StartConvert, Convert, CheckExtract, StartExtract, Extract, QueueAlign,
         StartAlign, Align, Settle, FailHead, HeadStep
<1>4. head' = [head EXCEPT ![j][d] = head'[j][d]]
  BY <1>3
<1>5. \A e \in Doc \ {d} : status'[e] = status[e]
  BY DEF HeadNext, Set, StartConvert, Convert, CheckExtract, StartExtract, Extract, QueueAlign,
         StartAlign, Align, Settle, FailHead
<1>6. status[d] = "Failed" => status'[d] = "Failed"
  BY <1>2 DEF HeadNext, Set, StartConvert, Convert, CheckExtract, StartExtract, Extract, QueueAlign,
         StartAlign, Align, Settle, FailHead, Working
<1>7. head'[j][d] # "none" /\ (head'[j][d] \in Working => status'[d] # "Failed")
  BY <1>2 DEF HeadNext, HeadGoes, Set, StartConvert, Convert, CheckExtract, StartExtract, Extract,
         QueueAlign, StartAlign, Align, Settle, FailHead, Working
<1>8. extracted \subseteq extracted' /\ files \subseteq files'
  BY DEF HeadNext, StartConvert, Convert, CheckExtract, StartExtract, Extract, QueueAlign,
         StartAlign, Align, Settle, FailHead, graphVars, dirVars
<1>9. ChainLeaves(j, d)'
  BY <1>1, <1>2 DEF HeadNext, HeadGoes, Set, StartConvert, Convert, CheckExtract, StartExtract,
         Extract, QueueAlign, StartAlign, Align, Settle, FailHead, ChainLeaves, graphVars, dirVars
<1>10. QED
  BY <1>4, <1>5, <1>6, <1>7, <1>8, <1>9

LEMMA HeadOutcome ==
  ASSUME TypeInv, OutcomeInv, NEW j \in Job, NEW d \in Doc, HeadNext(j, d)
  PROVE  OutcomeInv'
<1> USE DEF OutcomeInv
<1>1. UNCHANGED <<docs, tail, todo, input, pairs, compared, looked, merged>>
  BY HeadFrame
<1>2. d \in Own(j) /\ tail[j] = "blocked"
  BY HeadOfOwnRun
<1>3. /\ head' = [head EXCEPT ![j][d] = head'[j][d]]
      /\ \A e \in Doc \ {d} : status'[e] = status[e]
      /\ status[d] = "Failed" => status'[d] = "Failed"
      /\ head'[j][d] # "none"
      /\ head'[j][d] \in Working => status'[d] # "Failed"
      /\ extracted \subseteq extracted' /\ files \subseteq files'
      /\ ChainLeaves(j, d)'
  BY HeadEffect
<1>4. \A k \in Job : \A e \in Doc : <<k, e>> # <<j, d>> => head'[k][e] = head[k][e]
  BY <1>3 DEF TypeInv, TypeOK
<1>5. \A k \in Job \ {j} : d \notin Own(k)
  BY <1>2 DEF Own
<1>6. \A k \in Job : Live(k)' \subseteq Live(k)
  BY <1>3, LiveShrinks
<1>7. MainJobs'
  BY <1>1, <1>2, <1>4 DEF MainJobs, Own
<1>8. FailedLeftAlone'
  <2>1. \A k \in Job : \A e \in Own(k) : head'[k][e] \in Working => status'[e] # "Failed"
    BY <1>3, <1>4, <1>5 DEF FailedLeftAlone, Own
  <2>2. ASSUME NEW k \in Job PROVE todo'[k] \subseteq Live(k)'
    <3>1. CASE k = j
      BY <3>1, <1>1, <1>2 DEF TypeInv, Marking
    <3>2. CASE k # j
      <4>1. Live(k)' = Live(k)
        BY <3>2, <1>3, <1>5 DEF Live, Own
      <4>2. QED
        BY <4>1, <1>1 DEF FailedLeftAlone
    <3>3. QED
      BY <3>1, <3>2
  <2>3. QED
    BY <2>1, <2>2 DEF FailedLeftAlone, Own
<1>9. HeadsLeave'
  <2>1. ASSUME NEW k \in Job, NEW e \in Own(k), <<k, e>> # <<j, d>> PROVE ChainLeaves(k, e)'
    <3>1. ChainLeaves(k, e) /\ head'[k][e] = head[k][e]
      BY <2>1, <1>4 DEF HeadsLeave, Own
    <3>2. status'[e] = status[e]
      BY <2>1, <1>3, <1>5 DEF Own
    <3>3. QED
      BY <3>1, <3>2, <1>1, <1>3 DEF ChainLeaves
  <2>2. QED
    BY <2>1, <1>3 DEF HeadsLeave, Own
<1>10. TailsLeave'
  BY <1>1, <1>6, KeepsTailLeaves
<1>11. PairsCovered'
  BY <1>1, <1>6, KeepsPairsCovered
<1>12. QED
  BY <1>7, <1>8, <1>9, <1>10, <1>11

\* What a step from one tail state to another needs to keep the outcome.
LEMMA TailGoesOutcome ==
  ASSUME TypeInv, OutcomeInv, NEW j \in Job, NEW step, NEW rows, NEW listed, NEW found,
         TailGoes(j, step, rows, listed, found),
         step \notin RetrySteps \cup {"idle", "blocked"},
         \A d \in Own(j) : head[j][d] = "done",
         rows \subseteq Live(j),
         extracted \subseteq extracted', looked \subseteq looked',
         \A k \in Job \ {j} : files \cap Own(k) \subseteq files' /\ merged' \cap Own(k) = merged \cap Own(k),
         step \notin {"end", "dead", "lost"} =>
           tail[j] \notin {"end", "dead", "lost"} /\ files \cap Own(j) \subseteq files',
         TailLeaves(j)', PairsCovered'
  PROVE  OutcomeInv'
<1> USE DEF OutcomeInv
<1>1. /\ \A k \in Job \ {j} : tail'[k] = tail[k] /\ todo'[k] = todo[k] /\ input'[k] = input[k]
      /\ tail'[j] = step /\ todo'[j] = rows
      /\ UNCHANGED <<docs, head, status>>
  BY DEF TailGoes, TypeInv, TypeOK
<1>2. \A k \in Job : Live(k)' = Live(k) /\ Own(k)' = Own(k)
  BY <1>1 DEF Live, Own
<1>3. MainJobs'
  <2>1. \A k \in Job : tail'[k] \notin RetrySteps \cup {"idle"}
    BY <1>1 DEF MainJobs
  <2>2. \A k \in Job : tail'[k] # "blocked" => \A d \in Own(k) : head'[k][d] = "done"
    BY <1>1 DEF MainJobs
  <2>3. QED
    BY <1>1, <1>2, <2>1, <2>2 DEF MainJobs, Own
<1>4. FailedLeftAlone'
  <2>1. \A k \in Job : todo'[k] \subseteq Live(k)
    BY <1>1 DEF FailedLeftAlone
  <2>2. QED
    BY <1>1, <1>2, <2>1 DEF FailedLeftAlone, Own
<1>5. HeadsLeave'
  <2>1. ASSUME NEW k \in Job, NEW d \in Own(k) PROVE ChainLeaves(k, d)'
    <3>1. ChainLeaves(k, d) /\ d \in Doc
      BY <2>1 DEF HeadsLeave, Own
    <3>2. CASE k = j
      BY <3>1, <3>2, <2>1, <1>1 DEF ChainLeaves
    <3>3. CASE k # j
      BY <3>1, <3>3, <2>1, <1>1 DEF ChainLeaves
    <3>4. QED
      BY <3>2, <3>3
  <2>2. QED
    BY <2>1, <1>2 DEF HeadsLeave
<1>6. TailsLeave'
  <2>1. ASSUME NEW k \in Job, k # j PROVE TailLeaves(k)'
    <3>1. TailLeaves(k)
      BY DEF TailsLeave
    <3>2. merged' \cap Own(k)' = {} \/ Live(k)' \subseteq merged'
      <4>1. Live(k) \subseteq Own(k)
        BY DEF Live
      <4>2. QED
        BY <2>1, <3>1, <4>1, <1>2 DEF TailLeaves
    <3>3. QED
      BY <2>1, <3>1, <3>2, <1>1, <1>2 DEF TailLeaves
  <2>2. QED
    BY <2>1 DEF TailsLeave
<1>7. QED
  BY <1>3, <1>4, <1>5, <1>6

\* The documents of a run that is past its heads and has not failed.
LEMMA LiveLeaves ==
  ASSUME OutcomeInv, NEW j \in Job, \A d \in Own(j) : head[j][d] = "done"
  PROVE  /\ Live(j) \subseteq extracted
         /\ tail[j] \notin {"end", "dead", "lost"} => Live(j) \subseteq files
<1>1. \A d \in Live(j) : d \in Own(j) /\ status[d] # "Failed"
  BY DEF Live
<1>2. QED
  BY <1>1 DEF OutcomeInv, HeadsLeave, ChainLeaves

LEMMA HeadsAreDone ==
  ASSUME OutcomeInv, NEW j \in Job, TailMove(j)
  PROVE  /\ tail[j] \notin {"end", "dead", "lost"} \cup RetrySteps
         /\ \A d \in Own(j) : head[j][d] = "done"
<1>1. tail[j] \notin {"end", "dead", "lost"}
  BY DEF TailMove, SkipCross, StartCross, Compare, FilterExisting, WriteAlignments, FailCross,
         Release, StartLookup, ListLookup, Lookup, Cleanup, RetryDelete, CrossReady
<1>2. tail[j] \notin RetrySteps
  BY DEF OutcomeInv, MainJobs
<1>3. tail[j] = "blocked" => HeadsDone(j)
  BY DEF TailMove, SkipCross, StartCross, Compare, FilterExisting, WriteAlignments, FailCross,
         Release, StartLookup, ListLookup, Lookup, Cleanup, RetryDelete, CrossReady
<1>4. QED
  BY <1>1, <1>2, <1>3 DEF OutcomeInv, MainJobs, HeadsDone

\* A step of a tail that lists no pairs keeps those that are covered.
LEMMA TailKeepsPairs ==
  ASSUME TypeInv, OutcomeInv, NEW j \in Job, NEW step, NEW rows, NEW listed, NEW found,
         TailGoes(j, step, rows, listed, found),
         step \in Listed => tail[j] \in Listed, step # "compare",
         tail[j] = "compare" /\ step \in Listed => pairs[j] \subseteq compared',
         compared \subseteq compared'
  PROVE  PairsCovered'
<1>1. /\ \A k \in Job \ {j} : tail'[k] = tail[k] /\ pairs'[k] = pairs[k]
      /\ tail'[j] = step /\ status' = status
  BY DEF TailGoes, TypeInv, TypeOK
<1>2. \A k \in Job : Live(k)' \subseteq Live(k)
  BY <1>1, LiveShrinks
<1>3. QED
  BY <1>1, <1>2, KeepsPairsCovered DEF OutcomeInv

\* The comparison lists the pairs between its run and every run that has
\* listed its pairs before.
LEMMA CompareCovers ==
  ASSUME TypeInv, OutcomeInv, NEW j \in Job, Compare(j)
  PROVE  PairsCovered'
<1> DEFINE listed == files \cap Scope(j)
<1> USE DEF OutcomeInv
<1>1. TailGoes(j, "compare", {}, listed, PairsWith(listed)) /\ compared' = compared
  BY DEF Compare, graphVars
<1>2. /\ \A k \in Job \ {j} : tail'[k] = tail[k] /\ pairs'[k] = pairs[k]
      /\ tail'[j] = "compare" /\ pairs'[j] = PairsWith(listed) /\ status' = status
  BY <1>1 DEF TailGoes, TypeInv, TypeOK
<1>3. Live(j) \subseteq listed
  <2>1. Live(j) \subseteq files
    BY HeadsAreDone, LiveLeaves DEF TailMove
  <2>2. QED
    BY <2>1, ScopeIsOwn DEF Live
<1>4. \A k \in Job : Live(k)' = Live(k)
  BY <1>2 DEF Live, Own
<1>5. ASSUME NEW k \in Job, tail'[k] \in Listed PROVE Live(k) \subseteq extracted
  <2>1. tail[k] # "blocked"
    BY <1>5, <1>2 DEF Compare, Listed
  <2>2. \A d \in Own(k) : head[k][d] = "done"
    BY <2>1 DEF MainJobs
  <2>3. QED
    BY <2>2, LiveLeaves
<1>6. ASSUME NEW d \in Live(j), NEW e \in extracted, d # e PROVE {d, e} \in PairsWith(listed)
  <2>1. d \in listed
    BY <1>3
  <2>2. Cardinality({d, e}) = 2
    <3>1. IsFiniteSet({d}) /\ Cardinality({d}) = 1
      BY FS_Singleton
    <3>2. Cardinality({d} \cup {e}) = 2
      BY <3>1, <1>6, FS_AddElement
    <3>3. {d, e} = {d} \cup {e}
      OBVIOUS
    <3>4. QED
      BY <3>2, <3>3
  <2>3. {d, e} \in SUBSET (listed \cup extracted) /\ {d, e} \cap listed # {}
    BY <2>1, <1>6
  <2> HIDE DEF listed
  <2>4. QED
    BY <2>2, <2>3 DEF PairsWith
<1> HIDE DEF listed
<1>7. ASSUME NEW k \in Job, NEW m \in Job, tail'[k] \in Listed, tail'[m] \in Listed,
             NEW d \in Live(k), NEW e \in Live(m), d # e
      PROVE  PairCovered(k, m, {d, e})'
  <2>1. d \in extracted /\ e \in extracted
    BY <1>5, <1>7
  <2>2. CASE k = j
    <3>1. {d, e} \in PairsWith(listed)
      BY <2>1, <2>2, <1>6, <1>7
    <3>2. QED
      BY <2>2, <3>1, <1>2 DEF PairCovered
  <2>3. CASE m = j
    <3>1. {e, d} \in PairsWith(listed)
      BY <2>1, <2>3, <1>6, <1>7
    <3>2. {e, d} = {d, e}
      OBVIOUS
    <3>3. QED
      BY <2>3, <3>1, <3>2, <1>2 DEF PairCovered
  <2>4. CASE k # j /\ m # j
    <3>1. PairCovered(k, m, {d, e})
      BY <2>4, <1>2, <1>7 DEF PairsCovered
    <3>2. QED
      BY <3>1, <2>4, <1>1, <1>2 DEF PairCovered
  <2>5. QED
    BY <2>2, <2>3, <2>4
<1>8. QED
  BY <1>4, <1>7 DEF PairsCovered

\* A run without a document that has not failed has no pair to cover.
LEMMA SkipCovers ==
  ASSUME TypeInv, OutcomeInv, NEW j \in Job, SkipCross(j)
  PROVE  PairsCovered'
<1>1. /\ \A k \in Job \ {j} : tail'[k] = tail[k]
      /\ tail[j] = "blocked" /\ tail'[j] = "lookup" /\ compared' = compared
      /\ pairs' = [pairs EXCEPT ![j] = {}] /\ status' = status
  BY DEF SkipCross, CrossReady, TailGoes, TypeInv, TypeOK, graphVars
<1>2. \A k \in Job : Live(k)' = Live(k)
  BY <1>1 DEF Live, Own
<1>3. Live(j) = {}
  BY ScopeIsOwn DEF SkipCross, OutcomeInv
<1>4. ASSUME NEW k \in Job, NEW m \in Job, tail'[k] \in Listed, tail'[m] \in Listed,
             NEW d \in Live(k), NEW e \in Live(m), d # e
      PROVE  PairCovered(k, m, {d, e})'
  <2>1. k # j /\ m # j
    BY <1>3
  <2>2. PairCovered(k, m, {d, e})
    BY <2>1, <1>1, <1>4 DEF OutcomeInv, PairsCovered
  <2>3. QED
    BY <2>1, <2>2, <1>1 DEF PairCovered, TypeInv, TypeOK
<1>5. QED
  BY <1>2, <1>4 DEF PairsCovered

LEMMA TailOutcome ==
  ASSUME TypeInv, OutcomeInv, NEW j \in Job, TailMove(j)
  PROVE  OutcomeInv'
<1> USE DEF RetrySteps, Listed
<1>1. \A d \in Own(j) : head[j][d] = "done"
  BY HeadsAreDone
<1>2. tail[j] \notin {"end", "dead", "lost"} \cup RetrySteps /\ TailLeaves(j)
  BY HeadsAreDone DEF OutcomeInv, TailsLeave
<1>3. Scope(j) = Own(j) /\ NotFailed(j) = Live(j) /\ Live(j) \subseteq Own(j)
  BY ScopeIsOwn DEF OutcomeInv, Live
<1>4. Live(j) \subseteq extracted /\ Live(j) \subseteq files
  BY <1>1, <1>2, LiveLeaves
<1>5. \A k \in Job \ {j} : Own(k) \cap Own(j) = {}
  BY DEF Own
<1>6. ASSUME NEW step, NEW rows, NEW listed, NEW found, TailGoes(j, step, rows, listed, found)
      PROVE  /\ Live(j)' = Live(j) /\ Own(j)' = Own(j)
             /\ tail'[j] = step /\ todo'[j] = rows /\ input'[j] = listed
  BY <1>6 DEF TailGoes, TypeInv, TypeOK, Live, Own
<1>7. CASE SkipCross(j)
  <2>1. TailGoes(j, "lookup", {}, {}, {}) /\ PairsCovered' /\ UNCHANGED <<graphVars, dirVars>>
    BY <1>7, SkipCovers DEF SkipCross
  <2>2. TailLeaves(j)'
    BY <2>1, <1>2, <1>6 DEF TailLeaves, dirVars
  <2>3. QED
    BY <2>1, <2>2, <1>1, <1>2, TailGoesOutcome DEF graphVars, dirVars
<1>8. CASE StartCross(j)
  <2>1. TailGoes(j, "cross_running", Live(j), {}, {}) /\ UNCHANGED <<graphVars, dirVars>>
    BY <1>8, <1>3 DEF StartCross
  <2>2. TailLeaves(j)'
    BY <2>1, <1>2, <1>6 DEF TailLeaves, dirVars
  <2>3. PairsCovered'
    BY <2>1, <1>8, TailKeepsPairs DEF graphVars, StartCross, CrossReady
  <2>4. QED
    BY <2>1, <2>2, <2>3, <1>1, <1>2, TailGoesOutcome DEF graphVars, dirVars
<1>9. CASE Compare(j)
  <2> DEFINE listed == files \cap Scope(j)
  <2>1. TailGoes(j, "compare", {}, listed, PairsWith(listed)) /\ UNCHANGED <<graphVars, dirVars>>
    BY <1>9 DEF Compare
  <2>2. Live(j) \subseteq listed /\ listed \subseteq Own(j)
    BY <1>3, <1>4
  <2> HIDE DEF listed
  <2>3. TailLeaves(j)'
    BY <2>1, <2>2, <1>2, <1>6 DEF TailLeaves, dirVars
  <2>4. PairsCovered'
    BY <1>9, CompareCovers
  <2>5. QED
    BY <2>1, <2>3, <2>4, <1>1, <1>2, TailGoesOutcome DEF graphVars, dirVars
<1>10. CASE FilterExisting(j)
  <2> DEFINE found == {p \in ScoreAndFilter(pairs[j]) : ~ HasStatement(p)}
  <2>1. /\ TailGoes(j, "write", {}, input[j], found) /\ tail[j] = "compare"
        /\ compared' = compared \cup pairs[j]
        /\ UNCHANGED <<extracted, looked, dirVars>>
    BY <1>10 DEF FilterExisting
  <2> HIDE DEF found
  <2>2. TailLeaves(j)'
    BY <2>1, <1>2, <1>6 DEF TailLeaves, dirVars
  <2>3. PairsCovered'
    BY <2>1, TailKeepsPairs
  <2>4. QED
    BY <2>1, <2>2, <2>3, <1>1, <1>2, TailGoesOutcome DEF dirVars
<1>11. CASE WriteAlignments(j)
  <2>1. /\ TailGoes(j, "cross_done", Live(j), {}, {}) /\ tail[j] = "write"
        /\ merged' = IF pairs[j] = {} THEN merged ELSE (merged \ Own(j)) \cup input[j]
        /\ UNCHANGED <<extracted, compared, looked, files>>
    BY <1>11, <1>3 DEF WriteAlignments
  <2>2. Live(j) \subseteq input[j]
    BY <2>1, <1>2 DEF TailLeaves
  <2>3. TailLeaves(j)'
    BY <2>1, <2>2, <1>2, <1>6 DEF TailLeaves
  <2>4. PairsCovered'
    BY <2>1, TailKeepsPairs
  <2>5. input[j] \subseteq Own(j)
    BY <1>2 DEF TailLeaves
  <2>6. QED
    BY <2>1, <2>3, <2>4, <2>5, <1>1, <1>2, <1>5, TailGoesOutcome
<1>12. CASE FailCross(j)
  <2>1. TailGoes(j, "cross_failed", Live(j), {}, {}) /\ UNCHANGED <<graphVars, dirVars>>
    BY <1>12, <1>3 DEF FailCross
  <2>2. TailLeaves(j)'
    BY <2>1, <1>2, <1>6 DEF TailLeaves, dirVars
  <2>3. PairsCovered'
    BY <2>1, TailKeepsPairs DEF graphVars
  <2>4. QED
    BY <2>1, <2>2, <2>3, <1>1, <1>2, TailGoesOutcome DEF graphVars, dirVars
<1>13. CASE Release(j)
  <2> DEFINE step == IF tail[j] = "cross_done" THEN "lookup" ELSE "dead"
  <2>1. /\ TailGoes(j, step, {}, {}, {}) /\ UNCHANGED <<graphVars, dirVars>>
        /\ tail[j] \in {"cross_done", "cross_failed"} /\ todo[j] = {}
    BY <1>13 DEF Release
  <2>2. \/ step = "lookup" /\ tail[j] = "cross_done"
        \/ step = "dead" /\ tail[j] = "cross_failed"
    BY <2>1
  <2> HIDE DEF step
  <2>3. TailLeaves(j)'
    BY <2>1, <2>2, <1>2, <1>6 DEF TailLeaves, dirVars
  <2>4. PairsCovered'
    BY <2>1, <2>2, TailKeepsPairs DEF graphVars
  <2>5. QED
    BY <2>1, <2>2, <2>3, <2>4, <1>1, <1>2, TailGoesOutcome DEF graphVars, dirVars
<1>14. CASE StartLookup(j)
  <2>1. /\ TailGoes(j, "lookup_running", Live(j), {}, {}) /\ UNCHANGED <<graphVars, dirVars>>
        /\ tail[j] = "lookup"
    BY <1>14, <1>3 DEF StartLookup
  <2>2. TailLeaves(j)'
    BY <2>1, <1>2, <1>6 DEF TailLeaves, dirVars
  <2>3. PairsCovered'
    BY <2>1, TailKeepsPairs DEF graphVars
  <2>4. QED
    BY <2>1, <2>2, <2>3, <1>1, <1>2, TailGoesOutcome DEF graphVars, dirVars
<1>15. CASE ListLookup(j)
  <2> DEFINE listed == IF merged \cap Own(j) # {} THEN merged \cap Own(j) ELSE files \cap Own(j)
  <2>1. /\ TailGoes(j, "lookup_body", {}, listed, {}) /\ UNCHANGED <<graphVars, dirVars>>
        /\ tail[j] = "lookup_running"
    BY <1>15, <1>3 DEF ListLookup
  <2>2. Live(j) \subseteq listed /\ listed \subseteq Own(j)
    BY <1>2, <1>3, <1>4 DEF TailLeaves
  <2> HIDE DEF listed
  <2>3. TailLeaves(j)'
    BY <2>1, <2>2, <1>2, <1>6 DEF TailLeaves, dirVars
  <2>4. PairsCovered'
    BY <2>1, TailKeepsPairs DEF graphVars
  <2>5. QED
    BY <2>1, <2>3, <2>4, <1>1, <1>2, TailGoesOutcome DEF graphVars, dirVars
<1>16. CASE Lookup(j)
  <2>1. /\ UNCHANGED <<extracted, compared, dirVars>>
        /\ tail[j] = "lookup_body"
        /\ \/ TailGoes(j, "lookup_done", Live(j), {}, {}) /\ looked' = looked \cup input[j]
           \/ TailGoes(j, "lookup_failed", Live(j), {}, {}) /\ looked' = looked
    BY <1>16, <1>3 DEF Lookup
  <2>2. TailLeaves(j)'
    BY <2>1, <1>2, <1>6 DEF TailLeaves, dirVars
  <2>3. PairsCovered'
    BY <2>1, TailKeepsPairs
  <2>4. QED
    BY <2>1, <2>2, <2>3, <1>1, <1>2, TailGoesOutcome DEF dirVars
<1>17. CASE Cleanup(j)
  <2> DEFINE step == IF tail[j] = "lookup_done" THEN "end" ELSE "dead"
  <2>1. /\ TailGoes(j, step, {}, {}, {}) /\ UNCHANGED graphVars
        /\ files' = files \ Own(j) /\ merged' = merged \ Own(j)
        /\ tail[j] \in {"lookup_done", "lookup_failed"} /\ todo[j] = {}
    BY <1>17, <1>3 DEF Cleanup
  <2>2. \/ step = "end" /\ tail[j] = "lookup_done"
        \/ step = "dead" /\ tail[j] = "lookup_failed"
    BY <2>1
  <2> HIDE DEF step
  <2>3. TailLeaves(j)'
    BY <2>1, <2>2, <1>2, <1>6 DEF TailLeaves, graphVars
  <2>4. PairsCovered'
    BY <2>1, <2>2, TailKeepsPairs DEF graphVars
  <2>5. QED
    BY <2>1, <2>2, <2>3, <2>4, <1>1, <1>2, <1>5, TailGoesOutcome DEF graphVars
<1>18. CASE RetryDelete(j)
  BY <1>18, <1>2 DEF RetryDelete
<1>19. QED
  BY <1>7, <1>8, <1>9, <1>10, <1>11, <1>12, <1>13, <1>14, <1>15, <1>16, <1>17, <1>18 DEF TailMove

LEMMA MarkOutcome ==
  ASSUME TypeInv, OutcomeInv, NEW j \in Job, NEW d \in Doc, Mark(j, d)
  PROVE  OutcomeInv'
<1> USE DEF OutcomeInv
<1>1. /\ UNCHANGED <<docs, head, tail, input, pairs, extracted, compared, looked, files, merged>>
      /\ todo' = [todo EXCEPT ![j] = @ \ {d}]
      /\ status' = [status EXCEPT ![d] = MarkAs(tail[j])]
  BY DEF Mark, Set, graphVars, dirVars
<1>2. d \in Live(j) /\ d \in Own(j) /\ tail[j] \in Marking
  BY DEF Mark, FailedLeftAlone, Live, TypeInv
<1>3. head[j][d] = "done"
  BY <1>2 DEF MainJobs, Marking
<1>4. tail[j] \notin {"cross_failed", "lookup_failed"} => MarkAs(tail[j]) # "Failed"
  BY <1>2 DEF MarkAs, Marking
<1>5. tail[j] \in {"cross_failed", "lookup_failed"} => MarkAs(tail[j]) = "Failed"
  BY DEF MarkAs
<1>6. status'[d] = MarkAs(tail[j]) /\ \A e \in Doc \ {d} : status'[e] = status[e]
  BY <1>1 DEF TypeInv, TypeOK
<1>7. \A k \in Job : Live(k)' \subseteq Live(k)
  BY <1>2, <1>6, LiveShrinks DEF Live
<1>8. \A k \in Job \ {j} : Live(k)' = Live(k) /\ todo'[k] = todo[k]
  BY <1>1, <1>2, <1>6 DEF Live, Own, TypeInv, TypeOK
<1>9. todo'[j] = todo[j] \ {d}
  BY <1>1 DEF TypeInv, TypeOK
<1>10. MainJobs'
  BY <1>1 DEF MainJobs, Own
<1>11. FailedLeftAlone'
  <2>1. \A k \in Job : \A e \in Own(k) : head'[k][e] \in Working => status'[e] # "Failed"
    <3>1. ASSUME NEW k \in Job, NEW e \in Own(k), head[k][e] \in Working PROVE e # d
      BY <3>1, <1>2, <1>3 DEF Own, Working
    <3>2. QED
      BY <3>1, <1>1, <1>6 DEF FailedLeftAlone, Own
  <2>2. todo'[j] \subseteq Live(j)'
    BY <1>6, <1>9 DEF FailedLeftAlone, Live, Own
  <2>3. \A k \in Job : todo'[k] \subseteq Live(k)'
    BY <2>2, <1>8 DEF FailedLeftAlone
  <2>4. QED
    BY <2>1, <2>3 DEF FailedLeftAlone, Own
<1>12. HeadsLeave'
  <2>1. ASSUME NEW k \in Job, NEW e \in Own(k) PROVE ChainLeaves(k, e)'
    <3>1. ChainLeaves(k, e) /\ e \in Doc
      BY <2>1 DEF HeadsLeave, Own
    <3>2. CASE e = d
      <4>1. k = j
        BY <3>2, <2>1, <1>2 DEF Own
      <4>2. d \in extracted /\ (tail[j] \notin {"end", "dead", "lost"} => d \in files)
        BY <3>1, <3>2, <4>1, <1>2, <1>3 DEF ChainLeaves, Live
      <4>3. QED
        BY <4>1, <4>2, <3>2, <1>1, <1>3 DEF ChainLeaves
    <3>3. CASE e # d
      BY <3>1, <3>3, <1>1, <1>6 DEF ChainLeaves
    <3>4. QED
      BY <3>2, <3>3
  <2>2. QED
    BY <2>1 DEF HeadsLeave, Own
<1>13. TailsLeave'
  <2>1. ASSUME NEW k \in Job \ {j} PROVE TailLeaves(k)'
    <3>1. TailLeaves(k) /\ Own(k)' = Own(k)
      BY DEF TailsLeave, Own
    <3>2. QED
      BY <3>1, <1>1, <1>8 DEF TailLeaves
  <2>2. TailLeaves(j)'
    <3>1. TailLeaves(j) /\ Own(j)' = Own(j) /\ Live(j)' \subseteq Live(j)
      BY <1>7 DEF TailsLeave, Own
    <3>2. tail[j] \in {"cross_failed", "lookup_failed"} => Live(j)' \subseteq todo'[j]
      BY <3>1, <1>5, <1>6, <1>9 DEF TailLeaves, Live
    <3>3. QED
      BY <3>1, <3>2, <1>1 DEF TailLeaves
  <2>3. QED
    BY <2>1, <2>2 DEF TailsLeave
<1>14. PairsCovered'
  BY <1>1, <1>7, KeepsPairsCovered
<1>15. QED
  BY <1>10, <1>11, <1>12, <1>13, <1>14

\* A process that dies loses its step: the run never goes on.
LEMMA CrashOutcome ==
  ASSUME TypeInv, OutcomeInv, NEW j \in Job, OtherMove(j), Retry = {}
  PROVE  OutcomeInv'
<1> USE DEF OutcomeInv
<1>1. CASE CrashTail(j)
  <2>1. /\ UNCHANGED <<status, docs, head, input, pairs, extracted, compared, looked, files, merged>>
        /\ \A k \in Job \ {j} : tail'[k] = tail[k] /\ todo'[k] = todo[k]
        /\ tail'[j] = "lost" /\ todo'[j] = {}
        /\ tail[j] # "blocked"
    BY <1>1 DEF CrashTail, graphVars, dirVars, TypeInv, TypeOK, CrossBody, LookupBody, RetrySteps
  <2>2. \A k \in Job : Live(k)' = Live(k) /\ Own(k)' = Own(k)
    BY <2>1 DEF Live, Own
  <2>3. MainJobs'
    BY <2>1, <2>2 DEF MainJobs, Own, RetrySteps
  <2>4. FailedLeftAlone'
    BY <2>1, <2>2 DEF FailedLeftAlone, Own
  <2>5. HeadsLeave'
    <3>1. ASSUME NEW k \in Job, NEW e \in Own(k) PROVE ChainLeaves(k, e)'
      <4>1. ChainLeaves(k, e)
        BY DEF HeadsLeave
      <4>2. QED
        BY <4>1, <2>1 DEF ChainLeaves
    <3>2. QED
      BY <3>1, <2>2 DEF HeadsLeave
  <2>6. TailsLeave'
    <3>1. ASSUME NEW k \in Job PROVE TailLeaves(k)'
      <4>1. TailLeaves(k)
        BY DEF TailsLeave
      <4>2. QED
        BY <4>1, <2>1, <2>2 DEF TailLeaves
    <3>2. QED
      BY <3>1 DEF TailsLeave
  <2>7. PairsCovered'
    BY <2>1, <2>2, KeepsPairsCovered DEF Listed
  <2>8. QED
    BY <2>3, <2>4, <2>5, <2>6, <2>7
<1>2. ASSUME NEW d \in Doc, CrashHead(j, d) PROVE OutcomeInv'
  <2>1. /\ UNCHANGED <<status, docs, tail, todo, input, pairs, extracted, compared, looked, files, merged>>
        /\ head' = [head EXCEPT ![j][d] = "lost"]
        /\ head[j][d] \notin {"none", "done"}
    BY <1>2 DEF CrashHead, graphVars, dirVars
  <2>2. d \in Own(j) /\ tail[j] = "blocked"
    BY <2>1 DEF MainJobs
  <2>3. \A k \in Job : \A e \in Doc : <<k, e>> # <<j, d>> => head'[k][e] = head[k][e]
    BY <2>1 DEF TypeInv, TypeOK
  <2>4. head'[j][d] = "lost"
    BY <2>1 DEF TypeInv, TypeOK
  <2>5. \A k \in Job : Live(k)' = Live(k) /\ Own(k)' = Own(k)
    BY <2>1 DEF Live, Own
  <2>6. MainJobs'
    BY <2>1, <2>2, <2>3 DEF MainJobs, Own
  <2>7. FailedLeftAlone'
    <3>1. \A k \in Job : \A e \in Own(k) : head'[k][e] \in Working => head'[k][e] = head[k][e]
      BY <2>3, <2>4 DEF Own, Working
    <3>2. QED
      BY <3>1, <2>1, <2>5 DEF FailedLeftAlone
  <2>8. HeadsLeave'
    <3>1. ASSUME NEW k \in Job, NEW e \in Own(k) PROVE ChainLeaves(k, e)'
      <4>1. ChainLeaves(k, e) /\ e \in Doc
        BY DEF HeadsLeave, Own
      <4>2. CASE <<k, e>> = <<j, d>>
        BY <4>2, <2>4 DEF ChainLeaves
      <4>3. CASE <<k, e>> # <<j, d>>
        BY <4>1, <4>3, <2>1, <2>3 DEF ChainLeaves
      <4>4. QED
        BY <4>2, <4>3
    <3>2. QED
      BY <3>1, <2>5 DEF HeadsLeave
  <2>9. TailsLeave' /\ PairsCovered'
    BY <2>1, <2>5, KeepsTailLeaves, KeepsPairsCovered
  <2>10. QED
    BY <2>6, <2>7, <2>8, <2>9
<1>3. CASE RetryReset(j) \/ RetryEnqueue(j)
  BY <1>3 DEF RetryReset, RetryEnqueue, MainJobs, RetrySteps
<1>4. ASSUME NEW d \in Doc, RetryCheck(j, d) PROVE OutcomeInv'
  BY <1>4 DEF RetryCheck
<1>5. QED
  BY <1>1, <1>2, <1>3, <1>4 DEF OtherMove

LEMMA StillOutcome ==
  ASSUME OutcomeInv, UNCHANGED <<status, jobVars, graphVars, dirVars>>
  PROVE  OutcomeInv'
<1> USE DEF OutcomeInv, jobVars, graphVars, dirVars
<1>1. \A k \in Job : Live(k)' = Live(k) /\ Own(k)' = Own(k)
  BY DEF Live, Own
<1>2. MainJobs' /\ FailedLeftAlone'
  BY <1>1 DEF MainJobs, FailedLeftAlone, Own
<1>3. HeadsLeave'
  BY <1>1 DEF HeadsLeave, ChainLeaves
<1>4. TailsLeave' /\ PairsCovered'
  BY <1>1, KeepsTailLeaves, KeepsPairsCovered
<1>5. QED
  BY <1>2, <1>3, <1>4

LEMMA StepOutcomeInv == Retry = {} /\ TypeInv /\ OutcomeInv /\ [Next]_vars => OutcomeInv'
<1> SUFFICES ASSUME Retry = {}, TypeInv, OutcomeInv, [Next]_vars PROVE OutcomeInv'
  OBVIOUS
<1>1. CASE Expire \/ UNCHANGED vars
  BY <1>1, StillOutcome DEF Expire, vars
<1>2. ASSUME NEW j \in Job, TailMove(j) \/ OtherMove(j) PROVE OutcomeInv'
  BY <1>2, TailOutcome, CrashOutcome
<1>3. ASSUME NEW j \in Job, NEW d \in Doc, Mark(j, d) \/ HeadNext(j, d) PROVE OutcomeInv'
  BY <1>3, MarkOutcome, HeadOutcome
<1>4. QED
  BY <1>1, <1>2, <1>3, NextCases

LEMMA AlwaysOutcomeInv == Retry = {} => (Spec => []OutcomeInv)
<1> SUFFICES ASSUME Retry = {} PROVE Spec => []OutcomeInv
  OBVIOUS
<1>1. Init => OutcomeInv
  BY InitOutcomeInv
<1>2. TypeInv /\ OutcomeInv /\ [Next]_vars => OutcomeInv'
  BY StepOutcomeInv
<1>3. QED
  BY <1>1, <1>2, AlwaysTypeInv, PTL DEF Spec

(***************************************************************************)
(* Without retries, when everything has ended, a document shown as Done    *)
(* has its statements in the curation graph and went through the lookup:   *)
(* for any number of runs, also when processes die, alignments fail and    *)
(* the lock expires under its holder.                                      *)
(***************************************************************************)
THEOREM DoneMeansProcessed == Retry = {} => (Spec => []DoneIsProcessed)
<1> SUFFICES ASSUME Retry = {} PROVE Spec => []DoneIsProcessed
  OBVIOUS
<1>1. OutcomeInv => DoneIsProcessed
  <2> SUFFICES ASSUME OutcomeInv, Quiet, NEW d \in Doc, status[d] = "Done"
               PROVE  d \in extracted \cap looked
    BY DEF DoneIsProcessed
  <2>1. RunOf[d] \in Job /\ d \in Own(RunOf[d]) /\ d \in Live(RunOf[d])
    BY PipelineAssumption DEF Job, Own, Live
  <2>2. tail[RunOf[d]] = "end"
    BY <2>1 DEF Quiet, OutcomeInv, MainJobs, TailsLeave, TailLeaves
  <2>3. \A e \in Own(RunOf[d]) : head[RunOf[d]][e] = "done"
    BY <2>1, <2>2 DEF OutcomeInv, MainJobs
  <2>4. d \in extracted
    BY <2>1, <2>3, LiveLeaves
  <2>5. QED
    BY <2>1, <2>2, <2>4 DEF OutcomeInv, TailsLeave, TailLeaves
<1>2. QED
  BY <1>1, AlwaysOutcomeInv, PTL

(***************************************************************************)
(* Without retries, when everything has ended, any two documents shown as  *)
(* Done have been compared: of two runs the one that lists its pairs later *)
(* finds what the other extracted. It does not take the lock for that.     *)
(***************************************************************************)
THEOREM DoneMeansCompared == Retry = {} => (Spec => []DonePairsCompared)
<1> SUFFICES ASSUME Retry = {} PROVE Spec => []DonePairsCompared
  OBVIOUS
<1>1. OutcomeInv => DonePairsCompared
  <2> SUFFICES ASSUME OutcomeInv, Quiet, NEW d \in Doc, NEW e \in Doc,
                      status[d] = "Done", status[e] = "Done", d # e
               PROVE  {d, e} \in compared
    BY DEF DonePairsCompared
  <2>1. \A x \in {d, e} : RunOf[x] \in Job /\ x \in Live(RunOf[x])
    BY PipelineAssumption DEF Job, Own, Live
  <2>2. \A x \in {d, e} : tail[RunOf[x]] = "end"
    BY <2>1 DEF Quiet, OutcomeInv, MainJobs, TailsLeave, TailLeaves
  <2>3. PairCovered(RunOf[d], RunOf[e], {d, e})
    BY <2>1, <2>2 DEF OutcomeInv, PairsCovered, Listed
  <2>4. QED
    BY <2>2, <2>3 DEF PairCovered
<1>2. QED
  BY <1>1, AlwaysOutcomeInv, PTL

\* Without retries no step takes a document out of Failed.
LEMMA StepFailedStays ==
  ASSUME Retry = {}, TypeInv, OutcomeInv, [Next]_vars, NEW d \in Doc, status[d] = "Failed"
  PROVE  status'[d] = "Failed"
<1>1. CASE Expire \/ UNCHANGED vars
  BY <1>1 DEF Expire, vars
<1>2. ASSUME NEW j \in Job, TailMove(j) PROVE status' = status
  BY <1>2 DEF TailMove, SkipCross, StartCross, Compare, FilterExisting, WriteAlignments, FailCross,
       Release, StartLookup, ListLookup, Lookup, Cleanup, RetryDelete, TailGoes
<1>3. ASSUME NEW j \in Job, OtherMove(j) PROVE status' = status
  BY <1>3 DEF OtherMove, RetryReset, RetryEnqueue, RetryCheck, CrashTail, CrashHead, OutcomeInv,
       MainJobs, RetrySteps
<1>4. ASSUME NEW j \in Job, NEW e \in Doc, Mark(j, e) PROVE status'[d] = "Failed"
  BY <1>4 DEF Mark, Set, OutcomeInv, FailedLeftAlone, Live, TypeInv, TypeOK
<1>5. ASSUME NEW j \in Job, NEW e \in Doc, HeadNext(j, e) PROVE status'[d] = "Failed"
  BY <1>5, HeadEffect DEF OutcomeInv
<1>6. QED
  BY <1>1, <1>2, <1>3, <1>4, <1>5, NextCases

FailedStep ==
  \A d \in Doc : status[d] = "Failed" /\ status'[d] # "Failed" => \E j \in Retry : Resetting(j, d)

(***************************************************************************)
(* A document that failed in a run that is never retried stays Failed: the *)
(* later tasks of its chain skip it and no update_all writes its row.      *)
(***************************************************************************)
THEOREM FailedForGood == Retry = {} => (Spec => FailedUntilRetry)
<1> SUFFICES ASSUME Retry = {} PROVE Spec => FailedUntilRetry
  OBVIOUS
<1>1. TypeInv /\ OutcomeInv /\ [Next]_vars => [FailedStep]_vars
  BY StepFailedStays DEF FailedStep
<1>2. Spec => []OutcomeInv
  BY AlwaysOutcomeInv
<1>3. Spec => [][FailedStep]_vars
  BY <1>1, <1>2, AlwaysTypeInv, PTL DEF Spec
<1>4. [][FailedStep]_vars => FailedUntilRetry
  BY DEF FailedUntilRetry, FailedStep
<1>5. QED
  BY <1>3, <1>4, PTL
=============================================================================
