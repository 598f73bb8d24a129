--------------------------- MODULE StatementLedger ---------------------------
(***************************************************************************)
(* What the curation of statements promises, without versions and without  *)
(* requests: each extracted statement has one triple and one status, and   *)
(* accepting, rejecting, editing and resetting it change the statement and *)
(* the final knowledge graph in one step. Translated from the docstrings   *)
(* and the writes of accept_statements_bulk, reject_statement,             *)
(* edit_statement and reset_statement (backend/app/store/writer.py).       *)
(***************************************************************************)
EXTENDS Naturals, FiniteSets

CONSTANTS Statement, Triple, OriginalTriple, Edits, MaxBulk

VARIABLES
  entry,  \* the triple and the status of each statement
  graph   \* the final knowledge graph

Entry == [triple: Triple, status: {"pending", "accepted", "rejected"}]

LedgerInit ==
  /\ entry = [s \in Statement |-> [triple |-> OriginalTriple[s], status |-> "pending"]]
  /\ graph = {}

\* The triple an accepted statement gives up when it changes.
GivenUp(s) == IF entry[s].status = "accepted" THEN {entry[s].triple} ELSE {}

Accept(S) ==
  /\ S # {} /\ Cardinality(S) <= MaxBulk
  /\ entry' = [s \in Statement |->
                 IF s \in S THEN [entry[s] EXCEPT !.status = "accepted"] ELSE entry[s]]
  /\ graph' = graph \cup {entry[s].triple : s \in S}

Change(s, new) ==
  /\ entry' = [entry EXCEPT ![s] = new]
  /\ graph' = graph \ GivenUp(s)

Reject(s) == Change(s, [entry[s] EXCEPT !.status = "rejected"])

Edit(s) ==
  \E t \in Edits[s] \ {entry[s].triple} : Change(s, [entry[s] EXCEPT !.triple = t])

Reset(s) == Change(s, [triple |-> OriginalTriple[s], status |-> "pending"])

LedgerNext ==
  \/ \E S \in SUBSET Statement : Accept(S)
  \/ \E s \in Statement : Reject(s) \/ Edit(s) \/ Reset(s)

LedgerSpec == LedgerInit /\ [][LedgerNext]_<<entry, graph>>
=============================================================================
