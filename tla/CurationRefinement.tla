------------------------- MODULE CurationRefinement -------------------------
(***************************************************************************)
(* A single curator whose requests run to the end and carry valid edits    *)
(* gets what StatementLedger promises. An operation takes effect with the  *)
(* first request that depends on its outcome: for accept the update, for   *)
(* the others the delete from the data graph or, when there is nothing to  *)
(* delete, the last load.                                                  *)
(***************************************************************************)
EXTENDS Curation

\* The version of statement o, as the requests in progress will leave it.
Changing(c, o) ==
  req[c].pc \in {"retire", "insert"} /\ \E v \in Target(c) : req[c].load[v].root = o

LatestVersion(o) ==
  IF \E c \in Curator : Changing(c, o)
    THEN LET c == CHOOSE c \in Curator : Changing(c, o)
         IN  NewVersion(c, CHOOSE v \in Target(c) : TRUE)
    ELSE ver[CHOOSE v \in Chain(o) : ver[v].current]

LatestEntries ==
  [o \in Original |->
     [triple |-> LatestVersion(o).triple, status |-> LatestVersion(o).status]]

Ledger == INSTANCE StatementLedger WITH
  Statement <- Original,
  entry <- LatestEntries,
  graph <- data

(***************************************************************************)
(* The versions, the flags and the separate SPARQL requests implement the  *)
(* ledger: every step of an operation changes the current statement and    *)
(* the final knowledge graph together, or neither.                         *)
(***************************************************************************)
ImplementsLedger == Ledger!LedgerSpec
=============================================================================
