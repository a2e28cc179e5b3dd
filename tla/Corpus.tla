------------------------------- MODULE Corpus -------------------------------
(***************************************************************************)
(* What ingestion does to a document as everybody else sees it: its status *)
(* and its set of chunk rows, committed by the workers one transaction at  *)
(* a time (app/ingestion/worker.py).  Module Ingestion implements this;    *)
(* module Library reads it.                                                *)
(*                                                                         *)
(* Nothing here keeps a finished document finished: requeue_stale can hand *)
(* it to another worker, so it may be taken up, and its rows replaced, at  *)
(* any time.                                                               *)
(***************************************************************************)
EXTENDS Integers

CONSTANTS
    Docs,
    RowSets,    \* the sets of chunk rows a document may have, with the id of each
    NoRows      \* the rows of a document that has none yet

ASSUME NoRowsAssumption == NoRows \notin RowSets

VARIABLES
    screened,   \* documents that every gate of the pipeline lets through
    doc,        \* documents.status
    rows        \* the chunk rows of the document's version

corpus == <<screened, doc, rows>>

DocStatuses == {"pending", "processing", "ready", "quarantined", "failed"}

CorpusInit ==
    /\ screened \in SUBSET Docs
    /\ doc = [d \in Docs |-> "pending"]
    /\ rows = [d \in Docs |-> NoRows]

\* _claim
TakeUp(d) ==
    /\ doc[d] # "processing"
    /\ doc' = [doc EXCEPT ![d] = "processing"]
    /\ UNCHANGED <<screened, rows>>

\* Replace all chunk rows, whatever the status is by now.
ReplaceRows(d, new) ==
    /\ doc[d] # "pending"
    /\ d \in screened
    /\ new # rows[d]
    /\ rows' = [rows EXCEPT ![d] = new]
    /\ UNCHANGED <<screened, doc>>

\* _finish, _quarantine and _fail, whatever another worker has written before.
Settle(d, outcome) ==
    /\ doc[d] # "pending"
    /\ outcome = "ready" => rows[d] # NoRows
    /\ outcome = "quarantined" => d \notin screened
    /\ doc' = [doc EXCEPT ![d] = outcome]
    /\ UNCHANGED <<screened, rows>>

CorpusNext ==
    \E d \in Docs :
        \/ TakeUp(d)
        \/ \E new \in RowSets : ReplaceRows(d, new)
        \/ \E outcome \in {"ready", "quarantined", "failed"} : Settle(d, outcome)

CorpusSpec == CorpusInit /\ [][CorpusNext]_corpus
=============================================================================
