------------------------------ MODULE Library ------------------------------
(***************************************************************************)
(* Searching a workspace and resolving citations while ingestion works on  *)
(* its documents (app/retrieval/service.py, app/db/repositories/chunks.py, *)
(* app/citations, app/routes/citations.py).                                *)
(*                                                                         *)
(* A request is one transaction under READ COMMITTED, so each of its       *)
(* statements sees what is committed by then: a step per statement.        *)
(* Requests write nothing that another one reads, so one client and its    *)
(* requests, one after the other, stand for all of them.  A set of chunk   *)
(* rows is one chunk, a text a sequence of words.  The dense search finds  *)
(* nothing here: no stage of ingestion stores embeddings yet.              *)
(***************************************************************************)
EXTENDS Corpus, Sequences, FiniteSets

CONSTANTS
    Workspaces, Nowhere,
    Texts,          \* what the chunks may say
    Queries,        \* sets of search terms
    NoDoc,          \* no document_id filter
    Limit,          \* candidate_limit
    Forgeries,      \* bound: references that no answer gave
    NoReference,
    MaxSets         \* bound: times the rows of one document are replaced

ASSUME LibraryAssumption ==
    /\ Nowhere \notin Workspaces
    /\ Limit \in Nat \ {0} /\ MaxSets \in Nat
    /\ IsFiniteSet(Docs)
    /\ NoRows = [id |-> 0, text |-> <<>>]
    /\ \A t \in Texts : Len(t) \in Nat

VARIABLES
    home,       \* documents.workspace_id
    enforced,   \* the database role obeys row-level security
    setting,    \* app.workspace_id of the open transaction
    pc,         \* the statement of the request that runs next
    workspace,  \* the workspace of the request's context
    query, only,    \* search terms and document filter
    candidates,     \* chunk ids that the search selected
    served,     \* chunks returned
    reference,  \* the citation to resolve
    outcome,    \* what resolving it gave, and the citation.resolve record of it
    held,       \* a citation the client has from an earlier search
    \* bookkeeping that no code reads
    sinceSearch, sinceLoad, \* documents changed since selection, since hydration
    moved       \* the document of the citation held has changed since

request == <<setting, pc, workspace, query, only, candidates, served, reference, outcome>>
changes == <<sinceSearch, sinceLoad, moved>>
fixed == <<home, enforced>>
library == <<corpus, fixed, request, held, changes>>

Outcomes == {"none", "resolved", "citation_not_found", "citation_out_of_range",
             "citation_quote_mismatch"}

Elements(s) == {s[i] : i \in DOMAIN s}

LibraryInit ==
    /\ CorpusInit
    /\ home \in [Docs -> Workspaces]
    /\ enforced \in BOOLEAN
    /\ setting = Nowhere
    /\ pc = "idle" /\ workspace = Nowhere
    /\ query = {} /\ only = NoDoc
    /\ candidates = {} /\ served = {}
    /\ reference = NoReference /\ outcome = "none"
    /\ held = NoReference
    /\ sinceSearch = {} /\ sinceLoad = {} /\ moved = FALSE

-----------------------------------------------------------------------------
(* The worker. *)

\* Fault: the new rows take the ids of the old ones.
RecycledRows(d, text) == [id |-> 1, text |-> text]

\* New chunk rows get new ids.
NewRows(d, text) == [id |-> rows[d].id + 1, text |-> text]

Ingest(d) ==
    /\ \/ TakeUp(d)
       \/ rows[d].id < MaxSets /\ \E t \in Texts : ReplaceRows(d, NewRows(d, t))
       \/ \E o \in {"ready", "quarantined", "failed"} : doc[d] # o /\ Settle(d, o)
    /\ sinceSearch' = IF pc \in {"load", "respond"} THEN sinceSearch \cup {d} ELSE {}
    /\ sinceLoad' = IF pc = "respond" THEN sinceLoad \cup {d} ELSE {}
    /\ moved' = (moved \/ (held # NoReference /\ held.doc = d))
    /\ UNCHANGED <<fixed, request, held>>

-----------------------------------------------------------------------------
(* What a statement of the request sees. *)

\* The policies of migration 0003 on documents and chunks.
Visible(d) == enforced => home[d] = setting

\* Fault: the workspace filter is left to the policies.
OwnByPolicy(d) == TRUE

\* The workspace filter of the repositories.
Own(d) == home[d] = workspace

Readable(d) == Visible(d) /\ Own(d) /\ doc[d] = "ready" /\ rows[d] # NoRows

Chunk(d) == [doc |-> d, id |-> rows[d].id]

-----------------------------------------------------------------------------
(* A search: routes/retrieval.py, or the first statements of an answer. *)

\* The context proves the membership and binds the workspace to the transaction.
OpenSearch(w, terms, d) ==
    /\ pc = "idle"
    /\ pc' = "select"
    /\ workspace' = w /\ setting' = w
    /\ query' = terms /\ only' = d
    /\ UNCHANGED <<corpus, fixed, candidates, served, reference, outcome, held, changes>>

Matching == {d \in Docs : /\ Readable(d)
                          /\ only \in {NoDoc, d}
                          /\ query \cap Elements(rows[d].text) # {}}

\* lexical_search: the best `limit` matches; which ones rank best is left open.
Select ==
    /\ pc = "select"
    /\ \E best \in SUBSET Matching :
         /\ Cardinality(best) = IF Cardinality(Matching) < Limit
                                THEN Cardinality(Matching) ELSE Limit
         /\ candidates' = {Chunk(d) : d \in best}
    /\ pc' = "load"
    /\ sinceSearch' = {}
    /\ UNCHANGED <<corpus, fixed, setting, workspace, query, only, served, reference,
                   outcome, held, sinceLoad, moved>>

\* Fault: the candidates were READY when they were selected.
LoadByIds ==
    /\ pc = "load"
    /\ served' = {[doc |-> d, id |-> rows[d].id, text |-> rows[d].text] :
                     d \in {e \in Docs : Visible(e) /\ Own(e) /\ Chunk(e) \in candidates}}
    /\ candidates' = {}
    /\ pc' = "respond"
    /\ sinceLoad' = {}
    /\ UNCHANGED <<corpus, fixed, setting, workspace, query, only, reference, outcome,
                   held, sinceSearch, moved>>

\* _hydrate: the rows of the candidates that are there and READY now.
Load ==
    /\ pc = "load"
    /\ served' = {[doc |-> d, id |-> rows[d].id, text |-> rows[d].text] :
                     d \in {e \in Docs : Readable(e) /\ Chunk(e) \in candidates}}
    /\ candidates' = {}
    /\ pc' = "respond"
    /\ sinceLoad' = {}
    /\ UNCHANGED <<corpus, fixed, setting, workspace, query, only, reference, outcome,
                   held, sinceSearch, moved>>

\* A citation of a span of a chunk, with its words; offsets count from zero.
Citing(c, from, to) ==
    [doc |-> c.doc, id |-> c.id, quote |-> SubSeq(c.text, from + 1, to), from |-> from, to |-> to]

\* Fault: the setting belongs to the connection, which goes back to the pool.
CloseWithSetting ==
    /\ pc' = "idle" /\ UNCHANGED setting /\ workspace' = Nowhere
    /\ query' = {} /\ only' = NoDoc
    /\ candidates' = {} /\ served' = {}
    /\ reference' = NoReference /\ outcome' = "none"
    /\ sinceSearch' = {} /\ sinceLoad' = {}

\* The transaction is over, and with it the setting and all the request knew.
Close ==
    /\ pc' = "idle" /\ setting' = Nowhere /\ workspace' = Nowhere
    /\ query' = {} /\ only' = NoDoc
    /\ candidates' = {} /\ served' = {}
    /\ reference' = NoReference /\ outcome' = "none"
    /\ sinceSearch' = {} /\ sinceLoad' = {}

\* The client may keep a citation.
Respond ==
    /\ pc = "respond"
    /\ \/ UNCHANGED <<held, moved>>
       \/ \E c \in served : \E from \in 0..(Len(c.text) - 1) : \E to \in (from + 1)..Len(c.text) :
            /\ held' = Citing(c, from, to)
            /\ moved' = (c.doc \in sinceLoad)
    /\ Close
    /\ UNCHANGED <<corpus, fixed>>

-----------------------------------------------------------------------------
(* Resolving a citation: routes/citations.py. *)

OpenResolve(w, ref) ==
    /\ pc = "idle"
    /\ ref # NoReference
    /\ pc' = "resolve"
    /\ workspace' = w /\ setting' = w
    /\ reference' = ref
    /\ UNCHANGED <<corpus, fixed, query, only, candidates, served, outcome, held, changes>>

\* get_provenance finds the chunk and it belongs to the version that is named.
Found(ref) == \E d \in Docs : /\ Readable(d)
                              /\ Chunk(d).id = ref.id /\ d = ref.doc

Resolution(ref) ==
    IF ~Found(ref) THEN "citation_not_found"
    ELSE LET text == rows[ref.doc].text IN
         IF ~(0 <= ref.from /\ ref.from < ref.to /\ ref.to <= Len(text))
         THEN "citation_out_of_range"
         ELSE IF SubSeq(text, ref.from + 1, ref.to) # ref.quote
         THEN "citation_quote_mismatch"
         ELSE "resolved"

\* One read and the audit record; a rejection is returned, so the record commits.
Resolve ==
    /\ pc = "resolve"
    /\ outcome' = Resolution(reference)
    /\ pc' = "commit"
    /\ UNCHANGED <<corpus, fixed, setting, workspace, query, only, candidates, served,
                   reference, held, changes>>

CommitResolve ==
    /\ pc = "commit"
    /\ Close
    /\ UNCHANGED <<corpus, fixed, held, moved>>

\* Any statement may fail: the transaction is rolled back and nothing is answered.
FailRequest ==
    /\ pc # "idle"
    /\ Close
    /\ UNCHANGED <<corpus, fixed, held, moved>>

LibraryNext ==
    \/ \E d \in Docs : Ingest(d)
    \/ \E w \in Workspaces, terms \in Queries, d \in Docs \cup {NoDoc} : OpenSearch(w, terms, d)
    \/ Select \/ Load \/ Respond
    \/ \E w \in Workspaces, ref \in Forgeries \cup {held} : OpenResolve(w, ref)
    \/ Resolve \/ CommitResolve
    \/ FailRequest

LibrarySpec == LibraryInit /\ [][LibraryNext]_library

-----------------------------------------------------------------------------
(* Properties. *)

\* The request's fields, and rows that only documents with a finished stage have.
LibraryTypeOK ==
    /\ screened \in SUBSET Docs
    /\ doc \in [Docs -> DocStatuses]
    /\ rows \in [Docs -> [id : 1..MaxSets, text : Texts] \cup {NoRows}]
    /\ setting = workspace /\ (pc = "idle" <=> workspace = Nowhere)
    /\ pc \in {"idle", "select", "load", "respond", "resolve", "commit"}
    /\ candidates \subseteq [doc : Docs, id : 1..MaxSets]
    /\ Cardinality(candidates) <= Limit /\ Cardinality(served) <= Limit
    /\ outcome \in Outcomes

\* The two statements of a search together return what one would have: a document that
\* ingestion has not touched since is served only if it is READY, with its rows as they
\* are, and one it has not touched since the first is not missed, unless more documents
\* match than the limit admits (retrieval/service.py:_hydrate "closes the race").
SearchIsExact ==
    pc = "respond" =>
        /\ \A c \in served : c.doc \notin sinceLoad =>
              doc[c.doc] = "ready" /\ rows[c.doc] = [id |-> c.id, text |-> c.text]
        /\ \A d \in Matching \ sinceSearch :
              \/ d \in {c.doc : c \in served}
              \/ Cardinality(Matching \cup sinceSearch) > Limit

\* Whatever is served, resolved or told apart belongs to the workspace that was asked: of
\* another workspace's chunk a client learns nothing but "not found", whether row-level
\* security is in force or not (citations/types.py, db/repositories/base.py).
OwnWorkspaceOnly ==
    /\ pc = "respond" => \A c \in served : home[c.doc] = workspace
    /\ outcome \notin {"none", "citation_not_found"} => home[reference.doc] = workspace

\* A citation that a search gave keeps its meaning: asked for again in its workspace it
\* resolves to the same words or is not found, never to others, and it is found as long
\* as ingestion leaves the document alone (citations/resolver.py).
CitationsHold ==
    pc = "commit" /\ reference = held /\ home[held.doc] = workspace =>
        /\ outcome \in {"resolved", "citation_not_found"}
        /\ outcome = "citation_not_found" => moved
=============================================================================
