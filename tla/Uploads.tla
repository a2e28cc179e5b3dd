------------------------------ MODULE Uploads ------------------------------
(***************************************************************************)
(* Concurrent uploads to one workspace: validation, deduplication, quotas, *)
(* the rows, the object and the message (app/documents/service.py,         *)
(* app/documents/validation.py, app/routes/documents.py).  What happens to *)
(* the job afterwards is module Ingestion.                                 *)
(*                                                                         *)
(* An upload is one transaction under READ COMMITTED, a step per           *)
(* statement: it sees the rows that are committed, and its own are seen    *)
(* only once it commits.  No constraint of the tables forbids two          *)
(* documents with the same hash, and nothing locks what is counted.        *)
(***************************************************************************)
EXTENDS Integers, FiniteSets, FiniteSetsExt

CONSTANTS
    Uploaders,      \* concurrent requests
    Ids,            \* bound: ids that the uploads may take, natural numbers
    MaxLost,        \* bound: ids that rollbacks lose
    Files,          \* what clients may send (see FileType)
    MaxBytes,       \* max_upload_bytes
    MaxDocuments,   \* workspace_max_documents
    MaxStorage      \* workspace_storage_quota_bytes

\* How an extension, the declared MIME type and the bytes may tell a kind.
DocumentKinds == {"pdf", "text", "markdown", "docx"}
AcceptedMime == [pdf |-> {"pdf"}, text |-> {"plain"}, markdown |-> {"markdown", "plain"},
                 docx |-> {"docx"}]

\* The name is usable, the kind its extension stands for, the MIME type declared, the
\* kinds the bytes can be, their size and their hash.
FileType == [named : BOOLEAN, kind : DocumentKinds \cup {"other"},
             mime : {"pdf", "plain", "markdown", "docx", "other"},
             looks : SUBSET DocumentKinds, size : Nat, sha256 : Nat]

ASSUME UploadsAssumption ==
    /\ Files \subseteq FileType
    /\ IsFiniteSet(Uploaders) /\ Uploaders # {}
    /\ Ids \subseteq Nat
    /\ MaxBytes \in Nat /\ MaxLost \in Nat /\ MaxDocuments \in Nat /\ MaxStorage \in Nat

NoFile == [size |-> 0, sha256 |-> -1]
NoId == -1

VARIABLES
    at,         \* the statement of each upload that runs next
    file,       \* the file of each upload
    mine,       \* the document that each upload has inserted
    stored,     \* documents committed, with their files
    taken,      \* ids that no other document will have
    objects,    \* objects in the store: the document each key names, and its bytes
    messages    \* documents whose job is on the queue

uploads == <<at, file, mine, stored, taken, objects, messages>>

Places == {"idle", "dedup", "count", "bytes", "insert", "put", "enqueue", "commit"}
Documents == DOMAIN stored

UploadsInit ==
    /\ at = [u \in Uploaders |-> "idle"]
    /\ file = [u \in Uploaders |-> NoFile]
    /\ mine = [u \in Uploaders |-> NoId]
    /\ stored = [d \in {} |-> NoFile]
    /\ taken = {}
    /\ objects = [d \in {} |-> 0]
    /\ messages = {}

-----------------------------------------------------------------------------
(* Validation: enforce_size_cap and validate_upload, before any statement. *)

\* Fault: only an empty file is refused.
VerifiedTrusting(f) == f.size > 0

\* The bytes are what the name and the declared type claim (verify_content).
Verified(f) == f.size > 0 /\ f.kind \in f.looks

Accepted(f) ==
    /\ f.size <= MaxBytes
    /\ f.named /\ f.kind # "other" /\ f.mime \in AcceptedMime[f.kind]
    /\ Verified(f)

\* A file that is rejected leaves nothing behind.
Open(u, f) ==
    /\ at[u] = "idle"
    /\ Accepted(f)
    /\ at' = [at EXCEPT ![u] = "dedup"]
    /\ file' = [file EXCEPT ![u] = f]
    /\ UNCHANGED <<mine, stored, taken, objects, messages>>

-----------------------------------------------------------------------------
(* store_new_document, statement by statement. *)

Goto(u, place) ==
    /\ at' = [at EXCEPT ![u] = place]
    /\ UNCHANGED <<file, mine, stored, taken, objects, messages>>

\* The exception rolls the transaction back; the object, if it is put, stays.
RollBack(u) ==
    /\ at' = [at EXCEPT ![u] = "idle"]
    /\ file' = [file EXCEPT ![u] = NoFile]
    /\ mine' = [mine EXCEPT ![u] = NoId]
    /\ UNCHANGED <<stored, taken, objects, messages>>

\* Fault: only the documents with another size are looked at.
CopiesOfOther(f) == {d \in Documents : stored[d].sha256 = f.sha256 /\ stored[d].size # f.size}

\* get_by_sha256
CopiesOf(f) == {d \in Documents : stored[d].sha256 = f.sha256}

Deduplicate(u) ==
    /\ at[u] = "dedup"
    /\ IF CopiesOf(file[u]) # {} THEN RollBack(u) ELSE Goto(u, "count")

\* Fault: a full workspace admits one more.
FullLate == Cardinality(Documents) > MaxDocuments

Full == Cardinality(Documents) >= MaxDocuments

CountDocuments(u) ==
    /\ at[u] = "count"
    /\ IF Full THEN RollBack(u) ELSE Goto(u, "bytes")

Bytes(docs) == MapThenSumSet(LAMBDA d : stored[d].size, docs)

\* Fault: the bytes that come are not counted.
OverQuotaAlready(incoming) == Bytes(Documents) > MaxStorage

OverQuota(incoming) == Bytes(Documents) + incoming > MaxStorage

CountBytes(u) ==
    /\ at[u] = "bytes"
    /\ IF OverQuota(file[u].size) THEN RollBack(u) ELSE Goto(u, "insert")

\* The document and its first version; the storage key is made of the new id.
Insert(u) ==
    /\ at[u] = "insert"
    /\ \E d \in Ids \ taken :
         /\ \A e \in Ids \ taken : d <= e
         /\ mine' = [mine EXCEPT ![u] = d]
         /\ taken' = taken \cup {d}
    /\ at' = [at EXCEPT ![u] = "put"]
    /\ UNCHANGED <<file, stored, objects, messages>>

\* Fault: the store is written after the response, if at all.
PutLater(u) ==
    /\ at[u] = "put"
    /\ Goto(u, "enqueue")

Put(u) ==
    /\ at[u] = "put"
    /\ objects' = [d \in DOMAIN objects \cup {mine[u]} |->
                      IF d = mine[u] THEN file[u].sha256 ELSE objects[d]]
    /\ at' = [at EXCEPT ![u] = "enqueue"]
    /\ UNCHANGED <<file, mine, stored, taken, messages>>

\* The audit record and the job, and the message ahead of the commit.
Enqueue(u) ==
    /\ at[u] = "enqueue"
    /\ messages' = messages \cup {mine[u]}
    /\ at' = [at EXCEPT ![u] = "commit"]
    /\ UNCHANGED <<file, mine, stored, taken, objects>>

Commit(u) ==
    /\ at[u] = "commit"
    /\ stored' = [d \in Documents \cup {mine[u]} |->
                     IF d = mine[u] THEN file[u] ELSE stored[d]]
    /\ at' = [at EXCEPT ![u] = "idle"]
    /\ file' = [file EXCEPT ![u] = NoFile]
    /\ mine' = [mine EXCEPT ![u] = NoId]
    /\ UNCHANGED <<taken, objects, messages>>

Lost == {d \in taken \ Documents : \A u \in Uploaders : mine[u] # d}

\* The client goes away, or a statement, the store or the queue fails.
Abort(u) ==
    /\ at[u] # "idle"
    /\ mine[u] = NoId \/ Cardinality(Lost) < MaxLost
    /\ RollBack(u)

Upload(u) ==
    \/ \E f \in Files : Open(u, f)
    \/ Deduplicate(u) \/ CountDocuments(u) \/ CountBytes(u)
    \/ Insert(u) \/ Put(u) \/ Enqueue(u) \/ Commit(u)
    \/ Abort(u)

UploadsNext == \E u \in Uploaders : Upload(u)

UploadsSpec == UploadsInit /\ [][UploadsNext]_uploads

-----------------------------------------------------------------------------
(* Properties. *)

UploadsTypeOK ==
    /\ at \in [Uploaders -> Places]
    /\ file \in [Uploaders -> Files \cup {NoFile}]
    /\ mine \in [Uploaders -> Ids \cup {NoId}]
    /\ Documents \subseteq Ids /\ \A d \in Documents : stored[d] \in Files
    /\ taken \subseteq Ids
    /\ DOMAIN objects \subseteq taken
    /\ messages \subseteq taken

\* Quotas are counted before the insert and nothing is locked, so uploads that run at the
\* same time can all pass.  They can exceed the limit of documents by one less than there
\* are requests at a time, and never by more, however many come one after the other
\* (enforce_workspace_quota).
DocumentQuotaBounded ==
    Cardinality(Documents) <= MaxDocuments + Cardinality(Uploaders) - 1

\* The bytes of a workspace exceed their quota by what the other requests of one moment
\* bring, at most (enforce_workspace_quota, total_size_bytes).
StorageQuotaBounded ==
    Bytes(Documents) <= MaxStorage + MaxBytes * (Cardinality(Uploaders) - 1)

\* The same bytes are stored at most once for every upload that runs at the same time
\* (DuplicateDocumentError, "the same content already exists in this workspace").
CopiesBounded ==
    \A f \in Files :
        Cardinality({d \in Documents : stored[d].sha256 = f.sha256}) <= Cardinality(Uploaders)

\* Whatever fails in whatever order, a document that is committed has its message and an
\* object with its own bytes, and the bytes are what its kind promises: no rollback and
\* no other upload takes them away (store_new_document's comment on orphaned objects).
RowsHaveObjects ==
    \A d \in Documents :
        /\ d \in messages
        /\ d \in DOMAIN objects /\ objects[d] = stored[d].sha256
        /\ stored[d].kind \in stored[d].looks
=============================================================================
