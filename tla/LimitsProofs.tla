---------------------------- MODULE LimitsProofs ----------------------------
(***************************************************************************)
(* The limits that hold while requests run side by side: what concurrent   *)
(* uploads may add to a workspace, and what the rate limiters let in.      *)
(*                                                                         *)
(* Uploads.  A bound on the documents alone does not preserve itself: what *)
(* a commit adds depends on who has passed the count.  So each bound       *)
(* counts these too.  A request that passes finds room for one document,   *)
(* its bytes, or no copy, and all the others who have passed are less than *)
(* all the requests.  No failure parts a document from its object.         *)
(*                                                                         *)
(* RateLimit.  A deque forgets what it has popped, so the limits do not    *)
(* preserve themselves.  Kept relates a deque to all that was ever         *)
(* admitted: it holds the latest of it, and what it has lost has expired.  *)
(* The one that `max` admissions precede is among the lost when the next   *)
(* is let in.  The authentication limiter keeps this as long as only one   *)
(* thread at a time is in it; AloneInside says what that thread has found. *)
(***************************************************************************)
EXTENDS Uploads, RateLimit, DataLemmas, SequenceTheorems

-----------------------------------------------------------------------------
(* What every upload is up to, and what it has left behind.                *)

Opened == {u \in Uploaders : at[u] # "idle"}
Inserted == {u \in Uploaders : at[u] \in {"put", "enqueue", "commit"}}

\* Ids are taken once; an object is there before the message, the message before the row.
UploadsInv ==
    /\ at \in [Uploaders -> Places]
    /\ file \in [Uploaders -> Files \cup {NoFile}]
    /\ mine \in [Uploaders -> Nat \cup {NoId}]
    /\ taken \subseteq Nat
    /\ IsFiniteSet(Documents) /\ Documents \subseteq taken
    /\ \A u \in Opened : file[u] \in Files /\ Verified(file[u])
    /\ \A u \in Uploaders : mine[u] # NoId <=> u \in Inserted
    /\ \A u \in Inserted : mine[u] \in taken \ Documents
    /\ \A u, v \in Inserted : mine[u] = mine[v] => u = v
    /\ \A u \in Inserted : at[u] \in {"enqueue", "commit"} =>
          mine[u] \in DOMAIN objects /\ objects[mine[u]] = file[u].sha256
    /\ \A u \in Inserted : at[u] = "commit" => mine[u] \in messages
    /\ RowsHaveObjects

LEMMA NoIdIsNone == NoId \notin Nat
  BY DEF NoId

\* A request is rolled back, or rejected.
LEMMA RollBackKeeps ==
  ASSUME UploadsInv, NEW u \in Uploaders, RollBack(u)
  PROVE  UploadsInv'
  <1>1. /\ Opened' \subseteq Opened \ {u} /\ Inserted' = Inserted \ {u}
        /\ \A v \in Uploaders \ {u} : at'[v] = at[v] /\ file'[v] = file[v] /\ mine'[v] = mine[v]
        /\ at'[u] = "idle" /\ mine'[u] = NoId
    BY DEF UploadsInv, RollBack, Opened, Inserted
  <1>2. /\ at' \in [Uploaders -> Places] /\ file' \in [Uploaders -> Files \cup {NoFile}]
        /\ mine' \in [Uploaders -> Nat \cup {NoId}]
    BY DEF UploadsInv, RollBack, Places
  <1>3. UNCHANGED <<stored, taken, objects, messages>> /\ Documents' = Documents
    BY DEF RollBack, Documents
  <1>4. RowsHaveObjects'
    BY <1>3 DEF UploadsInv, RowsHaveObjects
  <1> QED BY <1>1, <1>2, <1>3, <1>4 DEF UploadsInv, Opened, Inserted, Verified

\* A request goes on to a statement that it may reach without an insert.
LEMMA GotoKeeps ==
  ASSUME UploadsInv, NEW u \in Opened \ Inserted, NEW p \in {"count", "bytes", "insert"},
         Goto(u, p)
  PROVE  UploadsInv'
  <1>1. /\ Opened' = Opened /\ Inserted' = Inserted
        /\ \A v \in Inserted : at'[v] = at[v]
    BY DEF UploadsInv, Goto, Opened, Inserted
  <1>2. at' \in [Uploaders -> Places]
    BY DEF UploadsInv, Goto, Places
  <1>3. UNCHANGED <<file, mine, stored, taken, objects, messages>> /\ Documents' = Documents
    BY DEF Goto, Documents
  <1>4. RowsHaveObjects'
    BY <1>3 DEF UploadsInv, RowsHaveObjects
  <1> QED BY <1>1, <1>2, <1>3, <1>4 DEF UploadsInv, Verified

LEMMA OpenKeeps ==
  ASSUME UploadsInv, NEW u \in Uploaders, NEW f \in Files, Open(u, f)
  PROVE  UploadsInv'
  <1>1. /\ Opened' = Opened \cup {u} /\ Inserted' = Inserted /\ u \notin Inserted
        /\ \A v \in Uploaders \ {u} : at'[v] = at[v] /\ file'[v] = file[v]
        /\ file'[u] = f
    BY DEF UploadsInv, Open, Opened, Inserted
  <1>2. at' \in [Uploaders -> Places] /\ file' \in [Uploaders -> Files \cup {NoFile}]
    BY DEF UploadsInv, Open, Places
  <1>3. UNCHANGED <<mine, stored, taken, objects, messages>> /\ Documents' = Documents
    BY DEF Open, Documents
  <1>4. RowsHaveObjects'
    BY <1>3 DEF UploadsInv, RowsHaveObjects
  <1>5. Verified(f)
    BY DEF Open, Accepted
  <1>6. \A v \in Inserted : at'[v] = at[v] /\ file'[v] = file[v]
    BY <1>1 DEF Inserted
  <1>7. \A v \in Opened' : file'[v] \in Files /\ Verified(file'[v])
    BY <1>1, <1>5 DEF UploadsInv, Opened
  <1> QED BY <1>1, <1>2, <1>3, <1>4, <1>6, <1>7 DEF UploadsInv, Verified

LEMMA InsertKeeps ==
  ASSUME UploadsInv, NEW u \in Uploaders, Insert(u)
  PROVE  UploadsInv'
  <1>1. PICK d \in Ids \ taken : /\ mine' = [mine EXCEPT ![u] = d]
                                 /\ taken' = taken \cup {d}
    BY DEF Insert
  <1>2. /\ at' = [at EXCEPT ![u] = "put"] /\ at[u] = "insert"
        /\ UNCHANGED <<file, stored, objects, messages>> /\ Documents' = Documents
    BY DEF Insert, Documents
  <1>3. d \in Nat /\ d # NoId /\ d \notin Documents
    BY NoIdIsNone, UploadsAssumption DEF UploadsInv
  <1>4. /\ Opened' = Opened /\ Inserted' = Inserted \cup {u} /\ u \in Opened
        /\ mine'[u] = d /\ at'[u] = "put"
        /\ \A v \in Uploaders \ {u} : at'[v] = at[v] /\ mine'[v] = mine[v]
    BY <1>1, <1>2 DEF UploadsInv, Opened, Inserted
  <1>5. /\ at' \in [Uploaders -> Places] /\ mine' \in [Uploaders -> Nat \cup {NoId}]
        /\ taken' \subseteq Nat
    BY <1>1, <1>2, <1>3 DEF UploadsInv, Places
  <1>6. \A v \in Inserted : v # u /\ mine[v] # d
    BY <1>1, <1>2 DEF UploadsInv, Inserted
  <1>7. RowsHaveObjects'
    BY <1>2 DEF UploadsInv, RowsHaveObjects
  <1>8. \A v, w \in Inserted' : mine'[v] = mine'[w] => v = w
    BY <1>4, <1>6 DEF UploadsInv, Inserted
  <1>9. \A v \in Inserted' : mine'[v] \in taken' \ Documents'
    BY <1>1, <1>2, <1>3, <1>4, <1>6 DEF UploadsInv, Inserted
  <1>10. \A v \in Uploaders : mine'[v] # NoId <=> v \in Inserted'
    BY <1>3, <1>4 DEF UploadsInv
  <1>11. \A v \in Inserted' : at'[v] \in {"enqueue", "commit"} =>
            mine'[v] \in DOMAIN objects' /\ objects'[mine'[v]] = file'[v].sha256
    BY <1>2, <1>4 DEF UploadsInv, Inserted
  <1>12. \A v \in Inserted' : at'[v] = "commit" => mine'[v] \in messages'
    BY <1>2, <1>4 DEF UploadsInv, Inserted
  <1>13. /\ file' \in [Uploaders -> Files \cup {NoFile}]
         /\ IsFiniteSet(Documents') /\ Documents' \subseteq taken'
         /\ \A v \in Opened' : file'[v] \in Files /\ Verified(file'[v])
    BY <1>1, <1>2, <1>4 DEF UploadsInv, Verified
  <1> QED BY <1>5, <1>7, <1>8, <1>9, <1>10, <1>11, <1>12, <1>13 DEF UploadsInv

LEMMA PutKeeps ==
  ASSUME UploadsInv, NEW u \in Uploaders, Put(u)
  PROVE  UploadsInv'
  <1>1. /\ at[u] = "put" /\ at' = [at EXCEPT ![u] = "enqueue"]
        /\ DOMAIN objects' = DOMAIN objects \cup {mine[u]}
        /\ objects'[mine[u]] = file[u].sha256
        /\ \A d \in DOMAIN objects : d # mine[u] => objects'[d] = objects[d]
        /\ UNCHANGED <<file, mine, stored, taken, messages>> /\ Documents' = Documents
    BY DEF Put, Documents
  <1>2. /\ Opened' = Opened /\ Inserted' = Inserted /\ u \in Inserted /\ at'[u] = "enqueue"
        /\ \A v \in Uploaders \ {u} : at'[v] = at[v]
    BY <1>1 DEF UploadsInv, Opened, Inserted
  <1>3. at' \in [Uploaders -> Places]
    BY <1>1 DEF UploadsInv, Places
  <1>4. \A d \in Documents : d # mine[u]
    BY <1>2 DEF UploadsInv
  <1>5. RowsHaveObjects'
    BY <1>1, <1>4 DEF UploadsInv, RowsHaveObjects
  <1>6. \A v \in Inserted : at'[v] \in {"enqueue", "commit"} =>
           mine'[v] \in DOMAIN objects' /\ objects'[mine'[v]] = file'[v].sha256
    <2> SUFFICES ASSUME NEW v \in Inserted, at'[v] \in {"enqueue", "commit"}, v # u
                 PROVE  mine[v] \in DOMAIN objects' /\ objects'[mine[v]] = file[v].sha256
      BY <1>1
    <2>1. mine[v] # mine[u] /\ at[v] \in {"enqueue", "commit"}
      BY <1>2 DEF UploadsInv, Inserted
    <2> QED BY <1>1, <2>1 DEF UploadsInv
  <1>7. \A v \in Inserted : at'[v] = "commit" => mine'[v] \in messages'
    BY <1>1, <1>2 DEF UploadsInv, Inserted
  <1> QED BY <1>1, <1>2, <1>3, <1>5, <1>6, <1>7 DEF UploadsInv, Verified

LEMMA EnqueueKeeps ==
  ASSUME UploadsInv, NEW u \in Uploaders, Enqueue(u)
  PROVE  UploadsInv'
  <1>1. /\ at[u] = "enqueue" /\ at' = [at EXCEPT ![u] = "commit"]
        /\ messages' = messages \cup {mine[u]}
        /\ UNCHANGED <<file, mine, stored, taken, objects>> /\ Documents' = Documents
    BY DEF Enqueue, Documents
  <1>2. /\ Opened' = Opened /\ Inserted' = Inserted
        /\ \A v \in Inserted : v # u => at'[v] = at[v]
    BY <1>1 DEF UploadsInv, Opened, Inserted
  <1>3. at' \in [Uploaders -> Places]
    BY <1>1 DEF UploadsInv, Places
  <1>4. RowsHaveObjects'
    BY <1>1 DEF UploadsInv, RowsHaveObjects
  <1>5. \A v \in Inserted : at'[v] = "commit" => mine'[v] \in messages'
    BY <1>1, <1>2 DEF UploadsInv
  <1>6. \A v \in Inserted : at'[v] \in {"enqueue", "commit"} =>
           mine'[v] \in DOMAIN objects' /\ objects'[mine'[v]] = file'[v].sha256
    BY <1>1, <1>2 DEF UploadsInv
  <1> QED BY <1>1, <1>2, <1>3, <1>4, <1>5, <1>6 DEF UploadsInv, Verified

LEMMA CommitKeeps ==
  ASSUME UploadsInv, NEW u \in Uploaders, Commit(u)
  PROVE  UploadsInv'
  <1>1. /\ at[u] = "commit" /\ at' = [at EXCEPT ![u] = "idle"]
        /\ file' = [file EXCEPT ![u] = NoFile] /\ mine' = [mine EXCEPT ![u] = NoId]
        /\ UNCHANGED <<taken, objects, messages>>
    BY DEF Commit
  <1>2. /\ Documents' = Documents \cup {mine[u]} /\ stored'[mine[u]] = file[u]
        /\ \A d \in Documents : d # mine[u] => stored'[d] = stored[d]
    BY DEF Commit, Documents
  <1>3. /\ u \in Inserted /\ u \in Opened /\ Inserted' = Inserted \ {u}
        /\ Opened' = Opened \ {u} /\ mine'[u] = NoId
        /\ \A v \in Uploaders \ {u} : at'[v] = at[v] /\ file'[v] = file[v] /\ mine'[v] = mine[v]
    BY <1>1 DEF UploadsInv, Opened, Inserted
  <1>4. /\ at' \in [Uploaders -> Places] /\ file' \in [Uploaders -> Files \cup {NoFile}]
        /\ mine' \in [Uploaders -> Nat \cup {NoId}]
    BY <1>1 DEF UploadsInv, Places
  <1>5. IsFiniteSet(Documents') /\ Documents' \subseteq taken'
    <2>1. IsFiniteSet(Documents \cup {mine[u]})
      BY FS_AddElement DEF UploadsInv
    <2> QED BY <1>1, <1>2, <1>3, <2>1 DEF UploadsInv
  <1>6. RowsHaveObjects'
    <2>1. /\ mine[u] \in messages /\ mine[u] \in DOMAIN objects
          /\ objects[mine[u]] = file[u].sha256 /\ file[u].kind \in file[u].looks
      BY <1>1, <1>3 DEF UploadsInv, Verified
    <2> QED BY <1>1, <1>2, <2>1 DEF UploadsInv, RowsHaveObjects
  <1>7. \A v \in Inserted' : mine[v] # mine[u] /\ mine'[v] \in taken' \ Documents'
    BY <1>1, <1>2, <1>3 DEF UploadsInv, Inserted
  <1> QED BY <1>1, <1>3, <1>4, <1>5, <1>6, <1>7 DEF UploadsInv, Verified, Opened, Inserted

-----------------------------------------------------------------------------
\* The steps of an upload before its insert either go on or roll back.
LEMMA UploadsInductive ==
  ASSUME UploadsInv, [UploadsNext]_uploads
  PROVE  UploadsInv'
  <1>1. ASSUME NEW u \in Uploaders, NEW f \in Files, Open(u, f) PROVE UploadsInv'
    BY <1>1, OpenKeeps
  <1>2. ASSUME NEW u \in Uploaders, Deduplicate(u) \/ CountDocuments(u) \/ CountBytes(u)
        PROVE  UploadsInv'
    <2>1. u \in Opened \ Inserted
      BY <1>2 DEF Deduplicate, CountDocuments, CountBytes, Opened, Inserted
    <2>2. RollBack(u) \/ \E p \in {"count", "bytes", "insert"} : Goto(u, p)
      BY <1>2 DEF Deduplicate, CountDocuments, CountBytes
    <2> QED BY <2>1, <2>2, RollBackKeeps, GotoKeeps
  <1>3. ASSUME NEW u \in Uploaders, Insert(u) \/ Put(u) \/ Enqueue(u) \/ Commit(u)
        PROVE  UploadsInv'
    BY <1>3, InsertKeeps, PutKeeps, EnqueueKeeps, CommitKeeps
  <1>4. ASSUME NEW u \in Uploaders, Abort(u) PROVE UploadsInv'
    BY <1>4, RollBackKeeps DEF Abort
  <1>5. CASE UNCHANGED uploads
    <2>1. /\ UNCHANGED <<at, file, mine, stored, taken, objects, messages>>
          /\ Documents' = Documents /\ Opened' = Opened /\ Inserted' = Inserted
      BY <1>5 DEF uploads, Documents, Opened, Inserted
    <2>2. RowsHaveObjects'
      BY <2>1 DEF UploadsInv, RowsHaveObjects
    <2> QED BY <2>1, <2>2 DEF UploadsInv, Verified
  <1> QED BY <1>1, <1>2, <1>3, <1>4, <1>5 DEF UploadsNext, Upload

LEMMA UploadsAlways == UploadsSpec => []UploadsInv
  <1>1. UploadsInit => UploadsInv
    <2> SUFFICES ASSUME UploadsInit PROVE UploadsInv
      OBVIOUS
    <2>1. Documents = {} /\ IsFiniteSet({}) /\ Opened = {} /\ Inserted = {}
      BY FS_EmptySet DEF UploadsInit, Documents, Opened, Inserted
    <2>2. /\ at \in [Uploaders -> Places] /\ file \in [Uploaders -> Files \cup {NoFile}]
          /\ mine \in [Uploaders -> Nat \cup {NoId}] /\ taken = {}
          /\ \A u \in Uploaders : mine[u] = NoId
      BY DEF UploadsInit, Places
    <2> QED BY <2>1, <2>2 DEF UploadsInv, RowsHaveObjects
  <1> QED BY <1>1, UploadsInductive, PTL DEF UploadsSpec

\* Whatever fails, a committed document has its message and its own object, and its bytes
\* are what its kind promises.
THEOREM DocumentsHaveObjects == UploadsSpec => []RowsHaveObjects
  <1>1. UploadsInv => RowsHaveObjects
    BY DEF UploadsInv
  <1> QED BY <1>1, UploadsAlways, PTL

-----------------------------------------------------------------------------
(* Counting: documents, and requests that have found room for theirs.      *)

Within(docs, past, max) ==
    Cardinality(docs) + Cardinality(past) <= max + Cardinality(Uploaders) - 1

LEMMA SubsetsOfUploaders ==
  ASSUME NEW past \in SUBSET Uploaders
  PROVE  /\ IsFiniteSet(past) /\ Cardinality(past) \in Nat
         /\ Cardinality(past) <= Cardinality(Uploaders)
         /\ Cardinality(Uploaders) \in Nat /\ Cardinality(Uploaders) > 0
  <1>1. IsFiniteSet(past) /\ Cardinality(past) <= Cardinality(Uploaders)
    BY FS_Subset, UploadsAssumption
  <1>2. Cardinality(past) \in Nat /\ Cardinality(Uploaders) \in Nat
    BY <1>1, FS_CardinalityType, UploadsAssumption
  <1>3. Cardinality(Uploaders) # 0
    BY FS_EmptySet, UploadsAssumption
  <1> QED BY <1>1, <1>2, <1>3

\* Requests are rolled back.
LEMMA FewerStayWithin ==
  ASSUME NEW docs, IsFiniteSet(docs), NEW past \in SUBSET Uploaders, NEW less \in SUBSET past,
         NEW max \in Nat, Within(docs, past, max)
  PROVE  Within(docs, less, max)
  <1>1. IsFiniteSet(past) /\ Cardinality(past) \in Nat /\ Cardinality(Uploaders) \in Nat
    BY SubsetsOfUploaders
  <1>2. Cardinality(less) <= Cardinality(past) /\ IsFiniteSet(less)
    BY <1>1, FS_Subset
  <1>3. Cardinality(less) \in Nat /\ Cardinality(docs) \in Nat
    BY <1>2, FS_CardinalityType
  <1> QED BY <1>1, <1>2, <1>3 DEF Within

\* A request finds room.
LEMMA OneMorePasses ==
  ASSUME NEW docs, IsFiniteSet(docs), NEW past \in SUBSET Uploaders, NEW max \in Nat,
         Cardinality(docs) < max
  PROVE  Within(docs, past, max)
  <1>1. Cardinality(docs) \in Nat
    BY FS_CardinalityType
  <1> QED BY <1>1, SubsetsOfUploaders DEF Within

\* A request that has found room commits its document.
LEMMA CommitStaysWithin ==
  ASSUME NEW docs, IsFiniteSet(docs), NEW past \in SUBSET Uploaders, NEW max \in Nat,
         NEW u \in past, NEW d, Within(docs, past, max)
  PROVE  Within(docs \cup {d}, past \ {u}, max)
  <1>1. IsFiniteSet(past) /\ Cardinality(past) \in Nat /\ Cardinality(Uploaders) \in Nat
    BY SubsetsOfUploaders
  <1>2. Cardinality(past \ {u}) = Cardinality(past) - 1
    BY <1>1, FS_RemoveElement
  <1>3. Cardinality(docs) \in Nat
    BY FS_CardinalityType
  <1>4. Cardinality(docs \cup {d}) \in {Cardinality(docs), Cardinality(docs) + 1}
    BY FS_AddElement
  <1> QED BY <1>1, <1>2, <1>3, <1>4 DEF Within

-----------------------------------------------------------------------------
(* The quota of documents.                                                 *)

Counted == {u \in Uploaders : at[u] \in {"bytes", "insert", "put", "enqueue", "commit"}}

QuotaInv == UploadsInv /\ Within(Documents, Counted, MaxDocuments)

\* What each step does to those who have found room.
LEMMA QuotaInductive ==
  ASSUME QuotaInv, [UploadsNext]_uploads
  PROVE  QuotaInv'
  <1>0. /\ UploadsInv' /\ Counted \subseteq Uploaders /\ Counted' \subseteq Uploaders
        /\ IsFiniteSet(Documents) /\ MaxDocuments \in Nat
        /\ Within(Documents, Counted, MaxDocuments)
        /\ at \in [Uploaders -> Places]
    BY UploadsInductive, UploadsAssumption DEF QuotaInv, UploadsInv, Counted
  <1>1. ASSUME Documents' = Documents, Counted' \subseteq Counted PROVE QuotaInv'
    BY <1>0, <1>1, FewerStayWithin DEF QuotaInv
  <1>2. ASSUME NEW u \in Uploaders, CountDocuments(u) PROVE QuotaInv'
    <2>1. CASE Full
      <3>1. Documents' = Documents /\ Counted' \subseteq Counted
        BY <1>0, <1>2, <2>1 DEF CountDocuments, RollBack, Counted, Documents
      <3> QED BY <1>1, <3>1
    <2>2. CASE ~Full
      <3>1. Documents' = Documents
        BY <1>2, <2>2 DEF CountDocuments, Goto, Documents
      <3>2. Cardinality(Documents) \in Nat /\ Cardinality(Documents) < MaxDocuments
        BY <1>0, <2>2, FS_CardinalityType DEF Full
      <3> QED BY <1>0, <3>1, <3>2, OneMorePasses DEF QuotaInv
    <2> QED BY <2>1, <2>2
  <1>3. ASSUME NEW u \in Uploaders, Commit(u) PROVE QuotaInv'
    <2>1. /\ Documents' = Documents \cup {mine[u]} /\ u \in Counted
          /\ Counted' = Counted \ {u}
      BY <1>0, <1>3 DEF Commit, Documents, Counted
    <2> QED BY <1>0, <2>1, CommitStaysWithin DEF QuotaInv
  <1>4. ASSUME NEW u \in Uploaders, NEW f \in Files, Open(u, f) PROVE QuotaInv'
    BY <1>0, <1>1, <1>4 DEF Open, Documents, Counted
  <1>5. ASSUME NEW u \in Uploaders,
               Deduplicate(u) \/ CountBytes(u) \/ Insert(u) \/ Put(u) \/ Enqueue(u) \/ Abort(u)
        PROVE  QuotaInv'
    <2>1. Documents' = Documents
      BY <1>5 DEF Deduplicate, CountBytes, Insert, Put, Enqueue, Abort, RollBack, Goto, Documents
    <2>2. Counted' \subseteq Counted
      BY <1>0, <1>5 DEF Deduplicate, CountBytes, Insert, Put, Enqueue, Abort, RollBack, Goto,
                        Counted
    <2> QED BY <1>1, <2>1, <2>2
  <1>6. CASE UNCHANGED uploads
    BY <1>1, <1>6 DEF uploads, Documents, Counted
  <1> QED BY <1>2, <1>3, <1>4, <1>5, <1>6 DEF UploadsNext, Upload

\* Requests exceed the limit of documents together by less than there are requests at a
\* time, however many come one after the other.
THEOREM DocumentQuotaHolds == UploadsSpec => []DocumentQuotaBounded
  <1>1. UploadsInit => Within(Documents, Counted, MaxDocuments)
    <2> SUFFICES ASSUME UploadsInit PROVE Within(Documents, Counted, MaxDocuments)
      OBVIOUS
    <2>1. Documents = {} /\ Counted = {}
      BY DEF UploadsInit, Documents, Counted
    <2> QED BY <2>1, FS_EmptySet, SubsetsOfUploaders, UploadsAssumption DEF Within
  <1>2. QuotaInv => DocumentQuotaBounded
    <2> SUFFICES ASSUME QuotaInv PROVE DocumentQuotaBounded
      OBVIOUS
    <2>1. /\ Cardinality(Documents) \in Nat /\ Cardinality(Counted) \in Nat
          /\ Cardinality(Uploaders) \in Nat
      BY FS_CardinalityType, SubsetsOfUploaders DEF QuotaInv, UploadsInv, Counted
    <2> QED BY <2>1, UploadsAssumption DEF QuotaInv, Within, DocumentQuotaBounded
  <1>3. UploadsInv /\ Within(Documents, Counted, MaxDocuments) <=> QuotaInv
    BY DEF QuotaInv
  <1>4. QuotaInv /\ [UploadsNext]_uploads => QuotaInv'
    BY QuotaInductive
  <1>5. UploadsSpec => []QuotaInv
    BY <1>1, <1>3, <1>4, UploadsAlways, PTL DEF UploadsSpec
  <1> QED BY <1>2, <1>5, PTL

-----------------------------------------------------------------------------
(* The quota of bytes.                                                     *)

Paid == {u \in Uploaders : at[u] \in {"insert", "put", "enqueue", "commit"}}
Held == [d \in Documents |-> stored[d].size]
Brought == [u \in Uploaders |-> file[u].size]

Allowance == MaxStorage + MaxBytes * (Cardinality(Uploaders) - 1)

\* What is stored, and what those bring who have found room for it.
StorageInv ==
    /\ UploadsInv
    /\ \A u \in Opened : file[u].size \in 0..MaxBytes
    /\ \A d \in Documents : stored[d].size \in Nat
    /\ SumOver(Held, Documents) + SumOver(Brought, Paid) <= Allowance

LEMMA BytesAreSum == Bytes(Documents) = SumOver(Held, Documents)
  BY DEF Bytes, SumOver, Held, MapThenSumSet, MapThenFoldSet

\* What the sums are sums of.
LEMMA StorageTypes ==
  ASSUME StorageInv
  PROVE  /\ IsFiniteSet(Documents) /\ \A d \in Documents : Held[d] \in Nat
         /\ Paid \in SUBSET Uploaders /\ IsFiniteSet(Paid)
         /\ \A u \in Paid : Brought[u] \in 0..MaxBytes
         /\ SumOver(Held, Documents) \in Nat /\ SumOver(Brought, Paid) \in Nat
         /\ SumOver(Brought, Paid) <= MaxBytes * Cardinality(Paid)
         /\ Cardinality(Paid) \in Nat /\ Cardinality(Uploaders) \in Nat
         /\ MaxBytes \in Nat /\ MaxStorage \in Nat /\ Allowance \in Int
  <1>1. IsFiniteSet(Documents) /\ \A d \in Documents : Held[d] \in Nat
    BY DEF StorageInv, UploadsInv, Held
  <1>2. Paid \in SUBSET Uploaders /\ \A u \in Paid : Brought[u] \in 0..MaxBytes
    BY DEF StorageInv, Paid, Opened, Brought
  <1>3. /\ IsFiniteSet(Paid) /\ Cardinality(Paid) \in Nat /\ Cardinality(Uploaders) \in Nat
        /\ MaxBytes \in Nat /\ MaxStorage \in Nat
    BY <1>2, SubsetsOfUploaders, UploadsAssumption
  <1>4. SumOver(Brought, Paid) \in Nat /\ SumOver(Brought, Paid) <= MaxBytes * Cardinality(Paid)
    BY <1>2, <1>3, SumBounded
  <1>5. SumOver(Held, Documents) \in Nat
    <2>1. PartialSums(Held, Documents)[Documents] \in Nat
      BY <1>1, SumIsDefined
    <2> QED BY <1>1, <2>1, SumIsDefined
  <1>6. MaxBytes * (Cardinality(Uploaders) - 1) \in Int
    BY <1>3
  <1> QED BY <1>1, <1>2, <1>3, <1>4, <1>5, <1>6 DEF Allowance

\* A request is rolled back, or goes on where no bytes are counted.
LEMMA LessIsPaid ==
  ASSUME StorageInv, UploadsInv', UNCHANGED stored,
         \A u \in Opened' : file'[u].size \in 0..MaxBytes,
         Paid' \subseteq Paid, \A u \in Paid' : file'[u] = file[u]
  PROVE  StorageInv'
  <1>1. Documents' = Documents /\ Held' = Held /\ \A d \in Documents' : stored'[d].size \in Nat
    BY DEF StorageInv, Documents, Held
  <1> DEFINE P == Paid
             Q == Paid'
             w == Brought
             v == Brought'
  <1>2. IsFiniteSet(P) /\ Q \subseteq P /\ \A u \in P : w[u] \in Nat
    BY StorageTypes
  <1>3. \A u \in Q : v[u] = w[u]
    BY StorageTypes DEF Brought
  <1> HIDE DEF P, Q, v, w
  <1>4. IsFiniteSet(Q) /\ SumOver(v, Q) = SumOver(w, Q)
    BY <1>2, <1>3, FS_Subset, SumDepends
  <1>5. SumOver(v, Q) \in Nat /\ SumOver(v, Q) <= SumOver(w, P)
    BY <1>2, <1>4, SumOfLess
  <1>6. /\ SumOver(Brought, Paid)' \in Nat
        /\ SumOver(Brought, Paid)' <= SumOver(Brought, Paid)
    BY <1>5 DEF P, Q, v, w
  <1> QED BY <1>1, <1>6, StorageTypes DEF StorageInv, Allowance

\* A request finds room for its bytes.
LEMMA BytesArePaid ==
  ASSUME StorageInv, UploadsInv', NEW u \in Uploaders, CountBytes(u), ~OverQuota(file[u].size)
  PROVE  StorageInv'
  <1>1. /\ at[u] = "bytes" /\ at' = [at EXCEPT ![u] = "insert"] /\ UNCHANGED <<file, stored>>
    BY DEF CountBytes, Goto
  <1>2. /\ Opened' = Opened /\ u \in Opened /\ u \notin Paid /\ Paid' = Paid \cup {u}
        /\ Brought' = Brought /\ Held' = Held /\ Documents' = Documents
    BY <1>1 DEF StorageInv, UploadsInv, Opened, Paid, Brought, Held, Documents
  <1>3. file[u].size \in 0..MaxBytes /\ Brought[u] = file[u].size
    BY <1>2 DEF StorageInv, Brought
  <1>4. SumOver(Held, Documents) + file[u].size <= MaxStorage
    <2>1. ~(Bytes(Documents) + file[u].size > MaxStorage)
      BY DEF OverQuota
    <2>2. SumOver(Held, Documents) \in Nat /\ file[u].size \in Nat /\ MaxStorage \in Nat
      BY <1>3, StorageTypes
    <2> QED BY <2>1, <2>2, BytesAreSum
  <1>5. SumOver(Brought, Paid \cup {u}) = SumOver(Brought, Paid) + Brought[u]
    <2> DEFINE P == Paid \cup {u}
    <2>1. IsFiniteSet(P) /\ u \in P /\ P \ {u} = Paid
      BY <1>2, StorageTypes, FS_AddElement
    <2>2. \A v \in P : Brought[v] \in Nat
      BY <1>3, StorageTypes
    <2> HIDE DEF P
    <2> QED BY <2>1, <2>2, SumAdds DEF P
  <1>6. MaxBytes * Cardinality(Paid) <= MaxBytes * (Cardinality(Uploaders) - 1)
    <2>1. Cardinality(Paid \cup {u}) = Cardinality(Paid) + 1
      BY <1>2, StorageTypes, FS_AddElement
    <2>2. Cardinality(Paid \cup {u}) <= Cardinality(Uploaders)
      BY StorageTypes, SubsetsOfUploaders
    <2>3. Cardinality(Paid) <= Cardinality(Uploaders) - 1
      BY <2>1, <2>2, StorageTypes
    <2> DEFINE m == Cardinality(Paid)
               n == Cardinality(Uploaders) - 1
    <2>4. m \in Nat /\ n \in Nat /\ m <= n /\ MaxBytes \in Nat
      BY <2>3, StorageTypes
    <2> HIDE DEF m, n
    <2>5. MaxBytes * n = MaxBytes * m + MaxBytes * (n - m) /\ MaxBytes * (n - m) \in Nat
      BY <2>4
    <2>6. MaxBytes * m <= MaxBytes * n
      BY <2>4, <2>5
    <2> QED BY <2>6 DEF m, n
  <1>7. SumOver(Held, Documents) + SumOver(Brought, Paid \cup {u}) <= Allowance
    <2> DEFINE rest == MaxBytes * (Cardinality(Uploaders) - 1)
    <2>1. rest \in Int /\ MaxBytes * Cardinality(Paid) \in Int
      BY StorageTypes
    <2>2. SumOver(Brought, Paid) <= rest /\ Allowance = MaxStorage + rest
      BY <1>6, <2>1, StorageTypes DEF Allowance
    <2> HIDE DEF rest
    <2> QED BY <1>3, <1>4, <1>5, <2>1, <2>2, StorageTypes
  <1>8. /\ \A v \in Opened' : file'[v].size \in 0..MaxBytes
        /\ \A d \in Documents' : stored'[d].size \in Nat
    BY <1>1, <1>2 DEF StorageInv
  <1> QED BY <1>2, <1>7, <1>8 DEF StorageInv, Allowance

\* A request stores what it has found room for.
LEMMA BytesAreStored ==
  ASSUME StorageInv, UploadsInv', NEW u \in Uploaders, Commit(u)
  PROVE  StorageInv'
  <1> DEFINE d == mine[u]
  <1>1. /\ at[u] = "commit" /\ at' = [at EXCEPT ![u] = "idle"]
        /\ file' = [file EXCEPT ![u] = NoFile]
        /\ Documents' = Documents \cup {d} /\ stored'[d] = file[u]
        /\ \A e \in Documents : e # d => stored'[e] = stored[e]
    BY DEF Commit, Documents
  <1>2. /\ d \notin Documents /\ u \in Opened /\ u \in Paid
        /\ Opened' = Opened \ {u} /\ Paid' = Paid \ {u}
        /\ \A v \in Uploaders \ {u} : file'[v] = file[v]
    BY <1>1 DEF StorageInv, UploadsInv, Opened, Inserted, Paid
  <1>3. file[u].size \in 0..MaxBytes /\ Brought[u] = file[u].size
    BY <1>2 DEF StorageInv, Brought
  <1>4. /\ \A v \in Opened' : file'[v].size \in 0..MaxBytes
        /\ \A e \in Documents' : stored'[e].size \in Nat
    BY <1>1, <1>2, <1>3 DEF StorageInv, Opened
  <1>5. SumOver(Held', Documents') = SumOver(Held, Documents) + file[u].size
    <2> DEFINE D == Documents \cup {d}
               w == Held'
    <2>1. IsFiniteSet(D) /\ d \in D /\ D \ {d} = Documents /\ D = Documents'
      BY <1>1, <1>2, StorageTypes, FS_AddElement
    <2>2. w[d] = file[u].size /\ \A e \in Documents : w[e] = Held[e] /\ Held[e] \in Nat
      BY <1>1, <1>2, StorageTypes DEF Held
    <2>3. \A e \in D : w[e] \in Nat
      BY <1>3, <2>2
    <2> HIDE DEF D, w, d
    <2>4. SumOver(w, D) = SumOver(w, Documents) + w[d]
      BY <2>1, <2>3, SumAdds
    <2>5. SumOver(w, Documents) = SumOver(Held, Documents)
      BY <2>2, StorageTypes, SumDepends
    <2> QED BY <2>1, <2>2, <2>4, <2>5 DEF w
  <1>6. SumOver(Brought', Paid') = SumOver(Brought, Paid) - file[u].size
    <2> DEFINE P == Paid \ {u}
               w == Brought'
    <2>1. IsFiniteSet(P) /\ P = Paid'
      BY <1>2, StorageTypes, FS_Subset
    <2>2. \A v \in P : w[v] = Brought[v] /\ Brought[v] \in Nat
      BY <1>2, StorageTypes DEF Brought
    <2>3. SumOver(Brought, P) \in Nat /\ SumOver(Brought, Paid) = SumOver(Brought, P) + Brought[u]
      BY <1>2, StorageTypes, SumAdds
    <2> HIDE DEF P, w
    <2>4. SumOver(w, P) = SumOver(Brought, P)
      BY <2>1, <2>2, SumDepends
    <2> QED BY <1>3, <2>1, <2>3, <2>4 DEF w
  <1>7. SumOver(Held', Documents') + SumOver(Brought', Paid') <= Allowance
    BY <1>3, <1>5, <1>6, StorageTypes DEF StorageInv
  <1> QED BY <1>4, <1>7 DEF StorageInv, Allowance

LEMMA StorageInductive ==
  ASSUME StorageInv, [UploadsNext]_uploads
  PROVE  StorageInv'
  <1>0. /\ UploadsInv' /\ Paid \subseteq Uploaders
        /\ at \in [Uploaders -> Places] /\ file \in [Uploaders -> Files \cup {NoFile}]
        /\ \A u \in Opened : file[u].size \in 0..MaxBytes
    BY UploadsInductive DEF StorageInv, UploadsInv, Paid
  <1>1. ASSUME NEW u \in Uploaders, NEW f \in Files, Open(u, f) PROVE StorageInv'
    <2>1. /\ UNCHANGED stored /\ at[u] = "idle" /\ at' = [at EXCEPT ![u] = "dedup"]
          /\ file' = [file EXCEPT ![u] = f]
      BY <1>1 DEF Open
    <2>2. f.size \in 0..MaxBytes
      BY <1>1, UploadsAssumption DEF Open, Accepted, FileType
    <2>3. \A v \in Opened' : file'[v].size \in 0..MaxBytes
      BY <1>0, <2>1, <2>2 DEF Opened
    <2>4. Paid' \subseteq Paid /\ \A v \in Paid' : file'[v] = file[v]
      BY <1>0, <2>1 DEF Paid
    <2> QED BY <1>0, <2>1, <2>3, <2>4, LessIsPaid
  <1>2. ASSUME NEW u \in Uploaders, RollBack(u) PROVE StorageInv'
    <2>1. /\ UNCHANGED stored /\ at' = [at EXCEPT ![u] = "idle"]
          /\ file' = [file EXCEPT ![u] = NoFile]
      BY <1>2 DEF RollBack
    <2>2. \A v \in Opened' : file'[v].size \in 0..MaxBytes
      BY <1>0, <2>1 DEF Opened
    <2>3. Paid' \subseteq Paid /\ \A v \in Paid' : file'[v] = file[v]
      BY <1>0, <2>1 DEF Paid
    <2> QED BY <1>0, <2>1, <2>2, <2>3, LessIsPaid
  <1>3. ASSUME NEW u \in Uploaders,
               \/ (Deduplicate(u) \/ CountDocuments(u)) /\ ~RollBack(u)
               \/ Insert(u) \/ Put(u) \/ Enqueue(u)
        PROVE  StorageInv'
    <2>1. /\ UNCHANGED <<stored, file>> /\ at[u] # "idle"
          /\ \E p \in {"count", "bytes", "put", "enqueue", "commit"} :
                at' = [at EXCEPT ![u] = p] /\ (p \in {"put", "enqueue", "commit"} => u \in Paid)
      BY <1>3 DEF Deduplicate, CountDocuments, Insert, Put, Enqueue, Goto, Paid
    <2>2. Opened' \subseteq Opened /\ Paid' \subseteq Paid
      BY <1>0, <2>1 DEF Opened, Paid
    <2> QED BY <1>0, <2>1, <2>2, LessIsPaid
  <1>4. ASSUME NEW u \in Uploaders, CountBytes(u) PROVE StorageInv'
    <2>1. CASE OverQuota(file[u].size)
      BY <1>2, <1>4, <2>1 DEF CountBytes
    <2>2. CASE ~OverQuota(file[u].size)
      BY <1>0, <1>4, <2>2, BytesArePaid
    <2> QED BY <2>1, <2>2
  <1>5. ASSUME NEW u \in Uploaders, Commit(u) PROVE StorageInv'
    BY <1>0, <1>5, BytesAreStored
  <1>6. CASE UNCHANGED uploads
    <2>1. UNCHANGED <<at, file, stored>> /\ Opened' = Opened /\ Paid' = Paid
      BY <1>6 DEF uploads, Opened, Paid
    <2> QED BY <1>0, <2>1, LessIsPaid
  <1>7. ASSUME NEW u \in Uploaders, Abort(u) PROVE StorageInv'
    BY <1>2, <1>7 DEF Abort
  <1>8. ASSUME NEW u \in Uploaders, Deduplicate(u) \/ CountDocuments(u) PROVE StorageInv'
    BY <1>2, <1>3, <1>8
  <1> QED BY <1>1, <1>3, <1>4, <1>5, <1>6, <1>7, <1>8 DEF UploadsNext, Upload

\* Requests exceed the quota of bytes together by less than the largest files of all the
\* requests of one moment, however many come one after the other.
THEOREM StorageQuotaHolds == UploadsSpec => []StorageQuotaBounded
  <1>1. UploadsInit /\ UploadsInv => StorageInv
    <2> SUFFICES ASSUME UploadsInit, UploadsInv PROVE StorageInv
      OBVIOUS
    <2>1. Documents = {} /\ Opened = {} /\ Paid = {}
      BY DEF UploadsInit, Documents, Opened, Paid
    <2>2. SumOver(Held, {}) = 0 /\ SumOver(Brought, {}) = 0
      BY SumOfNone
    <2>3. Allowance \in Nat
      <3> DEFINE n == Cardinality(Uploaders) - 1
      <3>1. n \in Nat /\ MaxBytes \in Nat /\ MaxStorage \in Nat
        BY SubsetsOfUploaders, UploadsAssumption
      <3> HIDE DEF n
      <3>2. MaxBytes * n \in Nat
        BY <3>1
      <3> QED BY <3>1, <3>2 DEF Allowance, n
    <2> QED BY <2>1, <2>2, <2>3 DEF StorageInv
  <1>2. StorageInv => StorageQuotaBounded
    <2> SUFFICES ASSUME StorageInv PROVE Bytes(Documents) <= Allowance
      BY DEF StorageQuotaBounded, Allowance
    <2> QED BY StorageTypes, BytesAreSum DEF StorageInv
  <1>3. StorageInv /\ [UploadsNext]_uploads => StorageInv'
    BY StorageInductive
  <1>4. UploadsSpec => []StorageInv
    BY <1>1, <1>3, UploadsAlways, PTL DEF UploadsSpec
  <1> QED BY <1>2, <1>4, PTL

-----------------------------------------------------------------------------
(* Copies of the same bytes.                                               *)

CopiesWith(h) == {d \in Documents : stored[d].sha256 = h}
Unique(h) == {u \in Uploaders : /\ at[u] \in Places \ {"idle", "dedup"}
                                /\ file[u].sha256 = h}

CopiesInv == UploadsInv /\ \A h \in Nat : Within(CopiesWith(h), Unique(h), 1)

LEMMA CopiesInductive ==
  ASSUME CopiesInv, [UploadsNext]_uploads
  PROVE  CopiesInv'
  <1>0. /\ UploadsInv' /\ IsFiniteSet(Documents)
        /\ at \in [Uploaders -> Places] /\ file \in [Uploaders -> Files \cup {NoFile}]
    BY UploadsInductive DEF CopiesInv, UploadsInv
  <1> SUFFICES ASSUME NEW h \in Nat PROVE Within(CopiesWith(h), Unique(h), 1)'
    BY <1>0 DEF CopiesInv
  <1>1. /\ Within(CopiesWith(h), Unique(h), 1)
        /\ Unique(h) \subseteq Uploaders /\ Unique(h)' \subseteq Uploaders
    BY DEF CopiesInv, Unique
  <1>2. IsFiniteSet(CopiesWith(h))
    BY <1>0, FS_Subset DEF CopiesWith
  <1>3. ASSUME CopiesWith(h)' = CopiesWith(h), Unique(h)' \subseteq Unique(h)
        PROVE  Within(CopiesWith(h), Unique(h), 1)'
    <2>1. Within(CopiesWith(h), Unique(h)', 1)
      BY <1>1, <1>2, <1>3, FewerStayWithin
    <2> QED BY <1>3, <2>1 DEF Within
  <1>4. ASSUME NEW u \in Uploaders, Deduplicate(u)
        PROVE  Within(CopiesWith(h), Unique(h), 1)'
    <2>1. CopiesWith(h)' = CopiesWith(h)
      BY <1>4 DEF Deduplicate, RollBack, Goto, CopiesWith, Documents
    <2>2. CASE CopiesOf(file[u]) # {} \/ file[u].sha256 # h
      <3>1. Unique(h)' \subseteq Unique(h)
        BY <1>0, <1>4, <2>2 DEF Deduplicate, RollBack, Goto, Unique
      <3> QED BY <1>3, <2>1, <3>1
    <2>3. CASE CopiesOf(file[u]) = {} /\ file[u].sha256 = h
      <3>1. CopiesWith(h) = {}
        BY <2>3 DEF CopiesOf, CopiesWith
      <3>2. Within(CopiesWith(h), Unique(h)', 1)
        BY <1>1, <1>2, <3>1, FS_EmptySet, OneMorePasses
      <3> QED BY <2>1, <3>2 DEF Within
    <2> QED BY <2>2, <2>3
  <1>5. ASSUME NEW u \in Uploaders, Commit(u)
        PROVE  Within(CopiesWith(h), Unique(h), 1)'
    <2>1. /\ at[u] = "commit" /\ mine[u] \notin Documents
          /\ Documents' = Documents \cup {mine[u]} /\ stored'[mine[u]] = file[u]
          /\ \A d \in Documents : d # mine[u] => stored'[d] = stored[d]
          /\ at' = [at EXCEPT ![u] = "idle"] /\ file' = [file EXCEPT ![u] = NoFile]
      BY <1>5 DEF Commit, CopiesInv, UploadsInv, Inserted, Documents
    <2>2. CASE file[u].sha256 = h
      <3>1. /\ CopiesWith(h)' = CopiesWith(h) \cup {mine[u]} /\ u \in Unique(h)
            /\ Unique(h)' = Unique(h) \ {u}
        BY <1>0, <2>1, <2>2 DEF CopiesWith, Unique, Places
      <3>2. Within(CopiesWith(h) \cup {mine[u]}, Unique(h) \ {u}, 1)
        BY <1>1, <1>2, <3>1, CommitStaysWithin
      <3> QED BY <3>1, <3>2 DEF Within
    <2>3. CASE file[u].sha256 # h
      <3>1. CopiesWith(h)' = CopiesWith(h) /\ Unique(h)' \subseteq Unique(h)
        BY <1>0, <2>1, <2>3 DEF CopiesWith, Unique
      <3> QED BY <1>3, <3>1
    <2> QED BY <2>2, <2>3
  <1>6. ASSUME NEW u \in Uploaders, NEW f \in Files, Open(u, f)
        PROVE  Within(CopiesWith(h), Unique(h), 1)'
    BY <1>0, <1>3, <1>6 DEF Open, CopiesWith, Documents, Unique
  <1>7. ASSUME NEW u \in Uploaders,
               \/ CountDocuments(u) \/ CountBytes(u) \/ Insert(u) \/ Put(u) \/ Enqueue(u)
               \/ Abort(u)
        PROVE  Within(CopiesWith(h), Unique(h), 1)'
    <2>1. CopiesWith(h)' = CopiesWith(h)
      BY <1>7 DEF CountDocuments, CountBytes, Insert, Put, Enqueue, Abort, RollBack, Goto,
                  CopiesWith, Documents
    <2>2. Unique(h)' \subseteq Unique(h)
      BY <1>0, <1>7 DEF CountDocuments, CountBytes, Insert, Put, Enqueue, Abort, RollBack, Goto,
                        Unique, Places
    <2> QED BY <1>3, <2>1, <2>2
  <1>8. CASE UNCHANGED uploads
    BY <1>3, <1>8 DEF uploads, CopiesWith, Documents, Unique
  <1> QED BY <1>4, <1>5, <1>6, <1>7, <1>8 DEF UploadsNext, Upload

\* The same bytes are stored at most once for every request that runs at the same time.
THEOREM CopiesStayBounded == UploadsSpec => []CopiesBounded
  <1>1. UploadsInit => \A h \in Nat : Within(CopiesWith(h), Unique(h), 1)
    <2> SUFFICES ASSUME UploadsInit, NEW h \in Nat PROVE Within(CopiesWith(h), Unique(h), 1)
      OBVIOUS
    <2>1. CopiesWith(h) = {} /\ Unique(h) = {}
      BY DEF UploadsInit, Documents, CopiesWith, Unique
    <2> QED BY <2>1, FS_EmptySet, SubsetsOfUploaders DEF Within
  <1>2. CopiesInv => CopiesBounded
    <2> SUFFICES ASSUME CopiesInv, NEW f \in Files
                 PROVE  Cardinality(CopiesWith(f.sha256)) <= Cardinality(Uploaders)
      BY DEF CopiesBounded, CopiesWith
    <2> DEFINE h == f.sha256
    <2>1. h \in Nat
      BY UploadsAssumption DEF FileType
    <2>2. IsFiniteSet(CopiesWith(h))
      BY FS_Subset DEF CopiesInv, UploadsInv, CopiesWith
    <2>3. /\ Cardinality(CopiesWith(h)) \in Nat /\ Cardinality(Unique(h)) \in Nat
          /\ Cardinality(Uploaders) \in Nat
      BY <2>2, FS_CardinalityType, SubsetsOfUploaders DEF Unique
    <2>4. Within(CopiesWith(h), Unique(h), 1)
      BY <2>1 DEF CopiesInv
    <2> HIDE DEF h
    <2> QED BY <2>3, <2>4 DEF Within, h
  <1>3. UploadsInv /\ (\A h \in Nat : Within(CopiesWith(h), Unique(h), 1)) <=> CopiesInv
    BY DEF CopiesInv
  <1>4. CopiesInv /\ [UploadsNext]_uploads => CopiesInv'
    BY CopiesInductive
  <1>5. UploadsSpec => []CopiesInv
    BY <1>1, <1>3, <1>4, UploadsAlways, PTL DEF UploadsSpec
  <1> QED BY <1>2, <1>5, PTL

-----------------------------------------------------------------------------
(* A sliding window over all admissions.                                   *)

Kept(deque, all, now, win, max) ==
    /\ Len(deque) <= Len(all)
    /\ \A i \in 1..Len(deque) : deque[i] = all[Len(all) - Len(deque) + i]
    /\ \A i \in 1..(Len(all) - Len(deque)) : all[i] <= now - win
    /\ \A i \in 1..(Len(all) - max) : all[i + max] >= all[i] + win

\* Time passes.
LEMMA KeptLater ==
  ASSUME NEW deque \in Seq(Nat), NEW all \in Seq(Nat), NEW win \in Nat, NEW max \in Nat,
         NEW now \in Nat, NEW later \in Nat, now <= later,
         Kept(deque, all, now, win, max)
  PROVE  Kept(deque, all, later, win, max)
  BY DEF Kept

\* Expired events leave at the head.
LEMMA KeptPop ==
  ASSUME NEW deque \in Seq(Nat), NEW all \in Seq(Nat), NEW win \in Nat, NEW max \in Nat,
         NEW now \in Nat, Kept(deque, all, now, win, max),
         NEW old \in 0..Len(deque), \A i \in 1..old : deque[i] <= now - win,
         NEW rest \in Seq(Nat), Len(rest) = Len(deque) - old,
         \A i \in 1..Len(rest) : rest[i] = deque[old + i]
  PROVE  Kept(rest, all, now, win, max)
  <1>1. /\ Len(deque) \in Nat /\ Len(all) \in Nat /\ old \in Nat
        /\ Len(all) - Len(rest) = (Len(all) - Len(deque)) + old
    OBVIOUS
  <1>2. \A i \in 1..Len(rest) : rest[i] = all[Len(all) - Len(rest) + i]
    BY SMTT(60), <1>1 DEF Kept
  <1>3. \A i \in 1..(Len(all) - Len(rest)) : all[i] <= now - win
    <2> SUFFICES ASSUME NEW i \in 1..(Len(all) - Len(rest)) PROVE all[i] <= now - win
      OBVIOUS
    <2>1. CASE i <= Len(all) - Len(deque)
      BY <1>1, <2>1 DEF Kept
    <2>2. CASE i > Len(all) - Len(deque)
      <3> DEFINE j == i - (Len(all) - Len(deque))
      <3>1. j \in 1..old /\ j \in 1..Len(deque) /\ i = Len(all) - Len(deque) + j
        BY SMTT(60), <1>1, <2>2
      <3> QED BY <3>1 DEF Kept
    <2> QED BY <1>1, <2>1, <2>2
  <1> QED BY <1>1, <1>2, <1>3 DEF Kept

\* There is room, and `now` is let in and recorded.
LEMMA KeptRecord ==
  ASSUME NEW deque \in Seq(Nat), NEW all \in Seq(Nat), NEW win \in Nat,
         NEW max \in Nat, NEW now \in Nat, Kept(deque, all, now, win, max),
         Len(deque) < max
  PROVE  Kept(Append(deque, now), Append(all, now), now, win, max)
  <1> DEFINE d == Append(deque, now)  a == Append(all, now)  m == Len(deque)  n == Len(all)
  <1>1. /\ m \in Nat /\ Len(d) = m + 1 /\ d[m + 1] = now
        /\ \A i \in 1..m : d[i] = deque[i]
    BY AppendProperties
  <1>2. /\ n \in Nat /\ Len(a) = n + 1 /\ a[n + 1] = now
        /\ \A i \in 1..n : a[i] = all[i] /\ all[i] \in Nat
    BY AppendProperties
  <1>3. /\ m <= n /\ m < max
        /\ \A i \in 1..m : deque[i] = all[n - m + i]
        /\ \A i \in 1..(n - m) : all[i] <= now - win
        /\ \A i \in 1..(n - max) : all[i + max] >= all[i] + win
    BY DEF Kept
  <1> HIDE DEF d, a, m, n
  <1>4. \A i \in 1..(m + 1) : d[i] = a[n - m + i]
    <2> SUFFICES ASSUME NEW i \in 1..(m + 1) PROVE d[i] = a[n - m + i]
      OBVIOUS
    <2>1. CASE i \in 1..m
      <3>1. n - m + i \in 1..n
        BY <1>1, <1>2, <1>3, <2>1
      <3> QED BY <1>1, <1>2, <1>3, <2>1, <3>1
    <2>2. CASE i = m + 1
      <3>1. n - m + i = n + 1
        BY <1>1, <1>2, <2>2
      <3> QED BY <1>1, <1>2, <2>2, <3>1
    <2> QED BY <1>1, <2>1, <2>2
  <1>5. \A i \in 1..(n - m) : a[i] <= now - win
    <2>1. \A i \in 1..(n - m) : i \in 1..n
      BY <1>1, <1>2
    <2> QED BY <1>2, <1>3, <2>1
  <1>6. \A i \in 1..(n + 1 - max) : a[i + max] >= a[i] + win
    <2> SUFFICES ASSUME NEW i \in 1..(n + 1 - max) PROVE a[i + max] >= a[i] + win
      OBVIOUS
    <2>1. i \in 1..n
      BY <1>1, <1>2, <1>3
    <2>2. CASE i \in 1..(n - max)
      <3>1. i + max \in 1..n
        BY <1>2, <2>2
      <3> QED BY <1>2, <1>3, <2>1, <2>2, <3>1
    <2>3. CASE i = n + 1 - max
      <3>1. i \in 1..(n - m) /\ i + max = n + 1
        BY <1>1, <1>2, <1>3, <2>1, <2>3
      <3>2. a[i + max] = now /\ a[i] = all[i] /\ all[i] \in Nat
        BY <1>2, <2>1, <3>1
      <3>3. all[i] <= now - win
        BY <1>3, <3>1
      <3>4. \A x, y \in Nat : x <= y - win => y >= x + win
        OBVIOUS
      <3> QED BY <3>2, <3>3, <3>4
    <2> QED BY <1>2, <2>2, <2>3
  <1>7. Len(d) <= Len(a) /\ Len(a) - Len(d) = n - m
    BY <1>1, <1>2, <1>3
  <1>8. Kept(d, a, now, win, max)
    BY <1>1, <1>2, <1>4, <1>5, <1>6, <1>7 DEF Kept
  <1> QED BY <1>8 DEF d, a

-----------------------------------------------------------------------------
(* The global limiter.                                                     *)

InOrder(all, now) ==
    /\ \A i \in 1..Len(all) : all[i] <= now
    /\ \A i, j \in 1..Len(all) : i <= j => all[i] <= all[j]

GlobalInv ==
    /\ clock \in Nat /\ events \in Seq(Nat) /\ admitted \in Seq(Nat)
    /\ Kept(events, admitted, clock, Window, Attempts)
    /\ InOrder(admitted, clock)

\* What the deque holds after `old` events have left.
LEMMA PopKeeps ==
  ASSUME GlobalInv, NEW old \in 0..Len(events), Pops(old)
  PROVE  LET rest == SubSeq(events, old + 1, Len(events)) IN
         rest \in Seq(Nat) /\ Len(rest) = Len(events) - old
         /\ Kept(rest, admitted, clock, Window, Attempts)
  <1> DEFINE rest == SubSeq(events, old + 1, Len(events))
  <1>1. /\ Len(events) \in Nat /\ old \in Nat /\ old <= Len(events)
        /\ \A i \in 1..Len(events) : events[i] \in Nat
        /\ Window \in Nat /\ Attempts \in Nat
    BY RateLimitAssumption DEF GlobalInv
  <1>2. /\ rest \in Seq(Nat) /\ Len(rest) = Len(events) - old
        /\ \A i \in 1..Len(rest) : rest[i] = events[old + i]
    <2>1. \A i \in (old + 1)..Len(events) : events[i] \in Nat
      BY <1>1
    <2>2. /\ rest \in Seq(Nat)
          /\ Len(rest) = IF old + 1 <= Len(events) THEN Len(events) - (old + 1) + 1 ELSE 0
          /\ \A i \in 1..(Len(events) - (old + 1) + 1) : rest[i] = events[(old + 1) + i - 1]
      BY <1>1, <2>1, SubSeqProperties
    <2> QED BY <1>1, <2>2
  <1>3. \A i \in 1..old : events[i] <= clock - Window
    BY DEF Pops, Expired
  <1> HIDE DEF rest
  <1>4. Kept(rest, admitted, clock, Window, Attempts)
    BY <1>1, <1>2, <1>3, KeptPop DEF GlobalInv
  <1> QED BY <1>2, <1>4 DEF rest

LEMMA GlobalInductive ==
  ASSUME GlobalInv, [LimitNext]_limits
  PROVE  GlobalInv'
  <1> USE RateLimitAssumption
  <1>1. CASE Tick
    <2>1. clock' \in Nat /\ clock <= clock' /\ UNCHANGED <<events, admitted>>
      BY <1>1 DEF Tick, GlobalInv
    <2>2. Kept(events, admitted, clock', Window, Attempts)
      BY <2>1, KeptLater DEF GlobalInv
    <2>3. InOrder(admitted, clock')
      BY <2>1 DEF InOrder, GlobalInv
    <2> QED BY <2>1, <2>2, <2>3 DEF GlobalInv
  <1>2. ASSUME NEW old \in 0..Len(events), Refuse(old) PROVE GlobalInv'
    BY <1>2, PopKeeps DEF Refuse, GlobalInv
  <1>3. ASSUME NEW old \in 0..Len(events), NEW length \in Lengths, Admit(old, length)
        PROVE  GlobalInv'
    <2> DEFINE rest == SubSeq(events, old + 1, Len(events))
    <2>1. /\ rest \in Seq(Nat) /\ Len(rest) = Len(events) - old
          /\ Kept(rest, admitted, clock, Window, Attempts)
      BY <1>3, PopKeeps DEF Admit
    <2>2. /\ Len(rest) < Attempts /\ clock' = clock /\ clock \in Nat
          /\ events' = Append(rest, clock) /\ admitted' = Append(admitted, clock)
      BY <1>3, <2>1 DEF Admit, GlobalInv
    <2> HIDE DEF rest
    <2>3. Kept(events', admitted', clock, Window, Attempts)
      BY <2>1, <2>2, KeptRecord DEF GlobalInv
    <2>4. events' \in Seq(Nat) /\ admitted' \in Seq(Nat)
      BY <2>1, <2>2 DEF GlobalInv
    <2>5. InOrder(admitted', clock)
      <3>1. /\ Len(admitted') = Len(admitted) + 1 /\ Len(admitted) \in Nat
            /\ \A i \in 1..Len(admitted) : admitted'[i] = admitted[i] /\ admitted[i] \in Nat
            /\ admitted'[Len(admitted) + 1] = clock
        BY SMTT(60), <2>2 DEF GlobalInv
      <3>2. \A i \in 1..Len(admitted) : admitted[i] <= clock
        BY DEF InOrder, GlobalInv
      <3>3. \A i, j \in 1..Len(admitted) : i <= j => admitted[i] <= admitted[j]
        BY DEF InOrder, GlobalInv
      <3>4. \A i \in 1..Len(admitted') : admitted'[i] <= clock
        BY <2>2, <3>1, <3>2
      <3>5. \A i, j \in 1..Len(admitted') : i <= j => admitted'[i] <= admitted'[j]
        <4> SUFFICES ASSUME NEW i \in 1..Len(admitted'), NEW j \in 1..Len(admitted'), i <= j
                     PROVE  admitted'[i] <= admitted'[j]
          OBVIOUS
        <4>1. CASE j = Len(admitted) + 1
          BY <3>1, <3>4, <4>1
        <4>2. CASE j <= Len(admitted)
          BY <3>1, <3>3, <4>2
        <4> QED BY <3>1, <4>1, <4>2
      <3> QED BY <3>4, <3>5 DEF InOrder
    <2> QED BY <2>2, <2>3, <2>4, <2>5 DEF GlobalInv
  <1>4. ASSUME NEW t \in Threads,
               ReadClock(t) \/ TestHead(t) \/ PopHead(t) \/ Count(t) \/ Record(t)
        PROVE  GlobalInv'
    <2>1. UNCHANGED <<clock, events, admitted>>
      BY <1>4 DEF ReadClock, TestHead, PopHead, Count, Record
    <2> QED BY <2>1 DEF GlobalInv
  <1>5. CASE UNCHANGED limits
    BY <1>5 DEF limits, GlobalInv
  <1> QED BY <1>1, <1>2, <1>3, <1>4, <1>5 DEF LimitNext

LEMMA GlobalAlways == LimitSpec => []GlobalInv
  <1>1. LimitInit => GlobalInv
    BY RateLimitAssumption DEF LimitInit, GlobalInv, Kept, InOrder
  <1> QED BY <1>1, GlobalInductive, PTL DEF LimitSpec

\* No window of the global limiter, wherever it begins, holds more than the limit.
THEOREM GlobalLimitHolds == LimitSpec => []WindowHolds
  <1>1. GlobalInv => WindowHolds
    BY DEF GlobalInv, Kept, WindowHolds
  <1> QED BY <1>1, GlobalAlways, PTL

\* A client that is refused was let in as often as the limit says within the last window.
THEOREM OnlyDueRefusals == LimitSpec => []RefusalsAreDue
  <1>1. GlobalInv => RefusalsAreDue
    <2> SUFFICES ASSUME GlobalInv, NEW old \in 0..Len(events), Pops(old),
                        Len(events) - old >= Attempts
                 PROVE  Cardinality({i \in DOMAIN admitted : admitted[i] > clock - Window})
                          >= Attempts
      BY DEF RefusalsAreDue
    <2> DEFINE n == Len(admitted)
               first == n - Len(events) + old + 1
               recent == {i \in DOMAIN admitted : admitted[i] > clock - Window}
    <2>1. /\ Attempts \in Nat /\ Attempts > 0 /\ Window \in Nat /\ clock \in Nat /\ n \in Nat
          /\ Len(events) \in Nat /\ old \in Nat
          /\ DOMAIN admitted = 1..n /\ \A i \in 1..n : admitted[i] \in Nat
      BY SMTT(60), RateLimitAssumption DEF GlobalInv
    <2>2. first \in 1..n /\ n - first + 1 >= Attempts
      BY <2>1 DEF GlobalInv, Kept
    <2>3. admitted[first] > clock - Window
      <3>1. old < Len(events) /\ events[old + 1] \in Nat
        BY <2>1 DEF GlobalInv
      <3>2. events[old + 1] > clock - Window
        BY <2>1, <3>1 DEF Pops, Expired
      <3>3. events[old + 1] = admitted[first]
        <4>1. \A i \in 1..Len(events) : events[i] = admitted[n - Len(events) + i]
          BY DEF GlobalInv, Kept
        <4>2. old + 1 \in 1..Len(events) /\ n - Len(events) + (old + 1) = first
          BY <2>1, <3>1
        <4> QED BY <4>1, <4>2
      <3> QED BY <3>2, <3>3
    <2>4. first..n \subseteq recent
      <3> SUFFICES ASSUME NEW i \in first..n PROVE i \in recent
        OBVIOUS
      <3>1. i \in 1..n /\ first <= i
        BY <2>1, <2>2
      <3>2. admitted[first] <= admitted[i]
        BY <2>2, <3>1 DEF GlobalInv, InOrder
      <3>3. admitted[i] \in Nat /\ admitted[first] \in Nat
        BY <2>1, <2>2, <3>1
      <3>4. admitted[i] > clock - Window
        BY <2>1, <2>3, <3>2, <3>3
      <3> QED BY <2>1, <3>1, <3>4
    <2>5. IsFiniteSet(recent)
      <3>1. IsFiniteSet(1..n)
        BY <2>1, FS_Interval
      <3> QED BY <2>1, <3>1, FS_Subset
    <2>6. Cardinality(first..n) = n - first + 1 /\ Cardinality(recent) \in Nat
      BY <2>1, <2>2, <2>5, FS_Interval, FS_CardinalityType
    <2>7. Cardinality(first..n) <= Cardinality(recent)
      BY <2>4, <2>5, FS_Subset
    <2> QED BY <2>1, <2>2, <2>6, <2>7
  <1> QED BY <1>1, GlobalAlways, PTL

-----------------------------------------------------------------------------
(* The limiter of the authentication routes.                               *)

Records == [step : Steps, now : Nat]

\* What the one thread that is in the limiter knows.
AloneInside ==
    /\ \A s, t \in Inside : s = t
    /\ Kept(authEvents, authAdmitted, clock, AuthWindow, AuthAttempts)
    /\ \A t \in Inside :
         /\ thread[t].now <= clock
         /\ Kept(authEvents, authAdmitted, thread[t].now, AuthWindow, AuthAttempts)
         /\ thread[t].step = "pop" =>
              authEvents # <<>> /\ Head(authEvents) <= thread[t].now - AuthWindow
         /\ thread[t].step = "append" => Len(authEvents) < AuthAttempts

AuthTypes ==
    /\ clock \in Nat /\ authEvents \in Seq(Nat) /\ authAdmitted \in Seq(Nat)
    /\ thread \in [Threads -> Records]

AuthInv == AuthTypes /\ (~shared => AloneInside)

\* A thread that takes a step was the only one inside, and is, or nobody is.
LEMMA OnlyThisThread ==
  ASSUME AuthInv, ~shared, NEW t \in Inside, NEW entry \in Records,
         thread' = [thread EXCEPT ![t] = entry]
  PROVE  /\ \A s \in Inside' : s = t
         /\ t \in Threads /\ thread'[t] = entry
  <1>1. /\ t \in Threads /\ thread \in [Threads -> Records]
        /\ \A s \in Inside : s = t
    BY DEF AuthInv, AuthTypes, AloneInside, Inside
  <1> QED BY <1>1 DEF Inside

\* Time passes, or a request waits for a thread.
LEMMA OutsideKeepsAuth ==
  ASSUME AuthInv, clock' \in Nat, clock <= clock', Inside' = Inside,
         thread' \in [Threads -> Records], \A t \in Inside : thread'[t] = thread[t],
         UNCHANGED <<authEvents, authAdmitted, shared>>
  PROVE  AuthInv'
  <1>1. AuthTypes'
    BY DEF AuthInv, AuthTypes
  <1>2. ASSUME ~shared PROVE AloneInside'
    <2>1. Kept(authEvents, authAdmitted, clock', AuthWindow, AuthAttempts)
      BY <1>2, KeptLater, RateLimitAssumption DEF AuthInv, AuthTypes, AloneInside
    <2>2. \A t \in Inside : thread[t].now \in Nat
      BY DEF AuthInv, AuthTypes, Inside, Records
    <2> QED BY <1>2, <2>1, <2>2 DEF AuthInv, AuthTypes, AloneInside
  <1> QED BY <1>1, <1>2 DEF AuthInv

LEMMA ReadClockKeepsAuth ==
  ASSUME AuthInv, NEW t \in Threads, ReadClock(t)
  PROVE  AuthInv'
  <1> DEFINE entry == [step |-> "test", now |-> clock]
  <1>1. /\ thread \in [Threads -> Records] /\ clock \in Nat /\ entry \in Records
        /\ thread' = [thread EXCEPT ![t] = entry] /\ thread[t].step = "clock"
        /\ UNCHANGED <<clock, authEvents, authAdmitted>>
    BY DEF AuthInv, AuthTypes, ReadClock, Records, Steps
  <1>2. AuthTypes'
    BY <1>1 DEF AuthInv, AuthTypes
  <1>3. ASSUME ~shared' PROVE AloneInside'
    <2>1. ~shared /\ Inside = {}
      BY <1>3 DEF ReadClock
    <2>2. \A s \in Inside' : s = t /\ thread'[s] = entry
      BY <1>1, <2>1 DEF Inside
    <2>3. Kept(authEvents, authAdmitted, clock, AuthWindow, AuthAttempts)
      BY <2>1 DEF AuthInv, AloneInside
    <2> QED BY <1>1, <2>2, <2>3 DEF AloneInside
  <1> QED BY <1>2, <1>3 DEF AuthInv

LEMMA TestHeadKeepsAuth ==
  ASSUME AuthInv, NEW t \in Threads, TestHead(t)
  PROVE  AuthInv'
  <1> DEFINE expired == authEvents # <<>> /\ Head(authEvents) <= thread[t].now - AuthWindow
             entry == [thread[t] EXCEPT !.step = IF expired THEN "pop" ELSE "count"]
  <1>1. /\ thread \in [Threads -> Records] /\ t \in Inside /\ thread[t] \in Records
        /\ UNCHANGED <<clock, authEvents, authAdmitted, shared>>
    BY DEF AuthInv, AuthTypes, TestHead, Inside
  <1>2. /\ entry \in Records /\ entry.now = thread[t].now
        /\ entry.step = "pop" => expired
        /\ entry.step # "append"
    BY <1>1 DEF Records, Steps
  <1>3. thread' = [thread EXCEPT ![t] = entry]
    BY DEF TestHead, Goes
  <1> HIDE DEF entry
  <1>4. AuthTypes'
    BY <1>1, <1>2, <1>3 DEF AuthInv, AuthTypes
  <1>5. ASSUME ~shared PROVE AloneInside'
    <2>1. \A s \in Inside' : s = t /\ thread'[s] = entry
      BY <1>1, <1>2, <1>3, <1>5, OnlyThisThread
    <2> QED BY <1>1, <1>2, <1>5, <2>1 DEF AuthInv, AloneInside
  <1> QED BY <1>1, <1>4, <1>5 DEF AuthInv

LEMMA PopHeadKeepsAuth ==
  ASSUME AuthInv, NEW t \in Threads, PopHead(t)
  PROVE  AuthInv'
  <1>1. /\ thread \in [Threads -> Records] /\ t \in Inside /\ thread[t] \in Records
        /\ thread[t].step = "pop" /\ UNCHANGED <<clock, authAdmitted, shared>>
    BY DEF AuthInv, AuthTypes, PopHead, Inside
  <1>2. CASE authEvents = <<>>
    <2>1. thread' = [thread EXCEPT ![t] = Idle] /\ UNCHANGED authEvents
      BY <1>2 DEF PopHead
    <2>2. Idle \in Records
      BY DEF Idle, Records, Steps
    <2>3. AuthTypes'
      BY <1>1, <2>1, <2>2 DEF AuthInv, AuthTypes
    <2>4. shared
      BY <1>1, <1>2 DEF AuthInv, AloneInside
    <2> QED BY <1>1, <2>3, <2>4 DEF AuthInv
  <1>3. CASE authEvents # <<>>
    <2> DEFINE entry == [thread[t] EXCEPT !.step = "test"]  rest == Tail(authEvents)
    <2>1. thread' = [thread EXCEPT ![t] = entry] /\ authEvents' = rest
      BY <1>3 DEF PopHead, Goes
    <2>2. entry \in Records /\ entry.now = thread[t].now /\ entry.step = "test"
      BY <1>1 DEF Records, Steps
    <2>3. /\ authEvents \in Seq(Nat) /\ rest \in Seq(Nat) /\ Len(rest) = Len(authEvents) - 1
          /\ \A i \in 1..Len(rest) : rest[i] = authEvents[1 + i]
      BY <1>3, HeadTailProperties DEF AuthInv, AuthTypes
    <2> HIDE DEF entry, rest
    <2>4. AuthTypes'
      BY <1>1, <2>1, <2>2, <2>3 DEF AuthInv, AuthTypes
    <2>5. ASSUME ~shared PROVE AloneInside'
      <3>1. \A s \in Inside' : s = t /\ thread'[s] = entry
        BY <1>1, <2>1, <2>2, <2>5, OnlyThisThread
      <3>2. /\ thread[t].now \in Nat /\ thread[t].now <= clock /\ clock \in Nat
            /\ Kept(authEvents, authAdmitted, thread[t].now, AuthWindow, AuthAttempts)
            /\ Head(authEvents) <= thread[t].now - AuthWindow
        BY <1>1, <2>5 DEF AuthInv, AuthTypes, AloneInside, Records
      <3>3. 1 \in 0..Len(authEvents)
            /\ \A i \in 1..1 : authEvents[i] <= thread[t].now - AuthWindow
        BY <1>3, <2>3, <3>2
      <3>4. Kept(rest, authAdmitted, thread[t].now, AuthWindow, AuthAttempts)
        BY <2>3, <3>2, <3>3, KeptPop, RateLimitAssumption DEF AuthInv, AuthTypes
      <3>5. Kept(rest, authAdmitted, clock, AuthWindow, AuthAttempts)
        BY <2>3, <3>2, <3>4, KeptLater, RateLimitAssumption DEF AuthInv, AuthTypes
      <3> QED BY <1>1, <2>1, <2>2, <3>1, <3>2, <3>4, <3>5 DEF AloneInside
    <2> QED BY <1>1, <2>4, <2>5 DEF AuthInv
  <1> QED BY <1>2, <1>3

LEMMA CountKeepsAuth ==
  ASSUME AuthInv, NEW t \in Threads, Count(t)
  PROVE  AuthInv'
  <1> DEFINE entry == IF HasRoom THEN [thread[t] EXCEPT !.step = "append"] ELSE Idle
  <1>1. /\ thread \in [Threads -> Records] /\ t \in Inside /\ thread[t] \in Records
        /\ UNCHANGED <<clock, authEvents, authAdmitted, shared>>
    BY DEF AuthInv, AuthTypes, Count, Inside
  <1>2. /\ entry \in Records /\ entry.step # "pop"
        /\ entry.step # "idle" => entry.now = thread[t].now /\ HasRoom
    BY <1>1 DEF Records, Steps, Idle
  <1>3. thread' = [thread EXCEPT ![t] = entry]
    BY DEF Count, Goes
  <1> HIDE DEF entry
  <1>4. AuthTypes'
    BY <1>1, <1>2, <1>3 DEF AuthInv, AuthTypes
  <1>5. ASSUME ~shared PROVE AloneInside'
    <2>1. \A s \in Inside' : s = t /\ thread'[s] = entry /\ entry.step # "idle"
      BY <1>1, <1>2, <1>3, <1>5, OnlyThisThread DEF Inside
    <2> QED BY <1>1, <1>2, <1>5, <2>1 DEF AuthInv, AloneInside, HasRoom
  <1> QED BY <1>1, <1>4, <1>5 DEF AuthInv

LEMMA RecordKeepsAuth ==
  ASSUME AuthInv, NEW t \in Threads, Record(t)
  PROVE  AuthInv'
  <1> DEFINE now == thread[t].now
             d == Append(authEvents, now)  a == Append(authAdmitted, now)
  <1>1. /\ thread \in [Threads -> Records] /\ t \in Inside /\ thread[t] \in Records
        /\ thread[t].step = "append" /\ now \in Nat
        /\ thread' = [thread EXCEPT ![t] = Idle] /\ authEvents' = d /\ authAdmitted' = a
        /\ UNCHANGED <<clock, shared>>
    BY DEF AuthInv, AuthTypes, Record, Inside, Records
  <1>2. /\ Idle \in Records /\ Idle.step = "idle" /\ d \in Seq(Nat) /\ a \in Seq(Nat)
    BY <1>1 DEF AuthInv, AuthTypes, Idle, Records, Steps
  <1>3. AuthTypes'
    BY <1>1, <1>2 DEF AuthInv, AuthTypes
  <1>4. ASSUME ~shared PROVE AloneInside'
    <2>1. Inside' = {}
      BY <1>1, <1>2, <1>4, OnlyThisThread DEF Inside
    <2>2. /\ now <= clock /\ Len(authEvents) < AuthAttempts
          /\ Kept(authEvents, authAdmitted, now, AuthWindow, AuthAttempts)
      BY <1>1, <1>4 DEF AuthInv, AloneInside
    <2>3. Kept(d, a, now, AuthWindow, AuthAttempts)
      BY <1>1, <2>2, KeptRecord, RateLimitAssumption DEF AuthInv, AuthTypes
    <2>4. Kept(d, a, clock, AuthWindow, AuthAttempts)
      BY <1>1, <1>2, <2>2, <2>3, KeptLater, RateLimitAssumption DEF AuthInv, AuthTypes
    <2> QED BY <1>1, <2>1, <2>4 DEF AloneInside
  <1> QED BY <1>1, <1>3, <1>4 DEF AuthInv

LEMMA AuthInductive ==
  ASSUME AuthInv, [LimitNext]_limits
  PROVE  AuthInv'
  <1>1. CASE Tick \/ UNCHANGED limits
    <2>1. /\ clock' \in Nat /\ clock <= clock' /\ thread' = thread
          /\ UNCHANGED <<authEvents, authAdmitted, shared>>
      BY <1>1 DEF Tick, limits, AuthInv, AuthTypes
    <2> QED BY <2>1, OutsideKeepsAuth DEF AuthInv, AuthTypes, Inside
  <1>2. ASSUME NEW old \in 0..Len(events), Refuse(old) PROVE AuthInv'
    <2>1. UNCHANGED <<clock, thread, authEvents, authAdmitted, shared>>
      BY <1>2 DEF Refuse
    <2> QED BY <2>1, OutsideKeepsAuth DEF AuthInv, AuthTypes, Inside
  <1>3. ASSUME NEW old \in 0..Len(events), NEW length \in Lengths, Admit(old, length)
        PROVE  AuthInv'
    <2>1. UNCHANGED <<clock, authEvents, authAdmitted, shared>>
      BY <1>3 DEF Admit
    <2>2. CASE UNCHANGED thread
      BY <2>1, <2>2, OutsideKeepsAuth DEF AuthInv, AuthTypes, Inside
    <2>3. ASSUME NEW t \in Threads, thread[t] = Idle,
                 thread' = [thread EXCEPT ![t] = [Idle EXCEPT !.step = "clock"]]
          PROVE  AuthInv'
      <3>1. [Idle EXCEPT !.step = "clock"] = [step |-> "clock", now |-> 0] /\ Idle.step = "idle"
        BY DEF Idle
      <3>2. thread' \in [Threads -> Records]
        BY <2>3, <3>1 DEF AuthInv, AuthTypes, Records, Steps
      <3>3. Inside' = Inside /\ \A s \in Inside : thread'[s] = thread[s]
        BY <2>3, <3>1 DEF AuthInv, AuthTypes, Inside
      <3> QED BY <2>1, <3>2, <3>3, OutsideKeepsAuth DEF AuthInv, AuthTypes
    <2> QED BY <1>3, <2>2, <2>3 DEF Admit, Route
  <1>4. ASSUME NEW t \in Threads,
               ReadClock(t) \/ TestHead(t) \/ PopHead(t) \/ Count(t) \/ Record(t)
        PROVE  AuthInv'
    BY <1>4, ReadClockKeepsAuth, TestHeadKeepsAuth, PopHeadKeepsAuth, CountKeepsAuth,
       RecordKeepsAuth
  <1> QED BY <1>1, <1>2, <1>3, <1>4 DEF LimitNext

\* Until two threads are in it at a time, no window of the authentication limiter holds
\* more than its limit.
THEOREM AuthLimitHolds == LimitSpec => []AuthHoldsUnshared
  <1>1. LimitInit => AuthInv
    BY RateLimitAssumption
    DEF LimitInit, AuthInv, AuthTypes, AloneInside, Inside, Kept, Idle, Records, Steps
  <1>2. AuthInv => AuthHoldsUnshared
    BY DEF AuthInv, AloneInside, Kept, AuthHoldsUnshared, AuthLimit
  <1> QED BY <1>1, <1>2, AuthInductive, PTL DEF LimitSpec

\* Threads that are in the limiter one after another never share it.
OneThread == \A s, t \in Threads : s = t
NeverShared == ~shared

LEMMA OneThreadAlone == ASSUME OneThread PROVE LimitSpec => []NeverShared
  <1>1. LimitInit => NeverShared
    BY DEF LimitInit, NeverShared
  <1>2. NeverShared /\ [LimitNext]_limits => NeverShared'
    <2> SUFFICES ASSUME NeverShared, [LimitNext]_limits PROVE NeverShared'
      OBVIOUS
    <2>1. ASSUME NEW t \in Threads, ReadClock(t) PROVE NeverShared'
      BY <2>1 DEF ReadClock, Inside, OneThread, NeverShared
    <2>2. CASE UNCHANGED shared
      BY <2>2 DEF NeverShared
    <2> QED BY <2>1, <2>2 DEF LimitNext, limits, Tick, Refuse, Admit, TestHead, PopHead,
               Count, Record
  <1> QED BY <1>1, <1>2, PTL DEF LimitSpec

\* With one thread no window of the authentication limiter holds more than its limit:
\* "Allows at most `attempts` events per `window_seconds` for each key" needs the lock
\* that the class does not take, or a single thread.
THEOREM AuthLimitHoldsAlone == ASSUME OneThread PROVE LimitSpec => []AuthLimit
  <1>1. AuthHoldsUnshared /\ NeverShared => AuthLimit
    BY DEF AuthHoldsUnshared, NeverShared
  <1> QED BY <1>1, AuthLimitHolds, OneThreadAlone, PTL

-----------------------------------------------------------------------------
(* The types. *)

\* What uploads leave behind has the ids they have taken, and the files of clients.
LeftBehind ==
    /\ taken \subseteq Ids
    /\ \A d \in Documents : stored[d] \in Files
    /\ DOMAIN objects \subseteq taken
    /\ messages \subseteq taken

LEMMA LeftBehindIsKept ==
  ASSUME UploadsInv, LeftBehind, [UploadsNext]_uploads
  PROVE  LeftBehind'
  <1>1. ASSUME UNCHANGED <<stored, taken, objects, messages>> PROVE LeftBehind'
    BY <1>1 DEF LeftBehind, Documents
  <1>2. ASSUME NEW u \in Uploaders, NEW f \in Files, Open(u, f) PROVE LeftBehind'
    BY <1>1, <1>2 DEF Open
  <1>3. ASSUME NEW u \in Uploaders,
               Deduplicate(u) \/ CountDocuments(u) \/ CountBytes(u) \/ Abort(u)
        PROVE  LeftBehind'
    BY <1>1, <1>3 DEF Deduplicate, CountDocuments, CountBytes, Abort, Goto, RollBack
  <1>4. ASSUME NEW u \in Uploaders, Insert(u) PROVE LeftBehind'
    <2>1. PICK d \in Ids : taken' = taken \cup {d}
      BY <1>4 DEF Insert
    <2> QED BY <1>4, <2>1 DEF Insert, LeftBehind, Documents
  <1>5. ASSUME NEW u \in Uploaders, Put(u) PROVE LeftBehind'
    <2>1. mine[u] \in taken
      BY <1>5 DEF Put, UploadsInv, Inserted
    <2> QED BY <1>5, <2>1 DEF Put, LeftBehind, Documents
  <1>6. ASSUME NEW u \in Uploaders, Enqueue(u) PROVE LeftBehind'
    <2>1. mine[u] \in taken
      BY <1>6 DEF Enqueue, UploadsInv, Inserted
    <2> QED BY <1>6, <2>1 DEF Enqueue, LeftBehind, Documents
  <1>7. ASSUME NEW u \in Uploaders, Commit(u) PROVE LeftBehind'
    <2>1. file[u] \in Files
      BY <1>7 DEF Commit, UploadsInv, Opened
    <2>2. /\ Documents' = Documents \cup {mine[u]} /\ stored'[mine[u]] = file[u]
          /\ \A d \in Documents : d # mine[u] => stored'[d] = stored[d]
      BY <1>7 DEF Commit, Documents
    <2> QED BY <1>7, <2>1, <2>2 DEF Commit, LeftBehind
  <1>8. CASE UNCHANGED uploads
    BY <1>1, <1>8 DEF uploads
  <1> QED BY <1>2, <1>3, <1>4, <1>5, <1>6, <1>7, <1>8 DEF UploadsNext, Upload

\* Every upload is at a statement, with a file and an id of its own, and objects and
\* messages are those of ids that are taken.
THEOREM UploadsTyped == UploadsSpec => []UploadsTypeOK
  <1>1. UploadsInit => LeftBehind
    BY DEF UploadsInit, LeftBehind, Documents
  <1>2. UploadsInv /\ LeftBehind => UploadsTypeOK
    <2> SUFFICES ASSUME UploadsInv, LeftBehind PROVE UploadsTypeOK
      OBVIOUS
    <2>1. \A u \in Uploaders : mine[u] \in Ids \cup {NoId}
      BY DEF UploadsInv, LeftBehind
    <2>2. mine \in [Uploaders -> Ids \cup {NoId}]
      BY <2>1 DEF UploadsInv
    <2> QED BY <2>2 DEF UploadsInv, LeftBehind, UploadsTypeOK
  <1> QED BY <1>1, <1>2, LeftBehindIsKept, UploadsAlways, PTL DEF UploadsSpec

Times == 0..MaxNow
Work == [step : Steps, now : Times]

\* All that is ever recorded is a time the clock has shown.
TimesInv ==
    /\ clock \in Times
    /\ events \in Seq(Times) /\ authEvents \in Seq(Times)
    /\ thread \in [Threads -> Work]
    /\ Len(events) <= Attempts

LEMMA ZeroIsATime == 0 \in Times
  BY RateLimitAssumption DEF Times

LEMMA TimesInductive ==
  ASSUME TimesInv, [LimitNext]_limits
  PROVE  TimesInv'
  <1>1. CASE Tick
    <2>1. clock' \in Times
      BY <1>1, RateLimitAssumption DEF Tick, TimesInv, Times
    <2> QED BY <1>1, <2>1 DEF Tick, TimesInv
  <1>2. ASSUME NEW old \in 0..Len(events)
        PROVE  LET rest == SubSeq(events, old + 1, Len(events))
               IN  rest \in Seq(Times) /\ Len(rest) = Len(events) - old
    <2>1. events \in Seq(Times) /\ Len(events) \in Nat /\ old \in Nat
      BY DEF TimesInv
    <2>2. \A i \in (old + 1)..Len(events) : events[i] \in Times
      BY <2>1
    <2>3. /\ SubSeq(events, old + 1, Len(events)) \in Seq(Times)
          /\ Len(SubSeq(events, old + 1, Len(events)))
               = IF old + 1 <= Len(events) THEN Len(events) - (old + 1) + 1 ELSE 0
      BY <2>1, <2>2, SubSeqProperties
    <2> QED BY <2>1, <2>3
  <1>3. ASSUME NEW old \in 0..Len(events), Refuse(old) PROVE TimesInv'
    BY <1>2, <1>3, RateLimitAssumption DEF Refuse, TimesInv
  <1>4. ASSUME NEW old \in 0..Len(events), NEW length \in Lengths, Admit(old, length)
        PROVE  TimesInv'
    <2> DEFINE rest == SubSeq(events, old + 1, Len(events))
    <2>1. rest \in Seq(Times) /\ Len(rest) = Len(events) - old
      BY <1>2
    <2>2. events' = Append(rest, clock) /\ Len(rest) < Attempts
      BY <1>4, <2>1 DEF Admit
    <2> HIDE DEF rest
    <2>3. events' \in Seq(Times) /\ Len(events') <= Attempts
      BY <2>1, <2>2, RateLimitAssumption DEF TimesInv
    <2>4. thread' \in [Threads -> Work]
      <3>1. [Idle EXCEPT !.step = "clock"] \in Work
        BY ZeroIsATime DEF Idle, Work, Steps
      <3> QED BY <1>4, <3>1 DEF Admit, Route, TimesInv
    <2> QED BY <1>4, <2>3, <2>4 DEF Admit, TimesInv
  <1>5. ASSUME NEW t \in Threads, ReadClock(t) \/ TestHead(t) \/ Count(t) PROVE TimesInv'
    <2>1. /\ thread[t] \in Work /\ thread \in [Threads -> Work] /\ Idle \in Work
          /\ [step |-> "test", now |-> clock] \in Work
          /\ \A step \in Steps : [thread[t] EXCEPT !.step = step] \in Work
      BY ZeroIsATime DEF TimesInv, Idle, Work, Steps
    <2>2. thread' \in [Threads -> Work]
      BY <1>5, <2>1 DEF ReadClock, TestHead, Count, Goes, Steps
    <2>3. UNCHANGED <<clock, events, authEvents>>
      BY <1>5 DEF ReadClock, TestHead, Count
    <2> QED BY <2>2, <2>3 DEF TimesInv
  <1>6. ASSUME NEW t \in Threads, PopHead(t) PROVE TimesInv'
    <2>1. Idle \in Work /\ [thread[t] EXCEPT !.step = "test"] \in Work
      BY ZeroIsATime DEF TimesInv, Idle, Work, Steps
    <2>2. thread' \in [Threads -> Work]
      BY <1>6, <2>1 DEF PopHead, Goes, TimesInv
    <2>3. authEvents' \in Seq(Times)
      BY <1>6, HeadTailProperties DEF PopHead, TimesInv
    <2> QED BY <1>6, <2>2, <2>3 DEF PopHead, TimesInv
  <1>7. ASSUME NEW t \in Threads, Record(t) PROVE TimesInv'
    <2>1. thread[t].now \in Times /\ Idle \in Work
      BY ZeroIsATime DEF TimesInv, Idle, Work, Steps
    <2>2. authEvents' \in Seq(Times) /\ thread' \in [Threads -> Work]
      BY <1>7, <2>1 DEF Record, TimesInv
    <2> QED BY <1>7, <2>2 DEF Record, TimesInv
  <1>8. CASE UNCHANGED limits
    BY <1>8 DEF limits, TimesInv
  <1> QED BY <1>1, <1>3, <1>4, <1>5, <1>6, <1>7, <1>8 DEF LimitNext

\* The deques hold times the clock has shown, and the global one no more than the limit.
THEOREM LimitsTyped == LimitSpec => []LimitTypeOK
  <1>1. LimitInit => TimesInv
    BY RateLimitAssumption DEF LimitInit, TimesInv, Times, Work, Idle, Steps
  <1>2. TimesInv => LimitTypeOK
    BY DEF TimesInv, LimitTypeOK, Times, Work
  <1> QED BY <1>1, <1>2, TimesInductive, PTL DEF LimitSpec

-----------------------------------------------------------------------------
(* How far the authentication limiter overshoots.                           *)

\* Threads that have found room and not yet recorded.
Appending == {t \in Threads : thread[t].step = "append"}

\* Every thread but one may have counted before any of them appends.
Overshoot == Len(authEvents) + Cardinality(Appending) <= AuthAttempts + Cardinality(Threads) - 1

AuthDequeBounded == Len(authEvents) <= AuthAttempts + Cardinality(Threads) - 1

LEMMA FewAppend ==
  ASSUME IsFiniteSet(Threads)
  PROVE  /\ Cardinality(Threads) \in Nat
         /\ \A T \in SUBSET Threads : /\ IsFiniteSet(T) /\ Cardinality(T) \in Nat
                                      /\ Cardinality(T) <= Cardinality(Threads)
  BY FS_Subset, FS_CardinalityType

LEMMA OvershootInductive ==
  ASSUME IsFiniteSet(Threads), TimesInv, Overshoot, [LimitNext]_limits
  PROVE  Overshoot'
  <1>0. /\ Cardinality(Threads) \in Nat /\ Len(authEvents) \in Nat /\ AuthAttempts \in Nat
        /\ Appending \subseteq Threads /\ Appending' \subseteq Threads
        /\ IsFiniteSet(Appending)
        /\ Cardinality(Appending) \in Nat /\ Cardinality(Appending') \in Nat
        /\ Cardinality(Appending') <= Cardinality(Threads)
    <2>1. Appending \in SUBSET Threads /\ Appending' \in SUBSET Threads
      BY DEF Appending
    <2> QED BY <2>1, FewAppend, RateLimitAssumption DEF TimesInv
  <1>1. ASSUME Len(authEvents') <= Len(authEvents), Len(authEvents') \in Nat,
               Appending' \subseteq Appending
        PROVE  Overshoot'
    <2>1. Cardinality(Appending') <= Cardinality(Appending)
      BY <1>0, <1>1, FS_Subset
    <2> QED BY <1>0, <1>1, <2>1 DEF Overshoot
  <1>2. CASE Tick \/ (\E old \in 0..Len(events) : Refuse(old)) \/ UNCHANGED limits
    BY <1>0, <1>1, <1>2 DEF Tick, Refuse, limits, Appending
  <1>3. ASSUME NEW old \in 0..Len(events), NEW length \in Lengths, Admit(old, length)
        PROVE  Overshoot'
    <2>1. authEvents' = authEvents /\ (Route \/ UNCHANGED thread)
      BY <1>3 DEF Admit
    <2>2. ASSUME NEW t \in Threads,
                 thread' = [thread EXCEPT ![t] = [Idle EXCEPT !.step = "clock"]]
          PROVE  Appending' \subseteq Appending
      BY <2>2 DEF Idle, Appending, TimesInv, Work
    <2>3. Appending' \subseteq Appending
      <3>1. CASE UNCHANGED thread
        BY <3>1 DEF Appending
      <3> QED BY <2>1, <2>2, <3>1 DEF Route
    <2> QED BY <1>0, <1>1, <2>1, <2>3
  <1>4. ASSUME NEW t \in Threads, ReadClock(t) \/ TestHead(t) PROVE Overshoot'
    BY <1>0, <1>1, <1>4 DEF ReadClock, TestHead, Goes, Appending, TimesInv, Work
  <1>5. ASSUME NEW t \in Threads, PopHead(t) PROVE Overshoot'
    <2>1. Appending' \subseteq Appending
      BY <1>5 DEF PopHead, Goes, Idle, Appending, TimesInv, Work
    <2>2. Len(authEvents') \in Nat /\ Len(authEvents') <= Len(authEvents)
      BY <1>0, <1>5, HeadTailProperties DEF PopHead, TimesInv
    <2> QED BY <1>1, <2>1, <2>2
  <1>6. ASSUME NEW t \in Threads, Count(t) PROVE Overshoot'
    <2>1. CASE HasRoom
      BY <1>0, <1>6, <2>1 DEF Count, HasRoom, Overshoot
    <2>2. CASE ~HasRoom
      BY <1>0, <1>1, <1>6, <2>2 DEF Count, Idle, Appending, TimesInv, Work
    <2> QED BY <2>1, <2>2
  <1>7. ASSUME NEW t \in Threads, Record(t) PROVE Overshoot'
    <2>1. t \in Appending /\ Appending' = Appending \ {t}
      BY <1>7 DEF Record, Idle, Appending, TimesInv, Work
    <2>2. Cardinality(Appending') = Cardinality(Appending) - 1
      BY <1>0, <2>1, FS_RemoveElement
    <2>3. Len(authEvents') = Len(authEvents) + 1
      BY <1>7 DEF Record, TimesInv
    <2> QED BY <1>0, <2>2, <2>3 DEF Overshoot
  <1> QED BY <1>2, <1>3, <1>4, <1>5, <1>6, <1>7 DEF LimitNext

\* Without a lock the deque of the authentication limiter exceeds its limit by less than
\* the number of threads that may be in it at a time, however they interleave (what they
\* pop from under each other no longer counts).
THEOREM AuthOvershootIsBounded ==
  ASSUME IsFiniteSet(Threads)
  PROVE  LimitSpec => []AuthDequeBounded
  <1> DEFINE Inv == TimesInv /\ Overshoot
  <1>1. LimitInit => Inv
    <2> SUFFICES ASSUME LimitInit PROVE TimesInv /\ Overshoot
      OBVIOUS
    <2>1. TimesInv
      BY RateLimitAssumption DEF LimitInit, TimesInv, Times, Work, Idle, Steps
    <2>2. Appending = {} /\ Len(authEvents) = 0
      BY DEF LimitInit, Appending, Idle
    <2> QED BY <2>1, <2>2, FS_EmptySet, FewAppend, RateLimitAssumption DEF Overshoot
  <1>2. Inv /\ [LimitNext]_limits => Inv'
    BY TimesInductive, OvershootInductive
  <1>3. Inv => AuthDequeBounded
    <2> SUFFICES ASSUME TimesInv, Overshoot PROVE AuthDequeBounded
      OBVIOUS
    <2>1. Appending \in SUBSET Threads /\ Len(authEvents) \in Nat /\ AuthAttempts \in Nat
      BY RateLimitAssumption DEF Appending, TimesInv
    <2>2. Cardinality(Appending) \in Nat /\ Cardinality(Threads) \in Nat
      BY <2>1, FewAppend
    <2> QED BY <2>1, <2>2 DEF Overshoot, AuthDequeBounded
  <1> HIDE DEF Inv
  <1> QED BY <1>1, <1>2, <1>3, PTL DEF LimitSpec
=============================================================================
